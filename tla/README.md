# A TLA+ model of the authenticated PIR system

This directory specifies the program of this repository, a private information
retrieval (PIR) system for PGP keys, in TLA+. Modules model its parts, TLC
checks them on small instances, and TLAPS proves the central results for every
value of the constants. Paths are relative to `src/`.

How to run, in this directory: `tlc -config FssTree.cfg MCFssTree.tla` checks
one configuration, `tlapm FssTreeProofs.tla` one proof module. `PROJECT.json`
lists the runs, the deviations each property detects, the source lines of every
definition, the hazards and the theorems.

## 1. The system

A *client* wants a key, or a statistic over keys, from two (or more) *servers*
that hold the same database, without telling any of them what it asks for. The
client shares its query, sends one share to each server, adds the answers and,
in the authenticated variants, checks them before it accepts.

| component | state | operations | hard because |
|---|---|---|---|
| gRPC server process, `cmd/grpc/server/main.go` | `queryChan` (10 places), the wrapper the worker holds, two private reply channels per call, `sigCh`, `errCh` | `Query`, `startWorker`, `stopWorker`, shutdown in `main` | goroutines per call, one worker, full buffer, contexts that end at any time, a signal at any time |
| function secret sharing, `lib/fss` | the two keys, seed and control bit per level; scratch buffers per `Fss` | `GenerateTreePF`, `EvaluatePF` | client and server compute the same levels with different code; 32-bit words beside a 31-bit prime; shared scratch |
| query identifiers, `lib/query` | none | `To...ClientFSS`, `IdFor...` | both sides must derive the same bits from different data: dates with zones, free text for an algorithm |
| predicate queries, `lib/client/fss.go`, `lib/server/fss.go` | the client's alphas, each server's accumulators | `queryBytes`, `answer`, `reconstruct` | order of answers, clocks, keys that are skipped, empty averages, indices out of range |
| client programs, `cmd/grpc/client` (command line, `manager`) | connections, database info, answers in flight | `runQueries`, `retrieveDBInfo`, `GetKey` | parallel RPCs, process exit on an error, arrival order |
| multi-server point PIR, `lib/client/pir_point.go`, `lib/server/point.go`, `lib/client/client.go` | row and column asked for, one bit vector or DPF key per server | `Query`, `Answer`, `Reconstruct` | bit positions in bytes, rows of unequal blocks, padding, which of two encodings the server expects |
| front ends, `cmd/grpc/client/web`, `.../interactive`, `simulations/multi` | one job per HTTP request, menu choice or retrieval; the connections of an `Actor`; scratch buffers of the simulation's server | HTTP handlers, menu, repeated retrievals | concurrent requests over the same connections, replies behind errors, one failure that ends the process |
| Merkle trees, `lib/merkle`, `lib/database/merkle.go` | nodes, map from content to index | `NewUsing`, `GenerateProof`, `VerifyProof`, encodings | sizes that are no power of two, equal blocks |
| key database, `lib/pgp`, `lib/database/pgp.go`, `data/main.go` | keys by e-mail, key files, hash table, block lengths | dump analysis, chunks, loading, table construction, padding, look-up | duplicates, empty buckets, order of keys on different servers, commands that are killed, files of earlier commands |
| single-server PIR, `lib/client/{lwe,lwe128,dh,amplify}.go` and servers, `lib/matrix`, `lib/ecc` | secret, blind, digest | `Query`, `Answer`, `Reconstruct`, `Encode`, `Decode` | modular overflow, negative noise, samples from the tail, blinds within noise of zero, the encoding of the identity |
| single-server simulations, `simulations/{simul,preprocessing}.go`, `lib/database/{lwe,elliptic}.go` | database, digest, results per length | database and digest creation, one retrieval after the other, measurement of Merkle trees | goroutines that share the rows, lengths without parameters |
| utilities, generated protocol code, monitoring, systemd notification | | | I/O |

How they interact: a front end asks every server for its database info, compares
the infos, builds a client (`lib/client`) from the first, encodes the query with
`lib/query`, and sends the shares in parallel RPCs. Each RPC becomes a goroutine
of the server process, which hands the query to the single worker; the worker
calls `AnswerBytes` of `lib/server`, which evaluates `lib/fss` (or a DPF, or bit
vectors) over `lib/database`. The answers come back in any order and
`ReconstructBytes` combines them.

What makes each part correct:

- server process: a reply reaches its own caller; the worker never blocks; no
  accepted query is lost; every call returns; a signal ends the process, cleanly;
- FSS: the two shares add up to the point function, for every input;
- identifiers and predicate queries: an accepted result is the true count or
  average of what the query means; honest servers are never rejected; the query ends;
- point PIR: the block reconstructed is the block stored, and a block that does
  not verify is rejected; a key is found exactly if it is stored;
- front ends: answers are not mixed up between requests, a reply with status 200
  is complete, programs die only of a cause, every request ends, and no two
  evaluations share scratch buffers;
- Merkle trees: a proof verifies a block exactly if the block is at its place;
- key database: equal dumps give equal databases; the latest key of every email is
  served; padding is undone exactly;
- single-server PIR: decoding is exact within the noise bound, deviating servers
  are rejected, digests are in order and no repetition is lost.

## 2. Modules

| module | models | used by |
|---|---|---|
| `QueryService` | what callers of the Query RPC may rely on (abstract) | `QueryServer` |
| `QueryServer` | the goroutines of the server process | `MCQueryServer`, `QueryServerProofs` |
| `FssTree` | key generation and evaluation of a two-party point function | `MCFssTree`, `FssTreeProofs` |
| `QueryIds` | the bits both sides derive, and what a query means to its user | `PredicateQuery` |
| `PredicateQuery` | one complex query from end to end | `MCPredicateQuery` |
| `Dimensions` | rows, columns and levels of a database or tree | `KeyTable`, `MerkleTree`, `SingleServer` |
| `KeyTable` | the database of the point schemes as operators: hash table, padding, Merkle entries, look-up in a block | `PointPIR`, `KeyDB` |
| `PointPIR` | the retrieval of one key from servers that may be restarted | `MCPointPIR` |
| `MerkleTree` | the tree, its proofs and their wire form, with symbolic hashes | `KeyDB` |
| `KeyDB` | from a key dump to the database of each server | `MCKeyDB` |
| `FrontEnds` | web server, menu and simulation client, each with its servers | `MCFrontEnds` |
| `Matrix` | `lib/matrix` modulo a word size | `SingleServer` |
| `SingleServer` | LWE, LWE128, Amplify, DH and the codes of `lib/ecc` as operators | `Simulation` |
| `Simulation` | the single-server experiments from configuration to results | `MCSimulation` |
| `MC...` | finite values for the constants | runs |
| `...Proofs` | invariants, theorems and proofs about the module of that name | |
| `DataTheorems` | induction, sums, flattening, orders and arithmetic for the proofs | `PredicateQueryProofs`, `FrontEndsProofs`, `PointPIRProofs`, `KeyDBProofs`, `SimulationProofs` |

**`QueryServer`.** One record of where each handler is (`pc`), the buffer of
`queryChan` and the FIFO of senders parked on it (`queue`, `sendq`), the query
in the worker's hands, the two reply buffers of each call, the set of calls whose
context is done, and the place of the main goroutine. One action per step
between two communications: `Enqueue`, `Park` and `SendPanics` are the three
outcomes of the send in `Query`, the `Return...` actions the three branches of
its select, `Receive`, `SendAnswer`, `SendError` and `WorkerExits` the body of
the worker's loop, `StopWorker`, `GracefulStop` and `Exit` the shutdown. A query may be
one that makes `AnswerBytes` panic (`AnswerPanics`): nothing recovers in the worker, and the
process dies. Calls may start until `GracefulStop` has ended, also after `queryChan` is closed. A reply
is represented by the query it was computed from, so that a reply that reaches
the wrong caller is visible. `DatabaseInfo` reads constants and is left out.

**`FssTree`.** A seed is a set of bits and XOR is symmetric difference; the
generator `G` is an arbitrary function from seeds to two child nodes and the
conversion `Raw` an arbitrary function from seeds to 31-bit words, so nothing
depends on AES. `GenLevel` and `GenFinal` are the client's loop and its end,
`EvalLevel(k)` and `EvalFinal(k)` those of server `k`; the servers interleave.
`gen` remembers every level of the generation (the code keeps the last), to state
that the servers retrace it. The positions of the output vector are independent;
one is modelled. `toElement` is modelled with its resampling.

**`QueryIds` and `PredicateQuery`.** An identifier is a sequence with one element
per byte; a hash of an address is a single element, and an encoded date has the instant and the
zone. `Meant` says, in terms of the data, which keys a query is about, independently of
how either side encodes it, with two reservations that the code imposes: a date is that date in UTC
(`SameDate`), which no key read from a key ring has, and a name that `ToPKAClientFSS` does not know is that
of algorithm 0 (`AlgoOf`). Finding 4 shows what the first means to a user. `PredicateQuery` runs the client and both servers: `Ask` shares the query,
each server takes one key of the database per step (`SkipKey`, `SkipFuture`,
`CountKey`, `EvaluationPanics`), answers arrive in any order (`Receive`), an RPC
may fail (`RpcFails`), the year may change (`NewYear`), and `Reconstruct` checks
the tags and ends the query. FSS is used at the contract that `FssTreeProofs`
proves: one server's word exceeds the other's by the point vector exactly where
the inputs agree.

**`KeyTable` and `PointPIR`.** A byte is a set of atoms and XOR is symmetric
difference: sums cancel exactly when the bytes are equal, and garbage is never
mistaken for a key. A Merkle tree is used at its contract (a root is the list of
blocks, a proof the list without one), with the look-up by content that makes
equal blocks share a proof; a wire proof is one byte. `sort.Slice` leaves open
which of two keys with one email comes first, and here it is the one that did
before (`Rank`). `PointPIR` has one record
per server of the database it has loaded, the infos in the order of arrival, the
query and answer of each server, and where the client is. `GetInfo`,
`CompareInfos`, `Query` and `Reconstruct` are the client (`Actor.GetKey` and the
command line's `retrieveKeyGivenId` take the same steps), `Answer` and
`AnswerPanics` a server, `Reload` a restart on other key files, after which an RPC for an
info or for an answer may fail and end the client (`RpcFails`). What a server
makes of a DPF key it does not evaluate, or evaluates at another depth, is any
vector.

With Merkle proofs the client accepts only blocks of the root it was given, but
not always the block it asked for: while servers hold different files, two equal
blocks of one row cancel and leave another block of the row with its valid
proof, whose index the client does not compare with its own. The key is then
reported as not found. `AcceptedIsStored` states what does hold.

**`MerkleTree` and `KeyDB`.** A hash is the tuple of what was hashed. `KeyDB`
takes two machines from an empty directory to a loaded server, one machine after
the other, because they share nothing. `StartParse`, `ReadKeyRing`, `SaveKey`, `OpenFull`,
`WriteKey` (in the order of a Go map: any) and `CloseFull` are `parseDump` of
`data/main.go`; `StartSplit` and `SplitKey` are `genChunks`. `Kill` ends a
command anywhere and may leave a torn message; the next command starts over what
is there, so stale chunks and `sks-full.pgp` stay in the directory. `Load(n)`
starts a server with the first `n` files by name, in one of three layouts, or
ends it with a cause (`Reason`); `CreateRandom` is the server of `simulations/multi`.
The primary identity of a key is external, and deterministic. `KeyTableImplemented` is
the link to `PointPIR`: at every place the bytes of `KeyDB`, with real tree
proofs, are what `KeyTable` says, and a proof verifies exactly what a proof of
`KeyTable` verifies. Two facts that the properties have to state as
they are: a latest key that is too large hides an older one that is not
(`saveKeyIfValid` runs before `WriteKeysOnDisk` looks at the size), and a server
that asks for more files than `genChunks` wrote last takes stale ones without
notice, which is why `SameDatabases` and `LatestKeyServed` are about servers
that load all chunks made of one dump.

**`FrontEnds`.** A job is an HTTP request, a menu choice or a retrieval of the
simulation. `CheckForm`, `DatabaseInfo`, `SendQueries`, `Answer`, `Reconstruct` and
`InfosDiffer` take it from its arguments to its reply, with the difference
between the programs in `Ends`: the web replies (two handlers write a
count behind the error, and net/http recovers a panic), the menu and the simulation die. The
servers of `cmd/grpc` answer through the worker's queue, those of the simulation in
their handlers. An answer is known by job, share and version of the files: what
the cryptography makes of it, the arrival order and the Merkle root of the first
info are in `PointPIR` and `PredicateQuery`. An expired deadline and a broken
connection are a failed RPC, which ends the program. A restart of a server loses the queries
it had and any of those on their way to it, and may fail the requests for its info
(`InfoFails`). The web server and the menu use their built-in configuration
(`StaticConfig`) or read one, in the order of a Go map.

**`Matrix`, `SingleServer` and `Simulation`.** Words are integers modulo `Q`. The
128-bit sampler subtracts a negative sample from the largest word, as the code does, so it is one
lower. A group element is the vector of its exponents over the columns, whose
hashes are independent. An element is encoded in one size but the identity, which has one byte; what
the code makes of the bytes, slice by slice, is `UnmarshalFails` and
`UnmarshalGroupElements`. The samples are all those of the table (`MaxSample`), whatever
bound the client allows per row (`BoundPerRow`). `Simulation` runs `simul.go`: the database with its digest (for DH in goroutines, one of which may
begin behind the last row and panic), then `Query`, `Answer` and `Reconstruct`
of every repetition. `RandomMerkleDB` is the measurement of Merkle trees, at the level of how many of
its random blocks are distinct. The LWE retrievals pass through the byte encodings, and the
server may hold any other database of the same shape than the one of the digest,
which is what the checks of the clients are for.

## 3. Runs and bounds

| run | instance | question |
|---|---|---|
| `QueryServer` | 4 calls (1 rejected, 1 that panics in the worker), queue of 1, failing `Serve` possible | `TypeOK`, `OwnReply`, `WorkerNeverBlocks`, `WaitingIsServed`, `CleanStop`, `EveryCallReturns`, `SignalEndsProcess`, `ImplementsService` |
| `QueryServerShutdown` | 3 calls, queue of 1 | `NoPanic` is violated |
| `FssTree` | 2-bit seeds, depth 2, modulus 3 | `TypeOK`, `Lockstep`, `PointFunction` |
| `FssTreeResample` | as before, one seed converts to the modulus | `PointFunction` is violated |
| `PredicateQuery` | two-key databases, requests of every kind, modulus 13, one tag | `TypeOK`, `AcceptedIsTrue`, `HonestIsAccepted`, `PanicMeansEmpty`, `QueryEnds` |
| `PredicateQueryMapOrder` | as before, connections in a map | `AcceptedIsTrue` is violated |
| `PredicateQueryCreation` | as `PredicateQuery` | `CreatedBefore` is violated |
| `PointPIR` | 2x2 tables with an empty bucket, an empty row and buckets of two keys, a 1x1 and a 3x3 table; 2 servers with DPF keys, 3 with bit vectors and no proofs; one restart | `TypeOK`, `StoredKeyFound`, `AcceptedIsStored`, `DeliveredIsStored`, `RetrievalEnds` |
| `PointPIRGrpc` | 2 servers as `cmd/grpc/server` builds them | `StoredKeyFound` is violated |
| `KeyDB` | 2 machines, 3 dumps, 3 emails, at most 4 and 3 commands, one killed | `TypeOK`, `SameDatabases`, `LatestKeyServed`, `KeyTableImplemented` |
| `FrontEnds` | 2 jobs, 2 servers per database, 3 versions of the files, one fault | `TypeOK`, `OwnAnswers`, `RepliesAreTrue`, `ScratchUnshared`, `RetrievalsInRange`, `DeathHasCause`, `EveryJobEnds` |
| `Simulation` | words modulo 32, up to 2x2 databases, 2 repetitions, every primitive | `TypeOK`, `DigestsInOrder`, `HonestIsAccepted`, `HonestIsStored`, `DeviationIsCaught`, `ResultsAreComplete`, `StepsCountDown` |

Why the bounds are enough. *QueryServer*: four calls on a queue of one reach a
busy worker, a full buffer and parked senders at once, together with expired
handlers before, in and after the queue, and with a query that ends the process; symmetry is declared in
`QueryServerShutdown` only, for the accepted calls. The theorems remove the bound
for the safety properties. *FssTree*:
depth 2 has a level that agrees after one that differs and the reverse, all
point/input pairs occur, the generator is chosen without symmetry between its
halves, and both control bits occur at every level. The theorems remove the
bound. *PredicateQuery*: the databases hold an address that matches, one that is
too short, one created in the future and one created, in the zone of the host, on the very
instant that a creation query encodes, and one whose date was set in UTC as `complex_test.go` does;
the requests name an algorithm that is known and one
that is not, of which there is a key; the masks include 0, the value whose negation is the
modulus; alphas include 0 and 1. The modulus 13 exceeds every count and sum of
the instance, as 2^31 - 1 exceeds those of the real database. One year change is
modelled (bound: `Years`).

*PointPIR*: two of the versions agree in all that the client compares and differ in
every bucket, so mixed answers are added up; the others have other dimensions, so
that infos differ, and after a restart answers or bit vectors are too short and
DPF depths disagree.
Bytes have two bits, so that two columns need a second byte, as eight do in the
code; the random vectors are three (bound: `RandomBits`), among them the empty
one and one with a bit beyond the table; one server is restarted once (bound:
`reloaded`). `FilesAssumption` excludes files with which a server cannot start.

*KeyDB*: the dumps have renewed, revoked and nameless keys, ties, a latest key
that is too large, a file that does not match and one that cannot be read; a
chunk holds fewer keys than a dump, so that a dump makes several; one machine
has room for a second parse and split over the files of the first (bounds:
`MaxCommands`, `MaxKills`, `MaxFiles`). A block holds one key (`KeysPerBlock`;
ten in the code), so that three keys make a 2x2 table with an empty bucket and a
shared one. The random databases have up to six blocks in one or two rows, equal
ones among them, so trees have zero to three levels and padding.

*FrontEnds*: two requests are what it takes to mix answers up; all pairs of
kinds and forms occur. Two versions of the files agree in their infos and one
does not. One fault (a restart, a stop, a deadline, an unanswered connection;
bound: `MaxFaults`) may strike at any moment. The flags make one retrieval of
one block repeated, one of two blocks, one that asks for all blocks, statistics and
an unknown scheme. One client program is modelled at a time (bound).

*Simulation*: blinds lie on both sides of the noise bound and of half the words,
errors take both signs, one draw has a sample (6) that exceeds the bound of two rows (4) by
itself, all pairs of databases of the lengths occur, with rows without a bit, and every
block is asked for. The preprocessing has trees of none, one and two blocks. Lengths have no amplification parameters, one repetition and three;
two to four goroutines (eight, or one per CPU) share one or two rows, so one may
have nothing to do or begin behind the end.

`Finished`, `Quiet`, `Ready` and `Terminated` stutter where the program has ended, so deadlock
checking is on in every run.

**Fairness.** `QueryServer` assumes weak fairness of each handler, of the worker
and of the main goroutine: the Go scheduler is preemptive and runs every
runnable goroutine. Arrivals, expiring contexts, signals and failures of `Serve`
are not fair. `PredicateQuery` assumes it of the client's goroutines and of a
live server's loop and answer, and that gRPC reports a broken connection to a
dead server; no other RPC is assumed to fail, no year to end. `PointPIR` assumes
weak fairness of the client and of the servers together, and none of restarts.
`FrontEnds` assumes it of the main goroutine, of each job and of each server,
which runs the rest of what it has begun; not of arrivals, users or faults.
`Simulation` assumes none: `StepsCountDown` says that every step lowers a
measure, and deadlock checking that a step is possible until the end. `KeyDB` has no
liveness property: commands are run by hand.

## 4. Findings

Each is a run that violates one property; `PROJECT.json` quotes the lines.

1. `NoPanic`: `main` closes `queryChan` before the handlers are done, so a call
   that has started and not yet sent its query panics during a clean shutdown.
2. `PointFunction` under `FssTreeResample`: a seed that converts to the modulus is
   replaced by randomness that client and servers do not share.
3. `AcceptedIsTrue` under `PredicateQueryMapOrder`: the command-line client gives
   the queries to its connections in map order; swapped keys negate data and
   tags together, and a wrong count passes the integrity check.
4. `CreatedBefore`: a creation query compares with one date, November 30 of the year before
   in UTC, and does not count the keys created before a year; as the encoded date includes the
   zone, and keys have that of the host, it does not even count the keys of that instant.
5. `StoredKeyFound` under `PointPIRGrpc`: the server program never tells a point
   server that it is one of two, so it reads DPF keys as bit vectors and a
   two-server client does not find stored keys.

Where the code differs from what one would expect of it in a case that has a name, the
properties name the case instead of excluding it:

- A count by an algorithm that `ToPKAClientFSS` does not know (`lib/query/query.go:92-103`), for
  example the `ed25519` of the comment at `cmd/grpc/client/web/mod.go:306`, is sent as a count of
  algorithm 0 and accepted. `AcceptedIsTrue` therefore says that such a name means algorithm 0
  (`AlgoOf`): an accepted count of it is true of that algorithm only.
- The sampler's table has 129 entries, so samples go up to 128 (`lib/utils/gauss.go:5-25`, 36),
  while the client allows 84 per row (`lib/utils/lwe.go:65-68`): samples from the tail can make it
  reject an honest server or read another bit, which `lwe128_test.go:37` and `amplify_test.go:40`
  do not expect. The probability is negligible, since a sample above 54 needs a random `Float64` of exactly
  0; no probability is stated here. `HonestIsAccepted`, `HonestIsStored` and
  `DeviationIsCaught` say what holds for draws that are `Typical` and for those that are not.
- A row without a bit has the identity as its digest and its tag, which is encoded in one
  byte (`lib/database/elliptic.go:84`, 112) where the client cuts slices of one size
  (`lib/client/dh.go:86`): it cannot read them, and the simulation ends, where
  `dh_test.go:43` expects no error. Likely in short rows, improbable in long
  ones. It is the one cause (`ZeroRow`) that `HonestIsAccepted` leaves to an encoding error.
- `Decode` (`lib/ecc/ecc.go:25-33`), announced as a "Boyer-Moore Majority Vote algorithm", never
  replaces its first candidate and returns an error when the first word is wrong, whatever the
  majority is. It finds the majority only if the first word has it, so `HonestIsAccepted` names the
  first repetition among the causes of a failure to decode (`1 \in Unclear`).

## 5. Proofs

Every listed theorem holds for all values of the constants that satisfy the named
assumptions of the modules; TLC evaluates those assumptions on each run. The
theorems about states state an invariant that a run of section 3 checks.

**`QueryServerProofs`** (any number of calls, any buffer, any sets of rejected
and of panicking queries; assumption `ConstantsOK`). `TypeOK` alone does not carry `OwnReply` or
`WaitingIsServed`: the inductive invariant `IInv` says where each call's query is.
It adds that queue and parked senders hold no call twice and only calls in the
matching place of their handler (`QueueInv`, `SendqInv`), that the worker's query
is in neither (`WorkerInv`), that a call which has not been enqueued has empty
reply channels (`FreshInv`), that a reply channel holds at most the reply to its
own call (`ReplyInv`), and that a stopped process has no active handler
(`StopInv`). From it follow the four safety properties and, step by step, the
safety part of the refinement to `QueryService` (`ImplementsServiceSafety`).

**`FssTreeProofs`** (any depth, modulus, generator, conversion, seed length;
assumption `FssConstants`). `TypeCorrect` includes that no share exceeds the
modulus, so the servers' additions do not overflow. `LockstepHolds` needs a
strengthening in which two servers at different depths can be compared: the
invariant `Walked` says that there is a walk, a sequence of node pairs starting
at the roots, on which both servers are, which equals the generated levels while
the input agrees with the point and consists of equal nodes afterwards.
`PointFunctionHolds` combines it with the algebra of the final word. Its two
hypotheses are explicit: `Supported` (the input is no longer than the 256 bits
that FSS supports) and `NoResample` (no seed converts to the modulus), which
finding 2 shows to be necessary.

**`PredicateQueryProofs`** (any databases, requests, years and alphas, any modulus
that exceeds the counts and sums; assumptions `QueryConstants`,
`RequestAssumption`, `DatabaseAssumption`, `FieldAssumption`). All but
`TypeCorrect` are for clients that keep their connections in order (`~MapOrder`),
which finding 3 shows to be necessary. The invariant relates the two servers key
by key although they are at different places: each accumulator is, modulo the
field, the sum of its words over the keys that it has passed and not left out
(`AccumulatorInv`), for every year that it may have computed with. Where a key
matches the request the two words of a component add up to 1 or to the alpha of
the component, elsewhere to 0 (`SharesOfKey`); the lemmas about sums modulo a
number give what the client computes from the two answers (`Totals`): the true
count or sum of ages, with tags that match (`TagsOfMultiple`). `FieldAssumption`,
that these are less than the modulus, is what makes the residue the number itself.
`AcceptedCorrect` is about every request: nothing is assumed of the text that names an algorithm or of
the zones of dates.
`HonestAccepted` shows that a client rejects nothing but an average across a change
of year; there the two servers leave out and weigh keys differently.

**`FrontEndsProofs`** (any jobs, servers, versions of the files, flags and numbers
of faults; assumptions `FrontEndsAssumption`, `FlagsAssumption`). The invariant
is the conjunction of nine parts: types (`TInv`); which jobs exist and where they
are (`JobsInv`), one at a time for the menu and the simulation (`OneByOne`); what
a job has been told and asked (`CallInv`); that the queue of a server holds a
share once and only such as a job waits for (`QueueInv`), that one evaluation at
a time uses the buffers of an Fss (`EvalInv`) and what the connections carry
(`ChannelInv`); what happened when a fault is recorded (`FaultInv`); and the
bounds of a run of blocks (`IndexInv`). `OwnAnswersReconstructed` needs `CallInv` and `ChannelInv`,
`ScratchOfOne` needs `QueueInv` and `EvalInv`, `RunsRetrieved` needs `IndexInv`.
`RepliesTrue` and `DeathsCaused` are inductive relative to all of it. The steps are
grouped by what they change (`KindsOfSteps`), so that each part of the invariant
is proved for few kinds.

**`PointPIRProofs`** (any key files, deployments, numbers of servers, hash
function and random vectors; assumptions `LengthsAssumption`, `ByteBitsAssumption`,
`DeploymentsAssumption`, `IdsAssumption`, `FilesAssumption`, `KeysAssumption`,
`EmailsAssumption`). The invariant says that servers have the databases of their
files (`NetInv`), that the infos are of different servers and still of their files
unless one was restarted (`InfosInv`), that the queries add up to the wanted
column (`CallInv`, with `Asked`), that every answer is computed from some
version's database (`AnswersInv`) and, while all servers have the same files and
understand their queries, from that database and exactly the columns asked for
(`ExactInv`), and that a verified block is one of the first server's (`BlockInv`).
The core of `StoredKeyIsFound` is a double count: the column that the client wants
is the only one that an odd number of servers is asked for, an atom is in the sum
of answers if it is in an odd number of them, and counting the pairs of a
server and a column by rows and by columns gives the same parity (`OddExchange`),
so the answers add up to the wanted entry (`SharesCancel`, `HonestSum`). The rest
is about the database: `sortById` is a permutation (`Sorted`), a bucket of the
table is a ring of exactly the keys that hash to it (`TableRings`), padding is
undone (`UnPadded`), and a ring is searched for the email (`RingLookup`).
`StoredKeyIsFound` has the hypothesis that exactly the deployments of two servers
are given point functions, which finding 5 shows to be necessary. `AcceptedStored`
and `DeliveredStored` need no such hypothesis and hold across restarts: a proof
in a sum of whatever answers was made by a server (`SumProofs`), so what verifies
is a block of the root (`VerifiedBlock`).

**`KeyDBProofs`** (any dumps, limits, schemes, orders of walking the key map and of
equal keys, numbers of machines, commands and kills; assumptions
`KeyDBAssumption`, `DumpsAssumption`, `PacketsAssumption`: a packet is of one key,
and those that can be stored have the length `KeyTable` takes packets to have;
`RandomAssumption`: the blocks a PRG yields have one length). `SameDatabases` speaks of servers on
different machines that were prepared one after the other, so the invariant says
of each what it has, in terms of the dump alone. While a dump is analyzed, the
entities seen and those to come are the dump, and the key map holds for each email
the first of the latest unrevoked keys seen (`AnalyzeInv`); what has been
written is the keys of the emails that are done, without those that are too long
(`WriteInv`), hence a closed `sks-full.pgp` enumerates `Served(dump)`, each key once
(`FullInv`); the chunks written so far, flattened, are the copied prefix of the full file
(`SplitInv`), and so all chunks are all of it (`MadeInv`); a server's keys are those of its
files in descending order of their emails, and two descending enumerations of one set are one
sequence (`SameKeys`), so that equal dumps give equal databases. Killed commands
are covered because a file that is not closed carries no dump. `LatestKeysLoaded` is the
first half of `LatestKeyServed`: the keys with which a server starts are
exactly the latest ones, one for each email. The order in which a file is written and
how it is cut differ between machines; nothing in the invariant depends on them.

The second half, `LatestKeysServed`, is about the layout and needs no more of the
behaviour than that a database is the one generated from the server's keys
(`ServerInv`). A bucket is a ring of exactly the keys that hash to it (`TableRight`),
in which the email finds its packet and no other (`FoundIsLatest`). The server takes a
block out of one array by the sums of the lengths before it (`Cut`, `PlainBlock`);
with proofs, the encoding of a proof has the length the client strips, and decodes to
what was encoded (`EncodedProof`, `MerkleBlock`). That
the encoding fits into the byte for its number of hashes is where a server that is up
differs from one that ended (`MerkleIs`).

`KeyTableIsImplemented` is what the theorems of `PointPIRProofs` rest on: the abstract
proofs of `KeyTable` accept and reject what the real ones do. It too is about one state
(`ServerLaid`: whichever layout a server has, its blocks are those of its table).
The nodes of a tree are a recursive function, which exists and is
determined by the blocks (`TreeNodes`). A leaf, a branch and the zeros beyond the
last leaf are different hashes, and a leaf carries its index, so that trees with one root
have one height and the same blocks (`RootDecides`). The tree with one
block replaced has the old nodes off the path from that block to the root (`OffPath`),
and the siblings on the path are what a proof holds (`PathHashes`), so that a
proof with a block hashes to the root of the tree with that block in the place the proof was made for,
the last place where the old block occurs (`ProofHash`). A root of
another server is the same only if its blocks are those (`Verified`), which is when
`KeyTable` accepts (`TableVerified`). The room for a proof is
counted by the number of distinct blocks, its hashes by the depth: the server ends, or comes up,
as these differ or agree (`RoomIs`).

**`SimulationProofs`** (any configurations, databases, repetitions and numbers of
processors; assumptions `SimulationAssumption`, `DrawsAssumption`, `SingleServerAssumption`,
`MatrixAssumption`). `ResultsAreComplete` speaks of the end only and of a map that is
keyed by length, although a configuration may list a length twice, and the second
time its results start again from none: `CourseInv` says at every moment of each length
before the current one that it was skipped, is complete, or is the current one again.
`DigestInv` says what each goroutine has sent, namely the digests of its own share of
the rows, and what the digest is afterwards. `DigestsInOrder` then needs no order of
arrival but a fact about the shares: they are successive, and together are all rows
(`SharesCover`), also when their rounded size lets the last ones begin behind the end,
where the goroutine panics and nothing is collected. Joining the chunks
(`ChunksJoin`, `ChunksCover`) gives what one goroutine would have computed. `StepsCountDown`
is an action property and needs all of it: the bound counts the goroutines
(`ReplyInv`) that have not sent, a reply is not to be mistaken for none, and the
retrievals still to come of the current length must not be negative. The lemmas
before them say what the C loops over flat arrays compute, as sums, and that products
of matrices associate modulo the word size (`multiplyIs`, `BinaryMulIs`, `Associates`).

The theorems about single retrievals, `HonestServersAreAccepted`, `HonestBitsAreStored` and
`DeviationsAreCaught`, speak of a result alone, while what makes it right are the draw, the query
and the answer behind it. `TripInv` keeps them together: the databases keep their shape, a
retrieval under way has a drawable secret and blind and exactly the query made of them, and so on
to answer and result; it needs `CourseInv`, because the parameters are those of the current
length, and `DigestInv`. What is left is a fact about each scheme, for one retrieval with any two
databases of one shape. For LWE and LWE128 (`LWEOutcome`, `LWE128Outcome`), associativity takes the
secret out of the answer, and what remains of a column is a sum of errors, the
blind times the bit asked for, and the deviation of the server's database
(`RemainderIs`). No relation between the samples and the bound of the client is assumed. A draw is
`Typical` if its samples are less than `BoundPerRow` (84) in size; then the errors are at most
one less than that per row, LWE128's one more below zero, and so within the bound. A draw that is
not typical is an exception named in the properties, like a blind within noise of zero, because the
code leaves both to chance (section 4). The repetitions of Amplify are `LWEOutcome` once
each, and the majority of them decides (`DecodesHonest`). For DH the product of the tags is the
tag of the product (`TagIs`), and the exponents decide (`DHOutcomeIs`); the bytes of elements none
of which is the identity are read back as they were, and if one is, some slice is no
element. `SimulationTypes` adds that the hand-written
encodings bring every matrix back with its dimensions.

**`DataTheorems`** holds what these share: induction over numbers and over finite
sets, sums and arithmetic modulo a number. The library's induction theorems take
an operator, which the provers cannot instantiate; here induction is stated over a
set, the set of the values for which a fact holds (`LeastNumber`, `UpTo`, `Subsets`), and
derived from well-foundedness, so that recursive functions and folds can be
reasoned about.

Every invariant and every action property of the passing runs is a theorem. Only
model-checked are the temporal properties `EveryCallReturns`, `SignalEndsProcess`,
`QueryEnds`, `RetrievalEnds` and `EveryJobEnds`, and the liveness part of
`ImplementsService`, whose safety part is proved: the proof system does no liveness under
fairness. That a simulation comes to an end is proved as far as safety goes, by `StepsCountDown`.

## 6. Not modelled, and the plan

Left out for good: generated code, TLS and profiling, monitoring, systemd
notification, logging, page templates, the time and byte counts and the result files of the
simulations, and cryptographic strength: AES, BLAKE and DPFs are arbitrary or
injective functions. Wire encodings are the identity where both sides encode and
decode with the same library; the program's own ones (matrices, Merkle proofs,
bit vectors, padding) are modelled.

Also not modelled: the random key infos of the complex simulation; connecting,
flags and profiling of the command-line client; and code that no program calls.

Of the plan nothing is left to prove that the proof system can. Two numeric
edges in the hazards of `PROJECT.json` are covered by no property; their notes say why.
