----------------------------- MODULE Simulation -----------------------------
(* The single-server simulation of simulations/simul.go: for every length  *)
(* of the configuration a database is created with its digest, and blocks  *)
(* are retrieved from it one after the other, each with one query, answer  *)
(* and reconstruction of the scheme that the primitive names.              *)
(*                                                                         *)
(* The LWE retrievals pass the byte encodings of QueryBytes and            *)
(* AnswerBytes, where the simulation hands over the matrices themselves,   *)
(* and the server may hold another database than the one the digest was    *)
(* made of (held # db): that is what the clients' checks are for.          *)
EXTENDS SingleServer

CONSTANTS
  Primitives,     \* the primitives that configurations name
  Configs,        \* the sequences of database lengths they list
  Repeats,        \* simulation.Repetitions
  BlockBits,      \* 8 * simulation.BlockLength, of the preprocessing
  tECC,           \* the lengths with amplification parameters, and these
  HugeDB,         \* 1 << 33, too long for DH
  SmallDB,        \* 1024 * 1024: up to here SmallRoutines compute digests
  SmallRoutines,  \* 8
  NumCPUs,        \* the values that runtime.NumCPU may have
  Draws,          \* what an LWE client may draw, by the number of repetitions
  Draws128,       \* what an LWE128 client may draw
  None            \* nothing yet

ASSUME SimulationAssumption ==
  /\ Configs \subseteq Seq(Nat \ {0})
  /\ Repeats \in Nat \ {0} /\ BlockBits \in Nat \ {0}
  /\ SmallRoutines \in Nat \ {0}
  /\ NumCPUs \subseteq Nat \ {0} /\ IsFiniteSet(NumCPUs)
  /\ {0, 1} \cap {None, Reject, Undecoded, Invalid} = {}
  /\ Reject # Undecoded /\ Invalid \notin {Reject, Undecoded}
  /\ None \notin {Reject, Undecoded, Invalid} /\ None \notin Seq(Nat)

\* A client draws N words for its secret, one for the blind and a sample for
\* every row; the rows of a database are as many as its columns.
IsDraw(d, rows) == /\ d.secret \in Seq(Word) /\ Len(d.secret) >= N
                   /\ d.t \in Word
                   /\ d.e \in Seq(GaussSample) /\ Len(d.e) >= rows

ASSUME DrawsAssumption ==
  /\ \A length \in DOMAIN tECC : /\ tECC[length] \in Nat
                                 /\ Repetitions(tECC[length]) \in DOMAIN Draws
  /\ \A lens \in Configs : \A i \in DOMAIN lens :
       LET rows == CalculateNumRowsAndColumns(lens[i], TRUE).rows
       IN  /\ Len(SeedStream) >= N * rows
           /\ \A d \in Draws128 \cup UNION {Draws[n] : n \in DOMAIN Draws} : IsDraw(d, rows)

VARIABLES
  primitive, lengths,   \* the configuration
  pc,                   \* where the program is
  next,                 \* position of the length under way
  results,              \* experiment.Results: retrievals recorded per length
  db, held, digest,     \* database, what the server answers from, digest
  replies,              \* what the digest goroutines have sent
  order,                \* in which order they sent it
  index, draw,          \* block asked for, randomness of the client
  query, answer, result

config == <<primitive, lengths>>
base   == <<db, held, digest, replies, order>>
trip   == <<index, draw, query, answer, result>>
vars   == <<config, pc, next, results, base, trip>>

Ended == {"done", "fatal", "panic"}

DBLen == lengths[next]

\* The results of a length are n retrievals.
Recorded(n) == [length \in DOMAIN results \cup {DBLen} |->
                  IF length = DBLen THEN n ELSE results[length]]

BitMatrices(n) == [1 .. n -> {0, 1}]

Init ==
  /\ primitive \in Primitives
  /\ lengths \in Configs
  /\ pc = "config"
  /\ next = 1
  /\ results = <<>>
  /\ db = None /\ held = None /\ digest = None
  /\ replies = <<>> /\ order = <<>>
  /\ index = 0 /\ draw = None /\ query = <<>> /\ answer = <<>> /\ result = None

-----------------------------------------------------------------------------
validSimulation ==
  primitive \in {"cmp-vpir-dh", "cmp-vpir-lwe", "cmp-vpir-lwe-128", "preprocessing"}

Configure ==
  /\ pc = "config"
  /\ pc' = IF validSimulation THEN "length" ELSE "fatal"
  /\ UNCHANGED <<config, next, results, base, trip>>

\* DH does not run on the longest database.
SkipLength ==
  /\ pc = "length"
  /\ next <= Len(lengths)
  /\ primitive = "cmp-vpir-dh" /\ DBLen = HugeDB
  /\ next' = next + 1
  /\ UNCHANGED <<config, pc, results, base, trip>>

\* The measurement of the Merkle trees: RandomMerkleDB cuts the database into
\* random blocks, some of which may be equal, and repeats the tree and all of
\* its proofs.  There is no tree of no blocks, and a proof has room for the
\* path to the root only if the distinct blocks need as many levels as all.
RandomMerkleDB ==
  /\ pc = "length" /\ next <= Len(lengths)
  /\ primitive = "preprocessing"
  /\ LET numBlocks == DBLen \div BlockBits
     IN  \/ /\ numBlocks = 0
            /\ pc' = "fatal"
            /\ UNCHANGED <<next, results>>
         \/ \E distinct \in 1 .. numBlocks :
              \/ /\ Levels(distinct) < Levels(numBlocks)
                 /\ pc' = "panic"
                 /\ UNCHANGED <<next, results>>
              \/ /\ Levels(distinct) = Levels(numBlocks)
                 /\ next' = next + 1
                 /\ results' = Recorded(Repeats)
                 /\ pc' = "length"
  /\ UNCHANGED <<config, base, trip>>

\* The bits of the database are random; a faulty server holds any others.
NewDatabase(rows, cols) ==
  /\ \E bits \in BitMatrices(rows * cols) : db' = NewBytes(rows, cols, bits)
  /\ \E bits \in BitMatrices(rows * cols) : held' = NewBytes(rows, cols, bits)

Side == CalculateNumRowsAndColumns(DBLen, TRUE)

CreateRandomBinaryLWE ==
  /\ pc = "length" /\ next <= Len(lengths)
  /\ primitive = "cmp-vpir-lwe"
  /\ NewDatabase(Side.rows, Side.columns)
  /\ digest' = Digest(db', db'.rows)
  /\ pc' = IF DBLen \in DOMAIN tECC THEN "retrieve" ELSE "panic"
  /\ results' = Recorded(0)
  /\ UNCHANGED <<config, next, replies, order, trip>>

CreateRandomBinaryLWE128 ==
  /\ pc = "length" /\ next <= Len(lengths)
  /\ primitive = "cmp-vpir-lwe-128"
  /\ NewDatabase(Side.rows, Side.columns)
  /\ digest' = Digest128(db', db'.rows)
  /\ pc' = "retrieve"
  /\ results' = Recorded(0)
  /\ UNCHANGED <<config, next, replies, order, trip>>

\* One goroutine per share of the rows computes their digests.
NGoRoutines == IF DBLen <= SmallDB THEN {SmallRoutines} ELSE NumCPUs

CreateRandomEllipticWithDigest ==
  /\ pc = "length" /\ next <= Len(lengths)
  /\ primitive = "cmp-vpir-dh" /\ DBLen # HugeDB
  /\ NewDatabase(Side.rows, Side.columns)
  /\ \E n \in NGoRoutines : replies' = [i \in 1 .. n |-> None]
  /\ order' = <<>>
  /\ digest' = None
  /\ pc' = "digest"
  /\ results' = Recorded(0)
  /\ UNCHANGED <<config, next, trip>>

Least(a, b) == IF a < b THEN a ELSE b

\* The rows of goroutine i; only the end is held back to the last row.
rowsPerRoutine == (db.rows + Len(replies) - 1) \div Len(replies)
Begin(i) == (i - 1) * rowsPerRoutine
End(i)   == Least(i * rowsPerRoutine, db.rows)

ComputeDigests(i) ==
  /\ pc = "digest"
  /\ i \in DOMAIN replies /\ replies[i] = None
  /\ Begin(i) <= End(i)
  /\ replies' = [replies EXCEPT ![i] = computeDigests(Begin(i), End(i), db)]
  /\ order' = Append(order, i)
  /\ UNCHANGED <<config, pc, next, results, db, held, digest, trip>>

\* A goroutine that would begin after the last row makes a slice of negative
\* capacity.
RoutinePanics(i) ==
  /\ pc = "digest"
  /\ i \in DOMAIN replies /\ replies[i] = None
  /\ Begin(i) > End(i)
  /\ pc' = "panic"
  /\ UNCHANGED <<config, next, results, base, trip>>

\* The chunks are taken in the order of the goroutines, whoever is first.
CollectDigests_Dev ==
  /\ pc = "digest"
  /\ \A i \in DOMAIN replies : replies[i] # None
  /\ digest' = FlattenSeq([x \in DOMAIN order |-> replies[order[x]]])
  /\ order' = <<>> /\ replies' = <<>>
  /\ pc' = "retrieve"
  /\ UNCHANGED <<config, next, results, db, held, trip>>

CollectDigests ==
  /\ pc = "digest"
  /\ \A i \in DOMAIN replies : replies[i] # None
  /\ digest' = FlattenSeq(replies)
  /\ order' = <<>> /\ replies' = <<>>
  /\ pc' = "retrieve"
  /\ UNCHANGED <<config, next, results, db, held, trip>>

-----------------------------------------------------------------------------
(* One retrieval.                                                          *)
Params == ParamsWithDatabaseSize(db.rows, db.cols)
Params128 == ParamsWithDatabaseSize128(db.rows, db.cols)
Reps == Repetitions(tECC[DBLen])

\* Row and column of the block.
Row(i)    == VectorToMatrixIndices(i, db.cols)[1]
Column(i) == VectorToMatrixIndices(i, db.cols)[2]

\* A random block and the client's randomness are drawn, and the query made.
Asks(draws) ==
  /\ pc = "retrieve"
  /\ results[DBLen] < Repeats
  /\ index' \in 0 .. db.rows * db.cols - 1
  /\ draw' \in draws
  /\ answer' = <<>> /\ result' = None
  /\ pc' = "asked"
  /\ UNCHANGED <<config, next, results, base>>

AmplifyQueryBytes ==
  /\ primitive = "cmp-vpir-lwe"
  /\ Asks([1 .. Reps -> Draws[Reps]])
  /\ query' = AmplifyQuery(Params, Row(index'), draw')

LWE128QueryBytes ==
  /\ primitive = "cmp-vpir-lwe-128"
  /\ Asks(Draws128)
  /\ query' = Matrix128ToBytes(LWE128Query(Params128, Row(index'), draw'))

DHQueryBytes ==
  /\ primitive = "cmp-vpir-dh"
  /\ Asks([r : 0 .. P - 1, t : 0 .. P - 1])
  /\ query' = DHQuery(db.cols, Column(index'), draw')

Answers(a) ==
  /\ answer' = a
  /\ pc' = "answered"
  /\ UNCHANGED <<config, next, results, base, index, draw, query, result>>

AmplifyAnswerBytes ==
  /\ pc = "asked" /\ primitive = "cmp-vpir-lwe"
  /\ Answers(AmplifyAnswer(query, held))

LWE128AnswerBytes ==
  /\ pc = "asked" /\ primitive = "cmp-vpir-lwe-128"
  /\ Answers(Matrix128ToBytes(LWE128Answer(BytesToMatrix128(query), held)))

\* The server has no answer to a query with the identity in it.
DHAnswerBytes ==
  /\ pc = "asked" /\ primitive = "cmp-vpir-dh"
  /\ IF UnmarshalFails(query, ElementSize(held.cols))
     THEN pc' = "fatal" /\ UNCHANGED <<config, next, results, base, trip>>
     ELSE Answers(DHAnswer(query, held))

Reconstructs(r) ==
  /\ result' = r
  /\ pc' = "reconstructed"
  /\ UNCHANGED <<config, next, results, base, index, draw, query, answer>>

AmplifyReconstructBytes ==
  /\ pc = "answered" /\ primitive = "cmp-vpir-lwe"
  /\ Reconstructs(AmplifyReconstruct(Params, digest, Column(index), draw, answer))

LWE128ReconstructBytes ==
  /\ pc = "answered" /\ primitive = "cmp-vpir-lwe-128"
  /\ Reconstructs(LWE128Reconstruct(Params128, digest, Column(index), draw,
                                    BytesToMatrix128(answer)))

DHReconstructBytes ==
  /\ pc = "answered" /\ primitive = "cmp-vpir-dh"
  /\ Reconstructs(DHReconstruct(db.rows, db.cols, digest, Row(index),
                                Column(index), draw, answer))

\* An error of the reconstruction ends the program; a value is not looked at.
StoreResults_Dev ==
  /\ pc = "reconstructed"
  /\ IF result \in {0, 1}
     THEN pc' = "retrieve" /\ UNCHANGED results
     ELSE pc' = "fatal" /\ UNCHANGED results
  /\ UNCHANGED <<config, next, base, trip>>

StoreResults ==
  /\ pc = "reconstructed"
  /\ IF result \in {0, 1}
     THEN pc' = "retrieve" /\ results' = [results EXCEPT ![DBLen] = @ + 1]
     ELSE pc' = "fatal" /\ UNCHANGED results
  /\ UNCHANGED <<config, next, base, trip>>

NextLength_Dev ==
  /\ pc = "retrieve"
  /\ results[DBLen] = Repeats
  /\ next' = next + 1
  /\ pc' = IF next < Len(lengths) THEN "length" ELSE "done"
  /\ results' = (DBLen :> Repeats)
  /\ UNCHANGED <<config, base, trip>>

NextLength ==
  /\ pc = "retrieve"
  /\ results[DBLen] = Repeats
  /\ next' = next + 1
  /\ pc' = "length"
  /\ UNCHANGED <<config, results, base, trip>>

\* The results are written.
Finish ==
  /\ pc = "length"
  /\ next > Len(lengths)
  /\ pc' = "done"
  /\ UNCHANGED <<config, next, results, base, trip>>

Terminated == pc \in Ended /\ UNCHANGED vars

Retrieval ==
  \/ AmplifyQueryBytes \/ AmplifyAnswerBytes \/ AmplifyReconstructBytes
  \/ LWE128QueryBytes \/ LWE128AnswerBytes \/ LWE128ReconstructBytes
  \/ DHQueryBytes \/ DHAnswerBytes \/ DHReconstructBytes
  \/ StoreResults

Step ==
  \/ Configure \/ SkipLength \/ NextLength \/ Finish \/ RandomMerkleDB
  \/ CreateRandomBinaryLWE \/ CreateRandomBinaryLWE128
  \/ CreateRandomEllipticWithDigest \/ CollectDigests
  \/ \E i \in DOMAIN replies : ComputeDigests(i) \/ RoutinePanics(i)
  \/ Retrieval

Next == Step \/ Terminated

Spec == Init /\ [][Next]_vars
-----------------------------------------------------------------------------
(* Properties.                                                             *)
LWEBased == {"cmp-vpir-lwe", "cmp-vpir-lwe-128"}

\* Distance to zero modulo Q, and the blinds that noise can take for zero.
Distance(x)  == Least(x % Q, (-x) % Q)
Ambiguous(t) == Distance(t) <= 2 * Params.B

HoldsWords(m) == \A x \in DOMAIN m.data : m.data[x] \in Word

\* Every variable holds what the code keeps there: words reduced modulo Q,
\* exponents modulo P, matrices that conform to each other and keep their
\* dimensions on the wire, and no more results than repetitions.
TypeOK ==
  /\ pc \in {"config", "length", "digest", "retrieve", "asked", "answered",
             "reconstructed"} \cup Ended
  /\ next \in 1 .. Len(lengths) + 1
  /\ \A n \in DOMAIN results : results[n] \in 0 .. Repeats
  /\ db # None => /\ db.rows = db.cols
                  /\ Len(db.data) = db.rows * db.cols
                  /\ DOMAIN held.data = DOMAIN db.data
  /\ pc = "retrieve" /\ primitive \in LWEBased =>
       /\ digest.rows = N /\ digest.cols = db.cols
       /\ HoldsWords(digest)
  /\ pc = "asked" /\ primitive = "cmp-vpir-lwe-128" =>
       LET m == BytesToMatrix128(query) IN Conform(m, held) /\ HoldsWords(m)
  /\ pc = "answered" /\ primitive = "cmp-vpir-lwe-128" =>
       LET m == BytesToMatrix128(answer) IN m.cols = db.cols /\ HoldsWords(m)
  /\ pc = "asked" /\ primitive = "cmp-vpir-lwe" =>
       \A k \in 1 .. Reps :
         LET m == BytesToMatrices(query)[k] IN Conform(m, held) /\ HoldsWords(m)
  /\ pc = "answered" /\ primitive = "cmp-vpir-lwe" =>
       \A k \in 1 .. Reps :
         LET m == BytesToMatrices(answer)[k] IN m.cols = db.cols /\ HoldsWords(m)
  /\ pc \in {"asked", "answered"} /\ primitive = "cmp-vpir-dh" =>
       /\ \A x \in DOMAIN query : query[x] \in 0 .. P - 1
       /\ \A x \in DOMAIN answer : answer[x] \in 0 .. P - 1
  /\ result \in {None, 0, 1, Reject, Undecoded, Invalid}

\* The digest of an elliptic database lists every row once and in order,
\* however many goroutines computed it and whichever ended first
\* (database/elliptic.go): row i of the client is row i of the server.
DigestsInOrder ==
  pc = "retrieve" /\ primitive = "cmp-vpir-dh" =>
    digest = computeDigests(0, db.rows, db)

Judged == pc = "reconstructed" /\ held = db
Stored == db.data[index + 1]
Repetition == IF primitive = "cmp-vpir-lwe" THEN draw ELSE <<draw>>

\* The samples are those that the bound B is made for.  A client draws others,
\* but hardly ever: every sample above 54 needs a uniform number of exactly 0.
Typical(d) == \A x \in 1 .. db.rows : d.e[x] \in -(BoundPerRow - 1) .. BoundPerRow - 1

\* The repetitions that may read the stored bit wrong or not at all.
Unclear == {k \in DOMAIN Repetition : \/ ~Typical(Repetition[k])
                                      \/ Stored = 1 /\ Ambiguous(Repetition[k].t)}
MostlyUnclear == 2 * Cardinality(Unclear) > Len(Repetition)

ZeroRow(r) == \A c \in 0 .. db.cols - 1 : Get(db, r, c) = 0

\* A client does not fail on a server that answers from the database of the
\* digest, but for reasons that can be named: with typical samples the error
\* of every column stays within B of zero, although LWE128 takes negative
\* samples one lower, so a rejection means a sample from the tail; the
\* decoding of Amplify, which ecc.go calls a majority vote but whose candidate
\* is always the first word, fails only if the first repetition or most of
\* them are unclear; and only a row without a bit makes an encoding that DH cannot read.
HonestIsAccepted ==
  Judged => /\ result = Reject => /\ primitive \in LWEBased
                                  /\ \E k \in DOMAIN Repetition : ~Typical(Repetition[k])
            /\ result = Undecoded => 1 \in Unclear \/ MostlyUnclear
            /\ result = Invalid => /\ primitive = "cmp-vpir-dh"
                                   /\ \E r \in 0 .. db.rows - 1 : ZeroRow(r)

\* What a client reconstructs from an honest answer is the bit stored at the
\* index it asked for, as lwe128_test.go, amplify_test.go and dh_test.go
\* expect; the exceptions are a 1 read as 0 because the blind of DH is zero,
\* and an LWE client most of whose repetitions are unclear, because of samples
\* from the tail or of a blind within noise of zero.
HonestIsStored ==
  Judged /\ result \in {0, 1} /\ result # Stored =>
    \/ primitive = "cmp-vpir-dh" /\ result = 0 /\ draw.t = 0
    \/ primitive \in LWEBased /\ MostlyUnclear

\* By how much column c of the answer to one query is off because the server
\* does not hold the database of the digest.
Deviation(q, c) ==
  Get(BinaryMul(q, held), 0, c) - Get(BinaryMul(q, db), 0, c)

Undetectable(q, t, c) ==
  \E shift \in {0, t, -t} : Distance(Deviation(q, c) + shift) <= 2 * Params.B + 1

SameRow(r) == \A c \in 0 .. db.cols - 1 : Get(held, r, c) = Get(db, r, c)

\* An answer from whatever other database than the one of the digest is
\* accepted by an LWE client with typical samples only if it is off by no more
\* than noise or by the blind, in every column and not only in the one asked
\* for; in the group, only if every row is the row of the digest.
DeviationIsCaught ==
  pc = "reconstructed" /\ result \notin {Reject, Invalid} =>
    CASE primitive = "cmp-vpir-lwe-128" ->
           Typical(draw) => \A c \in 0 .. db.cols - 1 :
             Undetectable(BytesToMatrix128(query), draw.t, c)
      [] primitive = "cmp-vpir-lwe" ->
           \A c \in 0 .. db.cols - 1, k \in 1 .. Reps : Typical(draw[k]) =>
             Undetectable(BytesToMatrices(query)[k], draw[k].t, c)
      [] primitive = "cmp-vpir-dh" -> \A r \in 0 .. db.rows - 1 : SameRow(r)

\* A simulation that says it terminated successfully has recorded every
\* repetition for every length of its configuration but the skipped ones.
ResultsAreComplete ==
  pc = "done" =>
    \A i \in DOMAIN lengths :
      \/ lengths[i] \in DOMAIN results /\ results[lengths[i]] = Repeats
      \/ primitive = "cmp-vpir-dh" /\ lengths[i] = HugeDB

\* What is left to do: lengths, goroutines that have not sent their digests,
\* repetitions, and the steps of the retrieval under way.
PerLength == 4 * Repeats + SmallRoutines + Cardinality(UNION {1 .. n : n \in NumCPUs}) + 3
Pending   == Cardinality({i \in DOMAIN replies : replies[i] = None})
ToRetrieve == (Len(lengths) - next) * PerLength + 4 * (Repeats - results[DBLen])

Remaining ==
  CASE pc \in Ended          -> 0
    [] pc = "config"         -> (Len(lengths) + 2) * PerLength
    [] pc = "length"         -> (Len(lengths) + 1 - next) * PerLength + 1
    [] pc = "digest"         -> ToRetrieve + 3 + Pending
    [] pc = "retrieve"       -> ToRetrieve + 2
    [] pc = "asked"          -> ToRetrieve + 1
    [] pc = "answered"       -> ToRetrieve
    [] pc = "reconstructed"  -> ToRetrieve - 1

\* Every step brings the simulation nearer to its end: no goroutine computes
\* its digests twice, no repetition is run again and none is forgotten.  As
\* some step is always possible, every simulation ends.
StepsCountDown == [][Remaining' < Remaining]_vars
=============================================================================
