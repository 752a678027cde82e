------------------------------- MODULE KeyDB -------------------------------
(* How the servers come by their databases.  On every machine data/main.go *)
(* is run by hand: parseDump reads a key dump and writes the latest key of *)
(* every email, in the order of a map, to one file; genChunks copies that  *)
(* file into chunks.  A command may be killed at any point, and a later    *)
(* one starts over it.  A server then loads the first files of the         *)
(* directory and lays the keys out as its scheme needs it (KeyTable,       *)
(* MerkleTree); the servers of the simulations draw their blocks instead.  *)
(*                                                                         *)
(* An email is a number, in the order of the strings, and 0 is none.  The  *)
(* fields of the messages of encoding/gob are kept, not their bytes.       *)
EXTENDS MerkleTree, SequencesExt

CONSTANTS
  NumServers,   \* servers, each on a machine of its own
  Schemes,      \* the flag -scheme of the servers of cmd/grpc
  Simulations,  \* that of the servers of simulations/multi
  Dumps,        \* Dumps[d]: the files in the directory of a dump
  Lower,        \* strings.ToLower
  keySizeLimit, \* 8 KiB
  hundredMb,    \* 100 MB, what a chunk may hold before the next is opened
  IDLen,        \* the length of an email
  RandomBlocks, \* [blocks, rows]: what the PRG of a simulation yields
  MaxCommands,  \* bound on the runs of data/main.go, for each machine
  MaxKills,     \* bound on those that are killed, for all
  MaxFiles,     \* bound on the flag -files
  Hash, KeysPerBlock, PacketLen, None

NoEmail == 0
Emails  == {Lower[email] : email \in DOMAIN Lower} \ {NoEmail}

\* PrimaryIdentity is external, and taken to depend on the key alone.
PrimaryEmail(e) ==
  LET others == e.others \ {NoEmail}
  IN  IF e.primary # NoEmail THEN Lower[e.primary]
      ELSE IF others = {} THEN NoEmail
      ELSE Lower[Min(others)]

\* m[k] = v
Put(m, k, v) == [x \in DOMAIN m \cup {k} |-> IF x = k THEN v ELSE m[x]]

AllEntities == UNION {ToSet(f.entities) : f \in UNION {ToSet(Dumps[d]) : d \in DOMAIN Dumps}}
EntityOf == [packet \in {e.packet : e \in AllEntities} |->
               CHOOSE e \in AllEntities : e.packet = packet]

KT == INSTANCE KeyTable WITH EmailOf <- [packet \in DOMAIN EntityOf |-> PrimaryEmail(EntityOf[packet])]

ASSUME KeyDBAssumption ==
  /\ NumServers \in Nat \ {0}
  /\ KeysPerBlock \in Nat \ {0}
  /\ keySizeLimit \in Nat /\ hundredMb \in Nat /\ IDLen \in Nat
  /\ None \notin Schemes /\ None \notin RandomBlocks
  /\ Schemes \subseteq {"complexPIR", "complexVPIR", "pointPIR", "pointVPIR"}
  /\ Simulations \subseteq {"pir-classic", "pir-merkle"}
  /\ \A email \in Emails : Hash[email] \in Nat

IsSeq(s) == s \in Seq({s[n] : n \in 1 .. Len(s)})

ASSUME DumpsAssumption ==
  /\ 0 \notin DOMAIN Dumps
  /\ \A d \in DOMAIN Dumps :
       /\ IsSeq(Dumps[d])
       /\ \A n \in 1 .. Len(Dumps[d]) : /\ Dumps[d][n].matches \in BOOLEAN
                                        /\ IsSeq(Dumps[d][n].entities)
  /\ \A email \in DOMAIN Lower : email \in Nat /\ Lower[email] \in Nat
  /\ \A e \in AllEntities :
       /\ {e.primary} \cup e.others \subseteq DOMAIN Lower
       /\ e.created \in Int /\ e.revoked \in BOOLEAN
       /\ IsSeq(e.packet) /\ Len(e.packet) > 0

\* A packet is of one key; those that can be stored have the length that
\* KeyTable takes packets to have.
ASSUME PacketsAssumption ==
  /\ \A e, f \in AllEntities : e.packet = f.packet => e = f
  /\ PacketLen \in Nat \ {0}
  /\ \A e \in AllEntities : Len(e.packet) <= keySizeLimit => Len(e.packet) = PacketLen

\* The blocks that a PRG yields have one length.
ASSUME RandomAssumption ==
  \A r \in RandomBlocks :
    /\ IsSeq(r.blocks) /\ r.blocks # <<>> /\ r.rows \in Nat \ {0}
    /\ \A n \in DOMAIN r.blocks : IsSeq(r.blocks[n]) /\ Len(r.blocks[n]) = Len(r.blocks[1])

VARIABLES
  scheme,   \* of the servers, None before one is started
  random,   \* what their PRG yields, in a simulation
  machine,  \* the one that is being prepared
  disk,     \* its sks-full.pgp and chunks, and how they were made
  pc,       \* the command under way
  dump, files,  \* parseDump: the dump, its files that are left
  el, keys,     \*   the entities of a file that are left, the key map
  left,         \*   the emails whose keys are still to be written
  pos, outputNum, numWrittenBytes,  \* genChunks
  commands, kills,  \* on this machine, on all
  server    \* server[k]: how it started, with which keys and database

net     == <<scheme, random>>
parse   == <<dump, files, el, keys, left>>
split   == <<pos, outputNum, numWrittenBytes>>
count   == <<commands, kills>>
vars    == <<net, machine, disk, pc, parse, split, count, server>>

NewFile == [keys |-> <<>>, torn |-> FALSE, dump |-> 0]

\* A dump number in made (a history of the model) says that genChunks has
\* copied all latest keys of that dump into the first made.number chunks.
Unmade == [dump |-> 0, number |-> 0]

NoFiles == [full |-> None, chunks |-> <<>>, made |-> Unmade]

Init ==
  /\ scheme \in {None} \cup Simulations
  /\ random \in IF scheme = None THEN {None} ELSE RandomBlocks
  /\ machine = 0 /\ disk = NoFiles
  /\ pc = "idle"
  /\ dump = 0 /\ files = <<>> /\ el = <<>> /\ keys = <<>> /\ left = {}
  /\ pos = 0 /\ outputNum = 0 /\ numWrittenBytes = 0
  /\ commands = 0 /\ kills = 0
  /\ server = <<>>

\* The machines share nothing, so that one is done before the next.
Idle == pc = "idle" /\ random = None /\ machine < NumServers

\* What a process knew goes with it.
Ends == /\ pc' = "idle"
        /\ dump' = 0 /\ files' = <<>> /\ el' = <<>> /\ keys' = <<>> /\ left' = {}
        /\ pos' = 0 /\ outputNum' = 0 /\ numWrittenBytes' = 0
-----------------------------------------------------------------------------
(* parseDump                                                               *)

GetSksOriginalDumpFiles(d) ==
  LET list[n \in 0 .. Len(Dumps[d])] ==
        IF n = 0 THEN <<>>
        ELSE IF Dumps[d][n].matches THEN Append(list[n - 1], Dumps[d][n]) ELSE list[n - 1]
  IN  list[Len(Dumps[d])]

StartParse(d) ==
  /\ Idle /\ commands < MaxCommands[machine]
  /\ pc' = "analyze"
  /\ dump' = d
  /\ files' = GetSksOriginalDumpFiles(d)
  /\ el' = <<>> /\ keys' = <<>> /\ left' = {}
  /\ commands' = commands + 1
  /\ UNCHANGED <<net, machine, disk, split, kills, server>>

\* A file is read as a whole; one that cannot be parsed ends the command.
ReadKeyRing ==
  /\ pc = "analyze" /\ el = <<>> /\ files # <<>>
  /\ IF Head(files).readable
     THEN /\ files' = Tail(files)
          /\ el' = Head(files).entities
          /\ UNCHANGED <<pc, dump, keys, left, split>>
     ELSE Ends
  /\ UNCHANGED <<net, machine, disk, count, server>>

\* Deviation: a key that is as old as the one before replaces it.
saveKeyIfValid_Dev(e, keyMap) ==
  LET email == PrimaryEmail(e)
  IN  IF e.revoked \/ email = NoEmail THEN keyMap
      ELSE IF email \notin DOMAIN keyMap \/ keyMap[email].created <= e.created
           THEN Put(keyMap, email, e)
           ELSE keyMap

saveKeyIfValid(e, keyMap) ==
  LET email == PrimaryEmail(e)
  IN  IF e.revoked \/ email = NoEmail THEN keyMap
      ELSE IF email \notin DOMAIN keyMap \/ keyMap[email].created < e.created
           THEN Put(keyMap, email, e)
           ELSE keyMap

SaveKey ==
  /\ pc = "analyze" /\ el # <<>>
  /\ keys' = saveKeyIfValid(Head(el), keys)
  /\ el' = Tail(el)
  /\ UNCHANGED <<net, machine, disk, pc, dump, files, left, split, count, server>>

OpenFull ==
  /\ pc = "analyze" /\ el = <<>> /\ files = <<>>
  /\ pc' = "write"
  /\ left' = DOMAIN keys
  /\ disk' = [disk EXCEPT !.full = NewFile]
  /\ UNCHANGED <<net, machine, dump, files, el, keys, split, count, server>>

\* Deviation: off by one.
TooLong_Dev(packet) == Len(packet) > keySizeLimit + 1

TooLong(packet) == Len(packet) > keySizeLimit

WriteKey(email) ==
  /\ pc = "write" /\ email \in left
  /\ left' = left \ {email}
  /\ disk' = IF TooLong(keys[email].packet) THEN disk
             ELSE [disk EXCEPT !.full.keys =
                     Append(@, [ID |-> email, Packet |-> keys[email].packet])]
  /\ UNCHANGED <<net, machine, pc, dump, files, el, keys, split, count, server>>

CloseFull ==
  /\ pc = "write" /\ left = {}
  /\ disk' = [disk EXCEPT !.full.dump = dump]
  /\ Ends
  /\ UNCHANGED <<net, machine, count, server>>
-----------------------------------------------------------------------------
(* genChunks                                                               *)

StartSplit ==
  /\ Idle /\ commands < MaxCommands[machine]
  /\ disk.full # None
  /\ pc' = "split"
  /\ pos' = 1 /\ outputNum' = 0 /\ numWrittenBytes' = 0
  /\ disk' = [disk EXCEPT !.made = Unmade]
  /\ commands' = commands + 1
  /\ UNCHANGED <<net, machine, parse, kills, server>>

\* sks-000.pgp is chunk 1; what an existing file held is overwritten.
Opened(chunks, n) == [i \in 1 .. IF n > Len(chunks) THEN n ELSE Len(chunks) |->
                        IF i = n THEN NewFile ELSE chunks[i]]

\* One turn of the loop: perhaps a new chunk, then a key, the end or an error.
SplitKey ==
  LET opens   == outputNum = 0 \/ numWrittenBytes > hundredMb
      n       == IF opens THEN outputNum + 1 ELSE outputNum
      chunks  == IF opens THEN Opened(disk.chunks, n) ELSE disk.chunks
      full    == disk.full
      written == IF opens THEN 0 ELSE numWrittenBytes
  IN  /\ pc = "split"
      /\ IF pos > Len(full.keys)
         THEN /\ Ends
              /\ disk' = [disk EXCEPT
                   !.chunks = chunks,
                   !.made = IF full.torn THEN Unmade
                            ELSE [dump |-> full.dump, number |-> n]]
         ELSE /\ outputNum' = n
              /\ pos' = pos + 1
              /\ numWrittenBytes' = written + IDLen + Len(full.keys[pos].Packet)
              /\ disk' = [disk EXCEPT !.chunks =
                   [chunks EXCEPT ![n].keys = Append(@, full.keys[pos])]]
              /\ UNCHANGED <<pc, parse>>
      /\ UNCHANGED <<net, machine, count, server>>

\* The command is killed, perhaps while it writes a message.
Kill ==
  /\ pc # "idle" /\ kills < MaxKills
  /\ kills' = kills + 1
  /\ Ends
  /\ \E torn \in BOOLEAN :
       disk' = CASE pc = "write" -> [disk EXCEPT !.full.torn = torn]
                 [] pc = "split" /\ outputNum > 0 ->
                      [disk EXCEPT !.chunks[outputNum].torn = torn]
                 [] OTHER -> disk
  /\ UNCHANGED <<net, machine, commands, server>>
-----------------------------------------------------------------------------
(* The databases                                                           *)

\* sort.Slice leaves open in which order keys of one email come.
Ambiguous(ks) == \E a, b \in ToSet(ks) : a.ID = b.ID /\ a # b

\* Deviation: the keys stay in the order of the files.
sortById_Dev(ks) == {ks}

sortById(ks) ==
  IF Ambiguous(ks)
  THEN {[n \in DOMAIN ks |-> ks[p[n]]] : p \in {q \in Bijection(DOMAIN ks, DOMAIN ks) :
          \A n \in 1 .. Len(ks) - 1 : ks[q[n]].ID >= ks[q[n + 1]].ID}}
  ELSE {KT!sortById(ks)}

Reason(why) == [outcome |-> why, db |-> None]
Up(db)      == [outcome |-> "up", db |-> db]

GetKeyInfoFromPacket(packet) ==
  [UserId |-> EntityOf[packet].primary, CreationTime |-> EntityOf[packet].created]

GenerateRealKeyDB(ks) ==
  Up([KeysInfo |-> [n \in DOMAIN ks |-> GetKeyInfoFromPacket(ks[n].Packet)]])

Size(ks) == CalculateNumRowsAndColumns(Len(ks) \div KeysPerBlock, TRUE)
HashTable(ks) == LET size == Size(ks) IN KT!makeHashTable(ks, size.rows * size.columns)

\* A hash modulo no bucket at all.
NoBuckets(ks) == ks # <<>> /\ Size(ks).rows = 0

\* Sequences of blocks, which are numbered from 0, one after the other.
InOrder(f) == FlattenSeq([n \in 1 .. Cardinality(DOMAIN f) |-> f[n - 1]])

MaxLen(f) == Max({Len(f[i]) : i \in DOMAIN f} \cup {0})

GenerateRealKeyBytes(ks) ==
  LET table  == HashTable(ks)
      blocks == KT!Blocks(table)
  IN  IF NoBuckets(ks) THEN Reason("noBuckets")
      ELSE Up([NumRows |-> Size(ks).rows, NumColumns |-> Size(ks).columns,
               BlockSize |-> MaxLen(table) + 1,
               BlockLengths |-> [i \in DOMAIN blocks |-> Len(blocks[i])],
               Entries |-> InOrder(blocks),
               ProofLen |-> 0, Root |-> None])

\* The blocks of the table with their proofs; there may be more in the tree.
makeMerkleEntries(blocks, tree, number) ==
  InOrder([i \in 0 .. number - 1 |->
             KT!PadWithSignalByte(blocks[i] \o EncodeProof(GenerateProof(tree, blocks[i])))])

MerkleDB(blocks, rows, columns) ==
  LET tree    == NewUsing(blocks)
      number  == rows * columns
      lengths == [i \in 0 .. number - 1 |-> Len(blocks[i]) + EncodedProofLength(tree) + 1]
  IN  IF DOMAIN blocks = {} THEN Reason("noBlocks")
      ELSE IF number > 0 /\ ProofPanics(tree) THEN Reason("noRoom")
      ELSE Up([NumRows |-> rows, NumColumns |-> columns,
               BlockSize |-> Max({lengths[i] : i \in DOMAIN lengths} \cup {0}),
               BlockLengths |-> lengths,
               Entries |-> makeMerkleEntries(blocks, tree, number),
               ProofLen |-> EncodedProofLength(tree), Root |-> Root(tree)])

GenerateRealKeyMerkle(ks) ==
  IF NoBuckets(ks) THEN Reason("noBuckets")
  ELSE MerkleDB(KT!Blocks(HashTable(ks)), Size(ks).rows, Size(ks).columns)

Complex(s) == s \in {"complexPIR", "complexVPIR"}

Generate(s, ks) == CASE Complex(s)       -> GenerateRealKeyDB(ks)
                     [] s = "pointPIR"  -> GenerateRealKeyBytes(ks)
                     [] s = "pointVPIR" -> GenerateRealKeyMerkle(ks)

Numbered(blocks) == [i \in 0 .. Len(blocks) - 1 |-> blocks[i + 1]]

\* Blocks that do not fill a row are dropped from the table, not from Entries.
CreateRandomBytes(blocks, rows) ==
  LET columns == Len(blocks) \div rows
      len     == Len(blocks[1])
  IN  Up([NumRows |-> rows, NumColumns |-> columns, BlockSize |-> len,
          BlockLengths |-> [i \in 0 .. rows * columns - 1 |-> len],
          Entries |-> FlattenSeq(blocks), ProofLen |-> 0, Root |-> None])

CreateRandomMerkle(blocks, rows) ==
  LET columns == Len(blocks) \div rows
  IN  MerkleDB(Numbered(blocks), rows, columns)
-----------------------------------------------------------------------------
(* The servers                                                             *)

\* The directory by name: the chunks, then sks-full.pgp.
GetAllFiles == disk.chunks \o IF disk.full = None THEN <<>> ELSE <<disk.full>>

Torn(list) == \E i \in DOMAIN list : list[i].torn

LoadKeysFromDisk(list) == FlattenSeq([i \in DOMAIN list |-> list[i].keys])

\* The next machine is prepared from nothing.
Started(from, ks, start) ==
  /\ server' = Put(server, machine, [dump |-> from, keys |-> ks,
                                     outcome |-> start.outcome, db |-> start.db])
  /\ machine' = machine + 1
  /\ disk' = NoFiles
  /\ commands' = 0

\* A server starts with the first n files of its machine, or ends at once.
Load(n) ==
  /\ Idle
  /\ scheme' \in IF scheme = None THEN Schemes ELSE {scheme}
  /\ LET list == SubSeq(GetAllFiles, 1, n)
         from == IF n = disk.made.number THEN disk.made.dump ELSE 0
     IN  IF n > Len(GetAllFiles) THEN Started(0, <<>>, Reason("noFile"))
         ELSE IF Torn(list) THEN Started(from, <<>>, Reason("torn"))
         ELSE \E ks \in sortById(LoadKeysFromDisk(list)) : Started(from, ks, Generate(scheme', ks))
  /\ UNCHANGED <<random, pc, parse, split, kills>>

CreateRandom ==
  /\ random # None /\ machine < NumServers
  /\ Started(0, <<>>, IF scheme = "pir-classic"
                      THEN CreateRandomBytes(random.blocks, random.rows)
                      ELSE CreateRandomMerkle(random.blocks, random.rows))
  /\ UNCHANGED <<net, pc, parse, split, kills>>

Ready == machine = NumServers /\ UNCHANGED vars

ParseDump == \/ \E d \in DOMAIN Dumps : StartParse(d)
             \/ ReadKeyRing \/ SaveKey \/ OpenFull \/ CloseFull
             \/ \E email \in left : WriteKey(email)
GenChunks == StartSplit \/ SplitKey

Next == \/ ParseDump \/ GenChunks \/ Kill
        \/ \E n \in 1 .. MaxFiles : Load(n)
        \/ CreateRandom \/ Ready

Spec == Init /\ [][Next]_vars
-----------------------------------------------------------------------------
IsUp(k) == server[k].outcome = "up"

IsFile(f) == /\ f.torn \in BOOLEAN
             /\ f.dump \in {0} \cup DOMAIN Dumps
             /\ \A i \in DOMAIN f.keys : Len(f.keys[i].Packet) <= keySizeLimit

\* Every key on a disk fits, is unrevoked and is filed under its own email, and
\* a chunk was over its limit by at most the key that made it so.
TypeOK ==
  /\ scheme \in Schemes \cup Simulations \cup {None}
  /\ pc \in {"idle", "analyze", "write", "split"}
  /\ machine \in 0 .. NumServers /\ DOMAIN server = 0 .. machine - 1
  /\ dump \in {0} \cup DOMAIN Dumps
  /\ \A email \in DOMAIN keys : PrimaryEmail(keys[email]) = email /\ ~keys[email].revoked
  /\ left \subseteq DOMAIN keys
  /\ disk.full # None => IsFile(disk.full)
  /\ \A i \in DOMAIN disk.chunks :
       LET chunk == disk.chunks[i]
       IN  IsFile(chunk) /\ (Len(chunk.keys) - 1) * (IDLen + 1) <= hundredMb
  /\ disk.made.number <= Len(disk.chunks)
  /\ \A k \in DOMAIN server :
       server[k].outcome \in {"up", "noFile", "torn", "noBuckets", "noBlocks", "noRoom"}

\* Servers that load all chunks that were made of one dump have equal
\* databases, although every machine wrote the keys in an order of its own, cut
\* other chunks and may still hold files of an earlier or a killed command.
SameDatabases ==
  \A k, l \in DOMAIN server :
    IsUp(k) /\ IsUp(l) /\ (random # None \/ (server[k].dump # 0 /\ server[k].dump = server[l].dump))
      => server[k].db = server[l].db

DumpEntities(d) ==
  LET list == GetSksOriginalDumpFiles(d)
  IN  FlattenSeq([i \in DOMAIN list |-> list[i].entities])

\* The first of the latest unrevoked keys of an email.
LatestOf(all, email) ==
  LET valid == {n \in DOMAIN all : ~all[n].revoked /\ PrimaryEmail(all[n]) = email}
      last  == {n \in valid : \A o \in valid : all[o].created <= all[n].created}
  IN  IF last = {} THEN {} ELSE {all[Min(last)]}

Latest(d, email) == LatestOf(DumpEntities(d), email)

\* What lib/server/point.go takes for block i, and what the client makes of it.
StoredBlock(db, i) ==
  LET end[j \in -1 .. i] == IF j = -1 THEN 0 ELSE end[j - 1] + db.BlockLengths[j]
  IN  SubSeq(db.Entries, end[i - 1] + 1, end[i])

Unpadded(db, i) == KT!UnPadBlock(StoredBlock(db, i))
Data(db, i) == IF db.ProofLen = 0 THEN StoredBlock(db, i)
               ELSE SubSeq(Unpadded(db, i), 1, Len(Unpadded(db, i)) - db.ProofLen)
Proof(db, i) == LET bytes == Unpadded(db, i)
                IN  DecodeProof(SubSeq(bytes, Len(bytes) - db.ProofLen + 1, Len(bytes)))

KeysIn(db, email) ==
  LET data == Data(db, KT!HashToIndex(email, db.NumRows * db.NumColumns))
      ring == KT!UnPadBlock(data)
  IN  IF data = <<>> \/ KT!Holders(ring, email) = {} THEN {}
      ELSE {KT!RecoverKeyFromBlock(ring, email)}

\* Databases never change: it is enough to look at them when one is new.
NewServer == disk = NoFiles /\ pc = "idle"

\* A server that loaded all chunks of a dump serves, under every email, the
\* first of its latest unrevoked keys, however the keys were spread over files,
\* written, cut into chunks and laid out - and none if that key is too large,
\* although an older one may not be.
LatestKeyServed ==
  \A k \in DOMAIN server : NewServer /\ IsUp(k) /\ server[k].dump # 0 =>
    LET fits(email) == {e \in Latest(server[k].dump, email) : Len(e.packet) <= keySizeLimit}
        db == server[k].db
    IN  IF Complex(scheme)
        THEN LET served == UNION {fits(email) : email \in Emails}
             IN  /\ Len(db.KeysInfo) = Cardinality(served)
                 /\ ToSet(db.KeysInfo) = {GetKeyInfoFromPacket(e.packet) : e \in served}
        ELSE \A email \in Emails :
               db.NumRows = 0 \/ KeysIn(db, email) = {e.packet : e \in fits(email)}

\* The blocks that go into the table and the tree of a server.
BlocksOf(k) == IF random = None THEN KT!Blocks(HashTable(server[k].keys)) ELSE Numbered(random.blocks)
HasTree == scheme \in {"pointVPIR", "pir-merkle"}

\* What the servers have is what KeyTable says.  The bytes at the place of a
\* block are that block; a proof cut out of them verifies a block against a
\* root, of this or another database, if and only if the block is at the place
\* of the proof in the blocks under that root, all others being equal; and a
\* server ends for want of room for a proof exactly where ProofFits says so.
KeyTableImplemented ==
  scheme # None /\ ~Complex(scheme) /\ NewServer =>
    \A k \in DOMAIN server :
      /\ server[k].outcome = "noRoom" => ~KT!ProofFits(BlocksOf(k))
      /\ IsUp(k) =>
           LET db == server[k].db
               at == DOMAIN db.BlockLengths
           IN  /\ \A i \in at : Data(db, i) = BlocksOf(k)[i] /\ db.BlockLengths[i] <= db.BlockSize
               /\ HasTree /\ at # {} => KT!ProofFits(BlocksOf(k))
               /\ HasTree => \A l \in {m \in DOMAIN server : IsUp(m)} :
                    \A i \in at, j \in DOMAIN BlocksOf(k) :
                      LET block == BlocksOf(k)[j]
                      IN  VerifyProof(block, Proof(db, i), server[l].db.Root)
                            = KT!VerifyProof(block, KT!ProofByte(KT!GenerateProof(BlocksOf(k), i)), BlocksOf(l))
=============================================================================
