---------------------------- MODULE KeyDBProofs ----------------------------
(***************************************************************************)
(* That servers which load all chunks of a dump have the same database,    *)
(* which serves the latest keys of that dump and is what KeyTable says it  *)
(* is, for any dumps, limits, commands, kills and numbers of servers.      *)
(***************************************************************************)
EXTENDS KeyDB, DataTheorems

DumpFiles == UNION {ToSet(Dumps[d]) : d \in DOMAIN Dumps}

\* The keys that may be on a disk.
Stored == {[ID |-> PrimaryEmail(e), Packet |-> e.packet] :
             e \in {x \in AllEntities : /\ PrimaryEmail(x) # NoEmail
                                        /\ ~x.revoked /\ ~TooLong(x.packet)}}

DumpNumbers == {0} \cup DOMAIN Dumps
FileRecord == [keys : Seq(Stored), torn : BOOLEAN, dump : DumpNumbers]
DiskRecord == [full : FileRecord \cup {None}, chunks : Seq(FileRecord),
               made : [dump : DumpNumbers, number : Nat]]
-----------------------------------------------------------------------------
(* The key map.                                                             *)

Valid(list, email) == {n \in 1..Len(list) : ~list[n].revoked /\ PrimaryEmail(list[n]) = email}

\* Entry n is the first of the latest unrevoked ones of the email.
IsLatest(list, email, n) ==
  /\ n \in Valid(list, email)
  /\ \A o \in Valid(list, email) : /\ list[o].created <= list[n].created
                                   /\ o < n => list[o].created < list[n].created

IsKeyMap(map, list) ==
  /\ DOMAIN map \subseteq Emails
  /\ \A email \in Emails :
       IF email \in DOMAIN map
       THEN \E n \in 1..Len(list) : IsLatest(list, email, n) /\ map[email] = list[n]
       ELSE Valid(list, email) = {}

EntitiesOf(list) == FlattenSeq([i \in DOMAIN list |-> list[i].entities])

\* What servers that load a dump should have.
Served(d) == {r \in Stored : \E email \in Emails : \E e \in Latest(d, email) :
                r = [ID |-> email, Packet |-> e.packet] /\ ~TooLong(e.packet)}

Written(map, done) == {[ID |-> email, Packet |-> map[email].packet] :
                         email \in {x \in done : ~TooLong(map[x].packet)}}

\* Every element of S once, and no two with one ID.
Enumerates(list, S) ==
  /\ list \in Seq(S)
  /\ \A r \in S : \E n \in 1..Len(list) : list[n] = r
  /\ \A m, n \in 1..Len(list) : list[m].ID = list[n].ID => m = n

Descends(list) == \A m, n \in 1..Len(list) : m < n => list[m].ID > list[n].ID

Loaded(chunks, n) == LoadKeysFromDisk(SubSeq(chunks, 1, n))
-----------------------------------------------------------------------------
(* The inductive invariant.                                                 *)

NetType ==
  /\ scheme \in Schemes \cup Simulations \cup {None}
  /\ random = None => scheme \in Schemes \cup {None}
  /\ random # None => scheme \in Simulations /\ random \in RandomBlocks
  /\ machine \in 0..NumServers /\ DOMAIN server = 0..(machine - 1)
  /\ \A k \in DOMAIN server :
       server[k].outcome \in {"up", "noFile", "torn", "noBuckets", "noBlocks", "noRoom"}

ParseType ==
  /\ pc \in {"idle", "analyze", "write", "split"} /\ (random # None => pc = "idle")
  /\ dump \in DumpNumbers /\ (pc \in {"analyze", "write"} => dump # 0)
  /\ files \in Seq(DumpFiles) /\ el \in Seq(AllEntities)
  /\ \A email \in DOMAIN keys : PrimaryEmail(keys[email]) = email /\ ~keys[email].revoked
  /\ left \subseteq DOMAIN keys

DiskType ==
  /\ disk \in DiskRecord
  /\ pc \in {"write", "split"} => disk.full \in FileRecord
  /\ disk.made.number <= Len(disk.chunks)
  /\ pos \in Nat /\ outputNum \in Nat /\ numWrittenBytes \in Nat

AnalyzeInv ==
  pc = "analyze" =>
    LET all == DumpEntities(dump)
    IN  \E n \in 0..Len(all) :
          LET done == SubSeq(all, 1, n)
          IN  done \o (el \o EntitiesOf(files)) = all /\ IsKeyMap(keys, done)

WriteInv ==
  pc = "write" => /\ IsKeyMap(keys, DumpEntities(dump))
                  /\ disk.full.dump = 0
                  /\ Enumerates(disk.full.keys, Written(keys, DOMAIN keys \ left))

FullInv == disk.full # None /\ disk.full.dump # 0 =>
             Enumerates(disk.full.keys, Served(disk.full.dump))

SplitInv ==
  pc = "split" => /\ disk.full # None /\ disk.made = Unmade
                  /\ pos \in 1..(Len(disk.full.keys) + 1)
                  /\ outputNum <= Len(disk.chunks)
                  /\ Loaded(disk.chunks, outputNum) = SubSeq(disk.full.keys, 1, pos - 1)

\* How large a chunk is, and the one that is being written.
Large(chunk) == Len(chunk.keys) * (IDLen + 1)
SizeInv ==
  /\ \A i \in 1..Len(disk.chunks) : Large(disk.chunks[i]) <= hundredMb + (IDLen + 1)
  /\ pc = "split" /\ outputNum # 0 => Large(disk.chunks[outputNum]) <= numWrittenBytes

MadeInv == disk.made.dump # 0 => Enumerates(Loaded(disk.chunks, disk.made.number), Served(disk.made.dump))

Drawn(sch, drawn) == IF sch = "pir-classic" THEN CreateRandomBytes(drawn.blocks, drawn.rows)
                     ELSE CreateRandomMerkle(drawn.blocks, drawn.rows)

Has(s, start) == s.outcome = start.outcome /\ s.db = start.db

\* What a server is that had files it could read.
IsRight(s, sch, drawn) ==
  /\ s.dump \in DumpNumbers
  /\ drawn # None => s.dump = 0
  /\ s.outcome \notin {"noFile", "torn"} =>
       IF drawn # None THEN Has(s, Drawn(sch, drawn))
       ELSE /\ sch # None /\ s.keys \in Seq(Stored) /\ Has(s, Generate(sch, s.keys))
            /\ s.dump # 0 => Enumerates(s.keys, Served(s.dump)) /\ Descends(s.keys)

ServerInv == \A k \in DOMAIN server : IsRight(server[k], scheme, random)

IInv == NetType /\ ParseType /\ DiskType /\ AnalyzeInv /\ WriteInv /\ FullInv /\ SplitInv /\ SizeInv /\ MadeInv /\ ServerInv
-----------------------------------------------------------------------------
(* Emails, and the files of a dump.                                         *)

LEMMA BridgeFlat ==
  ASSUME NEW s
  PROVE  FlattenSeq(s) = Flattening(s)
BY DEF FlattenSeq, Flattening, IsFlattening

LEMMA EmailType ==
  ASSUME NEW e \in AllEntities
  PROVE  /\ PrimaryEmail(e) \in Nat
         /\ PrimaryEmail(e) # NoEmail => PrimaryEmail(e) \in Emails
<1> DEFINE others == e.others \ {NoEmail}
<1>1. {e.primary} \cup e.others \subseteq DOMAIN Lower
  BY DumpsAssumption
<1>2. \A email \in DOMAIN Lower : /\ email \in Nat /\ Lower[email] \in Nat
                                  /\ Lower[email] # NoEmail => Lower[email] \in Emails
  BY DumpsAssumption DEF Emails
<1>3. CASE e.primary # NoEmail
  BY <1>1, <1>2, <1>3 DEF PrimaryEmail
<1>4. CASE e.primary = NoEmail /\ others = {}
  BY <1>4 DEF PrimaryEmail, NoEmail
<1>5. CASE e.primary = NoEmail /\ others # {}
  <2>1. others \subseteq DOMAIN Lower /\ others \subseteq Nat
    BY <1>1, <1>2
  <2>2. Min(others) \in others
    <3> HIDE DEF others
    <3> QED
      BY <1>5, <2>1, MinFacts
  <2>3. PrimaryEmail(e) = Lower[Min(others)]
    BY <1>5 DEF PrimaryEmail
  <2> HIDE DEF others
  <2> QED
    BY <1>2, <2>1, <2>2, <2>3
<1> QED
  BY <1>3, <1>4, <1>5

LEMMA EmailsType == Emails \subseteq Nat /\ NoEmail \notin Emails
BY DumpsAssumption DEF Emails

LEMMA EntityType ==
  ASSUME NEW e \in AllEntities
  PROVE  e.created \in Int /\ e.revoked \in BOOLEAN /\ Len(e.packet) \in Nat /\ Len(e.packet) > 0
BY DumpsAssumption

IsFileList(list, s, N) ==
  list = [n \in 0..N |-> IF n = 0 THEN <<>>
                         ELSE IF s[n].matches THEN Append(list[n - 1], s[n]) ELSE list[n - 1]]

LEMMA DumpType ==
  ASSUME NEW d \in DOMAIN Dumps
  PROVE  /\ Dumps[d] \in Seq(DumpFiles)
         /\ \A n \in 1..Len(Dumps[d]) : Dumps[d][n].entities \in Seq(AllEntities)
<1>1. Dumps[d] \in Seq({Dumps[d][n] : n \in 1..Len(Dumps[d])})
  BY DumpsAssumption DEF IsSeq
<1>2. DOMAIN Dumps[d] = 1..Len(Dumps[d]) /\ Len(Dumps[d]) \in Nat
  BY <1>1
<1>3. ASSUME NEW n \in 1..Len(Dumps[d])
      PROVE  Dumps[d][n] \in DumpFiles
  BY <1>2 DEF DumpFiles, ToSet
<1>4. Dumps[d] \in Seq(DumpFiles)
  <2>1. {Dumps[d][n] : n \in 1..Len(Dumps[d])} \subseteq DumpFiles
    BY <1>3
  <2> QED
    BY <1>1, <2>1, SeqMonotonic
<1>5. ASSUME NEW n \in 1..Len(Dumps[d])
      PROVE  Dumps[d][n].entities \in Seq(AllEntities)
  <2> DEFINE s == Dumps[d][n].entities
  <2>1. s \in Seq({s[m] : m \in 1..Len(s)})
    BY DumpsAssumption DEF IsSeq
  <2>2. DOMAIN s = 1..Len(s)
    BY <2>1
  <2>3. ToSet(s) \subseteq AllEntities
    BY <1>3 DEF AllEntities, DumpFiles
  <2>4. {s[m] : m \in 1..Len(s)} \subseteq AllEntities
    BY <2>2, <2>3 DEF ToSet
  <2> HIDE DEF s
  <2>5. s \in Seq(AllEntities)
    BY <2>1, <2>4, SeqMonotonic
  <2> QED
    BY <2>5 DEF s
<1> QED
  BY <1>4, <1>5

LEMMA FilesType ==
  ASSUME NEW f \in DumpFiles
  PROVE  f.entities \in Seq(AllEntities)
<1>1. PICK d \in DOMAIN Dumps : f \in ToSet(Dumps[d])
  BY DEF DumpFiles
<1>2. Dumps[d] \in Seq(DumpFiles)
  BY DumpType
<1>3. PICK n \in 1..Len(Dumps[d]) : f = Dumps[d][n]
  BY <1>1, <1>2 DEF ToSet
<1> QED
  BY <1>3, DumpType

LEMMA FileListExists ==
  ASSUME NEW N \in Nat, NEW s
  PROVE  \E list : IsFileList(list, s, N)
<1> DEFINE P == {m \in 0..N : \E list : IsFileList(list, s, m)}
<1>1. 0 \in P
  <2> DEFINE t == [m \in 0..0 |-> <<>>]
  <2>1. IsFileList(t, s, 0)
    BY DEF IsFileList
  <2> HIDE DEF t
  <2> QED
    BY <2>1
<1>2. ASSUME NEW m \in 0..(N - 1), m \in P
      PROVE  m + 1 \in P
  <2>1. PICK t : IsFileList(t, s, m)
    BY <1>2
  <2> DEFINE next == IF s[m + 1].matches THEN Append(t[m], s[m + 1]) ELSE t[m]
             r == [n \in 0..(m + 1) |-> IF n = m + 1 THEN next ELSE t[n]]
             G == [n \in 0..m |-> IF n = 0 THEN <<>>
                     ELSE IF s[n].matches THEN Append(t[n - 1], s[n]) ELSE t[n - 1]]
             H == [n \in 0..(m + 1) |-> IF n = 0 THEN <<>>
                     ELSE IF s[n].matches THEN Append(r[n - 1], s[n]) ELSE r[n - 1]]
  <2>2. t = G
    BY <2>1 DEF IsFileList
  <2>3. ASSUME NEW n \in 0..m
        PROVE  t[n] = IF n = 0 THEN <<>>
                      ELSE IF s[n].matches THEN Append(t[n - 1], s[n]) ELSE t[n - 1]
    <3>1. G[n] = IF n = 0 THEN <<>>
                 ELSE IF s[n].matches THEN Append(t[n - 1], s[n]) ELSE t[n - 1]
      OBVIOUS
    <3> HIDE DEF G
    <3> QED
      BY <2>2, <3>1
  <2> HIDE DEF G
  <2>4. ASSUME NEW n \in 0..(m + 1)
        PROVE  r[n] = H[n]
    <3>1. H[n] = IF n = 0 THEN <<>>
                 ELSE IF s[n].matches THEN Append(r[n - 1], s[n]) ELSE r[n - 1]
      OBVIOUS
    <3>2. r[n] = IF n = m + 1 THEN next ELSE t[n]
      OBVIOUS
    <3>3. n # 0 => n - 1 \in 0..m /\ r[n - 1] = t[n - 1]
      OBVIOUS
    <3> HIDE DEF r, H
    <3>4. CASE n = m + 1
      <4>1. n # 0 /\ n - 1 = m
        BY <3>4
      <4>2. next = IF s[n].matches THEN Append(t[n - 1], s[n]) ELSE t[n - 1]
        BY <3>4, <4>1 DEF next
      <4> HIDE DEF next
      <4> QED
        BY <3>1, <3>2, <3>3, <3>4, <4>1, <4>2
    <3>5. CASE n # m + 1
      <4>1. n \in 0..m
        BY <3>5
      <4> HIDE DEF next
      <4> QED
        BY <2>3, <3>1, <3>2, <3>3, <3>5, <4>1
    <3> QED
      BY <3>4, <3>5
  <2>5. r = H
    <3>1. r = [n \in 0..(m + 1) |-> r[n]] /\ H = [n \in 0..(m + 1) |-> H[n]]
      OBVIOUS
    <3> HIDE DEF r, H
    <3> QED
      BY <2>4, <3>1
  <2>6. IsFileList(r, s, m + 1)
    BY <2>5 DEF IsFileList
  <2> HIDE DEF r, next
  <2> QED
    BY <2>6
<1> HIDE DEF P
<1>3. 0..N \subseteq P
  BY <1>1, <1>2, UpTo
<1> QED
  BY <1>3 DEF P

LEMMA FileListSteps ==
  ASSUME NEW N \in Nat, NEW s, NEW list, IsFileList(list, s, N)
  PROVE  /\ list[0] = <<>>
         /\ \A n \in 1..N : list[n] = IF s[n].matches THEN Append(list[n - 1], s[n])
                                      ELSE list[n - 1]
<1> DEFINE G == [n \in 0..N |-> IF n = 0 THEN <<>>
                   ELSE IF s[n].matches THEN Append(list[n - 1], s[n]) ELSE list[n - 1]]
<1>1. list = G
  BY DEF IsFileList
<1>2. G[0] = <<>> /\ \A n \in 1..N : G[n] = IF s[n].matches THEN Append(list[n - 1], s[n])
                                           ELSE list[n - 1]
  OBVIOUS
<1> HIDE DEF G
<1> QED
  BY <1>1, <1>2

LEMMA FileList ==
  ASSUME NEW d \in DOMAIN Dumps
  PROVE  GetSksOriginalDumpFiles(d) \in Seq(DumpFiles)
<1> DEFINE N == Len(Dumps[d])
           Is(list) == IsFileList(list, Dumps[d], N)
           list == CHOOSE list : Is(list)
           P == {n \in 0..N : list[n] \in Seq(DumpFiles)}
<1>1. GetSksOriginalDumpFiles(d) = list[N]
  BY DEF GetSksOriginalDumpFiles, IsFileList
<1>2. N \in Nat /\ \A n \in 1..N : Dumps[d][n] \in DumpFiles
  BY DumpType
<1>3. IsFileList(list, Dumps[d], N)
  <2>1. \E l : Is(l)
    BY <1>2, FileListExists
  <2> QED
    BY <2>1
<1> HIDE DEF list, N
<1>4. /\ list[0] = <<>>
      /\ \A n \in 1..N : list[n] = IF Dumps[d][n].matches THEN Append(list[n - 1], Dumps[d][n])
                                   ELSE list[n - 1]
  BY <1>2, <1>3, FileListSteps, Zenon
<1>5. 0 \in P
  <2>1. list[0] \in Seq(DumpFiles)
    BY <1>4, EmptySeq, Zenon
  <2> QED
    BY <1>2, <2>1
<1>6. ASSUME NEW n \in 0..(N - 1), n \in P
      PROVE  n + 1 \in P
  <2>1. n + 1 \in 1..N /\ n + 1 \in 0..N /\ (n + 1) - 1 = n
    BY <1>2
  <2>2. list[n] \in Seq(DumpFiles) /\ Dumps[d][n + 1] \in DumpFiles
    BY <1>2, <1>6, <2>1
  <2>3. list[n + 1] = IF Dumps[d][n + 1].matches THEN Append(list[n], Dumps[d][n + 1]) ELSE list[n]
    BY <1>4, <2>1
  <2>4. Append(list[n], Dumps[d][n + 1]) \in Seq(DumpFiles)
    BY <2>2, AppendProperties, Zenon
  <2>5. list[n + 1] \in Seq(DumpFiles)
    BY <2>2, <2>3, <2>4, Zenon
  <2> QED
    BY <2>1, <2>5
<1>7. 0..N \subseteq P
  <2> HIDE DEF P
  <2> QED
    BY <1>2, <1>5, <1>6, UpTo
<1>8. N \in 0..N
  BY <1>2
<1> QED
  BY <1>1, <1>7, <1>8

\* The entities of several files, one file after the other.
LEMMA Entities ==
  ASSUME NEW list \in Seq(DumpFiles)
  PROVE  /\ EntitiesOf(list) \in Seq(AllEntities)
         /\ list = <<>> => EntitiesOf(list) = <<>>
         /\ list # <<>> => /\ Tail(list) \in Seq(DumpFiles)
                           /\ Head(list).entities \in Seq(AllEntities)
                           /\ EntitiesOf(list) = Head(list).entities \o EntitiesOf(Tail(list))
<1> DEFINE parts(l) == [i \in DOMAIN l |-> l[i].entities]
<1>1. ASSUME NEW l \in Seq(DumpFiles)
      PROVE  /\ EntitiesOf(l) = Flattening(parts(l))
             /\ parts(l) \in Seq(Seq(AllEntities))
             /\ EntitiesOf(l) \in Seq(AllEntities)
  <2>1. DOMAIN l = 1..Len(l) /\ Len(l) \in Nat
    OBVIOUS
  <2>2. \A i \in 1..Len(l) : l[i].entities \in Seq(AllEntities)
    <3>1. \A i \in 1..Len(l) : l[i] \in DumpFiles
      OBVIOUS
    <3> QED
      BY <3>1, FilesType
  <2>3. parts(l) \in [1..Len(l) -> Seq(AllEntities)]
    BY <2>1, <2>2
  <2>4. parts(l) \in Seq(Seq(AllEntities))
    <3> HIDE DEF parts
    <3> QED
      BY <2>1, <2>3, SeqDef
  <2>5. EntitiesOf(l) = Flattening(parts(l))
    BY BridgeFlat DEF EntitiesOf
  <2> HIDE DEF parts
  <2> QED
    BY <2>4, <2>5, FlattenType
<1>2. ASSUME list = <<>>
      PROVE  EntitiesOf(list) = <<>>
  <2>1. parts(<<>>) = <<>>
    OBVIOUS
  <2> HIDE DEF parts
  <2> QED
    BY <1>1, <1>2, <2>1, FlattenEmpty
<1>3. ASSUME list # <<>>
      PROVE  /\ Tail(list) \in Seq(DumpFiles)
             /\ Head(list).entities \in Seq(AllEntities)
             /\ EntitiesOf(list) = Head(list).entities \o EntitiesOf(Tail(list))
  <2>1. /\ Tail(list) \in Seq(DumpFiles) /\ Head(list) \in DumpFiles /\ Head(list) = list[1]
        /\ Len(Tail(list)) = Len(list) - 1 /\ Len(list) \in Nat /\ Len(list) > 0
        /\ \A i \in 1..(Len(list) - 1) : Tail(list)[i] = list[i + 1]
        /\ DOMAIN list = 1..Len(list) /\ DOMAIN Tail(list) = 1..(Len(list) - 1)
    BY <1>3
  <2> DEFINE u == Head(list).entities
             one == <<u>>
             tail == parts(Tail(list))
  <2>2. u \in Seq(AllEntities) /\ tail \in Seq(Seq(AllEntities))
    BY <1>1, <2>1, FilesType
  <2>3. one \in Seq(Seq(AllEntities)) /\ Len(one) = 1 /\ one[1] = u
    BY <2>2
  <2>4. parts(list) \in Seq(Seq(AllEntities)) /\ Len(parts(list)) = Len(list)
    <3>1. parts(list) \in Seq(Seq(AllEntities))
      BY <1>1
    <3>2. DOMAIN parts(list) = 1..Len(list)
      BY <2>1
    <3> HIDE DEF parts
    <3> QED
      BY <2>1, <3>1, <3>2, LenProperties
  <2>5. Len(tail) = Len(list) - 1 /\ \A i \in 1..(Len(list) - 1) : tail[i] = list[i + 1].entities
    BY <2>1, <2>2
  <2>6. \A i \in 1..Len(list) : parts(list)[i] = list[i].entities
    BY <2>1
  <2>7. list[1].entities = u
    BY <2>1
  <2> HIDE DEF u, one, tail, parts
  <2>8. parts(list) = one \o tail
    <3>1. /\ one \o tail \in Seq(Seq(AllEntities)) /\ Len(one \o tail) = Len(list)
          /\ \A i \in 1..Len(list) : (one \o tail)[i] = IF i <= 1 THEN one[i] ELSE tail[i - 1]
      <4>1. Len(one) + Len(tail) = Len(list)
        BY <2>1, <2>3, <2>5
      <4>2. /\ one \o tail \in Seq(Seq(AllEntities))
            /\ Len(one \o tail) = Len(one) + Len(tail)
            /\ \A i \in 1..(Len(one) + Len(tail)) :
                  (one \o tail)[i] = IF i <= Len(one) THEN one[i] ELSE tail[i - Len(one)]
        BY <2>2, <2>3, ConcatProperties, Zenon
      <4> QED
        BY <2>3, <4>1, <4>2, Zenon
    <3>2. ASSUME NEW i \in 1..Len(list)
          PROVE  (one \o tail)[i] = parts(list)[i]
      <4>1. CASE i = 1
        BY <2>3, <2>6, <2>7, <3>1, <4>1
      <4>2. CASE i # 1
        <5>1. i - 1 \in 1..(Len(list) - 1) /\ ~(i <= 1) /\ (i - 1) + 1 = i
          BY <2>1, <4>2
        <5> QED
          BY <2>5, <2>6, <3>1, <5>1
      <4> QED
        BY <4>1, <4>2
    <3> QED
      BY <2>4, <3>1, <3>2, SeqEqual
  <2>9. Flattening(one \o tail) = Flattening(one) \o Flattening(tail)
    BY <2>2, <2>3, FlattenConcat
  <2>10. Flattening(one) = u
    BY <2>2, FlattenOne DEF one
  <2>11. EntitiesOf(Tail(list)) = Flattening(tail) /\ EntitiesOf(list) = Flattening(parts(list))
    BY <1>1, <2>1 DEF tail
  <2>12. EntitiesOf(list) = u \o EntitiesOf(Tail(list))
    BY <2>8, <2>9, <2>10, <2>11
  <2> QED
    BY <2>1, <2>2, <2>12 DEF u
<1> QED
  BY <1>1, <1>2, <1>3

LEMMA DumpEntitiesType ==
  ASSUME NEW d \in DOMAIN Dumps
  PROVE  /\ DumpEntities(d) = EntitiesOf(GetSksOriginalDumpFiles(d))
         /\ DumpEntities(d) \in Seq(AllEntities)
<1>1. DumpEntities(d) = EntitiesOf(GetSksOriginalDumpFiles(d))
  BY DEF DumpEntities, EntitiesOf
<1> QED
  BY <1>1, FileList, Entities
-----------------------------------------------------------------------------
(* The key map after one more entity.                                       *)

LEMMA ValidAppend ==
  ASSUME NEW list \in Seq(AllEntities), NEW e \in AllEntities, NEW email
  PROVE  /\ Len(Append(list, e)) = Len(list) + 1
         /\ Append(list, e)[Len(list) + 1] = e
         /\ \A n \in 1..Len(list) : Append(list, e)[n] = list[n] /\ list[n] \in AllEntities
         /\ Valid(list, email) \subseteq 1..Len(list)
         /\ Valid(Append(list, e), email) =
              IF ~e.revoked /\ PrimaryEmail(e) = email
              THEN Valid(list, email) \cup {Len(list) + 1} ELSE Valid(list, email)
<1> DEFINE new == Append(list, e)
           N == Len(list)
<1>1. /\ N \in Nat /\ Len(new) = N + 1 /\ new[N + 1] = e
      /\ \A n \in 1..N : new[n] = list[n] /\ list[n] \in AllEntities
  OBVIOUS
<1> HIDE DEF new, N
<1>2. Valid(new, email) = {n \in 1..(N + 1) : ~new[n].revoked /\ PrimaryEmail(new[n]) = email}
  BY <1>1 DEF Valid
<1>3. Valid(list, email) = {n \in 1..N : ~list[n].revoked /\ PrimaryEmail(list[n]) = email}
  BY DEF Valid, N
<1>4. ASSUME NEW n \in 1..N
      PROVE  (~new[n].revoked /\ PrimaryEmail(new[n]) = email)
               <=> (~list[n].revoked /\ PrimaryEmail(list[n]) = email)
  BY <1>1
<1>5. (~new[N + 1].revoked /\ PrimaryEmail(new[N + 1]) = email)
        <=> (~e.revoked /\ PrimaryEmail(e) = email)
  BY <1>1
<1>6. Valid(new, email) = IF ~e.revoked /\ PrimaryEmail(e) = email
                          THEN Valid(list, email) \cup {N + 1} ELSE Valid(list, email)
  BY <1>1, <1>2, <1>3, <1>4, <1>5
<1>7. Valid(list, email) \subseteq 1..N
  BY <1>3
<1> QED
  BY <1>1, <1>6, <1>7 DEF new, N

LEMMA LatestKept ==
  ASSUME NEW list \in Seq(AllEntities), NEW e \in AllEntities, NEW email,
         NEW n, IsLatest(list, email, n),
         e.revoked \/ PrimaryEmail(e) # email \/ e.created <= list[n].created
  PROVE  IsLatest(Append(list, e), email, n) /\ Append(list, e)[n] = list[n] /\ n \in 1..Len(list)
<1> DEFINE new == Append(list, e)
           N == Len(list)
<1>1. /\ N \in Nat /\ Len(new) = N + 1 /\ new[N + 1] = e
      /\ \A i \in 1..N : new[i] = list[i] /\ list[i].created \in Int
      /\ Valid(list, email) \subseteq 1..N
      /\ Valid(new, email) = IF ~e.revoked /\ PrimaryEmail(e) = email
                             THEN Valid(list, email) \cup {N + 1} ELSE Valid(list, email)
  BY ValidAppend, EntityType
<1>2. e.created \in Int
  BY EntityType
<1> HIDE DEF new, N
<1>3. n \in Valid(list, email) /\ n \in Valid(new, email) /\ n \in 1..N /\ new[n] = list[n]
  BY <1>1 DEF IsLatest
<1>4. ASSUME NEW o \in Valid(new, email)
      PROVE  new[o].created <= new[n].created /\ (o < n => new[o].created < new[n].created)
  <2>1. CASE o \in Valid(list, email)
    BY <1>1, <1>3, <2>1 DEF IsLatest
  <2>2. CASE o \notin Valid(list, email)
    <3>1. o = N + 1 /\ e.created <= list[n].created
      BY <1>1, <2>2
    <3> QED
      BY <1>1, <1>2, <1>3, <3>1
  <2> QED
    BY <2>1, <2>2
<1>5. IsLatest(new, email, n)
  BY <1>3, <1>4 DEF IsLatest
<1> QED
  BY <1>3, <1>5 DEF new, N

LEMMA LatestNew ==
  ASSUME NEW list \in Seq(AllEntities), NEW e \in AllEntities, NEW email,
         ~e.revoked, PrimaryEmail(e) = email,
         \/ Valid(list, email) = {}
         \/ \E n : IsLatest(list, email, n) /\ list[n].created < e.created
  PROVE  IsLatest(Append(list, e), email, Len(list) + 1)
<1> DEFINE new == Append(list, e)
           N == Len(list)
<1>1. /\ N \in Nat /\ Len(new) = N + 1 /\ new[N + 1] = e
      /\ \A i \in 1..N : new[i] = list[i] /\ list[i].created \in Int
      /\ Valid(list, email) \subseteq 1..N
      /\ Valid(new, email) = Valid(list, email) \cup {N + 1}
  BY ValidAppend, EntityType
<1>2. e.created \in Int
  BY EntityType
<1> HIDE DEF new, N
<1>3. ASSUME NEW o \in Valid(list, email)
      PROVE  list[o].created < e.created
  <2>1. PICK n : IsLatest(list, email, n) /\ list[n].created < e.created
    BY <1>3
  <2>2. list[o].created <= list[n].created /\ o \in 1..N /\ n \in 1..N
    BY <1>1, <2>1 DEF IsLatest
  <2> QED
    BY <1>1, <1>2, <2>1, <2>2
<1>4. ASSUME NEW o \in Valid(new, email)
      PROVE  new[o].created <= new[N + 1].created
             /\ (o < N + 1 => new[o].created < new[N + 1].created)
  <2>1. CASE o \in Valid(list, email)
    BY <1>1, <1>2, <1>3, <2>1
  <2>2. CASE o \notin Valid(list, email)
    BY <1>1, <1>2, <2>2
  <2> QED
    BY <2>1, <2>2
<1>5. IsLatest(new, email, N + 1)
  BY <1>1, <1>4 DEF IsLatest
<1> QED
  BY <1>5 DEF new, N

LEMMA SaveLatest ==
  ASSUME NEW list \in Seq(AllEntities), NEW e \in AllEntities, NEW map, IsKeyMap(map, list)
  PROVE  IsKeyMap(saveKeyIfValid(e, map), Append(list, e))
<1> DEFINE new == Append(list, e)
           mine == PrimaryEmail(e)
           N == Len(list)
           after == saveKeyIfValid(e, map)
           Right(m, l, email) == IF email \in DOMAIN m
                                 THEN \E n \in 1..Len(l) : IsLatest(l, email, n) /\ m[email] = l[n]
                                 ELSE Valid(l, email) = {}
<1>1. /\ N \in Nat /\ Len(new) = N + 1 /\ new[N + 1] = e
      /\ \A email : Valid(new, email) = IF ~e.revoked /\ mine = email
                             THEN Valid(list, email) \cup {N + 1} ELSE Valid(list, email)
  BY ValidAppend
<1>2. DOMAIN map \subseteq Emails /\ \A email \in Emails : Right(map, list, email)
  BY DEF IsKeyMap
<1>3. NoEmail \notin Emails /\ (mine # NoEmail => mine \in Emails)
  BY EmailsType, EmailType
<1>4. ASSUME NEW email \in Emails, e.revoked \/ mine # email,
             email \in DOMAIN after <=> email \in DOMAIN map,
             email \in DOMAIN map => after[email] = map[email]
      PROVE  Right(after, new, email)
  <2> HIDE DEF after
  <2>1. CASE email \in DOMAIN map
    <3>1. PICK n \in 1..N : IsLatest(list, email, n) /\ map[email] = list[n]
      BY <1>2, <2>1
    <3>2. IsLatest(new, email, n) /\ new[n] = list[n]
      BY <1>4, <3>1, LatestKept
    <3>3. n \in 1..Len(new)
      BY <1>1, <3>1
    <3> HIDE DEF new, N
    <3> QED
      BY <1>4, <2>1, <3>1, <3>2, <3>3
  <2>2. CASE email \notin DOMAIN map
    <3>1. Valid(list, email) = {}
      BY <1>2, <2>2
    <3> QED
      BY <1>1, <1>4, <2>2, <3>1
  <2> QED
    BY <2>1, <2>2
<1>5. CASE e.revoked \/ mine = NoEmail
  <2>1. after = map
    BY <1>5 DEF saveKeyIfValid
  <2>2. \A email \in Emails : Right(after, new, email)
    <3> HIDE DEF Right, after
    <3> QED
      BY <1>3, <1>4, <1>5, <2>1
  <2> HIDE DEF after, new
  <2>3. IsKeyMap(after, new)
    BY <1>2, <2>1, <2>2 DEF IsKeyMap
  <2> QED
    BY <2>3 DEF after, new
<1>6. CASE ~e.revoked /\ mine # NoEmail
  <2> DEFINE saves == mine \notin DOMAIN map \/ map[mine].created < e.created
  <2>1. after = IF saves THEN Put(map, mine, e) ELSE map
    BY <1>6 DEF saveKeyIfValid
  <2>2. /\ DOMAIN after \subseteq Emails
        /\ \A email \in Emails \ {mine} : /\ email \in DOMAIN after <=> email \in DOMAIN map
                                          /\ email \in DOMAIN map => after[email] = map[email]
    <3>1. CASE saves
      <4>1. after = [x \in DOMAIN map \cup {mine} |-> IF x = mine THEN e ELSE map[x]]
        BY <2>1, <3>1 DEF Put
      <4> HIDE DEF after
      <4> QED
        BY <1>2, <1>3, <1>6, <4>1
    <3>2. CASE ~saves
      BY <1>2, <2>1, <3>2
    <3> QED
      BY <3>1, <3>2
  <2>3. Right(after, new, mine)
    <3>1. CASE saves
      <4>1. mine \in DOMAIN after /\ after[mine] = e
        <5>1. after = [x \in DOMAIN map \cup {mine} |-> IF x = mine THEN e ELSE map[x]]
          BY <2>1, <3>1 DEF Put
        <5> HIDE DEF after
        <5> QED
          BY <5>1
      <4>2. \/ Valid(list, mine) = {}
            \/ \E n : IsLatest(list, mine, n) /\ list[n].created < e.created
        BY <1>2, <1>3, <1>6, <3>1
      <4>3. IsLatest(new, mine, N + 1)
        BY <1>6, <4>2, LatestNew
      <4> HIDE DEF new, after, N
      <4> QED
        BY <1>1, <4>1, <4>3
    <3>2. CASE ~saves
      <4>1. after = map /\ mine \in DOMAIN map
        BY <2>1, <3>2
      <4>2. PICK n \in 1..N : IsLatest(list, mine, n) /\ map[mine] = list[n]
        BY <1>2, <1>3, <1>6, <4>1
      <4>3. e.created <= list[n].created
        <5>1. list[n] \in AllEntities
          OBVIOUS
        <5>2. e.created \in Int /\ list[n].created \in Int
          BY <5>1, EntityType
        <5>3. ~(list[n].created < e.created)
          BY <3>2, <4>1, <4>2
        <5> QED
          BY <5>2, <5>3
      <4>4. IsLatest(new, mine, n) /\ new[n] = list[n] /\ n \in 1..Len(new)
        BY <1>1, <4>2, <4>3, LatestKept
      <4> HIDE DEF new, after, N
      <4> QED
        BY <4>1, <4>2, <4>4
    <3> QED
      BY <3>1, <3>2
  <2>4. \A email \in Emails : Right(after, new, email)
    <3> HIDE DEF Right, after
    <3> QED
      BY <1>4, <2>2, <2>3
  <2> HIDE DEF after, new
  <2>5. IsKeyMap(after, new)
    BY <2>2, <2>4 DEF IsKeyMap
  <2> QED
    BY <2>5 DEF after, new
<1> QED
  BY <1>5, <1>6, EntityType

LEMMA MapType ==
  ASSUME NEW list \in Seq(AllEntities), NEW map, IsKeyMap(map, list), NEW email \in DOMAIN map
  PROVE  /\ email \in Emails /\ email # NoEmail /\ map[email] \in AllEntities
         /\ PrimaryEmail(map[email]) = email /\ ~map[email].revoked
         /\ ~TooLong(map[email].packet) => [ID |-> email, Packet |-> map[email].packet] \in Stored
<1>1. email \in Emails /\ email # NoEmail
  BY EmailsType DEF IsKeyMap
<1>2. PICK n \in 1..Len(list) : IsLatest(list, email, n) /\ map[email] = list[n]
  BY <1>1 DEF IsKeyMap
<1>3. map[email] \in AllEntities
  BY <1>2
<1>4. PrimaryEmail(map[email]) = email /\ ~map[email].revoked
  BY <1>2 DEF IsLatest, Valid
<1>5. ~TooLong(map[email].packet) => [ID |-> email, Packet |-> map[email].packet] \in Stored
  BY <1>1, <1>3, <1>4 DEF Stored
<1> QED
  BY <1>1, <1>3, <1>4, <1>5

LEMMA LatestIs ==
  ASSUME NEW list \in Seq(AllEntities), NEW email
  PROVE  /\ \A n : IsLatest(list, email, n) => LatestOf(list, email) = {list[n]}
         /\ Valid(list, email) = {} => LatestOf(list, email) = {}
<1> DEFINE valid == {n \in DOMAIN list : ~list[n].revoked /\ PrimaryEmail(list[n]) = email}
           last == {n \in valid : \A o \in valid : list[o].created <= list[n].created}
<1>1. LatestOf(list, email) = IF last = {} THEN {} ELSE {list[Min(last)]}
  BY DEF LatestOf
<1>2. DOMAIN list = 1..Len(list) /\ Len(list) \in Nat
  OBVIOUS
<1>3. valid = Valid(list, email) /\ valid \subseteq 1..Len(list)
  BY <1>2 DEF Valid
<1>4. \A n \in 1..Len(list) : list[n].created \in Int
  <2>1. \A n \in 1..Len(list) : list[n] \in AllEntities
    OBVIOUS
  <2> QED
    BY <2>1, EntityType
<1> HIDE DEF valid
<1>5. ASSUME NEW n, IsLatest(list, email, n)
      PROVE  LatestOf(list, email) = {list[n]}
  <2>1. n \in last /\ \A o \in last : ~(o < n)
    BY <1>3, <1>4, <1>5 DEF IsLatest
  <2>2. last \subseteq Nat
    BY <1>3
  <2> HIDE DEF last
  <2>3. Min(last) \in last /\ Min(last) <= n
    BY <2>1, <2>2, MinFacts
  <2>4. Min(last) = n
    <3> DEFINE m == Min(last)
    <3>1. m \in Nat /\ n \in Nat /\ m <= n /\ ~(m < n)
      BY <2>1, <2>2, <2>3
    <3> HIDE DEF m
    <3>2. m = n
      BY <3>1
    <3> QED
      BY <3>2 DEF m
  <2> QED
    BY <1>1, <2>1, <2>4
<1>6. ASSUME Valid(list, email) = {}
      PROVE  LatestOf(list, email) = {}
  BY <1>1, <1>3, <1>6
<1> QED
  BY <1>5, <1>6

LEMMA WrittenIsServed ==
  ASSUME NEW d \in DOMAIN Dumps, NEW map, IsKeyMap(map, DumpEntities(d))
  PROVE  Written(map, DOMAIN map) = Served(d)
<1> DEFINE all == DumpEntities(d)
<1>1. all \in Seq(AllEntities)
  BY DumpEntitiesType
<1>2. ASSUME NEW email \in Emails
      PROVE  /\ email \in DOMAIN map => Latest(d, email) = {map[email]}
             /\ email \notin DOMAIN map => Latest(d, email) = {}
  <2>1. Latest(d, email) = LatestOf(all, email)
    BY DEF Latest
  <2>2. IF email \in DOMAIN map
        THEN \E n \in 1..Len(all) : IsLatest(all, email, n) /\ map[email] = all[n]
        ELSE Valid(all, email) = {}
    BY DEF IsKeyMap
  <2> HIDE DEF all
  <2> QED
    BY <1>1, <2>1, <2>2, LatestIs
<1>3. \A email \in DOMAIN map :
        /\ email \in Emails
        /\ ~TooLong(map[email].packet) => [ID |-> email, Packet |-> map[email].packet] \in Stored
  BY <1>1, MapType
<1>4. Written(map, DOMAIN map) \subseteq Served(d)
  <2> SUFFICES ASSUME NEW email \in DOMAIN map, ~TooLong(map[email].packet)
               PROVE  [ID |-> email, Packet |-> map[email].packet] \in Served(d)
    BY DEF Written
  <2>1. map[email] \in Latest(d, email) /\ email \in Emails
    BY <1>2, <1>3
  <2> QED
    BY <1>3, <2>1 DEF Served
<1>5. Served(d) \subseteq Written(map, DOMAIN map)
  <2> SUFFICES ASSUME NEW email \in Emails, NEW e \in Latest(d, email), ~TooLong(e.packet)
               PROVE  [ID |-> email, Packet |-> e.packet] \in Written(map, DOMAIN map)
    BY DEF Served
  <2>1. email \in DOMAIN map /\ e = map[email]
    BY <1>2
  <2> QED
    BY <2>1 DEF Written
<1> QED
  BY <1>4, <1>5

LEMMA ServedStored ==
  ASSUME NEW d
  PROVE  Served(d) \subseteq Stored
BY DEF Served

LEMMA StoredType ==
  ASSUME NEW r \in Stored
  PROVE  r.ID \in Nat /\ ~TooLong(r.Packet) /\ Len(r.Packet) \in Nat /\ Len(r.Packet) > 0
<1>1. PICK e \in AllEntities : r = [ID |-> PrimaryEmail(e), Packet |-> e.packet] /\ ~TooLong(e.packet)
  BY DEF Stored
<1> QED
  BY <1>1, EmailType, EntityType

LEMMA EnumeratesNone ==
  ASSUME NEW map
  PROVE  Enumerates(<<>>, Written(map, {}))
BY DEF Enumerates, Written

LEMMA EnumeratesOne ==
  ASSUME NEW map, NEW done, NEW email, email \notin done, NEW list, Enumerates(list, Written(map, done))
  PROVE  Enumerates(IF TooLong(map[email].packet) THEN list
                    ELSE Append(list, [ID |-> email, Packet |-> map[email].packet]),
                    Written(map, done \cup {email}))
<1> DEFINE r == [ID |-> email, Packet |-> map[email].packet]
           W == Written(map, done)
<1>1. list \in Seq(W) /\ Len(list) \in Nat
  BY DEF Enumerates
<1>2. ASSUME TooLong(map[email].packet)
      PROVE  Written(map, done \cup {email}) = W
  BY <1>2 DEF Written
<1>3. ASSUME ~TooLong(map[email].packet)
      PROVE  Enumerates(Append(list, r), Written(map, done \cup {email}))
  <2>1. Written(map, done \cup {email}) = W \cup {r}
    BY <1>3 DEF Written
  <2>2. \A x \in W : x.ID # email
    BY DEF Written
  <2>3. r.ID = email
    OBVIOUS
  <2>4. /\ \A x \in W : \E n \in 1..Len(list) : list[n] = x
        /\ \A m, n \in 1..Len(list) : list[m].ID = list[n].ID => m = n
    BY DEF Enumerates
  <2> DEFINE new == Append(list, r)
  <2> HIDE DEF W, r
  <2>5. /\ Len(new) = Len(list) + 1 /\ new[Len(list) + 1] = r
        /\ \A n \in 1..Len(list) : new[n] = list[n] /\ list[n] \in W
    BY <1>1
  <2>6. new \in Seq(W \cup {r})
    <3>1. list \in Seq(W \cup {r})
      BY <1>1, SeqMonotonic
    <3> QED
      BY <3>1
  <2> HIDE DEF new
  <2>7. \A x \in W \cup {r} : \E n \in 1..Len(new) : new[n] = x
    BY <1>1, <2>4, <2>5
  <2>8. \A m, n \in 1..Len(new) : new[m].ID = new[n].ID => m = n
    <3> SUFFICES ASSUME NEW m \in 1..Len(new), NEW n \in 1..Len(new), new[m].ID = new[n].ID
                 PROVE  m = n
      OBVIOUS
    <3>1. CASE m = Len(list) + 1 \/ n = Len(list) + 1
      <4> DEFINE N == Len(list)
      <4>1. \A k \in 1..N : new[k].ID # r.ID
        BY <2>2, <2>3, <2>5
      <4>2. N \in Nat /\ m \in 1..(N + 1) /\ n \in 1..(N + 1) /\ new[N + 1] = r
        BY <1>1, <2>5
      <4>3. m = N + 1 \/ n = N + 1
        BY <3>1
      <4> HIDE DEF N
      <4> QED
        BY <4>1, <4>2, <4>3
    <3>2. CASE m # Len(list) + 1 /\ n # Len(list) + 1
      <4>1. m \in 1..Len(list) /\ n \in 1..Len(list)
        BY <1>1, <2>5, <3>2
      <4>2. new[m] = list[m] /\ new[n] = list[n]
        BY <2>5, <4>1
      <4> QED
        BY <2>4, <4>1, <4>2
    <3> QED
      BY <3>1, <3>2
  <2> QED
    BY <2>1, <2>6, <2>7, <2>8 DEF Enumerates, new
<1> QED
  BY <1>2, <1>3
-----------------------------------------------------------------------------
(* The order of the keys.                                                   *)

LEMMA Unambiguous ==
  ASSUME NEW S, NEW list, Enumerates(list, S)
  PROVE  ~Ambiguous(list)
<1>1. DOMAIN list = 1..Len(list)
  BY DEF Enumerates
<1>2. ASSUME NEW a \in ToSet(list), NEW b \in ToSet(list), a.ID = b.ID
      PROVE  a = b
  <2>1. PICK m \in 1..Len(list) : a = list[m]
    BY <1>1 DEF ToSet
  <2>2. PICK n \in 1..Len(list) : b = list[n]
    BY <1>1 DEF ToSet
  <2> QED
    BY <1>2, <2>1, <2>2 DEF Enumerates
<1> QED
  BY <1>2 DEF Ambiguous

IDsOf(list) == [n \in DOMAIN list |-> list[n].ID]

LEMMA RankIs ==
  ASSUME NEW list \in Seq(Stored)
  PROVE  /\ IDsOf(list) \in [1..Len(list) -> Int]
         /\ \A m \in 1..Len(list) : KT!Rank(list, m) = Place(IDsOf(list), m)
<1> DEFINE N == Len(list)
           id == IDsOf(list)
<1>1. N \in Nat /\ DOMAIN list = 1..N /\ \A n \in 1..N : list[n] \in Stored /\ list[n].ID \in Int
  BY StoredType
<1>2. id \in [1..N -> Int] /\ DOMAIN id = 1..N /\ \A n \in 1..N : id[n] = list[n].ID
  BY <1>1 DEF IDsOf
<1> HIDE DEF id, N
<1>3. ASSUME NEW m \in 1..N
      PROVE  KT!Rank(list, m) = Place(id, m)
  <2>1. {k \in DOMAIN list : list[k].ID > list[m].ID \/ (list[k].ID = list[m].ID /\ k < m)}
          = Before(id, m)
    BY <1>1, <1>2 DEF Before
  <2>2. KT!Rank(list, m) = 1 + Cardinality({k \in DOMAIN list :
           list[k].ID > list[m].ID \/ (list[k].ID = list[m].ID /\ k < m)})
    BY Zenon DEF KT!Rank, KT!Cardinality, Cardinality
  <2>3. Place(id, m) = 1 + Cardinality(Before(id, m))
    BY Zenon DEF Place
  <2> QED
    BY <2>1, <2>2, <2>3, Zenon
<1> QED
  BY <1>2, <1>3 DEF id, N

\* Sorting loses no key and adds none.
LEMMA SortedType ==
  ASSUME NEW list \in Seq(Stored), NEW ks \in sortById(list)
  PROVE  ks \in Seq(Stored)
<1> DEFINE N == Len(list)
           S == {q \in Bijection(DOMAIN list, DOMAIN list) :
                   \A n \in 1 .. Len(list) - 1 : list[q[n]].ID >= list[q[n + 1]].ID}
<1>1. N \in Nat /\ DOMAIN list = 1..N /\ \A n \in 1..N : list[n] \in Stored
  OBVIOUS
<1>2. PICK p : /\ \A n \in 1..N : p[n] \in 1..N
               /\ ks = [n \in 1..N |-> list[p[n]]]
  <2>1. CASE Ambiguous(list)
    <3>1. PICK p \in S : ks = [n \in DOMAIN list |-> list[p[n]]]
      BY <2>1 DEF sortById
    <3>2. p \in [DOMAIN list -> DOMAIN list]
      <4>1. p \in Bijection(DOMAIN list, DOMAIN list)
        BY DEF S
      <4> QED
        BY <4>1 DEF Bijection, Injection
    <3> HIDE DEF N, S
    <3>3. \A n \in 1..N : p[n] \in 1..N
      BY <1>1, <3>2
    <3> QED
      BY <1>1, <3>1, <3>3
  <2>2. CASE ~Ambiguous(list)
    <3> DEFINE id == IDsOf(list)
               p == [n \in 1..N |-> CHOOSE m \in DOMAIN list : KT!Rank(list, m) = n]
    <3>1. ks = [n \in DOMAIN list |-> list[CHOOSE m \in DOMAIN list : KT!Rank(list, m) = n]]
      BY <2>2 DEF sortById, KT!sortById
    <3>2. id \in [1..N -> Int] /\ \A m \in 1..N : KT!Rank(list, m) = Place(id, m)
      BY RankIs
    <3> HIDE DEF N, id
    <3>3. ASSUME NEW n \in 1..N
          PROVE  \E m \in DOMAIN list : KT!Rank(list, m) = n
      <4>1. \E m \in 1..N : Place(id, m) = n
        BY <1>1, <3>2, PlaceOnto
      <4> QED
        BY <1>1, <3>2, <4>1
    <3>4. \A n \in 1..N : p[n] \in 1..N
      BY <1>1, <3>3
    <3>5. ks = [n \in 1..N |-> list[p[n]]]
      BY <1>1, <3>1
    <3> HIDE DEF p
    <3> QED
      BY <3>4, <3>5
  <2> QED
    BY <2>1, <2>2
<1> HIDE DEF N
<1>3. ks \in [1..N -> Stored]
  BY <1>1, <1>2
<1> QED
  BY <1>1, <1>3, SeqDef

LEMMA SortedOrder ==
  ASSUME NEW S, S \subseteq Stored, NEW list, Enumerates(list, S)
  PROVE  Enumerates(KT!sortById(list), S) /\ Descends(KT!sortById(list))
<1> DEFINE N == Len(list)
           id == IDsOf(list)
           c(n) == CHOOSE m \in 1..N : Place(id, m) = n
           sorted == [n \in 1..N |-> list[c(n)]]
<1>1. /\ N \in Nat /\ DOMAIN list = 1..N
      /\ \A n \in 1..N : list[n] \in S /\ list[n].ID \in Int
      /\ \A r \in S : \E n \in 1..N : list[n] = r
      /\ \A m, n \in 1..N : list[m].ID = list[n].ID => m = n
  BY StoredType DEF Enumerates
<1>2. id \in [1..N -> Int] /\ DOMAIN id = 1..N /\ \A n \in 1..N : id[n] = list[n].ID
  BY <1>1 DEF IDsOf
<1>3. KT!sortById(list) = sorted
  <2>0. list \in Seq(Stored)
    BY SeqMonotonic DEF Enumerates
  <2>1. \A m \in 1..N : KT!Rank(list, m) = Place(id, m)
    BY <2>0, RankIs
  <2>2. ASSUME NEW n \in 1..N
        PROVE  (CHOOSE m \in DOMAIN list : KT!Rank(list, m) = n) = c(n)
    <3> HIDE DEF id, N
    <3> QED
      BY <1>1, <2>1
  <2>3. KT!sortById(list) = [n \in DOMAIN list |-> list[CHOOSE m \in DOMAIN list : KT!Rank(list, m) = n]]
    BY DEF KT!sortById
  <2> HIDE DEF N, c
  <2> QED
    BY <1>1, <2>2, <2>3
<1> HIDE DEF id
<1>4. \A m \in 1..N : Place(id, m) \in 1..N
  <2> HIDE DEF N
  <2> QED
    BY <1>1, <1>2, PlaceOrder
<1>5. ASSUME NEW m \in 1..N, NEW k \in 1..N, id[k] > id[m]
      PROVE  Place(id, k) < Place(id, m)
  <2>1. k \in Before(id, m)
    BY <1>2, <1>5 DEF Before
  <2> HIDE DEF N
  <2> QED
    BY <1>1, <1>2, <2>1, PlaceOrder
<1>6. ASSUME NEW m \in 1..N, NEW k \in 1..N, Place(id, k) = Place(id, m)
      PROVE  m = k
  <2>1. ~(id[k] > id[m]) /\ ~(id[m] > id[k])
    BY <1>4, <1>5, <1>6
  <2>2. id[k] = id[m]
    BY <1>2, <2>1
  <2> QED
    BY <1>1, <1>2, <2>2
<1>7. ASSUME NEW n \in 1..N
      PROVE  c(n) \in 1..N /\ Place(id, c(n)) = n
  <2>1. \E m \in 1..N : Place(id, m) = n
    <3> HIDE DEF N
    <3> QED
      BY <1>1, <1>2, PlaceOnto
  <2> QED
    BY <2>1
<1> HIDE DEF c
<1>8. \A n \in 1..N : sorted[n] = list[c(n)] /\ list[c(n)] \in S
  BY <1>1, <1>7
<1>9. Len(sorted) = N /\ sorted \in Seq(S)
  <2>1. sorted \in [1..N -> S]
    BY <1>1, <1>7
  <2> HIDE DEF sorted, N
  <2> QED
    BY <1>1, <2>1, SeqDef
<1> HIDE DEF sorted
<1>10. ASSUME NEW r \in S
       PROVE  \E n \in 1..N : sorted[n] = r
  <2>1. PICK m \in 1..N : list[m] = r
    BY <1>1
  <2>2. Place(id, m) \in 1..N
    BY <1>4
  <2>3. c(Place(id, m)) = m
    BY <1>6, <1>7, <2>2
  <2> QED
    BY <1>8, <2>1, <2>2, <2>3
<1>11. ASSUME NEW m \in 1..N, NEW n \in 1..N, sorted[m].ID = sorted[n].ID
       PROVE  m = n
  <2>1. c(m) \in 1..N /\ c(n) \in 1..N /\ Place(id, c(m)) = m /\ Place(id, c(n)) = n
    BY <1>7
  <2>2. list[c(m)].ID = list[c(n)].ID
    BY <1>8, <1>11
  <2>3. c(m) = c(n)
    BY <1>1, <2>1, <2>2
  <2> QED
    BY <2>1, <2>3
<1>12. ASSUME NEW m \in 1..N, NEW n \in 1..N, m < n
       PROVE  sorted[m].ID > sorted[n].ID
  <2>1. c(m) \in 1..N /\ c(n) \in 1..N /\ Place(id, c(m)) = m /\ Place(id, c(n)) = n
    BY <1>7
  <2>2. ~(id[c(n)] > id[c(m)])
    BY <1>5, <1>12, <2>1
  <2>3. c(m) # c(n)
    BY <1>12, <2>1
  <2>4. id[c(m)] # id[c(n)]
    BY <1>1, <1>2, <2>1, <2>3
  <2>5. id[c(m)] \in Int /\ id[c(n)] \in Int
    BY <1>2, <2>1
  <2>6. id[c(m)] > id[c(n)]
    BY <2>2, <2>4, <2>5
  <2> QED
    BY <1>2, <1>8, <2>1, <2>6
<1>13. Enumerates(sorted, S) /\ Descends(sorted)
  BY <1>9, <1>10, <1>11, <1>12 DEF Enumerates, Descends
<1> QED
  BY <1>3, <1>13

LEMMA SameOrder ==
  ASSUME NEW S, S \subseteq Stored, NEW a, NEW b, Enumerates(a, S), Descends(a),
         Enumerates(b, S), Descends(b)
  PROVE  Len(a) <= Len(b) /\ \A i \in 1..Len(a) : a[i] = b[i]
<1> DEFINE P == {n \in 0..Len(a) : n <= Len(b) /\ \A i \in 1..n : a[i] = b[i]}
<1>1. /\ Len(a) \in Nat /\ Len(b) \in Nat
      /\ \A n \in 1..Len(a) : a[n] \in S /\ a[n].ID \in Int
      /\ \A n \in 1..Len(b) : b[n] \in S /\ b[n].ID \in Int
      /\ \A r \in S : (\E n \in 1..Len(a) : a[n] = r) /\ (\E n \in 1..Len(b) : b[n] = r)
  <2>1. /\ a \in Seq(S) /\ b \in Seq(S)
        /\ \A r \in S : (\E n \in 1..Len(a) : a[n] = r) /\ (\E n \in 1..Len(b) : b[n] = r)
    BY DEF Enumerates
  <2>2. \A r \in S : r.ID \in Int
    BY StoredType
  <2>3. /\ Len(a) \in Nat /\ Len(b) \in Nat
        /\ \A n \in 1..Len(a) : a[n] \in S
        /\ \A n \in 1..Len(b) : b[n] \in S
    BY <2>1
  <2> QED
    BY <2>1, <2>2, <2>3
<1>2. /\ \A m, n \in 1..Len(a) : a[m].ID = a[n].ID => m = n
      /\ \A m, n \in 1..Len(a) : m < n => a[m].ID > a[n].ID
      /\ \A m, n \in 1..Len(b) : m < n => b[m].ID > b[n].ID
  BY DEF Enumerates, Descends
<1>3. 0 \in P
  BY <1>1
<1>4. ASSUME NEW n \in 0..(Len(a) - 1), n \in P
      PROVE  n + 1 \in P
  <2>1. n \in Nat /\ n + 1 \in 1..Len(a) /\ n <= Len(b) /\ \A i \in 1..n : a[i] = b[i]
    BY <1>1, <1>4
  <2>2. PICK j \in 1..Len(b) : b[j] = a[n + 1]
    BY <1>1, <2>1
  <2>3. ~(j <= n)
    <3> SUFFICES ASSUME j <= n
                 PROVE  FALSE
      OBVIOUS
    <3>1. j \in 1..n /\ j \in 1..Len(a)
      BY <1>1, <2>1
    <3>2. a[j] = a[n + 1]
      BY <2>1, <2>2, <3>1
    <3>3. j = n + 1
      BY <1>2, <2>1, <3>1, <3>2
    <3> QED
      BY <2>1, <3>1, <3>3
  <2>4. n + 1 \in 1..Len(b) /\ j \in Nat /\ j >= n + 1
    BY <1>1, <2>1, <2>3
  <2>5. PICK k \in 1..Len(a) : a[k] = b[n + 1]
    BY <1>1, <2>4
  <2>6. j = n + 1
    <3> SUFFICES ASSUME j # n + 1
                 PROVE  FALSE
      OBVIOUS
    <3>1. b[n + 1].ID > b[j].ID
      BY <1>2, <2>4
    <3>2. a[k].ID > a[n + 1].ID /\ k \in Nat
      BY <2>2, <2>5, <3>1
    <3>3. ~(k >= n + 1)
      <4>1. k # n + 1
        BY <1>1, <2>1, <3>2
      <4>2. ~(n + 1 < k)
        <5> SUFFICES ASSUME n + 1 < k
                     PROVE  FALSE
          OBVIOUS
        <5>1. a[n + 1].ID > a[k].ID
          BY <1>2, <2>1
        <5>2. a[n + 1].ID \in Int /\ a[k].ID \in Int
          BY <1>1, <2>1
        <5> QED
          BY <3>2, <5>1, <5>2
      <4> QED
        BY <2>1, <3>2, <4>1, <4>2
    <3>4. k \in 1..n
      BY <2>1, <3>2, <3>3
    <3>5. b[k] = b[n + 1] /\ k \in 1..Len(b) /\ k < n + 1
      BY <2>1, <2>4, <2>5, <3>4
    <3>6. b[k].ID > b[n + 1].ID
      BY <1>2, <2>4, <3>5
    <3>7. b[n + 1].ID \in Int
      BY <1>1, <2>4
    <3> QED
      BY <3>5, <3>6, <3>7
  <2>7. \A i \in 1..(n + 1) : a[i] = b[i]
    BY <2>1, <2>2, <2>6
  <2> QED
    BY <1>1, <2>1, <2>4, <2>7
<1>5. 0..Len(a) \subseteq P
  <2> HIDE DEF P
  <2> QED
    BY <1>1, <1>3, <1>4, UpTo
<1>6. Len(a) \in P
  BY <1>1, <1>5
<1> QED
  BY <1>6

LEMMA SameKeys ==
  ASSUME NEW S, S \subseteq Stored, NEW a, NEW b, Enumerates(a, S), Descends(a),
         Enumerates(b, S), Descends(b)
  PROVE  a = b
<1>1. a \in Seq(S) /\ b \in Seq(S) /\ Len(a) \in Nat /\ Len(b) \in Nat
  BY DEF Enumerates
<1>2. Len(a) <= Len(b) /\ Len(b) <= Len(a) /\ \A i \in 1..Len(a) : a[i] = b[i]
  <2>1. Len(a) <= Len(b) /\ \A i \in 1..Len(a) : a[i] = b[i]
    BY SameOrder
  <2>2. Len(b) <= Len(a)
    BY SameOrder
  <2> QED
    BY <2>1, <2>2
<1>3. Len(a) = Len(b)
  BY <1>1, <1>2
<1> QED
  BY <1>1, <1>2, <1>3, SeqEqual
-----------------------------------------------------------------------------
(* The keys of the first chunks.                                            *)

LEMMA LoadedType ==
  ASSUME NEW list \in Seq(FileRecord)
  PROVE  LoadKeysFromDisk(list) \in Seq(Stored)
<1> DEFINE parts == [i \in DOMAIN list |-> list[i].keys]
<1>1. DOMAIN list = 1..Len(list) /\ Len(list) \in Nat /\ \A i \in 1..Len(list) : list[i] \in FileRecord
  OBVIOUS
<1>2. parts \in [1..Len(list) -> Seq(Stored)]
  BY <1>1 DEF FileRecord
<1>3. LoadKeysFromDisk(list) = Flattening(parts)
  BY BridgeFlat DEF LoadKeysFromDisk
<1> HIDE DEF parts
<1>4. parts \in Seq(Seq(Stored))
  BY <1>1, <1>2, SeqDef
<1> QED
  BY <1>3, <1>4, FlattenType

LEMMA LoadedFacts ==
  ASSUME NEW chunks \in Seq(FileRecord)
  PROVE  /\ Loaded(chunks, 0) = <<>>
         /\ \A n \in 0..Len(chunks) : Loaded(chunks, n) \in Seq(Stored)
         /\ \A n \in 1..Len(chunks) :
              /\ chunks[n].keys \in Seq(Stored)
              /\ Loaded(chunks, n) = Loaded(chunks, n - 1) \o chunks[n].keys
<1> DEFINE parts(n) == [i \in DOMAIN SubSeq(chunks, 1, n) |-> SubSeq(chunks, 1, n)[i].keys]
<1>0. Len(chunks) \in Nat
  OBVIOUS
<1>1. ASSUME NEW n \in 0..Len(chunks)
      PROVE  /\ DOMAIN SubSeq(chunks, 1, n) = 1..n /\ Len(SubSeq(chunks, 1, n)) = n
             /\ SubSeq(chunks, 1, n) \in Seq(FileRecord)
             /\ \A i \in 1..n : SubSeq(chunks, 1, n)[i] = chunks[i] /\ chunks[i] \in FileRecord
  OBVIOUS
<1>2. ASSUME NEW n \in 0..Len(chunks)
      PROVE  /\ Loaded(chunks, n) = Flattening(parts(n))
             /\ parts(n) \in Seq(Seq(Stored)) /\ Len(parts(n)) = n
             /\ \A i \in 1..n : parts(n)[i] = chunks[i].keys /\ chunks[i].keys \in Seq(Stored)
             /\ Loaded(chunks, n) \in Seq(Stored)
  <2>1. Loaded(chunks, n) = Flattening(parts(n))
    BY BridgeFlat DEF Loaded, LoadKeysFromDisk
  <2>2. \A i \in 1..n : parts(n)[i] = chunks[i].keys /\ chunks[i].keys \in Seq(Stored)
    BY <1>1 DEF FileRecord
  <2>3. DOMAIN parts(n) = 1..n /\ parts(n) = [i \in 1..n |-> parts(n)[i]]
    BY <1>1
  <2> HIDE DEF parts
  <2>4. parts(n) \in [1..n -> Seq(Stored)]
    BY <2>2, <2>3
  <2>5. parts(n) \in Seq(Seq(Stored)) /\ n \in Nat
    BY <2>4, SeqDef
  <2>6. Len(parts(n)) = n
    BY <2>3, <2>5, LenProperties
  <2>7. Loaded(chunks, n) \in Seq(Stored)
    BY <2>1, <2>5, FlattenType
  <2> QED
    BY <2>1, <2>2, <2>5, <2>6, <2>7
<1> HIDE DEF parts
<1>3. Loaded(chunks, 0) = <<>>
  <2>1. parts(0) = <<>>
    BY <1>0, <1>2
  <2> QED
    BY <1>0, <1>2, <2>1, FlattenEmpty
<1>4. ASSUME NEW n \in 1..Len(chunks)
      PROVE  Loaded(chunks, n) = Loaded(chunks, n - 1) \o chunks[n].keys
  <2> DEFINE m == n - 1
             u == chunks[n].keys
             s == parts(m)
  <2>1. m \in 0..Len(chunks) /\ n \in 0..Len(chunks) /\ n = m + 1 /\ m \in Nat
    BY <1>0
  <2>2. s \in Seq(Seq(Stored)) /\ u \in Seq(Stored) /\ Len(s) = m
    BY <1>2, <2>1
  <2>3. \A i \in 1..m : s[i] = chunks[i].keys
    BY <1>2, <2>1
  <2>4. /\ parts(n) \in Seq(Seq(Stored)) /\ Len(parts(n)) = n /\ parts(n)[n] = u
        /\ \A i \in 1..n : parts(n)[i] = chunks[i].keys
    BY <1>2, <2>1
  <2> HIDE DEF m, u, s
  <2>5. /\ Append(s, u) \in Seq(Seq(Stored)) /\ Len(Append(s, u)) = m + 1
        /\ \A i \in 1..m : Append(s, u)[i] = s[i]
        /\ Append(s, u)[m + 1] = u
    <3>1. Append(s, u) \in Seq(Seq(Stored))
      BY <2>2, AppendProperties, Zenon
    <3>2. Len(Append(s, u)) = Len(s) + 1
      BY <2>2, AppendProperties, Zenon
    <3>3. \A i \in 1..Len(s) : Append(s, u)[i] = s[i]
      BY ONLY <2>2
    <3>4. Append(s, u)[Len(s) + 1] = u
      BY <2>2, AppendProperties, Zenon
    <3> QED
      BY <2>2, <3>1, <3>2, <3>3, <3>4, Zenon
  <2>6. ASSUME NEW i \in 1..n
        PROVE  Append(s, u)[i] = parts(n)[i]
    <3>1. CASE i = n
      BY <2>1, <2>4, <2>5, <3>1
    <3>2. CASE i # n
      <4>1. i \in 1..m
        BY <2>1, <3>2
      <4> QED
        BY <2>3, <2>4, <2>5, <4>1
    <3> QED
      BY <3>1, <3>2
  <2>7. Append(s, u) = parts(n)
    BY <2>1, <2>4, <2>5, <2>6, SeqEqual
  <2>8. Flattening(Append(s, u)) = Flattening(s) \o u
    BY <2>2, FlattenAppend
  <2>9. Loaded(chunks, n) = Loaded(chunks, m) \o u
    BY <1>2, <2>1, <2>7, <2>8 DEF s
  <2> QED
    BY <2>9 DEF m, u
<1>5. \A n \in 1..Len(chunks) : chunks[n].keys \in Seq(Stored)
  BY <1>0, <1>2
<1> QED
  BY <1>2, <1>3, <1>4, <1>5

\* What is loaded is in the chunks up to there.
LEMMA LoadedSame ==
  ASSUME NEW a \in Seq(FileRecord), NEW b \in Seq(FileRecord), NEW n \in Nat,
         n <= Len(a), n <= Len(b), \A i \in 1..n : a[i] = b[i]
  PROVE  Loaded(a, n) = Loaded(b, n)
<1>1. SubSeq(a, 1, n) = SubSeq(b, 1, n)
  OBVIOUS
<1> QED
  BY <1>1 DEF Loaded

LEMMA OpenedFacts ==
  ASSUME NEW chunks \in Seq(FileRecord), NEW n \in 1..(Len(chunks) + 1)
  PROVE  /\ Opened(chunks, n) \in Seq(FileRecord)
         /\ Len(Opened(chunks, n)) = IF n > Len(chunks) THEN n ELSE Len(chunks)
         /\ n <= Len(Opened(chunks, n)) /\ Len(chunks) <= Len(Opened(chunks, n))
         /\ \A i \in 1..Len(Opened(chunks, n)) :
              Opened(chunks, n)[i] = IF i = n THEN NewFile ELSE chunks[i]
         /\ \A i \in 1..Len(Opened(chunks, n)) : i # n => i \in 1..Len(chunks)
<1> DEFINE L == IF n > Len(chunks) THEN n ELSE Len(chunks)
           new == Opened(chunks, n)
<1>1. /\ Len(chunks) \in Nat /\ L \in Nat /\ n <= L /\ Len(chunks) <= L
      /\ \A i \in 1..L : i # n => i \in 1..Len(chunks)
  OBVIOUS
<1>2. NewFile \in FileRecord
  BY DEF NewFile, FileRecord, DumpNumbers
<1>3. new = [i \in 1..L |-> IF i = n THEN NewFile ELSE chunks[i]]
  BY DEF Opened
<1> HIDE DEF L, new
<1>4. \A i \in 1..L : i # n => chunks[i] \in FileRecord
  BY <1>1
<1>5. DOMAIN new = 1..L /\ \A i \in 1..L : new[i] = IF i = n THEN NewFile ELSE chunks[i]
  BY <1>3
<1>6. new \in [1..L -> FileRecord]
  BY <1>2, <1>3, <1>4
<1>7. new \in Seq(FileRecord)
  BY <1>1, <1>6, SeqDef
<1>8. Len(new) = L
  BY <1>1, <1>5, <1>7, LenProperties
<1> QED
  BY <1>1, <1>5, <1>7, <1>8 DEF L, new

LEMMA OpenedLoaded ==
  ASSUME NEW chunks \in Seq(FileRecord), NEW n \in 0..Len(chunks)
  PROVE  Loaded(Opened(chunks, n + 1), n + 1) = Loaded(chunks, n)
<1> DEFINE new == Opened(chunks, n + 1)
<1>1. n \in Nat /\ Len(chunks) \in Nat /\ n <= Len(chunks) /\ n + 1 \in 1..(Len(chunks) + 1)
  OBVIOUS
<1>2. /\ new \in Seq(FileRecord) /\ n + 1 <= Len(new) /\ Len(chunks) <= Len(new)
      /\ \A i \in 1..Len(new) : new[i] = IF i = n + 1 THEN NewFile ELSE chunks[i]
  BY <1>1, OpenedFacts
<1> HIDE DEF new
<1>3. Len(new) \in Nat
  BY <1>2
<1>4. Loaded(new, n) = Loaded(chunks, n)
  <2>1. n <= Len(new) /\ \A i \in 1..n : new[i] = chunks[i]
    BY <1>1, <1>2, <1>3
  <2> QED
    BY <1>1, <1>2, <2>1, LoadedSame
<1>5. n + 1 \in 1..Len(new) /\ (n + 1) - 1 = n
  BY <1>1, <1>2, <1>3
<1>6. new[n + 1].keys = <<>>
  BY <1>2, <1>5 DEF NewFile
<1>7. Loaded(new, n + 1) = Loaded(new, n) \o <<>>
  BY <1>2, <1>5, <1>6, LoadedFacts
<1>8. Loaded(chunks, n) \in Seq(Stored)
  BY LoadedFacts
<1>9. Loaded(new, n + 1) = Loaded(chunks, n)
  BY <1>4, <1>7, <1>8, ConcatEmptySeq
<1> QED
  BY <1>9 DEF new

Grown(chunks, n, key) == [chunks EXCEPT ![n].keys = Append(@, key)]

LEMMA GrownFacts ==
  ASSUME NEW chunks \in Seq(FileRecord), NEW n \in 1..Len(chunks), NEW key \in Stored
  PROVE  /\ Grown(chunks, n, key) \in Seq(FileRecord)
         /\ Len(Grown(chunks, n, key)) = Len(chunks)
         /\ \A i \in 1..Len(chunks) : i # n => Grown(chunks, n, key)[i] = chunks[i]
         /\ Grown(chunks, n, key)[n].keys = Append(chunks[n].keys, key)
         /\ chunks[n].keys \in Seq(Stored)
         /\ Loaded(Grown(chunks, n, key), n) = Append(Loaded(chunks, n), key)
<1> DEFINE file == [chunks[n] EXCEPT !.keys = Append(@, key)]
           new == Grown(chunks, n, key)
           m == n - 1
<1>0. Len(chunks) \in Nat
  OBVIOUS
<1>1. chunks[n] \in FileRecord /\ chunks[n].keys \in Seq(Stored)
  <2>1. chunks[n] \in FileRecord
    BY ElementOfSeq, Zenon
  <2> QED
    BY <2>1 DEF FileRecord
<1>2. file \in FileRecord /\ file.keys = Append(chunks[n].keys, key)
  <2>1. Append(chunks[n].keys, key) \in Seq(Stored)
    BY <1>1
  <2> QED
    BY <1>1, <2>1 DEF FileRecord
<1>3. new = [chunks EXCEPT ![n] = file]
  BY DEF Grown
<1> HIDE DEF file, new
<1>4. /\ new \in Seq(FileRecord) /\ Len(new) = Len(chunks)
      /\ \A i \in 1..Len(chunks) : new[i] = IF i = n THEN file ELSE chunks[i]
  BY <1>2, <1>3, ExceptSeq
<1>5. m \in Nat /\ m <= Len(chunks) /\ n \in 1..Len(new) /\ \A i \in 1..m : i \in 1..Len(chunks) /\ i # n
  BY <1>4
<1>6. Loaded(new, m) = Loaded(chunks, m)
  BY <1>4, <1>5, LoadedSame
<1>7. Loaded(new, n) = Loaded(chunks, m) \o Append(chunks[n].keys, key)
  BY <1>2, <1>4, <1>5, <1>6, LoadedFacts
<1>8. Loaded(chunks, n) = Loaded(chunks, m) \o chunks[n].keys
  BY LoadedFacts
<1>9. Loaded(chunks, m) \in Seq(Stored)
  <2>1. m \in 0..Len(chunks)
    BY <1>5, <1>0
  <2> QED
    BY <2>1, LoadedFacts
<1>10. Loaded(chunks, m) \o Append(chunks[n].keys, key) = Append(Loaded(chunks, m) \o chunks[n].keys, key)
  <2> DEFINE a == Loaded(chunks, m)
             b == chunks[n].keys
  <2>1. a \in Seq(Stored) /\ b \in Seq(Stored) /\ key \in Stored
    BY <1>1, <1>9
  <2> HIDE DEF a, b
  <2>2. a \o Append(b, key) = Append(a \o b, key)
    BY ONLY <2>1, AppendConcat
  <2> QED
    BY <2>2 DEF a, b
<1> QED
  BY <1>1, <1>2, <1>4, <1>7, <1>8, <1>10 DEF new
-----------------------------------------------------------------------------
(* The invariant holds at first, and every step keeps it.                   *)

LEMMA KeyMapNone == IsKeyMap(<<>>, <<>>)
<1>1. DOMAIN <<>> = {}
  OBVIOUS
<1>2. \A email : Valid(<<>>, email) = {}
  BY DEF Valid
<1> QED
  BY <1>1, <1>2 DEF IsKeyMap

LEMMA InitInv ==
  ASSUME Init
  PROVE  IInv
<1>1. NetType
  <2>1. random = None => scheme = None
    BY KeyDBAssumption DEF Init
  <2>2. NumServers \in Nat
    BY KeyDBAssumption
  <2>3. DOMAIN server = {} /\ 0..(0 - 1) = {}
    BY DEF Init
  <2>4. random # None => scheme \in Simulations /\ random \in RandomBlocks
    BY DEF Init
  <2> QED
    BY <2>1, <2>2, <2>3, <2>4 DEF Init, NetType
<1>2. ParseType
  BY DEF Init, ParseType, DumpNumbers
<1>3. DiskType
  BY DEF Init, DiskType, DiskRecord, NoFiles, Unmade, DumpNumbers
<1>4. AnalyzeInv /\ WriteInv /\ SplitInv
  BY DEF Init, AnalyzeInv, WriteInv, SplitInv
<1>5. FullInv /\ SizeInv /\ MadeInv
  BY DEF Init, FullInv, SizeInv, MadeInv, NoFiles, Unmade
<1>6. ServerInv
  <2>1. DOMAIN server = {}
    BY DEF Init
  <2> QED
    BY <2>1 DEF ServerInv
<1> QED
  BY <1>1, <1>2, <1>3, <1>4, <1>5, <1>6 DEF IInv

\* What a command does not touch, and what it leaves behind.
LEMMA FrameServer ==
  ASSUME IInv, UNCHANGED <<net, machine, server>>
  PROVE  NetType' /\ ServerInv'
BY DEF IInv, NetType, ServerInv, net

LEMMA FrameDisk ==
  ASSUME IInv, disk' = disk
  PROVE  FullInv' /\ MadeInv'
BY DEF IInv, FullInv, MadeInv

LEMMA FrameEnds ==
  ASSUME IInv, Ends
  PROVE  /\ ParseType' /\ AnalyzeInv' /\ WriteInv' /\ SplitInv'
         /\ pos' \in Nat /\ outputNum' \in Nat /\ numWrittenBytes' \in Nat
<1>1. ParseType'
  BY DEF Ends, ParseType, DumpNumbers
<1> QED
  BY <1>1 DEF Ends, AnalyzeInv, WriteInv, SplitInv

LEMMA StartParseInv ==
  ASSUME IInv, NEW d \in DOMAIN Dumps, StartParse(d)
  PROVE  IInv'
<1>1. /\ random = None /\ pc' = "analyze" /\ dump' = d /\ files' = GetSksOriginalDumpFiles(d)
      /\ el' = <<>> /\ keys' = <<>> /\ left' = {} /\ disk' = disk
      /\ UNCHANGED <<net, machine, server, pos, outputNum, numWrittenBytes>>
  BY DEF StartParse, Idle, split
<1>2. NetType' /\ ServerInv' /\ FullInv' /\ MadeInv'
  BY <1>1, FrameServer, FrameDisk
<1>3. ParseType'
  <2>1. d # 0 /\ d \in DumpNumbers
    BY DumpsAssumption DEF DumpNumbers
  <2>2. files' \in Seq(DumpFiles)
    BY <1>1, FileList
  <2> QED
    BY <1>1, <2>1, <2>2 DEF ParseType, net
<1>4. DiskType'
  BY <1>1 DEF IInv, DiskType
<1>5. AnalyzeInv'
  <2> DEFINE all == DumpEntities(d)
             done == SubSeq(all, 1, 0)
  <2>1. all \in Seq(AllEntities) /\ all = EntitiesOf(files')
    BY <1>1, DumpEntitiesType
  <2>2. done = <<>> /\ 0 \in 0..Len(all)
    BY <2>1
  <2>3. IsKeyMap(keys', done)
    BY <1>1, <2>2, KeyMapNone
  <2>4. done \o (el' \o EntitiesOf(files')) = all
    <3>1. <<>> \o all = all
      BY <2>1, ConcatEmptySeq
    <3> HIDE DEF all, done
    <3> QED
      BY <1>1, <2>1, <2>2, <3>1
  <2>5. \E n \in 0..Len(all) : LET r == SubSeq(all, 1, n)
                               IN  r \o (el' \o EntitiesOf(files')) = all /\ IsKeyMap(keys', r)
    BY <2>2, <2>3, <2>4
  <2> QED
    BY <1>1, <2>5 DEF AnalyzeInv
<1>6. WriteInv' /\ SplitInv' /\ SizeInv'
  BY <1>1 DEF IInv, WriteInv, SplitInv, SizeInv
<1> QED
  BY <1>2, <1>3, <1>4, <1>5, <1>6 DEF IInv

LEMMA ReadKeyRingInv ==
  ASSUME IInv, ReadKeyRing
  PROVE  IInv'
<1>1. /\ pc = "analyze" /\ el = <<>> /\ files # <<>> /\ disk' = disk
      /\ UNCHANGED <<net, machine, server>>
  BY DEF ReadKeyRing
<1>2. NetType' /\ ServerInv' /\ FullInv' /\ MadeInv'
  BY <1>1, FrameServer, FrameDisk
<1>3. files \in Seq(DumpFiles) /\ dump \in DOMAIN Dumps
  BY <1>1 DEF IInv, ParseType, DumpNumbers
<1>4. CASE Head(files).readable
  <2>1. /\ files' = Tail(files) /\ el' = Head(files).entities
        /\ UNCHANGED <<pc, dump, keys, left, pos, outputNum, numWrittenBytes>>
    BY <1>4 DEF ReadKeyRing, split
  <2>2. /\ files' \in Seq(DumpFiles) /\ el' \in Seq(AllEntities)
        /\ EntitiesOf(files) = el' \o EntitiesOf(files')
        /\ EntitiesOf(files) \in Seq(AllEntities)
    BY <1>1, <1>3, <2>1, Entities
  <2>3. ParseType'
    BY <1>1, <2>1, <2>2 DEF IInv, ParseType, net
  <2>4. DiskType'
    BY <1>1, <2>1 DEF IInv, DiskType
  <2>5. AnalyzeInv'
    <3>1. el \o EntitiesOf(files) = el' \o EntitiesOf(files')
      BY <1>1, <2>2, ConcatEmptySeq
    <3> QED
      BY <1>1, <2>1, <3>1 DEF IInv, AnalyzeInv
  <2>6. WriteInv' /\ SplitInv' /\ SizeInv'
    BY <1>1, <2>1 DEF IInv, WriteInv, SplitInv, SizeInv
  <2> QED
    BY <1>2, <2>3, <2>4, <2>5, <2>6 DEF IInv
<1>5. CASE ~Head(files).readable
  <2>1. Ends
    BY <1>5 DEF ReadKeyRing
  <2>2. /\ ParseType' /\ AnalyzeInv' /\ WriteInv' /\ SplitInv'
        /\ pos' \in Nat /\ outputNum' \in Nat /\ numWrittenBytes' \in Nat
    BY <2>1, FrameEnds
  <2>3. DiskType' /\ SizeInv'
    BY <1>1, <2>1, <2>2 DEF IInv, DiskType, SizeInv, Ends
  <2> QED
    BY <1>2, <2>2, <2>3 DEF IInv
<1> QED
  BY <1>4, <1>5

LEMMA OneMore ==
  ASSUME NEW X, NEW s \in Seq(X), NEW t \in Seq(X), NEW r \in Seq(X), NEW e \in X
  PROVE  /\ s \o ((<<e>> \o t) \o r) = Append(s, e) \o (t \o r)
         /\ SubSeq(Append(s, e) \o (t \o r), 1, Len(s) + 1) = Append(s, e)
         /\ Len(s) + 1 \in 0..Len(Append(s, e) \o (t \o r))
<1> DEFINE one == <<e>>
           u == t \o r
           new == Append(s, e)
<1>1. one \in Seq(X) /\ u \in Seq(X)
  OBVIOUS
<1>2. new \in Seq(X) /\ Len(new) = Len(s) + 1 /\ new = s \o one /\ Len(s) \in Nat
  BY AppendIsConcat
<1>3. \A a, b, c \in Seq(X) : (a \o b) \o c = a \o (b \o c)
  OBVIOUS
<1>4. (one \o t) \o r = one \o u
  BY <1>1, <1>3
<1> HIDE DEF one, u, new
<1>5. s \o (one \o u) = new \o u
  <2>1. (s \o one) \o u = s \o (one \o u)
    BY ONLY s \in Seq(X), <1>1, ConcatAssociative, SMTT(60)
  <2> QED
    BY <1>2, <2>1, Zenon
<1>6. Len(new \o u) = Len(new) + Len(u) /\ Len(u) \in Nat
  <2>1. Len(new \o u) = Len(new) + Len(u)
    BY <1>1, <1>2, ConcatProperties, Zenon
  <2>2. Len(u) \in Nat
    BY <1>1, LenProperties, Zenon
  <2> QED
    BY <2>1, <2>2
<1>7. SubSeq(new \o u, 1, Len(new)) = new
  <2>1. SubSeq(new \o u, 1, Len(new)) = SubSeq(new, 1, Len(new))
    BY <1>1, <1>2, SubSeqOfConcat1
  <2> QED
    BY <1>2, <2>1, SubSeqFull
<1>8. SubSeq(new \o u, 1, Len(s) + 1) = new /\ Len(s) + 1 \in 0..Len(new \o u)
  BY ONLY <1>2, <1>6, <1>7
<1>9. s \o ((one \o t) \o r) = new \o u
  BY <1>4, <1>5, Zenon
<1> QED
  BY <1>8, <1>9, Zenon DEF one, u, new

LEMMA SaveKeyInv ==
  ASSUME IInv, SaveKey
  PROVE  IInv'
<1> DEFINE all == DumpEntities(dump)
           e == Head(el)
           rest == EntitiesOf(files)
<1>1. /\ pc = "analyze" /\ el # <<>> /\ keys' = saveKeyIfValid(e, keys) /\ el' = Tail(el)
      /\ UNCHANGED <<pc, dump, files, left, disk, net, machine, server, pos, outputNum, numWrittenBytes>>
  BY DEF SaveKey, split
<1>2. NetType' /\ ServerInv' /\ FullInv' /\ MadeInv'
  BY <1>1, FrameServer, FrameDisk
<1>3. /\ el \in Seq(AllEntities) /\ el' \in Seq(AllEntities) /\ e \in AllEntities /\ e = el[1]
      /\ el = <<e>> \o el' /\ dump \in DOMAIN Dumps /\ files \in Seq(DumpFiles)
  <2>1. el \in Seq(AllEntities) /\ dump \in DOMAIN Dumps /\ files \in Seq(DumpFiles)
    BY <1>1 DEF IInv, ParseType, DumpNumbers
  <2>2. el' \in Seq(AllEntities) /\ e \in AllEntities /\ e = el[1]
    BY <1>1, <2>1
  <2>3. el = <<e>> \o el'
    BY <1>1, <2>1
  <2> QED
    BY <2>1, <2>2, <2>3
<1>4. all \in Seq(AllEntities) /\ rest \in Seq(AllEntities)
  BY <1>3, DumpEntitiesType, Entities
<1>5. PICK n \in 0..Len(all) : /\ SubSeq(all, 1, n) \o (el \o rest) = all
                               /\ IsKeyMap(keys, SubSeq(all, 1, n))
  BY <1>1 DEF IInv, AnalyzeInv
<1> DEFINE done == SubSeq(all, 1, n)
           more == SubSeq(all, 1, n + 1)
<1>6. /\ done \in Seq(AllEntities) /\ Len(done) = n /\ n \in Nat
  BY <1>4
<1> HIDE DEF e
<1>7. /\ n + 1 \in 0..Len(all) /\ more = Append(done, e)
      /\ Append(done, e) \o (el' \o rest) = all
  <2> DEFINE sum == Append(done, e) \o (el' \o rest)
             after == el'
  <2> HIDE DEF all, rest, done, after
  <2>1. /\ done \o ((<<e>> \o after) \o rest) = Append(done, e) \o (after \o rest)
        /\ SubSeq(Append(done, e) \o (after \o rest), 1, Len(done) + 1) = Append(done, e)
        /\ Len(done) + 1 \in 0..Len(Append(done, e) \o (after \o rest))
    <3>1. /\ after \in Seq(AllEntities) /\ rest \in Seq(AllEntities) /\ done \in Seq(AllEntities)
          /\ e \in AllEntities
      BY <1>3, <1>4, <1>6 DEF after
    <3> QED
      BY ONLY <3>1, OneMore
  <2>2. done \o ((<<e>> \o after) \o rest) = all
    BY <1>3, <1>5 DEF after, done
  <2>3. sum = all
    BY <2>1, <2>2 DEF after
  <2>4. n + 1 \in 0..Len(all) /\ SubSeq(all, 1, n + 1) = Append(done, e)
    BY <1>6, <2>1, <2>2
  <2> QED
    BY <2>3, <2>4
<1>8. IsKeyMap(keys', Append(done, e))
  <2> HIDE DEF all, done
  <2>1. IsKeyMap(keys, done)
    BY <1>5 DEF done
  <2> QED
    BY <1>1, <1>3, <1>6, <2>1, SaveLatest DEF e
<1>9. AnalyzeInv'
  <2>1. more \o (el' \o EntitiesOf(files')) = all /\ IsKeyMap(keys', more)
    BY <1>1, <1>7, <1>8
  <2> HIDE DEF all
  <2>2. DumpEntities(dump') = all
    BY <1>1 DEF all
  <2> QED
    BY <1>7, <2>1, <2>2 DEF AnalyzeInv
<1>10. ParseType'
  <2>1. \A email \in DOMAIN keys' : PrimaryEmail(keys'[email]) = email /\ ~keys'[email].revoked
    <3>1. Append(done, e) \in Seq(AllEntities)
      <4> HIDE DEF done
      <4> QED
        BY <1>3, <1>6
    <3> HIDE DEF done
    <3> QED
      BY <1>8, <3>1, MapType
  <2>2. left' \subseteq DOMAIN keys'
    <3>1. DOMAIN keys \subseteq DOMAIN keys'
      BY <1>1 DEF saveKeyIfValid, Put
    <3> QED
      BY <1>1, <3>1 DEF IInv, ParseType
  <2> QED
    BY <1>1, <1>3, <2>1, <2>2 DEF IInv, ParseType, net
<1>11. DiskType' /\ WriteInv' /\ SplitInv' /\ SizeInv'
  BY <1>1 DEF IInv, DiskType, WriteInv, SplitInv, SizeInv
<1> QED
  BY <1>2, <1>9, <1>10, <1>11 DEF IInv

LEMMA OpenFullInv ==
  ASSUME IInv, OpenFull
  PROVE  IInv'
<1>1. /\ pc = "analyze" /\ el = <<>> /\ files = <<>> /\ pc' = "write" /\ left' = DOMAIN keys
      /\ disk' = [disk EXCEPT !.full = NewFile]
      /\ UNCHANGED <<net, machine, server, dump, files, el, keys, pos, outputNum, numWrittenBytes>>
  BY DEF OpenFull, split
<1>2. NetType' /\ ServerInv'
  BY <1>1, FrameServer
<1>3. ParseType'
  BY <1>1 DEF IInv, ParseType, net
<1>4. disk \in DiskRecord /\ dump \in DOMAIN Dumps
  BY <1>1 DEF IInv, DiskType, ParseType, DumpNumbers
<1>5. NewFile \in FileRecord
  BY DEF NewFile, FileRecord, DumpNumbers
<1>6. /\ disk' \in DiskRecord /\ disk'.full = NewFile
      /\ disk'.chunks = disk.chunks /\ disk'.made = disk.made
  BY <1>1, <1>4, <1>5 DEF DiskRecord
<1>7. DiskType'
  BY <1>1, <1>5, <1>6 DEF IInv, DiskType
<1>8. AnalyzeInv' /\ SplitInv' /\ SizeInv' /\ FullInv' /\ MadeInv'
  BY <1>1, <1>6 DEF IInv, AnalyzeInv, SplitInv, SizeInv, FullInv, MadeInv, NewFile
<1>9. WriteInv'
  <2> DEFINE all == DumpEntities(dump)
  <2>1. all \in Seq(AllEntities) /\ EntitiesOf(files) = <<>>
    <3>1. files \in Seq(DumpFiles)
      BY DEF IInv, ParseType
    <3> QED
      BY <1>1, <1>4, <3>1, DumpEntitiesType, Entities
  <2>2. PICK n \in 0..Len(all) : /\ SubSeq(all, 1, n) \o (el \o EntitiesOf(files)) = all
                                 /\ IsKeyMap(keys, SubSeq(all, 1, n))
    BY <1>1 DEF IInv, AnalyzeInv
  <2>3. SubSeq(all, 1, n) = all
    <3> DEFINE done == SubSeq(all, 1, n)
    <3>1. done \in Seq(AllEntities)
      BY <2>1
    <3>2. done \o (<<>> \o <<>>) = all
      BY <1>1, <2>1, <2>2
    <3> HIDE DEF done, all
    <3>3. <<>> \o <<>> = <<>> /\ done \o <<>> = done
      BY <3>1, ConcatEmptySeq, EmptySeq, Zenon
    <3>4. done = all
      BY <3>2, <3>3
    <3> QED
      BY <3>4 DEF done
  <2>4. IsKeyMap(keys', DumpEntities(dump'))
    BY <1>1, <2>2, <2>3
  <2>5. DOMAIN keys' \ left' = {} /\ disk'.full.keys = <<>> /\ disk'.full.dump = 0
    BY <1>1, <1>6 DEF NewFile
  <2> HIDE DEF all
  <2>6. Enumerates(disk'.full.keys, Written(keys', DOMAIN keys' \ left'))
    BY <2>5, EnumeratesNone, Zenon
  <2> QED
    BY <2>4, <2>5, <2>6 DEF WriteInv
<1> QED
  BY <1>2, <1>3, <1>7, <1>8, <1>9 DEF IInv

LEMMA WriteKeyInv ==
  ASSUME IInv, NEW email, WriteKey(email)
  PROVE  IInv'
<1> DEFINE key == [ID |-> email, Packet |-> keys[email].packet]
           full == disk.full
           list == IF TooLong(keys[email].packet) THEN full.keys ELSE Append(full.keys, key)
<1>1. /\ pc = "write" /\ email \in left /\ left' = left \ {email}
      /\ disk' = IF TooLong(keys[email].packet) THEN disk
                 ELSE [disk EXCEPT !.full.keys = Append(@, key)]
      /\ UNCHANGED <<pc, net, machine, server, dump, files, el, keys, pos, outputNum, numWrittenBytes>>
  BY DEF WriteKey, split
<1>2. NetType' /\ ServerInv'
  BY <1>1, FrameServer
<1>3. ParseType'
  BY <1>1 DEF IInv, ParseType, net
<1>4. /\ disk \in DiskRecord /\ full \in FileRecord /\ dump \in DOMAIN Dumps /\ left \subseteq DOMAIN keys
      /\ full.dump = 0 /\ IsKeyMap(keys, DumpEntities(dump))
      /\ Enumerates(full.keys, Written(keys, DOMAIN keys \ left))
  BY <1>1 DEF IInv, DiskType, ParseType, WriteInv, DumpNumbers
<1>5. ~TooLong(keys[email].packet) => key \in Stored
  <2>1. DumpEntities(dump) \in Seq(AllEntities) /\ email \in DOMAIN keys
    BY <1>1, <1>4, DumpEntitiesType
  <2> QED
    BY <1>4, <2>1, MapType
<1>6. list \in Seq(Stored)
  <2>1. full.keys \in Seq(Stored)
    BY <1>4 DEF FileRecord
  <2> HIDE DEF key, full
  <2> QED
    BY <1>5, <2>1
<1>7. /\ disk' \in DiskRecord /\ disk'.full \in FileRecord /\ disk'.full.keys = list /\ disk'.full.dump = 0
      /\ disk'.chunks = disk.chunks /\ disk'.made = disk.made
  <2>1. disk' = [disk EXCEPT !.full = [full EXCEPT !.keys = list]]
    <3>1. CASE TooLong(keys[email].packet)
      BY <1>1, <1>4, <3>1 DEF DiskRecord, FileRecord
    <3>2. CASE ~TooLong(keys[email].packet)
      BY <1>1, <1>4, <3>2 DEF DiskRecord, FileRecord
    <3> QED
      BY <3>1, <3>2
  <2> HIDE DEF list
  <2>2. /\ [full EXCEPT !.keys = list] \in FileRecord /\ [full EXCEPT !.keys = list].keys = list
        /\ [full EXCEPT !.keys = list].dump = full.dump
    BY <1>4, <1>6 DEF FileRecord
  <2> DEFINE file == [full EXCEPT !.keys = list]
  <2> HIDE DEF file
  <2>3. /\ [disk EXCEPT !.full = file] \in DiskRecord /\ [disk EXCEPT !.full = file].full = file
        /\ [disk EXCEPT !.full = file].chunks = disk.chunks
        /\ [disk EXCEPT !.full = file].made = disk.made
    BY <1>4, <2>2 DEF DiskRecord, file
  <2> QED
    BY <1>4, <2>1, <2>2, <2>3 DEF file
<1> HIDE DEF list
<1>8. DiskType'
  BY <1>1, <1>7 DEF IInv, DiskType
<1>9. AnalyzeInv' /\ SplitInv' /\ SizeInv' /\ FullInv' /\ MadeInv'
  BY <1>1, <1>7 DEF IInv, AnalyzeInv, SplitInv, SizeInv, FullInv, MadeInv
<1>10. WriteInv'
  <2> DEFINE done == DOMAIN keys \ left
  <2>1. DOMAIN keys' \ left' = done \cup {email} /\ email \notin done
    BY <1>1, <1>4
  <2>2. Enumerates(list, Written(keys, done \cup {email}))
    <3> HIDE DEF done, full
    <3> QED
      BY <1>4, <2>1, EnumeratesOne DEF list, done, full
  <2>3. Enumerates(disk'.full.keys, Written(keys', DOMAIN keys' \ left'))
    BY <1>1, <1>7, <2>1, <2>2
  <2> QED
    BY <1>1, <1>4, <1>7, <2>3 DEF WriteInv
<1> QED
  BY <1>2, <1>3, <1>8, <1>9, <1>10 DEF IInv

LEMMA CloseFullInv ==
  ASSUME IInv, CloseFull
  PROVE  IInv'
<1>1. /\ pc = "write" /\ left = {} /\ Ends /\ disk' = [disk EXCEPT !.full.dump = dump]
      /\ UNCHANGED <<net, machine, server>>
  BY DEF CloseFull
<1>2. NetType' /\ ServerInv'
  BY <1>1, FrameServer
<1>3. /\ ParseType' /\ AnalyzeInv' /\ WriteInv' /\ SplitInv'
      /\ pos' \in Nat /\ outputNum' \in Nat /\ numWrittenBytes' \in Nat
  BY <1>1, FrameEnds
<1>4. /\ disk \in DiskRecord /\ disk.full \in FileRecord /\ dump \in DOMAIN Dumps
      /\ IsKeyMap(keys, DumpEntities(dump))
      /\ Enumerates(disk.full.keys, Written(keys, DOMAIN keys \ left))
  BY <1>1 DEF IInv, DiskType, ParseType, WriteInv, DumpNumbers
<1>5. /\ disk' \in DiskRecord /\ disk'.full \in FileRecord /\ disk'.full.keys = disk.full.keys
      /\ disk'.full.dump = dump /\ disk'.chunks = disk.chunks /\ disk'.made = disk.made
  BY <1>1, <1>4 DEF DiskRecord, FileRecord, DumpNumbers
<1>6. DiskType' /\ SizeInv' /\ MadeInv'
  BY <1>1, <1>3, <1>5 DEF IInv, DiskType, SizeInv, MadeInv, Ends
<1>7. FullInv'
  <2>1. DOMAIN keys \ left = DOMAIN keys
    BY <1>1
  <2>2. Enumerates(disk.full.keys, Served(dump))
    BY <1>4, <2>1, WrittenIsServed, Zenon
  <2> QED
    BY <1>5, <2>2 DEF FullInv
<1> QED
  BY <1>2, <1>3, <1>6, <1>7 DEF IInv

LEMMA StartSplitInv ==
  ASSUME IInv, StartSplit
  PROVE  IInv'
<1>1. /\ random = None /\ disk.full # None /\ pc = "idle" /\ pc' = "split"
      /\ pos' = 1 /\ outputNum' = 0 /\ numWrittenBytes' = 0
      /\ disk' = [disk EXCEPT !.made = Unmade]
      /\ UNCHANGED <<net, machine, server, dump, files, el, keys, left>>
  BY DEF StartSplit, Idle, parse
<1>2. NetType' /\ ServerInv'
  BY <1>1, FrameServer
<1>3. ParseType'
  BY <1>1 DEF IInv, ParseType, net
<1>4. disk \in DiskRecord
  BY DEF IInv, DiskType
<1>5. /\ disk' \in DiskRecord /\ disk'.full = disk.full /\ disk'.full \in FileRecord
      /\ disk'.chunks = disk.chunks /\ disk'.made = Unmade
      /\ disk.chunks \in Seq(FileRecord) /\ Len(disk.chunks) \in Nat
  <2>1. Unmade \in [dump : DumpNumbers, number : Nat]
    BY DEF Unmade, DumpNumbers
  <2>2. disk.chunks \in Seq(FileRecord)
    BY <1>4 DEF DiskRecord
  <2>3. Len(disk.chunks) \in Nat
    BY <2>2
  <2> QED
    BY <1>1, <1>4, <2>1, <2>2, <2>3 DEF DiskRecord
<1>6. DiskType'
  BY <1>1, <1>5 DEF DiskType, Unmade
<1>7. AnalyzeInv' /\ WriteInv' /\ SizeInv' /\ FullInv' /\ MadeInv'
  BY <1>1, <1>5 DEF IInv, AnalyzeInv, WriteInv, SizeInv, FullInv, MadeInv, Unmade
<1>8. SplitInv'
  <2>1. Loaded(disk'.chunks, 0) = <<>>
    BY <1>5, LoadedFacts
  <2>2. disk'.full.keys \in Seq(Stored)
    BY <1>5 DEF FileRecord
  <2>3. SubSeq(disk'.full.keys, 1, 0) = <<>> /\ Len(disk'.full.keys) \in Nat
    BY <2>2, PrefixEnds, Zenon
  <2>4. pos' \in 1..(Len(disk'.full.keys) + 1) /\ outputNum' <= Len(disk'.chunks)
    <3> DEFINE N == Len(disk'.full.keys)
               M == Len(disk'.chunks)
    <3>1. N \in Nat /\ M \in Nat /\ pos' = 1 /\ outputNum' = 0
      BY <1>1, <1>5, <2>3
    <3> HIDE DEF N, M
    <3>2. pos' \in 1..(N + 1) /\ outputNum' <= M
      BY <3>1
    <3> QED
      BY <3>2 DEF N, M
  <2>5. Loaded(disk'.chunks, outputNum') = SubSeq(disk'.full.keys, 1, pos' - 1)
    <3>1. pos' - 1 = 0 /\ outputNum' = 0
      BY <1>1
    <3> QED
      BY <2>1, <2>3, <3>1, Zenon
  <2> QED
    BY <1>1, <1>5, <2>4, <2>5 DEF SplitInv
<1> QED
  BY <1>2, <1>3, <1>6, <1>7, <1>8 DEF IInv

\* What a turn of genChunks finds once it has opened a chunk, if it must.
Opens    == outputNum = 0 \/ numWrittenBytes > hundredMb
Number   == IF Opens THEN outputNum + 1 ELSE outputNum
Chunks   == IF Opens THEN Opened(disk.chunks, Number) ELSE disk.chunks
BytesNow == IF Opens THEN 0 ELSE numWrittenBytes

LEMMA SplitTurn ==
  ASSUME IInv, pc = "split"
  PROVE  /\ disk.full \in FileRecord /\ disk.full.keys \in Seq(Stored) /\ Len(disk.full.keys) \in Nat
         /\ pos \in 1..(Len(disk.full.keys) + 1) /\ disk.made = Unmade /\ disk.full # None
         /\ Chunks \in Seq(FileRecord) /\ Number \in 1..Len(Chunks) /\ BytesNow \in Nat
         /\ Loaded(Chunks, Number) = SubSeq(disk.full.keys, 1, pos - 1)
         /\ \A i \in 1..Len(Chunks) : Large(Chunks[i]) <= hundredMb + (IDLen + 1)
         /\ Large(Chunks[Number]) <= BytesNow /\ Large(Chunks[Number]) <= hundredMb
<1> DEFINE c == disk.chunks
<1>1. /\ disk \in DiskRecord /\ disk.full \in FileRecord /\ outputNum \in Nat /\ numWrittenBytes \in Nat
      /\ disk.full # None /\ disk.made = Unmade /\ pos \in 1..(Len(disk.full.keys) + 1)
      /\ outputNum <= Len(c) /\ Loaded(c, outputNum) = SubSeq(disk.full.keys, 1, pos - 1)
      /\ \A i \in 1..Len(c) : Large(c[i]) <= hundredMb + (IDLen + 1)
      /\ outputNum # 0 => Large(c[outputNum]) <= numWrittenBytes
  BY DEF IInv, DiskType, SplitInv, SizeInv
<1>2. /\ c \in Seq(FileRecord) /\ disk.full.keys \in Seq(Stored)
  BY <1>1 DEF DiskRecord, FileRecord
<1>3. Len(c) \in Nat /\ Len(disk.full.keys) \in Nat
  BY <1>2, LenProperties, Zenon
<1>4. hundredMb \in Nat /\ IDLen \in Nat
  BY KeyDBAssumption
<1>5. ASSUME NEW i \in 1..Len(c)
      PROVE  Large(c[i]) \in Nat
  <2>1. c[i].keys \in Seq(Stored)
    BY <1>2, LoadedFacts, Zenon
  <2>2. Len(c[i].keys) \in Nat
    BY <2>1, LenProperties, Zenon
  <2>3. \A a, b \in Nat : a * b \in Nat
    OBVIOUS
  <2>4. IDLen + 1 \in Nat
    BY <1>4
  <2> QED
    BY <2>2, <2>3, <2>4 DEF Large
<1>6. Large(NewFile) = 0
  BY <1>4 DEF Large, NewFile
<1> HIDE DEF c
<1>7. ASSUME Opens
      PROVE  /\ Chunks \in Seq(FileRecord) /\ Number \in 1..Len(Chunks) /\ BytesNow \in Nat
             /\ Loaded(Chunks, Number) = SubSeq(disk.full.keys, 1, pos - 1)
             /\ \A i \in 1..Len(Chunks) : Large(Chunks[i]) <= hundredMb + (IDLen + 1)
             /\ Large(Chunks[Number]) <= BytesNow /\ Large(Chunks[Number]) <= hundredMb
  <2>1. Number = outputNum + 1 /\ Chunks = Opened(c, outputNum + 1) /\ BytesNow = 0
    BY <1>7 DEF Number, Chunks, BytesNow, c
  <2>2. outputNum \in 0..Len(c) /\ outputNum + 1 \in 1..(Len(c) + 1)
    BY <1>1, <1>3
  <2>3. Loaded(Chunks, Number) = Loaded(c, outputNum)
    BY <1>2, <2>1, <2>2, OpenedLoaded, Zenon
  <2> DEFINE n == outputNum + 1
             new == Opened(c, n)
  <2>4. /\ new \in Seq(FileRecord) /\ n <= Len(new)
        /\ \A i \in 1..Len(new) : new[i] = IF i = n THEN NewFile ELSE c[i]
        /\ \A i \in 1..Len(new) : i # n => i \in 1..Len(c)
    <3> HIDE DEF n
    <3> QED
      BY <1>2, <2>2, OpenedFacts DEF n
  <2>5. Len(new) \in Nat
    <3> HIDE DEF new
    <3> QED
      BY <2>4, LenProperties, Zenon
  <2> HIDE DEF new
  <2>6. n \in 1..Len(new) /\ new[n] = NewFile
    BY <1>1, <2>4, <2>5
  <2>7. \A i \in 1..Len(new) : Large(new[i]) <= hundredMb + (IDLen + 1)
    <3> SUFFICES ASSUME NEW i \in 1..Len(new)
                 PROVE  Large(new[i]) <= hundredMb + (IDLen + 1)
      OBVIOUS
    <3>1. CASE i = n
      BY <1>4, <1>6, <2>6, <3>1
    <3>2. CASE i # n
      BY <1>1, <2>4, <3>2
    <3> QED
      BY <3>1, <3>2
  <2>8. Large(new[n]) <= 0 /\ Large(new[n]) <= hundredMb
    BY <1>4, <1>6, <2>6
  <2>9. Chunks = new /\ Number = n
    BY <2>1 DEF new
  <2> HIDE DEF n
  <2> QED
    BY <1>1, <2>1, <2>3, <2>4, <2>6, <2>7, <2>8, <2>9
<1>8. ASSUME ~Opens
      PROVE  /\ Chunks \in Seq(FileRecord) /\ Number \in 1..Len(Chunks) /\ BytesNow \in Nat
             /\ Loaded(Chunks, Number) = SubSeq(disk.full.keys, 1, pos - 1)
             /\ \A i \in 1..Len(Chunks) : Large(Chunks[i]) <= hundredMb + (IDLen + 1)
             /\ Large(Chunks[Number]) <= BytesNow /\ Large(Chunks[Number]) <= hundredMb
  <2>1. Number = outputNum /\ Chunks = c /\ BytesNow = numWrittenBytes
    BY <1>8 DEF Number, Chunks, BytesNow, c
  <2>2. outputNum # 0 /\ ~(numWrittenBytes > hundredMb)
    BY <1>8 DEF Opens
  <2>3. outputNum \in 1..Len(c)
    BY <1>1, <1>3, <2>2
  <2>4. Large(c[outputNum]) <= numWrittenBytes /\ numWrittenBytes <= hundredMb
        /\ Large(c[outputNum]) \in Nat
    BY <1>1, <1>4, <1>5, <2>2, <2>3
  <2>5. Large(c[outputNum]) <= hundredMb
    BY <1>1, <1>4, <2>4
  <2> QED
    BY <1>1, <1>2, <2>1, <2>3, <2>4, <2>5
<1> QED
  BY <1>1, <1>2, <1>3, <1>7, <1>8

LEMMA SplitEndInv ==
  ASSUME IInv, pc = "split", pos > Len(disk.full.keys), Ends, UNCHANGED <<net, machine, server>>,
         disk' = [disk EXCEPT !.chunks = Chunks,
                              !.made = IF disk.full.torn THEN Unmade
                                       ELSE [dump |-> disk.full.dump, number |-> Number]]
  PROVE  IInv'
<1> DEFINE full == disk.full
           made == IF full.torn THEN Unmade ELSE [dump |-> full.dump, number |-> Number]
<1>1. /\ full \in FileRecord /\ full.keys \in Seq(Stored) /\ Len(full.keys) \in Nat
      /\ pos \in 1..(Len(full.keys) + 1) /\ full # None
      /\ Chunks \in Seq(FileRecord) /\ Number \in 1..Len(Chunks)
      /\ Loaded(Chunks, Number) = SubSeq(full.keys, 1, pos - 1)
      /\ \A i \in 1..Len(Chunks) : Large(Chunks[i]) <= hundredMb + (IDLen + 1)
  BY SplitTurn
<1>2. NetType' /\ ServerInv'
  BY FrameServer
<1>3. /\ ParseType' /\ AnalyzeInv' /\ WriteInv' /\ SplitInv'
      /\ pos' \in Nat /\ outputNum' \in Nat /\ numWrittenBytes' \in Nat
  BY FrameEnds
<1>4. made \in [dump : DumpNumbers, number : Nat] /\ made.number <= Len(Chunks)
  <2>1. Len(Chunks) \in Nat
    BY <1>1, LenProperties, Zenon
  <2>2. Number \in Nat /\ Number <= Len(Chunks) /\ full.dump \in DumpNumbers
    BY <1>1, <2>1 DEF FileRecord
  <2> QED
    BY <2>1, <2>2 DEF Unmade, DumpNumbers
<1>5. disk \in DiskRecord
  BY DEF IInv, DiskType
<1>6. /\ disk' \in DiskRecord /\ disk'.full = full /\ disk'.chunks = Chunks /\ disk'.made = made
  <2> HIDE DEF made
  <2>1. disk' = [disk EXCEPT !.chunks = Chunks, !.made = made]
    BY DEF made
  <2> QED
    BY <1>1, <1>4, <1>5, <2>1 DEF DiskRecord
<1>7. DiskType' /\ SizeInv' /\ FullInv'
  BY <1>1, <1>3, <1>4, <1>6 DEF IInv, DiskType, SizeInv, FullInv, Ends
<1>8. MadeInv'
  <2> SUFFICES ASSUME made.dump # 0
               PROVE  Enumerates(Loaded(Chunks, made.number), Served(made.dump))
    BY <1>6 DEF MadeInv
  <2>1. made.dump = full.dump /\ made.number = Number
    BY DEF Unmade
  <2>2. Enumerates(full.keys, Served(full.dump))
    BY <1>1, <2>1 DEF IInv, FullInv
  <2>3. SubSeq(full.keys, 1, pos - 1) = full.keys
    <3>1. pos - 1 = Len(full.keys)
      BY <1>1
    <3> QED
      BY <1>1, <3>1, SubSeqFull, Zenon
  <2> QED
    BY <1>1, <2>1, <2>2, <2>3
<1> QED
  BY <1>2, <1>3, <1>7, <1>8 DEF IInv

LEMMA SplitOneInv ==
  ASSUME IInv, pc = "split", ~(pos > Len(disk.full.keys)), UNCHANGED <<net, machine, server, pc, parse>>,
         outputNum' = Number, pos' = pos + 1,
         numWrittenBytes' = BytesNow + IDLen + Len(disk.full.keys[pos].Packet),
         disk' = [disk EXCEPT !.chunks = Grown(Chunks, Number, disk.full.keys[pos])]
  PROVE  IInv'
<1> DEFINE full == disk.full
           key == full.keys[pos]
           n == Number
           new == Grown(Chunks, n, key)
           C == IDLen + 1
<1>1. /\ full \in FileRecord /\ full.keys \in Seq(Stored) /\ Len(full.keys) \in Nat /\ disk.made = Unmade
      /\ pos \in 1..(Len(full.keys) + 1) /\ full # None
      /\ Chunks \in Seq(FileRecord) /\ n \in 1..Len(Chunks) /\ BytesNow \in Nat
      /\ Loaded(Chunks, n) = SubSeq(full.keys, 1, pos - 1)
      /\ \A i \in 1..Len(Chunks) : Large(Chunks[i]) <= hundredMb + C
      /\ Large(Chunks[n]) <= BytesNow /\ Large(Chunks[n]) <= hundredMb
  BY SplitTurn
<1>2. NetType' /\ ServerInv'
  BY FrameServer
<1>3. ParseType'
  BY DEF IInv, ParseType, parse, net
<1>4. AnalyzeInv' /\ WriteInv'
  BY DEF AnalyzeInv, WriteInv
<1>5. pos \in 1..Len(full.keys) /\ key \in Stored /\ Len(key.Packet) \in Nat /\ Len(key.Packet) > 0
  <2>1. pos \in 1..Len(full.keys)
    BY <1>1
  <2>2. key \in Stored
    BY <1>1, <2>1, ElementOfSeq, Zenon
  <2> QED
    BY <2>1, <2>2, StoredType
<1>6. /\ new \in Seq(FileRecord) /\ Len(new) = Len(Chunks)
      /\ \A i \in 1..Len(Chunks) : i # n => new[i] = Chunks[i]
      /\ new[n].keys = Append(Chunks[n].keys, key) /\ Chunks[n].keys \in Seq(Stored)
      /\ Loaded(new, n) = Append(Loaded(Chunks, n), key)
  <2> HIDE DEF key, full, n
  <2> QED
    BY <1>1, <1>5, GrownFacts
<1>7. hundredMb \in Nat /\ IDLen \in Nat /\ C \in Nat
  BY KeyDBAssumption
<1>8. Len(Chunks) \in Nat /\ n \in Nat /\ n <= Len(Chunks) /\ Len(Chunks[n].keys) \in Nat
  <2>1. Len(Chunks) \in Nat /\ Len(Chunks[n].keys) \in Nat
    BY <1>1, <1>6, LenProperties, Zenon
  <2> QED
    BY <1>1, <2>1
<1>9. Large(new[n]) = Large(Chunks[n]) + C /\ Large(Chunks[n]) \in Int
  <2> DEFINE L == Len(Chunks[n].keys)
  <2>1. Len(Append(Chunks[n].keys, key)) = L + 1
    <3> DEFINE held == Chunks[n].keys
    <3>1. held \in Seq(Stored) /\ key \in Stored
      BY <1>5, <1>6, Zenon
    <3> HIDE DEF held, key
    <3>2. Len(Append(held, key)) = Len(held) + 1
      BY ONLY <3>1, AppendProperties
    <3> QED
      BY <3>2, Zenon DEF held
  <2>2. Large(new[n]) = (L + 1) * C /\ Large(Chunks[n]) = L * C
    BY <1>6, <2>1 DEF Large
  <2>3. \A a, b \in Nat : (a + 1) * b = a * b + b /\ a * b \in Int
    OBVIOUS
  <2> HIDE DEF L, C, new
  <2>4. L \in Nat
    BY <1>8 DEF L
  <2> QED
    BY <1>7, <2>2, <2>3, <2>4
<1>10. numWrittenBytes' \in Nat /\ BytesNow + C <= numWrittenBytes' /\ C \in Nat
  <2> DEFINE l == Len(key.Packet)
  <2>1. l \in Nat /\ l > 0 /\ BytesNow \in Nat /\ IDLen \in Nat
    BY <1>1, <1>5, <1>7
  <2>2. numWrittenBytes' = BytesNow + IDLen + l
    OBVIOUS
  <2> HIDE DEF l, key
  <2> QED
    BY ONLY <2>1, <2>2
<1>11. pos' \in Nat /\ pos' - 1 = pos /\ pos' \in 1..(Len(full.keys) + 1)
  <2> DEFINE N == Len(full.keys)
  <2>1. N \in Nat /\ pos \in 1..N
    BY <1>1, <1>5
  <2>2. pos' = pos + 1
    OBVIOUS
  <2> HIDE DEF N, full
  <2>3. pos' \in Nat /\ pos' - 1 = pos /\ pos' \in 1..(N + 1)
    BY <2>1, <2>2
  <2> QED
    BY <2>3 DEF N
<1> HIDE DEF new, C, n
<1>12. disk \in DiskRecord
  BY DEF IInv, DiskType
<1>13. /\ disk' \in DiskRecord /\ disk'.full = full /\ disk'.chunks = new /\ disk'.made = Unmade
  <2>1. disk' = [disk EXCEPT !.chunks = new]
    BY DEF new, n
  <2> QED
    BY <1>1, <1>6, <1>12, <2>1 DEF DiskRecord
<1>14. DiskType'
  <2>1. numWrittenBytes' \in Nat /\ outputNum' \in Nat /\ pos' \in Nat
    BY <1>8, <1>10, <1>11 DEF n
  <2>2. disk'.made.number <= Len(disk'.chunks)
    BY <1>6, <1>8, <1>13 DEF Unmade
  <2> QED
    BY <1>1, <1>13, <2>1, <2>2 DEF DiskType
<1>15. SplitInv'
  <2>1. outputNum' = n /\ n <= Len(new)
    BY <1>6, <1>8 DEF n
  <2>2. SubSeq(full.keys, 1, pos) = Append(SubSeq(full.keys, 1, pos - 1), key)
    <3>1. pos - 1 \in 0..(Len(full.keys) - 1) /\ (pos - 1) + 1 = pos
      <4> DEFINE N == Len(full.keys)
      <4>1. N \in Nat /\ pos \in 1..N
        BY <1>1, <1>5
      <4> HIDE DEF N
      <4>2. pos - 1 \in 0..(N - 1) /\ (pos - 1) + 1 = pos
        BY <4>1
      <4> QED
        BY <4>2 DEF N
    <3>2. SubSeq(full.keys, 1, (pos - 1) + 1) = Append(SubSeq(full.keys, 1, pos - 1), full.keys[(pos - 1) + 1])
      <4> HIDE DEF full
      <4> QED
        BY <1>1, <3>1, PrefixStep, Zenon
    <3> QED
      BY <3>1, <3>2
  <2>3. pos' - 1 = pos /\ pos' \in 1..(Len(full.keys) + 1)
    BY <1>11
  <2>4. Loaded(new, n) = SubSeq(full.keys, 1, pos' - 1)
    BY <1>1, <1>6, <2>2, <2>3
  <2>5. full # None
    BY <1>1
  <2> HIDE DEF full
  <2> QED
    BY <1>13, <2>1, <2>3, <2>4, <2>5 DEF SplitInv
<1>16. SizeInv'
  <2>1. ASSUME NEW i \in 1..Len(new)
        PROVE  Large(new[i]) <= hundredMb + C
    <3>1. CASE i = n
      BY <1>1, <1>7, <1>9, <3>1
    <3>2. CASE i # n
      BY <1>1, <1>6, <3>2
    <3> QED
      BY <3>1, <3>2
  <2>2. Large(new[n]) <= numWrittenBytes'
    BY <1>1, <1>9, <1>10
  <2>3. outputNum' = n
    BY DEF n
  <2> QED
    BY <1>13, <2>1, <2>2, <2>3 DEF SizeInv, C
<1>17. FullInv' /\ MadeInv'
  BY <1>1, <1>13 DEF IInv, FullInv, MadeInv, Unmade
<1> QED
  BY <1>2, <1>3, <1>4, <1>14, <1>15, <1>16, <1>17 DEF IInv

LEMMA SplitKeyInv ==
  ASSUME IInv, SplitKey
  PROVE  IInv'
<1>1. pc = "split" /\ UNCHANGED <<net, machine, server>>
  BY DEF SplitKey
<1>2. CASE pos > Len(disk.full.keys)
  <2>1. /\ Ends
        /\ disk' = [disk EXCEPT !.chunks = Chunks,
                                !.made = IF disk.full.torn THEN Unmade
                                         ELSE [dump |-> disk.full.dump, number |-> Number]]
    BY <1>2 DEF SplitKey, Chunks, Number, Opens
  <2> QED
    BY <1>1, <1>2, <2>1, SplitEndInv
<1>3. CASE ~(pos > Len(disk.full.keys))
  <2>1. /\ outputNum' = Number /\ pos' = pos + 1
        /\ numWrittenBytes' = BytesNow + IDLen + Len(disk.full.keys[pos].Packet)
        /\ disk' = [disk EXCEPT !.chunks = Grown(Chunks, Number, disk.full.keys[pos])]
        /\ UNCHANGED <<pc, parse>>
    BY <1>3 DEF SplitKey, Chunks, Number, BytesNow, Opens, Grown
  <2> QED
    BY <1>1, <1>3, <2>1, SplitOneInv
<1> QED
  BY <1>2, <1>3

LEMMA KillInv ==
  ASSUME IInv, Kill
  PROVE  IInv'
<1>1. pc # "idle" /\ Ends /\ UNCHANGED <<net, machine, server>>
  BY DEF Kill
<1>2. NetType' /\ ServerInv'
  BY <1>1, FrameServer
<1>3. /\ ParseType' /\ AnalyzeInv' /\ WriteInv' /\ SplitInv'
      /\ pos' \in Nat /\ outputNum' \in Nat /\ numWrittenBytes' \in Nat /\ pc' = "idle"
  BY <1>1, FrameEnds DEF Ends
<1>4. PICK torn \in BOOLEAN :
        disk' = CASE pc = "write" -> [disk EXCEPT !.full.torn = torn]
                  [] pc = "split" /\ outputNum > 0 -> [disk EXCEPT !.chunks[outputNum].torn = torn]
                  [] OTHER -> disk
  BY DEF Kill
<1>5. disk \in DiskRecord
  BY DEF IInv, DiskType
<1>6. CASE pc = "write"
  <2>1. disk' = [disk EXCEPT !.full.torn = torn] /\ disk.full \in FileRecord
    BY <1>4, <1>6 DEF IInv, DiskType
  <2>2. /\ disk' \in DiskRecord /\ disk'.full \in FileRecord /\ disk'.full.keys = disk.full.keys
        /\ disk'.full.dump = disk.full.dump /\ disk'.chunks = disk.chunks /\ disk'.made = disk.made
    BY <1>5, <2>1 DEF DiskRecord, FileRecord
  <2>3. DiskType' /\ SizeInv' /\ FullInv' /\ MadeInv'
    BY <1>3, <1>6, <2>1, <2>2 DEF IInv, DiskType, SizeInv, FullInv, MadeInv, WriteInv
  <2> QED
    BY <1>2, <1>3, <2>3 DEF IInv
<1>7. CASE pc = "split" /\ outputNum > 0
  <2> DEFINE c == disk.chunks
             n == outputNum
             file == [c[n] EXCEPT !.torn = torn]
             new == [c EXCEPT ![n] = file]
  <2>1. /\ disk' = [disk EXCEPT !.chunks = new] /\ c \in Seq(FileRecord)
        /\ n \in Nat /\ n <= Len(c) /\ n > 0 /\ disk.made = Unmade
    BY <1>4, <1>5, <1>7 DEF IInv, DiskType, SplitInv, DiskRecord
  <2>2. Len(c) \in Nat /\ n \in 1..Len(c)
    BY <2>1
  <2>3. c[n] \in FileRecord
    BY <2>1, <2>2, ElementOfSeq, Zenon
  <2>4. file \in FileRecord /\ file.keys = c[n].keys
    BY <2>3 DEF FileRecord
  <2> HIDE DEF file
  <2>5. /\ new \in Seq(FileRecord) /\ Len(new) = Len(c)
        /\ \A i \in 1..Len(c) : new[i] = IF i = n THEN file ELSE c[i]
    <3> HIDE DEF c, n
    <3> QED
      BY <2>1, <2>2, <2>4, ExceptSeq
  <2> HIDE DEF new
  <2>6. \A i \in 1..Len(c) : new[i].keys = c[i].keys
    BY <2>4, <2>5
  <2>7. disk' \in DiskRecord /\ disk'.full = disk.full /\ disk'.chunks = new /\ disk'.made = Unmade
    BY <1>5, <2>1, <2>5 DEF DiskRecord
  <2>8. DiskType' /\ FullInv' /\ MadeInv'
    BY <1>3, <2>1, <2>2, <2>5, <2>7 DEF IInv, DiskType, FullInv, MadeInv, Unmade
  <2>9. SizeInv'
    <3>1. \A i \in 1..Len(c) : Large(new[i]) = Large(c[i])
      BY <2>6 DEF Large
    <3> QED
      BY <1>3, <2>5, <2>7, <3>1 DEF IInv, SizeInv
  <2> QED
    BY <1>2, <1>3, <2>8, <2>9 DEF IInv
<1>8. CASE pc # "write" /\ ~(pc = "split" /\ outputNum > 0)
  <2>1. disk' = disk
    BY <1>4, <1>8
  <2>2. DiskType' /\ SizeInv' /\ FullInv' /\ MadeInv'
    BY <1>3, <2>1, FrameDisk DEF IInv, DiskType, SizeInv
  <2> QED
    BY <1>2, <1>3, <2>2 DEF IInv
<1> QED
  BY <1>6, <1>7, <1>8

Outcomes == {"up", "noFile", "torn", "noBuckets", "noBlocks", "noRoom"}

LEMMA StartedInv ==
  ASSUME IInv, pc = "idle", machine < NumServers,
         NEW from, NEW ks, NEW start, Started(from, ks, start), UNCHANGED <<random, pc, parse, split>>,
         random = None => scheme' \in Schemes /\ (scheme # None => scheme' = scheme),
         random # None => scheme' = scheme,
         start.outcome \in Outcomes,
         IsRight([dump |-> from, keys |-> ks, outcome |-> start.outcome, db |-> start.db],
                 scheme', random)
  PROVE  IInv'
<1> DEFINE new == [dump |-> from, keys |-> ks, outcome |-> start.outcome, db |-> start.db]
<1>1. /\ server' = Put(server, machine, new) /\ machine' = machine + 1 /\ disk' = NoFiles
      /\ UNCHANGED <<random, pc, dump, files, el, keys, left, pos, outputNum, numWrittenBytes>>
  BY DEF Started, parse, split
<1>2. machine \in Nat /\ machine + 1 \in 0..NumServers /\ DOMAIN server = 0..(machine - 1)
  BY KeyDBAssumption DEF IInv, NetType
<1>3. /\ DOMAIN server' = 0..((machine + 1) - 1) /\ server'[machine] = new
      /\ \A k \in DOMAIN server : server'[k] = server[k]
      /\ \A k \in DOMAIN server' : k = machine \/ k \in DOMAIN server
  <2> HIDE DEF new
  <2>1. server' = [x \in DOMAIN server \cup {machine} |-> IF x = machine THEN new ELSE server[x]]
    BY <1>1 DEF Put
  <2>2. DOMAIN server \cup {machine} = 0..((machine + 1) - 1) /\ machine \notin DOMAIN server
    BY <1>2
  <2> QED
    BY <2>1, <2>2
<1>4. NetType'
  <2>1. /\ scheme' \in Schemes \cup Simulations \cup {None}
        /\ random' = None => scheme' \in Schemes \cup {None}
        /\ random' # None => scheme' \in Simulations /\ random' \in RandomBlocks
    BY <1>1 DEF IInv, NetType
  <2>2. ASSUME NEW k \in DOMAIN server'
        PROVE  server'[k].outcome \in Outcomes
    <3>1. CASE k = machine
      BY <1>3, <3>1
    <3>2. CASE k # machine
      BY <1>3, <3>2 DEF IInv, NetType, Outcomes
    <3> QED
      BY <3>1, <3>2
  <2> QED
    BY <1>1, <1>2, <1>3, <2>1, <2>2 DEF NetType, Outcomes
<1>5. ParseType'
  BY <1>1 DEF IInv, ParseType
<1>6. DiskType'
  <2>1. NoFiles \in DiskRecord /\ NoFiles.made.number = 0 /\ Len(NoFiles.chunks) = 0
    BY DEF DiskRecord, NoFiles, Unmade, DumpNumbers
  <2> QED
    BY <1>1, <2>1 DEF IInv, DiskType
<1>7. AnalyzeInv' /\ WriteInv' /\ SplitInv'
  BY <1>1 DEF AnalyzeInv, WriteInv, SplitInv
<1>8. SizeInv' /\ MadeInv'
  BY <1>1 DEF SizeInv, MadeInv, NoFiles, Unmade
<1>9. FullInv'
  BY <1>1 DEF FullInv, NoFiles
<1>10. ServerInv'
  <2> SUFFICES ASSUME NEW k \in DOMAIN server'
               PROVE  IsRight(server'[k], scheme', random')
    BY DEF ServerInv
  <2>1. CASE k = machine
    BY <1>1, <1>3, <2>1
  <2>2. CASE k # machine
    <3>1. server'[k] = server[k] /\ IsRight(server[k], scheme, random)
      BY <1>3, <2>2 DEF IInv, ServerInv
    <3>2. CASE scheme' = scheme
      BY <1>1, <3>1, <3>2
    <3>3. CASE scheme' # scheme
      <4>1. random = None /\ scheme = None
        BY <3>3
      <4> QED
        BY <1>1, <3>1, <4>1 DEF IsRight
    <3> QED
      BY <3>2, <3>3
  <2> QED
    BY <2>1, <2>2
<1> QED
  BY <1>4, <1>5, <1>6, <1>7, <1>8, <1>9, <1>10 DEF IInv

LEMMA MerkleOutcome ==
  ASSUME NEW blocks, NEW rows, NEW columns
  PROVE  MerkleDB(blocks, rows, columns).outcome \in Outcomes
<1>1. /\ \A why : Reason(why).outcome = why
      /\ \A db : Up(db).outcome = "up"
  BY DEF Reason, Up
<1>2. PICK db : \/ MerkleDB(blocks, rows, columns) = Reason("noBlocks")
                \/ MerkleDB(blocks, rows, columns) = Reason("noRoom")
                \/ MerkleDB(blocks, rows, columns) = Up(db)
  BY Zenon DEF MerkleDB
<1> QED
  BY <1>1, <1>2 DEF Outcomes

LEMMA GenerateOutcome ==
  ASSUME NEW s \in Schemes, NEW ks
  PROVE  Generate(s, ks).outcome \in Outcomes
<1>1. /\ \A why : Reason(why).outcome = why
      /\ \A db : Up(db).outcome = "up"
  BY DEF Reason, Up
<1>2. s \in {"complexPIR", "complexVPIR", "pointPIR", "pointVPIR"}
  BY KeyDBAssumption
<1>3. Generate(s, ks) \in {GenerateRealKeyDB(ks), GenerateRealKeyBytes(ks), GenerateRealKeyMerkle(ks)}
  BY <1>2 DEF Generate, Complex
<1>4. GenerateRealKeyDB(ks).outcome \in Outcomes
  BY <1>1 DEF GenerateRealKeyDB, Outcomes
<1>5. GenerateRealKeyBytes(ks).outcome \in Outcomes
  <2>1. PICK db : \/ GenerateRealKeyBytes(ks) = Reason("noBuckets")
                  \/ GenerateRealKeyBytes(ks) = Up(db)
    BY Zenon DEF GenerateRealKeyBytes
  <2> QED
    BY <1>1, <2>1 DEF Outcomes
<1>6. GenerateRealKeyMerkle(ks).outcome \in Outcomes
  <2>1. PICK b, r, c : \/ GenerateRealKeyMerkle(ks) = Reason("noBuckets")
                       \/ GenerateRealKeyMerkle(ks) = MerkleDB(b, r, c)
    BY Zenon DEF GenerateRealKeyMerkle
  <2> QED
    BY <1>1, <2>1, MerkleOutcome DEF Outcomes
<1> QED
  BY <1>3, <1>4, <1>5, <1>6

LEMMA AllFilesType ==
  ASSUME IInv
  PROVE  GetAllFiles \in Seq(FileRecord) /\ Len(GetAllFiles) \in Nat
<1> DEFINE last == IF disk.full = None THEN <<>> ELSE <<disk.full>>
<1>1. disk.chunks \in Seq(FileRecord) /\ disk.full \in FileRecord \cup {None}
  BY DEF IInv, DiskType, DiskRecord
<1>2. last \in Seq(FileRecord)
  BY <1>1
<1>3. GetAllFiles = disk.chunks \o last
  BY DEF GetAllFiles
<1> HIDE DEF last
<1>4. disk.chunks \o last \in Seq(FileRecord)
  BY <1>1, <1>2, ConcatProperties
<1> QED
  BY <1>3, <1>4, LenProperties

LEMMA LoadInv ==
  ASSUME IInv, NEW n \in 1..MaxFiles, Load(n)
  PROVE  IInv'
<1> DEFINE list == SubSeq(GetAllFiles, 1, n)
           from == IF n = disk.made.number THEN disk.made.dump ELSE 0
<1>1. /\ pc = "idle" /\ random = None /\ machine < NumServers
      /\ scheme' \in IF scheme = None THEN Schemes ELSE {scheme}
      /\ UNCHANGED <<random, pc, parse, split>>
  BY DEF Load, Idle
<1>2. scheme' \in Schemes /\ (scheme # None => scheme' = scheme)
  BY <1>1 DEF IInv, NetType
<1>2a. from \in DumpNumbers /\ 0 \in DumpNumbers
  BY DEF IInv, DiskType, DiskRecord, DumpNumbers
<1>3. \/ Started(0, <<>>, Reason("noFile"))
      \/ Started(from, <<>>, Reason("torn"))
      \/ n <= Len(GetAllFiles) /\ \E ks \in sortById(LoadKeysFromDisk(list)) : Started(from, ks, Generate(scheme', ks))
  <2>1. Len(GetAllFiles) \in Nat
    BY AllFilesType
  <2> QED
    BY <2>1 DEF Load
<1>4. ASSUME Started(0, <<>>, Reason("noFile"))
      PROVE  IInv'
  <2> DEFINE start == Reason("noFile")
             new == [dump |-> 0, keys |-> <<>>, outcome |-> start.outcome, db |-> start.db]
  <2>1. start.outcome \in Outcomes /\ start.outcome = "noFile"
    BY DEF Reason, Outcomes
  <2> HIDE DEF start
  <2>2. IsRight(new, scheme', random)
    BY <1>1, <1>2a, <2>1 DEF IsRight
  <2> QED
    BY <1>1, <1>2, <1>4, <2>1, <2>2, StartedInv DEF start
<1>5. ASSUME Started(from, <<>>, Reason("torn"))
      PROVE  IInv'
  <2> DEFINE start == Reason("torn")
             new == [dump |-> from, keys |-> <<>>, outcome |-> start.outcome, db |-> start.db]
  <2>1. start.outcome \in Outcomes /\ start.outcome = "torn"
    BY DEF Reason, Outcomes
  <2> HIDE DEF start
  <2>2. IsRight(new, scheme', random)
    BY <1>1, <1>2a, <2>1 DEF IsRight
  <2> HIDE DEF from
  <2> QED
    BY <1>1, <1>2, <1>5, <2>1, <2>2, StartedInv DEF start
<1>6. ASSUME n <= Len(GetAllFiles), NEW ks \in sortById(LoadKeysFromDisk(list)), Started(from, ks, Generate(scheme', ks))
      PROVE  IInv'
  <2> DEFINE start == Generate(scheme', ks)
             c == disk.chunks
             new == [dump |-> from, keys |-> ks, outcome |-> start.outcome, db |-> start.db]
  <2>0. ks \in Seq(Stored)
    <3>1. GetAllFiles \in Seq(FileRecord)
      BY AllFilesType
    <3>2. list \in Seq(FileRecord)
      BY <1>6, <3>1
    <3> HIDE DEF list
    <3>3. LoadKeysFromDisk(list) \in Seq(Stored)
      BY <3>2, LoadedType
    <3> QED
      BY <1>6, <3>3, SortedType
  <2>1. start.outcome \in Outcomes
    BY <1>2, GenerateOutcome
  <2>2. ASSUME from # 0
        PROVE  Enumerates(ks, Served(from)) /\ Descends(ks)
    <3>1. n = disk.made.number /\ from = disk.made.dump
      BY <2>2
    <3>2. disk \in DiskRecord /\ n <= Len(c) /\ Enumerates(Loaded(c, n), Served(from))
      BY <2>2, <3>1 DEF IInv, DiskType, MadeInv
    <3>3. c \in Seq(FileRecord) /\ disk.full \in FileRecord \cup {None} /\ n \in Int /\ n >= 1
      BY <3>2 DEF DiskRecord
    <3>4. list = SubSeq(c, 1, n)
      <4> DEFINE last == IF disk.full = None THEN <<>> ELSE <<disk.full>>
      <4>1. last \in Seq(FileRecord)
        BY <3>3
      <4>2. GetAllFiles = c \o last
        BY DEF GetAllFiles
      <4>3. 1 \in 1..Len(c) /\ n \in 1..Len(c)
        BY <3>2, <3>3
      <4> HIDE DEF last, c
      <4> QED
        BY <3>3, <4>1, <4>2, <4>3, SubSeqOfConcat1, Zenon
    <3> DEFINE load == Loaded(c, n)
    <3>5. LoadKeysFromDisk(list) = load
      BY <3>4 DEF Loaded
    <3> HIDE DEF load, from, list
    <3>6. Enumerates(load, Served(from)) /\ Served(from) \subseteq Stored
      BY <3>2, ServedStored DEF load
    <3>7. sortById(load) = {KT!sortById(load)}
      BY <3>6, Unambiguous DEF sortById
    <3>8. ks = KT!sortById(load)
      BY <1>6, <3>5, <3>7
    <3> QED
      BY <3>6, <3>8, SortedOrder
  <2> HIDE DEF from
  <2>3. scheme' # None
    BY <1>2, KeyDBAssumption
  <2>4. IsRight(new, scheme', random)
    <3> HIDE DEF start
    <3>1. /\ new.dump = from /\ new.keys = ks /\ new.outcome = start.outcome /\ new.db = start.db
      OBVIOUS
    <3>2. Has(new, Generate(scheme', ks))
      BY <3>1 DEF Has, start
    <3> HIDE DEF new
    <3> QED
      BY <1>1, <1>2a, <2>0, <2>2, <2>3, <3>1, <3>2 DEF IsRight
  <2> HIDE DEF start
  <2> QED
    BY <1>1, <1>2, <1>6, <2>1, <2>4, StartedInv DEF start
<1> QED
  BY <1>3, <1>4, <1>5, <1>6

LEMMA CreateRandomInv ==
  ASSUME IInv, CreateRandom
  PROVE  IInv'
<1> DEFINE start == IF scheme = "pir-classic" THEN CreateRandomBytes(random.blocks, random.rows)
                    ELSE CreateRandomMerkle(random.blocks, random.rows)
<1>1. /\ random # None /\ machine < NumServers /\ Started(0, <<>>, start)
      /\ UNCHANGED <<scheme, random, pc, parse, split>> /\ pc = "idle"
  BY DEF CreateRandom, IInv, ParseType, net
<1>2. start.outcome \in Outcomes
  <2>1. CreateRandomBytes(random.blocks, random.rows).outcome = "up"
    BY DEF CreateRandomBytes, Up
  <2>2. CreateRandomMerkle(random.blocks, random.rows).outcome \in Outcomes
    BY MerkleOutcome DEF CreateRandomMerkle
  <2> QED
    BY <2>1, <2>2 DEF Outcomes
<1> DEFINE new == [dump |-> 0, keys |-> <<>>, outcome |-> start.outcome, db |-> start.db]
<1>3. IsRight(new, scheme', random)
  <2>1. start = Drawn(scheme', random)
    BY <1>1 DEF Drawn
  <2> HIDE DEF start
  <2>2. Has(new, Drawn(scheme', random))
    BY <2>1 DEF Has
  <2>3. new.dump = 0 /\ 0 \in DumpNumbers
    BY DEF DumpNumbers
  <2> HIDE DEF new
  <2> QED
    BY <1>1, <2>2, <2>3 DEF IsRight
<1> HIDE DEF start
<1> QED
  BY <1>1, <1>2, <1>3, StartedInv

LEMMA StepInv ==
  ASSUME IInv, [Next]_vars
  PROVE  IInv'
<1>1. CASE UNCHANGED vars
  <2>1. UNCHANGED <<net, machine, server>> /\ disk' = disk
    BY <1>1 DEF vars
  <2>2. NetType' /\ ServerInv' /\ FullInv' /\ MadeInv'
    BY <2>1, FrameServer, FrameDisk
  <2>3. ParseType' /\ DiskType' /\ AnalyzeInv' /\ WriteInv' /\ SplitInv' /\ SizeInv'
    BY <1>1 DEF vars, net, parse, split, IInv, ParseType, DiskType, AnalyzeInv, WriteInv, SplitInv, SizeInv
  <2> QED
    BY <2>2, <2>3 DEF IInv
<1>2. CASE ParseDump
  BY <1>2, StartParseInv, ReadKeyRingInv, SaveKeyInv, OpenFullInv, CloseFullInv, WriteKeyInv DEF ParseDump
<1>3. CASE GenChunks
  BY <1>3, StartSplitInv, SplitKeyInv DEF GenChunks
<1>4. CASE Kill
  BY <1>4, KillInv
<1>5. CASE \E n \in 1..MaxFiles : Load(n)
  BY <1>5, LoadInv
<1>6. CASE CreateRandom
  BY <1>6, CreateRandomInv
<1> QED
  BY <1>1, <1>2, <1>3, <1>4, <1>5, <1>6 DEF Next, Ready

LEMMA Invariant == Spec => []IInv
<1>1. Init => IInv
  BY InitInv
<1>2. IInv /\ [Next]_vars => IInv'
  BY StepInv
<1> QED
  BY <1>1, <1>2, PTL DEF Spec
-----------------------------------------------------------------------------
(* Keys as bytes.                                                           *)

PacketBytes == UNION {{e.packet[m] : m \in 1..Len(e.packet)} : e \in AllEntities}
EmailOf == [packet \in DOMAIN EntityOf |-> PrimaryEmail(EntityOf[packet])]

LEMMA EntityOfPacket ==
  ASSUME NEW e \in AllEntities
  PROVE  e.packet \in DOMAIN EntityOf /\ EntityOf[e.packet] = e
<1> DEFINE c == CHOOSE x \in AllEntities : x.packet = e.packet
<1>1. e.packet \in {x.packet : x \in AllEntities}
  OBVIOUS
<1>2. EntityOf[e.packet] = c /\ e.packet \in DOMAIN EntityOf
  BY <1>1 DEF EntityOf
<1>3. c \in AllEntities /\ c.packet = e.packet
  OBVIOUS
<1> HIDE DEF c
<1>4. c = e
  BY <1>3, PacketsAssumption
<1> QED
  BY <1>2, <1>4

LEMMA StoredKey ==
  ASSUME NEW r \in Stored
  PROVE  /\ r.ID \in Emails /\ Hash[r.ID] \in Nat
         /\ r.Packet \in Seq(PacketBytes) /\ Len(r.Packet) = PacketLen
         /\ r.Packet \in DOMAIN EmailOf /\ EmailOf[r.Packet] = r.ID
         /\ r = [ID |-> r.ID, Packet |-> r.Packet]
<1>1. PICK e \in AllEntities : /\ r = [ID |-> PrimaryEmail(e), Packet |-> e.packet]
                               /\ PrimaryEmail(e) # NoEmail /\ ~TooLong(e.packet)
  BY DEF Stored
<1>2. r.ID = PrimaryEmail(e) /\ r.Packet = e.packet
  BY <1>1
<1>3. PrimaryEmail(e) \in Emails
  BY <1>1, EmailType
<1>4. Hash[PrimaryEmail(e)] \in Nat
  BY <1>3, KeyDBAssumption
<1>5. e.packet \in Seq(PacketBytes)
  <2>1. e.packet \in Seq({e.packet[n] : n \in 1..Len(e.packet)})
    BY DumpsAssumption DEF IsSeq
  <2>2. {e.packet[n] : n \in 1..Len(e.packet)} \subseteq PacketBytes
    BY DEF PacketBytes
  <2> QED
    BY <2>1, <2>2, SeqMonotonic
<1>6. Len(e.packet) = PacketLen
  <2>1. Len(e.packet) \in Nat /\ keySizeLimit \in Nat
    BY EntityType, KeyDBAssumption
  <2>2. Len(e.packet) <= keySizeLimit
    BY <1>1, <2>1 DEF TooLong
  <2> QED
    BY <2>2, PacketsAssumption
<1>7. e.packet \in DOMAIN EmailOf /\ EmailOf[e.packet] = PrimaryEmail(e)
  BY EntityOfPacket DEF EmailOf
<1> QED
  BY <1>1, <1>2, <1>3, <1>4, <1>5, <1>6, <1>7
-----------------------------------------------------------------------------
(* A bucket holds the packets of its keys, one after the other.             *)

\* The packets that a sequence of bytes consists of.
IsRing(ring, packets) ==
  \E c \in Nat : /\ ring \in Seq(PacketBytes) /\ Len(ring) = c * PacketLen
                 /\ \A p \in 1..c : KT!Packet(ring, p) \in packets
                 /\ \A x \in packets : \E p \in 1..c : KT!Packet(ring, p) = x

LEMMA EmptyRing == IsRing(<<>>, {})
<1>1. /\ <<>> \in Seq(PacketBytes) /\ Len(<<>>) = 0 * PacketLen
      /\ \A p \in 1..0 : KT!Packet(<<>>, p) \in {}
  BY PacketsAssumption
<1> QED
  BY <1>1 DEF IsRing

LEMMA RingGrows ==
  ASSUME NEW ring, NEW packets, IsRing(ring, packets),
         NEW packet \in Seq(PacketBytes), Len(packet) = PacketLen
  PROVE  IsRing(ring \o packet, packets \cup {packet})
<1> DEFINE L == PacketLen
           B == PacketBytes
           longer == ring \o packet
<1>0. L \in Nat /\ L > 0
  BY PacketsAssumption
<1>1. PICK c \in Nat : /\ ring \in Seq(B) /\ Len(ring) = c * L
                       /\ \A p \in 1..c : KT!Packet(ring, p) \in packets
                       /\ \A x \in packets : \E p \in 1..c : KT!Packet(ring, p) = x
  BY DEF IsRing
<1> HIDE DEF L, B
<1>2. longer \in Seq(B) /\ Len(longer) = (c + 1) * L
  <2>1. (c + 1) * L = c * L + L /\ c * L \in Nat
    BY <1>0
  <2>2. Len(packet) = L /\ packet \in Seq(B)
    BY DEF L, B
  <2>3. longer \in Seq(B) /\ Len(longer) = Len(ring) + Len(packet)
    BY <1>1, <2>2, ConcatProperties
  <2> HIDE DEF longer
  <2> QED
    BY <1>1, <2>1, <2>2, <2>3
<1>3. ASSUME NEW p \in 1..c
      PROVE  KT!Packet(longer, p) = KT!Packet(ring, p)
  <2>1. /\ (p - 1) * L + 1 \in 1..Len(ring) /\ p * L \in 1..Len(ring)
    BY <1>0, <1>1, PacketPlace
  <2>2. SubSeq(ring \o packet, (p - 1) * L + 1, p * L) = SubSeq(ring, (p - 1) * L + 1, p * L)
    <3> DEFINE a == (p - 1) * L + 1
               b == p * L
    <3>1. a \in 1..Len(ring) /\ b \in 1..Len(ring) /\ packet \in Seq(B)
      BY <2>1 DEF B
    <3> HIDE DEF a, b
    <3>2. SubSeq(ring \o packet, a, b) = SubSeq(ring, a, b)
      BY <1>1, <3>1, SubSeqOfConcat1
    <3> QED
      BY <3>2 DEF a, b
  <2> QED
    BY <2>2 DEF KT!Packet, L
<1>4. KT!Packet(longer, c + 1) = packet
  <2>1. ((c + 1) - 1) * L + 1 = Len(ring) + 1 /\ (c + 1) * L = Len(ring) + Len(packet)
        /\ Len(ring) \in Nat
    <3>1. (c + 1) - 1 = c /\ (c + 1) * L = c * L + L /\ c * L \in Nat
      BY <1>0
    <3> QED
      BY <1>1, <3>1 DEF L
  <2>2. KT!Packet(longer, c + 1) = SubSeq(ring \o packet, Len(ring) + 1, Len(ring) + Len(packet))
    BY <2>1 DEF KT!Packet, L
  <2>3. SubSeq(ring \o packet, Len(ring) + 1, Len(ring) + Len(packet))
          = SubSeq(packet, 1, Len(packet))
    <3>1. Len(packet) \in Nat /\ Len(packet) > 0 /\ packet \in Seq(B)
      BY <1>0 DEF L, B
    <3>2. /\ Len(ring) + 1 \in (Len(ring) + 1)..(Len(ring) + Len(packet))
          /\ Len(ring) + Len(packet) \in (Len(ring) + 1)..(Len(ring) + Len(packet))
          /\ (Len(ring) + 1) - Len(ring) = 1
          /\ (Len(ring) + Len(packet)) - Len(ring) = Len(packet)
      BY <2>1, <3>1
    <3> DEFINE a == Len(ring) + 1
               b == Len(ring) + Len(packet)
    <3> HIDE DEF a, b
    <3>3. SubSeq(ring \o packet, a, b) = SubSeq(packet, a - Len(ring), b - Len(ring))
      <4>1. /\ a \in (Len(ring) + 1)..(Len(ring) + Len(packet))
            /\ b \in (Len(ring) + 1)..(Len(ring) + Len(packet))
        BY <3>2 DEF a, b
      <4> QED
        BY ONLY <1>1, <3>1, <4>1, SubSeqOfConcat2
    <3> QED
      BY <3>2, <3>3 DEF a, b
  <2>4. SubSeq(packet, 1, Len(packet)) = packet
    BY ONLY SubSeqFull, packet \in Seq(PacketBytes)
  <2> QED
    BY <2>2, <2>3, <2>4, Zenon
<1>5. \A p \in 1..(c + 1) : p \in 1..c \/ p = c + 1
  OBVIOUS
<1>6. \A p \in 1..(c + 1) : KT!Packet(longer, p) \in packets \cup {packet}
  BY <1>1, <1>3, <1>4, <1>5
<1>7. \A x \in packets \cup {packet} : \E p \in 1..(c + 1) : KT!Packet(longer, p) = x
  <2>1. 1..c \subseteq 1..(c + 1) /\ c + 1 \in 1..(c + 1)
    OBVIOUS
  <2> QED
    BY <1>1, <1>3, <1>4, <2>1
<1>8. c + 1 \in Nat
  OBVIOUS
<1> HIDE DEF longer
<1> QED
  BY <1>2, <1>6, <1>7, <1>8 DEF IsRing, longer, L, B

\* The packets of the first n keys that belong in bucket i.
Bucket(ks, L, n, i) ==
  {ks[m].Packet : m \in {k \in 1..n : KT!HashToIndex(ks[k].ID, L) = i}}

IsTable(t, ks, L, n) ==
  t = [m \in 0..n |-> IF m = 0 THEN [i \in 0..(L - 1) |-> <<>>]
                      ELSE KT!AddKey(t[m - 1], ks[m], L)]

LEMMA TableExists ==
  ASSUME NEW ks, NEW L, NEW N \in Nat
  PROVE  \E t : IsTable(t, ks, L, N)
<1> DEFINE P == {n \in 0..N : \E t : IsTable(t, ks, L, n)}
           empty == [i \in 0..(L - 1) |-> <<>>]
<1>1. 0 \in P
  <2> DEFINE t == [m \in 0..0 |-> empty]
  <2>1. IsTable(t, ks, L, 0)
    BY DEF IsTable
  <2> HIDE DEF t
  <2> QED
    BY <2>1
<1>2. ASSUME NEW n \in 0..(N - 1), n \in P
      PROVE  n + 1 \in P
  <2>1. PICK t : IsTable(t, ks, L, n)
    BY <1>2
  <2> DEFINE next == KT!AddKey(t[n], ks[n + 1], L)
             s == [m \in 0..(n + 1) |-> IF m = n + 1 THEN next ELSE t[m]]
             G == [m \in 0..n |-> IF m = 0 THEN empty ELSE KT!AddKey(t[m - 1], ks[m], L)]
             H == [m \in 0..(n + 1) |-> IF m = 0 THEN empty ELSE KT!AddKey(s[m - 1], ks[m], L)]
  <2>2. t = G
    BY <2>1 DEF IsTable
  <2>3. ASSUME NEW m \in 0..n
        PROVE  t[m] = IF m = 0 THEN empty ELSE KT!AddKey(t[m - 1], ks[m], L)
    <3>1. G[m] = IF m = 0 THEN empty ELSE KT!AddKey(t[m - 1], ks[m], L)
      OBVIOUS
    <3> HIDE DEF G
    <3> QED
      BY <2>2, <3>1
  <2> HIDE DEF empty, next, G
  <2>4. ASSUME NEW m \in 0..(n + 1)
        PROVE  s[m] = H[m]
    <3>1. CASE m = n + 1
      <4>1. s[m] = next /\ s[m - 1] = t[n] /\ m # 0 /\ m - 1 = n
        BY <3>1
      <4>2. H[m] = KT!AddKey(s[m - 1], ks[m], L)
        BY <4>1
      <4> QED
        BY <3>1, <4>1, <4>2 DEF next
    <3>2. CASE m \in 0..n /\ m # 0
      <4>1. s[m] = t[m] /\ s[m - 1] = t[m - 1]
        BY <3>2
      <4>2. H[m] = KT!AddKey(s[m - 1], ks[m], L)
        BY <3>2
      <4> QED
        BY <2>3, <3>2, <4>1, <4>2
    <3>3. CASE m = 0
      BY <2>3, <3>3
    <3> QED
      BY <3>1, <3>2, <3>3
  <2>5. s = H
    BY <2>4
  <2>6. IsTable(s, ks, L, n + 1)
    BY <2>5 DEF IsTable, empty
  <2> HIDE DEF s
  <2> QED
    BY <2>6
<1> HIDE DEF P
<1>3. 0..N \subseteq P
  BY <1>1, <1>2, UpTo
<1> QED
  BY <1>3 DEF P

LEMMA TableRings ==
  ASSUME NEW ks \in Seq(Stored), NEW L \in Nat, ks # <<>> => L > 0
  PROVE  /\ DOMAIN KT!makeHashTable(ks, L) = 0..(L - 1)
         /\ \A i \in 0..(L - 1) :
              IsRing(KT!makeHashTable(ks, L)[i], Bucket(ks, L, Len(ks), i))
<1> DEFINE N == Len(ks)
           t == CHOOSE t : IsTable(t, ks, L, N)
           Good(n) == /\ DOMAIN t[n] = 0..(L - 1)
                      /\ \A i \in 0..(L - 1) : IsRing(t[n][i], Bucket(ks, L, n, i))
           P == {n \in 0..N : Good(n)}
<1>0. N \in Nat
  OBVIOUS
<1>1. KT!makeHashTable(ks, L) = t[N]
  BY DEF KT!makeHashTable, IsTable
<1>2. IsTable(t, ks, L, N)
  BY <1>0, TableExists
<1> HIDE DEF t, N
<1> DEFINE G == [m \in 0..N |-> IF m = 0 THEN [i \in 0..(L - 1) |-> <<>>]
                               ELSE KT!AddKey(t[m - 1], ks[m], L)]
<1>2a. t = G
  BY <1>2 DEF IsTable
<1>2b. G[0] = [i \in 0..(L - 1) |-> <<>>] /\ \A n \in 1..N : G[n] = KT!AddKey(t[n - 1], ks[n], L)
  BY <1>0
<1> HIDE DEF G
<1>3. t[0] = [i \in 0..(L - 1) |-> <<>>]
      /\ \A n \in 1..N : t[n] = KT!AddKey(t[n - 1], ks[n], L)
  BY <1>2a, <1>2b, Zenon
<1>4. 0 \in P
  <2>1. \A i \in 0..(L - 1) : Bucket(ks, L, 0, i) = {}
    BY DEF Bucket
  <2>2. DOMAIN t[0] = 0..(L - 1) /\ \A i \in 0..(L - 1) : t[0][i] = <<>>
    BY <1>3
  <2>3. Good(0)
    BY <2>1, <2>2, EmptyRing
  <2> HIDE DEF Good
  <2> QED
    BY <1>0, <2>3
<1>5. ASSUME NEW n \in 0..(N - 1), n \in P
      PROVE  n + 1 \in P
  <2> DEFINE key == ks[n + 1]
             h == KT!HashToIndex(key.ID, L)
             packet == key.Packet
  <2>1. n + 1 \in 1..N /\ t[n + 1] = KT!AddKey(t[n], key, L)
    BY <1>0, <1>3
  <2>2. key \in Stored
    BY <2>1 DEF N
  <2> HIDE DEF key
  <2>3. h \in 0..(L - 1)
    <3>1. Hash[key.ID] \in Nat /\ L > 0
      BY <2>1, <2>2, StoredKey DEF N
    <3> QED
      BY <3>1 DEF KT!HashToIndex
  <2>4. packet \in Seq(PacketBytes) /\ Len(packet) = PacketLen
    BY <2>2, StoredKey
  <2>5. Good(n)
    BY <1>5
  <2> HIDE DEF h
  <2>6. t[n + 1] = [t[n] EXCEPT ![h] = t[n][h] \o packet]
    BY <2>1 DEF KT!AddKey, h
  <2>7. DOMAIN t[n + 1] = 0..(L - 1)
    BY <2>5, <2>6
  <2>8. ASSUME NEW i \in 0..(L - 1)
        PROVE  Bucket(ks, L, n + 1, i)
                 = IF i = h THEN Bucket(ks, L, n, i) \cup {packet} ELSE Bucket(ks, L, n, i)
    <3>1. 1..(n + 1) = (1..n) \cup {n + 1}
      OBVIOUS
    <3> QED
      BY <3>1 DEF Bucket, h, key
  <2>9. ASSUME NEW i \in 0..(L - 1)
        PROVE  IsRing(t[n + 1][i], Bucket(ks, L, n + 1, i))
    <3>1. IsRing(t[n][i], Bucket(ks, L, n, i))
      BY <2>5
    <3>2. CASE i = h
      <4>1. t[n + 1][i] = t[n][i] \o packet
        BY <2>3, <2>5, <2>6, <3>2
      <4>2. IsRing(t[n][i] \o packet, Bucket(ks, L, n, i) \cup {packet})
        BY <2>4, <3>1, RingGrows
      <4> QED
        BY <2>8, <3>2, <4>1, <4>2
    <3>3. CASE i # h
      <4>1. t[n + 1][i] = t[n][i]
        BY <2>5, <2>6, <3>3
      <4> QED
        BY <2>8, <3>1, <3>3, <4>1
    <3> QED
      BY <3>2, <3>3
  <2>10. Good(n + 1)
    BY <2>7, <2>9
  <2> HIDE DEF Good
  <2> QED
    BY <1>0, <2>10
<1>6. N \in P
  <2> HIDE DEF P
  <2>1. 0..N \subseteq P
    BY <1>0, <1>4, <1>5, UpTo
  <2> QED
    BY <1>0, <2>1
<1> QED
  BY <1>1, <1>6 DEF N

\* Looking for a key in a ring.
LEMMA RingLookup ==
  ASSUME NEW ks \in Seq(Stored), NEW L, NEW i,
         NEW ring, IsRing(ring, Bucket(ks, L, Len(ks), i)), NEW email
  PROVE  /\ KT!Holders(ring, email) # {} =>
              \E m \in 1..Len(ks) :
                 ks[m] = [ID |-> email, Packet |-> KT!RecoverKeyFromBlock(ring, email)]
         /\ \A m \in 1..Len(ks) :
              ks[m].ID = email /\ KT!HashToIndex(email, L) = i => KT!Holders(ring, email) # {}
<1> DEFINE packets == Bucket(ks, L, Len(ks), i)
           H == KT!Holders(ring, email)
<1>1. PICK c \in Nat : /\ ring \in Seq(PacketBytes) /\ Len(ring) = c * PacketLen
                       /\ \A p \in 1..c : KT!Packet(ring, p) \in packets
                       /\ \A x \in packets : \E p \in 1..c : KT!Packet(ring, p) = x
  BY DEF IsRing
<1>2. KT!NumPackets(ring) = c
  <2>1. PacketLen \in Nat /\ PacketLen > 0
    BY PacketsAssumption
  <2>2. (c * PacketLen) \div PacketLen = c
    BY <2>1, Multiple
  <2> QED
    BY Zenon, <1>1, <2>2 DEF KT!NumPackets
<1>3. H = {n \in 1..c : KT!Packet(ring, n) \in DOMAIN EmailOf /\ EmailOf[KT!Packet(ring, n)] = email}
  BY <1>2 DEF KT!Holders, EmailOf
<1>4. \A m \in 1..Len(ks) : ks[m] \in Stored
  OBVIOUS
<1>5. \A x \in packets :
         \E m \in 1..Len(ks) : /\ ks[m] = [ID |-> EmailOf[x], Packet |-> x]
                               /\ x \in DOMAIN EmailOf
  <2> TAKE x \in packets
  <2>1. PICK m \in 1..Len(ks) : x = ks[m].Packet
    BY DEF Bucket
  <2> QED
    BY <1>4, <2>1, StoredKey
<1> HIDE DEF H
<1>6. ASSUME H # {}
      PROVE  \E m \in 1..Len(ks) :
                ks[m] = [ID |-> email, Packet |-> KT!RecoverKeyFromBlock(ring, email)]
  <2> DEFINE p == Min(H)
  <2>1. H \subseteq Nat
    BY <1>3
  <2>2. p \in H
    BY <1>6, <2>1, MinFacts
  <2>3. KT!RecoverKeyFromBlock(ring, email) = KT!Packet(ring, p)
    BY Zenon DEF KT!RecoverKeyFromBlock, KT!Min, Min, H
  <2> HIDE DEF p
  <2>4. p \in 1..c /\ EmailOf[KT!Packet(ring, p)] = email
    BY <1>3, <2>2
  <2> QED
    BY <1>1, <1>5, <2>3, <2>4
<1>7. ASSUME NEW m \in 1..Len(ks), ks[m].ID = email, KT!HashToIndex(email, L) = i
      PROVE  H # {}
  <2> DEFINE x == ks[m].Packet
  <2>1. x \in DOMAIN EmailOf /\ EmailOf[x] = email
    BY <1>4, <1>7, StoredKey
  <2>2. x \in packets
    BY <1>7 DEF Bucket
  <2> HIDE DEF x
  <2>3. PICK p \in 1..c : KT!Packet(ring, p) = x
    BY <1>1, <2>2
  <2> QED
    BY <1>3, <2>1, <2>3
<1> QED
  BY <1>6, <1>7 DEF H
-----------------------------------------------------------------------------
(* Padding is undone exactly.                                               *)

LEMMA UnPadded ==
  ASSUME NEW S, NEW s \in Seq(S)
  PROVE  KT!UnPadBlock(Append(s, KT!Mark)) = s
<1> DEFINE t == Append(s, KT!Mark)
           n == Len(s) + 1
           sig == {m \in 1..Len(t) : t[m] # KT!Zero}
<1>1. Len(s) \in Nat /\ Len(t) = n /\ t[n] = KT!Mark
  OBVIOUS
<1>2. KT!Mark # KT!Zero
  BY DEF KT!Mark, KT!Zero
<1>3. n \in sig /\ sig \subseteq Int /\ \A m \in sig : m <= n
  <2> HIDE DEF t
  <2> QED
    BY <1>1, <1>2
<1>4. KT!Significant(t) = sig
  BY DEF KT!Significant
<1> HIDE DEF sig
<1>5. Max(sig) = n
  BY <1>3, MaxIs
<1>6. KT!UnPadBlock(t) = SubSeq(t, 1, Max(sig) - 1)
  BY <1>4, Zenon DEF KT!UnPadBlock, KT!Max, Max
<1>7. SubSeq(t, 1, Len(s)) = s
  BY <1>1
<1>8. n - 1 = Len(s)
  BY <1>1
<1> HIDE DEF t, n
<1>9. KT!UnPadBlock(t) = s
  BY <1>5, <1>6, <1>7, <1>8
<1> QED
  BY <1>9 DEF t
-----------------------------------------------------------------------------
(* The height of a tree.                                                   *)

\* The logarithm, rounded up.
LEMMA LevelsFacts ==
  ASSUME NEW n \in Nat
  PROVE  /\ Levels(n) \in Nat /\ 2 ^ Levels(n) >= n
         /\ \A c \in Nat : 2 ^ c >= n => Levels(n) <= c
         /\ KT!Levels(n) = Levels(n)
<1> DEFINE T == {d \in Nat : 2 ^ d >= n}
<1>1. n \in T
  <2>1. 2 ^ n > n /\ 2 ^ n \in Nat
    BY PowerGrows, PowerType
  <2> QED
    BY <2>1
<1>2. PICK d \in T : \A c \in T : d <= c
  <2>1. T \subseteq Nat
    OBVIOUS
  <2> HIDE DEF T
  <2> QED
    BY <1>1, <2>1, LeastNumber
<1>3. d \in 0..n /\ 2 ^ d >= n
  BY <1>1, <1>2
<1>4. \A c \in 0..(d - 1) : 2 ^ c < n
  <2> TAKE c \in 0..(d - 1)
  <2>1. c \in Nat /\ ~(d <= c)
    BY <1>3
  <2>2. c \notin T
    BY <1>2, <2>1
  <2>3. 2 ^ c \in Nat
    BY <2>1, PowerType
  <2>4. ~(2 ^ c >= n)
    BY <2>1, <2>2
  <2> QED
    BY <2>3, <2>4
<1> DEFINE Is(x) == 2 ^ x >= n /\ \A c \in 0..(x - 1) : 2 ^ c < n
           l == Levels(n)
<1>5. l = CHOOSE x \in 0..n : Is(x)
  BY DEF Levels
<1>6. l \in 0..n /\ Is(l)
  <2>1. d \in 0..n /\ Is(d)
    BY <1>3, <1>4
  <2> HIDE DEF Is, l
  <2> QED
    BY <1>5, <2>1
<1> HIDE DEF l
<1>7. ASSUME NEW c \in Nat, 2 ^ c >= n
      PROVE  l <= c
  <2>1. ASSUME c < l
        PROVE  FALSE
    <3>1. c \in 0..(l - 1)
      BY <1>6, <2>1
    <3>2. 2 ^ c \in Nat
      BY <1>7, PowerType
    <3> QED
      BY <1>6, <1>7, <3>1, <3>2
  <2> QED
    BY <1>6, <2>1
<1>8. KT!Levels(n) = Levels(n)
  BY DEF KT!Levels, Levels
<1> QED
  BY <1>6, <1>7, <1>8 DEF l

LEMMA LevelsOrder ==
  ASSUME NEW m \in Nat, NEW n \in Nat, m <= n
  PROVE  Levels(m) <= Levels(n)
<1>1. Levels(n) \in Nat /\ 2 ^ Levels(n) >= n /\ 2 ^ Levels(n) \in Nat
  BY LevelsFacts, PowerType
<1>2. 2 ^ Levels(n) >= m
  BY <1>1
<1> QED
  BY <1>1, <1>2, LevelsFacts

LEMMA LevelsOfPower ==
  ASSUME NEW d \in Nat
  PROVE  Levels(2 ^ d) = d
<1> DEFINE l == Levels(2 ^ d)
<1>1. 2 ^ d \in Nat
  BY PowerType
<1>2. l \in Nat /\ 2 ^ l >= 2 ^ d /\ l <= d
  BY <1>1, LevelsFacts
<1>3. ~(l < d)
  <2>1. 2 ^ l \in Nat
    BY <1>2, PowerType
  <2> QED
    BY <1>1, <1>2, <2>1, PowerOrder
<1> QED
  BY <1>2, <1>3
-----------------------------------------------------------------------------
(* A block is found by the lengths of those before it.                      *)

LEMMA Middle ==
  ASSUME NEW X, NEW a \in Seq(X), NEW u \in Seq(X), NEW b \in Seq(X)
  PROVE  SubSeq((a \o u) \o b, Len(a) + 1, Len(a) + Len(u)) = u
<1> DEFINE m == Len(a)
           n == Len(u)
           w == (a \o u) \o b
           v == SubSeq(w, m + 1, m + n)
<1>1. m \in Nat /\ n \in Nat /\ w \in Seq(X) /\ Len(w) = m + n + Len(b) /\ Len(b) \in Nat
  OBVIOUS
<1>2. \A j \in 1..n : w[m + j] = u[j]
  OBVIOUS
<1> HIDE DEF w, m
<1>3. v \in Seq(X) /\ Len(v) = n /\ \A j \in 1..n : v[j] = w[m + j]
  <2>1. n = Len(u)
    OBVIOUS
  <2> HIDE DEF n
  <2>2. m + 1 \in Int /\ m + n \in Int /\ \A j \in (m + 1)..(m + n) : j \in 1..Len(w)
    BY <1>1
  <2> QED
    BY <1>1, <2>2
<1> HIDE DEF v
<1>4. v = u
  BY <1>2, <1>3, SeqEqual
<1> QED
  BY <1>4 DEF v, m, w

LEMMA PrefixFlat ==
  ASSUME NEW X, NEW s \in Seq(Seq(X)), NEW n \in 0..(Len(s) - 1)
  PROVE  /\ Flattening(SubSeq(s, 1, n)) \in Seq(X) /\ s[n + 1] \in Seq(X)
         /\ Flattening(SubSeq(s, 1, n + 1)) = Flattening(SubSeq(s, 1, n)) \o s[n + 1]
<1>1. /\ SubSeq(s, 1, n) \in Seq(Seq(X)) /\ s[n + 1] \in Seq(X)
      /\ SubSeq(s, 1, n + 1) = Append(SubSeq(s, 1, n), s[n + 1])
  <2> DEFINE S == Seq(X)
  <2> HIDE DEF S
  <2>1. s \in Seq(S)
    BY DEF S
  <2>2. /\ SubSeq(s, 1, n) \in Seq(S) /\ s[n + 1] \in S
        /\ SubSeq(s, 1, n + 1) = Append(SubSeq(s, 1, n), s[n + 1])
    BY <2>1, PrefixStep
  <2> QED
    BY <2>2 DEF S
<1> DEFINE t == SubSeq(s, 1, n)
           u == s[n + 1]
<1>2. t \in Seq(Seq(X)) /\ u \in Seq(X) /\ SubSeq(s, 1, n + 1) = Append(t, u)
  BY <1>1
<1> HIDE DEF t, u
<1>3. Flattening(t) \in Seq(X) /\ Flattening(Append(t, u)) = Flattening(t) \o u
  BY <1>2, FlattenType, FlattenAppend
<1> QED
  BY <1>2, <1>3, Zenon DEF t, u

\* Where blocks end: end[j] is the sum of the lengths up to block j.
IsEnds(end, lens, i) == end = [j \in -1..i |-> IF j = -1 THEN 0 ELSE end[j - 1] + lens[j]]

LEMMA EndsExist ==
  ASSUME NEW X, NEW s \in Seq(Seq(X)), NEW lens,
         NEW i \in 0..(Len(s) - 1),
         \A j \in 0..i : lens[j] = Len(s[j + 1])
  PROVE  \E end : IsEnds(end, lens, i)
<1> DEFINE F == [j \in -1..i |-> Len(Flattening(SubSeq(s, 1, j + 1)))]
           G == [j \in -1..i |-> IF j = -1 THEN 0 ELSE F[j - 1] + lens[j]]
<1>1. i \in Nat /\ Len(s) \in Nat
  OBVIOUS
<1>2. ASSUME NEW j \in -1..i
      PROVE  F[j] = G[j]
  <2>1. CASE j = -1
    <3>1. SubSeq(s, 1, 0) = <<>>
      BY PrefixEnds
    <3>2. F[j] = Len(Flattening(SubSeq(s, 1, 0))) /\ G[j] = 0
      BY <2>1
    <3>3. Len(<<>>) = 0
      OBVIOUS
    <3> HIDE DEF F, G
    <3> QED
      BY <3>1, <3>2, <3>3, FlattenEmpty, Zenon
  <2>2. CASE j # -1
    <3>1. j \in 0..(Len(s) - 1) /\ j - 1 \in -1..i /\ (j - 1) + 1 = j
      BY <1>1, <2>2
    <3> DEFINE a == Flattening(SubSeq(s, 1, j))
               u == s[j + 1]
    <3>2. F[j] = Len(Flattening(SubSeq(s, 1, j + 1))) /\ G[j] = F[j - 1] + lens[j]
      BY <2>2
    <3>3. F[j - 1] = Len(a)
      BY <3>1
    <3>4. a \in Seq(X) /\ u \in Seq(X) /\ Flattening(SubSeq(s, 1, j + 1)) = a \o u
      BY <3>1, PrefixFlat
    <3>5. lens[j] = Len(u)
      BY <1>1, <2>2
    <3> HIDE DEF a, u, F, G
    <3>6. Len(a \o u) = Len(a) + Len(u)
      BY <3>4
    <3> QED
      BY <3>2, <3>3, <3>4, <3>5, <3>6, Zenon
  <2> QED
    BY <2>1, <2>2
<1>3. F = G
  <2>1. F = [j \in -1..i |-> F[j]] /\ G = [j \in -1..i |-> G[j]]
    OBVIOUS
  <2> HIDE DEF F, G
  <2> QED
    BY <1>2, <2>1
<1>4. IsEnds(F, lens, i)
  BY <1>3 DEF IsEnds
<1> HIDE DEF F
<1> QED
  BY <1>4

LEMMA EndsAre ==
  ASSUME NEW X, NEW s \in Seq(Seq(X)), NEW lens,
         NEW i \in 0..(Len(s) - 1),
         \A j \in 0..i : lens[j] = Len(s[j + 1]),
         NEW end, IsEnds(end, lens, i)
  PROVE  \A n \in 0..(i + 1) : end[n - 1] = Len(Flattening(SubSeq(s, 1, n)))
<1> DEFINE P == {n \in 0..(i + 1) : end[n - 1] = Len(Flattening(SubSeq(s, 1, n)))}
           G == [j \in -1..i |-> IF j = -1 THEN 0 ELSE end[j - 1] + lens[j]]
<1>1. i \in Nat /\ Len(s) \in Nat /\ i + 1 \in Nat
  OBVIOUS
<1>2. end = G
  BY DEF IsEnds
<1>3. G[-1] = 0 /\ \A j \in 0..i : G[j] = end[j - 1] + lens[j]
  BY <1>1
<1> HIDE DEF G
<1>4. end[-1] = 0 /\ \A j \in 0..i : end[j] = end[j - 1] + lens[j]
  BY <1>2, <1>3, Zenon
<1>5. 0 \in P
  <2>1. SubSeq(s, 1, 0) = <<>>
    BY PrefixEnds
  <2>2. Len(Flattening(SubSeq(s, 1, 0))) = 0
    <3>1. Len(<<>>) = 0
      OBVIOUS
    <3> QED
      BY <2>1, <3>1, FlattenEmpty, Zenon
  <2>3. 0 - 1 = -1
    OBVIOUS
  <2>4. end[0 - 1] = Len(Flattening(SubSeq(s, 1, 0)))
    BY <1>4, <2>2, <2>3
  <2> QED
    BY <1>1, <2>4
<1>6. ASSUME NEW n \in 0..((i + 1) - 1), n \in P
      PROVE  n + 1 \in P
  <2>1. n \in 0..i /\ n \in 0..(Len(s) - 1) /\ (n + 1) - 1 = n /\ n + 1 \in 0..(i + 1)
    BY <1>1
  <2> DEFINE a == Flattening(SubSeq(s, 1, n))
             u == s[n + 1]
             au == Flattening(SubSeq(s, 1, n + 1))
  <2>2. a \in Seq(X) /\ u \in Seq(X) /\ au = a \o u
    BY <2>1, PrefixFlat
  <2>3. end[n] = end[n - 1] + lens[n]
    BY <1>4, <2>1
  <2>4. end[n - 1] = Len(a) /\ lens[n] = Len(u)
    BY <1>6, <2>1
  <2> HIDE DEF a, u, au
  <2>5. Len(a \o u) = Len(a) + Len(u)
    BY <2>2
  <2>6. end[n] = Len(au)
    BY <2>2, <2>3, <2>4, <2>5, Zenon
  <2>7. end[(n + 1) - 1] = Len(Flattening(SubSeq(s, 1, n + 1)))
    BY <2>1, <2>6 DEF au
  <2> QED
    BY <2>1, <2>7
<1>7. 0..(i + 1) \subseteq P
  <2> HIDE DEF P
  <2> QED
    BY <1>1, <1>5, <1>6, UpTo
<1> QED
  BY <1>7

LEMMA Cut ==
  ASSUME NEW X, NEW s \in Seq(Seq(X)), NEW db, db.Entries = FlattenSeq(s),
         NEW i \in 0..(Len(s) - 1),
         \A j \in 0..i : db.BlockLengths[j] = Len(s[j + 1])
  PROVE  StoredBlock(db, i) = s[i + 1]
<1> DEFINE lens == db.BlockLengths
           Is(end) == IsEnds(end, lens, i)
           end == CHOOSE end : Is(end)
           a == Flattening(SubSeq(s, 1, i))
           u == s[i + 1]
           t == SubSeq(s, i + 2, Len(s))
           b == Flattening(t)
<1>1. StoredBlock(db, i) = SubSeq(db.Entries, end[i - 1] + 1, end[i])
  BY DEF StoredBlock, IsEnds
<1>2. IsEnds(end, lens, i)
  <2>1. \E e : Is(e)
    BY EndsExist
  <2> HIDE DEF Is
  <2>2. Is(end)
    BY <2>1
  <2> QED
    BY <2>2 DEF Is
<1> HIDE DEF end
<1>3. i \in Nat /\ i \in 0..(i + 1) /\ i + 1 \in 0..(i + 1) /\ (i + 1) - 1 = i /\ Len(s) \in Nat
  OBVIOUS
<1>4. end[i - 1] = Len(a) /\ end[i] = Len(Flattening(SubSeq(s, 1, i + 1)))
  <2>1. \A n \in 0..(i + 1) : end[n - 1] = Len(Flattening(SubSeq(s, 1, n)))
    BY <1>2, EndsAre
  <2> QED
    BY <1>3, <2>1
<1>5. a \in Seq(X) /\ u \in Seq(X) /\ Flattening(SubSeq(s, 1, i + 1)) = a \o u
  BY PrefixFlat
<1>6. /\ SubSeq(s, 1, i + 1) \in Seq(Seq(X)) /\ t \in Seq(Seq(X))
      /\ s = SubSeq(s, 1, i + 1) \o t
  <2> DEFINE S == Seq(X)
  <2>1. s \in Seq(S)
    OBVIOUS
  <2> HIDE DEF S
  <2>2. SubSeq(s, 1, i + 1) \in Seq(S) /\ SubSeq(s, i + 2, Len(s)) \in Seq(S)
    BY <2>1, <1>3
  <2>3. s = SubSeq(s, 1, i + 1) \o SubSeq(s, i + 2, Len(s))
    <3> DEFINE k == i + 1
               n == Len(s)
    <3>1. k \in 0..n /\ n \in k..n /\ 1 \in 1..(n + 1) /\ k + 1 = i + 2 /\ 1 - 1 = 0
      BY <1>3
    <3> HIDE DEF k, n
    <3>2. n \in k..Len(s) /\ k \in (1 - 1)..Len(s) /\ 1 \in 1..(Len(s) + 1)
      BY <3>1 DEF n
    <3>3. SubSeq(s, 1, k) \o SubSeq(s, k + 1, n) = SubSeq(s, 1, n)
      BY <2>1, <3>2, ConcatAdjacentSubSeq
    <3>4. SubSeq(s, 1, n) = s
      BY <2>1, SubSeqFull DEF n
    <3> QED
      BY <3>1, <3>3, <3>4 DEF k, n
  <2> QED
    BY <2>2, <2>3 DEF S
<1>7. b \in Seq(X) /\ Flattening(s) = Flattening(SubSeq(s, 1, i + 1)) \o b
  <2> HIDE DEF t
  <2>1. Flattening(t) \in Seq(X)
    BY <1>6, FlattenType
  <2> DEFINE p == SubSeq(s, 1, i + 1)
  <2>2. p \in Seq(Seq(X)) /\ s = p \o t
    BY <1>6
  <2> HIDE DEF p
  <2>3. Flattening(p \o t) = Flattening(p) \o Flattening(t)
    BY <1>6, <2>2, FlattenConcat
  <2> QED
    BY <2>1, <2>2, <2>3 DEF p
<1>8. db.Entries = (a \o u) \o b
  BY <1>5, <1>7, BridgeFlat
<1> HIDE DEF a, u, b
<1>9. end[i] = Len(a) + Len(u)
  <2>1. Len(a \o u) = Len(a) + Len(u)
    BY <1>5
  <2> QED
    BY <1>4, <1>5, <2>1
<1>10. StoredBlock(db, i) = SubSeq((a \o u) \o b, Len(a) + 1, Len(a) + Len(u))
  BY <1>1, <1>4, <1>8, <1>9
<1> QED
  BY <1>5, <1>7, <1>10, Middle DEF u
-----------------------------------------------------------------------------
(* The size of the table, and its blocks.                                   *)

LEMMA SideType ==
  ASSUME NEW n \in Nat
  PROVE  SquareSide(n) \in Nat
<1> DEFINE T == {s \in Nat : s * s >= n}
           Is(s) == s * s >= n /\ (s = 0 \/ (s - 1) * (s - 1) < n)
<1>1. n \in T
  <2>1. n * n >= n
    <3>1. CASE n = 0
      BY <3>1
    <3>2. CASE n > 0
      <4>1. n - 1 \in Nat /\ n * (n - 1) \in Nat /\ n * n = n * (n - 1) + n
        BY <3>2
      <4> QED
        BY <4>1
    <3> QED
      BY <3>1, <3>2
  <2> QED
    BY <2>1
<1>2. PICK s \in T : \A c \in T : s <= c
  <2>1. T \subseteq Nat
    OBVIOUS
  <2> HIDE DEF T
  <2> QED
    BY <1>1, <2>1, LeastNumber
<1>3. s \in 0..n /\ s * s >= n
  BY <1>1, <1>2
<1>4. s # 0 => (s - 1) * (s - 1) < n
  <2> SUFFICES ASSUME s # 0
               PROVE  (s - 1) * (s - 1) < n
    OBVIOUS
  <2>1. s - 1 \in Nat /\ ~(s <= s - 1)
    BY <1>3
  <2>2. s - 1 \notin T
    BY <1>2, <2>1
  <2>3. (s - 1) * (s - 1) \in Nat
    BY <2>1
  <2> QED
    BY <2>1, <2>2, <2>3
<1>5. SquareSide(n) = CHOOSE x \in 0..n : Is(x)
  BY DEF SquareSide
<1>6. \E x \in 0..n : Is(x)
  BY <1>3, <1>4
<1> HIDE DEF Is
<1>7. SquareSide(n) \in 0..n
  BY <1>5, <1>6
<1> QED
  BY <1>7

LEMMA SizeType ==
  ASSUME NEW ks \in Seq(Stored)
  PROVE  Size(ks).rows \in Nat /\ Size(ks).columns = Size(ks).rows
<1>1. Len(ks) \div KeysPerBlock \in Nat
  BY KeyDBAssumption
<1>2. Size(ks) = [rows |-> SquareSide(Len(ks) \div KeysPerBlock),
                  columns |-> SquareSide(Len(ks) \div KeysPerBlock)]
  BY DEF Size, CalculateNumRowsAndColumns
<1> QED
  BY <1>1, <1>2, SideType

Bytes == PacketBytes \cup {KT!Mark}

\* What is proved of the table of the keys ks.
RightTable(ks, L, table) ==
  /\ L \in Nat /\ DOMAIN table = 0..(L - 1)
  /\ \A i \in 0..(L - 1) :
       IsRing(table[i], Bucket(ks, L, Len(ks), i)) /\ table[i] \in Seq(PacketBytes)
  /\ KT!Blocks(table) \in [0..(L - 1) -> Seq(Bytes)]
  /\ \A i \in 0..(L - 1) : KT!Blocks(table)[i] = IF table[i] = <<>> THEN <<>>
                                                 ELSE Append(table[i], KT!Mark)

LEMMA TableRight ==
  ASSUME NEW ks \in Seq(Stored), ~NoBuckets(ks)
  PROVE  RightTable(ks, Size(ks).rows * Size(ks).columns, HashTable(ks))
<1> DEFINE r == Size(ks).rows
           L == Size(ks).rows * Size(ks).columns
           table == HashTable(ks)
           blocks == KT!Blocks(table)
<1>1. r \in Nat /\ L = r * r
  BY SizeType
<1>2. L \in Nat /\ (ks # <<>> => L > 0)
  <2>1. ks # <<>> => r # 0
    BY DEF NoBuckets
  <2> HIDE DEF r, L
  <2>2. r # 0 => r * r > 0
    BY <1>1
  <2>3. r * r \in Nat
    BY <1>1
  <2> QED
    BY <1>1, <2>1, <2>2, <2>3
<1>3. table = KT!makeHashTable(ks, L)
  BY DEF HashTable
<1> HIDE DEF r, L, table
<1>4. DOMAIN table = 0..(L - 1) /\ \A i \in 0..(L - 1) : IsRing(table[i], Bucket(ks, L, Len(ks), i))
  BY <1>2, <1>3, TableRings
<1>5. \A i \in 0..(L - 1) : table[i] \in Seq(PacketBytes)
  BY <1>4 DEF IsRing
<1>6. blocks = [i \in 0..(L - 1) |-> IF table[i] = <<>> THEN <<>> ELSE Append(table[i], KT!Mark)]
  BY <1>4 DEF KT!Blocks, KT!PadWithSignalByte
<1>7. ASSUME NEW i \in 0..(L - 1)
      PROVE  /\ blocks[i] = IF table[i] = <<>> THEN <<>> ELSE Append(table[i], KT!Mark)
             /\ blocks[i] \in Seq(Bytes)
  <2>1. table[i] \in Seq(PacketBytes)
    BY <1>5
  <2>2. PacketBytes \subseteq Bytes /\ KT!Mark \in Bytes
    BY DEF Bytes
  <2>3. table[i] \in Seq(Bytes)
    BY <2>1, <2>2, SeqMonotonic
  <2> DEFINE t == table[i]
  <2>4. blocks[i] = IF t = <<>> THEN <<>> ELSE Append(t, KT!Mark)
    BY <1>6
  <2>5. <<>> \in Seq(Bytes) /\ Append(t, KT!Mark) \in Seq(Bytes)
    BY <2>2, <2>3, AppendProperties, EmptySeq
  <2> HIDE DEF t, blocks
  <2> QED
    BY <2>4, <2>5 DEF t
<1> HIDE DEF blocks
<1>8. blocks \in [0..(L - 1) -> Seq(Bytes)]
  BY <1>6, <1>7
<1> QED
  BY <1>2, <1>4, <1>5, <1>7, <1>8 DEF RightTable, L, table, blocks
-----------------------------------------------------------------------------
(* The blocks in their order.                                               *)

IsInOrder(s, f, L, X) == /\ s \in Seq(Seq(X)) /\ Len(s) = L /\ InOrder(f) = FlattenSeq(s)
                         /\ \A i \in 0..(L - 1) : s[i + 1] = f[i]

LEMMA InOrderIs ==
  ASSUME NEW X, NEW L \in Nat, NEW f \in [0..(L - 1) -> Seq(X)]
  PROVE  \E s : IsInOrder(s, f, L, X)
<1> DEFINE s == [n \in 1..L |-> f[n - 1]]
<1>1. Cardinality(DOMAIN f) = L
  <2>1. DOMAIN f = 0..(L - 1)
    OBVIOUS
  <2>2. Cardinality(0..(L - 1)) = IF 0 > L - 1 THEN 0 ELSE ((L - 1) - 0) + 1
    BY FS_Interval
  <2> QED
    BY <2>1, <2>2
<1>2. InOrder(f) = FlattenSeq(s)
  BY <1>1 DEF InOrder
<1>3. \A n \in 1..L : n - 1 \in 0..(L - 1) /\ f[n - 1] \in Seq(X)
  OBVIOUS
<1>4. s \in [1..L -> Seq(X)] /\ \A i \in 0..(L - 1) : s[i + 1] = f[i]
  BY <1>3
<1> HIDE DEF s
<1>5. s \in Seq(Seq(X)) /\ Len(s) = L
  BY <1>4, SeqDef
<1>6. IsInOrder(s, f, L, X)
  BY <1>2, <1>4, <1>5 DEF IsInOrder
<1> QED
  BY <1>6

\* A database of plain blocks.
LEMMA PlainBlock ==
  ASSUME NEW X, NEW L \in Nat, NEW f \in [0..(L - 1) -> Seq(X)], NEW db,
         db.Entries = InOrder(f), NEW i \in 0..(L - 1),
         \A j \in 0..(L - 1) : db.BlockLengths[j] = Len(f[j])
  PROVE  StoredBlock(db, i) = f[i]
<1>1. PICK s : IsInOrder(s, f, L, X)
  BY InOrderIs
<1>2. /\ s \in Seq(Seq(X)) /\ Len(s) = L /\ InOrder(f) = FlattenSeq(s)
      /\ \A j \in 0..(L - 1) : s[j + 1] = f[j]
  BY <1>1 DEF IsInOrder
<1>3. i \in 0..(Len(s) - 1) /\ \A j \in 0..i : db.BlockLengths[j] = Len(s[j + 1])
  BY <1>2
<1>4. db.Entries = FlattenSeq(s)
  BY <1>2
<1>5. StoredBlock(db, i) = s[i + 1]
  BY <1>2, <1>3, <1>4, Cut
<1> QED
  BY <1>2, <1>5
-----------------------------------------------------------------------------
(* Proofs as bytes.                                                         *)

IsJoin(u, s, t) == /\ Len(u) = Len(s) + Len(t)
                   /\ \A j \in 1..Len(s) : u[j] = s[j]
                   /\ \A j \in 1..Len(t) : u[Len(s) + j] = t[j]

LEMMA Joined ==
  ASSUME NEW X, NEW s \in Seq(X), NEW t \in Seq(X)
  PROVE  s \o t \in Seq(X) /\ IsJoin(s \o t, s, t)
BY DEF IsJoin

BytesIn(s) == {s[m] : m \in 1..Len(s)}

LEMMA OwnBytes ==
  ASSUME NEW X, NEW s \in Seq(X)
  PROVE  s \in Seq(BytesIn(s))
<1>1. s \in [1..Len(s) -> BytesIn(s)] /\ Len(s) \in Nat
  BY DEF BytesIn
<1> QED
  BY <1>1, SeqDef

LEMMA ContentOf ==
  ASSUME NEW tag, NEW v
  PROVE  Content({<<tag, v>>}) = v
<1>1. (CHOOSE atom \in {<<tag, v>>} : TRUE) = <<tag, v>>
  OBVIOUS
<1> QED
  BY <1>1 DEF Content

\* A proof has its place in a block, and is read from there as it was written.
LEMMA EncodedProof ==
  ASSUME NEW h, NEW n \in Nat, DOMAIN h = 1..n, h = [j \in 1..n |-> h[j]], NEW x
  PROVE  LET p == [Hashes |-> h, Index |-> x]
         IN  /\ EncodeProof(p) \in Seq(BytesIn(EncodeProof(p))) /\ Len(EncodeProof(p)) = n + 2
             /\ DecodeProof(EncodeProof(p)) = p
<1> DEFINE p == [Hashes |-> h, Index |-> x]
           a == {<<"hashes", n>>}
           b == [j \in 1..n |-> {<<"hash", h[j]>>}]
           c == {<<"index", x>>}
           X == {a, c} \cup {{<<"hash", h[j]>>} : j \in 1..n}
           e == EncodeProof(p)
<1>1. h \in Seq({h[j] : j \in 1..n}) /\ Len(h) = n
  <2>1. h \in [1..n -> {h[j] : j \in 1..n}]
    OBVIOUS
  <2> QED
    BY <2>1, SeqDef
<1>2. e = <<a>> \o b \o <<c>>
  BY <1>1 DEF EncodeProof
<1>3. b \in Seq(X) /\ Len(b) = n /\ a \in X /\ c \in X /\ \A j \in 1..n : b[j] = {<<"hash", h[j]>>}
  <2>1. b \in [1..n -> X]
    OBVIOUS
  <2>2. \A j \in 1..n : b[j] = {<<"hash", h[j]>>}
    OBVIOUS
  <2>3. a \in X /\ c \in X
    OBVIOUS
  <2> HIDE DEF b, X, a, c
  <2>4. b \in Seq(X) /\ Len(b) = n
    BY <2>1, SeqDef
  <2> QED
    BY <2>2, <2>3, <2>4
<1> HIDE DEF X, a, b, c, e
<1>4. /\ e \in Seq(X) /\ Len(e) = n + 2 /\ e[1] = a /\ e[n + 2] = c
      /\ \A j \in 1..n : e[1 + j] = b[j]
  <2>1. /\ <<a>> \in Seq(X) /\ <<c>> \in Seq(X) /\ Len(<<a>>) = 1 /\ Len(<<c>>) = 1
        /\ <<a>>[1] = a /\ <<c>>[1] = c
    BY <1>3
  <2> DEFINE s == <<a>>
             t == <<c>>
  <2>2. /\ s \in Seq(X) /\ t \in Seq(X) /\ Len(s) = 1 /\ Len(t) = 1 /\ s[1] = a /\ t[1] = c
        /\ e = (s \o b) \o t
    BY <1>2, <2>1
  <2> HIDE DEF s, t
  <2> DEFINE sb == s \o b
  <2>3. sb \in Seq(X) /\ IsJoin(sb, s, b)
    BY <1>3, <2>2, Joined
  <2>4. e = sb \o t
    BY <2>2
  <2> HIDE DEF sb
  <2>5. e \in Seq(X) /\ IsJoin(e, sb, t)
    BY <2>2, <2>3, <2>4, Joined
  <2>6. Len(sb) = 1 + n /\ Len(e) = n + 2
    BY <1>3, <2>2, <2>3, <2>5 DEF IsJoin
  <2>7. e[1] = a
    BY <2>2, <2>3, <2>5, <2>6 DEF IsJoin
  <2>8. e[n + 2] = c
    <3>1. n + 2 = Len(sb) + 1 /\ 1 \in 1..Len(t)
      BY <2>2, <2>6
    <3> QED
      BY <2>2, <2>5, <3>1 DEF IsJoin
  <2>9. ASSUME NEW j \in 1..n
        PROVE  e[1 + j] = b[j]
    <3>1. 1 + j \in 1..Len(sb) /\ j \in 1..Len(b) /\ Len(s) = 1
      BY <1>3, <2>2, <2>6
    <3>2. sb[1 + j] = b[j]
      BY <2>3, <3>1 DEF IsJoin
    <3> QED
      BY <2>5, <3>1, <3>2 DEF IsJoin
  <2> QED
    BY <2>5, <2>6, <2>7, <2>8, <2>9
<1>5. e \in Seq(BytesIn(e))
  BY <1>4, OwnBytes
<1>6. Content(e[1]) = n
  BY <1>4, ContentOf DEF a
<1>7. Content(e[Len(e)]) = x
  BY <1>4, ContentOf DEF c
<1>8. ASSUME NEW j \in 1..n
      PROVE  Content(e[1 + j]) = h[j]
  <2>1. e[1 + j] = {<<"hash", h[j]>>}
    BY <1>3, <1>4
  <2> QED
    BY <2>1, ContentOf
<1>9. DecodeProof(e) = [Hashes |-> [j \in 1..Content(e[1]) |-> Content(e[1 + j])],
                        Index |-> Content(e[Len(e)])]
  BY DEF DecodeProof
<1>10. [j \in 1..n |-> Content(e[1 + j])] = h
  BY <1>8
<1>11. DecodeProof(e) = p
  BY <1>6, <1>7, <1>9, <1>10
<1> QED
  BY <1>4, <1>5, <1>11 DEF e
-----------------------------------------------------------------------------
(* Blocks with their proofs.                                                *)

TreeOf(blocks) == NewUsing(blocks)
ProofAt(blocks, i) == GenerateProof(TreeOf(blocks), blocks[i])

LEMMA TreeShape ==
  ASSUME NEW N \in Nat, NEW blocks, DOMAIN blocks = 0..(N - 1)
  PROVE  /\ Cardinality(DOMAIN blocks) = N
         /\ DOMAIN TreeOf(blocks).data = {blocks[i] : i \in 0..(N - 1)}
         /\ IsFiniteSet({blocks[i] : i \in 0..(N - 1)})
         /\ proofLen(TreeOf(blocks)) = Levels(Cardinality({blocks[i] : i \in 0..(N - 1)}))
         /\ proofLen(TreeOf(blocks)) \in Nat
<1> DEFINE I == 0..(N - 1)
           S == {blocks[i] : i \in I}
<1>1. IsFiniteSet(I) /\ Cardinality(I) = N
  <2>1. IsFiniteSet(I) /\ Cardinality(I) = IF 0 > N - 1 THEN 0 ELSE ((N - 1) - 0) + 1
    BY FS_Interval
  <2> QED
    BY <2>1
<1>2. Cardinality(DOMAIN blocks) = N
  BY <1>1
<1>3. DOMAIN TreeOf(blocks).data = S
  <2>1. TreeOf(blocks).data = [b \in {blocks[i] : i \in 0..(Cardinality(DOMAIN blocks) - 1)} |->
           Max({i \in 0..(Cardinality(DOMAIN blocks) - 1) : blocks[i] = b})]
    BY DEF TreeOf, NewUsing
  <2> QED
    BY <1>2, <2>1
<1>4. IsFiniteSet(S)
  BY <1>1, ImageSize
<1> HIDE DEF S
<1>5. Cardinality(S) \in Nat
  BY <1>4, FS_CardinalityType
<1>6. proofLen(TreeOf(blocks)) = Levels(Cardinality(S))
  BY <1>3 DEF proofLen
<1> QED
  BY <1>2, <1>3, <1>4, <1>5, <1>6, LevelsFacts DEF S

LEMMA EncodedAt ==
  ASSUME NEW N \in Nat, NEW blocks, DOMAIN blocks = 0..(N - 1), NEW i
  PROVE  /\ EncodeProof(ProofAt(blocks, i)) \in Seq(BytesIn(EncodeProof(ProofAt(blocks, i))))
         /\ Len(EncodeProof(ProofAt(blocks, i))) = EncodedProofLength(TreeOf(blocks))
         /\ DecodeProof(EncodeProof(ProofAt(blocks, i))) = ProofAt(blocks, i)
<1> DEFINE tree == TreeOf(blocks)
           n == proofLen(tree)
           leaf == tree.data[blocks[i]] + 2 ^ Depth(tree)
           h == [c \in 1..n |-> tree.nodes[Sibling(leaf \div (2 ^ (c - 1)))]]
           x == tree.data[blocks[i]]
<1>1. n \in Nat
  BY TreeShape
<1>2. ProofAt(blocks, i) = [Hashes |-> h, Index |-> x]
  BY DEF ProofAt, GenerateProof
<1>3. DOMAIN h = 1..n /\ h = [j \in 1..n |-> h[j]]
  OBVIOUS
<1>4. EncodedProofLength(tree) = n + 2
  BY DEF EncodedProofLength
<1> HIDE DEF h, x, n, tree
<1> DEFINE p == [Hashes |-> h, Index |-> x]
<1>5. /\ EncodeProof(p) \in Seq(BytesIn(EncodeProof(p))) /\ Len(EncodeProof(p)) = n + 2
      /\ DecodeProof(EncodeProof(p)) = p
  BY <1>1, <1>3, EncodedProof
<1> HIDE DEF p
<1> QED
  BY <1>2, <1>4, <1>5 DEF p, tree

\* The entry of block i, and the database of the entries.
Entry(blocks, i) == Append(blocks[i] \o EncodeProof(ProofAt(blocks, i)), KT!Mark)

EntryLengths(blocks, number) ==
  [i \in 0..(number - 1) |-> Len(blocks[i]) + EncodedProofLength(TreeOf(blocks)) + 1]

IsMerkleDB(db, blocks, rows, columns) ==
  /\ db.NumRows = rows /\ db.NumColumns = columns
  /\ db.Entries = InOrder([i \in 0..(rows * columns - 1) |-> Entry(blocks, i)])
  /\ db.BlockLengths = EntryLengths(blocks, rows * columns)
  /\ db.BlockSize = Max({db.BlockLengths[i] : i \in DOMAIN db.BlockLengths} \cup {0})
  /\ db.ProofLen = EncodedProofLength(TreeOf(blocks)) /\ db.Root = Root(TreeOf(blocks))

LEMMA MerkleIs ==
  ASSUME NEW blocks, NEW rows, NEW columns
  PROVE  LET start == MerkleDB(blocks, rows, columns)
             panics == rows * columns > 0 /\ ProofPanics(TreeOf(blocks))
         IN  /\ start.outcome = "up" <=> DOMAIN blocks # {} /\ ~panics
             /\ start.outcome = "noRoom" <=> DOMAIN blocks # {} /\ panics
             /\ start.outcome = "up" => IsMerkleDB(start.db, blocks, rows, columns)
<1> DEFINE tree == NewUsing(blocks)
           number == rows * columns
           lengths == [i \in 0 .. number - 1 |-> Len(blocks[i]) + EncodedProofLength(tree) + 1]
           db == [NumRows |-> rows, NumColumns |-> columns,
                  BlockSize |-> Max({lengths[i] : i \in DOMAIN lengths} \cup {0}),
                  BlockLengths |-> lengths,
                  Entries |-> makeMerkleEntries(blocks, tree, number),
                  ProofLen |-> EncodedProofLength(tree), Root |-> Root(tree)]
           panics == number > 0 /\ ProofPanics(tree)
           start == MerkleDB(blocks, rows, columns)
<1>1. start = IF DOMAIN blocks = {} THEN Reason("noBlocks") ELSE IF panics THEN Reason("noRoom") ELSE Up(db)
  BY DEF MerkleDB
<1>2. IsMerkleDB(db, blocks, rows, columns)
  <2>1. lengths = EntryLengths(blocks, number)
    BY DEF EntryLengths, TreeOf
  <2>2. makeMerkleEntries(blocks, tree, number) = InOrder([i \in 0..(number - 1) |-> Entry(blocks, i)])
    BY DEF makeMerkleEntries, Entry, ProofAt, TreeOf, KT!PadWithSignalByte
  <2> DEFINE entries == makeMerkleEntries(blocks, tree, number)
             size == Max({lengths[i] : i \in DOMAIN lengths} \cup {0})
  <2>3. /\ db.NumRows = rows /\ db.NumColumns = columns /\ db.Entries = entries
        /\ db.BlockLengths = lengths /\ db.BlockSize = size
        /\ db.ProofLen = EncodedProofLength(tree) /\ db.Root = Root(tree)
    <3> DEFINE len == EncodedProofLength(tree)
               root == Root(tree)
    <3>1. db = [NumRows |-> rows, NumColumns |-> columns, BlockSize |-> size,
                BlockLengths |-> lengths, Entries |-> entries, ProofLen |-> len, Root |-> root]
      OBVIOUS
    <3> HIDE DEF lengths, entries, size, tree, len, root, db
    <3>2. /\ db.NumRows = rows /\ db.NumColumns = columns /\ db.Entries = entries
          /\ db.BlockLengths = lengths /\ db.BlockSize = size
          /\ db.ProofLen = len /\ db.Root = root
      BY <3>1
    <3> QED
      BY <3>2 DEF len, root
  <2>4. tree = TreeOf(blocks)
    BY DEF TreeOf
  <2> HIDE DEF db, lengths, entries, tree
  <2> QED
    BY <2>1, <2>2, <2>3, <2>4 DEF IsMerkleDB, entries
<1>3. /\ \A why : Reason(why).outcome = why
      /\ Up(db).outcome = "up" /\ Up(db).db = db
  BY DEF Reason, Up
<1>4. panics <=> rows * columns > 0 /\ ProofPanics(TreeOf(blocks))
  BY DEF TreeOf
<1> HIDE DEF db, panics, start
<1>5. CASE DOMAIN blocks = {}
  BY <1>1, <1>3, <1>5 DEF start
<1>6. CASE DOMAIN blocks # {} /\ panics
  BY <1>1, <1>3, <1>4, <1>6 DEF start
<1>7. CASE DOMAIN blocks # {} /\ ~panics
  BY <1>1, <1>2, <1>3, <1>4, <1>7 DEF start
<1> QED
  BY <1>5, <1>6, <1>7

\* What a server takes for block i is that block and its proof.
IsEntry(db, blocks, i) ==
  /\ Data(db, i) = blocks[i] /\ Proof(db, i) = ProofAt(blocks, i)
  /\ db.BlockLengths[i] <= db.BlockSize

LEMMA MerkleBlock ==
  ASSUME NEW X, NEW N \in Nat, NEW blocks \in [0..(N - 1) -> Seq(X)],
         NEW rows \in Nat, NEW columns \in Nat, rows * columns <= N,
         NEW db, IsMerkleDB(db, blocks, rows, columns),
         NEW i \in 0..(rows * columns - 1)
  PROVE  IsEntry(db, blocks, i)
<1> DEFINE number == rows * columns
           E(j) == EncodeProof(ProofAt(blocks, j))
           Y == X \cup {KT!Mark} \cup UNION {BytesIn(E(j)) : j \in 0..(number - 1)}
           f == [j \in 0..(number - 1) |-> Entry(blocks, j)]
           n == EncodedProofLength(TreeOf(blocks))
           b == blocks[i]
           e == E(i)
<1>0. number \in Nat /\ DOMAIN blocks = 0..(N - 1) /\ \A j \in 0..(number - 1) : j \in 0..(N - 1)
  OBVIOUS
<1>1. n \in Nat /\ n > 0
  <2>1. proofLen(TreeOf(blocks)) \in Nat
    BY <1>0, TreeShape
  <2> QED
    BY <2>1 DEF EncodedProofLength
<1>2. ASSUME NEW j \in 0..(number - 1)
      PROVE  /\ blocks[j] \in Seq(Y) /\ E(j) \in Seq(Y) /\ Len(E(j)) = n
             /\ blocks[j] \o E(j) \in Seq(Y)
             /\ Len(blocks[j] \o E(j)) = Len(blocks[j]) + n
             /\ DecodeProof(E(j)) = ProofAt(blocks, j)
  <2> DEFINE bj == blocks[j]
             ej == E(j)
  <2>1. bj \in Seq(X)
    BY <1>0
  <2>2. ej \in Seq(BytesIn(ej)) /\ Len(ej) = n /\ DecodeProof(ej) = ProofAt(blocks, j)
    BY <1>0, EncodedAt
  <2>3. BytesIn(ej) \subseteq Y /\ X \subseteq Y
    OBVIOUS
  <2> HIDE DEF bj, ej, Y, n
  <2>4. bj \in Seq(Y) /\ ej \in Seq(Y)
    BY <2>1, <2>2, <2>3, SeqMonotonic
  <2>5. bj \o ej \in Seq(Y) /\ Len(bj \o ej) = Len(bj) + Len(ej)
    BY <2>4, ConcatProperties
  <2> QED
    BY <2>2, <2>4, <2>5 DEF bj, ej
<1>3. KT!Mark \in Y
  OBVIOUS
<1> HIDE DEF Y, n
<1>4. ASSUME NEW j \in 0..(number - 1)
      PROVE  f[j] \in Seq(Y) /\ Len(f[j]) = db.BlockLengths[j] /\ db.BlockLengths[j] \in Nat
  <2> DEFINE w == blocks[j] \o E(j)
             m == Len(blocks[j])
  <2>1. w \in Seq(Y) /\ Len(w) = m + n /\ f[j] = Append(w, KT!Mark)
    BY <1>2 DEF Entry
  <2>2. db.BlockLengths[j] = m + n + 1
    BY DEF IsMerkleDB, EntryLengths, n
  <2>3. m \in Nat
    BY <1>2
  <2> HIDE DEF w, m, f, number
  <2>4. Append(w, KT!Mark) \in Seq(Y) /\ Len(Append(w, KT!Mark)) = Len(w) + 1
    BY <1>3, <2>1, AppendProperties
  <2> QED
    BY <1>1, <2>1, <2>2, <2>3, <2>4
<1>5. f \in [0..(number - 1) -> Seq(Y)] /\ f[i] = Append(b \o e, KT!Mark)
  <2>1. f[i] = Append(b \o e, KT!Mark)
    BY DEF Entry
  <2>2. f = [j \in 0..(number - 1) |-> f[j]]
    OBVIOUS
  <2> HIDE DEF f, b, e, number
  <2> QED
    BY <1>4, <2>1, <2>2
<1>6. db.Entries = InOrder(f)
  BY DEF IsMerkleDB
<1>7. StoredBlock(db, i) = f[i]
  <2> HIDE DEF f
  <2>1. \A j \in 0..(number - 1) : db.BlockLengths[j] = Len(f[j])
    BY <1>4
  <2>2. i \in 0..(number - 1)
    OBVIOUS
  <2> HIDE DEF number
  <2> QED
    BY <1>0, <1>5, <1>6, <2>1, <2>2, PlainBlock
<1>8. b \in Seq(Y) /\ e \in Seq(Y) /\ b \o e \in Seq(Y) /\ Len(b \o e) = Len(b) + n /\ Len(e) = n
      /\ DecodeProof(e) = ProofAt(blocks, i) /\ Len(b) \in Nat
  <2>1. i \in 0..(number - 1)
    OBVIOUS
  <2>2. blocks[i] \in Seq(Y) /\ E(i) \in Seq(Y) /\ Len(E(i)) = n /\ blocks[i] \o E(i) \in Seq(Y)
        /\ Len(blocks[i] \o E(i)) = Len(blocks[i]) + n /\ DecodeProof(E(i)) = ProofAt(blocks, i)
    BY <1>2, <2>1
  <2> HIDE DEF E
  <2> QED
    BY <2>2
<1> HIDE DEF f, b, e, E, number
<1>9. Unpadded(db, i) = b \o e
  <2> DEFINE w == b \o e
  <2>1. w \in Seq(Y) /\ StoredBlock(db, i) = Append(w, KT!Mark)
    BY <1>5, <1>7, <1>8
  <2> HIDE DEF w
  <2>2. KT!UnPadBlock(Append(w, KT!Mark)) = w
    BY <2>1, UnPadded
  <2> QED
    BY <2>1, <2>2 DEF Unpadded, w
<1>10. db.ProofLen = n /\ db.ProofLen # 0
  BY <1>1 DEF IsMerkleDB, n
<1>11. SubSeq(b \o e, 1, Len(b)) = b /\ SubSeq(b \o e, Len(b) + 1, Len(b) + n) = e
  <2>1. SubSeq(b \o e, 1, Len(b)) = b
    <3>1. <<>> \in Seq(Y) /\ <<>> \o b = b /\ Len(<<>>) = 0 /\ 0 + 1 = 1 /\ 0 + Len(b) = Len(b)
      BY <1>8
    <3>2. SubSeq((<<>> \o b) \o e, Len(<<>>) + 1, Len(<<>>) + Len(b)) = b
      BY <1>8, <3>1, Middle
    <3> QED
      BY <3>1, <3>2
  <2>2. SubSeq(b \o e, Len(b) + 1, Len(b) + n) = e
    <3>1. <<>> \in Seq(Y) /\ (b \o e) \o <<>> = b \o e
      BY <1>8
    <3>2. SubSeq((b \o e) \o <<>>, Len(b) + 1, Len(b) + Len(e)) = e
      BY <1>8, <3>1, Middle
    <3> QED
      BY <1>8, <3>1, <3>2
  <2> QED
    BY <2>1, <2>2
<1>12. Data(db, i) = b
  <2>1. Data(db, i) = SubSeq(b \o e, 1, Len(b \o e) - n)
    BY <1>9, <1>10 DEF Data
  <2>2. Len(b \o e) - n = Len(b)
    BY <1>1, <1>8
  <2> QED
    BY <1>11, <2>1, <2>2
<1>13. Proof(db, i) = ProofAt(blocks, i)
  <2>1. Proof(db, i) = DecodeProof(SubSeq(b \o e, Len(b \o e) - n + 1, Len(b \o e)))
    BY <1>9, <1>10 DEF Proof
  <2>2. Len(b \o e) - n + 1 = Len(b) + 1 /\ Len(b \o e) = Len(b) + n
    BY <1>1, <1>8
  <2> QED
    BY <1>8, <1>11, <2>1, <2>2
<1>14. db.BlockLengths[i] <= db.BlockSize
  <2> DEFINE S == {db.BlockLengths[j] : j \in 0..(number - 1)} \cup {0}
  <2>1. DOMAIN db.BlockLengths = 0..(number - 1)
    BY DEF IsMerkleDB, EntryLengths, number
  <2>2. db.BlockSize = Max(S)
    BY <2>1 DEF IsMerkleDB
  <2>3. S \subseteq Int /\ S # {}
    BY <1>4
  <2>4. IsFiniteSet(S)
    <3>1. IsFiniteSet(0..(number - 1))
      BY <1>0, FS_Interval
    <3> DEFINE lens == db.BlockLengths
    <3>2. IsFiniteSet({lens[j] : j \in 0..(number - 1)})
      <4> HIDE DEF lens
      <4> QED
        BY <3>1, ImageSize
    <3> QED
      BY <3>2, FS_AddElement
  <2>5. db.BlockLengths[i] \in S
    BY DEF number
  <2> HIDE DEF S
  <2> QED
    BY <2>2, <2>3, <2>4, <2>5, MaxFacts
<1> QED
  BY <1>12, <1>13, <1>14 DEF b, IsEntry
-----------------------------------------------------------------------------
(* The latest keys.                                                         *)

Fits(d, email) == {e \in Latest(d, email) : Len(e.packet) <= keySizeLimit}

LEMMA LatestType ==
  ASSUME NEW d \in DOMAIN Dumps, NEW email
  PROVE  /\ \A e \in Latest(d, email) : e \in AllEntities /\ ~e.revoked /\ PrimaryEmail(e) = email
         /\ \A e, f \in Latest(d, email) : e = f
<1> DEFINE all == DumpEntities(d)
           valid == {n \in DOMAIN all : ~all[n].revoked /\ PrimaryEmail(all[n]) = email}
           last == {n \in valid : \A o \in valid : all[o].created <= all[n].created}
<1>1. all \in Seq(AllEntities)
  BY DumpEntitiesType
<1>2. Latest(d, email) = IF last = {} THEN {} ELSE {all[Min(last)]}
  BY DEF Latest, LatestOf
<1>3. CASE last = {}
  BY <1>2, <1>3
<1>4. CASE last # {}
  <2>1. last \subseteq Nat
    BY <1>1
  <2>2. Min(last) \in last
    <3> HIDE DEF last
    <3> QED
      BY <1>4, <2>1, MinFacts
  <2> DEFINE m == Min(last)
  <2>3. m \in DOMAIN all /\ ~all[m].revoked /\ PrimaryEmail(all[m]) = email
    BY <2>2
  <2>4. Latest(d, email) = {all[m]}
    BY <1>2, <1>4
  <2> HIDE DEF m, all
  <2>5. all[m] \in AllEntities
    BY <1>1, <2>3
  <2> QED
    BY <2>3, <2>4, <2>5
<1> QED
  BY <1>3, <1>4

LEMMA FitsServed ==
  ASSUME NEW d \in DOMAIN Dumps, NEW email \in Emails, NEW e \in Fits(d, email)
  PROVE  [ID |-> email, Packet |-> e.packet] \in Served(d) /\ e \in AllEntities
<1>1. /\ e \in AllEntities /\ ~e.revoked /\ PrimaryEmail(e) = email /\ e \in Latest(d, email)
      /\ Len(e.packet) <= keySizeLimit
  BY LatestType DEF Fits
<1>2. ~TooLong(e.packet)
  <2>1. Len(e.packet) \in Nat /\ keySizeLimit \in Nat
    BY <1>1, EntityType, KeyDBAssumption
  <2> QED
    BY <1>1, <2>1 DEF TooLong
<1>3. PrimaryEmail(e) # NoEmail
  BY <1>1, EmailsType
<1>4. [ID |-> email, Packet |-> e.packet] \in Stored
  BY <1>1, <1>2, <1>3 DEF Stored
<1> QED
  BY <1>1, <1>2, <1>4 DEF Served

LEMMA ServedFits ==
  ASSUME NEW d \in DOMAIN Dumps, NEW r \in Served(d)
  PROVE  r.ID \in Emails /\ \E e \in Fits(d, r.ID) : r.Packet = e.packet
<1>0. PICK email \in Emails :
         \E e \in Latest(d, email) : r = [ID |-> email, Packet |-> e.packet] /\ ~TooLong(e.packet)
  BY DEF Served
<1>1. PICK e \in Latest(d, email) :
         r = [ID |-> email, Packet |-> e.packet] /\ ~TooLong(e.packet)
  BY <1>0
<1>2. e \in AllEntities
  BY LatestType
<1>3. Len(e.packet) <= keySizeLimit
  <2>1. Len(e.packet) \in Nat /\ keySizeLimit \in Nat
    BY <1>2, EntityType, KeyDBAssumption
  <2> QED
    BY <1>1, <2>1 DEF TooLong
<1>4. e \in Fits(d, email)
  BY <1>3 DEF Fits
<1>5. r.ID = email /\ r.Packet = e.packet
  BY <1>1
<1> QED
  BY <1>4, <1>5

\* What a client finds in a block.
Found(data, email) ==
  IF data = <<>> \/ KT!Holders(KT!UnPadBlock(data), email) = {} THEN {}
  ELSE {KT!RecoverKeyFromBlock(KT!UnPadBlock(data), email)}

LEMMA FoundIsLatest ==
  ASSUME NEW d \in DOMAIN Dumps, NEW ks, Enumerates(ks, Served(d)),
         NEW L, L > 0, NEW table, RightTable(ks, L, table), NEW email \in Emails
  PROVE  Found(KT!Blocks(table)[KT!HashToIndex(email, L)], email) = {e.packet : e \in Fits(d, email)}
<1> DEFINE i == KT!HashToIndex(email, L)
           ring == table[i]
           data == KT!Blocks(table)[i]
           H == KT!Holders(ring, email)
           key == KT!RecoverKeyFromBlock(ring, email)
           found == IF H = {} THEN {} ELSE {key}
<1>1. ks \in Seq(Stored) /\ \A m \in 1..Len(ks) : ks[m] \in Served(d)
  <2>1. ks \in Seq(Served(d))
    BY DEF Enumerates
  <2> QED
    BY <2>1, ServedStored, SeqMonotonic
<1>2. i \in 0..(L - 1)
  <2>1. L \in Nat /\ Hash[email] \in Nat
    BY KeyDBAssumption DEF RightTable
  <2> QED
    BY <2>1 DEF KT!HashToIndex
<1>3. /\ IsRing(ring, Bucket(ks, L, Len(ks), i)) /\ ring \in Seq(PacketBytes)
      /\ data = IF ring = <<>> THEN <<>> ELSE Append(ring, KT!Mark)
  <2> HIDE DEF i
  <2> QED
    BY <1>2 DEF RightTable
<1>4. /\ H # {} => \E m \in 1..Len(ks) : ks[m] = [ID |-> email, Packet |-> key]
      /\ \A m \in 1..Len(ks) : ks[m].ID = email => H # {}
  <2> HIDE DEF ring
  <2>1. /\ KT!Holders(ring, email) # {} =>
              \E m \in 1..Len(ks) :
                 ks[m] = [ID |-> email, Packet |-> KT!RecoverKeyFromBlock(ring, email)]
        /\ \A m \in 1..Len(ks) :
              ks[m].ID = email /\ KT!HashToIndex(email, L) = i => KT!Holders(ring, email) # {}
    <3> HIDE DEF i
    <3> QED
      BY <1>1, <1>3, RingLookup
  <2> QED
    BY <2>1
<1>5. Found(data, email) = found
  <2>1. CASE ring = <<>>
    <3>1. H = {}
      <4>1. KT!NumPackets(<<>>) = 0
        <5>1. Len(<<>>) = 0 /\ 0 \div PacketLen = 0
          BY PacketsAssumption
        <5> QED
          BY <5>1 DEF KT!NumPackets
      <4> QED
        BY <2>1, <4>1 DEF KT!Holders
    <3>2. data = <<>>
      BY <1>3, <2>1
    <3> HIDE DEF data, H, key
    <3> QED
      BY <3>1, <3>2 DEF Found
  <2>2. CASE ring # <<>>
    <3>1. data = Append(ring, KT!Mark) /\ data # <<>>
      <4> HIDE DEF data, ring
      <4>1. data = Append(ring, KT!Mark)
        BY <1>3, <2>2
      <4>2. Len(Append(ring, KT!Mark)) = Len(ring) + 1 /\ Len(ring) \in Nat
        BY <1>3
      <4>3. Len(<<>>) = 0
        OBVIOUS
      <4> QED
        BY <4>1, <4>2, <4>3
    <3>2. KT!UnPadBlock(data) = ring
      <4> HIDE DEF data, ring
      <4> QED
        BY <1>3, <3>1, UnPadded
    <3> HIDE DEF data, ring
    <3> QED
      BY <3>1, <3>2 DEF Found
  <2> QED
    BY <2>1, <2>2
<1> HIDE DEF H, key, data, ring, i
<1>6. CASE H = {}
  <2>1. ASSUME NEW e \in Fits(d, email)
        PROVE  FALSE
    <3>1. [ID |-> email, Packet |-> e.packet] \in Served(d)
      BY FitsServed
    <3>2. PICK m \in 1..Len(ks) : ks[m] = [ID |-> email, Packet |-> e.packet]
      BY <3>1 DEF Enumerates
    <3> QED
      BY <1>4, <1>6, <3>2
  <2> QED
    BY <1>5, <1>6, <2>1 DEF data, i
<1>7. CASE H # {}
  <2>1. PICK m \in 1..Len(ks) : ks[m] = [ID |-> email, Packet |-> key]
    BY <1>4, <1>7
  <2>2. PICK e \in Fits(d, email) : key = e.packet
    <3>1. ks[m] \in Served(d) /\ ks[m].ID = email /\ ks[m].Packet = key
      BY <1>1, <2>1
    <3> QED
      BY <3>1, ServedFits
  <2>3. \A f \in Fits(d, email) : f = e
    BY LatestType DEF Fits
  <2>4. {f.packet : f \in Fits(d, email)} = {key}
    BY <2>2, <2>3
  <2> QED
    BY <1>5, <1>7, <2>4 DEF data, i
<1> QED
  BY <1>6, <1>7

LEMMA InfoIsLatest ==
  ASSUME NEW d \in DOMAIN Dumps, NEW ks, Enumerates(ks, Served(d))
  PROVE  LET served == UNION {Fits(d, email) : email \in Emails}
             info == [n \in DOMAIN ks |-> GetKeyInfoFromPacket(ks[n].Packet)]
         IN  /\ Len(info) = Cardinality(served)
             /\ ToSet(info) = {GetKeyInfoFromPacket(e.packet) : e \in served}
<1> DEFINE served == UNION {Fits(d, email) : email \in Emails}
           info == [n \in DOMAIN ks |-> GetKeyInfoFromPacket(ks[n].Packet)]
           N == Len(ks)
           f == [n \in 1..N |-> EntityOf[ks[n].Packet]]
<1>1. /\ N \in Nat /\ DOMAIN ks = 1..N /\ \A n \in 1..N : ks[n] \in Served(d)
      /\ \A r \in Served(d) : \E n \in 1..N : ks[n] = r
      /\ \A m, n \in 1..N : ks[m].ID = ks[n].ID => m = n
  BY DEF Enumerates
<1> HIDE DEF N
<1>2. ASSUME NEW n \in 1..N
      PROVE  /\ ks[n].ID \in Emails /\ f[n] \in Fits(d, ks[n].ID) /\ f[n] \in served
             /\ ks[n].Packet = f[n].packet /\ PrimaryEmail(f[n]) = ks[n].ID
  <2>1. PICK e \in Fits(d, ks[n].ID) : ks[n].Packet = e.packet
    BY <1>1, ServedFits
  <2>2. ks[n].ID \in Emails
    BY <1>1, ServedFits
  <2>3. e \in AllEntities /\ PrimaryEmail(e) = ks[n].ID
    BY LatestType DEF Fits
  <2>4. f[n] = e
    BY <2>1, <2>3, EntityOfPacket
  <2> HIDE DEF f
  <2> QED
    BY <2>1, <2>2, <2>3, <2>4
<1>3. ASSUME NEW e \in served
      PROVE  \E n \in 1..N : f[n] = e /\ ks[n].Packet = e.packet
  <2>1. PICK email \in Emails : e \in Fits(d, email)
    OBVIOUS
  <2>2. [ID |-> email, Packet |-> e.packet] \in Served(d) /\ e \in AllEntities
    BY <2>1, FitsServed
  <2>3. PICK n \in 1..N : ks[n] = [ID |-> email, Packet |-> e.packet]
    BY <1>1, <2>2
  <2>4. ks[n].Packet = e.packet
    BY <2>3
  <2>5. f[n] = e
    BY <2>2, <2>4, EntityOfPacket
  <2> QED
    BY <2>4, <2>5
<1>4. f \in [1..N -> served]
  BY <1>2
<1> HIDE DEF f, served
<1>5. \A m, n \in 1..N : f[m] = f[n] => m = n
  BY <1>1, <1>2
<1>6. IsFiniteSet(1..N) /\ Cardinality(1..N) = N
  BY <1>1, FS_Interval
<1>7. Cardinality(served) = N
  <2>1. \A e \in served : \E n \in 1..N : f[n] = e
    BY <1>3
  <2> QED
    BY <1>4, <1>5, <1>6, <2>1, SameSize
<1>8. /\ DOMAIN info = 1..N /\ \A n \in 1..N : info[n] = GetKeyInfoFromPacket(ks[n].Packet)
      /\ Len(info) = N
  <2>1. info \in [1..N -> {GetKeyInfoFromPacket(ks[n].Packet) : n \in 1..N}]
    BY <1>1
  <2>2. \A n \in 1..N : info[n] = GetKeyInfoFromPacket(ks[n].Packet)
    BY <1>1
  <2> HIDE DEF info
  <2> DEFINE infos == {GetKeyInfoFromPacket(ks[n].Packet) : n \in 1..N}
  <2>3. info \in Seq(infos)
    <3>1. info \in [1..N -> infos]
      BY <2>1
    <3> HIDE DEF infos
    <3> QED
      BY <1>1, <3>1, SeqDef
  <2> QED
    BY <1>1, <2>1, <2>2, <2>3, LenProperties
<1> HIDE DEF info
<1>9. ToSet(info) = {info[n] : n \in 1..N}
  BY <1>8 DEF ToSet
<1>10. {info[n] : n \in 1..N} = {GetKeyInfoFromPacket(e.packet) : e \in served}
  <2>1. ASSUME NEW n \in 1..N
        PROVE  info[n] \in {GetKeyInfoFromPacket(e.packet) : e \in served}
    BY <1>2, <1>8
  <2>2. ASSUME NEW e \in served
        PROVE  GetKeyInfoFromPacket(e.packet) \in {info[n] : n \in 1..N}
    BY <1>3, <1>8
  <2> QED
    BY <2>1, <2>2
<1> QED
  BY <1>7, <1>8, <1>9, <1>10 DEF info, served

\* The databases of the point schemes hold the blocks of the table.
LEMMA PointBlocks ==
  ASSUME NEW s \in {"complexPIR", "complexVPIR", "pointPIR", "pointVPIR"}, ~Complex(s),
         NEW ks \in Seq(Stored), Generate(s, ks).outcome = "up", NEW db, Generate(s, ks).db = db
  PROVE  /\ ~NoBuckets(ks) /\ db.NumRows = Size(ks).rows /\ db.NumColumns = Size(ks).columns
         /\ DOMAIN db.BlockLengths = 0..(Size(ks).rows * Size(ks).columns - 1)
         /\ \A i \in 0..(Size(ks).rows * Size(ks).columns - 1) :
              Data(db, i) = KT!Blocks(HashTable(ks))[i] /\ db.BlockLengths[i] <= db.BlockSize
<1> DEFINE r == Size(ks).rows
           c == Size(ks).columns
           L == Size(ks).rows * Size(ks).columns
           table == HashTable(ks)
           blocks == KT!Blocks(table)
<1>1. s = "pointPIR" \/ s = "pointVPIR"
  BY DEF Complex
<1>2. ASSUME NoBuckets(ks)
      PROVE  FALSE
  <2>1. Generate(s, ks) = Reason("noBuckets")
    BY <1>1, <1>2 DEF Generate, Complex, GenerateRealKeyBytes, GenerateRealKeyMerkle
  <2> QED
    BY <2>1 DEF Reason
<1>3. RightTable(ks, L, table)
  BY <1>2, TableRight
<1>4. L \in Nat /\ blocks \in [0..(L - 1) -> Seq(Bytes)] /\ r \in Nat /\ c \in Nat
  BY <1>3, SizeType DEF RightTable
<1>5. ASSUME s = "pointPIR"
      PROVE  /\ db.NumRows = r /\ db.NumColumns = c /\ DOMAIN db.BlockLengths = 0..(L - 1)
             /\ \A i \in 0..(L - 1) : Data(db, i) = blocks[i] /\ db.BlockLengths[i] <= db.BlockSize
  <2> DEFINE lens == [i \in DOMAIN blocks |-> Len(blocks[i])]
             size == MaxLen(table) + 1
             entries == InOrder(blocks)
             plain == [NumRows |-> r, NumColumns |-> c, BlockSize |-> size, BlockLengths |-> lens,
                       Entries |-> entries, ProofLen |-> 0, Root |-> None]
  <2>1. Generate(s, ks) = Up(plain)
    BY <1>2, <1>5 DEF Generate, Complex, GenerateRealKeyBytes
  <2>2. db = plain
    <3> HIDE DEF plain
    <3> QED
      BY <2>1 DEF Up
  <2> HIDE DEF lens, size, entries, r, c
  <2>3. /\ db.NumRows = r /\ db.NumColumns = c /\ db.ProofLen = 0 /\ db.BlockLengths = lens
        /\ db.Entries = entries /\ db.BlockSize = size
    BY <2>2
  <2>4. DOMAIN lens = 0..(L - 1) /\ \A i \in 0..(L - 1) : lens[i] = Len(blocks[i])
    <3> HIDE DEF blocks, L
    <3> QED
      BY <1>4 DEF lens
  <2>5. ASSUME NEW i \in 0..(L - 1)
        PROVE  Data(db, i) = blocks[i]
    <3> HIDE DEF blocks, L
    <3>1. db.Entries = InOrder(blocks) /\ \A j \in 0..(L - 1) : db.BlockLengths[j] = Len(blocks[j])
      BY <2>3, <2>4 DEF entries
    <3>2. StoredBlock(db, i) = blocks[i]
      BY <1>4, <3>1, PlainBlock
    <3> QED
      BY <2>3, <3>2 DEF Data
  <2>6. ASSUME NEW i \in 0..(L - 1)
        PROVE  lens[i] <= size
    <3> DEFINE S == {Len(table[j]) : j \in DOMAIN table} \cup {0}
               n == Len(table[i])
    <3>1. DOMAIN table = 0..(L - 1) /\ \A j \in 0..(L - 1) : table[j] \in Seq(PacketBytes)
      BY <1>3 DEF RightTable
    <3>2. blocks[i] = IF table[i] = <<>> THEN <<>> ELSE Append(table[i], KT!Mark)
      BY <1>3 DEF RightTable
    <3> HIDE DEF table, L, blocks
    <3>3. S \subseteq Int /\ S # {} /\ n \in S /\ 0 \in S /\ n \in Nat
      BY <3>1
    <3>4. IsFiniteSet(S)
      <4> DEFINE f == [j \in 0..(L - 1) |-> Len(table[j])]
      <4>1. IsFiniteSet(0..(L - 1))
        BY <1>4, FS_Interval
      <4>2. IsFiniteSet({f[j] : j \in 0..(L - 1)})
        <5> HIDE DEF f
        <5> QED
          BY <4>1, ImageSize
      <4>3. {Len(table[j]) : j \in DOMAIN table} = {f[j] : j \in 0..(L - 1)}
        BY <3>1
      <4> QED
        BY <4>2, <4>3, FS_AddElement
    <3>5. MaxLen(table) = Max(S)
      BY DEF MaxLen
    <3> HIDE DEF S, n
    <3>6. Max(S) \in S /\ n <= Max(S) /\ 0 <= Max(S)
      BY <3>3, <3>4, MaxFacts
    <3>7. Max(S) \in Int
      BY <3>3, <3>6
    <3>8. Len(blocks[i]) <= n + 1
      <4>1. CASE table[i] = <<>>
        <5>1. Len(<<>>) = 0
          OBVIOUS
        <5> QED
          BY <3>2, <3>3, <4>1, <5>1
      <4>2. CASE table[i] # <<>>
        <5>1. Len(Append(table[i], KT!Mark)) = Len(table[i]) + 1
          BY <3>1
        <5> QED
          BY <3>2, <3>3, <4>2, <5>1 DEF n
      <4> QED
        BY <4>1, <4>2
    <3>9. Len(blocks[i]) \in Nat
      BY <1>4, LenProperties
    <3> DEFINE m == Len(blocks[i])
               x == Max(S)
    <3>10. lens[i] = m /\ size = x + 1
      BY <2>4, <3>5 DEF size
    <3> HIDE DEF m, x
    <3>11. m <= n + 1 /\ n <= x /\ m \in Nat /\ n \in Nat /\ x \in Int
      BY <3>3, <3>6, <3>7, <3>8, <3>9 DEF m, x
    <3> QED
      BY <3>10, <3>11
  <2> QED
    BY <2>3, <2>4, <2>5, <2>6
<1>6. ASSUME s = "pointVPIR"
      PROVE  /\ db.NumRows = r /\ db.NumColumns = c /\ DOMAIN db.BlockLengths = 0..(L - 1)
             /\ \A i \in 0..(L - 1) : Data(db, i) = blocks[i] /\ db.BlockLengths[i] <= db.BlockSize
  <2>1. Generate(s, ks) = MerkleDB(blocks, r, c)
    BY <1>2, <1>6 DEF Generate, Complex, GenerateRealKeyMerkle
  <2>2. IsMerkleDB(db, blocks, r, c)
    <3> HIDE DEF blocks, r, c
    <3>1. MerkleDB(blocks, r, c).outcome = "up" /\ MerkleDB(blocks, r, c).db = db
      BY <2>1
    <3> QED
      BY <3>1, MerkleIs
  <2>3. L = r * c
    OBVIOUS
  <2> HIDE DEF blocks, L, r, c
  <2>4. L <= L
    BY <1>4
  <2>5. db.NumRows = r /\ db.NumColumns = c /\ DOMAIN db.BlockLengths = 0..(L - 1)
    BY <2>2, <2>3 DEF IsMerkleDB, EntryLengths
  <2>6. ASSUME NEW i \in 0..(L - 1)
        PROVE  Data(db, i) = blocks[i] /\ db.BlockLengths[i] <= db.BlockSize
    <3>1. r * c <= L /\ i \in 0..(r * c - 1)
      BY <2>3, <2>4
    <3>2. blocks \in [0..(L - 1) -> Seq(Bytes)] /\ L \in Nat /\ r \in Nat /\ c \in Nat
      BY <1>4
    <3>3. IsEntry(db, blocks, i)
      BY <2>2, <3>1, <3>2, MerkleBlock
    <3> QED
      BY <3>3 DEF IsEntry
  <2> QED
    BY <2>5, <2>6
<1> QED
  BY <1>1, <1>2, <1>5, <1>6
-----------------------------------------------------------------------------
(* The nodes of a tree.                                                     *)

LEMMA SameBranch ==
  ASSUME NEW a, NEW b, NEW c, NEW e, Branch(a, b) = Branch(c, e)
  PROVE  a = c /\ b = e
BY DEF Branch

LEMMA SameLeaf ==
  ASSUME NEW a, NEW b, NEW c, NEW e, Leaf(a, b) = Leaf(c, e)
  PROVE  a = c /\ b = e
BY DEF Leaf

LEMMA LeafNoBranch ==
  ASSUME NEW a, NEW b, NEW c, NEW e
  PROVE  Leaf(a, b) # Branch(c, e)
BY DEF Leaf, Branch

LEMMA LeafNoZeros ==
  ASSUME NEW a, NEW b
  PROVE  Leaf(a, b) # Zeros
BY DEF Leaf, Zeros

\* Node m of a tree over n blocks with A leaves.
Node(nodes, blocks, n, A, m) ==
  IF m < A THEN Branch(nodes[2 * m], nodes[2 * m + 1])
  ELSE IF m - A < n THEN Leaf(blocks[m - A], m - A)
  ELSE Zeros

IsNodes(nodes, blocks, n, A) ==
  nodes = [m \in 1 .. 2 * A - 1 |-> Node(nodes, blocks, n, A, m)]

LEMMA NodesExist ==
  ASSUME NEW blocks, NEW n, NEW A \in Nat, A > 0
  PROVE  \E nodes : IsNodes(nodes, blocks, n, A)
<1> DEFINE Part(t, k) == \A m \in (2 * A - k)..(2 * A - 1) : t[m] = Node(t, blocks, n, A, m)
           P == {k \in 0..(2 * A - 1) : \E t : Part(t, k)}
<1>1. 0 \in P
  OBVIOUS
<1>2. ASSUME NEW k \in 0..((2 * A - 1) - 1), k \in P
      PROVE  k + 1 \in P
  <2>1. PICK t : Part(t, k)
    BY <1>2
  <2> DEFINE l == 2 * A - (k + 1)
             s == [m \in 1..(2 * A - 1) |-> IF m = l THEN Node(t, blocks, n, A, l) ELSE t[m]]
  <2>2. l \in 1..(2 * A - 1) /\ s[l] = Node(t, blocks, n, A, l)
    OBVIOUS
  <2>3. \A m \in (l + 1)..(2 * A - 1) : s[m] = t[m]
    OBVIOUS
  <2> HIDE DEF s
  <2>4. ASSUME NEW m \in l..(2 * A - 1)
        PROVE  Node(s, blocks, n, A, m) = Node(t, blocks, n, A, m)
    <3>1. CASE m < A
      <4>1. 2 * m \in (l + 1)..(2 * A - 1) /\ 2 * m + 1 \in (l + 1)..(2 * A - 1)
        BY <3>1
      <4> QED
        BY <2>3, <3>1, <4>1 DEF Node
    <3>2. CASE ~(m < A)
      BY <3>2 DEF Node
    <3> QED
      BY <3>1, <3>2
  <2>5. ASSUME NEW m \in l..(2 * A - 1)
        PROVE  s[m] = Node(s, blocks, n, A, m)
    <3>1. CASE m = l
      BY <2>2, <2>4, <3>1
    <3>2. CASE m # l
      <4>1. m \in (l + 1)..(2 * A - 1) /\ m \in (2 * A - k)..(2 * A - 1)
        BY <3>2
      <4> QED
        BY <2>1, <2>3, <2>4, <4>1
    <3> QED
      BY <3>1, <3>2
  <2>6. Part(s, k + 1)
    BY <2>5
  <2> QED
    BY <2>6
<1>3. 0..(2 * A - 1) \subseteq P
  <2>1. 2 * A - 1 \in Nat
    OBVIOUS
  <2> HIDE DEF P
  <2> QED
    BY <1>1, <1>2, <2>1, UpTo
<1>4. PICK t : Part(t, 2 * A - 1)
  BY <1>3
<1> DEFINE nodes == [m \in 1..(2 * A - 1) |-> t[m]]
<1>5. \A m \in 1..(2 * A - 1) : t[m] = Node(t, blocks, n, A, m) /\ nodes[m] = t[m]
  BY <1>4
<1>6. ASSUME NEW m \in 1..(2 * A - 1)
      PROVE  t[m] = Node(nodes, blocks, n, A, m)
  <2> HIDE DEF nodes
  <2>1. CASE m < A
    <3>1. 2 * m \in 1..(2 * A - 1) /\ 2 * m + 1 \in 1..(2 * A - 1)
      BY <2>1
    <3> QED
      BY <1>5, <2>1, <3>1 DEF Node
  <2>2. CASE ~(m < A)
    BY <1>5, <2>2 DEF Node
  <2> QED
    BY <2>1, <2>2
<1>7. IsNodes(nodes, blocks, n, A)
  BY <1>6 DEF IsNodes
<1> QED
  BY <1>7

LEMMA NodeIs ==
  ASSUME NEW nodes, NEW blocks, NEW n, NEW A \in Nat, IsNodes(nodes, blocks, n, A),
         NEW m \in 1..(2 * A - 1)
  PROVE  /\ m < A => nodes[m] = Branch(nodes[2 * m], nodes[2 * m + 1])
         /\ ~(m < A) /\ m - A < n => nodes[m] = Leaf(blocks[m - A], m - A)
         /\ ~(m < A) /\ ~(m - A < n) => nodes[m] = Zeros
<1>1. nodes[m] = Node(nodes, blocks, n, A, m)
  <2> DEFINE G == [j \in 1..(2 * A - 1) |-> Node(nodes, blocks, n, A, j)]
  <2>1. nodes = G
    BY DEF IsNodes
  <2>2. G[m] = Node(nodes, blocks, n, A, m)
    OBVIOUS
  <2> HIDE DEF G
  <2> QED
    BY <2>1, <2>2
<1> QED
  BY <1>1 DEF Node

\* The data of a tree finds the last of several equal blocks.
FindsLast(tree, blocks, N) ==
  \A b \in {blocks[i] : i \in 0..(N - 1)} :
    tree.data[b] = Max({i \in 0..(N - 1) : blocks[i] = b})

LEMMA TreeNodes ==
  ASSUME NEW N \in Nat, NEW blocks, DOMAIN blocks = 0..(N - 1)
  PROVE  /\ IsNodes(TreeOf(blocks).nodes, blocks, N, 2 ^ Levels(N))
         /\ 2 ^ Levels(N) \in Nat /\ 2 ^ Levels(N) > 0 /\ N <= 2 ^ Levels(N)
         /\ Depth(TreeOf(blocks)) = Levels(N)
         /\ FindsLast(TreeOf(blocks), blocks, N)
<1> DEFINE A == 2 ^ Levels(N)
           t == CHOOSE t : IsNodes(t, blocks, N, A)
           nodes == TreeOf(blocks).nodes
<1>1. Levels(N) \in Nat /\ A \in Nat /\ A > 0 /\ N <= A
  <2>1. Levels(N) \in Nat /\ A >= N
    BY LevelsFacts
  <2>2. A > Levels(N) /\ A \in Nat
    BY <2>1, PowerGrows, PowerType
  <2> HIDE DEF A
  <2> QED
    BY <2>1, <2>2
<1>2. Cardinality(DOMAIN blocks) = N
  BY TreeShape
<1>3. nodes = t /\ FindsLast(TreeOf(blocks), blocks, N)
  BY <1>2 DEF TreeOf, NewUsing, IsNodes, Node, FindsLast
<1> HIDE DEF A, nodes
<1>4. IsNodes(nodes, blocks, N, A)
  BY <1>1, <1>3, NodesExist
<1>5. DOMAIN nodes = 1..(2 * A - 1)
  <2> DEFINE G == [j \in 1..(2 * A - 1) |-> Node(nodes, blocks, N, A, j)]
  <2>1. nodes = G
    BY <1>4 DEF IsNodes
  <2>2. DOMAIN G = 1..(2 * A - 1)
    OBVIOUS
  <2> HIDE DEF G
  <2> QED
    BY <2>1, <2>2
<1>6. Depth(TreeOf(blocks)) = Levels(N)
  <2>1. Cardinality(1..(2 * A - 1)) = 2 * A - 1
    <3>1. 2 * A - 1 \in Nat /\ 2 * A - 1 >= 1
      BY <1>1
    <3>2. Cardinality(1..(2 * A - 1)) = IF 1 > 2 * A - 1 THEN 0 ELSE ((2 * A - 1) - 1) + 1
      BY <3>1, FS_Interval
    <3> QED
      BY <3>1, <3>2
  <2>2. Depth(TreeOf(blocks)) = Levels(((2 * A - 1) + 1) \div 2)
    BY <1>5, <2>1 DEF Depth, nodes
  <2>3. ((2 * A - 1) + 1) \div 2 = A
    BY <1>1
  <2>4. Levels(A) = Levels(N)
    BY <1>1, LevelsOfPower DEF A
  <2> QED
    BY <2>2, <2>3, <2>4
<1> QED
  BY <1>1, <1>3, <1>4, <1>6 DEF A, nodes
-----------------------------------------------------------------------------
(* A root is of one sequence of blocks.                                     *)

Agree(a, b, A, B) == \A m \in 1..(2 * A - 1) : m <= 2 * B - 1 => a[m] = b[m]

LEMMA RootsAgree ==
  ASSUME NEW N \in Nat, NEW M \in Nat, NEW A \in Nat, NEW B \in Nat, A > 0, B > 0,
         NEW f, NEW g, NEW a, NEW b, IsNodes(a, f, N, A), IsNodes(b, g, M, B), a[1] = b[1]
  PROVE  Agree(a, b, A, B)
<1> DEFINE bad == {m \in 1..(2 * A - 1) : m <= 2 * B - 1 /\ a[m] # b[m]}
<1> SUFFICES ASSUME bad # {}
             PROVE  FALSE
  BY DEF Agree
<1>1. PICK m \in bad : \A k \in bad : m <= k
  <2>1. bad \subseteq Nat
    OBVIOUS
  <2> HIDE DEF bad
  <2> QED
    BY <2>1, LeastNumber
<1>2. m \in 1..(2 * A - 1) /\ m <= 2 * B - 1 /\ a[m] # b[m] /\ m # 1
  BY <1>1
<1> DEFINE p == m \div 2
<1>3. /\ p \in 1..(2 * A - 1) /\ p \in 1..(2 * B - 1) /\ p < m /\ p < A /\ p < B
      /\ m = 2 * p \/ m = 2 * p + 1
  BY <1>2
<1>4. a[p] = b[p]
  <2>1. p \notin bad
    BY <1>1, <1>3
  <2> QED
    BY <1>3, <2>1
<1> HIDE DEF p
<1>5. a[p] = Branch(a[2 * p], a[2 * p + 1]) /\ b[p] = Branch(b[2 * p], b[2 * p + 1])
  BY <1>3, NodeIs
<1>6. a[2 * p] = b[2 * p] /\ a[2 * p + 1] = b[2 * p + 1]
  <2>1. Branch(a[2 * p], a[2 * p + 1]) = Branch(b[2 * p], b[2 * p + 1])
    BY <1>4, <1>5
  <2> QED
    BY <2>1, SameBranch
<1> QED
  BY <1>2, <1>3, <1>6

LEMMA SameHeight ==
  ASSUME NEW N \in Nat, NEW M \in Nat, NEW A \in Nat, NEW B \in Nat, N > 0, A > 0, B > 0,
         NEW f, NEW g, NEW a, NEW b, IsNodes(a, f, N, A), IsNodes(b, g, M, B),
         Agree(a, b, A, B)
  PROVE  ~(A < B)
<1> SUFFICES ASSUME A < B
             PROVE  FALSE
  OBVIOUS
<1>1. A \in 1..(2 * A - 1) /\ A \in 1..(2 * B - 1) /\ ~(A < A) /\ A - A < N
  OBVIOUS
<1>2. a[A] = b[A]
  BY <1>1 DEF Agree
<1>3. a[A] = Leaf(f[A - A], A - A)
  BY <1>1, NodeIs
<1>4. b[A] = Branch(b[2 * A], b[2 * A + 1])
  BY <1>1, NodeIs
<1>5. Leaf(f[A - A], A - A) = Branch(b[2 * A], b[2 * A + 1])
  BY <1>2, <1>3, <1>4
<1> QED
  BY <1>5, LeafNoBranch

LEMMA SameLeaves ==
  ASSUME NEW N \in Nat, NEW M \in Nat, NEW A \in Nat, A > 0, N <= A,
         NEW f, NEW g, NEW a, NEW b, IsNodes(a, f, N, A), IsNodes(b, g, M, A),
         Agree(a, b, A, A), NEW x \in 0..(N - 1)
  PROVE  x < M /\ f[x] = g[x]
<1>1. A + x \in 1..(2 * A - 1) /\ ~(A + x < A) /\ (A + x) - A = x /\ x < N
  OBVIOUS
<1>2. a[A + x] = b[A + x]
  BY <1>1 DEF Agree
<1>3. a[A + x] = Leaf(f[x], x)
  <2>1. a[A + x] = Leaf(f[(A + x) - A], (A + x) - A)
    BY <1>1, NodeIs
  <2> QED
    BY <1>1, <2>1
<1>4. b[A + x] = IF x < M THEN Leaf(g[x], x) ELSE Zeros
  <2>1. /\ (A + x) - A < M => b[A + x] = Leaf(g[(A + x) - A], (A + x) - A)
        /\ ~((A + x) - A < M) => b[A + x] = Zeros
    BY <1>1, NodeIs
  <2> QED
    BY <1>1, <2>1
<1>5. CASE x < M
  <2>1. Leaf(f[x], x) = Leaf(g[x], x)
    BY <1>2, <1>3, <1>4, <1>5
  <2> QED
    BY <1>5, <2>1, SameLeaf
<1>6. CASE ~(x < M)
  <2>1. Leaf(f[x], x) = Zeros
    BY <1>2, <1>3, <1>4, <1>6
  <2> QED
    BY <2>1, LeafNoZeros
<1> QED
  BY <1>5, <1>6

\* The blocks are numbered from 0 to N - 1.
AreBlocks(f, N) == f = [x \in 0..(N - 1) |-> f[x]]

LEMMA RootDecides ==
  ASSUME NEW N \in Nat, NEW M \in Nat, N > 0, M > 0,
         NEW f, AreBlocks(f, N), NEW g, AreBlocks(g, M),
         Root(TreeOf(f)) = Root(TreeOf(g))
  PROVE  f = g
<1> DEFINE A == 2 ^ Levels(N)
           B == 2 ^ Levels(M)
           a == TreeOf(f).nodes
           b == TreeOf(g).nodes
<1>1. DOMAIN f = 0..(N - 1) /\ DOMAIN g = 0..(M - 1)
  BY DEF AreBlocks
<1>2. IsNodes(a, f, N, A) /\ A \in Nat /\ A > 0 /\ N <= A
  BY <1>1, TreeNodes
<1>3. IsNodes(b, g, M, B) /\ B \in Nat /\ B > 0 /\ M <= B
  BY <1>1, TreeNodes
<1>4. a[1] = b[1]
  BY DEF Root
<1> HIDE DEF A, B, a, b
<1>5. Agree(a, b, A, B) /\ Agree(b, a, B, A)
  BY <1>2, <1>3, <1>4, RootsAgree
<1>6. ~(A < B)
  BY <1>2, <1>3, <1>5, SameHeight
<1>7. ~(B < A)
  BY <1>2, <1>3, <1>5, SameHeight
<1>8. A = B
  BY <1>2, <1>3, <1>6, <1>7
<1>9. \A x \in 0..(N - 1) : x < M /\ f[x] = g[x]
  BY <1>2, <1>3, <1>5, <1>8, SameLeaves
<1>10. \A x \in 0..(M - 1) : x < N /\ g[x] = f[x]
  BY <1>2, <1>3, <1>5, <1>8, SameLeaves
<1>11. N = M
  <2>1. N - 1 \in 0..(N - 1) /\ M - 1 \in 0..(M - 1)
    OBVIOUS
  <2>2. N - 1 < M /\ M - 1 < N
    BY <1>9, <1>10, <2>1
  <2> QED
    BY <2>2
<1> QED
  BY <1>9, <1>11 DEF AreBlocks
-----------------------------------------------------------------------------
(* The path from a leaf to the root.                                        *)

Above(leaf, c) == leaf \div (2 ^ c)

LEMMA Halved ==
  ASSUME NEW n \in Nat, NEW P \in Nat, P > 0
  PROVE  n \div (P + P) = (n \div P) \div 2
<1> DEFINE q == n \div P
           r == n % P
           h == q \div 2
           s == q % 2
<1>1. q \in Nat /\ r \in 0..(P - 1) /\ n = P * q + r
  OBVIOUS
<1> HIDE DEF q, r
<1>2. h \in Nat /\ s \in 0..1 /\ q = 2 * h + s
  BY <1>1
<1> HIDE DEF h, s
<1>3. s * P + r \in 0..((P + P) - 1)
  <2>1. s * P = IF s = 0 THEN 0 ELSE P
    BY <1>2
  <2> QED
    BY <1>1, <2>1
<1>4. n = h * (P + P) + (s * P + r)
  <2>1. P * (2 * h + s) = h * (P + P) + s * P
    BY <1>2
  <2> QED
    BY <1>1, <1>2, <2>1
<1>5. P + P \in Nat /\ P + P > 0
  OBVIOUS
<1> DEFINE rest == s * P + r
           B == P + P
<1>6. rest \in 0..(B - 1) /\ n = h * B + rest /\ B \in Nat /\ B > 0
  BY <1>3, <1>4, <1>5
<1> HIDE DEF rest, B
<1>7. n \div B = h
  BY <1>2, <1>6, QuotientOfSum
<1> QED
  BY <1>7 DEF B, h, q

LEMMA PathUp ==
  ASSUME NEW d \in Nat, NEW leaf \in (2 ^ d)..(2 * 2 ^ d - 1)
  PROVE  /\ Above(leaf, 0) = leaf /\ Above(leaf, d) = 1
         /\ \A c \in 0..(d - 1) : Above(leaf, c + 1) = Above(leaf, c) \div 2
         /\ \A c \in 0..d : /\ 2 ^ (d - c) \in Nat /\ 2 ^ (d - c) > 0 /\ 2 ^ (d - c) <= 2 ^ d
                            /\ c < d => 2 ^ (d - c) = 2 * 2 ^ (d - (c + 1))
                            /\ Above(leaf, c) \in (2 ^ (d - c))..(2 * 2 ^ (d - c) - 1)
<1> DEFINE W(c) == 2 ^ (d - c)
           p(c) == Above(leaf, c)
           In(c) == p(c) \in W(c)..(2 * W(c) - 1)
           P == {c \in 0..d : In(c)}
<1>1. 2 ^ 0 = 1
  OBVIOUS
<1>2. ASSUME NEW c \in 0..d
      PROVE  W(c) \in Nat /\ W(c) > 0 /\ W(c) <= W(0)
  <2>1. d - c \in Nat /\ d - 0 = d
    OBVIOUS
  <2>2. W(c) \in Nat /\ W(c) > d - c
    BY <2>1, PowerType, PowerGrows
  <2>3. W(c) <= W(0)
    <3>1. CASE c = 0
      BY <2>2, <3>1
    <3>2. CASE c # 0
      <4>1. d - c < d
        BY <3>2
      <4>2. 2 ^ (d - c) < 2 ^ d
        BY <2>1, <4>1, PowerOrder
      <4>3. W(0) \in Nat
        BY <2>1, PowerType
      <4> DEFINE u == 2 ^ (d - c)
                 v == 2 ^ d
      <4>4. u < v /\ W(c) = u /\ W(0) = v
        BY <2>1, <4>2
      <4> HIDE DEF u, v, W
      <4> QED
        BY <2>2, <4>3, <4>4
    <3> QED
      BY <3>1, <3>2
  <2> HIDE DEF W
  <2> QED
    BY <2>1, <2>2, <2>3
<1>3. ASSUME NEW c \in 0..(d - 1)
      PROVE  W(c) = 2 * W(c + 1)
  <2>1. d - (c + 1) \in Nat /\ (d - (c + 1)) + 1 = d - c
    OBVIOUS
  <2>2. 2 ^ ((d - (c + 1)) + 1) = 2 ^ (d - (c + 1)) + 2 ^ (d - (c + 1))
    BY <2>1, PowerDoubles
  <2>3. W(c) = W(c + 1) + W(c + 1)
    BY <2>1, <2>2
  <2>4. W(c + 1) \in Nat
    BY <1>2
  <2> HIDE DEF W
  <2> QED
    BY <2>3, <2>4
<1>4. W(0) = 2 ^ d /\ W(d) = 1 /\ leaf \in Nat
  <2>1. d - 0 = d /\ d - d = 0
    OBVIOUS
  <2>2. 2 ^ d \in Nat
    BY PowerType
  <2> QED
    BY <1>1, <2>1, <2>2
<1>5. p(0) = leaf
  <2>1. p(0) = leaf \div 1
    BY <1>1 DEF Above
  <2> QED
    BY <1>4, <2>1
<1>6. ASSUME NEW c \in 0..(d - 1)
      PROVE  p(c + 1) = p(c) \div 2
  <2> DEFINE Q == 2 ^ c
  <2>1. Q \in Nat /\ Q > c /\ 2 ^ (c + 1) = Q + Q
    BY PowerType, PowerGrows, PowerDoubles
  <2>2. p(c + 1) = leaf \div (Q + Q) /\ p(c) = leaf \div Q
    BY <2>1 DEF Above
  <2> HIDE DEF Q
  <2> QED
    BY <1>4, <2>1, <2>2, Halved
<1>7. 0 \in P
  BY <1>4, <1>5
<1> HIDE DEF W, p
<1>8. ASSUME NEW c \in 0..(d - 1), c \in P
      PROVE  c + 1 \in P
  <2>1. p(c) \in W(c)..(2 * W(c) - 1) /\ W(c) = 2 * W(c + 1) /\ W(c + 1) \in Nat /\ W(c) \in Nat
    BY <1>2, <1>3, <1>8
  <2>2. p(c) \div 2 \in W(c + 1)..(2 * W(c + 1) - 1)
    BY <2>1
  <2> QED
    BY <1>6, <2>2
<1>9. 0..d \subseteq P
  <2> HIDE DEF P
  <2> QED
    BY <1>7, <1>8, UpTo
<1>10. p(d) = 1
  BY <1>4, <1>9
<1>11. \A c \in 0..d : /\ W(c) \in Nat /\ W(c) > 0 /\ W(c) <= W(0)
                       /\ c < d => W(c) = 2 * W(c + 1)
                       /\ p(c) \in W(c)..(2 * W(c) - 1)
  BY <1>2, <1>3, <1>9
<1> QED
  BY <1>4, <1>5, <1>6, <1>10, <1>11 DEF W, p
-----------------------------------------------------------------------------
(* A proof hashes to the root of the tree with the block in its place.      *)

\* Off the path, the nodes of a tree are those of another.
Off(a, b, leaf, d, c) ==
  \A m \in (2 ^ (d - c))..(2 * 2 ^ (d - c) - 1) : m # Above(leaf, c) => b[m] = a[m]

LEMMA OffPath ==
  ASSUME NEW N \in Nat, NEW d \in Nat, N <= 2 ^ d, NEW f, NEW g, NEW x \in 0..(N - 1),
         \A y \in 0..(N - 1) : y # x => g[y] = f[y],
         NEW a, NEW b, IsNodes(a, f, N, 2 ^ d), IsNodes(b, g, N, 2 ^ d)
  PROVE  \A c \in 0..d : Off(a, b, x + 2 ^ d, d, c)
<1> DEFINE A == 2 ^ d
           leaf == x + A
           W(c) == 2 ^ (d - c)
           p(c) == Above(leaf, c)
           Same(c) == \A m \in W(c)..(2 * W(c) - 1) : m # p(c) => b[m] = a[m]
           P == {c \in 0..d : Same(c)}
<1>1. A \in Nat
  BY PowerType
<1>2. leaf \in A..(2 * A - 1) /\ leaf - A = x
  <2>1. N <= A
    OBVIOUS
  <2> HIDE DEF A
  <2> QED
    BY <1>1, <2>1
<1>3. /\ p(0) = leaf
      /\ \A c \in 0..(d - 1) : p(c + 1) = p(c) \div 2
      /\ \A c \in 0..d : /\ W(c) \in Nat /\ W(c) > 0 /\ W(c) <= A
                         /\ c < d => W(c) = 2 * W(c + 1)
                         /\ p(c) \in W(c)..(2 * W(c) - 1)
  <2>1. leaf \in (2 ^ d)..(2 * 2 ^ d - 1)
    BY <1>2
  <2> HIDE DEF leaf
  <2> QED
    BY <2>1, PathUp
<1>4. W(0) = A
  <2>1. d - 0 = d
    OBVIOUS
  <2> QED
    BY <2>1
<1>5. IsNodes(a, f, N, A) /\ IsNodes(b, g, N, A) /\ N <= A
  OBVIOUS
<1> HIDE DEF A, W, p, leaf
<1>6. 0 \in P
  <2>1. ASSUME NEW m \in A..(2 * A - 1), m # leaf
        PROVE  b[m] = a[m]
    <3>1. m \in 1..(2 * A - 1) /\ ~(m < A) /\ m - A \in Nat /\ m - A # x
      <4>1. A > 0
        BY <1>1, <1>5
      <4> QED
        BY <1>1, <1>2, <2>1, <4>1
    <3>2. CASE m - A < N
      <4>1. m - A \in 0..(N - 1)
        BY <3>1, <3>2
      <4>2. g[m - A] = f[m - A]
        BY <3>1, <4>1
      <4>3. a[m] = Leaf(f[m - A], m - A)
        BY <1>1, <1>5, <3>1, <3>2, NodeIs
      <4>4. b[m] = Leaf(g[m - A], m - A)
        BY <1>1, <1>5, <3>1, <3>2, NodeIs
      <4> QED
        BY <4>2, <4>3, <4>4
    <3>3. CASE ~(m - A < N)
      <4>1. a[m] = Zeros
        BY <1>1, <1>5, <3>1, <3>3, NodeIs
      <4>2. b[m] = Zeros
        BY <1>1, <1>5, <3>1, <3>3, NodeIs
      <4> QED
        BY <4>1, <4>2
    <3> QED
      BY <3>2, <3>3
  <2> QED
    BY <1>3, <1>4, <2>1
<1>7. ASSUME NEW c \in 0..(d - 1), c \in P
      PROVE  c + 1 \in P
  <2>1. /\ W(c) \in Nat /\ W(c) <= A /\ W(c) = 2 * W(c + 1) /\ W(c + 1) \in Nat /\ W(c + 1) > 0
        /\ p(c) \in Nat /\ p(c + 1) = p(c) \div 2 /\ c + 1 \in 0..d
    BY <1>3
  <2>2. ASSUME NEW m \in W(c + 1)..(2 * W(c + 1) - 1), m # p(c + 1)
        PROVE  b[m] = a[m]
    <3>1. m \in 1..(2 * A - 1) /\ m < A
      BY <1>1, <2>1
    <3>2. /\ 2 * m \in W(c)..(2 * W(c) - 1) /\ 2 * m + 1 \in W(c)..(2 * W(c) - 1)
      BY <2>1
    <3>3. 2 * m # p(c) /\ 2 * m + 1 # p(c)
      BY <2>1, <2>2
    <3>4. b[2 * m] = a[2 * m] /\ b[2 * m + 1] = a[2 * m + 1]
      BY <1>7, <3>2, <3>3
    <3>5. a[m] = Branch(a[2 * m], a[2 * m + 1])
      BY <1>1, <1>5, <3>1, NodeIs
    <3>6. b[m] = Branch(b[2 * m], b[2 * m + 1])
      BY <1>1, <1>5, <3>1, NodeIs
    <3> QED
      BY <3>4, <3>5, <3>6
  <2> QED
    BY <2>1, <2>2
<1>8. 0..d \subseteq P
  <2> HIDE DEF P
  <2> QED
    BY <1>6, <1>7, UpTo
<1> QED
  BY <1>8 DEF Off, W, p, leaf, A

\* The hashes on the way to the root.
IsHashes(t, data, h, x, d) ==
  t = [c \in 0..d |->
         IF c = 0 THEN Leaf(data, x)
         ELSE IF ((x + 2 ^ d) \div (2 ^ (c - 1))) % 2 = 0 THEN Branch(t[c - 1], h[c])
         ELSE Branch(h[c], t[c - 1])]

LEMMA HashIs ==
  ASSUME NEW d \in Nat, NEW h, Len(h) = d, NEW x, NEW data, NEW F, IsHashes(F, data, h, x, d)
  PROVE  generateProofHash(data, [Hashes |-> h, Index |-> x]) = F[d]
<1> DEFINE t == CHOOSE t : IsHashes(t, data, h, x, d)
           G(s) == [c \in 0..d |->
                      IF c = 0 THEN Leaf(data, x)
                      ELSE IF ((x + 2 ^ d) \div (2 ^ (c - 1))) % 2 = 0 THEN Branch(s[c - 1], h[c])
                      ELSE Branch(h[c], s[c - 1])]
           P == {c \in 0..d : t[c] = F[c]}
<1>1. generateProofHash(data, [Hashes |-> h, Index |-> x]) = t[d]
  BY DEF generateProofHash, IsHashes
<1>2. IsHashes(t, data, h, x, d)
  OBVIOUS
<1>3. t = G(t) /\ F = G(F)
  BY <1>2 DEF IsHashes
<1> HIDE DEF t
<1>4. \A s : /\ G(s)[0] = Leaf(data, x)
             /\ \A c \in 1..d : G(s)[c] = IF ((x + 2 ^ d) \div (2 ^ (c - 1))) % 2 = 0
                                          THEN Branch(s[c - 1], h[c]) ELSE Branch(h[c], s[c - 1])
  OBVIOUS
<1> HIDE DEF G
<1>5. 0 \in P
  BY <1>3, <1>4
<1>6. ASSUME NEW c \in 0..(d - 1), c \in P
      PROVE  c + 1 \in P
  <2>1. c + 1 \in 1..d /\ (c + 1) - 1 = c /\ t[c] = F[c]
    BY <1>6
  <2>2. t[c + 1] = F[c + 1]
    BY <1>3, <1>4, <2>1
  <2> QED
    BY <2>1, <2>2
<1>7. 0..d \subseteq P
  <2> HIDE DEF P
  <2> QED
    BY <1>5, <1>6, UpTo
<1> QED
  BY <1>1, <1>7

\* The place at which the tree finds block i.
LastPlace(blocks, N, i) == Max({j \in 0..(N - 1) : blocks[j] = blocks[i]})

LEMMA LastPlaceType ==
  ASSUME NEW N \in Nat, NEW blocks, NEW i \in 0..(N - 1)
  PROVE  LastPlace(blocks, N, i) \in 0..(N - 1)
<1> DEFINE S == {j \in 0..(N - 1) : blocks[j] = blocks[i]}
<1>1. IsFiniteSet(S) /\ S \subseteq Int /\ S # {}
  <2>1. IsFiniteSet(0..(N - 1)) /\ S \subseteq 0..(N - 1) /\ i \in S
    BY FS_Interval
  <2> QED
    BY <2>1, FS_Subset
<1>2. S \subseteq 0..(N - 1)
  OBVIOUS
<1> HIDE DEF S
<1>3. Max(S) \in S
  BY <1>1, MaxFacts
<1> QED
  BY <1>2, <1>3 DEF S, LastPlace

LEMMA PathHashes ==
  ASSUME NEW N \in Nat, NEW d \in Nat, N <= 2 ^ d, NEW f, NEW g, NEW x \in 0..(N - 1), NEW data,
         \A y \in 0..(N - 1) : y # x => g[y] = f[y], g[x] = data,
         NEW a, NEW b, IsNodes(a, f, N, 2 ^ d), IsNodes(b, g, N, 2 ^ d)
  PROVE  LET h == [c \in 1..d |-> a[Sibling((x + 2 ^ d) \div (2 ^ (c - 1)))]]
         IN  IsHashes([c \in 0..d |-> b[Above(x + 2 ^ d, c)]], data, h, x, d)
<1> DEFINE A == 2 ^ d
           leaf == x + A
           W(c) == 2 ^ (d - c)
           p(c) == Above(leaf, c)
           h == [c \in 1..d |-> a[Sibling((x + 2 ^ d) \div (2 ^ (c - 1)))]]
           F == [c \in 0..d |-> b[p(c)]]
<1>1. A \in Nat
  BY PowerType
<1>2. leaf \in A..(2 * A - 1) /\ leaf - A = x
  <2>1. N <= A
    OBVIOUS
  <2> HIDE DEF A
  <2> QED
    BY <1>1, <2>1
<1>3. /\ p(0) = leaf
      /\ \A c \in 0..(d - 1) : p(c + 1) = p(c) \div 2
      /\ \A c \in 0..d : /\ W(c) \in Nat /\ W(c) > 0 /\ W(c) <= A
                         /\ c < d => W(c) = 2 * W(c + 1)
                         /\ p(c) \in W(c)..(2 * W(c) - 1)
  <2>1. leaf \in (2 ^ d)..(2 * 2 ^ d - 1)
    BY <1>2
  <2> HIDE DEF leaf
  <2> QED
    BY <2>1, PathUp
<1>4. \A c \in 0..d : \A m \in W(c)..(2 * W(c) - 1) : m # p(c) => b[m] = a[m]
  <2>1. \A c \in 0..d : Off(a, b, x + 2 ^ d, d, c)
    BY OffPath
  <2> QED
    BY <2>1 DEF Off
<1>5. IsNodes(a, f, N, A) /\ IsNodes(b, g, N, A) /\ N <= A
  OBVIOUS
<1>6. \A c \in 1..d : h[c] = a[Sibling(p(c - 1))] /\ (x + 2 ^ d) \div (2 ^ (c - 1)) = p(c - 1)
  BY DEF Above
<1>7. \A c \in 0..d : F[c] = b[p(c)]
  OBVIOUS
<1> HIDE DEF A, W, p, leaf, h
<1>8. F[0] = Leaf(data, x)
  <2>1. leaf \in 1..(2 * A - 1) /\ ~(leaf < A) /\ leaf - A < N
    <3>1. A > 0
      BY <1>1, <1>5
    <3> QED
      BY <1>1, <1>2, <3>1
  <2>2. b[leaf] = Leaf(g[leaf - A], leaf - A)
    BY <1>1, <1>5, <2>1, NodeIs
  <2> QED
    BY <1>2, <1>3, <1>7, <2>2
<1>9. ASSUME NEW c \in 1..d
      PROVE  F[c] = IF ((x + 2 ^ d) \div (2 ^ (c - 1))) % 2 = 0
                    THEN Branch(F[c - 1], h[c]) ELSE Branch(h[c], F[c - 1])
  <2> DEFINE n == p(c - 1)
             q == p(c)
             w == W(c)
             v == W(c - 1)
  <2>1. /\ c - 1 \in 0..(d - 1) /\ c - 1 \in 0..d /\ (c - 1) + 1 = c /\ c - 1 < d
    OBVIOUS
  <2>2. /\ w \in Nat /\ v \in Nat /\ w > 0 /\ v = 2 * w /\ v <= A /\ q = n \div 2
        /\ n \in v..(2 * v - 1) /\ q \in w..(2 * w - 1)
    BY <1>3, <2>1
  <2>3. F[c] = b[q] /\ F[c - 1] = b[n] /\ h[c] = a[Sibling(n)] /\ (x + 2 ^ d) \div (2 ^ (c - 1)) = n
    <3>1. h[c] = a[Sibling(n)] /\ (x + 2 ^ d) \div (2 ^ (c - 1)) = n
      BY <1>6
    <3> HIDE DEF F
    <3>2. F[c] = b[q] /\ F[c - 1] = b[n]
      BY <1>7, <2>1
    <3> QED
      BY <3>1, <3>2
  <2>4. \A m \in v..(2 * v - 1) : m # n => b[m] = a[m]
    BY <1>4, <2>1
  <2> HIDE DEF n, q, w, v, F
  <2>5. b[q] = Branch(b[2 * q], b[2 * q + 1])
    <3>1. q \in 1..(2 * A - 1) /\ q < A
      BY <1>1, <2>2
    <3> QED
      BY <1>1, <1>5, <3>1, NodeIs
  <2>6. CASE n % 2 = 0
    <3>1. n = 2 * q /\ Sibling(n) = 2 * q + 1
      BY <2>2, <2>6 DEF Sibling
    <3>2. 2 * q + 1 \in v..(2 * v - 1) /\ 2 * q + 1 # n
      BY <2>2, <3>1
    <3>3. h[c] = b[2 * q + 1]
      BY <2>3, <2>4, <3>1, <3>2
    <3> QED
      BY <2>3, <2>5, <2>6, <3>1, <3>3
  <2>7. CASE n % 2 # 0
    <3>1. n = 2 * q + 1 /\ Sibling(n) = 2 * q
      BY <2>2, <2>7 DEF Sibling
    <3>2. 2 * q \in v..(2 * v - 1) /\ 2 * q # n
      BY <2>2, <3>1
    <3>3. h[c] = b[2 * q]
      BY <2>3, <2>4, <3>1, <3>2
    <3> QED
      BY <2>3, <2>5, <2>7, <3>1, <3>3
  <2> QED
    BY <2>6, <2>7
<1> DEFINE G == [c \in 0..d |->
                   IF c = 0 THEN Leaf(data, x)
                   ELSE IF ((x + 2 ^ d) \div (2 ^ (c - 1))) % 2 = 0 THEN Branch(F[c - 1], h[c])
                   ELSE Branch(h[c], F[c - 1])]
<1>10. ASSUME NEW c \in 0..d
       PROVE  F[c] = G[c]
  <2> HIDE DEF F
  <2>1. CASE c = 0
    BY <1>8, <2>1
  <2>2. CASE c # 0
    <3>1. c \in 1..d
      BY <2>2
    <3> QED
      BY <1>9, <2>2, <3>1
  <2> QED
    BY <2>1, <2>2
<1>11. F = [c \in 0..d |-> F[c]] /\ G = [c \in 0..d |-> G[c]]
  OBVIOUS
<1>12. F = G
  <2> HIDE DEF F, G
  <2> QED
    BY <1>10, <1>11
<1>13. IsHashes(F, data, h, x, d)
  <2> HIDE DEF F
  <2> QED
    BY <1>12 DEF IsHashes
<1> QED
  BY <1>13 DEF F, p, h, leaf, A
-----------------------------------------------------------------------------
(* Verification.                                                            *)

With(blocks, x, data) == [blocks EXCEPT ![x] = data]

LEMMA ProofAtIs ==
  ASSUME NEW N \in Nat, NEW blocks, DOMAIN blocks = 0..(N - 1), NEW i \in 0..(N - 1),
         proofLen(TreeOf(blocks)) = Levels(N)
  PROVE  LET d == Levels(N)
             x == LastPlace(blocks, N, i)
         IN  ProofAt(blocks, i) =
               [Hashes |-> [c \in 1..d |-> TreeOf(blocks).nodes[Sibling((x + 2 ^ d) \div (2 ^ (c - 1)))]],
                Index |-> x]
<1>1. Depth(TreeOf(blocks)) = Levels(N)
  BY TreeNodes
<1>2. TreeOf(blocks).data[blocks[i]] = LastPlace(blocks, N, i)
  <2> DEFINE b == blocks[i]
  <2>1. b \in {blocks[j] : j \in 0..(N - 1)}
    OBVIOUS
  <2>2. LastPlace(blocks, N, i) = Max({j \in 0..(N - 1) : blocks[j] = b})
    BY DEF LastPlace
  <2> HIDE DEF b
  <2>3. FindsLast(TreeOf(blocks), blocks, N)
    BY TreeNodes
  <2>4. TreeOf(blocks).data[b] = Max({j \in 0..(N - 1) : blocks[j] = b})
    BY <2>1, <2>3 DEF FindsLast
  <2> QED
    BY <2>2, <2>4 DEF b
<1> QED
  BY <1>1, <1>2 DEF ProofAt, GenerateProof

LEMMA ProofHash ==
  ASSUME NEW N \in Nat, NEW blocks, DOMAIN blocks = 0..(N - 1), NEW i \in 0..(N - 1),
         proofLen(TreeOf(blocks)) = Levels(N), NEW data
  PROVE  generateProofHash(data, ProofAt(blocks, i))
           = Root(TreeOf(With(blocks, LastPlace(blocks, N, i), data)))
<1> DEFINE d == Levels(N)
           x == LastPlace(blocks, N, i)
           g == With(blocks, LastPlace(blocks, N, i), data)
           a == TreeOf(blocks).nodes
           b == TreeOf(g).nodes
           h == [c \in 1..d |-> a[Sibling((x + 2 ^ d) \div (2 ^ (c - 1)))]]
           F == [c \in 0..d |-> b[Above(x + 2 ^ d, c)]]
<1>1. x \in 0..(N - 1)
  BY LastPlaceType
<1>2. DOMAIN g = 0..(N - 1) /\ g[x] = data /\ \A y \in 0..(N - 1) : y # x => g[y] = blocks[y]
  <2> HIDE DEF d
  <2> QED
    BY <1>1 DEF With
<1>3. ProofAt(blocks, i) = [Hashes |-> h, Index |-> x]
  BY ProofAtIs
<1>4. IsNodes(a, blocks, N, 2 ^ d) /\ N <= 2 ^ d /\ 2 ^ d \in Nat
  BY TreeNodes
<1> HIDE DEF g
<1>5. IsNodes(b, g, N, 2 ^ d)
  BY <1>2, TreeNodes
<1>6. d \in Nat
  BY LevelsFacts
<1>7. Len(h) = d
  <2>1. h \in [1..d -> {h[c] : c \in 1..d}]
    OBVIOUS
  <2> HIDE DEF h, d
  <2> QED
    BY <1>6, <2>1, SeqDef
<1> HIDE DEF d, x, a, b
<1>8. IsHashes(F, data, h, x, d)
  BY <1>1, <1>2, <1>4, <1>5, <1>6, PathHashes
<1>9. F[d] = b[1]
  <2>1. x + 2 ^ d \in (2 ^ d)..(2 * 2 ^ d - 1)
    <3> DEFINE A == 2 ^ d
    <3>1. A \in Nat /\ N <= A
      BY <1>4
    <3> HIDE DEF A
    <3>2. x + A \in A..(2 * A - 1)
      BY <1>1, <3>1
    <3> QED
      BY <3>2 DEF A
  <2>2. Above(x + 2 ^ d, d) = 1
    BY <1>6, <2>1, PathUp
  <2> QED
    BY <1>6, <2>2
<1> HIDE DEF h, F
<1>10. generateProofHash(data, [Hashes |-> h, Index |-> x]) = F[d]
  BY <1>6, <1>7, <1>8, HashIs
<1> QED
  BY <1>3, <1>9, <1>10 DEF Root, b, g, x

\* A proof verifies a block if that makes the blocks those of the root.
LEMMA Verified ==
  ASSUME NEW N \in Nat, NEW blocks, AreBlocks(blocks, N),
         NEW i \in 0..(N - 1), proofLen(TreeOf(blocks)) = Levels(N),
         NEW M \in Nat, M > 0, NEW other, AreBlocks(other, M), NEW data
  PROVE  VerifyProof(data, ProofAt(blocks, i), Root(TreeOf(other)))
           <=> With(blocks, LastPlace(blocks, N, i), data) = other
<1> DEFINE g == With(blocks, LastPlace(blocks, N, i), data)
<1>1. DOMAIN blocks = 0..(N - 1) /\ N > 0
  BY DEF AreBlocks
<1>2. AreBlocks(g, N)
  <2>1. g = [y \in 0..(N - 1) |-> IF y = LastPlace(blocks, N, i) THEN data ELSE blocks[y]]
    BY <1>1 DEF With
  <2> QED
    BY <2>1 DEF AreBlocks
<1>3. generateProofHash(data, ProofAt(blocks, i)) = Root(TreeOf(g))
  BY <1>1, ProofHash
<1> HIDE DEF g
<1>4. Root(TreeOf(g)) = Root(TreeOf(other)) => g = other
  BY <1>1, <1>2, RootDecides
<1> QED
  BY <1>3, <1>4 DEF VerifyProof, g

LEMMA TableVerified ==
  ASSUME NEW N \in Nat, NEW blocks, DOMAIN blocks = 0..(N - 1), NEW i \in 0..(N - 1),
         NEW other, NEW data
  PROVE  KT!VerifyProof(data, KT!ProofByte(KT!GenerateProof(blocks, i)), other)
           <=> With(blocks, LastPlace(blocks, N, i), data) = other
<1> DEFINE x == LastPlace(blocks, N, i)
           hashes == [blocks EXCEPT ![x] = <<>>]
           atom == <<"proof", x, hashes>>
<1>1. KT!GenerateProof(blocks, i) = [Index |-> x, Hashes |-> hashes]
  BY DEF KT!GenerateProof, KT!Max, Max, LastPlace
<1>2. KT!ProofByte(KT!GenerateProof(blocks, i)) = {atom}
  BY <1>1 DEF KT!ProofByte
<1>3. KT!VerifyProof(data, {atom}, other) <=> [atom[3] EXCEPT ![atom[2]] = data] = other
  BY DEF KT!VerifyProof
<1>4. atom[2] = x /\ atom[3] = hashes
  OBVIOUS
<1>5. [hashes EXCEPT ![x] = data] = [blocks EXCEPT ![x] = data]
  <2> HIDE DEF x
  <2> QED
    OBVIOUS
<1> HIDE DEF x, hashes, atom
<1> QED
  BY <1>2, <1>3, <1>4, <1>5 DEF x, With

LEMMA SameVerdict ==
  ASSUME NEW N \in Nat, NEW blocks, AreBlocks(blocks, N),
         NEW i \in 0..(N - 1), proofLen(TreeOf(blocks)) = Levels(N),
         NEW M \in Nat, M > 0, NEW other, AreBlocks(other, M), NEW data
  PROVE  VerifyProof(data, ProofAt(blocks, i), Root(TreeOf(other)))
           = KT!VerifyProof(data, KT!ProofByte(KT!GenerateProof(blocks, i)), other)
<1> DEFINE a == VerifyProof(data, ProofAt(blocks, i), Root(TreeOf(other)))
           b == KT!VerifyProof(data, KT!ProofByte(KT!GenerateProof(blocks, i)), other)
<1>1. a \in BOOLEAN /\ b \in BOOLEAN
  BY DEF VerifyProof, KT!VerifyProof
<1>2. a <=> With(blocks, LastPlace(blocks, N, i), data) = other
  BY Verified
<1>3. DOMAIN blocks = 0..(N - 1)
  BY DEF AreBlocks
<1>4. b <=> With(blocks, LastPlace(blocks, N, i), data) = other
  BY <1>3, TableVerified
<1> HIDE DEF a, b
<1>5. a = b
  BY <1>1, <1>2, <1>4
<1> QED
  BY <1>5 DEF a, b

\* There is room for a proof where KeyTable says so.
LEMMA RoomIs ==
  ASSUME NEW N \in Nat, NEW blocks, DOMAIN blocks = 0..(N - 1)
  PROVE  /\ KT!ProofFits(blocks) <=> proofLen(TreeOf(blocks)) = Levels(N)
         /\ ProofPanics(TreeOf(blocks)) <=> proofLen(TreeOf(blocks)) # Levels(N)
<1> DEFINE S == {blocks[i] : i \in 0..(N - 1)}
           C == Cardinality(S)
<1>1. /\ IsFiniteSet(S) /\ proofLen(TreeOf(blocks)) = Levels(C) /\ Cardinality(DOMAIN blocks) = N
  BY TreeShape
<1>2. C \in Nat /\ C <= N
  <2>1. IsFiniteSet(0..(N - 1)) /\ Cardinality(0..(N - 1)) = N
    <3>1. IsFiniteSet(0..(N - 1))
      BY FS_Interval
    <3> QED
      BY <1>1, <3>1
  <2>2. Cardinality(S) <= Cardinality(0..(N - 1))
    BY <2>1, ImageSize
  <2> HIDE DEF S
  <2>3. Cardinality(S) \in Nat
    BY <1>1, FS_CardinalityType
  <2> QED
    BY <2>1, <2>2, <2>3
<1>3. S = {blocks[i] : i \in DOMAIN blocks}
  OBVIOUS
<1> HIDE DEF C
<1>4. KT!Levels(C) = Levels(C) /\ KT!Levels(N) = Levels(N) /\ Levels(C) \in Nat /\ Levels(N) \in Nat
  BY <1>2, LevelsFacts
<1>5. Levels(C) <= Levels(N)
  BY <1>2, LevelsOrder
<1>6. KT!ProofFits(blocks) <=> KT!Levels(C) = KT!Levels(N)
  BY <1>1, <1>3 DEF KT!ProofFits, C, KT!Cardinality, Cardinality
<1>7. ProofPanics(TreeOf(blocks)) <=> Levels(N) > Levels(C)
  <2>1. Depth(TreeOf(blocks)) = Levels(N)
    BY TreeNodes
  <2> QED
    BY <1>1, <2>1 DEF ProofPanics
<1> QED
  BY <1>1, <1>4, <1>5, <1>6, <1>7
-----------------------------------------------------------------------------
(* The blocks of a server.                                                  *)

IsLaid(k, N, X, rows, columns) ==
  /\ N \in Nat /\ rows \in Nat /\ columns \in Nat /\ rows * columns <= N
  /\ BlocksOf(k) \in [0..(N - 1) -> Seq(X)]
  /\ HasTree => Has(server[k], MerkleDB(BlocksOf(k), rows, columns))
  /\ ~HasTree =>
       /\ server[k].outcome # "noRoom"
       /\ server[k].outcome = "up" =>
            /\ DOMAIN server[k].db.BlockLengths = 0..(rows * columns - 1)
            /\ \A i \in 0..(rows * columns - 1) :
                 /\ Data(server[k].db, i) = BlocksOf(k)[i]
                 /\ server[k].db.BlockLengths[i] <= server[k].db.BlockSize

AreRandom(r, X) ==
  /\ r.blocks \in Seq(Seq(X)) /\ r.rows \in Nat /\ r.rows > 0
  /\ \A n \in 1..Len(r.blocks) : Len(r.blocks[n]) = Len(r.blocks[1])
  /\ Numbered(r.blocks) \in [0..(Len(r.blocks) - 1) -> Seq(X)]
  /\ \A i \in 0..(Len(r.blocks) - 1) : Numbered(r.blocks)[i] = r.blocks[i + 1]
  /\ Len(r.blocks) \div r.rows \in Nat
  /\ r.rows * (Len(r.blocks) \div r.rows) <= Len(r.blocks)

LEMMA RandomBlocksAre ==
  ASSUME NEW r \in RandomBlocks
  PROVE  \E X : AreRandom(r, X)
<1> DEFINE X == UNION {{r.blocks[n][m] : m \in 1..Len(r.blocks[n])} : n \in 1..Len(r.blocks)}
           s == r.blocks
           N == Len(s)
           rows == r.rows
<1>1. IsSeq(s) /\ rows \in Nat /\ rows > 0 /\ \A n \in DOMAIN s : IsSeq(s[n]) /\ Len(s[n]) = Len(s[1])
  BY RandomAssumption
<1>2. s \in Seq({s[n] : n \in 1..N})
  BY <1>1 DEF IsSeq
<1>3. N \in Nat /\ DOMAIN s = 1..N
  BY <1>2
<1>4. ASSUME NEW n \in 1..N
      PROVE  s[n] \in Seq(X)
  <2> DEFINE Y == {s[n][m] : m \in 1..Len(s[n])}
  <2>1. s[n] \in Seq(Y)
    BY <1>1, <1>3 DEF IsSeq
  <2>2. Y \subseteq X
    OBVIOUS
  <2> HIDE DEF X, Y
  <2> QED
    BY <2>1, <2>2, SeqMonotonic
<1> HIDE DEF X
<1>5. s \in Seq(Seq(X))
  <2>1. {s[n] : n \in 1..N} \subseteq Seq(X)
    BY <1>4
  <2> QED
    BY <1>2, <2>1, SeqMonotonic
<1>6. Numbered(s) = [i \in 0..(N - 1) |-> s[i + 1]]
  BY DEF Numbered
<1> HIDE DEF s, N
<1>7. Numbered(s) \in [0..(N - 1) -> Seq(X)] /\ \A i \in 0..(N - 1) : Numbered(s)[i] = s[i + 1]
  <2>1. \A i \in 0..(N - 1) : i + 1 \in 1..N /\ s[i + 1] \in Seq(X)
    BY <1>3, <1>4
  <2> QED
    BY <1>6, <2>1
<1>8. N \div rows \in Nat /\ rows * (N \div rows) <= N
  <2> DEFINE q == N \div rows
  <2> HIDE DEF rows
  <2>1. q \in Nat /\ (N % rows) \in Nat /\ N = rows * q + (N % rows)
    BY <1>1, <1>3
  <2> HIDE DEF q
  <2>2. rows * q \in Nat
    BY <1>1, <2>1
  <2>3. rows * q <= N
    BY <1>3, <2>1, <2>2
  <2> QED
    BY <2>1, <2>3 DEF q
<1>9. AreRandom(r, X)
  BY <1>1, <1>3, <1>5, <1>7, <1>8 DEF AreRandom, s, N
<1> QED
  BY <1>9

\* The server of a simulation with plain blocks.
LEMMA RandomBytes ==
  ASSUME NEW r, NEW X, AreRandom(r, X), NEW db, db = CreateRandomBytes(r.blocks, r.rows).db
  PROVE  LET number == r.rows * (Len(r.blocks) \div r.rows)
         IN  /\ CreateRandomBytes(r.blocks, r.rows).outcome = "up"
             /\ DOMAIN db.BlockLengths = 0..(number - 1)
             /\ \A i \in 0..(number - 1) : /\ Data(db, i) = Numbered(r.blocks)[i]
                                           /\ db.BlockLengths[i] <= db.BlockSize
<1> DEFINE s == r.blocks
           rows == r.rows
           columns == Len(s) \div rows
           number == rows * columns
           len == Len(s[1])
           lens == [i \in 0..(number - 1) |-> len]
           entries == FlattenSeq(s)
           plain == [NumRows |-> rows, NumColumns |-> columns, BlockSize |-> len,
                     BlockLengths |-> lens, Entries |-> entries, ProofLen |-> 0, Root |-> None]
<1>1. CreateRandomBytes(r.blocks, r.rows) = Up(plain)
  BY DEF CreateRandomBytes
<1>2. CreateRandomBytes(r.blocks, r.rows).outcome = "up" /\ db = plain
  <2> HIDE DEF plain
  <2> QED
    BY <1>1 DEF Up
<1>3. /\ s \in Seq(Seq(X)) /\ columns \in Nat /\ rows \in Nat /\ number <= Len(s)
      /\ \A n \in 1..Len(s) : Len(s[n]) = len
      /\ \A i \in 0..(Len(s) - 1) : Numbered(s)[i] = s[i + 1]
  BY DEF AreRandom
<1>4. number \in Nat /\ Len(s) \in Nat
  <2>1. number \in Nat
    BY <1>3
  <2> QED
    BY <1>3, <2>1
<1>5. /\ DOMAIN lens = 0..(number - 1) /\ \A i \in 0..(number - 1) : lens[i] = len
  OBVIOUS
<1> HIDE DEF lens, entries, number, columns, len
<1>6. db.BlockLengths = lens /\ db.Entries = entries /\ db.BlockSize = len /\ db.ProofLen = 0
  BY <1>2
<1> HIDE DEF plain, s
<1>7. ASSUME NEW i \in 0..(number - 1)
      PROVE  Data(db, i) = Numbered(s)[i] /\ db.BlockLengths[i] <= db.BlockSize
  <2>1. i \in 0..(Len(s) - 1) /\ \A j \in 0..i : j \in 0..(number - 1) /\ j + 1 \in 1..Len(s)
    BY <1>3, <1>4
  <2>2. \A j \in 0..i : db.BlockLengths[j] = Len(s[j + 1])
    BY <1>3, <1>5, <1>6, <2>1
  <2>3. db.Entries = FlattenSeq(s)
    BY <1>6 DEF entries
  <2>4. StoredBlock(db, i) = s[i + 1]
    BY <1>3, <2>1, <2>2, <2>3, Cut
  <2>5. Data(db, i) = s[i + 1]
    BY <1>6, <2>4 DEF Data
  <2>6. db.BlockLengths[i] = len /\ len \in Nat
    <3>1. 1 \in 1..Len(s)
      BY <2>1
    <3>2. s[1] \in Seq(X)
      BY <1>3, <3>1
    <3>3. Len(s[1]) \in Nat
      BY <3>2, LenProperties
    <3> QED
      BY <1>5, <1>6, <3>3 DEF len
  <2> QED
    BY <1>3, <1>6, <2>1, <2>5, <2>6
<1> QED
  BY <1>2, <1>5, <1>6, <1>7 DEF s, number, columns

LEMMA LoadedLaid ==
  ASSUME NEW k \in DOMAIN server, random = None, scheme \in {"pointPIR", "pointVPIR"},
         server[k].keys \in Seq(Stored), Has(server[k], Generate(scheme, server[k].keys)),
         server[k].outcome \in {"up", "noRoom"}
  PROVE  \E N, X, rows, columns : IsLaid(k, N, X, rows, columns)
<1> DEFINE ks == server[k].keys
           db == server[k].db
           r == Size(ks).rows
           c == Size(ks).columns
           L == Size(ks).rows * Size(ks).columns
           blocks == KT!Blocks(HashTable(ks))
<1>1. BlocksOf(k) = blocks
  BY DEF BlocksOf
<1>2. /\ server[k].outcome = Generate(scheme, ks).outcome /\ db = Generate(scheme, ks).db
      /\ ~Complex(scheme)
  BY DEF Has, Complex
<1>3. ASSUME NoBuckets(ks)
      PROVE  FALSE
  <2>1. Generate(scheme, ks) = Reason("noBuckets")
    BY <1>2, <1>3 DEF Generate, GenerateRealKeyBytes, GenerateRealKeyMerkle
  <2> QED
    BY <1>2, <2>1 DEF Reason
<1>4. L \in Nat /\ blocks \in [0..(L - 1) -> Seq(Bytes)] /\ r \in Nat /\ c \in Nat
  <2>1. RightTable(ks, L, HashTable(ks))
    BY <1>3, TableRight
  <2> QED
    BY <2>1, SizeType DEF RightTable
<1>5. L = r * c
  OBVIOUS
<1>6. CASE scheme = "pointPIR"
  <2>1. ~HasTree
    BY <1>6 DEF HasTree
  <2>2. server[k].outcome # "noRoom"
    <3> DEFINE plain == [NumRows |-> r, NumColumns |-> c,
                         BlockSize |-> MaxLen(HashTable(ks)) + 1,
                         BlockLengths |-> [i \in DOMAIN blocks |-> Len(blocks[i])],
                         Entries |-> InOrder(blocks), ProofLen |-> 0, Root |-> None]
    <3>1. Generate(scheme, ks) = Up(plain)
      BY <1>2, <1>3, <1>6 DEF Generate, GenerateRealKeyBytes
    <3> HIDE DEF plain
    <3> QED
      BY <1>2, <3>1 DEF Up
  <2>3. /\ Generate(scheme, ks).outcome = "up" /\ Generate(scheme, ks).db = db
        /\ scheme \in {"complexPIR", "complexVPIR", "pointPIR", "pointVPIR"}
    BY <1>2, <1>6, <2>2
  <2>4. /\ DOMAIN db.BlockLengths = 0..(r * c - 1)
        /\ \A i \in 0..(r * c - 1) : Data(db, i) = blocks[i] /\ db.BlockLengths[i] <= db.BlockSize
    BY <1>2, <2>3, PointBlocks
  <2> HIDE DEF blocks, L, r, c
  <2>5. r * c <= L
    BY <1>4, <1>5
  <2>6. IsLaid(k, L, Bytes, r, c)
    BY <1>1, <1>4, <2>1, <2>2, <2>4, <2>5 DEF IsLaid
  <2> QED
    BY <2>6
<1>7. CASE scheme = "pointVPIR"
  <2>1. HasTree
    BY <1>7 DEF HasTree
  <2>2. Generate(scheme, ks) = MerkleDB(blocks, r, c)
    BY <1>2, <1>3, <1>7 DEF Generate, GenerateRealKeyMerkle
  <2>3. Has(server[k], MerkleDB(BlocksOf(k), r, c))
    BY <1>1, <2>2
  <2> HIDE DEF blocks, L, r, c
  <2>4. r * c <= L
    BY <1>4, <1>5
  <2>5. IsLaid(k, L, Bytes, r, c)
    BY <1>1, <1>4, <2>1, <2>3, <2>4 DEF IsLaid
  <2> QED
    BY <2>5
<1> QED
  BY <1>6, <1>7

LEMMA DrawnLaid ==
  ASSUME NEW k \in DOMAIN server, random # None, random \in RandomBlocks,
         scheme \in {"pir-classic", "pir-merkle"}, Has(server[k], Drawn(scheme, random))
  PROVE  \E N, X, rows, columns : IsLaid(k, N, X, rows, columns)
<1> DEFINE s == random.blocks
           rows == random.rows
           N == Len(s)
           columns == N \div rows
           blocks == Numbered(s)
           db == server[k].db
<1>1. PICK X : AreRandom(random, X)
  BY RandomBlocksAre
<1>2. BlocksOf(k) = blocks
  BY DEF BlocksOf
<1>3. /\ N \in Nat /\ rows \in Nat /\ columns \in Nat /\ rows * columns <= N
      /\ blocks \in [0..(N - 1) -> Seq(X)]
  BY <1>1 DEF AreRandom
<1>4. CASE scheme = "pir-classic"
  <2>1. ~HasTree
    BY <1>4 DEF HasTree
  <2>2. server[k].outcome = CreateRandomBytes(s, rows).outcome /\ db = CreateRandomBytes(s, rows).db
    BY <1>4 DEF Has, Drawn
  <2>3. /\ CreateRandomBytes(s, rows).outcome = "up"
        /\ DOMAIN db.BlockLengths = 0..(rows * columns - 1)
        /\ \A i \in 0..(rows * columns - 1) :
             Data(db, i) = blocks[i] /\ db.BlockLengths[i] <= db.BlockSize
    BY <1>1, <2>2, RandomBytes
  <2> HIDE DEF s, rows, N, columns, blocks
  <2>4. IsLaid(k, N, X, rows, columns)
    BY <1>2, <1>3, <2>1, <2>2, <2>3 DEF IsLaid
  <2> QED
    BY <2>4
<1>5. CASE scheme = "pir-merkle"
  <2>1. HasTree
    BY <1>5 DEF HasTree
  <2>2. Drawn(scheme, random) = MerkleDB(blocks, rows, columns)
    BY <1>5 DEF Drawn, CreateRandomMerkle
  <2>3. Has(server[k], MerkleDB(BlocksOf(k), rows, columns))
    BY <1>2, <2>2
  <2> HIDE DEF s, rows, N, columns, blocks
  <2>4. IsLaid(k, N, X, rows, columns)
    BY <1>2, <1>3, <2>1, <2>3 DEF IsLaid
  <2> QED
    BY <2>4
<1> QED
  BY <1>4, <1>5

LEMMA ServerLaid ==
  ASSUME IInv, scheme # None, ~Complex(scheme), NEW k \in DOMAIN server,
         server[k].outcome \in {"up", "noRoom"}
  PROVE  \E N, X, rows, columns : IsLaid(k, N, X, rows, columns)
<1>1. CASE random = None
  <2>1. scheme \in {"pointPIR", "pointVPIR"}
    BY <1>1, KeyDBAssumption DEF IInv, NetType, Complex
  <2>2. server[k].keys \in Seq(Stored) /\ Has(server[k], Generate(scheme, server[k].keys))
    BY <1>1 DEF IInv, ServerInv, IsRight
  <2> QED
    BY <1>1, <2>1, <2>2, LoadedLaid
<1>2. CASE random # None
  <2>1. random \in RandomBlocks /\ scheme \in {"pir-classic", "pir-merkle"}
    BY <1>2, KeyDBAssumption DEF IInv, NetType
  <2>2. Has(server[k], Drawn(scheme, random))
    BY <1>2 DEF IInv, ServerInv, IsRight
  <2> QED
    BY <1>2, <2>1, <2>2, DrawnLaid
<1> QED
  BY <1>1, <1>2

\* What is so of a server with a tree.
LEMMA TreeServer ==
  ASSUME NEW k \in DOMAIN server, NEW N, NEW X, NEW rows, NEW columns,
         IsLaid(k, N, X, rows, columns), HasTree
  PROVE  /\ server[k].outcome = "noRoom" => ~KT!ProofFits(BlocksOf(k))
         /\ server[k].outcome = "up" =>
              /\ N > 0 /\ AreBlocks(BlocksOf(k), N)
              /\ server[k].db.Root = Root(TreeOf(BlocksOf(k)))
              /\ DOMAIN server[k].db.BlockLengths = 0..(rows * columns - 1)
              /\ rows * columns > 0 => /\ KT!ProofFits(BlocksOf(k))
                                       /\ proofLen(TreeOf(BlocksOf(k))) = Levels(N)
              /\ \A i \in 0..(rows * columns - 1) : IsEntry(server[k].db, BlocksOf(k), i)
<1> DEFINE blocks == BlocksOf(k)
           start == MerkleDB(blocks, rows, columns)
           db == server[k].db
<1>1. /\ N \in Nat /\ rows \in Nat /\ columns \in Nat /\ rows * columns <= N
      /\ blocks \in [0..(N - 1) -> Seq(X)]
      /\ server[k].outcome = start.outcome /\ db = start.db
  BY DEF IsLaid, Has
<1> HIDE DEF blocks, start
<1>2. DOMAIN blocks = 0..(N - 1) /\ AreBlocks(blocks, N)
  BY <1>1 DEF AreBlocks
<1>3. /\ KT!ProofFits(blocks) <=> proofLen(TreeOf(blocks)) = Levels(N)
      /\ ProofPanics(TreeOf(blocks)) <=> proofLen(TreeOf(blocks)) # Levels(N)
  BY <1>1, <1>2, RoomIs
<1>4. /\ start.outcome = "up" <=> DOMAIN blocks # {} /\ ~(rows * columns > 0 /\ ProofPanics(TreeOf(blocks)))
      /\ start.outcome = "noRoom" <=> DOMAIN blocks # {} /\ (rows * columns > 0 /\ ProofPanics(TreeOf(blocks)))
      /\ start.outcome = "up" => IsMerkleDB(start.db, blocks, rows, columns)
  BY MerkleIs DEF start
<1>5. server[k].outcome = "noRoom" => ~KT!ProofFits(blocks)
  BY <1>1, <1>3, <1>4
<1>6. ASSUME server[k].outcome = "up"
      PROVE  /\ N > 0 /\ db.Root = Root(TreeOf(blocks))
             /\ DOMAIN db.BlockLengths = 0..(rows * columns - 1)
             /\ rows * columns > 0 => /\ KT!ProofFits(blocks) /\ proofLen(TreeOf(blocks)) = Levels(N)
             /\ \A i \in 0..(rows * columns - 1) : IsEntry(db, blocks, i)
  <2>1. IsMerkleDB(db, blocks, rows, columns)
    BY <1>1, <1>4, <1>6
  <2>2. N > 0
    <3>1. 0..(N - 1) # {}
      BY <1>1, <1>2, <1>4, <1>6
    <3> QED
      BY <1>1, <3>1
  <2>3. db.Root = Root(TreeOf(blocks)) /\ DOMAIN db.BlockLengths = 0..(rows * columns - 1)
    BY <2>1 DEF IsMerkleDB, EntryLengths
  <2>4. rows * columns > 0 => KT!ProofFits(blocks) /\ proofLen(TreeOf(blocks)) = Levels(N)
    BY <1>1, <1>3, <1>4, <1>6
  <2>5. \A i \in 0..(rows * columns - 1) : IsEntry(db, blocks, i)
    BY <1>1, <2>1, MerkleBlock
  <2> QED
    BY <2>2, <2>3, <2>4, <2>5
<1> QED
  BY <1>2, <1>5, <1>6 DEF blocks
-----------------------------------------------------------------------------
(* The theorems.                                                            *)

\* TypeOK of KeyDB: a key on a disk is unrevoked, filed under its own email
\* and no longer than the limit, and a chunk is over its limit by at most the
\* key that made it so, whatever a killed command left behind.
THEOREM TypeCorrect == Spec => []TypeOK
<1>1. ASSUME IInv
      PROVE  TypeOK
  <2>1. ASSUME NEW f \in FileRecord
        PROVE  IsFile(f)
    <3>1. f.keys \in Seq(Stored) /\ f.torn \in BOOLEAN /\ f.dump \in DumpNumbers
      BY DEF FileRecord
    <3>2. ASSUME NEW i \in DOMAIN f.keys
          PROVE  Len(f.keys[i].Packet) <= keySizeLimit
      <4>1. f.keys[i] \in Stored
        BY <3>1
      <4>2. ~(Len(f.keys[i].Packet) > keySizeLimit) /\ Len(f.keys[i].Packet) \in Nat
        BY <4>1, StoredType DEF TooLong
      <4> QED
        BY <4>2, KeyDBAssumption
    <3> QED
      BY <3>1, <3>2 DEF IsFile, DumpNumbers
  <2>2. /\ disk \in DiskRecord /\ disk.made.number <= Len(disk.chunks)
        /\ disk.chunks \in Seq(FileRecord)
    BY <1>1 DEF IInv, DiskType, DiskRecord
  <2>3. disk.full # None => IsFile(disk.full)
    BY <2>1, <2>2 DEF DiskRecord
  <2>4. ASSUME NEW i \in DOMAIN disk.chunks
        PROVE  /\ IsFile(disk.chunks[i])
               /\ (Len(disk.chunks[i].keys) - 1) * (IDLen + 1) <= hundredMb
    <3>1. i \in 1..Len(disk.chunks)
      BY <2>2
    <3>2. disk.chunks[i] \in FileRecord
      BY <2>2, <3>1, ElementOfSeq, Zenon
    <3> DEFINE L == Len(disk.chunks[i].keys)
               C == IDLen + 1
    <3>3. L * C <= hundredMb + C
      BY <1>1, <3>1 DEF IInv, SizeInv, Large
    <3>4. L \in Nat
      <4>1. disk.chunks[i].keys \in Seq(Stored)
        BY <3>2 DEF FileRecord
      <4> QED
        BY <4>1, LenProperties, Zenon
    <3>5. C \in Nat /\ hundredMb \in Nat
      BY KeyDBAssumption
    <3> HIDE DEF L, C
    <3>6. \A a, b \in Nat : (a - 1) * b = a * b - b /\ a * b \in Int
      OBVIOUS
    <3>7. (L - 1) * C <= hundredMb
      BY <3>3, <3>4, <3>5, <3>6
    <3> QED
      BY <2>1, <3>2, <3>7 DEF L, C
  <2> QED
    BY <1>1, <2>2, <2>3, <2>4 DEF IInv, NetType, ParseType, TypeOK, DumpNumbers
<1> QED
  BY <1>1, Invariant, PTL

\* SameDatabases of KeyDB: servers that load all chunks made of one dump have
\* equal databases, although each machine walks the key map and cuts the
\* chunks in its own way and commands are killed and repeated.
THEOREM DatabasesAgree == Spec => []SameDatabases
<1>1. ASSUME IInv
      PROVE  SameDatabases
  <2> SUFFICES ASSUME NEW k \in DOMAIN server, NEW l \in DOMAIN server, IsUp(k), IsUp(l),
                      random # None \/ (server[k].dump # 0 /\ server[k].dump = server[l].dump)
               PROVE  server[k].db = server[l].db
    BY DEF SameDatabases
  <2>1. CASE random # None
    <3>1. Has(server[k], Drawn(scheme, random)) /\ Has(server[l], Drawn(scheme, random))
      BY <1>1, <2>1 DEF IInv, ServerInv, IsRight, IsUp
    <3> QED
      BY <3>1 DEF Has
  <2>2. CASE random = None
    <3> DEFINE d == server[k].dump
               a == server[k].keys
               b == server[l].keys
    <3>1. /\ Enumerates(a, Served(d)) /\ Descends(a) /\ Enumerates(b, Served(d)) /\ Descends(b)
          /\ server[k].db = Generate(scheme, a).db /\ server[l].db = Generate(scheme, b).db
      BY <1>1, <2>2 DEF IInv, ServerInv, IsRight, Has, IsUp
    <3>2. Served(d) \subseteq Stored
      BY ServedStored
    <3> HIDE DEF a, b, d
    <3>3. a = b
      BY <3>1, <3>2, SameKeys
    <3> QED
      BY <3>1, <3>3
  <2> QED
    BY <2>1, <2>2
<1> QED
  BY <1>1, Invariant, PTL

\* A server that loads all chunks made of a dump holds the latest keys of the
\* dump that are not too long, one of every email, in descending order.
LoadedKeysAreLatest ==
  \A k \in DOMAIN server : IsUp(k) /\ random = None /\ server[k].dump # 0 =>
    Enumerates(server[k].keys, Served(server[k].dump)) /\ Descends(server[k].keys)

\* The part of LatestKeyServed that comes before a database is laid out: a
\* server that loads all chunks of a dump has, in descending order of the
\* emails, exactly one key of every email whose latest unrevoked key is not too
\* long, which is the first such key of the dump.
THEOREM LatestKeysLoaded == Spec => []LoadedKeysAreLatest
<1>1. IInv => LoadedKeysAreLatest
  BY DEF IInv, ServerInv, IsRight, IsUp, LoadedKeysAreLatest
<1> QED
  BY <1>1, Invariant, PTL

\* LatestKeyServed of KeyDB: a server that loads all chunks of a dump serves
\* under every email the first of its latest unrevoked keys if that is not too
\* long, and nothing otherwise: the lookup of a client in its bucket finds
\* that packet alone, cut out of the entries of the database by the lengths
\* of its blocks, without the proof and the padding.
THEOREM LatestKeysServed == Spec => []LatestKeyServed
<1>1. ASSUME IInv
      PROVE  LatestKeyServed
  <2> SUFFICES ASSUME NEW k \in DOMAIN server, NewServer, IsUp(k), server[k].dump # 0
               PROVE  LET fits(email) == {e \in Latest(server[k].dump, email) : Len(e.packet) <= keySizeLimit}
                          db == server[k].db
                      IN  IF Complex(scheme)
                          THEN LET served == UNION {fits(email) : email \in Emails}
                               IN  /\ Len(db.KeysInfo) = Cardinality(served)
                                   /\ ToSet(db.KeysInfo) = {GetKeyInfoFromPacket(e.packet) : e \in served}
                          ELSE \A email \in Emails :
                                 db.NumRows = 0 \/ KeysIn(db, email) = {e.packet : e \in fits(email)}
    BY DEF LatestKeyServed
  <2> DEFINE d == server[k].dump
             ks == server[k].keys
             db == server[k].db
             served == UNION {Fits(d, email) : email \in Emails}
  <2>1. /\ d \in DOMAIN Dumps /\ random = None /\ scheme # None /\ ks \in Seq(Stored)
        /\ Generate(scheme, ks).outcome = "up" /\ Generate(scheme, ks).db = db
        /\ Enumerates(ks, Served(d))
    BY <1>1 DEF IInv, ServerInv, IsRight, Has, IsUp, DumpNumbers
  <2>2. scheme \in {"complexPIR", "complexVPIR", "pointPIR", "pointVPIR"}
    BY <1>1, <2>1, KeyDBAssumption DEF IInv, NetType
  <2> HIDE DEF d, ks, db
  <2>3. ASSUME Complex(scheme)
        PROVE  /\ Len(db.KeysInfo) = Cardinality(served)
               /\ ToSet(db.KeysInfo) = {GetKeyInfoFromPacket(e.packet) : e \in served}
    <3> DEFINE info == [n \in DOMAIN ks |-> GetKeyInfoFromPacket(ks[n].Packet)]
    <3>1. Generate(scheme, ks) = Up([KeysInfo |-> info])
      BY <2>3 DEF Generate, GenerateRealKeyDB, Complex
    <3>2. /\ Len(info) = Cardinality(served)
          /\ ToSet(info) = {GetKeyInfoFromPacket(e.packet) : e \in served}
      BY <2>1, InfoIsLatest
    <3> HIDE DEF info, served
    <3>3. db.KeysInfo = info
      BY <2>1, <3>1 DEF Up
    <3> QED
      BY <3>2, <3>3
  <2>4. ASSUME ~Complex(scheme), NEW email \in Emails, db.NumRows # 0
        PROVE  KeysIn(db, email) = {e.packet : e \in Fits(d, email)}
    <3> DEFINE r == Size(ks).rows
               c == Size(ks).columns
               L == Size(ks).rows * Size(ks).columns
               table == HashTable(ks)
               blocks == KT!Blocks(table)
               i == KT!HashToIndex(email, L)
    <3>1. r \in Nat /\ c = r
      BY <2>1, SizeType
    <3>2. ASSUME NoBuckets(ks)
          PROVE  FALSE
      <4>1. Generate(scheme, ks) = Reason("noBuckets")
        BY <2>2, <2>4, <3>2 DEF Generate, Complex, GenerateRealKeyBytes, GenerateRealKeyMerkle
      <4> QED
        BY <2>1, <4>1 DEF Reason
    <3>3. RightTable(ks, L, table)
      BY <2>1, <3>2, TableRight
    <3>4. L \in Nat /\ blocks \in [0..(L - 1) -> Seq(Bytes)]
      BY <3>3 DEF RightTable
    <3>5. /\ db.NumRows = r /\ db.NumColumns = c
          /\ \A j \in 0..(L - 1) : Data(db, j) = blocks[j]
      BY <2>1, <2>2, <2>4, <3>2, PointBlocks
    <3>6. L > 0
      <4>1. r # 0
        BY <2>4, <3>5
      <4>2. L = r * r
        BY <3>1
      <4> HIDE DEF r, L, c
      <4>3. r * r > 0
        BY <3>1, <4>1
      <4> QED
        BY <4>2, <4>3
    <3>7. i \in 0..(L - 1)
      <4>1. Hash[email] \in Nat
        BY KeyDBAssumption
      <4> HIDE DEF L
      <4> QED
        BY <3>4, <3>6, <4>1 DEF KT!HashToIndex
    <3>8. KeysIn(db, email) = Found(Data(db, i), email)
      <4>1. db.NumRows * db.NumColumns = L
        BY <3>5
      <4> HIDE DEF L
      <4> QED
        BY <4>1 DEF KeysIn, Found
    <3>9. Data(db, i) = blocks[i]
      BY <3>5, <3>7
    <3>10. Found(blocks[i], email) = {e.packet : e \in Fits(d, email)}
      <4> HIDE DEF L, table
      <4> QED
        BY <2>1, <3>3, <3>6, FoundIsLatest
    <3> QED
      BY <3>8, <3>9, <3>10
  <2>5. \A email : {e \in Latest(d, email) : Len(e.packet) <= keySizeLimit} = Fits(d, email)
    BY DEF Fits
  <2> QED
    BY <2>3, <2>4, <2>5 DEF d, db
<1> QED
  BY <1>1, Invariant, PTL

\* KeyTableImplemented of KeyDB: what a server takes for a block is that block
\* of its table.  A Merkle proof cut out of the bytes verifies a block against
\* the root of any server if and only if the blocks of that server are those
\* of the first with the block in the place that the proof was made for, as
\* KeyTable says of its proofs.  A server ends for want of room for a proof
\* only where, in KeyTable, proofs do not fit, and where they do not it is not
\* up with any block.
THEOREM KeyTableIsImplemented == Spec => []KeyTableImplemented
<1>1. ASSUME IInv
      PROVE  KeyTableImplemented
  <2> SUFFICES ASSUME scheme # None, ~Complex(scheme), NewServer, NEW k \in DOMAIN server
               PROVE  /\ server[k].outcome = "noRoom" => ~KT!ProofFits(BlocksOf(k))
                      /\ IsUp(k) =>
                           LET db == server[k].db
                               at == DOMAIN db.BlockLengths
                           IN  /\ \A i \in at : Data(db, i) = BlocksOf(k)[i] /\ db.BlockLengths[i] <= db.BlockSize
                               /\ HasTree /\ at # {} => KT!ProofFits(BlocksOf(k))
                               /\ HasTree => \A l \in {m \in DOMAIN server : IsUp(m)} :
                                    \A i \in at, j \in DOMAIN BlocksOf(k) :
                                      LET block == BlocksOf(k)[j]
                                      IN  VerifyProof(block, Proof(db, i), server[l].db.Root)
                                            = KT!VerifyProof(block, KT!ProofByte(KT!GenerateProof(BlocksOf(k), i)), BlocksOf(l))
    BY DEF KeyTableImplemented
  <2> DEFINE db == server[k].db
             at == DOMAIN server[k].db.BlockLengths
             blocks == BlocksOf(k)
  <2>1. ASSUME server[k].outcome = "noRoom"
        PROVE  ~KT!ProofFits(blocks)
    <3>1. PICK N, X, rows, columns : IsLaid(k, N, X, rows, columns)
      BY <1>1, <2>1, ServerLaid
    <3>2. HasTree
      BY <2>1, <3>1 DEF IsLaid
    <3> QED
      BY <2>1, <3>1, <3>2, TreeServer
  <2>2. ASSUME IsUp(k), ~HasTree
        PROVE  \A i \in at : Data(db, i) = blocks[i] /\ db.BlockLengths[i] <= db.BlockSize
    <3>1. server[k].outcome = "up"
      BY <2>2 DEF IsUp
    <3>2. PICK N, X, rows, columns : IsLaid(k, N, X, rows, columns)
      BY <1>1, <3>1, ServerLaid
    <3> QED
      BY <2>2, <3>1, <3>2 DEF IsLaid
  <2>3. ASSUME IsUp(k), HasTree
        PROVE  /\ \A i \in at : Data(db, i) = blocks[i] /\ db.BlockLengths[i] <= db.BlockSize
               /\ at # {} => KT!ProofFits(blocks)
               /\ \A l \in {m \in DOMAIN server : IsUp(m)} : \A i \in at, j \in DOMAIN blocks :
                    VerifyProof(blocks[j], Proof(db, i), server[l].db.Root)
                      = KT!VerifyProof(blocks[j], KT!ProofByte(KT!GenerateProof(blocks, i)), BlocksOf(l))
    <3>1. server[k].outcome = "up"
      BY <2>3 DEF IsUp
    <3>2. PICK N, X, rows, columns : IsLaid(k, N, X, rows, columns)
      BY <1>1, <3>1, ServerLaid
    <3> DEFINE number == rows * columns
    <3>3. /\ N > 0 /\ AreBlocks(blocks, N) /\ at = 0..(number - 1)
          /\ number > 0 => KT!ProofFits(blocks) /\ proofLen(TreeOf(blocks)) = Levels(N)
          /\ \A i \in 0..(number - 1) : IsEntry(db, blocks, i)
      BY <2>3, <3>1, <3>2, TreeServer
    <3>4. N \in Nat /\ number \in Nat /\ number <= N
      <4>1. N \in Nat /\ rows \in Nat /\ columns \in Nat /\ rows * columns <= N
        BY <3>2 DEF IsLaid
      <4> QED
        BY <4>1
    <3> HIDE DEF db, at, blocks, number
    <3>5. \A i \in at : i \in 0..(N - 1) /\ number > 0
      BY <3>3, <3>4
    <3>6. ASSUME NEW l \in DOMAIN server, IsUp(l), NEW i \in at, NEW data
          PROVE  VerifyProof(data, Proof(db, i), server[l].db.Root)
                   = KT!VerifyProof(data, KT!ProofByte(KT!GenerateProof(blocks, i)), BlocksOf(l))
      <4>1. server[l].outcome = "up"
        BY <3>6 DEF IsUp
      <4>2. PICK M, Y, r, c : IsLaid(l, M, Y, r, c)
        BY <1>1, <4>1, ServerLaid
      <4> DEFINE other == BlocksOf(l)
      <4>3. M > 0 /\ AreBlocks(other, M) /\ server[l].db.Root = Root(TreeOf(other))
        BY <2>3, <4>1, <4>2, TreeServer
      <4>4. M \in Nat
        BY <4>2 DEF IsLaid
      <4> HIDE DEF other
      <4>5. Proof(db, i) = ProofAt(blocks, i)
        BY <3>3 DEF IsEntry
      <4>6. i \in 0..(N - 1) /\ proofLen(TreeOf(blocks)) = Levels(N)
        BY <3>3, <3>5
      <4>7. VerifyProof(data, ProofAt(blocks, i), Root(TreeOf(other)))
              = KT!VerifyProof(data, KT!ProofByte(KT!GenerateProof(blocks, i)), other)
        BY <3>3, <3>4, <4>3, <4>4, <4>6, SameVerdict
      <4> QED
        BY <4>3, <4>5, <4>7 DEF other
    <3>7. \A i \in at : Data(db, i) = blocks[i] /\ db.BlockLengths[i] <= db.BlockSize
      BY <3>3 DEF IsEntry
    <3>8. at # {} => KT!ProofFits(blocks)
      BY <3>3, <3>5
    <3> QED
      BY <3>6, <3>7, <3>8
  <2> QED
    BY <2>1, <2>2, <2>3
<1> QED
  BY <1>1, Invariant, PTL
=============================================================================
