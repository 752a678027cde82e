------------------------------ MODULE PointPIR ------------------------------
(***************************************************************************)
(* The retrieval of one key: the client of cmd/grpc/client (or its manager *)
(* package) asks every server for its database info, shares the column of  *)
(* the wanted block among the servers, adds up their answers and looks for *)
(* the key in the block.  The servers may have loaded different key files, *)
(* and one may be restarted with other files while a retrieval runs.       *)
(*                                                                         *)
(* A bit vector is the set of the positions of its ones, position 8*b + i  *)
(* of the code being bit i of byte b.  A DPF key is the share of the point *)
(* function it evaluates to; dpf-go is external.                           *)
(***************************************************************************)
EXTENDS KeyTable

CONSTANTS Versions,     (* the key files there have been                     *)
          Files,        (* Files[v]: the keys LoadKeysFromDisk returns       *)
          Deployments,  (* [n, merkle, two]: servers, scheme, NewPIRTwo used *)
          Ids,          (* the emails the client asks for                    *)
          ByteBits,     (* 8 in the code                                     *)
          RandomBits    (* bound: the vectors a source of randomness yields  *)

VARIABLES deployment, id, version, db, infos, state, queries, answers,
          client, block, result, crashed, reloaded

net == <<deployment, id>>
loaded == <<version, db>>
vars == <<deployment, id, version, db, infos, state, queries, answers,
          client, block, result, crashed, reloaded>>

Servers == 0..(deployment.n - 1)
Nil == [nil |-> TRUE]

DbOf(v) == Database(Files[v], deployment.merkle, TRUE)
DBInfo(d) == [NumRows |-> d.NumRows, NumColumns |-> d.NumColumns, BlockSize |-> d.BlockSize,
              merkle |-> d.merkle, Root |-> d.Root]

ASSUME ByteBitsAssumption == ByteBits \in Nat \ {0}

ASSUME DeploymentsAssumption ==
   \A d \in Deployments : d.n \in Nat \ {0, 1} /\ d.merkle \in BOOLEAN /\ d.two \in BOOLEAN

ASSUME IdsAssumption == \A email \in Ids : Hash[email] \in Nat

\* Every version is one a server can start with.
ASSUME FilesAssumption ==
   \A v \in Versions : Len(Files[v]) >= KeysPerBlock /\ ProofFits(Database(Files[v], TRUE, TRUE).Root)

\* A key is filed under the email that PrimaryEmail finds in it, and none of its
\* bytes is the proof of a Merkle tree.
IsKey(key) ==
   /\ key = [ID |-> EmailOf[key.Packet], Packet |-> key.Packet]
   /\ key.Packet \in DOMAIN EmailOf
   /\ key.ID \in Int /\ Hash[key.ID] \in Nat
   /\ Len(key.Packet) = PacketLen
   /\ key.Packet \in Seq({key.Packet[m] : m \in 1..PacketLen})
   /\ \A m \in 1..PacketLen : \A e \in key.Packet[m] : e[1] # "proof"

ASSUME KeysAssumption ==
   \A v \in Versions : /\ Files[v] \in Seq({Files[v][n] : n \in 1..Len(Files[v])})
                       /\ \A n \in 1..Len(Files[v]) : IsKey(Files[v][n])

\* No other sequence of bytes is a key: none arises by chance.
ASSUME EmailsAssumption ==
   \A p \in DOMAIN EmailOf : \E v \in Versions : \E n \in 1..Len(Files[v]) : Files[v][n].Packet = p
-----------------------------------------------------------------------------
(* GF(2)                                                                    *)

Odd(S) == Cardinality(S) % 2 = 1
XorSum(f) == {a \in UNION {f[j] : j \in DOMAIN f} : Odd({j \in DOMAIN f : a \in f[j]})}

\* Deviation: the bit is set, not flipped.
Flip_Dev(S, j) == S \cup {j}

Flip(S, j) == IF j \in S THEN S \ {j} ELSE S \cup {j}

BitsLen(n) == CHOOSE b \in 0..n : 2 ^ b > n /\ (b = 0 \/ 2 ^ (b - 1) <= n)
-----------------------------------------------------------------------------
Init ==
   /\ deployment \in Deployments
   /\ id \in Ids
   /\ version \in [Servers -> Versions]
   /\ db = [k \in Servers |-> DbOf(version[k])]
   /\ infos = <<>>
   /\ state = Nil
   /\ queries = <<>>
   /\ answers = [k \in Servers |-> <<>>]
   /\ client = "infos"
   /\ block = Nil
   /\ result = Nil
   /\ crashed = {}
   /\ reloaded = FALSE

Finish(outcome) == client' = "done" /\ result' = outcome

\* The answers of the servers are read in the order they arrive.
GetInfo(k) ==
   /\ client = "infos"
   /\ \A n \in DOMAIN infos : infos[n].server # k
   /\ infos' = Append(infos, [server |-> k, version |-> version[k], info |-> DBInfo(db[k])])
   /\ UNCHANGED <<net, loaded, state, queries, answers, client, block, result, crashed, reloaded>>

dbInfo == infos[1].info
equalDBInfo == \A n \in DOMAIN infos :
                  LET info == infos[n].info
                  IN  /\ info.NumRows = dbInfo.NumRows
                      /\ info.NumColumns = dbInfo.NumColumns
                      /\ info.BlockSize = dbInfo.BlockSize

CompareInfos ==
   /\ client = "infos"
   /\ Len(infos) = deployment.n
   /\ IF equalDBInfo THEN client' = "query" /\ UNCHANGED result
                     ELSE Finish([outcome |-> "unequal"])
   /\ UNCHANGED <<net, loaded, infos, state, queries, answers, block, crashed, reloaded>>

Positions(numColumns) == 0..((numColumns \div ByteBits + 1) * ByteBits - 1)

dpfGen(iy, depth) ==
   {[k \in Servers |-> [dpf |-> TRUE, depth |-> depth, length |-> 2 ^ depth,
                        bits |-> IF k = 0 THEN share ELSE Flip(share, iy)]] :
       share \in {bits \cap 0..(2 ^ depth - 1) : bits \in RandomBits}}

\* Deviation: the last server gets no vector.
secretShare_Dev(iy, numColumns) ==
   LET positions == Positions(numColumns)
   IN  {[k \in 0..(deployment.n - 2) |->
            [dpf |-> FALSE, depth |-> 0, length |-> Cardinality(positions), bits |-> rand[k]]] :
          rand \in [0..(deployment.n - 2) -> {bits \cap positions : bits \in RandomBits}]}

secretShare(iy, numColumns) ==
   LET positions == Positions(numColumns)
       last == deployment.n - 1
   IN  {[k \in Servers |->
            [dpf |-> FALSE, depth |-> 0, length |-> Cardinality(positions),
             bits |-> IF k < last THEN rand[k]
                      ELSE XorSum([s \in Servers |-> IF s < last THEN rand[s] ELSE {iy}])]] :
          rand \in [0..(last - 1) -> {bits \cap positions : bits \in RandomBits}]}

Query ==
   /\ client = "query"
   /\ LET index == HashToIndex(id, dbInfo.NumRows * dbInfo.NumColumns)
          iy == index % dbInfo.NumColumns
      IN  /\ state' = [ix |-> index \div dbInfo.NumColumns, iy |-> iy]
          /\ queries' \in IF deployment.n = 2 THEN dpfGen(iy, BitsLen(dbInfo.NumColumns))
                                              ELSE secretShare(iy, dbInfo.NumColumns)
   /\ client' = "answers"
   /\ UNCHANGED <<net, loaded, infos, answers, block, result, crashed, reloaded>>

\* The vectors server k may see in its query.  A DPF key that is evaluated at
\* another depth, or is not evaluated at all, is any vector.
Understood(q, numColumns) ==
   IF deployment.two THEN q.dpf /\ q.depth = BitsLen(numColumns) ELSE ~q.dpf
Vectors(k) ==
   LET columns == 0..(db[k].NumColumns - 1)
   IN  IF Understood(queries[k], Cardinality(columns)) THEN {queries[k].bits \cap columns}
                                                       ELSE SUBSET columns
MayOverrun(k) ==
   LET numColumns == db[k].NumColumns
   IN  IF deployment.two THEN ~Understood(queries[k], numColumns)
                         ELSE ~queries[k].dpf /\ queries[k].length < numColumns

Byte(entry, m) == IF m <= Len(entry) THEN entry[m] ELSE Zero

\* Rows one after the other, each the sum of its blocks at the set bits.
AnswerTo(d, bits) ==
   [n \in 1..(d.NumRows * d.BlockSize) |->
      LET row == (n - 1) \div d.BlockSize
          m == ((n - 1) % d.BlockSize) + 1
      IN  XorSum([j \in bits |-> Byte(d.Entries[row * d.NumColumns + j], m)])]

Waiting(k) == client = "answers" /\ answers[k] = <<>>

Answer(k) ==
   /\ Waiting(k)
   /\ k \notin crashed
   /\ queries[k].dpf \/ ~MayOverrun(k)
   /\ \E bits \in Vectors(k) : answers' = [answers EXCEPT ![k] = AnswerTo(db[k], bits)]
   /\ UNCHANGED <<net, loaded, infos, state, queries, client, block, result, crashed, reloaded>>

\* An index out of range in the worker ends the server.
AnswerPanics(k) ==
   /\ Waiting(k)
   /\ k \notin crashed
   /\ MayOverrun(k)
   /\ crashed' = crashed \cup {k}
   /\ UNCHANGED <<net, loaded, infos, state, queries, answers, client, block, result, reloaded>>

\* Deviation: the client goes on waiting for a server that has ended.
RpcFails_Dev(k) ==
   /\ Waiting(k)
   /\ k \notin crashed /\ reloaded
   /\ Finish([outcome |-> "failed"])
   /\ UNCHANGED <<net, loaded, infos, state, queries, answers, block, crashed, reloaded>>

InfoAwaited(k) == client = "infos" /\ \A n \in DOMAIN infos : infos[n].server # k

\* log.Fatalf when a server ended or was restarted under a request.
RpcFails(k) ==
   /\ InfoAwaited(k) \/ Waiting(k)
   /\ k \in crashed \/ reloaded
   /\ Finish([outcome |-> "failed"])
   /\ UNCHANGED <<net, loaded, infos, state, queries, answers, block, crashed, reloaded>>

Reload(k) ==
   /\ ~reloaded
   /\ client # "done"
   /\ k \notin crashed
   /\ \E v \in Versions \ {version[k]} : /\ version' = [version EXCEPT ![k] = v]
                                          /\ db' = [db EXCEPT ![k] = DbOf(v)]
   /\ reloaded' = TRUE
   /\ UNCHANGED <<net, infos, state, queries, answers, client, block, result, crashed>>
-----------------------------------------------------------------------------
Offset == state.ix * dbInfo.BlockSize
TooShort == \E k \in Servers : Len(answers[k]) < Offset + dbInfo.BlockSize
Sum == [m \in 1..dbInfo.BlockSize |-> XorSum([k \in Servers |-> answers[k][Offset + m]])]

Panic == [outcome |-> "panic"]
Rejected == [outcome |-> "rejected"]

\* What reconstructPIR may do with a sum: the block, REJECT! or a panic.
\* DecodeProof of bytes that are no proof may run over their end.
reconstructPIR(sum) ==
   IF ~dbInfo.merkle THEN {[outcome |-> "block", data |-> sum]}
   ELSE IF UnPadPanics(sum) \/ Len(UnPadBlock(sum)) < ProofLen THEN {Panic}
   ELSE LET unpadded == UnPadBlock(sum)
            data == SubSeq(unpadded, 1, Len(unpadded) - ProofLen)
            proof == unpadded[Len(unpadded)]
        IN  IF ~IsProof(proof) THEN {Rejected, Panic}
            ELSE IF VerifyProof(data, proof, dbInfo.Root) THEN {[outcome |-> "block", data |-> data]}
            ELSE {Rejected}

\* A ring with garbled packets is an error, or the parser skips them.
FindKey(data) ==
   IF UnPadPanics(data) THEN {Panic}
   ELSE LET ring == UnPadBlock(data)
            found == {[outcome |-> "key", key |-> RecoverKeyFromBlock(ring, id)] :
                        n \in Holders(ring, id)}
        IN  IF IsKeyRing(ring)
            THEN IF found = {} THEN {[outcome |-> "notFound"]} ELSE found
            ELSE found \cup {[outcome |-> "invalid"]}

Reconstruct ==
   /\ client = "answers"
   /\ \A k \in Servers : answers[k] # <<>>
   /\ IF TooShort THEN block' = Panic ELSE \E sum \in {Sum} : block' \in reconstructPIR(sum)
   /\ \/ block'.outcome # "block" /\ Finish(block')
      \/ block'.outcome = "block" /\ \E r \in FindKey(block'.data) : Finish(r)
   /\ UNCHANGED <<net, loaded, infos, state, queries, answers, crashed, reloaded>>

ServerStep(k) == Answer(k) \/ AnswerPanics(k)
ClientStep == (\E k \in Servers : GetInfo(k) \/ RpcFails(k)) \/ CompareInfos \/ Query \/ Reconstruct

\* The client process has ended.
Terminated == client = "done" /\ UNCHANGED vars

Next == ClientStep \/ (\E k \in Servers : ServerStep(k) \/ Reload(k)) \/ Terminated

Fairness == WF_vars(ClientStep) /\ WF_vars(\E k \in Servers : ServerStep(k))
Spec == Init /\ [][Next]_vars /\ Fairness
-----------------------------------------------------------------------------
Outcomes == {"unequal", "failed", "panic", "rejected", "invalid", "notFound", "key"}

\* The state of the retrieval has the shape the code gives it: queries exist
\* once the client has shared the column, an answer has whole rows of blocks.
TypeOK ==
   /\ deployment \in Deployments /\ id \in Ids
   /\ version \in [Servers -> Versions] /\ DOMAIN db = Servers
   /\ Len(infos) <= deployment.n
   /\ client \in {"infos", "query", "answers", "done"}
   /\ client = "answers" => DOMAIN queries = Servers
   /\ \A k \in Servers : answers[k] # <<>> => queries # <<>>
   /\ (client = "done") = (result # Nil)
   /\ client = "done" => result.outcome \in Outcomes
   /\ crashed \subseteq Servers /\ reloaded \in BOOLEAN

\* All servers have had the same key file since before they were asked.
SameFile == ~reloaded /\ \A k \in Servers : version[k] = version[0]

Stored == {n \in DOMAIN Files[version[0]] : Files[version[0]][n].ID = id}
Neighbours ==
   LET length == db[0].NumRows * db[0].NumColumns
   IN  {n \in DOMAIN Files[version[0]] :
          HashToIndex(Files[version[0]][n].ID, length) = HashToIndex(id, length)}

\* With the same key file everywhere, a retrieval returns the key stored under
\* the email, and otherwise says that there is none - except that the client
\* panics when no key at all hashes to the block of the email.
StoredKeyFound ==
   client = "done" /\ SameFile =>
      IF Stored # {} THEN \E n \in Stored : result = [outcome |-> "key", key |-> Files[version[0]][n].Packet]
      ELSE result.outcome = IF Neighbours = {} THEN "panic" ELSE "notFound"

\* Whatever files the servers have loaded meanwhile, a block whose Merkle proof
\* the client accepts is a block of the database whose root it was first given.
AcceptedIsStored ==
   deployment.merkle /\ block # Nil /\ block.outcome = "block"
      => \E i \in DOMAIN dbInfo.Root : block.data = dbInfo.Root[i]

\* A key the client prints was under that email in the files of a server; with
\* Merkle proofs, in the very files the client's root is of.
DeliveredIsStored ==
   client = "done" /\ result.outcome = "key" =>
      \E v \in IF deployment.merkle THEN {infos[1].version} ELSE Versions :
         \E n \in DOMAIN Files[v] : Files[v][n] = [ID |-> id, Packet |-> result.key]

\* Every retrieval ends, with a key or an error or the end of the process.
RetrievalEnds == <>(client = "done")
=============================================================================
