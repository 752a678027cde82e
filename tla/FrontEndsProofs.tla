-------------------------- MODULE FrontEndsProofs --------------------------
(***************************************************************************)
(* The safety properties of FrontEnds, for every number of servers and     *)
(* jobs, all key files and all flags of a simulation.                      *)
(***************************************************************************)
EXTENDS FrontEnds, DataTheorems

LEMMA Constants ==
  /\ Programs \subseteq {"web", "interactive", "simulation"}
  /\ NumServers \in Nat /\ NumServers > 1 /\ NumJobs \in Nat /\ NumJobs > 0
  /\ BlockBits \in Nat /\ BlockBits > 0 /\ MaxFaults \in Nat
  /\ FirstVersions \subseteq [Servers -> Versions]
  /\ Jobs \subseteq Nat /\ Sids \subseteq Nat /\ 1 \in Jobs /\ 1 \in Sids
BY FrontEndsAssumption DEF Jobs, Sids

LEMMA CountSids == IsFiniteSet(Sids) /\ Cardinality(Sids) = NumServers
<1>1. NumServers \in Nat /\ NumServers > 1
  BY Constants
<1>2. /\ IsFiniteSet(1 .. NumServers)
      /\ Cardinality(1 .. NumServers) = IF 1 > NumServers THEN 0 ELSE NumServers - 1 + 1
  BY <1>1, FS_Interval
<1> QED
  BY <1>1, <1>2 DEF Sids

\* The orders of the servers are the permutations of their numbers.
LEMMA SidOrders ==
  /\ [i \in Sids |-> i] \in SetToSeqs(Sids)
  /\ \A to \in SetToSeqs(Sids) :
       /\ to \in [Sids -> Sids]
       /\ \A i \in Sids : \E n \in Sids : to[n] = i
<1>1. 1 .. Cardinality(Sids) = Sids
  BY CountSids DEF Sids
<1>2. [i \in Sids |-> i] \in SetToSeqs(Sids)
  BY <1>1 DEF SetToSeqs
<1>3. ASSUME NEW to \in SetToSeqs(Sids)
      PROVE  /\ to \in [Sids -> Sids]
             /\ \A i \in Sids : \E n \in Sids : to[n] = i
  <2>1. to \in [Sids -> Sids] /\ \A i, j \in Sids : i # j => to[i] # to[j]
    BY <1>1 DEF SetToSeqs
  <2>2. to \in Injection(Sids, Sids)
    BY <2>1 DEF Injection, IsInjective
  <2>3. to \in Surjection(Sids, Sids)
    BY <2>2, CountSids, FS_Injection
  <2> QED
    BY <2>1, <2>3 DEF Surjection
<1> QED
  BY <1>2, <1>3

\* However the map of servers is ranged over, every address gets to its place.
LEMMA ConfigInOrder ==
  ASSUME NEW order \in SetToSeqs(Sids)
  PROVE  LoadedConfig(order) = [i \in Sids |-> i]
<1>1. ASSUME NEW i \in Sids
      PROVE  order[CHOOSE n \in Sids : order[n] = i] = i
  BY SidOrders
<1> QED
  BY <1>1 DEF LoadedConfig
-----------------------------------------------------------------------------
(* Types.                                                                  *)
JobPcs   == {"idle", "handler", "infos", "queries", "closed"}
Kinds    == WebKinds \cup MenuKinds \cup {"point", "complex", None}
Forms    == {"good", "unparsed", "missing", "unknown", "unreadable", "interrupted", None}
Statuses == {0, 200, 400, 404, 500}
Texts    == {"error", "page", "key", "count", "not found",
             "value", "notFound", "reject", "panic"}

JobRecord == [pc : JobPcs, kind : Kinds, form : Forms, index : Int \cup {None},
              status : Statuses, body : Seq(Texts)]
CallRecord == [at : Places, share : Sids \cup {None}]
AnswerRecord == [job : Jobs, server : Servers, share : Sids \cup {None},
                 version : Versions]

\* The variables that are no part of a job.
ProgramTyped ==
  /\ program \in Programs
  /\ program = "simulation" => flags \in Flags
  /\ pc \in {"loading", "connecting", "running", "exited", "dead"}
  /\ pc # "loading" => addresses = [i \in Sids |-> i]
  /\ start \in Int \cup {None}
  /\ faults \in 0 .. MaxFaults

ServersTyped ==
  /\ version \in [Servers -> Versions]
  /\ queue \in [Servers -> Seq(Jobs)]
  /\ stopping \subseteq Servers

JobsTyped ==
  /\ job \in [Jobs -> JobRecord]
  /\ infos \in [Jobs -> [Servers -> Versions \cup {None}]]
  /\ call \in [Jobs -> [Servers -> CallRecord]]
  /\ resCh \in [Jobs -> SUBSET AnswerRecord]

TInv == ProgramTyped /\ ServersTyped /\ JobsTyped

\* What the helpers of a reply do to the record of a job.
SameRequest(r, q) == /\ r.pc = q.pc /\ r.kind = q.kind /\ r.form = q.form
                     /\ r.index = q.index

LEMMA Replies ==
  ASSUME NEW r \in JobRecord
  PROVE  /\ \A st \in Statuses :
              /\ WithError(r, st) \in JobRecord /\ SameRequest(WithError(r, st), r)
              /\ WithError(r, st).status = IF r.status = 0 THEN st ELSE r.status
              /\ WithError(r, st).body = Append(r.body, "error")
         /\ \A text \in Texts :
              /\ WithText(r, text) \in JobRecord /\ SameRequest(WithText(r, text), r)
              /\ WithText(r, text).status = IF r.status = 0 THEN 200 ELSE r.status
              /\ WithText(r, text).body = Append(r.body, text)
         /\ Returned(r) \in JobRecord /\ Returned(r).pc = "closed"
         /\ Returned(r).kind = r.kind /\ Returned(r).form = r.form
         /\ Returned(r).index = r.index
         /\ Returned(r).status = r.status /\ Returned(r).body = r.body
<1>1. /\ r.status \in Statuses /\ r.body \in Seq(Texts)
      /\ "error" \in Texts /\ 200 \in Statuses /\ "closed" \in JobPcs
  <2>1. r.status \in Statuses /\ r.body \in Seq(Texts)
    BY DEF JobRecord
  <2>2. "error" \in Texts /\ 200 \in Statuses /\ "closed" \in JobPcs
    BY DEF Texts, Statuses, JobPcs
  <2> QED
    BY <2>1, <2>2, Zenon
<1>2. ASSUME NEW x \in Statuses, NEW y \in Seq(Texts)
      PROVE  /\ [r EXCEPT !.status = x, !.body = y] \in JobRecord
             /\ SameRequest([r EXCEPT !.status = x, !.body = y], r)
             /\ [r EXCEPT !.status = x, !.body = y].status = x
             /\ [r EXCEPT !.status = x, !.body = y].body = y
  <2> DEFINE q == [r EXCEPT !.status = x]
             p == [q EXCEPT !.body = y]
  <2>1. [r EXCEPT !.status = x, !.body = y] = p
    BY DEF JobRecord
  <2>2. q \in JobRecord /\ q.status = x /\ SameRequest(q, r)
    BY DEF JobRecord, SameRequest
  <2> HIDE DEF q
  <2>3. p \in JobRecord /\ p.body = y /\ p.status = q.status /\ SameRequest(p, q)
    BY <2>2 DEF JobRecord, SameRequest
  <2> HIDE DEF p
  <2> QED
    BY <2>1, <2>2, <2>3 DEF SameRequest
<1>3. \A text \in Texts : Append(r.body, text) \in Seq(Texts)
  BY <1>1
<1>4. ASSUME NEW st \in Statuses
      PROVE  /\ WithError(r, st) \in JobRecord /\ SameRequest(WithError(r, st), r)
             /\ WithError(r, st).status = IF r.status = 0 THEN st ELSE r.status
             /\ WithError(r, st).body = Append(r.body, "error")
  <2> DEFINE x == IF r.status = 0 THEN st ELSE r.status
             y == Append(r.body, "error")
  <2>1. x \in Statuses /\ y \in Seq(Texts)
    BY <1>1, <1>3
  <2> DEFINE q == [r EXCEPT !.status = x, !.body = y]
  <2>2. WithError(r, st) = q
    BY DEF WithError
  <2> HIDE DEF x, y
  <2>4. q \in JobRecord /\ SameRequest(q, r) /\ q.status = x /\ q.body = y
    BY <1>2, <2>1
  <2> HIDE DEF q
  <2>3. /\ WithError(r, st) \in JobRecord /\ SameRequest(WithError(r, st), r)
        /\ WithError(r, st).status = x /\ WithError(r, st).body = y
    BY <2>2, <2>4
  <2> QED
    BY <2>3 DEF x, y
<1>5. ASSUME NEW text \in Texts
      PROVE  /\ WithText(r, text) \in JobRecord /\ SameRequest(WithText(r, text), r)
             /\ WithText(r, text).status = IF r.status = 0 THEN 200 ELSE r.status
             /\ WithText(r, text).body = Append(r.body, text)
  <2> DEFINE x == IF r.status = 0 THEN 200 ELSE r.status
             y == Append(r.body, text)
  <2>1. x \in Statuses /\ y \in Seq(Texts)
    BY <1>1, <1>3
  <2> DEFINE q == [r EXCEPT !.status = x, !.body = y]
  <2>2. WithText(r, text) = q
    BY DEF WithText
  <2> HIDE DEF x, y
  <2>4. q \in JobRecord /\ SameRequest(q, r) /\ q.status = x /\ q.body = y
    BY <1>2, <2>1
  <2> HIDE DEF q
  <2>3. /\ WithText(r, text) \in JobRecord /\ SameRequest(WithText(r, text), r)
        /\ WithText(r, text).status = x /\ WithText(r, text).body = y
    BY <2>2, <2>4
  <2> QED
    BY <2>3 DEF x, y
<1>6. /\ Returned(r) \in JobRecord /\ Returned(r).pc = "closed"
      /\ Returned(r).kind = r.kind /\ Returned(r).form = r.form
      /\ Returned(r).index = r.index
      /\ Returned(r).status = r.status /\ Returned(r).body = r.body
  BY <1>1 DEF Returned, JobRecord
<1> QED
  BY <1>4, <1>5, <1>6

\* What a step makes of the record of a job: a new place, request or index.
Placed(r, p) == [r EXCEPT !.pc = p]
Begun(r, p, k) == [r EXCEPT !.pc = p, !.kind = k]
Asked(r, p, k, f) == [r EXCEPT !.pc = p, !.kind = k, !.form = f]
Indexed(r, p, k, i) == [r EXCEPT !.pc = p, !.kind = k, !.index = i]

\* The record q is r, but for its place, kind, form and index.
IsUpdate(q, r, p, k, f, i) ==
  /\ q \in JobRecord /\ q.pc = p /\ q.kind = k /\ q.form = f /\ q.index = i
  /\ q.status = r.status /\ q.body = r.body

LEMMA OneField ==
  ASSUME NEW r \in JobRecord
  PROVE  /\ \A p \in JobPcs : IsUpdate([r EXCEPT !.pc = p], r, p, r.kind, r.form, r.index)
         /\ \A k \in Kinds : IsUpdate([r EXCEPT !.kind = k], r, r.pc, k, r.form, r.index)
         /\ \A f \in Forms : IsUpdate([r EXCEPT !.form = f], r, r.pc, r.kind, f, r.index)
         /\ \A i \in Int : IsUpdate([r EXCEPT !.index = i], r, r.pc, r.kind, r.form, i)
<1>1. ASSUME NEW p \in JobPcs
      PROVE  IsUpdate([r EXCEPT !.pc = p], r, p, r.kind, r.form, r.index)
  BY DEF JobRecord, IsUpdate
<1>2. ASSUME NEW k \in Kinds
      PROVE  IsUpdate([r EXCEPT !.kind = k], r, r.pc, k, r.form, r.index)
  BY DEF JobRecord, IsUpdate
<1>3. ASSUME NEW f \in Forms
      PROVE  IsUpdate([r EXCEPT !.form = f], r, r.pc, r.kind, f, r.index)
  BY DEF JobRecord, IsUpdate
<1>4. ASSUME NEW i \in Int
      PROVE  IsUpdate([r EXCEPT !.index = i], r, r.pc, r.kind, r.form, i)
  BY DEF JobRecord, IsUpdate
<1> QED
  BY <1>1, <1>2, <1>3, <1>4

LEMMA Updates ==
  ASSUME NEW r \in JobRecord, NEW p \in JobPcs
  PROVE  /\ IsUpdate(Placed(r, p), r, p, r.kind, r.form, r.index)
         /\ \A k \in Kinds : IsUpdate(Begun(r, p, k), r, p, k, r.form, r.index)
         /\ \A k \in Kinds, f \in Forms : IsUpdate(Asked(r, p, k, f), r, p, k, f, r.index)
         /\ \A k \in Kinds, i \in Int : IsUpdate(Indexed(r, p, k, i), r, p, k, r.form, i)
<1> DEFINE a == [r EXCEPT !.pc = p]
<1>1. IsUpdate(a, r, p, r.kind, r.form, r.index)
  BY OneField
<1>2. ASSUME NEW k \in Kinds
      PROVE  Begun(r, p, k) = [a EXCEPT !.kind = k]
  BY DEF JobRecord, Begun
<1>3. ASSUME NEW k \in Kinds, NEW f \in Forms
      PROVE  Asked(r, p, k, f) = [Begun(r, p, k) EXCEPT !.form = f]
  BY DEF JobRecord, Asked, Begun
<1>4. ASSUME NEW k \in Kinds, NEW i \in Int
      PROVE  Indexed(r, p, k, i) = [Begun(r, p, k) EXCEPT !.index = i]
  BY DEF JobRecord, Indexed, Begun
<1>5. Placed(r, p) = a
  BY DEF Placed
<1> HIDE DEF a
<1>6. ASSUME NEW k \in Kinds
      PROVE  IsUpdate(Begun(r, p, k), r, p, k, r.form, r.index)
  <2>1. a \in JobRecord
    BY <1>1 DEF IsUpdate
  <2>2. IsUpdate([a EXCEPT !.kind = k], a, a.pc, k, a.form, a.index)
    BY <2>1, OneField
  <2> QED
    BY <1>1, <1>2, <2>2 DEF IsUpdate
<1>7. ASSUME NEW k \in Kinds, NEW f \in Forms
      PROVE  IsUpdate(Asked(r, p, k, f), r, p, k, f, r.index)
  <2> DEFINE b == Begun(r, p, k)
  <2>1. IsUpdate(b, r, p, k, r.form, r.index) /\ Asked(r, p, k, f) = [b EXCEPT !.form = f]
    BY <1>3, <1>6
  <2> HIDE DEF b
  <2>2. b \in JobRecord
    BY <2>1 DEF IsUpdate
  <2>3. IsUpdate([b EXCEPT !.form = f], b, b.pc, b.kind, f, b.index)
    BY <2>2, OneField
  <2> QED
    BY <2>1, <2>3 DEF IsUpdate
<1>8. ASSUME NEW k \in Kinds, NEW i \in Int
      PROVE  IsUpdate(Indexed(r, p, k, i), r, p, k, r.form, i)
  <2> DEFINE b == Begun(r, p, k)
  <2>1. IsUpdate(b, r, p, k, r.form, r.index) /\ Indexed(r, p, k, i) = [b EXCEPT !.index = i]
    BY <1>4, <1>6
  <2> HIDE DEF b
  <2>2. b \in JobRecord
    BY <2>1 DEF IsUpdate
  <2>3. IsUpdate([b EXCEPT !.index = i], b, b.pc, b.kind, b.form, i)
    BY <2>2, OneField
  <2> QED
    BY <2>1, <2>3 DEF IsUpdate
<1> QED
  BY <1>1, <1>5, <1>6, <1>7, <1>8

\* What the end of a job makes of a record that has no reply yet.
Results == {"value", "notFound", "reject", "panic"}

LEMMA EndOfJob ==
  ASSUME NEW r \in JobRecord, r.status = 0, r.body = <<>>, NEW outcome \in Results
  PROVE  /\ LET q == Returned(Handled(r, outcome))
            IN  /\ q \in JobRecord /\ q.pc = "closed"
                /\ q.kind = r.kind /\ q.form = r.form /\ q.index = r.index
                /\ Len(q.body) <= 2 /\ (q.status = 200 => Len(q.body) = 1)
                /\ outcome = "reject" => q.status # 200
         /\ LET q == Returned(WithText(r, outcome))
            IN  /\ q \in JobRecord /\ q.pc = "closed"
                /\ q.kind = r.kind /\ q.form = r.form /\ q.index = r.index
                /\ q.body = <<outcome>>
<1>1. outcome \in Texts /\ 500 \in Statuses /\ "not found" \in Texts
      /\ "key" \in Texts /\ "count" \in Texts
  BY ZenonT(40) DEF Results, Texts, Statuses
<1>2. ASSUME NEW text \in Texts
      PROVE  LET q == WithText(r, text)
             IN  q \in JobRecord /\ SameRequest(q, r) /\ q.body = <<text>> /\ q.status = 200
  BY Replies
<1>8. ASSUME NEW text \in Texts
      PROVE  /\ WithText(r, text) \in JobRecord /\ SameRequest(WithText(r, text), r)
             /\ Len(WithText(r, text).body) <= 2
             /\ WithText(r, text).status = 200 => Len(WithText(r, text).body) = 1
  <2> DEFINE q == WithText(r, text)
  <2>1. q \in JobRecord /\ SameRequest(q, r) /\ q.body = <<text>>
    BY <1>2
  <2> HIDE DEF q
  <2>2. Len(q.body) = 1
    BY <2>1
  <2> QED
    BY <2>1, <2>2 DEF q
<1>3. /\ WithError(r, 500) \in JobRecord /\ SameRequest(WithError(r, 500), r)
      /\ WithError(r, 500).body = <<"error">> /\ WithError(r, 500).status = 500
  <2>1. \A st \in Statuses :
              /\ WithError(r, st) \in JobRecord /\ SameRequest(WithError(r, st), r)
              /\ WithError(r, st).status = st
              /\ WithError(r, st).body = <<"error">>
    BY Replies
  <2> DEFINE n == 500
  <2>2. n \in Statuses
    BY <1>1
  <2> HIDE DEF n
  <2>3. /\ WithError(r, n) \in JobRecord /\ SameRequest(WithError(r, n), r)
        /\ WithError(r, n).body = <<"error">> /\ WithError(r, n).status = n
    BY <2>1, <2>2, Zenon
  <2> QED
    BY <2>3 DEF n
<1> DEFINE IsError(q) == /\ q \in JobRecord /\ SameRequest(q, r)
                         /\ Len(q.body) <= 2 /\ q.status = 500
           IsReply(q) == /\ q \in JobRecord /\ SameRequest(q, r)
                         /\ Len(q.body) <= 2 /\ (q.status = 200 => Len(q.body) = 1)
                         /\ outcome = "reject" => q.status # 200
<1>4. IsError(Failed(r))
  <2> DEFINE e == WithError(r, 500)
             q == WithText(e, "count")
  <2>1. e \in JobRecord /\ SameRequest(e, r) /\ e.body = <<"error">> /\ e.status = 500
    BY <1>3
  <2> HIDE DEF e
  <2>2. q \in JobRecord /\ SameRequest(q, e) /\ q.status = 500 /\ q.body = Append(e.body, "count")
    <3>1. \A text \in Texts :
              /\ WithText(e, text) \in JobRecord /\ SameRequest(WithText(e, text), e)
              /\ WithText(e, text).status = IF e.status = 0 THEN 200 ELSE e.status
              /\ WithText(e, text).body = Append(e.body, text)
      <4>1. e \in JobRecord
        BY <2>1
      <4> QED
        BY ONLY <4>1, Replies, Zenon
    <3>2. /\ q \in JobRecord /\ SameRequest(q, e)
          /\ q.status = IF e.status = 0 THEN 200 ELSE e.status
          /\ q.body = Append(e.body, "count")
      BY <1>1, <3>1
    <3> QED
      BY <2>1, <3>2
  <2>3. Len(q.body) = 2
    <3>1. e.body \in Seq(Texts)
      BY <2>1 DEF JobRecord
    <3>2. Len(e.body) = 1
      BY <2>1
    <3>3. \A s \in Seq(Texts), t \in Texts : Len(Append(s, t)) = Len(s) + 1
      OBVIOUS
    <3>4. Len(Append(e.body, "count")) = 1 + 1
      BY <1>1, <3>1, <3>2, <3>3
    <3> HIDE DEF q
    <3> QED
      BY <2>2, <3>4
  <2> HIDE DEF q
  <2>4. Failed(r) = IF WritesOn(r.kind) THEN q ELSE e
    BY DEF Failed, q, e
  <2>5. Len(e.body) = 1
    BY <2>1
  <2>6. SameRequest(q, r)
    BY <2>1, <2>2 DEF SameRequest
  <2>7. IsError(q)
    BY <2>2, <2>3, <2>6
  <2>8. IsError(e)
    BY <2>1, <2>5
  <2> HIDE DEF IsError, q
  <2> QED
    BY <2>4, <2>7, <2>8
<1>5. IsReply(Handled(r, outcome))
  <2>1. CASE outcome = "value"
    <3>1. Value(r.kind) \in Texts
      BY <1>1 DEF Value
    <3>2. Handled(r, outcome) = WithText(r, Value(r.kind))
      BY <2>1, Zenon DEF Handled
    <3>3. IsReply(WithText(r, Value(r.kind)))
      BY <1>8, <2>1, <3>1
    <3> HIDE DEF IsReply
    <3> QED
      BY <3>2, <3>3
  <2>2. CASE outcome = "notFound"
    <3>1. Handled(r, outcome) = WithText(r, "not found")
      BY <2>2, Zenon DEF Handled
    <3>2. IsReply(WithText(r, "not found"))
      BY <1>1, <1>8, <2>2
    <3> HIDE DEF IsReply
    <3> QED
      BY <3>1, <3>2
  <2>3. CASE outcome = "reject"
    <3>1. Handled(r, outcome) = Failed(r)
      BY <2>3 DEF Handled
    <3>2. ASSUME NEW q, IsError(q)
          PROVE  IsReply(q)
      BY <3>2
    <3> HIDE DEF IsError, IsReply
    <3> QED
      BY <1>4, <3>1, <3>2
  <2>4. CASE outcome = "panic"
    <3>1. Handled(r, outcome) = r
      BY <2>4 DEF Handled
    <3>2. Len(r.body) = 0 /\ SameRequest(r, r)
      BY DEF SameRequest
    <3>3. r.status # 200
      OBVIOUS
    <3>4. IsReply(r)
      BY <3>2, <3>3
    <3> HIDE DEF IsReply
    <3> QED
      BY <3>1, <3>4
  <2>5. \/ outcome = "value" \/ outcome = "notFound" \/ outcome = "reject"
        \/ outcome = "panic"
    BY DEF Results
  <2> HIDE DEF IsReply
  <2> QED
    BY <2>1, <2>2, <2>3, <2>4, <2>5
<1>6. LET q == Returned(Handled(r, outcome))
      IN  /\ q \in JobRecord /\ q.pc = "closed"
          /\ q.kind = r.kind /\ q.form = r.form /\ q.index = r.index
          /\ Len(q.body) <= 2 /\ (q.status = 200 => Len(q.body) = 1)
          /\ outcome = "reject" => q.status # 200
  <2> DEFINE h == Handled(r, outcome)
  <2> HIDE DEF h
  <2>1. h \in JobRecord /\ SameRequest(h, r) /\ Len(h.body) <= 2
        /\ (h.status = 200 => Len(h.body) = 1)
        /\ (outcome = "reject" => h.status # 200)
    BY <1>5 DEF h
  <2> QED
    BY <2>1, Replies DEF h, SameRequest
<1>7. LET q == Returned(WithText(r, outcome))
      IN  /\ q \in JobRecord /\ q.pc = "closed"
          /\ q.kind = r.kind /\ q.form = r.form /\ q.index = r.index
          /\ q.body = <<outcome>>
  <2> DEFINE h == WithText(r, outcome)
  <2> HIDE DEF h
  <2>1. h \in JobRecord /\ SameRequest(h, r) /\ h.body = <<outcome>>
    BY <1>1, <1>2 DEF h
  <2> QED
    BY <2>1, Replies DEF h, SameRequest
<1> QED
  BY <1>6, <1>7
-----------------------------------------------------------------------------
(* What the steps do, in terms of the record that a job gets.              *)
Becomes(j, q) == q \in JobRecord /\ job' = [job EXCEPT ![j] = q]

\* The same request.
Keeps(j, q) == q.kind = job[j].kind /\ q.form = job[j].form

\* The same reply.
Silent(j, q) == q.status = job[j].status /\ q.body = job[j].body

NoReply(j) == job[j].status = 0 /\ job[j].body = <<>>

LEMMA RecordOf == ASSUME JobsTyped, NEW j \in Jobs PROVE job[j] \in JobRecord
BY DEF JobsTyped

LEMMA FormSets ==
  /\ \A k \in WebKinds : WebForms(k) \subseteq Forms /\ "interrupted" \notin WebForms(k)
  /\ "unreadable" \notin PromptForms
  /\ PromptForms \subseteq Forms /\ WebKinds \subseteq Kinds /\ MenuKinds \subseteq Kinds
<1>1. ASSUME NEW k \in WebKinds
      PROVE  \/ WebForms(k) = {"good", "unknown"}
             \/ WebForms(k) = {"good", "unparsed", "missing", "unknown"}
             \/ WebForms(k) = {"good", "unparsed", "missing", "unreadable"}
             \/ WebForms(k) = {"good", "unparsed", "missing"}
  BY Zenon DEF WebForms, WebKinds
<1> QED
  BY <1>1 DEF Forms, PromptForms, Kinds

LEMMA ArriveEffect ==
  ASSUME TInv, NEW j \in Jobs, Arrive(j)
  PROVE  /\ pc = "running" /\ program # "simulation" /\ NextJob(j)
         /\ UNCHANGED <<client, infos, call, resCh, server>>
         /\ \E q : /\ Becomes(j, q) /\ q.pc = "handler" /\ Silent(j, q)
                   /\ q.index = job[j].index
                   /\ program = "web" => q.kind \in WebKinds /\ q.form \in WebForms(q.kind)
                   /\ program = "interactive" => q.kind \in MenuKinds /\ q.form \in PromptForms
<1>0. PICK kind \in (IF program = "web" THEN WebKinds ELSE MenuKinds) :
        \E form \in (IF program = "web" THEN WebForms(kind) ELSE PromptForms) :
          job' = [job EXCEPT ![j] =
                    [job[j] EXCEPT !.pc = "handler", !.kind = kind, !.form = form]]
  BY DEF Arrive
<1>1. PICK form \in (IF program = "web" THEN WebForms(kind) ELSE PromptForms) :
        job' = [job EXCEPT ![j] =
                  [job[j] EXCEPT !.pc = "handler", !.kind = kind, !.form = form]]
  BY <1>0
<1> DEFINE q == Asked(job[j], "handler", kind, form)
<1>2. kind \in Kinds /\ form \in Forms /\ "handler" \in JobPcs
  BY <1>1, FormSets DEF JobPcs
<1>3. /\ q \in JobRecord /\ q.pc = "handler" /\ q.kind = kind /\ q.form = form
      /\ q.index = job[j].index /\ q.status = job[j].status /\ q.body = job[j].body
  <2>1. job[j] \in JobRecord
    BY RecordOf DEF TInv
  <2>2. IsUpdate(q, job[j], "handler", kind, form, job[j].index)
    BY <1>2, <2>1, Updates
  <2> QED
    BY <2>2 DEF IsUpdate
<1>4. job' = [job EXCEPT ![j] = q]
  BY <1>1 DEF Asked
<1> HIDE DEF q
<1>5. Becomes(j, q) /\ Silent(j, q)
  BY <1>3, <1>4 DEF Becomes, Silent
<1>6. /\ program = "web" => q.kind \in WebKinds /\ q.form \in WebForms(q.kind)
      /\ program = "interactive" => q.kind \in MenuKinds /\ q.form \in PromptForms
  BY <1>1, <1>3
<1> QED
  BY <1>3, <1>5, <1>6 DEF Arrive

LEMMA CheckFormEffect ==
  ASSUME TInv, NEW j \in Jobs, NoReply(j), CheckForm(j)
  PROVE  /\ pc = "running" /\ job[j].pc = "handler"
         /\ UNCHANGED <<infos, call, resCh, server>>
         /\ \/ /\ job[j].form \in {"unreadable", "interrupted"}
               /\ pc' = "dead" /\ job' = job
               /\ UNCHANGED <<program, flags, addresses, start>>
            \/ /\ UNCHANGED client
               /\ \E q : /\ Becomes(j, q) /\ Keeps(j, q) /\ q.index = job[j].index
                         /\ \/ q.pc = "infos" /\ Silent(j, q)
                            \/ /\ q.pc = "closed" /\ Len(q.body) <= 2
                               /\ q.status = 200 => Len(q.body) = 1 /\ q.kind = "index"
<1> DEFINE r == job[j]
<1>1. r \in JobRecord /\ r.status = 0 /\ r.body = <<>>
  BY RecordOf DEF NoReply, TInv
<1>2. /\ pc = "running" /\ r.pc = "handler" /\ UNCHANGED <<infos, call, resCh, server>>
  BY DEF CheckForm
<1> DEFINE E(st) == job' = [job EXCEPT ![j] = Returned(WithError(r, st))] /\ UNCHANGED client
<1>3. \/ r.form \in {"unreadable", "interrupted"} /\ Fatal /\ UNCHANGED job
      \/ E(400)
      \/ E(IF r.kind = "index" THEN 404 ELSE 500)
      \/ r.kind = "index" /\ job' = [job EXCEPT ![j] = Returned(WithText(r, "page"))]
         /\ UNCHANGED client
      \/ job' = [job EXCEPT ![j] = [job[j] EXCEPT !.pc = "infos"]] /\ UNCHANGED client
  BY Zenon DEF CheckForm
<1> HIDE DEF E
<1>4. CASE r.form \in {"unreadable", "interrupted"} /\ Fatal /\ UNCHANGED job
  BY <1>2, <1>4 DEF Fatal
<1>5. ASSUME NEW st \in Statuses, st # 200, st # 0, E(st)
      PROVE  /\ UNCHANGED client
             /\ \E q : /\ Becomes(j, q) /\ Keeps(j, q) /\ q.index = job[j].index
                       /\ q.pc = "closed" /\ Len(q.body) <= 2
                       /\ q.status = 200 => Len(q.body) = 1 /\ q.kind = "index"
  <2> DEFINE e == WithError(r, st)
             q == Returned(e)
  <2>1. e \in JobRecord /\ SameRequest(e, r) /\ e.status = st /\ e.body = <<"error">>
    BY <1>1, Replies
  <2>2. job' = [job EXCEPT ![j] = q] /\ UNCHANGED client
    BY <1>5 DEF E
  <2> HIDE DEF e
  <2>3. /\ q \in JobRecord /\ q.pc = "closed" /\ q.kind = e.kind /\ q.form = e.form
        /\ q.index = e.index /\ q.status = e.status /\ q.body = e.body
    BY <2>1, Replies
  <2> HIDE DEF q
  <2>4. Len(q.body) = 1 /\ q.status # 200
    BY <1>5, <2>1, <2>3
  <2>5. Becomes(j, q) /\ Keeps(j, q) /\ q.index = job[j].index /\ q.pc = "closed"
    BY <2>1, <2>2, <2>3 DEF Becomes, Keeps, SameRequest
  <2>6. Len(q.body) <= 2
    BY <2>4
  <2> QED
    BY <2>2, <2>4, <2>5, <2>6
<1>6. CASE E(400)
  <2>1. 400 \in Statuses /\ 400 # 200 /\ 400 # 0
    BY DEF Statuses
  <2> QED
    BY <1>2, <1>5, <1>6, <2>1
<1>7. CASE E(IF r.kind = "index" THEN 404 ELSE 500)
  <2> DEFINE st == IF r.kind = "index" THEN 404 ELSE 500
  <2>1. st \in Statuses /\ st # 200 /\ st # 0
    BY DEF Statuses
  <2>2. E(st)
    BY <1>7
  <2> HIDE DEF st
  <2> QED
    BY <1>2, <1>5, <2>1, <2>2
<1>8. CASE r.kind = "index" /\ job' = [job EXCEPT ![j] = Returned(WithText(r, "page"))]
           /\ UNCHANGED client
  <2> DEFINE e == WithText(r, "page")
             q == Returned(e)
  <2>1. e \in JobRecord /\ SameRequest(e, r) /\ e.body = <<"page">>
    <3>1. \A text \in Texts : /\ WithText(r, text) \in JobRecord
                              /\ SameRequest(WithText(r, text), r)
                              /\ WithText(r, text).body = <<text>>
      BY <1>1, Replies
    <3> QED
      BY <3>1 DEF Texts
  <2> HIDE DEF e
  <2>2. /\ q \in JobRecord /\ q.pc = "closed" /\ q.kind = e.kind /\ q.form = e.form
        /\ q.index = e.index /\ q.status = e.status /\ q.body = e.body
    BY <2>1, Replies
  <2>3. job' = [job EXCEPT ![j] = q] /\ UNCHANGED client /\ r.kind = "index"
    BY <1>8 DEF e
  <2> HIDE DEF q
  <2>4. Len(q.body) = 1
    BY <2>1, <2>2
  <2>5. Becomes(j, q) /\ Keeps(j, q) /\ q.index = job[j].index /\ q.kind = "index"
    BY <2>1, <2>2, <2>3 DEF Becomes, Keeps, SameRequest
  <2>6. Len(q.body) <= 2
    BY <2>4
  <2> QED
    BY <1>2, <2>2, <2>3, <2>4, <2>5, <2>6
<1>9. CASE job' = [job EXCEPT ![j] = [job[j] EXCEPT !.pc = "infos"]] /\ UNCHANGED client
  <2> DEFINE q == Placed(job[j], "infos")
  <2>1. /\ q \in JobRecord /\ q.pc = "infos" /\ q.kind = r.kind /\ q.form = r.form
        /\ q.index = r.index /\ q.status = r.status /\ q.body = r.body
    <3>1. "infos" \in JobPcs
      BY DEF JobPcs
    <3>2. IsUpdate(q, r, "infos", r.kind, r.form, r.index)
      BY <1>1, <3>1, Updates
    <3> QED
      BY <3>2 DEF IsUpdate
  <2>2. job' = [job EXCEPT ![j] = q] /\ UNCHANGED client
    BY <1>9 DEF Placed
  <2> HIDE DEF q
  <2> QED
    BY <1>2, <2>1, <2>2 DEF Becomes, Keeps, Silent
<1> QED
  BY <1>3, <1>4, <1>6, <1>7, <1>8, <1>9

LEMMA EndsEffect ==
  ASSUME TInv, NEW j \in Jobs, NoReply(j), NEW outcome \in Results, Ends(j, outcome)
  PROVE  /\ UNCHANGED <<infos, call, resCh, server>>
         /\ UNCHANGED <<program, flags, addresses, start>>
         /\ \E q : /\ Becomes(j, q) /\ q.pc = "closed" /\ Keeps(j, q)
                   /\ q.index = job[j].index /\ Len(q.body) <= 2
                   /\ program = "web" /\ q.status = 200 => Len(q.body) = 1
                   /\ program = "web" /\ outcome = "reject" => q.status # 200
                   /\ \/ pc' = pc
                      \/ /\ pc' = "dead" /\ program # "web"
                         /\ outcome \notin Tolerated /\ q.body = <<outcome>>
<1> DEFINE r == job[j]
           h == Returned(Handled(r, outcome))
           t == Returned(WithText(r, outcome))
<1>1. /\ h \in JobRecord /\ h.pc = "closed"
      /\ h.kind = r.kind /\ h.form = r.form /\ h.index = r.index
      /\ Len(h.body) <= 2 /\ (h.status = 200 => Len(h.body) = 1)
      /\ outcome = "reject" => h.status # 200
  BY EndOfJob, RecordOf DEF NoReply, TInv
<1>2. /\ t \in JobRecord /\ t.pc = "closed"
      /\ t.kind = r.kind /\ t.form = r.form /\ t.index = r.index
      /\ t.body = <<outcome>>
  BY EndOfJob, RecordOf DEF NoReply, TInv
<1>3. CASE program = "web"
  <2>1. job' = [job EXCEPT ![j] = h] /\ UNCHANGED <<client, infos, call, resCh, server>>
    BY <1>3 DEF Ends, HandlerEnds
  <2> HIDE DEF h
  <2>2. Becomes(j, h) /\ Keeps(j, h)
    BY <1>1, <2>1 DEF Becomes, Keeps
  <2> QED
    BY <1>1, <1>3, <2>1, <2>2 DEF client
<1>4. CASE program # "web"
  <2>1. job' = [job EXCEPT ![j] = t] /\ UNCHANGED <<infos, call, resCh, server>>
        /\ \/ UNCHANGED client
           \/ outcome \notin Tolerated /\ Fatal
    BY <1>4 DEF Ends, SessionGoesOn
  <2> HIDE DEF t
  <2>2. Becomes(j, t) /\ Keeps(j, t)
    BY <1>2, <2>1 DEF Becomes, Keeps
  <2>3. Len(t.body) = 1
    BY <1>2
  <2>4. Len(t.body) <= 2
    BY <2>3
  <2> QED
    BY <1>2, <1>4, <2>1, <2>2, <2>4 DEF client, Fatal
<1> QED
  BY <1>3, <1>4

LEMMA FirstInfoEffect ==
  ASSUME TInv, FirstInfo
  PROVE  /\ pc = "running" /\ program = "simulation" /\ job[1].pc = "idle"
         /\ UNCHANGED <<client, infos, call, resCh, server>>
         /\ \E q : /\ Becomes(1, q) /\ q.pc = "infos" /\ Silent(1, q)
                   /\ q.index = job[1].index /\ q.kind \in {"point", "complex"}
<1> DEFINE k == IF flags.scheme = "point" THEN "point" ELSE "complex"
           q == Begun(job[1], "infos", k)
<1>1. k \in Kinds /\ k \in {"point", "complex"} /\ "infos" \in JobPcs /\ 1 \in Jobs
  BY Constants DEF Kinds, JobPcs
<1>2. job' = [job EXCEPT ![1] = q]
  BY DEF FirstInfo, Begun
<1>3. job[1] \in JobRecord
  BY <1>1, RecordOf DEF TInv
<1> HIDE DEF k
<1>4. IsUpdate(q, job[1], "infos", k, job[1].form, job[1].index)
  BY <1>1, <1>3, Updates
<1> HIDE DEF q
<1>5. Becomes(1, q) /\ q.pc = "infos" /\ Silent(1, q) /\ q.index = job[1].index
      /\ q.kind \in {"point", "complex"}
  BY <1>1, <1>2, <1>4 DEF IsUpdate, Becomes, Silent
<1> QED
  BY <1>5 DEF FirstInfo

\* The queries of one job go to the servers of one group.
SentTo(j, group) ==
  /\ call' \in [Jobs -> [Servers -> CallRecord]]
  /\ \A k \in Jobs : k # j => call'[k] = call[k]
  /\ \A s \in Servers :
       IF s[1] = group
       THEN /\ call'[j][s].at = "sent"
            /\ program # "simulation" => call'[j][s].share = s[2]
       ELSE call'[j][s] = call[j][s]

LEMMA RunQueriesEffect ==
  ASSUME TInv, pc # "loading", NEW j \in Jobs, NEW group \in Groups, RunQueries(j, group)
  PROVE  SentTo(j, group)
<1>1. PICK to \in Destinations :
        call' = [call EXCEPT ![j] =
                   [s \in Servers |->
                      IF s[1] = group
                      THEN [at |-> "sent", share |-> CHOOSE i \in Sids : to[i] = s[2]]
                      ELSE call[j][s]]]
  BY DEF RunQueries
<1>2. to \in SetToSeqs(Sids) /\ (program # "simulation" => to = [i \in Sids |-> i])
  BY SidOrders DEF Destinations, TInv, ProgramTyped
<1> DEFINE share(s) == CHOOSE i \in Sids : to[i] = s[2]
           row == [s \in Servers |-> IF s[1] = group THEN [at |-> "sent", share |-> share(s)]
                                                     ELSE call[j][s]]
<1>3. ASSUME NEW s \in Servers
      PROVE  share(s) \in Sids /\ to[share(s)] = s[2]
  <2>1. s[2] \in Sids
    BY DEF Servers
  <2>2. \E i \in Sids : to[i] = s[2]
    BY <1>2, <2>1, SidOrders
  <2> QED
    BY <2>2
<1>4. ASSUME NEW s \in Servers, program # "simulation"
      PROVE  share(s) = s[2]
  BY <1>2, <1>3, <1>4
<1> HIDE DEF share
<1>5. call \in [Jobs -> [Servers -> CallRecord]]
  BY DEF TInv, JobsTyped
<1>6. row \in [Servers -> CallRecord]
  <2>1. ASSUME NEW s \in Servers
        PROVE  (IF s[1] = group THEN [at |-> "sent", share |-> share(s)] ELSE call[j][s])
                 \in CallRecord
    <3>1. [at |-> "sent", share |-> share(s)] \in CallRecord
      BY <1>3 DEF CallRecord, Places
    <3>2. call[j][s] \in CallRecord
      BY <1>5
    <3> QED
      BY <3>1, <3>2
  <2> QED
    BY <2>1
<1>7. call' = [call EXCEPT ![j] = row]
  BY <1>1 DEF share
<1>8. \A s \in Servers : row[s] = IF s[1] = group THEN [at |-> "sent", share |-> share(s)]
                                                  ELSE call[j][s]
  OBVIOUS
<1> HIDE DEF row
<1>9. call'[j] = row /\ \A k \in Jobs : k # j => call'[k] = call[k]
  BY <1>5, <1>7
<1>10. call' \in [Jobs -> [Servers -> CallRecord]]
  BY <1>5, <1>6, <1>7
<1> DEFINE goal(s) == IF s[1] = group
                      THEN /\ call'[j][s].at = "sent"
                           /\ program # "simulation" => call'[j][s].share = s[2]
                      ELSE call'[j][s] = call[j][s]
<1>11. ASSUME NEW s \in Servers
       PROVE  goal(s)
  <2>1. CASE s[1] = group
    <3>1. call'[j][s] = [at |-> "sent", share |-> share(s)]
      BY <1>8, <1>9, <2>1
    <3>2. call'[j][s].at = "sent" /\ call'[j][s].share = share(s)
      BY <3>1
    <3> QED
      BY <1>4, <2>1, <3>2
  <2>2. CASE s[1] # group
    BY <1>8, <1>9, <2>2
  <2> QED
    BY <2>1, <2>2
<1> QED
  BY <1>9, <1>10, <1>11 DEF SentTo

LEMMA Blocks ==
  ASSUME TInv, program = "simulation"
  PROVE  /\ flags \in Flags /\ RetrieveBlocks \in Nat /\ RetrieveBlocks > 0
         /\ \A j \in Nat : j > 0 => (j - 1) % RetrieveBlocks \in 0 .. RetrieveBlocks - 1
         /\ start # None => \A j \in Jobs : Block(j) \in Int
<1>1. /\ flags \in Flags /\ flags.bits \in Nat /\ flags.bits > 0
      /\ BlockBits \in Nat /\ BlockBits > 0
  BY FlagsAssumption, Constants DEF TInv, ProgramTyped
<1>2. RetrieveBlocks \in Nat /\ RetrieveBlocks > 0
  <2>1. ASSUME NEW n \in Nat, n > 0, NEW b \in Nat, b > 0
        PROVE  (n + b - 1) \div b \in Nat /\ (n + b - 1) \div b > 0
    <3>1. n + b - 1 \in Nat /\ n + b - 1 >= b
      BY <2>1
    <3> QED
      BY <2>1, <3>1
  <2> QED
    BY <1>1, <2>1 DEF RetrieveBlocks
<1>3. ASSUME NEW j \in Nat, j > 0
      PROVE  (j - 1) % RetrieveBlocks \in 0 .. RetrieveBlocks - 1
  BY <1>2, <1>3, Division
<1>4. ASSUME start # None, NEW j \in Jobs
      PROVE  Block(j) \in Int
  <2>1. start \in Int /\ j \in Nat /\ j > 0
    BY <1>4, Constants DEF TInv, ProgramTyped, Jobs
  <2>2. (j - 1) % RetrieveBlocks \in Int
    BY <1>2, <1>3, <2>1
  <2> QED
    BY <2>1, <2>2 DEF Block
<1> QED
  BY <1>1, <1>2, <1>3, <1>4

LEMMA SendQueriesEffect ==
  ASSUME TInv, NEW j \in Jobs, SendQueries(j)
  PROVE  /\ pc = "running" /\ program # "simulation" /\ job[j].pc = "infos"
         /\ AllInfos(j) /\ RunQueries(j, Group(j)) /\ Group(j) \in Groups
         /\ UNCHANGED <<client, infos, resCh, server>>
         /\ \E q : /\ Becomes(j, q) /\ q.pc = "queries" /\ Silent(j, q) /\ Keeps(j, q)
                   /\ q.index = job[j].index
<1> DEFINE q == Placed(job[j], "queries")
<1>1. job' = [job EXCEPT ![j] = q]
  BY DEF SendQueries, Placed
<1>2. job[j] \in JobRecord /\ "queries" \in JobPcs
  BY RecordOf DEF TInv, JobPcs
<1>3. IsUpdate(q, job[j], "queries", job[j].kind, job[j].form, job[j].index)
  BY <1>2, Updates
<1> HIDE DEF q
<1>4. Becomes(j, q) /\ q.pc = "queries" /\ Silent(j, q) /\ Keeps(j, q)
      /\ q.index = job[j].index
  BY <1>1, <1>3 DEF IsUpdate, Becomes, Silent, Keeps
<1> QED
  BY <1>4 DEF SendQueries, Group, Groups

LEMMA RetrieveEffect ==
  ASSUME TInv, NEW j \in Jobs, Retrieve(j)
  PROVE  /\ pc = "running" /\ program = "simulation" /\ start # None
         /\ j <= Retrievals
         /\ \/ j = 1 /\ job[1].pc = "infos"
            \/ j # 1 /\ NextJob(j) /\ job[j - 1].pc = "closed"
         /\ RunQueries(j, Group(1)) /\ Group(1) \in Groups
         /\ UNCHANGED <<client, infos, resCh, server>>
         /\ \E q : /\ Becomes(j, q) /\ q.pc = "queries" /\ Silent(j, q)
                   /\ q.kind = job[1].kind /\ q.index = Block(j)
<1>1. /\ pc = "running" /\ program = "simulation" /\ start # None
      /\ j <= Retrievals
      /\ \/ j = 1 /\ job[1].pc = "infos"
         \/ j # 1 /\ NextJob(j) /\ job[j - 1].pc = "closed"
      /\ RunQueries(j, Group(1))
      /\ UNCHANGED <<client, infos, resCh, server>>
  BY DEF Retrieve
<1> DEFINE i == Block(j)
           k == job[1].kind
           q == Indexed(job[j], "queries", k, i)
<1>2. job' = [job EXCEPT ![j] = q]
  BY DEF Retrieve, Indexed
<1>3. /\ job[j] \in JobRecord /\ "queries" \in JobPcs /\ i \in Int
      /\ k \in Kinds
  <2>1. job[1] \in JobRecord /\ job[j] \in JobRecord
    BY Constants, RecordOf DEF TInv
  <2> QED
    BY <1>1, <2>1, Blocks DEF JobPcs, JobRecord
<1> HIDE DEF i, k
<1>4. IsUpdate(q, job[j], "queries", k, job[j].form, i)
  BY <1>3, Updates
<1> HIDE DEF q
<1>5. Becomes(j, q) /\ q.pc = "queries" /\ Silent(j, q) /\ q.kind = k /\ q.index = i
  BY <1>2, <1>4 DEF IsUpdate, Becomes, Silent
<1> QED
  BY <1>1, <1>5 DEF i, k, Group, Groups
-----------------------------------------------------------------------------
(* The inductive invariant.                                                *)

\* The jobs that were begun are the first ones; a job that has not ended has
\* no reply, and what was entered fits the program.
JobsInv ==
  /\ \E m \in 0 .. NumJobs : \A j \in Jobs : job[j].pc # "idle" <=> j <= m
  /\ \A j \in Jobs :
       /\ job[j].pc # "closed" => NoReply(j)
       /\ Len(job[j].body) <= 2
       /\ job[j].pc # "idle" =>
            /\ program = "web" => job[j].form # "interrupted"
            /\ program = "interactive" => job[j].form # "unreadable"
            /\ program = "simulation" => /\ job[j].kind \in {"point", "complex"}
                                         /\ job[j].pc # "handler"

\* A simulation has one job after the other.
OneByOne ==
  program = "simulation" =>
    \A j, k \in Jobs : k < j /\ job[j].pc # "idle" => job[k].pc = "closed"

\* Queries are sent when the infos are there, to the servers of one group, and
\* a job that sent some ends after the last answer.
CallInv ==
  \A j \in Jobs, s \in Servers : call[j][s].at # "none" =>
    /\ job[j].pc \in {"queries", "closed"}
    /\ job[j].pc = "closed" => call[j][s].at = "answered"
    /\ s[1] = Group(j)
    /\ program # "simulation" => call[j][s].share = s[2]

\* The queue of a worker holds the queries that it has received, each once.
QueueInv ==
  \A s \in Servers :
    /\ \A j \in Jobs :
         call[j][s].at = "queued" <=> \E n \in 1 .. Len(queue[s]) : queue[s][n] = j
    /\ \A m, n \in 1 .. Len(queue[s]) : queue[s][m] = queue[s][n] => m = n

\* A worker evaluates one query at a time.
EvalInv ==
  program # "simulation" =>
    \A s \in Servers : \A j, k \in Jobs :
      call[j][s].at = "evaluating" /\ call[k][s].at = "evaluating" => j = k

\* The channel of a job holds one answer of every server that has answered.
ChannelInv ==
  \A j \in Jobs :
    /\ \A a \in resCh[j] : /\ a.job = j /\ call[j][a.server].at = "answered"
                           /\ a.share = call[j][a.server].share
    /\ \A a, b \in resCh[j] : a.server = b.server => a = b
    /\ \A s \in Servers :
         call[j][s].at = "answered" => \E a \in resCh[j] : a.server = s

\* Without a fault every server keeps its files, and no query is lost.
FaultInv ==
  /\ faults = 0 =>
       /\ stopping = {}
       /\ \A j \in Jobs : \A s \in Servers :
            /\ infos[j][s] # None => infos[j][s] = version[s]
            /\ call[j][s].at # "lost"
       /\ \A j \in Jobs : \A a \in resCh[j] : a.version = version[a.server]
  /\ program # "simulation" =>
       \A j \in Jobs : job[j].pc = "queries" =>
         \A s \in Servers : s[1] = Group(j) => infos[j][s] # None

\* The blocks that a simulation retrieves, once it has chosen the first one.
IndexInv ==
  program = "simulation" =>
    /\ \A j \in Jobs :
         IF job[j].pc \in {"queries", "closed"}
         THEN start # None /\ job[j].index = Block(j)
         ELSE job[j].index = None
    /\ flags.scheme = "point" /\ start # None =>
         start \in 0 .. flags.total - RetrieveBlocks - 1
    /\ pc = "exited" => start # None /\ \A j \in 1 .. Retrievals : job[j].pc = "closed"

IInv ==
  /\ TInv /\ JobsInv /\ OneByOne /\ CallInv /\ QueueInv /\ EvalInv
  /\ ChannelInv /\ FaultInv /\ IndexInv
-----------------------------------------------------------------------------
(* The kinds of steps, by what they do to jobs, queries and answers.       *)

\* A step of the program, or a fault, that touches no job.
Still ==
  /\ UNCHANGED <<program, flags, job, infos, call, resCh, version, queue>>
  /\ \/ UNCHANGED <<faults, stopping>>
     \/ /\ faults < MaxFaults /\ faults' = faults + 1
        /\ \E S \in SUBSET Servers : stopping' = stopping \cup S

\* A job goes on, before it sends queries or after the last answer.
Moves(j, q) ==
  /\ Becomes(j, q) /\ q.pc # "idle"
  /\ UNCHANGED <<program, flags, addresses, start, infos, call, resCh, server>>
  /\ pc = "running" /\ pc' \in {"running", "dead"}
  /\ \/ job[j].pc \notin {"queries", "closed"} /\ q.pc # "queries"
     \/ AllAnswered(j) /\ Keeps(j, q) /\ q.pc = "closed"

\* A job sends its queries.
Asks(j, q) ==
  /\ Becomes(j, q) /\ q.pc = "queries"
  /\ job[j].pc \notin {"queries", "closed"}
  /\ program # "simulation" => AllInfos(j) /\ Keeps(j, q)
  /\ pc = "running"
  /\ UNCHANGED <<client, infos, resCh, server>>
  /\ \E group \in Groups :
       /\ group = IF q.kind \in {"retrieve", "key", "point"} THEN "point" ELSE "complex"
       /\ SentTo(j, group)

KindsOfSteps ==
  \/ Still
  \/ \E j \in Jobs : \E q : Moves(j, q)
  \/ \E j \in Jobs : \E q : Asks(j, q)
  \/ \E j \in Jobs, s \in Servers : DatabaseInfo(j, s)
  \/ \E j \in Jobs, s \in Servers : Deliver(j, s)
  \/ \E s \in Servers : WorkerTakes(s)
  \/ \E j \in Jobs, s \in Servers : Answer(j, s)
  \/ \E s \in Servers : Restart(s)

LEMMA BecomesFacts ==
  ASSUME JobsTyped, NEW j \in Jobs, NEW q, Becomes(j, q)
  PROVE  /\ job' \in [Jobs -> JobRecord] /\ job'[j] = q /\ q \in JobRecord
         /\ \A k \in Jobs : k # j => job'[k] = job[k]
BY DEF JobsTyped, Becomes

\* The job that comes next.
LEMMA NextOne ==
  ASSUME JobsInv, NEW j \in Jobs, NextJob(j)
  PROVE  \A k \in Jobs : job[k].pc # "idle" <=> k < j
<1>1. PICK m \in 0 .. NumJobs : \A k \in Jobs : job[k].pc # "idle" <=> k <= m
  BY DEF JobsInv
<1>2. {k \in Jobs : job[k].pc # "idle"} = 1 .. m
  BY <1>1, Constants DEF Jobs
<1>3. Cardinality(1 .. m) = m
  <2>1. m \in Nat
    BY <1>1, Constants
  <2>2. Cardinality(1 .. m) = IF 1 > m THEN 0 ELSE m - 1 + 1
    BY <2>1, FS_Interval
  <2> QED
    BY <2>1, <2>2
<1>4. j = m + 1
  <2>1. Cardinality({k \in Jobs : job[k].pc # "idle"}) = m
    BY <1>2, <1>3, Zenon
  <2>2. j = 1 + m /\ m \in Nat
    BY <2>1, Constants DEF NextJob
  <2> QED
    BY <2>2
<1> QED
  BY <1>1, <1>4, Constants DEF Jobs

LEMMA StillSteps ==
  ASSUME \/ LoadConfig \/ Connect \/ Leave \/ Leaves \/ Prepare \/ Quiet
         \/ (\E j \in Jobs : Expire(j) \/ InfoFails(j) \/ RpcFails(j))
         \/ (\E s \in Servers : Stop(s))
         \/ (\E j \in Jobs : CheckForm(j) /\ job' = job)
  PROVE  Still
<1>1. CASE LoadConfig
  BY <1>1 DEF LoadConfig, Still, server
<1>2. CASE Connect
  <2>1. stopping' = stopping \cup {}
    BY <1>2 DEF Connect
  <2> QED
    BY <1>2, <2>1 DEF Connect, Still
<1>3. CASE Leave
  BY <1>3 DEF Leave, Still, server
<1>4. CASE Leaves
  BY <1>4 DEF Leaves, Still, server
<1>5. CASE Prepare
  <2>1. UNCHANGED <<program, flags>>
    BY <1>5, Zenon DEF Prepare, Fatal
  <2> QED
    BY <1>5, <2>1 DEF Prepare, Still, server
<1>6. CASE Quiet
  BY <1>6 DEF Quiet, Still, vars, client, server
<1>7. ASSUME NEW j \in Jobs, Expire(j)
      PROVE  Still
  <2>1. stopping' = stopping \cup {}
    BY <1>7 DEF Expire
  <2> QED
    BY <1>7, <2>1 DEF Expire, Still, Fatal
<1>8. ASSUME NEW j \in Jobs, InfoFails(j) \/ RpcFails(j)
      PROVE  Still
  BY <1>8 DEF InfoFails, RpcFails, Still, Fatal, server
<1>9. ASSUME NEW s \in Servers, Stop(s)
      PROVE  Still
  BY <1>9 DEF Stop, Still, client
<1>10. ASSUME NEW j \in Jobs, CheckForm(j), job' = job
       PROVE  Still
  <2>1. UNCHANGED <<program, flags>>
    BY <1>10, Zenon DEF CheckForm, Fatal, client
  <2> QED
    BY <1>10, <2>1 DEF CheckForm, Still, server
<1> QED
  BY <1>1, <1>2, <1>3, <1>4, <1>5, <1>6, <1>7, <1>8, <1>9, <1>10

LEMMA OutcomesAre ==
  ASSUME NEW j \in Jobs
  PROVE  /\ Outcomes(j) \subseteq Results
         /\ OneVersion(j) /\ job[j].kind \in {"point", "complex"} => Outcomes(j) = {"value"}
         /\ OneVersion(j) => "reject" \notin Outcomes(j)
<1>1. CASE ~OneVersion(j)
  BY <1>1 DEF Outcomes, Results
<1>2. CASE OneVersion(j)
  <2>1. \/ /\ job[j].kind \in {"retrieve", "key"}
           /\ Outcomes(j) = {"value", "notFound", "panic"}
        \/ job[j].kind = "avg" /\ Outcomes(j) = {"value", "panic"}
        \/ Outcomes(j) = {"value"}
    BY <1>2, Zenon DEF Outcomes
  <2> QED
    BY <2>1 DEF Results
<1> QED
  BY <1>1, <1>2

LEMMA MovingSteps ==
  ASSUME TInv, JobsInv, NEW j \in Jobs,
         \/ Arrive(j) \/ (CheckForm(j) /\ job' # job) \/ InfosDiffer(j) \/ Reconstruct(j)
         \/ (j = 1 /\ FirstInfo)
  PROVE  \E q : Moves(j, q)
<1>1. job[j].pc # "closed" => NoReply(j)
  BY DEF JobsInv
<1>2. CASE Arrive(j)
  <2>1. job[j].pc = "idle" /\ pc = "running"
    <3>1. NextJob(j) /\ pc = "running"
      BY <1>2 DEF Arrive
    <3>2. \A k \in Jobs : job[k].pc # "idle" <=> k < j
      BY <3>1, NextOne
    <3>3. ~(j < j)
      BY Constants
    <3> QED
      BY <3>1, <3>2, <3>3
  <2>2. UNCHANGED <<client, infos, call, resCh, server>>
        /\ \E q : Becomes(j, q) /\ q.pc = "handler"
    BY <1>2, ArriveEffect
  <2> QED
    BY <2>1, <2>2 DEF Moves, client
<1>3. CASE CheckForm(j) /\ job' # job
  <2>1. /\ job[j].pc = "handler" /\ pc = "running"
        /\ UNCHANGED <<client, infos, call, resCh, server>>
        /\ \E q : Becomes(j, q) /\ q.pc \in {"infos", "closed"}
    <3>1. job[j].pc = "handler" /\ NoReply(j)
      BY <1>1, <1>3 DEF CheckForm
    <3> QED
      BY <1>3, <3>1, CheckFormEffect
  <2> QED
    BY <2>1 DEF Moves, client
<1>4. ASSUME NEW outcome \in Results, Ends(j, outcome), NoReply(j),
             AllAnswered(j) \/ job[j].pc = "infos", pc = "running"
      PROVE  \E q : Moves(j, q)
  <2>1. /\ UNCHANGED <<infos, call, resCh, server>>
        /\ UNCHANGED <<program, flags, addresses, start>>
        /\ pc' \in {"running", "dead"}
        /\ \E q : Becomes(j, q) /\ q.pc = "closed" /\ Keeps(j, q)
    BY <1>4, EndsEffect
  <2> QED
    BY <1>4, <2>1 DEF Moves
<1>5. CASE InfosDiffer(j)
  <2>1. Ends(j, "reject") /\ job[j].pc = "infos" /\ NoReply(j) /\ "reject" \in Results
        /\ pc = "running"
    BY <1>1, <1>5 DEF InfosDiffer, Results
  <2> QED
    BY <1>4, <2>1
<1>6. CASE Reconstruct(j)
  <2>1. PICK outcome \in Outcomes(j) : Ends(j, outcome)
    BY <1>6 DEF Reconstruct
  <2>2. outcome \in Results /\ AllAnswered(j) /\ pc = "running"
    BY <1>6, OutcomesAre DEF Reconstruct
  <2>3. NoReply(j)
    BY <1>1, <2>2 DEF AllAnswered
  <2> QED
    BY <1>4, <2>1, <2>2, <2>3
<1>7. CASE j = 1 /\ FirstInfo
  <2>1. /\ job[1].pc = "idle" /\ pc = "running"
        /\ UNCHANGED <<client, infos, call, resCh, server>>
        /\ \E q : Becomes(1, q) /\ q.pc = "infos"
    BY <1>7, FirstInfoEffect
  <2> QED
    BY <1>7, <2>1 DEF Moves, client
<1> QED
  BY <1>2, <1>3, <1>5, <1>6, <1>7

LEMMA AskingSteps ==
  ASSUME TInv, JobsInv, NEW j \in Jobs, SendQueries(j) \/ Retrieve(j)
  PROVE  \E q : Asks(j, q)
<1>1. CASE SendQueries(j)
  <2>1. PICK q : Becomes(j, q) /\ q.pc = "queries" /\ Silent(j, q) /\ Keeps(j, q)
    BY <1>1, SendQueriesEffect
  <2>2. /\ pc = "running" /\ job[j].pc = "infos" /\ AllInfos(j)
        /\ RunQueries(j, Group(j)) /\ Group(j) \in Groups
        /\ UNCHANGED <<client, infos, resCh, server>>
    BY <1>1, SendQueriesEffect
  <2>3. SentTo(j, Group(j))
    BY <2>2, RunQueriesEffect
  <2>4. Group(j) = IF q.kind \in {"retrieve", "key", "point"} THEN "point" ELSE "complex"
    BY <2>1 DEF Keeps, Group
  <2> QED
    BY <2>1, <2>2, <2>3, <2>4 DEF Asks, client
<1>2. CASE Retrieve(j)
  <2>1. PICK q : Becomes(j, q) /\ q.pc = "queries" /\ q.kind = job[1].kind
    BY <1>2, RetrieveEffect
  <2>2. /\ pc = "running" /\ program = "simulation"
        /\ RunQueries(j, Group(1)) /\ Group(1) \in Groups
        /\ UNCHANGED <<client, infos, resCh, server>>
    BY <1>2, RetrieveEffect
  <2>3. SentTo(j, Group(1))
    BY <2>2, RunQueriesEffect
  <2>4. Group(1) = IF q.kind \in {"retrieve", "key", "point"} THEN "point" ELSE "complex"
    BY <2>1 DEF Group
  <2>5. job[j].pc \in {"idle", "infos"}
    <3>1. \/ j = 1 /\ job[1].pc = "infos"
          \/ NextJob(j)
      BY <1>2, RetrieveEffect
    <3>2. CASE NextJob(j)
      BY <3>2, NextOne, Constants
    <3> QED
      BY <3>1, <3>2
  <2>6. job[j].pc \notin {"queries", "closed"}
    BY <2>5
  <2> QED
    BY <2>1, <2>2, <2>3, <2>4, <2>6 DEF Asks, client
<1> QED
  BY <1>1, <1>2

LEMMA KindOfStep ==
  ASSUME TInv, JobsInv, [Next]_vars
  PROVE  KindsOfSteps
<1>1. CASE UNCHANGED vars
  BY <1>1 DEF KindsOfSteps, Still, vars, client, server
<1>2. CASE MainStep
  <2>1. CASE FirstInfo
    BY <2>1, MovingSteps, Constants DEF KindsOfSteps
  <2>2. ASSUME NEW j \in Jobs, Retrieve(j)
        PROVE  KindsOfSteps
    BY <2>2, AskingSteps DEF KindsOfSteps
  <2>3. CASE LoadConfig \/ Connect \/ Prepare \/ Leaves
    BY <2>3, StillSteps DEF KindsOfSteps
  <2> QED
    BY <1>2, <2>1, <2>2, <2>3 DEF MainStep
<1>3. CASE Leave \/ Quiet
  BY <1>3, StillSteps DEF KindsOfSteps
<1>4. CASE Fault
  <2>1. ASSUME NEW s \in Servers, Restart(s) \/ Stop(s)
        PROVE  KindsOfSteps
    BY <2>1, StillSteps DEF KindsOfSteps
  <2>2. ASSUME NEW j \in Jobs, Expire(j) \/ InfoFails(j)
        PROVE  KindsOfSteps
    BY <2>2, StillSteps DEF KindsOfSteps
  <2> QED
    BY <1>4, <2>1, <2>2 DEF Fault
<1>5. ASSUME NEW j \in Jobs, Arrive(j) \/ JobStep(j)
      PROVE  KindsOfSteps
  <2>1. CASE Arrive(j) \/ InfosDiffer(j) \/ Reconstruct(j) \/ (CheckForm(j) /\ job' # job)
    BY <2>1, MovingSteps DEF KindsOfSteps
  <2>2. CASE RpcFails(j) \/ (CheckForm(j) /\ job' = job)
    BY <2>2, StillSteps DEF KindsOfSteps
  <2>3. CASE SendQueries(j)
    BY <2>3, AskingSteps DEF KindsOfSteps
  <2> QED
    BY <1>5, <2>1, <2>2, <2>3 DEF JobStep
<1>6. ASSUME NEW s \in Servers, ServerStep(s)
      PROVE  KindsOfSteps
  BY <1>6 DEF ServerStep, KindsOfSteps
<1> QED
  BY <1>1, <1>2, <1>3, <1>4, <1>5, <1>6 DEF Next
-----------------------------------------------------------------------------
(* The steps of the servers, by the calls that they move.                  *)
CallMoves(j, s, at) ==
  /\ call' \in [Jobs -> [Servers -> CallRecord]]
  /\ call'[j][s].at = at /\ call'[j][s].share = call[j][s].share
  /\ \A k \in Jobs, t \in Servers : k # j \/ t # s => call'[k][t] = call[k][t]

CallsLost(s) ==
  /\ call' \in [Jobs -> [Servers -> CallRecord]]
  /\ \A j \in Jobs, t \in Servers :
       /\ call'[j][t].share = call[j][t].share
       /\ call'[j][t].at # call[j][t].at =>
            t = s /\ call[j][t].at \in {"sent", "queued", "evaluating"} /\ call'[j][t].at = "lost"
       /\ call[j][s].at = "queued" => call'[j][s].at = "lost"

LEMMA OneCall ==
  ASSUME JobsTyped, NEW j \in Jobs, NEW s \in Servers, NEW at \in Places,
         call' = [call EXCEPT ![j][s].at = at]
  PROVE  CallMoves(j, s, at)
<1> DEFINE c == [call[j][s] EXCEPT !.at = at]
           row == [call[j] EXCEPT ![s] = c]
<1>1. call \in [Jobs -> [Servers -> CallRecord]] /\ call[j][s] \in CallRecord
  BY DEF JobsTyped
<1>2. c \in CallRecord /\ c.at = at /\ c.share = call[j][s].share
  BY <1>1 DEF CallRecord
<1>3. call' = [call EXCEPT ![j] = row]
  BY <1>1
<1> HIDE DEF c
<1>4. row \in [Servers -> CallRecord] /\ row[s] = c
      /\ \A t \in Servers : t # s => row[t] = call[j][t]
  BY <1>1, <1>2
<1> HIDE DEF row
<1>5. call' \in [Jobs -> [Servers -> CallRecord]] /\ call'[j] = row
      /\ \A k \in Jobs : k # j => call'[k] = call[k]
  BY <1>1, <1>3, <1>4
<1> QED
  BY <1>2, <1>4, <1>5 DEF CallMoves

LEMMA RestartLoses ==
  ASSUME JobsTyped, NEW s \in Servers, Restart(s)
  PROVE  CallsLost(s)
<1>0. PICK onTheWay \in SUBSET At(s, "sent") :
        call' = [j \in Jobs |->
                   IF call[j][s].at \in {"queued", "evaluating"} \/ j \in onTheWay
                   THEN [call[j] EXCEPT ![s].at = "lost"] ELSE call[j]]
  BY DEF Restart
<1> DEFINE lost(j) == [call[j] EXCEPT ![s].at = "lost"]
           row(j) == IF call[j][s].at \in {"queued", "evaluating"} \/ j \in onTheWay
                     THEN lost(j) ELSE call[j]
<1>1. call \in [Jobs -> [Servers -> CallRecord]]
  BY DEF JobsTyped
<1>2. ASSUME NEW j \in Jobs
      PROVE  /\ lost(j) \in [Servers -> CallRecord]
             /\ lost(j)[s].share = call[j][s].share /\ lost(j)[s].at = "lost"
             /\ \A t \in Servers : t # s => lost(j)[t] = call[j][t]
  <2> DEFINE c == [call[j][s] EXCEPT !.at = "lost"]
  <2>1. call[j] \in [Servers -> CallRecord] /\ call[j][s] \in CallRecord
    BY <1>1
  <2>2. c \in CallRecord /\ c.at = "lost" /\ c.share = call[j][s].share
    BY <2>1 DEF CallRecord, Places
  <2>3. lost(j) = [call[j] EXCEPT ![s] = c]
    BY <2>1
  <2> HIDE DEF c, lost
  <2> QED
    BY <2>1, <2>2, <2>3
<1>3. call' = [j \in Jobs |-> row(j)]
  BY <1>0
<1> HIDE DEF lost
<1>4. ASSUME NEW j \in Jobs
      PROVE  row(j) \in [Servers -> CallRecord]
  BY <1>1, <1>2
<1>5. ASSUME NEW j \in Jobs, NEW t \in Servers
      PROVE  /\ row(j)[t].share = call[j][t].share
             /\ row(j)[t].at # call[j][t].at =>
                  /\ t = s /\ row(j)[t].at = "lost"
                  /\ call[j][t].at \in {"sent", "queued", "evaluating"}
             /\ t = s /\ call[j][s].at = "queued" => row(j)[s].at = "lost"
  <2>0. j \in onTheWay => call[j][s].at = "sent"
    BY <1>0 DEF At
  <2>1. CASE t = s
    BY <1>2, <2>0, <2>1
  <2>2. CASE t # s
    BY <1>2, <2>2
  <2> QED
    BY <2>1, <2>2
<1> HIDE DEF row
<1>6. call' \in [Jobs -> [Servers -> CallRecord]] /\ \A j \in Jobs : call'[j] = row(j)
  BY <1>3, <1>4
<1> QED
  BY <1>5, <1>6 DEF CallsLost

LEMMA ServerSteps ==
  ASSUME TInv, QueueInv, NEW s \in Servers
  PROVE  /\ \A j \in Jobs : Deliver(j, s) =>
              /\ call[j][s].at = "sent" /\ s \notin stopping
              /\ UNCHANGED <<client, job, infos, resCh, version, stopping, faults>>
              /\ \/ /\ program = "simulation" /\ queue' = queue
                    /\ CallMoves(j, s, "evaluating")
                 \/ /\ program # "simulation" /\ CallMoves(j, s, "queued")
                    /\ queue' = [queue EXCEPT ![s] = Append(queue[s], j)]
         /\ WorkerTakes(s) =>
              /\ queue[s] # <<>> /\ Head(queue[s]) \in Jobs
              /\ call[Head(queue[s])][s].at = "queued"
              /\ \A k \in Jobs : call[k][s].at # "evaluating"
              /\ UNCHANGED <<client, job, infos, resCh, version, stopping, faults>>
              /\ CallMoves(Head(queue[s]), s, "evaluating")
              /\ queue' = [queue EXCEPT ![s] = Tail(queue[s])]
         /\ \A j \in Jobs : Answer(j, s) =>
              /\ call[j][s].at = "evaluating"
              /\ UNCHANGED <<client, job, infos, server>>
              /\ CallMoves(j, s, "answered")
              /\ resCh' = [resCh EXCEPT ![j] = resCh[j] \cup
                             {[job |-> j, server |-> s, share |-> call[j][s].share,
                               version |-> version[s]]}]
         /\ Restart(s) =>
              /\ program # "simulation" /\ faults < MaxFaults
              /\ CallsLost(s) /\ faults' = faults + 1
              /\ version' \in [Servers -> Versions]
              /\ queue' = [queue EXCEPT ![s] = <<>>]
              /\ UNCHANGED <<client, job, infos, resCh, stopping>>
<1>1. JobsTyped /\ queue \in [Servers -> Seq(Jobs)] /\ version \in [Servers -> Versions]
  BY DEF TInv, ServersTyped
<1>2. "evaluating" \in Places /\ "queued" \in Places /\ "answered" \in Places
  BY DEF Places
<1>3. ASSUME NEW j \in Jobs, Deliver(j, s)
      PROVE  /\ call[j][s].at = "sent" /\ s \notin stopping
             /\ UNCHANGED <<client, job, infos, resCh, version, stopping, faults>>
             /\ \/ /\ program = "simulation" /\ queue' = queue
                   /\ CallMoves(j, s, "evaluating")
                \/ /\ program # "simulation" /\ CallMoves(j, s, "queued")
                   /\ queue' = [queue EXCEPT ![s] = Append(queue[s], j)]
  BY <1>1, <1>2, <1>3, OneCall DEF Deliver
<1>4. ASSUME WorkerTakes(s)
      PROVE  /\ queue[s] # <<>> /\ Head(queue[s]) \in Jobs
             /\ call[Head(queue[s])][s].at = "queued"
             /\ \A k \in Jobs : call[k][s].at # "evaluating"
             /\ UNCHANGED <<client, job, infos, resCh, version, stopping, faults>>
             /\ CallMoves(Head(queue[s]), s, "evaluating")
             /\ queue' = [queue EXCEPT ![s] = Tail(queue[s])]
  <2> DEFINE j == Head(queue[s])
  <2>1. queue[s] # <<>> /\ queue[s] \in Seq(Jobs)
    BY <1>1, <1>4 DEF WorkerTakes
  <2>2. j \in Jobs /\ 1 \in 1 .. Len(queue[s]) /\ queue[s][1] = j
    BY <2>1
  <2>3. call[j][s].at = "queued"
    BY <2>2 DEF QueueInv
  <2>4. /\ call' = [call EXCEPT ![j][s].at = "evaluating"]
        /\ UNCHANGED <<client, job, infos, resCh, version, stopping, faults>>
        /\ queue' = [queue EXCEPT ![s] = Tail(queue[s])]
        /\ \A k \in Jobs : call[k][s].at # "evaluating"
    BY <1>4 DEF WorkerTakes, At
  <2> HIDE DEF j
  <2>5. CallMoves(j, s, "evaluating")
    BY <1>1, <1>2, <2>2, <2>4, OneCall
  <2> QED
    BY <2>1, <2>2, <2>3, <2>4, <2>5 DEF j
<1>5. ASSUME NEW j \in Jobs, Answer(j, s)
      PROVE  /\ call[j][s].at = "evaluating"
             /\ UNCHANGED <<client, job, infos, server>>
             /\ CallMoves(j, s, "answered")
             /\ resCh' = [resCh EXCEPT ![j] = resCh[j] \cup
                            {[job |-> j, server |-> s, share |-> call[j][s].share,
                              version |-> version[s]]}]
  BY <1>1, <1>2, <1>5, OneCall DEF Answer, Channel
<1>6. ASSUME Restart(s)
      PROVE  /\ program # "simulation" /\ faults < MaxFaults
             /\ CallsLost(s) /\ faults' = faults + 1
             /\ version' \in [Servers -> Versions]
             /\ queue' = [queue EXCEPT ![s] = <<>>]
             /\ UNCHANGED <<client, job, infos, resCh, stopping>>
  BY <1>1, <1>6, RestartLoses DEF Restart
<1> QED
  BY <1>3, <1>4, <1>5, <1>6
-----------------------------------------------------------------------------
(* The parts of the invariant about queries and answers.                   *)
LEMMA CallStep ==
  ASSUME TInv, QueueInv, CallInv, KindsOfSteps
  PROVE  CallInv'
<1>0. JobsTyped
  BY DEF TInv
<1>1. CASE Still
  BY <1>1 DEF Still, CallInv, Group
<1>2. ASSUME NEW j \in Jobs, NEW q, Moves(j, q)
      PROVE  CallInv'
  <2>1. /\ job'[j] = q /\ \A k \in Jobs : k # j => job'[k] = job[k]
        /\ call' = call /\ program' = program
    BY <1>0, <1>2, BecomesFacts DEF Moves
  <2>2. ASSUME NEW k \in Jobs, NEW s \in Servers, call[k][s].at # "none"
        PROVE  /\ job'[k].pc \in {"queries", "closed"}
               /\ job'[k].pc = "closed" => call[k][s].at = "answered"
               /\ job'[k].kind = job[k].kind
    <3>1. CASE k # j
      BY <2>1, <2>2, <3>1 DEF CallInv
    <3>2. CASE k = j
      <4>1. job[j].pc \in {"queries", "closed"} /\ s[1] = Group(j)
        BY <2>2, <3>2 DEF CallInv
      <4>2. AllAnswered(j) /\ Keeps(j, q) /\ q.pc = "closed"
        BY <1>2, <4>1 DEF Moves
      <4>3. s \in ServersOf(j)
        BY <4>1 DEF ServersOf, Servers
      <4> QED
        BY <2>1, <3>2, <4>2, <4>3 DEF AllAnswered, Keeps
    <3> QED
      BY <3>1, <3>2
  <2> QED
    BY <2>1, <2>2 DEF CallInv, Group
<1>3. ASSUME NEW j \in Jobs, NEW q, Asks(j, q)
      PROVE  CallInv'
  <2>1. /\ job'[j] = q /\ \A k \in Jobs : k # j => job'[k] = job[k]
        /\ program' = program /\ q.pc = "queries"
        /\ \A s \in Servers : call[j][s].at = "none"
    BY <1>0, <1>3, BecomesFacts DEF Asks, CallInv, client
  <2>2. PICK group \in Groups :
          /\ group = IF q.kind \in {"retrieve", "key", "point"} THEN "point" ELSE "complex"
          /\ SentTo(j, group)
    BY <1>3 DEF Asks
  <2>3. Group(j)' = group
    BY <2>1, <2>2 DEF Group
  <2>4. ASSUME NEW s \in Servers, call'[j][s].at # "none"
        PROVE  s[1] = group /\ (program # "simulation" => call'[j][s].share = s[2])
    BY <2>1, <2>2, <2>4 DEF SentTo
  <2>5. ASSUME NEW k \in Jobs, k # j
        PROVE  call'[k] = call[k] /\ job'[k] = job[k]
    BY <2>1, <2>2, <2>5 DEF SentTo
  <2> QED
    BY <2>1, <2>3, <2>4, <2>5 DEF CallInv, Group
<1>4. ASSUME NEW j \in Jobs, NEW s \in Servers, DatabaseInfo(j, s)
      PROVE  CallInv'
  BY <1>4 DEF DatabaseInfo, client, CallInv, Group
\* A server moves a call that was made and not answered.
<1>5. ASSUME NEW j \in Jobs, NEW s \in Servers, NEW at \in Places, CallMoves(j, s, at),
             call[j][s].at \notin {"none", "answered"},
             UNCHANGED <<job, program>>
      PROVE  CallInv'
  <2>1. job[j].pc # "closed" /\ job[j].pc \in {"queries", "closed"}
    BY <1>5 DEF CallInv
  <2> QED
    BY <1>5, <2>1 DEF CallInv, CallMoves, Group
<1>6. ASSUME NEW j \in Jobs, NEW s \in Servers, Deliver(j, s) \/ Answer(j, s)
      PROVE  CallInv'
  BY <1>5, <1>6, ServerSteps DEF client, Places
<1>7. ASSUME NEW s \in Servers, WorkerTakes(s)
      PROVE  CallInv'
  BY <1>5, <1>7, ServerSteps DEF client, Places
<1>8. ASSUME NEW s \in Servers, Restart(s)
      PROVE  CallInv'
  <2>1. CallsLost(s) /\ UNCHANGED <<client, job>>
    BY <1>8, ServerSteps
  <2> QED
    BY <2>1 DEF CallsLost, CallInv, Group, client
<1> QED
  BY <1>1, <1>2, <1>3, <1>4, <1>6, <1>7, <1>8 DEF KindsOfSteps

LEMMA EvalStep ==
  ASSUME TInv, QueueInv, CallInv, EvalInv, KindsOfSteps
  PROVE  EvalInv'
<1>0. JobsTyped
  BY DEF TInv
<1>1. CASE Still
  BY <1>1 DEF Still, EvalInv
<1>2. ASSUME NEW j \in Jobs, NEW q, Moves(j, q)
      PROVE  EvalInv'
  BY <1>2 DEF Moves, EvalInv
\* No other call comes to be evaluated.
<1>3. ASSUME program' = program,
             \A j \in Jobs, s \in Servers :
               call'[j][s].at = "evaluating" => call[j][s].at = "evaluating"
      PROVE  EvalInv'
  BY <1>3 DEF EvalInv
<1>4. ASSUME NEW j \in Jobs, NEW q, Asks(j, q)
      PROVE  EvalInv'
  <2>1. PICK group \in Groups : SentTo(j, group)
    BY <1>4 DEF Asks
  <2>2. ASSUME NEW k \in Jobs, NEW s \in Servers, call'[k][s].at = "evaluating"
        PROVE  call[k][s].at = "evaluating"
    BY <2>1, <2>2 DEF SentTo
  <2> QED
    BY <1>3, <1>4, <2>2 DEF Asks, client
<1>5. ASSUME NEW j \in Jobs, NEW s \in Servers, DatabaseInfo(j, s)
      PROVE  EvalInv'
  BY <1>5 DEF DatabaseInfo, client, EvalInv
<1>6. ASSUME NEW j \in Jobs, NEW s \in Servers, Deliver(j, s)
      PROVE  EvalInv'
  <2>1. program' = program
    BY <1>6, ServerSteps DEF client
  <2>2. CASE program = "simulation"
    BY <2>1, <2>2 DEF EvalInv
  <2>3. CASE program # "simulation"
    <3>1. CallMoves(j, s, "queued")
      BY <1>6, <2>3, ServerSteps
    <3> QED
      BY <1>3, <2>1, <3>1 DEF CallMoves
  <2> QED
    BY <2>2, <2>3
<1>7. ASSUME NEW s \in Servers, WorkerTakes(s)
      PROVE  EvalInv'
  <2>1. PICK j \in Jobs : CallMoves(j, s, "evaluating")
    BY <1>7, ServerSteps
  <2>2. program' = program /\ \A k \in Jobs : call[k][s].at # "evaluating"
    BY <1>7, ServerSteps DEF client
  <2>3. ASSUME NEW t \in Servers, NEW k \in Jobs, NEW l \in Jobs,
               call'[k][t].at = "evaluating", call'[l][t].at = "evaluating",
               program # "simulation"
        PROVE  k = l
    <3>1. CASE t = s
      BY <2>1, <2>2, <2>3, <3>1 DEF CallMoves
    <3>2. CASE t # s
      BY <2>1, <2>3, <3>2 DEF CallMoves, EvalInv
    <3> QED
      BY <3>1, <3>2
  <2> QED
    BY <2>2, <2>3 DEF EvalInv
<1>8. ASSUME NEW j \in Jobs, NEW s \in Servers, Answer(j, s)
      PROVE  EvalInv'
  BY <1>3, <1>8, ServerSteps DEF client, server, CallMoves
<1>9. ASSUME NEW s \in Servers, Restart(s)
      PROVE  EvalInv'
  <2>1. CallsLost(s) /\ UNCHANGED client
    BY <1>9, ServerSteps
  <2> QED
    BY <1>3, <2>1 DEF CallsLost, client
<1> QED
  BY <1>1, <1>2, <1>4, <1>5, <1>6, <1>7, <1>8, <1>9 DEF KindsOfSteps

\* Holds(q, j): the query of job j waits in the queue q.
Holds(q, j) == \E n \in 1 .. Len(q) : q[n] = j
Distinct(q) == \A m, n \in 1 .. Len(q) : q[m] = q[n] => m = n

LEMMA Queues ==
  ASSUME NEW q \in Seq(Jobs), Distinct(q)
  PROVE  /\ \A j \in Jobs : ~Holds(q, j) =>
              /\ Distinct(Append(q, j))
              /\ \A k \in Jobs : Holds(Append(q, j), k) <=> Holds(q, k) \/ k = j
         /\ q # <<>> =>
              /\ Distinct(Tail(q))
              /\ \A k \in Jobs : Holds(Tail(q), k) <=> Holds(q, k) /\ k # Head(q)
<1>1. ASSUME NEW j \in Jobs, ~Holds(q, j)
      PROVE  /\ Distinct(Append(q, j))
             /\ \A k \in Jobs : Holds(Append(q, j), k) <=> Holds(q, k) \/ k = j
  <2> DEFINE p == Append(q, j)
  <2>1. /\ Len(p) = Len(q) + 1 /\ Len(q) \in Nat /\ p[Len(p)] = j
        /\ \A n \in 1 .. Len(q) : p[n] = q[n]
    OBVIOUS
  <2> HIDE DEF p
  <2>2. \A n \in 1 .. Len(p) : n \in 1 .. Len(q) \/ n = Len(p)
    BY <2>1
  <2>3. \A n \in 1 .. Len(q) : n \in 1 .. Len(p) /\ Len(p) \in 1 .. Len(p)
    BY <2>1
  <2>4. Distinct(p)
    <3>1. ASSUME NEW m \in 1 .. Len(p), NEW n \in 1 .. Len(p), p[m] = p[n]
          PROVE  m = n
      <4>1. CASE m = Len(p) /\ n = Len(p)
        BY <4>1
      <4>2. CASE m \in 1 .. Len(q) /\ n \in 1 .. Len(q)
        BY <2>1, <3>1, <4>2 DEF Distinct
      <4>3. CASE m \in 1 .. Len(q) /\ n = Len(p)
        BY <1>1, <2>1, <3>1, <4>3 DEF Holds
      <4>4. CASE m = Len(p) /\ n \in 1 .. Len(q)
        BY <1>1, <2>1, <3>1, <4>4 DEF Holds
      <4> QED
        BY <2>2, <4>1, <4>2, <4>3, <4>4
    <3> QED
      BY <3>1 DEF Distinct
  <2>5. ASSUME NEW k \in Jobs
        PROVE  Holds(p, k) <=> Holds(q, k) \/ k = j
    <3>1. ASSUME Holds(p, k) PROVE Holds(q, k) \/ k = j
      BY <2>1, <2>2, <3>1 DEF Holds
    <3>2. ASSUME Holds(q, k) PROVE Holds(p, k)
      BY <2>1, <2>3, <3>2 DEF Holds
    <3>3. Len(p) \in 1 .. Len(p)
      BY <2>1
    <3>4. Holds(p, j)
      BY <2>1, <3>3 DEF Holds
    <3> QED
      BY <3>1, <3>2, <3>4
  <2> QED
    BY <2>4, <2>5 DEF p
<1>2. ASSUME q # <<>>
      PROVE  /\ Distinct(Tail(q))
             /\ \A k \in Jobs : Holds(Tail(q), k) <=> Holds(q, k) /\ k # Head(q)
  <2> DEFINE p == Tail(q)
             h == Head(q)
  <2>1. /\ Len(p) = Len(q) - 1 /\ Len(q) \in Nat /\ Len(q) > 0 /\ h = q[1]
        /\ \A n \in 1 .. Len(p) : p[n] = q[n + 1]
    BY <1>2
  <2> HIDE DEF p, h
  <2>2. ASSUME NEW n \in 1 .. Len(q), n # 1
        PROVE  n - 1 \in 1 .. Len(p) /\ p[n - 1] = q[n]
    <3>1. n - 1 \in 1 .. Len(p) /\ (n - 1) + 1 = n
      BY <2>1, <2>2
    <3> QED
      BY <2>1, <3>1
  <2>3. \A n \in 1 .. Len(p) : n + 1 \in 1 .. Len(q) /\ n + 1 # 1 /\ n \in Nat
    BY <2>1
  <2>4. Distinct(p)
    <3>1. ASSUME NEW m \in 1 .. Len(p), NEW n \in 1 .. Len(p), p[m] = p[n]
          PROVE  m = n
      <4>1. m + 1 = n + 1
        BY <2>1, <2>3, <3>1 DEF Distinct
      <4> QED
        BY <2>3, <4>1
    <3> QED
      BY <3>1 DEF Distinct
  <2>5. ASSUME NEW k \in Jobs
        PROVE  Holds(p, k) <=> Holds(q, k) /\ k # h
    <3>1. ASSUME Holds(p, k) PROVE Holds(q, k) /\ k # h
      <4>1. PICK n \in 1 .. Len(p) : p[n] = k
        BY <3>1 DEF Holds
      <4>2. n + 1 \in 1 .. Len(q) /\ n + 1 # 1 /\ q[n + 1] = k /\ 1 \in 1 .. Len(q)
        BY <2>1, <2>3, <4>1
      <4> QED
        BY <2>1, <4>2 DEF Holds, Distinct
    <3>2. ASSUME Holds(q, k), k # h PROVE Holds(p, k)
      <4>1. PICK n \in 1 .. Len(q) : q[n] = k
        BY <3>2 DEF Holds
      <4>2. n # 1
        BY <2>1, <3>2, <4>1
      <4> QED
        BY <2>2, <4>1, <4>2 DEF Holds
    <3> QED
      BY <3>1, <3>2
  <2> QED
    BY <2>4, <2>5 DEF p, h
<1> QED
  BY <1>1, <1>2

LEMMA QueueStep ==
  ASSUME TInv, QueueInv, CallInv, KindsOfSteps
  PROVE  QueueInv'
<1>0. JobsTyped /\ queue \in [Servers -> Seq(Jobs)]
  BY DEF TInv, ServersTyped
<1> DEFINE Good(q, s) == /\ \A j \in Jobs : call'[j][s].at = "queued" <=> Holds(q, j)
                         /\ Distinct(q)
<1>1. ASSUME \A s \in Servers : Good(queue'[s], s)
      PROVE  QueueInv'
  BY <1>1 DEF QueueInv, Holds, Distinct
<1>2. ASSUME NEW s \in Servers
      PROVE  /\ \A j \in Jobs : call[j][s].at = "queued" <=> Holds(queue[s], j)
             /\ Distinct(queue[s]) /\ queue[s] \in Seq(Jobs)
  BY <1>0 DEF QueueInv, Holds, Distinct
<1>3. ASSUME NEW s \in Servers, queue'[s] = queue[s],
             \A j \in Jobs : call'[j][s].at = "queued" <=> call[j][s].at = "queued"
      PROVE  Good(queue'[s], s)
  BY <1>2, <1>3
<1> HIDE DEF Good
<1>4. ASSUME queue' = queue,
             \A j \in Jobs, s \in Servers :
               call'[j][s].at = "queued" <=> call[j][s].at = "queued"
      PROVE  QueueInv'
  BY <1>1, <1>3, <1>4
<1>5. CASE Still
  BY <1>4, <1>5 DEF Still
<1>6. ASSUME NEW j \in Jobs, NEW q, Moves(j, q)
      PROVE  QueueInv'
  BY <1>4, <1>6 DEF Moves, server
<1>7. ASSUME NEW j \in Jobs, NEW q, Asks(j, q)
      PROVE  QueueInv'
  <2>1. PICK group \in Groups : SentTo(j, group)
    BY <1>7 DEF Asks
  <2>2. queue' = queue /\ \A s \in Servers : call[j][s].at = "none"
    BY <1>7 DEF Asks, server, CallInv
  <2>3. ASSUME NEW k \in Jobs, NEW s \in Servers
        PROVE  call'[k][s].at = "queued" <=> call[k][s].at = "queued"
    BY <2>1, <2>2 DEF SentTo
  <2> QED
    BY <1>4, <2>2, <2>3
<1>8. ASSUME NEW j \in Jobs, NEW s \in Servers, DatabaseInfo(j, s)
      PROVE  QueueInv'
  BY <1>4, <1>8 DEF DatabaseInfo, server
<1>9. ASSUME NEW j \in Jobs, NEW s \in Servers, Deliver(j, s)
      PROVE  QueueInv'
  <2>1. call[j][s].at = "sent"
    BY <1>9, ServerSteps
  <2>2. CASE queue' = queue /\ CallMoves(j, s, "evaluating")
    BY <1>4, <2>1, <2>2 DEF CallMoves
  <2>3. CASE /\ CallMoves(j, s, "queued")
             /\ queue' = [queue EXCEPT ![s] = Append(queue[s], j)]
    <3>1. ASSUME NEW t \in Servers, t # s
          PROVE  Good(queue'[t], t)
      BY <1>0, <1>3, <2>3, <3>1 DEF CallMoves
    <3>2. ~Holds(queue[s], j)
      BY <1>2, <2>1
    <3>3. queue'[s] = Append(queue[s], j)
      BY <1>0, <2>3
    <3>4. /\ Distinct(queue'[s])
          /\ \A k \in Jobs : Holds(queue'[s], k) <=> Holds(queue[s], k) \/ k = j
      BY <1>2, <3>2, <3>3, Queues
    <3>5. \A k \in Jobs : k # j => call'[k][s] = call[k][s]
      BY <2>3 DEF CallMoves
    <3>6. call'[j][s].at = "queued"
      BY <2>3 DEF CallMoves
    <3>7. Good(queue'[s], s)
      BY <1>2, <3>4, <3>5, <3>6 DEF Good
    <3> QED
      BY <1>1, <3>1, <3>7
  <2> QED
    BY <1>9, <2>2, <2>3, ServerSteps
<1>10. ASSUME NEW s \in Servers, WorkerTakes(s)
       PROVE  QueueInv'
  <2> DEFINE j == Head(queue[s])
  <2>1. /\ queue[s] # <<>> /\ j \in Jobs
        /\ CallMoves(j, s, "evaluating")
        /\ queue' = [queue EXCEPT ![s] = Tail(queue[s])]
    BY <1>10, ServerSteps
  <2>2. ASSUME NEW t \in Servers, t # s
        PROVE  Good(queue'[t], t)
    BY <1>0, <1>3, <2>1, <2>2 DEF CallMoves
  <2>3. queue'[s] = Tail(queue[s])
    BY <1>0, <2>1
  <2>4. /\ Distinct(queue'[s])
        /\ \A k \in Jobs : Holds(queue'[s], k) <=> Holds(queue[s], k) /\ k # j
    BY <1>2, <2>1, <2>3, Queues
  <2> HIDE DEF j
  <2>5. /\ \A k \in Jobs : k # j => call'[k][s] = call[k][s]
        /\ call'[j][s].at = "evaluating"
    BY <2>1 DEF CallMoves
  <2>6. Good(queue'[s], s)
    BY <1>2, <2>4, <2>5 DEF Good
  <2> QED
    BY <1>1, <2>2, <2>6
<1>11. ASSUME NEW j \in Jobs, NEW s \in Servers, Answer(j, s)
       PROVE  QueueInv'
  BY <1>4, <1>11, ServerSteps DEF server, CallMoves
<1>12. ASSUME NEW s \in Servers, Restart(s)
       PROVE  QueueInv'
  <2>1. CallsLost(s) /\ queue' = [queue EXCEPT ![s] = <<>>]
    BY <1>12, ServerSteps
  <2>2. ASSUME NEW t \in Servers, t # s
        PROVE  Good(queue'[t], t)
    <3>1. queue'[t] = queue[t]
      BY <1>0, <2>1, <2>2
    <3>2. \A j \in Jobs : call'[j][t].at = call[j][t].at
      BY <2>1, <2>2 DEF CallsLost
    <3> QED
      BY <1>3, <3>1, <3>2
  <2>3. queue'[s] = <<>>
    BY <1>0, <2>1
  <2>4. \A k \in Jobs : call'[k][s].at # "queued"
    BY <2>1 DEF CallsLost
  <2>5. Good(queue'[s], s)
    BY <2>3, <2>4 DEF Good, Holds, Distinct
  <2> QED
    BY <1>1, <2>2, <2>5
<1> QED
  BY <1>5, <1>6, <1>7, <1>8, <1>9, <1>10, <1>11, <1>12 DEF KindsOfSteps

LEMMA ChannelStep ==
  ASSUME TInv, QueueInv, CallInv, ChannelInv, KindsOfSteps
  PROVE  ChannelInv'
<1>0. JobsTyped /\ resCh \in [Jobs -> SUBSET AnswerRecord]
  BY DEF TInv, JobsTyped
<1>1. ASSUME NEW j \in Jobs, NEW a \in resCh[j]
      PROVE  a \in AnswerRecord /\ a.server \in Servers
  BY <1>0 DEF AnswerRecord
\* No answer, and no answered call, comes or goes.
<1>2. ASSUME resCh' = resCh,
             \A j \in Jobs, s \in Servers :
               \/ call[j][s].at = "answered" /\ call'[j][s].at = "answered"
                  /\ call'[j][s].share = call[j][s].share
               \/ call[j][s].at # "answered" /\ call'[j][s].at # "answered"
      PROVE  ChannelInv'
  BY <1>1, <1>2 DEF ChannelInv
<1>3. CASE Still
  BY <1>3 DEF Still, ChannelInv
<1>4. ASSUME NEW j \in Jobs, NEW q, Moves(j, q)
      PROVE  ChannelInv'
  BY <1>4 DEF Moves, ChannelInv
<1>5. ASSUME NEW j \in Jobs, NEW q, Asks(j, q)
      PROVE  ChannelInv'
  <2>1. PICK group \in Groups : SentTo(j, group)
    BY <1>5 DEF Asks
  <2>2. resCh' = resCh /\ \A s \in Servers : call[j][s].at = "none"
    BY <1>5 DEF Asks, CallInv
  <2>3. ASSUME NEW k \in Jobs, NEW s \in Servers
        PROVE  \/ call'[k][s] = call[k][s]
               \/ call[k][s].at # "answered" /\ call'[k][s].at # "answered"
    BY <2>1, <2>2 DEF SentTo
  <2> QED
    BY <1>2, <2>2, <2>3
<1>6. ASSUME NEW j \in Jobs, NEW s \in Servers, DatabaseInfo(j, s)
      PROVE  ChannelInv'
  BY <1>6 DEF DatabaseInfo, ChannelInv
<1>7. ASSUME NEW j \in Jobs, NEW s \in Servers, NEW at, at # "answered",
             CallMoves(j, s, at), call[j][s].at # "answered", resCh' = resCh
      PROVE  ChannelInv'
  BY <1>2, <1>7 DEF CallMoves
<1>8. ASSUME NEW j \in Jobs, NEW s \in Servers, Deliver(j, s)
      PROVE  ChannelInv'
  BY <1>7, <1>8, ServerSteps
<1>9. ASSUME NEW s \in Servers, WorkerTakes(s)
      PROVE  ChannelInv'
  BY <1>7, <1>9, ServerSteps
<1>10. ASSUME NEW j \in Jobs, NEW s \in Servers, Answer(j, s)
       PROVE  ChannelInv'
  <2> DEFINE new == [job |-> j, server |-> s, share |-> call[j][s].share,
                     version |-> version[s]]
  <2>1. /\ call[j][s].at = "evaluating" /\ CallMoves(j, s, "answered")
        /\ resCh' = [resCh EXCEPT ![j] = resCh[j] \cup {new}]
    BY <1>10, ServerSteps
  <2>2. new.job = j /\ new.server = s /\ new.share = call[j][s].share
    OBVIOUS
  <2> HIDE DEF new
  <2>3. resCh'[j] = resCh[j] \cup {new} /\ \A k \in Jobs : k # j => resCh'[k] = resCh[k]
    BY <1>0, <2>1
  <2>4. \A a \in resCh[j] : a.server # s
    BY <2>1 DEF ChannelInv
  <2>5. ASSUME NEW k \in Jobs, NEW a \in resCh'[k]
        PROVE  /\ a.job = k /\ call'[k][a.server].at = "answered"
               /\ a.share = call'[k][a.server].share
    <3>1. CASE k = j /\ a = new
      BY <2>1, <2>2, <3>1 DEF CallMoves
    <3>2. CASE a \in resCh[k] /\ (k # j \/ a.server # s)
      <4>1. call'[k][a.server] = call[k][a.server]
        BY <1>1, <2>1, <3>2 DEF CallMoves
      <4> QED
        BY <3>2, <4>1 DEF ChannelInv
    <3> QED
      BY <2>3, <2>4, <2>5, <3>1, <3>2
  <2>6. ASSUME NEW k \in Jobs, NEW a \in resCh'[k], NEW b \in resCh'[k],
               a.server = b.server
        PROVE  a = b
    <3>1. CASE a \in resCh[k] /\ b \in resCh[k]
      BY <2>6, <3>1 DEF ChannelInv
    <3>2. CASE k = j /\ (a = new \/ b = new)
      BY <2>2, <2>3, <2>4, <2>6, <3>2
    <3> QED
      BY <2>3, <3>1, <3>2
  <2>7. ASSUME NEW k \in Jobs, NEW t \in Servers, call'[k][t].at = "answered"
        PROVE  \E a \in resCh'[k] : a.server = t
    <3>1. CASE k = j /\ t = s
      BY <2>2, <2>3, <3>1
    <3>2. CASE k # j \/ t # s
      <4>1. call[k][t].at = "answered"
        BY <2>1, <2>7, <3>2 DEF CallMoves
      <4>2. PICK a \in resCh[k] : a.server = t
        BY <4>1 DEF ChannelInv
      <4> QED
        BY <2>3, <4>2
    <3> QED
      BY <3>1, <3>2
  <2> QED
    BY <2>5, <2>6, <2>7 DEF ChannelInv
<1>11. ASSUME NEW s \in Servers, Restart(s)
       PROVE  ChannelInv'
  BY <1>2, <1>11, ServerSteps DEF CallsLost
<1> QED
  BY <1>3, <1>4, <1>5, <1>6, <1>8, <1>9, <1>10, <1>11 DEF KindsOfSteps

LEMMA FaultStep ==
  ASSUME TInv, QueueInv, CallInv, ChannelInv, FaultInv, KindsOfSteps
  PROVE  FaultInv'
<1> DEFINE Calm == /\ stopping = {}
                   /\ \A j \in Jobs : \A s \in Servers :
                        /\ infos[j][s] # None => infos[j][s] = version[s]
                        /\ call[j][s].at # "lost"
                   /\ \A j \in Jobs : \A a \in resCh[j] : a.version = version[a.server]
           Informed == program # "simulation" =>
                         \A j \in Jobs : job[j].pc = "queries" =>
                           \A s \in Servers : s[1] = Group(j) => infos[j][s] # None
<1>0. /\ JobsTyped /\ faults \in Nat
      /\ resCh \in [Jobs -> SUBSET AnswerRecord]
      /\ infos \in [Jobs -> [Servers -> Versions \cup {None}]]
  BY Constants DEF TInv, JobsTyped, ProgramTyped
<1>1. (faults = 0 => Calm) /\ Informed
  BY DEF FaultInv
<1>2. ASSUME faults' = 0 => Calm', Informed'
      PROVE  FaultInv'
  BY <1>2 DEF FaultInv
<1>3. CASE Still
  <2>1. Informed'
    BY <1>1, <1>3 DEF Still, Group
  <2>2. ASSUME faults' = 0 PROVE Calm'
    <3>1. UNCHANGED <<faults, stopping>>
      BY <1>0, <1>3, <2>2 DEF Still
    <3> QED
      BY <1>1, <1>3, <2>2, <3>1 DEF Still
  <2> QED
    BY <1>2, <2>1, <2>2
<1>4. ASSUME NEW j \in Jobs, NEW q, Moves(j, q)
      PROVE  FaultInv'
  <2>1. faults' = 0 => Calm'
    BY <1>1, <1>4 DEF Moves, server
  <2>2. /\ job'[j] = q /\ q.pc # "queries" /\ program' = program /\ infos' = infos
        /\ \A k \in Jobs : k # j => job'[k] = job[k]
    BY <1>0, <1>4, BecomesFacts DEF Moves
  <2>3. Informed'
    BY <1>1, <2>2 DEF Group
  <2> QED
    BY <1>2, <2>1, <2>3
<1>5. ASSUME NEW j \in Jobs, NEW q, Asks(j, q)
      PROVE  FaultInv'
  <2>1. PICK group \in Groups : SentTo(j, group)
    BY <1>5 DEF Asks
  <2>2. faults' = 0 => Calm'
    <3>1. \A k \in Jobs, s \in Servers : call'[k][s].at # "lost" \/ call'[k][s] = call[k][s]
      BY <2>1 DEF SentTo
    <3> QED
      BY <1>1, <1>5, <3>1 DEF Asks, server
  <2>3. /\ job'[j] = q /\ program' = program /\ infos' = infos
        /\ \A k \in Jobs : k # j => job'[k] = job[k]
        /\ program # "simulation" => AllInfos(j) /\ q.kind = job[j].kind
    BY <1>0, <1>5, BecomesFacts DEF Asks, Keeps, client
  <2>4. ASSUME AllInfos(j), NEW s \in Servers, s[1] = Group(j)
        PROVE  infos[j][s] # None
    BY <2>4 DEF AllInfos, ServersOf, Servers
  <2>5. Informed'
    BY <1>1, <2>3, <2>4 DEF Group
  <2> QED
    BY <1>2, <2>2, <2>5
<1>6. ASSUME NEW j \in Jobs, NEW s \in Servers, DatabaseInfo(j, s)
      PROVE  FaultInv'
  <2>1. /\ infos' = [infos EXCEPT ![j][s] = version[s]] /\ infos[j][s] = None
        /\ UNCHANGED <<program, job, call, resCh, version, stopping, faults>>
        /\ job[j].pc = "infos"
    BY <1>6 DEF DatabaseInfo, client, server
  <2>2. \A k \in Jobs, t \in Servers :
          infos'[k][t] = IF k = j /\ t = s THEN version[s] ELSE infos[k][t]
    BY <1>0, <2>1
  <2>3. faults' = 0 => Calm'
    BY <1>1, <2>1, <2>2
  <2>4. Informed'
    BY <1>1, <2>1, <2>2 DEF Group
  <2> QED
    BY <1>2, <2>3, <2>4
<1>7. ASSUME NEW j \in Jobs, NEW s \in Servers, NEW at, at # "lost", CallMoves(j, s, at),
             UNCHANGED <<program, job, infos, version, stopping, faults>>,
             \A k \in Jobs : \A a \in resCh'[k] : a \in resCh[k] \/ a.version = version[a.server]
      PROVE  FaultInv'
  <2>1. \A k \in Jobs, t \in Servers : call'[k][t].at # "lost" \/ call'[k][t] = call[k][t]
    BY <1>7 DEF CallMoves
  <2>2. faults' = 0 => Calm'
    BY <1>1, <1>7, <2>1
  <2>3. Informed'
    BY <1>1, <1>7 DEF Group
  <2> QED
    BY <1>2, <2>2, <2>3
<1>8. ASSUME NEW j \in Jobs, NEW s \in Servers, Deliver(j, s)
      PROVE  FaultInv'
  BY <1>7, <1>8, ServerSteps DEF client
<1>9. ASSUME NEW s \in Servers, WorkerTakes(s)
      PROVE  FaultInv'
  BY <1>7, <1>9, ServerSteps DEF client
<1>10. ASSUME NEW j \in Jobs, NEW s \in Servers, Answer(j, s)
       PROVE  FaultInv'
  <2> DEFINE new == [job |-> j, server |-> s, share |-> call[j][s].share,
                     version |-> version[s]]
  <2>1. /\ CallMoves(j, s, "answered") /\ UNCHANGED <<client, job, infos, server>>
        /\ resCh' = [resCh EXCEPT ![j] = resCh[j] \cup {new}]
    BY <1>10, ServerSteps
  <2>2. new.version = version[new.server]
    OBVIOUS
  <2> HIDE DEF new
  <2>3. \A k \in Jobs : \A a \in resCh'[k] : a \in resCh[k] \/ a = new
    BY <1>0, <2>1
  <2> QED
    BY <1>7, <2>1, <2>2, <2>3 DEF client, server
<1>11. ASSUME NEW s \in Servers, Restart(s)
       PROVE  FaultInv'
  <2>1. faults' # 0 /\ UNCHANGED <<client, job, infos>>
    BY <1>0, <1>11, ServerSteps
  <2>2. Informed'
    BY <1>1, <2>1 DEF Group, client
  <2> QED
    BY <1>2, <2>1, <2>2
<1> QED
  BY <1>3, <1>4, <1>5, <1>6, <1>8, <1>9, <1>10, <1>11 DEF KindsOfSteps
-----------------------------------------------------------------------------
(* Types are kept.                                                         *)

\* A simulation chooses the first block.
StartChosen ==
  /\ Prepare /\ pc' = pc /\ start = None /\ addresses' = addresses
  /\ start' \in IF flags.scheme = "point" THEN StartIndex ELSE {0}
  /\ program = "simulation"
  /\ flags.scheme = "point" => ~(flags.total <= RetrieveBlocks)

\* What a step does to the program itself.
ProgramMoves ==
  /\ UNCHANGED <<program, flags>>
  /\ \/ UNCHANGED <<pc, addresses, start>>
     \/ /\ pc = "running" /\ pc' \in {"running", "dead"}
        /\ UNCHANGED <<addresses, start>>
     \/ /\ pc = "connecting" /\ pc' \in {"running", "dead"}
        /\ UNCHANGED <<addresses, start>>
     \/ LoadConfig \/ Leave \/ Leaves
     \/ StartChosen

LEMMA PrepareMoves == ASSUME Prepare PROVE ProgramMoves
<1>1. \/ Fatal
      \/ /\ start' \in IF flags.scheme = "point" THEN StartIndex ELSE {0}
         /\ UNCHANGED <<program, flags, pc, addresses>>
         /\ flags.scheme = "point" => ~(flags.total <= RetrieveBlocks)
  BY Zenon DEF Prepare
<1>2. program = "simulation" /\ start = None /\ pc = "running"
  BY DEF Prepare
<1>3. CASE Fatal
  BY <1>2, <1>3 DEF ProgramMoves, Fatal
<1>4. CASE /\ start' \in IF flags.scheme = "point" THEN StartIndex ELSE {0}
           /\ UNCHANGED <<program, flags, pc, addresses>>
           /\ flags.scheme = "point" => ~(flags.total <= RetrieveBlocks)
  <2>1. StartChosen
    BY <1>2, <1>4 DEF StartChosen
  <2> QED
    BY <1>4, <2>1 DEF ProgramMoves
<1> QED
  BY <1>1, <1>3, <1>4

LEMMA ProgramStep ==
  ASSUME TInv, JobsInv, [Next]_vars
  PROVE  ProgramMoves
<1>1. CASE UNCHANGED vars
  BY <1>1 DEF ProgramMoves, vars, client
<1>2. CASE MainStep
  <2>1. CASE FirstInfo
    BY <2>1 DEF FirstInfo, client, ProgramMoves
  <2>2. ASSUME NEW j \in Jobs, Retrieve(j)
        PROVE  ProgramMoves
    BY <2>2 DEF Retrieve, client, ProgramMoves
  <2>3. CASE LoadConfig
    BY <2>3 DEF LoadConfig, ProgramMoves
  <2>4. CASE Connect
    BY <2>4 DEF Connect, ProgramMoves
  <2>5. CASE Leaves
    BY <2>5 DEF Leaves, ProgramMoves
  <2> QED
    BY <1>2, <2>1, <2>2, <2>3, <2>4, <2>5, PrepareMoves DEF MainStep
<1>3. CASE Leave \/ Quiet
  <2>1. CASE Leave
    BY <2>1 DEF Leave, ProgramMoves
  <2>2. CASE Quiet
    BY <2>2 DEF Quiet, vars, client, ProgramMoves
  <2> QED
    BY <1>3, <2>1, <2>2
<1>4. CASE Fault
  <2>1. ASSUME NEW s \in Servers, Restart(s) \/ Stop(s)
        PROVE  ProgramMoves
    BY <2>1 DEF Restart, Stop, client, ProgramMoves
  <2>2. ASSUME NEW j \in Jobs, Expire(j) \/ InfoFails(j)
        PROVE  ProgramMoves
    BY <2>2 DEF Expire, InfoFails, Fatal, ProgramMoves
  <2> QED
    BY <1>4, <2>1, <2>2 DEF Fault
<1>5. ASSUME NEW j \in Jobs, Arrive(j) \/ JobStep(j)
      PROVE  ProgramMoves
  <2>1. ASSUME NEW q, Moves(j, q)
        PROVE  ProgramMoves
    BY <2>1 DEF Moves, ProgramMoves
  <2>2. CASE Arrive(j) \/ InfosDiffer(j) \/ Reconstruct(j) \/ (CheckForm(j) /\ job' # job)
    BY <2>1, <2>2, MovingSteps
  <2>3. CASE RpcFails(j)
    BY <2>3 DEF RpcFails, Fatal, ProgramMoves
  <2>4. CASE CheckForm(j)
    <3>1. (UNCHANGED client \/ Fatal) /\ pc = "running"
      BY <2>4, Zenon DEF CheckForm
    <3> QED
      BY <3>1 DEF ProgramMoves, Fatal, client
  <2>5. CASE SendQueries(j)
    BY <2>5 DEF SendQueries, client, ProgramMoves
  <2> QED
    BY <1>5, <2>2, <2>3, <2>4, <2>5 DEF JobStep
<1>6. ASSUME NEW s \in Servers, ServerStep(s)
      PROVE  ProgramMoves
  <2>1. UNCHANGED client
    BY <1>6 DEF ServerStep, WorkerTakes, DatabaseInfo, Deliver, Answer
  <2> QED
    BY <2>1 DEF client, ProgramMoves
<1> QED
  BY <1>1, <1>2, <1>3, <1>4, <1>5, <1>6 DEF Next

LEMMA TypeStep ==
  ASSUME TInv, JobsInv, QueueInv, [Next]_vars
  PROVE  TInv'
<1>0. /\ KindsOfSteps /\ ProgramMoves /\ JobsTyped /\ ServersTyped /\ ProgramTyped
  BY KindOfStep, ProgramStep DEF TInv
<1>1. /\ job \in [Jobs -> JobRecord]
      /\ infos \in [Jobs -> [Servers -> Versions \cup {None}]]
      /\ call \in [Jobs -> [Servers -> CallRecord]]
      /\ resCh \in [Jobs -> SUBSET AnswerRecord]
      /\ version \in [Servers -> Versions]
      /\ queue \in [Servers -> Seq(Jobs)]
      /\ stopping \subseteq Servers /\ faults \in 0 .. MaxFaults /\ MaxFaults \in Nat
  BY <1>0, Constants DEF JobsTyped, ServersTyped, ProgramTyped
<1>2. /\ UNCHANGED <<program, flags>>
      /\ pc' \in {"loading", "connecting", "running", "exited", "dead"}
      /\ pc' # "loading" => addresses' = [i \in Sids |-> i]
      /\ start' \in Int \cup {None}
  <2>1. CASE LoadConfig
    <3>1. \/ addresses' = StaticConfig
          \/ \E order \in SetToSeqs(Sids) : addresses' = LoadedConfig(order)
      BY <2>1 DEF LoadConfig
    <3>2. addresses' = [i \in Sids |-> i]
      BY <3>1, ConfigInOrder DEF StaticConfig
    <3> QED
      BY <1>0, <2>1, <3>2 DEF LoadConfig, ProgramTyped
  <2>2. CASE Leave \/ Leaves
    BY <1>0, <2>2 DEF Leave, Leaves, ProgramTyped
  <2>3. CASE StartChosen
    <3>1. start' \in Int
      BY <2>3 DEF StartIndex, StartChosen
    <3>2. pc' = pc /\ addresses' = addresses /\ UNCHANGED <<program, flags>>
      BY <1>0, <2>3 DEF StartChosen, ProgramMoves
    <3> QED
      BY <1>0, <3>1, <3>2 DEF ProgramTyped
  <2>4. CASE /\ UNCHANGED <<program, flags, addresses, start>>
             /\ pc' = pc \/ (pc # "loading" /\ pc' \in {"running", "dead"})
    BY <1>0, <2>4 DEF ProgramTyped
  <2>5. \/ /\ UNCHANGED <<program, flags, addresses, start>>
           /\ pc' = pc \/ (pc # "loading" /\ pc' \in {"running", "dead"})
        \/ LoadConfig \/ Leave \/ Leaves \/ StartChosen
    BY <1>0 DEF ProgramMoves
  <2> QED
    BY <2>1, <2>2, <2>3, <2>4, <2>5
<1> DEFINE Rest == JobsTyped' /\ ServersTyped' /\ faults' \in 0 .. MaxFaults
<1>3. ASSUME Still
      PROVE  Rest
  <2>1. stopping' \subseteq Servers
    BY <1>1, <1>3 DEF Still
  <2>2. faults' \in 0 .. MaxFaults
    BY <1>1, <1>3 DEF Still
  <2>3. UNCHANGED <<job, infos, call, resCh, version, queue>>
    BY <1>3 DEF Still
  <2>4. JobsTyped'
    BY <1>1, <2>3 DEF JobsTyped
  <2>5. ServersTyped'
    BY <1>1, <2>1, <2>3 DEF ServersTyped
  <2> QED
    BY <2>2, <2>4, <2>5
<1>4. ASSUME NEW j \in Jobs, NEW q, Moves(j, q)
      PROVE  Rest
  <2>1. job' \in [Jobs -> JobRecord]
    BY <1>0, <1>4, BecomesFacts DEF Moves
  <2> QED
    BY <1>1, <1>4, <2>1 DEF Moves, server, JobsTyped, ServersTyped
<1>5. ASSUME NEW j \in Jobs, NEW q, Asks(j, q)
      PROVE  Rest
  <2>1. job' \in [Jobs -> JobRecord]
    BY <1>0, <1>5, BecomesFacts DEF Asks
  <2>2. call' \in [Jobs -> [Servers -> CallRecord]]
    BY <1>5 DEF Asks, SentTo
  <2> QED
    BY <1>1, <1>5, <2>1, <2>2 DEF Asks, server, JobsTyped, ServersTyped
<1>6. ASSUME NEW j \in Jobs, NEW s \in Servers, DatabaseInfo(j, s)
      PROVE  Rest
  <2>1. infos' \in [Jobs -> [Servers -> Versions \cup {None}]]
    BY <1>1, <1>6 DEF DatabaseInfo
  <2> QED
    BY <1>1, <1>6, <2>1 DEF DatabaseInfo, server, JobsTyped, ServersTyped
<1>7. ASSUME NEW j \in Jobs, NEW s \in Servers, Deliver(j, s)
      PROVE  Rest
  <2>1. /\ call' \in [Jobs -> [Servers -> CallRecord]]
        /\ UNCHANGED <<client, job, infos, resCh, version, stopping, faults>>
    BY <1>7, <1>0, ServerSteps DEF CallMoves, TInv
  <2>2. queue' = queue \/ queue' = [queue EXCEPT ![s] = Append(queue[s], j)]
    BY <1>7, <1>0, ServerSteps DEF TInv
  <2>3. queue' \in [Servers -> Seq(Jobs)]
    <3>1. Append(queue[s], j) \in Seq(Jobs)
      <4>1. queue[s] \in Seq(Jobs)
        BY <1>1
      <4> QED
        BY <4>1
    <3> DEFINE q == Append(queue[s], j)
    <3> HIDE DEF q
    <3>2. ASSUME queue' = [queue EXCEPT ![s] = q]
          PROVE  queue' \in [Servers -> Seq(Jobs)]
      BY <1>1, <3>1, <3>2 DEF q
    <3> QED
      BY <1>1, <2>2, <3>2 DEF q
  <2> QED
    BY <1>1, <2>1, <2>3 DEF JobsTyped, ServersTyped
<1>8. ASSUME NEW s \in Servers, WorkerTakes(s)
      PROVE  Rest
  <2>1. /\ call' \in [Jobs -> [Servers -> CallRecord]]
        /\ UNCHANGED <<client, job, infos, resCh, version, stopping, faults>>
        /\ queue[s] # <<>> /\ queue' = [queue EXCEPT ![s] = Tail(queue[s])]
    BY <1>8, ServerSteps DEF CallMoves
  <2>2. Tail(queue[s]) \in Seq(Jobs)
    BY <1>1, <2>1
  <2>3. queue' \in [Servers -> Seq(Jobs)]
    BY <1>1, <2>1, <2>2
  <2> QED
    BY <1>1, <2>1, <2>3 DEF JobsTyped, ServersTyped
<1>9. ASSUME NEW j \in Jobs, NEW s \in Servers, Answer(j, s)
      PROVE  Rest
  <2> DEFINE new == [job |-> j, server |-> s, share |-> call[j][s].share,
                     version |-> version[s]]
  <2>1. /\ call' \in [Jobs -> [Servers -> CallRecord]]
        /\ UNCHANGED <<client, job, infos, server>>
        /\ resCh' = [resCh EXCEPT ![j] = resCh[j] \cup {new}]
    BY <1>9, ServerSteps DEF CallMoves
  <2>2. new \in AnswerRecord
    BY <1>1 DEF AnswerRecord, CallRecord
  <2> HIDE DEF new
  <2>3. resCh' \in [Jobs -> SUBSET AnswerRecord]
    BY <1>1, <2>1, <2>2
  <2> QED
    BY <1>1, <2>1, <2>3 DEF JobsTyped, ServersTyped, server
<1>10. ASSUME NEW s \in Servers, Restart(s)
       PROVE  Rest
  <2>1. /\ call' \in [Jobs -> [Servers -> CallRecord]]
        /\ version' \in [Servers -> Versions]
        /\ queue' = [queue EXCEPT ![s] = <<>>]
        /\ UNCHANGED <<client, job, infos, resCh, stopping>>
        /\ faults < MaxFaults /\ faults' = faults + 1
    BY <1>10, ServerSteps DEF CallsLost
  <2>2. queue' \in [Servers -> Seq(Jobs)]
    BY <1>1, <2>1
  <2>3. faults' \in 0 .. MaxFaults
    BY <1>1, <2>1
  <2> QED
    BY <1>1, <2>1, <2>2, <2>3 DEF JobsTyped, ServersTyped
<1> HIDE DEF Rest
<1>11. Rest
  <2>1. KindsOfSteps
    BY <1>0
  <2> QED
    BY <1>3, <1>4, <1>5, <1>6, <1>7, <1>8, <1>9, <1>10, <2>1 DEF KindsOfSteps
<1> QED
  BY <1>0, <1>2, <1>11 DEF Rest, TInv, ProgramTyped
-----------------------------------------------------------------------------
(* The parts of the invariant about jobs.                                  *)

\* The actions that change a job.
LEMMA JobActions ==
  ASSUME [Next]_vars
  PROVE  \/ job' = job
         \/ FirstInfo
         \/ \E j \in Jobs : \/ Arrive(j) \/ (CheckForm(j) /\ job' # job) \/ SendQueries(j)
                            \/ Retrieve(j) \/ InfosDiffer(j) \/ Reconstruct(j)
<1>1. CASE UNCHANGED vars
  BY <1>1 DEF vars
<1>2. CASE MainStep
  BY <1>2 DEF MainStep, LoadConfig, Connect, Prepare, Leaves
<1>3. CASE Leave \/ Quiet \/ Fault
  BY <1>3 DEF Leave, Quiet, Fault, Restart, Stop, Expire, InfoFails, vars
<1>4. ASSUME NEW j \in Jobs, Arrive(j) \/ JobStep(j)
      PROVE  \/ job' = job
             \/ Arrive(j) \/ (CheckForm(j) /\ job' # job) \/ SendQueries(j)
             \/ InfosDiffer(j) \/ Reconstruct(j)
  BY <1>4 DEF JobStep, RpcFails
<1>5. ASSUME NEW s \in Servers, ServerStep(s)
      PROVE  job' = job
  BY <1>5 DEF ServerStep, WorkerTakes, DatabaseInfo, Deliver, Answer
<1> QED
  BY <1>1, <1>2, <1>3, <1>4, <1>5 DEF Next

\* One job changes, after all jobs before it were begun.
LEMMA JobsKept ==
  ASSUME TInv, JobsInv, NEW j \in Jobs, NEW q, Becomes(j, q), q.pc # "idle",
         program' = program,
         \A k \in Jobs : k < j => job[k].pc # "idle",
         q.pc # "closed" => q.status = 0 /\ q.body = <<>>,
         Len(q.body) <= 2,
         program = "web" => q.form # "interrupted",
         program = "interactive" => q.form # "unreadable",
         program = "simulation" => q.kind \in {"point", "complex"} /\ q.pc # "handler"
  PROVE  JobsInv'
<1>1. job'[j] = q /\ \A k \in Jobs : k # j => job'[k] = job[k]
  BY BecomesFacts DEF TInv
<1>2. PICK m \in 0 .. NumJobs : \A k \in Jobs : job[k].pc # "idle" <=> k <= m
  BY DEF JobsInv
<1>3. m \in Nat /\ j \in Nat /\ j >= 1 /\ j <= NumJobs /\ NumJobs \in Nat
  BY <1>2, Constants DEF Jobs
<1>4. \E n \in 0 .. NumJobs : \A k \in Jobs : job'[k].pc # "idle" <=> k <= n
  <2>1. CASE job[j].pc # "idle"
    BY <1>1, <1>2, <2>1
  <2>2. CASE job[j].pc = "idle"
    <3>1. j > m
      BY <1>2, <1>3, <2>2
    <3>2. j <= m + 1
      <4>1. CASE j = 1
        BY <1>3, <4>1
      <4>2. CASE j # 1
        <5>1. j - 1 \in Jobs /\ j - 1 < j
          BY <1>3, <4>2 DEF Jobs
        <5> QED
          BY <1>2, <1>3, <5>1
      <4> QED
        BY <4>1, <4>2
    <3>3. j = m + 1 /\ m + 1 \in 0 .. NumJobs
      BY <1>3, <3>1, <3>2
    <3>4. ASSUME NEW k \in Jobs
          PROVE  job'[k].pc # "idle" <=> k <= m + 1
      <4>1. k \in Nat
        BY Constants
      <4>2. CASE k = j
        BY <1>1, <1>3, <3>3, <4>2
      <4>3. CASE k # j
        BY <1>1, <1>2, <1>3, <3>3, <4>1, <4>3
      <4> QED
        BY <4>2, <4>3
    <3> QED
      BY <3>3, <3>4
  <2> QED
    BY <2>1, <2>2
<1>5. ASSUME NEW k \in Jobs
      PROVE  /\ job'[k].pc # "closed" => NoReply(k)'
             /\ Len(job'[k].body) <= 2
             /\ job'[k].pc # "idle" =>
                  /\ program = "web" => job'[k].form # "interrupted"
                  /\ program = "interactive" => job'[k].form # "unreadable"
                  /\ program = "simulation" => /\ job'[k].kind \in {"point", "complex"}
                                               /\ job'[k].pc # "handler"
  <2>1. CASE k = j
    BY <1>1, <2>1 DEF NoReply
  <2>2. CASE k # j
    BY <1>1, <2>2 DEF JobsInv, NoReply
  <2> QED
    BY <2>1, <2>2
<1> QED
  BY <1>4, <1>5 DEF JobsInv

\* Jobs before one that was begun were begun.
LEMMA Earlier ==
  ASSUME JobsInv, NEW j \in Jobs, job[j].pc # "idle"
  PROVE  \A k \in Jobs : k < j => job[k].pc # "idle"
<1>1. PICK m \in 0 .. NumJobs : \A k \in Jobs : job[k].pc # "idle" <=> k <= m
  BY DEF JobsInv
<1>2. m \in Nat /\ Jobs \subseteq Nat
  BY <1>1, Constants
<1> QED
  BY <1>1, <1>2

\* Before a job that a simulation may begin every job has ended.
LEMMA RetrievesNext ==
  ASSUME TInv, JobsInv, OneByOne, NEW j \in Jobs, Retrieve(j)
  PROVE  /\ job[1].pc # "idle" /\ job[j].pc \in {"idle", "infos"}
         /\ \A k \in Jobs : k < j => job[k].pc = "closed"
<1>1. /\ program = "simulation"
      /\ \/ j = 1 /\ job[1].pc = "infos"
         \/ j # 1 /\ NextJob(j) /\ job[j - 1].pc = "closed"
  BY RetrieveEffect
<1>2. j \in Nat /\ j >= 1 /\ 1 \in Jobs
  BY Constants DEF Jobs
<1>3. CASE j = 1 /\ job[1].pc = "infos"
  BY <1>2, <1>3, Constants DEF Jobs
<1>4. CASE j # 1 /\ NextJob(j) /\ job[j - 1].pc = "closed"
  <2>1. \A k \in Jobs : job[k].pc # "idle" <=> k < j
    BY <1>4, NextOne
  <2>2. job[1].pc # "idle" /\ job[j].pc = "idle"
    BY <1>2, <1>4, <2>1
  <2>3. j - 1 \in Jobs
    BY <1>2, <1>4, Constants DEF Jobs
  <2>4. ASSUME NEW k \in Jobs, k < j
        PROVE  job[k].pc = "closed"
    <3>1. CASE k = j - 1
      BY <1>4, <3>1
    <3>2. CASE k < j - 1
      BY <1>1, <1>4, <2>3, <3>2 DEF OneByOne
    <3> QED
      BY <1>2, <2>4, <3>1, <3>2, Constants
  <2> QED
    BY <2>2, <2>4
<1> QED
  BY <1>1, <1>3, <1>4

LEMMA JobsStep ==
  ASSUME TInv, JobsInv, OneByOne, [Next]_vars
  PROVE  JobsInv'
<1>0. program' = program
  BY ProgramStep DEF ProgramMoves
<1>1. ASSUME NEW k \in Jobs
      PROVE  /\ job[k].pc # "closed" => NoReply(k)
             /\ job[k].pc # "idle" =>
                  /\ program = "web" => job[k].form # "interrupted"
                  /\ program = "interactive" => job[k].form # "unreadable"
                  /\ program = "simulation" => /\ job[k].kind \in {"point", "complex"}
                                               /\ job[k].pc # "handler"
  BY DEF JobsInv
<1>2. CASE job' = job
  BY <1>0, <1>2 DEF JobsInv, NoReply
<1>3. CASE FirstInfo
  <2>1. PICK q : /\ Becomes(1, q) /\ q.pc = "infos" /\ Silent(1, q)
                 /\ q.kind \in {"point", "complex"}
    BY <1>3, FirstInfoEffect
  <2>2. program = "simulation" /\ NoReply(1) /\ 1 \in Jobs /\ \A k \in Jobs : ~(k < 1)
    BY <1>1, <1>3, Constants DEF FirstInfo, Jobs
  <2>3. q.status = 0 /\ q.body = <<>> /\ Len(q.body) <= 2
    BY <2>1, <2>2 DEF Silent, NoReply
  <2> QED
    BY <1>0, <2>1, <2>2, <2>3, JobsKept
<1>4. ASSUME NEW j \in Jobs, Arrive(j)
      PROVE  JobsInv'
  <2>1. PICK q : /\ Becomes(j, q) /\ q.pc = "handler" /\ Silent(j, q)
                 /\ program = "web" => q.kind \in WebKinds /\ q.form \in WebForms(q.kind)
                 /\ program = "interactive" => q.kind \in MenuKinds /\ q.form \in PromptForms
    BY <1>4, ArriveEffect
  <2>2. program # "simulation" /\ \A k \in Jobs : job[k].pc # "idle" <=> k < j
    BY <1>4, NextOne DEF Arrive
  <2>3. job[j].pc = "idle"
    <3>1. ~(j < j)
      BY Constants
    <3> QED
      BY <2>2, <3>1
  <2>4. q.status = 0 /\ q.body = <<>> /\ Len(q.body) <= 2
    BY <1>1, <2>1, <2>3 DEF Silent, NoReply
  <2>5. /\ program = "web" => q.form # "interrupted"
        /\ program = "interactive" => q.form # "unreadable"
    BY <2>1, FormSets
  <2> QED
    BY <1>0, <2>1, <2>2, <2>4, <2>5, JobsKept
\* A job that was begun goes on.
<1>5. ASSUME NEW j \in Jobs, NEW q, Becomes(j, q), Keeps(j, q),
             job[j].pc # "idle", q.pc # "idle", q.pc # "handler", Len(q.body) <= 2,
             q.pc # "closed" => q.status = 0 /\ q.body = <<>>
      PROVE  JobsInv'
  <2>1. /\ program = "web" => q.form # "interrupted"
        /\ program = "interactive" => q.form # "unreadable"
        /\ program = "simulation" => q.kind \in {"point", "complex"}
    BY <1>1, <1>5 DEF Keeps
  <2>2. \A k \in Jobs : k < j => job[k].pc # "idle"
    BY <1>5, Earlier
  <2> QED
    BY <1>0, <1>5, <2>1, <2>2, JobsKept
<1>6. ASSUME NEW j \in Jobs, CheckForm(j), job' # job
      PROVE  JobsInv'
  <2>1. job[j].pc = "handler" /\ NoReply(j)
    BY <1>1, <1>6 DEF CheckForm
  <2>2. PICK q : /\ Becomes(j, q) /\ Keeps(j, q)
                 /\ \/ q.pc = "infos" /\ Silent(j, q)
                    \/ q.pc = "closed" /\ Len(q.body) <= 2
    BY <1>6, <2>1, CheckFormEffect
  <2>3. q.pc = "infos" => q.status = 0 /\ q.body = <<>>
    BY <2>1, <2>2 DEF NoReply, Silent
  <2>4. Len(q.body) <= 2
    BY <2>2, <2>3
  <2> QED
    BY <1>5, <2>1, <2>2, <2>3, <2>4
<1>7. ASSUME NEW j \in Jobs, SendQueries(j)
      PROVE  JobsInv'
  <2>1. job[j].pc = "infos" /\ NoReply(j)
    BY <1>1, <1>7 DEF SendQueries
  <2>2. PICK q : Becomes(j, q) /\ q.pc = "queries" /\ Silent(j, q) /\ Keeps(j, q)
    BY <1>7, SendQueriesEffect
  <2>3. q.status = 0 /\ q.body = <<>> /\ Len(q.body) <= 2
    BY <2>1, <2>2 DEF NoReply, Silent
  <2> QED
    BY <1>5, <2>1, <2>2, <2>3
<1>8. ASSUME NEW j \in Jobs, Retrieve(j)
      PROVE  JobsInv'
  <2>1. PICK q : /\ Becomes(j, q) /\ q.pc = "queries" /\ Silent(j, q)
                 /\ q.kind = job[1].kind
    BY <1>8, RetrieveEffect
  <2>2. /\ job[1].pc # "idle" /\ job[j].pc \in {"idle", "infos"}
        /\ \A k \in Jobs : k < j => job[k].pc = "closed"
    BY <1>8, RetrievesNext
  <2>3. program = "simulation" /\ 1 \in Jobs
    BY <1>8, Constants DEF Retrieve
  <2>4. NoReply(j) /\ q.kind \in {"point", "complex"}
    BY <1>1, <2>1, <2>2, <2>3
  <2>5. q.status = 0 /\ q.body = <<>> /\ Len(q.body) <= 2
    BY <2>1, <2>4 DEF NoReply, Silent
  <2> QED
    BY <1>0, <2>1, <2>2, <2>3, <2>4, <2>5, JobsKept
<1>9. ASSUME NEW j \in Jobs, NEW outcome \in Results, Ends(j, outcome),
             job[j].pc \in {"infos", "queries"}
      PROVE  JobsInv'
  <2>1. PICK q : Becomes(j, q) /\ q.pc = "closed" /\ Keeps(j, q) /\ Len(q.body) <= 2
    BY <1>1, <1>9, EndsEffect
  <2> QED
    BY <1>5, <1>9, <2>1
<1>10. ASSUME NEW j \in Jobs, InfosDiffer(j)
       PROVE  JobsInv'
  BY <1>9, <1>10 DEF InfosDiffer, Results
<1>11. ASSUME NEW j \in Jobs, Reconstruct(j)
       PROVE  JobsInv'
  <2>1. PICK outcome \in Outcomes(j) : Ends(j, outcome)
    BY <1>11 DEF Reconstruct
  <2>2. outcome \in Results /\ job[j].pc = "queries"
    BY <1>11, OutcomesAre DEF Reconstruct, AllAnswered
  <2> QED
    BY <1>9, <2>1, <2>2
<1> QED
  BY <1>2, <1>3, <1>4, <1>6, <1>7, <1>8, <1>10, <1>11, JobActions

\* What a simulation does with a job.
LEMMA SimulationJobs ==
  ASSUME TInv, JobsInv, OneByOne, [Next]_vars, program = "simulation"
  PROVE  \/ job' = job
         \/ \E j \in Jobs : \E q :
              /\ pc = "running" /\ pc' \in {"running", "dead"} /\ start' = start
              /\ Becomes(j, q) /\ job[j].pc # "closed"
              /\ \A k \in Jobs : k < j => job[k].pc = "closed"
              /\ \/ q.pc = "infos" /\ job[j].pc = "idle" /\ q.index = job[j].index
                 \/ q.pc = "queries" /\ start # None /\ q.index = Block(j)
                 \/ q.pc = "closed" /\ job[j].pc = "queries" /\ q.index = job[j].index
<1>1. CASE FirstInfo
  <2>1. /\ pc = "running" /\ UNCHANGED client /\ job[1].pc = "idle"
        /\ \E q : Becomes(1, q) /\ q.pc = "infos" /\ q.index = job[1].index
    BY <1>1, FirstInfoEffect
  <2>2. 1 \in Jobs /\ \A k \in Jobs : ~(k < 1)
    BY Constants DEF Jobs
  <2> QED
    BY <2>1, <2>2 DEF client
<1>2. ASSUME NEW j \in Jobs, Retrieve(j)
      PROVE  \E q :
              /\ pc = "running" /\ pc' = "running" /\ start' = start
              /\ Becomes(j, q) /\ job[j].pc # "closed"
              /\ \A k \in Jobs : k < j => job[k].pc = "closed"
              /\ q.pc = "queries" /\ start # None /\ q.index = Block(j)
  <2>1. /\ pc = "running" /\ UNCHANGED client /\ start # None
        /\ \E q : Becomes(j, q) /\ q.pc = "queries" /\ q.index = Block(j)
    BY <1>2, RetrieveEffect
  <2>2. job[j].pc # "closed" /\ \A k \in Jobs : k < j => job[k].pc = "closed"
    BY <1>2, RetrievesNext
  <2> QED
    BY <2>1, <2>2 DEF client
<1>3. ASSUME NEW j \in Jobs, Reconstruct(j)
      PROVE  \E q :
              /\ pc = "running" /\ pc' \in {"running", "dead"} /\ start' = start
              /\ Becomes(j, q) /\ job[j].pc # "closed"
              /\ \A k \in Jobs : k < j => job[k].pc = "closed"
              /\ q.pc = "closed" /\ job[j].pc = "queries" /\ q.index = job[j].index
  <2>1. PICK outcome \in Outcomes(j) : Ends(j, outcome)
    BY <1>3 DEF Reconstruct
  <2>2. outcome \in Results /\ job[j].pc = "queries" /\ pc = "running"
    BY <1>3, OutcomesAre DEF Reconstruct, AllAnswered
  <2>3. NoReply(j)
    BY <2>2 DEF JobsInv
  <2>4. /\ start' = start /\ pc' \in {"running", "dead"}
        /\ \E q : Becomes(j, q) /\ q.pc = "closed" /\ q.index = job[j].index
    BY <2>1, <2>2, <2>3, EndsEffect
  <2>5. \A k \in Jobs : k < j => job[k].pc = "closed"
    BY <2>2 DEF OneByOne
  <2> QED
    BY <2>2, <2>4, <2>5
<1>4. ASSUME NEW j \in Jobs, Arrive(j) \/ SendQueries(j) \/ InfosDiffer(j) \/ CheckForm(j)
      PROVE  FALSE
  <2>1. CheckForm(j)
    BY <1>4 DEF Arrive, SendQueries, InfosDiffer
  <2>2. job[j].pc = "handler"
    BY <2>1 DEF CheckForm
  <2> QED
    BY <2>2 DEF JobsInv
<1> QED
  BY <1>1, <1>2, <1>3, <1>4, JobActions

LEMMA OneStep ==
  ASSUME TInv, JobsInv, OneByOne, [Next]_vars
  PROVE  OneByOne'
<1>0. program' = program
  BY ProgramStep DEF ProgramMoves
<1>1. CASE program # "simulation" \/ job' = job
  BY <1>0, <1>1 DEF OneByOne
<1>2. ASSUME program = "simulation", NEW j \in Jobs, NEW q, Becomes(j, q),
             job[j].pc # "closed", \A k \in Jobs : k < j => job[k].pc = "closed"
      PROVE  OneByOne'
  <2>1. job'[j] = q /\ \A k \in Jobs : k # j => job'[k] = job[k]
    BY <1>2, BecomesFacts DEF TInv
  <2>2. ASSUME NEW k \in Jobs, NEW l \in Jobs, l < k, job'[k].pc # "idle"
        PROVE  job'[l].pc = "closed"
    <3>1. k \in Nat /\ l \in Nat /\ j \in Nat
      BY Constants
    <3>2. CASE k = j
      BY <1>2, <2>1, <2>2, <3>1, <3>2
    <3>3. CASE k # j
      <4>1. job[k].pc # "idle"
        BY <2>1, <2>2, <3>3
      <4>2. job[l].pc = "closed"
        BY <1>2, <2>2, <4>1 DEF OneByOne
      <4> QED
        BY <1>2, <2>1, <4>2
    <3> QED
      BY <3>2, <3>3
  <2> QED
    BY <2>2 DEF OneByOne
<1> QED
  BY <1>1, <1>2, SimulationJobs

LEMMA IndexStep ==
  ASSUME TInv, JobsInv, OneByOne, IndexInv, [Next]_vars
  PROVE  IndexInv'
<1>0. ProgramMoves /\ program' = program /\ flags' = flags
  BY ProgramStep DEF ProgramMoves
<1>1. CASE program # "simulation"
  BY <1>0, <1>1 DEF IndexInv
<1> SUFFICES ASSUME program = "simulation" PROVE IndexInv'
  BY <1>1
<1>2. /\ \A j \in Jobs :
           IF job[j].pc \in {"queries", "closed"}
           THEN start # None /\ job[j].index = Block(j)
           ELSE job[j].index = None
      /\ flags.scheme = "point" /\ start # None =>
           start \in 0 .. flags.total - RetrieveBlocks - 1
      /\ pc = "exited" => start # None /\ \A j \in 1 .. Retrievals : job[j].pc = "closed"
  BY DEF IndexInv
<1>3. CASE job' = job /\ start' = start
  <2>1. pc' = "exited" => start # None /\ \A j \in 1 .. Retrievals : job[j].pc = "closed"
    BY <1>0, <1>2 DEF ProgramMoves, LoadConfig, Leave, Leaves, StartChosen
  <2> QED
    BY <1>0, <1>2, <1>3, <2>1 DEF IndexInv, Block, RetrieveBlocks, Retrievals
<1>4. CASE StartChosen
  <2>1. /\ start = None /\ pc' # "exited" /\ job' = job
        /\ flags.scheme = "point" => start' \in StartIndex
    BY <1>4 DEF StartChosen, Prepare
  <2> QED
    BY <1>0, <1>2, <2>1 DEF IndexInv, Block, RetrieveBlocks, StartIndex
<1>5. ASSUME NEW j \in Jobs, NEW q,
             pc' \in {"running", "dead"}, start' = start,
             Becomes(j, q), job[j].pc # "closed",
             \/ q.pc = "infos" /\ job[j].pc = "idle" /\ q.index = job[j].index
             \/ q.pc = "queries" /\ start # None /\ q.index = Block(j)
             \/ q.pc = "closed" /\ job[j].pc = "queries" /\ q.index = job[j].index
      PROVE  IndexInv'
  <2>1. job'[j] = q /\ \A k \in Jobs : k # j => job'[k] = job[k]
    BY <1>5, BecomesFacts DEF TInv
  <2>2. ASSUME NEW k \in Jobs
        PROVE  IF job'[k].pc \in {"queries", "closed"}
               THEN start # None /\ job'[k].index = Block(k)
               ELSE job'[k].index = None
    <3>1. CASE k = j
      BY <1>2, <1>5, <2>1, <3>1
    <3>2. CASE k # j
      BY <1>2, <2>1, <3>2
    <3> QED
      BY <3>1, <3>2
  <2> QED
    BY <1>0, <1>2, <1>5, <2>2 DEF IndexInv, Block, RetrieveBlocks
<1>6. start' = start \/ StartChosen
  BY <1>0 DEF ProgramMoves, LoadConfig, Leave, Leaves
<1>7. CASE job' = job
  BY <1>3, <1>4, <1>6, <1>7
<1> QED
  BY <1>5, <1>7, SimulationJobs
-----------------------------------------------------------------------------
(* Replies and the ends of a program.                                      *)
LEMMA MembersOf ==
  ASSUME NEW j \in Jobs
  PROVE  \A s : s \in ServersOf(j) <=> s \in Servers /\ s[1] = Group(j)
BY DEF ServersOf, Servers, Group, Groups

LEMMA AnsweredStays ==
  ASSUME TInv, CallInv, QueueInv, KindsOfSteps, NEW j \in Jobs, NEW s \in Servers,
         call[j][s].at = "answered"
  PROVE  call'[j][s].at = "answered"
<1>1. CASE Still
  BY <1>1 DEF Still
<1>2. ASSUME NEW k \in Jobs, NEW q, Moves(k, q)
      PROVE  call'[j][s].at = "answered"
  BY <1>2 DEF Moves
<1>3. ASSUME NEW k \in Jobs, NEW q, Asks(k, q)
      PROVE  call'[j][s].at = "answered"
  <2>1. k # j
    BY <1>3 DEF Asks, CallInv
  <2> QED
    BY <1>3, <2>1 DEF Asks, SentTo
<1>4. ASSUME NEW k \in Jobs, NEW t \in Servers, DatabaseInfo(k, t)
      PROVE  call'[j][s].at = "answered"
  BY <1>4 DEF DatabaseInfo
<1>5. ASSUME NEW k \in Jobs, NEW t \in Servers, NEW at, CallMoves(k, t, at),
             call[k][t].at # "answered"
      PROVE  call'[j][s].at = "answered"
  BY <1>5 DEF CallMoves
<1>6. ASSUME NEW k \in Jobs, NEW t \in Servers, Deliver(k, t) \/ Answer(k, t)
      PROVE  call'[j][s].at = "answered"
  BY <1>5, <1>6, ServerSteps
<1>7. ASSUME NEW t \in Servers, WorkerTakes(t)
      PROVE  call'[j][s].at = "answered"
  BY <1>5, <1>7, ServerSteps
<1>8. ASSUME NEW t \in Servers, Restart(t)
      PROVE  call'[j][s].at = "answered"
  BY <1>8, ServerSteps DEF CallsLost
<1> QED
  BY <1>1, <1>2, <1>3, <1>4, <1>6, <1>7, <1>8 DEF KindsOfSteps

LEMMA RepliesStep ==
  ASSUME TInv, JobsInv, CallInv, QueueInv, RepliesAreTrue, [Next]_vars
  PROVE  RepliesAreTrue'
<1> DEFINE True(r, c) == r.pc = "closed" /\ r.status = 200 =>
                           /\ Len(r.body) = 1
                           /\ r.kind # "index" =>
                                \A s \in Servers :
                                  s[1] = (IF r.kind \in {"retrieve", "key", "point"}
                                          THEN "point" ELSE "complex")
                                  => c[s].at = "answered"
<1>0. program' = program /\ KindsOfSteps
  BY ProgramStep, KindOfStep DEF ProgramMoves
<1>1. ASSUME program = "web" => \A j \in Jobs : True(job'[j], call'[j])
      PROVE  RepliesAreTrue'
  BY <1>0, <1>1 DEF RepliesAreTrue, ServersOf, Servers, Group, Groups
<1>2. ASSUME program = "web", NEW j \in Jobs
      PROVE  True(job[j], call[j])
  BY <1>2, MembersOf DEF RepliesAreTrue, Group
<1>3. \A j \in Jobs, s \in Servers :
        call[j][s].at = "answered" => call'[j][s].at = "answered"
  BY <1>0, AnsweredStays
<1>4. ASSUME program = "web", NEW j \in Jobs, job'[j] = job[j]
      PROVE  True(job'[j], call'[j])
  BY <1>2, <1>3, <1>4
<1>5. CASE program # "web" \/ job' = job
  BY <1>1, <1>4, <1>5
<1> SUFFICES ASSUME program = "web" PROVE RepliesAreTrue'
  BY <1>5
<1>6. ASSUME NEW j \in Jobs, NEW q, Becomes(j, q), True(q, call'[j])
      PROVE  RepliesAreTrue'
  <2>1. job'[j] = q /\ \A k \in Jobs : k # j => job'[k] = job[k]
    BY <1>6, BecomesFacts DEF TInv
  <2> HIDE DEF True
  <2> QED
    BY <1>1, <1>4, <1>6, <2>1
<1>7. ASSUME NEW j \in Jobs, NEW q, Becomes(j, q), q.pc # "closed" \/ q.status # 200
      PROVE  RepliesAreTrue'
  BY <1>6, <1>7
<1>8. ASSUME NEW j \in Jobs, NEW q, Becomes(j, q), Len(q.body) = 1,
             \/ q.kind = "index"
             \/ AllAnswered(j) /\ Keeps(j, q)
      PROVE  RepliesAreTrue'
  <2>1. ASSUME AllAnswered(j), Keeps(j, q), NEW s \in Servers,
               s[1] = (IF q.kind \in {"retrieve", "key", "point"}
                       THEN "point" ELSE "complex")
        PROVE  call'[j][s].at = "answered"
    <3>1. s \in ServersOf(j)
      BY <2>1, MembersOf DEF Keeps, Group
    <3> QED
      BY <1>3, <2>1, <3>1 DEF AllAnswered
  <2> QED
    BY <1>6, <1>8, <2>1
<1> HIDE DEF True
<1>9. ASSUME NEW j \in Jobs, Arrive(j) \/ SendQueries(j)
      PROVE  RepliesAreTrue'
  BY <1>7, <1>9, ArriveEffect, SendQueriesEffect
<1>10. ASSUME NEW j \in Jobs, CheckForm(j), job' # job
       PROVE  RepliesAreTrue'
  <2>1. NoReply(j)
    BY <1>10 DEF CheckForm, JobsInv
  <2>2. PICK q : /\ Becomes(j, q)
                 /\ \/ q.pc = "infos"
                    \/ q.status = 200 => Len(q.body) = 1 /\ q.kind = "index"
    BY <1>10, <2>1, CheckFormEffect
  <2> QED
    BY <1>7, <1>8, <2>2
<1>11. ASSUME NEW j \in Jobs, InfosDiffer(j)
       PROVE  RepliesAreTrue'
  <2>1. NoReply(j) /\ Ends(j, "reject") /\ "reject" \in Results
    BY <1>11 DEF InfosDiffer, JobsInv, Results
  <2>2. PICK q : Becomes(j, q) /\ q.status # 200
    BY <2>1, EndsEffect
  <2> QED
    BY <1>7, <2>2
<1>12. ASSUME NEW j \in Jobs, Reconstruct(j)
       PROVE  RepliesAreTrue'
  <2>1. PICK outcome \in Outcomes(j) : Ends(j, outcome)
    BY <1>12 DEF Reconstruct
  <2>2. outcome \in Results /\ AllAnswered(j) /\ NoReply(j)
    BY <1>12, OutcomesAre DEF Reconstruct, AllAnswered, JobsInv
  <2>3. PICK q : Becomes(j, q) /\ Keeps(j, q) /\ (q.status = 200 => Len(q.body) = 1)
    BY <2>1, <2>2, EndsEffect
  <2> QED
    BY <1>7, <1>8, <2>2, <2>3
<1>13. ~FirstInfo /\ \A j \in Jobs : ~Retrieve(j)
  BY DEF FirstInfo, Retrieve
<1> QED
  BY <1>5, <1>9, <1>10, <1>11, <1>12, <1>13, JobActions

\* Infos that differ come from servers that do not agree.
LEMMA DifferentInfos ==
  ASSUME FaultInv, faults = 0, NEW j \in Jobs, AllInfos(j), ~InfosEqual(j)
  PROVE  ~Agreed
<1>1. PICK s \in ServersOf(j), t \in ServersOf(j) : Dims[infos[j][s]] # Dims[infos[j][t]]
  BY DEF InfosEqual
<1>2. s \in Servers /\ t \in Servers /\ s[1] = t[1]
  BY MembersOf
<1>3. infos[j][s] = version[s] /\ infos[j][t] = version[t]
  BY <1>2 DEF AllInfos, FaultInv
<1>4. version[s] # version[t]
  BY <1>1, <1>3
<1> QED
  BY <1>2, <1>4 DEF Agreed

\* Answers about other files than the infos or than one another, too.
LEMMA DifferentVersions ==
  ASSUME TInv, FaultInv, CallInv, ChannelInv, faults = 0, NEW j \in Jobs,
         job[j].pc = "queries", ~OneVersion(j)
  PROVE  ~Agreed
<1>1. resCh[j] \subseteq AnswerRecord
  BY DEF TInv, JobsTyped
<1>2. ASSUME NEW a \in resCh[j]
      PROVE  /\ a.server \in Servers /\ a.server[1] = Group(j)
             /\ a.version = version[a.server]
             /\ program # "simulation" => infos[j][a.server] = version[a.server]
  <2>1. a.server \in Servers /\ a.version = version[a.server]
    BY <1>1 DEF AnswerRecord, FaultInv
  <2>2. call[j][a.server].at # "none"
    BY DEF ChannelInv
  <2>3. a.server[1] = Group(j)
    BY <2>1, <2>2 DEF CallInv
  <2> QED
    BY <2>1, <2>3 DEF FaultInv
<1>3. PICK a \in resCh[j], b \in resCh[j] : a.version # b.version
  BY <1>2 DEF OneVersion, Channel
<1> QED
  BY <1>2, <1>3 DEF Agreed

\* No step but a fault changes files.
LEMMA FilesStay ==
  ASSUME TInv, QueueInv, KindsOfSteps
  PROVE  /\ faults > 0 => faults' > 0
         /\ faults' > 0 \/ version' = version
<1>0. faults \in Nat
  BY Constants DEF TInv, ProgramTyped
<1>1. CASE Still
  BY <1>0, <1>1 DEF Still
<1>2. ASSUME NEW s \in Servers, Restart(s)
      PROVE  faults' > 0
  BY <1>0, <1>2, ServerSteps
<1>3. ASSUME NEW s \in Servers, WorkerTakes(s)
      PROVE  UNCHANGED <<version, faults>>
  BY <1>3, ServerSteps
<1>4. ASSUME NEW j \in Jobs, NEW s \in Servers, Deliver(j, s) \/ Answer(j, s)
      PROVE  UNCHANGED <<version, faults>>
  BY <1>4, ServerSteps DEF server
<1> QED
  BY <1>0, <1>1, <1>2, <1>3, <1>4 DEF KindsOfSteps, Moves, Asks, DatabaseInfo, server

\* The steps in which a program dies.
LEMMA Deaths ==
  ASSUME TInv, JobsInv, [Next]_vars, pc # "dead", pc' = "dead"
  PROVE  \/ Connect \/ Prepare
         \/ \E j \in Jobs : \/ CheckForm(j) \/ RpcFails(j) \/ Expire(j) \/ InfoFails(j)
                            \/ InfosDiffer(j) \/ Reconstruct(j)
<1>1. ~UNCHANGED vars /\ ~UNCHANGED client
  BY DEF vars, client
<1>2. ASSUME MainStep PROVE Connect \/ Prepare
  BY <1>1, <1>2 DEF MainStep, LoadConfig, FirstInfo, Leaves, Retrieve
<1>3. ~Leave /\ ~Quiet
  BY <1>1 DEF Leave, Quiet
<1>4. ASSUME Fault PROVE \E j \in Jobs : Expire(j) \/ InfoFails(j)
  BY <1>1, <1>4 DEF Fault, Restart, Stop
<1>5. \A j \in Jobs : ~Arrive(j) /\ ~SendQueries(j)
  BY <1>1 DEF Arrive, SendQueries
<1>6. \A s \in Servers : ~ServerStep(s)
  BY <1>1 DEF ServerStep, WorkerTakes, DatabaseInfo, Deliver, Answer
<1> QED
  BY <1>1, <1>2, <1>3, <1>4, <1>5, <1>6 DEF Next, JobStep

LEMMA DeathStep ==
  ASSUME IInv, DeathHasCause, [Next]_vars
  PROVE  DeathHasCause'
<1>0. /\ TInv /\ JobsInv /\ CallInv /\ QueueInv /\ ChannelInv /\ FaultInv
      /\ KindsOfSteps /\ ProgramMoves /\ faults \in Nat
  <2>1. TInv /\ JobsInv /\ CallInv /\ QueueInv /\ ChannelInv /\ FaultInv
    BY DEF IInv
  <2>2. KindsOfSteps /\ ProgramMoves
    BY <2>1, KindOfStep, ProgramStep
  <2>3. faults \in Nat
    BY <2>1, Constants DEF TInv, ProgramTyped
  <2> QED
    BY <2>1, <2>2, <2>3
<1>1. program' = program /\ flags' = flags
  BY <1>0 DEF ProgramMoves
<1>2. /\ faults > 0 => faults' > 0
      /\ faults' > 0 \/ version' = version
  BY <1>0, FilesStay
<1>3. CASE pc' # "dead" \/ faults' > 0
  BY <1>3 DEF DeathHasCause
<1>4. CASE pc = "dead" /\ ~(faults' > 0)
  <2>1. job' = job
    BY <1>4, JobActions DEF FirstInfo, Arrive, CheckForm, SendQueries, Retrieve,
                            InfosDiffer, Reconstruct
  <2>2. version' = version /\ ~(faults > 0)
    BY <1>2, <1>4
  <2> QED
    BY <1>1, <1>4, <2>1, <2>2
       DEF DeathHasCause, Agreed, Entered, Replied, RetrieveBlocks
<1>5. ASSUME pc # "dead", pc' = "dead", ~(faults' > 0)
      PROVE  DeathHasCause'
  <2>0. faults = 0 /\ version' = version
    BY <1>0, <1>2, <1>5
  <2>1. ASSUME ~Agreed PROVE DeathHasCause'
    BY <2>0, <2>1 DEF DeathHasCause, Agreed
  <2>2. CASE Connect
    BY <1>0, <1>5, <2>2 DEF Connect
  <2>3. CASE Prepare
    <3>1. \/ ~InfosEqual(1) \/ flags.scheme = "other"
          \/ flags.total <= RetrieveBlocks
          \/ pc' = pc
      BY <2>3, Zenon DEF Prepare
    <3>2. AllInfos(1) /\ 1 \in Jobs /\ program = "simulation"
      BY <2>3, Constants DEF Prepare
    <3>3. CASE ~InfosEqual(1)
      BY <1>0, <2>0, <2>1, <3>2, <3>3, DifferentInfos
    <3>4. CASE flags.scheme = "other" \/ flags.total <= RetrieveBlocks
      BY <1>1, <3>2, <3>4 DEF DeathHasCause, RetrieveBlocks
    <3> QED
      BY <1>5, <3>1, <3>3, <3>4
  <2>4. ASSUME NEW j \in Jobs, Expire(j) \/ InfoFails(j)
        PROVE  FALSE
    BY <1>0, <1>5, <2>0, <2>4 DEF Expire, InfoFails
  <2>5. ASSUME NEW j \in Jobs, RpcFails(j)
        PROVE  FALSE
    BY <1>0, <2>0, <2>5 DEF RpcFails, Refused, FaultInv
  <2>6. ASSUME NEW j \in Jobs, CheckForm(j)
        PROVE  DeathHasCause'
    <3>1. job[j].pc = "handler" /\ NoReply(j)
      BY <1>0, <2>6 DEF CheckForm, JobsInv
    <3>2. job[j].form \in {"unreadable", "interrupted"} /\ job' = job
      BY <1>0, <1>5, <2>6, <3>1, CheckFormEffect DEF client
    <3>3. /\ program = "web" => job[j].form # "interrupted"
          /\ program = "interactive" => job[j].form # "unreadable"
          /\ program # "simulation"
      BY <1>0, <3>1 DEF JobsInv
    <3>4. program \in {"web", "interactive", "simulation"}
      BY <1>0, Constants DEF TInv, ProgramTyped
    <3>5. \/ program = "web" /\ job[j].form = "unreadable"
          \/ program = "interactive" /\ job[j].form = "interrupted"
      BY <3>2, <3>3, <3>4
    <3> QED
      BY <1>1, <3>2, <3>5 DEF DeathHasCause, Entered
  <2>7. ASSUME NEW j \in Jobs, InfosDiffer(j)
        PROVE  DeathHasCause'
    <3>1. AllInfos(j) /\ ~InfosEqual(j)
      BY <2>7 DEF InfosDiffer
    <3> QED
      BY <1>0, <2>0, <2>1, <3>1, DifferentInfos
  <2>8. ASSUME NEW j \in Jobs, Reconstruct(j)
        PROVE  DeathHasCause'
    <3>1. PICK outcome \in Outcomes(j) : Ends(j, outcome)
      BY <2>8 DEF Reconstruct
    <3>2. outcome \in Results /\ job[j].pc = "queries" /\ NoReply(j)
      BY <1>0, <2>8, OutcomesAre DEF Reconstruct, AllAnswered, JobsInv
    <3>3. CASE ~OneVersion(j)
      BY <1>0, <2>0, <2>1, <3>2, <3>3, DifferentVersions
    <3>4. CASE OneVersion(j)
      <4>1. PICK q : /\ Becomes(j, q)
                     /\ \/ pc' = pc
                        \/ /\ pc' = "dead" /\ program # "web"
                           /\ outcome \notin Tolerated /\ q.body = <<outcome>>
        BY <1>0, <3>1, <3>2, EndsEffect, ZenonT(60)
      <4>2. program # "web" /\ outcome \notin Tolerated /\ q.body = <<outcome>>
        BY <1>5, <4>1
      <4>3. outcome = "panic"
        BY <3>1, <3>2, <3>4, <4>2, OutcomesAre DEF Results, Tolerated
      <4>4. program # "simulation"
        <5>1. ASSUME program = "simulation" PROVE FALSE
          <6>1. job[j].kind \in {"point", "complex"}
            BY <1>0, <3>2, <5>1 DEF JobsInv
          <6>2. outcome = "value"
            BY <3>1, <3>4, <6>1, OutcomesAre
          <6> QED
            BY <4>3, <6>2
        <5> QED
          BY <5>1
      <4>5. program = "interactive"
        BY <1>0, <4>2, <4>4, Constants DEF TInv, ProgramTyped
      <4>6. job'[j].body = <<"panic">>
        <5>1. job'[j] = q
          BY <1>0, <4>1, BecomesFacts DEF TInv
        <5> QED
          BY <4>2, <4>3, <5>1
      <4> QED
        BY <1>1, <4>5, <4>6 DEF DeathHasCause, Replied
    <3> QED
      BY <3>3, <3>4
  <2> QED
    BY <1>0, <1>5, <2>2, <2>3, <2>4, <2>5, <2>6, <2>7, <2>8, Deaths
<1> QED
  BY <1>3, <1>4, <1>5
-----------------------------------------------------------------------------
(* The theorems.                                                           *)
LEMMA InitInv == Init => IInv /\ RepliesAreTrue /\ DeathHasCause
<1> SUFFICES ASSUME Init PROVE IInv /\ RepliesAreTrue /\ DeathHasCause
  OBVIOUS
<1>1. /\ \A j \in Jobs : job[j] = NoJob
      /\ \A j \in Jobs, s \in Servers : infos[j][s] = None /\ call[j][s] = NoCall
      /\ \A j \in Jobs : resCh[j] = {}
      /\ \A s \in Servers : queue[s] = <<>>
  BY DEF Init
<1>2. /\ NoJob \in JobRecord /\ NoJob.pc = "idle" /\ NoJob.status = 0
      /\ NoJob.body = <<>> /\ NoJob.index = None
  BY DEF NoJob, JobRecord, JobPcs, Kinds, Forms, Statuses
<1>3. NoCall \in CallRecord /\ NoCall.at = "none"
  BY DEF NoCall, CallRecord, Places
<1>4. JobsTyped
  <2>1. /\ job \in [Jobs -> JobRecord] /\ resCh \in [Jobs -> SUBSET AnswerRecord]
    BY <1>2 DEF Init
  <2>2. [s \in Servers |-> None] \in [Servers -> Versions \cup {None}]
        /\ [s \in Servers |-> NoCall] \in [Servers -> CallRecord]
    BY <1>3
  <2>3. /\ infos \in [Jobs -> [Servers -> Versions \cup {None}]]
        /\ call \in [Jobs -> [Servers -> CallRecord]]
    BY <2>2 DEF Init
  <2> QED
    BY <2>1, <2>3 DEF JobsTyped
<1>5. ServersTyped
  <2>1. version \in [Servers -> Versions]
    BY Constants DEF Init
  <2> QED
    BY <2>1 DEF Init, ServersTyped
<1>6. ProgramTyped
  BY Constants DEF Init, ProgramTyped
<1>7. JobsInv
  <2>1. 0 \in 0 .. NumJobs /\ \A j \in Jobs : ~(j <= 0)
    BY Constants DEF Jobs
  <2>2. \A j \in Jobs : job[j].pc # "idle" <=> j <= 0
    BY <1>1, <1>2, <2>1
  <2>3. Len(NoJob.body) <= 2
    BY <1>2
  <2>4. \A j \in Jobs : NoReply(j) /\ Len(job[j].body) <= 2 /\ job[j].pc = "idle"
    BY <1>1, <1>2, <2>3 DEF NoReply
  <2> QED
    BY <2>1, <2>2, <2>4 DEF JobsInv
<1>8. OneByOne
  BY <1>1, <1>2 DEF OneByOne
<1>9. CallInv /\ EvalInv
  BY <1>1, <1>3 DEF CallInv, EvalInv
<1>10. QueueInv
  BY <1>1, <1>3 DEF QueueInv
<1>11. ChannelInv
  BY <1>1, <1>3 DEF ChannelInv
<1>12. FaultInv
  BY <1>1, <1>2, <1>3 DEF FaultInv, Init
<1>13. IndexInv
  BY <1>1, <1>2 DEF IndexInv, Init
<1>14. RepliesAreTrue
  BY <1>1, <1>2 DEF RepliesAreTrue
<1>15. DeathHasCause
  BY DEF DeathHasCause, Init
<1> QED
  BY <1>4, <1>5, <1>6, <1>7, <1>8, <1>9, <1>10, <1>11, <1>12, <1>13, <1>14, <1>15
     DEF IInv, TInv

LEMMA NextInv == IInv /\ [Next]_vars => IInv'
<1> SUFFICES ASSUME IInv, [Next]_vars PROVE IInv'
  OBVIOUS
<1>1. /\ TInv /\ JobsInv /\ OneByOne /\ CallInv /\ QueueInv /\ EvalInv
      /\ ChannelInv /\ FaultInv /\ IndexInv
  BY DEF IInv
<1>2. KindsOfSteps
  BY <1>1, KindOfStep
<1>3. TInv' /\ JobsInv' /\ OneByOne' /\ IndexInv'
  BY <1>1, TypeStep, JobsStep, OneStep, IndexStep
<1>4. CallInv' /\ QueueInv' /\ EvalInv' /\ ChannelInv' /\ FaultInv'
  BY <1>1, <1>2, CallStep, QueueStep, EvalStep, ChannelStep, FaultStep
<1> QED
  BY <1>3, <1>4 DEF IInv

\* As many calls wait as the queue is long.
LEMMA QueueLength ==
  ASSUME TInv, QueueInv, NEW s \in Servers
  PROVE  /\ ToSet(queue[s]) = At(s, "queued")
         /\ Len(queue[s]) = Cardinality(At(s, "queued"))
<1> DEFINE q == queue[s]
           D == 1 .. Len(q)
           f == [n \in D |-> q[n]]
           T == At(s, "queued")
<1>1. q \in Seq(Jobs) /\ Len(q) \in Nat
  BY DEF TInv, ServersTyped
<1>2. \A n \in D : q[n] \in Jobs
  BY <1>1
<1>3. /\ \A j \in Jobs : j \in T <=> \E n \in D : q[n] = j
      /\ \A m, n \in D : q[m] = q[n] => m = n
  BY DEF QueueInv, At
<1>4. T \subseteq Jobs
  BY DEF At
<1>5. ToSet(q) = T
  <2>1. ToSet(q) = {q[n] : n \in D}
    BY <1>1 DEF ToSet
  <2> HIDE DEF T, q
  <2> QED
    BY <1>2, <1>3, <1>4, <2>1
<1> HIDE DEF T, q
<1>6. f \in Surjection(D, T) /\ f \in Injection(D, T)
  BY <1>2, <1>3, <1>4 DEF Surjection, Injection, IsInjective
<1>7. IsFiniteSet(D) /\ Cardinality(D) = Len(q)
  <2>1. Cardinality(D) = IF 1 > Len(q) THEN 0 ELSE Len(q) - 1 + 1
    BY <1>1, FS_Interval
  <2> QED
    BY <1>1, <2>1, FS_Interval
<1> HIDE DEF D, f
<1>8. Cardinality(T) = Cardinality(D)
  BY <1>6, <1>7, FS_Surjection
<1> QED
  BY <1>5, <1>7, <1>8 DEF T, q

LEMMA TypeOfInv == IInv => TypeOK
<1> SUFFICES ASSUME IInv PROVE TypeOK
  OBVIOUS
<1>1. TInv /\ JobsInv /\ QueueInv
  BY DEF IInv
<1>2. ProgramTyped /\ JobsTyped
  BY <1>1 DEF TInv
<1>3. pc # "loading" => addresses \in SetToSeqs(Sids)
  BY <1>2, SidOrders DEF ProgramTyped
<1>4. ASSUME NEW j \in Jobs
      PROVE  /\ job[j].pc \in {"idle", "handler", "infos", "queries", "closed"}
             /\ job[j].status \in {0, 200, 400, 404, 500}
             /\ Len(job[j].body) <= 2
  BY <1>1, <1>2, RecordOf DEF JobsInv, JobRecord, JobPcs, Statuses
<1>5. ASSUME NEW j \in Jobs, NEW s \in Servers
      PROVE  infos[j][s] \in Versions \cup {None} /\ call[j][s].at \in Places
  BY <1>2 DEF JobsTyped, CallRecord
<1>6. ASSUME NEW s \in Servers
      PROVE  /\ ToSet(queue[s]) = At(s, "queued")
             /\ Len(queue[s]) = Cardinality(At(s, "queued"))
  BY <1>1, QueueLength
<1> QED
  BY <1>2, <1>3, <1>4, <1>5, <1>6 DEF TypeOK, ProgramTyped

LEMMA OwnOfInv == IInv => OwnAnswers
<1> SUFFICES ASSUME IInv, NEW j \in Jobs, AllAnswered(j)
             PROVE  /\ {a.server : a \in resCh[j]} = ServersOf(j)
                    /\ Cardinality(resCh[j]) = NumServers
                    /\ \A a \in resCh[j] :
                         /\ a.job = j
                         /\ program # "simulation" => a.share = a.server[2]
  BY DEF OwnAnswers, Channel
<1>1. TInv /\ CallInv /\ ChannelInv
  BY DEF IInv
<1>2. resCh[j] \subseteq AnswerRecord
  BY <1>1 DEF TInv, JobsTyped
<1>3. ASSUME NEW a \in resCh[j]
      PROVE  /\ a.job = j /\ a.server \in ServersOf(j)
             /\ program # "simulation" => a.share = a.server[2]
  <2>1. a.server \in Servers
    BY <1>2 DEF AnswerRecord
  <2>2. /\ a.job = j /\ call[j][a.server].at = "answered"
        /\ a.share = call[j][a.server].share
    BY <1>1 DEF ChannelInv
  <2>3. /\ a.server[1] = Group(j)
        /\ program # "simulation" => call[j][a.server].share = a.server[2]
    BY <1>1, <2>1, <2>2 DEF CallInv
  <2> QED
    BY <2>1, <2>2, <2>3, MembersOf
<1>4. ASSUME NEW s \in ServersOf(j)
      PROVE  \E a \in resCh[j] : a.server = s
  BY <1>1, <1>4, MembersOf DEF ChannelInv, AllAnswered
<1>5. {a.server : a \in resCh[j]} = ServersOf(j)
  BY <1>3, <1>4
<1>6. Cardinality(resCh[j]) = NumServers
  <2> DEFINE of(i) == CHOOSE a \in resCh[j] : a.server = <<Group(j), i>>
             f == [i \in Sids |-> of(i)]
  <2>1. ASSUME NEW i \in Sids
        PROVE  of(i) \in resCh[j] /\ of(i).server = <<Group(j), i>>
    <3>1. <<Group(j), i>> \in ServersOf(j)
      BY DEF ServersOf
    <3> QED
      BY <1>4, <3>1
  <2> HIDE DEF of
  <2>2. ASSUME NEW i \in Sids, NEW k \in Sids, of(i) = of(k)
        PROVE  i = k
    <3>1. <<Group(j), i>> = <<Group(j), k>>
      BY <2>1, <2>2
    <3> QED
      BY <3>1
  <2>3. ASSUME NEW a \in resCh[j]
        PROVE  \E i \in Sids : of(i) = a
    <3>1. PICK i \in Sids : a.server = <<Group(j), i>>
      BY <1>3 DEF ServersOf
    <3>2. of(i) \in resCh[j] /\ of(i).server = a.server
      BY <2>1, <3>1
    <3> QED
      BY <1>1, <3>2 DEF ChannelInv
  <2>4. f \in Surjection(Sids, resCh[j]) /\ f \in Injection(Sids, resCh[j])
    BY <2>1, <2>2, <2>3 DEF Surjection, Injection, IsInjective
  <2> HIDE DEF f
  <2>5. Cardinality(resCh[j]) = Cardinality(Sids)
    BY <2>4, CountSids, FS_Surjection
  <2> QED
    BY <2>5, CountSids
<1> QED
  BY <1>3, <1>5, <1>6

LEMMA ScratchOfInv == IInv => ScratchUnshared
<1> SUFFICES ASSUME IInv, NEW s \in Servers
             PROVE  Cardinality(At(s, "evaluating")) <= 1
  BY DEF ScratchUnshared
<1>1. TInv /\ OneByOne /\ CallInv /\ EvalInv
  BY DEF IInv
<1>2. ASSUME NEW j \in At(s, "evaluating"), NEW k \in At(s, "evaluating")
      PROVE  j = k
  <2>1. /\ j \in Jobs /\ k \in Jobs
        /\ call[j][s].at = "evaluating" /\ call[k][s].at = "evaluating"
    BY DEF At
  <2>2. CASE program # "simulation"
    BY <1>1, <2>1, <2>2 DEF EvalInv
  <2>3. CASE program = "simulation"
    <3>1. job[j].pc = "queries" /\ job[k].pc = "queries"
      BY <1>1, <2>1 DEF CallInv
    <3>2. ~(j < k) /\ ~(k < j)
      BY <1>1, <2>1, <2>3, <3>1 DEF OneByOne
    <3> QED
      BY <2>1, <3>2, Constants
  <2> QED
    BY <2>2, <2>3
<1>3. CASE At(s, "evaluating") = {}
  BY <1>3, FS_EmptySet
<1>4. CASE At(s, "evaluating") # {}
  <2>1. PICK j : j \in At(s, "evaluating")
    BY <1>4
  <2>2. At(s, "evaluating") = {j}
    BY <1>2, <2>1
  <2>3. Cardinality({j}) = 1
    BY FS_Singleton
  <2>4. Cardinality(At(s, "evaluating")) = 1
    BY <2>2, <2>3, Zenon
  <2> QED
    BY <2>4
<1> QED
  BY <1>3, <1>4

\* Quotients, and what is below a product.
LEMMA UniqueQuotient ==
  ASSUME NEW P \in Nat, P > 0, NEW q \in Int, NEW r \in 0 .. P - 1
  PROVE  (q * P + r) \div P = q
OBVIOUS

LEMMA BelowProduct ==
  ASSUME NEW P \in Nat, NEW a \in Nat, NEW b \in Nat, a + 1 <= b
  PROVE  a * P + P <= b * P /\ a * P \in Nat
<1> DEFINE c == b - (a + 1)
<1>1. c \in Nat /\ b = a + 1 + c
  OBVIOUS
<1> HIDE DEF c
<1>2. c * P \in Nat /\ a * P \in Nat
  BY <1>1
<1>3. (a + 1 + c) * P = a * P + P + c * P
  BY <1>1
<1> QED
  BY <1>1, <1>2, <1>3

LEMMA RangeOfInv == IInv => RetrievalsInRange
<1> SUFFICES ASSUME IInv, program = "simulation", flags.scheme = "point"
             PROVE  RetrievalsInRange
  BY DEF RetrievalsInRange
<1> DEFINE RB == RetrieveBlocks
<1>1. TInv /\ IndexInv
  BY DEF IInv
<1>2. /\ flags \in Flags /\ RB \in Nat /\ RB > 0
      /\ \A j \in Nat : j > 0 => (j - 1) % RB \in 0 .. RB - 1
  BY <1>1, Blocks
<1>3. /\ flags.total \in Nat /\ flags.repetitions \in Nat
      /\ Retrievals = flags.repetitions * RB /\ Retrievals <= NumJobs
  <2>1. Retrievals = flags.repetitions * RB
    BY DEF Retrievals
  <2>2. flags.repetitions * RB <= NumJobs
    BY <1>2, FlagsAssumption DEF RetrieveBlocks
  <2> QED
    BY <1>2, <2>1, <2>2, FlagsAssumption
<1>4. /\ \A j \in Jobs :
           IF job[j].pc \in {"queries", "closed"}
           THEN start # None /\ job[j].index = start + ((j - 1) % RB)
           ELSE job[j].index = None
      /\ start # None => start \in 0 .. flags.total - RB - 1
      /\ pc = "exited" => start # None /\ \A j \in 1 .. Retrievals : job[j].pc = "closed"
  BY <1>1 DEF IndexInv, Block
<1>5. \A j \in Jobs : j \in Nat /\ j > 0
  BY Constants DEF Jobs
<1>6. \A j : j \in 1 .. Retrievals => j \in Jobs
  BY <1>2, <1>3, Constants DEF Jobs
<1>10. Retrievals \in Int
  BY <1>2, <1>3
<1> HIDE DEF RB
<1>7. ASSUME NEW j \in Jobs, job[j].index # None
      PROVE  job[j].index \in 0 .. flags.total - 1
  <2>1. /\ job[j].index = start + ((j - 1) % RB)
        /\ start \in 0 .. flags.total - RB - 1 /\ (j - 1) % RB \in 0 .. RB - 1
    BY <1>2, <1>4, <1>5, <1>7
  <2>2. ASSUME NEW r \in 0 .. RB - 1
        PROVE  start + r \in 0 .. flags.total - 1
    BY <1>2, <1>3, <2>1
  <2> QED
    BY <2>1, <2>2
<1>8. ASSUME pc = "exited", NEW rep \in 0 .. flags.repetitions - 1
      PROVE  {job[j].index : j \in {k \in 1 .. Retrievals : Repetition(k) = rep}}
               = start .. start + RB - 1
  <2> DEFINE K == {k \in 1 .. Retrievals : Repetition(k) = rep}
             I == {job[j].index : j \in K}
  <2>1. start \in Nat
    BY <1>3, <1>4, <1>8, <1>2
  <2>2. ASSUME NEW j \in 1 .. Retrievals
        PROVE  job[j].index = start + ((j - 1) % RB) /\ (j - 1) % RB \in 0 .. RB - 1
    BY <1>2, <1>4, <1>5, <1>6, <1>8
  <2>3. ASSUME NEW j \in K
        PROVE  job[j].index \in start .. start + RB - 1
    <3>1. job[j].index = start + ((j - 1) % RB) /\ (j - 1) % RB \in 0 .. RB - 1
      BY <2>2
    <3>2. ASSUME NEW r \in 0 .. RB - 1
          PROVE  start + r \in start .. start + RB - 1
      BY <1>2, <2>1
    <3> QED
      BY <3>1, <3>2
  <2>4. ASSUME NEW x \in start .. start + RB - 1
        PROVE  \E j \in K : job[j].index = x
    <3> DEFINE r == x - start
               j == rep * RB + r + 1
    <3>1. r \in 0 .. RB - 1 /\ x = start + r
      BY <1>2, <2>1
    <3>2. rep \in Nat /\ rep + 1 <= flags.repetitions
      BY <1>3
    <3>3. rep * RB + RB <= flags.repetitions * RB /\ rep * RB \in Nat
      BY <1>2, <1>3, <3>2, BelowProduct
    <3> HIDE DEF r
    <3>4. j \in 1 .. Retrievals /\ j - 1 = rep * RB + r
      <4> DEFINE m == rep * RB
                 n == flags.repetitions * RB
      <4>1. m \in Nat /\ m + RB <= n /\ n = Retrievals
        BY <1>3, <3>3
      <4> HIDE DEF m, n
      <4>2. m + r + 1 \in 1 .. n /\ (m + r + 1) - 1 = m + r
        BY <1>2, <1>10, <3>1, <4>1
      <4> QED
        BY <4>1, <4>2 DEF m
    <3>5. (rep * RB + r) \div RB = rep /\ (rep * RB + r) % RB = r
      BY <1>2, <3>1, <3>2, UniqueQuotient, UniqueRemainder
    <3> HIDE DEF j
    <3>6. Repetition(j) = rep
      BY <3>4, <3>5 DEF Repetition, RB
    <3>7. job[j].index = x
      BY <2>2, <3>1, <3>4, <3>5
    <3> QED
      BY <3>4, <3>6, <3>7
  <2>5. I = start .. start + RB - 1
    <3> HIDE DEF K
    <3> QED
      BY <2>3, <2>4
  <2> QED
    BY <2>5
<1> QED
  BY <1>7, <1>8 DEF RetrievalsInRange, RB

\* Every variable of the programs holds what the code keeps there, whatever
\* the number of servers and jobs, the key files and the faults: a worker's
\* queue holds each query that was received and not taken, once.
THEOREM TypeCorrect == Spec => []TypeOK
BY InitInv, NextInv, TypeOfInv, PTL DEF Spec

\* A job reconstructs from one answer of every server to its own query, and
\* the i-th share went to server i, except from the simulation's map.
THEOREM OwnAnswersReconstructed == Spec => []OwnAnswers
BY InitInv, NextInv, OwnOfInv, PTL DEF Spec

\* No two evaluations at a server use the scratch of its Fss at a time.
THEOREM ScratchOfOne == Spec => []ScratchUnshared
BY InitInv, NextInv, ScratchOfInv, PTL DEF Spec

\* The runs of blocks that a simulation retrieves lie within the database, and
\* when it exits it has retrieved all of every repetition's run.
THEOREM RunsRetrieved == Spec => []RetrievalsInRange
BY InitInv, NextInv, RangeOfInv, PTL DEF Spec

\* A reply of the web server with status 200 is one text, about answers that
\* this request has received from all its servers.
THEOREM RepliesTrue == Spec => []RepliesAreTrue
<1>1. IInv /\ RepliesAreTrue /\ [Next]_vars => RepliesAreTrue'
  BY RepliesStep DEF IInv
<1> QED
  BY <1>1, InitInv, NextInv, PTL DEF Spec

\* No program dies but of a fault, of servers that do not agree, or of one of
\* the cases that its code answers with log.Fatal or a panic.
THEOREM DeathsCaused == Spec => []DeathHasCause
<1>1. IInv /\ DeathHasCause /\ [Next]_vars => DeathHasCause'
  BY DeathStep
<1> QED
  BY <1>1, InitInv, NextInv, PTL DEF Spec
=============================================================================
