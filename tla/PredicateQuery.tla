--------------------------- MODULE PredicateQuery ---------------------------
(***************************************************************************)
(* One complex query from end to end: a client (cmd/grpc/client, or the    *)
(* manager behind the interactive and web clients) shares the query into   *)
(* two FSS keys, sends one key to each server, collects the two answers in *)
(* the order they arrive, checks the tags and reconstructs the count or    *)
(* the average (lib/client/fss.go); each server folds its shares over the  *)
(* keys of the database, one key at a time (lib/server/fss.go).            *)
(*                                                                         *)
(* FSS is taken at its contract, module FssTree: for a key of the database *)
(* the word y that the holder of FSS key 0 computes exceeds the one of FSS *)
(* key 1 by the point vector <<1, alpha_1, ...>> if the inputs are equal   *)
(* and by 0 if not; server 0 sends y and server 1 sends ModP - y.          *)
(***************************************************************************)
EXTENDS QueryIds, FiniteSetsExt

CONSTANTS ModP,       (* the modulus of lib/field                            *)
          Tags,       (* executions - 1: 4 authenticated, 0 not              *)
          Masks,      (* the words that FSS key 1 may evaluate to            *)
          Alphas,     (* the values drawn for alpha_i                        *)
          Requests,   (* what the users ask                                  *)
          Databases,  (* the sequences of keys the servers may have loaded   *)
          ThisYear,   (* the servers' year when the query is sent            *)
          Chars,      (* what e-mail addresses are made of                   *)
          MapOrder    (* TRUE: the connections are a Go map, as in           *)
                      (* cmd/grpc/client; FALSE: a slice, as in the manager  *)

ASSUME QueryConstants ==
   /\ ModP \in Nat /\ ModP > 1 /\ Tags \in Nat /\ ThisYear \in Nat
   /\ Masks \subseteq 0..(ModP - 1) /\ Alphas \subseteq 0..(ModP - 1)
   /\ MapOrder \in BOOLEAN

(* What a user can ask: the flags and menus offer these targets; an average *)
(* is a conjunctive query; the algorithm is free text.                     *)
ASSUME RequestAssumption ==
   \A r \in Requests :
      /\ r.fromStart \in Nat /\ r.fromEnd \in Nat /\ r.text \in Seq(Chars)
      /\ r.and \in BOOLEAN /\ r.avg \in BOOLEAN /\ (r.avg => r.and)
      /\ r.target \in {"UserId", "PubKeyAlgo", "CreationTime"}

Servers == {0, 1}
Positions == 0..Tags
Vector == [Positions -> 0..(ModP - 1)]
Zero == [j \in Positions |-> 0]
None == -1
Years == {ThisYear, ThisYear + 1}

ASSUME DatabaseAssumption ==
   \A d \in Databases :
      /\ d \in Seq({d[n] : n \in 1..Len(d)})
      /\ \A n \in 1..Len(d) : d[n].email \in Seq(Chars) /\ d[n].created.year \in Int

(* What is counted and summed up fits the field: the code does not check   *)
(* it, but 2^31 - 1 is far above both.                                     *)
ASSUME FieldAssumption ==
   \A d \in Databases :
      /\ Len(d) < ModP
      /\ \A y \in Years :
            MapThenSumSet(LAMBDA n : y - d[n].created.year,
                          {n \in 1..Len(d) : y >= d[n].created.year}) < ModP

VARIABLES req, db,  (* the query and the database, the same on both servers *)
          point,    (* c.state.a: <<1, alpha_1, ...>>                        *)
          mask,     (* mask[n]: the words of FSS key 1 at key n of db        *)
          holder,   (* holder[k]: the FSS key that server k was sent         *)
          client,   (* where the client is, or how it ended                  *)
          answers,  (* the answers, in the order resCh received them         *)
          result,   (* the value that was accepted                           *)
          next,     (* next[k]: the key of db that server k looks at         *)
          out, sum, (* server k's accumulators                               *)
          crashed,  (* the servers whose process has died of a panic         *)
          year,     (* the year on the servers' clocks                       *)
          seen      (* seen[k]: the years that server k has computed with    *)

clientVars == <<client, answers, result>>
sharedVars == <<req, db, point, mask, holder>>
serverVars == <<next, out, sum, crashed, seen>>
vars == <<sharedVars, clientVars, serverVars, year>>

(* Every accumulator and every answer stays a vector of field elements.    *)
TypeOK ==
   /\ point \in Vector /\ point[0] \in {0, 1}
   /\ mask \in [1..Len(db) -> Vector]
   /\ holder \in [Servers -> Servers]
   /\ client \in {"idle", "waiting", "accepted", "rejected", "panicked", "fatal"}
   /\ answers \in Seq([server : Servers, count : Vector, sum : Vector])
   /\ result \in 0..(ModP - 1) \cup {None}
   /\ next \in [Servers -> 1..(Len(db) + 1)]
   /\ out \in [Servers -> Vector] /\ sum \in [Servers -> Vector]
   /\ crashed \subseteq Servers
   /\ year \in Years
   /\ seen \in [Servers -> SUBSET Years]

Init == /\ req \in Requests /\ db \in Databases
        /\ point = Zero /\ mask = [n \in 1..Len(db) |-> Zero]
        /\ holder = [k \in Servers |-> k]
        /\ client = "idle" /\ answers = <<>> /\ result = None
        /\ next = [k \in Servers |-> 1]
        /\ out = [k \in Servers |-> Zero] /\ sum = [k \in Servers |-> Zero]
        /\ crashed = {}
        /\ year = ThisYear /\ seen = [k \in Servers |-> {}]
-----------------------------------------------------------------------------
(* The client.                                                             *)

\* QueryBytes draws the alphas and the FSS keys; runQueries then gives the
\* j-th query to the j-th connection it ranges over.
Ask == /\ client = "idle"
       /\ \E alpha \in [1..Tags -> Alphas] :
             point' = [j \in Positions |-> IF j = 0 THEN 1 ELSE alpha[j]]
       /\ mask' \in [1..Len(db) -> [Positions -> Masks]]
       /\ holder' \in IF MapOrder THEN {[k \in Servers |-> k], [k \in Servers |-> 1 - k]}
                                  ELSE {[k \in Servers |-> k]}
       /\ client' = "waiting"
       /\ UNCHANGED <<req, db, answers, result, serverVars, year>>

Received(k) == \E n \in 1..Len(answers) : answers[n].server = k

\* One of the two goroutines gets its answer and puts it on resCh.
Receive(k) == /\ client = "waiting" /\ ~Received(k)
              /\ k \notin crashed /\ next[k] = Len(db) + 1
              /\ answers' = Append(answers, [server |-> k, count |-> out[k], sum |-> sum[k]])
              /\ UNCHANGED <<sharedVars, client, result, serverVars, year>>

\* Deviation: the error is logged and the goroutine ends without an answer.
RpcFails_Dev(k) == UNCHANGED vars

\* The RPC returns an error (refused, timed out, connection lost): log.Fatalf.
RpcFails(k) == /\ client = "waiting" /\ ~Received(k)
               /\ client' = "fatal"
               /\ UNCHANGED <<sharedVars, answers, result, serverVars, year>>

Total(field) == [j \in Positions |-> (answers[1][field][j] + answers[2][field][j]) % ModP]

TagsMatch(v) == \A j \in 1..Tags : (v[0] * point[j]) % ModP = v[j]

End(how, value) == client' = how /\ result' = value

\* ReconstructBytes, once wg.Wait() has seen both goroutines end.
Reconstruct ==
   /\ client = "waiting" /\ Len(answers) = 2
   /\ LET count == Total("count")
          total == Total("sum")
      IN  \/ /\ ~req.avg /\ TagsMatch(count)
             /\ End("accepted", count[0])
          \/ /\ req.avg /\ TagsMatch(count) /\ TagsMatch(total) /\ count[0] # 0
             /\ End("accepted", total[0] \div count[0])
          \/ \* integer divide by zero
             /\ req.avg /\ TagsMatch(count) /\ TagsMatch(total) /\ count[0] = 0
             /\ End("panicked", None)
          \/ /\ ~TagsMatch(count) \/ (req.avg /\ ~TagsMatch(total))
             /\ End("rejected", None)
   /\ UNCHANGED <<sharedVars, answers, serverVars, year>>
-----------------------------------------------------------------------------
(* Server k, at the n-th key of its database.                              *)

\* What the holder of an FSS key computes before the server's sign is applied.
Evaluate(fssKey, n) ==
   [j \in Positions |->
      IF fssKey = 0 /\ ServerInput(req, db[n]) = ClientInput(req)
      THEN (mask[n][j] + point[j]) % ModP
      ELSE mask[n][j]]

\* Deviation: the second server forgets to negate its share.
Share_Dev(k, n) == Evaluate(holder[k], n)

\* EvaluatePF(s.serverNum, q.FssKey, ...): the sign is the server's, whichever
\* FSS key it was sent.
Share(k, n) == [j \in Positions |-> IF k = 0 THEN Evaluate(holder[k], n)[j]
                                             ELSE ModP - Evaluate(holder[k], n)[j]]

\* Deviation: the accumulator is not reduced.
Add_Dev(acc, v, factor) == [j \in Positions |-> acc[j] + ((v[j] * factor) % ModP)]

Add(acc, v, factor) == [j \in Positions |-> (acc[j] + ((v[j] * factor) % ModP)) % ModP]

\* Deviation: full years only.
Age_Dev(key) == year - key.created.year - 1

Age(key) == year - key.created.year

Key(k) == db[next[k]]

\* Server k has decoded its query and looks at a key.
AtKey(k) == client = "waiting" /\ k \notin crashed /\ next[k] <= Len(db)

Advance(k) == /\ next' = [next EXCEPT ![k] = @ + 1]
              /\ UNCHANGED <<sharedVars, clientVars, crashed, year>>

\* The address is too short for the query.
SkipKey(k) == /\ AtKey(k)
              /\ Skipped(req, Key(k))
              /\ Advance(k)
              /\ UNCHANGED <<out, sum, seen>>

TooLong(key) == Len(ServerInput(req, key)) > Len(ClientInput(req))

\* An average leaves out the keys created in the future.
SkipFuture(k) == /\ AtKey(k)
                 /\ ~Skipped(req, Key(k)) /\ ~TooLong(Key(k))
                 /\ req.avg /\ Age(Key(k)) < 0
                 /\ seen' = [seen EXCEPT ![k] = @ \cup {year}]
                 /\ Advance(k)
                 /\ UNCHANGED <<out, sum>>

CountKey(k) == /\ AtKey(k)
               /\ ~Skipped(req, Key(k)) /\ ~TooLong(Key(k))
               /\ out' = [out EXCEPT ![k] = Add(@, Share(k, next[k]), 1)]
               /\ \/ /\ req.avg /\ Age(Key(k)) >= 0
                     /\ sum' = [sum EXCEPT ![k] = Add(@, Share(k, next[k]), Age(Key(k)))]
                     /\ seen' = [seen EXCEPT ![k] = @ \cup {year}]
                  \/ ~req.avg /\ UNCHANGED <<sum, seen>>
               /\ Advance(k)

\* k.CW[i] is out of range when the server's input is longer than the
\* client's: the worker goroutine panics and the process ends.
EvaluationPanics(k) == /\ AtKey(k)
                       /\ ~Skipped(req, Key(k)) /\ TooLong(Key(k))
                       /\ crashed' = crashed \cup {k}
                       /\ UNCHANGED <<sharedVars, clientVars, next, out, sum, seen, year>>

\* time.Now().Year() is read anew for every key, on every server.
NewYear == /\ year = ThisYear /\ client = "waiting"
           /\ year' = ThisYear + 1
           /\ UNCHANGED <<sharedVars, clientVars, serverVars>>

Ended == client \notin {"idle", "waiting"}
Finished == Ended /\ UNCHANGED vars
-----------------------------------------------------------------------------
ServerStep(k) == SkipKey(k) \/ SkipFuture(k) \/ CountKey(k) \/ EvaluationPanics(k)

Next == \/ Ask \/ Reconstruct \/ NewYear \/ Finished
        \/ \E k \in Servers : Receive(k) \/ RpcFails(k) \/ ServerStep(k)

\* The goroutines of the client run; a live server gets on with its loop and
\* its answer arrives; the connection to a dead one is reported broken.  No
\* other RPC has to fail.
Fairness == /\ WF_vars(Reconstruct)
            /\ \A k \in Servers : /\ WF_vars(ServerStep(k)) /\ WF_vars(Receive(k))
                                  /\ WF_vars(k \in crashed /\ RpcFails(k))

Spec == Init /\ [][Next]_vars /\ Fairness
-----------------------------------------------------------------------------
Counted == {n \in 1..Len(db) : Meant(req, db[n])}

\* The keys of an average as the servers see them in the year they compute in.
Averaged(y) == {n \in Counted : y >= db[n].created.year}

OneYear(y) == \A k \in Servers : seen[k] \subseteq {y}

(* A result that the client accepts is the right one: the number of keys   *)
(* that the query means, or their average age, whatever the masks and the  *)
(* alphas, and whichever answer arrives first.  An average is only         *)
(* promised when both servers computed it within one year.                 *)
AcceptedIsTrue ==
   client = "accepted" =>
      IF ~req.avg THEN result = Cardinality(Counted)
      ELSE \A y \in Years : OneYear(y) =>
              result = MapThenSumSet(LAMBDA n : y - db[n].created.year, Averaged(y))
                          \div Cardinality(Averaged(y))

(* With honest servers no query is rejected, except an average whose       *)
(* computation ran across a change of year.                                *)
HonestIsAccepted == client = "rejected" => \A y \in Years : ~OneYear(y)

(* The client panics on nothing but an average of no keys.                 *)
PanicMeansEmpty == client = "panicked" =>
   req.avg /\ \A y \in Years : OneYear(y) => Averaged(y) = {}

(* What cmd/grpc/client/interactive tells the user of a creation query:    *)
(* "all emails created before year".                                       *)
CreatedBefore ==
   client = "accepted" /\ ~req.and /\ req.target = "CreationTime" =>
      result = Cardinality({n \in 1..Len(db) : db[n].created.year < req.year})

(* A query ends: with a result, an error or the death of the client.       *)
QueryEnds == client = "waiting" ~> Ended
=============================================================================
