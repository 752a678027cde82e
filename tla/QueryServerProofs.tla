------------------------- MODULE QueryServerProofs --------------------------
(***************************************************************************)
(* The safety properties of QueryServer for every number of calls, every   *)
(* buffer size and every set of rejected queries.                          *)
(***************************************************************************)
EXTENDS QueryServer, TLAPS

Distinct(s) == \A i, j \in 1..Len(s) : s[i] = s[j] => i = j

\* The parts of the inductive invariant.

\* A query in queryChan is there once, is not with the worker, has no reply
\* yet, and its handler is past its send; if the handler has returned already,
\* then because its context had ended.
QueueInv == /\ Distinct(queue)
            /\ \A r \in Elements(queue) :
                  /\ pc[r] \in {"waiting", "done"}
                  /\ answerCh[r] = <<>> /\ errorCh[r] = <<>>
                  /\ worker # r
                  /\ pc[r] = "done" => r \in expired

\* A parked handler is parked once and is still in its send.
SendqInv == /\ Distinct(sendq)
            /\ \A r \in Elements(sendq) : pc[r] = "sending"

\* The same as QueueInv for the query the worker holds.
WorkerInv == worker \in Rpcs =>
                /\ pc[worker] \in {"waiting", "done"}
                /\ pc[worker] = "done" => worker \in expired

\* A call that is not past its send has no reply.
FreshInv == \A r \in Rpcs : pc[r] \in {"idle", "sending"} =>
               answerCh[r] = <<>> /\ errorCh[r] = <<>>

\* What is in a reply channel was computed from the query of its own call, and
\* is in the channel AnswerBytes' verdict on that query selects.
ReplyInv == \A r \in Rpcs : /\ Elements(answerCh[r]) \subseteq {r} \ (BadQueries \cup Panicking)
                            /\ Elements(errorCh[r]) \subseteq {r} \cap BadQueries

\* The process ends cleanly only when no handler runs.
StopInv == main = "stopped" => \A r \in Rpcs : ~Active(r)

IInv == /\ TypeOK
        /\ QueueInv /\ SendqInv /\ WorkerInv /\ FreshInv /\ ReplyInv /\ StopInv
        /\ OwnReply /\ WorkerNeverBlocks /\ WaitingIsServed
-----------------------------------------------------------------------------
\* Facts about the two operations on queues.

\* A send appends the call to a queue that stays free of duplicates.
LEMMA AppendFacts ==
  ASSUME NEW S, NEW s \in Seq(S), NEW e \in S
  PROVE  /\ Append(s, e) \in Seq(S) /\ Append(s, e) # <<>>
         /\ Elements(Append(s, e)) = Elements(s) \cup {e}
         /\ Distinct(s) /\ e \notin Elements(s) => Distinct(Append(s, e))
<1>1. /\ Append(s, e) \in Seq(S)
      /\ Len(Append(s, e)) = Len(s) + 1
      /\ \A i \in 1..Len(s) : Append(s, e)[i] = s[i]
      /\ Append(s, e)[Len(s) + 1] = e
  OBVIOUS
<1>2. 1..(Len(s) + 1) = 1..Len(s) \cup {Len(s) + 1}
  OBVIOUS
<1> QED
  BY <1>1, <1>2 DEF Elements, Distinct

\* A receive removes the head, and the rest keeps the other calls.
LEMMA TailFacts ==
  ASSUME NEW S, NEW s \in Seq(S), s # <<>>
  PROVE  /\ Head(s) \in S
         /\ Tail(s) \in Seq(S)
         /\ Elements(s) = {Head(s)} \cup Elements(Tail(s))
         /\ Distinct(s) => Distinct(Tail(s)) /\ Head(s) \notin Elements(Tail(s))
<1>1. /\ Len(s) \in Nat \ {0}
      /\ Head(s) = s[1] /\ Head(s) \in S
      /\ Tail(s) \in Seq(S)
      /\ Len(Tail(s)) = Len(s) - 1
      /\ \A i \in 1..(Len(s) - 1) : Tail(s)[i] = s[i + 1]
  OBVIOUS
<1>2. Elements(s) = {Head(s)} \cup Elements(Tail(s))
  <2>1. ASSUME NEW i \in 1..Len(s) PROVE s[i] \in {Head(s)} \cup Elements(Tail(s))
    <3>1. CASE i = 1
      BY <1>1, <3>1
    <3>2. CASE i # 1
      <4>1. i - 1 \in 1..(Len(s) - 1) /\ Tail(s)[i - 1] = s[i]
        BY <1>1, <3>2
      <4> QED
        BY <1>1, <4>1 DEF Elements
    <3> QED
      BY <3>1, <3>2
  <2>2. ASSUME NEW i \in 1..Len(Tail(s)) PROVE Tail(s)[i] \in Elements(s)
    BY <1>1 DEF Elements
  <2>3. Head(s) \in Elements(s)
    BY <1>1 DEF Elements
  <2> QED
    BY <2>1, <2>2, <2>3 DEF Elements
<1>3. ASSUME Distinct(s) PROVE Distinct(Tail(s)) /\ Head(s) \notin Elements(Tail(s))
  BY <1>1, <1>3 DEF Elements, Distinct
<1> QED
  BY <1>1, <1>2, <1>3

\* A reply buffer of one place holds the one reply.
LEMMA SingletonFacts ==
  ASSUME NEW e
  PROVE  Append(<<>>, e) # <<>> /\ Elements(Append(<<>>, e)) = {e}
<1>1. Append(<<>>, e) = <<e>>
  OBVIOUS
<1> QED
  BY <1>1 DEF Elements

\* close(queryChan) leaves no parked sender.
LEMMA EmptyFacts == Elements(<<>>) = {} /\ Distinct(<<>>)
BY DEF Elements, Distinct
-----------------------------------------------------------------------------
\* The state in which main starts its goroutines has the declared types.
LEMMA InitType == Init => TypeOK
<1> USE ConstantsOK DEF ConstantsOK
<1> SUFFICES ASSUME Init PROVE TypeOK
  OBVIOUS
<1>1. queue \in Seq(Rpcs) /\ Len(queue) <= QueueCap /\ sendq \in Seq(Rpcs)
  BY DEF Init
<1>2. /\ answerCh \in [Rpcs -> Seq(Rpcs)]
      /\ errorCh \in [Rpcs -> Seq(Rpcs)]
  BY DEF Init
<1>3. result \in [Rpcs -> Replies]
  BY DEF Init, Replies
<1> QED
  BY <1>1, <1>2, <1>3 DEF Init, TypeOK

(* Whatever the constants, every variable of the server keeps its type and *)
(* queryChan never holds more than its capacity.                           *)
THEOREM TypeCorrect == Spec => []TypeOK
<1> USE ConstantsOK DEF ConstantsOK
<1>1. Init => TypeOK
  BY InitType
<1>2. TypeOK /\ [Next]_vars => TypeOK'
  <2> SUFFICES ASSUME TypeOK, [Next]_vars PROVE TypeOK'
    OBVIOUS
  <2> USE DEF TypeOK, channelVars, handlerVars, Replies
  <2>1. ASSUME NEW r \in Rpcs, StartQuery(r) PROVE TypeOK'
    BY <2>1 DEF StartQuery
  <2>2. ASSUME NEW r \in Rpcs, Expire(r) PROVE TypeOK'
    BY <2>2 DEF Expire
  <2>3. ASSUME NEW r \in Rpcs, Enqueue(r) PROVE TypeOK'
    BY <2>3 DEF Enqueue
  <2>4. ASSUME NEW r \in Rpcs, Park(r) PROVE TypeOK'
    BY <2>4 DEF Park
  <2>5. ASSUME NEW r \in Rpcs, SendPanics(r) PROVE TypeOK'
    BY <2>5 DEF SendPanics
  <2>6. ASSUME NEW r \in Rpcs, ReturnAnswer(r) PROVE TypeOK'
    BY <2>6 DEF ReturnAnswer, Return
  <2>7. ASSUME NEW r \in Rpcs, ReturnError(r) PROVE TypeOK'
    BY <2>7 DEF ReturnError, Return
  <2>8. ASSUME NEW r \in Rpcs, ReturnDeadline(r) PROVE TypeOK'
    BY <2>8 DEF ReturnDeadline, Return
  <2>9. CASE Receive
    <3>1. /\ Head(queue) \in Rpcs
          /\ Tail(queue) \in Seq(Rpcs)
          /\ Len(Tail(queue)) < QueueCap
      BY <2>9 DEF Receive
    <3>0. UNCHANGED <<closed, answerCh, errorCh, expired, result, signalled, main>>
      BY <2>9 DEF Receive
    <3>2. CASE sendq = <<>>
      <4>1. worker' = Head(queue) /\ queue' = Tail(queue) /\ UNCHANGED <<sendq, pc>>
        BY <2>9, <3>2 DEF Receive
      <4>2. queue' \in Seq(Rpcs) /\ Len(queue') <= QueueCap /\ worker' \in Rpcs
        BY <3>1, <4>1
      <4> QED
        BY <3>0, <4>1, <4>2
    <3>3. CASE sendq # <<>>
      <4>1. Head(sendq) \in Rpcs /\ Tail(sendq) \in Seq(Rpcs)
        BY <3>3
      <4>2. /\ Append(Tail(queue), Head(sendq)) \in Seq(Rpcs)
            /\ Len(Append(Tail(queue), Head(sendq))) <= QueueCap
        BY <3>1, <4>1
      <4> QED
        BY <2>9, <3>1, <3>3, <4>1, <4>2 DEF Receive
    <3> QED
      BY <3>2, <3>3
  <2>10. CASE SendAnswer \/ AnswerPanics
    <3>1. CASE SendAnswer
      <4>1. /\ worker \in Rpcs /\ worker' = Idle
            /\ answerCh' = [answerCh EXCEPT ![worker] = Append(answerCh[worker], worker)]
            /\ UNCHANGED <<channelVars, pc, errorCh, expired, result, signalled, main>>
        BY <3>1 DEF SendAnswer
      <4>2. answerCh' \in [Rpcs -> Seq(Rpcs)]
        BY <4>1
      <4> QED
        BY <4>1, <4>2
    <3>2. CASE AnswerPanics
      BY <3>2 DEF AnswerPanics
    <3> QED
      BY <2>10, <3>1, <3>2
  <2>11. CASE SendError
    BY <2>11 DEF SendError
  <2>12. CASE WorkerExits
    BY <2>12 DEF WorkerExits
  <2>13. CASE StopWorker
    BY <2>13 DEF StopWorker
  <2>14. CASE GracefulStop \/ Exit \/ Signal \/ ServeFails
    BY <2>14 DEF GracefulStop, Exit, Signal, ServeFails
  <2>15. CASE UNCHANGED vars
    BY <2>15 DEF vars
  <2> QED
    BY <2>1, <2>2, <2>3, <2>4, <2>5, <2>6, <2>7, <2>8, <2>9, <2>10, <2>11,
       <2>12, <2>13, <2>14, <2>15
    DEF Next, HandlerStep, WorkerStep, MainStep, Terminated
<1>3. QED
  BY <1>1, <1>2, PTL DEF Spec
-----------------------------------------------------------------------------
\* A step that changes no queue, no handler and not the worker.
LEMMA MainSteps ==
  ASSUME IInv, TypeOK', UNCHANGED <<queue, worker, handlerVars>>,
         sendq' = sendq \/ sendq' = <<>>,
         main' = "stopped" => main = "stopped" \/ \A r \in Rpcs : ~Active(r)
  PROVE  IInv'
<1>1. QueueInv' /\ WorkerInv' /\ FreshInv' /\ ReplyInv'
  BY DEF IInv, QueueInv, WorkerInv, FreshInv, ReplyInv, handlerVars
<1>2. SendqInv'
  BY EmptyFacts DEF IInv, SendqInv, handlerVars
<1>3. StopInv'
  BY DEF IInv, StopInv, Active, handlerVars
<1>4. OwnReply' /\ WorkerNeverBlocks' /\ WaitingIsServed'
  BY DEF IInv, OwnReply, WorkerNeverBlocks, WaitingIsServed, handlerVars
<1> QED
  BY <1>1, <1>2, <1>3, <1>4 DEF IInv

\* The end of a call frees its handler and consumes at most its own reply.
LEMMA ReturnSteps ==
  ASSUME IInv, TypeOK', Alive, NEW r \in Rpcs, NEW reply, pc[r] = "waiting",
         Return(r, reply), reply \in Replies, reply.of = r,
         reply.kind = "answer" => r \notin BadQueries \cup Panicking,
         reply.kind = "error" => r \in BadQueries,
         reply.kind = "deadline" => r \in expired,
         r \in expired \/ answerCh[r] # <<>> \/ errorCh[r] # <<>>,
         \A q \in Rpcs \ {r} : answerCh'[q] = answerCh[q] /\ errorCh'[q] = errorCh[q],
         Elements(answerCh'[r]) \subseteq Elements(answerCh[r]),
         Elements(errorCh'[r]) \subseteq Elements(errorCh[r]),
         answerCh[r] = <<>> => answerCh'[r] = <<>>,
         errorCh[r] = <<>> => errorCh'[r] = <<>>
  PROVE  IInv'
<1> USE DEF Return, channelVars
<1>1. /\ pc' = [pc EXCEPT ![r] = "done"]
      /\ UNCHANGED <<queue, sendq, worker, expired, main>>
      /\ pc \in [Rpcs -> {"idle", "sending", "waiting", "done"}]
      /\ queue \in Seq(Rpcs) /\ sendq \in Seq(Rpcs)
  BY DEF IInv, TypeOK
<1>2. Elements(queue) \subseteq Rpcs /\ Elements(sendq) \subseteq Rpcs
  BY <1>1 DEF Elements
<1>3. QueueInv'
  BY <1>1, <1>2 DEF IInv, QueueInv
<1>4. SendqInv' /\ FreshInv'
  BY <1>1, <1>2 DEF IInv, SendqInv, FreshInv
<1>5. WorkerInv' /\ WorkerNeverBlocks'
  BY <1>1 DEF IInv, WorkerInv, WorkerNeverBlocks
<1>6. ReplyInv'
  BY DEF IInv, ReplyInv
<1>7. StopInv'
  BY <1>1 DEF StopInv, Alive
<1>8. OwnReply'
  <2>1. result \in [Rpcs -> Replies] /\ result' = [result EXCEPT ![r] = reply]
    BY DEF IInv, TypeOK
  <2> QED
    BY <1>1, <2>1 DEF IInv, OwnReply
<1>9. WaitingIsServed'
  BY <1>1 DEF IInv, WaitingIsServed
<1> QED
  BY <1>3, <1>4, <1>5, <1>6, <1>7, <1>8, <1>9 DEF IInv

\* Every step of a goroutine or of the environment keeps the invariant.
LEMMA InvariantStep == IInv /\ TypeOK' /\ [Next]_vars => IInv'
<1> SUFFICES ASSUME IInv, TypeOK', [Next]_vars PROVE IInv'
  OBVIOUS
<1> USE DEF channelVars, handlerVars
<1>0. /\ queue \in Seq(Rpcs) /\ sendq \in Seq(Rpcs)
      /\ Elements(queue) \subseteq Rpcs /\ Elements(sendq) \subseteq Rpcs
      /\ pc \in [Rpcs -> {"idle", "sending", "waiting", "done"}]
      /\ answerCh \in [Rpcs -> Seq(Rpcs)] /\ errorCh \in [Rpcs -> Seq(Rpcs)]
      /\ Idle \notin Rpcs /\ Exited \notin Rpcs
  <2>1. /\ queue \in Seq(Rpcs) /\ sendq \in Seq(Rpcs)
        /\ pc \in [Rpcs -> {"idle", "sending", "waiting", "done"}]
        /\ answerCh \in [Rpcs -> Seq(Rpcs)] /\ errorCh \in [Rpcs -> Seq(Rpcs)]
    BY DEF IInv, TypeOK
  <2>2. Elements(queue) \subseteq Rpcs /\ Elements(sendq) \subseteq Rpcs
    BY <2>1 DEF Elements
  <2> QED
    BY <2>1, <2>2, ConstantsOK DEF ConstantsOK
<1>1. ASSUME NEW r \in Rpcs, StartQuery(r) PROVE IInv'
  <2>1. pc[r] = "idle" /\ pc' = [pc EXCEPT ![r] = "sending"]
    BY <1>1 DEF StartQuery
  <2>2. UNCHANGED <<queue, sendq, worker, answerCh, errorCh, expired, result, main>>
    BY <1>1 DEF StartQuery
  <2>3. QueueInv' /\ SendqInv' /\ WorkerInv'
    BY <1>0, <2>1, <2>2 DEF IInv, QueueInv, SendqInv, WorkerInv
  <2>4. FreshInv' /\ ReplyInv'
    BY <1>0, <2>1, <2>2 DEF IInv, FreshInv, ReplyInv
  <2>5. StopInv'
    BY <1>1 DEF StartQuery, StopInv, Alive
  <2>6. OwnReply' /\ WorkerNeverBlocks'
    BY <2>2 DEF IInv, OwnReply, WorkerNeverBlocks
  <2>7. WaitingIsServed'
    BY <1>0, <2>1, <2>2 DEF IInv, WaitingIsServed
  <2> QED
    BY <2>3, <2>4, <2>5, <2>6, <2>7 DEF IInv
<1>2. ASSUME NEW r \in Rpcs, Expire(r) PROVE IInv'
  <2>1. UNCHANGED <<queue, sendq, worker, pc, answerCh, errorCh, result, main>>
    BY <1>2 DEF Expire
  <2>2. expired \subseteq expired'
    BY <1>2 DEF Expire
  <2>3. QueueInv' /\ SendqInv' /\ WorkerInv' /\ FreshInv' /\ ReplyInv' /\ StopInv'
    BY <2>1, <2>2
    DEF IInv, QueueInv, SendqInv, WorkerInv, FreshInv, ReplyInv, StopInv, Active
  <2>4. OwnReply' /\ WorkerNeverBlocks' /\ WaitingIsServed'
    BY <2>1, <2>2 DEF IInv, OwnReply, WorkerNeverBlocks, WaitingIsServed
  <2> QED
    BY <2>3, <2>4 DEF IInv
<1>3. ASSUME NEW r \in Rpcs, Enqueue(r) PROVE IInv'
  <2>1. /\ pc[r] = "sending" /\ r \notin Elements(sendq)
        /\ pc' = [pc EXCEPT ![r] = "waiting"]
        /\ UNCHANGED <<sendq, worker, answerCh, errorCh, expired, result, main>>
    BY <1>3 DEF Enqueue
  <2>2. r \notin Elements(queue) /\ worker # r
        /\ answerCh[r] = <<>> /\ errorCh[r] = <<>>
    BY <2>1 DEF IInv, QueueInv, WorkerInv, FreshInv
  <2>3. Elements(queue') = Elements(queue) \cup {r} /\ Distinct(queue')
    BY <1>0, <1>3, <2>2, AppendFacts DEF Enqueue, IInv, QueueInv
  <2>4. QueueInv'
    BY <1>0, <2>1, <2>2, <2>3 DEF IInv, QueueInv
  <2>5. SendqInv' /\ WorkerInv' /\ FreshInv' /\ ReplyInv'
    BY <1>0, <2>1, <2>2 DEF IInv, SendqInv, WorkerInv, FreshInv, ReplyInv
  <2>6. StopInv'
    BY <1>3, <2>1 DEF Enqueue, Alive, StopInv
  <2>7. OwnReply' /\ WorkerNeverBlocks'
    BY <2>1 DEF IInv, OwnReply, WorkerNeverBlocks
  <2>8. WaitingIsServed'
    BY <1>0, <2>1, <2>3 DEF IInv, WaitingIsServed
  <2> QED
    BY <2>4, <2>5, <2>6, <2>7, <2>8 DEF IInv
<1>4. ASSUME NEW r \in Rpcs, Park(r) PROVE IInv'
  <2>1. /\ pc[r] = "sending" /\ r \notin Elements(sendq)
        /\ UNCHANGED <<queue, worker, pc, answerCh, errorCh, expired, result, main>>
    BY <1>4 DEF Park
  <2>2. Elements(sendq') = Elements(sendq) \cup {r} /\ Distinct(sendq')
    BY <1>0, <1>4, <2>1, AppendFacts DEF Park, IInv, SendqInv
  <2>3. SendqInv'
    BY <2>1, <2>2 DEF IInv, SendqInv
  <2>4. QueueInv' /\ WorkerInv' /\ FreshInv' /\ ReplyInv' /\ StopInv'
    BY <2>1 DEF IInv, QueueInv, WorkerInv, FreshInv, ReplyInv, StopInv, Active
  <2>5. OwnReply' /\ WorkerNeverBlocks' /\ WaitingIsServed'
    BY <2>1 DEF IInv, OwnReply, WorkerNeverBlocks, WaitingIsServed
  <2> QED
    BY <2>3, <2>4, <2>5 DEF IInv
<1>5. ASSUME NEW r \in Rpcs, SendPanics(r) PROVE IInv'
  BY <1>5, MainSteps DEF SendPanics
<1>6. ASSUME NEW r \in Rpcs, ReturnAnswer(r) PROVE IInv'
  <2> DEFINE reply == [kind |-> "answer", of |-> Head(answerCh[r])]
  <2>1. /\ Alive /\ pc[r] = "waiting" /\ answerCh[r] # <<>>
        /\ Return(r, reply)
        /\ answerCh' = [answerCh EXCEPT ![r] = Tail(answerCh[r])]
        /\ UNCHANGED errorCh
    BY <1>6 DEF ReturnAnswer
  <2>2. /\ Elements(answerCh[r]) = {Head(answerCh[r])} \cup Elements(Tail(answerCh[r]))
        /\ Head(answerCh[r]) \in Rpcs
    BY <1>0, <2>1, TailFacts
  <2>3. Head(answerCh[r]) = r /\ r \notin BadQueries \cup Panicking
    BY <2>2 DEF IInv, ReplyInv
  <2>4. reply \in Replies /\ reply.of = r /\ reply.kind = "answer"
    BY <2>3 DEF Replies
  <2>5. /\ \A q \in Rpcs \ {r} : answerCh'[q] = answerCh[q] /\ errorCh'[q] = errorCh[q]
        /\ Elements(answerCh'[r]) \subseteq Elements(answerCh[r])
        /\ errorCh'[r] = errorCh[r]
    BY <1>0, <2>1, <2>2
  <2> HIDE DEF reply
  <2> QED
    BY <2>1, <2>3, <2>4, <2>5, ReturnSteps
<1>7. ASSUME NEW r \in Rpcs, ReturnError(r) PROVE IInv'
  <2> DEFINE reply == [kind |-> "error", of |-> Head(errorCh[r])]
  <2>1. /\ Alive /\ pc[r] = "waiting" /\ errorCh[r] # <<>>
        /\ Return(r, reply)
        /\ errorCh' = [errorCh EXCEPT ![r] = Tail(errorCh[r])]
        /\ UNCHANGED answerCh
    BY <1>7 DEF ReturnError
  <2>2. /\ Elements(errorCh[r]) = {Head(errorCh[r])} \cup Elements(Tail(errorCh[r]))
        /\ Head(errorCh[r]) \in Rpcs
    BY <1>0, <2>1, TailFacts
  <2>3. Head(errorCh[r]) = r /\ r \in BadQueries
    BY <2>2 DEF IInv, ReplyInv
  <2>4. reply \in Replies /\ reply.of = r /\ reply.kind = "error"
    BY <2>3 DEF Replies
  <2>5. /\ \A q \in Rpcs \ {r} : answerCh'[q] = answerCh[q] /\ errorCh'[q] = errorCh[q]
        /\ Elements(errorCh'[r]) \subseteq Elements(errorCh[r])
        /\ answerCh'[r] = answerCh[r]
    BY <1>0, <2>1, <2>2
  <2> HIDE DEF reply
  <2> QED
    BY <2>1, <2>3, <2>4, <2>5, ReturnSteps
<1>8. ASSUME NEW r \in Rpcs, ReturnDeadline(r) PROVE IInv'
  <2> DEFINE reply == [kind |-> "deadline", of |-> r]
  <2>1. /\ Alive /\ pc[r] = "waiting" /\ r \in expired
        /\ Return(r, reply)
        /\ UNCHANGED <<answerCh, errorCh>>
    BY <1>8 DEF ReturnDeadline
  <2>2. reply \in Replies /\ reply.of = r /\ reply.kind = "deadline"
    BY DEF Replies
  <2> HIDE DEF reply
  <2> QED
    BY <2>1, <2>2, ReturnSteps
<1>9. CASE Receive
  <2>1. /\ worker = Idle /\ worker' = Head(queue) /\ queue # <<>>
        /\ UNCHANGED <<answerCh, errorCh, expired, result, main>>
    BY <1>9 DEF Receive
  <2>2. /\ Head(queue) \in Rpcs /\ Tail(queue) \in Seq(Rpcs)
        /\ Elements(queue) = {Head(queue)} \cup Elements(Tail(queue))
        /\ Distinct(Tail(queue)) /\ Head(queue) \notin Elements(Tail(queue))
    BY <1>0, <2>1, TailFacts DEF IInv, QueueInv
  <2>3. WorkerNeverBlocks' /\ OwnReply' /\ ReplyInv'
    BY <2>1, <2>2 DEF IInv, QueueInv, WorkerNeverBlocks, OwnReply, ReplyInv
  <2>4. StopInv'
    BY <1>9 DEF Receive, Alive, StopInv
  <2>5. CASE sendq = <<>>
    <3>1. queue' = Tail(queue) /\ UNCHANGED <<sendq, pc>>
      BY <1>9, <2>5 DEF Receive
    <3>2. QueueInv' /\ WorkerInv'
      BY <2>1, <2>2, <3>1 DEF IInv, QueueInv, WorkerInv
    <3>3. SendqInv' /\ FreshInv'
      BY <2>1, <3>1 DEF IInv, SendqInv, FreshInv
    <3>4. WaitingIsServed'
      BY <1>0, <2>1, <2>2, <3>1 DEF IInv, WaitingIsServed
    <3> QED
      BY <2>3, <2>4, <3>2, <3>3, <3>4 DEF IInv
  <2>6. CASE sendq # <<>>
    <3> DEFINE h == Head(sendq)
    <3>1. /\ queue' = Append(Tail(queue), h)
          /\ sendq' = Tail(sendq)
          /\ pc' = [pc EXCEPT ![h] = "waiting"]
      BY <1>9, <2>6 DEF Receive
    <3>2. /\ h \in Rpcs
          /\ Elements(sendq) = {h} \cup Elements(Tail(sendq))
          /\ Distinct(Tail(sendq)) /\ h \notin Elements(Tail(sendq))
      BY <1>0, <2>6, TailFacts DEF IInv, SendqInv
    <3> DEFINE t == Tail(queue)
    <3> HIDE DEF h
    <3>3. pc[h] = "sending" /\ h \notin Elements(queue) /\ worker' # h
          /\ answerCh[h] = <<>> /\ errorCh[h] = <<>>
      BY <2>1, <2>2, <3>2 DEF IInv, QueueInv, SendqInv, FreshInv
    <3>4. Elements(queue') = Elements(Tail(queue)) \cup {h} /\ Distinct(queue')
      <4>1. /\ t \in Seq(Rpcs) /\ Distinct(t) /\ h \notin Elements(t)
            /\ queue' = Append(t, h)
        BY <2>2, <3>1, <3>3
      <4> HIDE DEF t
      <4>2. Elements(queue') = Elements(t) \cup {h} /\ Distinct(queue')
        BY <3>2, <4>1, AppendFacts
      <4> QED
        BY <4>2 DEF t
    <3>5. QueueInv'
      BY <1>0, <2>1, <2>2, <3>1, <3>2, <3>3, <3>4 DEF IInv, QueueInv
    <3>6. WorkerInv'
      BY <1>0, <2>1, <2>2, <3>1, <3>2, <3>3 DEF IInv, QueueInv, WorkerInv
    <3>7. SendqInv' /\ FreshInv'
      BY <1>0, <2>1, <3>1, <3>2 DEF IInv, SendqInv, FreshInv
    <3>8. WaitingIsServed'
      BY <1>0, <2>1, <2>2, <3>1, <3>2, <3>4 DEF IInv, WaitingIsServed
    <3> QED
      BY <2>3, <2>4, <3>5, <3>6, <3>7, <3>8 DEF IInv
  <2> QED
    BY <2>5, <2>6
<1>10. CASE SendAnswer
  <2>1. /\ worker \in Rpcs /\ worker \notin BadQueries \cup Panicking /\ worker' = Idle
        /\ answerCh' = [answerCh EXCEPT ![worker] = Append(answerCh[worker], worker)]
        /\ UNCHANGED <<queue, sendq, pc, errorCh, expired, result, main>>
    BY <1>0, <1>10 DEF SendAnswer
  <2>2. /\ answerCh[worker] = <<>> /\ errorCh[worker] = <<>>
        /\ worker \notin Elements(queue) /\ pc[worker] \in {"waiting", "done"}
    BY <2>1 DEF IInv, QueueInv, WorkerInv, WorkerNeverBlocks
  <2>3. answerCh'[worker] # <<>> /\ Elements(answerCh'[worker]) = {worker}
    <3>1. Append(<<>>, worker) # <<>> /\ Elements(Append(<<>>, worker)) = {worker}
      BY <2>1, SingletonFacts
    <3> QED
      BY <1>0, <2>1, <2>2, <3>1
  <2>4. \A q \in Rpcs \ {worker} : answerCh'[q] = answerCh[q]
    BY <1>0, <2>1
  <2>5. QueueInv' /\ FreshInv'
    BY <1>0, <2>1, <2>2, <2>4 DEF IInv, QueueInv, FreshInv
  <2>6. SendqInv' /\ WorkerInv' /\ WorkerNeverBlocks' /\ OwnReply' /\ StopInv'
    BY <1>0, <2>1
    DEF IInv, SendqInv, WorkerInv, WorkerNeverBlocks, OwnReply, StopInv, Active
  <2>7. ReplyInv'
    BY <1>0, <2>1, <2>3, <2>4 DEF IInv, ReplyInv
  <2>8. WaitingIsServed'
    BY <1>0, <2>1, <2>3, <2>4 DEF IInv, WaitingIsServed
  <2> QED
    BY <2>5, <2>6, <2>7, <2>8 DEF IInv
<1>11. CASE SendError
  <2>1. /\ worker \in Rpcs /\ worker \in BadQueries /\ worker' = Idle
        /\ errorCh' = [errorCh EXCEPT ![worker] = Append(errorCh[worker], worker)]
        /\ UNCHANGED <<queue, sendq, pc, answerCh, expired, result, main>>
    BY <1>0, <1>11, ConstantsOK DEF SendError, ConstantsOK
  <2>2. /\ answerCh[worker] = <<>> /\ errorCh[worker] = <<>>
        /\ worker \notin Elements(queue) /\ pc[worker] \in {"waiting", "done"}
    BY <2>1 DEF IInv, QueueInv, WorkerInv, WorkerNeverBlocks
  <2>3. errorCh'[worker] # <<>> /\ Elements(errorCh'[worker]) = {worker}
    <3>1. Append(<<>>, worker) # <<>> /\ Elements(Append(<<>>, worker)) = {worker}
      BY <2>1, SingletonFacts
    <3> QED
      BY <1>0, <2>1, <2>2, <3>1
  <2>4. \A q \in Rpcs \ {worker} : errorCh'[q] = errorCh[q]
    BY <1>0, <2>1
  <2>5. QueueInv' /\ FreshInv'
    BY <1>0, <2>1, <2>2, <2>4 DEF IInv, QueueInv, FreshInv
  <2>6. SendqInv' /\ WorkerInv' /\ WorkerNeverBlocks' /\ OwnReply' /\ StopInv'
    BY <1>0, <2>1
    DEF IInv, SendqInv, WorkerInv, WorkerNeverBlocks, OwnReply, StopInv, Active
  <2>7. ReplyInv'
    BY <1>0, <2>1, <2>3, <2>4 DEF IInv, ReplyInv
  <2>8. WaitingIsServed'
    BY <1>0, <2>1, <2>3, <2>4 DEF IInv, WaitingIsServed
  <2> QED
    BY <2>5, <2>6, <2>7, <2>8 DEF IInv
<1>12. CASE WorkerExits
  <2>1. /\ worker = Idle /\ worker' = Exited
        /\ UNCHANGED <<queue, sendq, pc, answerCh, errorCh, expired, result, main>>
    BY <1>12 DEF WorkerExits
  <2>2. QueueInv' /\ SendqInv' /\ WorkerInv' /\ FreshInv' /\ ReplyInv' /\ StopInv'
    BY <1>0, <2>1
    DEF IInv, QueueInv, SendqInv, WorkerInv, FreshInv, ReplyInv, StopInv, Active
  <2>3. OwnReply' /\ WorkerNeverBlocks' /\ WaitingIsServed'
    BY <1>0, <2>1 DEF IInv, OwnReply, WorkerNeverBlocks, WaitingIsServed
  <2> QED
    BY <2>2, <2>3 DEF IInv
<1>13. CASE StopWorker
  BY <1>13, MainSteps DEF StopWorker
<1>14. CASE GracefulStop \/ Exit \/ Signal \/ ServeFails \/ AnswerPanics
  BY <1>14, MainSteps DEF GracefulStop, Exit, Signal, ServeFails, AnswerPanics
<1>15. CASE UNCHANGED vars
  BY <1>15, MainSteps DEF vars
<1> QED
  BY <1>1, <1>2, <1>3, <1>4, <1>5, <1>6, <1>7, <1>8, <1>9, <1>10, <1>11,
     <1>12, <1>13, <1>14, <1>15
  DEF Next, HandlerStep, WorkerStep, MainStep, Terminated

(* The inductive invariant holds in every state the server reaches.        *)
THEOREM InvariantHolds == Spec => []IInv
<1>1. Init => IInv
  <2> SUFFICES ASSUME Init PROVE IInv
    OBVIOUS
  <2>1. TypeOK
    BY InitType
  <2>2. QueueInv /\ SendqInv /\ WorkerInv /\ WorkerNeverBlocks
    BY EmptyFacts, ConstantsOK
    DEF Init, QueueInv, SendqInv, WorkerInv, WorkerNeverBlocks, ConstantsOK
  <2>3. FreshInv /\ ReplyInv
    BY EmptyFacts DEF Init, FreshInv, ReplyInv
  <2>4. StopInv /\ OwnReply /\ WaitingIsServed
    BY DEF Init, StopInv, OwnReply, WaitingIsServed
  <2> QED
    BY <2>1, <2>2, <2>3, <2>4 DEF IInv
<1> QED
  BY <1>1, InvariantStep, TypeCorrect, PTL DEF Spec

(* However many calls, whatever the buffer and whatever the queries: what  *)
(* Query returns was computed from the query of that very call.            *)
THEOREM OwnReplyHolds == Spec => []OwnReply
BY InvariantHolds, PTL DEF IInv

(* The single worker, on which every call depends, is never blocked by a   *)
(* handler that has gone away.                                             *)
THEOREM WorkerNeverBlocksHolds == Spec => []WorkerNeverBlocks
BY InvariantHolds, PTL DEF IInv

(* No accepted query is lost between the handler, the queue and the worker.*)
THEOREM WaitingIsServedHolds == Spec => []WaitingIsServed
BY InvariantHolds, PTL DEF IInv

(* A clean stop leaves only work nobody waits for any more.                *)
THEOREM CleanStopHolds == Spec => []CleanStop
<1>1. IInv => CleanStop
  <2> SUFFICES ASSUME IInv, main = "stopped" PROVE CleanStop
    BY DEF CleanStop
  <2>1. \A r \in Rpcs : ~Active(r)
    BY DEF IInv, StopInv
  <2>2. Elements(queue) \subseteq Rpcs
    BY DEF IInv, TypeOK, Elements
  <2>3. Elements(queue) \subseteq expired
    BY <2>1, <2>2 DEF IInv, QueueInv, Active
  <2>4. worker \in Rpcs => worker \in expired
    BY <2>1 DEF IInv, WorkerInv, Active
  <2> QED
    BY <2>1, <2>3, <2>4 DEF CleanStop
<1> QED
  BY <1>1, InvariantHolds, PTL
-----------------------------------------------------------------------------
(* The refinement: every step of the goroutines is a step of QueryService  *)
(* on what the callers see, or changes nothing they see.                   *)

\* A handler that moves inside its call and a process that stays up are
\* invisible to the callers.
LEMMA HiddenSteps ==
  ASSUME \A q \in Rpcs : pc'[q] = pc[q] \/ (Active(q) /\ Active(q)'),
         UNCHANGED <<result, expired>>, UNCHANGED main \/ (Alive /\ Alive')
  PROVE  UNCHANGED Service!vars
<1>1. \A q \in Rpcs : Status(q)' = Status(q)
  BY DEF Status, Active
<1>2. ServerState' = ServerState
  BY DEF ServerState, Alive
<1> QED
  BY <1>1, <1>2 DEF Service!vars

\* Only the status of the call whose handler moved can change.
LEMMA StatusChange ==
  ASSUME NEW r \in Rpcs,
         \A q \in Rpcs \ {r} : pc'[q] = pc[q] /\ result'[q] = result[q]
  PROVE  [q \in Rpcs |-> Status(q)]' = [[q \in Rpcs |-> Status(q)] EXCEPT ![r] = Status(r)']
<1>1. \A q \in Rpcs \ {r} : Status(q)' = Status(q)
  BY DEF Status, Active
<1> QED
  BY <1>1

\* Every step of the server is a step of the service, or invisible in it.
LEMMA StepRefines == IInv /\ IInv' /\ [Next]_vars => [Service!Next]_(Service!vars)
<1> SUFFICES ASSUME IInv, IInv', [Next]_vars PROVE [Service!Next]_(Service!vars)
  OBVIOUS
<1> USE DEF channelVars, handlerVars
<1>0. /\ TypeOK /\ TypeOK'
      /\ pc \in [Rpcs -> {"idle", "sending", "waiting", "done"}]
  BY DEF IInv, TypeOK
<1> DEFINE status == [q \in Rpcs |-> Status(q)]
<1>1. ASSUME NEW r \in Rpcs, StartQuery(r) PROVE Service!Next
  <2>1. /\ pc[r] = "idle" /\ pc' = [pc EXCEPT ![r] = "sending"]
        /\ UNCHANGED <<result, expired, main>> /\ Alive
    BY <1>1 DEF StartQuery, Alive
  <2>2. Status(r)' = "open"
    BY <1>0, <2>1 DEF Status, Active
  <2>3. status' = [status EXCEPT ![r] = "open"]
    BY <1>0, <2>1, <2>2, StatusChange
  <2>4. ServerState = "up" /\ ServerState' = "up"
    BY <2>1 DEF ServerState, Alive
  <2>5. status[r] = "idle"
    BY <2>1 DEF Status, Active
  <2> QED
    BY <2>1, <2>3, <2>4, <2>5 DEF Service!Next, Service!Call
<1>2. ASSUME NEW r \in Rpcs, Expire(r) PROVE Service!Next
  <2>1. /\ Active(r) /\ Alive /\ expired' = expired \cup {r}
        /\ UNCHANGED <<pc, result, main>>
    BY <1>2 DEF Expire
  <2>2. UNCHANGED status
    BY <2>1 DEF Status, Active
  <2>3. ServerState = "up" /\ ServerState' = "up"
    BY <2>1 DEF ServerState, Alive
  <2>4. status[r] = "open"
    BY <2>1 DEF Status, Active
  <2> QED
    BY <2>1, <2>2, <2>3, <2>4 DEF Service!Next, Service!Lapse
<1>3. ASSUME NEW r \in Rpcs, Enqueue(r) \/ Park(r) PROVE UNCHANGED Service!vars
  <2>1. /\ UNCHANGED <<result, expired, main>>
        /\ \A q \in Rpcs : pc'[q] = pc[q] \/ (Active(q) /\ Active(q)')
    BY <1>0, <1>3 DEF Enqueue, Park, Active
  <2> QED
    BY <2>1, HiddenSteps
<1>4. ASSUME NEW r \in Rpcs, SendPanics(r) PROVE Service!Next
  <2>1. UNCHANGED status /\ UNCHANGED expired
    BY <1>4 DEF SendPanics, Status, Active
  <2>2. ServerState = "up" /\ ServerState' = "crashed"
    BY <1>4 DEF SendPanics, ServerState, Alive
  <2> QED
    BY <2>1, <2>2 DEF Service!Next, Service!Crash
<1>5. ASSUME NEW r \in Rpcs, NEW reply, Alive, pc[r] = "waiting",
             Return(r, reply), reply.kind \in {"answer", "error", "deadline"}
      PROVE  Service!Next
  <2>1. /\ pc' = [pc EXCEPT ![r] = "done"] /\ result' = [result EXCEPT ![r] = reply]
        /\ UNCHANGED <<expired, main>>
    BY <1>5 DEF Return
  <2>2. ServerState = "up" /\ ServerState' = "up"
    BY <1>5, <2>1 DEF ServerState, Alive
  <2>3. status[r] = "open"
    BY <1>5 DEF Status, Active
  <2>4. /\ result'[r] = reply /\ pc'[r] = "done"
        /\ \A q \in Rpcs \ {r} : pc'[q] = pc[q] /\ result'[q] = result[q]
    BY <1>0, <2>1 DEF TypeOK
  <2>5. /\ reply.kind = "answer" => r \notin BadQueries
        /\ reply.kind = "error" => r \in BadQueries
        /\ reply.kind = "deadline" => r \in expired
    BY <2>1, <2>4 DEF IInv, OwnReply
  <2>6. CASE reply.kind = "answer"
    <3>1. Status(r)' = "answered"
      BY <2>4, <2>6 DEF Status, Active
    <3>2. status' = [status EXCEPT ![r] = "answered"]
      BY <2>4, <3>1, StatusChange
    <3> QED
      BY <2>1, <2>2, <2>3, <2>5, <2>6, <3>2 DEF Service!Next, Service!Return
  <2>7. CASE reply.kind = "error"
    <3>1. Status(r)' = "failed"
      BY <2>4, <2>7 DEF Status, Active
    <3>2. status' = [status EXCEPT ![r] = "failed"]
      BY <2>4, <3>1, StatusChange
    <3> QED
      BY <2>1, <2>2, <2>3, <2>5, <2>7, <3>2 DEF Service!Next, Service!Return
  <2>8. CASE reply.kind = "deadline"
    <3>1. Status(r)' = "timedOut"
      BY <2>4, <2>8 DEF Status, Active
    <3>2. status' = [status EXCEPT ![r] = "timedOut"]
      BY <2>4, <3>1, StatusChange
    <3> QED
      BY <2>1, <2>2, <2>3, <2>5, <2>8, <3>2 DEF Service!Next, Service!Return
  <2> QED
    BY <1>5, <2>6, <2>7, <2>8
<1>6. ASSUME NEW r \in Rpcs, ReturnAnswer(r) \/ ReturnError(r) \/ ReturnDeadline(r)
      PROVE  Service!Next
  <2>1. CASE ReturnAnswer(r)
    BY <1>5, <2>1 DEF ReturnAnswer
  <2>2. CASE ReturnError(r)
    BY <1>5, <2>2 DEF ReturnError
  <2>3. CASE ReturnDeadline(r)
    BY <1>5, <2>3 DEF ReturnDeadline
  <2> QED
    BY <1>6, <2>1, <2>2, <2>3
<1>7. CASE Receive
  <2>1. UNCHANGED <<result, expired, main>>
    BY <1>7 DEF Receive
  <2>2. \A q \in Rpcs : pc'[q] = pc[q] \/ (Active(q) /\ Active(q)')
    <3>1. CASE sendq = <<>>
      BY <1>7, <3>1 DEF Receive
    <3>2. CASE sendq # <<>>
      <4>1. sendq \in Seq(Rpcs)
        BY <1>0 DEF TypeOK
      <4>2. Head(sendq) \in Elements(sendq)
        BY <3>2, <4>1, TailFacts
      <4>3. pc[Head(sendq)] = "sending"
        BY <4>2 DEF IInv, SendqInv
      <4>4. pc' = [pc EXCEPT ![Head(sendq)] = "waiting"]
        BY <1>7, <3>2 DEF Receive
      <4> QED
        BY <1>0, <4>3, <4>4 DEF Active
    <3> QED
      BY <3>1, <3>2
  <2> QED
    BY <2>1, <2>2, HiddenSteps
<1>8. CASE SendAnswer \/ SendError \/ WorkerExits
  <2>1. UNCHANGED <<pc, result, expired, main>>
    BY <1>8 DEF SendAnswer, SendError, WorkerExits
  <2> QED
    BY <2>1, HiddenSteps
<1>9. CASE StopWorker \/ GracefulStop \/ Signal
  <2>1. UNCHANGED <<pc, result, expired>> /\ Alive /\ Alive'
    BY <1>9 DEF StopWorker, GracefulStop, Signal, Alive
  <2> QED
    BY <2>1, HiddenSteps
<1>10. CASE Exit
  <2>1. UNCHANGED status /\ UNCHANGED expired
    BY <1>10 DEF Exit, Status, Active
  <2>2. ServerState = "up" /\ ServerState' = "stopped"
    BY <1>10 DEF Exit, ServerState, Alive
  <2>3. \A r \in Rpcs : status[r] # "open"
    BY <1>10 DEF Exit, Status
  <2> QED
    BY <2>1, <2>2, <2>3 DEF Service!Next, Service!Stop
<1>11. CASE ServeFails \/ AnswerPanics
  <2>1. UNCHANGED status /\ UNCHANGED expired
    BY <1>11 DEF ServeFails, AnswerPanics, Status, Active
  <2>2. ServerState = "up" /\ ServerState' = "crashed"
    BY <1>11 DEF ServeFails, AnswerPanics, ServerState, Alive
  <2> QED
    BY <2>1, <2>2 DEF Service!Next, Service!Crash
<1>12. CASE UNCHANGED vars
  <2>1. UNCHANGED <<pc, result, expired, main>>
    BY <1>12 DEF vars
  <2> QED
    BY <2>1, HiddenSteps
<1> QED
  BY <1>1, <1>2, <1>3, <1>4, <1>6, <1>7, <1>8, <1>9, <1>10, <1>11, <1>12
  DEF Next, HandlerStep, WorkerStep, MainStep, Terminated

(* The server implements the safety part of QueryService: its callers see  *)
(* only calls that open, end once and with their own outcome, a stop with  *)
(* no open call, or a crash.                                               *)
THEOREM ImplementsServiceSafety ==
  Spec => Service!Init /\ [][Service!Next]_(Service!vars)
<1>1. Init => Service!Init
  BY DEF Init, Service!Init, Status, Active, ServerState, Alive
<1> QED
  BY <1>1, StepRefines, InvariantHolds, PTL DEF Spec
=============================================================================
