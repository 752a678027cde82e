---------------------------- MODULE QueryServer -----------------------------
(***************************************************************************)
(* The process of cmd/grpc/server/main.go, after the database is loaded:   *)
(*   - one goroutine per Query RPC (vpirServer.Query): it pushes a         *)
(*     queryWrapper holding two private reply channels on queryChan and    *)
(*     then selects over the two channels and ctx.Done();                  *)
(*   - one worker goroutine (startWorker) that ranges over queryChan,      *)
(*     calls AnswerBytes and puts the answer or the error on the reply     *)
(*     channel of the wrapper it took;                                     *)
(*   - the main goroutine, which waits for a signal or for Serve to fail,  *)
(*     closes queryChan, calls GracefulStop and returns.                   *)
(* A Go channel with a buffer is modelled by its buffer and its FIFO of    *)
(* parked senders; closing it makes every present and later sender panic,  *)
(* and a panic that nothing recovers ends the process.                     *)
(* DatabaseInfo reads constants only and is left out.                      *)
(***************************************************************************)
EXTENDS Naturals, Sequences

CONSTANTS Rpcs,        (* the Query calls made during one server lifetime   *)
          BadQueries,  (* the calls whose query AnswerBytes rejects         *)
          Panicking,   (* the calls whose query makes AnswerBytes panic     *)
          QueueCap,    (* the buffer of queryChan (10 in the code)          *)
          ReplyCap,    (* the buffer of answerCh and errorCh (1)            *)
          Idle,        (* the worker is blocked in range queryChan          *)
          Exited,      (* the worker has left its loop                      *)
          MayServeFail (* whether rpcServer.Serve may return an error       *)

ASSUME ConstantsOK == /\ BadQueries \subseteq Rpcs
                      /\ Panicking \subseteq Rpcs \ BadQueries
                      /\ QueueCap \in Nat \ {0}
                      /\ ReplyCap \in Nat \ {0}
                      /\ Idle \notin Rpcs /\ Exited \notin Rpcs /\ Idle # Exited
                      /\ MayServeFail \in BOOLEAN

VARIABLES queue,     (* the buffer of queryChan                              *)
          sendq,     (* the handlers parked in their send on queryChan       *)
          closed,    (* close(queryChan) was executed                        *)
          worker,    (* the query in the worker's hands, Idle or Exited      *)
          pc,        (* pc[r]: where the handler of call r is                *)
          answerCh,  (* answerCh[r]: buffer of r's answer channel; a reply   *)
                     (* is represented by the query it was computed from     *)
          errorCh,   (* errorCh[r]: buffer of r's error channel              *)
          expired,   (* the calls whose ctx.Done() channel is closed         *)
          result,    (* result[r]: what Query returned to gRPC               *)
          signalled, (* an interrupt is in sigCh                             *)
          main       (* where the main goroutine is, or how the process died *)

handlerVars == <<pc, answerCh, errorCh, expired, result>>
channelVars == <<queue, sendq, closed>>
vars == <<channelVars, worker, handlerVars, signalled, main>>

Replies == [kind : {"none", "answer", "error", "deadline"}, of : Rpcs]

TypeOK == /\ queue \in Seq(Rpcs) /\ Len(queue) <= QueueCap
          /\ sendq \in Seq(Rpcs)
          /\ closed \in BOOLEAN
          /\ worker \in Rpcs \cup {Idle, Exited}
          /\ pc \in [Rpcs -> {"idle", "sending", "waiting", "done"}]
          /\ answerCh \in [Rpcs -> Seq(Rpcs)]
          /\ errorCh \in [Rpcs -> Seq(Rpcs)]
          /\ expired \subseteq Rpcs
          /\ result \in [Rpcs -> Replies]
          /\ signalled \in BOOLEAN
          /\ main \in {"select", "closed", "draining",
                       "stopped", "fatal", "panicked"}

Init == /\ queue = <<>>
        /\ sendq = <<>>
        /\ closed = FALSE
        /\ worker = Idle
        /\ pc = [r \in Rpcs |-> "idle"]
        /\ answerCh = [r \in Rpcs |-> <<>>]
        /\ errorCh = [r \in Rpcs |-> <<>>]
        /\ expired = {}
        /\ result = [r \in Rpcs |-> [kind |-> "none", of |-> r]]
        /\ signalled = FALSE
        /\ main = "select"

Alive == main \in {"select", "closed", "draining"}

Active(r) == pc[r] \in {"sending", "waiting"}

Elements(s) == {s[i] : i \in 1..Len(s)}
-----------------------------------------------------------------------------
(* The handler of one RPC.                                                 *)

\* gRPC starts the handler goroutine: also after queryChan is closed, and while
\* GracefulStop waits, for a call that was on its way.
StartQuery(r) == /\ Alive
                 /\ pc[r] = "idle"
                 /\ pc' = [pc EXCEPT ![r] = "sending"]
                 /\ UNCHANGED <<channelVars, worker, answerCh, errorCh, expired,
                                result, signalled, main>>

\* A definition whose name ends in _Dev is a bug that some property is shown to
\* detect when it replaces the definition after it; nothing else uses it.
\* Deviation: one slot too many.
Enqueue_Dev(r) == /\ Alive
                  /\ pc[r] = "sending" /\ r \notin Elements(sendq)
                  /\ ~closed
                  /\ Len(queue) <= QueueCap
                  /\ queue' = Append(queue, r)
                  /\ pc' = [pc EXCEPT ![r] = "waiting"]
                  /\ UNCHANGED <<sendq, closed, worker, answerCh, errorCh, expired,
                                 result, signalled, main>>

\* The send finds room in the buffer.
Enqueue(r) == /\ Alive
              /\ pc[r] = "sending" /\ r \notin Elements(sendq)
              /\ ~closed
              /\ Len(queue) < QueueCap
              /\ queue' = Append(queue, r)
              /\ pc' = [pc EXCEPT ![r] = "waiting"]
              /\ UNCHANGED <<sendq, closed, worker, answerCh, errorCh, expired,
                             result, signalled, main>>

\* The send finds the buffer full: the goroutine parks, outside any select.
Park(r) == /\ Alive
           /\ pc[r] = "sending" /\ r \notin Elements(sendq)
           /\ ~closed
           /\ Len(queue) = QueueCap
           /\ sendq' = Append(sendq, r)
           /\ UNCHANGED <<queue, closed, worker, handlerVars, signalled, main>>

\* "send on closed channel": nothing recovers the panic of a handler.
SendPanics(r) == /\ Alive
                 /\ pc[r] = "sending"
                 /\ closed
                 /\ main' = "panicked"
                 /\ UNCHANGED <<channelVars, worker, handlerVars, signalled>>

\* The deadline of the call passes or its client cancels it.
Expire(r) == /\ Alive
             /\ Active(r)
             /\ expired' = expired \cup {r}
             /\ UNCHANGED <<channelVars, worker, pc, answerCh, errorCh, result,
                            signalled, main>>

Return(r, reply) == /\ pc' = [pc EXCEPT ![r] = "done"]
                    /\ result' = [result EXCEPT ![r] = reply]
                    /\ UNCHANGED <<channelVars, worker, expired, signalled, main>>

\* The three branches of the select; Go picks any branch that is ready.
ReturnAnswer(r) == /\ Alive
                   /\ pc[r] = "waiting"
                   /\ answerCh[r] # <<>>
                   /\ answerCh' = [answerCh EXCEPT ![r] = Tail(@)]
                   /\ Return(r, [kind |-> "answer", of |-> Head(answerCh[r])])
                   /\ UNCHANGED errorCh

ReturnError(r) == /\ Alive
                  /\ pc[r] = "waiting"
                  /\ errorCh[r] # <<>>
                  /\ errorCh' = [errorCh EXCEPT ![r] = Tail(@)]
                  /\ Return(r, [kind |-> "error", of |-> Head(errorCh[r])])
                  /\ UNCHANGED answerCh

\* Deviation: a default branch in the select.
ReturnDeadline_Dev(r) == /\ Alive
                         /\ pc[r] = "waiting"
                         /\ Return(r, [kind |-> "deadline", of |-> r])
                         /\ UNCHANGED <<answerCh, errorCh>>

ReturnDeadline(r) == /\ Alive
                     /\ pc[r] = "waiting"
                     /\ r \in expired
                     /\ Return(r, [kind |-> "deadline", of |-> r])
                     /\ UNCHANGED <<answerCh, errorCh>>
-----------------------------------------------------------------------------
(* The worker.                                                             *)

\* Deviation: the worker stops as soon as the channel is closed.
Receive_Dev == /\ Alive /\ ~closed
               /\ worker = Idle
               /\ queue # <<>>
               /\ worker' = Head(queue)
               /\ queue' = Tail(queue)
               /\ UNCHANGED <<sendq, closed, handlerVars, signalled, main>>

\* A receive takes the head of the buffer; the first parked sender, if any,
\* then moves into the buffer and its handler goes on to its select.
Receive == /\ Alive
           /\ worker = Idle
           /\ queue # <<>>
           /\ worker' = Head(queue)
           /\ IF sendq = <<>>
              THEN /\ queue' = Tail(queue)
                   /\ UNCHANGED <<sendq, pc>>
              ELSE /\ queue' = Append(Tail(queue), Head(sendq))
                   /\ sendq' = Tail(sendq)
                   /\ pc' = [pc EXCEPT ![Head(sendq)] = "waiting"]
           /\ UNCHANGED <<closed, answerCh, errorCh, expired, result, signalled, main>>

\* Deviation: the error of AnswerBytes is not looked at.
SendAnswer_Dev == /\ Alive
                  /\ worker \in Rpcs
                  /\ answerCh' = [answerCh EXCEPT ![worker] = Append(@, worker)]
                  /\ worker' = Idle
                  /\ UNCHANGED <<channelVars, pc, errorCh, expired, result,
                                 signalled, main>>

SendAnswer == /\ Alive
              /\ worker \in Rpcs \ (BadQueries \cup Panicking)
              /\ Len(answerCh[worker]) < ReplyCap
              /\ answerCh' = [answerCh EXCEPT ![worker] = Append(@, worker)]
              /\ worker' = Idle
              /\ UNCHANGED <<channelVars, pc, errorCh, expired, result,
                             signalled, main>>

\* AnswerBytes runs in the worker, where nothing recovers its panic.
AnswerPanics == /\ Alive
                /\ worker \in Panicking
                /\ main' = "panicked"
                /\ UNCHANGED <<channelVars, worker, handlerVars, signalled>>

\* Deviations: the error is dropped; the continue after it is missing.
SendErrorDropped_Dev == /\ Alive
                        /\ worker \in BadQueries
                        /\ worker' = Idle
                        /\ UNCHANGED <<channelVars, handlerVars, signalled, main>>

SendErrorFallsThrough_Dev == /\ Alive
                             /\ worker \in BadQueries
                             /\ Len(errorCh[worker]) < ReplyCap
                             /\ errorCh' = [errorCh EXCEPT ![worker] = Append(@, worker)]
                             /\ UNCHANGED <<channelVars, worker, pc, answerCh, expired,
                                            result, signalled, main>>

SendError == /\ Alive
             /\ worker \in BadQueries
             /\ Len(errorCh[worker]) < ReplyCap
             /\ errorCh' = [errorCh EXCEPT ![worker] = Append(@, worker)]
             /\ worker' = Idle
             /\ UNCHANGED <<channelVars, pc, answerCh, expired, result,
                            signalled, main>>

\* The range over a closed channel ends once the buffer is drained.
WorkerExits == /\ Alive
               /\ worker = Idle
               /\ closed /\ queue = <<>>
               /\ worker' = Exited
               /\ UNCHANGED <<channelVars, handlerVars, signalled, main>>
-----------------------------------------------------------------------------
(* The main goroutine and its environment.                                 *)

\* An OS signal, or a request to the HTTP stop handler of an experiment.
Signal == /\ main = "select"
          /\ ~signalled
          /\ signalled' = TRUE
          /\ UNCHANGED <<channelVars, worker, handlerVars, main>>

\* case <-sigCh: stopWorker() closes queryChan, which releases the parked
\* senders into their panic.
StopWorker == /\ main = "select"
              /\ signalled
              /\ closed' = TRUE
              /\ sendq' = <<>>
              /\ main' = "closed"
              /\ UNCHANGED <<queue, worker, handlerVars, signalled>>

GracefulStop == /\ main = "closed"
                /\ main' = "draining"
                /\ UNCHANGED <<channelVars, worker, handlerVars, signalled>>

\* Deviation: Stop instead of GracefulStop.
Exit_Dev == /\ main = "draining"
            /\ main' = "stopped"
            /\ UNCHANGED <<channelVars, worker, handlerVars, signalled>>

\* GracefulStop returns when no handler runs; main logs "clean shutdown of
\* server done" and returns, which ends the process.
Exit == /\ main = "draining"
        /\ \A r \in Rpcs : ~Active(r)
        /\ main' = "stopped"
        /\ UNCHANGED <<channelVars, worker, handlerVars, signalled>>

\* case err := <-errCh: log.Fatalf.
ServeFails == /\ MayServeFail
              /\ main = "select"
              /\ main' = "fatal"
              /\ UNCHANGED <<channelVars, worker, handlerVars, signalled>>

\* The process is gone.
Terminated == ~Alive /\ UNCHANGED vars
-----------------------------------------------------------------------------
HandlerStep(r) == \/ Enqueue(r) \/ Park(r) \/ SendPanics(r)
                  \/ ReturnAnswer(r) \/ ReturnError(r) \/ ReturnDeadline(r)

WorkerStep == Receive \/ SendAnswer \/ AnswerPanics \/ SendError \/ WorkerExits

MainStep == StopWorker \/ GracefulStop \/ Exit

Next == \/ \E r \in Rpcs : StartQuery(r) \/ Expire(r) \/ HandlerStep(r)
        \/ WorkerStep
        \/ MainStep
        \/ Signal \/ ServeFails
        \/ Terminated

\* The Go scheduler runs every runnable goroutine again and again.  Clients,
\* deadlines, signals and a failure of Serve are the environment's: unfair.
Fairness == /\ \A r \in Rpcs : WF_vars(HandlerStep(r))
            /\ WF_vars(WorkerStep)
            /\ WF_vars(MainStep)

Spec == Init /\ [][Next]_vars /\ Fairness
-----------------------------------------------------------------------------
(* Safety.                                                                 *)

(* Every reply goes to the caller that asked: what Query returns was       *)
(* computed from the query of that very call, it is an error exactly when  *)
(* AnswerBytes rejected it, and DeadlineExceeded only after the context    *)
(* has ended, however handlers, worker and deadlines interleave.  A query  *)
(* that makes AnswerBytes panic is never replied to.                       *)
OwnReply == \A r \in Rpcs :
               /\ result[r].of = r
               /\ result[r].kind = "answer" => r \notin BadQueries \cup Panicking
               /\ result[r].kind = "error" => r \in BadQueries
               /\ result[r].kind = "deadline" => r \in expired

(* The worker never blocks on a reply: when it holds a query, both private *)
(* channels of that call are empty, even if the handler has already        *)
(* returned with DeadlineExceeded and nobody will ever read them.  A       *)
(* blocked worker would stop the whole server.                             *)
WorkerNeverBlocks == worker \in Rpcs =>
                        answerCh[worker] = <<>> /\ errorCh[worker] = <<>>

(* No accepted query is lost: a handler in its select has its query in     *)
(* queryChan or with the worker, or its reply is ready to be received.     *)
WaitingIsServed == \A r \in Rpcs : pc[r] = "waiting" =>
                      \/ r \in Elements(queue)
                      \/ worker = r
                      \/ answerCh[r] # <<>>
                      \/ errorCh[r] # <<>>

(* A clean stop abandons nobody: when main has logged "clean shutdown of   *)
(* server done" every call that was started has returned, and whatever is  *)
(* still in the queue or with the worker belongs to a call whose context   *)
(* had ended.                                                              *)
CleanStop == main = "stopped" =>
                /\ \A r \in Rpcs : ~Active(r)
                /\ Elements(queue) \subseteq expired
                /\ worker \in Rpcs => worker \in expired

(* What main logs at its end, and what the deployment scripts expect of    *)
(* SIGTERM: the process does not die of a panic.                           *)
NoPanic == main # "panicked"
-----------------------------------------------------------------------------
(* Liveness.                                                               *)

(* Every call returns, unless the process ends first: no interleaving of   *)
(* full queue, expired handlers and errors starves a handler.              *)
EveryCallReturns == \A r \in Rpcs : Active(r) ~> (pc[r] = "done" \/ ~Alive)

(* A signal ends the process: GracefulStop is never left waiting for a     *)
(* handler that can no longer finish.                                      *)
SignalEndsProcess == signalled ~> ~Alive
-----------------------------------------------------------------------------
(* What the callers see, as QueryService.                                  *)
Status(r) == CASE pc[r] = "idle" -> "idle"
               [] Active(r) -> "open"
               [] pc[r] = "done" /\ result[r].kind = "answer" -> "answered"
               [] pc[r] = "done" /\ result[r].kind = "error" -> "failed"
               [] OTHER -> "timedOut"

ServerState == CASE Alive -> "up"
                 [] main = "stopped" -> "stopped"
                 [] OTHER -> "crashed"

Service == INSTANCE QueryService
              WITH status <- [r \in Rpcs |-> Status(r)],
                   late <- expired,
                   server <- ServerState

(* The goroutines together keep the promise of the Query RPC.              *)
ImplementsService == Service!Spec
=============================================================================
