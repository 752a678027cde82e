---------------------------- MODULE QueryService ----------------------------
(***************************************************************************)
(* What a caller of the Query RPC may rely on, independent of how          *)
(* cmd/grpc/server/main.go organises its goroutines: a call that was       *)
(* opened is closed at most once, with the answer (or the error) of its    *)
(* own query, or with DeadlineExceeded if its context has ended; a server  *)
(* that stops cleanly leaves no call open; while the server is up every    *)
(* open call is eventually closed.                                         *)
(***************************************************************************)
CONSTANTS Rpcs,        (* the Query calls made during one server lifetime  *)
          BadQueries   (* the calls whose query AnswerBytes rejects        *)

VARIABLES status,      (* status[r]: how far call r has got, for its client *)
          late,        (* the calls whose context is done                   *)
          server       (* "up", "stopped" (clean) or "crashed"              *)

vars == <<status, late, server>>

Closed == {"answered", "failed", "timedOut"}

TypeOK == /\ status \in [Rpcs -> {"idle", "open"} \cup Closed]
          /\ late \subseteq Rpcs
          /\ server \in {"up", "stopped", "crashed"}

Init == /\ status = [r \in Rpcs |-> "idle"]
        /\ late = {}
        /\ server = "up"

Call(r) == /\ server = "up"
           /\ status[r] = "idle"
           /\ status' = [status EXCEPT ![r] = "open"]
           /\ UNCHANGED <<late, server>>

\* The caller's deadline passes, or the caller goes away.
Lapse(r) == /\ server = "up"
            /\ status[r] = "open"
            /\ late' = late \cup {r}
            /\ UNCHANGED <<status, server>>

\* The end of a call: which ends are possible depends on the query alone and
\* on whether the context has ended.
Return(r) == /\ server = "up"
             /\ status[r] = "open"
             /\ \/ /\ r \notin BadQueries
                   /\ status' = [status EXCEPT ![r] = "answered"]
                \/ /\ r \in BadQueries
                   /\ status' = [status EXCEPT ![r] = "failed"]
                \/ /\ r \in late
                   /\ status' = [status EXCEPT ![r] = "timedOut"]
             /\ UNCHANGED <<late, server>>

Stop == /\ server = "up"
        /\ \A r \in Rpcs : status[r] # "open"
        /\ server' = "stopped"
        /\ UNCHANGED <<status, late>>

Crash == /\ server = "up"
         /\ server' = "crashed"
         /\ UNCHANGED <<status, late>>

Next == \/ \E r \in Rpcs : Call(r) \/ Lapse(r) \/ Return(r)
        \/ Stop
        \/ Crash

Spec == /\ Init
        /\ [][Next]_vars
        /\ \A r \in Rpcs : WF_vars(Return(r))
=============================================================================
