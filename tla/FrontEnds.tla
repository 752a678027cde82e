----------------------------- MODULE FrontEnds -----------------------------
(* The programs that users start, with the servers they talk to:           *)
(*   "web"          cmd/grpc/client/web: one goroutine per HTTP request,   *)
(*   "interactive"  cmd/grpc/client/interactive: a menu,                   *)
(*   "simulation"   simulations/multi/client: repeated retrievals from     *)
(*                  simulations/multi/server.                              *)
(* The first two share cmd/grpc/client/manager and the servers of          *)
(* cmd/grpc/server, whose single worker answers one query after the other  *)
(* (QueryServer); the servers of the simulation answer in the handlers.    *)
(*                                                                         *)
(* A job is one request, menu choice or retrieval.  It asks every server   *)
(* for its database info, compares the infos, sends every server a share   *)
(* of its query and combines the answers.  What the cryptography makes of  *)
(* them is PointPIR and PredicateQuery; here an answer is known by the job *)
(* and the share it is about and by the files the server had loaded.       *)
EXTENDS Integers, Sequences, FiniteSets, SequencesExt

CONSTANTS
  Programs,      \* which of the three programs are started
  NumServers,    \* servers in a configuration
  NumJobs,       \* bound on requests, choices and retrievals
  Versions,      \* versions of the key files
  Dims,          \* what database infos are compared by, for every version
  FirstVersions, \* what the servers may have loaded when the client starts
  Flags,         \* [scheme, total, bits, repetitions] of a simulation
  BlockBits,     \* BlockSize * elemBitSize of a simulation
  MaxFaults,     \* bound on restarts, stops and deadlines
  None

Jobs == 1 .. NumJobs
Sids == 1 .. NumServers

\* Keys and statistics come from different servers.
Groups  == {"point", "complex"}
Servers == Groups \X Sids

ASSUME FrontEndsAssumption ==
  /\ Programs \subseteq {"web", "interactive", "simulation"}
  /\ NumServers \in Nat \ {0, 1}
  /\ NumJobs \in Nat \ {0}
  /\ FirstVersions \subseteq [Servers -> Versions]
  /\ BlockBits \in Nat \ {0}
  /\ MaxFaults \in Nat

\* A simulation retrieves something; NumJobs leaves room for all of it.
ASSUME FlagsAssumption ==
  \A f \in Flags :
    /\ f.total \in Nat /\ f.bits \in Nat \ {0} /\ f.repetitions \in Nat
    /\ f.repetitions * ((f.bits + BlockBits - 1) \div BlockBits) <= NumJobs

VARIABLES
  program, flags,
  pc,          \* of the program
  addresses,   \* config.Addresses: whose address is at which place
  job,         \* every job: where it is, what was asked, what was replied
  infos,       \* infos[j][s]: the version whose info s sent to j
  call,        \* call[j][s]: the query RPC of j to s
  resCh,       \* resCh[j]: the channel that RunQueries made for j
  start,       \* startIndex of a simulation
  version,     \* the files that each server has loaded
  queue,       \* the queries waiting for the worker of each server
  stopping,    \* servers of a simulation that have got a signal
  faults       \* restarts, stops and deadlines so far

client == <<program, flags, pc, addresses, start>>
server == <<version, queue, stopping, faults>>
vars   == <<client, job, infos, call, resCh, server>>

WebKinds  == {"index", "retrieve", "email", "algo", "timestamp"}
MenuKinds == {"key", "email", "algo", "creation", "avg"}

\* What a request may carry: a form that ParseForm cannot read, an argument that
\* is missing, one that no case knows, a year that is no number.
WebForms(kind) ==
  CASE kind = "index"     -> {"good", "unknown"}
    [] kind = "email"     -> {"good", "unparsed", "missing", "unknown"}
    [] kind = "timestamp" -> {"good", "unparsed", "missing", "unreadable"}
    [] OTHER              -> {"good", "unparsed", "missing"}

\* A prompt validates what is entered, or it is interrupted.
PromptForms == {"good", "interrupted"}

Group(j) == IF job[j].kind \in {"retrieve", "key", "point"} THEN "point"
                                                            ELSE "complex"
ServersOf(j) == {Group(j)} \X Sids

NoJob  == [pc |-> "idle", kind |-> None, form |-> None, index |-> None,
           status |-> 0, body |-> <<>>]
NoCall == [at |-> "none", share |-> None]

Open(j) == job[j].pc \notin {"idle", "closed"}

Init ==
  /\ program \in Programs
  /\ flags \in IF program = "simulation" THEN Flags ELSE {None}
  /\ pc = "loading"
  /\ addresses = <<>>
  /\ job = [j \in Jobs |-> NoJob]
  /\ infos = [j \in Jobs |-> [s \in Servers |-> None]]
  /\ call = [j \in Jobs |-> [s \in Servers |-> NoCall]]
  /\ resCh = [j \in Jobs |-> {}]
  /\ start = None
  /\ version \in FirstVersions
  /\ queue = [s \in Servers |-> <<>>]
  /\ stopping = {}
  /\ faults = 0

-----------------------------------------------------------------------------
(* Start-up.                                                               *)

\* The map of servers is ranged over in any order; an entry is stored at the
\* place that its key names, and not appended to the slice.
LoadedConfig_Dev(order) == [i \in Sids |-> None] \o order

LoadedConfig(order) == [i \in Sids |-> order[CHOOSE n \in Sids : order[n] = i]]

\* The configuration that web and interactive have built in.
StaticConfig == [i \in Sids |-> i]

LoadConfig ==
  /\ pc = "loading"
  /\ \/ program # "simulation" /\ addresses' = StaticConfig
     \/ \E order \in SetToSeqs(Sids) : addresses' = LoadedConfig(order)
  /\ pc' = "connecting"
  /\ UNCHANGED <<program, flags, start, job, infos, call, resCh, server>>

\* A server that does not answer within ten seconds ends the program.
Connect ==
  /\ pc = "connecting"
  /\ \/ pc' = "running" /\ UNCHANGED faults
     \/ pc' = "dead" /\ faults < MaxFaults /\ faults' = faults + 1
  /\ UNCHANGED <<program, flags, addresses, start, job, infos, call, resCh,
                 version, queue, stopping>>

\* bitsToBlocks
RetrieveBlocks == (flags.bits + BlockBits - 1) \div BlockBits

\* rand.Intn panics unless there are more blocks than are retrieved.
StartIndex_Dev == 0 .. flags.total - 1

StartIndex == 0 .. flags.total - RetrieveBlocks - 1

-----------------------------------------------------------------------------
(* A job from its arrival to its queries.                                  *)
Fatal == pc' = "dead" /\ UNCHANGED <<program, flags, addresses, start>>

NextJob(j) == j = 1 + Cardinality({k \in Jobs : job[k].pc # "idle"})

\* A request of the web comes at any time, an interactive choice when the one
\* before it has been served.
Arrive(j) ==
  /\ pc = "running" /\ program # "simulation"
  /\ NextJob(j)
  /\ program = "interactive" => \A k \in Jobs : ~Open(k)
  /\ \E kind \in IF program = "web" THEN WebKinds ELSE MenuKinds :
     \E form \in IF program = "web" THEN WebForms(kind) ELSE PromptForms :
       job' = [job EXCEPT ![j] =
                 [@ EXCEPT !.pc = "handler", !.kind = kind, !.form = form]]
  /\ UNCHANGED <<client, infos, call, resCh, server>>

\* The user of the menu leaves, or the prompt fails.
Leave ==
  /\ pc = "running" /\ program = "interactive"
  /\ \A k \in Jobs : ~Open(k)
  /\ pc' = "exited"
  /\ UNCHANGED <<program, flags, addresses, start, job, infos, call, resCh,
                 server>>

\* http.Error and ResponseWriter.Write: the first one sets the status.
WithError(r, status) ==
  [r EXCEPT !.status = IF @ = 0 THEN status ELSE @, !.body = Append(@, "error")]
WithText(r, text) ==
  [r EXCEPT !.status = IF @ = 0 THEN 200 ELSE @, !.body = Append(@, text)]
Returned(r) == [r EXCEPT !.pc = "closed"]

\* The form of a request: arguments are checked before any server is asked.
\* log.Fatal in ToCreationTimeClientFSS ends the program, and so does a
\* question that is interrupted.
CheckForm(j) ==
  LET r == job[j]
  IN /\ pc = "running" /\ r.pc = "handler"
     /\ CASE r.form \in {"unreadable", "interrupted"} ->
               Fatal /\ UNCHANGED job
          [] r.form = "missing" ->
               job' = [job EXCEPT ![j] = Returned(WithError(r, 400))]
               /\ UNCHANGED client
          [] r.form \in {"unparsed", "unknown"} ->
               job' = [job EXCEPT ![j] =
                         Returned(WithError(r, IF r.kind = "index" THEN 404 ELSE 500))]
               /\ UNCHANGED client
          [] r.form = "good" /\ r.kind = "index" ->
               job' = [job EXCEPT ![j] = Returned(WithText(r, "page"))]
               /\ UNCHANGED client
          [] OTHER ->
               job' = [job EXCEPT ![j].pc = "infos"] /\ UNCHANGED client
     /\ UNCHANGED <<infos, call, resCh, server>>

\* DatabaseInfo is answered outside the worker's queue.
DatabaseInfo(j, s) ==
  /\ pc = "running" /\ job[j].pc = "infos"
  /\ s \in ServersOf(j) /\ infos[j][s] = None /\ s \notin stopping
  /\ infos' = [infos EXCEPT ![j][s] = version[s]]
  /\ UNCHANGED <<client, job, call, resCh, server>>

AllInfos(j)   == \A s \in ServersOf(j) : infos[j][s] # None
InfosEqual(j) == \A s, t \in ServersOf(j) : Dims[infos[j][s]] = Dims[infos[j][t]]

\* Whose address a share goes to: the Actor keeps its connections in the order
\* of the addresses, the simulation keeps them in a map.
Destinations ==
  IF program = "simulation" THEN SetToSeqs(Sids) ELSE {addresses}

RunQueries(j, group) ==
  \E to \in Destinations :
    call' = [call EXCEPT ![j] =
               [s \in Servers |->
                  IF s[1] = group
                  THEN [at |-> "sent", share |-> CHOOSE i \in Sids : to[i] = s[2]]
                  ELSE @[s]]]

\* Equal infos: the client is built from the first and the query is shared.
SendQueries(j) ==
  /\ pc = "running" /\ job[j].pc = "infos" /\ program # "simulation"
  /\ AllInfos(j) /\ InfosEqual(j)
  /\ RunQueries(j, Group(j))
  /\ job' = [job EXCEPT ![j].pc = "queries"]
  /\ UNCHANGED <<client, infos, resCh, server>>

-----------------------------------------------------------------------------
(* The simulation: one database info, then job after job.                  *)
Repetition(j) == (j - 1) \div RetrieveBlocks
Block(j)      == start + ((j - 1) % RetrieveBlocks)
Retrievals    == IF flags.scheme = "point" THEN flags.repetitions * RetrieveBlocks
                                           ELSE flags.repetitions

FirstInfo ==
  /\ pc = "running" /\ program = "simulation"
  /\ job[1].pc = "idle"
  /\ job' = [job EXCEPT ![1] =
               [@ EXCEPT !.pc = "infos",
                         !.kind = IF flags.scheme = "point" THEN "point"
                                                            ELSE "complex"]]
  /\ UNCHANGED <<client, infos, call, resCh, server>>

\* An unknown scheme, different infos or too few blocks end the program.
Prepare ==
  /\ pc = "running" /\ program = "simulation"
  /\ job[1].pc = "infos" /\ start = None /\ AllInfos(1)
  /\ CASE ~InfosEqual(1) -> Fatal
       [] flags.scheme = "other" -> Fatal
       [] flags.scheme = "point" /\ flags.total <= RetrieveBlocks -> Fatal
       [] OTHER ->
            /\ start' \in IF flags.scheme = "point" THEN StartIndex ELSE {0}
            /\ UNCHANGED <<program, flags, pc, addresses>>
  /\ UNCHANGED <<job, infos, call, resCh, server>>

\* The next block of the repetition, or the next repetition.
Retrieve(j) ==
  /\ pc = "running" /\ program = "simulation" /\ start # None
  /\ j <= Retrievals
  /\ IF j = 1 THEN job[1].pc = "infos"
              ELSE NextJob(j) /\ job[j - 1].pc = "closed"
  /\ job' = [job EXCEPT ![j] =
               [@ EXCEPT !.pc = "queries", !.kind = job[1].kind,
                         !.index = Block(j)]]
  /\ RunQueries(j, Group(1))
  /\ UNCHANGED <<client, infos, resCh, server>>

Leaves ==
  /\ pc = "running" /\ program = "simulation" /\ start # None
  /\ \A j \in 1 .. Retrievals : job[j].pc = "closed"
  /\ pc' = "exited"
  /\ UNCHANGED <<program, flags, addresses, start, job, infos, call, resCh,
                 server>>
-----------------------------------------------------------------------------
(* The servers.  At cmd/grpc/server a handler puts its query in the queue  *)
(* of the worker; at simulations/multi/server it calls AnswerBytes itself. *)
(* All evaluations of a complex server write to the scratch of one Fss.    *)
At(s, place) == {j \in Jobs : call[j][s].at = place}

Deliver(j, s) ==
  /\ call[j][s].at = "sent" /\ s \notin stopping
  /\ IF program = "simulation"
     THEN /\ call' = [call EXCEPT ![j][s].at = "evaluating"]
          /\ UNCHANGED queue
     ELSE /\ call' = [call EXCEPT ![j][s].at = "queued"]
          /\ queue' = [queue EXCEPT ![s] = Append(@, j)]
  /\ UNCHANGED <<client, job, infos, resCh, version, stopping, faults>>

WorkerTakes_Dev(s) ==
  /\ queue[s] # <<>>
  /\ call' = [call EXCEPT ![Head(queue[s])][s].at = "evaluating"]
  /\ queue' = [queue EXCEPT ![s] = Tail(@)]
  /\ UNCHANGED <<client, job, infos, resCh, version, stopping, faults>>

WorkerTakes(s) ==
  /\ queue[s] # <<>>
  /\ At(s, "evaluating") = {}
  /\ call' = [call EXCEPT ![Head(queue[s])][s].at = "evaluating"]
  /\ queue' = [queue EXCEPT ![s] = Tail(@)]
  /\ UNCHANGED <<client, job, infos, resCh, version, stopping, faults>>

\* The goroutines of one RunQueries send to a channel of its own.
Channel_Dev(j) == 1

Channel(j) == j

Answer(j, s) ==
  /\ call[j][s].at = "evaluating"
  /\ call' = [call EXCEPT ![j][s].at = "answered"]
  /\ resCh' = [resCh EXCEPT ![Channel(j)] = @ \cup
                 {[job |-> j, server |-> s, share |-> call[j][s].share,
                   version |-> version[s]]}]
  /\ UNCHANGED <<client, job, infos, server>>

\* A server is restarted on other files: what it had received is lost, and so
\* may be what was on its way.
Restart(s) ==
  /\ program # "simulation" /\ faults < MaxFaults
  /\ \E v \in Versions \ {version[s]} : version' = [version EXCEPT ![s] = v]
  /\ \E onTheWay \in SUBSET At(s, "sent") :
       call' = [j \in Jobs |->
                  IF call[j][s].at \in {"queued", "evaluating"} \/ j \in onTheWay
                  THEN [call[j] EXCEPT ![s].at = "lost"] ELSE call[j]]
  /\ queue' = [queue EXCEPT ![s] = <<>>]
  /\ faults' = faults + 1
  /\ UNCHANGED <<client, job, infos, resCh, stopping>>

\* A signal to a server of the simulation: GracefulStop finishes the queries
\* in their handlers and refuses new ones.
Stop(s) ==
  /\ program = "simulation" /\ faults < MaxFaults
  /\ stopping' = stopping \cup {s}
  /\ faults' = faults + 1
  /\ UNCHANGED <<client, job, infos, call, resCh, version, queue>>

\* The hour of a context passes before the server has answered: a failed RPC.
Expire(j) ==
  /\ pc = "running" /\ faults < MaxFaults
  /\ \/ job[j].pc = "infos" /\ ~AllInfos(j)
     \/ \E s \in Servers : call[j][s].at \in {"sent", "queued", "evaluating"}
  /\ Fatal
  /\ faults' = faults + 1
  /\ UNCHANGED <<job, infos, call, resCh, version, queue, stopping>>

\* A request for an info was on its way to a server that was restarted.
InfoFails(j) ==
  /\ pc = "running" /\ program # "simulation" /\ faults > 0
  /\ job[j].pc = "infos" /\ ~AllInfos(j)
  /\ Fatal
  /\ UNCHANGED <<job, infos, call, resCh, server>>

Refused(j, s) ==
  s \in stopping /\ \/ call[j][s].at = "sent"
                    \/ job[j].pc = "infos" /\ s \in ServersOf(j)
                                           /\ infos[j][s] = None

\* A failed RPC ends the whole program with log.Fatalf, whatever else it is
\* doing; the deviation tries again for ever.
RpcFails_Dev(j) ==
  /\ pc = "running"
  /\ \E s \in Servers :
       /\ call[j][s].at = "lost" \/ Refused(j, s)
       /\ call' = [call EXCEPT ![j][s].at = IF @ = "lost" THEN "sent" ELSE @]
  /\ UNCHANGED <<client, job, infos, resCh, server>>

RpcFails(j) ==
  /\ pc = "running"
  /\ \E s \in Servers : call[j][s].at = "lost" \/ Refused(j, s)
  /\ Fatal
  /\ UNCHANGED <<job, infos, call, resCh, server>>

-----------------------------------------------------------------------------
(* The end of a job.                                                       *)
AllAnswered(j) ==
  /\ job[j].pc = "queries"
  /\ \A s \in ServersOf(j) : call[j][s].at = "answered"

OneVersion(j) ==
  /\ \A a, b \in resCh[Channel(j)] : a.version = b.version
  /\ program # "simulation" =>
       \A a \in resCh[Channel(j)] : a.version = infos[j][a.server]

\* What ReconstructBytes and, for a key, RecoverKeyFromBlock can return:
\* without mixed answers the integrity checks accept, an empty bucket panics
\* in UnPadBlock, and an average over no key divides by zero.
Outcomes(j) ==
  IF ~OneVersion(j) THEN {"value", "reject", "panic"}
  ELSE CASE job[j].kind \in {"retrieve", "key"} -> {"value", "notFound", "panic"}
         [] job[j].kind = "avg"                 -> {"value", "panic"}
         [] OTHER                               -> {"value"}

\* The handlers of the web.  An error is replied, and net/http recovers a
\* panic, which closes the connection without a reply.
Value(kind) == IF kind = "retrieve" THEN "key" ELSE "count"

\* Two of the handlers do not return after the error.
WritesOn(kind) == kind \in {"algo", "timestamp"}

Failed(r) == IF WritesOn(r.kind) THEN WithText(WithError(r, 500), "count")
                                 ELSE WithError(r, 500)

Handled_Dev(r, outcome) ==
  CASE outcome = "value"    -> WithText(r, Value(r.kind))
    [] outcome = "notFound" -> WithText(r, "not found")
    [] outcome = "reject"   -> WithText(r, Value(r.kind))
    [] outcome = "panic"    -> r

Handled(r, outcome) ==
  CASE outcome = "value"    -> WithText(r, Value(r.kind))
    [] outcome = "notFound" -> WithText(r, "not found")
    [] outcome = "reject"   -> Failed(r)
    [] outcome = "panic"    -> r

HandlerEnds(j, outcome) ==
  /\ job' = [job EXCEPT ![j] = Returned(Handled(job[j], outcome))]
  /\ UNCHANGED <<client, infos, call, resCh, server>>

\* The menu goes on after a value or a key that is not found; the simulation
\* looks at no value.  Anything else ends the program.
Tolerated_Dev == {"value"}

Tolerated == {"value", "notFound"}

SessionGoesOn(j, outcome) ==
  /\ IF outcome \in Tolerated
     THEN /\ job' = [job EXCEPT ![j] = Returned(WithText(@, outcome))]
          /\ UNCHANGED client
     ELSE Fatal /\ job' = [job EXCEPT ![j] = Returned(WithText(@, outcome))]
  /\ UNCHANGED <<infos, call, resCh, server>>

Ends(j, outcome) ==
  IF program = "web" THEN HandlerEnds(j, outcome) ELSE SessionGoesOn(j, outcome)

\* Different infos are an error like a rejected answer.
InfosDiffer(j) ==
  /\ pc = "running" /\ job[j].pc = "infos" /\ program # "simulation"
  /\ AllInfos(j) /\ ~InfosEqual(j)
  /\ Ends(j, "reject")

Reconstruct(j) ==
  /\ pc = "running" /\ AllAnswered(j)
  /\ \E outcome \in Outcomes(j) : Ends(j, outcome)

-----------------------------------------------------------------------------
\* A program that has ended, or an HTTP server that waits for requests.
Quiet ==
  /\ \/ pc \in {"dead", "exited"}
     \/ program = "web" /\ pc = "running"
  /\ UNCHANGED vars

JobStep(j) ==
  \/ CheckForm(j) \/ SendQueries(j) \/ RpcFails(j) \/ InfosDiffer(j)
  \/ Reconstruct(j)

ServerStep(s) ==
  \/ WorkerTakes(s)
  \/ \E j \in Jobs : DatabaseInfo(j, s) \/ Deliver(j, s) \/ Answer(j, s)

MainStep == LoadConfig \/ Connect \/ FirstInfo \/ Prepare \/ Leaves
            \/ \E j \in Jobs : Retrieve(j)

Fault ==
  \/ \E s \in Servers : Restart(s) \/ Stop(s)
  \/ \E j \in Jobs : Expire(j) \/ InfoFails(j)

Next ==
  \/ MainStep \/ Leave \/ Fault \/ Quiet
  \/ \E j \in Jobs : Arrive(j) \/ JobStep(j)
  \/ \E s \in Servers : ServerStep(s)

\* Goroutines run and RPCs that do not fail make progress; nobody has to make
\* a request, and nothing has to fail.
Fairness ==
  /\ WF_vars(MainStep)
  /\ \A j \in Jobs : WF_vars(JobStep(j))
  /\ \A s \in Servers : WF_vars(ServerStep(s))

Spec == Init /\ [][Next]_vars /\ Fairness
-----------------------------------------------------------------------------
(* Properties.                                                             *)
Places == {"none", "sent", "queued", "evaluating", "answered", "lost"}

\* Every variable holds what the code keeps there: the addresses are those of
\* all servers, and the queue of a worker holds the queries that were received
\* and not taken, each once.
TypeOK ==
  /\ pc # "loading" => addresses \in SetToSeqs(Sids)
  /\ pc \in {"loading", "connecting", "running", "exited", "dead"}
  /\ \A j \in Jobs : /\ job[j].pc \in {"idle", "handler", "infos", "queries", "closed"}
                     /\ job[j].status \in {0, 200, 400, 404, 500}
                     /\ Len(job[j].body) <= 2
                     /\ \A s \in Servers : /\ infos[j][s] \in Versions \cup {None}
                                           /\ call[j][s].at \in Places
  /\ \A s \in Servers : /\ ToSet(queue[s]) = At(s, "queued")
                        /\ Len(queue[s]) = Cardinality(At(s, "queued"))
  /\ faults \in 0 .. MaxFaults

\* What a job reconstructs from is one answer of each server to its own query,
\* however many requests use the connections of one Actor at a time; and where
\* servers apply the sign of their number (all but the simulation, whose map
\* of connections is known to mix them up), the i-th share went to server i,
\* in whatever order the configuration was read (RunQueries and LoadConfig).
OwnAnswers ==
  \A j \in Jobs : AllAnswered(j) =>
    /\ {a.server : a \in resCh[Channel(j)]} = ServersOf(j)
    /\ Cardinality(resCh[Channel(j)]) = NumServers
    /\ \A a \in resCh[Channel(j)] :
         /\ a.job = j
         /\ program # "simulation" => a.share = a.server[2]

\* A reply of the web server with status 200 is one text, and it is about
\* answers that this very request has received from all servers; a count
\* behind an error, which two handlers write, still has the error's status.
RepliesAreTrue ==
  program = "web" =>
    \A j \in Jobs : job[j].pc = "closed" /\ job[j].status = 200 =>
      /\ Len(job[j].body) = 1
      /\ job[j].kind # "index" =>
           \A s \in ServersOf(j) : call[j][s].at = "answered"

\* The scratch buffers of an Fss (lib/fss/common.go) are used by one evaluation
\* at a time: at cmd/grpc/server thanks to the worker, at the servers of the
\* simulation only because their one client waits for all answers of a query
\* before it sends the next.
ScratchUnshared == \A s \in Servers : Cardinality(At(s, "evaluating")) <= 1

\* A simulation that exits has retrieved, in every repetition, a run of blocks
\* that lies within the database.
RetrievalsInRange ==
  program = "simulation" /\ flags.scheme = "point" =>
    /\ \A j \in Jobs : job[j].index # None => job[j].index \in 0 .. flags.total - 1
    /\ pc = "exited" =>
         \A rep \in 0 .. flags.repetitions - 1 :
           {job[j].index : j \in {k \in 1 .. Retrievals : Repetition(k) = rep}}
             = start .. start + RetrieveBlocks - 1

Entered(form) == \E j \in Jobs : job[j].form = form
Replied(text) == \E j \in Jobs : job[j].body = <<text>>
Agreed == \A s, t \in Servers : s[1] = t[1] => version[s] = version[t]

\* A program dies only of a cause outside it (a fault, servers with different
\* databases) or of a case the code answers with log.Fatal or a panic: a year
\* that is no number, an interrupted prompt, an empty bucket or average in the
\* menu, flags that do not fit.  A key that is not found, and in the web a
\* rejected answer or a panic of another request, is none.
DeathHasCause ==
  pc = "dead" =>
    \/ faults > 0 \/ ~Agreed
    \/ program = "web" /\ Entered("unreadable")
    \/ program = "interactive" /\ (Entered("interrupted") \/ Replied("panic"))
    \/ program = "simulation" /\ (flags.scheme = "other" \/ flags.total <= RetrieveBlocks)

\* Every request, choice and retrieval that was begun ends, or the program
\* ends: no goroutine waits for ever on a channel or a WaitGroup, also when
\* servers are restarted or stopped and deadlines pass.
EveryJobEnds == \A j \in Jobs : Open(j) ~> (~Open(j) \/ pc = "dead")
=============================================================================
