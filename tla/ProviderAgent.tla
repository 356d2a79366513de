---------------------------- MODULE ProviderAgent ----------------------------
(***************************************************************************)
(* The managed provider agent (ocip_agent/agent.py): one event loop that   *)
(* serves a coordinator over a WebSocket, with a task for each request and *)
(* a health monitor that restarts the inference server, a child process.   *)
(*                                                                         *)
(* A step is the code between two awaits.  A request id comes at most once *)
(* over one connection; the coordinator may send it again over a later one *)
(* (its retry excludes provider ids, and a reconnected agent has a new     *)
(* one).  Bodies of prompts and tokens are left out.  The server answers   *)
(* "full" (a stream), "empty" (a status other than 200: the lines of such  *)
(* a response are skipped and Done is sent) or fails ("error").            *)
(***************************************************************************)
EXTENDS Naturals, FiniteSets

CONSTANTS
    Requests,
    MaxRestarts,            \* InferenceServerManager._max_restarts
    MaxConns, MaxCrashes    \* bounds: connections, crashes of the server

ASSUME AgentAssumption ==
    /\ MaxRestarts \in Nat /\ MaxConns \in Nat \ {0} /\ MaxCrashes \in Nat

VARIABLES
    phase,          \* where run() is
    running,        \* OCIPAgent._running
    monitor,        \* where _health_monitor is
    restarts,       \* _restart_count
    futile,         \* history: restarts since the last start that worked
                    \* which found the old process and started none
    server,         \* the child process
    crashes,        \* history: crashes and hangs of it so far
    coordinator,    \* "up" or "down"
    credential,     \* "valid" or "revoked"
    conn,           \* number of the present or last connection
    task,           \* state of _handle_request for a request of a connection
    active,         \* _active_requests: the connection of the entry, 0 for none
    answer,         \* what was sent last for a request of a connection
    interrupted     \* history: somebody pressed Ctrl-C

serverVars == <<server, crashes>>
monitorVars == <<monitor, restarts, futile>>
workVars == <<task, active, answer>>
worldVars == <<coordinator, credential, interrupted>>
agentVars == <<phase, running, monitor, restarts, futile, server, crashes, coordinator,
               credential, conn, task, active, answer, interrupted>>

Conns == 1..MaxConns
Work == Requests \X Conns
Alive == {"loading", "up", "hung"}
Unreaped == Alive \cup {"dying"}
MonitorOver == {"none", "abandoned", "failed", "cancelled"}

AgentTypeOK ==
    /\ phase \in {"starting", "connecting", "serving", "backoff", "stopping", "exited"}
    /\ running \in BOOLEAN
    /\ monitor \in MonitorOver \cup {"waiting", "checking", "backoff", "starting"}
    /\ restarts \in 0..(MaxRestarts + 1) /\ futile \in 0..MaxRestarts
    /\ server \in Unreaped \cup {"dead"}
    /\ crashes \in 0..MaxCrashes
    /\ coordinator \in {"up", "down"} /\ credential \in {"valid", "revoked"}
    /\ conn \in 0..MaxConns
    /\ task \in [Work -> {"none", "running", "cancelled", "ended"}]
    /\ active \in [Requests -> 0..MaxConns]
    /\ answer \in [Work -> {"none", "full", "empty", "error"}]
    /\ interrupted \in BOOLEAN

\* The tasks of the entries of _active_requests
Tracked == {w \in Work : active[w[1]] = w[2]}

\* finally of _connect_and_serve: cancel the tasks of all entries, clear them
CancelAll ==
    /\ task' = [w \in Work |-> IF w \in Tracked THEN "cancelled" ELSE task[w]]
    /\ active' = [r \in Requests |-> 0]
    /\ UNCHANGED answer

-----------------------------------------------------------------------------
\* The server process
ServerLoads ==
    /\ server = "loading" /\ server' = "up"
    /\ UNCHANGED <<phase, running, monitorVars, crashes, conn, workVars, worldVars>>

ServerBreaks ==
    /\ crashes < MaxCrashes /\ crashes' = crashes + 1
    /\ \/ server \in Alive /\ server' = "dead"
       \/ server = "up" /\ server' = "hung"
    /\ UNCHANGED <<phase, running, monitorVars, conn, workVars, worldVars>>

\* A process that was killed and not waited for is reaped later
ServerReaped ==
    /\ server = "dying" /\ server' = "dead"
    /\ UNCHANGED <<phase, running, monitorVars, crashes, conn, workVars, worldVars>>

\* stop: terminate and wait, or kill without waiting for the end.  So it is
\* also for a process that was killed before and has not ended
Stopped == IF server \in Unreaped THEN {"dying", "dead"} ELSE {server}

-----------------------------------------------------------------------------
\* run: start() returns, the monitor begins
StartSucceeds ==
    /\ phase = "starting" /\ server = "up"
    /\ phase' = "connecting"
    /\ restarts' = 0 /\ futile' = 0 /\ monitor' = "waiting"
    /\ UNCHANGED <<running, serverVars, conn, workVars, worldVars>>

\* _wait_for_health raises: the process ended, or 120 s went by
StartFails ==
    /\ phase = "starting" /\ server # "up"
    /\ phase' = "stopping"
    /\ UNCHANGED <<running, monitorVars, serverVars, conn, workVars, worldVars>>

Connect ==
    /\ phase = "connecting" /\ coordinator = "up" /\ conn < MaxConns
    /\ phase' = "serving" /\ conn' = conn + 1
    /\ UNCHANGED <<running, monitorVars, serverVars, workVars, worldVars>>

ConnectFails ==
    /\ phase = "connecting" /\ coordinator = "down"
    /\ phase' = "backoff"
    /\ UNCHANGED <<running, monitorVars, serverVars, conn, workVars, worldVars>>

\* After the sleep of 5 s or 10 s
BackoffEnds ==
    /\ phase = "backoff"
    /\ phase' = IF running THEN "connecting" ELSE "stopping"
    /\ UNCHANGED <<running, monitorVars, serverVars, conn, workVars, worldVars>>

\* Variant of AfterClose: any 4003 is final
AfterCloseAny4003(kind) ==
    CASE kind \in {"denied", "kicked"} -> "stopping"
      [] kind = "lost"   -> "backoff"
      [] kind = "normal" -> IF running THEN "connecting" ELSE "stopping"

\* Variant of AfterClose: no 4003 is final
AfterCloseRetrying(kind) ==
    CASE kind \in {"denied", "lost", "kicked"} -> "backoff"
      [] kind = "normal" -> IF running THEN "connecting" ELSE "stopping"

\* What run() does after a close: a code of a normal closure ends the loop
\* over the messages without an exception, only the known reasons of a 4003 are
\* final, and the sleep comes before the look at _running
AfterClose(kind) ==
    CASE kind = "denied" -> "stopping"
      [] kind \in {"lost", "kicked"} -> "backoff"
      [] kind = "normal" -> IF running THEN "connecting" ELSE "stopping"

\* Variant of Closes: the entries stay
ClosesKeepingEntries(kind) ==
    /\ phase = "serving"
    /\ kind = "denied" => credential = "revoked"
    /\ phase' = AfterClose(kind)
    /\ task' = [w \in Work |-> IF w \in Tracked THEN "cancelled" ELSE task[w]]
    /\ UNCHANGED <<running, monitorVars, serverVars, conn, active, answer, worldVars>>

\* The connection closes
Closes(kind) ==
    /\ phase = "serving"
    /\ kind = "denied" => credential = "revoked"
    /\ phase' = AfterClose(kind)
    /\ CancelAll
    /\ UNCHANGED <<running, monitorVars, serverVars, conn, worldVars>>

-----------------------------------------------------------------------------
\* An InferenceRequest arrives
Receive(r) ==
    /\ phase = "serving" /\ coordinator = "up"
    /\ task[<<r, conn>>] = "none"
    /\ task' = [task EXCEPT ![<<r, conn>>] = "running"]
    /\ active' = [active EXCEPT ![r] = conn]
    /\ UNCHANGED <<phase, running, monitorVars, serverVars, conn, answer, worldVars>>

\* A CancelRequest arrives
Cancel(r) ==
    /\ phase = "serving" /\ active[r] # 0
    /\ task' = [task EXCEPT ![<<r, active[r]>>] = "cancelled"]
    /\ active' = [active EXCEPT ![r] = 0]
    /\ UNCHANGED <<phase, running, monitorVars, serverVars, conn, answer, worldVars>>

\* How the request to the server can end; a bad request or key fails always
Reply == CASE server = "up"      -> {"full", "empty", "error"}
           [] server = "loading" -> {"empty", "error"}
           [] OTHER              -> {"error"}

\* Variant of Finish: an error is only logged
FinishSilently(w) ==
    /\ task[w] = "running"
    /\ task' = [task EXCEPT ![w] = "ended"]
    /\ active' = [active EXCEPT ![w[1]] = 0]
    /\ answer' \in IF phase = "serving" /\ conn = w[2]
                   THEN {[answer EXCEPT ![w] = IF a = "error" THEN "none" ELSE a] : a \in Reply}
                   ELSE {answer}
    /\ UNCHANGED <<phase, running, monitorVars, serverVars, conn, worldVars>>

\* Variant of Finish: a kind of answer the protocol does not have
FinishTimingOut(w) ==
    /\ task[w] = "running"
    /\ task' = [task EXCEPT ![w] = "ended"]
    /\ active' = [active EXCEPT ![w[1]] = 0]
    /\ answer' \in {[answer EXCEPT ![w] = a] : a \in Reply \cup {"timeout"}}
    /\ UNCHANGED <<phase, running, monitorVars, serverVars, conn, worldVars>>

\* _handle_request ends by itself; what it sends gets nowhere if its connection
\* is closed.  finally: drops the entry of the request id, whose ever it is.
Finish(w) ==
    /\ task[w] = "running"
    /\ task' = [task EXCEPT ![w] = "ended"]
    /\ active' = [active EXCEPT ![w[1]] = 0]
    /\ answer' \in IF phase = "serving" /\ conn = w[2]
                   THEN {[answer EXCEPT ![w] = a] : a \in Reply} ELSE {answer}
    /\ UNCHANGED <<phase, running, monitorVars, serverVars, conn, worldVars>>

\* Variant of Unwinds: a cancelled request is an error to report
UnwindsAnswering(w) ==
    /\ task[w] = "cancelled"
    /\ task' = [task EXCEPT ![w] = "ended"]
    /\ active' = [active EXCEPT ![w[1]] = 0]
    /\ answer' = [answer EXCEPT ![w] = "error"]
    /\ UNCHANGED <<phase, running, monitorVars, serverVars, conn, worldVars>>

\* _handle_request after its cancellation
Unwinds(w) ==
    /\ task[w] = "cancelled"
    /\ task' = [task EXCEPT ![w] = "ended"]
    /\ active' = [active EXCEPT ![w[1]] = 0]
    /\ UNCHANGED <<phase, running, monitorVars, serverVars, conn, answer, worldVars>>

-----------------------------------------------------------------------------
\* restart() up to its sleep
Unhealthy ==
    /\ restarts' = restarts + 1 /\ UNCHANGED futile
    /\ IF restarts + 1 > MaxRestarts
       THEN monitor' = "abandoned" /\ running' = FALSE
       ELSE monitor' = "backoff" /\ UNCHANGED running

\* After 15 s: check_health sends a request, or finds nobody listening; a
\* process that was killed listens until it ends
CheckStarts ==
    /\ monitor = "waiting"
    /\ \/ /\ server \in Unreaped
          /\ monitor' = "checking" /\ UNCHANGED <<running, restarts, futile>>
       \/ server \notin Alive /\ Unhealthy
    /\ UNCHANGED <<phase, serverVars, conn, workVars, worldVars>>

CheckAnswers ==
    /\ monitor = "checking" /\ server = "up"
    /\ monitor' = "waiting"
    /\ UNCHANGED <<phase, running, restarts, futile, serverVars, conn, workVars, worldVars>>

\* Variant of CheckFails: a server that does not answer is busy, not broken
CheckFailsIfRefused ==
    /\ monitor = "checking" /\ server \in {"hung", "dying"}
    /\ monitor' = "waiting"
    /\ UNCHANGED <<phase, running, restarts, futile, serverVars, conn, workVars, worldVars>>

\* Another status than 200, or no answer in 3 s
CheckFails ==
    /\ monitor = "checking" /\ server \in {"hung", "dying"}
    /\ Unhealthy
    /\ UNCHANGED <<phase, serverVars, conn, workVars, worldVars>>

\* The server goes down before it answers: httpx raises an error that neither
\* check_health nor _health_monitor catches, and the monitor is gone
CheckBreaks ==
    /\ monitor = "checking" /\ server = "dead"
    /\ monitor' = "failed"
    /\ UNCHANGED <<phase, running, restarts, futile, serverVars, conn, workVars, worldVars>>

\* restart() after its sleep: stop() and start().  stop() waits 5 s for the end
\* of a process, of one that it killed before too, and then kills it without
\* waiting.  Until it is reaped poll() is None: start() takes it for a server
\* that runs and returns, with no new process and the count as it was
RestartStops ==
    /\ monitor = "backoff"
    /\ \/ server' = "loading" /\ monitor' = "starting" /\ UNCHANGED futile
       \/ /\ server \in Unreaped /\ server' = "dying"
          /\ monitor' = "waiting" /\ futile' = futile + 1
    /\ UNCHANGED <<phase, running, restarts, crashes, conn, workVars, worldVars>>

\* Variant of RestartSucceeds: counts all restarts there ever were
RestartSucceedsCounting ==
    /\ monitor = "starting" /\ server = "up"
    /\ monitor' = "waiting" /\ futile' = 0
    /\ UNCHANGED <<phase, running, restarts, serverVars, conn, workVars, worldVars>>

RestartSucceeds ==
    /\ monitor = "starting" /\ server = "up"
    /\ monitor' = "waiting" /\ restarts' = 0 /\ futile' = 0
    /\ UNCHANGED <<phase, running, serverVars, conn, workVars, worldVars>>

\* _wait_for_health raises RuntimeError, or httpx does
RestartFails ==
    /\ monitor = "starting" /\ server # "up"
    /\ \/ monitor' = "abandoned" /\ running' = FALSE
       \/ server = "dead" /\ monitor' = "failed" /\ UNCHANGED running
    /\ UNCHANGED <<phase, restarts, futile, serverVars, conn, workVars, worldVars>>

-----------------------------------------------------------------------------
\* Variant of Exits: stops the server and leaves the monitor
ExitsWithMonitor ==
    /\ phase = "stopping" /\ phase' = "exited"
    /\ running' = FALSE
    /\ server' \in Stopped
    /\ task' = [w \in Work |-> IF task[w] = "none" THEN "none" ELSE "ended"]
    /\ UNCHANGED <<monitorVars, crashes, conn, active, answer, worldVars>>

\* finally of run: cancel the monitor and wait for it, stop the server; then
\* asyncio.run cancels what is left
Exits ==
    /\ phase = "stopping" /\ phase' = "exited"
    /\ running' = FALSE
    /\ monitor' = IF monitor \in MonitorOver THEN monitor ELSE "cancelled"
    /\ server' \in Stopped
    /\ task' = [w \in Work |-> IF task[w] = "none" THEN "none" ELSE "ended"]
    /\ UNCHANGED <<restarts, futile, crashes, conn, active, answer, worldVars>>

Interrupt ==
    /\ phase \notin {"stopping", "exited"}
    /\ phase' = "stopping" /\ interrupted' = TRUE
    /\ CancelAll
    /\ UNCHANGED <<running, monitorVars, serverVars, conn, coordinator, credential>>

\* The coordinator stops and starts, an operator revokes the credential
CoordinatorStops ==
    /\ coordinator = "up" /\ coordinator' = "down"
    /\ UNCHANGED <<phase, running, monitorVars, serverVars, conn, workVars, credential,
                   interrupted>>

CoordinatorStarts ==
    /\ coordinator = "down" /\ coordinator' = "up"
    /\ UNCHANGED <<phase, running, monitorVars, serverVars, conn, workVars, credential,
                   interrupted>>

Revoke ==
    /\ credential = "valid" /\ credential' = "revoked"
    /\ UNCHANGED <<phase, running, monitorVars, serverVars, conn, workVars, coordinator,
                   interrupted>>

\* What closes a connection that could go on, short of the bound
LosesLink(kind) == conn < MaxConns /\ Closes(kind)

AgentInit ==
    /\ phase = "starting" /\ running = TRUE
    /\ monitor = "none" /\ restarts = 0 /\ futile = 0
    /\ server = "loading" /\ crashes = 0
    /\ coordinator \in {"up", "down"} /\ credential = "valid"
    /\ conn = 0
    /\ task = [w \in Work |-> "none"]
    /\ active = [r \in Requests |-> 0]
    /\ answer = [w \in Work |-> "none"]
    /\ interrupted = FALSE

AgentNext ==
    \/ ServerLoads \/ ServerBreaks \/ ServerReaped
    \/ StartSucceeds \/ StartFails
    \/ Connect \/ ConnectFails \/ BackoffEnds
    \/ \E kind \in {"normal", "lost", "kicked"} : LosesLink(kind)
    \/ Closes("denied")
    \/ \E r \in Requests : Receive(r) \/ Cancel(r)
    \/ \E w \in Work : Finish(w) \/ Unwinds(w)
    \/ CheckStarts \/ CheckAnswers \/ CheckFails \/ CheckBreaks
    \/ RestartStops \/ RestartSucceeds \/ RestartFails
    \/ Exits \/ Interrupt
    \/ CoordinatorStops \/ CoordinatorStarts \/ Revoke

AgentSpec == AgentInit /\ [][AgentNext]_agentVars

\* The event loop runs what is ready and timers expire; a server that is
\* loading loads or breaks; a coordinator that runs closes a connection with
\* a revoked credential.  The environment owes nothing else.
AgentFairness ==
    /\ WF_agentVars(ServerLoads) /\ WF_agentVars(ServerReaped)
    /\ WF_agentVars(StartSucceeds) /\ WF_agentVars(StartFails)
    /\ WF_agentVars(Connect) /\ WF_agentVars(ConnectFails) /\ WF_agentVars(BackoffEnds)
    /\ WF_agentVars(coordinator = "up" /\ Closes("denied"))
    /\ \A w \in Work : WF_agentVars(Finish(w)) /\ WF_agentVars(Unwinds(w))
    /\ WF_agentVars(CheckStarts) /\ WF_agentVars(CheckAnswers)
    /\ WF_agentVars(CheckFails) /\ WF_agentVars(CheckBreaks)
    /\ WF_agentVars(RestartStops) /\ WF_agentVars(RestartSucceeds)
    /\ WF_agentVars(RestartFails)
    /\ WF_agentVars(Exits)

-----------------------------------------------------------------------------
\* When the agent is gone so is its server, also if the monitor was restarting
\* it at that moment (run, InferenceServerManager.stop).
ExitIsClean ==
    phase = "exited" => /\ server \notin Alive
                        /\ monitor \in MonitorOver
                        /\ \A w \in Work : task[w] \in {"none", "ended"}

\* The load in the heartbeats, which replaces the coordinator's own count, is
\* never kept up by a request that is over or of an earlier connection
\* (_heartbeat_loop; finally of _handle_request and of _connect_and_serve).
ReportedLoadIsReal ==
    \A r \in Requests : active[r] # 0 =>
        phase = "serving" /\ active[r] = conn /\ task[<<r, conn>>] = "running"

\* The limit of _max_restarts counts only the restarts in a row that found the
\* old process still there and started none: one that starts a process resets the
\* count if the server comes up and ends the supervision if it does not.
RestartsNeverAddUp == restarts <= futile + 1

\* A request that was cancelled, by message or by the end of its connection, gets
\* no answer from then on (except asyncio.CancelledError of _handle_request).
CancelledStaySilent ==
    [][\A w \in Work : task[w] = "cancelled" => answer'[w] = "none"]_agentVars

\* Every request that arrives is answered unless it is cancelled first
\* or its connection ends, whatever becomes of the server.
EveryRequestIsAnswered ==
    \A w \in Work : task[w] = "running" ~>
        (answer[w] # "none" \/ task[w] = "cancelled" \/ phase # "serving" \/ conn # w[2])

\* Once started, an agent with a good credential and a supervised server connects
\* again after each loss of its connection, a kick by an operator included: it
\* neither ends nor stays disconnected (PROV-001).
Reconnects ==
    monitor # "none" ~>
        \/ phase = "serving" \/ coordinator = "down"
        \/ credential = "revoked" \/ interrupted \/ monitor = "abandoned"

\* An agent whose credential was revoked ends once a coordinator can tell it.
RevokedAgentExits ==
    credential = "revoked" ~> phase = "exited" \/ coordinator = "down" \/ phase = "starting"

\* A server that died or hangs comes up again as long as the monitor lives
\* (_health_monitor).
ServerRecovers ==
    (server \notin {"loading", "up"} /\ monitor \notin MonitorOver) ~>
        (server = "up" \/ monitor \in MonitorOver)

\* The agent leaves nothing behind: no server, no answer, no load and no count.
AgentIsTidy ==
    /\ [](AgentTypeOK /\ ExitIsClean /\ ReportedLoadIsReal /\ RestartsNeverAddUp)
    /\ CancelledStaySilent

\* And it goes on working: requests, connection, server, and its end when it must.
AgentRecovers ==
    EveryRequestIsAnswered /\ Reconnects /\ RevokedAgentExits /\ ServerRecovers

=============================================================================
