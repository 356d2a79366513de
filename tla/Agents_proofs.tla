---------------------------- MODULE Agents_proofs -----------------------------
(***************************************************************************)
(* Proofs about the two ends of a request: the managed agent, for any      *)
(* number of requests, connections and crashes and any limit of restarts,  *)
(* the channel between a client and an agent, and the calls of the client  *)
(* libraries.                                                              *)
(*                                                                         *)
(* RestartCount is why restarts never add up: a start that works resets the *)
(* count, one that fails ends the monitor, and only one that finds the old *)
(* process still there leaves both as they are.                            *)
(***************************************************************************)
EXTENDS ProviderAgent, LegacyAgent, Telemetry, EndToEnd, ConsumerSdk, Throttles, FoldLemmas, FiniteSetTheorems,
        SequenceTheorems, TLAPS

-----------------------------------------------------------------------------
(* ProviderAgent                                                            *)

RestartCount ==
    /\ monitor = "none" => restarts = 0 /\ futile = 0
    /\ monitor \in {"waiting", "checking"} => restarts = futile
    /\ monitor \in {"backoff", "starting"} => restarts = futile + 1
    /\ monitor \notin MonitorOver => restarts <= MaxRestarts
    /\ restarts <= futile + 1

OpenAreUnanswered ==
    \A w \in Work : task[w] \in {"none", "running", "cancelled"} => answer[w] = "none"

AgentIInv == /\ AgentTypeOK /\ ExitIsClean /\ ReportedLoadIsReal /\ RestartCount
             /\ OpenAreUnanswered

USE AgentAssumption

-----------------------------------------------------------------------------
\* The initial states have the invariant (OCIPAgent.__init__, run).
LEMMA InitInv == AgentInit => AgentIInv
<1> SUFFICES ASSUME AgentInit PROVE AgentIInv
  OBVIOUS
<1>1. AgentTypeOK
  <2>1. /\ phase \in {"starting", "connecting", "serving", "backoff", "stopping", "exited"}
        /\ monitor \in MonitorOver \cup {"waiting", "checking", "backoff", "starting"}
        /\ server \in Unreaped \cup {"dead"}
        /\ running \in BOOLEAN /\ interrupted \in BOOLEAN
        /\ coordinator \in {"up", "down"} /\ credential \in {"valid", "revoked"}
    BY DEF AgentInit, MonitorOver, Unreaped, Alive
  <2>2. /\ restarts \in 0..(MaxRestarts + 1) /\ futile \in 0..MaxRestarts /\ crashes \in 0..MaxCrashes
        /\ conn \in 0..MaxConns /\ active \in [Requests -> 0..MaxConns]
    BY DEF AgentInit
  <2>3. /\ task \in [Work -> {"none", "running", "cancelled", "ended"}]
        /\ answer \in [Work -> {"none", "full", "empty", "error"}]
    BY DEF AgentInit
  <2> QED  BY <2>1, <2>2, <2>3 DEF AgentTypeOK
<1>2. ExitIsClean /\ ReportedLoadIsReal /\ OpenAreUnanswered
  BY DEF AgentInit, ExitIsClean, ReportedLoadIsReal, OpenAreUnanswered
<1>3. RestartCount
  BY DEF AgentInit, RestartCount
<1> QED  BY <1>1, <1>2, <1>3 DEF AgentIInv

\* The server's own steps.
LEMMA ServerSteps ==
    ASSUME AgentIInv, ServerLoads \/ ServerBreaks \/ ServerReaped
    PROVE  AgentIInv'
<1>1. UNCHANGED <<phase, running, monitor, restarts, futile, conn, task, active, answer,
                  coordinator, credential, interrupted>>
  BY DEF ServerLoads, ServerBreaks, ServerReaped, monitorVars, workVars, worldVars
<1>2. AgentTypeOK'
  BY <1>1 DEF AgentIInv, AgentTypeOK, ServerLoads, ServerBreaks, ServerReaped, Unreaped, Alive,
     serverVars
<1>3. server \notin Alive => server' \notin Alive
  BY DEF ServerLoads, ServerBreaks, ServerReaped, Alive
<1> QED
  BY <1>1, <1>2, <1>3 DEF AgentIInv, ExitIsClean, ReportedLoadIsReal, RestartCount,
     OpenAreUnanswered

\* The steps of run() that leave the requests alone.
LEMMA RunSteps ==
    ASSUME AgentIInv,
           StartSucceeds \/ StartFails \/ Connect \/ ConnectFails \/ BackoffEnds
    PROVE  AgentIInv'
<1>1. /\ UNCHANGED <<running, server, crashes, task, active, answer, coordinator,
                     credential, interrupted>>
      /\ phase \notin {"serving", "exited"} /\ phase' # "exited"
  BY DEF StartSucceeds, StartFails, Connect, ConnectFails, BackoffEnds, monitorVars,
     serverVars, workVars, worldVars
<1>2. \/ monitor' = "waiting" /\ restarts' = 0 /\ futile' = 0
      \/ UNCHANGED <<monitor, restarts, futile>>
  BY DEF StartSucceeds, StartFails, Connect, ConnectFails, BackoffEnds, monitorVars
<1>3. AgentTypeOK'
  <2>1. phase' \in {"connecting", "serving", "backoff", "stopping"}
    BY DEF StartSucceeds, StartFails, Connect, ConnectFails, BackoffEnds
  <2>2. conn' \in 0..MaxConns
    BY DEF StartSucceeds, StartFails, Connect, ConnectFails, BackoffEnds, AgentIInv,
       AgentTypeOK
  <2>3. /\ monitor' \in MonitorOver \cup {"waiting", "checking", "backoff", "starting"}
        /\ restarts' \in 0..(MaxRestarts + 1) /\ futile' \in 0..MaxRestarts
    BY <1>2 DEF AgentIInv, AgentTypeOK
  <2> QED  BY <1>1, <2>1, <2>2, <2>3 DEF AgentIInv, AgentTypeOK
<1>4. RestartCount'
  <2>1. CASE monitor' = "waiting" /\ restarts' = 0 /\ futile' = 0
    BY <2>1 DEF RestartCount
  <2>2. CASE UNCHANGED <<monitor, restarts, futile>>
    BY <1>1, <2>2 DEF AgentIInv, RestartCount
  <2> QED  BY <1>2, <2>1, <2>2
<1>5. \A r \in Requests : active[r] = 0
  BY <1>1 DEF AgentIInv, ReportedLoadIsReal
<1> QED
  BY <1>1, <1>3, <1>4, <1>5 DEF AgentIInv, ExitIsClean, ReportedLoadIsReal,
     OpenAreUnanswered

\* What the end of a connection does to the requests.
LEMMA CancelAllLemma ==
    ASSUME AgentIInv, CancelAll, phase' # "exited",
           UNCHANGED <<monitor, restarts, futile, server, crashes, conn, running>>,
           phase' \in {"connecting", "backoff", "stopping"},
           UNCHANGED <<coordinator, credential>>, interrupted' \in BOOLEAN
    PROVE  AgentIInv'
<1>1. /\ task' \in [Work -> {"none", "running", "cancelled", "ended"}]
      /\ \A w \in Work : task'[w] = IF w \in Tracked THEN "cancelled" ELSE task[w]
      /\ active' = [r \in Requests |-> 0] /\ answer' = answer
  BY DEF CancelAll, AgentIInv, AgentTypeOK
<1>2. AgentTypeOK'
  BY <1>1 DEF AgentIInv, AgentTypeOK
<1>3. OpenAreUnanswered'
  <2> SUFFICES ASSUME NEW w \in Work, task'[w] \in {"none", "running", "cancelled"}
               PROVE  answer[w] = "none"
    BY <1>1 DEF OpenAreUnanswered
  <2>1. CASE w \in Tracked
    <3>1. w[1] \in Requests /\ w[2] \in Conns /\ w = <<w[1], w[2]>>
      BY DEF Work
    <3>2. active[w[1]] # 0 /\ active[w[1]] = w[2]
      BY <2>1, <3>1 DEF Tracked, Conns
    <3>3. task[w] = "running"
      BY <3>1, <3>2 DEF AgentIInv, ReportedLoadIsReal
    <3> QED  BY <3>3 DEF AgentIInv, OpenAreUnanswered
  <2>2. CASE w \notin Tracked
    BY <1>1, <2>2 DEF AgentIInv, OpenAreUnanswered
  <2> QED  BY <2>1, <2>2
<1> QED
  BY <1>1, <1>2, <1>3 DEF AgentIInv, ExitIsClean, ReportedLoadIsReal, RestartCount

\* Closes and Ctrl-C.
LEMMA CloseSteps ==
    ASSUME AgentIInv,
           \/ \E kind \in {"normal", "lost", "kicked", "denied"} : Closes(kind)
           \/ Interrupt
    PROVE  AgentIInv'
<1>1. CASE \E kind \in {"normal", "lost", "kicked", "denied"} : Closes(kind)
  <2>1. PICK kind \in {"normal", "lost", "kicked", "denied"} : Closes(kind)
    BY <1>1
  <2>2. phase' \in {"connecting", "backoff", "stopping"} /\ interrupted' \in BOOLEAN
    BY <2>1 DEF Closes, AfterClose, worldVars, AgentIInv, AgentTypeOK
  <2>3. /\ CancelAll
        /\ UNCHANGED <<monitor, restarts, futile, server, crashes, conn, running, coordinator,
                       credential>>
    BY <2>1 DEF Closes, monitorVars, serverVars, worldVars
  <2> QED  BY <2>2, <2>3, CancelAllLemma
<1>2. CASE Interrupt
  BY <1>2, CancelAllLemma DEF Interrupt, monitorVars, serverVars
<1> QED  BY <1>1, <1>2

\* Requests arrive, are cancelled and end.
LEMMA WorkSteps ==
    ASSUME AgentIInv,
           \/ \E r \in Requests : Receive(r) \/ Cancel(r)
           \/ \E w \in Work : Finish(w) \/ Unwinds(w)
    PROVE  AgentIInv'
<1>0. AgentTypeOK /\ ReportedLoadIsReal /\ OpenAreUnanswered /\ ExitIsClean /\ RestartCount
  BY DEF AgentIInv
<1>1. UNCHANGED <<phase, running, monitor, restarts, futile, server, crashes, conn, coordinator,
                  credential, interrupted>>
  BY DEF Receive, Cancel, Finish, Unwinds, monitorVars, serverVars, worldVars
<1>2. RestartCount'
  BY <1>0, <1>1 DEF RestartCount
<1> DEFINE Goal == AgentTypeOK' /\ ReportedLoadIsReal' /\ OpenAreUnanswered' /\ ExitIsClean'
<1>3. ASSUME NEW r \in Requests, Receive(r) PROVE Goal
  <2>1. phase = "serving" /\ conn \in 0..MaxConns /\ answer' = answer
        /\ task' = [task EXCEPT ![<<r, conn>>] = "running"]
        /\ active' = [active EXCEPT ![r] = conn] /\ task[<<r, conn>>] = "none"
    BY <1>0, <1>3 DEF Receive, AgentTypeOK
  <2>2. AgentTypeOK'
    BY <1>0, <1>1, <2>1 DEF AgentTypeOK
  <2>3. OpenAreUnanswered' /\ ExitIsClean'
    BY <1>0, <1>1, <2>1 DEF OpenAreUnanswered, ExitIsClean, AgentTypeOK
  <2>4. ReportedLoadIsReal'
    <3> SUFFICES ASSUME NEW q \in Requests, active'[q] # 0
                 PROVE  active'[q] = conn /\ task'[<<q, conn>>] = "running"
      BY <1>1, <2>1 DEF ReportedLoadIsReal
    <3>1. <<q, conn>> \in Work
      BY <1>0, <1>1, <2>1 DEF ReportedLoadIsReal, AgentTypeOK, Work, Conns
    <3> QED  BY <1>0, <2>1, <3>1 DEF ReportedLoadIsReal, AgentTypeOK
  <2> QED  BY <2>2, <2>3, <2>4
<1>4. ASSUME NEW r \in Requests, Cancel(r) PROVE Goal
  <2>1. /\ answer' = answer /\ active' = [active EXCEPT ![r] = 0]
        /\ task' = [task EXCEPT ![<<r, conn>>] = "cancelled"]
        /\ task[<<r, conn>>] = "running" /\ phase = "serving"
    BY <1>0, <1>4 DEF Cancel, ReportedLoadIsReal
  <2>2. AgentTypeOK'
    <3>1. task' \in [Work -> {"none", "running", "cancelled", "ended"}]
      BY <1>0, <2>1 DEF AgentTypeOK
    <3>2. active' \in [Requests -> 0..MaxConns]
      BY <1>0, <2>1 DEF AgentTypeOK
    <3> QED  BY <1>0, <1>1, <2>1, <3>1, <3>2 DEF AgentTypeOK
  <2>3. OpenAreUnanswered' /\ ExitIsClean'
    <3>1. \A w \in Work : task'[w] = task[w] \/ (task[w] = "running" /\ w = <<r, conn>>)
      BY <1>0, <2>1 DEF AgentTypeOK
    <3> QED  BY <1>0, <1>1, <2>1, <3>1 DEF OpenAreUnanswered, ExitIsClean
  <2>4. ReportedLoadIsReal'
    BY <1>0, <1>1, <2>1 DEF ReportedLoadIsReal, AgentTypeOK
  <2> QED  BY <2>2, <2>3, <2>4
<1>5. ASSUME NEW w \in Work, Finish(w) \/ Unwinds(w) PROVE Goal
  <2>1. /\ w = <<w[1], w[2]>> /\ w[1] \in Requests
        /\ task' = [task EXCEPT ![w] = "ended"] /\ active' = [active EXCEPT ![w[1]] = 0]
        /\ \A v \in Work : v # w => answer'[v] = answer[v]
        /\ answer' \in [Work -> {"none", "full", "empty", "error"}]
    <3>1. w = <<w[1], w[2]>> /\ w[1] \in Requests
      BY DEF Work
    <3>2. task' = [task EXCEPT ![w] = "ended"] /\ active' = [active EXCEPT ![w[1]] = 0]
      BY <1>5 DEF Finish, Unwinds
    <3>3. answer' = answer \/ \E a \in {"full", "empty", "error"} :
            answer' = [answer EXCEPT ![w] = a]
      BY <1>5 DEF Finish, Unwinds, Reply
    <3>4. \A v \in Work : v # w => answer'[v] = answer[v]
      BY <1>0, <3>3 DEF AgentTypeOK
    <3>5. answer' \in [Work -> {"none", "full", "empty", "error"}]
      BY <1>0, <3>3 DEF AgentTypeOK
    <3> QED  BY <3>1, <3>2, <3>4, <3>5
  <2>2. AgentTypeOK'
    <3>1. task' \in [Work -> {"none", "running", "cancelled", "ended"}]
      BY <1>0, <2>1 DEF AgentTypeOK
    <3>2. active' \in [Requests -> 0..MaxConns]
      BY <1>0, <2>1 DEF AgentTypeOK
    <3> QED  BY <1>0, <1>1, <2>1, <3>1, <3>2 DEF AgentTypeOK
  <2>3. OpenAreUnanswered' /\ ExitIsClean'
    BY <1>0, <1>1, <2>1 DEF OpenAreUnanswered, ExitIsClean, AgentTypeOK
  <2>4. ReportedLoadIsReal'
    <3> SUFFICES ASSUME NEW q \in Requests, active'[q] # 0
                 PROVE  /\ phase = "serving" /\ active'[q] = conn
                        /\ task'[<<q, conn>>] = "running"
      BY <1>1 DEF ReportedLoadIsReal
    <3>1. q # w[1] /\ active'[q] = active[q] /\ active[q] # 0
      BY <1>0, <2>1 DEF AgentTypeOK
    <3>2. <<q, conn>> # w
      BY <2>1, <3>1
    <3> QED  BY <1>0, <2>1, <3>1, <3>2 DEF ReportedLoadIsReal, AgentTypeOK
  <2> QED  BY <2>2, <2>3, <2>4
<1> QED  BY <1>2, <1>3, <1>4, <1>5 DEF AgentIInv

\* The health monitor.
LEMMA MonitorSteps ==
    ASSUME AgentIInv,
           \/ CheckStarts \/ CheckAnswers \/ CheckFails \/ CheckBreaks
           \/ RestartStops \/ RestartSucceeds \/ RestartFails
    PROVE  AgentIInv'
<1>0. AgentTypeOK /\ ReportedLoadIsReal /\ OpenAreUnanswered /\ ExitIsClean /\ RestartCount
  BY DEF AgentIInv
<1>1. /\ UNCHANGED <<phase, conn, task, active, answer, coordinator, credential, interrupted,
                     crashes>>
      /\ monitor \notin MonitorOver
  BY DEF CheckStarts, CheckAnswers, CheckFails, CheckBreaks, RestartStops, RestartSucceeds,
     RestartFails, serverVars, workVars, worldVars, MonitorOver
<1>2. ExitIsClean' /\ ReportedLoadIsReal' /\ OpenAreUnanswered'
  BY <1>0, <1>1 DEF ExitIsClean, ReportedLoadIsReal, OpenAreUnanswered
<1>3. /\ restarts \in Nat /\ restarts <= MaxRestarts
      /\ futile \in Nat /\ futile <= MaxRestarts /\ server \in Unreaped \cup {"dead"}
  BY <1>0, <1>1 DEF AgentTypeOK, RestartCount
<1>4. ASSUME monitor' \in MonitorOver \cup {"waiting", "checking", "backoff", "starting"},
             restarts' \in {0, restarts, restarts + 1}, running' \in BOOLEAN,
             futile' \in 0..MaxRestarts, server' \in Unreaped \cup {"dead"}
      PROVE  AgentTypeOK'
  <2>1. restarts' \in 0..(MaxRestarts + 1)
    BY <1>3, <1>4
  <2> QED  BY <1>0, <1>1, <1>4, <2>1 DEF AgentTypeOK
<1> DEFINE Goal == AgentTypeOK' /\ RestartCount'
<1>5. ASSUME UNCHANGED server, Unhealthy, monitor \in {"waiting", "checking"} PROVE Goal
  <2>1. restarts' = restarts + 1 /\ futile' = futile /\ restarts = futile
    BY <1>0, <1>5 DEF Unhealthy, RestartCount
  <2>2. CASE restarts + 1 > MaxRestarts
    <3>1. monitor' = "abandoned" /\ running' = FALSE
      BY <1>5, <2>2 DEF Unhealthy
    <3>2. AgentTypeOK'
      <4>1. futile' \in 0..MaxRestarts
        BY <1>3, <2>1
      <4>2. server' \in Unreaped \cup {"dead"}
        BY <1>3, <1>5
      <4> QED  BY <1>4, <2>1, <3>1, <4>1, <4>2 DEF MonitorOver
    <3>3. restarts' <= futile' + 1
      BY <1>3, <2>1
    <3>4. RestartCount'
      BY <3>1, <3>3 DEF RestartCount, MonitorOver
    <3> QED  BY <3>2, <3>4
  <2>3. CASE ~(restarts + 1 > MaxRestarts)
    <3>1. monitor' = "backoff" /\ running' = running
      BY <1>5, <2>3 DEF Unhealthy
    <3>2. AgentTypeOK'
      BY <1>0, <1>3, <1>4, <1>5, <2>1, <3>1 DEF AgentTypeOK
    <3>3. restarts' <= MaxRestarts /\ restarts' = futile' + 1 /\ restarts' <= futile' + 1
      BY <1>3, <2>1, <2>3
    <3>4. RestartCount'
      BY <3>1, <3>3 DEF RestartCount
    <3> QED  BY <3>2, <3>4
  <2> QED  BY <2>2, <2>3
<1>6. ASSUME CheckStarts PROVE Goal
  <2>1. monitor = "waiting" /\ server' = server
    BY <1>6 DEF CheckStarts, serverVars
  <2>2. CASE monitor' = "checking" /\ UNCHANGED <<running, restarts, futile>>
    <3>1. AgentTypeOK'
      BY <1>0, <1>3, <1>4, <2>1, <2>2 DEF AgentTypeOK
    <3>2. RestartCount'
      BY <1>0, <1>3, <2>1, <2>2 DEF RestartCount
    <3> QED  BY <3>1, <3>2
  <2>3. CASE Unhealthy
    BY <1>5, <2>1, <2>3
  <2> QED  BY <1>6, <2>2, <2>3 DEF CheckStarts
<1>7. ASSUME CheckAnswers \/ CheckBreaks PROVE Goal
  <2>1. /\ monitor = "checking" /\ monitor' \in {"waiting", "failed"}
        /\ UNCHANGED <<running, restarts, futile, server>>
    BY <1>7 DEF CheckAnswers, CheckBreaks, serverVars
  <2>2. AgentTypeOK'
    BY <1>0, <1>3, <1>4, <2>1 DEF AgentTypeOK, MonitorOver
  <2>3. RestartCount'
    BY <1>0, <1>3, <2>1 DEF RestartCount, MonitorOver
  <2> QED  BY <2>2, <2>3
<1>8. ASSUME CheckFails PROVE Goal
  <2>1. monitor = "checking" /\ server' = server /\ Unhealthy
    BY <1>8 DEF CheckFails, serverVars
  <2> QED  BY <1>5, <2>1
<1>9. ASSUME RestartStops PROVE Goal
  <2>1. monitor = "backoff" /\ UNCHANGED <<running, restarts>> /\ restarts = futile + 1
    BY <1>0, <1>9 DEF RestartStops, RestartCount
  <2>2. CASE server' = "loading" /\ monitor' = "starting" /\ futile' = futile
    <3>1. AgentTypeOK'
      BY <1>0, <1>3, <1>4, <2>1, <2>2 DEF AgentTypeOK, Unreaped, Alive
    <3>2. RestartCount'
      BY <1>3, <2>1, <2>2 DEF RestartCount
    <3> QED  BY <3>1, <3>2
  <2>3. CASE server' = "dying" /\ monitor' = "waiting" /\ futile' = futile + 1
    <3>1. futile' \in 0..MaxRestarts /\ restarts' = futile' /\ restarts' <= futile' + 1
      BY <1>3, <2>1, <2>3
    <3>2. AgentTypeOK'
      BY <1>0, <1>3, <1>4, <2>1, <2>3, <3>1 DEF AgentTypeOK, Unreaped
    <3>3. RestartCount'
      BY <1>3, <2>1, <2>3, <3>1 DEF RestartCount
    <3> QED  BY <3>2, <3>3
  <2> QED  BY <1>9, <2>2, <2>3 DEF RestartStops
<1>10. ASSUME RestartSucceeds PROVE Goal
  <2>1. /\ monitor' = "waiting" /\ restarts' = 0 /\ futile' = 0
        /\ UNCHANGED <<running, server>>
    BY <1>10 DEF RestartSucceeds, serverVars
  <2>2. AgentTypeOK'
    BY <1>0, <1>3, <1>4, <2>1 DEF AgentTypeOK
  <2>3. RestartCount'
    BY <2>1 DEF RestartCount
  <2> QED  BY <2>2, <2>3
<1>11. ASSUME RestartFails PROVE Goal
  <2>1. /\ monitor' \in {"abandoned", "failed"} /\ UNCHANGED <<restarts, futile, server>>
        /\ running' = FALSE \/ running' = running
    BY <1>11 DEF RestartFails, serverVars
  <2>2. AgentTypeOK'
    BY <1>0, <1>3, <1>4, <2>1 DEF AgentTypeOK, MonitorOver
  <2>3. RestartCount'
    BY <1>0, <2>1 DEF RestartCount, MonitorOver
  <2> QED  BY <2>2, <2>3
<1> QED
  BY <1>2, <1>6, <1>7, <1>8, <1>9, <1>10, <1>11 DEF AgentIInv

\* The end of run(), and the world outside.
LEMMA OtherSteps ==
    ASSUME AgentIInv, Exits \/ CoordinatorStops \/ CoordinatorStarts \/ Revoke
    PROVE  AgentIInv'
<1>1. CASE Exits
  <2>1. server' \in {"dying", "dead"}
    BY <1>1 DEF Exits, Stopped, AgentIInv, AgentTypeOK, Unreaped
  <2>2. AgentTypeOK'
    BY <1>1, <2>1 DEF Exits, AgentIInv, AgentTypeOK, MonitorOver, Unreaped, worldVars
  <2>3. ExitIsClean'
    BY <1>1, <2>1 DEF Exits, ExitIsClean, Alive, MonitorOver
  <2>4. ReportedLoadIsReal'
    BY <1>1 DEF Exits, AgentIInv, ReportedLoadIsReal
  <2>5. RestartCount'
    BY <1>1, <2>1 DEF Exits, AgentIInv, RestartCount, MonitorOver
  <2>6. OpenAreUnanswered'
    BY <1>1 DEF Exits, AgentIInv, OpenAreUnanswered
  <2> QED  BY <2>2, <2>3, <2>4, <2>5, <2>6 DEF AgentIInv
<1>2. CASE CoordinatorStops \/ CoordinatorStarts \/ Revoke
  BY <1>2 DEF CoordinatorStops, CoordinatorStarts, Revoke, AgentIInv, AgentTypeOK,
     ExitIsClean, ReportedLoadIsReal, RestartCount, OpenAreUnanswered, monitorVars,
     serverVars, workVars
<1> QED  BY <1>1, <1>2

\* Every step preserves the invariant.
LEMMA StepInv == AgentIInv /\ [AgentNext]_agentVars => AgentIInv'
<1> SUFFICES ASSUME AgentIInv, [AgentNext]_agentVars PROVE AgentIInv'
  OBVIOUS
<1>1. CASE agentVars' = agentVars
  BY <1>1 DEF agentVars, AgentIInv, AgentTypeOK, ExitIsClean, ReportedLoadIsReal,
     RestartCount, OpenAreUnanswered
<1>2. CASE AgentNext
  BY <1>2, ServerSteps, RunSteps, CloseSteps, WorkSteps, MonitorSteps, OtherSteps
     DEF AgentNext, LosesLink
<1> QED  BY <1>1, <1>2

\* The inductive invariant holds throughout.
LEMMA AlwaysIInv == AgentSpec => []AgentIInv
BY InitInv, StepInv, PTL DEF AgentSpec

\* The state of the agent has its type.
THEOREM TypeCorrect == AgentSpec => []AgentTypeOK
<1>1. AgentIInv => AgentTypeOK
  BY DEF AgentIInv
<1> QED  BY <1>1, AlwaysIInv, PTL

\* The agent takes its server and its monitor with it (run).
THEOREM ExitIsCleanHolds == AgentSpec => []ExitIsClean
<1>1. AgentIInv => ExitIsClean
  BY DEF AgentIInv
<1> QED  BY <1>1, AlwaysIInv, PTL

\* No entry of _active_requests outlives its request (_heartbeat_loop).
THEOREM ReportedLoadIsRealHolds == AgentSpec => []ReportedLoadIsReal
<1>1. AgentIInv => ReportedLoadIsReal
  BY DEF AgentIInv
<1> QED  BY <1>1, AlwaysIInv, PTL

\* The limit of restarts counts only those in a row that found the old process
\* still there and started none (restart, start, stop).
THEOREM RestartsNeverAddUpHolds == AgentSpec => []RestartsNeverAddUp
<1>1. AgentIInv => RestartsNeverAddUp
  BY DEF AgentIInv, RestartCount, RestartsNeverAddUp
<1> QED  BY <1>1, AlwaysIInv, PTL

\* A cancelled request gets no answer (_handle_request).
THEOREM CancelledStaySilentHolds == AgentSpec => CancelledStaySilent
<1>1. AgentIInv /\ [AgentNext]_agentVars =>
        [\A w \in Work : task[w] = "cancelled" => answer'[w] = "none"]_agentVars
  <2> SUFFICES ASSUME AgentIInv, AgentNext, NEW w \in Work, task[w] = "cancelled"
               PROVE  answer'[w] = "none"
    OBVIOUS
  <2>1. answer[w] = "none" /\ answer \in [Work -> {"none", "full", "empty", "error"}]
    BY DEF AgentIInv, OpenAreUnanswered, AgentTypeOK
  <2>2. CASE answer' = answer
    BY <2>1, <2>2
  <2>3. CASE \E v \in Work : Finish(v)
    BY <2>1, <2>3 DEF Finish
  <2> QED
    BY <2>2, <2>3 DEF AgentNext, ServerLoads, ServerBreaks, ServerReaped, StartSucceeds,
       StartFails, Connect, ConnectFails, BackoffEnds, LosesLink, Closes, CancelAll, Receive,
       Cancel, Unwinds, CheckStarts, CheckAnswers, CheckFails, CheckBreaks, RestartStops,
       RestartSucceeds, RestartFails, Exits, Interrupt, CoordinatorStops, CoordinatorStarts,
       Revoke, workVars
<1> QED  BY <1>1, AlwaysIInv, PTL DEF AgentSpec, CancelledStaySilent

\* The agent leaves nothing behind, whatever dies and whenever.
THEOREM AgentIsTidyHolds == AgentSpec => AgentIsTidy
BY TypeCorrect, ExitIsCleanHolds, ReportedLoadIsRealHolds,
   RestartsNeverAddUpHolds, CancelledStaySilentHolds, PTL DEF AgentIsTidy

-----------------------------------------------------------------------------
(* LegacyAgent                                                              *)

LegacyIInv == LegacyTypeOK /\ IsFiniteSet(Running) /\ CounterIsExact

LEMMA LegacyStarts == LegacyInit => LegacyIInv
<1> SUFFICES ASSUME LegacyInit PROVE LegacyIInv
  OBVIOUS
<1>1. Running = {}
  BY DEF LegacyInit, Running
<1>2. LegacyTypeOK
  BY LegacyAssumption DEF LegacyInit, LegacyTypeOK
<1>3. QED
  BY <1>1, <1>2, FS_EmptySet DEF LegacyInit, LegacyIInv, CounterIsExact

LEMMA LegacySteps == ASSUME LegacyIInv, [LegacyNext]_legacyVars PROVE LegacyIInv'
<1>1. ASSUME NEW j \in Jobs, LegacyReceives(j) PROVE LegacyIInv'
  <2>1. /\ job' = [job EXCEPT ![j] = [stage |-> "running", link |-> links]]
        /\ inFlight' = inFlight + 1 /\ job[j].stage = "new" /\ UNCHANGED <<lphase, links, reported, told>>
    BY <1>1 DEF LegacyReceives
  <2>2. LegacyTypeOK'
    BY <2>1 DEF LegacyIInv, LegacyTypeOK
  <2>3. \A k \in Jobs : job'[k] = IF k = j THEN [stage |-> "running", link |-> links] ELSE job[k]
    BY <2>1 DEF LegacyIInv, LegacyTypeOK
  <2>4. Running' = Running \union {j} /\ j \notin Running
    BY <2>1, <2>3 DEF Running
  <2>5. QED
    BY <2>1, <2>2, <2>4, FS_AddElement DEF LegacyIInv, CounterIsExact
<1>2. ASSUME NEW j \in Jobs, LegacyFinishes(j) PROVE LegacyIInv'
  <2>1. /\ job' = [job EXCEPT ![j].stage = "over"] /\ job[j].stage = "running"
        /\ inFlight' = inFlight - 1 /\ UNCHANGED <<lphase, links, reported>>
    BY <1>2 DEF LegacyFinishes
  <2>2. \A k \in Jobs : job'[k].stage = IF k = j THEN "over" ELSE job[k].stage
    BY <2>1 DEF LegacyIInv, LegacyTypeOK
  <2>3. Running' = Running \ {j} /\ j \in Running
    BY <2>1, <2>2 DEF Running
  <2>4. /\ Cardinality(Running) \in Nat /\ Cardinality(Running') \in Nat /\ IsFiniteSet(Running')
        /\ Cardinality(Running') = Cardinality(Running) - 1
    BY <2>3, FS_RemoveElement, FS_CardinalityType DEF LegacyIInv
  <2>5. inFlight' = Cardinality(Running') /\ inFlight' \in Nat
    BY <2>1, <2>4 DEF LegacyIInv, CounterIsExact
  <2>6. told' \in [Jobs -> {"none", "done", "error"}]
    BY <1>2 DEF LegacyFinishes, LegacyIInv, LegacyTypeOK
  <2>7. job' \in [Jobs -> [stage : {"new", "running", "over"}, link : 0..MaxLinks]]
    BY <2>1 DEF LegacyIInv, LegacyTypeOK
  <2>8. QED
    BY <2>1, <2>4, <2>5, <2>6, <2>7 DEF LegacyIInv, LegacyTypeOK, CounterIsExact
<1>3. CASE LegacyConnects \/ LegacyCloses \/ LegacyConnectFails \/ LegacyBackoffEnds \/ LegacyBeats
           \/ UNCHANGED legacyVars
  <2>1. UNCHANGED <<job, inFlight, told>>
    BY <1>3 DEF LegacyConnects, LegacyCloses, LegacyConnectFails, LegacyBackoffEnds, LegacyBeats, legacyVars
  <2>2. LegacyTypeOK'
    BY <1>3, LegacyAssumption DEF LegacyConnects, LegacyCloses, LegacyConnectFails, LegacyBackoffEnds, LegacyBeats,
              legacyVars, LegacyIInv, LegacyTypeOK
  <2>3. Running' = Running
    BY <2>1 DEF Running
  <2>4. QED
    BY <2>1, <2>2, <2>3 DEF LegacyIInv, CounterIsExact
<1>4. QED
  BY <1>1, <1>2, <1>3 DEF LegacyNext

(* The counter of the legacy agent is the number of requests that run.       *)
THEOREM LegacyLoadAlwaysTrue == LegacySpec => []LegacyLoadIsTrue
<1>1. LegacyIInv => LegacyLoadIsTrue
  BY DEF LegacyIInv, LegacyLoadIsTrue
<1>2. QED
  BY <1>1, LegacyStarts, LegacySteps, PTL DEF LegacySpec

-----------------------------------------------------------------------------
(* Telemetry                                                                *)

Occurrences == [number : Nat, request : RequestIds \union {NoRequest}]
Seen == [number : Nat]
Feeds == [phase : {"on", "gone"}, queue : Seq(Occurrences), got : Seq(Seen), since : Nat]

\* What a feed has got, then what waits, next to all that was published
Follows(got, queue, since, all) ==
    /\ Len(got) + Len(queue) = Len(all) - since
    /\ \A i \in 1..Len(got) : got[i] = Public(all[since + i])
    /\ \A i \in 1..Len(queue) : queue[i] = all[Len(all) - Len(queue) + i]

\* What is queued and got covers what is due, of which that was sent
Covering(got, queue, due, sent) ==
    /\ queue = LastOf(due, Len(queue))
    /\ Len(got) = Len(sent)
    /\ \A i \in DOMAIN sent : got[i] = [number |-> sent[i].number]

FeedFollows(f, all) == f = Off \/ (f \in Feeds /\ Follows(f.got, f.queue, f.since, all))

AuditLines == [run : Nat, seq : Nat, prev : Nat \X Nat]

\* The next line's hash is that of the last one of this run that got its number
LinesAreCounted ==
    /\ auditFile \in Seq(AuditLines) /\ auditSeq \in Nat
    /\ auditLast = IF auditSeq = 0 THEN Genesis ELSE <<run, auditSeq>>
    /\ \A i \in 1..Len(auditFile) : /\ auditFile[i].run \in 1..run
                                    /\ auditFile[i].run = run => auditFile[i].seq \in 1..auditSeq

TelemetryIInv ==
    /\ published \in Seq(Occurrences) /\ feeds \in [Clients -> Feeds \union {Off}]
    /\ TelemetryTypeOK /\ LinesAreCounted /\ LostLinesShow
    /\ \A c \in Clients : FeedFollows(feeds[c], published)

\* The end of a sequence, of at most n elements
IsEnding(t, s, n) ==
    /\ Len(t) = IF Len(s) > n THEN n ELSE Len(s)
    /\ \A i \in 1..Len(t) : t[i] = s[Len(s) - Len(t) + i]

LEMMA LastOfFacts ==
  ASSUME NEW T, NEW s \in Seq(T), NEW n \in Nat
  PROVE  LastOf(s, n) \in Seq(T) /\ IsEnding(LastOf(s, n), s, n)
<1>1. CASE Len(s) > n
  <2>1. LastOf(s, n) = SubSeq(s, Len(s) - n + 1, Len(s)) /\ Len(s) \in Nat
    BY <1>1 DEF LastOf
  <2>2. SubSeq(s, Len(s) - n + 1, Len(s)) \in Seq(T) /\ Len(SubSeq(s, Len(s) - n + 1, Len(s))) = n
        /\ \A i \in 1..n : SubSeq(s, Len(s) - n + 1, Len(s))[i] = s[Len(s) - n + i]
    BY <1>1, <2>1
  <2>3. QED
    BY <1>1, <2>1, <2>2 DEF IsEnding
<1>2. CASE ~(Len(s) > n)
  BY <1>2 DEF LastOf, IsEnding
<1>3. QED
  BY <1>1, <1>2

IsBeginning(t, s, k) == Len(t) = k /\ DOMAIN t = 1..k /\ \A i \in 1..k : t[i] = s[i]

LEMMA BeginningFacts ==
  ASSUME NEW T, NEW s \in Seq(T), NEW k \in 0..Len(s), NEW t, t = SubSeq(s, 1, k)
  PROVE  t \in Seq(T) /\ IsBeginning(t, s, k)
<1>1. Len(s) \in Nat /\ k \in Nat
  OBVIOUS
<1>2. t \in Seq(T) /\ Len(t) = k
  BY <1>1
<1>3. DOMAIN t = 1..k
  BY <1>2
<1>4. \A i \in 1..k : t[i] = s[i]
  BY <1>1
<1>5. QED
  BY <1>2, <1>3, <1>4 DEF IsBeginning

LEMMA SameSequence ==
  ASSUME NEW T, NEW s \in Seq(T), NEW t \in Seq(T), Len(s) = Len(t), \A i \in 1..Len(s) : s[i] = t[i]
  PROVE  s = t
OBVIOUS

(* The history goes on being the end of what was published.                  *)
LEMMA LastOfNext ==
  ASSUME NEW T, NEW s \in Seq(T), NEW e \in T, NEW n \in Nat \ {0}
  PROVE  LastOf(Append(LastOf(s, n), e), n) = LastOf(Append(s, e), n)
<1> DEFINE old == LastOf(s, n)
           longer == Append(old, e)
           all == Append(s, e)
           left == LastOf(longer, n)
           right == LastOf(all, n)
<1>1. /\ old \in Seq(T) /\ Len(old) = IF Len(s) > n THEN n ELSE Len(s)
      /\ \A i \in 1..Len(old) : old[i] = s[Len(s) - Len(old) + i]
  <2>1. old \in Seq(T) /\ IsEnding(old, s, n)
    BY LastOfFacts
  <2>2. QED
    BY <2>1 DEF IsEnding
<1>2. Len(s) \in Nat
  OBVIOUS
<1>3. /\ all \in Seq(T) /\ Len(all) = Len(s) + 1
      /\ \A i \in 1..(Len(s) + 1) : all[i] = IF i = Len(s) + 1 THEN e ELSE s[i]
  OBVIOUS
<1> HIDE DEF old
<1>4. Len(old) \in Nat
  BY <1>1
<1>5. /\ longer \in Seq(T) /\ Len(longer) = Len(old) + 1
      /\ \A i \in 1..(Len(old) + 1) : longer[i] = IF i = Len(old) + 1 THEN e ELSE old[i]
  BY <1>1
<1> HIDE DEF longer, all
<1>6. /\ left \in Seq(T) /\ Len(left) = IF Len(longer) > n THEN n ELSE Len(longer)
      /\ \A i \in 1..Len(left) : left[i] = longer[Len(longer) - Len(left) + i]
  <2>1. left \in Seq(T) /\ IsEnding(left, longer, n)
    BY <1>5, LastOfFacts
  <2>2. QED
    BY <2>1 DEF IsEnding
<1>7. /\ right \in Seq(T) /\ Len(right) = IF Len(all) > n THEN n ELSE Len(all)
      /\ \A i \in 1..Len(right) : right[i] = all[Len(all) - Len(right) + i]
  <2>1. right \in Seq(T) /\ IsEnding(right, all, n)
    BY <1>3, LastOfFacts
  <2>2. QED
    BY <2>1 DEF IsEnding
<1> HIDE DEF left, right
<1>8. Len(left) = Len(right) /\ Len(left) \in 1..(Len(old) + 1) /\ Len(old) <= Len(s)
  BY <1>1, <1>2, <1>3, <1>4, <1>5, <1>6, <1>7
<1>9. ASSUME NEW i \in 1..Len(left) PROVE left[i] = right[i]
  <2> DEFINE k == Len(old) + 1 - Len(left) + i
             j == Len(s) + 1 - Len(left) + i
  <2>1. Len(longer) - Len(left) + i = k /\ Len(all) - Len(right) + i = j
    BY <1>3, <1>5, <1>8
  <2>2. left[i] = longer[Len(longer) - Len(left) + i]
    BY <1>6
  <2>3. right[i] = all[Len(all) - Len(right) + i]
    BY <1>7, <1>8
  <2> HIDE DEF k, j
  <2>4. left[i] = longer[k]
    BY <2>1, <2>2
  <2>5. right[i] = all[j]
    BY <2>1, <2>3
  <2>6. CASE i = Len(left)
    <3>1. k = Len(old) + 1 /\ j = Len(s) + 1
      BY <1>2, <1>4, <1>8, <2>6 DEF k, j
    <3>2. longer[k] = e /\ all[j] = e
      BY <1>2, <1>3, <1>4, <1>5, <3>1
    <3>3. QED
      BY <2>5, <2>4, <3>2
  <2>7. CASE i # Len(left)
    <3>1. k \in 1..Len(old) /\ j = Len(s) - Len(old) + k /\ j \in 1..Len(s)
      BY <1>2, <1>4, <1>8, <2>7 DEF k, j
    <3>2. longer[k] = old[k]
      BY <1>4, <1>5, <3>1
    <3>3. all[j] = s[j]
      BY <1>2, <1>3, <3>1
    <3>4. QED
      BY <1>1, <2>5, <2>4, <3>1, <3>2, <3>3
  <2>8. QED
    BY <2>6, <2>7
<1>10. left = right
  BY <1>6, <1>7, <1>8, <1>9, SameSequence
<1>11. QED
  BY <1>10 DEF left, right, old, longer, all

LEMMA TelemetryStarts == TelemetryInit => TelemetryIInv
<1> SUFFICES ASSUME TelemetryInit PROVE TelemetryIInv
  OBVIOUS
<1>1. <<>> \in Seq(Occurrences) /\ <<>> \in Seq(AuditLines) /\ Len(<<>>) = 0
      /\ LastOf(<<>>, MaxHistory) = <<>>
  BY TelemetryAssumption DEF LastOf
<1>2. QED
  BY <1>1, TelemetryAssumption
     DEF TelemetryInit, TelemetryIInv, TelemetryTypeOK, LinesAreCounted, LostLinesShow, FeedFollows

LEMMA OffIsNoFeed == Off \notin Feeds
BY DEF Off, Feeds

LEMMA PublicIsSeen == ASSUME NEW e \in Occurrences PROVE Public(e) \in Seen
BY DEF Public, Occurrences, Seen

(* A feed gets the next event after the others.                              *)
LEMMA FollowsGrows ==
  ASSUME NEW got \in Seq(Seen), NEW queue \in Seq(Occurrences), NEW since \in Nat,
         NEW all \in Seq(Occurrences), NEW e \in Occurrences, Follows(got, queue, since, all)
  PROVE  Follows(got, Append(queue, e), since, Append(all, e))
<1> DEFINE n == Len(all)
           m == Len(queue)
           k == Len(got)
           longer == Append(all, e)
           q == Append(queue, e)
<1>1. n \in Nat /\ m \in Nat /\ k \in Nat
  OBVIOUS
<1>2. k + m = n - since
  BY DEF Follows
<1>3. \A i \in 1..k : got[i] = Public(all[since + i])
  BY DEF Follows
<1>4. \A i \in 1..m : queue[i] = all[n - m + i]
  BY DEF Follows
<1>5. Len(longer) = n + 1 /\ \A i \in 1..(n + 1) : longer[i] = IF i = n + 1 THEN e ELSE all[i]
  OBVIOUS
<1>6. Len(q) = m + 1 /\ \A i \in 1..(m + 1) : q[i] = IF i = m + 1 THEN e ELSE queue[i]
  OBVIOUS
<1> HIDE DEF n, m, k, longer, q
<1>7. k + Len(q) = Len(longer) - since
  BY <1>1, <1>2, <1>5, <1>6
<1>8. ASSUME NEW i \in 1..k PROVE got[i] = Public(longer[since + i])
  <2>1. since + i \in 1..n /\ since + i # n + 1 /\ since + i \in 1..(n + 1)
    BY <1>1, <1>2
  <2>2. longer[since + i] = all[since + i]
    BY <1>5, <2>1
  <2>3. QED
    BY <1>3, <2>2
<1>9. ASSUME NEW i \in 1..Len(q) PROVE q[i] = longer[Len(longer) - Len(q) + i]
  <2> DEFINE j == n - m + i
  <2>1. i \in 1..(m + 1) /\ Len(longer) - Len(q) + i = j /\ j \in 1..(n + 1)
    BY <1>1, <1>2, <1>5, <1>6
  <2>2. CASE i = m + 1
    <3>1. j = n + 1
      BY <1>1, <2>2
    <3> HIDE DEF j
    <3>2. QED
      BY <1>5, <1>6, <2>1, <2>2, <3>1
  <2>3. CASE i # m + 1
    <3>1. i \in 1..m /\ j # n + 1
      BY <1>1, <2>1, <2>3
    <3>2. queue[i] = all[j]
      BY <1>4, <3>1
    <3> HIDE DEF j
    <3>3. QED
      BY <1>5, <1>6, <2>1, <2>3, <3>1, <3>2
  <2>4. QED
    BY <2>2, <2>3
<1>10. QED
  BY <1>7, <1>8, <1>9 DEF Follows, longer, q, k

(* Forwarding moves the next event from what waits to what was got.          *)
LEMMA FollowsForward ==
  ASSUME NEW got \in Seq(Seen), NEW queue \in Seq(Occurrences), NEW since \in Nat,
         NEW all \in Seq(Occurrences), Follows(got, queue, since, all), queue # <<>>
  PROVE  /\ Append(got, Public(Head(queue))) \in Seq(Seen) /\ Tail(queue) \in Seq(Occurrences)
         /\ Follows(Append(got, Public(Head(queue))), Tail(queue), since, all)
<1> DEFINE n == Len(all)
           m == Len(queue)
           k == Len(got)
           p == Public(Head(queue))
           more == Append(got, p)
           rest == Tail(queue)
<1>1. n \in Nat /\ m \in Nat /\ k \in Nat /\ m > 0 /\ Head(queue) = queue[1] /\ queue[1] \in Occurrences
  OBVIOUS
<1>2. k + m = n - since
  BY DEF Follows
<1>3. \A i \in 1..k : got[i] = Public(all[since + i])
  BY DEF Follows
<1>4. \A i \in 1..m : queue[i] = all[n - m + i]
  BY DEF Follows
<1>5. p \in Seen
  BY <1>1, PublicIsSeen
<1>6. rest \in Seq(Occurrences) /\ Len(rest) = m - 1 /\ \A i \in 1..(m - 1) : rest[i] = queue[i + 1]
  OBVIOUS
<1>7. p = Public(queue[1])
  BY <1>1
<1> HIDE DEF p
<1>8. more \in Seq(Seen) /\ Len(more) = k + 1 /\ \A i \in 1..(k + 1) : more[i] = IF i = k + 1 THEN p ELSE got[i]
  BY <1>5
<1> HIDE DEF n, m, k, more, rest
<1>9. p = Public(all[since + (k + 1)])
  <2>1. 1 \in 1..m /\ n - m + 1 = since + (k + 1)
    BY <1>1, <1>2
  <2>2. QED
    BY <1>4, <1>7, <2>1
<1>10. Len(more) + Len(rest) = n - since
  BY <1>1, <1>2, <1>6, <1>8
<1>11. ASSUME NEW i \in 1..Len(more) PROVE more[i] = Public(all[since + i])
  <2>1. CASE i = k + 1
    BY <1>1, <1>8, <1>9, <2>1
  <2>2. CASE i # k + 1
    <3>1. i \in 1..k /\ i \in 1..(k + 1)
      BY <1>1, <1>8, <2>2
    <3>2. QED
      BY <1>3, <1>8, <2>2, <3>1
  <2>3. QED
    BY <2>1, <2>2
<1>12. ASSUME NEW i \in 1..Len(rest) PROVE rest[i] = all[n - Len(rest) + i]
  <2>1. i \in 1..(m - 1) /\ i + 1 \in 1..m /\ n - Len(rest) + i = n - m + (i + 1)
    BY <1>1, <1>6
  <2>2. QED
    BY <1>4, <1>6, <2>1
<1>13. QED
  BY <1>6, <1>8, <1>10, <1>11, <1>12 DEF Follows, more, rest, n, p

(* What follows has no gap.                                                  *)
LEMMA FollowsGapless ==
  ASSUME NEW got \in Seq(Seen), NEW queue \in Seq(Occurrences), NEW since \in Nat,
         NEW all \in Seq(Occurrences), Follows(got, queue, since, all),
         NEW due, due = SubSeq(all, since + 1, Len(all)),
         NEW sent, sent = SubSeq(due, 1, Len(due) - Len(queue))
  PROVE  Covering(got, queue, due, sent)
<1> DEFINE n == Len(all)
           m == Len(queue)
           k == Len(got)
           end == LastOf(due, m)
<1>1. n \in Nat /\ m \in Nat /\ k \in Nat
  OBVIOUS
<1>2. k + m = n - since
  BY DEF Follows
<1>3. \A i \in 1..k : got[i] = Public(all[since + i])
  BY DEF Follows
<1>4. \A i \in 1..m : queue[i] = all[n - m + i]
  BY DEF Follows
<1>5. n - since \in Nat /\ since + 1 \in Int /\ n - (since + 1) + 1 = n - since
  BY <1>1, <1>2
<1>6. /\ due \in Seq(Occurrences) /\ Len(due) = n - since
      /\ \A i \in 1..(n - since) : due[i] = all[since + i]
  <2> HIDE DEF k, m
  <2>1. \A i \in (since + 1)..n : all[i] \in Occurrences
    BY <1>1, <1>5
  <2>2. due = SubSeq(all, since + 1, n)
    OBVIOUS
  <2> HIDE DEF n
  <2>3. /\ due \in Seq(Occurrences) /\ Len(due) = IF since + 1 <= n THEN n - (since + 1) + 1 ELSE 0
        /\ \A i \in 1..(n - (since + 1) + 1) : due[i] = all[since + 1 + i - 1]
    BY <1>1, <1>5, <2>1, <2>2, SubSeqProperties
  <2>4. Len(due) = n - since
    BY <1>1, <1>5, <2>3
  <2>5. \A i \in 1..(n - since) : since + 1 + i - 1 = since + i
    BY <1>1
  <2>6. QED
    BY <1>5, <2>3, <2>4, <2>5
<1>7. Len(due) - m = k /\ Len(due) = k + m
  BY <1>1, <1>2, <1>6
<1>8. /\ sent \in Seq(Occurrences) /\ Len(sent) = k /\ DOMAIN sent = 1..k
      /\ \A i \in 1..k : sent[i] = due[i]
  <2>1. sent = SubSeq(due, 1, k) /\ k \in 0..Len(due)
    BY <1>1, <1>7
  <2> HIDE DEF k
  <2>2. due \in Seq(Occurrences)
    BY <1>6
  <2>3. sent \in Seq(Occurrences) /\ IsBeginning(sent, due, k)
    BY <2>1, <2>2, BeginningFacts
  <2>4. QED
    BY <2>3 DEF IsBeginning
<1>9. end \in Seq(Occurrences) /\ Len(end) = (IF Len(due) > m THEN m ELSE Len(due))
      /\ \A i \in 1..Len(end) : end[i] = due[Len(due) - Len(end) + i]
  <2>1. due \in Seq(Occurrences) /\ m \in Nat
    BY <1>1, <1>6
  <2> HIDE DEF m
  <2>2. end \in Seq(Occurrences) /\ IsEnding(end, due, m)
    BY <2>1, LastOfFacts
  <2> HIDE DEF end
  <2>3. QED
    BY <2>2 DEF IsEnding
<1> HIDE DEF n, m, k, end
<1>10. Len(end) = m /\ Len(due) - Len(end) = k
  <2>1. Len(end) = m
    BY <1>1, <1>7, <1>9
  <2>2. QED
    BY <1>7, <2>1
<1>11. ASSUME NEW i \in 1..m PROVE queue[i] = end[i]
  <2>1. k + i \in 1..(n - since) /\ since + (k + i) = n - m + i
    BY <1>1, <1>2
  <2>2. end[i] = due[k + i]
    BY <1>9, <1>10
  <2>3. due[k + i] = all[since + (k + i)]
    BY <1>6, <2>1
  <2>4. QED
    BY <1>4, <2>1, <2>2, <2>3
<1>12. queue = end
  BY <1>9, <1>10, <1>11, SameSequence DEF m
<1>13. ASSUME NEW i \in 1..k PROVE got[i] = [number |-> sent[i].number]
  <2>1. i \in 1..(n - since)
    BY <1>1, <1>2
  <2>2. sent[i] = all[since + i] /\ got[i] = Public(all[since + i])
    BY <1>3, <1>6, <1>8, <2>1
  <2>3. QED
    BY <2>2 DEF Public
<1>14. QED
  BY <1>8, <1>12, <1>13 DEF Covering, k, end, m

LEMMA FeedGrows ==
  ASSUME NEW f \in Feeds, NEW all \in Seq(Occurrences), NEW e \in Occurrences, FeedFollows(f, all)
  PROVE  LET g == [f EXCEPT !.queue = Append(@, e)]
         IN  g \in Feeds /\ FeedFollows(g, Append(all, e))
<1> DEFINE g == [f EXCEPT !.queue = Append(@, e)]
           q == Append(f.queue, e)
<1>1. f.queue \in Seq(Occurrences) /\ f.got \in Seq(Seen) /\ f.since \in Nat
  BY DEF Feeds
<1>2. Follows(f.got, f.queue, f.since, all)
  BY OffIsNoFeed DEF FeedFollows
<1>3. Follows(f.got, q, f.since, Append(all, e)) /\ q \in Seq(Occurrences)
  BY <1>1, <1>2, FollowsGrows
<1> HIDE DEF q
<1>4. g = [f EXCEPT !.queue = q]
  BY DEF q
<1> HIDE DEF g
<1>5. g \in Feeds /\ g.queue = q /\ g.got = f.got /\ g.since = f.since
  BY <1>3, <1>4 DEF Feeds
<1>6. QED
  BY <1>3, <1>5 DEF FeedFollows, g

LEMMA PublishKeeps ==
  ASSUME TelemetryIInv, NEW request \in RequestIds \union {NoRequest}, Publish(Event(request))
  PROVE  /\ published' \in Seq(Occurrences) /\ feeds' \in [Clients -> Feeds \union {Off}]
         /\ history' = LastOf(published', MaxHistory)
         /\ \A c \in Clients : FeedFollows(feeds'[c], published')
<1> DEFINE e == Event(request)
<1>1. e \in Occurrences
  BY DEF Event, Occurrences, TelemetryIInv
<1> HIDE DEF e
<1>2. /\ published' = Append(published, e) /\ history' = LastOf(Append(history, e), MaxHistory)
      /\ feeds' = [c \in Clients |-> IF feeds[c] = Off THEN Off
                                     ELSE [feeds[c] EXCEPT !.queue = Append(@, e)]]
  BY DEF Publish, e
<1>3. published' \in Seq(Occurrences) /\ published \in Seq(Occurrences)
  BY <1>1, <1>2 DEF TelemetryIInv
<1>4. history' = LastOf(published', MaxHistory)
  BY <1>1, <1>2, <1>3, LastOfNext, TelemetryAssumption DEF TelemetryIInv, TelemetryTypeOK
<1>5. ASSUME NEW c \in Clients PROVE feeds'[c] \in Feeds \union {Off} /\ FeedFollows(feeds'[c], published')
  <2>1. CASE feeds[c] = Off
    BY <1>2, <2>1 DEF FeedFollows
  <2>2. CASE feeds[c] # Off
    <3>1. feeds[c] \in Feeds /\ FeedFollows(feeds[c], published)
          /\ feeds'[c] = [feeds[c] EXCEPT !.queue = Append(@, e)]
      BY <1>2, <2>2 DEF TelemetryIInv
    <3>2. QED
      BY <1>1, <1>2, <1>3, <3>1, FeedGrows
  <2>3. QED
    BY <2>1, <2>2
<1>6. feeds' \in [Clients -> Feeds \union {Off}]
  BY <1>2, <1>5
<1>7. QED
  BY <1>3, <1>4, <1>5, <1>6

LEMMA LoggedKeeps ==
  ASSUME TelemetryIInv, NEW written \in BOOLEAN, Logged(written), UNCHANGED run
  PROVE  LinesAreCounted' /\ LostLinesShow' /\ \A i \in DOMAIN auditFile' : auditFile'[i].run \in 1..run
<1> DEFINE line == [run |-> run, seq |-> auditSeq + 1, prev |-> auditLast]
           n == Len(auditFile)
<1>1. /\ auditFile \in Seq(AuditLines) /\ auditSeq \in Nat /\ run \in Nat /\ run > 0 /\ n \in Nat
      /\ DOMAIN auditFile = 1..n /\ auditLast \in Nat \X Nat /\ Genesis \in Nat \X Nat
  BY TelemetryAssumption DEF TelemetryIInv, TelemetryTypeOK, LinesAreCounted, Genesis
<1>2. /\ auditSeq' = auditSeq + 1 /\ auditLast' = <<run, auditSeq + 1>>
      /\ auditFile' = IF written THEN Append(auditFile, line) ELSE auditFile
  BY DEF Logged
<1>3. line \in AuditLines /\ line.run = run /\ line.seq = auditSeq + 1 /\ line.prev = auditLast
  BY <1>1 DEF AuditLines
<1> HIDE DEF line
<1>4. \A i \in 1..n : /\ auditFile[i].run \in 1..run
                      /\ auditFile[i].run = run => auditFile[i].seq \in 1..auditSeq
  BY DEF TelemetryIInv, LinesAreCounted
<1>5. CASE ~written
  <2>1. auditFile' = auditFile /\ run' = run
    BY <1>2, <1>5
  <2>2. \A i \in 1..n : auditFile[i].run = run => auditFile[i].seq \in 1..(auditSeq + 1)
    BY <1>1, <1>4
  <2>3. LinesAreCounted'
    <3>1. auditSeq' \in Nat /\ auditSeq' # 0
      BY <1>1, <1>2
    <3>0. auditLast' = <<run', auditSeq'>>
      BY <1>2, <2>1
    <3>2. \A i \in 1..Len(auditFile') : /\ auditFile'[i].run \in 1..run'
                                        /\ auditFile'[i].run = run' => auditFile'[i].seq \in 1..auditSeq'
      BY <1>2, <1>4, <2>1, <2>2
    <3>3. auditFile' \in Seq(AuditLines)
      BY <1>1, <2>1
    <3>4. QED
      BY <3>0, <3>1, <3>2, <3>3 DEF LinesAreCounted
  <2>4. LostLinesShow'
    BY <2>1 DEF TelemetryIInv, LostLinesShow
  <2>5. QED
    BY <1>1, <1>4, <2>1, <2>3, <2>4
<1>6. CASE written
  <2> DEFINE file == auditFile'
  <2>1. /\ file \in Seq(AuditLines) /\ Len(file) = n + 1 /\ DOMAIN file = 1..(n + 1)
        /\ file[n + 1] = line /\ \A i \in 1..n : file[i] = auditFile[i]
    BY <1>1, <1>2, <1>3, <1>6
  <2> HIDE DEF file, n
  <2>2. \A i \in 1..(n + 1) : i \in 1..n \/ i = n + 1
    BY <1>1
  <2>3. \A i \in 1..(n + 1) : /\ file[i].run \in 1..run
                              /\ file[i].run = run => file[i].seq \in 1..(auditSeq + 1)
    <3>1. run \in 1..run /\ auditSeq + 1 \in 1..(auditSeq + 1) /\ \A x \in 1..auditSeq : x \in 1..(auditSeq + 1)
      BY <1>1
    <3>2. QED
      BY <1>3, <1>4, <2>1, <2>2, <3>1
  <2>4. LinesAreCounted'
    BY <1>1, <1>2, <2>1, <2>3 DEF LinesAreCounted, file
  <2>5. ASSUME NEW i \in 1..(n + 1), i > 1, file[i - 1].run = file[i].run
        PROVE  /\ file[i - 1].seq < file[i].seq
               /\ (file[i].prev = <<file[i - 1].run, file[i - 1].seq>>) <=> (file[i].seq = file[i - 1].seq + 1)
    <3>1. CASE i \in 1..n
      <4>1. i - 1 \in 1..n /\ file[i - 1] = auditFile[i - 1] /\ file[i] = auditFile[i] /\ i \in DOMAIN auditFile
        BY <1>1, <2>1, <2>5, <3>1 DEF n
      <4>2. QED
        BY <2>5, <4>1 DEF TelemetryIInv, LostLinesShow
    <3>2. CASE i = n + 1
      <4> DEFINE old == auditFile[n]
      <4>1. n \in 1..n /\ i - 1 = n /\ file[i - 1] = old /\ file[i] = line
        BY <1>1, <2>1, <2>5, <3>2
      <4>2. old.run = run /\ old.seq \in 1..auditSeq
        BY <1>3, <1>4, <2>5, <4>1
      <4>3. line.prev = <<run, auditSeq>>
        BY <1>1, <1>3, <4>2 DEF TelemetryIInv, LinesAreCounted
      <4> HIDE DEF old
      <4>4. (line.prev = <<old.run, old.seq>>) <=> (old.seq = auditSeq)
        BY <4>2, <4>3
      <4>5. (old.seq < auditSeq + 1) /\ ((old.seq = auditSeq) <=> (auditSeq + 1 = old.seq + 1))
        BY <1>1, <4>2
      <4>6. QED
        BY <1>3, <4>1, <4>4, <4>5
    <3>3. QED
      BY <2>2, <3>1, <3>2
  <2>6. LostLinesShow'
    BY <2>1, <2>5 DEF LostLinesShow, file
  <2>7. QED
    BY <2>1, <2>3, <2>4, <2>6 DEF file
<1>7. QED
  BY <1>5, <1>6

LEMMA TelemetrySteps == ASSUME TelemetryIInv, [TelemetryNext]_telemetryVars PROVE TelemetryIInv'
<1>1. ASSUME NEW r \in RequestIds \union {NoRequest}, Announce(r) PROVE TelemetryIInv'
  <2>1. Publish(Event(r)) /\ UNCHANGED <<run, auditSeq, auditLast, auditFile>>
    BY <1>1 DEF Announce
  <2>2. LinesAreCounted' /\ LostLinesShow'
    BY <2>1 DEF TelemetryIInv, LinesAreCounted, LostLinesShow
  <2>3. QED
    BY <2>1, <2>2, PublishKeeps DEF TelemetryIInv, TelemetryTypeOK
<1>2. ASSUME NEW w \in BOOLEAN, AttestationResponse(w) PROVE TelemetryIInv'
  <2>1. Publish(Event(NoRequest)) /\ Logged(w) /\ UNCHANGED run
    BY <1>2 DEF AttestationResponse
  <2>2. LinesAreCounted' /\ LostLinesShow' /\ \A i \in DOMAIN auditFile' : auditFile'[i].run \in 1..run
    BY <2>1, LoggedKeeps
  <2>3. auditSeq' \in Nat
    BY <2>2 DEF LinesAreCounted
  <2>4. QED
    BY <2>1, <2>2, <2>3, PublishKeeps DEF TelemetryIInv, TelemetryTypeOK
<1>3. ASSUME NEW c \in Clients, Subscribe(c) \/ Leave(c) \/ Forward(c) PROVE TelemetryIInv'
  <2>1. UNCHANGED <<history, published, run, auditSeq, auditLast, auditFile>>
    BY <1>3 DEF Subscribe, Leave, Forward
  <2>2. published \in Seq(Occurrences) /\ Len(published) \in Nat
    BY DEF TelemetryIInv
  <2>3. feeds'[c] \in Feeds \union {Off} /\ FeedFollows(feeds'[c], published)
    <3>1. CASE Subscribe(c)
      <4> DEFINE f == [phase |-> "on", queue |-> <<>>, got |-> <<>>, since |-> Len(published)]
      <4>1. feeds'[c] = f
        BY <3>1 DEF Subscribe, TelemetryIInv
      <4>2. f.queue = <<>> /\ f.got = <<>> /\ f.since = Len(published) /\ Len(<<>>) = 0
            /\ <<>> \in Seq(Occurrences) /\ <<>> \in Seq([number : Nat])
        OBVIOUS
      <4>3. f \in Feeds
        BY <2>2, <4>2 DEF Feeds, Seen
      <4> HIDE DEF f
      <4>4. Follows(<<>>, <<>>, Len(published), published)
        BY <2>2, <4>2 DEF Follows
      <4>5. QED
        BY <4>1, <4>2, <4>3, <4>4 DEF FeedFollows
    <3>2. CASE Leave(c)
      <4> DEFINE f == feeds[c]
      <4>1. feeds'[c] = [f EXCEPT !.phase = "gone"] /\ f \in Feeds /\ FeedFollows(f, published) /\ f # Off
        BY <3>2 DEF Leave, TelemetryIInv
      <4> HIDE DEF f
      <4>2. [f EXCEPT !.phase = "gone"] = [phase |-> "gone", queue |-> f.queue, got |-> f.got, since |-> f.since]
        BY <4>1 DEF Feeds
      <4>3. [f EXCEPT !.phase = "gone"] \in Feeds
        BY <4>1, <4>2 DEF Feeds
      <4>4. QED
        BY <4>1, <4>2, <4>3 DEF FeedFollows
    <3>3. CASE Forward(c)
      <4> DEFINE f == feeds[c]
                 got == Append(f.got, Public(Head(f.queue)))
                 rest == Tail(f.queue)
                 g == [f EXCEPT !.queue = rest, !.got = got]
      <4>1. feeds' = [feeds EXCEPT ![c] = IF f.phase = "gone" THEN Off ELSE g] /\ f # Off /\ f.queue # <<>>
        BY <3>3 DEF Forward
      <4> HIDE DEF g
      <4>2. FeedFollows(f, published) /\ feeds'[c] \in {Off, g}
        BY <4>1 DEF TelemetryIInv
      <4> HIDE DEF f
      <4>3. f \in Feeds /\ Follows(f.got, f.queue, f.since, published)
        BY <4>1, <4>2 DEF FeedFollows
      <4>4. f.queue \in Seq(Occurrences) /\ f.got \in Seq(Seen) /\ f.since \in Nat
        BY <4>3 DEF Feeds
      <4>5. got \in Seq(Seen) /\ rest \in Seq(Occurrences) /\ Follows(got, rest, f.since, published)
        BY <2>2, <4>1, <4>3, <4>4, FollowsForward
      <4> HIDE DEF got, rest
      <4>6. g \in Feeds /\ g.queue = rest /\ g.got = got /\ g.since = f.since
        BY <4>3, <4>5 DEF Feeds, g
      <4>7. QED
        BY <4>2, <4>5, <4>6 DEF FeedFollows
    <3>4. QED
      BY <1>3, <3>1, <3>2, <3>3
  <2>4. feeds' \in [Clients -> Feeds \union {Off}] /\ \A d \in Clients : d # c => feeds'[d] = feeds[d]
    <3>1. \E v : feeds' = [feeds EXCEPT ![c] = v]
      BY <1>3 DEF Subscribe, Leave, Forward
    <3>2. QED
      BY <2>3, <3>1 DEF TelemetryIInv
  <2>5. \A d \in Clients : FeedFollows(feeds'[d], published)
    BY <2>3, <2>4 DEF TelemetryIInv
  <2>6. TelemetryTypeOK' /\ LinesAreCounted' /\ LostLinesShow'
    BY <2>1 DEF TelemetryIInv, TelemetryTypeOK, LinesAreCounted, LostLinesShow
  <2>7. QED
    BY <2>1, <2>2, <2>4, <2>5, <2>6 DEF TelemetryIInv
<1>4. CASE Restart
  <2>1. /\ run < MaxRuns /\ run' = run + 1 /\ history' = <<>> /\ published' = <<>>
        /\ feeds' = [c \in Clients |-> Off] /\ auditSeq' = 0 /\ auditLast' = Genesis /\ auditFile' = auditFile
        /\ run \in Nat /\ MaxRuns \in Nat /\ run > 0
    BY <1>4, TelemetryAssumption DEF Restart, TelemetryIInv, TelemetryTypeOK
  <2>2. <<>> \in Seq(Occurrences) /\ LastOf(<<>>, MaxHistory) = <<>>
    BY TelemetryAssumption DEF LastOf
  <2>3. \A i \in DOMAIN auditFile : auditFile[i].run \in 1..run' /\ auditFile[i].run # run'
    BY <2>1 DEF TelemetryIInv, TelemetryTypeOK
  <2>4. LinesAreCounted'
    BY <2>1, <2>3 DEF TelemetryIInv, LinesAreCounted
  <2>5. LostLinesShow' /\ TelemetryTypeOK'
    BY <2>1, <2>2, <2>3 DEF TelemetryIInv, LostLinesShow, TelemetryTypeOK
  <2>6. QED
    BY <2>1, <2>2, <2>4, <2>5 DEF TelemetryIInv, FeedFollows
<1>5. CASE UNCHANGED telemetryVars
  BY <1>5 DEF telemetryVars, TelemetryIInv, TelemetryTypeOK, LinesAreCounted, LostLinesShow
<1>6. QED
  BY <1>1, <1>2, <1>3, <1>4, <1>5 DEF TelemetryNext

LEMMA GaplessLemma == ASSUME TelemetryIInv PROVE FeedsAreGapless
<1>1. ASSUME NEW c \in Clients, feeds[c] # Off
      PROVE  LET due == SubSeq(published, feeds[c].since + 1, Len(published))
                 waiting == Len(feeds[c].queue)
                 sent == SubSeq(due, 1, Len(due) - waiting)
             IN  /\ feeds[c].queue = LastOf(due, waiting)
                 /\ Len(feeds[c].got) = Len(sent)
                 /\ \A i \in DOMAIN sent : feeds[c].got[i] = [number |-> sent[i].number]
  <2> DEFINE f == feeds[c]
  <2>1. FeedFollows(f, published) /\ f # Off /\ published \in Seq(Occurrences)
    BY <1>1 DEF TelemetryIInv
  <2> HIDE DEF f
  <2>2. f \in Feeds /\ Follows(f.got, f.queue, f.since, published)
    BY <2>1 DEF FeedFollows
  <2>3. f.queue \in Seq(Occurrences) /\ f.got \in Seq(Seen) /\ f.since \in Nat
    BY <2>2 DEF Feeds
  <2> DEFINE due == SubSeq(published, f.since + 1, Len(published))
             sent == SubSeq(due, 1, Len(due) - Len(f.queue))
  <2>4. due = SubSeq(published, f.since + 1, Len(published)) /\ sent = SubSeq(due, 1, Len(due) - Len(f.queue))
    OBVIOUS
  <2> HIDE DEF due, sent
  <2>5. Covering(f.got, f.queue, due, sent)
    BY <2>1, <2>2, <2>3, <2>4, FollowsGapless
  <2>6. QED
    BY <2>5 DEF Covering, f, due, sent
<1>2. QED
  BY <1>1 DEF FeedsAreGapless

(* Feeds have no gap, and a line that is missing from the audit log shows.   *)
THEOREM TelemetryAlwaysComplete == TelemetrySpec => []TelemetryIsComplete
<1>1. TelemetryIInv => TelemetryIsComplete
  BY GaplessLemma DEF TelemetryIInv, TelemetryIsComplete
<1>2. QED
  BY <1>1, TelemetryStarts, TelemetrySteps, PTL DEF TelemetrySpec

-----------------------------------------------------------------------------
(* EndToEnd                                                                 *)

(* The channel of EndToEnd: the end a message opens at is the peer of the    *)
(* one that sealed it, with the same transcript, and the number on it is the *)
(* number it was sealed with.                                                *)
LEMMA OpenedIsGenuine ==
  ASSUME ChannelIInv, NEW m \in wire, NEW side \in Sides, NEW t \in Transcripts,
         Opens(m, Key(t, Direction(Peer(side))))
  PROVE  /\ m.said \in SaidByAnEnd
         /\ m.said[1] = Peer(side) /\ m.said[2] = t /\ m.said[3] = m.seq
<1>1. m \in Message /\ m.sealed = SealOf(m.said)
  BY DEF ChannelIInv, SealedByAnEnd
<1>2. m.said \in SaidByAnEnd
  BY <1>1 DEF Message
<1>3. /\ Sealed(Key(m.said[2], m.said[1]), m.said[2].session, m.said[1], m.said[3], m.said) =
           Sealed(Key(t, Direction(Peer(side))), m.session, m.direction, m.seq, m.said)
  BY <1>1 DEF Opens, SealOf
<1>4. /\ Key(m.said[2], m.said[1]) = Key(t, Direction(Peer(side)))
      /\ m.said[3] = m.seq
  BY <1>3 DEF Sealed
<1>5. m.said[2] = t /\ m.said[1] = Peer(side)
  BY <1>4 DEF Key, Direction
<1>6. QED
  BY <1>2, <1>4, <1>5

(* What the ends are, one by one.                                            *)
LEMMA EndType ==
  ASSUME ChannelIInv, NEW side \in Sides, NEW s \in SessionNames, ends[side][s].open
  PROVE  /\ ends[side][s] \in OpenEnd /\ s \in OpenSessions(side)
         /\ ends[side][s].transcript \in answers /\ ends[side][s].transcript.session = s
         /\ ReadInOrder(side, ends[side][s])
<1>1. ends[side][s] \in OpenEnd \union {Closed}
  BY DEF ChannelIInv
<1>2. ends[side][s] # Closed
  BY DEF Closed
<1>3. s \in OpenSessions(side)
  BY DEF OpenSessions
<1>4. QED
  BY <1>1, <1>2, <1>3 DEF ChannelIInv

(* The handshake: an end that is derived is new.                             *)
LEMMA DerivedType ==
  ASSUME NEW t \in Transcripts, NEW side \in Sides
  PROVE  Derived(t) \in OpenEnd /\ ReadInOrder(side, Derived(t))
<1>1. -1 \in -1..MaxSaid /\ 0 \in 0..MaxSaid
  BY EndToEndAssumption
<1>2. <<>> \in Seq(SaidByAnEnd) /\ DOMAIN <<>> = {}
  OBVIOUS
<1>3. QED
  BY <1>1, <1>2 DEF Derived, OpenEnd, ReadInOrder

(* A step that replaces one end by another keeps the rest, so the invariant  *)
(* is to be shown for that end and for the messages.                         *)
LEMMA OneEndMoves ==
  ASSUME ChannelIInv, NEW side \in Sides, NEW s \in SessionNames, NEW end \in OpenEnd,
         ends' = [ends EXCEPT ![side][s] = end],
         answers \subseteq answers', answers' \subseteq Transcripts,
         end.transcript \in answers', end.transcript.session = s, ReadInOrder(side, end),
         wire' \subseteq Message, \A m \in wire' : SealedByAnEnd(m)', NumbersAreNotReused'
  PROVE  ChannelIInv'
<1>1. /\ ends' \in [Sides -> [SessionNames -> OpenEnd \union {Closed}]]
      /\ \A z \in Sides, x \in SessionNames :
           ends'[z][x] = IF z = side /\ x = s THEN end ELSE ends[z][x]
  BY DEF ChannelIInv
<1>2. ASSUME NEW z \in Sides, NEW x \in SessionNames, ends'[z][x].open
      PROVE  /\ ends'[z][x].transcript \in answers' /\ ends'[z][x].transcript.session = x
             /\ ReadInOrder(z, ends'[z][x])
  <2>1. CASE z = side /\ x = s
    BY <1>1, <2>1
  <2>2. CASE ~(z = side /\ x = s)
    BY <1>1, <1>2, <2>2, EndType
  <2>3. QED
    BY <2>1, <2>2
<1>3. \A z \in Sides : \A x \in OpenSessions(z)' :
         /\ ends'[z][x].transcript \in answers' /\ ends'[z][x].transcript.session = x
         /\ ReadInOrder(z, ends'[z][x])
  BY <1>2 DEF OpenSessions
<1>4. QED
  BY <1>1, <1>3 DEF ChannelIInv

LEMMA AnswerStep ==
  ASSUME ChannelIInv, NEW s \in SessionNames, NEW e \in Ephemerals, NEW a \in Admissions,
         Answer(s, e, a)
  PROVE  ChannelIInv'
<1> DEFINE t == Transcript(s, e, a)
<1>1. t \in Transcripts /\ t.session = s
  BY DEF Transcript, Transcripts
<1>2. /\ t \notin answers /\ answers' = answers \union {t} /\ wire' = wire
      /\ ends' = [ends EXCEPT !["provider"][s] = Derived(t)]
  BY DEF Answer
<1> HIDE DEF t
<1>3. Derived(t) \in OpenEnd /\ ReadInOrder("provider", Derived(t)) /\ Derived(t).transcript = t
  BY <1>1, DerivedType DEF Sides, Derived
<1>4. /\ \A z \in Sides, x \in SessionNames :
           ends'[z][x] = IF z = "provider" /\ x = s THEN Derived(t) ELSE ends[z][x]
      /\ wire \subseteq Message /\ answers \subseteq Transcripts
  BY <1>2 DEF ChannelIInv, Sides
<1>5. ASSUME NEW m \in wire PROVE SealedByAnEnd(m)'
  <2>1. SealedByAnEnd(m) /\ m.said[2].session \in SessionNames
    BY <1>4 DEF ChannelIInv, Message, SaidByAnEnd, Transcripts
  <2>2. QED
    BY <1>2, <1>4, <2>1 DEF SealedByAnEnd, Sides
<1>6. NumbersAreNotReused'
  <2> SUFFICES ASSUME NEW z \in Sides, NEW x \in SessionNames, ends'[z][x].open, NEW m \in wire,
                      m.sealed[1] = Key(ends'[z][x].transcript, Direction(z))
               PROVE  m.said[3] < ends'[z][x].next
    BY <1>2 DEF NumbersAreNotReused, OpenSessions
  <2>1. CASE z = "provider" /\ x = s
    <3>1. m.sealed[1] = Key(m.said[2], m.said[1]) /\ m.said[2] \in answers
      BY DEF ChannelIInv, SealedByAnEnd, SealOf, Sealed
    <3>2. m.sealed[1] = Key(t, "provider")
      BY <1>3, <1>4, <2>1 DEF Direction
    <3>3. m.said[2] = t
      BY <3>1, <3>2 DEF Key
    <3>4. QED
      BY <1>2, <3>1, <3>3
  <2>2. CASE ~(z = "provider" /\ x = s)
    BY <1>4, <2>2 DEF ChannelIInv, NumbersAreNotReused, OpenSessions
  <2>3. QED
    BY <2>1, <2>2
<1>7. QED
  BY <1>1, <1>2, <1>3, <1>4, <1>5, <1>6, OneEndMoves DEF Sides

LEMMA AcceptStep ==
  ASSUME ChannelIInv, NEW s \in SessionNames, NEW t \in answers, NEW a \in Admissions,
         Accept(s, t, a)
  PROVE  ChannelIInv'
<1>1. /\ t \in Transcripts /\ t.session = s /\ ~ends["consumer"][s].open
      /\ answers' = answers /\ wire' = wire
      /\ ends' = [ends EXCEPT !["consumer"][s] = Derived(t)]
  BY DEF ChannelIInv, Accept, Transcript
<1>2. Derived(t) \in OpenEnd /\ ReadInOrder("consumer", Derived(t)) /\ Derived(t).transcript = t
  BY <1>1, DerivedType DEF Sides, Derived
<1>3. /\ \A z \in Sides, x \in SessionNames :
           ends'[z][x] = IF z = "consumer" /\ x = s THEN Derived(t) ELSE ends[z][x]
      /\ wire \subseteq Message /\ answers \subseteq Transcripts
  BY <1>1 DEF ChannelIInv, Sides
<1>4. ASSUME NEW m \in wire
      PROVE  SealedByAnEnd(m)' /\ ~(m.said[1] = "consumer" /\ m.said[2] = t)
  <2>1. SealedByAnEnd(m) /\ m.said[2].session \in SessionNames
    BY <1>3 DEF ChannelIInv, Message, SaidByAnEnd, Transcripts
  <2>2. m.said[1] = "consumer" => m.said[2].session # s
    BY <1>1, <2>1 DEF SealedByAnEnd
  <2>3. QED
    BY <1>1, <1>3, <2>1, <2>2 DEF SealedByAnEnd, Sides
<1>5. NumbersAreNotReused'
  <2> SUFFICES ASSUME NEW z \in Sides, NEW x \in SessionNames, ends'[z][x].open, NEW m \in wire,
                      m.sealed[1] = Key(ends'[z][x].transcript, Direction(z))
               PROVE  m.said[3] < ends'[z][x].next
    BY <1>1 DEF NumbersAreNotReused, OpenSessions
  <2>1. CASE z = "consumer" /\ x = s
    <3>1. m.sealed[1] = Key(m.said[2], m.said[1])
      BY DEF ChannelIInv, SealedByAnEnd, SealOf, Sealed
    <3>2. m.sealed[1] = Key(t, "consumer")
      BY <1>2, <1>3, <2>1 DEF Direction
    <3>3. m.said[2] = t /\ m.said[1] = "consumer"
      BY <3>1, <3>2 DEF Key
    <3>4. QED
      BY <1>4, <3>3
  <2>2. CASE ~(z = "consumer" /\ x = s)
    BY <1>3, <2>2 DEF ChannelIInv, NumbersAreNotReused, OpenSessions
  <2>3. QED
    BY <2>1, <2>2
<1>6. QED
  BY <1>1, <1>2, <1>3, <1>4, <1>5, OneEndMoves DEF Sides

(* The two steps of an end that is open.                                     *)
LEMMA EncryptStep ==
  ASSUME ChannelIInv, NEW side \in Sides, NEW s \in SessionNames, Encrypt(side, s)
  PROVE  ChannelIInv'
<1> DEFINE end == ends[side][s]
           t == end.transcript
           said == <<side, t, end.next>>
           m == [session |-> s, direction |-> side, seq |-> end.next, said |-> said,
                 intact |-> TRUE, sealed |-> SealOf(said)]
           after == [end EXCEPT !.next = end.next + 1]
<1>1. /\ end \in OpenEnd /\ end.open /\ t \in answers /\ t.session = s /\ t \in Transcripts
      /\ ReadInOrder(side, end)
  BY EndType DEF Encrypt, ChannelIInv
<1>2. end.next \in 0..MaxSaid /\ end.next < MaxSaid
  BY <1>1 DEF Encrypt, OpenEnd
<1>3. said \in SaidByAnEnd
  BY <1>1, <1>2 DEF SaidByAnEnd
<1>4. m \in Message
  BY <1>2, <1>3 DEF Message
<1>5. SealOf(said) = Sealed(Key(t, Direction(side)), s, Direction(side), end.next, said)
  BY <1>1 DEF SealOf, Direction
<1>6. wire' = wire \union {m} /\ answers' = answers /\ ends' = [ends EXCEPT ![side][s] = after]
  BY <1>5 DEF Encrypt, Direction
<1>7. /\ after \in OpenEnd /\ after.transcript = t /\ after.next = end.next + 1
      /\ after.got = end.got /\ after.last = end.last /\ after.open /\ end.open = TRUE
  <2> DEFINE k == end.next + 1
  <2>1. k \in 0..MaxSaid
    BY <1>2, EndToEndAssumption
  <2>2. end.open = TRUE
    BY <1>1 DEF OpenEnd
  <2> HIDE DEF end, k, said
  <2> DEFINE one == [end EXCEPT !.next = k]
  <2>3. /\ one \in OpenEnd /\ one.transcript = end.transcript /\ one.open
        /\ one.next = k /\ one.last = end.last /\ one.got = end.got
    BY <1>1, <2>1 DEF OpenEnd
  <2>4. one = after
    BY DEF k
  <2> HIDE DEF one, after
  <2>5. QED
    BY <2>2, <2>3, <2>4 DEF k
<1>8. ReadInOrder(side, after)
  BY <1>1, <1>7 DEF ReadInOrder
<1>9. /\ m.said[2] = t /\ m.said[1] = side /\ m.said[3] = end.next /\ m.sealed = SealOf(m.said)
      /\ m.sealed[1] = Key(t, side) /\ m.said[3] = end.next
  BY DEF SealOf, Sealed
<1> HIDE DEF m, said, after
<1>10. \A z \in Sides, x \in SessionNames :
           ends'[z][x] = IF z = side /\ x = s THEN after ELSE ends[z][x]
  BY <1>6 DEF ChannelIInv
<1>11. ASSUME NEW n \in wire' PROVE SealedByAnEnd(n)'
  <2>1. n \in Message
    BY <1>4, <1>6 DEF ChannelIInv
  <2>2. n.said[2].session \in SessionNames
    BY <2>1 DEF Message, SaidByAnEnd, Transcripts
  <2>3. CASE n = m
    <3>1. side = "consumer" => ends'["consumer"][s] = after
      BY <1>10
    <3>2. QED
      BY <1>1, <1>6, <1>7, <1>9, <2>3, <3>1 DEF SealedByAnEnd
  <2>4. CASE n \in wire
    <3>1. SealedByAnEnd(n)
      BY <2>4 DEF ChannelIInv
    <3>2. \A x \in SessionNames : ends["consumer"][x].open =>
            /\ ends'["consumer"][x].open
            /\ ends'["consumer"][x].transcript = ends["consumer"][x].transcript
      BY <1>7, <1>10 DEF Sides
    <3>3. QED
      BY <1>6, <2>2, <3>1, <3>2 DEF SealedByAnEnd
  <2>5. QED
    BY <1>6, <2>3, <2>4
<1>12. NumbersAreNotReused'
  <2> SUFFICES ASSUME NEW z \in Sides, NEW x \in SessionNames, ends'[z][x].open, NEW n \in wire',
                      n.sealed[1] = Key(ends'[z][x].transcript, Direction(z))
               PROVE  n.said[3] < ends'[z][x].next
    BY DEF NumbersAreNotReused, OpenSessions
  <2>1. /\ ends[z][x].open /\ ends'[z][x].transcript = ends[z][x].transcript
        /\ ends[z][x].next \in Nat /\ ends[z][x].next <= ends'[z][x].next
        /\ ends[z][x].transcript.session = x
        /\ z = side /\ x = s => ends'[z][x].next = end.next + 1
    <3>1. ends[z][x].open
      BY <1>1, <1>10
    <3>2. ends[z][x] \in OpenEnd /\ ends[z][x].transcript.session = x
      BY <3>1, EndType
    <3>3. ends[z][x].next \in Nat
      <4>1. \A one \in OpenEnd : one.next \in Nat
        BY EndToEndAssumption DEF OpenEnd
      <4>2. QED
        BY <3>2, <4>1
    <3>4. CASE z = side /\ x = s
      BY <1>2, <1>7, <1>10, <3>1, <3>2, <3>4
    <3>5. CASE ~(z = side /\ x = s)
      BY <1>10, <3>1, <3>2, <3>3, <3>5
    <3>6. QED
      BY <3>4, <3>5
  <2>2. CASE n \in wire
    <3>1. n.said[3] < ends[z][x].next
      BY <2>1, <2>2 DEF ChannelIInv, NumbersAreNotReused, OpenSessions
    <3>2. n.said[3] \in Nat
      <4>1. n \in Message /\ n.sealed = SealOf(n.said)
        BY <2>2 DEF ChannelIInv, SealedByAnEnd
      <4>2. n.said[3] \in 0..MaxSaid
        BY <4>1 DEF Message, SaidByAnEnd
      <4>3. QED
        BY <4>1, <4>2 DEF SealOf, Sealed
    <3> DEFINE k == n.said[3]
               low == ends[z][x].next
               high == ends'[z][x].next
    <3>3. k \in Nat /\ low \in Nat /\ k < low /\ low <= high
      BY <2>1, <3>1, <3>2
    <3>4. high \in Int
      BY <1>7, <1>10, <2>1 DEF OpenEnd
    <3> HIDE DEF k, low, high
    <3>5. k < high
      BY <3>3, <3>4
    <3>6. QED
      BY <3>5 DEF k, high
  <2>3. CASE n = m
    <3>1. Key(t, side) = Key(ends[z][x].transcript, z)
      BY <1>9, <2>1, <2>3 DEF Direction
    <3>2. z = side /\ x = s
      BY <1>1, <2>1, <3>1 DEF Key
    <3>3. QED
      BY <1>2, <1>9, <2>1, <2>3, <3>2
  <2>4. QED
    BY <1>6, <2>2, <2>3
<1>13. wire' \subseteq Message /\ answers' \subseteq Transcripts
  BY <1>4, <1>6 DEF ChannelIInv
<1> HIDE DEF end
<1>14. QED
  BY <1>1, <1>6, <1>7, <1>8, <1>11, <1>12, <1>13, OneEndMoves

LEMMA DecryptStep ==
  ASSUME ChannelIInv, NEW side \in Sides, NEW s \in SessionNames, NEW m \in wire,
         Decrypt(side, s, m)
  PROVE  ChannelIInv'
<1> DEFINE end == ends[side][s]
           t == end.transcript
           after == [end EXCEPT !.last = m.seq, !.got = Append(end.got, m.said)]
<1>1. /\ end \in OpenEnd /\ end.open /\ t \in answers /\ t.session = s /\ t \in Transcripts
      /\ ReadInOrder(side, end) /\ m \in Message
  BY EndType DEF Decrypt, ChannelIInv
<1>2. /\ m.said \in SaidByAnEnd
      /\ m.said[1] = Peer(side) /\ m.said[2] = t /\ m.said[3] = m.seq
  BY <1>1, OpenedIsGenuine DEF Decrypt
<1>3. m.seq \in 0..MaxSaid /\ m.seq > end.last /\ end.last \in -1..MaxSaid
  BY <1>1 DEF Decrypt, Message, OpenEnd
<1>4. wire' = wire /\ answers' = answers
  BY DEF Decrypt
<1>5. ends' = [ends EXCEPT ![side][s] = after]
  BY DEF Decrypt, ChannelIInv
<1>6. end.got \in Seq(SaidByAnEnd) /\ DOMAIN end.got = 1..Len(end.got) /\ Len(end.got) \in Nat
  <2>1. \A one \in OpenEnd : one.got \in Seq(SaidByAnEnd)
    BY DEF OpenEnd
  <2>2. end.got \in Seq(SaidByAnEnd)
    BY <1>1, <2>1
  <2> HIDE DEF end
  <2>3. QED
    BY <2>2
<1>7. /\ after \in OpenEnd /\ after.transcript = t /\ after.next = end.next
      /\ after.got = Append(end.got, m.said) /\ after.last = m.seq /\ after.open
  <2> DEFINE k == m.seq
             got == Append(end.got, m.said)
  <2>1. k \in -1..MaxSaid /\ got \in Seq(SaidByAnEnd)
    BY <1>2, <1>3, <1>6, EndToEndAssumption
  <2> HIDE DEF end, k, got
  <2> DEFINE one == [end EXCEPT !.last = k, !.got = got]
  <2>2. /\ one \in OpenEnd /\ one.transcript = end.transcript /\ one.open
        /\ one.next = end.next /\ one.last = k /\ one.got = got
    BY <1>1, <2>1 DEF OpenEnd
  <2>3. one = after
    BY DEF k, got
  <2> HIDE DEF one, after
  <2>4. QED
    BY <2>2, <2>3 DEF k, got
<1>8. ReadInOrder(side, after)
  <2> DEFINE n == Len(end.got)
             got == after.got
  <2>1. /\ DOMAIN got = 1..(n + 1) /\ Len(got) = n + 1 /\ got # <<>> /\ got[n + 1] = m.said
        /\ \A i \in 1..n : got[i] = end.got[i] /\ got[i] \in SaidByAnEnd /\ got[i][3] \in Nat
    <3>1. /\ DOMAIN got = 1..(n + 1) /\ Len(got) = n + 1 /\ got # <<>> /\ got[n + 1] = m.said
          /\ \A i \in 1..n : got[i] = end.got[i]
      <4> DEFINE read == end.got
                 x == m.said
      <4>1. read \in Seq(SaidByAnEnd) /\ x \in SaidByAnEnd /\ got = Append(read, x)
        BY <1>2, <1>6, <1>7
      <4> HIDE DEF read, x, got
      <4>2. /\ DOMAIN got = 1..(Len(read) + 1) /\ Len(got) = Len(read) + 1 /\ got # <<>>
            /\ got[Len(read) + 1] = x /\ \A i \in 1..Len(read) : got[i] = read[i]
        BY <4>1
      <4>3. QED
        BY <4>2 DEF read, x
    <3>2. \A i \in 1..n : end.got[i] \in SaidByAnEnd
      BY <1>6
    <3>3. \A x \in SaidByAnEnd : x[3] \in Nat
      BY DEF SaidByAnEnd
    <3> HIDE DEF got, n, end, after
    <3>4. QED
      BY <3>1, <3>2, <3>3
  <2>2. \A i \in 1..n : /\ got[i][1] = Peer(side) /\ got[i][2] = t /\ got[i][3] <= end.last
                        /\ \A j \in 1..n : i < j => got[i][3] < got[j][3]
    <3>1. \A i \in 1..n : /\ end.got[i][1] = Peer(side) /\ end.got[i][2] = t /\ end.got[i][3] <= end.last
                          /\ \A j \in 1..n : i < j => end.got[i][3] < end.got[j][3]
      BY <1>1, <1>6 DEF ReadInOrder
    <3>2. \A i \in 1..n : got[i] = end.got[i]
      BY <2>1
    <3> HIDE DEF got, n, end, t
    <3>3. QED
      BY <3>1, <3>2
  <2>3. \A i \in 1..(n + 1) : i \in 1..n \/ i = n + 1
    BY <1>6
  <2> HIDE DEF got, n
  <2>4. \A i \in 1..(n + 1) : got[i][1] = Peer(side) /\ got[i][2] = t /\ got[i][3] <= m.seq
    BY <1>2, <1>3, <2>1, <2>2, <2>3
  <2>5. \A i, j \in 1..(n + 1) : i < j => got[i][3] < got[j][3]
    <3> SUFFICES ASSUME NEW i \in 1..(n + 1), NEW j \in 1..(n + 1), i < j
                 PROVE  got[i][3] < got[j][3]
      OBVIOUS
    <3>1. n \in Nat
      BY <1>6 DEF n
    <3>2. i \in 1..n
      BY <3>1
    <3>3. CASE j = n + 1
      BY <1>2, <1>3, <2>1, <2>2, <3>2, <3>3
    <3>4. QED
      BY <2>2, <2>3, <3>2, <3>3
  <2>6. QED
    BY <1>2, <1>7, <2>1, <2>4, <2>5 DEF ReadInOrder, got
<1> HIDE DEF after
<1>9. \A z \in Sides, x \in SessionNames :
           ends'[z][x] = IF z = side /\ x = s THEN after ELSE ends[z][x]
  BY <1>5 DEF ChannelIInv
<1>10. \A n \in wire' : SealedByAnEnd(n)'
  <2> SUFFICES ASSUME NEW n \in wire PROVE SealedByAnEnd(n)'
    BY <1>4
  <2>1. SealedByAnEnd(n) /\ n.said[2].session \in SessionNames
    BY DEF ChannelIInv, Message, SaidByAnEnd, Transcripts
  <2>2. QED
    BY <1>1, <1>4, <1>7, <1>9, <2>1 DEF SealedByAnEnd, OpenEnd, Sides
<1>11. NumbersAreNotReused'
  <2> SUFFICES ASSUME NEW z \in Sides, NEW x \in SessionNames, ends'[z][x].open, NEW n \in wire,
                      n.sealed[1] = Key(ends'[z][x].transcript, Direction(z))
               PROVE  n.said[3] < ends'[z][x].next
    BY <1>4 DEF NumbersAreNotReused, OpenSessions
  <2>1. /\ ends[z][x].open /\ ends'[z][x].transcript = ends[z][x].transcript
        /\ ends'[z][x].next = ends[z][x].next
    BY <1>1, <1>7, <1>9
  <2>2. QED
    BY <2>1 DEF ChannelIInv, NumbersAreNotReused, OpenSessions
<1>12. wire' \subseteq Message /\ answers' \subseteq Transcripts
  BY <1>4 DEF ChannelIInv
<1> HIDE DEF end
<1>13. QED
  BY <1>1, <1>4, <1>5, <1>7, <1>8, <1>10, <1>11, <1>12, OneEndMoves

(* The relay may give a message any labels: what was sealed in it stays.     *)
LEMMA SpoilStep ==
  ASSUME ChannelIInv, NEW m \in wire, NEW s \in SessionNames, NEW side \in Sides,
         NEW n \in 0..MaxSaid, Spoil(m, s, side, n)
  PROVE  ChannelIInv'
<1>1. m \in Message /\ SealedByAnEnd(m)
  BY DEF ChannelIInv
<1>2. PICK w : /\ w \in Message /\ w.said = m.said /\ w.sealed = m.sealed
               /\ wire' = wire \union {w}
  <2> DEFINE spoiled == [m EXCEPT !.session = s, !.direction = side, !.seq = n]
             damaged == [m EXCEPT !.intact = FALSE]
  <2>1. /\ spoiled \in Message /\ spoiled.said = m.said /\ spoiled.sealed = m.sealed
        /\ damaged \in Message /\ damaged.said = m.said /\ damaged.sealed = m.sealed
    BY <1>1 DEF Message
  <2>2. wire' = wire \union {spoiled} \/ wire' = wire \union {damaged}
    BY DEF Spoil
  <2>3. QED
    BY <2>1, <2>2
<1>3. ends' = ends /\ answers' = answers
  BY DEF Spoil
<1>4. \A z \in Sides : OpenSessions(z)' = OpenSessions(z)
  BY <1>3 DEF OpenSessions
<1>5. \A x \in wire' : SealedByAnEnd(x)'
  BY <1>1, <1>2, <1>3 DEF ChannelIInv, SealedByAnEnd
<1>6. NumbersAreNotReused'
  <2>1. \A x \in wire' : \E y \in wire : x.sealed = y.sealed /\ x.said = y.said
    BY <1>2
  <2>2. QED
    BY <1>3, <1>4, <2>1 DEF ChannelIInv, NumbersAreNotReused
<1>7. wire' \subseteq Message
  BY <1>2 DEF ChannelIInv
<1>8. QED
  BY <1>3, <1>4, <1>5, <1>6, <1>7 DEF ChannelIInv

(* PROV-007: over a relay that repeats, reorders, reflects, relabels and     *)
(* damages what passes, an end reads only what its peer said in the session  *)
(* they agreed on, once each and in order, a message that is refused leaves  *)
(* no trace, and no key is used twice with one number.                       *)
THEOREM ChannelsAreFaithful == ChannelSpec => []ChannelIsFaithful
<1>1. ChannelInit => ChannelIInv
  <2> SUFFICES ASSUME ChannelInit PROVE ChannelIInv
    OBVIOUS
  <2>1. /\ ends \in [Sides -> [SessionNames -> OpenEnd \union {Closed}]]
        /\ answers = {} /\ wire = {}
    BY DEF ChannelInit
  <2>2. \A side \in Sides : OpenSessions(side) = {}
    BY DEF ChannelInit, OpenSessions, Closed
  <2>3. QED
    BY <2>1, <2>2 DEF ChannelIInv, NumbersAreNotReused
<1>2. ChannelIInv /\ [ChannelNext]_channelVars => ChannelIInv'
  <2> SUFFICES ASSUME ChannelIInv, [ChannelNext]_channelVars PROVE ChannelIInv'
    OBVIOUS
  <2>1. CASE UNCHANGED channelVars
    BY <2>1 DEF channelVars, ChannelIInv, OpenSessions, NumbersAreNotReused, SealedByAnEnd
  <2>2. QED
    BY <2>1, AnswerStep, AcceptStep, EncryptStep, DecryptStep, SpoilStep DEF ChannelNext
<1>3. ChannelIInv => ChannelIsFaithful
  <2> SUFFICES ASSUME ChannelIInv PROVE ChannelIsFaithful
    OBVIOUS
  <2>1. ASSUME NEW side \in Sides, NEW s \in SessionNames, ends[side][s].open
        PROVE  /\ ends[side][s].transcript \in answers /\ ends[side][s].transcript.session = s
               /\ ends[side][s].next \in 0..MaxSaid /\ ends[side][s].last \in -1..MaxSaid
               /\ ReadInOrder(side, ends[side][s])
    BY <2>1, EndType DEF OpenEnd
  <2>2. ChannelTypeOK
    BY <2>1 DEF ChannelTypeOK, OpenSessions, ChannelIInv, Transcripts
  <2>3. ReadAsSaid /\ RefusedLeaveNoTrace
    BY <2>1 DEF ReadAsSaid, RefusedLeaveNoTrace, OpenSessions, ReadInOrder
  <2>4. QED
    BY <2>2, <2>3 DEF ChannelIsFaithful, ChannelIInv
<1>4. QED
  BY <1>1, <1>2, <1>3, PTL DEF ChannelSpec

-----------------------------------------------------------------------------
(* ConsumerSdk                                                              *)

(* What is forwarded of a reply are lines of it, and all of it if all lines  *)
(* have the form that is asked for.                                          *)
LEMMA ForwardedLines ==
  ASSUME NEW lines \in Seq(Lines), NEW form \in BOOLEAN
  PROVE  /\ Forwarded(lines, form) \in Seq(Lines)
         /\ (\A i \in DOMAIN lines : lines[i].sealed = form) => Forwarded(lines, form) = lines
<1> DEFINE n == Len(lines)
           A == Seq(Lines)
           Next_(sent, i) == IF lines[i].sealed = form THEN Append(sent, lines[i]) ELSE sent
           step == [x \in A \X (1..n) |-> Next_(x[1], x[2])]
           Body(h) == [s \in SUBSET (1..n) |->
                         IF s = {} THEN <<>> ELSE Next_(h[s \ {Max(s)}], Max(s))]
           g == CHOOSE h : h = Body(h)
<1>1. n \in Nat /\ DOMAIN lines = 1..n /\ \A i \in 1..n : lines[i] \in Lines
  OBVIOUS
<1>2. <<>> \in A /\ step \in [A \X (1..n) -> A]
  <2>1. \A x \in A \X (1..n) : Next_(x[1], x[2]) \in A
    BY <1>1, AppendProperties
  <2> HIDE DEF Next_
  <2>2. QED
    BY <2>1
<1>3. \E f : f = Body(f)
  <2>1. PICK f : IsFold(A, <<>>, step, n, f)
    BY <1>1, <1>2, FoldExists
  <2>2. \A s \in SUBSET (1..n) : s # {} => Max(s) \in 1..n /\ s \ {Max(s)} \in SUBSET (1..n)
    BY <1>1, Greatest
  <2>3. \A s \in SUBSET (1..n) : s # {} =>
          step[<<f[s \ {Max(s)}], Max(s)>>] = Next_(f[s \ {Max(s)}], Max(s))
    <3> HIDE DEF Next_
    <3>1. QED
      BY <2>1, <2>2 DEF IsFold
  <2> HIDE DEF Next_, step, A
  <2>4. f = Body(f)
    BY <2>1, <2>3 DEF IsFold
  <2>5. QED
    BY <2>4
<1>4. g = Body(g)
  <2> HIDE DEF Body
  <2>1. QED
    BY <1>3
<1>5. Forwarded(lines, form) = g[1..n]
  BY <1>1 DEF Forwarded, FoldLeft, MapThenFoldSet
<1> HIDE DEF g
<1>6. g[1..0] = <<>> /\ \A m \in 0..(n - 1) : g[1..(m + 1)] = Next_(g[1..m], m + 1)
  <2>1. g[1..0] = <<>>
    BY <1>4, OneMore
  <2>2. ASSUME NEW m \in 0..(n - 1) PROVE g[1..(m + 1)] = Next_(g[1..m], m + 1)
    <3>1. 1..(m + 1) \in SUBSET (1..n)
      OBVIOUS
    <3>2. m \in Nat
      OBVIOUS
    <3>3. 1..(m + 1) # {} /\ Max(1..(m + 1)) = m + 1 /\ (1..(m + 1)) \ {m + 1} = 1..m
      BY <3>2, OneMore
    <3> DEFINE all == 1..(m + 1)
    <3> HIDE DEF Next_, all
    <3>4. g[all] = Next_(g[all \ {Max(all)}], Max(all))
      BY <1>4, <3>1, <3>3 DEF all
    <3>5. QED
      BY <3>3, <3>4 DEF all
  <2>3. QED
    BY <2>1, <2>2
<1> DEFINE S == {m \in Nat : m <= n =>
                   /\ g[1..m] \in A
                   /\ (\A i \in DOMAIN lines : lines[i].sealed = form) => g[1..m] = SubSeq(lines, 1, m)}
<1>7. 0 \in S
  <2>1. SubSeq(lines, 1, 0) = <<>>
    OBVIOUS
  <2>2. QED
    BY <1>6, <1>2, <2>1
<1>8. ASSUME NEW m \in Nat, m \in S PROVE m + 1 \in S
  <2> SUFFICES ASSUME m + 1 <= n
      PROVE  /\ g[1..(m + 1)] \in A
             /\ (\A i \in DOMAIN lines : lines[i].sealed = form) => g[1..(m + 1)] = SubSeq(lines, 1, m + 1)
    OBVIOUS
  <2>1. /\ g[1..m] \in A
        /\ (\A i \in DOMAIN lines : lines[i].sealed = form) => g[1..m] = SubSeq(lines, 1, m)
    BY <1>8
  <2>2. g[1..(m + 1)] = Next_(g[1..m], m + 1) /\ m + 1 \in 1..n
    BY <1>6
  <2>3. Append(SubSeq(lines, 1, m), lines[m + 1]) = SubSeq(lines, 1, m + 1)
    BY <1>1, <2>2
  <2>4. lines[m + 1] \in Lines
    BY <1>1, <2>2
  <2>5. g[1..(m + 1)] \in A
    BY <2>1, <2>2, <2>4, AppendProperties
  <2>6. QED
    BY <1>1, <2>1, <2>2, <2>3, <2>5
<1>9. n \in S
  <2> HIDE DEF S
  <2>1. QED
    BY <1>1, <1>7, <1>8, SetInduction
<1>10. SubSeq(lines, 1, n) = lines
  OBVIOUS
<1>11. QED
  BY <1>1, <1>5, <1>9, <1>10

-----------------------------------------------------------------------------
LEMMA SdkStarts == SdkInit => SdkIInv
BY ConsumerSdkAssumption
   DEF SdkInit, SdkIInv, Agents, Boxes, Calls, Lines, IdleCall, Libraries, Phases, ListedHaveKeys,
       NumbersAreTaken, LinesAreTheAgents, ServedIsDiscovered, PlacesAreKept, RepliesAreReadable

(* Agents come and go.                                                       *)
LEMMA AgentStep ==
  ASSUME SdkIInv, NEW a \in Agents, Joins(a) \/ Leaves(a) \/ Rejoins(a)
  PROVE  SdkIInv'
<1>1. CASE Joins(a)
  <2>1. keyOf' \in [Agents -> 0..MaxKeys] /\ keyOf'[a] > 0 /\ a \notin listed /\ listed' = listed \union {a}
        /\ \A b \in Agents : b # a => keyOf'[b] = keyOf[b]
    BY <1>1, ConsumerSdkAssumption DEF Joins, SdkIInv
  <2>2. ServedIsDiscovered'
    BY <1>1, <2>1 DEF Joins, SdkIInv, ServedIsDiscovered, BoxFor
  <2>3. QED
    BY <1>1, <2>1, <2>2 DEF Joins, SdkIInv, Calls, ListedHaveKeys, NumbersAreTaken,
       LinesAreTheAgents, PlacesAreKept, RepliesAreReadable
<1>2. CASE Rejoins(a)
  BY <1>2 DEF Rejoins, SdkIInv, ListedHaveKeys, NumbersAreTaken, LinesAreTheAgents,
     ServedIsDiscovered, BoxFor, PlacesAreKept, RepliesAreReadable
<1>3. CASE Leaves(a)
  <2>1. CASE call.phase = "serving" /\ call.agent = a
    <3>1. /\ call' \in Calls /\ call'.phase = "error" /\ call'.lines = call.lines /\ call'.agent = call.agent
          /\ UNCHANGED <<keyOf, transport, calls, posted>> /\ listed' \subseteq listed
      BY <1>3, <2>1 DEF Leaves, Put, SdkIInv, Calls, Phases
    <3>2. LinesAreTheAgents'
      BY <3>1 DEF SdkIInv, LinesAreTheAgents
    <3>3. QED
      BY <3>1, <3>2 DEF SdkIInv, ListedHaveKeys, NumbersAreTaken, ServedIsDiscovered, PlacesAreKept,
         RepliesAreReadable
  <2>2. CASE ~ (call.phase = "serving" /\ call.agent = a)
    BY <1>3, <2>2 DEF Leaves, SdkIInv, ListedHaveKeys, NumbersAreTaken, LinesAreTheAgents,
     ServedIsDiscovered, BoxFor, PlacesAreKept, RepliesAreReadable
  <2>3. QED
    BY <2>1, <2>2
<1>4. QED
  BY <1>1, <1>2, <1>3

(* A call that only changes its phase, to one in which nothing is promised.  *)
LEMMA PhaseStep ==
  ASSUME SdkIInv, NEW stage \in {"posted", "failed", "error", "fallback"}, Put(stage),
         stage = "posted" => call.client = "exchange" /\ call.phase = "begun",
         UNCHANGED <<listed, keyOf, transport, calls, posted>>
  PROVE  SdkIInv'
<1>1. /\ call' \in Calls /\ call'.phase = stage /\ call'.client = call.client
      /\ call'.lines = call.lines /\ call'.agent = call.agent
  BY DEF Put, SdkIInv, Calls, Phases
<1>2. LinesAreTheAgents'
  BY <1>1 DEF SdkIInv, LinesAreTheAgents
<1>3. QED
  BY <1>1, <1>2 DEF SdkIInv, Libraries, ListedHaveKeys, NumbersAreTaken,
     ServedIsDiscovered, BoxFor, PlacesAreKept, RepliesAreReadable

(* What the client does up to the post.                                      *)
LEMMA BeginStep ==
  ASSUME SdkIInv, NEW client \in Libraries, NEW stream \in BOOLEAN, Begins(client, stream)
  PROVE  SdkIInv'
<1>1. /\ call' \in Calls /\ call'.phase = "begun" /\ call'.lines = <<>> /\ calls' = calls + 1
  <2>1. IdleCall \in Calls /\ IdleCall.lines = <<>>
    BY DEF IdleCall, Calls, Phases, Libraries
  <2>2. "begun" \in Phases /\ call' = [IdleCall EXCEPT !.client = client, !.stream = stream, !.phase = "begun"]
    BY DEF Begins, Phases
  <2>3. calls' = calls + 1
    BY DEF Begins
  <2> HIDE DEF IdleCall
  <2>4. QED
    BY <2>1, <2>2, <2>3 DEF Calls
<1>2. NumbersAreTaken'
  BY <1>1 DEF Begins, SdkIInv, NumbersAreTaken
<1>3. LinesAreTheAgents'
  BY <1>1, ConsumerSdkAssumption DEF LinesAreTheAgents
<1>4. QED
  BY <1>1, <1>2, <1>3 DEF Begins, SdkIInv, ListedHaveKeys, ServedIsDiscovered, PlacesAreKept,
     RepliesAreReadable

LEMMA DiscoverStep ==
  ASSUME SdkIInv, NEW a \in listed, call.phase = "begun",
         transport' = [transport EXCEPT !.cached = BoxFor(a)],
         UNCHANGED <<listed, keyOf, call, calls, posted>>
  PROVE  SdkIInv'
<1>1. BoxFor(a) \in Boxes
  BY ConsumerSdkAssumption DEF SdkIInv, ListedHaveKeys, BoxFor, Boxes
<1>2. /\ transport' \in [cached : Boxes \union {NoBox}, sequence : Nat, fallback : BOOLEAN]
      /\ transport'.sequence = transport.sequence
  BY <1>1 DEF SdkIInv
<1>3. QED
  BY <1>2 DEF SdkIInv, ListedHaveKeys, NumbersAreTaken, LinesAreTheAgents, ServedIsDiscovered,
     PlacesAreKept, RepliesAreReadable

LEMMA SealStep ==
  ASSUME SdkIInv, Seals
  PROVE  SdkIInv'
<1> DEFINE n == transport.sequence
<1>1. n \in Nat /\ posted = [i \in 1..n |-> i - 1] /\ n < calls
  BY DEF SdkIInv, NumbersAreTaken, Seals
<1>2. posted' = Append(posted, n) /\ transport'.sequence = n + 1 /\ transport'.cached = transport.cached
      /\ transport' \in [cached : Boxes \union {NoBox}, sequence : Nat, fallback : BOOLEAN]
  <2>1. transport \in [cached : Boxes \union {NoBox}, sequence : Nat, fallback : BOOLEAN]
    BY DEF SdkIInv
  <2>2. posted' = Append(posted, n) /\ transport' = [transport EXCEPT !.sequence = n + 1]
    BY DEF Seals
  <2> HIDE DEF n
  <2>3. QED
    BY <1>1, <2>1, <2>2
<1>3. /\ call' \in Calls /\ call'.phase = "posted" /\ call'.sealedFor = transport.cached
      /\ call'.lines = <<>> /\ call'.agent = call.agent
  BY DEF Seals, SdkIInv, Calls, Phases, LinesAreTheAgents
<1> HIDE DEF n
<1>4. posted' = [i \in 1..(n + 1) |-> i - 1]
  BY <1>1, <1>2
<1>5. NumbersAreTaken'
  BY <1>1, <1>2, <1>3, <1>4 DEF NumbersAreTaken, SdkIInv, Seals
<1>6. LinesAreTheAgents'
  BY <1>3, ConsumerSdkAssumption DEF LinesAreTheAgents
<1>7. QED
  BY <1>2, <1>3, <1>5, <1>6 DEF SdkIInv, Seals, ListedHaveKeys, ServedIsDiscovered, PlacesAreKept,
     RepliesAreReadable

(* The relay chooses an agent, which serves what it can open.                *)
LEMMA RelayStep ==
  ASSUME SdkIInv, NEW a \in Agents, Relays(a)
  PROVE  SdkIInv'
<1> DEFINE box == IF call.client = "transport" THEN call.sealedFor ELSE BoxFor(a)
           stage == IF CanOpen(a, box) THEN "serving" ELSE "error"
<1>1. a \in listed /\ call.phase = "posted" /\ call.lines = <<>>
  BY DEF Relays, SdkIInv, LinesAreTheAgents
<1>2. box \in Boxes \union {NoBox}
  <2>1. BoxFor(a) \in Boxes
    BY <1>1, ConsumerSdkAssumption DEF SdkIInv, ListedHaveKeys, BoxFor, Boxes
  <2>2. QED
    BY <2>1 DEF SdkIInv, Calls
<1>3. call.client = "transport" => box = transport.cached
  BY <1>1 DEF SdkIInv, ServedIsDiscovered
<1>4. stage = "serving" => box = BoxFor(a) /\ BoxFor(a).agent = a
  BY DEF CanOpen, BoxFor
<1>5. stage \in {"serving", "error"}
  OBVIOUS
<1>6. call' = [call EXCEPT !.agent = a, !.sealedFor = box, !.phase = stage]
  BY DEF Relays
<1> HIDE DEF box, stage
<1>7. /\ call' \in Calls /\ call'.phase = stage /\ call'.sealedFor = box /\ call'.agent = a
      /\ call'.lines = <<>> /\ call'.client = call.client
  BY <1>1, <1>2, <1>5, <1>6 DEF SdkIInv, Calls, Phases
<1>8. UNCHANGED <<listed, keyOf, transport, calls, posted>>
  BY DEF Relays
<1>9. ServedIsDiscovered'
  BY <1>1, <1>3, <1>4, <1>5, <1>7, <1>8 DEF ServedIsDiscovered, BoxFor
<1>10. LinesAreTheAgents'
  BY <1>7, ConsumerSdkAssumption DEF LinesAreTheAgents
<1>11. QED
  BY <1>5, <1>7, <1>8, <1>9, <1>10 DEF SdkIInv, ListedHaveKeys, NumbersAreTaken, PlacesAreKept,
     RepliesAreReadable

(* The agent sends a token.                                                  *)
LEMMA SayStep ==
  ASSUME SdkIInv, Says
  PROVE  SdkIInv'
<1> DEFINE n == Len(call.lines)
<1>1. PICK whole \in BOOLEAN :
        call' = [call EXCEPT !.lines = Append(call.lines, Line(n + 1, call.agent \in ManagedAgents, whole))]
  BY DEF Says
<1> DEFINE l == Line(n + 1, call.agent \in ManagedAgents, whole)
           lines == Append(call.lines, l)
<1>2. call.lines \in Seq(Lines) /\ n \in Nat /\ n < MaxTokens
  BY DEF SdkIInv, Calls, Says
<1>3. l \in Lines /\ l.token = n + 1 /\ l.sealed = (call.agent \in ManagedAgents)
  BY <1>2 DEF Line, Lines
<1> HIDE DEF l
<1>4. /\ lines \in Seq(Lines) /\ Len(lines) = n + 1 /\ DOMAIN lines = 1..(n + 1)
      /\ \A i \in 1..n : lines[i] = call.lines[i]
      /\ lines[n + 1] = l
  BY <1>2, <1>3
<1> HIDE DEF lines
<1>5. /\ call' \in Calls /\ call'.lines = lines /\ call'.agent = call.agent /\ call'.phase = call.phase
      /\ call'.client = call.client /\ call'.sealedFor = call.sealedFor /\ call.phase = "serving"
  BY <1>1, <1>4 DEF SdkIInv, Calls, Says, lines, l
<1>6. LinesAreTheAgents'
  <2>1. \A i \in 1..n : /\ call.lines[i].token = i
                        /\ call.lines[i].sealed = (call.agent \in ManagedAgents)
    BY <1>2 DEF SdkIInv, LinesAreTheAgents
  <2>2. \A i \in 1..(n + 1) : lines[i].token = i /\ lines[i].sealed = (call.agent \in ManagedAgents)
    BY <1>2, <1>3, <1>4, <2>1
  <2>3. n + 1 <= MaxTokens
    BY <1>2, ConsumerSdkAssumption
  <2>4. QED
    BY <1>4, <1>5, <2>2, <2>3 DEF LinesAreTheAgents
<1>7. QED
  BY <1>5, <1>6 DEF SdkIInv, Says, ListedHaveKeys, NumbersAreTaken, ServedIsDiscovered, BoxFor,
     PlacesAreKept, RepliesAreReadable

(* The client has its reply.                                                 *)
LEMMA EndStep ==
  ASSUME SdkIInv, Ends
  PROVE  SdkIInv'
<1> DEFINE lines == call.lines
           managed == call.agent \in ManagedAgents
           sent == Relayed
           got == Received
<1>1. lines \in Seq(Lines) /\ call.phase = "serving"
  BY DEF SdkIInv, Calls, Ends
<1>2. \A i \in DOMAIN lines : lines[i].token = i /\ lines[i].sealed = managed
  BY DEF SdkIInv, LinesAreTheAgents
<1>3. /\ sent \in Seq(Lines)
      /\ managed /\ (call.stream \/ call.client = "transport") => sent = lines
  BY <1>1, <1>2, ForwardedLines DEF Relayed
<1> HIDE DEF sent
<1>4. \A s \in Seq(Lines) :
        /\ OpenedAll(s) \in Seq(Lines) /\ DOMAIN OpenedAll(s) = DOMAIN s
        /\ \A i \in DOMAIN s : OpenedAll(s)[i].token = s[i].token /\ ~ OpenedAll(s)[i].sealed
        /\ OpenedWhole(s) \in Seq(Lines) /\ DOMAIN OpenedWhole(s) = DOMAIN s
        /\ \A i \in DOMAIN s : OpenedWhole(s)[i].token = s[i].token
  <2> SUFFICES ASSUME NEW s \in Seq(Lines)
      PROVE  /\ OpenedAll(s) \in Seq(Lines) /\ DOMAIN OpenedAll(s) = DOMAIN s
             /\ \A i \in DOMAIN s : OpenedAll(s)[i].token = s[i].token /\ ~ OpenedAll(s)[i].sealed
             /\ OpenedWhole(s) \in Seq(Lines) /\ DOMAIN OpenedWhole(s) = DOMAIN s
             /\ \A i \in DOMAIN s : OpenedWhole(s)[i].token = s[i].token
    OBVIOUS
  <2>1. \A l \in Lines : Opened(l) \in Lines /\ Opened(l).token = l.token /\ ~ Opened(l).sealed
    BY DEF Opened, Lines
  <2>2. DOMAIN s = 1..Len(s) /\ Len(s) \in Nat /\ \A i \in 1..Len(s) : s[i] \in Lines
    OBVIOUS
  <2>3. /\ OpenedAll(s) = [i \in 1..Len(s) |-> Opened(s[i])]
        /\ OpenedWhole(s) = [i \in 1..Len(s) |-> IF s[i].whole THEN Opened(s[i]) ELSE s[i]]
    BY <2>2 DEF OpenedAll, OpenedWhole
  <2>4. OpenedAll(s) \in [1..Len(s) -> Lines] /\ OpenedWhole(s) \in [1..Len(s) -> Lines]
    BY <2>1, <2>2, <2>3
  <2>5. OpenedAll(s) \in Seq(Lines) /\ OpenedWhole(s) \in Seq(Lines)
    BY <2>2, <2>4, SeqDef
  <2>6. QED
    BY <2>1, <2>2, <2>3, <2>5
<1>5. /\ got \in Seq(Lines) /\ DOMAIN got = DOMAIN sent /\ \A i \in DOMAIN sent : got[i].token = sent[i].token
      /\ call.client = "exchange" \/ ~ call.stream => \A i \in DOMAIN got : ~ got[i].sealed
  <2>1. got = IF call.client = "transport" /\ call.stream THEN OpenedWhole(sent) ELSE OpenedAll(sent)
    BY DEF Received, sent
  <2> HIDE DEF got
  <2>2. CASE call.client = "transport" /\ call.stream
    BY <1>3, <1>4, <2>1, <2>2
  <2>3. CASE ~ (call.client = "transport" /\ call.stream)
    BY <1>3, <1>4, <2>1, <2>3
  <2>4. QED
    BY <2>2, <2>3
<1>6. call' = [call EXCEPT !.phase = "ok", !.got = got]
  BY DEF Ends
<1> HIDE DEF got
<1>7. /\ call' \in Calls /\ call'.phase = "ok" /\ call'.got = got /\ call'.lines = lines /\ call'.stream = call.stream
      /\ call'.agent = call.agent /\ call'.client = call.client /\ call'.sealedFor = call.sealedFor
  BY <1>5, <1>6 DEF SdkIInv, Calls, Phases
<1>8. PlacesAreKept'
  <2> SUFFICES ASSUME managed, call.stream \/ call.client = "transport"
      PROVE  [i \in DOMAIN got |-> got[i].token] = [i \in DOMAIN lines |-> i]
    BY <1>7 DEF PlacesAreKept
  <2>1. QED
    BY <1>2, <1>3, <1>5
<1>9. RepliesAreReadable'
  BY <1>5, <1>7 DEF RepliesAreReadable
<1>10. LinesAreTheAgents'
  BY <1>7 DEF SdkIInv, LinesAreTheAgents
<1>11. QED
  BY <1>1, <1>7, <1>8, <1>9, <1>10 DEF SdkIInv, Ends, ListedHaveKeys, NumbersAreTaken, ServedIsDiscovered

(* A call of a client library reaches only the agent, in the process, whose  *)
(* key it sealed the prompt for, its number is fresh, and its reply comes    *)
(* back token by token, for any number of agents, restarts and calls.        *)
THEOREM CallsAlwaysFaithful == SdkSpec => []CallsAreFaithful
<1>1. SdkIInv /\ [SdkNext]_sdkVars => SdkIInv'
  <2> SUFFICES ASSUME SdkIInv, [SdkNext]_sdkVars PROVE SdkIInv'
    OBVIOUS
  <2>1. CASE UNCHANGED sdkVars
    BY <2>1 DEF sdkVars, SdkIInv, ListedHaveKeys, NumbersAreTaken, LinesAreTheAgents,
       ServedIsDiscovered, BoxFor, PlacesAreKept, RepliesAreReadable
  <2>2. ASSUME Discovers PROVE SdkIInv'
    BY <2>2, DiscoverStep, PhaseStep DEF Discovers
  <2>3. ASSUME PostsPlain PROVE SdkIInv'
    BY <2>3, PhaseStep DEF PostsPlain
  <2>4. ASSUME ConnectionFails PROVE SdkIInv'
    BY <2>4, PhaseStep DEF ConnectionFails
  <2>5. ASSUME FallsBack PROVE SdkIInv'
    BY <2>5, PhaseStep DEF FallsBack
  <2>6. ASSUME NobodyServes PROVE SdkIInv'
    BY <2>6, PhaseStep DEF NobodyServes
  <2>7. QED
    BY <2>1, <2>2, <2>3, <2>4, <2>5, <2>6, AgentStep, BeginStep, SealStep, RelayStep, SayStep, EndStep
    DEF SdkNext
<1>2. SdkIInv => CallsAreFaithful
  <2> SUFFICES ASSUME SdkIInv PROVE CallsAreFaithful
    OBVIOUS
  <2>1. posted = [i \in 1..transport.sequence |-> i - 1] /\ transport.sequence \in Nat
    BY DEF SdkIInv, NumbersAreTaken
  <2>2. Len(posted) = transport.sequence /\ NumbersAreFresh
    BY <2>1 DEF NumbersAreFresh
  <2>3. SdkTypeOK
    BY <2>2 DEF SdkIInv, SdkTypeOK, Calls, NumbersAreTaken, LinesAreTheAgents, Boxes
  <2>4. OnlyTheDiscoveredServes
    BY DEF SdkIInv, ServedIsDiscovered, OnlyTheDiscoveredServes
  <2>5. QED
    BY <2>2, <2>3, <2>4 DEF SdkIInv, CallsAreFaithful
<1>3. QED
  BY SdkStarts, <1>1, <1>2, PTL DEF SdkSpec

-----------------------------------------------------------------------------
(* Throttles                                                                *)

\* Windows.  What is not older than the window is the end of the list.

Recent(times, window, now) ==
    FoldLeft(LAMBDA kept, t : IF now - t < window THEN Append(kept, t) ELSE kept, <<>>, times)

Ordered(times) == \A i, j \in 1..Len(times) : i <= j => times[i] <= times[j]

IsTail(end, times, m) ==
    /\ m \in 0..Len(times) /\ Len(end) = Len(times) - m
    /\ \A i \in 1..Len(end) : end[i] = times[m + i]

\* The list keeps all but the first m, and these are older than the window
KeepsFrom(end, times, m, window, now) ==
    IsTail(end, times, m) /\ \A i \in 1..m : now - times[i] >= window

\* What a filter over the first k times has kept
Filtered(kept, times, k, m, window, now) ==
    /\ m \in 0..k /\ kept \in Seq(0..now) /\ Len(kept) = k - m
    /\ \A i \in 1..Len(kept) : kept[i] = times[m + i]
    /\ \A i \in 1..m : now - times[i] >= window
    /\ \A i \in (m + 1)..k : now - times[i] < window

LEMMA FilterOneMore ==
  ASSUME NEW now \in Nat, NEW window \in Nat, NEW times \in Seq(0..now), Ordered(times),
         NEW k \in Nat, k + 1 <= Len(times), NEW m, NEW kept, Filtered(kept, times, k, m, window, now)
  PROVE  IF now - times[k + 1] < window
         THEN Filtered(Append(kept, times[k + 1]), times, k + 1, m, window, now)
         ELSE Filtered(kept, times, k + 1, k + 1, window, now)
<1>1. /\ m \in 0..k /\ kept \in Seq(0..now) /\ Len(kept) = k - m
      /\ \A i \in 1..Len(kept) : kept[i] = times[m + i]
      /\ \A i \in 1..m : now - times[i] >= window
      /\ \A i \in (m + 1)..k : now - times[i] < window
  BY DEF Filtered
<1>2. /\ \A i \in 1..(k + 1) : times[i] \in Int
      /\ times[k + 1] \in 0..now
  OBVIOUS
<1>3. CASE now - times[k + 1] < window
  <2> DEFINE more == Append(kept, times[k + 1])
  <2>1. /\ more \in Seq(0..now) /\ Len(more) = Len(kept) + 1
        /\ \A i \in 1..Len(kept) : more[i] = kept[i]
        /\ more[Len(kept) + 1] = times[k + 1]
    <3> DEFINE t == times[k + 1]
               S == 0..now
    <3>1. t \in S /\ kept \in Seq(S)
      BY <1>1, <1>2
    <3> HIDE DEF t, S
    <3>2. /\ Append(kept, t) \in Seq(S) /\ Len(Append(kept, t)) = Len(kept) + 1
          /\ \A i \in 1..Len(kept) : Append(kept, t)[i] = kept[i]
          /\ Append(kept, t)[Len(kept) + 1] = t
      BY <3>1, AppendProperties
    <3>3. QED
      BY <3>2 DEF S, t
  <2> HIDE DEF more
  <2>2. Len(more) = (k + 1) - m /\ Len(kept) + 1 = (k + 1) - m /\ m \in 0..(k + 1)
    BY <1>1, <2>1
  <2>3. \A i \in 1..Len(more) : more[i] = times[m + i]
    <3> SUFFICES ASSUME NEW i \in 1..Len(more) PROVE more[i] = times[m + i]
      OBVIOUS
    <3>1. CASE i \in 1..Len(kept)
      BY <1>1, <2>1, <3>1
    <3>2. CASE i = Len(kept) + 1
      <4>1. m + i = k + 1
        BY <1>1, <2>2, <3>2
      <4>2. QED
        BY <2>1, <3>2, <4>1
    <3>3. QED
      BY <1>1, <2>1, <3>1, <3>2
  <2>4. \A i \in (m + 1)..(k + 1) : now - times[i] < window
    <3>1. \A i \in (m + 1)..(k + 1) : i \in (m + 1)..k \/ i = k + 1
      BY <1>1
    <3>2. QED
      BY <1>1, <1>3, <3>1
  <2>5. Filtered(more, times, k + 1, m, window, now)
    BY <1>1, <2>1, <2>2, <2>3, <2>4 DEF Filtered
  <2>6. QED
    BY <1>3, <2>5 DEF more
<1>4. CASE ~ (now - times[k + 1] < window)
  <2>1. \A i \in 1..(k + 1) : times[i] <= times[k + 1]
    BY DEF Ordered
  <2>2. \A i \in 1..(k + 1) : now - times[i] >= window
    BY <1>2, <1>4, <2>1
  <2>3. m = k
    <3>1. SUFFICES ASSUME m # k PROVE FALSE
      OBVIOUS
    <3>2. k \in (m + 1)..k /\ k \in 1..(k + 1)
      BY <1>1, <3>1
    <3>3. now - times[k] < window /\ now - times[k] >= window
      BY <1>1, <2>2, <3>2
    <3>4. times[k] \in Int
      BY <1>2, <3>2
    <3>5. QED
      BY <3>3, <3>4
  <2>4. Len(kept) = 0 /\ (k + 1) - (k + 1) = 0 /\ k + 1 \in 0..(k + 1)
    BY <1>1, <2>3
  <2>5. \A i \in ((k + 1) + 1)..(k + 1) : FALSE
    OBVIOUS
  <2>6. \A i \in 1..Len(kept) : FALSE
    BY <2>4
  <2>7. Filtered(kept, times, k + 1, k + 1, window, now)
    BY <1>1, <2>2, <2>4, <2>5, <2>6 DEF Filtered
  <2>8. QED
    BY <1>4, <2>7
<1>5. QED
  BY <1>3, <1>4

LEMMA RecentIsFiltered ==
  ASSUME NEW now \in Nat, NEW window \in Nat, NEW times \in Seq(0..now), Ordered(times)
  PROVE  \E m : Filtered(Recent(times, window, now), times, Len(times), m, window, now)
<1> DEFINE n == Len(times)
           A == Seq(0..now)
           base == <<>>
           step == [x \in A \X (1..n) |-> IF now - times[x[2]] < window
                                          THEN Append(x[1], times[x[2]]) ELSE x[1]]
           Body(h) == [u \in SUBSET (1..n) |->
                         IF u = {} THEN base
                         ELSE IF now - times[Max(u)] < window
                              THEN Append(h[u \ {Max(u)}], times[Max(u)]) ELSE h[u \ {Max(u)}]]
           g == CHOOSE h : h = Body(h)
<1>0. n \in Nat /\ DOMAIN times = 1..n /\ \A i \in 1..n : times[i] \in 0..now
  OBVIOUS
<1>1. base \in A /\ step \in [A \X (1..n) -> A]
  <2>1. \A x \in A, q \in 1..n : Append(x, times[q]) \in A
    BY <1>0, AppendProperties
  <2> HIDE DEF A
  <2>2. \A x \in A \X (1..n) : x[1] \in A /\ Append(x[1], times[x[2]]) \in A
    BY <2>1
  <2>3. base \in A
    BY DEF A
  <2>4. QED
    BY <2>2, <2>3
<1>2. \E f : f = Body(f)
  <2> HIDE DEF A, base, n
  <2>1. PICK f : IsFold(A, base, step, n, f)
    <3> HIDE DEF step
    <3>1. QED
      BY <1>0, <1>1, FoldExists
  <2>2. \A u \in SUBSET (1..n) : u # {} => Max(u) \in 1..n /\ u \ {Max(u)} \in SUBSET (1..n)
    BY <1>0, Greatest
  <2>3. \A u \in SUBSET (1..n) : u # {} =>
          step[<<f[u \ {Max(u)}], Max(u)>>] = IF now - times[Max(u)] < window
                              THEN Append(f[u \ {Max(u)}], times[Max(u)]) ELSE f[u \ {Max(u)}]
    BY <2>1, <2>2 DEF IsFold
  <2> HIDE DEF step
  <2>4. f = Body(f)
    BY <2>1, <2>3 DEF IsFold
  <2>5. QED
    BY <2>4
<1>3. g = Body(g)
  <2> HIDE DEF Body
  <2>1. QED
    BY <1>2
<1>4. Recent(times, window, now) = g[1..n]
  BY <1>0 DEF Recent, FoldLeft, MapThenFoldSet
<1> HIDE DEF g
<1>5. g[1..0] = <<>>
  BY <1>0, <1>3, OneMore
<1> DEFINE S == {k \in Nat : k <= n => \E m : Filtered(g[1..k], times, k, m, window, now)}
<1>6. 0 \in S
  <2>1. <<>> \in Seq(0..now) /\ Len(<<>>) = 0
    OBVIOUS
  <2>2. Filtered(<<>>, times, 0, 0, window, now)
    BY <2>1 DEF Filtered
  <2>3. QED
    BY <1>5, <2>2
<1>7. ASSUME NEW k \in Nat, k \in S PROVE k + 1 \in S
  <2> SUFFICES ASSUME k + 1 <= n PROVE \E m : Filtered(g[1..(k + 1)], times, k + 1, m, window, now)
    OBVIOUS
  <2>1. PICK m : Filtered(g[1..k], times, k, m, window, now)
    BY <1>0, <1>7
  <2>2. 1..(k + 1) \in SUBSET (1..n)
    BY <1>0
  <2>3. 1..(k + 1) # {} /\ Max(1..(k + 1)) = k + 1 /\ (1..(k + 1)) \ {k + 1} = 1..k
    BY OneMore
  <2> DEFINE all == 1..(k + 1)
  <2> HIDE DEF all, base
  <2>4. g[all] = IF now - times[Max(all)] < window
                 THEN Append(g[all \ {Max(all)}], times[Max(all)]) ELSE g[all \ {Max(all)}]
    BY <1>3, <2>2, <2>3 DEF all
  <2>5. g[all] = IF now - times[k + 1] < window THEN Append(g[1..k], times[k + 1]) ELSE g[1..k]
    BY <2>3, <2>4 DEF all
  <2>6. IF now - times[k + 1] < window
        THEN Filtered(Append(g[1..k], times[k + 1]), times, k + 1, m, window, now)
        ELSE Filtered(g[1..k], times, k + 1, k + 1, window, now)
    BY <2>1, FilterOneMore
  <2>7. QED
    BY <2>5, <2>6 DEF all
<1>8. n \in S
  <2> HIDE DEF S
  <2>1. QED
    BY <1>0, <1>6, <1>7, SetInduction
<1>9. QED
  BY <1>0, <1>4, <1>8

\* A list of the throttle next to its history: the list is the end of the history, what
\* was dropped is older than the window, and the history keeps the limit.
Watched(list, times, limit, window, now) ==
    /\ list \in Seq(0..now) /\ times \in Seq(0..now) /\ Ordered(times)
    /\ LimitedTo(limit, window, times)
    /\ \E m : KeepsFrom(list, times, m, window, now)

LEMMA WatchedFirst ==
  ASSUME NEW now \in Nat, NEW limit, NEW window
  PROVE  Watched(<<>>, <<>>, limit, window, now)
<1>1. <<>> \in Seq(0..now) /\ Len(<<>>) = 0 /\ DOMAIN <<>> = {}
  OBVIOUS
<1>2. KeepsFrom(<<>>, <<>>, 0, window, now)
  BY <1>1 DEF KeepsFrom, IsTail
<1>3. Ordered(<<>>) /\ LimitedTo(limit, window, <<>>)
  BY <1>1 DEF Ordered, LimitedTo
<1>4. QED
  BY <1>1, <1>2, <1>3 DEF Watched

LEMMA LaterTimes ==
  ASSUME NEW now \in Nat, NEW s \in Seq(0..now)
  PROVE  s \in Seq(0..(now + 1))
<1>1. \A i \in 1..Len(s) : s[i] \in 0..(now + 1)
  OBVIOUS
<1>2. QED
  BY <1>1

LEMMA WatchedLater ==
  ASSUME NEW now \in Nat, NEW list, NEW times, NEW limit, NEW window \in Nat,
         Watched(list, times, limit, window, now)
  PROVE  Watched(list, times, limit, window, now + 1)
<1>1. PICK m : KeepsFrom(list, times, m, window, now)
  BY DEF Watched
<1>2. list \in Seq(0..now) /\ times \in Seq(0..now)
  BY DEF Watched
<1>3. list \in Seq(0..(now + 1)) /\ times \in Seq(0..(now + 1))
  BY <1>2, LaterTimes
<1>4. \A i \in 1..m : (now + 1) - times[i] >= window
  <2> SUFFICES ASSUME NEW i \in 1..m PROVE (now + 1) - times[i] >= window
    OBVIOUS
  <2>1. m \in 0..Len(times) /\ now - times[i] >= window
    BY <1>1 DEF KeepsFrom, IsTail
  <2>2. times[i] \in Int
    BY <1>2, <2>1
  <2>3. QED
    BY <2>1, <2>2
<1>5. KeepsFrom(list, times, m, window, now + 1)
  BY <1>1, <1>4 DEF KeepsFrom
<1>6. QED
  BY <1>3, <1>5 DEF Watched

\* What the filter keeps of the list is what is recent in the history.
LEMMA RecentOfHistory ==
  ASSUME NEW now \in Nat, NEW list, NEW times, NEW limit, NEW window \in Nat,
         Watched(list, times, limit, window, now)
  PROVE  LET kept == Recent(list, window, now)
         IN  /\ kept \in Seq(0..now)
             /\ \E q : /\ KeepsFrom(kept, times, q, window, now)
                       /\ \A i \in (q + 1)..Len(times) : now - times[i] < window
<1> DEFINE kept == Recent(list, window, now)
<1>1. PICK m : KeepsFrom(list, times, m, window, now)
  BY DEF Watched
<1>2. list \in Seq(0..now) /\ times \in Seq(0..now) /\ Ordered(times)
  BY DEF Watched
<1>3. /\ m \in 0..Len(times) /\ Len(list) = Len(times) - m
      /\ \A i \in 1..Len(list) : list[i] = times[m + i]
      /\ \A i \in 1..m : now - times[i] >= window
  BY <1>1 DEF KeepsFrom, IsTail
<1>4. Ordered(list)
  <2> SUFFICES ASSUME NEW i \in 1..Len(list), NEW j \in 1..Len(list), i <= j
               PROVE  list[i] <= list[j]
    BY DEF Ordered
  <2>1. m + i \in 1..Len(times) /\ m + j \in 1..Len(times) /\ m + i <= m + j
    BY <1>2, <1>3
  <2>2. times[m + i] <= times[m + j]
    BY <1>2, <2>1 DEF Ordered
  <2>3. QED
    BY <1>3, <2>2
<1>5. PICK r : Filtered(kept, list, Len(list), r, window, now)
  BY <1>2, <1>4, RecentIsFiltered
<1> HIDE DEF kept
<1>6. /\ r \in 0..Len(list) /\ kept \in Seq(0..now) /\ Len(kept) = Len(list) - r
      /\ \A i \in 1..Len(kept) : kept[i] = list[r + i]
      /\ \A i \in 1..r : now - list[i] >= window
      /\ \A i \in (r + 1)..Len(list) : now - list[i] < window
  BY <1>5 DEF Filtered
<1> DEFINE q == m + r
<1>7. Len(list) \in Nat /\ Len(times) \in Nat /\ m \in Int /\ r \in Int
  BY <1>2, <1>3, <1>6
<1>8. q \in 0..Len(times) /\ Len(kept) = Len(times) - q
  BY <1>3, <1>6, <1>7
<1>9. \A i \in 1..Len(kept) : kept[i] = times[q + i]
  <2> SUFFICES ASSUME NEW i \in 1..Len(kept) PROVE kept[i] = times[q + i]
    OBVIOUS
  <2>1. r + i \in 1..Len(list) /\ m + (r + i) = q + i
    BY <1>6, <1>7
  <2>2. kept[i] = list[r + i] /\ list[r + i] = times[m + (r + i)]
    BY <1>3, <1>6, <2>1
  <2>3. QED
    BY <2>1, <2>2
<1>10. \A i \in (m + 1)..Len(times) : i - m \in 1..Len(list) /\ times[i] = list[i - m]
  <2> SUFFICES ASSUME NEW i \in (m + 1)..Len(times)
               PROVE  i - m \in 1..Len(list) /\ times[i] = list[i - m]
    OBVIOUS
  <2>1. i - m \in 1..Len(list) /\ m + (i - m) = i
    BY <1>3, <1>7
  <2>2. list[i - m] = times[m + (i - m)]
    BY <1>3, <2>1
  <2>3. QED
    BY <2>1, <2>2
<1>11. \A i \in 1..q : now - times[i] >= window
  <2> SUFFICES ASSUME NEW i \in 1..q PROVE now - times[i] >= window
    OBVIOUS
  <2>1. CASE i <= m
    BY <1>3, <1>7, <2>1
  <2>2. CASE ~ (i <= m)
    <3>1. i \in (m + 1)..Len(times) /\ i - m \in 1..r
      BY <1>7, <1>8, <2>2
    <3>2. QED
      BY <1>6, <1>10, <3>1
  <2>3. QED
    BY <2>1, <2>2
<1>12. \A i \in (q + 1)..Len(times) : now - times[i] < window
  <2> SUFFICES ASSUME NEW i \in (q + 1)..Len(times) PROVE now - times[i] < window
    OBVIOUS
  <2>1. i \in (m + 1)..Len(times)
    BY <1>6, <1>7
  <2>2. i - m \in (r + 1)..Len(list)
    BY <1>7, <1>10, <2>1
  <2>3. QED
    BY <1>6, <1>10, <2>1, <2>2
<1>13. KeepsFrom(kept, times, q, window, now)
  BY <1>8, <1>9, <1>11 DEF KeepsFrom, IsTail
<1>14. QED
  BY <1>6, <1>12, <1>13 DEF kept

LEMMA WatchedKept ==
  ASSUME NEW now \in Nat, NEW list, NEW times, NEW limit, NEW window \in Nat,
         Watched(list, times, limit, window, now)
  PROVE  Watched(Recent(list, window, now), times, limit, window, now)
<1> DEFINE kept == Recent(list, window, now)
<1>1. kept \in Seq(0..now) /\ \E q : KeepsFrom(kept, times, q, window, now)
  BY RecentOfHistory
<1> HIDE DEF kept
<1>2. Watched(kept, times, limit, window, now)
  BY <1>1 DEF Watched
<1>3. QED
  BY <1>2 DEF kept

\* A caller has used up exactly what it was let through for.
LEMMA WatchedCount ==
  ASSUME NEW now \in Nat, NEW list, NEW times, NEW limit, NEW window \in Nat,
         Watched(list, times, limit, window, now)
  PROVE  Len(Recent(list, window, now)) = Cardinality({i \in DOMAIN times : now - times[i] < window})
<1> DEFINE kept == Recent(list, window, now)
<1>1. PICK q : /\ KeepsFrom(kept, times, q, window, now)
               /\ \A i \in (q + 1)..Len(times) : now - times[i] < window
  BY RecentOfHistory
<1>2. times \in Seq(0..now)
  BY DEF Watched
<1> HIDE DEF kept
<1>3. /\ q \in 0..Len(times) /\ Len(kept) = Len(times) - q
      /\ \A i \in 1..q : now - times[i] >= window
  BY <1>1 DEF KeepsFrom, IsTail
<1>4. {i \in DOMAIN times : now - times[i] < window} = (q + 1)..Len(times)
  <2>1. DOMAIN times = 1..Len(times) /\ Len(times) \in Nat /\ \A i \in 1..Len(times) : times[i] \in Int
    BY <1>2
  <2>2. \A i \in DOMAIN times : now - times[i] < window <=> i \in (q + 1)..Len(times)
    <3> SUFFICES ASSUME NEW i \in 1..Len(times)
                 PROVE  now - times[i] < window <=> i \in (q + 1)..Len(times)
      BY <2>1
    <3>1. CASE i \in 1..q
      BY <1>3, <2>1, <3>1
    <3>2. CASE i \in (q + 1)..Len(times)
      BY <1>1, <3>2
    <3>3. QED
      BY <1>3, <2>1, <3>1, <3>2
  <2>3. (q + 1)..Len(times) \subseteq DOMAIN times
    BY <1>3, <2>1
  <2>4. QED
    BY <2>2, <2>3
<1>5. Cardinality((q + 1)..Len(times)) = Len(times) - q
  <2>1. q + 1 \in Int /\ Len(times) \in Int /\ q \in Int /\ q <= Len(times)
    BY <1>2, <1>3
  <2>2. Cardinality((q + 1)..Len(times)) = IF q + 1 > Len(times) THEN 0 ELSE Len(times) - (q + 1) + 1
    BY <2>1, FS_Interval
  <2>3. QED
    BY <2>1, <2>2
<1>6. QED
  BY <1>3, <1>4, <1>5 DEF kept

\* Who is let through stays within the limit.
LEMMA WatchedPass ==
  ASSUME NEW now \in Nat, NEW list, NEW times, NEW limit \in Nat \ {0}, NEW window \in Nat,
         Watched(list, times, limit, window, now),
         Len(Recent(list, window, now)) < limit
  PROVE  Watched(Append(Recent(list, window, now), now), Append(times, now), limit, window, now)
<1> DEFINE kept == Recent(list, window, now)
           more == Append(kept, now)
           after == Append(times, now)
           n == Len(times)
<1>1. kept \in Seq(0..now) /\ \E q : KeepsFrom(kept, times, q, window, now)
  BY RecentOfHistory
<1>0. Len(kept) < limit
  OBVIOUS
<1> HIDE DEF kept
<1>2. PICK q : KeepsFrom(kept, times, q, window, now)
  BY <1>1
<1>3. times \in Seq(0..now) /\ Ordered(times) /\ LimitedTo(limit, window, times)
  BY DEF Watched
<1>4. /\ q \in 0..n /\ Len(kept) = n - q
      /\ \A i \in 1..Len(kept) : kept[i] = times[q + i]
      /\ \A i \in 1..q : now - times[i] >= window
  BY <1>2 DEF KeepsFrom, IsTail
<1>5. now \in 0..now /\ n \in Nat /\ \A i \in 1..n : times[i] \in 0..now
  BY <1>3
<1>6. /\ more \in Seq(0..now) /\ Len(more) = Len(kept) + 1 /\ more[Len(kept) + 1] = now
      /\ \A i \in 1..Len(kept) : more[i] = kept[i]
  BY <1>1, <1>5, AppendProperties
<1>7. /\ after \in Seq(0..now) /\ Len(after) = n + 1 /\ after[n + 1] = now
      /\ \A i \in 1..n : after[i] = times[i]
  BY <1>3, <1>5, AppendProperties
<1> HIDE DEF more, after
<1>8. Ordered(after)
  <2> SUFFICES ASSUME NEW i \in 1..(n + 1), NEW j \in 1..(n + 1), i <= j
               PROVE  after[i] <= after[j]
    BY <1>7 DEF Ordered
  <2>1. CASE j = n + 1
    <3>1. after[i] \in 0..now
      BY <1>7
    <3>2. QED
      BY <1>7, <2>1, <3>1
  <2>2. CASE j # n + 1
    <3>1. i \in 1..n /\ j \in 1..n
      BY <1>5, <2>2
    <3>2. QED
      BY <1>3, <1>7, <3>1 DEF Ordered
  <2>3. QED
    BY <2>1, <2>2
<1>9. LimitedTo(limit, window, after)
  <2> SUFFICES ASSUME NEW i \in 1..(n + 1), i + limit \in 1..(n + 1)
               PROVE  after[i + limit] - after[i] >= window
    BY <1>7 DEF LimitedTo
  <2>1. CASE i + limit = n + 1
    <3>1. i \in 1..q /\ i \in 1..n
      BY <1>0, <1>4, <1>5, <2>1
    <3>2. QED
      BY <1>4, <1>7, <2>1, <3>1
  <2>2. CASE i + limit # n + 1
    <3>1. i \in 1..n /\ i + limit \in 1..n
      BY <1>5, <2>2
    <3>2. DOMAIN times = 1..n
      BY <1>3
    <3>3. times[i + limit] - times[i] >= window
      BY <1>3, <3>1, <3>2 DEF LimitedTo
    <3>4. QED
      BY <1>7, <3>1, <3>3
  <2>3. QED
    BY <2>1, <2>2
<1>10. KeepsFrom(more, after, q, window, now)
  <2>1. q \in 0..(n + 1) /\ Len(more) = (n + 1) - q
    BY <1>4, <1>5, <1>6
  <2>2. \A i \in 1..Len(more) : more[i] = after[q + i]
    <3> SUFFICES ASSUME NEW i \in 1..Len(more) PROVE more[i] = after[q + i]
      OBVIOUS
    <3>1. CASE i = Len(kept) + 1
      <4>1. q + i = n + 1
        BY <1>4, <1>5, <3>1
      <4>2. QED
        BY <1>6, <1>7, <3>1, <4>1
    <3>2. CASE i # Len(kept) + 1
      <4>1. i \in 1..Len(kept) /\ q + i \in 1..n
        BY <1>4, <1>5, <1>6, <3>2
      <4>2. QED
        BY <1>4, <1>6, <1>7, <4>1
    <3>3. QED
      BY <3>1, <3>2
  <2>3. \A i \in 1..q : now - after[i] >= window
    <3>1. \A i \in 1..q : i \in 1..n
      BY <1>4, <1>5
    <3>2. QED
      BY <1>4, <1>7, <3>1
  <2>4. QED
    BY <1>7, <2>1, <2>2, <2>3 DEF KeepsFrom, IsTail
<1>11. Watched(more, after, limit, window, now)
  BY <1>6, <1>7, <1>8, <1>9, <1>10 DEF Watched
<1>12. QED
  BY <1>11 DEF more, after, kept

-----------------------------------------------------------------------------
\* Buckets.  What a run of requests cost and what is left never come to more than
\* the burst and what the time since the first of them brought back.

Cost(q) == PerRequest * q

\* No run of the requests was more than the burst and what came back during it
InBurst(times) ==
    \A i, j \in DOMAIN times : i <= j => PerRequest * (j - i + 1) <= Full + (times[j] - times[i])

\* A bucket, and the times its owner was let through
Spent(b, times, now) ==
    /\ times \in Seq(0..now) /\ InBurst(times)
    /\ \/ b = Absent /\ times = <<>>
       \/ /\ b \in [units : 0..Full, at : 0..now]
          /\ \A i \in 1..Len(times) :
                /\ times[i] <= b.at
                /\ Cost((Len(times) - i) + 1) + b.units <= Full + (b.at - times[i])

\* What a bucket that was refilled to u units, and not used, knows of the times
Covers(u, times, now) ==
    \A i \in 1..Len(times) : Cost((Len(times) - i) + 1) + u <= Full + (now - times[i])

LEMMA Costs ==
  /\ \A q \in Int : Cost(q) \in Int /\ Cost(q + 1) = Cost(q) + PerRequest
  /\ Cost(1) = PerRequest /\ Cost(0) = 0
  /\ Full \in Nat /\ PerRequest \in Nat \ {0} /\ PerRequest <= Full
<1>1. PerRequest \in Nat \ {0} /\ Burst \in Nat \ {0}
  BY ThrottlesAssumption
<1>2. \A q \in Int : Cost(q) \in Int /\ Cost(q + 1) = Cost(q) + PerRequest
  BY <1>1 DEF Cost
<1>3. Cost(1) = PerRequest /\ Cost(0) = 0
  BY <1>1 DEF Cost
<1>4. Full \in Nat /\ PerRequest <= Full
  BY <1>1 DEF Full
<1>5. QED
  BY <1>1, <1>2, <1>3, <1>4

LEMMA AbsentIsNoBucket ==
  ASSUME NEW n, NEW b \in [units : 0..Full, at : 0..n]
  PROVE  b # Absent
<1>1. b.units \in 0..Full
  OBVIOUS
<1>2. Absent.units = -1
  BY DEF Absent
<1>3. QED
  BY <1>1, <1>2, Costs

LEMMA SpentFirst ==
  ASSUME NEW now \in Nat
  PROVE  Spent(Absent, <<>>, now)
<1>1. <<>> \in Seq(0..now) /\ DOMAIN <<>> = {}
  OBVIOUS
<1>2. InBurst(<<>>)
  BY <1>1 DEF InBurst
<1>3. QED
  BY <1>1, <1>2 DEF Spent

LEMMA SpentLater ==
  ASSUME NEW now \in Nat, NEW b, NEW times, Spent(b, times, now)
  PROVE  Spent(b, times, now + 1)
<1>1. times \in Seq(0..(now + 1))
  BY LaterTimes DEF Spent
<1>2. b \in [units : 0..Full, at : 0..now] => b \in [units : 0..Full, at : 0..(now + 1)]
  OBVIOUS
<1>3. QED
  BY <1>1, <1>2 DEF Spent

\* The refilled bucket covers the times
LEMMA RefillCovers ==
  ASSUME NEW now \in Nat, NEW b, NEW times, Spent(b, times, now), NEW u,
         u = IF b = Absent THEN Full
             ELSE IF b.units + (now - b.at) > Full THEN Full ELSE b.units + (now - b.at)
  PROVE  u \in 0..Full /\ Covers(u, times, now)
<1>1. times \in Seq(0..now)
  BY DEF Spent
<1>2. CASE b = Absent /\ times = <<>>
  <2>1. Len(times) = 0 /\ u = Full
    BY <1>2
  <2>2. Covers(u, times, now)
    BY <2>1 DEF Covers
  <2>3. Full \in 0..Full
    BY Costs
  <2>4. QED
    BY <2>1, <2>2, <2>3
<1>3. CASE ~ (b = Absent /\ times = <<>>)
  <2>1. /\ b \in [units : 0..Full, at : 0..now]
        /\ \A i \in 1..Len(times) :
              /\ times[i] <= b.at
              /\ Cost((Len(times) - i) + 1) + b.units <= Full + (b.at - times[i])
    BY <1>3 DEF Spent
  <2>2. b.units \in 0..Full /\ b.at \in 0..now /\ Full \in Nat
    BY <2>1, Costs
  <2>3. b # Absent
    BY <2>1, AbsentIsNoBucket
  <2> HIDE DEF Full
  <2>4. u \in 0..Full /\ u <= b.units + (now - b.at)
    BY <2>2, <2>3
  <2>5. ASSUME NEW i \in 1..Len(times)
        PROVE  Cost((Len(times) - i) + 1) + u <= Full + (now - times[i])
    <3> DEFINE c == Cost((Len(times) - i) + 1)
    <3>1. c \in Int
      BY <1>1, Costs
    <3>2. times[i] \in 0..now
      BY <1>1
    <3>3. c + b.units <= Full + (b.at - times[i])
      BY <2>1
    <3> DEFINE y == b.units
               z == b.at
               v == times[i]
    <3>4. y \in Int /\ z \in Int /\ v \in Int /\ u \in Int /\ u <= y + (now - z) /\ c + y <= Full + (z - v)
      BY <2>2, <2>4, <3>2, <3>3
    <3> HIDE DEF c, y, z, v
    <3>5. c + u <= Full + (now - v)
      BY <2>2, <3>1, <3>4
    <3>6. QED
      BY <3>5 DEF c, v
  <2>6. QED
    BY <2>4, <2>5 DEF Covers
<1>4. QED
  BY <1>2, <1>3

LEMMA SpentRefused ==
  ASSUME NEW now \in Nat, NEW times \in Seq(0..now), InBurst(times),
         NEW u \in 0..Full, Covers(u, times, now)
  PROVE  Spent([units |-> u, at |-> now], times, now)
<1> DEFINE b == [units |-> u, at |-> now]
<1>1. b \in [units : 0..Full, at : 0..now] /\ b.units = u /\ b.at = now
  OBVIOUS
<1>2. \A i \in 1..Len(times) : times[i] <= now
  OBVIOUS
<1> HIDE DEF b
<1>3. \A i \in 1..Len(times) :
         /\ times[i] <= b.at
         /\ Cost((Len(times) - i) + 1) + b.units <= Full + (b.at - times[i])
  BY <1>1, <1>2 DEF Covers
<1>4. Spent(b, times, now)
  BY <1>1, <1>3 DEF Spent
<1>5. QED
  BY <1>4 DEF b

LEMMA SpentPass ==
  ASSUME NEW now \in Nat, NEW times \in Seq(0..now), InBurst(times),
         NEW u \in 0..Full, Covers(u, times, now), u >= PerRequest
  PROVE  Spent([units |-> u - PerRequest, at |-> now], Append(times, now), now)
<1> DEFINE n == Len(times)
           after == Append(times, now)
<1>1. now \in 0..now /\ n \in Nat /\ DOMAIN times = 1..n /\ \A i \in 1..n : times[i] \in 0..now
  OBVIOUS
<1>2. /\ after \in Seq(0..now) /\ Len(after) = n + 1 /\ after[n + 1] = now /\ DOMAIN after = 1..(n + 1)
      /\ \A i \in 1..n : after[i] = times[i]
  BY <1>1, AppendProperties
<1> HIDE DEF after, n
<1> DEFINE rest == u - PerRequest
<1>3. rest \in 0..Full /\ u = rest + PerRequest /\ u <= Full /\ Full \in Nat /\ PerRequest \in Nat
  BY Costs
<1> HIDE DEF rest, Full
<1>4. ASSUME NEW i \in 1..(n + 1)
      PROVE  /\ after[i] <= now /\ after[i] \in Int
             /\ Cost(((n + 1) - i) + 1) + rest <= Full + (now - after[i])
  <2>1. CASE i = n + 1
    <3>1. ((n + 1) - i) + 1 = 1
      BY <1>1, <2>1
    <3>2. Cost(((n + 1) - i) + 1) = PerRequest
      BY <3>1, Costs
    <3>3. after[i] = now
      BY <1>2, <2>1
    <3>4. QED
      BY <1>3, <3>2, <3>3
  <2>2. CASE i # n + 1
    <3>1. i \in 1..n
      BY <1>1, <2>2
    <3> DEFINE c == Cost((n - i) + 1)
    <3>2. ((n + 1) - i) + 1 = ((n - i) + 1) + 1 /\ (n - i) + 1 \in Int
      BY <1>1
    <3>3. Cost(((n + 1) - i) + 1) = c + PerRequest /\ c \in Int
      BY <3>2, Costs
    <3>4. c + u <= Full + (now - times[i])
      BY <3>1 DEF Covers, n
    <3>5. after[i] = times[i] /\ times[i] \in 0..now
      BY <1>1, <1>2, <3>1
    <3> HIDE DEF c
    <3>6. (c + PerRequest) + rest <= Full + (now - times[i])
      BY <1>3, <3>3, <3>4, <3>5
    <3>7. QED
      BY <3>3, <3>5, <3>6
  <2>3. QED
    BY <2>1, <2>2
<1>5. InBurst(after)
  <2> SUFFICES ASSUME NEW i \in 1..(n + 1), NEW j \in 1..(n + 1), i <= j
               PROVE  PerRequest * (j - i + 1) <= Full + (after[j] - after[i])
    BY <1>2 DEF InBurst
  <2>1. CASE j = n + 1
    <3> DEFINE c == Cost(((n + 1) - i) + 1)
    <3>1. c + rest <= Full + (now - after[i]) /\ after[i] \in Int
      BY <1>4
    <3>2. c = PerRequest * (j - i + 1)
      BY <2>1 DEF Cost
    <3>3. c \in Int
      BY <1>1, Costs
    <3>4. after[j] = now
      BY <1>2, <2>1
    <3> HIDE DEF c
    <3>5. c <= Full + (now - after[i])
      BY <1>3, <3>1, <3>3
    <3>6. QED
      BY <3>2, <3>4, <3>5
  <2>2. CASE j # n + 1
    <3>1. i \in 1..n /\ j \in 1..n
      BY <1>1, <2>2
    <3>2. PerRequest * (j - i + 1) <= Full + (times[j] - times[i])
      BY <1>1, <3>1 DEF InBurst
    <3>3. after[i] = times[i] /\ after[j] = times[j]
      BY <1>2, <3>1
    <3>4. QED
      BY <3>2, <3>3
  <2>3. QED
    BY <2>1, <2>2
<1> DEFINE b == [units |-> rest, at |-> now]
<1>6. b \in [units : 0..Full, at : 0..now] /\ b.units = rest /\ b.at = now
  BY <1>1, <1>3
<1> HIDE DEF b
<1>7. \A i \in 1..Len(after) :
         /\ after[i] <= b.at
         /\ Cost((Len(after) - i) + 1) + b.units <= Full + (b.at - after[i])
  BY <1>2, <1>4, <1>6
<1>8. Spent(b, after, now)
  BY <1>2, <1>5, <1>6, <1>7 DEF Spent
<1>9. QED
  BY <1>8 DEF b, rest, after

-----------------------------------------------------------------------------
\* What the throttles have counted, next to what they have let through.

BucketsCount == \A c \in Consumers : Spent(buckets[c], passed[<<"ask", c>>], clock)

SignInsCount ==
    \A p \in Peers : Watched(signIns[p], passed[<<"sign-in", p>>], SignInLimit, SignInWindow, clock)

LimitOf(key) == IF key[1] = "owner" THEN OwnerLimit ELSE PeerLimit

EnrollmentsCount ==
    \A key \in EnrollKeys : Watched(enrollments[key], passed[key], LimitOf(key), EnrollWindow, clock)

\* A row of the table is the end of a history that keeps the limit: of all attempts of its
\* credential, or of those since the table forgot it last
Keeps(row) == \E times : Watched(row[2], times, CredentialLimit, CredentialWindow, clock)

\* Every credential of the table has a place of its own, and was let through once.
TableIsOrderly ==
    /\ \A i, j \in 1..Len(attempts) : attempts[i][1] = attempts[j][1] => i = j
    /\ \A i \in 1..Len(attempts) : attempts[i][1] \in Registered /\ Keeps(attempts[i])

\* The table counts the attempts of a credential
Counts(table, k) ==
    \E i \in 1..Len(table) :
        /\ table[i][1] = k
        /\ Watched(table[i][2], passed[<<"register", k>>], CredentialLimit, CredentialWindow, clock)

\* While they are no more than the table holds, it counts the attempts of all
TableCounts ==
    Cardinality(Registered) <= MaxBuckets => \A k \in Registered : Counts(attempts, k)

ThrottlesIInv ==
    /\ ThrottlesTypeOK /\ BucketsCount /\ SignInsCount /\ EnrollmentsCount
    /\ TableIsOrderly /\ TableCounts

\* The callers in who are let through now, and nobody else
Letting(who) ==
    /\ passed' \in [Throttled -> Seq(0..clock)]
    /\ \A key \in Throttled : passed'[key] = IF key \in who THEN Append(passed[key], clock) ELSE passed[key]

LEMMA Windows ==
  /\ SignInLimit \in Nat \ {0} /\ OwnerLimit \in Nat \ {0} /\ PeerLimit \in Nat \ {0}
  /\ CredentialLimit \in Nat \ {0} /\ MaxBuckets \in Nat \ {0}
  /\ SignInWindow \in Nat /\ EnrollWindow \in Nat /\ CredentialWindow \in Nat /\ MaxTime \in Nat
BY ThrottlesAssumption

LEMMA WithinIsRecent ==
  ASSUME NEW times, NEW window
  PROVE  Within(times, window) = Recent(times, window, clock)
BY DEF Within, Recent

LEMMA KeysOfCallers ==
  /\ \A c \in Consumers : <<"ask", c>> \in Throttled
  /\ \A p \in Peers : <<"sign-in", p>> \in Throttled
  /\ EnrollKeys \subseteq Throttled
  /\ \A p \in Peers : <<"peer", p>> \in EnrollKeys
  /\ \A o \in Owners : <<"owner", o>> \in EnrollKeys
  /\ \A k \in Credentials : <<"register", k>> \in Throttled
BY DEF Throttled, EnrollKeys

\* The callers of one throttle are none of another's
LEMMA KeysAreApart ==
  /\ \A c \in Consumers : <<"ask", c>> \notin EnrollKeys
  /\ \A p \in Peers : <<"sign-in", p>> \notin EnrollKeys
  /\ \A k \in Credentials : <<"register", k>> \notin EnrollKeys
BY DEF EnrollKeys

LEMMA ClockCounts ==
  ASSUME ThrottlesTypeOK
  PROVE  clock \in Nat /\ clock \in 0..clock
BY Windows DEF ThrottlesTypeOK

LEMMA PassedLets ==
  ASSUME ThrottlesTypeOK, NEW who, passed' = Passed(who)
  PROVE  Letting(who)
<1>1. clock \in 0..clock
  BY ClockCounts
<1>2. passed \in [Throttled -> Seq(0..clock)]
  BY DEF ThrottlesTypeOK
<1>3. passed' = [k \in Throttled |-> IF k \in who THEN Append(passed[k], clock) ELSE passed[k]]
  BY <1>2 DEF Passed
<1>4. \A k \in Throttled : passed[k] \in Seq(0..clock) /\ Append(passed[k], clock) \in Seq(0..clock)
  BY <1>1, <1>2, AppendProperties
<1>5. QED
  BY <1>3, <1>4 DEF Letting

LEMMA NobodyPassed ==
  ASSUME ThrottlesTypeOK, passed' = passed
  PROVE  Letting({})
BY DEF Letting, ThrottlesTypeOK

-----------------------------------------------------------------------------
\* What a step that does not touch a throttle leaves counted

LEMMA BucketsStay ==
  ASSUME ThrottlesTypeOK, BucketsCount, NEW who, Letting(who), clock' = clock, buckets' = buckets,
         \A c \in Consumers : <<"ask", c>> \notin who
  PROVE  BucketsCount'
BY KeysOfCallers DEF BucketsCount, Letting

LEMMA SignInsStay ==
  ASSUME ThrottlesTypeOK, SignInsCount, NEW who, Letting(who), clock' = clock, signIns' = signIns,
         \A p \in Peers : <<"sign-in", p>> \notin who
  PROVE  SignInsCount'
BY KeysOfCallers DEF SignInsCount, Letting

LEMMA EnrollmentsStay ==
  ASSUME ThrottlesTypeOK, EnrollmentsCount, NEW who, Letting(who), clock' = clock,
         enrollments' = enrollments, \A key \in EnrollKeys : key \notin who
  PROVE  EnrollmentsCount'
BY KeysOfCallers DEF EnrollmentsCount, Letting

LEMMA TableStays ==
  ASSUME ThrottlesTypeOK, TableIsOrderly, TableCounts, NEW who, Letting(who), clock' = clock,
         attempts' = attempts, \A k \in Credentials : <<"register", k>> \notin who
  PROVE  TableIsOrderly' /\ TableCounts'
<1>1. \A k \in Credentials : passed'[<<"register", k>>] = passed[<<"register", k>>]
  BY KeysOfCallers DEF Letting
<1>2. Registered' = Registered
  BY <1>1 DEF Registered
<1>3. TableIsOrderly'
  BY <1>2 DEF TableIsOrderly, Keeps
<1>4. \A k \in Credentials : Counts(attempts, k)' <=> Counts(attempts, k)
  BY <1>1 DEF Counts
<1>5. Registered \subseteq Credentials
  BY DEF Registered
<1>6. TableCounts'
  BY <1>2, <1>4, <1>5 DEF TableCounts
<1>7. QED
  BY <1>3, <1>6

-----------------------------------------------------------------------------
LEMMA InitCounts ==
  ASSUME ThrottlesInit
  PROVE  ThrottlesIInv
<1>1. clock = 0 /\ attempts = <<>> /\ passed = [k \in Throttled |-> <<>>]
  BY DEF ThrottlesInit
<1>2. <<>> \in Seq(0..clock) /\ Len(<<>>) = 0
  OBVIOUS
<1>3. ThrottlesTypeOK
  <2>1. clock \in 0..MaxTime
    BY <1>1, Windows
  <2>2. buckets \in [Consumers -> [units : 0..Full, at : 0..clock] \union {Absent}]
    BY DEF ThrottlesInit
  <2>3. signIns \in [Peers -> Seq(0..clock)] /\ \A p \in Peers : Len(signIns[p]) <= SignInLimit
    BY <1>2, Windows DEF ThrottlesInit
  <2>4. enrollments \in [EnrollKeys -> Seq(0..clock)]
    BY <1>2 DEF ThrottlesInit
  <2>5. Len(attempts) <= MaxBuckets /\ attempts \in Seq(Credentials \X Seq(0..clock))
    BY <1>1, <1>2, Windows
  <2>6. passed \in [Throttled -> Seq(0..clock)]
    BY <1>1, <1>2
  <2>7. QED
    BY <2>1, <2>2, <2>3, <2>4, <2>5, <2>6 DEF ThrottlesTypeOK
<1>4. clock \in Nat
  BY <1>1
<1>5. \A key \in Throttled : passed[key] = <<>>
  BY <1>1
<1>6. BucketsCount
  <2>1. \A c \in Consumers : buckets[c] = Absent
    BY DEF ThrottlesInit
  <2>2. QED
    BY <1>4, <1>5, <2>1, KeysOfCallers, SpentFirst DEF BucketsCount
<1>7. SignInsCount
  <2>1. \A p \in Peers : signIns[p] = <<>>
    BY DEF ThrottlesInit
  <2>2. QED
    BY <1>4, <1>5, <2>1, KeysOfCallers, WatchedFirst DEF SignInsCount
<1>8. EnrollmentsCount
  <2>1. \A key \in EnrollKeys : enrollments[key] = <<>>
    BY DEF ThrottlesInit
  <2>2. QED
    BY <1>4, <1>5, <2>1, KeysOfCallers, WatchedFirst DEF EnrollmentsCount
<1>9. TableIsOrderly
  BY <1>1, <1>2 DEF TableIsOrderly
<1>10. TableCounts
  <2>1. Registered = {}
    BY <1>5, KeysOfCallers DEF Registered
  <2>2. QED
    BY <2>1 DEF TableCounts
<1>11. QED
  BY <1>3, <1>6, <1>7, <1>8, <1>9, <1>10 DEF ThrottlesIInv

LEMMA TickCounts ==
  ASSUME ThrottlesIInv, Tick
  PROVE  ThrottlesIInv'
<1>1. /\ clock < MaxTime /\ clock' = clock + 1
      /\ UNCHANGED <<buckets, signIns, enrollments, attempts, passed>>
  BY DEF Tick
<1>2. ThrottlesTypeOK /\ clock \in Nat
  BY ClockCounts DEF ThrottlesIInv
<1>3. \A s \in Seq(0..clock) : s \in Seq(0..clock')
  BY <1>1, <1>2, LaterTimes
<1>4. ThrottlesTypeOK'
  <2>1. clock' \in 0..MaxTime
    BY <1>1, <1>2, Windows
  <2>2. buckets' \in [Consumers -> [units : 0..Full, at : 0..clock'] \union {Absent}]
    <3>1. [units : 0..Full, at : 0..clock] \subseteq [units : 0..Full, at : 0..clock']
      BY <1>1, <1>2
    <3>2. QED
      BY <1>1, <1>2, <3>1 DEF ThrottlesTypeOK
  <2>3. signIns' \in [Peers -> Seq(0..clock')] /\ \A p \in Peers : Len(signIns'[p]) <= SignInLimit
    BY <1>1, <1>2, <1>3 DEF ThrottlesTypeOK
  <2>4. enrollments' \in [EnrollKeys -> Seq(0..clock')]
    BY <1>1, <1>2, <1>3 DEF ThrottlesTypeOK
  <2>5. Len(attempts') <= MaxBuckets /\ attempts' \in Seq(Credentials \X Seq(0..clock'))
    <3> DEFINE row == Credentials \X Seq(0..clock)
               later == Credentials \X Seq(0..clock')
    <3>1. attempts \in Seq(row) /\ Len(attempts) <= MaxBuckets
      BY <1>2 DEF ThrottlesTypeOK
    <3>2. row \subseteq later
      BY <1>3
    <3> HIDE DEF row, later
    <3>3. \A i \in 1..Len(attempts) : attempts[i] \in later
      BY <3>1, <3>2
    <3>4. attempts \in Seq(later)
      BY <3>1, <3>3
    <3>5. QED
      BY <1>1, <3>1, <3>4 DEF later
  <2>6. passed' \in [Throttled -> Seq(0..clock')]
    BY <1>1, <1>2, <1>3 DEF ThrottlesTypeOK
  <2>7. QED
    BY <2>1, <2>2, <2>3, <2>4, <2>5, <2>6 DEF ThrottlesTypeOK
<1>5. BucketsCount'
  BY <1>1, <1>2, SpentLater DEF ThrottlesIInv, BucketsCount
<1>6. SignInsCount'
  BY <1>1, <1>2, WatchedLater, Windows DEF ThrottlesIInv, SignInsCount
<1>7. EnrollmentsCount'
  <2> DEFINE L(key) == LimitOf(key)
  <2>1. \A key \in EnrollKeys : Watched(enrollments[key], passed[key], L(key), EnrollWindow, clock)
    BY DEF ThrottlesIInv, EnrollmentsCount
  <2> HIDE DEF L
  <2>2. \A key \in EnrollKeys : Watched(enrollments[key], passed[key], L(key), EnrollWindow, clock + 1)
    BY <1>2, <2>1, WatchedLater, Windows
  <2>3. QED
    BY <1>1, <2>2 DEF EnrollmentsCount, L
<1>8. Registered' = Registered
  BY <1>1 DEF Registered
<1>9. TableIsOrderly'
  <2>1. \A j \in 1..Len(attempts) : \E times :
           Watched(attempts[j][2], times, CredentialLimit, CredentialWindow, clock + 1)
    <3> SUFFICES ASSUME NEW j \in 1..Len(attempts)
                 PROVE  \E times : Watched(attempts[j][2], times, CredentialLimit, CredentialWindow, clock + 1)
      OBVIOUS
    <3>1. PICK times : Watched(attempts[j][2], times, CredentialLimit, CredentialWindow, clock)
      BY DEF ThrottlesIInv, TableIsOrderly, Keeps
    <3>2. QED
      BY <1>2, <3>1, WatchedLater, Windows
  <2>2. QED
    BY <1>1, <1>8, <2>1 DEF ThrottlesIInv, TableIsOrderly, Keeps
<1>10. TableCounts'
  <2>1. ASSUME NEW k \in Credentials, Counts(attempts, k) PROVE Counts(attempts, k)'
    <3>1. PICK i \in 1..Len(attempts) :
             /\ attempts[i][1] = k
             /\ Watched(attempts[i][2], passed[<<"register", k>>], CredentialLimit, CredentialWindow, clock)
      BY <2>1 DEF Counts
    <3>2. Watched(attempts[i][2], passed[<<"register", k>>], CredentialLimit, CredentialWindow, clock + 1)
      BY <1>2, <3>1, WatchedLater, Windows
    <3>3. QED
      BY <1>1, <3>1, <3>2 DEF Counts
  <2>2. Registered \subseteq Credentials
    BY DEF Registered
  <2>3. QED
    BY <1>8, <2>1, <2>2 DEF ThrottlesIInv, TableCounts
<1>11. QED
  BY <1>4, <1>5, <1>6, <1>7, <1>9, <1>10 DEF ThrottlesIInv

-----------------------------------------------------------------------------
LEMMA AskCounts ==
  ASSUME ThrottlesIInv, NEW c \in Consumers, Ask(c)
  PROVE  ThrottlesIInv'
<1> DEFINE b == buckets[c]
           times == passed[<<"ask", c>>]
           units == IF b = Absent THEN Full ELSE Refilled(b)
           allowed == units >= PerRequest
           left == IF allowed THEN units - PerRequest ELSE units
           who == IF allowed THEN {<<"ask", c>>} ELSE {}
<1>1. ThrottlesTypeOK /\ clock \in Nat
  BY ClockCounts DEF ThrottlesIInv
<1>2. /\ buckets' = [buckets EXCEPT ![c] = [units |-> left, at |-> clock]]
      /\ passed' = IF allowed THEN Passed({<<"ask", c>>}) ELSE passed
      /\ clock' = clock /\ signIns' = signIns /\ enrollments' = enrollments /\ attempts' = attempts
  BY DEF Ask
<1>3. Letting(who)
  <2>1. CASE allowed
    <3>1. Letting({<<"ask", c>>})
      BY <1>1, <1>2, <2>1, PassedLets
    <3>2. QED
      BY <2>1, <3>1
  <2>2. CASE ~ allowed
    <3>1. Letting({})
      BY <1>1, <1>2, <2>2, NobodyPassed
    <3>2. QED
      BY <2>2, <3>1
  <2>3. QED
    BY <2>1, <2>2
<1>4. Spent(b, times, clock)
  BY DEF ThrottlesIInv, BucketsCount
<1>5. units \in 0..Full /\ Covers(units, times, clock)
  <2>1. units = IF b = Absent THEN Full
                ELSE IF b.units + (clock - b.at) > Full THEN Full ELSE b.units + (clock - b.at)
    BY DEF Refilled
  <2> HIDE DEF b, times, units
  <2>2. QED
    BY <1>1, <1>4, <2>1, RefillCovers
<1>6. times \in Seq(0..clock) /\ InBurst(times)
  BY <1>4 DEF Spent
<1>7. Spent([units |-> left, at |-> clock], IF allowed THEN Append(times, clock) ELSE times, clock)
  <2> HIDE DEF b, times, units
  <2>1. CASE allowed
    <3>1. Spent([units |-> units - PerRequest, at |-> clock], Append(times, clock), clock)
      BY <1>1, <1>5, <1>6, <2>1, SpentPass
    <3>2. QED
      BY <2>1, <3>1
  <2>2. CASE ~ allowed
    <3>1. Spent([units |-> units, at |-> clock], times, clock)
      BY <1>1, <1>5, <1>6, SpentRefused
    <3>2. QED
      BY <2>2, <3>1
  <2>3. QED
    BY <2>1, <2>2
<1>8. [units |-> left, at |-> clock] \in [units : 0..Full, at : 0..clock]
  <2>1. Full \in Nat /\ PerRequest \in Nat
    BY Costs
  <2> HIDE DEF units, Full
  <2>2. left \in 0..Full /\ clock \in 0..clock
    BY <1>1, <1>5, <2>1
  <2> HIDE DEF left
  <2>3. QED
    BY <2>2
<1> HIDE DEF left, units
<1>9. ThrottlesTypeOK'
  <2>1. buckets' \in [Consumers -> [units : 0..Full, at : 0..clock'] \union {Absent}]
    <3>1. buckets \in [Consumers -> [units : 0..Full, at : 0..clock] \union {Absent}]
      BY <1>1 DEF ThrottlesTypeOK
    <3>2. QED
      BY <1>2, <1>8, <3>1
  <2>2. QED
    BY <1>1, <1>2, <1>3, <2>1 DEF ThrottlesTypeOK, Letting
<1>10. BucketsCount'
  <2> SUFFICES ASSUME NEW d \in Consumers PROVE Spent(buckets'[d], passed'[<<"ask", d>>], clock')
    BY DEF BucketsCount
  <2>1. Spent(buckets[d], passed[<<"ask", d>>], clock)
    BY DEF ThrottlesIInv, BucketsCount
  <2>2. passed'[<<"ask", d>>] = IF <<"ask", d>> \in who THEN Append(passed[<<"ask", d>>], clock) ELSE passed[<<"ask", d>>]
    BY <1>3, KeysOfCallers DEF Letting
  <2>3. DOMAIN buckets = Consumers
    BY <1>1 DEF ThrottlesTypeOK
  <2>4. CASE d = c
    <3>1. buckets'[d] = [units |-> left, at |-> clock]
      BY <1>2, <2>3, <2>4
    <3>2. passed'[<<"ask", d>>] = IF allowed THEN Append(times, clock) ELSE times
      BY <2>2, <2>4
    <3> HIDE DEF allowed, times
    <3>3. QED
      BY <1>2, <1>7, <3>1, <3>2
  <2>5. CASE d # c
    <3>1. buckets'[d] = buckets[d]
      BY <1>2, <2>3, <2>5
    <3>2. passed'[<<"ask", d>>] = passed[<<"ask", d>>]
      BY <2>2, <2>5
    <3>3. QED
      BY <1>2, <2>1, <3>1, <3>2
  <2>6. QED
    BY <2>4, <2>5
<1>11. SignInsCount'
  <2>1. \A p \in Peers : <<"sign-in", p>> \notin who
    OBVIOUS
  <2> HIDE DEF who
  <2>2. QED
    BY <1>1, <1>2, <1>3, <2>1, SignInsStay DEF ThrottlesIInv
<1>12. EnrollmentsCount'
  <2>1. \A key \in EnrollKeys : key \notin who
    BY KeysAreApart
  <2> HIDE DEF who
  <2>2. QED
    BY <1>1, <1>2, <1>3, <2>1, EnrollmentsStay DEF ThrottlesIInv
<1>13. TableIsOrderly' /\ TableCounts'
  <2>1. \A k \in Credentials : <<"register", k>> \notin who
    OBVIOUS
  <2> HIDE DEF who
  <2>2. QED
    BY <1>1, <1>2, <1>3, <2>1, TableStays DEF ThrottlesIInv
<1>14. QED
  BY <1>9, <1>10, <1>11, <1>12, <1>13 DEF ThrottlesIInv

LEMMA SignInCounts ==
  ASSUME ThrottlesIInv, NEW p \in Peers, SignIn(p)
  PROVE  ThrottlesIInv'
<1> DEFINE list == signIns[p]
           times == passed[<<"sign-in", p>>]
           kept == Recent(list, SignInWindow, clock)
           allowed == Len(kept) < SignInLimit
           who == IF allowed THEN {<<"sign-in", p>>} ELSE {}
<1>1. ThrottlesTypeOK /\ clock \in Nat /\ clock \in 0..clock
  BY ClockCounts DEF ThrottlesIInv
<1>2. /\ signIns' = IF allowed THEN [signIns EXCEPT ![p] = Append(kept, clock)] ELSE signIns
      /\ passed' = IF allowed THEN Passed({<<"sign-in", p>>}) ELSE passed
      /\ clock' = clock /\ buckets' = buckets /\ enrollments' = enrollments /\ attempts' = attempts
  BY WithinIsRecent DEF SignIn
<1>3. Letting(who)
  <2> HIDE DEF kept
  <2>1. CASE allowed
    <3>1. Letting({<<"sign-in", p>>})
      BY <1>1, <1>2, <2>1, PassedLets
    <3>2. QED
      BY <2>1, <3>1
  <2>2. CASE ~ allowed
    <3>1. Letting({})
      BY <1>1, <1>2, <2>2, NobodyPassed
    <3>2. QED
      BY <2>2, <3>1
  <2>3. QED
    BY <2>1, <2>2
<1>4. Watched(list, times, SignInLimit, SignInWindow, clock)
  BY DEF ThrottlesIInv, SignInsCount
<1>5. allowed => Watched(Append(kept, clock), Append(times, clock), SignInLimit, SignInWindow, clock)
  <2> HIDE DEF list, times
  <2>1. QED
    BY <1>1, <1>4, WatchedPass, Windows
<1>6. kept \in Seq(0..clock)
  <2> HIDE DEF list, times
  <2>1. QED
    BY <1>1, <1>4, RecentOfHistory, Windows
<1> HIDE DEF kept
<1>7. Append(kept, clock) \in Seq(0..clock) /\ Len(Append(kept, clock)) = Len(kept) + 1 /\ Len(kept) \in Nat
  BY <1>1, <1>6, AppendProperties
<1>8. ThrottlesTypeOK'
  <2>1. signIns' \in [Peers -> Seq(0..clock')] /\ \A q \in Peers : Len(signIns'[q]) <= SignInLimit
    <3>1. signIns \in [Peers -> Seq(0..clock)] /\ \A q \in Peers : Len(signIns[q]) <= SignInLimit
      BY <1>1 DEF ThrottlesTypeOK
    <3> DEFINE longer == Append(kept, clock)
    <3>2. allowed => longer \in Seq(0..clock) /\ Len(longer) <= SignInLimit
      BY <1>7, Windows
    <3> HIDE DEF longer, allowed
    <3>3. signIns' = IF allowed THEN [signIns EXCEPT ![p] = longer] ELSE signIns
      BY <1>2 DEF longer, allowed
    <3>4. QED
      BY <1>2, <3>1, <3>2, <3>3
  <2>2. QED
    BY <1>1, <1>2, <1>3, <2>1 DEF ThrottlesTypeOK, Letting
<1>9. SignInsCount'
  <2> SUFFICES ASSUME NEW d \in Peers
               PROVE  Watched(signIns'[d], passed'[<<"sign-in", d>>], SignInLimit, SignInWindow, clock')
    BY DEF SignInsCount
  <2>1. Watched(signIns[d], passed[<<"sign-in", d>>], SignInLimit, SignInWindow, clock)
    BY DEF ThrottlesIInv, SignInsCount
  <2>2. passed'[<<"sign-in", d>>] = IF <<"sign-in", d>> \in who THEN Append(passed[<<"sign-in", d>>], clock)
                                   ELSE passed[<<"sign-in", d>>]
    BY <1>3, KeysOfCallers DEF Letting
  <2>3. DOMAIN signIns = Peers
    BY <1>1 DEF ThrottlesTypeOK
  <2>4. CASE d = p /\ allowed
    <3>1. signIns'[d] = Append(kept, clock)
      BY <1>2, <2>3, <2>4
    <3>2. passed'[<<"sign-in", d>>] = Append(times, clock)
      BY <2>2, <2>4
    <3> HIDE DEF times
    <3>3. QED
      BY <1>2, <1>5, <2>4, <3>1, <3>2
  <2>5. CASE ~ (d = p /\ allowed)
    <3>1. signIns'[d] = signIns[d]
      BY <1>2, <2>3, <2>5
    <3>2. passed'[<<"sign-in", d>>] = passed[<<"sign-in", d>>]
      BY <2>2, <2>5
    <3>3. QED
      BY <1>2, <2>1, <3>1, <3>2
  <2>6. QED
    BY <2>4, <2>5
<1>10. BucketsCount'
  <2>1. \A c \in Consumers : <<"ask", c>> \notin who
    OBVIOUS
  <2> HIDE DEF who
  <2>2. QED
    BY <1>1, <1>2, <1>3, <2>1, BucketsStay DEF ThrottlesIInv
<1>11. EnrollmentsCount'
  <2>1. \A key \in EnrollKeys : key \notin who
    BY KeysAreApart
  <2> HIDE DEF who
  <2>2. QED
    BY <1>1, <1>2, <1>3, <2>1, EnrollmentsStay DEF ThrottlesIInv
<1>12. TableIsOrderly' /\ TableCounts'
  <2>1. \A k \in Credentials : <<"register", k>> \notin who
    OBVIOUS
  <2> HIDE DEF who
  <2>2. QED
    BY <1>1, <1>2, <1>3, <2>1, TableStays DEF ThrottlesIInv
<1>13. QED
  BY <1>8, <1>9, <1>10, <1>11, <1>12 DEF ThrottlesIInv

LEMMA EnrollCounts ==
  ASSUME ThrottlesIInv, NEW o \in Owners, NEW p \in Peers, Enroll(o, p)
  PROVE  ThrottlesIInv'
<1> DEFINE owner == <<"owner", o>>
           peer == <<"peer", p>>
           mine == Recent(enrollments[owner], EnrollWindow, clock)
           theirs == Recent(enrollments[peer], EnrollWindow, clock)
           ownerHas == Len(mine) < OwnerLimit
           allowed == ownerHas /\ Len(theirs) < PeerLimit
           forOwner == IF allowed THEN Append(mine, clock) ELSE mine
           forPeer == IF allowed THEN Append(theirs, clock)
                      ELSE IF ownerHas THEN theirs ELSE enrollments[peer]
           who == IF allowed THEN {owner, peer} ELSE {}
<1>1. ThrottlesTypeOK /\ clock \in Nat /\ clock \in 0..clock
  BY ClockCounts DEF ThrottlesIInv
<1>0. owner \in EnrollKeys /\ peer \in EnrollKeys /\ owner # peer
      /\ LimitOf(owner) = OwnerLimit /\ LimitOf(peer) = PeerLimit
  BY KeysOfCallers DEF LimitOf
<1>2. /\ enrollments' = [enrollments EXCEPT ![owner] = forOwner, ![peer] = forPeer]
      /\ passed' = IF allowed THEN Passed({owner, peer}) ELSE passed
      /\ clock' = clock /\ buckets' = buckets /\ signIns' = signIns /\ attempts' = attempts
  <2>1. enrollments \in [EnrollKeys -> Seq(0..clock)]
    BY <1>1 DEF ThrottlesTypeOK
  <2>2. Within(enrollments[owner], EnrollWindow) = mine /\ Within(enrollments[peer], EnrollWindow) = theirs
    BY WithinIsRecent
  <2>3. /\ enrollments' = [enrollments EXCEPT
                ![owner] = IF allowed THEN Append(mine, clock) ELSE mine,
                ![peer] = IF allowed THEN Append(theirs, clock) ELSE IF ownerHas THEN theirs ELSE @]
        /\ passed' = IF allowed THEN Passed({owner, peer}) ELSE passed
        /\ clock' = clock /\ buckets' = buckets /\ signIns' = signIns /\ attempts' = attempts
    BY <2>2 DEF Enroll
  <2> HIDE DEF mine, theirs
  <2>4. QED
    BY <1>0, <2>1, <2>3
<1>3. Letting(who)
  <2> HIDE DEF mine, theirs, owner, peer
  <2>1. CASE allowed
    <3>1. Letting({owner, peer})
      BY <1>1, <1>2, <2>1, PassedLets
    <3>2. QED
      BY <2>1, <3>1
  <2>2. CASE ~ allowed
    <3>1. Letting({})
      BY <1>1, <1>2, <2>2, NobodyPassed
    <3>2. QED
      BY <2>2, <3>1
  <2>3. QED
    BY <2>1, <2>2
<1> DEFINE of(key) == passed[key]
           mark(key) == IF allowed THEN Append(passed[key], clock) ELSE passed[key]
<1>4. \A key \in EnrollKeys : Watched(enrollments[key], passed[key], LimitOf(key), EnrollWindow, clock)
  BY DEF ThrottlesIInv, EnrollmentsCount
<1>5. Watched(forOwner, mark(owner), OwnerLimit, EnrollWindow, clock)
  <2>1. Watched(enrollments[owner], passed[owner], OwnerLimit, EnrollWindow, clock)
    BY <1>0, <1>4
  <2> HIDE DEF owner, theirs
  <2>2. allowed => Watched(Append(mine, clock), Append(passed[owner], clock), OwnerLimit, EnrollWindow, clock)
    BY <1>1, <2>1, WatchedPass, Windows
  <2>3. Watched(mine, passed[owner], OwnerLimit, EnrollWindow, clock)
    BY <1>1, <2>1, WatchedKept, Windows
  <2> HIDE DEF mine
  <2>4. QED
    BY <2>2, <2>3
<1>6. Watched(forPeer, mark(peer), PeerLimit, EnrollWindow, clock)
  <2>1. Watched(enrollments[peer], passed[peer], PeerLimit, EnrollWindow, clock)
    BY <1>0, <1>4
  <2> HIDE DEF peer, mine
  <2>2. allowed => Watched(Append(theirs, clock), Append(passed[peer], clock), PeerLimit, EnrollWindow, clock)
    BY <1>1, <2>1, WatchedPass, Windows
  <2>3. Watched(theirs, passed[peer], PeerLimit, EnrollWindow, clock)
    BY <1>1, <2>1, WatchedKept, Windows
  <2> HIDE DEF theirs
  <2>4. QED
    BY <2>1, <2>2, <2>3
<1> HIDE DEF forOwner, forPeer
<1>7. \A key \in EnrollKeys :
         Watched(enrollments'[key], passed'[key], LimitOf(key), EnrollWindow, clock)
  <2> SUFFICES ASSUME NEW key \in EnrollKeys
               PROVE  Watched(enrollments'[key], passed'[key], LimitOf(key), EnrollWindow, clock)
    OBVIOUS
  <2>1. passed'[key] = IF key \in who THEN Append(passed[key], clock) ELSE passed[key]
    BY <1>3, KeysOfCallers DEF Letting
  <2>2. DOMAIN enrollments = EnrollKeys
    BY <1>1 DEF ThrottlesTypeOK
  <2> HIDE DEF owner, peer, ownerHas, allowed
  <2>3. CASE key = owner
    <3>1. enrollments'[key] = forOwner /\ passed'[key] = mark(owner)
      BY <1>0, <1>2, <2>1, <2>2, <2>3
    <3> HIDE DEF mark
    <3>2. QED
      BY <1>0, <1>5, <2>3, <3>1
  <2>4. CASE key = peer
    <3>1. enrollments'[key] = forPeer /\ passed'[key] = mark(peer)
      BY <1>0, <1>2, <2>1, <2>2, <2>4
    <3> HIDE DEF mark
    <3>2. QED
      BY <1>0, <1>6, <2>4, <3>1
  <2>5. CASE key # owner /\ key # peer
    <3>1. enrollments'[key] = enrollments[key] /\ passed'[key] = passed[key]
      BY <1>2, <2>1, <2>2, <2>5
    <3>2. QED
      BY <1>4, <3>1
  <2>6. QED
    BY <2>3, <2>4, <2>5
<1>8. EnrollmentsCount'
  BY <1>2, <1>7 DEF EnrollmentsCount
<1>9. ThrottlesTypeOK'
  <2>1. forOwner \in Seq(0..clock) /\ forPeer \in Seq(0..clock)
    BY <1>5, <1>6 DEF Watched
  <2>2. enrollments' \in [EnrollKeys -> Seq(0..clock')]
    BY <1>1, <1>2, <2>1 DEF ThrottlesTypeOK
  <2>3. QED
    BY <1>1, <1>2, <1>3, <2>2 DEF ThrottlesTypeOK, Letting
<1>10. BucketsCount'
  <2>1. \A c \in Consumers : <<"ask", c>> \notin who
    OBVIOUS
  <2> HIDE DEF who
  <2>2. QED
    BY <1>1, <1>2, <1>3, <2>1, BucketsStay DEF ThrottlesIInv
<1>11. SignInsCount'
  <2>1. \A q \in Peers : <<"sign-in", q>> \notin who
    OBVIOUS
  <2> HIDE DEF who
  <2>2. QED
    BY <1>1, <1>2, <1>3, <2>1, SignInsStay DEF ThrottlesIInv
<1>12. TableIsOrderly' /\ TableCounts'
  <2>1. \A k \in Credentials : <<"register", k>> \notin who
    OBVIOUS
  <2> HIDE DEF who
  <2>2. QED
    BY <1>1, <1>2, <1>3, <2>1, TableStays DEF ThrottlesIInv
<1>13. QED
  BY <1>8, <1>9, <1>10, <1>11, <1>12 DEF ThrottlesIInv

-----------------------------------------------------------------------------
\* Registration.  What WithRoom makes of the table.

Rows == Credentials \X Seq(0..clock)

RoomFor(table, k) ==
    /\ table \in Seq(Rows) /\ Len(table) <= MaxBuckets
    /\ \A i, j \in 1..Len(table) : table[i][1] = table[j][1] => i = j
    /\ \E i \in 1..Len(table) : table[i][1] = k /\ (Has(attempts, k) \/ table[i][2] = <<>>)
    /\ \A i \in 1..Len(table) : (table[i][1] = k \/ table[i][1] \in Registered) /\ Keeps(table[i])
    /\ Has(attempts, k) \/ Len(attempts) < MaxBuckets =>
         \A i \in 1..Len(attempts) : i \in 1..Len(table) /\ table[i] = attempts[i]
    /\ \A i \in 2..Len(attempts) : \E j \in 1..Len(table) : table[j][1] = attempts[i][1]

LEMMA RoomIsMade ==
  ASSUME ThrottlesTypeOK, TableIsOrderly, NEW k \in Credentials
  PROVE  RoomFor(WithRoom(k), k)
<1> DEFINE n == Len(attempts)
           last == <<k, <<>>>>
           short == IF n >= MaxBuckets THEN Tail(attempts) ELSE attempts
           table == Append(short, last)
           R == Rows
<1>1. /\ attempts \in Seq(R) /\ n <= MaxBuckets /\ n \in Nat /\ DOMAIN attempts = 1..n
      /\ \A i \in 1..n : attempts[i] \in R
  BY DEF ThrottlesTypeOK, Rows
<1>2. /\ \A i, j \in 1..n : attempts[i][1] = attempts[j][1] => i = j
      /\ \A i \in 1..n : attempts[i][1] \in Registered /\ Keeps(attempts[i])
  BY DEF TableIsOrderly
<1>3. Has(attempts, k) <=> \E i \in 1..n : attempts[i][1] = k
  BY <1>1 DEF Has
<1>4. CASE Has(attempts, k)
  <2>1. WithRoom(k) = attempts
    BY <1>4 DEF WithRoom
  <2>2. RoomFor(attempts, k)
    BY <1>1, <1>2, <1>3, <1>4 DEF RoomFor
  <2>3. QED
    BY <2>1, <2>2
<1>5. CASE ~ Has(attempts, k)
  <2>1. last \in R /\ last[1] = k /\ last[2] = <<>> /\ Keeps(last)
    <3>1. <<>> \in Seq(0..clock)
      OBVIOUS
    <3>2. Watched(<<>>, <<>>, CredentialLimit, CredentialWindow, clock)
      BY ClockCounts, WatchedFirst
    <3>3. QED
      BY <3>1, <3>2 DEF Rows, Keeps
  <2> HIDE DEF R, last
  \* Where a place of the shorter table comes from
  <2> DEFINE s == IF n >= MaxBuckets THEN 1 ELSE 0
             m == n - s
  <2>2. MaxBuckets \in Nat \ {0} /\ s \in 0..1 /\ (s = 1 => n >= 1) /\ (s = 1 <=> n >= MaxBuckets)
    BY <1>1, Windows
  <2>3. short \in Seq(R) /\ Len(short) = m /\ \A i \in 1..m : short[i] = attempts[i + s]
    <3>1. CASE n >= MaxBuckets
      <4>1. attempts # <<>> /\ s = 1 /\ short = Tail(attempts)
        BY <1>1, <2>2, <3>1
      <4>2. /\ Tail(attempts) \in Seq(R) /\ Len(Tail(attempts)) = n - 1
            /\ \A i \in 1..(n - 1) : Tail(attempts)[i] = attempts[i + 1]
        BY <1>1, <4>1, HeadTailProperties
      <4>3. QED
        BY <4>1, <4>2
    <3>2. CASE ~ (n >= MaxBuckets)
      <4>1. s = 0 /\ short = attempts
        BY <3>2
      <4> HIDE DEF s, short
      <4>2. QED
        BY <1>1, <4>1
    <3>3. QED
      BY <3>1, <3>2
  <2>4. WithRoom(k) = table
    <3>1. WithRoom(k) = short \o <<last>>
      BY <1>5 DEF WithRoom, last
    <3> HIDE DEF short
    <3>2. short \o <<last>> = Append(short, last)
      BY <2>1, <2>3
    <3>3. QED
      BY <3>1, <3>2
  <2> HIDE DEF short, s
  <2>5. m \in Nat /\ m + 1 <= MaxBuckets
    BY <1>1, <2>2
  <2>6. /\ table \in Seq(R) /\ Len(table) = m + 1 /\ table[m + 1] = last
        /\ \A i \in 1..m : table[i] = attempts[i + s] /\ i + s \in 1..n
    <3>1. /\ table \in Seq(R) /\ Len(table) = Len(short) + 1 /\ table[Len(short) + 1] = last
          /\ \A i \in 1..Len(short) : table[i] = short[i]
      BY <2>1, <2>3, AppendProperties
    <3>2. \A i \in 1..m : i + s \in 1..n
      BY <1>1, <2>2
    <3> HIDE DEF table, m
    <3>3. QED
      BY <2>3, <3>1, <3>2
  <2> HIDE DEF table, m
  <2>7. \A i \in 1..m : table[i][1] # k /\ table[i][1] \in Registered /\ Keeps(table[i])
    BY <1>2, <1>3, <1>5, <2>6
  <2>8. \A i \in 1..(m + 1) : i \in 1..m \/ i = m + 1
    BY <2>5
  <2>9. \A i, j \in 1..(m + 1) : table[i][1] = table[j][1] => i = j
    <3> SUFFICES ASSUME NEW i \in 1..(m + 1), NEW j \in 1..(m + 1), table[i][1] = table[j][1]
                 PROVE  i = j
      OBVIOUS
    <3>1. CASE i \in 1..m /\ j \in 1..m
      <4>1. i + s = j + s
        BY <1>2, <2>6, <3>1
      <4>2. QED
        BY <2>2, <4>1
    <3>2. CASE i = m + 1 \/ j = m + 1
      BY <2>1, <2>6, <2>7, <2>8, <3>2
    <3>3. QED
      BY <2>8, <3>1, <3>2
  <2>10. \E i \in 1..(m + 1) : table[i][1] = k /\ table[i][2] = <<>>
    <3>1. m + 1 \in 1..(m + 1)
      BY <2>5
    <3>2. QED
      BY <2>1, <2>6, <3>1
  <2>11. \A i \in 1..(m + 1) : (table[i][1] = k \/ table[i][1] \in Registered) /\ Keeps(table[i])
    BY <2>1, <2>6, <2>7, <2>8
  <2>12. n < MaxBuckets => \A i \in 1..n : i \in 1..(m + 1) /\ table[i] = attempts[i]
    <3> SUFFICES ASSUME n < MaxBuckets, NEW i \in 1..n
                 PROVE  i \in 1..(m + 1) /\ table[i] = attempts[i]
      OBVIOUS
    <3>1. s = 0
      BY <1>1, <2>2
    <3>2. i \in 1..m /\ i + s = i
      BY <1>1, <3>1 DEF m
    <3>3. QED
      BY <2>5, <2>6, <3>2
  <2>13. \A i \in 2..n : \E j \in 1..(m + 1) : table[j][1] = attempts[i][1]
    <3> SUFFICES ASSUME NEW i \in 2..n PROVE \E j \in 1..(m + 1) : table[j][1] = attempts[i][1]
      OBVIOUS
    <3>1. i - s \in 1..m /\ (i - s) + s = i
      BY <1>1, <2>2 DEF m
    <3>2. table[i - s] = attempts[i] /\ i - s \in 1..(m + 1)
      BY <2>5, <2>6, <3>1
    <3>3. QED
      BY <3>2
  <2>14. RoomFor(table, k)
    BY <1>5, <2>5, <2>6, <2>9, <2>10, <2>11, <2>12, <2>13 DEF RoomFor, R
  <2>15. QED
    BY <2>4, <2>14
<1>6. QED
  BY <1>4, <1>5

\* The table after a registration: the row of k is replaced, and k stands in Registered.
Replaced(table, i, k, row) ==
    /\ RoomFor(table, k) /\ i \in 1..Len(table) /\ table[i][1] = k
    /\ row \in Rows /\ row[1] = k
    /\ attempts' = [table EXCEPT ![i] = row]

LEMMA ReplacedRows ==
  ASSUME NEW table, NEW i, NEW k, NEW row, Replaced(table, i, k, row)
  PROVE  /\ attempts' \in Seq(Rows) /\ Len(attempts') = Len(table)
         /\ \A j \in 1..Len(table) : attempts'[j][1] = table[j][1]
         /\ \A j \in 1..Len(table) : j # i => attempts'[j] = table[j]
         /\ attempts'[i] = row
<1> DEFINE R == Rows
<1>1. table \in Seq(R) /\ i \in 1..Len(table) /\ table[i][1] = k /\ row \in R /\ row[1] = k
      /\ attempts' = [table EXCEPT ![i] = row]
  BY DEF Replaced, RoomFor
<1> HIDE DEF R
<1>2. attempts' \in Seq(R) /\ Len(attempts') = Len(table)
  BY <1>1, ExceptSeq
<1>3. \A j \in 1..Len(table) : attempts'[j] = IF j = i THEN row ELSE table[j]
  BY <1>1
<1>4. QED
  BY <1>1, <1>2, <1>3 DEF R

\* More credentials than places: there are the ones in the table, and the new one.
LEMMA MoreThanPlaces ==
  ASSUME ThrottlesTypeOK, TableIsOrderly, NEW k \in Credentials, ~ Has(attempts, k),
         Registered' = Registered \union {k}
  PROVE  Cardinality(Registered') > Len(attempts)
<1> DEFINE n == Len(attempts)
           all == Registered \union {k}
           others == all \ {k}
           f == [i \in 1..n |-> attempts[i][1]]
<1>1. n \in Nat /\ DOMAIN attempts = 1..n
  BY DEF ThrottlesTypeOK
<1>2. \A i \in 1..n : attempts[i][1] \in others
  BY <1>1 DEF TableIsOrderly, Has
<1>3. f \in Injection(1..n, others)
  BY <1>2 DEF TableIsOrderly, Injection, IsInjective
<1>4. IsFiniteSet(all)
  <2>1. all \subseteq Credentials /\ IsFiniteSet(Credentials)
    BY ThrottlesAssumption DEF Registered
  <2> HIDE DEF all
  <2>2. QED
    BY <2>1, FS_Subset
<1>5. IsFiniteSet(others) /\ Cardinality(others) = Cardinality(all) - 1
  <2>1. k \in all
    OBVIOUS
  <2> HIDE DEF all
  <2>2. QED
    BY <1>4, <2>1, FS_RemoveElement
<1>6. Cardinality(1..n) = n
  <2>1. Cardinality(1..n) = IF 1 > n THEN 0 ELSE n - 1 + 1
    BY <1>1, FS_Interval
  <2>2. QED
    BY <1>1, <2>1
<1> HIDE DEF f, others, all
<1>7. n <= Cardinality(others)
  BY <1>3, <1>5, <1>6, FS_Injection
<1>8. Cardinality(all) \in Nat
  BY <1>4, FS_CardinalityType
<1>9. QED
  BY <1>1, <1>5, <1>7, <1>8 DEF all

LEMMA RecentOfNone ==
  ASSUME NEW now \in Nat, NEW window \in Nat
  PROVE  Len(Recent(<<>>, window, now)) = 0
<1>1. Watched(<<>>, <<>>, 1, window, now)
  BY WatchedFirst
<1> DEFINE kept == Recent(<<>>, window, now)
<1>2. PICK q : KeepsFrom(kept, <<>>, q, window, now)
  BY <1>1, RecentOfHistory
<1> HIDE DEF kept
<1>3. q \in 0..Len(<<>>) /\ Len(kept) = Len(<<>>) - q
  BY <1>2 DEF KeepsFrom, IsTail
<1>4. QED
  BY <1>3 DEF kept

\* A registration that finds k in row i of the table: what the window keeps, and the present
\* time when it is let through.
RegisteredAt(table, i, k) ==
    LET kept == Recent(table[i][2], CredentialWindow, clock)
        allowed == Len(kept) < CredentialLimit
    IN  /\ RoomFor(table, k) /\ i \in 1..Len(table) /\ table[i][1] = k
        /\ attempts' = [table EXCEPT ![i] = <<k, IF allowed THEN Append(kept, clock) ELSE kept>>]
        /\ passed' = IF allowed THEN Passed({<<"register", k>>}) ELSE passed
        /\ clock' = clock /\ buckets' = buckets /\ signIns' = signIns
        /\ enrollments' = enrollments

LEMMA RegisterReplaces ==
  ASSUME ThrottlesTypeOK, TableIsOrderly, NEW k \in Credentials, Register(k)
  PROVE  \E table, i : RegisteredAt(table, i, k)
<1> DEFINE table == WithRoom(k)
           i == CHOOSE n \in DOMAIN table : table[n][1] = k
           kept == Recent(table[i][2], CredentialWindow, clock)
           allowed == Len(kept) < CredentialLimit
<1>1. RoomFor(table, k)
  BY RoomIsMade
<1>2. /\ attempts' = [table EXCEPT ![i] = <<k, IF allowed THEN Append(kept, clock) ELSE kept>>]
      /\ passed' = IF allowed THEN Passed({<<"register", k>>}) ELSE passed
      /\ clock' = clock /\ buckets' = buckets /\ signIns' = signIns /\ enrollments' = enrollments
  <2>1. Within(table[i][2], CredentialWindow) = kept
    BY WithinIsRecent
  <2> HIDE DEF kept
  <2>2. QED
    BY <2>1 DEF Register
<1> HIDE DEF table
<1>3. i \in 1..Len(table) /\ table[i][1] = k
  <2>1. DOMAIN table = 1..Len(table) /\ \E n \in 1..Len(table) : table[n][1] = k
    BY <1>1 DEF RoomFor
  <2>2. QED
    BY <2>1
<1> HIDE DEF i
<1>4. RegisteredAt(table, i, k)
  BY <1>1, <1>2, <1>3 DEF RegisteredAt
<1>5. QED
  BY <1>4

LEMMA RegisterCounts ==
  ASSUME ThrottlesIInv, NEW k \in Credentials, Register(k)
  PROVE  ThrottlesIInv'
<1> DEFINE key == <<"register", k>>
           n == Len(attempts)
           R == Rows
<1>1. ThrottlesTypeOK /\ TableIsOrderly /\ clock \in Nat /\ clock \in 0..clock
  BY ClockCounts DEF ThrottlesIInv
<1>2. PICK table, i : RegisteredAt(table, i, k)
  BY <1>1, RegisterReplaces
<1> DEFINE list == table[i][2]
           kept == Recent(list, CredentialWindow, clock)
           allowed == Len(kept) < CredentialLimit
           fresh == IF allowed THEN Append(kept, clock) ELSE kept
           row == <<k, fresh>>
           who == IF allowed THEN {key} ELSE {}
<1>3. /\ RoomFor(table, k) /\ i \in 1..Len(table) /\ table[i][1] = k
      /\ attempts' = [table EXCEPT ![i] = row]
      /\ passed' = IF allowed THEN Passed({key}) ELSE passed
      /\ clock' = clock /\ buckets' = buckets /\ signIns' = signIns /\ enrollments' = enrollments
  BY <1>2 DEF RegisteredAt
<1>4. Letting(who)
  <2> HIDE DEF allowed, key
  <2>1. CASE allowed
    <3>1. Letting({key})
      BY <1>1, <1>3, <2>1, PassedLets
    <3>2. QED
      BY <2>1, <3>1
  <2>2. CASE ~ allowed
    <3>1. Letting({})
      BY <1>1, <1>3, <2>2, NobodyPassed
    <3>2. QED
      BY <2>2, <3>1
  <2>3. QED
    BY <2>1, <2>2
<1>5. \A c \in Credentials : passed'[<<"register", c>>] =
         IF c = k /\ allowed THEN Append(passed[<<"register", c>>], clock) ELSE passed[<<"register", c>>]
  <2>1. \A c \in Credentials : <<"register", c>> \in who <=> c = k /\ allowed
    OBVIOUS
  <2> HIDE DEF who, allowed
  <2>2. QED
    BY <1>4, <2>1, KeysOfCallers DEF Letting
<1>6. list \in Seq(0..clock) /\ row[1] = k /\ row[2] = fresh
  <2>1. table[i] \in Rows
    BY <1>3 DEF RoomFor
  <2>2. QED
    BY <2>1 DEF Rows
<1>7. \A times : Watched(list, times, CredentialLimit, CredentialWindow, clock) =>
         Watched(fresh, IF allowed THEN Append(times, clock) ELSE times,
                 CredentialLimit, CredentialWindow, clock)
  <2> HIDE DEF list
  <2> SUFFICES ASSUME NEW times, Watched(list, times, CredentialLimit, CredentialWindow, clock)
               PROVE  Watched(fresh, IF allowed THEN Append(times, clock) ELSE times,
                              CredentialLimit, CredentialWindow, clock)
    OBVIOUS
  <2>1. CASE allowed
    <3>1. Watched(Append(kept, clock), Append(times, clock), CredentialLimit, CredentialWindow, clock)
      BY <1>1, <2>1, WatchedPass, Windows
    <3> HIDE DEF kept, allowed
    <3>2. QED
      BY <2>1, <3>1
  <2>2. CASE ~ allowed
    <3>1. Watched(kept, times, CredentialLimit, CredentialWindow, clock)
      BY <1>1, WatchedKept, Windows
    <3> HIDE DEF kept, allowed
    <3>2. QED
      BY <2>2, <3>1
  <2>3. QED
    BY <2>1, <2>2
<1>8. ~ Has(attempts, k) => allowed /\ list = <<>>
  <2>1. \A a, b \in 1..Len(table) : table[a][1] = table[b][1] => a = b
    BY <1>3 DEF RoomFor
  <2>2. ~ Has(attempts, k) => \E a \in 1..Len(table) : table[a][1] = k /\ table[a][2] = <<>>
    BY <1>3 DEF RoomFor
  <2>3. ~ Has(attempts, k) => list = <<>>
    BY <1>3, <2>1, <2>2
  <2>4. list = <<>> => allowed
    <3>1. Len(Recent(<<>>, CredentialWindow, clock)) = 0
      BY <1>1, RecentOfNone, Windows
    <3> HIDE DEF list
    <3>2. QED
      BY <3>1, Windows
  <2>5. QED
    BY <2>3, <2>4
<1>9. Has(attempts, k) => k \in Registered
  BY <1>1 DEF TableIsOrderly, Has, ThrottlesTypeOK
<1> HIDE DEF allowed
<1>10. \A c \in Credentials : passed[<<"register", c>>] \in Seq(0..clock)
  BY <1>1, KeysOfCallers DEF ThrottlesTypeOK
<1>11. Registered' = Registered \union {k}
  <2>1. \A c \in Credentials : Append(passed[<<"register", c>>], clock) # <<>>
    <3> SUFFICES ASSUME NEW s \in Seq(0..clock) PROVE Append(s, clock) # <<>>
      BY <1>10
    <3>1. Len(Append(s, clock)) = Len(s) + 1 /\ Len(s) \in Nat
      BY <1>1, AppendProperties
    <3>2. Len(<<>>) = 0
      OBVIOUS
    <3>3. QED
      BY <3>1, <3>2
  <2>2. \A c \in Credentials : passed'[<<"register", c>>] # <<>> <=>
          passed[<<"register", c>>] # <<>> \/ c = k
    <3> SUFFICES ASSUME NEW c \in Credentials
                 PROVE  passed'[<<"register", c>>] # <<>> <=> passed[<<"register", c>>] # <<>> \/ c = k
      OBVIOUS
    <3>1. CASE c = k /\ allowed
      BY <1>5, <2>1, <3>1
    <3>2. CASE c = k /\ ~ allowed
      <4>1. k \in Registered
        BY <1>8, <1>9, <3>2
      <4>2. QED
        BY <1>5, <3>2, <4>1 DEF Registered
    <3>3. CASE c # k
      BY <1>5, <3>3
    <3>4. QED
      BY <3>1, <3>2, <3>3
  <2>3. QED
    BY <2>2 DEF Registered
<1> HIDE DEF fresh
<1>12. fresh \in Seq(0..clock) /\ Keeps(row)
  <2>1. PICK times : Watched(list, times, CredentialLimit, CredentialWindow, clock)
    BY <1>3 DEF RoomFor, Keeps
  <2>2. PICK after : Watched(fresh, after, CredentialLimit, CredentialWindow, clock)
    BY <1>7, <2>1
  <2>3. QED
    BY <1>6, <2>2 DEF Watched, Keeps
<1>13. row \in Rows
  BY <1>12 DEF Rows
<1> HIDE DEF row, list
<1>14. Replaced(table, i, k, row)
  BY <1>3, <1>6, <1>13 DEF Replaced
<1>15. /\ attempts' \in Seq(Rows) /\ Len(attempts') = Len(table)
       /\ \A j \in 1..Len(table) : attempts'[j][1] = table[j][1]
       /\ \A j \in 1..Len(table) : j # i => attempts'[j] = table[j]
       /\ attempts'[i] = row
  BY <1>14, ReplacedRows
<1>16. ThrottlesTypeOK'
  <2>1. Len(attempts') <= MaxBuckets /\ attempts' \in Seq(Credentials \X Seq(0..clock'))
    BY <1>3, <1>15 DEF RoomFor, Rows
  <2>2. QED
    BY <1>1, <1>3, <1>4, <2>1 DEF ThrottlesTypeOK, Letting
<1>17. TableIsOrderly'
  <2>1. \A a, b \in 1..Len(attempts') : attempts'[a][1] = attempts'[b][1] => a = b
    BY <1>3, <1>15 DEF RoomFor
  <2>2. ASSUME NEW a \in 1..Len(attempts') PROVE attempts'[a][1] \in Registered'
    BY <1>3, <1>11, <1>15 DEF RoomFor
  <2>3. ASSUME NEW a \in 1..Len(attempts') PROVE Keeps(attempts'[a])
    BY <1>3, <1>12, <1>15 DEF RoomFor
  <2>4. \A a \in 1..Len(attempts') : \E times :
            Watched(attempts'[a][2], times, CredentialLimit, CredentialWindow, clock')
    BY <1>3, <2>3 DEF Keeps
  <2>5. QED
    BY <2>1, <2>2, <2>4 DEF TableIsOrderly, Keeps
<1>18. TableCounts'
  <2> SUFFICES ASSUME Cardinality(Registered') <= MaxBuckets, NEW c \in Registered'
               PROVE  \E j \in 1..Len(attempts') :
                         /\ attempts'[j][1] = c
                         /\ Watched(attempts'[j][2], passed'[<<"register", c>>],
                                    CredentialLimit, CredentialWindow, clock')
    BY DEF TableCounts, Counts
  <2>1. c \in Credentials
    BY DEF Registered
  <2>2. Cardinality(Registered) <= MaxBuckets
    <3>1. Registered' \subseteq Credentials /\ Registered \in SUBSET (Registered')
      BY <1>11 DEF Registered
    <3>2. IsFiniteSet(Registered')
      BY <3>1, ThrottlesAssumption, FS_Subset
    <3>3. Cardinality(Registered) <= Cardinality(Registered')
      BY <3>1, <3>2, FS_Subset
    <3>4. IsFiniteSet(Registered)
      BY <3>1, <3>2, FS_Subset
    <3>5. Cardinality(Registered) \in Nat /\ Cardinality(Registered') \in Nat
      BY <3>2, <3>4, FS_CardinalityType
    <3>6. QED
      BY <3>3, <3>5, Windows
  <2>3. \A d \in Registered : \E j \in 1..n :
           /\ attempts[j][1] = d
           /\ Watched(attempts[j][2], passed[<<"register", d>>], CredentialLimit, CredentialWindow, clock)
    BY <2>2 DEF ThrottlesIInv, TableCounts, Counts
  <2>4. Has(attempts, k) \/ n < MaxBuckets
    <3>1. SUFFICES ASSUME ~ Has(attempts, k), ~ (n < MaxBuckets) PROVE FALSE
      OBVIOUS
    <3>2. Cardinality(Registered') > n
      BY <1>1, <1>11, <3>1, MoreThanPlaces
    <3>3. n \in Nat
      BY <1>1 DEF ThrottlesTypeOK
    <3>4. Cardinality(Registered') \in Nat
      <4>1. Registered' \subseteq Credentials
        BY DEF Registered
      <4>2. QED
        BY <4>1, ThrottlesAssumption, FS_Subset, FS_CardinalityType
    <3>5. QED
      BY <3>1, <3>2, <3>3, <3>4, Windows
  <2>5. \A j \in 1..n : j \in 1..Len(table) /\ table[j] = attempts[j]
    BY <1>3, <2>4 DEF RoomFor
  <2>6. CASE c # k
    <3>1. c \in Registered
      BY <1>11, <2>6
    <3>2. PICK j \in 1..n :
             /\ attempts[j][1] = c
             /\ Watched(attempts[j][2], passed[<<"register", c>>], CredentialLimit, CredentialWindow, clock)
      BY <2>3, <3>1
    <3>3. j \in 1..Len(table) /\ table[j] = attempts[j] /\ j # i
      BY <1>3, <2>5, <2>6, <3>2
    <3>4. attempts'[j] = attempts[j] /\ j \in 1..Len(attempts')
      BY <1>15, <3>3
    <3>5. passed'[<<"register", c>>] = passed[<<"register", c>>]
      BY <1>5, <2>1, <2>6
    <3>6. QED
      BY <1>3, <3>2, <3>4, <3>5
  <2>7. CASE c = k
    <3>1. Watched(list, passed[key], CredentialLimit, CredentialWindow, clock)
      <4>1. CASE Has(attempts, k)
        <5>1. PICK j \in 1..n :
                 /\ attempts[j][1] = k
                 /\ Watched(attempts[j][2], passed[key], CredentialLimit, CredentialWindow, clock)
          BY <1>9, <2>3, <4>1
        <5>2. j \in 1..Len(table) /\ table[j] = attempts[j]
          BY <2>5
        <5>3. j = i
          BY <1>3, <5>1, <5>2 DEF RoomFor
        <5>4. QED
          BY <5>1, <5>2, <5>3 DEF list
      <4>2. CASE ~ Has(attempts, k)
        <5>1. k \notin Registered
          <6>1. DOMAIN attempts = 1..n
            BY <1>1 DEF ThrottlesTypeOK
          <6>2. QED
            BY <2>3, <4>2, <6>1 DEF Has
        <5>2. passed[key] = <<>> /\ list = <<>>
          BY <1>8, <4>2, <5>1 DEF Registered
        <5>3. QED
          BY <1>1, <5>2, WatchedFirst
      <4>3. QED
        BY <4>1, <4>2
    <3>2. Watched(fresh, IF allowed THEN Append(passed[key], clock) ELSE passed[key],
                  CredentialLimit, CredentialWindow, clock)
      BY <1>7, <3>1
    <3>3. passed'[key] = IF allowed THEN Append(passed[key], clock) ELSE passed[key]
      BY <1>5
    <3>4. attempts'[i][1] = k /\ attempts'[i][2] = fresh /\ i \in 1..Len(attempts')
      BY <1>3, <1>6, <1>15
    <3>5. Watched(attempts'[i][2], passed'[key], CredentialLimit, CredentialWindow, clock')
      BY <1>3, <3>2, <3>3, <3>4
    <3>6. QED
      BY <2>7, <3>4, <3>5
  <2>8. QED
    BY <2>6, <2>7
<1>19. BucketsCount'
  <2>1. \A c \in Consumers : <<"ask", c>> \notin who
    OBVIOUS
  <2> HIDE DEF who
  <2>2. QED
    BY <1>1, <1>3, <1>4, <2>1, BucketsStay DEF ThrottlesIInv
<1>20. SignInsCount'
  <2>1. \A p \in Peers : <<"sign-in", p>> \notin who
    OBVIOUS
  <2> HIDE DEF who
  <2>2. QED
    BY <1>1, <1>3, <1>4, <2>1, SignInsStay DEF ThrottlesIInv
<1>21. EnrollmentsCount'
  <2>1. \A e \in EnrollKeys : e \notin who
    BY KeysAreApart
  <2> HIDE DEF who
  <2>2. QED
    BY <1>1, <1>3, <1>4, <2>1, EnrollmentsStay DEF ThrottlesIInv
<1>22. QED
  BY <1>16, <1>17, <1>18, <1>19, <1>20, <1>21 DEF ThrottlesIInv

\* Nothing happens to the throttles while the rest of the exchange moves.
LEMMA StutterCounts ==
  ASSUME ThrottlesIInv, UNCHANGED throttleVars
  PROVE  ThrottlesIInv'
<1>1. /\ clock' = clock /\ buckets' = buckets /\ signIns' = signIns
      /\ enrollments' = enrollments /\ attempts' = attempts /\ passed' = passed
  BY DEF throttleVars
<1>2. ThrottlesTypeOK /\ Letting({})
  BY <1>1, NobodyPassed DEF ThrottlesIInv
<1>3. ThrottlesTypeOK'
  BY <1>1, <1>2 DEF ThrottlesTypeOK
<1>4. BucketsCount' /\ SignInsCount' /\ EnrollmentsCount'
  BY <1>1, <1>2, BucketsStay, SignInsStay, EnrollmentsStay DEF ThrottlesIInv
<1>5. TableIsOrderly' /\ TableCounts'
  BY <1>1, <1>2, TableStays DEF ThrottlesIInv
<1>6. QED
  BY <1>3, <1>4, <1>5 DEF ThrottlesIInv

-----------------------------------------------------------------------------
\* What the invariant says of every caller

LEMMA CountsBoundBursts ==
  ASSUME ThrottlesIInv
  PROVE  BurstIsBounded
BY DEF ThrottlesIInv, BucketsCount, Spent, InBurst, BurstIsBounded

LEMMA CountsKeepWindows ==
  ASSUME ThrottlesIInv
  PROVE  WindowsAreKept
<1>1. \A p \in Peers : LimitedTo(SignInLimit, SignInWindow, passed[<<"sign-in", p>>])
  BY DEF ThrottlesIInv, SignInsCount, Watched
<1>2. \A p \in Peers : LimitedTo(PeerLimit, EnrollWindow, passed[<<"peer", p>>])
  <2>1. \A p \in Peers : <<"peer", p>> \in EnrollKeys /\ LimitOf(<<"peer", p>>) = PeerLimit
    BY KeysOfCallers DEF LimitOf
  <2>2. QED
    BY <2>1 DEF ThrottlesIInv, EnrollmentsCount, Watched
<1>3. \A o \in Owners : LimitedTo(OwnerLimit, EnrollWindow, passed[<<"owner", o>>])
  <2>1. \A o \in Owners : <<"owner", o>> \in EnrollKeys /\ LimitOf(<<"owner", o>>) = OwnerLimit
    BY KeysOfCallers DEF LimitOf
  <2>2. QED
    BY <2>1 DEF ThrottlesIInv, EnrollmentsCount, Watched
<1>4. ASSUME Cardinality(Registered) <= MaxBuckets, NEW k \in Credentials
      PROVE  LimitedTo(CredentialLimit, CredentialWindow, passed[<<"register", k>>])
  <2>1. CASE k \in Registered
    BY <1>4, <2>1 DEF ThrottlesIInv, TableCounts, Counts, Watched
  <2>2. CASE k \notin Registered
    <3>1. passed[<<"register", k>>] = <<>> /\ DOMAIN <<>> = {}
      BY <2>2 DEF Registered
    <3>2. QED
      BY <3>1 DEF LimitedTo
  <2>3. QED
    BY <2>1, <2>2
<1>5. QED
  BY <1>1, <1>2, <1>3, <1>4 DEF WindowsAreKept

LEMMA CountsCostNothing ==
  ASSUME ThrottlesIInv
  PROVE  RefusalsCostNothing
<1>1. clock \in Nat
  BY ClockCounts DEF ThrottlesIInv
<1>2. ASSUME NEW p \in Peers
      PROVE  Len(Within(signIns[p], SignInWindow)) = RecentPasses(<<"sign-in", p>>, SignInWindow)
  <2> DEFINE list == signIns[p]
             times == passed[<<"sign-in", p>>]
  <2>1. Watched(list, times, SignInLimit, SignInWindow, clock)
    BY DEF ThrottlesIInv, SignInsCount
  <2>2. Within(list, SignInWindow) = Recent(list, SignInWindow, clock)
    BY WithinIsRecent
  <2> HIDE DEF list, times
  <2>3. Len(Recent(list, SignInWindow, clock)) = Cardinality({i \in DOMAIN times : clock - times[i] < SignInWindow})
    BY <1>1, <2>1, WatchedCount, Windows
  <2>4. QED
    BY <2>2, <2>3 DEF RecentPasses, list, times
<1>3. ASSUME NEW key \in EnrollKeys
      PROVE  Len(Within(enrollments[key], EnrollWindow)) = RecentPasses(key, EnrollWindow)
  <2> DEFINE list == enrollments[key]
             times == passed[key]
             limit == LimitOf(key)
  <2>1. Watched(list, times, limit, EnrollWindow, clock)
    BY DEF ThrottlesIInv, EnrollmentsCount
  <2>2. Within(list, EnrollWindow) = Recent(list, EnrollWindow, clock)
    BY WithinIsRecent
  <2> HIDE DEF list, times, limit
  <2>3. Len(Recent(list, EnrollWindow, clock)) = Cardinality({i \in DOMAIN times : clock - times[i] < EnrollWindow})
    BY <1>1, <2>1, WatchedCount, Windows
  <2>4. QED
    BY <2>2, <2>3 DEF RecentPasses, list, times
<1>4. QED
  BY <1>2, <1>3 DEF RefusalsCostNothing

\* A registration forgets the first row at most.
LEMMA OldestForgotten ==
  ASSUME ThrottlesIInv, [ThrottlesNext]_throttleVars
  PROVE  \A i \in DOMAIN attempts : i > 1 => Has(attempts', attempts[i][1])
<1>1. ThrottlesTypeOK /\ TableIsOrderly
  BY DEF ThrottlesIInv
<1>2. DOMAIN attempts = 1..Len(attempts) /\ Len(attempts) \in Nat
  BY <1>1 DEF ThrottlesTypeOK
<1>3. CASE attempts' = attempts
  BY <1>2, <1>3 DEF Has
<1>4. ASSUME NEW k \in Credentials, Register(k)
      PROVE  \A i \in 2..Len(attempts) : Has(attempts', attempts[i][1])
  <2>1. PICK table, i : RegisteredAt(table, i, k)
    BY <1>1, <1>4, RegisterReplaces
  <2> DEFINE kept == Recent(table[i][2], CredentialWindow, clock)
             row == <<k, IF Len(kept) < CredentialLimit THEN Append(kept, clock) ELSE kept>>
  <2>2. /\ RoomFor(table, k) /\ i \in 1..Len(table) /\ table[i][1] = k
        /\ attempts' = [table EXCEPT ![i] = row] /\ row[1] = k
    BY <2>1 DEF RegisteredAt
  <2> HIDE DEF row
  <2>3. DOMAIN table = 1..Len(table)
    BY <2>2 DEF RoomFor
  <2>4. DOMAIN attempts' = 1..Len(table) /\ \A j \in 1..Len(table) : attempts'[j][1] = table[j][1]
    BY <2>2, <2>3
  <2>5. \A h \in 2..Len(attempts) : \E j \in 1..Len(table) : table[j][1] = attempts[h][1]
    BY <2>2 DEF RoomFor
  <2>6. QED
    BY <2>4, <2>5 DEF Has
<1>5. attempts' = attempts \/ \E k \in Credentials : Register(k)
  BY DEF ThrottlesNext, throttleVars, Tick, Ask, SignIn, Enroll
<1>6. QED
  BY <1>2, <1>3, <1>4, <1>5

\* The throttles keep what they promise, for every limit and window, in whatever order
\* the callers come.
THEOREM ThrottlesAlwaysHold == ThrottlesSpec => ThrottlesHold
<1>1. ThrottlesInit => ThrottlesIInv
  BY InitCounts
<1>2. ThrottlesIInv /\ [ThrottlesNext]_throttleVars => ThrottlesIInv'
  <2> SUFFICES ASSUME ThrottlesIInv, [ThrottlesNext]_throttleVars PROVE ThrottlesIInv'
    OBVIOUS
  <2>1. CASE Tick
    BY <2>1, TickCounts
  <2>2. ASSUME NEW c \in Consumers, Ask(c) PROVE ThrottlesIInv'
    BY <2>2, AskCounts
  <2>3. ASSUME NEW p \in Peers, SignIn(p) PROVE ThrottlesIInv'
    BY <2>3, SignInCounts
  <2>4. ASSUME NEW p \in Peers, NEW o \in Owners, Enroll(o, p) PROVE ThrottlesIInv'
    BY <2>4, EnrollCounts
  <2>5. ASSUME NEW k \in Credentials, Register(k) PROVE ThrottlesIInv'
    BY <2>5, RegisterCounts
  <2>6. CASE UNCHANGED throttleVars
    BY <2>6, StutterCounts
  <2>7. QED
    BY <2>1, <2>2, <2>3, <2>4, <2>5, <2>6 DEF ThrottlesNext
<1>3. ThrottlesIInv => ThrottlesTypeOK /\ BurstIsBounded /\ WindowsAreKept /\ RefusalsCostNothing
  BY CountsBoundBursts, CountsKeepWindows, CountsCostNothing DEF ThrottlesIInv
<1>4. ThrottlesIInv /\ [ThrottlesNext]_throttleVars
        => [\A i \in DOMAIN attempts : i > 1 => Has(attempts', attempts[i][1])]_throttleVars
  BY OldestForgotten
<1>5. QED
  BY <1>1, <1>2, <1>3, <1>4, PTL DEF ThrottlesSpec, ThrottlesHold, OnlyTheOldestIsForgotten
=============================================================================
