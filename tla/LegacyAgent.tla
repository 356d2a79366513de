----------------------------- MODULE LegacyAgent -----------------------------
(***************************************************************************)
(* The single-process provider agent (inference_exchange/provider/agent.py,*)
(* kept for tests and demos).  Its requests run in a thread pool and in    *)
(* tasks nobody keeps: they outlive the connection they came over, and the *)
(* counter that the heartbeats report counts them all.                     *)
(***************************************************************************)
EXTENDS Integers, FiniteSets

CONSTANTS
    Jobs,       \* requests, each sent to this agent over one connection
    MaxLinks    \* bound: connections

ASSUME LegacyAssumption == MaxLinks \in Nat \ {0}

VARIABLES
    lphase,     \* "connecting", "serving" or "backoff"
    links,      \* number of the present or last connection
    job,        \* state and connection of each request
    inFlight,   \* ProviderAgent._active_requests
    reported,   \* the count in the last heartbeat of the present connection
    told        \* what was sent last for each request

legacyVars == <<lphase, links, job, inFlight, reported, told>>
Running == {j \in Jobs : job[j].stage = "running"}

LegacyTypeOK ==
    /\ lphase \in {"connecting", "serving", "backoff"}
    /\ links \in 0..MaxLinks
    /\ job \in [Jobs -> [stage : {"new", "running", "over"}, link : 0..MaxLinks]]
    /\ inFlight \in Nat /\ reported \in Nat
    /\ told \in [Jobs -> {"none", "done", "error"}]

LegacyConnects ==
    /\ lphase = "connecting" /\ links < MaxLinks
    /\ lphase' = "serving" /\ links' = links + 1
    /\ reported' = 0
    /\ UNCHANGED <<job, inFlight, told>>

\* Variant of LegacyCloses: starts the count afresh
LegacyClosesResetting ==
    /\ lphase = "serving" /\ links < MaxLinks
    /\ lphase' \in {"connecting", "backoff"}
    /\ inFlight' = 0
    /\ UNCHANGED <<links, job, reported, told>>

\* No reason of a close is final, not even a rejected credential; a normal
\* closure ends the loop over the messages and is followed by no sleep
LegacyCloses ==
    /\ lphase = "serving" /\ links < MaxLinks
    /\ lphase' \in {"connecting", "backoff"}
    /\ UNCHANGED <<links, job, inFlight, reported, told>>

LegacyConnectFails ==
    /\ lphase = "connecting" /\ lphase' = "backoff"
    /\ UNCHANGED <<links, job, inFlight, reported, told>>

LegacyBackoffEnds ==
    /\ lphase = "backoff" /\ lphase' = "connecting"
    /\ UNCHANGED <<links, job, inFlight, reported, told>>

LegacyReceives(j) ==
    /\ lphase = "serving" /\ job[j].stage = "new"
    /\ job' = [job EXCEPT ![j] = [stage |-> "running", link |-> links]]
    /\ inFlight' = inFlight + 1
    /\ UNCHANGED <<lphase, links, reported, told>>

\* Variant of LegacyFinishes: a failed request is not counted down
LegacyFinishesUncounted(j) ==
    /\ job[j].stage = "running"
    /\ job' = [job EXCEPT ![j].stage = "over"]
    /\ \/ inFlight' = inFlight - 1 /\ told' = [told EXCEPT ![j] = "done"]
       \/ inFlight' = inFlight /\ told' = [told EXCEPT ![j] = "error"]
    /\ UNCHANGED <<lphase, links, reported>>

\* _handle_inference: on a closed connection nothing gets out
LegacyFinishes(j) ==
    /\ job[j].stage = "running"
    /\ job' = [job EXCEPT ![j].stage = "over"]
    /\ inFlight' = inFlight - 1
    /\ IF lphase = "serving" /\ job[j].link = links
       THEN \E verdict \in {"done", "error"} : told' = [told EXCEPT ![j] = verdict]
       ELSE UNCHANGED told
    /\ UNCHANGED <<lphase, links, reported>>

LegacyBeats ==
    /\ lphase = "serving"
    /\ reported' = inFlight
    /\ UNCHANGED <<lphase, links, job, inFlight, told>>

LegacyInit ==
    /\ lphase = "connecting" /\ links = 0
    /\ job = [j \in Jobs |-> [stage |-> "new", link |-> 0]]
    /\ inFlight = 0 /\ reported = 0
    /\ told = [j \in Jobs |-> "none"]

LegacyNext ==
    \/ LegacyConnects \/ LegacyCloses \/ LegacyConnectFails \/ LegacyBackoffEnds
    \/ \E j \in Jobs : LegacyReceives(j) \/ LegacyFinishes(j)
    \/ LegacyBeats

LegacyFairness ==
    /\ WF_legacyVars(LegacyBeats)
    /\ \A j \in Jobs : WF_legacyVars(LegacyFinishes(j))

LegacySpec == LegacyInit /\ [][LegacyNext]_legacyVars /\ LegacyFairness

-----------------------------------------------------------------------------
\* The counter is the number of requests that run, those of closed connections
\* included, so it never goes below zero (finally of _handle_inference).
CounterIsExact == inFlight = Cardinality(Running)

\* The load a heartbeat carried over from an earlier connection goes away: once
\* nothing runs any more, the coordinator hears of it (_heartbeat_loop).
StaleLoadFades ==
    (lphase = "serving" /\ Running = {}) ~>
        (reported = 0 \/ Running # {} \/ lphase # "serving")

\* The load the agent reports is what runs, whichever connection it came by.
LegacyLoadIsTrue == LegacyTypeOK /\ CounterIsExact

=============================================================================
