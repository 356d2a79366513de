--------------------------- MODULE InferenceRelay ---------------------------
(***************************************************************************)
(* The life of a chat request: POST /v1/chat/completions                   *)
(* (coordinator/routes_inference.py) on top of ProviderHub, the providers' *)
(* socket tasks (main.provider_websocket) and the operators' queue and     *)
(* quarantine controls.  Every handler runs on one event loop and is       *)
(* interleaved with the others only where it awaits, so each stretch       *)
(* between two awaits is one action:                                       *)
(*                                                                         *)
(*   new -> queued -> sendingLast -> responding -> relaying -> closing     *)
(*      \-> sending -> (sendingLast)                                       *)
(*                                                                         *)
(* "sending" may still retry on another provider, "sendingLast" may not.   *)
(* "responding" is a StreamingResponse whose body has not started.  The    *)
(* provider is external: it may send as many response chunks as it likes   *)
(* for a request it received, MaxChunks of them unread at a time, and up to *)
(* MaxAnswers Done or Error messages.  A chunk restarts the 120 s wait.    *)
(***************************************************************************)
EXTENDS ProviderHub

CONSTANTS
  Streamed,       (* requests with stream = true                            *)
  ChargeMayFail,  (* whether charge_request may raise                       *)
  BadKeys,        (* providers whose registered key cannot be encrypted to  *)
  MaxAnswers,     (* bound: answers a provider sends for one request        *)
  MaxChunks,      (* bound: unread chunks in each response queue            *)
  Leftover        (* bound: work an agent brings from earlier connections   *)

ASSUME RelayAssumption ==
  /\ Streamed \subseteq Requests
  /\ ChargeMayFail \in BOOLEAN
  /\ BadKeys \subseteq Providers
  /\ MaxAnswers \in Nat \ {0}
  /\ MaxChunks \in [Requests -> Nat]
  /\ Leftover \in Nat

VARIABLES
  pc,        (* where each request's handler is                             *)
  target,    (* its local variable `provider`                               *)
  verdict,   (* what the consumer was told                                  *)
  outcome,   (* status of its request_outcomes row                          *)
  received,  (* <<r, p>>: the request reached provider p                    *)
  said,      (* how often provider p has answered request r                 *)
  bills      (* history: how often the request was charged                  *)

relayVars == <<pc, target, verdict, outcome, received, said, bills>>
vars == <<hubVars, relayVars>>

Sending == {"sending", "sendingLast"}
Live == {"responding", "relaying", "closing"}
Final == {"finished", "cancelled", "abandoned"}
Location == {"new", "queued"} \cup Sending \cup Live \cup Final
Verdict == {"none", "done", "error", "timeout", "no_match", "queue_full",
            "queue_timeout", "queue_cleared", "insufficient_balance",
            "send_failed", "encrypt_failed"}

Init ==
  /\ HubInit
  /\ pc = [r \in Requests |-> "new"]
  /\ target = [r \in Requests |-> NoProvider]
  /\ verdict = [r \in Requests |-> "none"]
  /\ outcome = [r \in Requests |-> "none"]
  /\ received = {}
  /\ said = [r \in Requests |-> [p \in Providers |-> 0]]
  /\ bills = [r \in Requests |-> 0]

(* Types of every variable; `active` is a natural number because every       *)
(* decrement in the hub is guarded by max(0, ...).                           *)
TypeOK ==
  /\ HubTypeOK
  /\ pc \in [Requests -> Location]
  /\ target \in [Requests -> ProviderOrNone]
  /\ verdict \in [Requests -> Verdict]
  /\ outcome \in [Requests -> {"none", "matched", "completed", "failed"}]
  /\ received \in SUBSET (Requests \X ProviderOrNone)
  /\ said \in [Requests -> [Providers -> Nat]]
  /\ bills \in [Requests -> Nat]

Finish(r, v) ==
  /\ pc' = [pc EXCEPT ![r] = "finished"]
  /\ verdict' = [verdict EXCEPT ![r] = v]

(* amend_request_outcome: only a row that still says "matched" changes.      *)
Amended(rs, status) ==
  [r \in Requests |-> IF r \in rs /\ outcome[r] = "matched"
                      THEN status ELSE outcome[r]]

-----------------------------------------------------------------------------
(* _route_and_dispatch, up to its first await.                               *)

RefuseUnfunded(r) ==
  /\ pc[r] = "new"
  /\ Finish(r, "insufficient_balance")
  /\ UNCHANGED <<hubVars, target, outcome, received, said, bills>>

RouteDirect(r, p) ==
  /\ pc[r] = "new"
  /\ p \in Selectable(r, active) \ BadKeys
  /\ BeginSend(r, p, active)
  /\ pc' = [pc EXCEPT ![r] = "sending"]
  /\ target' = [target EXCEPT ![r] = p]
  /\ UNCHANGED <<link, quarantined, callback, queueVars, dispatches, verdict,
                 outcome, received, said, bills>>

(* encrypt_json raises: registration looks only at the length of a key.  The *)
(* response queue exists already and no handler of the exception removes it. *)
EncryptionFails(r, p) ==
  /\ pc[r] = "new"
  /\ p \in Selectable(r, active) \cap BadKeys
  /\ CreateResponseQueue(r)
  /\ Finish(r, "encrypt_failed")
  /\ UNCHANGED <<providerVars, routedTo, callback, queueVars, dispatches, target,
                 outcome, received, said, bills>>

FailFast(r) ==
  /\ pc[r] = "new"
  /\ Routable(r) = {}
  /\ Finish(r, "no_match")
  /\ UNCHANGED <<hubVars, target, outcome, received, said, bills>>

Enqueue(r) ==
  /\ pc[r] = "new"
  /\ Selectable(r, active) = {}
  /\ Routable(r) # {}
  /\ Len(pending) < QueueMaxDepth
  /\ EnqueueRequest(r)
  /\ pc' = [pc EXCEPT ![r] = "queued"]
  /\ UNCHANGED <<providerVars, open, responses, routedTo, callback, dispatches,
                 target, verdict, outcome, received, said, bills>>

RefuseQueueFull(r) ==
  /\ pc[r] = "new"
  /\ Selectable(r, active) = {}
  /\ Routable(r) # {}
  /\ Len(pending) >= QueueMaxDepth
  /\ Finish(r, "queue_full")
  /\ UNCHANGED <<hubVars, target, outcome, received, said, bills>>

-----------------------------------------------------------------------------
(* The wait in the queue.                                                    *)

(* wait_for raised TimeoutError.  The PendingRequest stays where it is.  The *)
(* timer may also fire between event.set and the handler's wake-up, and then *)
(* cancels a wait that had just been satisfied.                              *)
QueueTimeout(r) ==
  /\ pc[r] = "queued"
  /\ Finish(r, "queue_timeout")
  /\ UNCHANGED <<hubVars, target, outcome, received, said, bills>>

ResumeCleared(r) ==
  /\ pc[r] = "queued"
  /\ r \in woken
  /\ r \in cleared
  /\ Finish(r, "queue_cleared")
  /\ UNCHANGED <<hubVars, target, outcome, received, said, bills>>

(* The assigned provider is used as it is: neither its slots, nor its        *)
(* quarantine, nor its presence in the hub are looked at again.              *)
ResumeAssigned(r) ==
  /\ pc[r] = "queued"
  /\ r \in woken
  /\ r \notin cleared
  /\ assigned[r] \notin BadKeys
  /\ BeginSend(r, assigned[r], active)
  /\ pc' = [pc EXCEPT ![r] = "sendingLast"]
  /\ target' = [target EXCEPT ![r] = assigned[r]]
  /\ UNCHANGED <<link, quarantined, callback, queueVars, dispatches, verdict,
                 outcome, received, said, bills>>

(* Here the request is encrypted before it gets a response queue.            *)
AssignedEncryptionFails(r) ==
  /\ pc[r] = "queued"
  /\ r \in woken
  /\ r \notin cleared
  /\ assigned[r] \in BadKeys
  /\ Finish(r, "encrypt_failed")
  /\ UNCHANGED <<hubVars, target, outcome, received, said, bills>>

-----------------------------------------------------------------------------
(* await ws.send_json.                                                       *)

(* The request reaches a provider that is connected.                         *)
Deliver(r) ==
  /\ pc[r] \in Sending
  /\ link[target[r]] = "up"
  /\ <<r, target[r]>> \notin received
  /\ received' = received \cup {<<r, target[r]>>}
  /\ UNCHANGED <<hubVars, pc, target, verdict, outcome, said, bills>>

(* The send returned: the "matched" trace is saved and only now the billing  *)
(* callback is registered.                                                   *)
SendCompletes(r) ==
  /\ pc[r] \in Sending
  /\ <<r, target[r]>> \in received
  /\ outcome' = [outcome EXCEPT ![r] = IF @ = "none" THEN "matched" ELSE @]
  /\ callback' = [callback EXCEPT ![r] = target[r]]
  /\ pc' = [pc EXCEPT ![r] = IF r \in Streamed THEN "responding" ELSE "relaying"]
  /\ UNCHANGED <<providerVars, open, responses, routedTo, queueVars, dispatches,
                 target, verdict, received, said, bills>>

(* The send raised on the direct path and select_provider now returns a      *)
(* different provider.                                                       *)
RetryElsewhere(r, p) ==
  /\ pc[r] = "sending"
  /\ p # target[r]
  /\ p \in Selectable(r, Decremented(target[r])) \ BadKeys
  /\ BeginSend(r, p, Decremented(target[r]))
  /\ callback' = [callback EXCEPT ![r] = NoProvider]
  /\ pc' = [pc EXCEPT ![r] = "sendingLast"]
  /\ target' = [target EXCEPT ![r] = p]
  /\ UNCHANGED <<link, quarantined, queueVars, dispatches, verdict, outcome,
                 received, said, bills>>

(* The different provider cannot be encrypted to: what the first send left   *)
(* behind is gone, but not the response queue that was made for the second.  *)
RetryEncryptionFails(r, p) ==
  /\ pc[r] = "sending"
  /\ p # target[r]
  /\ p \in Selectable(r, Decremented(target[r])) \cap BadKeys
  /\ active' = Decremented(target[r])
  /\ CreateResponseQueue(r)
  /\ routedTo' = [routedTo EXCEPT ![r] = NoProvider]
  /\ callback' = [callback EXCEPT ![r] = NoProvider]
  /\ Finish(r, "encrypt_failed")
  /\ UNCHANGED <<link, quarantined, queueVars, dispatches, target, outcome,
                 received, said, bills>>

(* The send raised and there is no other provider to try: none selectable,   *)
(* or the best one is the provider that just failed, or this was the retry.  *)
SendFails(r) ==
  /\ pc[r] \in Sending
  /\ \/ pc[r] = "sendingLast"
     \/ Selectable(r, Decremented(target[r])) = {}
     \/ target[r] \in Selectable(r, Decremented(target[r]))
  /\ active' = Decremented(target[r])
  /\ RemoveResponseQueue(r)
  /\ Finish(r, "send_failed")
  /\ UNCHANGED <<link, quarantined, queueVars, dispatches, target, outcome,
                 received, said, bills>>

-----------------------------------------------------------------------------
(* _stream_response and _collect_response.                                   *)

StartBody(r) ==
  /\ pc[r] = "responding"
  /\ pc' = [pc EXCEPT ![r] = "relaying"]
  /\ UNCHANGED <<hubVars, target, verdict, outcome, received, said, bills>>

(* The client was gone before the body generator was first iterated: no      *)
(* finally clause runs.                                                      *)
AbandonBody(r) ==
  /\ pc[r] = "responding"
  /\ pc' = [pc EXCEPT ![r] = "abandoned"]
  /\ UNCHANGED <<hubVars, target, verdict, outcome, received, said, bills>>

(* The wait on the response queue ends with v.  A stream still has to yield  *)
(* its last events before its finally clause runs; a collected response runs *)
(* it at once.                                                               *)
EndRelay(r, v) ==
  /\ verdict' = [verdict EXCEPT ![r] = v]
  /\ IF r \in Streamed
     THEN /\ pc' = [pc EXCEPT ![r] = "closing"]
          /\ responses' = IF responses[r] = <<>> THEN responses
                          ELSE [responses EXCEPT ![r] = Tail(@)]
          /\ UNCHANGED <<open, routedTo, callback>>
     ELSE /\ pc' = [pc EXCEPT ![r] = "finished"]
          /\ RemoveResponseQueue(r)
  /\ UNCHANGED <<providerVars, queueVars, dispatches, target, outcome, received,
                 said, bills>>

(* A chunk is passed on or collected, and the next wait begins.              *)
ConsumeChunk(r) ==
  /\ pc[r] = "relaying"
  /\ responses[r] # <<>>
  /\ Head(responses[r]) = "chunk"
  /\ responses' = [responses EXCEPT ![r] = Tail(@)]
  /\ UNCHANGED <<providerVars, open, routedTo, callback, queueVars, dispatches,
                 relayVars>>

Consume(r) ==
  /\ pc[r] = "relaying"
  /\ responses[r] # <<>>
  /\ Head(responses[r]) # "chunk"
  /\ EndRelay(r, IF Head(responses[r]) \in Served THEN "done" ELSE "error")

(* Variant of RelayTimeout: a wait without a timer.                          *)
NoRelayTimeout(r) ==
  /\ pc[r] = "relaying"
  /\ responses[r] # <<>>
  /\ EndRelay(r, "timeout")

(* 120 s after the last message.                                             *)
RelayTimeout(r) ==
  /\ pc[r] = "relaying"
  /\ responses[r] = <<>>
  /\ EndRelay(r, "timeout")

CloseStream(r) ==
  /\ pc[r] = "closing"
  /\ RemoveResponseQueue(r)
  /\ pc' = [pc EXCEPT ![r] = "finished"]
  /\ UNCHANGED <<providerVars, queueVars, dispatches, target, verdict, outcome,
                 received, said, bills>>

(* The consumer disconnects and the running generator is cancelled.          *)
CancelStream(r) ==
  /\ r \in Streamed
  /\ pc[r] \in {"relaying", "closing"}
  /\ RemoveResponseQueue(r)
  /\ pc' = [pc EXCEPT ![r] = "cancelled"]
  /\ UNCHANGED <<providerVars, queueVars, dispatches, target, verdict, outcome,
                 received, said, bills>>

-----------------------------------------------------------------------------
(* The provider's socket task.                                               *)

(* A message of p is being handled.  After a forced disconnect the task      *)
(* handles at most the one message it had already received.                  *)
Heard(p) ==
  \/ link[p] = "up" /\ UNCHANGED link
  \/ link[p] = "closing" /\ link' = [link EXCEPT ![p] = "gone"]

(* The message is an answer to r.                                            *)
Answers(p, r) ==
  /\ <<r, p>> \in received
  /\ said[r][p] < MaxAnswers
  /\ said' = [said EXCEPT ![r][p] = @ + 1]
  /\ Heard(p)

(* Variants of Settle: the callback stays registered; the trace is completed *)
(* before the charge is known to have succeeded.                             *)
SettleWithoutPop(r, charged) ==
  IF callback[r] = NoProvider
  THEN UNCHANGED <<callback, bills, outcome>>
  ELSE /\ UNCHANGED callback
       /\ bills' = [bills EXCEPT ![r] = IF charged THEN @ + 1 ELSE @]
       /\ outcome' = Amended({r}, IF charged THEN "completed" ELSE "failed")

SettleTraceFirst(r, charged) ==
  IF callback[r] = NoProvider
  THEN UNCHANGED <<callback, bills, outcome>>
  ELSE /\ callback' = [callback EXCEPT ![r] = NoProvider]
       /\ bills' = [bills EXCEPT ![r] = IF charged THEN @ + 1 ELSE @]
       /\ outcome' = Amended({r}, "completed")

(* The billing callback: charge_request and _complete_trace, or an exception *)
(* that handle_provider_message turns into a failed outcome.                 *)
Settle(r, charged) ==
  IF callback[r] = NoProvider
  THEN UNCHANGED <<callback, bills, outcome>>
  ELSE /\ callback' = [callback EXCEPT ![r] = NoProvider]
       /\ bills' = [bills EXCEPT ![r] = IF charged THEN @ + 1 ELSE @]
       /\ outcome' = Amended({r}, IF charged THEN "completed" ELSE "failed")

HandleDone(p, r) ==
  /\ Answers(p, r)
  /\ Deposit(r, "done")
  /\ \E charged \in {TRUE} \cup {~ChargeMayFail} : Settle(r, charged)
  /\ active' = Released(p)
  /\ dispatches' = dispatches + 1
  /\ UNCHANGED <<quarantined, open, routedTo, queueVars, pc, target, verdict,
                 received>>

HandleError(p, r) ==
  /\ Answers(p, r)
  /\ r \in open
  /\ Deposit(r, "error")
  /\ outcome' = Amended({r}, "failed")
  /\ callback' = [callback EXCEPT ![r] = NoProvider]
  /\ active' = Released(p)
  /\ dispatches' = dispatches + 1
  /\ UNCHANGED <<quarantined, open, routedTo, queueVars, pc, target, verdict,
                 received, bills>>

(* An error for a request without a response queue returns early: neither    *)
(* the slot is released nor the queue dispatched.                            *)
IgnoreError(p, r) ==
  /\ Answers(p, r)
  /\ r \notin open
  /\ UNCHANGED <<quarantined, active, open, responses, routedTo, callback,
                 queueVars, dispatches, pc, target, verdict, outcome, received,
                 bills>>

(* A response chunk; one without a response queue is dropped.                *)
HandleChunk(p, r) ==
  /\ <<r, p>> \in received
  /\ Heard(p)
  /\ r \in open
  /\ Cardinality({i \in DOMAIN responses[r] : responses[r][i] = "chunk"}) < MaxChunks[r]
  /\ Deposit(r, "chunk")
  /\ UNCHANGED <<quarantined, active, open, routedTo, callback, queueVars, dispatches,
                 relayVars>>

Reached(p) == {r \in Requests : <<r, p>> \in received}
WorkingOn(p) == {r \in Reached(p) : said[r][p] = 0}

(* The agent reports how many requests it is working on.  The report may     *)
(* have been written before a request arrived, or between an answer and the  *)
(* end of the task that sent it, and it counts the tasks of a connection     *)
(* that the agent lost: they run on while it reconnects as a new provider.   *)
HandleHeartbeat(p) ==
  /\ \E count \in 0..(Cardinality(Reached(p)) + Leftover) : Heartbeat(p, count)
  /\ UNCHANGED relayVars

(* A report that is up to date when it is handled.                           *)
AccurateHeartbeat(p) ==
  /\ Heartbeat(p, Cardinality(WorkingOn(p)))
  /\ UNCHANGED relayVars

ConnectProvider(p) == Register(p) /\ UNCHANGED relayVars

(* The socket closes or idles out; the finally clause of the socket task.    *)
DropProvider(p) ==
  \/ /\ Disconnect(p, "gone")
     /\ outcome' = Amended(OrphanedRequests(p), "failed")
     /\ UNCHANGED <<pc, target, verdict, received, said, bills>>
  \/ /\ link[p] = "closing"
     /\ link' = [link EXCEPT ![p] = "gone"]
     /\ UNCHANGED <<quarantined, active, open, responses, routedTo, callback,
                    queueVars, dispatches, relayVars>>

(* force_disconnect, up to its await ws.close.                               *)
ForceDisconnect(p) ==
  /\ Disconnect(p, "closing")
  /\ outcome' = Amended(OrphanedRequests(p), "failed")
  /\ UNCHANGED <<pc, target, verdict, received, said, bills>>

Quarantine(p) == SetQuarantine(p) /\ UNCHANGED relayVars
ClearPending == ClearQueue /\ UNCHANGED relayVars

TryDispatch == DispatchQueued /\ UNCHANGED relayVars

-----------------------------------------------------------------------------
Consumer(r) ==
  \/ RefuseUnfunded(r)
  \/ \E p \in Providers : RouteDirect(r, p) \/ EncryptionFails(r, p)
  \/ FailFast(r)
  \/ Enqueue(r)
  \/ RefuseQueueFull(r)
  \/ QueueTimeout(r)
  \/ ResumeCleared(r)
  \/ ResumeAssigned(r)
  \/ AssignedEncryptionFails(r)
  \/ Deliver(r)
  \/ SendCompletes(r)
  \/ \E p \in Providers : RetryElsewhere(r, p) \/ RetryEncryptionFails(r, p)
  \/ SendFails(r)
  \/ StartBody(r)
  \/ AbandonBody(r)
  \/ ConsumeChunk(r)
  \/ Consume(r)
  \/ RelayTimeout(r)
  \/ CloseStream(r)
  \/ CancelStream(r)

Provider(p) ==
  \/ \E r \in Requests :
       HandleDone(p, r) \/ HandleError(p, r) \/ IgnoreError(p, r) \/ HandleChunk(p, r)
  \/ HandleHeartbeat(p)
  \/ ConnectProvider(p)
  \/ DropProvider(p)
  \/ ForceDisconnect(p)
  \/ Quarantine(p)

Next ==
  \/ \E r \in Requests : Consumer(r)
  \/ \E p \in Providers : Provider(p)
  \/ ClearPending
  \/ TryDispatch

Spec == Init /\ [][Next]_vars

(* Timers fire, runnable handlers run and a send ends (a dead socket is      *)
(* closed by the WebSocket keepalive, which makes the send raise), the one to *)
(* a provider as well as one to a consumer.  The wait of a relay goes on     *)
(* after each chunk.  Nothing else is assumed of providers, operators or     *)
(* consumers.                                                                *)
SendEnds(r) ==
  \/ SendCompletes(r)
  \/ SendFails(r)
  \/ \E p \in Providers : RetryElsewhere(r, p) \/ RetryEncryptionFails(r, p)

HandlerFairness(r) ==
  /\ WF_vars(QueueTimeout(r))
  /\ WF_vars(SendEnds(r))
  /\ WF_vars(StartBody(r))
  /\ WF_vars(ConsumeChunk(r) \/ Consume(r) \/ RelayTimeout(r))
  /\ WF_vars(CloseStream(r))

FairSpec ==
  /\ Spec
  /\ \A r \in Requests : HandlerFairness(r)
  /\ WF_vars(TryDispatch)

(* Agents report their load every ten seconds as long as they are connected, *)
(* so the reports of one whose work does not change become accurate.         *)
HeartbeatSpec == FairSpec /\ \A p \in Providers : WF_vars(AccurateHeartbeat(p))

-----------------------------------------------------------------------------
(* Properties.                                                               *)

(* The trace of a request says "completed" only if its consumer was charged: *)
(* the callback charges first and completes the trace afterwards.            *)
CompletedIsBilled ==
  \A r \in Requests : outcome[r] = "completed" => bills[r] = 1

Refusals == Verdict \ {"none", "done", "error", "timeout"}

(* The refinement mapping: which verdicts count as a refusal.                *)
Told ==
  [r \in Requests |-> IF verdict[r] = "none" THEN "nothing"
                      ELSE IF verdict[r] \in Refusals THEN "refused"
                      ELSE "concluded"]

Contract == INSTANCE ChatContract WITH told <- Told, charges <- bills

(* The relay keeps the promise of ChatContract: one charge at most, and none *)
(* for a request that was refused, also when it had been waiting, assigned   *)
(* or sent before the refusal (routes_inference, handle_provider_message).   *)
ImplementsContract == Contract!Spec

(* A consumer that has not got the end of its response is waiting for a      *)
(* provider that is connected and mapped to its request, so a disconnect of  *)
(* that provider will reach it (disconnect_provider, PROV-010's note).       *)
NoStrandedRelay ==
  \A r \in Requests :
    /\ pc[r] \in {"responding", "relaying"}
    /\ ~EndArrived(r)
    => /\ r \in open
       /\ routedTo[r] = target[r]
       /\ link[target[r]] = "up"

(* A request waiting in the queue is either still in _pending_queue, once,   *)
(* or its event is set: no dispatch, clear or timeout of another request     *)
(* loses it.  The queue never exceeds its depth (ROUTE-005).                 *)
NoLostWaiter ==
  /\ Len(pending) <= QueueMaxDepth
  /\ \A r \in Requests :
       pc[r] = "queued" =>
         (r \in woken <=> Cardinality({i \in DOMAIN pending : pending[i] = r}) = 0)
  /\ \A i, j \in DOMAIN pending : pending[i] = pending[j] => i = j

(* A request an operator cleared from the queue is never handed to a         *)
(* provider, in whatever order the clearing, the dispatches and the wake-up  *)
(* of its handler happen (OPS-010).                                          *)
ClearedIsNeverServed ==
  \A r \in cleared : assigned[r] = NoProvider /\ pc[r] \in {"queued", "finished"}

(* Once a request's handler has ended, the hub neither maps it to a provider *)
(* nor would charge it, and no later message brings an entry back.  It keeps *)
(* a response queue, for ever, only for a request whose provider's key could *)
(* not be encrypted to (routes_inference.py, outside both try blocks).       *)
NoResidue ==
  \A r \in Requests :
    pc[r] \in {"finished", "cancelled"} =>
      /\ routedTo[r] = NoProvider /\ callback[r] = NoProvider
      /\ r \in open => verdict[r] = "encrypt_failed"

(* A request that is woken without being cleared is the first in the queue   *)
(* that some provider can take at that moment, gets such a provider, and is  *)
(* the only one to leave; a dispatch that wakes nobody found nobody to wake, *)
(* and puts everybody back in order (the loop of _try_dispatch_queued).      *)
FifoDispatch ==
  [][/\ \A r \in (woken' \ woken) \ cleared' :
          /\ assigned'[r] \in Selectable(r, active)
          /\ \E i \in DOMAIN pending :
               /\ pending[i] = r
               /\ \A j \in 1..(i - 1) : Selectable(pending[j], active) = {}
               /\ pending' = RemoveAt(pending, i)
     /\ dispatches' < dispatches /\ woken' = woken =>
          /\ \A i \in DOMAIN pending : Selectable(pending[i], active) = {}
          /\ pending' = pending]_vars

(* What a request leaves behind when it is over, or waits for while it is    *)
(* not, is what the hub still has.                                           *)
NothingIsLost == TypeOK /\ NoStrandedRelay /\ NoResidue /\ CompletedIsBilled

(* Every request that got past routing is answered: no lost wake-up, dead    *)
(* provider or silent provider keeps a consumer waiting for ever.  Only one  *)
(* that sends it chunks for ever does, because each restarts the wait.       *)
EveryRequestEnds ==
  \A r \in Requests :
    \/ (pc[r] \in {"queued"} \cup Sending) ~> (pc[r] \in Final)
    \/ []<><<\E p \in Providers : HandleChunk(p, r)>>_vars

(* A slot that leaked (a late error, a consumer that gave up) is recovered   *)
(* by the provider's heartbeats: with all requests over and the provider     *)
(* idle, its load returns to zero if it stays connected.                     *)
LoadRecovers ==
  \A p \in Providers :
    (link[p] = "up" /\ WorkingOn(p) = {} /\ \A r \in Requests : pc[r] \in Final)
      ~> (active[p] = 0 \/ link[p] # "up")

-----------------------------------------------------------------------------
(* The inductive invariant behind ImplementsContract, NoStrandedRelay and    *)
(* NoResidue.                                                                *)

(* A charge is still to come, or has happened, but not both; a callback      *)
(* exists only between the end of the send and the end of the response.      *)
BillingInv ==
  \A r \in Requests :
    /\ bills[r] = 0 \/ (bills[r] = 1 /\ callback[r] = NoProvider)
    /\ pc[r] \in {"new", "queued"} \cup Sending
         => bills[r] = 0 /\ callback[r] = NoProvider

(* A woken request that was not cleared has a provider.                      *)
WokenInv ==
  \A r \in Requests : r \in woken => r \in cleared \/ assigned[r] \in Providers

(* Until its end arrives, a request on its way or being relayed              *)
(* stays mapped to its provider, which has not left since it received the    *)
(* request.                                                                  *)
RelayInv ==
  \A r \in Requests :
    /\ pc[r] \in {"new", "queued"} => \A p \in Providers : <<r, p>> \notin received
    /\ pc[r] \in Sending \cup {"responding", "relaying"} =>
         /\ r \in open
         /\ target[r] \in Providers
         /\ \/ EndArrived(r)
            \/ /\ routedTo[r] = target[r]
               /\ link[target[r]] = "up" \/ <<r, target[r]>> \notin received
    /\ pc[r] \in {"responding", "relaying"} => <<r, target[r]>> \in received

(* Where the hub keeps no entry for a request, or only its response queue.   *)
ResidueInv ==
  \A r \in Requests :
    pc[r] \in {"new", "queued", "finished", "cancelled"} =>
      /\ routedTo[r] = NoProvider /\ callback[r] = NoProvider
      /\ r \in open => pc[r] = "finished" /\ verdict[r] = "encrypt_failed"

(* A handler tells its verdict when it ends, and refuses only before any     *)
(* charge.                                                                   *)
VerdictInv ==
  \A r \in Requests :
    /\ pc[r] \notin {"closing", "finished", "cancelled"} => verdict[r] = "none"
    /\ verdict[r] \in Refusals => pc[r] = "finished" /\ bills[r] = 0

RelayIInv == BillingInv /\ WokenInv /\ RelayInv /\ ResidueInv /\ VerdictInv

-----------------------------------------------------------------------------
(* What comments, docs and tests of the repository say and the code does     *)
(* not do.                                                                   *)

(* "InferenceDone billing must fire even after the response queue is cleaned *)
(* up" (provider_hub.py:410): a served request whose stream is over by the   *)
(* time Done arrives is charged.                                             *)
BilledAfterCleanup ==
  [][\A p \in Providers, r \in Requests :
       /\ HandleDone(p, r)
       /\ r \notin open
       /\ target[r] = p
       /\ outcome[r] = "matched"
       => bills'[r] = 1]_vars

=============================================================================
