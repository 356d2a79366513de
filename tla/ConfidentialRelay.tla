-------------------------- MODULE ConfidentialRelay --------------------------
(***************************************************************************)
(* The relay of encrypted requests, POST /v1/confidential/infer            *)
(* (coordinator/routes_confidential.py), on the same hub and providers as  *)
(* the chat relay.  A confidential request takes the steps of              *)
(* InferenceRelay where the two handlers agree.  It differs in that it     *)
(* never waits for a provider and never tries a second one, ends at the    *)
(* first chunk with a finish_reason, and is charged by its own handler     *)
(* when its response is over instead of by the provider's Done.            *)
(***************************************************************************)
EXTENDS InferenceRelay

CONSTANT Confidential   (* the requests of this endpoint                     *)

ASSUME ConfidentialAssumption == Confidential \subseteq Requests

Chat == Requests \ Confidential

-----------------------------------------------------------------------------
(* _relay_confidential.                                                      *)

RouteConfidential(r, p) ==
  /\ pc[r] = "new"
  /\ p \in Selectable(r, active)
  /\ BeginSend(r, p, active)
  /\ pc' = [pc EXCEPT ![r] = "sendingLast"]
  /\ target' = [target EXCEPT ![r] = p]
  /\ UNCHANGED <<link, quarantined, callback, queueVars, dispatches, verdict,
                 outcome, received, said, bills>>

NoProviderAvailable(r) ==
  /\ pc[r] = "new"
  /\ Selectable(r, active) = {}
  /\ Finish(r, "no_match")
  /\ UNCHANGED <<hubVars, target, outcome, received, said, bills>>

(* Variant of ConfidentialSent that registers a callback, as a chat request  *)
(* does.                                                                     *)
ConfidentialSentWithCallback(r) == SendCompletes(r)

(* The send returned: the trace is saved.  There is no billing callback.     *)
ConfidentialSent(r) ==
  /\ pc[r] = "sendingLast"
  /\ <<r, target[r]>> \in received
  /\ outcome' = [outcome EXCEPT ![r] = IF @ = "none" THEN "matched" ELSE @]
  /\ pc' = [pc EXCEPT ![r] = IF r \in Streamed THEN "responding" ELSE "relaying"]
  /\ UNCHANGED <<hubVars, target, verdict, received, said, bills>>

-----------------------------------------------------------------------------
(* _collect_confidential: removes the queue, and charges unless it raised.   *)

(* Variant of ChargesCollected that charges before it looks at the error.    *)
ChargesAlways(v) == TRUE

ChargesCollected(v) == v = "done"

CollectEnds(r, v) ==
  /\ r \notin Streamed
  /\ pc[r] = "relaying"
  /\ Finish(r, v)
  /\ RemoveResponseQueue(r)
  /\ \E charged \in {TRUE} \cup {~ChargeMayFail} :
       bills' = [bills EXCEPT ![r] =
                   IF ChargesCollected(v) /\ charged THEN @ + 1 ELSE @]
  /\ UNCHANGED <<providerVars, queueVars, dispatches, target, outcome, received, said>>

Collect(r) ==
  \/ /\ responses[r] # <<>>
     /\ Head(responses[r]) # "chunk"
     /\ CollectEnds(r, IF Head(responses[r]) \in Served THEN "done" ELSE "error")
  \/ /\ responses[r] = <<>>
     /\ CollectEnds(r, "timeout")

-----------------------------------------------------------------------------
(* _stream_confidential.  Its wait ends like that of a chat stream; then the *)
(* last events are sent, and whatever the outcome the request is charged.    *)

(* Variant of SettleStream that leaves the charge to a Done.                 *)
SettleStreamUncharged(r) == CloseStream(r)

SettleStream(r) ==
  /\ r \in Streamed
  /\ pc[r] = "closing"
  /\ RemoveResponseQueue(r)
  /\ pc' = [pc EXCEPT ![r] = "finished"]
  /\ \E charged \in {TRUE} \cup {~ChargeMayFail} :
       bills' = [bills EXCEPT ![r] = IF charged THEN @ + 1 ELSE @]
  /\ UNCHANGED <<providerVars, queueVars, dispatches, target, verdict, outcome,
                 received, said>>

(* A chunk with a finish_reason arrives, before the provider's Done.  (One   *)
(* is enough: it ends the relay.)                                            *)
HandleFinish(p, r) ==
  /\ <<r, p>> \in received
  /\ said[r][p] = 0
  /\ Heard(p)
  /\ r \in open
  /\ \A i \in DOMAIN responses[r] : responses[r][i] # "finish"
  /\ Deposit(r, "finish")
  /\ UNCHANGED <<quarantined, active, open, routedTo, callback, queueVars, dispatches,
                 relayVars>>

-----------------------------------------------------------------------------
StreamWaits(r) == r \in Streamed /\ (Consume(r) \/ RelayTimeout(r))

ConfidentialConsumer(r) ==
  \/ RefuseUnfunded(r)
  \/ \E p \in Providers : RouteConfidential(r, p)
  \/ NoProviderAvailable(r)
  \/ Deliver(r)
  \/ ConfidentialSent(r)
  \/ SendFails(r)
  \/ StartBody(r)
  \/ AbandonBody(r)
  \/ ConsumeChunk(r)
  \/ Collect(r)
  \/ StreamWaits(r)
  \/ SettleStream(r)
  \/ CancelStream(r)

ConfidentialNext ==
  \/ \E r \in Chat : Consumer(r)
  \/ \E r \in Confidential : ConfidentialConsumer(r)
  \/ \E p \in Providers : Provider(p)
  \/ \E p \in Providers, r \in Confidential : HandleFinish(p, r)
  \/ ClearPending
  \/ TryDispatch

ConfidentialSpec == Init /\ [][ConfidentialNext]_vars

(* The event loop owes a confidential request what it owes a chat request.   *)
ConfidentialFairness(r) ==
  /\ WF_vars(ConfidentialSent(r) \/ SendFails(r))
  /\ WF_vars(StartBody(r))
  /\ WF_vars(ConsumeChunk(r) \/ Collect(r) \/ StreamWaits(r))
  /\ WF_vars(SettleStream(r))

ConfidentialFairSpec ==
  /\ ConfidentialSpec
  /\ \A r \in Chat : HandlerFairness(r)
  /\ \A r \in Confidential : ConfidentialFairness(r)
  /\ WF_vars(TryDispatch)

-----------------------------------------------------------------------------
(* Properties.  RelayIInv, ImplementsContract and EveryRequestEnds are those *)
(* of InferenceRelay, now with both kinds of requests on the same providers. *)

(* What a consumer whose response was relayed can have been told.            *)
Concluded == {"done", "error", "timeout"}

(* When the handler of a confidential request is to charge it: a collected   *)
(* response that was served; a stream whose consumer was told its end, be it *)
(* the last chunk, an error or a timeout.                                    *)
ChargeDue(r) ==
  /\ pc[r] = "finished"
  /\ verdict[r] \in IF r \in Streamed THEN Concluded ELSE {"done"}

(* A confidential request is charged once when a charge is due and not       *)
(* otherwise, however often and whenever its provider says Done: no Done     *)
(* charges it, and a consumer that leaves a stream early is not charged,     *)
(* though the provider finishes (docs/status.md:78 says it is billed in full *)
(* then).  A charge that is due is missing only if it raised.                *)
ChargedAtTheEnd ==
  \A r \in Confidential :
    /\ bills[r] \in {0, 1}
    /\ bills[r] = 1 => ChargeDue(r)
    /\ ChargeDue(r) /\ ~ChargeMayFail => bills[r] = 1

-----------------------------------------------------------------------------
(* The inductive invariant: that of the chat relay, and that a confidential  *)
(* request has no callback and no charge before its end.                     *)

UnchargedInv ==
  \A r \in Confidential :
    /\ callback[r] = NoProvider
    /\ pc[r] # "finished" => bills[r] = 0
    /\ pc[r] = "closing" => verdict[r] \in Concluded

ConfidentialIInv == RelayIInv /\ UnchargedInv /\ ChargedAtTheEnd

-----------------------------------------------------------------------------
(* "A failed request is not billed" (docs/status.md:78): a consumer that was *)
(* told of an error or a timeout is not charged.                             *)
FailedIsNotBilled ==
  \A r \in Confidential : verdict[r] \in {"error", "timeout"} => bills[r] = 0

=============================================================================
