---------------------------- MODULE ProviderHub ----------------------------
(***************************************************************************)
(* The in-memory routing state of the coordinator                          *)
(* (inference_exchange/coordinator/provider_hub.py) and the effect on it   *)
(* of each synchronous ProviderHub method.  The coordinator is one asyncio *)
(* event loop: a method without an await is one atomic step.  The methods  *)
(* are action operators over this module's variables only; the handlers    *)
(* that call them are the actions of InferenceRelay.                       *)
(*                                                                         *)
(* A member of Providers is one registered connection ("provider-N"; ids   *)
(* are never reused), a member of Requests one request id (uuid4).  Model, *)
(* price ceiling and trust level are folded into Serves, the pairs that    *)
(* meet every hard constraint of compute_score; the soft score (price,     *)
(* speed, reputation, session affinity) only decides which selectable      *)
(* provider wins, so any of them may win.  Providers that claim the        *)
(* confidential level, which must also be admitted, are not in Providers.  *)
(***************************************************************************)
EXTENDS Naturals, Sequences, FiniteSets, SequencesExt

CONSTANTS
  Requests,       (* request ids                                            *)
  Providers,      (* registered provider connections                        *)
  NoProvider,     (* Python's None where a provider is expected             *)
  Serves,         (* pairs <<r, p>> where p meets r's hard constraints      *)
  Slots,          (* capabilities.max_concurrent of each provider           *)
  QueueMaxDepth   (* IE_QUEUE_MAX_DEPTH                                     *)

ASSUME HubAssumption ==
  /\ IsFiniteSet(Requests)
  /\ NoProvider \notin Providers
  /\ Serves \subseteq Requests \X Providers
  /\ Slots \in [Providers -> Nat]
  /\ QueueMaxDepth \in Nat \ {0}

VARIABLES
  link,         (* "up": in _providers; "closing": removed by an operator   *)
                (* while its socket task still runs                         *)
  quarantined,  (* providers an operator took out of routing                *)
  active,       (* ConnectedProvider.active_requests                        *)
  open,         (* keys of _response_queues                                 *)
  responses,    (* contents of each response queue                          *)
  routedTo,     (* _request_to_provider                                     *)
  callback,     (* _billing_callbacks: the provider each closure would pay  *)
  pending,      (* _pending_queue                                           *)
  assigned,     (* PendingRequest.provider                                  *)
  woken,        (* PendingRequests whose event is set                       *)
  cleared,      (* PendingRequests with cleared = True                      *)
  dispatches    (* scheduled _try_dispatch_queued tasks                     *)

hubVars == <<link, quarantined, active, open, responses, routedTo, callback,
             pending, assigned, woken, cleared, dispatches>>
queueVars == <<pending, assigned, woken, cleared>>
providerVars == <<link, quarantined, active>>

LinkState == {"new", "up", "closing", "gone"}
(* "finish" is a response chunk with a finish_reason, which only the         *)
(* confidential relay looks at; every other chunk is a "chunk".              *)
Served == {"done", "finish"}
Message == Served \cup {"chunk", "error", "provider_disconnected"}
ProviderOrNone == Providers \cup {NoProvider}

(* The consumer has yet to read how the response ends.                       *)
EndArrived(r) == \E i \in DOMAIN responses[r] : responses[r][i] # "chunk"

HubInit ==
  /\ link = [p \in Providers |-> "new"]
  /\ quarantined = {}
  /\ active = [p \in Providers |-> 0]
  /\ open = {}
  /\ responses = [r \in Requests |-> <<>>]
  /\ routedTo = [r \in Requests |-> NoProvider]
  /\ callback = [r \in Requests |-> NoProvider]
  /\ pending = <<>>
  /\ assigned = [r \in Requests |-> NoProvider]
  /\ woken = {}
  /\ cleared = {}
  /\ dispatches = 0

HubTypeOK ==
  /\ link \in [Providers -> LinkState]
  /\ quarantined \in SUBSET Providers
  /\ active \in [Providers -> Nat]
  /\ open \in SUBSET Requests
  /\ responses \in [Requests -> Seq(Message)]
  /\ routedTo \in [Requests -> ProviderOrNone]
  /\ callback \in [Requests -> ProviderOrNone]
  /\ pending \in Seq(Requests)
  /\ assigned \in [Requests -> ProviderOrNone]
  /\ woken \in SUBSET Requests
  /\ cleared \in SUBSET Requests
  /\ dispatches \in Nat

-----------------------------------------------------------------------------
(* Routing decisions.                                                        *)

(* Providers that could ever serve r: what explain_no_match looks for.       *)
Routable(r) ==
  {p \in Providers : /\ link[p] = "up"
                     /\ p \notin quarantined
                     /\ <<r, p>> \in Serves}

(* Providers select_provider may return for r when the loads are `load`.     *)
Selectable(r, load) == {p \in Routable(r) : load[p] < Slots[p]}

(* Variant of Decremented without the max(0, ...).                           *)
DecrementedBelowZero(p) == [active EXCEPT ![p] = @ - 1]

(* active_requests = max(0, active_requests - 1).                            *)
Decremented(p) ==
  [active EXCEPT ![p] = IF @ > 0 THEN @ - 1 ELSE 0]

(* The same after an answer, which looks the provider up in the hub first.   *)
Released(p) == IF link[p] = "up" THEN Decremented(p) ELSE active

-----------------------------------------------------------------------------
(* Methods called by the request handlers.                                   *)

(* create_response_queue.                                                    *)
CreateResponseQueue(r) ==
  /\ open' = open \cup {r}
  /\ responses' = [responses EXCEPT ![r] = <<>>]

(* create_response_queue, then the synchronous part of send_to_provider up   *)
(* to its await: the slot is taken and the request mapped to the provider.   *)
BeginSend(r, p, load) ==
  /\ CreateResponseQueue(r)
  /\ active' = [load EXCEPT ![p] = @ + 1]
  /\ routedTo' = [routedTo EXCEPT ![r] = p]

(* Variant of RemoveResponseQueue that forgets the billing callback.         *)
RemoveQueueAndMapping(r) ==
  /\ open' = open \ {r}
  /\ responses' = [responses EXCEPT ![r] = <<>>]
  /\ routedTo' = [routedTo EXCEPT ![r] = NoProvider]
  /\ UNCHANGED callback

(* remove_response_queue: the queue, the mapping and the billing callback.   *)
RemoveResponseQueue(r) ==
  /\ open' = open \ {r}
  /\ responses' = [responses EXCEPT ![r] = <<>>]
  /\ routedTo' = [routedTo EXCEPT ![r] = NoProvider]
  /\ callback' = [callback EXCEPT ![r] = NoProvider]

(* enqueue_request; the caller has checked that the queue is not full.       *)
EnqueueRequest(r) ==
  /\ pending' = Append(pending, r)
  /\ UNCHANGED <<assigned, woken, cleared>>

(* The effect of a message on its response queue, if there still is one.     *)
Deposit(r, m) ==
  responses' = IF r \in open THEN [responses EXCEPT ![r] = Append(@, m)]
                             ELSE responses

-----------------------------------------------------------------------------
(* Methods called by the provider's socket task, by operators and by the     *)
(* event loop.                                                               *)

(* register_provider.                                                        *)
Register(p) ==
  /\ link[p] = "new"
  /\ link' = [link EXCEPT ![p] = "up"]
  /\ UNCHANGED <<quarantined, active, open, responses, routedTo, callback,
                 queueVars, dispatches>>

OrphanedRequests(p) == {r \in Requests : routedTo[r] = p}

(* Variant of Disconnect that unmaps the requests before it looks for them.  *)
DisconnectSilently(p, next) ==
  /\ link[p] = "up"
  /\ link' = [link EXCEPT ![p] = next]
  /\ routedTo' = [r \in Requests |->
                    IF r \in OrphanedRequests(p) THEN NoProvider ELSE routedTo[r]]
  /\ UNCHANGED <<quarantined, active, open, responses, callback, queueVars,
                 dispatches>>

(* disconnect_provider: every request mapped to p is told, and unmapped.     *)
Disconnect(p, next) ==
  /\ link[p] = "up"
  /\ link' = [link EXCEPT ![p] = next]
  /\ responses' =
       [r \in Requests |->
          IF r \in OrphanedRequests(p) \cap open
          THEN Append(responses[r], "provider_disconnected")
          ELSE responses[r]]
  /\ routedTo' = [r \in Requests |->
                    IF r \in OrphanedRequests(p) THEN NoProvider ELSE routedTo[r]]
  /\ UNCHANGED <<quarantined, active, open, callback, queueVars, dispatches>>

SetQuarantine(p) ==
  /\ link[p] = "up"
  /\ quarantined' \in {quarantined \cup {p}, quarantined \ {p}}
  /\ UNCHANGED <<link, active, open, responses, routedTo, callback, queueVars,
                 dispatches>>

(* Variant of ClearQueue that wakes the waiters but does not drain.          *)
ClearWithoutDraining ==
  /\ pending # <<>>
  /\ cleared' = cleared \cup {pending[i] : i \in DOMAIN pending}
  /\ woken' = woken \cup {pending[i] : i \in DOMAIN pending}
  /\ UNCHANGED <<providerVars, open, responses, routedTo, callback, pending,
                 assigned, dispatches>>

(* clear_queue.                                                              *)
ClearQueue ==
  /\ pending # <<>>
  /\ cleared' = cleared \cup {pending[i] : i \in DOMAIN pending}
  /\ woken' = woken \cup {pending[i] : i \in DOMAIN pending}
  /\ pending' = <<>>
  /\ UNCHANGED <<providerVars, open, responses, routedTo, callback, assigned,
                 dispatches>>

(* Variant of Heartbeat that never lowers the load.                          *)
HeartbeatRaisesOnly(p, count) ==
  /\ link[p] = "up"
  /\ active' = [active EXCEPT ![p] = IF count > @ THEN count ELSE @]
  /\ UNCHANGED <<link, quarantined, open, responses, routedTo, callback,
                 queueVars, dispatches>>

(* handle_heartbeat: the provider's own count replaces the hub's.            *)
Heartbeat(p, count) ==
  /\ link[p] = "up"
  /\ active' = [active EXCEPT ![p] = count]
  /\ UNCHANGED <<link, quarantined, open, responses, routedTo, callback,
                 queueVars, dispatches>>

(* Variants of Examine: the requests after the chosen one are not put back;  *)
(* the chosen one is put back as well; the order is reversed.                *)
ExamineAndForget(round, r) ==
  IF Selectable(r, active) = {}
  THEN [round EXCEPT !.queue = Append(@, r)]
  ELSE IF round.chosen # {} THEN round ELSE [round EXCEPT !.chosen = {r}]

ExamineAndKeep(round, r) ==
  [queue |-> Append(round.queue, r),
   chosen |-> IF round.chosen = {} /\ Selectable(r, active) # {} THEN {r}
              ELSE round.chosen]

ExamineBackwards(round, r) ==
  IF round.chosen # {} \/ Selectable(r, active) = {}
  THEN [round EXCEPT !.queue = <<r>> \o @]
  ELSE [round EXCEPT !.chosen = {r}]

(* One turn of the loop over the drained requests: with one chosen already,  *)
(* or no provider for this one, it goes back to the queue.                   *)
Examine(round, r) ==
  IF round.chosen # {} \/ Selectable(r, active) = {}
  THEN [round EXCEPT !.queue = Append(@, r)]
  ELSE [round EXCEPT !.chosen = {r}]

(* What is back in the queue, and who is chosen, after the first n turns.    *)
Rounds[n \in 0..Len(pending)] ==
  IF n = 0 THEN [queue |-> <<>>, chosen |-> {}]
           ELSE Examine(Rounds[n - 1], pending[n])

(* _try_dispatch_queued: drain the queue, loop over what was in it, hand the *)
(* chosen request a provider and wake it.  The provider's slot is not taken  *)
(* here but when the woken handler sends.                                    *)
DispatchQueued ==
  LET result == Rounds[Len(pending)] IN
  /\ dispatches > 0
  /\ dispatches' = dispatches - 1
  /\ pending' = result.queue
  /\ woken' = woken \cup result.chosen
  /\ \/ result.chosen = {} /\ UNCHANGED assigned
     \/ \E r \in result.chosen : \E p \in Selectable(r, active) :
          assigned' = [assigned EXCEPT ![r] = p]
  /\ UNCHANGED <<providerVars, open, responses, routedTo, callback, cleared>>

=============================================================================
