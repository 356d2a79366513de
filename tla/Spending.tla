------------------------------- MODULE Spending -------------------------------
(***************************************************************************)
(* What an account may have in flight and what it may spend: run_guarded   *)
(* (operator_controls.py), the balance check at the head of                *)
(* _route_and_dispatch, and the charges of the Store, put together.        *)
(*                                                                         *)
(* The relay is seen through what InferenceRelay shows of it: a request is *)
(* charged at most once (ChatContract) and only while its handler lives or *)
(* if its body never started (NoResidue of InferenceRelay: a handler that  *)
(* ended left no callback).  The confidential relay charges inside its     *)
(* handler too.  A request's stages:                                       *)
(*                                                                         *)
(*   new -> refused                                                        *)
(*      \-> running -> ended                                               *)
(*                 \-> responding -> streaming -> ended                    *)
(*                               |            \-> lingering -> ended       *)
(*                               \-> abandoned                             *)
(*                                                                         *)
(* "lingering" is a stream that has given its slot back while the relay's  *)
(* generator, and with it the billing callback, still exists.              *)
(***************************************************************************)
EXTENDS OperatorControls, Ledger, FiniteSets

CONSTANTS
  Requests,    (* inference requests                                        *)
  Providers,   (* billing accounts of connected providers                   *)
  Payer,       (* the account that sends each request                       *)
  RawCosts,    (* sums of the three truncated token prices of a request     *)
  MaxCost,     (* an upper bound of what one request costs                  *)
  MaxLimit     (* the highest limit an operator sets                        *)

ASSUME SpendingAssumption ==
  /\ IsFiniteSet(Requests)
  /\ Providers \subseteq Accounts
  /\ Payer \in [Requests -> Accounts \ Providers]
  /\ RawCosts \subseteq Nat
  /\ MaxCost \in Nat
  /\ \A raw \in RawCosts : TotalCost(raw) <= MaxCost
  /\ MaxLimit \in Nat
  /\ \A l \in Limits : l <= MaxLimit

VARIABLES
  stage,    (* where each request is in run_guarded                         *)
  billed,   (* requests that were charged                                   *)
  late      (* history: those charged after their slot was given back       *)

requestVars == <<stage, billed, late>>
vars == <<controlVars, ledgerVars, requestVars>>

Started == {"running", "responding", "streaming"}

(* A request holds a slot from try_acquire to release.                       *)
Holding == Started \cup {"abandoned"}

(* A request can be charged until the relay's generator is closed.           *)
Chargeable == Holding \cup {"lingering"}

Stages == {"new", "refused", "ended"} \cup Chargeable

Init ==
  /\ ControlsInit
  /\ LedgerInit
  /\ stage = [r \in Requests |-> "new"]
  /\ billed = {}
  /\ late = {}

TypeOK ==
  /\ ControlsTypeOK
  /\ LedgerTypeOK
  /\ stage \in [Requests -> Stages]
  /\ billed \in SUBSET Requests
  /\ late \in SUBSET Requests

-----------------------------------------------------------------------------
(* Accounts.                                                                 *)

SignUp(a) ==
  /\ a \notin Providers
  /\ CreateAccount(a)
  /\ UNCHANGED <<controlVars, requestVars>>

(* get_or_create_provider when the provider's socket has registered.         *)
ProviderConnects(a) ==
  /\ a \in Providers
  /\ row[a] # "present"
  /\ EnsureAccount(a)
  /\ UNCHANGED <<controlVars, requestVars>>

(* A user may delete the account while requests are in flight.               *)
DeleteUser(a) ==
  /\ a \notin Providers
  /\ DeleteAccount(a)
  /\ UNCHANGED <<controlVars, requestVars>>

ResetBalance(a) ==
  /\ a \notin Providers
  /\ ResetDevBalance(a)
  /\ UNCHANGED <<controlVars, requestVars>>

OperatorUpdates == UpdateControls /\ UNCHANGED <<ledgerVars, requestVars>>

-----------------------------------------------------------------------------
(* run_guarded around _route_and_dispatch.                                   *)

(* resolve_caller accepts only the credentials of an account that exists.    *)
Arrives(r) == stage[r] = "new" /\ row[Payer[r]] = "present"

Refused(r) ==
  /\ stage' = [stage EXCEPT ![r] = "refused"]
  /\ UNCHANGED <<billed, late>>

(* 503 inference_paused or 429 concurrency_limit.                            *)
RefuseByControls(r) ==
  /\ Arrives(r)
  /\ paused \/ AtLimit(Payer[r])
  /\ Refused(r)
  /\ UNCHANGED <<controlVars, ledgerVars>>

(* The slot is taken and, in the same step, given back: 402.                 *)
RefuseUnfunded(r) ==
  /\ Arrives(r)
  /\ ~paused /\ ~AtLimit(Payer[r])
  /\ balance[Payer[r]] <= 0
  /\ Refused(r)
  /\ UNCHANGED <<controlVars, ledgerVars>>

(* Variant of Admit without the balance check.                               *)
AdmitUnfunded(r) ==
  /\ Arrives(r)
  /\ ~paused
  /\ Acquire(Payer[r])
  /\ stage' = [stage EXCEPT ![r] = "running"]
  /\ UNCHANGED <<ledgerVars, billed, late>>

Admit(r) ==
  /\ Arrives(r)
  /\ ~paused
  /\ Acquire(Payer[r])
  /\ balance[Payer[r]] > 0
  /\ stage' = [stage EXCEPT ![r] = "running"]
  /\ UNCHANGED <<ledgerVars, billed, late>>

(* The handler returns a plain response or raises.                           *)
HandlerEnds(r) ==
  /\ stage[r] = "running"
  /\ Release(Payer[r])
  /\ stage' = [stage EXCEPT ![r] = "ended"]
  /\ UNCHANGED <<ledgerVars, billed, late>>

(* The handler returns a StreamingResponse; its body is wrapped.             *)
HandlerStreams(r) ==
  /\ stage[r] = "running"
  /\ stage' = [stage EXCEPT ![r] = "responding"]
  /\ UNCHANGED <<controlVars, ledgerVars, billed, late>>

BodyStarts(r) ==
  /\ stage[r] = "responding"
  /\ stage' = [stage EXCEPT ![r] = "streaming"]
  /\ UNCHANGED <<controlVars, ledgerVars, billed, late>>

(* The stream is exhausted, fails, or is cancelled by a disconnect.          *)
BodyEnds(r) ==
  /\ stage[r] = "streaming"
  /\ Release(Payer[r])
  /\ stage' = [stage EXCEPT ![r] = "ended"]
  /\ UNCHANGED <<ledgerVars, billed, late>>

(* The client leaves while an event is on its way to it: the cancellation    *)
(* hits the send and not the generators.  The finalizer of body gives the    *)
(* slot back, and only then is the relay's generator without a reference.    *)
BodyDropped(r) ==
  /\ stage[r] = "streaming"
  /\ Release(Payer[r])
  /\ stage' = [stage EXCEPT ![r] = "lingering"]
  /\ UNCHANGED <<ledgerVars, billed, late>>

(* The finalizer of the relay's generator: remove_response_queue.            *)
RelayCloses(r) ==
  /\ stage[r] = "lingering"
  /\ stage' = [stage EXCEPT ![r] = "ended"]
  /\ UNCHANGED <<controlVars, ledgerVars, billed, late>>

(* The client was gone before the body was first iterated: the generator     *)
(* never ran, so its finally clause does not either.                         *)
BodyNeverStarts(r) ==
  /\ stage[r] = "responding"
  /\ stage' = [stage EXCEPT ![r] = "abandoned"]
  /\ UNCHANGED <<controlVars, ledgerVars, billed, late>>

(* The billing callback, or the confidential relay, charges the request, to  *)
(* the account of a provider that has connected.                             *)
Settle(r, v, raw) ==
  /\ stage[r] \in Chargeable
  /\ r \notin billed
  /\ row[v] = "present"
  /\ ChargeRequest(Payer[r], v, raw)
  /\ billed' = billed \cup {r}
  /\ late' = IF stage[r] \in Holding THEN late ELSE late \cup {r}
  /\ UNCHANGED <<controlVars, stage>>

-----------------------------------------------------------------------------
AccountStep(a) ==
  SignUp(a) \/ ProviderConnects(a) \/ DeleteUser(a) \/ ResetBalance(a)

RequestStep(r) ==
  \/ RefuseByControls(r)
  \/ RefuseUnfunded(r)
  \/ Admit(r)
  \/ HandlerEnds(r)
  \/ HandlerStreams(r)
  \/ BodyStarts(r)
  \/ BodyEnds(r)
  \/ BodyDropped(r)
  \/ RelayCloses(r)
  \/ BodyNeverStarts(r)
  \/ \E v \in Providers, raw \in RawCosts : Settle(r, v, raw)

Next ==
  \/ \E a \in Accounts : AccountStep(a)
  \/ \E r \in Requests : RequestStep(r)
  \/ OperatorUpdates

Spec == Init /\ [][Next]_vars

-----------------------------------------------------------------------------
(* Properties.                                                               *)

Holders(a) == {r \in Requests : Payer[r] = a /\ stage[r] \in Holding}
Unbilled(a) == Holders(a) \ billed
Late(a) == {r \in late : Payer[r] = a}

(* The counter of an account is the number of its requests that took a slot  *)
(* and did not give it back, so no path gives one back twice or forgets to   *)
(* take one, and one account never uses up the slots of another (OPS-010).   *)
SlotsAreHeld == \A a \in Accounts : inUse[a] = Cardinality(Holders(a))

(* No request starts while inference is paused, or above the limit that is   *)
(* in force at that moment (OPS-008, OPS-010); a lowered limit does not      *)
(* disturb the requests that are running.                                    *)
AdmissionObeysControls ==
  [][\A r \in Requests :
       stage[r] = "new" /\ stage'[r] \in Holding =>
         /\ ~paused
         /\ limit > 0 => Cardinality(Holders(Payer[r])') <= limit]_vars

(* Limits and pauses hold at every moment, for whoever has a slot.           *)
LimitsHold == [](TypeOK /\ SlotsAreHeld) /\ AdmissionObeysControls

(* Billing is after the fact, so a balance may become negative, but by less  *)
(* than the cost of as many requests as the highest limit lets an account    *)
(* have in flight, and of those charged in the instant between the release   *)
(* of their slot and the end of their relay: every other charge that is      *)
(* still to come holds a slot.                                               *)
OverdraftIsBounded ==
  0 \notin Limits =>
    \A a \in Accounts :
      row[a] = "present" =>
        balance[a] > -(MaxCost * (MaxLimit + Cardinality(Late(a))))

(* An account that exists agrees with the transactions table: what it spent  *)
(* and earned are the sums of its bills (BILL-011's reconciliation).         *)
AccountsReconcile ==
  \A a \in Accounts :
    row[a] = "present" => spent[a] = CostsOf(a) /\ earned[a] = EarningsOf(a)

(* The balance of an account is what it was given, less what it spent, plus  *)
(* what it earned: no charge, grant or deletion moves one without the other  *)
(* (BILL-001).                                                               *)
BalancesAddUp ==
  \A a \in Accounts : balance[a] = granted[a] - spent[a] + earned[a]

-----------------------------------------------------------------------------
(* The inductive invariant behind OverdraftIsBounded.                        *)

(* Slots do not outnumber the highest limit, however often it was changed.   *)
SlotsWithinLimit == 0 \notin Limits => \A a \in Accounts : inUse[a] <= MaxLimit

(* How many requests an account may still be charged for beyond those that   *)
(* hold a slot and are not charged yet.                                      *)
Spare(a) == MaxLimit + Cardinality(Late(a)) - Cardinality(Unbilled(a))

(* The balance covers the charges still to come but for the overdraft.       *)
CreditLeft ==
  0 \notin Limits =>
    \A a \in Accounts :
      row[a] = "present" => balance[a] + MaxCost * Spare(a) > 0

(* Only charged requests count as charged late.                              *)
LateInv == late \subseteq billed

SpendingIInv == SlotsAreHeld /\ SlotsWithinLimit /\ CreditLeft /\ LateInv

(* The inductive invariant behind AccountsReconcile.                         *)

(* An account that was never opened has no bill.                             *)
UnopenedHaveNoBills ==
  \A a \in Accounts : row[a] = "absent" => CostsOf(a) = 0 /\ EarningsOf(a) = 0

(* The accounts of providers are not deleted here.                           *)
ProvidersStay == \A a \in Providers : row[a] # "deleted"

(* A request that was sent has a payer that was opened.                      *)
SendersWereOpened ==
  \A r \in Requests : stage[r] # "new" => row[Payer[r]] # "absent"

ReconcileIInv ==
  /\ AccountsReconcile
  /\ UnopenedHaveNoBills
  /\ ProvidersStay
  /\ SendersWereOpened

=============================================================================
