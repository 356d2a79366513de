----------------------------- MODULE ChatContract -----------------------------
(***************************************************************************)
(* What the coordinator promises about the money of a request, seen        *)
(* from outside: a request is refused, concluded (answered, failed, timed  *)
(* out) or never heard of again; it is charged at most once; and a refused *)
(* request is not charged, neither before the refusal nor after it.  A     *)
(* concluded request may still be charged, because the provider's Done may *)
(* arrive late.  InferenceRelay and ConfidentialRelay implement it.         *)
(***************************************************************************)
EXTENDS Naturals

CONSTANT Requests

VARIABLES
  told,     (* what the consumer was told about the request                 *)
  charges   (* how often the consumer was charged for it                    *)

contractVars == <<told, charges>>

Init ==
  /\ told = [r \in Requests |-> "nothing"]
  /\ charges = [r \in Requests |-> 0]

Refuse(r) ==
  /\ told[r] = "nothing"
  /\ charges[r] = 0
  /\ told' = [told EXCEPT ![r] = "refused"]
  /\ UNCHANGED charges

Conclude(r) ==
  /\ told[r] = "nothing"
  /\ told' = [told EXCEPT ![r] = "concluded"]
  /\ UNCHANGED charges

Charge(r) ==
  /\ told[r] # "refused"
  /\ charges[r] = 0
  /\ charges' = [charges EXCEPT ![r] = 1]
  /\ UNCHANGED told

(* A response that is collected before it is sent may be charged as it is    *)
(* concluded.                                                                *)
Settle(r) ==
  /\ told[r] = "nothing"
  /\ charges[r] = 0
  /\ told' = [told EXCEPT ![r] = "concluded"]
  /\ charges' = [charges EXCEPT ![r] = 1]

Next == \E r \in Requests : Refuse(r) \/ Conclude(r) \/ Charge(r) \/ Settle(r)

Spec == Init /\ [][Next]_contractVars

=============================================================================
