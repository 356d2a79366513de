----------------------------- MODULE MCSpending -----------------------------
(***************************************************************************)
(* Small instances of Spending: requests of a consumer, a provider, and    *)
(* prices around the opening grant of ten dollars.                         *)
(***************************************************************************)
EXTENDS Spending

CONSTANTS r1, r2, r3, alice, node

(* Every request is alice's.                                                 *)
OnePayer == [r \in Requests |-> alice]

(* A request below the minimum charge, and one that costs a little more than *)
(* the grant and whose fee is rounded.                                       *)
CheapAndDear == {7, 10000009}
Dearest == 10000009

=============================================================================
