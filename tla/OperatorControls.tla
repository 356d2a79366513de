--------------------------- MODULE OperatorControls ---------------------------
(***************************************************************************)
(* The runtime switches of an operator and the per-account slots           *)
(* (inference_exchange/coordinator/operator_controls.py), as action        *)
(* operators.  try_acquire and release hold a lock, so each is one step.   *)
(* The signup switch belongs to the accounts and is not kept here.         *)
(***************************************************************************)
EXTENDS AccountIds, Naturals

CONSTANT Limits   (* values an operator gives max_concurrent_per_account     *)

ASSUME ControlsAssumption == Limits # {} /\ Limits \subseteq Nat

VARIABLES
  paused,     (* inference_paused                                           *)
  limit,      (* max_concurrent_per_account; 0 means no limit               *)
  inUse       (* _active: slots held per account (0 for a missing key)      *)

controlVars == <<paused, limit, inUse>>

ControlsInit ==
  /\ paused \in BOOLEAN
  /\ limit \in Limits
  /\ inUse = [a \in Accounts |-> 0]

ControlsTypeOK ==
  /\ paused \in BOOLEAN
  /\ limit \in Limits
  /\ inUse \in [Accounts -> Nat]

(* Variant of AtLimit with an off-by-one.                                    *)
AboveLimit(a) == limit > 0 /\ inUse[a] > limit

AtLimit(a) == limit > 0 /\ inUse[a] >= limit

(* The true branch of try_acquire.                                           *)
Acquire(a) ==
  /\ ~AtLimit(a)
  /\ inUse' = [inUse EXCEPT ![a] = @ + 1]
  /\ UNCHANGED <<paused, limit>>

(* Variant of Release: the key is dropped whatever the count is.             *)
ReleaseAll(a) ==
  /\ inUse' = [inUse EXCEPT ![a] = 0]
  /\ UNCHANGED <<paused, limit>>

(* release: the key is removed when the last slot is given back.             *)
Release(a) ==
  /\ inUse' = [inUse EXCEPT ![a] = IF @ <= 1 THEN 0 ELSE @ - 1]
  /\ UNCHANGED <<paused, limit>>

(* update: an operator may change the pause, the limit or both.              *)
UpdateControls ==
  /\ paused' \in BOOLEAN
  /\ limit' \in Limits
  /\ UNCHANGED inUse

=============================================================================
