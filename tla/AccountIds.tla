------------------------------ MODULE AccountIds ------------------------------
(***************************************************************************)
(* The account ids that the operator controls and the money tables share:  *)
(* ids of consumers (user_id, consumer-...) and of provider principals     *)
(* (provider-acct-...).                                                    *)
(***************************************************************************)

CONSTANT Accounts

=============================================================================
