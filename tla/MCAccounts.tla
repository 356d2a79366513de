------------------------------ MODULE MCAccounts ------------------------------
(***************************************************************************)
(* A small instance of who may do what, in four scenarios, one of which    *)
(* is chosen at the start: revocations and suspensions with three sockets  *)
(* on one credential; enrollments of two owners over several days; the     *)
(* sessions and suspensions of users who sign in with GitHub or a password *)
(* (no requests); and keys and requests of password accounts.  The last    *)
(* two share no state with the first two.                                  *)
(***************************************************************************)
EXTENDS ProviderAdmission, Sessions

CONSTANTS o1, o2, t1, t2, t3, s1, s2, s3, e1, u1, u2

VARIABLE scenario

MCAdminLists == {{e1}, {}}

(* One owner, one credential and the sockets, for two ticks.                 *)
OneCredential ==
  /\ scenario = "revocation"
  /\ user'[o2] = "absent"
  /\ source'[t2] = "none" /\ source'[t3] = "none"
  /\ clock' <= 1

(* No sockets.  Credentials and owners may be exchanged for one another, so  *)
(* they are taken in order; one owner may be suspended.                      *)
InOrder ==
  /\ scenario = "enrollment"
  /\ phase' = phase
  /\ suspendedUntil'[o2] = 0
  /\ user'[o2] # "absent" => user'[o1] # "absent"
  /\ source'[t2] # "none" => source'[t1] # "none"
  /\ source'[t3] # "none" => source'[t2] # "none"

(* Sign-in by GitHub and the sessions, without requests; keys and requests    *)
(* with password accounts.  User ids may be exchanged for one another.       *)
SessionsPart ==
  /\ \/ scenario = "sign-in" /\ UNCHANGED running
     \/ scenario = "requests" /\ UNCHANGED flows
  /\ users'[u2].state # "unused" => users'[u1].state # "unused"

MCInit ==
  /\ Init /\ SessionsInit
  /\ scenario \in {"revocation", "enrollment", "sign-in", "requests"}
  /\ scenario \in {"sign-in", "requests"} \/ adminEmails = {}

MCNext ==
  /\ UNCHANGED scenario
  /\ \/ Next /\ (OneCredential \/ InOrder) /\ UNCHANGED sessionVars
     \/ SessionsNext /\ SessionsPart /\ UNCHANGED vars

(* What is fair is not held back by a scenario.                              *)
MCSpec ==
  /\ MCInit /\ [][MCNext]_<<vars, sessionVars, scenario>>
  /\ \A h \in Sweeps : WF_vars(ContinueSweep(h))

=============================================================================
