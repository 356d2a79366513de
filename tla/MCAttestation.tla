----------------------------- MODULE MCAttestation -----------------------------
(***************************************************************************)
(* Small instance of Attestation: an honest provider, one that does as it  *)
(* pleases, and one that claims the confidential level.                    *)
(***************************************************************************)
EXTENDS Attestation

CONSTANTS p1, p2, p3

(* A dead socket makes a provider silent, which one that does as it pleases  *)
(* may be anyway: only the sockets of honest ones need to die.               *)
MCSpec ==
  /\ Init /\ [][Next /\ dead' \subseteq Honest]_vars
  /\ Fairness

Claims == [p \in {p1, p2, p3} |-> IF p = p3 THEN "confidential" ELSE "hardened"]

=============================================================================
