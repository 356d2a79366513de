------------------------- MODULE MCConfidentialRelay -------------------------
(***************************************************************************)
(* Small instances of ConfidentialRelay.                                   *)
(***************************************************************************)
EXTENDS ConfidentialRelay, TLC

CONSTANTS r1, r2, p1

(* Every provider can serve every request.                                   *)
AllServe == Requests \X Providers
OneSlot == [p \in Providers |-> 1]

(* Whose responses come in chunks.                                           *)
NoChunks == [r \in Requests |-> 0]
ChunksOfStreamed == [r \in Requests |-> IF r \in Streamed THEN 1 ELSE 0]
ChunksOfCollected == [r \in Requests |-> IF r \in Streamed THEN 0 ELSE 1]

=============================================================================
