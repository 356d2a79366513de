-------------------------- MODULE MCInferenceRelay --------------------------
(***************************************************************************)
(* Small instances of InferenceRelay.                                      *)
(***************************************************************************)
EXTENDS InferenceRelay, TLC

CONSTANTS r1, r2, r3, p1, p2, p3

(* Every provider can serve every request.                                   *)
AllServe == Requests \X Providers
OneSlot == [p \in Providers |-> 1]

(* Whose responses come in chunks.                                           *)
NoChunks == [r \in Requests |-> 0]
ChunksOfStreamed == [r \in Requests |-> IF r \in Streamed THEN 1 ELSE 0]
ChunksOfCollected == [r \in Requests |-> IF r \in Streamed THEN 0 ELSE 1]

(* Requests that are not streamed may be exchanged for one another.          *)
Interchangeable == Permutations(Requests \ Streamed)

(* So may providers with good keys: they serve the same requests with as     *)
(* many slots.                                                               *)
InterchangeableProviders == Permutations(Providers \ BadKeys)

(* A provider with a bad key is of interest while somebody waits to be given *)
(* one, and as it comes: idle and not quarantined.                           *)
BadKeyComesLate ==
  \A p \in BadKeys :
    /\ link[p] \in {"new", "up"}
    /\ active[p] = 0
    /\ p \notin quarantined
    /\ link[p] = "up" => \E r \in Requests : pc[r] = "queued"

(* Two of the providers connect, with good keys or not; a dispatch is run    *)
(* before the next is scheduled, since nothing waits in the queue; and three *)
(* messages may be unread.                                                   *)
TwoConnect ==
  /\ Cardinality({p \in Providers : link[p] # "new"}) <= 2
  /\ dispatches <= 1
  /\ \A r \in Requests : Len(responses[r]) <= 3

=============================================================================
