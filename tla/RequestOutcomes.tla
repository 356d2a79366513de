--------------------------- MODULE RequestOutcomes ---------------------------
(***************************************************************************)
(* The operational history of requests (request_outcomes in store.py) next *)
(* to the ledger of charges, across restarts of the coordinator.           *)
(*                                                                         *)
(* The relay (module InferenceRelay) is seen through its calls of the      *)
(* Store.  A charge and the amendment that follows it are two transactions *)
(* of one callback: no other task runs between them, but the process may   *)
(* stop there.  Time is an integer.                                        *)
(***************************************************************************)
EXTENDS Integers, FiniteSets

CONSTANTS
    Owners,         \* accounts with requests
    Requests,       \* request ids, integers: their order breaks ties
    None,
    Retention,      \* TRACE_RETENTION_SECONDS
    MaxRows,        \* TRACE_MAX_ROWS
    MaxClock, MaxEpoch  \* bounds: the clock, the number of restarts

ASSUME OutcomesAssumption ==
    /\ Requests \subseteq Int
    /\ None \notin Owners \cup Requests
    /\ Retention \in Nat \ {0} /\ MaxRows \in Nat \ {0}
    /\ MaxClock \in Nat /\ MaxEpoch \in Nat

VARIABLES
    outcomes,   \* the table: a row or NoRow for each request id
    ledger,     \* requests with a transaction; transactions are never deleted
    deleted,    \* owners whose account was deleted
    stage,      \* what this process still knows of a request
    owner,      \* its caller
    busy,       \* the request whose billing callback is between its two calls
    now,
    epoch,      \* history: restarts so far
    born        \* history: the epoch in which a request was recorded

memory == <<stage, owner, busy>>
vars == <<outcomes, ledger, deleted, stage, owner, busy, now, epoch, born>>

Open == {"matched", "matched_from_queue"}
Settled == {"completed", "failed", "interrupted", "refused"}
NoRow == [status |-> "none", owner |-> None, at |-> 0]
Rows(table) == {r \in Requests : table[r] # NoRow}

TypeOK ==
    /\ outcomes \in [Requests -> [status : Open \cup Settled, owner : Owners, at : 0..MaxClock]
                                  \cup {NoRow}]
    /\ ledger \subseteq Requests
    /\ deleted \subseteq Owners
    /\ stage \in [Requests -> {"new", "started", "sent", "gone"}]
    /\ owner \in [Requests -> Owners \cup {None}]
    /\ busy \in Requests \cup {None}
    /\ now \in 0..MaxClock
    /\ epoch \in 0..MaxEpoch
    /\ born \in [Requests -> 0..MaxEpoch]

\* Variant of Newer: the sort without DESC
OlderFirst(table, r, s) == \/ table[r].at < table[s].at
                           \/ table[r].at = table[s].at /\ r < s

Newer(table, r, s) == \/ table[r].at > table[s].at
                      \/ table[r].at = table[s].at /\ r > s

\* Variant of Pruned: without the age
PrunedByCount(table) ==
    [r \in Requests |-> IF Cardinality({s \in Rows(table) : Newer(table, s, r)}) < MaxRows
                        THEN table[r] ELSE NoRow]

\* _prune_outcomes: drop what is too old, then what exceeds the cap
Pruned(table) ==
    LET fresh == {r \in Rows(table) : table[r].at >= now - Retention}
        kept  == {r \in fresh : Cardinality({s \in fresh : Newer(table, s, r)}) < MaxRows}
    IN  [r \in Requests |-> IF r \in kept THEN table[r] ELSE NoRow]

\* Variant of Saved: prunes in the cleanup loop only
SavedUnpruned(table, r, status) ==
    [table EXCEPT ![r] = IF @ # NoRow THEN @
                         ELSE [status |-> status, owner |-> owner[r], at |-> now]]

\* save_request_outcome: the first row of a request id stays
Saved(table, r, status) ==
    Pruned([table EXCEPT ![r] = IF @ # NoRow THEN @
                                ELSE [status |-> status, owner |-> owner[r], at |-> now]])

\* Variant of Amended: amends whatever row there is
AmendedAlways(table, r, status) ==
    IF table[r] # NoRow
    THEN Pruned([table EXCEPT ![r].status = status]) ELSE table

\* amend_request_outcome: only an open row can change
Amended(table, r, status) ==
    IF table[r].status \in Open
    THEN Pruned([table EXCEPT ![r].status = status]) ELSE table

-----------------------------------------------------------------------------
\* A caller with an account starts a request
Start(r, o) ==
    /\ busy = None
    /\ stage[r] = "new" /\ o \notin deleted
    /\ stage' = [stage EXCEPT ![r] = "started"]
    /\ owner' = [owner EXCEPT ![r] = o]
    /\ UNCHANGED <<outcomes, ledger, deleted, busy, now, epoch, born>>

\* _add_trace; a Store error is logged and there is no row
Record(r, status) ==
    /\ outcomes' \in {Saved(outcomes, r, status), outcomes}
    /\ born' = [born EXCEPT ![r] = epoch]
    /\ UNCHANGED <<ledger, deleted, owner, busy, now, epoch>>

\* No provider, a full queue, a timeout in the queue: recorded and refused
Refuse(r) ==
    /\ busy = None
    /\ stage[r] = "started"
    /\ stage' = [stage EXCEPT ![r] = "gone"]
    /\ Record(r, "refused")

\* Sent: recorded, and the billing callback registered in the same step
Match(r) ==
    /\ busy = None
    /\ stage[r] = "started"
    /\ stage' = [stage EXCEPT ![r] = "sent"]
    /\ \E status \in Open : Record(r, status)

\* The relay ends without a word of the provider, or before there was a row
Forget(r) ==
    /\ busy = None
    /\ stage[r] \in {"started", "sent"}
    /\ stage' = [stage EXCEPT ![r] = "gone"]
    /\ UNCHANGED <<outcomes, ledger, deleted, owner, busy, now, epoch, born>>

\* A provider's error, also of one that no longer has the request: an amendment
\* that may come before the row, or not be saved
ProviderError(r) ==
    /\ busy = None
    /\ stage[r] # "new"
    /\ outcomes' \in {Amended(outcomes, r, "failed"), outcomes}
    /\ UNCHANGED <<ledger, deleted, memory, now, epoch, born>>

\* Done: the callback commits the charge ...
Charge(r) ==
    /\ busy = None
    /\ stage[r] = "sent"
    /\ stage' = [stage EXCEPT ![r] = "gone"]
    /\ ledger' = ledger \cup {r}
    /\ busy' = r
    /\ UNCHANGED <<outcomes, deleted, owner, now, epoch, born>>

\* ... and then amends the row, or fails to
Complete ==
    /\ busy # None
    /\ outcomes' \in {Amended(outcomes, busy, "completed"), outcomes}
    /\ busy' = None
    /\ UNCHANGED <<ledger, deleted, stage, owner, now, epoch, born>>

\* Variant of ChargeFails: the amendment comes before the charge
ChargeFailsLate(r) ==
    /\ busy = None
    /\ stage[r] = "sent"
    /\ stage' = [stage EXCEPT ![r] = "gone"]
    /\ outcomes' = Amended(outcomes, r, "completed")
    /\ UNCHANGED <<ledger, deleted, owner, busy, now, epoch, born>>

\* The charge fails: nothing is committed, the callback ends
ChargeFails(r) ==
    /\ busy = None
    /\ stage[r] = "sent"
    /\ stage' = [stage EXCEPT ![r] = "gone"]
    /\ UNCHANGED <<outcomes, ledger, deleted, owner, busy, now, epoch, born>>

\* Variant of DeleteOwner: keeps the rows and forgets whose they are
DeleteOwnerOnly(o) ==
    /\ busy = None
    /\ o \notin deleted
    /\ deleted' = deleted \cup {o}
    /\ outcomes' = [r \in Requests |-> IF outcomes[r].owner = o
                                       THEN [outcomes[r] EXCEPT !.owner = None] ELSE outcomes[r]]
    /\ UNCHANGED <<ledger, memory, now, epoch, born>>

\* delete_user removes the rows of the account, but not its transactions
DeleteOwner(o) ==
    /\ busy = None
    /\ o \notin deleted
    /\ deleted' = deleted \cup {o}
    /\ outcomes' = [r \in Requests |-> IF outcomes[r].owner = o THEN NoRow ELSE outcomes[r]]
    /\ UNCHANGED <<ledger, memory, now, epoch, born>>

\* outcome_cleanup_loop, request_outcomes, public_network_activity
Prune ==
    /\ busy = None
    /\ outcomes' = Pruned(outcomes)
    /\ UNCHANGED <<ledger, deleted, memory, now, epoch, born>>

Tick ==
    /\ busy = None
    /\ now < MaxClock
    /\ now' = now + 1
    /\ UNCHANGED <<outcomes, ledger, deleted, memory, epoch, born>>

\* Variant of Interrupted: overlooks the requests that had waited in the queue
InterruptedDirect(table) ==
    Pruned([r \in Requests |-> IF table[r].status = "matched"
                               THEN [table[r] EXCEPT !.status = "interrupted"] ELSE table[r]])

\* interrupt_request_outcomes, called by Store.__init__
Interrupted(table) ==
    Pruned([r \in Requests |-> IF table[r].status \in Open
                               THEN [table[r] EXCEPT !.status = "interrupted"] ELSE table[r]])

\* The process stops at any moment, in the callback too, and starts again
Restart ==
    /\ epoch < MaxEpoch
    /\ epoch' = epoch + 1
    /\ outcomes' = Interrupted(outcomes)
    /\ stage' = [r \in Requests |-> IF stage[r] = "new" THEN "new" ELSE "gone"]
    /\ busy' = None
    /\ UNCHANGED <<ledger, deleted, owner, now, born>>

Init ==
    /\ outcomes = [r \in Requests |-> NoRow]
    /\ ledger = {} /\ deleted = {}
    /\ stage = [r \in Requests |-> "new"]
    /\ owner = [r \in Requests |-> None]
    /\ busy = None
    /\ now = 0 /\ epoch = 0
    /\ born = [r \in Requests |-> 0]

Next ==
    \/ \E r \in Requests, o \in Owners : Start(r, o)
    \/ \E r \in Requests : \/ Refuse(r) \/ Match(r) \/ Forget(r) \/ ProviderError(r)
                           \/ Charge(r) \/ ChargeFails(r)
    \/ Complete
    \/ \E o \in Owners : DeleteOwner(o)
    \/ Prune
    \/ Tick
    \/ Restart

Spec == Init /\ [][Next]_vars

\* The cleanup loop prunes once a minute, and time goes on
FairSpec == Spec /\ WF_vars(Prune) /\ WF_vars(Complete)

-----------------------------------------------------------------------------
\* History and ledger agree as far as the code can make them: a row that says
\* "completed" stands for a request in the ledger and a row that says refused
\* for one that never gets there, whatever restarts, errors and repeated answers
\* came between (ANALYTICS-001).
CompletedIsCharged ==
    \A r \in Requests : /\ outcomes[r].status = "completed" => r \in ledger
                        /\ outcomes[r].status = "refused" => r \notin ledger

\* An open row belongs to a request recorded by this process: no request of an
\* earlier one still counts as matched (interrupt_request_outcomes).
OpenRowsAreOfThisRun ==
    \A r \in Requests : outcomes[r].status \in Open => born[r] = epoch

\* The history is bounded, across all accounts (TRACE_MAX_ROWS).
HistoryIsBounded == Cardinality(Rows(outcomes)) <= MaxRows

\* A settled row never says anything else, it can only be pruned or deleted;
\* a row that is gone does not come back after the request ended.
SettledStaySettled ==
    [][\A r \in Requests :
         /\ outcomes[r].status \in Settled => outcomes'[r] \in {outcomes[r], NoRow}
         /\ outcomes[r].status \in Open =>
              \/ outcomes'[r] = NoRow
              \/ outcomes'[r].owner = outcomes[r].owner /\ outcomes'[r].at = outcomes[r].at
         /\ stage[r] = "gone" /\ outcomes[r] = NoRow => outcomes'[r] = NoRow]_vars

\* Apart from deletions of accounts, what leaves the history is never newer
\* than what stays, ties included (_prune_outcomes).
OldestLeaveFirst ==
    [][deleted' = deleted =>
         \A r \in Rows(outcomes) \ Rows(outcomes'), s \in Rows(outcomes') :
             \/ outcomes[r].at < outcomes'[s].at
             \/ outcomes[r].at = outcomes'[s].at /\ r < s]_vars

\* Rows that are too old are removed again and again, even if no request comes
\* any more (outcome_cleanup_loop).
OldRowsLeave == []<>(\A r \in Rows(outcomes) : outcomes[r].at >= now - Retention)

\* The history tells of each request what became of it, and goes on telling it, until
\* retention by age and by count takes the oldest rows and those only.
HistoryIsTrue ==
    /\ [](TypeOK /\ CompletedIsCharged /\ OpenRowsAreOfThisRun /\ HistoryIsBounded)
    /\ SettledStaySettled /\ OldestLeaveFirst

=============================================================================
