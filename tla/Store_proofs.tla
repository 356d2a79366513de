----------------------------- MODULE Store_proofs -----------------------------
(***************************************************************************)
(* Safety of the history of requests, for any number of requests, owners   *)
(* and restarts and any bounds of age and number.                          *)
(*                                                                         *)
(* What makes "completed means charged" inductive: a callback that is      *)
(* between its two transactions has made the first, a request that may     *)
(* still be charged has no refused row, and one that has not been sent has *)
(* no row at all.                                                          *)
(*                                                                         *)
(* And of the consolidation of legacy accounts, for any number of them, of *)
(* transactions and of runs of the script: what the books say needs that a *)
(* wrong account stays wrong until the script finds it, and what the       *)
(* operator approved needs to know what the script has read at each stage. *)
(*                                                                         *)
(* And of the collected prices: they are fresh because a cycle leaves      *)
(* nothing due and a sleep has a longest length, and the history shows the *)
(* latest because it is read in the order of time.                         *)
(*                                                                         *)
(* And of deployments, for any number of them, of stops and of credentials *)
(* and wherever one is stopped: no two credentials get one principal, and  *)
(* what the deployer says is true because each of its stages knows what is *)
(* in the launcher and which release runs.                                 *)
(***************************************************************************)
EXTENDS RequestOutcomes, Deployment, Consolidation, ReferencePrices, FoldLemmas, FiniteSetTheorems, TLAPS

ChargeComesFirst ==
    /\ busy # None => busy \in ledger
    /\ \A r \in Requests : /\ stage[r] \in {"new", "started"} => outcomes[r] = NoRow
                           /\ outcomes[r].status = "refused" => stage[r] = "gone"
                           /\ stage[r] # "gone" => r \notin ledger
                           /\ stage[r] = "started" => owner[r] \in Owners

OutcomesIInv == /\ TypeOK /\ ChargeComesFirst /\ CompletedIsCharged
                /\ OpenRowsAreOfThisRun

OutcomeRow == [status : Open \cup Settled, owner : Owners, at : 0..MaxClock] \cup {NoRow}
Table == [Requests -> OutcomeRow]

USE OutcomesAssumption

-----------------------------------------------------------------------------
\* Pruning only takes rows away (_prune_outcomes).
LEMMA PrunedLemma ==
    ASSUME NEW table \in Table
    PROVE  /\ Pruned(table) \in Table
           /\ \A r \in Requests : Pruned(table)[r] \in {table[r], NoRow}
<1> DEFINE kept == {r \in {q \in Rows(table) : table[q].at >= now - Retention} :
                      Cardinality({s \in {q \in Rows(table) : table[q].at >= now - Retention} :
                                     Newer(table, s, r)}) < MaxRows}
<1>1. Pruned(table) = [r \in Requests |-> IF r \in kept THEN table[r] ELSE NoRow]
  BY DEF Pruned
<1> HIDE DEF kept
<1>2. \A r \in Requests : table[r] \in OutcomeRow /\ NoRow \in OutcomeRow
  BY DEF Table, OutcomeRow
<1> QED  BY <1>1, <1>2 DEF Table

\* A row of the empty table has neither an open nor a settled status.
LEMMA NoRowLemma ==
    /\ NoRow.status \notin Open /\ NoRow.status \notin Settled
    /\ Open \cap Settled = {}
BY DEF NoRow, Open, Settled

\* Amending changes the status of an open row, and may prune (amend_request_outcome).
LEMMA AmendedLemma ==
    ASSUME outcomes \in Table, NEW r \in Requests, NEW status \in Settled
    PROVE  /\ Amended(outcomes, r, status) \in Table
           /\ \A s \in Requests :
                \/ Amended(outcomes, r, status)[s] \in {outcomes[s], NoRow}
                \/ /\ s = r /\ outcomes[r].status \in Open
                   /\ Amended(outcomes, r, status)[r] = [outcomes[r] EXCEPT !.status = status]
<1>1. CASE outcomes[r].status \notin Open
  BY <1>1 DEF Amended
<1>2. CASE outcomes[r].status \in Open
  <2> DEFINE row == [outcomes[r] EXCEPT !.status = status]
             table == [outcomes EXCEPT ![r] = row]
  <2>1. outcomes[r] \in [status : Open \cup Settled, owner : Owners, at : 0..MaxClock]
    BY <1>2, NoRowLemma DEF Table, OutcomeRow
  <2>2. row \in OutcomeRow
    BY <2>1 DEF OutcomeRow
  <2>3. table \in Table /\ table[r] = row /\ \A s \in Requests : s # r => table[s] = outcomes[s]
    BY <2>2 DEF Table
  <2>4. Amended(outcomes, r, status) = Pruned(table)
    BY <1>2 DEF Amended
  <2> HIDE DEF table
  <2> QED  BY <1>2, <2>3, <2>4, PrunedLemma
<1> QED  BY <1>1, <1>2

\* Saving adds a row where there was none, and may prune (save_request_outcome).
LEMMA SavedLemma ==
    ASSUME outcomes \in Table, NEW r \in Requests, NEW status \in Open \cup Settled,
           owner[r] \in Owners, now \in 0..MaxClock
    PROVE  /\ Saved(outcomes, r, status) \in Table
           /\ \A s \in Requests :
                \/ Saved(outcomes, r, status)[s] \in {outcomes[s], NoRow}
                \/ /\ s = r /\ outcomes[r] = NoRow
                   /\ Saved(outcomes, r, status)[r] =
                        [status |-> status, owner |-> owner[r], at |-> now]
<1> DEFINE row == [status |-> status, owner |-> owner[r], at |-> now]
           table == [outcomes EXCEPT ![r] = IF @ # NoRow THEN @ ELSE row]
<1>1. row \in OutcomeRow
  BY DEF OutcomeRow
<1>2. /\ table \in Table /\ \A s \in Requests : s # r => table[s] = outcomes[s]
      /\ table[r] = IF outcomes[r] # NoRow THEN outcomes[r] ELSE row
  BY <1>1 DEF Table
<1>3. Saved(outcomes, r, status) = Pruned(table)
  BY DEF Saved
<1> HIDE DEF table
<1> QED  BY <1>2, <1>3, PrunedLemma

\* No row is open after a start of the process (interrupt_request_outcomes).
LEMMA InterruptedLemma ==
    ASSUME outcomes \in Table
    PROVE  /\ Interrupted(outcomes) \in Table
           /\ \A s \in Requests :
                \/ Interrupted(outcomes)[s] = NoRow
                \/ Interrupted(outcomes)[s] = outcomes[s] /\ outcomes[s].status \notin Open
                \/ /\ outcomes[s].status \in Open
                   /\ Interrupted(outcomes)[s] = [outcomes[s] EXCEPT !.status = "interrupted"]
<1> DEFINE table == [r \in Requests |-> IF outcomes[r].status \in Open
                                        THEN [outcomes[r] EXCEPT !.status = "interrupted"]
                                        ELSE outcomes[r]]
<1>1. \A r \in Requests : outcomes[r].status \in Open =>
        [outcomes[r] EXCEPT !.status = "interrupted"] \in OutcomeRow
  <2> SUFFICES ASSUME NEW r \in Requests, outcomes[r].status \in Open
               PROVE  [outcomes[r] EXCEPT !.status = "interrupted"] \in OutcomeRow
    OBVIOUS
  <2>1. outcomes[r] \in [status : Open \cup Settled, owner : Owners, at : 0..MaxClock]
    BY NoRowLemma DEF Table, OutcomeRow
  <2> QED  BY <2>1 DEF OutcomeRow, Settled
<1>2. table \in Table
  BY <1>1 DEF Table
<1>3. Interrupted(outcomes) = Pruned(table)
  BY DEF Interrupted
<1>4. \A s \in Requests : table[s] = IF outcomes[s].status \in Open
                                     THEN [outcomes[s] EXCEPT !.status = "interrupted"]
                                     ELSE outcomes[s]
  OBVIOUS
<1> HIDE DEF table
<1> QED  BY <1>2, <1>3, <1>4, PrunedLemma

-----------------------------------------------------------------------------
\* What a step may do to a row, given where its request is.
RowStep(r) ==
    \/ outcomes'[r] \in {outcomes[r], NoRow}
    \/ /\ outcomes[r] = NoRow /\ stage[r] = "started"
       /\ stage'[r] \in {"sent", "gone"} /\ ledger' = ledger /\ born'[r] = epoch'
       /\ epoch' = epoch
       /\ outcomes'[r].status \in Open \cup {"refused"}
       /\ outcomes'[r].status = "refused" => stage'[r] = "gone"
    \/ /\ outcomes[r].status \in Open
       /\ \/ outcomes'[r] = [outcomes[r] EXCEPT !.status = "failed"]
          \/ outcomes'[r] = [outcomes[r] EXCEPT !.status = "interrupted"]
          \/ outcomes'[r] = [outcomes[r] EXCEPT !.status = "completed"] /\ busy = r

\* Every step keeps the type and treats every row so.
LEMMA RowLemma ==
    ASSUME TypeOK, ChargeComesFirst, Next
    PROVE  /\ TypeOK' /\ \A r \in Requests : RowStep(r)
           /\ epoch' # epoch => \A r \in Requests : outcomes'[r].status \notin Open
<1>0. outcomes \in Table /\ now \in 0..MaxClock
  BY DEF TypeOK, Table, OutcomeRow
<1> DEFINE Goal == /\ TypeOK' /\ \A r \in Requests : RowStep(r)
                   /\ epoch' # epoch => \A r \in Requests : outcomes'[r].status \notin Open
<1>1. ASSUME NEW r \in Requests, NEW o \in Owners, Start(r, o) PROVE Goal
  BY <1>1 DEF Start, TypeOK, RowStep
<1>2. ASSUME NEW r \in Requests, NEW status \in Open \cup {"refused"}, Record(r, status),
             stage[r] = "started", busy' = busy, owner' = owner,
             \/ status = "refused" /\ stage' = [stage EXCEPT ![r] = "gone"]
             \/ status \in Open /\ stage' = [stage EXCEPT ![r] = "sent"]
      PROVE  Goal
  <2>1. /\ status \in Open \cup Settled
        /\ UNCHANGED <<ledger, deleted, owner, busy, now, epoch>>
        /\ outcomes' \in {Saved(outcomes, r, status), outcomes}
        /\ born' = [born EXCEPT ![r] = epoch]
    BY <1>2 DEF Record, Settled
  <2>2. CASE owner[r] \in Owners
    <3>1. /\ outcomes' \in Table
          /\ \A s \in Requests :
                \/ outcomes'[s] \in {outcomes[s], NoRow}
                \/ /\ s = r /\ outcomes[r] = NoRow
                   /\ outcomes'[r] = [status |-> status, owner |-> owner[r], at |-> now]
      BY <1>0, <2>1, <2>2, SavedLemma
    <3>2. TypeOK'
      BY <1>2, <2>1, <3>1 DEF TypeOK, Table, OutcomeRow
    <3>3. \A s \in Requests : RowStep(s)
      BY <1>2, <2>1, <3>1, <3>2, NoRowLemma DEF RowStep, TypeOK, Open
    <3> QED  BY <2>1, <3>2, <3>3
  <2> QED  BY <1>2, <2>2 DEF ChargeComesFirst
<1>3. ASSUME NEW r \in Requests, Refuse(r) PROVE Goal
  BY <1>2, <1>3 DEF Refuse, Record
<1>4. ASSUME NEW r \in Requests, Match(r) PROVE Goal
  BY <1>2, <1>4 DEF Match, Record
<1>5. ASSUME NEW r \in Requests, Forget(r) PROVE Goal
  BY <1>5 DEF Forget, TypeOK, RowStep
<1>6. ASSUME NEW r \in Requests, ProviderError(r) PROVE Goal
  <2>1. "failed" \in Settled
    BY DEF Settled
  <2>2. /\ outcomes' \in Table
        /\ \A s \in Requests :
             \/ outcomes'[s] \in {outcomes[s], NoRow}
             \/ /\ s = r /\ outcomes[r].status \in Open
                /\ outcomes'[r] = [outcomes[r] EXCEPT !.status = "failed"]
    BY <1>0, <1>6, <2>1, AmendedLemma DEF ProviderError
  <2>3. UNCHANGED <<ledger, deleted, memory, now, epoch, born>>
    BY <1>6 DEF ProviderError
  <2>4. TypeOK'
    BY <2>2, <2>3 DEF TypeOK, Table, OutcomeRow, memory
  <2> QED  BY <2>2, <2>3, <2>4 DEF RowStep
<1>7. ASSUME NEW r \in Requests, Charge(r) PROVE Goal
  BY <1>7 DEF Charge, TypeOK, RowStep
<1>8. ASSUME NEW r \in Requests, ChargeFails(r) PROVE Goal
  BY <1>8 DEF ChargeFails, TypeOK, RowStep
<1>9. ASSUME Complete PROVE Goal
  <2>1. "completed" \in Settled /\ busy \in Requests
    BY <1>9 DEF Settled, Complete, TypeOK
  <2>2. /\ outcomes' \in Table
        /\ \A s \in Requests :
             \/ outcomes'[s] \in {outcomes[s], NoRow}
             \/ /\ s = busy /\ outcomes[s].status \in Open
                /\ outcomes'[s] = [outcomes[s] EXCEPT !.status = "completed"]
    <3> DEFINE table == Amended(outcomes, busy, "completed")
    <3>1. /\ table \in Table
          /\ \A s \in Requests :
               \/ table[s] \in {outcomes[s], NoRow}
               \/ /\ s = busy /\ outcomes[busy].status \in Open
                  /\ table[busy] = [outcomes[busy] EXCEPT !.status = "completed"]
      BY <1>0, <2>1, AmendedLemma
    <3>2. outcomes' = table \/ outcomes' = outcomes
      BY <1>9 DEF Complete
    <3> HIDE DEF table
    <3>3. CASE outcomes' = outcomes
      BY <1>0, <3>3
    <3>4. CASE outcomes' = table
      BY <3>1, <3>4
    <3> QED  BY <3>2, <3>3, <3>4
  <2>3. UNCHANGED <<ledger, deleted, stage, owner, now, epoch, born>> /\ busy' = None
    BY <1>9 DEF Complete
  <2>4. TypeOK'
    BY <2>2, <2>3 DEF TypeOK, Table, OutcomeRow
  <2> QED  BY <2>2, <2>3, <2>4 DEF RowStep
<1>10. ASSUME NEW o \in Owners, DeleteOwner(o) PROVE Goal
  <2>1. \A r \in Requests : outcomes'[r] \in {outcomes[r], NoRow}
    BY <1>10 DEF DeleteOwner
  <2>2. TypeOK'
    BY <1>10 DEF DeleteOwner, TypeOK, memory
  <2> QED  BY <1>10, <2>1, <2>2 DEF RowStep, DeleteOwner
<1>11. ASSUME Prune PROVE Goal
  <2>1. outcomes' \in Table /\ \A r \in Requests : outcomes'[r] \in {outcomes[r], NoRow}
    BY <1>0, <1>11, PrunedLemma DEF Prune
  <2>2. UNCHANGED <<ledger, deleted, memory, now, epoch, born>>
    BY <1>11 DEF Prune
  <2>3. TypeOK'
    BY <2>1, <2>2 DEF TypeOK, Table, OutcomeRow, memory
  <2> QED  BY <2>1, <2>2, <2>3 DEF RowStep
<1>12. ASSUME Tick PROVE Goal
  BY <1>12 DEF Tick, TypeOK, RowStep, memory
<1>13. ASSUME Restart PROVE Goal
  <2>1. /\ outcomes' \in Table
        /\ \A s \in Requests :
             \/ outcomes'[s] = NoRow
             \/ outcomes'[s] = outcomes[s] /\ outcomes[s].status \notin Open
             \/ /\ outcomes[s].status \in Open
                /\ outcomes'[s] = [outcomes[s] EXCEPT !.status = "interrupted"]
    BY <1>0, <1>13, InterruptedLemma DEF Restart
  <2>2. TypeOK'
    <3>1. /\ epoch' \in 0..MaxEpoch /\ busy' = None
          /\ stage' \in [Requests -> {"new", "started", "sent", "gone"}]
          /\ UNCHANGED <<ledger, deleted, owner, now, born>>
      BY <1>13 DEF Restart, TypeOK
    <3> QED  BY <2>1, <3>1 DEF TypeOK, Table, OutcomeRow
  <2>3. \A r \in Requests : outcomes'[r].status \notin Open
    <3> SUFFICES ASSUME NEW r \in Requests PROVE outcomes'[r].status \notin Open
      OBVIOUS
    <3>1. CASE /\ outcomes[r].status \in Open
               /\ outcomes'[r] = [outcomes[r] EXCEPT !.status = "interrupted"]
      <4>1. outcomes[r] \in [status : Open \cup Settled, owner : Owners, at : 0..MaxClock]
        BY <3>1, NoRowLemma DEF TypeOK
      <4> QED  BY <3>1, <4>1 DEF Open
    <3> QED  BY <2>1, <3>1, NoRowLemma
  <2> QED  BY <2>1, <2>2, <2>3 DEF RowStep
<1> QED  BY <1>1, <1>3, <1>4, <1>5, <1>6, <1>7, <1>8, <1>9, <1>10, <1>11, <1>12, <1>13 DEF Next

\* Where requests and charges can go in a step (Charge, Restart and the relay's ends).
LEMMA StageLemma ==
    ASSUME TypeOK, ChargeComesFirst, Next
    PROVE  /\ ledger \subseteq ledger'
           /\ busy' # None => busy' \in ledger'
           /\ \A r \in Requests :
                /\ stage[r] = "gone" => stage'[r] = "gone"
                /\ stage'[r] \in {"new", "started"} => stage[r] \in {"new", "started"}
                /\ stage'[r] # "gone" => r \notin ledger'
                /\ stage'[r] = "started" => owner'[r] \in Owners
                /\ epoch' = epoch => born'[r] = born[r] \/ born'[r] = epoch
<1>1. CASE \E r \in Requests : Charge(r)
  BY <1>1 DEF Charge, TypeOK, ChargeComesFirst
<1>2. CASE \E r \in Requests, o \in Owners : Start(r, o)
  BY <1>2 DEF Start, TypeOK, ChargeComesFirst
<1>3. CASE \E r \in Requests : Refuse(r) \/ Match(r)
  BY <1>3 DEF Refuse, Match, Record, TypeOK, ChargeComesFirst
<1>4. CASE \E r \in Requests : Forget(r) \/ ChargeFails(r)
  BY <1>4 DEF Forget, ChargeFails, TypeOK, ChargeComesFirst
<1>5. CASE \/ \E r \in Requests : ProviderError(r)
           \/ Complete \/ Prune \/ Tick \/ \E o \in Owners : DeleteOwner(o)
  BY <1>5 DEF ProviderError, Complete, Prune, Tick, DeleteOwner, ChargeComesFirst, memory
<1>6. CASE Restart
  BY <1>6 DEF Restart, TypeOK, ChargeComesFirst
<1> QED  BY <1>1, <1>2, <1>3, <1>4, <1>5, <1>6 DEF Next

\* The initial states have the invariant.
LEMMA InitInv == Init => OutcomesIInv
BY NoRowLemma DEF Init, OutcomesIInv, TypeOK, ChargeComesFirst, CompletedIsCharged,
   OpenRowsAreOfThisRun, NoRow

\* Every step preserves it.
LEMMA StepInv == OutcomesIInv /\ [Next]_vars => OutcomesIInv'
<1> SUFFICES ASSUME OutcomesIInv, [Next]_vars PROVE OutcomesIInv'
  OBVIOUS
<1>1. CASE vars' = vars
  BY <1>1 DEF vars, memory, OutcomesIInv, TypeOK, ChargeComesFirst, CompletedIsCharged,
     OpenRowsAreOfThisRun
<1>2. CASE Next
  <2>0. TypeOK /\ ChargeComesFirst /\ CompletedIsCharged /\ OpenRowsAreOfThisRun
    BY DEF OutcomesIInv
  <2>1. TypeOK' /\ \A r \in Requests : RowStep(r)
    BY <1>2, <2>0, RowLemma
  <2>2. \A r \in Requests : outcomes[r].status \in Open =>
          outcomes[r] \in [status : Open \cup Settled, owner : Owners, at : 0..MaxClock]
    BY <2>0, NoRowLemma DEF TypeOK
  <2>3. ASSUME NEW r \in Requests, NEW s \in Settled, outcomes[r].status \in Open,
               outcomes'[r] = [outcomes[r] EXCEPT !.status = s]
        PROVE  outcomes'[r].status = s
    BY <2>2, <2>3
  <2>4. ChargeComesFirst'
    <3> SUFFICES ASSUME NEW r \in Requests
                 PROVE  /\ stage'[r] \in {"new", "started"} => outcomes'[r] = NoRow
                        /\ outcomes'[r].status = "refused" => stage'[r] = "gone"
      BY <1>2, <2>0, StageLemma DEF ChargeComesFirst
    <3>1. CASE outcomes'[r] \in {outcomes[r], NoRow}
      BY <1>2, <2>0, <3>1, StageLemma DEF ChargeComesFirst, NoRow
    <3>2. CASE /\ stage'[r] \in {"sent", "gone"}
               /\ outcomes'[r].status = "refused" => stage'[r] = "gone"
      BY <3>2
    <3>3. CASE outcomes[r].status \in Open /\ ~(outcomes'[r] \in {outcomes[r], NoRow})
      <4>1. stage[r] \notin {"new", "started"}
        BY <2>0, <3>3, NoRowLemma DEF ChargeComesFirst
      <4>2. outcomes'[r].status # "refused"
        <5>1. PICK s \in {"failed", "interrupted", "completed"} :
                outcomes'[r] = [outcomes[r] EXCEPT !.status = s]
          BY <2>1, <3>3, NoRowLemma DEF RowStep
        <5> QED  BY <2>3, <3>3, <5>1 DEF Settled
      <4> QED  BY <1>2, <2>0, <4>1, <4>2, StageLemma
    <3> QED  BY <2>1, <3>1, <3>2, <3>3 DEF RowStep
  <2>5. CompletedIsCharged'
    <3> SUFFICES ASSUME NEW r \in Requests
                 PROVE  /\ outcomes'[r].status = "completed" => r \in ledger'
                        /\ outcomes'[r].status = "refused" => r \notin ledger'
      BY DEF CompletedIsCharged
    <3>1. CASE outcomes'[r] \in {outcomes[r], NoRow}
      <4>1. ASSUME outcomes'[r].status = "completed" PROVE r \in ledger'
        <5>1. outcomes[r].status = "completed"
          BY <3>1, <4>1 DEF NoRow
        <5>2. ledger \subseteq ledger'
          BY <1>2, <2>0, StageLemma
        <5> QED  BY <2>0, <5>1, <5>2 DEF CompletedIsCharged
      <4>2. ASSUME outcomes'[r].status = "refused" PROVE r \notin ledger'
        <5>0. outcomes[r].status = "refused"
          BY <3>1, <4>2 DEF NoRow
        <5>1. r \notin ledger /\ stage[r] = "gone"
          BY <2>0, <5>0 DEF CompletedIsCharged, ChargeComesFirst
        <5> QED
          BY <1>2, <5>1 DEF Next, Start, Refuse, Match, Record, Forget, ProviderError, Charge,
             ChargeFails, Complete, DeleteOwner, Prune, Tick, Restart, memory
      <4> QED  BY <4>1, <4>2
    <3>2. CASE /\ stage[r] = "started" /\ ledger' = ledger
               /\ outcomes'[r].status \in Open \cup {"refused"}
      BY <2>0, <3>2 DEF ChargeComesFirst, Open
    <3>3. CASE outcomes[r].status \in Open /\ ~(outcomes'[r] \in {outcomes[r], NoRow})
      <4>1. PICK s \in {"failed", "interrupted", "completed"} :
              /\ outcomes'[r] = [outcomes[r] EXCEPT !.status = s]
              /\ s = "completed" => busy = r
        BY <2>1, <3>3, NoRowLemma DEF RowStep
      <4>2. outcomes'[r].status = s
        BY <2>3, <3>3, <4>1 DEF Settled
      <4>3. s = "completed" => r \in ledger
        BY <2>0, <4>1 DEF ChargeComesFirst
      <4> QED  BY <1>2, <2>0, <4>2, <4>3, StageLemma
    <3> QED  BY <2>1, <3>1, <3>2, <3>3 DEF RowStep
  <2>6. OpenRowsAreOfThisRun'
    <3> SUFFICES ASSUME NEW r \in Requests, outcomes'[r].status \in Open
                 PROVE  born'[r] = epoch'
      BY DEF OpenRowsAreOfThisRun
    <3>1. epoch' = epoch
      BY <1>2, <2>0, RowLemma
    <3>2. CASE outcomes'[r] = outcomes[r]
      BY <1>2, <2>0, <3>1, <3>2, StageLemma DEF OpenRowsAreOfThisRun
    <3>3. CASE born'[r] = epoch'
      BY <3>3
    <3>4. CASE outcomes[r].status \in Open /\ ~(outcomes'[r] \in {outcomes[r], NoRow})
      BY <1>2, <2>0, <3>1, <3>4, StageLemma DEF OpenRowsAreOfThisRun
    <3> QED  BY <2>1, <3>2, <3>3, <3>4, NoRowLemma DEF RowStep
  <2> QED  BY <2>1, <2>4, <2>5, <2>6 DEF OutcomesIInv
<1> QED  BY <1>1, <1>2

\* The inductive invariant holds throughout.
LEMMA AlwaysIInv == Spec => []OutcomesIInv
BY InitInv, StepInv, PTL DEF Spec

\* The state of history and ledger has its type.
THEOREM TypeCorrect == Spec => []TypeOK
<1>1. OutcomesIInv => TypeOK
  BY DEF OutcomesIInv
<1> QED  BY <1>1, AlwaysIInv, PTL

\* Completed rows are charged, refused ones never (ANALYTICS-001).
THEOREM CompletedIsChargedHolds == Spec => []CompletedIsCharged
<1>1. OutcomesIInv => CompletedIsCharged
  BY DEF OutcomesIInv
<1> QED  BY <1>1, AlwaysIInv, PTL

\* No row of an earlier process is open (interrupt_request_outcomes).
THEOREM OpenRowsAreOfThisRunHolds == Spec => []OpenRowsAreOfThisRun
<1>1. OutcomesIInv => OpenRowsAreOfThisRun
  BY DEF OutcomesIInv
<1> QED  BY <1>1, AlwaysIInv, PTL

\* Settled rows stay as they are (amend_request_outcome).
THEOREM SettledStaySettledHolds == Spec => SettledStaySettled
<1> DEFINE Kept ==
      \A r \in Requests :
         /\ outcomes[r].status \in Settled => outcomes'[r] \in {outcomes[r], NoRow}
         /\ outcomes[r].status \in Open =>
              \/ outcomes'[r] = NoRow
              \/ outcomes'[r].owner = outcomes[r].owner /\ outcomes'[r].at = outcomes[r].at
         /\ stage[r] = "gone" /\ outcomes[r] = NoRow => outcomes'[r] = NoRow
<1>1. OutcomesIInv /\ [Next]_vars => [Kept]_vars
  <2> SUFFICES ASSUME OutcomesIInv, Next, NEW r \in Requests
               PROVE  /\ outcomes[r].status \in Settled => outcomes'[r] \in {outcomes[r], NoRow}
                      /\ outcomes[r].status \in Open =>
                           \/ outcomes'[r] = NoRow
                           \/ /\ outcomes'[r].owner = outcomes[r].owner
                              /\ outcomes'[r].at = outcomes[r].at
                      /\ stage[r] = "gone" /\ outcomes[r] = NoRow => outcomes'[r] = NoRow
    OBVIOUS
  <2>1. RowStep(r) /\ TypeOK
    BY RowLemma DEF OutcomesIInv
  <2>2. CASE outcomes[r].status \in Open /\ ~(outcomes'[r] \in {outcomes[r], NoRow})
    <3>1. outcomes[r] \in [status : Open \cup Settled, owner : Owners, at : 0..MaxClock]
      BY <2>1, <2>2, NoRowLemma DEF TypeOK
    <3> QED  BY <2>1, <2>2, <3>1, NoRowLemma DEF RowStep
  <2> QED  BY <2>1, <2>2, NoRowLemma DEF RowStep
<1> QED  BY <1>1, AlwaysIInv, PTL DEF Spec, SettledStaySettled

-----------------------------------------------------------------------------
\* What pruning keeps (_prune_outcomes)
FreshRows(table) == {r \in Rows(table) : table[r].at >= now - Retention}
KeptRows(table) ==
    {r \in FreshRows(table) :
        Cardinality({s \in FreshRows(table) : Newer(table, s, r)}) < MaxRows}

LEMMA RowsHaveTimes ==
    ASSUME NEW table \in Table
    PROVE  /\ Rows(table) \in SUBSET Requests
           /\ \A r \in Rows(table) : table[r].at \in Int /\ r \in Int
<1>1. \A r \in Rows(table) : table[r] \in [status : Open \cup Settled, owner : Owners, at : 0..MaxClock]
  BY DEF Table, OutcomeRow, Rows
<1>2. Rows(table) \in SUBSET Requests /\ Requests \subseteq Int
  BY DEF Rows
<1>3. 0..MaxClock \subseteq Int
  OBVIOUS
<1>4. \A r \in Rows(table) : table[r].at \in 0..MaxClock
  BY <1>1
<1>5. QED
  BY <1>2, <1>3, <1>4

\* The rows are totally ordered, ties by request id.
LEMMA NewerIsTotal ==
    ASSUME NEW table \in Table, NEW r \in Rows(table), NEW s \in Rows(table), NEW q \in Rows(table)
    PROVE  /\ r # s => Newer(table, r, s) \/ Newer(table, s, r)
           /\ Newer(table, q, r) /\ Newer(table, r, s) => Newer(table, q, s)
           /\ ~Newer(table, r, r)
<1>1. /\ table[r].at \in Int /\ table[s].at \in Int /\ table[q].at \in Int
      /\ r \in Int /\ s \in Int /\ q \in Int
  BY RowsHaveTimes
<1>2. QED
  BY <1>1 DEF Newer

\* Finitely many rows have an oldest.
LEMMA OldestIsThere ==
    ASSUME NEW table \in Table, NEW K \in SUBSET Rows(table), IsFiniteSet(K), K # {}
    PROVE  \E r \in K : \A s \in K \ {r} : Newer(table, s, r)
<1> DEFINE S == {m \in Nat : \A u \in UpTo(K, m) : u # {} => \E r \in u : \A s \in u \ {r} : Newer(table, s, r)}
<1>1. 0 \in S
  BY NoneUpTo
<1>2. ASSUME NEW m \in Nat, m \in S PROVE m + 1 \in S
  <2> SUFFICES ASSUME NEW u \in UpTo(K, m + 1), u # {} PROVE \E r \in u : \A s \in u \ {r} : Newer(table, s, r)
    OBVIOUS
  <2>1. PICK z \in u : TRUE
    OBVIOUS
  <2>2. u \ {z} \in UpTo(K, m)
    BY OneLess
  <2>3. u \in SUBSET Rows(table)
    BY DEF UpTo
  <2>4. CASE u \ {z} = {}
    BY <2>1, <2>4
  <2>5. CASE u \ {z} # {}
    <3>1. PICK x \in u \ {z} : \A s \in (u \ {z}) \ {x} : Newer(table, s, x)
      BY <1>2, <2>2, <2>5
    <3>2. x \in Rows(table) /\ z \in Rows(table) /\ x # z
      BY <2>1, <2>3, <3>1
    <3>3. CASE Newer(table, z, x)
      BY <3>1, <3>3
    <3>4. CASE Newer(table, x, z)
      <4>1. \A s \in u \ {z} : Newer(table, s, z)
        BY <2>3, <3>1, <3>2, <3>4, NewerIsTotal
      <4>2. QED
        BY <2>1, <4>1
    <3>5. QED
      BY <3>2, <3>3, <3>4, NewerIsTotal
  <2>6. QED
    BY <2>4, <2>5
<1>3. Nat \subseteq S
  <2> HIDE DEF S
  <2>1. QED
    BY <1>1, <1>2, SetInduction
<1>4. Cardinality(K) \in Nat /\ K \in UpTo(K, Cardinality(K))
  BY NoneUpTo, FS_CardinalityType
<1>5. QED
  BY <1>3, <1>4

LEMMA PrunedRows ==
    ASSUME NEW table \in Table
    PROVE  /\ Rows(Pruned(table)) = KeptRows(table) /\ KeptRows(table) \subseteq FreshRows(table)
           /\ FreshRows(table) \subseteq Rows(table)
           /\ \A r \in KeptRows(table) : Pruned(table)[r] = table[r]
<1>1. Pruned(table) = [r \in Requests |-> IF r \in KeptRows(table) THEN table[r] ELSE NoRow]
  BY DEF Pruned, KeptRows, FreshRows
<1>2. KeptRows(table) \subseteq FreshRows(table) /\ FreshRows(table) \subseteq Rows(table)
  BY DEF KeptRows, FreshRows
<1>3. \A r \in Rows(table) : r \in Requests /\ table[r] # NoRow
  BY DEF Rows
<1>4. QED
  BY <1>1, <1>2, <1>3 DEF Rows

\* At most MaxRows stay: all that stay but the oldest are newer than that one.
LEMMA FewAreKept ==
    ASSUME NEW table \in Table, IsFiniteSet(Rows(table))
    PROVE  IsFiniteSet(KeptRows(table)) /\ Cardinality(KeptRows(table)) <= MaxRows
<1> DEFINE K == KeptRows(table)
           F == FreshRows(table)
<1>1. K \in SUBSET F /\ F \in SUBSET Rows(table) /\ K \in SUBSET Rows(table)
  BY DEF KeptRows, FreshRows
<1>2. IsFiniteSet(F) /\ IsFiniteSet(K) /\ Cardinality(K) \in Nat
  BY <1>1, FS_Subset, FS_CardinalityType
<1>3. CASE K = {}
  BY <1>2, <1>3, FS_EmptySet
<1>4. CASE K # {}
  <2>1. PICK r \in K : \A s \in K \ {r} : Newer(table, s, r)
    <3> HIDE DEF K, F
    <3>1. QED
      BY <1>1, <1>2, <1>4, OldestIsThere
  <2> DEFINE N == {s \in F : Newer(table, s, r)}
  <2>2. Cardinality(N) < MaxRows
    BY DEF KeptRows
  <2> HIDE DEF K, F
  <2>3. IsFiniteSet(N) /\ K \ {r} \subseteq N
    BY <1>1, <1>2, <2>1, FS_Subset
  <2> HIDE DEF N
  <2>4. Cardinality(K \ {r}) <= Cardinality(N) /\ Cardinality(N) \in Nat
    BY <2>3, FS_Subset, FS_CardinalityType
  <2>5. Cardinality(K \ {r}) = Cardinality(K) - 1
    BY <1>2, <2>1, FS_RemoveElement
  <2>6. QED
    BY <1>2, <2>2, <2>4, <2>5 DEF K
<1>5. QED
  BY <1>2, <1>3, <1>4

\* What goes is older than what stays: as many rows are newer than it at least.
LEMMA OldestGo ==
    ASSUME NEW table \in Table, IsFiniteSet(Rows(table)), now \in Int,
           NEW r \in Rows(table), r \notin KeptRows(table), NEW s \in KeptRows(table)
    PROVE  table[r].at < table[s].at \/ (table[r].at = table[s].at /\ r < s)
<1> DEFINE F == FreshRows(table)
           N(q) == {p \in F : Newer(table, p, q)}
<1>1. s \in F /\ F \in SUBSET Rows(table) /\ s \in Rows(table)
  BY DEF KeptRows, FreshRows
<1>2. table[r].at \in Int /\ table[s].at \in Int /\ r \in Int /\ s \in Int /\ r # s
  BY <1>1, RowsHaveTimes
<1>3. CASE r \notin F
  BY <1>1, <1>2, <1>3 DEF FreshRows
<1>4. CASE r \in F
  <2>1. Cardinality(N(s)) < MaxRows /\ ~(Cardinality(N(r)) < MaxRows)
    BY <1>4 DEF KeptRows
  <2>2. IsFiniteSet(F)
    BY <1>1, FS_Subset
  <2>3. ~Newer(table, r, s)
    <3> SUFFICES ASSUME Newer(table, r, s) PROVE FALSE
      OBVIOUS
    <3>1. N(r) \subseteq N(s)
      <4> HIDE DEF F
      <4>1. QED
        BY <1>1, NewerIsTotal
    <3>2. IsFiniteSet(N(s))
      <4> HIDE DEF F
      <4>1. N(s) \subseteq F
        OBVIOUS
      <4>2. QED
        BY <2>2, <4>1, FS_Subset
    <3> HIDE DEF N
    <3>3. Cardinality(N(r)) <= Cardinality(N(s)) /\ Cardinality(N(s)) \in Nat /\ Cardinality(N(r)) \in Nat
      BY <3>1, <3>2, FS_Subset, FS_CardinalityType
    <3>4. QED
      BY <2>1, <3>3
  <2>4. Newer(table, s, r)
    BY <1>1, <1>2, <2>3, NewerIsTotal
  <2>5. QED
    BY <1>2, <2>4 DEF Newer
<1>5. QED
  BY <1>3, <1>4

-----------------------------------------------------------------------------
\* A table that has at least the rows of the history, as old as they are.
Extends(table) ==
    /\ table \in Table /\ IsFiniteSet(Rows(table)) /\ Rows(outcomes) \subseteq Rows(table)
    /\ \A r \in Rows(outcomes) : table[r].at = outcomes[r].at

\* What a step may do to the rows together: nothing, prune the table it has extended,
\* or delete an owner with rows.
TableStep ==
    \/ outcomes' = outcomes
    \/ \E table \in Table : Extends(table) /\ outcomes' = Pruned(table)
    \/ deleted' # deleted /\ Rows(outcomes') \subseteq Rows(outcomes)

LEMMA ExtendedBy ==
    ASSUME outcomes \in Table, IsFiniteSet(Rows(outcomes)),
           NEW table \in Table, NEW r \in Requests,
           \A s \in Requests : s # r => table[s] = outcomes[s],
           outcomes[r] # NoRow => table[r] # NoRow /\ table[r].at = outcomes[r].at
    PROVE  Extends(table)
<1>1. Rows(table) \subseteq Rows(outcomes) \cup {r}
  BY DEF Rows
<1>2. IsFiniteSet(Rows(outcomes) \cup {r})
  BY FS_AddElement
<1>3. IsFiniteSet(Rows(table))
  BY <1>1, <1>2, FS_Subset
<1>4. ASSUME NEW s \in Rows(outcomes) PROVE s \in Rows(table) /\ table[s].at = outcomes[s].at
  BY <1>4 DEF Rows
<1>5. QED
  BY <1>3, <1>4 DEF Extends

LEMMA SavedExtends ==
    ASSUME outcomes \in Table, IsFiniteSet(Rows(outcomes)), NEW r \in Requests,
           NEW status \in Open \cup Settled, owner[r] \in Owners, now \in 0..MaxClock
    PROVE  \E table \in Table : Extends(table) /\ Saved(outcomes, r, status) = Pruned(table)
<1> DEFINE row == [status |-> status, owner |-> owner[r], at |-> now]
           table == [outcomes EXCEPT ![r] = IF @ # NoRow THEN @ ELSE row]
<1>1. row \in OutcomeRow /\ row # NoRow
  <2>1. row \in OutcomeRow
    BY DEF OutcomeRow
  <2>2. row.status = status /\ NoRow.status = "none"
    BY DEF NoRow
  <2>3. QED
    BY <2>1, <2>2 DEF Open, Settled
<1>2. /\ table \in Table /\ \A s \in Requests : s # r => table[s] = outcomes[s]
      /\ table[r] = IF outcomes[r] # NoRow THEN outcomes[r] ELSE row
  BY <1>1 DEF Table
<1>3. Saved(outcomes, r, status) = Pruned(table)
  BY DEF Saved
<1> HIDE DEF table, row
<1>4. Extends(table)
  BY <1>2, ExtendedBy
<1>5. QED
  BY <1>2, <1>3, <1>4

LEMMA AmendedExtends ==
    ASSUME outcomes \in Table, IsFiniteSet(Rows(outcomes)), NEW r \in Requests, NEW status \in Settled
    PROVE  \/ Amended(outcomes, r, status) = outcomes
           \/ \E table \in Table : Extends(table) /\ Amended(outcomes, r, status) = Pruned(table)
<1>1. CASE outcomes[r].status \notin Open
  BY <1>1 DEF Amended
<1>2. CASE outcomes[r].status \in Open
  <2> DEFINE row == [outcomes[r] EXCEPT !.status = status]
             table == [outcomes EXCEPT ![r] = row]
  <2>1. outcomes[r] \in [status : Open \cup Settled, owner : Owners, at : 0..MaxClock]
    BY <1>2, NoRowLemma DEF Table, OutcomeRow
  <2>2. row \in OutcomeRow /\ row.status = status /\ row.at = outcomes[r].at
    BY <2>1 DEF OutcomeRow
  <2>3. row # NoRow
    BY <2>2, NoRowLemma
  <2>4. table \in Table /\ table[r] = row /\ \A s \in Requests : s # r => table[s] = outcomes[s]
    BY <2>2 DEF Table
  <2>5. Amended(outcomes, r, status) = Pruned(table)
    BY <1>2 DEF Amended
  <2> HIDE DEF table, row
  <2>6. Extends(table)
    BY <2>2, <2>3, <2>4, ExtendedBy
  <2>7. QED
    BY <2>4, <2>5, <2>6
<1>3. QED
  BY <1>1, <1>2

LEMMA InterruptedExtends ==
    ASSUME outcomes \in Table, IsFiniteSet(Rows(outcomes))
    PROVE  \E table \in Table : Extends(table) /\ Interrupted(outcomes) = Pruned(table)
<1> DEFINE Cut(r) == [outcomes[r] EXCEPT !.status = "interrupted"]
           table == [r \in Requests |-> IF outcomes[r].status \in Open THEN Cut(r) ELSE outcomes[r]]
<1>1. ASSUME NEW r \in Requests, outcomes[r].status \in Open
      PROVE  Cut(r) \in OutcomeRow /\ Cut(r) # NoRow /\ Cut(r).at = outcomes[r].at /\ outcomes[r] # NoRow
  <2>1. outcomes[r] \in [status : Open \cup Settled, owner : Owners, at : 0..MaxClock]
    BY <1>1, NoRowLemma DEF Table, OutcomeRow
  <2>2. Cut(r) \in OutcomeRow /\ Cut(r).status = "interrupted" /\ Cut(r).at = outcomes[r].at
    BY <2>1 DEF OutcomeRow, Settled
  <2>3. NoRow.status # "interrupted"
    BY DEF NoRow
  <2>4. QED
    BY <1>1, <2>2, <2>3, NoRowLemma
<1>2. \A r \in Requests : table[r] = IF outcomes[r].status \in Open THEN Cut(r) ELSE outcomes[r]
  OBVIOUS
<1>3. table \in Table
  BY <1>1 DEF Table
<1>4. Interrupted(outcomes) = Pruned(table)
  BY DEF Interrupted
<1> HIDE DEF table, Cut
<1>5. Rows(table) = Rows(outcomes)
  BY <1>1, <1>2 DEF Rows
<1>6. \A r \in Rows(outcomes) : table[r].at = outcomes[r].at
  BY <1>1, <1>2 DEF Rows
<1>7. Extends(table)
  BY <1>3, <1>5, <1>6 DEF Extends
<1>8. QED
  BY <1>3, <1>4, <1>7

LEMMA TableLemma ==
    ASSUME OutcomesIInv, IsFiniteSet(Rows(outcomes)), Next
    PROVE  TableStep
<1>1. /\ outcomes \in Table /\ now \in 0..MaxClock /\ busy \in Requests \cup {None}
      /\ \A r \in Requests : stage[r] = "started" => owner[r] \in Owners
  BY DEF OutcomesIInv, TypeOK, ChargeComesFirst, Table, OutcomeRow
<1>2. ASSUME NEW r \in Requests, NEW status \in Open \cup Settled, Record(r, status), stage[r] = "started"
      PROVE  TableStep
  <2>1. outcomes' = Saved(outcomes, r, status) \/ outcomes' = outcomes
    BY <1>2 DEF Record
  <2>2. QED
    BY <1>1, <1>2, <2>1, SavedExtends DEF TableStep
<1>3. ASSUME NEW r \in Requests, Refuse(r) \/ Match(r) PROVE TableStep
  <2>1. \E status \in Open \cup Settled : Record(r, status) /\ stage[r] = "started"
    BY <1>3 DEF Refuse, Match, Settled
  <2>2. QED
    BY <1>2, <2>1
<1>4. ASSUME NEW r \in Requests, ProviderError(r) PROVE TableStep
  <2>1. outcomes' = Amended(outcomes, r, "failed") \/ outcomes' = outcomes
    BY <1>4 DEF ProviderError
  <2>2. "failed" \in Settled
    BY DEF Settled
  <2>3. QED
    BY <1>1, <2>1, <2>2, AmendedExtends DEF TableStep
<1>5. ASSUME Complete PROVE TableStep
  <2>1. outcomes' = Amended(outcomes, busy, "completed") \/ outcomes' = outcomes
    BY <1>5 DEF Complete
  <2>2. "completed" \in Settled /\ busy \in Requests
    BY <1>1, <1>5 DEF Settled, Complete
  <2>3. QED
    BY <1>1, <2>1, <2>2, AmendedExtends DEF TableStep
<1>6. ASSUME NEW o \in Owners, DeleteOwner(o) PROVE TableStep
  <2>1. deleted' # deleted
    BY <1>6 DEF DeleteOwner
  <2>2. outcomes' = [r \in Requests |-> IF outcomes[r].owner = o THEN NoRow ELSE outcomes[r]]
    BY <1>6 DEF DeleteOwner
  <2>3. Rows(outcomes') \subseteq Rows(outcomes)
    BY <2>2 DEF Rows
  <2>4. QED
    BY <2>1, <2>3 DEF TableStep
<1>7. ASSUME Prune PROVE TableStep
  <2>1. Extends(outcomes)
    BY <1>1 DEF Extends
  <2>2. QED
    BY <1>1, <1>7, <2>1 DEF Prune, TableStep
<1>8. ASSUME Restart PROVE TableStep
  BY <1>1, <1>8, InterruptedExtends DEF Restart, TableStep
<1>9. ASSUME outcomes' = outcomes PROVE TableStep
  BY <1>9 DEF TableStep
<1>10. QED
  BY <1>3, <1>4, <1>5, <1>6, <1>7, <1>8, <1>9
     DEF Next, Start, Forget, Charge, ChargeFails, Tick

\* The rows stay finitely many and within the cap.
Bounded == IsFiniteSet(Rows(outcomes)) /\ HistoryIsBounded

LEMMA BoundedStep ==
    ASSUME OutcomesIInv, Bounded, [Next]_vars
    PROVE  Bounded'
<1>1. CASE outcomes' = outcomes
  BY <1>1 DEF Bounded, HistoryIsBounded, Rows
<1>2. ASSUME NEW table \in Table, Extends(table), outcomes' = Pruned(table) PROVE Bounded'
  <2>1. Rows(outcomes') = KeptRows(table)
    BY <1>2, PrunedRows
  <2>2. IsFiniteSet(KeptRows(table)) /\ Cardinality(KeptRows(table)) <= MaxRows
    BY <1>2, FewAreKept DEF Extends
  <2>3. Bounded' = (IsFiniteSet(Rows(outcomes')) /\ Cardinality(Rows(outcomes')) <= MaxRows)
    BY DEF Bounded, HistoryIsBounded, Rows
  <2>4. QED
    BY <2>1, <2>2, <2>3
<1>3. ASSUME Rows(outcomes') \subseteq Rows(outcomes) PROVE Bounded'
  <2>1. /\ IsFiniteSet(Rows(outcomes)) /\ Cardinality(Rows(outcomes)) <= MaxRows
        /\ Cardinality(Rows(outcomes)) \in Nat
    BY FS_CardinalityType DEF Bounded, HistoryIsBounded
  <2>2. IsFiniteSet(Rows(outcomes')) /\ Cardinality(Rows(outcomes')) <= Cardinality(Rows(outcomes))
    BY <1>3, <2>1, FS_Subset
  <2>3. Cardinality(Rows(outcomes')) \in Nat
    BY <2>2, FS_CardinalityType
  <2>4. Bounded' = (IsFiniteSet(Rows(outcomes')) /\ Cardinality(Rows(outcomes')) <= MaxRows)
    BY DEF Bounded, HistoryIsBounded, Rows
  <2>5. Cardinality(Rows(outcomes')) <= MaxRows
    BY <2>1, <2>2, <2>3
  <2>6. QED
    BY <2>2, <2>4, <2>5
<1>4. CASE UNCHANGED vars
  <2>1. outcomes' = outcomes
    BY <1>4 DEF vars
  <2>2. QED
    BY <1>1, <2>1
<1>5. CASE Next
  <2>1. TableStep
    BY <1>5, TableLemma DEF Bounded
  <2>2. QED
    BY <1>1, <1>2, <1>3, <2>1 DEF TableStep
<1>6. QED
  BY <1>4, <1>5

LEMMA AlwaysBounded == Spec => [](OutcomesIInv /\ Bounded)
<1>1. Init => OutcomesIInv /\ Bounded
  <2> SUFFICES ASSUME Init PROVE Bounded
    BY InitInv
  <2>1. Rows(outcomes) = {}
    BY DEF Init, Rows
  <2>2. QED
    BY <2>1, FS_EmptySet DEF Bounded, HistoryIsBounded
<1>2. OutcomesIInv /\ Bounded /\ [Next]_vars => (OutcomesIInv /\ Bounded)'
  BY StepInv, BoundedStep
<1>3. QED
  BY <1>1, <1>2, PTL DEF Spec

\* The history has no more rows than it may (TRACE_MAX_ROWS).
THEOREM HistoryAlwaysBounded == Spec => []HistoryIsBounded
<1>1. OutcomesIInv /\ Bounded => HistoryIsBounded
  BY DEF Bounded
<1>2. QED
  BY <1>1, AlwaysBounded, PTL

\* Apart from deletions of accounts, what leaves the history is older than what stays
\* (_prune_outcomes).
THEOREM OldestAlwaysLeaveFirst == Spec => OldestLeaveFirst
<1> DEFINE Leaves ==
      deleted' = deleted =>
         \A r \in Rows(outcomes) \ Rows(outcomes'), s \in Rows(outcomes') :
             \/ outcomes[r].at < outcomes'[s].at
             \/ outcomes[r].at = outcomes'[s].at /\ r < s
<1>1. OutcomesIInv /\ Bounded /\ [Next]_vars => [Leaves]_vars
  <2> SUFFICES ASSUME OutcomesIInv, Bounded, Next, deleted' = deleted,
                      NEW r \in Rows(outcomes) \ Rows(outcomes'), NEW s \in Rows(outcomes')
               PROVE  \/ outcomes[r].at < outcomes'[s].at
                      \/ outcomes[r].at = outcomes'[s].at /\ r < s
    OBVIOUS
  <2>1. now \in Int
    BY DEF OutcomesIInv, TypeOK
  <2>2. outcomes' # outcomes
    OBVIOUS
  <2>3. PICK table \in Table : Extends(table) /\ outcomes' = Pruned(table)
    BY <2>2, TableLemma DEF Bounded, TableStep
  <2>4. Rows(outcomes') = KeptRows(table) /\ outcomes'[s] = table[s]
    BY <2>3, PrunedRows
  <2>5. r \in Rows(table) /\ IsFiniteSet(Rows(table)) /\ table[r].at = outcomes[r].at
    BY <2>3 DEF Extends
  <2>6. table[r].at < table[s].at \/ (table[r].at = table[s].at /\ r < s)
    BY <2>1, <2>4, <2>5, OldestGo
  <2>7. QED
    BY <2>4, <2>5, <2>6
<1>2. QED
  BY <1>1, AlwaysBounded, PTL DEF Spec, OldestLeaveFirst

\* The history is true and stays so, over restarts, retention and deletions.
THEOREM HistoryIsTrueHolds == Spec => HistoryIsTrue
BY TypeCorrect, CompletedIsChargedHolds, OpenRowsAreOfThisRunHolds,
   SettledStaySettledHolds, HistoryAlwaysBounded, OldestAlwaysLeaveFirst, PTL DEF HistoryIsTrue

-----------------------------------------------------------------------------
USE ConsolidationAssumption

\* What the script has read, and the lock, at each of its stages.
ScriptKnows ==
    /\ writer = "script" <=> script.stage \in {"locked", "checked"}
    /\ script.stage # "idle" => script.baseline \in Books /\ script.canonical \in Stable
    /\ script.stage \notin {"idle", "planned"} => script.backup \in Books
    /\ script.stage # "idle" /\ script.apply => Counts(script.baseline) = approval
    /\ script.stage \in {"compared", "rehearsed", "locked", "checked"} => script.backup = script.baseline
    /\ script.stage \in {"rehearsed", "locked", "checked"} => script.apply
    /\ script.stage = "checked" => book = script.baseline

\* Before the consolidation a wrong legacy account is there and stays wrong.
WrongStayWrong ==
    archive = NoArchive =>
        \A a \in unexplained : a \in book.accounts /\ book.earned[a] = EarnedBy(book, a) + 1

\* A principal without an account has earned nothing, and the others what their
\* transactions say; what was remapped belongs to a principal.
StableAddUp ==
    /\ \A s \in Stable : book.earned[s] = EarnedBy(book, s)
    /\ \A t \in Txs : archive[t] # "none" => book.provider[t] \in Stable

ConsolidationIInv ==
    /\ ConsolidationTypeOK /\ BooksReconcile /\ AttributionIsRecoverable
    /\ ScriptKnows /\ WrongStayWrong /\ StableAddUp

LEMMA TypesOfBooks ==
  ASSUME NEW b \in Books
  PROVE  /\ b.provider \in [Txs -> Accounts \cup {"none"}] /\ b.accounts \in SUBSET Accounts
         /\ b.earned \in [Accounts -> Int] /\ b.tokens \in [Stable -> {"none", "active", "revoked"}]
         /\ b # NoBook
<1>1. DOMAIN b = {"provider", "accounts", "earned", "tokens"}
  BY DEF Books
<1>2. DOMAIN NoBook = {"provider"}
  BY DEF NoBook
<1>3. "tokens" \in DOMAIN b /\ "tokens" \notin DOMAIN NoBook
  BY <1>1, <1>2
<1>4. QED
  BY <1>3 DEF Books

LEMMA TxsAreFinite ==
  ASSUME NEW S \in SUBSET Txs
  PROVE  IsFiniteSet(S) /\ S \in SUBSET Int /\ SumSet(S) \in Int /\ Cardinality(S) \in Nat
<1>0. IsFiniteSet(Txs) /\ Txs \in SUBSET Int
  OBVIOUS
<1>1. IsFiniteSet(S) /\ S \in SUBSET Int /\ Cardinality(S) \in Nat
  <2>1. IsFiniteSet(S)
    BY <1>0, FS_Subset
  <2>2. QED
    BY <1>0, <2>1, FS_CardinalityType
<1>2. PICK f \in [SUBSET S -> Int] : AddsUp(SUBSET S, f)
  BY <1>1, SumExists
<1>3. SumSet(S) = f[S]
  BY <1>1, <1>2, SumSetAddsUp
<1>4. QED
  BY <1>1, <1>2, <1>3

LEMMA CountsAreNumbers ==
  ASSUME NEW b \in Books
  PROVE  Counts(b) \in Int \X Int \X Int /\ Counts(b) # NoCounts
<1>1. Booked(b) \in SUBSET Txs /\ OfLegacy(b) \in SUBSET Txs
  BY DEF Booked, OfLegacy
<1>2. Cardinality(Booked(b)) \in Nat /\ Cardinality(OfLegacy(b)) \in Nat
  BY <1>1, TxsAreFinite
<1>3. Cardinality(b.accounts \cap Legacy) \in Nat
  BY FS_Subset, FS_CardinalityType
<1>4. QED
  BY <1>2, <1>3 DEF Counts, NoCounts

Charged(b, t, p) == [b EXCEPT !.provider[t] = p, !.earned[p] = @ + t]
Charges(b, t, p, d) ==
    b \in Books /\ d \in Books /\ b.provider[t] = "none" /\ d = Charged(b, t, p)

Earns(b, t, p, d) ==
    /\ d.provider = [b.provider EXCEPT ![t] = p]
    /\ d.accounts = b.accounts /\ d.tokens = b.tokens
    /\ \A a \in Accounts : a # p => d.earned[a] = b.earned[a] /\ EarnedBy(d, a) = EarnedBy(b, a)
    /\ d.earned[p] = b.earned[p] + t /\ EarnedBy(d, p) = EarnedBy(b, p) + t

\* A charge earns its provider what it says, and nobody else anything.
LEMMA ChargeAddsUp ==
  ASSUME NEW t \in Txs, NEW p \in Stable, NEW b, NEW d, Charges(b, t, p, d)
  PROVE  Earns(b, t, p, d)
<1>0. b \in Books /\ d \in Books /\ b.provider[t] = "none" /\ d = Charged(b, t, p)
  BY DEF Charges
<1>1. /\ b.provider \in [Txs -> Accounts \cup {"none"}]
      /\ b.earned \in [Accounts -> Int]
  BY <1>0, TypesOfBooks
<1>2. p \in Accounts /\ p # "none" /\ t \in Int
  BY DEF Accounts
<1>3. /\ d.provider = [b.provider EXCEPT ![t] = p]
      /\ d.accounts = b.accounts /\ d.tokens = b.tokens
      /\ d.earned = [b.earned EXCEPT ![p] = @ + t]
  BY <1>0 DEF Books, Charged
<1>4. ASSUME NEW a \in Accounts, a # p
      PROVE  d.earned[a] = b.earned[a] /\ EarnedBy(d, a) = EarnedBy(b, a)
  <2>1. a # "none"
    BY DEF Accounts
  <2>2. {u \in Txs : d.provider[u] = a} = {u \in Txs : b.provider[u] = a}
    BY <1>0, <1>1, <1>3, <1>4, <2>1
  <2>3. QED
    BY <1>1, <1>2, <1>3, <1>4, <2>2 DEF EarnedBy
<1>5. d.earned[p] = b.earned[p] + t
  BY <1>1, <1>2, <1>3
<1>6. EarnedBy(d, p) = EarnedBy(b, p) + t
  <2> DEFINE S == {u \in Txs : b.provider[u] = p}
  <2>1. {u \in Txs : d.provider[u] = p} = S \cup {t} /\ t \notin S /\ S \in SUBSET Txs
    BY <1>0, <1>1, <1>2, <1>3
  <2> HIDE DEF S
  <2>2. SumSet(S \cup {t}) = SumSet(S) + t
    BY <1>2, <2>1, TxsAreFinite, SumOfOneMore
  <2>3. QED
    BY <2>1, <2>2 DEF EarnedBy, S
<1>7. QED
  BY <1>3, <1>4, <1>5, <1>6 DEF Earns

\* The consolidation gives what the legacy accounts earned to the canonical one.
LEMMA ConsolidatedAddsUp ==
  ASSUME NEW b \in Books, NEW c \in Stable, NEW d, d = Consolidated(b, c)
  PROVE  /\ d \in Books /\ d.tokens = b.tokens /\ d.accounts = b.accounts \ Legacy
         /\ \A t \in Txs : d.provider[t] = IF b.provider[t] \in Legacy THEN c ELSE b.provider[t]
         /\ \A a \in Stable : a # c => d.earned[a] = b.earned[a] /\ EarnedBy(d, a) = EarnedBy(b, a)
         /\ b.earned[c] = EarnedBy(b, c) => d.earned[c] = EarnedBy(d, c)
<1>1. /\ b.provider \in [Txs -> Accounts \cup {"none"}] /\ b.accounts \in SUBSET Accounts
      /\ b.earned \in [Accounts -> Int]
  BY TypesOfBooks
<1>2. c \in Accounts /\ c # "none" /\ c \notin Legacy
  BY DEF Accounts
<1>3. /\ OfLegacy(b) \in SUBSET Txs /\ SumSet(OfLegacy(b)) \in Int
      /\ \A t \in Txs : t \in OfLegacy(b) <=> b.provider[t] \in Legacy
  BY TxsAreFinite DEF OfLegacy
<1> DEFINE provider == [t \in Txs |-> IF t \in OfLegacy(b) THEN c ELSE b.provider[t]]
           earned == [b.earned EXCEPT ![c] = @ + SumSet(OfLegacy(b))]
<1>4. d = [b EXCEPT !.provider = provider, !.earned = earned, !.accounts = b.accounts \ Legacy]
  BY DEF Consolidated, Books
<1>5. provider \in [Txs -> Accounts \cup {"none"}] /\ earned \in [Accounts -> Int]
  BY <1>1, <1>2, <1>3
<1>6. \A t \in Txs : provider[t] = IF b.provider[t] \in Legacy THEN c ELSE b.provider[t]
  BY <1>3
<1>7. earned[c] = b.earned[c] + SumSet(OfLegacy(b)) /\ \A a \in Accounts : a # c => earned[a] = b.earned[a]
  BY <1>1, <1>2
<1> HIDE DEF provider, earned
<1>8. /\ d \in Books /\ d.tokens = b.tokens /\ d.accounts = b.accounts \ Legacy
      /\ d.provider = provider /\ d.earned = earned
  <2>1. b.accounts \ Legacy \in SUBSET Accounts
    BY <1>1
  <2>2. /\ d.tokens = b.tokens /\ d.accounts = b.accounts \ Legacy
        /\ d.provider = provider /\ d.earned = earned
    BY <1>4 DEF Books
  <2>3. d \in Books
    BY <1>4, <1>5, <2>1 DEF Books
  <2>4. QED
    BY <2>2, <2>3
<1>9. ASSUME NEW a \in Stable, a # c
      PROVE  d.earned[a] = b.earned[a] /\ EarnedBy(d, a) = EarnedBy(b, a)
  <2>1. a \in Accounts /\ a \notin Legacy
    BY DEF Accounts
  <2>2. {t \in Txs : d.provider[t] = a} = {t \in Txs : b.provider[t] = a}
    BY <1>6, <1>8, <1>9, <2>1
  <2>3. QED
    BY <1>7, <1>8, <1>9, <2>1, <2>2 DEF EarnedBy
<1>10. ASSUME b.earned[c] = EarnedBy(b, c) PROVE d.earned[c] = EarnedBy(d, c)
  <2> DEFINE S == {t \in Txs : b.provider[t] = c}
  <2>1. {t \in Txs : d.provider[t] = c} = S \cup OfLegacy(b) /\ S \cap OfLegacy(b) = {} /\ S \in SUBSET Txs
    BY <1>2, <1>3, <1>6, <1>8
  <2> HIDE DEF S
  <2>2. SumSet(S \cup OfLegacy(b)) = SumSet(S) + SumSet(OfLegacy(b))
    BY <1>3, <2>1, TxsAreFinite, SumOfBoth
  <2>3. QED
    BY <1>7, <1>8, <1>10, <2>1, <2>2 DEF EarnedBy, S
<1>11. QED
  BY <1>6, <1>8, <1>9, <1>10

LEMMA ConsolidationInitLemma == ConsolidationInit => ConsolidationIInv
<1> SUFFICES ASSUME ConsolidationInit PROVE ConsolidationIInv
  OBVIOUS
<1>1. PICK p \in [Txs -> Accounts \cup {"none"}], c \in Stable :
         /\ \A t \in Txs : p[t] \in Stable => p[t] = c
         /\ book = [provider |-> p, accounts |-> Legacy \cup {c},
                    earned |-> [a \in Accounts |-> SumSet({t \in Txs : p[t] = a})
                                                   + (IF a \in unexplained THEN 1 ELSE 0)],
                    tokens |-> [s \in Stable |-> IF s = c THEN "active" ELSE "none"]]
         /\ origin = p
  BY DEF ConsolidationInit
<1>2. \A a \in Accounts : EarnedBy(book, a) = SumSet({t \in Txs : p[t] = a})
                          /\ EarnedBy(book, a) \in Int
  BY <1>1, TxsAreFinite DEF EarnedBy
<1>3. \A a \in Accounts : book.earned[a] = IF a \in unexplained THEN EarnedBy(book, a) + 1
                                             ELSE EarnedBy(book, a)
  <2> SUFFICES ASSUME NEW a \in Accounts
               PROVE  book.earned[a] = IF a \in unexplained THEN EarnedBy(book, a) + 1
                                       ELSE EarnedBy(book, a)
    OBVIOUS
  <2>1. book.earned[a] = EarnedBy(book, a) + (IF a \in unexplained THEN 1 ELSE 0)
    BY <1>1, <1>2
  <2>2. EarnedBy(book, a) \in Int
    BY <1>2
  <2>3. QED
    BY <2>1, <2>2
<1>4. \A a \in Accounts : book.earned[a] \in Int
  <2> SUFFICES ASSUME NEW a \in Accounts PROVE book.earned[a] \in Int
    OBVIOUS
  <2>1. EarnedBy(book, a) \in Int
    BY <1>2
  <2>2. EarnedBy(book, a) + 1 \in Int
    BY <2>1
  <2>3. QED
    BY <1>3, <2>1, <2>2
<1>5. book \in Books
  <2>1. book.earned \in [Accounts -> Int]
    BY <1>1, <1>4
  <2>2. book.tokens \in [Stable -> {"none", "active", "revoked"}]
    BY <1>1
  <2>3. Legacy \cup {c} \in SUBSET Accounts
    BY DEF Accounts
  <2>4. QED
    BY <1>1, <2>1, <2>2, <2>3 DEF Books
<1>6. /\ unexplained \in SUBSET Legacy /\ archive = [t \in Txs |-> "none"] /\ script = NoScript
      /\ writer = "none" /\ approval = NoCounts /\ scriptRuns = 0
  BY DEF ConsolidationInit, NoArchive
<1>7. ConsolidationTypeOK
  <2>1. script \in [stage : Stages, apply : BOOLEAN, canonical : Stable \cup {"none"},
                    baseline : Books \cup {NoBook}, backup : Books \cup {NoBook}]
    BY <1>6 DEF NoScript, Stages
  <2>2. approval \in (Int \X Int \X Int)
    BY <1>6 DEF NoCounts
  <2>3. QED
    BY <1>1, <1>5, <1>6, <2>1, <2>2 DEF ConsolidationTypeOK
<1>8. BooksReconcile
  <2>1. book.accounts \in SUBSET Accounts /\ book.accounts = Legacy \cup {c} /\ book.provider = p
    BY <1>1 DEF Accounts
  <2>2. \A a \in book.accounts \ unexplained : book.earned[a] = EarnedBy(book, a)
    BY <1>2, <1>3, <2>1
  <2>3. \A t \in Booked(book) : book.provider[t] \in book.accounts
    BY <1>1, <2>1 DEF Booked, Accounts
  <2>4. QED
    BY <1>6, <2>2, <2>3 DEF BooksReconcile, NoArchive
<1>9. AttributionIsRecoverable
  BY <1>1, <1>6 DEF AttributionIsRecoverable
<1>10. ScriptKnows
  BY <1>6 DEF ScriptKnows, NoScript
<1>11. WrongStayWrong
  BY <1>1, <1>3, <1>6 DEF WrongStayWrong, Accounts
<1>12. StableAddUp
  BY <1>2, <1>3, <1>6 DEF StableAddUp, Accounts
<1>13. QED
  BY <1>7, <1>8, <1>9, <1>10, <1>11, <1>12 DEF ConsolidationIInv

\* The coordinator changes the book while nobody holds the lock.
CoordinatorOnly(b) ==
    /\ writer = "none" /\ book' = b /\ b \in Books
    /\ UNCHANGED <<archive, script, writer, approval, unexplained, scriptRuns>>

LEMMA CoordinatorKeepsScript ==
  ASSUME ScriptKnows, NEW b, CoordinatorOnly(b)
  PROVE  ScriptKnows'
<1>1. script.stage # "checked"
  BY DEF ScriptKnows, CoordinatorOnly
<1>2. script' = script /\ approval' = approval /\ writer' = writer
  BY DEF CoordinatorOnly
<1>3. Counts(script.baseline)' = Counts(script.baseline)
  BY <1>2 DEF Counts, Booked, OfLegacy
<1>4. QED
  BY <1>1, <1>2, <1>3 DEF ScriptKnows

LEMMA ChargeKeeps ==
  ASSUME ConsolidationIInv, NEW t \in Txs, NEW p \in Stable, ChargeProvider(t, p)
  PROVE  ConsolidationIInv'
<1>1. book \in Books /\ book.provider[t] = "none" /\ p \in book.accounts /\ p \in Accounts /\ p \notin Legacy
      /\ p # "none"
  BY DEF ConsolidationIInv, ConsolidationTypeOK, ChargeProvider, Accounts
<1> DEFINE b == [book EXCEPT !.provider[t] = p, !.earned[p] = @ + t]
<1>2. book' = b /\ origin' = [origin EXCEPT ![t] = p] /\ writer = "none"
      /\ UNCHANGED <<archive, script, writer, approval, unexplained, scriptRuns>>
  BY DEF ChargeProvider
<1>3. b \in Books
  <2>1. /\ book.provider \in [Txs -> Accounts \cup {"none"}]
        /\ book.earned \in [Accounts -> Int]
    BY <1>1, TypesOfBooks
  <2>2. [book.provider EXCEPT ![t] = p] \in [Txs -> Accounts \cup {"none"}]
    BY <1>1, <2>1
  <2>3. t \in Int
    OBVIOUS
  <2>4. [book.earned EXCEPT ![p] = @ + t] \in [Accounts -> Int]
    BY <1>1, <2>1, <2>3
  <2>5. QED
    BY <1>1, <2>2, <2>4 DEF Books
<1>4. CoordinatorOnly(b)
  BY <1>2, <1>3 DEF CoordinatorOnly
<1>0. Charges(book, t, p, b)
  <2>1. b = Charged(book, t, p)
    BY DEF Charged
  <2> HIDE DEF b
  <2>2. QED
    BY <1>1, <1>3, <2>1 DEF Charges
<1> HIDE DEF b
<1>5. /\ b.provider = [book.provider EXCEPT ![t] = p]
      /\ b.accounts = book.accounts
      /\ \A a \in Accounts : a # p => b.earned[a] = book.earned[a] /\ EarnedBy(b, a) = EarnedBy(book, a)
      /\ b.earned[p] = book.earned[p] + t /\ EarnedBy(b, p) = EarnedBy(book, p) + t
  <2>1. Earns(book, t, p, b)
    BY <1>0, ChargeAddsUp
  <2>2. QED
    BY <2>1 DEF Earns
<1>6. /\ ConsolidationTypeOK /\ BooksReconcile /\ AttributionIsRecoverable
      /\ ScriptKnows /\ WrongStayWrong /\ StableAddUp
  BY DEF ConsolidationIInv
<1>7. book.provider \in [Txs -> Accounts \cup {"none"}] /\ book.accounts \in SUBSET Accounts
  BY <1>1, TypesOfBooks
<1>8. unexplained \subseteq Legacy /\ p \notin unexplained /\ origin \in [Txs -> Accounts \cup {"none"}]
  BY <1>1, <1>6 DEF ConsolidationTypeOK
<1>9. ConsolidationTypeOK'
  <2>1. origin' \in [Txs -> Accounts \cup {"none"}]
    BY <1>1, <1>2, <1>8
  <2>2. QED
    BY <1>2, <1>3, <1>6, <2>1 DEF ConsolidationTypeOK
<1>10. book.earned[p] = EarnedBy(book, p)
  BY <1>6 DEF StableAddUp
<1>11. BooksReconcile'
  <2>1. \A a \in b.accounts \ unexplained : b.earned[a] = EarnedBy(b, a)
    BY <1>5, <1>6, <1>7, <1>10 DEF BooksReconcile
  <2>2. \A u \in Txs : b.provider[u] # "none" => b.provider[u] \in b.accounts
    BY <1>1, <1>5, <1>6, <1>7 DEF BooksReconcile, Booked
  <2>3. archive # NoArchive => unexplained = {}
    BY <1>6 DEF BooksReconcile
  <2>4. QED
    BY <1>2, <2>1, <2>2, <2>3 DEF BooksReconcile, Booked, EarnedBy
<1>12. archive[t] = "none"
  BY <1>1, <1>6 DEF StableAddUp
<1>13. AttributionIsRecoverable'
  BY <1>1, <1>2, <1>5, <1>6, <1>7, <1>8, <1>12 DEF AttributionIsRecoverable
<1>14. ScriptKnows'
  BY <1>4, <1>6, CoordinatorKeepsScript
<1>15. WrongStayWrong'
  <2>1. ASSUME archive = NoArchive, NEW a \in unexplained
        PROVE  a \in b.accounts /\ b.earned[a] = EarnedBy(b, a) + 1
    BY <1>5, <1>6, <1>7, <1>8, <2>1 DEF WrongStayWrong
  <2>2. QED
    BY <1>2, <2>1 DEF WrongStayWrong, EarnedBy
<1>16. StableAddUp'
  <2>1. \A s \in Stable : b.earned[s] = EarnedBy(b, s)
    BY <1>5, <1>6 DEF StableAddUp, Accounts
  <2>2. \A u \in Txs : archive[u] # "none" => b.provider[u] \in Stable
    BY <1>5, <1>6, <1>7 DEF StableAddUp
  <2>3. QED
    BY <1>2, <2>1, <2>2 DEF StableAddUp, EarnedBy
<1>17. QED
  BY <1>9, <1>11, <1>13, <1>14, <1>15, <1>16 DEF ConsolidationIInv

\* Credentials come and go, and with them accounts that have earned nothing.
LEMMA CredentialsKeep ==
  ASSUME ConsolidationIInv, NEW p \in Stable, IssueCredential(p) \/ RevokeCredential(p)
  PROVE  ConsolidationIInv'
<1>1. /\ ConsolidationTypeOK /\ BooksReconcile /\ AttributionIsRecoverable
      /\ ScriptKnows /\ WrongStayWrong /\ StableAddUp
  BY DEF ConsolidationIInv
<1>2. book \in Books /\ p \in Accounts
  BY <1>1 DEF ConsolidationTypeOK, Accounts
<1>3. PICK b \in Books : /\ CoordinatorOnly(b) /\ origin' = origin
                         /\ b.provider = book.provider /\ b.earned = book.earned
                         /\ b.accounts \in {book.accounts, book.accounts \cup {p}}
  <2>1. CASE IssueCredential(p)
    <3> DEFINE b == [book EXCEPT !.tokens[p] = "active", !.accounts = @ \cup {p}]
    <3>1. b \in Books /\ b.provider = book.provider /\ b.earned = book.earned
          /\ b.accounts = book.accounts \cup {p}
      BY <1>2 DEF Books
    <3>2. book' = b /\ writer = "none" /\ origin' = origin
          /\ UNCHANGED <<archive, script, writer, approval, unexplained, scriptRuns>>
      BY <2>1 DEF IssueCredential
    <3> HIDE DEF b
    <3>3. QED
      BY <3>1, <3>2 DEF CoordinatorOnly
  <2>2. CASE RevokeCredential(p)
    <3> DEFINE b == [book EXCEPT !.tokens[p] = "revoked"]
    <3>1. b \in Books /\ b.provider = book.provider /\ b.earned = book.earned
          /\ b.accounts = book.accounts
      BY <1>2 DEF Books
    <3>2. book' = b /\ writer = "none" /\ origin' = origin
          /\ UNCHANGED <<archive, script, writer, approval, unexplained, scriptRuns>>
      BY <2>2 DEF RevokeCredential
    <3> HIDE DEF b
    <3>3. QED
      BY <3>1, <3>2 DEF CoordinatorOnly
  <2>3. QED
    BY <2>1, <2>2
<1>4. book' = b /\ UNCHANGED <<archive, script, writer, approval, unexplained, scriptRuns>>
  BY <1>3 DEF CoordinatorOnly
<1>5. \A a : EarnedBy(b, a) = EarnedBy(book, a)
  BY <1>3 DEF EarnedBy
<1>6. unexplained \subseteq Legacy /\ book.accounts \subseteq b.accounts
  BY <1>1, <1>3 DEF ConsolidationTypeOK
<1>7. ConsolidationTypeOK'
  BY <1>1, <1>3, <1>4 DEF ConsolidationTypeOK
<1>8. BooksReconcile'
  <2>1. \A a \in b.accounts \ unexplained : b.earned[a] = EarnedBy(b, a)
    BY <1>1, <1>3, <1>5 DEF BooksReconcile, StableAddUp
  <2>2. \A u \in Txs : b.provider[u] # "none" => b.provider[u] \in b.accounts
    BY <1>1, <1>3, <1>6 DEF BooksReconcile, Booked
  <2>3. archive # NoArchive => unexplained = {}
    BY <1>1 DEF BooksReconcile
  <2>4. QED
    BY <1>4, <2>1, <2>2, <2>3 DEF BooksReconcile, Booked, EarnedBy
<1>9. AttributionIsRecoverable'
  BY <1>1, <1>3, <1>4 DEF AttributionIsRecoverable
<1>10. ScriptKnows'
  BY <1>1, <1>3, CoordinatorKeepsScript
<1>11. WrongStayWrong'
  <2>1. ASSUME archive = NoArchive, NEW a \in unexplained
        PROVE  a \in b.accounts /\ b.earned[a] = EarnedBy(b, a) + 1
    BY <1>1, <1>3, <1>5, <1>6, <2>1 DEF WrongStayWrong
  <2>2. QED
    BY <1>4, <2>1 DEF WrongStayWrong, EarnedBy
<1>12. StableAddUp'
  <2>1. \A s \in Stable : b.earned[s] = EarnedBy(b, s)
    BY <1>1, <1>3, <1>5 DEF StableAddUp
  <2>2. QED
    BY <1>1, <1>3, <1>4, <2>1 DEF StableAddUp, EarnedBy
<1>13. QED
  BY <1>7, <1>8, <1>9, <1>10, <1>11, <1>12 DEF ConsolidationIInv

\* What the script may do without touching the tables.
DatabaseKept == UNCHANGED <<book, archive, origin, unexplained>>

LEMMA ReadingKeeps ==
  ASSUME ConsolidationIInv, DatabaseKept, ScriptKnows',
         /\ writer' \in {"none", "script"} /\ approval' \in Int \X Int \X Int
         /\ scriptRuns' \in 0..MaxScriptRuns
         /\ script' \in [stage : Stages, apply : BOOLEAN, canonical : Stable \cup {"none"},
                         baseline : Books \cup {NoBook}, backup : Books \cup {NoBook}]
  PROVE  ConsolidationIInv'
<1>1. /\ ConsolidationTypeOK /\ BooksReconcile /\ AttributionIsRecoverable
      /\ ScriptKnows /\ WrongStayWrong /\ StableAddUp
  BY DEF ConsolidationIInv
<1>2. book' = book /\ archive' = archive /\ origin' = origin /\ unexplained' = unexplained
  BY DEF DatabaseKept
<1>3. ConsolidationTypeOK'
  BY <1>1, <1>2 DEF ConsolidationTypeOK
<1>4. BooksReconcile'
  BY <1>1, <1>2 DEF BooksReconcile, Booked, EarnedBy
<1>5. AttributionIsRecoverable'
  BY <1>1, <1>2 DEF AttributionIsRecoverable
<1>6. WrongStayWrong'
  BY <1>1, <1>2 DEF WrongStayWrong, EarnedBy
<1>7. StableAddUp'
  BY <1>1, <1>2 DEF StableAddUp, EarnedBy
<1>8. QED
  BY <1>3, <1>4, <1>5, <1>6, <1>7 DEF ConsolidationIInv

ScriptType == [stage : Stages, apply : BOOLEAN, canonical : Stable \cup {"none"},
               baseline : Books \cup {NoBook}, backup : Books \cup {NoBook}]

LEMMA CountsOf ==
  ASSUME NEW b, NEW c, b = c
  PROVE  Counts(b) = Counts(c)
  OBVIOUS

LEMMA ScriptStepKeeps ==
  ASSUME ConsolidationIInv,
         \/ \E c \in Stable : Begin(c)
         \/ MakeBackup \/ CompareBackup \/ RehearseCopy \/ Lock \/ Recheck \/ StopScript
  PROVE  ConsolidationIInv'
<1>1. ConsolidationTypeOK /\ ScriptKnows
  BY DEF ConsolidationIInv
<1>2. script \in ScriptType /\ writer \in {"none", "script"} /\ approval \in Int \X Int \X Int
      /\ scriptRuns \in 0..MaxScriptRuns /\ book \in Books
  BY <1>1 DEF ConsolidationTypeOK, ScriptType
<1>3. DatabaseKept
  BY DEF Begin, MakeBackup, CompareBackup, RehearseCopy, Lock, Recheck, StopScript, DatabaseOnly, DatabaseKept
<1>4. NoScript \in ScriptType /\ NoScript.stage = "idle"
  BY DEF NoScript, ScriptType, Stages
<1>5. writer' \in {"none", "script"} /\ approval' \in Int \X Int \X Int /\ scriptRuns' \in 0..MaxScriptRuns
      /\ script' \in ScriptType /\ ScriptKnows'
  <2>0. \A c : Counts(c)' = Counts(c)
    BY DEF Counts, Booked, OfLegacy
  <2>1. CASE \E c \in Stable : Begin(c)
    <3>1. PICK c \in Stable, apply \in BOOLEAN :
             /\ script.stage = "idle" /\ scriptRuns < MaxScriptRuns /\ scriptRuns' = scriptRuns + 1
             /\ apply => Counts(book) = approval
             /\ script' = [NoScript EXCEPT !.stage = "planned", !.apply = apply,
                                           !.canonical = c, !.baseline = book]
             /\ UNCHANGED <<writer, approval>>
      BY <2>1 DEF Begin
    <3>2. script' \in ScriptType /\ script'.stage = "planned" /\ script'.apply = apply
          /\ script'.canonical = c /\ script'.baseline = book
      BY <1>2, <3>1 DEF NoScript, ScriptType, Stages
    <3>3. scriptRuns' \in 0..MaxScriptRuns
      BY <1>2, <3>1
    <3>4. ScriptKnows'
      BY <1>1, <1>2, <2>0, <3>1, <3>2 DEF ScriptKnows
    <3>5. QED
      BY <1>2, <3>1, <3>2, <3>3, <3>4
  <2>2. CASE MakeBackup
    <3>1. script.stage = "planned" /\ script' = [script EXCEPT !.stage = "backed up", !.backup = book]
          /\ UNCHANGED <<writer, approval, scriptRuns, book>>
      BY <2>2 DEF MakeBackup, DatabaseOnly
    <3>2. script' \in ScriptType /\ script'.stage = "backed up" /\ script'.apply = script.apply
          /\ script'.canonical = script.canonical /\ script'.baseline = script.baseline
          /\ script'.backup = book
      BY <1>2, <3>1 DEF ScriptType, Stages
    <3>4. ScriptKnows'
      BY <1>1, <1>2, <2>0, <3>1, <3>2 DEF ScriptKnows
    <3>5. QED
      BY <1>2, <3>1, <3>2, <3>4
  <2>3. CASE CompareBackup
    <3>1. script.stage = "backed up" /\ UNCHANGED <<writer, approval, scriptRuns, book>>
      BY <2>3 DEF CompareBackup, DatabaseOnly
    <3>2. CASE script.backup = script.baseline
      <4>1. script' = [script EXCEPT !.stage = "compared"]
        BY <2>3, <3>2 DEF CompareBackup
      <4>2. script' \in ScriptType /\ script'.stage = "compared" /\ script'.apply = script.apply
            /\ script'.canonical = script.canonical /\ script'.baseline = script.baseline
            /\ script'.backup = script.backup
        BY <1>2, <4>1 DEF ScriptType, Stages
      <4>3. ScriptKnows'
        BY <1>1, <2>0, <3>1, <3>2, <4>2 DEF ScriptKnows
      <4>4. QED
        BY <1>2, <3>1, <4>2, <4>3
    <3>3. CASE script.backup # script.baseline
      <4>1. script' = NoScript
        BY <2>3, <3>3 DEF CompareBackup
      <4>2. ScriptKnows'
        BY <1>1, <1>4, <3>1, <4>1 DEF ScriptKnows
      <4>3. QED
        BY <1>2, <1>4, <3>1, <4>1, <4>2
    <3>4. QED
      BY <3>2, <3>3
  <2>4. CASE RehearseCopy
    <3>1. script.stage = "compared" /\ UNCHANGED <<writer, scriptRuns, book>>
      BY <2>4 DEF RehearseCopy, DatabaseOnly
    <3>2. CASE script.apply
      <4>1. script' = [script EXCEPT !.stage = "rehearsed"] /\ approval' = approval
        BY <2>4, <3>2 DEF RehearseCopy
      <4>2. script' \in ScriptType /\ script'.stage = "rehearsed" /\ script'.apply = script.apply
            /\ script'.canonical = script.canonical /\ script'.baseline = script.baseline
            /\ script'.backup = script.backup
        BY <1>2, <4>1 DEF ScriptType, Stages
      <4>3. ScriptKnows'
        BY <1>1, <2>0, <3>1, <3>2, <4>1, <4>2 DEF ScriptKnows
      <4>4. QED
        BY <1>2, <3>1, <4>1, <4>2, <4>3
    <3>3. CASE ~ script.apply
      <4>1. script' = NoScript /\ approval' = Counts(script.backup)
        BY <2>4, <3>3 DEF RehearseCopy
      <4>2. ScriptKnows'
        BY <1>1, <1>4, <3>1, <4>1 DEF ScriptKnows
      <4>3. script.backup \in Books
        BY <1>1, <3>1 DEF ScriptKnows
      <4>4. approval' \in Int \X Int \X Int
        BY <4>1, <4>3, CountsAreNumbers
      <4>5. QED
        BY <1>2, <1>4, <3>1, <4>1, <4>2, <4>4
    <3>4. QED
      BY <3>2, <3>3
  <2>5. CASE Lock
    <3>1. script.stage = "rehearsed" /\ writer' = "script" /\ script' = [script EXCEPT !.stage = "locked"]
          /\ UNCHANGED <<approval, scriptRuns, book>>
      BY <2>5 DEF Lock, DatabaseOnly
    <3>2. script' \in ScriptType /\ script'.stage = "locked" /\ script'.apply = script.apply
          /\ script'.canonical = script.canonical /\ script'.baseline = script.baseline
          /\ script'.backup = script.backup
      BY <1>2, <3>1 DEF ScriptType, Stages
    <3>4. ScriptKnows'
      BY <1>1, <1>2, <2>0, <3>1, <3>2 DEF ScriptKnows
    <3>5. QED
      BY <1>2, <3>1, <3>2, <3>4
  <2>6. CASE Recheck
    <3>1. script.stage = "locked" /\ UNCHANGED <<approval, scriptRuns, book>>
      BY <2>6 DEF Recheck, DatabaseOnly
    <3>2. CASE book = script.baseline
      <4>1. script' = [script EXCEPT !.stage = "checked"] /\ writer' = writer
        BY <2>6, <3>2 DEF Recheck
      <4>2. script' \in ScriptType /\ script'.stage = "checked" /\ script'.apply = script.apply
            /\ script'.canonical = script.canonical /\ script'.baseline = script.baseline
            /\ script'.backup = script.backup
        BY <1>2, <4>1 DEF ScriptType, Stages
      <4>3. ScriptKnows'
        BY <1>1, <2>0, <3>1, <3>2, <4>1, <4>2 DEF ScriptKnows
      <4>4. QED
        BY <1>2, <3>1, <4>1, <4>2, <4>3
    <3>3. CASE book # script.baseline
      <4>1. script' = NoScript /\ writer' = "none"
        BY <2>6, <3>3 DEF Recheck
      <4>2. ScriptKnows'
        BY <1>1, <1>4, <3>1, <4>1 DEF ScriptKnows
      <4>3. QED
        BY <1>2, <1>4, <3>1, <4>1, <4>2
    <3>4. QED
      BY <3>2, <3>3
  <2>7. CASE StopScript
    <3>1. script' = NoScript /\ writer' = "none" /\ UNCHANGED <<approval, scriptRuns>>
      BY <2>7 DEF StopScript
    <3>2. ScriptKnows'
      BY <1>1, <1>4, <3>1 DEF ScriptKnows
    <3>3. QED
      BY <1>2, <1>4, <3>1, <3>2
  <2>8. QED
    BY <2>1, <2>2, <2>3, <2>4, <2>5, <2>6, <2>7
<1>6. QED
  BY <1>3, <1>5, ReadingKeeps DEF ScriptType

\* What is read before the commit is what the operator approved and the backup holds.
LEMMA CommitIsApproved ==
  ASSUME ConsolidationIInv, CommitConsolidation
  PROVE  script.backup = book /\ approval # NoCounts /\ Counts(book) = approval
<1>1. ScriptKnows /\ script.stage = "checked"
  BY DEF ConsolidationIInv, CommitConsolidation
<1>2. script.backup = script.baseline /\ book = script.baseline /\ script.baseline \in Books
      /\ Counts(script.baseline) = approval
  BY <1>1 DEF ScriptKnows
<1>3. Counts(book) = approval
  BY <1>2
<1>4. QED
  BY <1>2, <1>3, CountsAreNumbers

LEMMA CommitKeeps ==
  ASSUME ConsolidationIInv, CommitConsolidation
  PROVE  ConsolidationIInv'
<1> DEFINE c == script.canonical
           d == Consolidated(book, c)
<1>1. /\ ConsolidationTypeOK /\ BooksReconcile /\ AttributionIsRecoverable
      /\ ScriptKnows /\ WrongStayWrong /\ StableAddUp
  BY DEF ConsolidationIInv
<1>2. c \in Stable /\ book \in Books /\ unexplained \in SUBSET Legacy
  BY <1>1 DEF ScriptKnows, ConsolidationTypeOK, CommitConsolidation
<1>3. /\ archive = NoArchive /\ c \in book.accounts
      /\ \A a \in book.accounts \cap Legacy : book.earned[a] = EarnedBy(book, a)
  BY DEF CommitConsolidation, Plan
<1>4. /\ book' = d /\ archive' = Archived(book, c) /\ script' = NoScript /\ writer' = "none"
      /\ UNCHANGED <<approval, origin, unexplained, scriptRuns>>
  BY DEF CommitConsolidation
<1>5. \A t \in Txs : archive'[t] = IF book.provider[t] \in Legacy THEN book.provider[t] ELSE "none"
  BY <1>4 DEF Archived, OfLegacy
<1> HIDE DEF c, d
<1>6. /\ d \in Books /\ d.accounts = book.accounts \ Legacy
      /\ \A t \in Txs : d.provider[t] = IF book.provider[t] \in Legacy THEN c ELSE book.provider[t]
      /\ \A a \in Stable : a # c => d.earned[a] = book.earned[a] /\ EarnedBy(d, a) = EarnedBy(book, a)
      /\ book.earned[c] = EarnedBy(book, c) => d.earned[c] = EarnedBy(d, c)
  BY <1>2, ConsolidatedAddsUp DEF d
<1>7. /\ book.provider \in [Txs -> Accounts \cup {"none"}] /\ book.accounts \in SUBSET Accounts
      /\ c \notin Legacy /\ "none" \notin Legacy
  BY <1>2, TypesOfBooks DEF Accounts
<1>8. \A s \in Stable : d.earned[s] = EarnedBy(d, s)
  BY <1>1, <1>6 DEF StableAddUp
<1>9. \A t \in Txs : archive'[t] # "none" => d.provider[t] \in Stable
  BY <1>2, <1>5, <1>6
<1>10. unexplained = {}
  <2> SUFFICES ASSUME NEW a \in unexplained PROVE FALSE
    OBVIOUS
  <2>1. a \in book.accounts /\ a \in Legacy /\ book.earned[a] = EarnedBy(book, a) + 1
    BY <1>1, <1>2, <1>3 DEF WrongStayWrong
  <2>2. book.earned[a] = EarnedBy(book, a)
    BY <1>3, <2>1
  <2>3. EarnedBy(book, a) \in Int
    BY TxsAreFinite DEF EarnedBy
  <2>4. QED
    BY <2>1, <2>2, <2>3
<1>11. ConsolidationTypeOK'
  <2>1. archive' \in [Txs -> Legacy \cup {"none"}]
    BY <1>4 DEF Archived, OfLegacy
  <2>2. NoScript \in [stage : Stages, apply : BOOLEAN, canonical : Stable \cup {"none"},
                      baseline : Books \cup {NoBook}, backup : Books \cup {NoBook}]
    BY DEF NoScript, Stages
  <2>3. QED
    BY <1>1, <1>4, <1>6, <2>1, <2>2 DEF ConsolidationTypeOK
<1>12. BooksReconcile'
  <2>1. \A a \in d.accounts \ unexplained : d.earned[a] = EarnedBy(d, a)
    BY <1>6, <1>7, <1>8 DEF Accounts
  <2>2. \A u \in Txs : d.provider[u] # "none" => d.provider[u] \in d.accounts
    BY <1>1, <1>3, <1>6, <1>7 DEF BooksReconcile, Booked
  <2>3. QED
    BY <1>4, <1>10, <2>1, <2>2 DEF BooksReconcile, Booked, EarnedBy
<1>13. AttributionIsRecoverable'
  <2>1. \A t \in Txs : origin[t] = book.provider[t]
    BY <1>1, <1>3 DEF AttributionIsRecoverable, NoArchive
  <2>2. ASSUME NEW t \in Txs
        PROVE  /\ origin'[t] = IF archive'[t] # "none" THEN archive'[t] ELSE book'.provider[t]
               /\ archive'[t] # "none" => book'.provider[t] \notin Legacy
    <3>1. origin'[t] = book.provider[t] /\ book'.provider[t] = d.provider[t]
      BY <1>4, <2>1
    <3>2. CASE book.provider[t] \in Legacy
      <4>1. archive'[t] = book.provider[t] /\ archive'[t] # "none" /\ d.provider[t] = c
        BY <1>5, <1>6, <1>7, <3>2
      <4>2. QED
        BY <1>7, <3>1, <4>1
    <3>3. CASE book.provider[t] \notin Legacy
      <4>1. archive'[t] = "none" /\ d.provider[t] = book.provider[t]
        BY <1>5, <1>6, <3>3
      <4>2. QED
        BY <3>1, <4>1
    <3>4. QED
      BY <3>2, <3>3
  <2>3. QED
    BY <2>2 DEF AttributionIsRecoverable
<1>14. ScriptKnows'
  BY <1>4 DEF ScriptKnows, NoScript
<1>15. WrongStayWrong'
  BY <1>4, <1>10 DEF WrongStayWrong
<1>16. StableAddUp'
  BY <1>4, <1>8, <1>9 DEF StableAddUp, EarnedBy
<1>17. QED
  BY <1>11, <1>12, <1>13, <1>14, <1>15, <1>16 DEF ConsolidationIInv

LEMMA ConsolidationNextLemma ==
  ConsolidationIInv /\ [ConsolidationNext]_consolidationVars => ConsolidationIInv'
<1> SUFFICES ASSUME ConsolidationIInv, [ConsolidationNext]_consolidationVars PROVE ConsolidationIInv'
  OBVIOUS
<1>1. CASE \E p \in Stable : IssueCredential(p) \/ RevokeCredential(p)
  BY <1>1, CredentialsKeep
<1>2. CASE \E t \in Txs, p \in Stable : ChargeProvider(t, p)
  BY <1>2, ChargeKeeps
<1>3. CASE \/ \E c \in Stable : Begin(c)
           \/ MakeBackup \/ CompareBackup \/ RehearseCopy \/ Lock \/ Recheck \/ StopScript
  BY <1>3, ScriptStepKeeps
<1>4. CASE CommitConsolidation
  BY <1>4, CommitKeeps
<1>5. CASE UNCHANGED consolidationVars
  <2>1. UNCHANGED <<book, archive, script, writer, approval, origin, unexplained, scriptRuns>>
    BY <1>5 DEF consolidationVars
  <2>2. /\ ConsolidationTypeOK /\ BooksReconcile /\ AttributionIsRecoverable
        /\ ScriptKnows /\ WrongStayWrong /\ StableAddUp
    BY DEF ConsolidationIInv
  <2>3. Counts(script.baseline)' = Counts(script.baseline)
    BY <2>1 DEF Counts, Booked, OfLegacy
  <2>4. ScriptKnows'
    BY <2>1, <2>2, <2>3 DEF ScriptKnows
  <2>5. ConsolidationTypeOK
    BY <2>2
  <2>6. QED
    BY <2>1, <2>4, <2>5, ReadingKeeps DEF ConsolidationTypeOK, DatabaseKept
<1>6. QED
  BY <1>1, <1>2, <1>3, <1>4, <1>5 DEF ConsolidationNext

\* Only the commit archives (run).
LEMMA OnlyTheCommitArchives ==
  ASSUME ConsolidationIInv, [ConsolidationNext]_consolidationVars, archive' # archive
  PROVE  CommitConsolidation
BY DEF ConsolidationNext, consolidationVars, IssueCredential, RevokeCredential, Begin, ChargeProvider,
       MakeBackup, CompareBackup, RehearseCopy, Lock, Recheck, StopScript, DatabaseOnly

\* The consolidation takes the accounts that were approved and backed up, while the
\* coordinator goes on charging, and loses neither money nor who earned it
\* (consolidate_legacy_provider_accounts.py: consolidate, run).
THEOREM ConsolidationAlwaysExact == ConsolidationSpec => ConsolidationIsExact
<1>1. ConsolidationIInv => ConsolidationTypeOK /\ BooksReconcile /\ AttributionIsRecoverable
  BY DEF ConsolidationIInv
<1>2. ConsolidationIInv /\ [ConsolidationNext]_consolidationVars =>
        /\ [archive' # archive => script.backup = book]_consolidationVars
        /\ [archive' # archive => approval # NoCounts /\ Counts(book) = approval]_consolidationVars
  BY OnlyTheCommitArchives, CommitIsApproved
<1>3. QED
  BY <1>1, <1>2, ConsolidationInitLemma, ConsolidationNextLemma, PTL
     DEF ConsolidationSpec, ConsolidationIsExact, BackupIsExact, AppliedAsApproved

-----------------------------------------------------------------------------
(* ReferencePrices                                                          *)

\* A source was read less than a time ago
ReadWithin(f, t, bound) == f \in DOMAIN lastFetch /\ t - lastFetch[f] < bound

\* How old what a source sent gets: no sleep is longer than the longest, and a fetch of the
\* live source keeps the prices of the code waiting
Patience(f) == Ttl(f) + LongestSleep + (IF f = "static" THEN LongestFetch ELSE 0)

\* A cycle ends with nothing due that was due when it began
CyclesInOrder ==
    /\ collector.phase = "off" => prices = <<>> /\ lastFetch = <<>>
    /\ collector.phase = "fetching" =>
         /\ collector.wake <= priceClock /\ priceClock <= collector.wake + LongestFetch
         /\ \A f \in Fetchers \ collector.running : ReadWithin(f, collector.wake, Ttl(f))
         /\ "live" \notin collector.running => ReadWithin("live", priceClock, LiveTtl)
    /\ collector.phase = "asleep" =>
         /\ priceClock <= collector.wake
         /\ \A f \in Fetchers : ReadWithin(f, collector.wake, Patience(f))

\* The live source never overwrites a price of the code
StaticStamps ==
    "static" \in DOMAIN lastFetch =>
        /\ DOMAIN StaticPrices \subseteq DOMAIN prices
        /\ \A m \in DOMAIN StaticPrices : prices[m].at = lastFetch["static"]

PricesIInv == PricesTypeOK /\ CyclesInOrder /\ StaticStamps /\ HistoryHoldsCurrent /\ OldPricesLeave

LEMMA SleepsAreBounded ==
  LongestSleep \in Nat /\ LongestFetch \in Nat /\ \A j \in Jitters : j \in Nat /\ j > 0 /\ j <= LongestSleep
<1>1. Jitters \in SUBSET Int /\ IsFiniteSet(Jitters) /\ Jitters # {} /\ \A j \in Jitters : j \in Nat /\ j > 0
  BY PricesAssumption
<1>2. QED
  BY <1>1, FiniteGreatest, PricesAssumption DEF LongestSleep

LEMMA TtlsArePositive == \A f \in Fetchers : Ttl(f) \in Nat /\ Ttl(f) > 0
BY PricesAssumption DEF Fetchers, Ttl

LEMMA Overwritten ==
  ASSUME NEW new, NEW old
  PROVE  /\ DOMAIN Over(new, old) = DOMAIN new \union DOMAIN old
         /\ \A k \in DOMAIN new : Over(new, old)[k] = new[k]
         /\ \A k \in DOMAIN old \ DOMAIN new : Over(new, old)[k] = old[k]
BY DEF Over

LEMMA PricesStart == PricesInit => PricesIInv
<1> SUFFICES ASSUME PricesInit PROVE PricesIInv
  OBVIOUS
<1>1. DOMAIN <<>> = {}
  OBVIOUS
<1>2. PICK D \in SUBSET DOMAIN BundledPrices : offered = [m \in D |-> BundledPrices[m]]
  BY DEF PricesInit
<1>3. DOMAIN offered \subseteq DOMAIN BundledPrices /\ \A m \in DOMAIN offered : offered[m] \in Nat
  BY <1>2, PricesAssumption
<1>4. PricesTypeOK
  BY <1>1, <1>3, PricesAssumption DEF PricesInit, PricesTypeOK, Fetchers, Row
<1>5. QED
  BY <1>1, <1>4 DEF PricesInit, PricesIInv, CyclesInOrder, StaticStamps, HistoryHoldsCurrent, OldPricesLeave

LEMMA WakeUpKeeps == ASSUME PricesIInv, WakeUp PROVE PricesIInv'
<1>1. /\ UNCHANGED <<priceClock, offered, prices, lastFetch, priceRows, cycle>> /\ PricesTypeOK
      /\ priceClock \in Nat /\ collector.wake \in Nat
      /\ \A f \in DOMAIN lastFetch : lastFetch[f] \in Nat
      /\ LongestSleep \in Nat /\ LongestFetch \in Nat
  BY SleepsAreBounded, PricesAssumption DEF PricesIInv, PricesTypeOK, WakeUp
<1>2. \A f \in Fetchers \ Due : ReadWithin(f, priceClock, Ttl(f))
  BY <1>1, TtlsArePositive DEF Due, ReadWithin
<1>3. CASE Due # {}
  <2>1. collector' = [phase |-> "fetching", running |-> Due, wake |-> priceClock]
    BY <1>3 DEF WakeUp
  <2>2. PricesTypeOK'
    BY <1>1, <2>1 DEF PricesTypeOK, Due
  <2>3. CyclesInOrder'
    <3>1. "live" \notin Due => ReadWithin("live", priceClock, LiveTtl)
      BY <1>2 DEF Fetchers, Ttl
    <3>2. QED
      BY <1>1, <1>2, <2>1, <3>1 DEF CyclesInOrder, ReadWithin
  <2>4. QED
    BY <1>1, <2>1, <2>2, <2>3 DEF PricesIInv, StaticStamps, HistoryHoldsCurrent, OldPricesLeave
<1>4. CASE Due = {}
  <2>1. PICK j \in Jitters : collector' = Asleep(j)
    BY <1>4 DEF WakeUp
  <2>2. collector' = [phase |-> "asleep", running |-> {}, wake |-> priceClock + j] /\ j \in Nat /\ j > 0
        /\ j <= LongestSleep
    BY <2>1, SleepsAreBounded DEF Asleep
  <2>3. PricesTypeOK'
    BY <1>1, <2>2 DEF PricesTypeOK
  <2>4. ASSUME NEW f \in Fetchers PROVE ReadWithin(f, priceClock + j, Patience(f))
    <3>1. ReadWithin(f, priceClock, Ttl(f)) /\ Ttl(f) \in Nat
      BY <1>2, <1>4, TtlsArePositive
    <3>2. QED
      BY <1>1, <2>2, <3>1 DEF ReadWithin, Patience
  <2>5. CyclesInOrder'
    BY <1>1, <2>2, <2>4 DEF CyclesInOrder, ReadWithin
  <2>6. collector.phase = "asleep"
    <3>1. CASE collector.phase = "off"
      <4>1. lastFetch = <<>> /\ DOMAIN lastFetch = {}
        BY <3>1 DEF PricesIInv, CyclesInOrder
      <4>2. "live" \in Due
        BY <4>1 DEF Due, Fetchers
      <4>3. QED
        BY <1>4, <4>2
    <3>2. QED
      BY <3>1 DEF WakeUp
  <2>7. QED
    BY <1>1, <2>2, <2>3, <2>5, <2>6 DEF PricesIInv, StaticStamps, HistoryHoldsCurrent, OldPricesLeave
<1>5. QED
  BY <1>3, <1>4

(* A source's answer: what it stamps is its own.                             *)
LEMMA StoreKeeps ==
  ASSUME PricesIInv, NEW f \in Fetchers, NEW got, Store(f, got),
         \A m \in DOMAIN got : got[m] \in Nat,
         IF f = "live" THEN DOMAIN got \subseteq DOMAIN BundledPrices ELSE got = StaticPrices
  PROVE  PricesIInv'
<1>1. /\ UNCHANGED <<priceClock, offered, priceRows, cycle>> /\ PricesTypeOK /\ priceClock \in Nat
      /\ f \in collector.running /\ collector' = [collector EXCEPT !.running = @ \ {f}]
      /\ prices' = Over(Stamped(got), prices) /\ lastFetch' = Over([k \in {f} |-> priceClock], lastFetch)
  BY PricesAssumption DEF PricesIInv, PricesTypeOK, Store
<1>2. collector.phase = "fetching" /\ collector'.phase = "fetching"
      /\ collector'.running = collector.running \ {f} /\ collector'.wake = collector.wake
  BY <1>1 DEF PricesTypeOK
<1>3. /\ DOMAIN Stamped(got) = DOMAIN got
      /\ \A m \in DOMAIN got : Stamped(got)[m] = [price |-> got[m], at |-> priceClock]
  BY DEF Stamped
<1>4. /\ DOMAIN prices' = DOMAIN got \union DOMAIN prices
      /\ \A m \in DOMAIN got : prices'[m] = [price |-> got[m], at |-> priceClock]
      /\ \A m \in DOMAIN prices \ DOMAIN got : prices'[m] = prices[m]
  <2> DEFINE new == Stamped(got)
  <2>1. prices' = Over(new, prices) /\ DOMAIN new = DOMAIN got
    BY <1>1, <1>3
  <2>2. \A m \in DOMAIN got : new[m] = [price |-> got[m], at |-> priceClock]
    BY <1>3
  <2> HIDE DEF new
  <2>3. /\ DOMAIN Over(new, prices) = DOMAIN new \union DOMAIN prices
        /\ \A k \in DOMAIN new : Over(new, prices)[k] = new[k]
        /\ \A k \in DOMAIN prices \ DOMAIN new : Over(new, prices)[k] = prices[k]
    BY Overwritten
  <2>4. QED
    BY <2>1, <2>2, <2>3
<1>5. /\ DOMAIN lastFetch' = {f} \union DOMAIN lastFetch /\ lastFetch'[f] = priceClock
      /\ \A g \in DOMAIN lastFetch \ {f} : lastFetch'[g] = lastFetch[g]
  <2> DEFINE new == [k \in {f} |-> priceClock]
  <2>1. DOMAIN new = {f} /\ new[f] = priceClock
    OBVIOUS
  <2> HIDE DEF new
  <2>2. lastFetch' = Over(new, lastFetch)
    BY <1>1 DEF new
  <2>3. /\ DOMAIN Over(new, lastFetch) = DOMAIN new \union DOMAIN lastFetch
        /\ \A k \in DOMAIN new : Over(new, lastFetch)[k] = new[k]
        /\ \A k \in DOMAIN lastFetch \ DOMAIN new : Over(new, lastFetch)[k] = lastFetch[k]
    BY Overwritten
  <2>4. QED
    BY <2>1, <2>2, <2>3
<1>6. DOMAIN got \subseteq DOMAIN Listing
  BY PricesAssumption
<1>7. PricesTypeOK'
  <2>1. \A m \in DOMAIN prices' : prices'[m] \in [price : Nat, at : 0..priceClock]
    BY <1>1, <1>4 DEF PricesTypeOK
  <2>2. \A g \in DOMAIN lastFetch' : lastFetch'[g] \in 0..priceClock
    BY <1>1, <1>5 DEF PricesTypeOK
  <2>3. collector' \in [phase : {"off", "fetching", "asleep"}, running : SUBSET Fetchers, wake : Nat]
    BY <1>1 DEF PricesTypeOK
  <2>4. QED
    BY <1>1, <1>2, <1>4, <1>5, <1>6, <2>1, <2>2, <2>3 DEF PricesTypeOK
<1>8. CyclesInOrder'
  <2>1. ASSUME NEW g \in Fetchers \ collector'.running
        PROVE  g \in DOMAIN lastFetch' /\ collector.wake - lastFetch'[g] < Ttl(g)
    <3>1. CASE g = f
      <4>1. collector.wake \in Nat /\ collector.wake <= priceClock
        BY <1>1, <1>2 DEF PricesTypeOK, PricesIInv, CyclesInOrder
      <4>2. Ttl(f) \in Nat /\ Ttl(f) > 0
        BY TtlsArePositive
      <4>3. QED
        BY <1>1, <1>5, <3>1, <4>1, <4>2
    <3>2. CASE g # f
      <4>1. ReadWithin(g, collector.wake, Ttl(g))
        BY <1>2, <3>2 DEF PricesIInv, CyclesInOrder
      <4>2. QED
        BY <1>5, <3>2, <4>1 DEF ReadWithin
    <3>3. QED
      BY <3>1, <3>2
  <2>2. collector.wake <= priceClock /\ priceClock <= collector.wake + LongestFetch
    BY <1>2 DEF PricesIInv, CyclesInOrder
  <2>3. ASSUME "live" \notin collector'.running
        PROVE  "live" \in DOMAIN lastFetch' /\ priceClock - lastFetch'["live"] < LiveTtl
    <3>1. CASE f = "live"
      BY <1>1, <1>5, <3>1, PricesAssumption
    <3>2. CASE f # "live"
      <4>1. ReadWithin("live", priceClock, LiveTtl)
        BY <1>2, <2>3, <3>2 DEF PricesIInv, CyclesInOrder
      <4>2. QED
        BY <1>5, <3>2, <4>1 DEF ReadWithin
    <3>3. QED
      BY <3>1, <3>2
  <2>4. QED
    BY <1>1, <1>2, <2>1, <2>2, <2>3 DEF CyclesInOrder, ReadWithin
<1>9. StaticStamps'
  <2>1. CASE f = "live"
    <3>1. DOMAIN StaticPrices \intersect DOMAIN got = {}
      BY <2>1, PricesAssumption
    <3>2. QED
      BY <1>4, <1>5, <2>1, <3>1 DEF PricesIInv, StaticStamps
  <2>2. CASE f # "live"
    <3>1. f = "static" /\ got = StaticPrices
      BY <2>2 DEF Fetchers
    <3>2. QED
      BY <1>4, <1>5, <3>1 DEF StaticStamps
  <2>3. QED
    BY <2>1, <2>2
<1>10. QED
  BY <1>2, <1>7, <1>8, <1>9 DEF PricesIInv, HistoryHoldsCurrent, OldPricesLeave

LEMMA EndCycleKeeps == ASSUME PricesIInv, EndCycle PROVE PricesIInv'
<1>1. /\ UNCHANGED <<priceClock, offered, prices, lastFetch>> /\ PricesTypeOK
      /\ priceClock \in Nat /\ priceClock \in 0..MaxPriceTime /\ collector.phase = "fetching" /\ collector.running = {}
      /\ \A f \in DOMAIN lastFetch : lastFetch[f] \in Nat
      /\ LongestSleep \in Nat /\ LongestFetch \in Nat /\ PruneAge \in Nat /\ MaxPriceTime \in Nat
  BY SleepsAreBounded, PricesAssumption DEF PricesIInv, PricesTypeOK, EndCycle
<1>2. PICK saves \in BOOLEAN, prunes \in BOOLEAN, j \in Jitters :
        /\ priceRows' = Written(saves, prunes) /\ collector' = Asleep(j)
        /\ cycle' = [at |-> priceClock, saved |-> saves, pruned |-> prunes]
  BY DEF EndCycle
<1>3. /\ collector' = [phase |-> "asleep", running |-> {}, wake |-> priceClock + j]
      /\ j \in Nat /\ j > 0 /\ j <= LongestSleep
  BY <1>2, SleepsAreBounded DEF Asleep
<1>4. Snapshot(priceRows) \subseteq Row
  BY <1>1 DEF PricesTypeOK, Snapshot, Row
<1>5. /\ Written(saves, prunes) \subseteq Row
      /\ prunes => \A r \in Written(saves, prunes) : r.at >= priceClock - PruneAge
      /\ \A r \in (IF saves THEN Snapshot(priceRows) ELSE {}) :
            r \in Written(saves, prunes) \/ (prunes /\ r.at < priceClock - PruneAge)
  <2>1. \A r \in Row : r.at \in Nat
    BY <1>1 DEF Row
  <2> DEFINE saved == IF saves THEN Snapshot(priceRows) ELSE priceRows
  <2>2. saved \subseteq Row
    BY <1>1, <1>4 DEF PricesTypeOK
  <2>3. \A r \in (IF saves THEN Snapshot(priceRows) ELSE {}) : r \in saved
    BY DEF Snapshot
  <2>4. Written(saves, prunes) = IF prunes THEN Recent(saved) ELSE saved
    BY DEF Written
  <2>5. Recent(saved) = {r \in saved : r.at >= priceClock - PruneAge}
    BY DEF Recent
  <2> HIDE DEF saved
  <2>6. \A r \in saved : (r.at >= priceClock - PruneAge) \/ (r.at < priceClock - PruneAge)
    BY <1>1, <2>1, <2>2
  <2>7. QED
    BY <2>2, <2>3, <2>4, <2>5, <2>6
<1>6. PricesTypeOK'
  BY <1>1, <1>2, <1>3, <1>5 DEF PricesTypeOK
<1>7. CyclesInOrder'
  <2>1. ASSUME NEW f \in Fetchers PROVE ReadWithin(f, priceClock + j, Patience(f))
    <3>1. CASE f = "static"
      <4>1. /\ ReadWithin(f, collector.wake, Ttl(f)) /\ priceClock <= collector.wake + LongestFetch
            /\ collector.wake \in Nat
        BY <1>1 DEF PricesIInv, CyclesInOrder, PricesTypeOK
      <4>2. QED
        BY <1>1, <1>3, <3>1, <4>1, TtlsArePositive DEF ReadWithin, Patience
    <3>2. CASE f = "live"
      <4>1. ReadWithin(f, priceClock, Ttl(f))
        BY <1>1, <3>2 DEF PricesIInv, CyclesInOrder, Ttl
      <4>2. QED
        BY <1>1, <1>3, <3>2, <4>1, TtlsArePositive DEF ReadWithin, Patience
    <3>3. QED
      BY <3>1, <3>2 DEF Fetchers
  <2>2. QED
    BY <1>1, <1>3, <2>1 DEF CyclesInOrder, ReadWithin
<1>8. HistoryHoldsCurrent'
  <2> SUFFICES ASSUME saves, NEW m \in DOMAIN prices
      PROVE  \/ [model |-> m, price |-> prices[m].price, at |-> prices[m].at] \in priceRows'
             \/ prunes /\ prices[m].at < priceClock - PruneAge
    BY <1>1, <1>2 DEF HistoryHoldsCurrent
  <2> DEFINE row == [model |-> m, price |-> prices[m].price, at |-> prices[m].at]
  <2>1. row \in Snapshot(priceRows)
    BY DEF Snapshot
  <2>2. row.at = prices[m].at
    OBVIOUS
  <2> HIDE DEF row
  <2>3. row \in priceRows' \/ (prunes /\ row.at < priceClock - PruneAge)
    BY <1>2, <1>5, <2>1
  <2>4. QED
    BY <2>2, <2>3 DEF row
<1>9. OldPricesLeave'
  BY <1>2, <1>5 DEF OldPricesLeave
<1>10. QED
  BY <1>1, <1>6, <1>7, <1>8, <1>9 DEF PricesIInv, StaticStamps

LEMMA OtherPriceSteps ==
  ASSUME PricesIInv, RestartCollector \/ Reprice \/ PriceTick \/ UNCHANGED priceVars
  PROVE  PricesIInv'
<1>1. CASE RestartCollector
  <2>1. DOMAIN <<>> = {}
    OBVIOUS
  <2>2. PricesTypeOK'
    BY <1>1, <2>1 DEF PricesIInv, PricesTypeOK, RestartCollector
  <2>3. QED
    BY <1>1, <2>1, <2>2
       DEF PricesIInv, RestartCollector, CyclesInOrder, StaticStamps, HistoryHoldsCurrent, OldPricesLeave
<1>2. CASE Reprice
  <2>1. UNCHANGED <<priceClock, collector, prices, lastFetch, priceRows, cycle>>
    BY <1>2 DEF Reprice
  <2>2. PICK m \in DOMAIN BundledPrices :
          \/ \E p \in Prices : offered' = Over([n \in {m} |-> p], offered)
          \/ offered' = [n \in DOMAIN offered \ {m} |-> offered[n]]
    BY <1>2 DEF Reprice
  <2>3. DOMAIN offered \subseteq DOMAIN BundledPrices /\ \A n \in DOMAIN offered : offered[n] \in Nat
    BY DEF PricesIInv, PricesTypeOK
  <2>4. DOMAIN offered' \subseteq DOMAIN BundledPrices /\ \A n \in DOMAIN offered' : offered'[n] \in Nat
    BY <2>2, <2>3, PricesAssumption DEF Over
  <2>5. PricesTypeOK'
    BY <2>1, <2>4 DEF PricesIInv, PricesTypeOK
  <2>6. QED
    BY <2>1, <2>5
       DEF PricesIInv, CyclesInOrder, ReadWithin, StaticStamps, HistoryHoldsCurrent, OldPricesLeave
<1>3. CASE PriceTick
  <2>1. /\ UNCHANGED <<offered, collector, prices, lastFetch, priceRows, cycle>> /\ PricesTypeOK
        /\ priceClock' = priceClock + 1 /\ priceClock < MaxPriceTime /\ priceClock \in Nat
        /\ collector.wake \in Nat /\ MaxPriceTime \in Nat /\ LongestFetch \in Nat
        /\ \/ collector.phase = "asleep" /\ priceClock < collector.wake
           \/ /\ collector.phase = "fetching" /\ collector.running = {"live"}
              /\ priceClock < collector.wake + LongestFetch
    BY <1>3, PricesAssumption DEF PriceTick, PricesIInv, PricesTypeOK
  <2>2. \A x \in 0..priceClock : x \in 0..priceClock'
    BY <2>1
  <2>3. \A m \in DOMAIN prices : prices[m] \in [price : Nat, at : 0..priceClock']
    BY <2>1, <2>2 DEF PricesTypeOK
  <2>4. cycle \in [at : 0..priceClock', saved : BOOLEAN, pruned : BOOLEAN]
    BY <2>1, <2>2 DEF PricesTypeOK
  <2>5. PricesTypeOK'
    BY <2>1, <2>2, <2>3, <2>4 DEF PricesTypeOK
  <2>6. CyclesInOrder'
    BY <2>1 DEF PricesIInv, CyclesInOrder, ReadWithin
  <2>7. QED
    BY <2>1, <2>5, <2>6 DEF PricesIInv, StaticStamps, HistoryHoldsCurrent, OldPricesLeave
<1>4. CASE UNCHANGED priceVars
  BY <1>4 DEF priceVars, PricesIInv, PricesTypeOK, CyclesInOrder, ReadWithin, StaticStamps,
              HistoryHoldsCurrent, OldPricesLeave
<1>5. QED
  BY <1>1, <1>2, <1>3, <1>4

LEMMA PriceSteps == ASSUME PricesIInv, [PricesNext]_priceVars PROVE PricesIInv'
<1>1. CASE FetchStatic
  <2>1. Store("static", StaticPrices) /\ "static" \in Fetchers /\ \A m \in DOMAIN StaticPrices : StaticPrices[m] \in Nat
    BY <1>1, PricesAssumption DEF FetchStatic, Fetchers
  <2>2. QED
    BY <2>1, StoreKeeps
<1>2. CASE FetchLive
  <2>1. /\ Store("live", offered) /\ "live" \in Fetchers
        /\ \A m \in DOMAIN offered : offered[m] \in Nat /\ DOMAIN offered \subseteq DOMAIN BundledPrices
    BY <1>2 DEF FetchLive, Fetchers, PricesIInv, PricesTypeOK
  <2>2. DOMAIN offered \subseteq DOMAIN BundledPrices
    BY DEF PricesIInv, PricesTypeOK
  <2>3. QED
    BY <2>1, <2>2, StoreKeeps
<1>3. CASE FetchBundled
  <2>1. PICK got \in {BundledPrices, <<>>} : Store("live", got)
    BY <1>3 DEF FetchBundled
  <2>2. /\ "live" \in Fetchers /\ DOMAIN got \subseteq DOMAIN BundledPrices /\ DOMAIN <<>> = {}
        /\ \A m \in DOMAIN got : got[m] \in Nat
    BY PricesAssumption DEF Fetchers
  <2>3. QED
    BY <2>1, <2>2, StoreKeeps
<1>4. QED
  BY <1>1, <1>2, <1>3, WakeUpKeeps, EndCycleKeeps, OtherPriceSteps DEF PricesNext

(* No price is older than its time to live, a sleep and, of the code's, a    *)
(* fetch.                                                                    *)
LEMMA RefreshedInTime == ASSUME PricesIInv PROVE PricesAreRefreshed
<1> SUFFICES ASSUME collector.phase = "asleep"
    PROVE  /\ DOMAIN StaticPrices \subseteq DOMAIN prices /\ "live" \in DOMAIN lastFetch
           /\ \A m \in DOMAIN StaticPrices : priceClock - prices[m].at < StaticTtl + LongestSleep + LongestFetch
           /\ priceClock - lastFetch["live"] < LiveTtl + LongestSleep
  BY DEF PricesAreRefreshed
<1>1. /\ priceClock \in Nat /\ collector.wake \in Nat /\ \A f \in DOMAIN lastFetch : lastFetch[f] \in Nat
      /\ LongestSleep \in Nat /\ LongestFetch \in Nat /\ LiveTtl \in Nat /\ StaticTtl \in Nat /\ priceClock <= collector.wake
  BY SleepsAreBounded, PricesAssumption DEF PricesIInv, PricesTypeOK, CyclesInOrder
<1>2. ReadWithin("live", collector.wake, LiveTtl + LongestSleep + 0)
      /\ ReadWithin("static", collector.wake, StaticTtl + LongestSleep + LongestFetch)
  BY DEF PricesIInv, CyclesInOrder, Fetchers, Ttl, Patience
<1>3. priceClock - lastFetch["live"] < LiveTtl + LongestSleep
      /\ priceClock - lastFetch["static"] < StaticTtl + LongestSleep + LongestFetch
  BY <1>1, <1>2 DEF ReadWithin
<1>4. QED
  BY <1>2, <1>3 DEF ReadWithin, PricesIInv, StaticStamps

LEMMA KnownStay ==
  ASSUME [PricesNext]_priceVars, collector'.phase # "off"
  PROVE  DOMAIN prices \subseteq DOMAIN prices'
<1>1. ASSUME NEW f, NEW got, Store(f, got) PROVE DOMAIN prices \subseteq DOMAIN prices'
  <2> DEFINE new == Stamped(got)
  <2>1. prices' = Over(new, prices)
    BY <1>1 DEF Store
  <2>2. DOMAIN Over(new, prices) = DOMAIN new \union DOMAIN prices
    BY Overwritten
  <2> HIDE DEF new
  <2>3. QED
    BY <2>1, <2>2
<1>2. CASE FetchStatic \/ FetchLive \/ FetchBundled
  BY <1>1, <1>2 DEF FetchStatic, FetchLive, FetchBundled
<1>3. CASE ~RestartCollector /\ ~(FetchStatic \/ FetchLive \/ FetchBundled)
  <2>1. prices' = prices
    BY <1>3 DEF PricesNext, WakeUp, EndCycle, Reprice, PriceTick, priceVars
  <2>2. QED
    BY <2>1
<1>4. CASE RestartCollector
  BY <1>4 DEF RestartCollector
<1>5. QED
  BY <1>2, <1>3, <1>4

(* The prices asked by a source of a family.                                 *)
AskedBy(family, source) ==
    IF source = "inference-exchange" THEN ExchangePrices[family]
    ELSE {prices[m].price : m \in {n \in SoldAs(family) : Listing[n].source = source}}

LEMMA CheapestLemma == ASSUME PricesTypeOK PROVE CheapestIsNamed
<1> SUFFICES ASSUME NEW family \in DOMAIN ExchangePrices, SoldAs(family) # {},
                    NEW source \in {Listing[m].source : m \in SoldAs(family)} \union {"inference-exchange"}
    PROVE  Min(AskedBy(family, CheapestSource(family))) <= Min(AskedBy(family, source))
  BY DEF CheapestIsNamed, AskedBy
<1> DEFINE T == SoldAs(family)
           costs == {prices[m].price : m \in T}
           first == CHOOSE m \in T : \A n \in T : Cheaper(m, n)
<1>1. T # {} /\ T \subseteq DOMAIN prices /\ \A m \in T : prices[m].price \in Nat /\ m \in DOMAIN Listing
  BY DEF PricesTypeOK, SoldAs
<1>2. first \in T /\ \A n \in T : prices[first].price <= prices[n].price
  <2>1. costs \in SUBSET Nat /\ costs # {}
    BY <1>1
  <2>2. PICK m \in T : prices[m].price = Min(costs) /\ \A x \in costs : Min(costs) <= x
    <3> HIDE DEF costs
    <3>1. Min(costs) \in costs /\ \A x \in costs : Min(costs) <= x
      BY <2>1, LeastIsThere
    <3>2. QED
      BY <3>1 DEF costs
  <2>3. \A n \in T : prices[n].price \in costs
    OBVIOUS
  <2>4. \A n \in T : Cheaper(m, n)
    BY <2>2, <2>3 DEF Cheaper
  <2> HIDE DEF T, costs
  <2>5. first \in T /\ \A n \in T : Cheaper(first, n)
    BY <2>4
  <2>6. QED
    BY <2>5 DEF Cheaper
<1>3. /\ ExchangePrices[family] \in SUBSET Nat /\ ExchangePrices[family] # {}
      /\ \A m \in T : Listing[m].source # "inference-exchange"
  BY <1>1, PricesAssumption
<1> DEFINE own == Min(ExchangePrices[family])
<1>4. own \in Nat /\ AskedBy(family, "inference-exchange") = ExchangePrices[family]
  BY <1>3, LeastIsThere DEF AskedBy
<1>5. \A m \in T : /\ AskedBy(family, Listing[m].source) = {prices[n].price : n \in {k \in T : Listing[k].source = Listing[m].source}}
                   /\ prices[m].price \in AskedBy(family, Listing[m].source)
                   /\ AskedBy(family, Listing[m].source) \in SUBSET Nat
  BY <1>1, <1>3 DEF AskedBy
<1>6. \A m \in T : /\ \E n \in T : Min(AskedBy(family, Listing[m].source)) = prices[n].price
                   /\ Min(AskedBy(family, Listing[m].source)) <= prices[m].price
  <2> SUFFICES ASSUME NEW m \in T
      PROVE  /\ \E n \in T : Min(AskedBy(family, Listing[m].source)) = prices[n].price
             /\ Min(AskedBy(family, Listing[m].source)) <= prices[m].price
    OBVIOUS
  <2> DEFINE asked == AskedBy(family, Listing[m].source)
  <2>1. asked \in SUBSET Nat /\ prices[m].price \in asked /\ \A x \in asked : \E n \in T : x = prices[n].price
    BY <1>5
  <2> HIDE DEF asked
  <2>2. Min(asked) \in asked /\ \A x \in asked : Min(asked) <= x
    BY <2>1, LeastIsThere
  <2>3. QED
    BY <2>1, <2>2 DEF asked
<1>7. CheapestSource(family) = IF own <= prices[first].price THEN "inference-exchange" ELSE Listing[first].source
  BY DEF CheapestSource
<1>8. Min(AskedBy(family, CheapestSource(family))) <= prices[first].price
      /\ Min(AskedBy(family, CheapestSource(family))) <= own
      /\ Min(AskedBy(family, CheapestSource(family))) \in Nat
  <2> HIDE DEF T, first, own
  <2>1. prices[first].price \in Nat
    BY <1>1, <1>2
  <2>2. PICK n \in T : Min(AskedBy(family, Listing[first].source)) = prices[n].price
    BY <1>2, <1>6
  <2>3. CASE own <= prices[first].price
    BY <1>4, <1>7, <2>1, <2>3 DEF own
  <2>4. CASE ~(own <= prices[first].price)
    BY <1>1, <1>2, <1>4, <1>6, <1>7, <2>1, <2>2, <2>4
  <2>5. QED
    BY <2>3, <2>4
<1>9. CASE source = "inference-exchange"
  BY <1>4, <1>8, <1>9
<1>10. CASE source # "inference-exchange"
  <2>1. PICK m \in T : source = Listing[m].source
    BY <1>10
  <2>2. PICK n \in T : Min(AskedBy(family, source)) = prices[n].price
    BY <1>6, <2>1
  <2> HIDE DEF T, first, own
  <2>3. prices[first].price <= prices[n].price /\ prices[first].price \in Nat /\ prices[n].price \in Nat
    BY <1>1, <1>2
  <2>4. QED
    BY <1>8, <2>2, <2>3
<1>11. QED
  BY <1>9, <1>10

(* What the history shows after the rows of some first times.                *)
Views == UNION {[places -> Row] : places \in SUBSET PlacesOf(Row)}

LEMMA OverwriteView ==
  ASSUME NEW shown \in Views, NEW rows \in SUBSET Row
  PROVE  /\ Overwrite(shown, rows) \in Views
         /\ DOMAIN Overwrite(shown, rows) = PlacesOf(rows) \union DOMAIN shown
         /\ \A p \in PlacesOf(rows) : Overwrite(shown, rows)[p] \in rows
         /\ \A p \in DOMAIN shown \ PlacesOf(rows) : Overwrite(shown, rows)[p] = shown[p]
<1> DEFINE new == [place \in PlacesOf(rows) |-> CHOOSE r \in rows : Listing[r.model].source = place[2]]
           all == Overwrite(shown, rows)
<1>1. DOMAIN new = PlacesOf(rows) /\ \A p \in PlacesOf(rows) : new[p] \in rows
  <2> SUFFICES ASSUME NEW p \in PlacesOf(rows) PROVE new[p] \in rows
    OBVIOUS
  <2>1. PICK r \in rows : p = <<Day(r.at), Listing[r.model].source>>
    BY DEF PlacesOf, PlaceOf
  <2>2. Listing[r.model].source = p[2]
    BY <2>1
  <2>3. QED
    BY <2>2
<1> HIDE DEF new
<1>2. all = Over(new, shown)
  BY DEF Overwrite, new
<1> HIDE DEF all
<1>3. PICK places \in SUBSET PlacesOf(Row) : shown \in [places -> Row]
  BY DEF Views
<1>4. DOMAIN shown = places
  BY <1>3
<1>5. DOMAIN all = DOMAIN new \union DOMAIN shown
      /\ (\A k \in DOMAIN new : all[k] = new[k]) /\ (\A k \in DOMAIN shown \ DOMAIN new : all[k] = shown[k])
  <2>1. /\ DOMAIN Over(new, shown) = DOMAIN new \union DOMAIN shown
        /\ \A k \in DOMAIN new : Over(new, shown)[k] = new[k]
        /\ \A k \in DOMAIN shown \ DOMAIN new : Over(new, shown)[k] = shown[k]
    BY Overwritten
  <2>2. QED
    BY <1>2, <2>1
<1>6. PlacesOf(rows) \subseteq PlacesOf(Row)
  BY DEF PlacesOf
<1>7. all \in [DOMAIN all -> Row]
  <2>1. all = [k \in DOMAIN all |-> all[k]]
    BY <1>2 DEF Over
  <2>2. \A k \in DOMAIN all : all[k] \in Row
    BY <1>1, <1>3, <1>4, <1>5
  <2>3. QED
    BY <2>1, <2>2
<1>8. DOMAIN all \in SUBSET PlacesOf(Row)
  BY <1>1, <1>3, <1>4, <1>5, <1>6
<1>9. all \in Views
  BY <1>7, <1>8 DEF Views
<1>10. QED
  BY <1>1, <1>5, <1>9 DEF all

\* The rows of earlier times have their place, which shows none that is older
ShowsUpTo(shown, family, m) ==
    /\ shown \in Views
    /\ \A r \in priceRows : Listing[r.model].family = family /\ r.at < m =>
         PlaceOf(r) \in DOMAIN shown /\ shown[PlaceOf(r)].at >= r.at

LEMMA ShowsOneMore ==
  ASSUME priceRows \subseteq Row, NEW shown, NEW family, NEW m \in Nat, ShowsUpTo(shown, family, m),
         NEW rows, rows = {r \in priceRows : Listing[r.model].family = family /\ r.at = m}
  PROVE  ShowsUpTo(Overwrite(shown, rows), family, m + 1)
<1> DEFINE all == Overwrite(shown, rows)
<1>1. /\ all \in Views /\ DOMAIN all = PlacesOf(rows) \union DOMAIN shown
      /\ \A p \in PlacesOf(rows) : all[p] \in rows
      /\ \A p \in DOMAIN shown \ PlacesOf(rows) : all[p] = shown[p]
  <2>1. shown \in Views /\ rows \in SUBSET Row
    BY DEF ShowsUpTo
  <2>2. /\ Overwrite(shown, rows) \in Views
        /\ DOMAIN Overwrite(shown, rows) = PlacesOf(rows) \union DOMAIN shown
        /\ \A p \in PlacesOf(rows) : Overwrite(shown, rows)[p] \in rows
        /\ \A p \in DOMAIN shown \ PlacesOf(rows) : Overwrite(shown, rows)[p] = shown[p]
    BY <2>1, OverwriteView
  <2>3. QED
    BY <2>2
<1> HIDE DEF all
<1>2. ASSUME NEW r \in priceRows, Listing[r.model].family = family, r.at < m + 1
      PROVE  PlaceOf(r) \in DOMAIN all /\ all[PlaceOf(r)].at >= r.at
  <2>1. r.at \in Nat /\ \A s \in rows : s.at = m
    BY PricesAssumption DEF Row
  <2>2. r.at = m => PlaceOf(r) \in PlacesOf(rows)
    BY <1>2 DEF PlacesOf
  <2>3. CASE PlaceOf(r) \in PlacesOf(rows)
    <3>1. all[PlaceOf(r)].at = m
      BY <1>1, <2>1, <2>3
    <3>2. QED
      BY <1>1, <1>2, <2>1, <2>3, <3>1
  <2>4. CASE PlaceOf(r) \notin PlacesOf(rows)
    <3>1. r.at < m
      BY <1>2, <2>1, <2>2, <2>4
    <3>2. PlaceOf(r) \in DOMAIN shown /\ shown[PlaceOf(r)].at >= r.at
      BY <1>2, <3>1 DEF ShowsUpTo
    <3>3. QED
      BY <1>1, <2>4, <3>2
  <2>5. QED
    BY <2>3, <2>4
<1>3. QED
  BY <1>1, <1>2 DEF ShowsUpTo, all

LEMMA HistoryUpTo ==
  ASSUME priceRows \subseteq Row, NEW family
  PROVE  ShowsUpTo(History(family), family, MaxPriceTime + 1)
<1> DEFINE n == MaxPriceTime + 1
           rowsAt == RowsAt(family)
           step == [x \in Views \X (1..n) |-> Overwrite(x[1], rowsAt[x[2]])]
           Body(h) == [s \in SUBSET (1..n) |->
                         IF s = {} THEN <<>> ELSE Overwrite(h[s \ {Max(s)}], rowsAt[Max(s)])]
           g == CHOOSE h : h = Body(h)
<1>0. /\ n \in Nat /\ DOMAIN rowsAt = 1..n
      /\ \A i \in 1..n : rowsAt[i] = {r \in priceRows : Listing[r.model].family = family /\ r.at = i - 1}
  BY PricesAssumption DEF RowsAt
<1>1. <<>> \in Views
  <2>1. <<>> \in [{} -> Row]
    OBVIOUS
  <2>2. QED
    BY <2>1 DEF Views
<1>2. step \in [Views \X (1..n) -> Views]
  <2>1. \A i \in 1..n : rowsAt[i] \in SUBSET Row
    BY <1>0
  <2> HIDE DEF n, rowsAt
  <2>2. \A x \in Views \X (1..n) : Overwrite(x[1], rowsAt[x[2]]) \in Views
    BY <2>1, OverwriteView
  <2>3. QED
    BY <2>2
<1>3. \E f : f = Body(f)
  <2> HIDE DEF n, rowsAt
  <2>1. PICK f : IsFold(Views, <<>>, step, n, f)
    <3> HIDE DEF step
    <3>1. QED
      BY <1>0, <1>1, <1>2, FoldExists
  <2>2. \A u \in SUBSET (1..n) : u # {} => Max(u) \in 1..n /\ u \ {Max(u)} \in SUBSET (1..n)
    BY <1>0, Greatest
  <2>3. \A u \in SUBSET (1..n) : u # {} =>
          step[<<f[u \ {Max(u)}], Max(u)>>] = Overwrite(f[u \ {Max(u)}], rowsAt[Max(u)])
    BY <2>1, <2>2 DEF IsFold
  <2> HIDE DEF step
  <2>4. f = Body(f)
    BY <2>1, <2>3 DEF IsFold
  <2>5. QED
    BY <2>4
<1>4. g = Body(g)
  <2> HIDE DEF Body
  <2>1. QED
    BY <1>3
<1>5. History(family) = g[1..n]
  <2> HIDE DEF n
  <2>1. QED
    BY <1>0 DEF History, FoldLeft, MapThenFoldSet
<1> HIDE DEF g
<1>6. g[1..0] = <<>>
  BY <1>0, <1>4, OneMore
<1> DEFINE S == {m \in Nat : m <= n => ShowsUpTo(g[1..m], family, m)}
<1>7. 0 \in S
  <2>1. \A r \in priceRows : ~(r.at < 0)
    BY PricesAssumption DEF Row
  <2>2. QED
    BY <1>1, <1>6, <2>1 DEF ShowsUpTo
<1>8. ASSUME NEW m \in Nat, m \in S PROVE m + 1 \in S
  <2> SUFFICES ASSUME m + 1 <= n PROVE ShowsUpTo(g[1..(m + 1)], family, m + 1)
    OBVIOUS
  <2>1. ShowsUpTo(g[1..m], family, m) /\ m + 1 \in 1..n
    BY <1>0, <1>8
  <2>2. 1..(m + 1) \in SUBSET (1..n)
    BY <1>0
  <2>3. 1..(m + 1) # {} /\ Max(1..(m + 1)) = m + 1 /\ (1..(m + 1)) \ {m + 1} = 1..m
    BY OneMore
  <2> DEFINE all == 1..(m + 1)
  <2> HIDE DEF all, n, rowsAt
  <2>4. g[all] = Overwrite(g[all \ {Max(all)}], rowsAt[Max(all)])
    BY <1>4, <2>2, <2>3 DEF all
  <2>5. g[all] = Overwrite(g[1..m], rowsAt[m + 1])
    BY <2>3, <2>4 DEF all
  <2>6. rowsAt[m + 1] = {r \in priceRows : Listing[r.model].family = family /\ r.at = m}
    BY <1>0, <2>1
  <2>7. ShowsUpTo(Overwrite(g[1..m], rowsAt[m + 1]), family, m + 1)
    BY <2>1, <2>6, ShowsOneMore
  <2>8. QED
    BY <2>5, <2>7 DEF all
<1>9. n \in S
  <2> HIDE DEF S
  <2>1. QED
    BY <1>0, <1>7, <1>8, SetInduction
<1>10. QED
  BY <1>0, <1>5, <1>9

LEMMA HistoryLemma == ASSUME PricesTypeOK PROVE HistoryShowsTheLatest
<1> SUFFICES ASSUME NEW family \in DOMAIN ExchangePrices, NEW r \in priceRows, Listing[r.model].family = family
    PROVE  PlaceOf(r) \in DOMAIN History(family) /\ History(family)[PlaceOf(r)].at >= r.at
  BY DEF HistoryShowsTheLatest
<1>1. priceRows \subseteq Row /\ r.at < MaxPriceTime + 1
  BY PricesAssumption DEF PricesTypeOK, Row
<1>2. ShowsUpTo(History(family), family, MaxPriceTime + 1)
  BY <1>1, HistoryUpTo
<1>3. QED
  BY <1>1, <1>2 DEF ShowsUpTo

(* Cache, table and views of the reference prices agree, stay fresh and stay *)
(* bounded, whatever fails and however long a sleep is.                      *)
THEOREM PricesAlwaysKept == PricesSpec => PricesAreKept
<1>1. PricesInit => PricesIInv
  BY PricesStart
<1>2. PricesIInv /\ [PricesNext]_priceVars => PricesIInv'
  BY PriceSteps
<1>3. PricesIInv => /\ PricesTypeOK /\ HistoryHoldsCurrent /\ OldPricesLeave /\ PricesAreRefreshed
                    /\ HistoryShowsTheLatest /\ CheapestIsNamed
  BY RefreshedInTime, HistoryLemma, CheapestLemma DEF PricesIInv
<1>4. [PricesNext]_priceVars => [collector'.phase # "off" => DOMAIN prices \subseteq DOMAIN prices']_priceVars
  BY KnownStay
<1>5. PricesSpec => []PricesIInv
  BY <1>1, <1>2, PTL DEF PricesSpec
<1>6. PricesSpec => [](/\ PricesTypeOK /\ HistoryHoldsCurrent /\ OldPricesLeave /\ PricesAreRefreshed
                      /\ HistoryShowsTheLatest /\ CheapestIsNamed)
  BY <1>3, <1>5, PTL
<1>7. PricesSpec => [][collector'.phase # "off" => DOMAIN prices \subseteq DOMAIN prices']_priceVars
  BY <1>4, PTL DEF PricesSpec
<1>8. QED
  BY <1>6, <1>7, PTL DEF PricesAreKept, KnownPricesStay

-----------------------------------------------------------------------------
USE DeploymentAssumption

\* The migration of the new release runs.
Migrates == service.state = "starting" /\ service.version = "new"

\* No two credentials have one principal.
Separate(d) ==
    \A a, b \in Credentials : d.principal[a] = d.principal[b] /\ d.principal[a] \in PrincipalIds => a = b

\* m has the rows of d, but for credentials that had no principal yet.
Keeps(d, m) ==
    /\ m.anon = d.anon /\ m.key = d.key
    /\ \A c \in Credentials : d.principal[c] # "unset" => m.principal[c] = d.principal[c]

\* What a migration that is at step n has done.
Progress(d, n) ==
    /\ n >= 2 => "identity" \in d.cols
    /\ n >= 3 => "billing" \in d.cols
    /\ n >= 4 => Unassigned(d) = {}
    /\ n >= 5 => "connection" \in d.cols
    /\ n >= 7 => "cache" \in d.cols
    /\ n >= 8 => d.anon

\* The database, the open transaction and the process.
MigrationIInv ==
    /\ db \in Database /\ pending \in Database \cup {NoChange}
    /\ service \in [version : {"old", "new"}, state : {"down", "starting", "serving"}, step : 1..Len(Steps)]
    /\ Separate(db) /\ Separate(Seen) /\ Keeps(db, Seen)
    /\ pending # NoChange => Migrates /\ service.step \in {4, 5}
    /\ Migrates => Progress(Seen, service.step)
    /\ ServesMigrated

\* Nothing is migrated before there is a backup.
HasBackup == \E b \in backups : b.cols = before.cols
BackupInv ==
    \/ HasBackup
    \/ /\ db.cols = before.cols /\ launcher = "old" /\ service.version = "old"
       /\ deployer.read = "old" /\ deployer.stage \in Idle \cup {"prepared"}

\* What the script has done to the launcher and the service.
StageInv ==
    /\ deployer.stage = "written" => launcher = "new"
    /\ deployer.stage = "kicked" => launcher = "new" /\ service.version = "new"
    /\ deployer.stage = "restored" => launcher = deployer.read

\* A rehearsal passes only with the anonymous account and with a principal for
\* every credential, and these stay.
RehearsedInv ==
    \A d \in rehearsed :
        /\ d.anon /\ db.anon /\ "billing" \in d.cols
        /\ \A c \in Credentials : d.principal[c] # "absent" =>
             d.principal[c] \in PrincipalIds /\ db.principal[c] = d.principal[c]

DeploymentIInv == DeploymentTypeOK /\ MigrationIInv /\ BackupInv /\ StageInv /\ RehearsedInv

LEMMA StepNumbers ==
    /\ Len(Steps) = 8
    /\ \A n \in 1..8 : /\ Steps[n] = "identity" => n = 1
                       /\ Steps[n] = "billing" => n = 2
                       /\ Steps[n] = "principals" => n = 3
                       /\ Steps[n] = "connection" => n = 4
                       /\ Steps[n] = "commit" => n = 5
                       /\ Steps[n] = "cache" => n = 6
                       /\ Steps[n] = "account" => n = 7
                       /\ Steps[n] = "key" => n = 8
BY DEF Steps

LEMMA ColumnsAre == AllColumns = {"identity", "billing", "connection", "cache"}
<1>1. Len(Columns) = 4 /\ DOMAIN Columns = 1..4
  BY DEF Columns
<1>2. /\ Columns[1] = "identity" /\ Columns[2] = "billing"
      /\ Columns[3] = "connection" /\ Columns[4] = "cache"
  BY DEF Columns
<1>3. 1..4 = {1, 2, 3, 4}
  OBVIOUS
<1>4. QED
  BY <1>1, <1>2, <1>3 DEF AllColumns

LEMMA TypesOfDatabase ==
    ASSUME NEW d \in Database
    PROVE  /\ d # NoChange
           /\ d.cols \in SUBSET AllColumns /\ d.anon \in BOOLEAN /\ d.key \in KeyIds \cup {"none"}
           /\ d.principal \in [Credentials -> PrincipalIds \cup {"unset", "absent"}]
<1>1. DOMAIN d = {"cols", "principal", "anon", "key"}
  BY DEF Database
<1>2. DOMAIN NoChange = {"cols"}
  BY DEF NoChange
<1>3. d # NoChange
  BY <1>1, <1>2
<1>4. QED
  BY <1>3 DEF Database

\* An assignment gives every credential without a principal one of its own
\* (_migrate), and touches nothing else.
LEMMA AssignmentLemma ==
    ASSUME NEW d \in Database, NEW m \in Assignments(d), Separate(d)
    PROVE  /\ m \in Database /\ m.cols = d.cols /\ Keeps(d, m)
           /\ Unassigned(m) = {} /\ Separate(m)
<1>1. PICK f \in [Unassigned(d) -> Fresh(d)] :
        /\ \A a, b \in Unassigned(d) : f[a] = f[b] => a = b
        /\ m = [d EXCEPT !.principal =
                  [c \in Credentials |-> IF c \in Unassigned(d) THEN f[c] ELSE d.principal[c]]]
  BY DEF Assignments
<1> DEFINE p == [c \in Credentials |-> IF c \in Unassigned(d) THEN f[c] ELSE d.principal[c]]
<1>2. /\ \A c \in Unassigned(d) : c \in Credentials /\ d.principal[c] = "unset" /\ p[c] = f[c]
      /\ \A c \in Credentials \ Unassigned(d) : d.principal[c] # "unset" /\ p[c] = d.principal[c]
  BY DEF Unassigned
<1>3. /\ \A c \in Unassigned(d) : f[c] \in PrincipalIds /\ \A b \in Credentials : f[c] # d.principal[b]
      /\ \A c \in Credentials : d.principal[c] \in PrincipalIds \cup {"unset", "absent"}
  BY TypesOfDatabase DEF Fresh
<1>4. p \in [Credentials -> PrincipalIds \cup {"unset", "absent"}]
  BY <1>2, <1>3
<1>5. m = [d EXCEPT !.principal = p]
  BY <1>1
<1> HIDE DEF p
<1>6. m \in Database /\ m.cols = d.cols /\ m.anon = d.anon /\ m.key = d.key /\ m.principal = p
  BY <1>4, <1>5 DEF Database
<1>7. \A c \in Credentials : p[c] # "unset"
  BY <1>2, <1>3
<1>8. ASSUME NEW a \in Credentials, NEW b \in Credentials, p[a] = p[b], p[a] \in PrincipalIds PROVE a = b
  BY <1>1, <1>2, <1>3, <1>8 DEF Separate
<1>9. QED
  BY <1>2, <1>6, <1>7, <1>8 DEF Keeps, Unassigned, Separate

LEMMA MigrationStart == ASSUME DeploymentInit PROVE DeploymentIInv
<1>1. /\ before \in [cols : Schemas, route : BOOLEAN, production : BOOLEAN]
      /\ pending = NoChange
      /\ service = [version |-> "old", state |-> "serving", step |-> 1]
      /\ launcher = "old" /\ deployer = [stage |-> "idle", read |-> "old"]
      /\ backups = {} /\ rehearsed = {} /\ runs = 0 /\ stops = 0
  BY DEF DeploymentInit
<1>2. PICK anon \in BOOLEAN, key \in {"none"} \cup KeyIds, issued \in SUBSET Credentials :
        \E p \in [Credentials -> PrincipalIds \cup {"unset", "absent"}] :
           /\ \A c \in Credentials :
                IF c \notin issued THEN p[c] = "absent"
                ELSE IF "billing" \in before.cols THEN p[c] \in PrincipalIds ELSE p[c] = "unset"
           /\ \A a, b \in issued : "billing" \in before.cols /\ p[a] = p[b] => a = b
           /\ db = [cols |-> before.cols, principal |-> p, anon |-> anon, key |-> key]
  BY DEF DeploymentInit
<1>3. PICK p \in [Credentials -> PrincipalIds \cup {"unset", "absent"}] :
           /\ \A c \in Credentials :
                IF c \notin issued THEN p[c] = "absent"
                ELSE IF "billing" \in before.cols THEN p[c] \in PrincipalIds ELSE p[c] = "unset"
           /\ \A a, b \in issued : "billing" \in before.cols /\ p[a] = p[b] => a = b
           /\ db = [cols |-> before.cols, principal |-> p, anon |-> anon, key |-> key]
  BY <1>2
<1>4. before.cols \in SUBSET AllColumns
  BY <1>1 DEF Schemas, AllColumns
<1>5. db \in Database /\ db.cols = before.cols /\ db.principal = p
  BY <1>3, <1>4 DEF Database
<1>6. "unset" \notin PrincipalIds /\ "absent" \notin PrincipalIds
  OBVIOUS
<1>7. Separate(db)
  BY <1>3, <1>5, <1>6 DEF Separate
<1>8. Seen = db /\ Keeps(db, db) /\ 1 \in 1..Len(Steps)
  BY <1>1, StepNumbers DEF Seen, Keeps
<1>9. DeploymentTypeOK
  BY <1>1, <1>5, <1>8 DEF DeploymentTypeOK, Idle
<1>10. MigrationIInv
  BY <1>1, <1>5, <1>7, <1>8 DEF MigrationIInv, Migrates, ServesMigrated
<1>11. BackupInv /\ StageInv /\ RehearsedInv
  BY <1>1, <1>5 DEF BackupInv, StageInv, RehearsedInv, Idle
<1>12. QED
  BY <1>9, <1>10, <1>11 DEF DeploymentIInv

\* What no step undoes in the committed database.
DbGoesOn ==
    /\ \A c \in Credentials : db.principal[c] \in PrincipalIds => db'.principal[c] = db.principal[c]
    /\ db.key # "none" => db'.key = db.key
    /\ db.anon => db'.anon
    /\ db'.cols # db.cols => service.version = "new"

\* A step that leaves the database and stops, starts or keeps the process.
LEMMA ProcessChanges ==
    ASSUME MigrationIInv, db' = db, pending' = NoChange,
           service' \in [version : {"old", "new"}, state : {"down", "starting", "serving"}, step : 1..Len(Steps)],
           service'.state = "starting" => service'.step = 1,
           service'.state = "serving" => service'.version = "old"
    PROVE  MigrationIInv' /\ DbGoesOn
<1>1. db' \in Database /\ Separate(db') /\ Seen' = db'
  BY DEF MigrationIInv, Seen
<1>2. Keeps(db', db') /\ (service'.step = 1 => Progress(db', service'.step))
  BY DEF Keeps, Progress
<1>3. MigrationIInv'
  BY <1>1, <1>2 DEF MigrationIInv, Migrates, ServesMigrated, Separate, Keeps, Progress, Unassigned
<1>4. QED
  BY <1>3 DEF DbGoesOn

\* A step of the migration, by what it makes of the database it sees.
LEMMA MigrationGoesOn ==
    ASSUME MigrationIInv, Migrates, NextStep,
           db' \in Database, pending' \in Database \cup {NoChange},
           Separate(db'), Separate(Seen'), Keeps(db', Seen'),
           pending' # NoChange => service.step + 1 \in {4, 5},
           Progress(Seen', service.step + 1)
    PROVE  MigrationIInv'
<1>1. service.step \in 1..8 /\ Len(Steps) = 8
  BY StepNumbers DEF MigrationIInv
<1>2. /\ service \in [version : {"old", "new"}, state : {"down", "starting", "serving"}, step : 1..Len(Steps)]
      /\ service.state = "starting" /\ service.version = "new"
  BY DEF MigrationIInv, Migrates
<1>3. CASE service.step = 8
  <2>1. service' = [service EXCEPT !.state = "serving", !.step = 1]
    BY <1>1, <1>3 DEF NextStep
  <2>2. /\ service' \in [version : {"old", "new"}, state : {"down", "starting", "serving"}, step : 1..Len(Steps)]
        /\ service'.state = "serving"
    <3>1. service \in [version : {"old", "new"}, state : {"down", "starting", "serving"}, step : 1..8]
      BY <1>1, <1>2
    <3>2. /\ service' \in [version : {"old", "new"}, state : {"down", "starting", "serving"}, step : 1..8]
          /\ service'.state = "serving"
      <4> DEFINE first == [service EXCEPT !.state = "serving"]
      <4>1. first \in [version : {"old", "new"}, state : {"down", "starting", "serving"}, step : 1..8] /\ first.state = "serving"
        BY <3>1
      <4>2. service' = [first EXCEPT !.step = 1]
        BY <2>1
      <4>3. 1 \in 1..8
        OBVIOUS
      <4> HIDE DEF first
      <4>4. QED
        BY <4>1, <4>2, <4>3
    <3>3. QED
      BY <1>1, <3>2
  <2>3. pending' = NoChange /\ Seen' = db'
    BY <1>3 DEF Seen
  <2>4. db'.cols = AllColumns /\ Unassigned(db') = {} /\ db'.anon
    <3>1. Progress(db', 9)
      BY <1>3, <2>3
    <3>2. db'.cols \in SUBSET AllColumns
      BY TypesOfDatabase
    <3>3. QED
      BY <3>1, <3>2, ColumnsAre DEF Progress
  <2>5. ServesMigrated'
    BY <2>3, <2>4 DEF ServesMigrated, Unassigned
  <2>6. ~Migrates' /\ (pending # NoChange => Migrates /\ service.step \in {4, 5})'
    BY <2>2, <2>3 DEF Migrates
  <2>7. Separate(db)' /\ Separate(Seen)' /\ Keeps(db, Seen)'
    BY <2>3 DEF Separate, Keeps
  <2>8. QED
    BY <2>2, <2>5, <2>6, <2>7 DEF MigrationIInv
<1>4. CASE service.step # 8
  <2>1. service' = [service EXCEPT !.step = service.step + 1]
    BY <1>1, <1>4 DEF NextStep
  <2>2. /\ service' \in [version : {"old", "new"}, state : {"down", "starting", "serving"}, step : 1..Len(Steps)]
        /\ service'.state = "starting" /\ service'.version = "new" /\ service'.step = service.step + 1
    BY <1>1, <1>2, <1>4, <2>1
  <2>3. Migrates' /\ ServesMigrated'
    BY <2>2 DEF Migrates, ServesMigrated
  <2>4. Separate(db)' /\ Separate(Seen)' /\ Keeps(db, Seen)'
    BY DEF Separate, Keeps
  <2>5. Progress(Seen, service.step)'
    BY <2>2 DEF Progress, Unassigned
  <2>6. (pending # NoChange => Migrates /\ service.step \in {4, 5})'
    BY <2>2, <2>3
  <2>7. QED
    BY <2>2, <2>3, <2>4, <2>5, <2>6 DEF MigrationIInv
<1>5. QED
  BY <1>3, <1>4

\* A column more changes nothing but the columns.
LEMMA ColumnAdded ==
    ASSUME NEW d \in Database, NEW c \in AllColumns, NEW m, m = [d EXCEPT !.cols = @ \cup {c}]
    PROVE  /\ m \in Database /\ m.cols = d.cols \cup {c} /\ m.principal = d.principal
           /\ m.anon = d.anon /\ m.key = d.key
           /\ (Separate(d) => Separate(m)) /\ Unassigned(m) = Unassigned(d)
<1>1. /\ m \in Database /\ m.cols = d.cols \cup {c} /\ m.principal = d.principal
      /\ m.anon = d.anon /\ m.key = d.key
  BY DEF Database
<1>2. QED
  BY <1>1 DEF Separate, Unassigned

LEMMA ColumnProgress ==
    ASSUME NEW n \in {1, 2, 4, 6}, NEW d, NEW m, Progress(d, n),
           m.cols = d.cols \cup {Steps[n]}, Unassigned(m) = Unassigned(d)
    PROVE  Progress(m, n + 1)
<1>1. /\ Steps[1] = "identity" /\ Steps[2] = "billing" /\ Steps[4] = "connection" /\ Steps[6] = "cache"
  BY DEF Steps
<1>2. CASE n = 1
  BY <1>1, <1>2 DEF Progress
<1>3. CASE n = 2
  BY <1>1, <1>3 DEF Progress
<1>4. CASE n = 4
  BY <1>1, <1>4 DEF Progress
<1>5. CASE n = 6
  BY <1>1, <1>5 DEF Progress
<1>6. QED
  BY <1>2, <1>3, <1>4, <1>5

LEMMA AddColumnKeeps ==
    ASSUME MigrationIInv, NEW c \in AllColumns, AddColumn(c)
    PROVE  MigrationIInv' /\ DbGoesOn
<1>1. Migrates /\ NextStep /\ Steps[service.step] = c /\ service.step \in 1..8
  BY StepNumbers DEF AddColumn, AtStep, Migrates, MigrationIInv
<1>2. /\ c = "identity" => service.step = 1
      /\ c = "billing" => service.step = 2
      /\ c = "connection" => service.step = 4
      /\ c = "cache" => service.step = 6
      /\ service.step \in {1, 2, 4, 6}
  BY <1>1, StepNumbers, ColumnsAre
<1>3. /\ db \in Database /\ pending \in Database \cup {NoChange}
      /\ Separate(db) /\ Separate(Seen) /\ Keeps(db, Seen) /\ Progress(Seen, service.step)
      /\ pending # NoChange => service.step \in {4, 5}
  BY <1>1 DEF MigrationIInv
<1>4. Seen \in Database
  BY <1>3 DEF Seen
<1>5. Seen' = [Seen EXCEPT !.cols = @ \cup {c}] /\ (pending = NoChange <=> pending' = NoChange)
      /\ db' \in Database /\ pending' \in Database \cup {NoChange}
      /\ Separate(db') /\ db'.principal = db.principal /\ db'.key = db.key /\ db'.anon = db.anon
  <2>1. CASE pending = NoChange
    <3>1. db' = [db EXCEPT !.cols = @ \cup {c}] /\ pending' = NoChange
      BY <2>1 DEF AddColumn
    <3>2. Seen = db /\ Seen' = db'
      BY <2>1, <3>1 DEF Seen
    <3>3. db' \in Database /\ db'.principal = db.principal /\ db'.key = db.key /\ db'.anon = db.anon /\ Separate(db')
      BY <1>3, <3>1, ColumnAdded
    <3>4. QED
      BY <2>1, <3>1, <3>2, <3>3
  <2>2. CASE pending # NoChange
    <3>1. pending' = [pending EXCEPT !.cols = @ \cup {c}] /\ db' = db
      BY <2>2 DEF AddColumn
    <3>2. pending \in Database /\ pending' \in Database
      BY <1>3, <2>2, <3>1, ColumnAdded
    <3>3. pending' # NoChange
      BY <3>2, TypesOfDatabase
    <3>4. Seen = pending /\ Seen' = pending'
      BY <2>2, <3>3 DEF Seen
    <3>5. QED
      BY <1>3, <2>2, <3>1, <3>2, <3>3, <3>4
  <2>3. QED
    BY <2>1, <2>2
<1>6. /\ Seen'.cols = Seen.cols \cup {c} /\ Seen'.principal = Seen.principal
      /\ Seen'.anon = Seen.anon /\ Seen'.key = Seen.key /\ Separate(Seen') /\ Unassigned(Seen') = Unassigned(Seen)
  BY <1>3, <1>4, <1>5, ColumnAdded
<1>7. Keeps(db', Seen')
  BY <1>3, <1>5, <1>6 DEF Keeps
<1>8. pending' # NoChange => service.step + 1 \in {4, 5}
  BY <1>2, <1>3, <1>5
<1>9. Progress(Seen', service.step + 1)
  <2>1. Steps[service.step] = c /\ service.step \in {1, 2, 4, 6}
    BY <1>1, <1>2
  <2>2. c \in AllColumns /\ Progress(Seen, service.step)
    BY <1>3
  <2> HIDE DEF Seen
  <2>3. QED
    BY <1>6, <2>1, <2>2, ColumnProgress
<1>10. MigrationIInv'
  BY <1>1, <1>5, <1>6, <1>7, <1>8, <1>9, MigrationGoesOn
<1>11. DbGoesOn
  BY <1>1, <1>5 DEF DbGoesOn, Migrates
<1>12. QED
  BY <1>10, <1>11

LEMMA AssignPrincipalsKeeps ==
    ASSUME MigrationIInv, AssignPrincipals
    PROVE  MigrationIInv' /\ DbGoesOn
<1>1. Migrates /\ NextStep /\ service.step = 3 /\ db' = db
  BY StepNumbers DEF AssignPrincipals, AtStep, Migrates, MigrationIInv
<1>2. /\ db \in Database /\ Separate(db) /\ pending = NoChange /\ Progress(Seen, 3)
  BY <1>1 DEF MigrationIInv
<1>3. Seen = db
  BY <1>2 DEF Seen
<1>4. /\ pending' \in Database \cup {NoChange}
      /\ Separate(Seen') /\ Keeps(db, Seen') /\ Unassigned(Seen') = {} /\ Seen'.cols = db.cols
  <2>1. CASE Unassigned(db) = {}
    <3>1. pending' = NoChange /\ Seen' = db
      BY <1>1, <1>2, <2>1 DEF AssignPrincipals, Seen
    <3>2. QED
      BY <1>2, <2>1, <3>1 DEF Keeps
  <2>2. CASE Unassigned(db) # {}
    <3>1. pending' \in Assignments(db)
      BY <2>2 DEF AssignPrincipals
    <3>2. /\ pending' \in Database /\ pending'.cols = db.cols /\ Keeps(db, pending')
          /\ Unassigned(pending') = {} /\ Separate(pending')
      BY <1>2, <3>1, AssignmentLemma
    <3>3. Seen' = pending'
      BY <3>2, TypesOfDatabase DEF Seen
    <3>4. QED
      BY <3>2, <3>3
  <2>3. QED
    BY <2>1, <2>2
<1>5. Progress(Seen', service.step + 1)
  BY <1>1, <1>2, <1>3, <1>4 DEF Progress
<1>6. MigrationIInv'
  BY <1>1, <1>2, <1>4, <1>5, MigrationGoesOn
<1>7. DbGoesOn
  BY <1>1 DEF DbGoesOn
<1>8. QED
  BY <1>6, <1>7

LEMMA CommitMigrationKeeps ==
    ASSUME MigrationIInv, CommitMigration
    PROVE  MigrationIInv' /\ DbGoesOn
<1>1. Migrates /\ NextStep /\ service.step = 5 /\ db' = Seen /\ pending' = NoChange
  BY StepNumbers DEF CommitMigration, AtStep, Migrates, MigrationIInv
<1>2. Seen \in Database /\ Separate(Seen) /\ Keeps(db, Seen) /\ Progress(Seen, 5)
  BY <1>1 DEF MigrationIInv, Seen
<1>3. Seen' = Seen
  BY <1>1 DEF Seen
<1>4. Keeps(Seen, Seen) /\ Progress(Seen, service.step + 1)
  BY <1>1, <1>2 DEF Keeps, Progress
<1>5. MigrationIInv'
  BY <1>1, <1>2, <1>3, <1>4, MigrationGoesOn
<1>6. DbGoesOn
  BY <1>1, <1>2 DEF DbGoesOn, Keeps, Migrates
<1>7. QED
  BY <1>5, <1>6

\* After the commit the database is what the migration sees.
LEMMA LastSteps ==
    ASSUME MigrationIInv, Migrates, NextStep, service.step \in {7, 8}, UNCHANGED pending,
           db' \in Database, db'.cols = db.cols, db'.principal = db.principal,
           db.anon \/ service.step = 7 => db'.anon, db.key # "none" => db'.key = db.key
    PROVE  MigrationIInv' /\ DbGoesOn
<1>1. pending = NoChange /\ pending' = NoChange /\ Seen = db /\ Seen' = db'
  BY DEF MigrationIInv, Seen
<1>2. Separate(db) /\ Progress(db, service.step)
  BY <1>1 DEF MigrationIInv
<1>3. Separate(db') /\ Keeps(db', db') /\ Unassigned(db') = Unassigned(db)
  BY <1>2 DEF Separate, Keeps, Unassigned
<1>4. Progress(db', service.step + 1)
  BY <1>2, <1>3 DEF Progress
<1>5. MigrationIInv'
  BY <1>1, <1>3, <1>4, MigrationGoesOn
<1>6. QED
  BY <1>5 DEF DbGoesOn

LEMMA AccountAndKeyKeep ==
    ASSUME MigrationIInv, EnsureAccount \/ EnsureDefaultKey
    PROVE  MigrationIInv' /\ DbGoesOn
<1>1. Migrates /\ NextStep /\ UNCHANGED pending /\ db \in Database /\ service.step \in 1..8
  BY StepNumbers DEF EnsureAccount, EnsureDefaultKey, AtStep, Migrates, MigrationIInv
<1>2. CASE EnsureAccount
  <2>1. service.step = 7 /\ db' = [db EXCEPT !.anon = TRUE]
    BY <1>1, <1>2, StepNumbers DEF EnsureAccount, AtStep
  <2>2. /\ db' \in Database /\ db'.cols = db.cols /\ db'.principal = db.principal
        /\ db'.anon /\ db'.key = db.key
    BY <1>1, <2>1 DEF Database
  <2>3. QED
    BY <1>1, <2>1, <2>2, LastSteps
<1>3. CASE EnsureDefaultKey
  <2>1. service.step = 8
    BY <1>1, <1>3, StepNumbers DEF EnsureDefaultKey, AtStep
  <2>2. db' = db \/ (db.key = "none" /\ \E k \in KeyIds : db' = [db EXCEPT !.key = k])
    BY <1>3 DEF EnsureDefaultKey
  <2>3. /\ db' \in Database /\ db'.cols = db.cols /\ db'.principal = db.principal
        /\ db'.anon = db.anon /\ (db.key # "none" => db'.key = db.key)
    BY <1>1, <2>2 DEF Database
  <2>4. QED
    BY <1>1, <2>1, <2>3, LastSteps
<1>4. QED
  BY <1>2, <1>3

LEMMA IssueKeeps ==
    ASSUME MigrationIInv, NEW c \in Credentials, Issue(c)
    PROVE  MigrationIInv' /\ DbGoesOn
<1>1. /\ db \in Database /\ Separate(db) /\ pending = NoChange /\ pending' = NoChange /\ service' = service
      /\ service.state = "serving" /\ db.principal[c] = "absent"
  BY DEF Issue, MigrationIInv, Migrates
<1>2. PICK p \in Fresh(db) \cup {"unset"} :
        db' = [db EXCEPT !.principal[c] = p] /\ (service.version = "new" => p \in Fresh(db))
  <2>1. CASE service.version = "new" \/ "billing" \in before.cols
    BY <2>1 DEF Issue
  <2>2. CASE ~(service.version = "new" \/ "billing" \in before.cols)
    BY <2>2 DEF Issue
  <2>3. QED
    BY <2>1, <2>2
<1>3. db.principal \in [Credentials -> PrincipalIds \cup {"unset", "absent"}]
  BY <1>1, TypesOfDatabase
<1>4. /\ p \in PrincipalIds \cup {"unset"}
      /\ p \in PrincipalIds => \A b \in Credentials : p # db.principal[b]
  BY <1>2 DEF Fresh
<1>5. /\ db' \in Database /\ db'.cols = db.cols /\ db'.anon = db.anon /\ db'.key = db.key
      /\ db'.principal = [db.principal EXCEPT ![c] = p]
  BY <1>1, <1>2, <1>3, <1>4 DEF Database
<1>6. /\ db'.principal[c] = p
      /\ \A b \in Credentials : b # c => db'.principal[b] = db.principal[b]
  BY <1>3, <1>5
<1>7. Separate(db')
  BY <1>1, <1>4, <1>6 DEF Separate
<1>8. Seen' = db' /\ Keeps(db', db')
  BY <1>1 DEF Seen, Keeps
<1>9. ServesMigrated'
  <2> SUFFICES ASSUME service.version = "new"
               PROVE  db'.cols = AllColumns /\ Unassigned(db') = {} /\ db'.anon
    BY <1>1 DEF ServesMigrated, Unassigned
  <2>1. db.cols = AllColumns /\ Unassigned(db) = {} /\ db.anon
    BY <1>1 DEF MigrationIInv, ServesMigrated
  <2>2. p # "unset"
    BY <1>2 DEF Fresh
  <2>3. QED
    BY <1>5, <1>6, <2>1, <2>2 DEF Unassigned
<1>10. Separate(db)' /\ Separate(Seen)' /\ Keeps(db, Seen)'
  BY <1>7, <1>8 DEF Separate, Keeps
<1>11. MigrationIInv'
  BY <1>1, <1>5, <1>9, <1>10 DEF MigrationIInv, Migrates
<1>12. DbGoesOn
  BY <1>1, <1>5, <1>6 DEF DbGoesOn
<1>13. QED
  BY <1>11, <1>12

\* What the steps of the process, the migration and the coordinator leave alone.
ServiceStep ==
    /\ UNCHANGED <<launcher, deployer, backups, rehearsed, before, runs>>
    /\ service'.version \in {service.version, launcher}
    /\ stops' \in 0..MaxStops

\* What the steps of the two scripts leave alone.
ScriptStep ==
    /\ UNCHANGED <<db, before>>
    /\ \/ UNCHANGED <<pending, service>>
       \/ pending' = NoChange /\ service' = Process

LEMMA ServiceSteps ==
    ASSUME DeploymentIInv, Migrating \/ Launch \/ Stop \/ \E c \in Credentials : Issue(c)
    PROVE  MigrationIInv' /\ DbGoesOn /\ ServiceStep
<1>1. /\ service \in [version : {"old", "new"}, state : {"down", "starting", "serving"}, step : 1..Len(Steps)]
      /\ pending # NoChange => Migrates
      /\ MigrationIInv /\ launcher \in {"old", "new"} /\ stops \in 0..MaxStops
      /\ 1 \in 1..Len(Steps)
  BY StepNumbers DEF DeploymentIInv, MigrationIInv, DeploymentTypeOK
<1>2. ASSUME NEW c \in AllColumns, AddColumn(c) PROVE MigrationIInv' /\ DbGoesOn /\ ServiceStep
  <2>1. MigrationOnly /\ NextStep
    BY <1>2 DEF AddColumn
  <2>2. ServiceStep
    BY <1>1, <2>1 DEF MigrationOnly, NextStep, ServiceStep
  <2>3. QED
    BY <1>1, <1>2, <2>2, AddColumnKeeps
<1>3. ASSUME AssignPrincipals \/ CommitMigration \/ EnsureAccount \/ EnsureDefaultKey
      PROVE  MigrationIInv' /\ DbGoesOn /\ ServiceStep
  <2>1. MigrationOnly /\ NextStep
    BY <1>3 DEF AssignPrincipals, CommitMigration, EnsureAccount, EnsureDefaultKey
  <2>2. ServiceStep
    BY <1>1, <2>1 DEF MigrationOnly, NextStep, ServiceStep
  <2>3. QED
    BY <1>1, <1>3, <2>2, AssignPrincipalsKeeps, CommitMigrationKeeps, AccountAndKeyKeep
<1>4. ASSUME OldStarts PROVE MigrationIInv' /\ DbGoesOn /\ ServiceStep
  <2>1. /\ service.state = "starting" /\ service.version = "old" /\ db' = db /\ pending' = pending
        /\ service' = [service EXCEPT !.state = "serving"]
        /\ UNCHANGED <<launcher, deployer, backups, rehearsed, before, runs, stops>>
    BY <1>4 DEF OldStarts
  <2>2. /\ service' \in [version : {"old", "new"}, state : {"down", "starting", "serving"}, step : 1..Len(Steps)]
        /\ service'.state = "serving" /\ service'.version = "old"
    BY <1>1, <2>1
  <2>3. pending' = NoChange
    BY <1>1, <2>1 DEF Migrates
  <2>4. ServiceStep
    BY <1>1, <2>1, <2>2 DEF ServiceStep
  <2>5. QED
    BY <1>1, <2>1, <2>2, <2>3, <2>4, ProcessChanges
<1>5. ASSUME Launch PROVE MigrationIInv' /\ DbGoesOn /\ ServiceStep
  <2>1. /\ service.state = "down" /\ service' = Process /\ db' = db /\ pending' = pending
        /\ UNCHANGED <<launcher, deployer, backups, rehearsed, before, runs, stops>>
    BY <1>5 DEF Launch
  <2>2. /\ service' \in [version : {"old", "new"}, state : {"down", "starting", "serving"}, step : 1..Len(Steps)]
        /\ service'.state = "starting" /\ service'.step = 1 /\ service'.version = launcher
    BY <1>1, <2>1 DEF Process
  <2>3. pending' = NoChange
    BY <1>1, <2>1 DEF Migrates
  <2>4. ServiceStep
    BY <1>1, <2>1, <2>2 DEF ServiceStep
  <2>5. QED
    BY <1>1, <2>1, <2>2, <2>3, <2>4, ProcessChanges
<1>6. ASSUME Stop PROVE MigrationIInv' /\ DbGoesOn /\ ServiceStep
  <2>1. /\ service' = [service EXCEPT !.state = "down", !.step = 1]
        /\ pending' = NoChange /\ stops < MaxStops /\ stops' = stops + 1
        /\ UNCHANGED <<db, launcher, deployer, backups, rehearsed, before, runs>>
    BY <1>6 DEF Stop
  <2>2. /\ service' \in [version : {"old", "new"}, state : {"down", "starting", "serving"}, step : 1..Len(Steps)]
        /\ service'.state = "down" /\ service'.version = service.version
    <3> DEFINE first == [service EXCEPT !.state = "down"]
    <3>1. /\ first \in [version : {"old", "new"}, state : {"down", "starting", "serving"}, step : 1..Len(Steps)]
          /\ first.state = "down" /\ first.version = service.version
      BY <1>1
    <3>2. service' = [first EXCEPT !.step = 1]
      BY <2>1
    <3> HIDE DEF first
    <3>3. QED
      BY <1>1, <3>1, <3>2
  <2>3. ServiceStep
    <3>1. stops' \in 0..MaxStops
      BY <1>1, <2>1
    <3>2. QED
      BY <2>1, <2>2, <3>1 DEF ServiceStep
  <2>4. QED
    BY <1>1, <2>1, <2>2, <2>3, ProcessChanges
<1>7. ASSUME NEW c \in Credentials, Issue(c) PROVE MigrationIInv' /\ DbGoesOn /\ ServiceStep
  <2>1. UNCHANGED <<service, launcher, deployer, backups, rehearsed, before, runs, stops>>
    BY <1>7 DEF Issue
  <2>2. ServiceStep
    BY <1>1, <2>1 DEF ServiceStep
  <2>3. QED
    BY <1>1, <1>7, <2>2, IssueKeeps
<1>8. QED
  BY <1>2, <1>3, <1>4, <1>5, <1>6, <1>7 DEF Migrating

LEMMA ScriptKeeps ==
    ASSUME DeploymentIInv, ScriptStep
    PROVE  MigrationIInv' /\ DbGoesOn
<1>1. MigrationIInv /\ launcher \in {"old", "new"} /\ 1 \in 1..Len(Steps)
  BY StepNumbers DEF DeploymentIInv, DeploymentTypeOK
<1>2. CASE UNCHANGED <<db, pending, service>>
  <2>1. Seen' = Seen
    BY <1>2 DEF Seen
  <2>2. Separate(db)' /\ Separate(Seen)' /\ Keeps(db, Seen)' /\ Migrates' = Migrates
    BY <1>1, <1>2, <2>1 DEF MigrationIInv, Separate, Keeps, Migrates
  <2>3. Progress(Seen, service.step)' <=> Progress(Seen, service.step)
    BY <1>2, <2>1 DEF Progress, Unassigned
  <2>4. ServesMigrated'
    BY <1>1, <1>2 DEF MigrationIInv, ServesMigrated, Unassigned
  <2>5. MigrationIInv'
    BY <1>1, <1>2, <2>2, <2>3, <2>4 DEF MigrationIInv
  <2>6. QED
    BY <1>2, <2>5 DEF DbGoesOn
<1>3. CASE pending' = NoChange /\ service' = Process
  <2>1. /\ service' \in [version : {"old", "new"}, state : {"down", "starting", "serving"}, step : 1..Len(Steps)]
        /\ service'.state = "starting" /\ service'.step = 1
    BY <1>1, <1>3 DEF Process
  <2>2. QED
    BY <1>1, <1>3, <2>1, ProcessChanges DEF ScriptStep
<1>4. QED
  BY <1>2, <1>3 DEF ScriptStep

\* The type of what the scripts write.
ScriptsTypeOK ==
    /\ launcher \in {"old", "new"}
    /\ deployer \in [stage : Idle \cup Active, read : {"old", "new"}]
    /\ backups \subseteq Database /\ rehearsed \subseteq Database
    /\ before \in [cols : Schemas, route : BOOLEAN, production : BOOLEAN]
    /\ runs \in 0..MaxDeploys /\ stops \in 0..MaxStops

LEMMA StagesAre ==
    ASSUME ScriptsTypeOK, NEW st \in Idle \cup Active, Goes(st)
    PROVE  /\ deployer' \in [stage : Idle \cup Active, read : {"old", "new"}]
           /\ deployer'.stage = st /\ deployer'.read = deployer.read
BY DEF ScriptsTypeOK, Goes

\* The deployment's script keeps the order of backup, launcher and service, and says
\* what is so.
ScriptVerdicts ==
    /\ deployer'.stage = "deployed" /\ deployer.stage # "deployed" =>
         launcher = "new" /\ service.version = "new" /\ service.state = "serving"
    /\ deployer'.stage = "rolled back" /\ deployer.stage # "rolled back" => launcher' = deployer.read

DeployerOrder == ScriptStep /\ ScriptsTypeOK' /\ BackupInv' /\ StageInv' /\ ScriptVerdicts

LEMMA DeployerSteps ==
    ASSUME DeploymentIInv,
           \/ Prepare \/ BackUp \/ WriteLauncher \/ Kick \/ PollReady
           \/ Restore \/ KickBack \/ KillScript
    PROVE  DeployerOrder /\ rehearsed' = rehearsed
<1>1. /\ ScriptsTypeOK /\ db \in Database /\ BackupInv /\ StageInv
      /\ deployer \in [stage : Idle \cup Active, read : {"old", "new"}]
  BY DEF DeploymentIInv, DeploymentTypeOK, ScriptsTypeOK
<1>2. ASSUME Prepare PROVE DeployerOrder /\ rehearsed' = rehearsed
  <2>1. /\ deployer' \in [stage : Idle \cup Active, read : {"old", "new"}]
        /\ deployer'.stage \in {"prepared", "refused"} /\ deployer'.read = launcher
        /\ runs' \in 0..MaxDeploys
        /\ UNCHANGED <<db, rehearsed, before, stops, pending, service, launcher, backups>>
    <3>1. /\ \/ deployer' = [stage |-> "prepared", read |-> launcher]
             \/ deployer' = [stage |-> "refused", read |-> launcher]
          /\ runs < MaxDeploys /\ runs' = runs + 1
          /\ UNCHANGED <<db, rehearsed, before, stops, pending, service, launcher, backups>>
      BY <1>2 DEF Prepare, ScriptOnly
    <3>2. launcher \in {"old", "new"} /\ {"prepared", "refused"} \subseteq Idle \cup Active
      BY <1>1 DEF ScriptsTypeOK, Idle, Active
    <3>3. runs' \in 0..MaxDeploys
      BY <1>1, <3>1 DEF ScriptsTypeOK
    <3>4. /\ deployer' \in [stage : Idle \cup Active, read : {"old", "new"}]
          /\ deployer'.stage \in {"prepared", "refused"} /\ deployer'.read = launcher
      BY <3>1, <3>2
    <3>5. QED
      BY <3>1, <3>3, <3>4
  <2>2. ScriptStep /\ ScriptsTypeOK'
    BY <1>1, <2>1 DEF ScriptStep, ScriptsTypeOK
  <2>3. BackupInv'
    BY <1>1, <2>1 DEF BackupInv, HasBackup, Idle
  <2>4. StageInv' /\ ScriptVerdicts
    BY <2>1 DEF StageInv, ScriptVerdicts
  <2>5. QED
    BY <2>1, <2>2, <2>3, <2>4 DEF DeployerOrder
<1>3. ASSUME BackUp PROVE DeployerOrder /\ rehearsed' = rehearsed
  <2>1. /\ deployer.stage = "prepared"
        /\ UNCHANGED <<db, rehearsed, before, stops, pending, service, launcher, runs>>
        /\ \/ Goes("backed up") /\ backups' = backups \cup {db}
           \/ Goes("refused") /\ UNCHANGED backups
    BY <1>3 DEF BackUp, ScriptOnly
  <2>2. /\ deployer' \in [stage : Idle \cup Active, read : {"old", "new"}] /\ deployer'.read = deployer.read
        /\ \/ deployer'.stage = "backed up" /\ backups' = backups \cup {db}
           \/ deployer'.stage = "refused" /\ UNCHANGED backups
    BY <1>1, <2>1, StagesAre DEF Idle, Active
  <2>3. ScriptStep /\ ScriptsTypeOK'
    BY <1>1, <2>1, <2>2 DEF ScriptStep, ScriptsTypeOK
  <2>4. BackupInv'
    <3>1. CASE HasBackup
      BY <2>1, <2>2, <3>1 DEF BackupInv, HasBackup
    <3>2. CASE ~HasBackup /\ backups' = backups \cup {db}
      BY <1>1, <2>1, <3>2 DEF BackupInv, HasBackup
    <3>3. CASE ~HasBackup /\ deployer'.stage = "refused" /\ UNCHANGED backups
      BY <1>1, <2>1, <2>2, <3>3 DEF BackupInv, HasBackup, Idle
    <3>4. QED
      BY <2>2, <3>1, <3>2, <3>3
  <2>5. StageInv' /\ ScriptVerdicts
    BY <2>2 DEF StageInv, ScriptVerdicts
  <2>6. QED
    BY <2>1, <2>3, <2>4, <2>5 DEF DeployerOrder
<1>4. ASSUME deployer.stage \in {"backed up", "written", "kicked", "failing", "restored"} PROVE HasBackup
  BY <1>1, <1>4 DEF BackupInv, Idle
<1>5. ASSUME HasBackup, backups' = backups, before' = before PROVE BackupInv'
  BY <1>5 DEF BackupInv, HasBackup
<1>6. ASSUME WriteLauncher PROVE DeployerOrder /\ rehearsed' = rehearsed
  <2>1. /\ deployer.stage = "backed up"
        /\ UNCHANGED <<db, rehearsed, before, stops, pending, service, backups, runs>>
        /\ \/ Goes("written") /\ launcher' = "new"
           \/ Goes("failing") /\ UNCHANGED launcher
    BY <1>6 DEF WriteLauncher, ScriptOnly
  <2>2. /\ deployer' \in [stage : Idle \cup Active, read : {"old", "new"}]
        /\ \/ deployer'.stage = "written" /\ launcher' = "new"
           \/ deployer'.stage = "failing" /\ UNCHANGED launcher
    BY <1>1, <2>1, StagesAre DEF Idle, Active
  <2>3. ScriptStep /\ ScriptsTypeOK' /\ StageInv' /\ ScriptVerdicts
    BY <1>1, <2>1, <2>2 DEF ScriptStep, ScriptsTypeOK, StageInv, ScriptVerdicts
  <2>4. QED
    BY <1>4, <1>5, <2>1, <2>3 DEF DeployerOrder
<1>7. ASSUME Kick PROVE DeployerOrder /\ rehearsed' = rehearsed
  <2>1. /\ deployer.stage = "written" /\ launcher = "new"
        /\ UNCHANGED <<db, rehearsed, before, stops, launcher, backups, runs>>
        /\ \/ Goes("kicked") /\ service' = Process /\ pending' = NoChange
           \/ Goes("failing") /\ UNCHANGED <<service, pending>>
    BY <1>1, <1>7 DEF Kick, ScriptOnly, StageInv
  <2>2. /\ deployer' \in [stage : Idle \cup Active, read : {"old", "new"}]
        /\ \/ deployer'.stage = "kicked" /\ service' = Process /\ pending' = NoChange
           \/ deployer'.stage = "failing" /\ UNCHANGED <<service, pending>>
    BY <1>1, <2>1, StagesAre DEF Idle, Active
  <2>3. ScriptStep /\ ScriptsTypeOK' /\ ScriptVerdicts
    BY <1>1, <2>1, <2>2 DEF ScriptStep, ScriptsTypeOK, ScriptVerdicts
  <2>4. StageInv'
    BY <2>1, <2>2 DEF StageInv, Process
  <2>5. QED
    BY <1>4, <1>5, <2>1, <2>3, <2>4 DEF DeployerOrder
<1>8. ASSUME PollReady PROVE DeployerOrder /\ rehearsed' = rehearsed
  <2>1. /\ deployer.stage = "kicked" /\ launcher = "new" /\ service.version = "new"
        /\ UNCHANGED <<db, rehearsed, before, stops, pending, service, launcher, backups, runs>>
        /\ \/ service.state = "serving" /\ Goes("deployed")
           \/ Goes("failing")
    BY <1>1, <1>8 DEF PollReady, ScriptOnly, StageInv, IsReady
  <2>2. /\ deployer' \in [stage : Idle \cup Active, read : {"old", "new"}]
        /\ \/ deployer'.stage = "deployed" /\ service.state = "serving"
           \/ deployer'.stage = "failing"
    BY <1>1, <2>1, StagesAre DEF Idle, Active
  <2>3. ScriptStep /\ ScriptsTypeOK' /\ ScriptVerdicts /\ StageInv'
    BY <1>1, <2>1, <2>2 DEF ScriptStep, ScriptsTypeOK, ScriptVerdicts, StageInv
  <2>4. QED
    BY <1>4, <1>5, <2>1, <2>3 DEF DeployerOrder
<1>9. ASSUME Restore PROVE DeployerOrder /\ rehearsed' = rehearsed
  <2>1. /\ deployer.stage = "failing" /\ deployer.read \in {"old", "new"}
        /\ UNCHANGED <<db, rehearsed, before, stops, pending, service, backups, runs>>
        /\ \/ Goes("restored") /\ launcher' = deployer.read
           \/ Goes("stuck") /\ UNCHANGED launcher
    BY <1>1, <1>9 DEF Restore, ScriptOnly
  <2>2. /\ deployer' \in [stage : Idle \cup Active, read : {"old", "new"}] /\ deployer'.read = deployer.read
        /\ \/ deployer'.stage = "restored" /\ launcher' = deployer.read
           \/ deployer'.stage = "stuck" /\ UNCHANGED launcher
    BY <1>1, <2>1, StagesAre DEF Idle, Active
  <2>3. ScriptStep /\ ScriptsTypeOK' /\ ScriptVerdicts /\ StageInv'
    BY <1>1, <2>1, <2>2 DEF ScriptStep, ScriptsTypeOK, ScriptVerdicts, StageInv
  <2>4. QED
    BY <1>4, <1>5, <2>1, <2>3 DEF DeployerOrder
<1>10. ASSUME KickBack PROVE DeployerOrder /\ rehearsed' = rehearsed
  <2>1. /\ deployer.stage = "restored" /\ launcher = deployer.read
        /\ UNCHANGED <<db, rehearsed, before, stops, launcher, backups, runs>>
        /\ Goes("rolled back")
        /\ \/ service' = Process /\ pending' = NoChange
           \/ UNCHANGED <<service, pending>>
    BY <1>1, <1>10 DEF KickBack, ScriptOnly, StageInv
  <2>2. /\ deployer' \in [stage : Idle \cup Active, read : {"old", "new"}]
        /\ deployer'.stage = "rolled back"
    BY <1>1, <2>1, StagesAre DEF Idle, Active
  <2>3. ScriptStep /\ ScriptsTypeOK' /\ ScriptVerdicts /\ StageInv'
    BY <1>1, <2>1, <2>2 DEF ScriptStep, ScriptsTypeOK, ScriptVerdicts, StageInv
  <2>4. QED
    BY <1>4, <1>5, <2>1, <2>3 DEF DeployerOrder
<1>11. ASSUME KillScript PROVE DeployerOrder /\ rehearsed' = rehearsed
  <2>1. /\ Goes("killed")
        /\ UNCHANGED <<db, rehearsed, before, stops, pending, service, launcher, backups, runs>>
    BY <1>11 DEF KillScript, ScriptOnly
  <2>2. /\ deployer' \in [stage : Idle \cup Active, read : {"old", "new"}]
        /\ deployer'.stage = "killed" /\ deployer'.read = deployer.read
    BY <1>1, <2>1, StagesAre DEF Idle, Active
  <2>3. ScriptStep /\ ScriptsTypeOK' /\ ScriptVerdicts /\ StageInv'
    BY <1>1, <2>1, <2>2 DEF ScriptStep, ScriptsTypeOK, ScriptVerdicts, StageInv
  <2>4. BackupInv'
    BY <1>1, <2>1, <2>2 DEF BackupInv, HasBackup, Idle
  <2>5. QED
    BY <2>1, <2>3, <2>4 DEF DeployerOrder
<1>12. QED
  BY <1>2, <1>3, <1>6, <1>7, <1>8, <1>9, <1>10, <1>11

\* A rehearsal that passes found the anonymous account, and no credential without a
\* principal (rehearse_migration.py, preflight).
LEMMA RehearseKeeps ==
    ASSUME DeploymentIInv, Rehearse
    PROVE  ScriptStep /\ ScriptsTypeOK' /\ BackupInv' /\ StageInv' /\ ScriptVerdicts /\ RehearsedInv'
<1>1. /\ db \in Database /\ Separate(db) /\ BackupInv /\ StageInv /\ ScriptsTypeOK
      /\ UNCHANGED <<db, pending, service, launcher, deployer, backups, before, runs, stops>>
  BY DEF Rehearse, DeploymentIInv, MigrationIInv, ScriptsTypeOK, DeploymentTypeOK
<1>2. PICK m \in Startups(db) : rehearsed' = IF Passes(db, m) THEN {db} ELSE {}
  BY DEF Rehearse
<1>3. PICK a \in Assignments(db), k \in KeyIds : m = StartedUp(a, k)
  BY <1>2 DEF Startups
<1>4. a \in Database /\ Unassigned(a) = {}
  BY <1>1, AssignmentLemma
<1>5. m.anon /\ m.principal = a.principal
  BY <1>3, <1>4 DEF Database, StartedUp
<1>6. ASSUME Passes(db, m)
      PROVE  /\ db.anon /\ "billing" \in db.cols
             /\ \A c \in Credentials : db.principal[c] # "absent" => db.principal[c] \in PrincipalIds
  <2>1. db.anon = m.anon /\ "billing" \in db.cols
    BY <1>6, ColumnsAre DEF Passes, SameRows, HasPrincipals, HasProvider
  <2>2. ASSUME NEW c \in Credentials, db.principal[c] # "absent" PROVE db.principal[c] \in PrincipalIds
    <3>1. db.principal[c] = a.principal[c]
      BY <1>5, <1>6, <2>1, <2>2 DEF Passes, SameRows
    <3>2. a.principal[c] # "unset"
      BY <1>4 DEF Unassigned
    <3>3. QED
      BY <1>1, <2>2, <3>1, <3>2, TypesOfDatabase
  <2>3. QED
    BY <1>5, <2>1, <2>2
<1>7. RehearsedInv'
  BY <1>1, <1>2, <1>6 DEF RehearsedInv
<1>8. BackupInv' /\ StageInv' /\ ScriptStep /\ ScriptVerdicts
  BY <1>1 DEF BackupInv, HasBackup, StageInv, ScriptStep, ScriptVerdicts
<1>9. ScriptsTypeOK'
  BY <1>1, <1>2 DEF ScriptsTypeOK
<1>10. QED
  BY <1>7, <1>8, <1>9

LEMMA DeploymentSteps ==
    ASSUME DeploymentIInv, DeploymentNext
    PROVE  DeploymentIInv' /\ DbGoesOn /\ ScriptVerdicts
<1>1. /\ MigrationIInv /\ BackupInv /\ StageInv /\ RehearsedInv /\ ScriptsTypeOK
  BY DEF DeploymentIInv, DeploymentTypeOK, ScriptsTypeOK
<1>2. ASSUME DbGoesOn, rehearsed' = rehearsed PROVE RehearsedInv'
  BY <1>1, <1>2 DEF RehearsedInv, DbGoesOn
<1>3. ASSUME MigrationIInv', ScriptsTypeOK' PROVE DeploymentTypeOK'
  BY <1>3 DEF MigrationIInv, ScriptsTypeOK, DeploymentTypeOK
<1>4. CASE Migrating \/ Launch \/ Stop \/ \E c \in Credentials : Issue(c)
  <2>1. MigrationIInv' /\ DbGoesOn /\ ServiceStep
    BY <1>4, ServiceSteps
  <2>2. ScriptsTypeOK'
    BY <1>1, <2>1 DEF ScriptsTypeOK, ServiceStep
  <2>3. BackupInv'
    <3>1. CASE HasBackup
      BY <2>1, <3>1 DEF BackupInv, HasBackup, ServiceStep
    <3>2. CASE ~HasBackup
      BY <1>1, <2>1, <3>2 DEF BackupInv, DbGoesOn, ServiceStep
    <3>3. QED
      BY <3>1, <3>2
  <2>4. StageInv' /\ ScriptVerdicts
    BY <1>1, <2>1 DEF StageInv, ScriptVerdicts, ServiceStep
  <2>5. RehearsedInv'
    BY <1>2, <2>1 DEF ServiceStep
  <2>6. QED
    BY <1>3, <2>1, <2>2, <2>3, <2>4, <2>5 DEF DeploymentIInv
<1>5. CASE \/ Prepare \/ BackUp \/ WriteLauncher \/ Kick \/ PollReady
           \/ Restore \/ KickBack \/ KillScript
  <2>1. DeployerOrder /\ rehearsed' = rehearsed
    BY <1>5, DeployerSteps
  <2>2. MigrationIInv' /\ DbGoesOn
    BY <2>1, ScriptKeeps DEF DeployerOrder
  <2>3. QED
    BY <1>2, <1>3, <2>1, <2>2 DEF DeployerOrder, DeploymentIInv
<1>6. CASE Rehearse
  <2>1. ScriptStep /\ ScriptsTypeOK' /\ BackupInv' /\ StageInv' /\ ScriptVerdicts /\ RehearsedInv'
    BY <1>6, RehearseKeeps
  <2>2. MigrationIInv' /\ DbGoesOn
    BY <2>1, ScriptKeeps
  <2>3. QED
    BY <1>3, <2>1, <2>2 DEF DeploymentIInv
<1>7. QED
  BY <1>4, <1>5, <1>6 DEF DeploymentNext

LEMMA DeploymentStutters ==
    ASSUME DeploymentIInv, UNCHANGED deploymentVars
    PROVE  DeploymentIInv'
<1>1. UNCHANGED <<db, pending, service, launcher, deployer, backups, rehearsed, before, runs, stops>>
  BY DEF deploymentVars
<1>2. ScriptStep
  BY <1>1 DEF ScriptStep
<1>3. MigrationIInv'
  BY <1>2, ScriptKeeps
<1>4. DeploymentTypeOK' /\ BackupInv' /\ StageInv' /\ RehearsedInv'
  BY <1>1 DEF DeploymentIInv, DeploymentTypeOK, BackupInv, HasBackup, StageInv, RehearsedInv
<1>5. QED
  BY <1>3, <1>4 DEF DeploymentIInv

LEMMA DeploymentInvariance == DeploymentSpec => []DeploymentIInv
<1>1. DeploymentInit => DeploymentIInv
  BY MigrationStart
<1>2. DeploymentIInv /\ [DeploymentNext]_deploymentVars => DeploymentIInv'
  BY DeploymentSteps, DeploymentStutters
<1>3. QED
  BY <1>1, <1>2, PTL DEF DeploymentSpec

\* What a deployment promises of every state: principals are not shared, the new release
\* serves only a migrated database, of which there is a backup from before, and what a
\* rehearsal saw is still so (_migrate, deploy_pinned_coordinator.py).
LEMMA DeployedStates ==
    ASSUME DeploymentIInv
    PROVE  /\ DeploymentTypeOK /\ PrincipalsAreSeparate /\ ServesMigrated
           /\ BackupPrecedesMigration /\ RehearsedRowsSurvive
<1>1. DeploymentTypeOK /\ MigrationIInv /\ BackupInv /\ RehearsedInv
  BY DEF DeploymentIInv
<1>2. PrincipalsAreSeparate /\ ServesMigrated
  BY <1>1 DEF MigrationIInv, Separate, PrincipalsAreSeparate
<1>3. BackupPrecedesMigration
  BY <1>1 DEF BackupInv, HasBackup, BackupPrecedesMigration
<1>4. RehearsedRowsSurvive
  <2> SUFFICES ASSUME NEW d \in rehearsed PROVE SameRows(d, db)
    BY DEF RehearsedRowsSurvive
  <2>1. d \in Database /\ db \in Database
    BY <1>1 DEF DeploymentTypeOK
  <2>2. d.anon = db.anon
    BY <1>1, <2>1, TypesOfDatabase DEF RehearsedInv
  <2>3. QED
    BY <1>1, <2>2 DEF RehearsedInv, SameRows
<1>5. QED
  BY <1>1, <1>2, <1>3, <1>4

\* Principals and the default key are never replaced (_migrate, _ensure_default_key).
THEOREM IdentitiesAlwaysStable == DeploymentSpec => IdentitiesAreStable
<1> DEFINE Stay == /\ \A c \in Credentials : db.principal[c] \in PrincipalIds =>
                        db'.principal[c] = db.principal[c]
                   /\ db.key # "none" => db'.key = db.key
<1>1. DeploymentIInv /\ [DeploymentNext]_deploymentVars => [Stay]_deploymentVars
  BY DeploymentSteps DEF DbGoesOn
<1>2. QED
  BY <1>1, DeploymentInvariance, PTL DEF DeploymentSpec, IdentitiesAreStable

\* The script says "deployed" and "restored" only when it is so (deploy_pinned_coordinator.py).
THEOREM VerdictsAlwaysTrue == DeploymentSpec => VerdictsAreTrue
<1> DEFINE Told ==
      /\ deployer'.stage = "deployed" /\ deployer.stage # "deployed" =>
            launcher = "new" /\ service.version = "new" /\ service.state = "serving"
      /\ deployer'.stage = "rolled back" /\ deployer.stage # "rolled back" =>
            launcher' = deployer.read
<1>1. DeploymentIInv /\ [DeploymentNext]_deploymentVars => [Told]_deploymentVars
  BY DeploymentSteps DEF ScriptVerdicts
<1>2. QED
  BY <1>1, DeploymentInvariance, PTL DEF DeploymentSpec, VerdictsAreTrue

\* A deployment can be stopped, fail and be undone anywhere without harm: for any number
\* of credentials, of runs of the script and of stops.
THEOREM DeploymentAlwaysSafe == DeploymentSpec => DeploymentIsSafe
<1>1. DeploymentIInv => /\ DeploymentTypeOK /\ PrincipalsAreSeparate /\ ServesMigrated
                        /\ BackupPrecedesMigration /\ RehearsedRowsSurvive
  BY DeployedStates
<1>2. QED
  BY <1>1, DeploymentInvariance, IdentitiesAlwaysStable, VerdictsAlwaysTrue, PTL DEF DeploymentIsSafe

=============================================================================
