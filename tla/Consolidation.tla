---------------------------- MODULE Consolidation ----------------------------
(***************************************************************************)
(* The consolidation of the legacy provider-N accounts into the account of *)
(* the one active provider credential                                      *)
(* (consolidate_legacy_provider_accounts.py), next to a coordinator that   *)
(* goes on charging and issuing credentials on the same database.          *)
(*                                                                         *)
(* SQLite has one writer: BEGIN IMMEDIATE keeps the coordinator out until  *)
(* the commit or the rollback.  A digest is the data it is taken of.  The  *)
(* balance of a provider's account is its opening balance plus what it     *)
(* earned: only the latter is kept.  Transaction t earns t.                *)
(***************************************************************************)
EXTENDS Integers, FiniteSets, FiniteSetsExt

CONSTANTS
    Legacy,         \* provider-N accounts
    Stable,         \* provider-acct-... principals
    Txs,            \* ids of transactions
    MaxScriptRuns   \* bound: runs of the script

ASSUME ConsolidationAssumption ==
    /\ Legacy \cap Stable = {} /\ "none" \notin Legacy \cup Stable
    /\ IsFiniteSet(Legacy) /\ IsFiniteSet(Stable)
    /\ IsFiniteSet(Txs) /\ Txs \subseteq Nat
    /\ MaxScriptRuns \in Nat

VARIABLES
    book,       \* the protected tables: transactions, accounts, credentials
    archive,    \* the two archive tables: original provider of a transaction
    script,     \* the running script: stage, mode, account, what it has read
    writer,     \* who holds SQLite's write lock
    approval,   \* the counts a rehearsal printed, as the operator passes them on
    origin,     \* history: the provider a transaction was first booked for
    unexplained,    \* legacy accounts with other movements, from the start
    scriptRuns

consolidationVars == <<book, archive, script, writer, approval, origin, unexplained, scriptRuns>>

Accounts == Legacy \cup Stable
Books == [provider : [Txs -> Accounts \cup {"none"}], accounts : SUBSET Accounts,
          earned : [Accounts -> Int], tokens : [Stable -> {"none", "active", "revoked"}]]
NoBook == [provider |-> "none"]
NoCounts == <<-1, -1, -1>>
NoArchive == [t \in Txs |-> "none"]
Stages == {"idle", "planned", "backed up", "compared", "rehearsed", "locked", "checked"}

ConsolidationTypeOK ==
    /\ book \in Books
    /\ archive \in [Txs -> Legacy \cup {"none"}]
    /\ script \in [stage : Stages, apply : BOOLEAN, canonical : Stable \cup {"none"},
                   baseline : Books \cup {NoBook}, backup : Books \cup {NoBook}]
    /\ writer \in {"none", "script"}
    /\ approval \in (Int \X Int \X Int)
    /\ origin \in [Txs -> Accounts \cup {"none"}]
    /\ unexplained \subseteq Legacy
    /\ scriptRuns \in 0..MaxScriptRuns

Booked(b) == {t \in Txs : b.provider[t] # "none"}
OfLegacy(b) == {t \in Txs : b.provider[t] \in Legacy}
EarnedBy(b, a) == SumSet({t \in Txs : b.provider[t] = a})
Tokens(b) == {s \in Stable : b.tokens[s] # "none"}

\* financial_totals and the sizes of the plan
Counts(b) == <<Cardinality(Booked(b)), Cardinality(b.accounts \cap Legacy), Cardinality(OfLegacy(b))>>

\* Variant of Plan: balances are taken as they are
PlanTrusting(b, c) ==
    /\ archive = NoArchive
    /\ Tokens(b) = {c} /\ b.tokens[c] = "active"
    /\ c \in b.accounts
    /\ b.accounts \cap Legacy # {} /\ OfLegacy(b) # {}

\* plan: exactly one active credential, nothing consolidated yet, every account
\* there, and every balance explained by its transactions
Plan(b, c) ==
    /\ archive = NoArchive
    /\ Tokens(b) = {c} /\ b.tokens[c] = "active"
    /\ c \in b.accounts
    /\ b.accounts \cap Legacy # {} /\ OfLegacy(b) # {}
    /\ \A t \in OfLegacy(b) : b.provider[t] \in b.accounts
    /\ \A a \in (b.accounts \cap Legacy) \cup {c} : b.earned[a] = EarnedBy(b, a)

\* consolidate: transactions remapped, their earnings moved, the accounts gone
Consolidated(b, c) ==
    [b EXCEPT !.provider = [t \in Txs |-> IF t \in OfLegacy(b) THEN c ELSE @[t]],
              !.earned[c] = @ + SumSet(OfLegacy(b)),
              !.accounts = @ \ Legacy]

\* Variant of Archived: written from the rows as they are after the update
ArchivedAfter(b, c) == [t \in Txs |-> IF t \in OfLegacy(b) THEN c ELSE "none"]

\* The archive of the transactions, with their original provider
Archived(b, c) == [t \in Txs |-> IF t \in OfLegacy(b) THEN b.provider[t] ELSE "none"]

-----------------------------------------------------------------------------
\* The coordinator goes on.  A charge books a transaction and its earning
ChargeProvider(t, p) ==
    /\ writer = "none"
    /\ book.provider[t] = "none" /\ book.tokens[p] # "none" /\ p \in book.accounts
    /\ book' = [book EXCEPT !.provider[t] = p, !.earned[p] = @ + t]
    /\ origin' = [origin EXCEPT ![t] = p]
    /\ UNCHANGED <<archive, script, writer, approval, unexplained, scriptRuns>>

\* A new credential, with its own principal and account
IssueCredential(p) ==
    /\ writer = "none"
    /\ book.tokens[p] = "none"
    /\ book' = [book EXCEPT !.tokens[p] = "active", !.accounts = @ \cup {p}]
    /\ UNCHANGED <<archive, script, writer, approval, origin, unexplained, scriptRuns>>

RevokeCredential(p) ==
    /\ writer = "none"
    /\ book.tokens[p] = "active"
    /\ book' = [book EXCEPT !.tokens[p] = "revoked"]
    /\ UNCHANGED <<archive, script, writer, approval, origin, unexplained, scriptRuns>>

-----------------------------------------------------------------------------
NoScript == [stage |-> "idle", apply |-> FALSE, canonical |-> "none",
             baseline |-> NoBook, backup |-> NoBook]
DatabaseOnly == UNCHANGED <<book, archive, origin, unexplained>>

\* Variant of Begin: the counts are printed, not compared
BeginUncounted(c) ==
    /\ script.stage = "idle" /\ scriptRuns < MaxScriptRuns
    /\ scriptRuns' = scriptRuns + 1
    /\ Plan(book, c)
    /\ \E apply \in BOOLEAN :
         script' = [NoScript EXCEPT !.stage = "planned", !.apply = apply,
                                    !.canonical = c, !.baseline = book]
    /\ UNCHANGED <<writer, approval>> /\ DatabaseOnly

\* Arguments and plan, with its digest, in one read snapshot; to apply it the
\* counts must be those the operator approved
Begin(c) ==
    /\ script.stage = "idle" /\ scriptRuns < MaxScriptRuns
    /\ scriptRuns' = scriptRuns + 1
    /\ Plan(book, c)
    /\ \E apply \in BOOLEAN :
         /\ apply => Counts(book) = approval
         /\ script' = [NoScript EXCEPT !.stage = "planned", !.apply = apply,
                                       !.canonical = c, !.baseline = book]
    /\ UNCHANGED <<writer, approval>> /\ DatabaseOnly

\* backup_source
MakeBackup ==
    /\ script.stage = "planned"
    /\ script' = [script EXCEPT !.stage = "backed up", !.backup = book]
    /\ UNCHANGED <<writer, approval, scriptRuns>> /\ DatabaseOnly

\* The digest of the backup against the one of the plan
CompareBackup ==
    /\ script.stage = "backed up"
    /\ script' = IF script.backup = script.baseline
                 THEN [script EXCEPT !.stage = "compared"] ELSE NoScript
    /\ UNCHANGED <<writer, approval, scriptRuns>> /\ DatabaseOnly

\* consolidate on a copy of the backup: a rehearsal ends here and prints its counts
RehearseCopy ==
    /\ script.stage = "compared"
    /\ Plan(script.backup, script.canonical)
    /\ IF script.apply
       THEN script' = [script EXCEPT !.stage = "rehearsed"] /\ UNCHANGED approval
       ELSE script' = NoScript /\ approval' = Counts(script.backup)
    /\ UNCHANGED <<writer, scriptRuns>> /\ DatabaseOnly

\* BEGIN IMMEDIATE
Lock ==
    /\ script.stage = "rehearsed"
    /\ writer = "none"
    /\ writer' = "script"
    /\ script' = [script EXCEPT !.stage = "locked"]
    /\ UNCHANGED <<approval, scriptRuns>> /\ DatabaseOnly

\* Variant of Recheck: releases the lock, as the comment in run warns of
RecheckAndRelease ==
    /\ script.stage = "locked"
    /\ writer' = "none"
    /\ script' = IF book = script.baseline THEN [script EXCEPT !.stage = "checked"] ELSE NoScript
    /\ UNCHANGED <<approval, scriptRuns>> /\ DatabaseOnly

\* The digest of the live database against the one of the plan
Recheck ==
    /\ script.stage = "locked"
    /\ IF book = script.baseline
       THEN script' = [script EXCEPT !.stage = "checked"] /\ UNCHANGED writer
       ELSE script' = NoScript /\ writer' = "none"
    /\ UNCHANGED <<approval, scriptRuns>> /\ DatabaseOnly

\* consolidate with the lock held, and its commit
CommitConsolidation ==
    /\ script.stage = "checked"
    /\ Plan(book, script.canonical)
    /\ book' = Consolidated(book, script.canonical)
    /\ archive' = Archived(book, script.canonical)
    /\ script' = NoScript /\ writer' = "none"
    /\ UNCHANGED <<approval, origin, unexplained, scriptRuns>>

\* Variant of StopScript: the rollback of a failed write leaves the archive
StopKeepingArchive ==
    /\ script.stage # "idle"
    /\ script' = NoScript /\ writer' = "none"
    /\ archive' = IF writer = "script" THEN Archived(book, script.canonical) ELSE archive
    /\ UNCHANGED <<book, approval, origin, unexplained, scriptRuns>>

\* An error, Ctrl-C or the end of the process at any point: rolled back
StopScript ==
    /\ script.stage # "idle"
    /\ script' = NoScript /\ writer' = "none"
    /\ UNCHANGED <<approval, scriptRuns>> /\ DatabaseOnly

-----------------------------------------------------------------------------
\* Left behind by releases from before #136, with one credential
ConsolidationInit ==
    /\ unexplained \in SUBSET Legacy
    /\ \E p \in [Txs -> Accounts \cup {"none"}], c \in Stable :
         /\ \A t \in Txs : p[t] \in Stable => p[t] = c
         /\ book = [provider |-> p, accounts |-> Legacy \cup {c},
                    earned |-> [a \in Accounts |-> SumSet({t \in Txs : p[t] = a})
                                                   + (IF a \in unexplained THEN 1 ELSE 0)],
                    tokens |-> [s \in Stable |-> IF s = c THEN "active" ELSE "none"]]
         /\ origin = p
    /\ archive = NoArchive
    /\ script = NoScript
    /\ writer = "none"
    /\ approval = NoCounts
    /\ scriptRuns = 0

ConsolidationNext ==
    \/ \E p \in Stable : IssueCredential(p) \/ RevokeCredential(p) \/ Begin(p)
    \/ \E t \in Txs, p \in Stable : ChargeProvider(t, p)
    \/ MakeBackup \/ CompareBackup \/ RehearseCopy \/ Lock \/ Recheck
    \/ CommitConsolidation \/ StopScript

ConsolidationSpec == ConsolidationInit /\ [][ConsolidationNext]_consolidationVars

-----------------------------------------------------------------------------
\* Charges before, between and after the steps of the script included: what an
\* account earned is what its transactions earned, but for the accounts that
\* were wrong before, and these are never consolidated.
BooksReconcile ==
    /\ \A a \in book.accounts \ unexplained : book.earned[a] = EarnedBy(book, a)
    /\ \A t \in Booked(book) : book.provider[t] \in book.accounts
    /\ archive # NoArchive => unexplained = {}

\* Who a transaction was first booked for can still be told, from the archive
\* if it was remapped; and what is archived was remapped.
AttributionIsRecoverable ==
    \A t \in Txs : /\ origin[t] = IF archive[t] # "none" THEN archive[t] ELSE book.provider[t]
                   /\ archive[t] # "none" => book.provider[t] \notin Legacy

\* At the commit the backup holds exactly what is about to change: no charge was
\* booked, no credential issued or revoked since the plan (the comment in run).
BackupIsExact == [][archive' # archive => script.backup = book]_consolidationVars

\* What is applied has the size that an earlier rehearsal showed the operator.
AppliedAsApproved == [][archive' # archive => approval # NoCounts /\ Counts(book) = approval]_consolidationVars

\* The consolidation changes what was approved, can be undone, and keeps the books.
ConsolidationIsExact ==
    /\ [](ConsolidationTypeOK /\ BooksReconcile /\ AttributionIsRecoverable)
    /\ BackupIsExact /\ AppliedAsApproved

=============================================================================
