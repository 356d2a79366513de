------------------------------ MODULE Deployment ------------------------------
(***************************************************************************)
(* A deployment of the coordinator: deploy_pinned_coordinator.py, the      *)
(* launcher and the service it restarts, the schema migration that a       *)
(* starting Store runs (store.py), and the two scripts that rehearse this  *)
(* migration on a copy.                                                    *)
(*                                                                         *)
(* ALTER TABLE commits by itself; the assignment of principals opens a     *)
(* transaction that also takes the ALTERs after it and ends with the next  *)
(* commit.  A process may stop between any two steps, and a kickstart -k   *)
(* stops it wherever it is.  The previous release left a schema that is a  *)
(* prefix of the columns the new one adds.                                 *)
(***************************************************************************)
EXTENDS Integers, Sequences, FiniteSets

CONSTANTS
    Credentials,        \* provider tokens
    PrincipalIds,       \* provider-acct-... ids, drawn at random
    KeyIds,             \* default API keys
    MaxDeploys, MaxStops    \* bounds: runs of the script, processes that stop

ASSUME DeploymentAssumption ==
    /\ {"unset", "absent"} \cap PrincipalIds = {}
    /\ "none" \notin KeyIds
    /\ IsFiniteSet(Credentials) /\ IsFiniteSet(PrincipalIds)
    /\ Cardinality(PrincipalIds) > Cardinality(Credentials)
    /\ KeyIds # {}
    /\ MaxDeploys \in Nat /\ MaxStops \in Nat

VARIABLES
    db,         \* what is committed: columns, principals, anonymous account, its key
    pending,    \* the open transaction of the migration, or NoChange
    service,    \* the coordinator's process: version, state and next migration step
    launcher,   \* the release that the launcher runs
    deployer,   \* the script: stage, and the launcher text it read
    backups,    \* complete database backups
    rehearsed,  \* snapshots on which a rehearsal passed
    before,     \* what the previous release is: its columns, routes, environment
    runs, stops

deploymentVars == <<db, pending, service, launcher, deployer, backups, rehearsed, before, runs, stops>>

\* Groups of columns in the order of _migrate; the tables come before them
Columns == <<"identity", "billing", "connection", "cache">>
AllColumns == {Columns[i] : i \in DOMAIN Columns}
Schemas == {{Columns[i] : i \in 1..n} : n \in 1..Len(Columns)}
Steps == <<"identity", "billing", "principals", "connection", "commit", "cache", "account", "key">>

NoChange == [cols |-> {}]
Database == [cols : SUBSET AllColumns, principal : [Credentials -> PrincipalIds \cup {"unset", "absent"}],
             anon : BOOLEAN, key : KeyIds \cup {"none"}]
Idle == {"idle", "refused", "deployed", "rolled back", "stuck", "killed"}
Active == {"prepared", "backed up", "written", "kicked", "failing", "restored"}

DeploymentTypeOK ==
    /\ db \in Database
    /\ pending \in Database \cup {NoChange}
    /\ service \in [version : {"old", "new"}, state : {"down", "starting", "serving"},
                    step : 1..Len(Steps)]
    /\ launcher \in {"old", "new"}
    /\ deployer \in [stage : Idle \cup Active, read : {"old", "new"}]
    /\ backups \subseteq Database /\ rehearsed \subseteq Database
    /\ before \in [cols : Schemas, route : BOOLEAN, production : BOOLEAN]
    /\ runs \in 0..MaxDeploys /\ stops \in 0..MaxStops

\* The database as the migrating process sees it
Seen == IF pending = NoChange THEN db ELSE pending
Unassigned(d) == {c \in Credentials : d.principal[c] = "unset"}
Fresh(d) == PrincipalIds \ {d.principal[c] : c \in Credentials}

\* Variant of Assignments: one principal for all of them
AssignmentsTogether(d) ==
    {[d EXCEPT !.principal = [c \in Credentials |-> IF c \in Unassigned(d) THEN p ELSE d.principal[c]]] :
        p \in Fresh(d)}

\* Every credential without a principal gets one of its own
Assignments(d) ==
    {[d EXCEPT !.principal = [c \in Credentials |-> IF c \in Unassigned(d) THEN f[c] ELSE d.principal[c]]] :
        f \in {g \in [Unassigned(d) -> Fresh(d)] :
                 \A a, b \in Unassigned(d) : g[a] = g[b] => a = b}}

-----------------------------------------------------------------------------
\* The process starts with what the launcher says
Process == [version |-> launcher, state |-> "starting", step |-> 1]

\* launchd starts a service that is down
Launch ==
    /\ service.state = "down"
    /\ service' = Process
    /\ UNCHANGED <<db, pending, launcher, deployer, backups, rehearsed, before, runs, stops>>

\* The process stops: an uncommitted transaction is lost
Stop ==
    /\ service.state # "down" /\ stops < MaxStops
    /\ service' = [service EXCEPT !.state = "down", !.step = 1]
    /\ pending' = NoChange
    /\ stops' = stops + 1
    /\ UNCHANGED <<db, launcher, deployer, backups, rehearsed, before, runs>>

\* The previous release finds its schema, or a later one
OldStarts ==
    /\ service.state = "starting" /\ service.version = "old"
    /\ service' = [service EXCEPT !.state = "serving"]
    /\ UNCHANGED <<db, pending, launcher, deployer, backups, rehearsed, before, runs, stops>>

AtStep(s) == service.state = "starting" /\ service.version = "new" /\ Steps[service.step] = s
NextStep == service' = IF service.step = Len(Steps)
                       THEN [service EXCEPT !.state = "serving", !.step = 1]
                       ELSE [service EXCEPT !.step = @ + 1]
MigrationOnly == UNCHANGED <<launcher, deployer, backups, rehearsed, before, runs, stops>>

\* Variant of AddColumn: the column is added whether it is there or not, and
\* SQLite refuses a duplicate column
AddColumnAgain(c) ==
    /\ AtStep(c)
    /\ IF c \in Seen.cols
       THEN /\ service' = [service EXCEPT !.state = "down", !.step = 1]
            /\ pending' = NoChange /\ UNCHANGED db
       ELSE /\ NextStep
            /\ db' = [db EXCEPT !.cols = @ \cup {c}] /\ UNCHANGED pending
    /\ MigrationOnly

\* ALTER TABLE for a column that is not there
AddColumn(c) ==
    /\ AtStep(c)
    /\ NextStep
    /\ IF pending = NoChange
       THEN db' = [db EXCEPT !.cols = @ \cup {c}] /\ UNCHANGED pending
       ELSE pending' = [pending EXCEPT !.cols = @ \cup {c}] /\ UNCHANGED db
    /\ MigrationOnly

\* Variant of AssignPrincipals: draws a principal for every credential
AssignPrincipalsAgain ==
    /\ AtStep("principals")
    /\ NextStep
    /\ pending' \in Assignments([db EXCEPT !.principal =
                       [c \in Credentials |-> IF @[c] = "absent" THEN "absent" ELSE "unset"]])
    /\ UNCHANGED db
    /\ MigrationOnly

\* The UPDATEs of the credentials without a principal open a transaction
AssignPrincipals ==
    /\ AtStep("principals")
    /\ NextStep
    /\ IF Unassigned(db) = {} THEN UNCHANGED pending ELSE pending' \in Assignments(db)
    /\ UNCHANGED db
    /\ MigrationOnly

\* Variant of CommitMigration: the commit is forgotten
CommitMigrationLater ==
    /\ AtStep("commit")
    /\ NextStep
    /\ UNCHANGED <<db, pending>>
    /\ MigrationOnly

CommitMigration ==
    /\ AtStep("commit")
    /\ NextStep
    /\ db' = Seen /\ pending' = NoChange
    /\ MigrationOnly

\* _ensure_account: INSERT OR IGNORE
EnsureAccount ==
    /\ AtStep("account")
    /\ NextStep
    /\ db' = [db EXCEPT !.anon = TRUE]
    /\ UNCHANGED pending
    /\ MigrationOnly

\* _ensure_default_key: in development, and only when there is none
EnsureDefaultKey ==
    /\ AtStep("key")
    /\ NextStep
    /\ IF db.key # "none" \/ before.production THEN UNCHANGED db
       ELSE \E k \in KeyIds : db' = [db EXCEPT !.key = k]
    /\ UNCHANGED pending
    /\ MigrationOnly

\* Variant of Issue: the principal is left blank
IssueBlank(c) ==
    /\ service.state = "serving"
    /\ db.principal[c] = "absent"
    /\ db' = [db EXCEPT !.principal[c] = "blank"]
    /\ UNCHANGED <<pending, service, launcher, deployer, backups, rehearsed, before, runs, stops>>

\* A serving coordinator issues a credential; a release from before #136 knows
\* of no principal
Issue(c) ==
    /\ service.state = "serving"
    /\ db.principal[c] = "absent"
    /\ IF service.version = "new" \/ "billing" \in before.cols
       THEN \E p \in Fresh(db) : db' = [db EXCEPT !.principal[c] = p]
       ELSE db' = [db EXCEPT !.principal[c] = "unset"]
    /\ UNCHANGED <<pending, service, launcher, deployer, backups, rehearsed, before, runs, stops>>

-----------------------------------------------------------------------------
Goes(stage) == deployer' = [deployer EXCEPT !.stage = stage]
ScriptOnly == UNCHANGED <<db, rehearsed, before, stops>>

\* Checkout, service, launcher, database path, release and import are checked
Prepare ==
    /\ deployer.stage \in Idle /\ runs < MaxDeploys
    /\ runs' = runs + 1
    /\ deployer' \in {[stage |-> "prepared", read |-> launcher], [stage |-> "refused", read |-> launcher]}
    /\ UNCHANGED <<pending, service, launcher, backups>> /\ ScriptOnly

\* backup_database: SQLite's online backup, then its integrity check
BackUp ==
    /\ deployer.stage = "prepared"
    /\ \/ Goes("backed up") /\ backups' = backups \cup {db}
       \/ Goes("refused") /\ UNCHANGED backups
    /\ UNCHANGED <<pending, service, launcher, runs>> /\ ScriptOnly

\* Variant of WriteLauncher: does not wait for the backup
WriteLauncherFirst ==
    /\ deployer.stage \in {"prepared", "backed up"}
    /\ \/ Goes("written") /\ launcher' = "new"
       \/ Goes("failing") /\ UNCHANGED launcher
    /\ UNCHANGED <<pending, service, backups, runs>> /\ ScriptOnly

WriteLauncher ==
    /\ deployer.stage = "backed up"
    /\ \/ Goes("written") /\ launcher' = "new"
       \/ Goes("failing") /\ UNCHANGED launcher
    /\ UNCHANGED <<pending, service, backups, runs>> /\ ScriptOnly

\* Variant of Kick: without -k, launchctl leaves a running service alone
KickWithoutKill ==
    /\ deployer.stage = "written"
    /\ \/ Goes("kicked") /\ IF service.state = "down" THEN service' = Process /\ pending' = NoChange
                            ELSE UNCHANGED <<service, pending>>
       \/ Goes("failing") /\ UNCHANGED <<service, pending>>
    /\ UNCHANGED <<launcher, backups, runs>> /\ ScriptOnly

\* launchctl kickstart -k, or its failure
Kick ==
    /\ deployer.stage = "written"
    /\ \/ Goes("kicked") /\ service' = Process /\ pending' = NoChange
       \/ Goes("failing") /\ UNCHANGED <<service, pending>>
    /\ UNCHANGED <<launcher, backups, runs>> /\ ScriptOnly

\* ready: healthy, and the route of the new release is there
IsReady == service.state = "serving" /\ (service.version = "new" \/ before.route)

\* ready returns, or gives up after twenty attempts whatever the service does
PollReady ==
    /\ deployer.stage = "kicked"
    /\ \/ IsReady /\ Goes("deployed")
       \/ Goes("failing")
    /\ UNCHANGED <<pending, service, launcher, backups, runs>> /\ ScriptOnly

\* The launcher is written back; the handler itself may fail
Restore ==
    /\ deployer.stage = "failing"
    /\ \/ Goes("restored") /\ launcher' = deployer.read
       \/ Goes("stuck") /\ UNCHANGED launcher
    /\ UNCHANGED <<pending, service, backups, runs>> /\ ScriptOnly

\* The second kickstart; its failure is swallowed
KickBack ==
    /\ deployer.stage = "restored"
    /\ Goes("rolled back")
    /\ \/ service' = Process /\ pending' = NoChange
       \/ UNCHANGED <<service, pending>>
    /\ UNCHANGED <<launcher, backups, runs>> /\ ScriptOnly

\* Ctrl-C or a signal: no handler of the script runs
KillScript ==
    /\ deployer.stage \in Active
    /\ Goes("killed")
    /\ UNCHANGED <<pending, service, launcher, backups, runs>> /\ ScriptOnly

-----------------------------------------------------------------------------
\* The rows of the snapshot d, in the columns it has, are the same in m
SameRows(d, m) ==
    /\ d.anon = m.anon
    /\ "billing" \in d.cols =>
         \A c \in Credentials : d.principal[c] # "absent" => m.principal[c] = d.principal[c]

\* A whole startup of the Store on a copy: all columns, the anonymous account, a key
StartedUp(m, k) ==
    [m EXCEPT !.cols = AllColumns, !.anon = TRUE, !.key = IF m.key = "none" THEN k ELSE m.key]
Startups(d) == {StartedUp(m, k) : m \in Assignments(d), k \in KeyIds}

\* _check_identity_prerequisites
HasPrincipals(d) == "billing" \in d.cols /\ Unassigned(d) = {}

\* _assert_existing_provider: an active credential with its node and account
HasProvider(d) == d.cols = AllColumns /\ \E c \in Credentials : d.principal[c] \in PrincipalIds

\* Variant of Passes: compares the numbers of the provider tokens only
PassesByCount(d, m) == HasPrincipals(d)

\* Fingerprints before and after
Passes(d, m) == (HasPrincipals(d) \/ HasProvider(d)) /\ SameRows(d, m)

\* backup_and_rehearse, run_preflight: the source is only read, the copy migrated.
\* Operators rehearse before they deploy (docs/guides/alpha-two-machine-validation.md)
Rehearse ==
    /\ runs = 0 /\ rehearsed = {}
    /\ \E m \in Startups(db) : rehearsed' = IF Passes(db, m) THEN {db} ELSE {}
    /\ UNCHANGED <<db, pending, service, launcher, deployer, backups, before, runs, stops>>

-----------------------------------------------------------------------------
DeploymentInit ==
    /\ before \in [cols : Schemas, route : BOOLEAN, production : BOOLEAN]
    /\ before.route => before.cols = AllColumns
    /\ \E anon \in BOOLEAN, key \in {"none"} \cup KeyIds, issued \in SUBSET Credentials :
         \E p \in [Credentials -> PrincipalIds \cup {"unset", "absent"}] :
           /\ \A c \in Credentials :
                IF c \notin issued THEN p[c] = "absent"
                ELSE IF "billing" \in before.cols THEN p[c] \in PrincipalIds ELSE p[c] = "unset"
           /\ \A a, b \in issued : "billing" \in before.cols /\ p[a] = p[b] => a = b
           /\ db = [cols |-> before.cols, principal |-> p, anon |-> anon, key |-> key]
    /\ pending = NoChange
    /\ service = [version |-> "old", state |-> "serving", step |-> 1]
    /\ launcher = "old"
    /\ deployer = [stage |-> "idle", read |-> "old"]
    /\ backups = {} /\ rehearsed = {}
    /\ runs = 0 /\ stops = 0

Migrating ==
    \/ OldStarts
    \/ \E c \in AllColumns : AddColumn(c)
    \/ AssignPrincipals \/ CommitMigration \/ EnsureAccount \/ EnsureDefaultKey

DeploymentNext ==
    \/ Migrating
    \/ Launch \/ Stop
    \/ \E c \in Credentials : Issue(c)
    \/ Prepare \/ BackUp \/ WriteLauncher \/ Kick \/ PollReady \/ Restore \/ KickBack \/ KillScript
    \/ Rehearse

DeploymentSpec == DeploymentInit /\ [][DeploymentNext]_deploymentVars

\* A started process goes on, and launchd starts one that is down
DeploymentFairness == WF_deploymentVars(Migrating) /\ WF_deploymentVars(Launch)

-----------------------------------------------------------------------------
\* Whatever was interrupted, a credential that a release with principals has
\* seen shares its principal with no other one (_migrate, #136).
PrincipalsAreSeparate ==
    \A a, b \in Credentials : db.principal[a] = db.principal[b] /\ db.principal[a] \in PrincipalIds
                                  => a = b

\* No request is served by the new release before every column is there, every
\* older credential has its principal, and the anonymous account exists.  What
\* the previous release issues after a rollback waits for the next start.
ServesMigrated ==
    service.state = "serving" /\ service.version = "new" =>
        db.cols = AllColumns /\ Unassigned(db) = {} /\ db.anon /\ pending = NoChange

\* Whatever the scripts went through, a database that the new release has
\* touched can be had back as the previous release left it.
BackupPrecedesMigration ==
    db.cols # before.cols => \E b \in backups : b.cols = before.cols

\* What a rehearsal found unchanged on the copy stays so in the live database,
\* over later deployments, rollbacks and interrupted starts.
RehearsedRowsSurvive == \A d \in rehearsed : SameRows(d, db)

\* Principals and the default key are never replaced, by no start of any kind.
IdentitiesAreStable ==
    [][/\ \A c \in Credentials : db.principal[c] \in PrincipalIds => db'.principal[c] = db.principal[c]
       /\ db.key # "none" => db'.key = db.key]_deploymentVars

\* The script says "deployed" only while the new release serves, and
\* "restored" only when the launcher is again the one it had read.
VerdictsAreTrue ==
    [][/\ deployer'.stage = "deployed" /\ deployer.stage # "deployed" =>
            launcher = "new" /\ service.version = "new" /\ service.state = "serving"
       /\ deployer'.stage = "rolled back" /\ deployer.stage # "rolled back" =>
            launcher' = deployer.read]_deploymentVars

\* However deployments end and wherever a start was interrupted, once processes
\* stop being stopped the coordinator serves again.
ServiceComesUp == <>[](service.state = "serving")

\* A deployment can be stopped, fail and be undone anywhere without harm.
DeploymentIsSafe ==
    /\ [](DeploymentTypeOK /\ PrincipalsAreSeparate /\ ServesMigrated
           /\ BackupPrecedesMigration /\ RehearsedRowsSurvive)
    /\ IdentitiesAreStable /\ VerdictsAreTrue

=============================================================================
