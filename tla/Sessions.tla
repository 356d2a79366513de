------------------------------ MODULE Sessions ------------------------------
(***************************************************************************)
(* Users, sessions, API keys and the operators' power over them            *)
(* (routes_auth.py, oauth_github.py, the account part of store.py).        *)
(*                                                                         *)
(* Every Store operation is one transaction under one lock, and a handler  *)
(* is one step except for the GitHub callback, which awaits GitHub between *)
(* the check of the state cookie and everything else.  The throttle of     *)
(* sign-in attempts is a refusal that may happen at any time (module       *)
(* Throttles has it).  Time is an integer; a suspension that never ends    *)
(* has the end MaxSessionTime + 1.                                         *)
(***************************************************************************)
EXTENDS Naturals, FiniteSets

CONSTANTS
    Users,          \* user ids: random, so never used twice
    Identities,     \* GitHub accounts
    Emails,
    Keys,           \* API key ids: random too
    Browsers,       \* each holds one OAuth state cookie
    Requests,       \* inference requests in flight
    Anonymous,      \* the shared account and the accounts of anonymous keys
    None,
    InProduction,     \* is_production()
    PasswordAuth,   \* password_auth_enabled()
    KeepsSecret,    \* IE_JWT_SECRET is set, so tokens survive a restart
    AdminLists,     \* what IE_ADMIN_EMAILS may be at a start
    SignupPaused,   \* IE_SIGNUP_DISABLED at a start
    TokenTtl, MaxSessionTime,
    MaxTokens, MaxVersion   \* bounds: sessions issued, sign-outs

ASSUME SessionsAssumption ==
    /\ None \notin Users \cup Identities \cup Emails \cup {Anonymous}
    /\ Anonymous \notin Users
    /\ InProduction \in BOOLEAN /\ PasswordAuth \in BOOLEAN
    /\ KeepsSecret \in BOOLEAN /\ SignupPaused \in BOOLEAN
    /\ AdminLists \subseteq SUBSET Emails
    /\ TokenTtl \in Nat \ {0} /\ MaxSessionTime \in Nat
    /\ MaxTokens \in Nat /\ MaxVersion \in Nat
    /\ InProduction => KeepsSecret

VARIABLES
    users,          \* the users table
    keys,           \* the api_keys table, keys of deleted users included
    tokens,         \* every session token signed with the present secret
    flows,          \* OAuth sign-ins under way
    running,        \* caller of each request in flight
    lastAction,     \* newest account_actions row of each user
    adminEmails,    \* IE_ADMIN_EMAILS of this process
    signupDisabled, \* operator control
    now,
    barred          \* history: identities banned and not unsuspended since

sessionVars == <<users, keys, tokens, flows, running, lastAction, adminEmails,
                 signupDisabled, now, barred>>

Forever == MaxSessionTime + 1
Roles == {"consumer", "admin"}
Absent == [state |-> "unused", email |-> None, github |-> None,
           password |-> FALSE, sv |-> 0, until |-> 0]
Token == [user : Users, email : Emails, role : Roles, sv : 0..MaxVersion,
          exp : 0..(MaxSessionTime + TokenTtl)]

SessionsTypeOK ==
    /\ users \in [Users -> [state : {"unused", "live", "deleted"},
                            email : Emails \cup {None},
                            github : Identities \cup {None},
                            password : BOOLEAN, sv : 0..MaxVersion,
                            until : 0..Forever]]
    /\ keys \in [Keys -> [state : {"unused", "live", "revoked", "deleted"},
                          owner : Users \cup {Anonymous, None}]]
    /\ tokens \subseteq Token
    /\ flows \in [Browsers -> [stage : {"none", "redirected", "exchanging"},
                               identity : Identities \cup {None}]]
    /\ running \in [Requests -> Users \cup {Anonymous, None}]
    /\ lastAction \in [Users -> {"none", "suspend", "ban", "unsuspend"}]
    /\ adminEmails \subseteq Emails
    /\ signupDisabled \in BOOLEAN
    /\ now \in 0..MaxSessionTime
    /\ barred \subseteq Identities

Live(u) == u \in Users /\ users[u].state = "live"

\* get_suspension: no row, or an end in the past, is no suspension
IsSuspended(u) == Live(u) /\ users[u].until > now

\* resolve_user_from_request: signature, expiry and session version
Resolves(t) == /\ t \in tokens
               /\ t.exp >= now
               /\ Live(t.user)
               /\ users[t.user].sv = t.sv

RoleFor(email) == IF email \in adminEmails THEN "admin" ELSE "consumer"

\* Variant of AdminSession: believes the role in the token
AdminByToken(t) == Resolves(t) /\ t.role = "admin"

\* has_verified_admin_session
AdminSession(t) == /\ Resolves(t)
                   /\ t.role = "admin"
                   /\ users[t.user].email = t.email
                   /\ ~IsSuspended(t.user)
                   /\ RoleFor(users[t.user].email) = "admin"

\* is_admin_request: or the bootstrap of an empty development database
AdminRequest == \/ \E t \in tokens : AdminSession(t)
                \/ ~InProduction /\ \A u \in Users : ~Live(u)

\* _session_token and _set_session for the row of u as it is after this step
IssueSession(u) ==
    /\ Cardinality(tokens) < MaxTokens
    /\ tokens' = tokens \cup
         {[user |-> u, email |-> users'[u].email, role |-> RoleFor(users'[u].email),
           sv |-> users'[u].sv, exp |-> now + TokenTtl]}

\* INSERT INTO users; email and github_id are UNIQUE
InsertUser(u, e, g, password) ==
    /\ users[u].state = "unused"
    /\ \A v \in Users : Live(v) => users[v].email # e
    /\ \A v \in Users : Live(v) /\ g # None => users[v].github # g
    /\ users' = [users EXCEPT ![u] = [state |-> "live", email |-> e, github |-> g,
                                      password |-> password, sv |-> 0, until |-> 0]]

-----------------------------------------------------------------------------
\* signup: a user, a default key and a session
Signup(u, e, k) ==
    /\ PasswordAuth
    /\ ~signupDisabled
    /\ InsertUser(u, e, None, TRUE)
    /\ keys[k].state = "unused"
    /\ keys' = [keys EXCEPT ![k] = [state |-> "live", owner |-> u]]
    /\ IssueSession(u)
    /\ UNCHANGED <<flows, running, lastAction, adminEmails, signupDisabled, now, barred>>

\* login with the right password
Login(u) ==
    /\ PasswordAuth
    /\ Live(u) /\ users[u].password
    /\ ~IsSuspended(u)
    /\ users' = users
    /\ IssueSession(u)
    /\ UNCHANGED <<keys, flows, running, lastAction, adminEmails, signupDisabled, now, barred>>

\* github_login sets the state cookie
GithubLogin(b) ==
    /\ flows[b].stage = "none"
    /\ flows' = [flows EXCEPT ![b].stage = "redirected"]
    /\ UNCHANGED <<users, keys, tokens, running, lastAction, adminEmails,
                   signupDisabled, now, barred>>

\* github_callback with the state of the cookie, up to the await of GitHub
GithubCallback(b, g) ==
    /\ flows[b].stage = "redirected"
    /\ flows' = [flows EXCEPT ![b] = [stage |-> "exchanging", identity |-> g]]
    /\ UNCHANGED <<users, keys, tokens, running, lastAction, adminEmails,
                   signupDisabled, now, barred>>

FlowEnds(b) == flows' = [flows EXCEPT ![b] = [stage |-> "none", identity |-> None]]

\* The exchange fails, or the account is too new
GithubFails(b) ==
    /\ flows[b].stage = "exchanging"
    /\ FlowEnds(b)
    /\ UNCHANGED <<users, keys, tokens, running, lastAction, adminEmails,
                   signupDisabled, now, barred>>

HasGithubUser(g) == \E u \in Users : Live(u) /\ users[u].github = g

\* The callback after the await, an identity that has an account
GithubReturns(b) ==
    /\ flows[b].stage = "exchanging"
    /\ \E u \in Users :
         /\ Live(u) /\ users[u].github = flows[b].identity
         /\ users' = users
         /\ IF IsSuspended(u) THEN tokens' = tokens ELSE IssueSession(u)
    /\ FlowEnds(b)
    /\ UNCHANGED <<keys, running, lastAction, adminEmails, signupDisabled, now, barred>>

\* Variant of GithubCreates: the switch was looked at before the await
GithubCreatesUnchecked(b, u, e) ==
    /\ flows[b].stage = "exchanging"
    /\ ~HasGithubUser(flows[b].identity)
    /\ InsertUser(u, e, flows[b].identity, FALSE)
    /\ IssueSession(u)
    /\ FlowEnds(b)
    /\ UNCHANGED <<keys, running, lastAction, adminEmails, signupDisabled, now, barred>>

\* The callback after the await, an identity without one: a user and a session,
\* or a refusal because sign-up is paused or the e-mail is taken
GithubCreates(b, u, e) ==
    /\ flows[b].stage = "exchanging"
    /\ ~HasGithubUser(flows[b].identity)
    /\ ~signupDisabled
    /\ InsertUser(u, e, flows[b].identity, FALSE)
    /\ IssueSession(u)
    /\ FlowEnds(b)
    /\ UNCHANGED <<keys, running, lastAction, adminEmails, signupDisabled, now, barred>>

GithubRefused(b) ==
    /\ flows[b].stage = "exchanging"
    /\ ~HasGithubUser(flows[b].identity)
    /\ \/ signupDisabled
       \/ \E v \in Users : Live(v)
    /\ FlowEnds(b)
    /\ UNCHANGED <<users, keys, tokens, running, lastAction, adminEmails,
                   signupDisabled, now, barred>>

-----------------------------------------------------------------------------
\* logout: sign out everywhere
Logout(t) ==
    /\ Resolves(t)
    /\ users[t.user].sv < MaxVersion
    /\ users' = [users EXCEPT ![t.user].sv = @ + 1]
    /\ UNCHANGED <<keys, tokens, flows, running, lastAction, adminEmails,
                   signupDisabled, now, barred>>

\* Variant of DeleteAccount: checks the token's signature only
DeleteAccountBySignature(t) ==
    /\ t.exp >= now /\ Live(t.user)
    /\ users' = [users EXCEPT ![t.user] = [@ EXCEPT !.state = "deleted"]]
    /\ keys' = [k \in Keys |-> IF keys[k].owner = t.user
                               THEN [keys[k] EXCEPT !.state = "deleted"] ELSE keys[k]]
    /\ UNCHANGED <<tokens, flows, running, lastAction, adminEmails,
                   signupDisabled, now, barred>>

\* Variant of DeleteAccount: leaves the keys
DeleteAccountKeepingKeys(t) ==
    /\ Resolves(t) /\ ~IsSuspended(t.user)
    /\ users' = [users EXCEPT ![t.user] = [@ EXCEPT !.state = "deleted"]]
    /\ UNCHANGED <<keys, tokens, flows, running, lastAction, adminEmails,
                   signupDisabled, now, barred>>

\* delete_account of a user without provider nodes
DeleteAccount(t) ==
    /\ Resolves(t)
    /\ ~IsSuspended(t.user)
    /\ users' = [users EXCEPT ![t.user] = [@ EXCEPT !.state = "deleted"]]
    /\ keys' = [k \in Keys |-> IF keys[k].owner = t.user
                               THEN [keys[k] EXCEPT !.state = "deleted"] ELSE keys[k]]
    /\ UNCHANGED <<tokens, flows, running, lastAction, adminEmails,
                   signupDisabled, now, barred>>

CreateKey(t, k) ==
    /\ Resolves(t)
    /\ ~IsSuspended(t.user)
    /\ keys[k].state = "unused"
    /\ keys' = [keys EXCEPT ![k] = [state |-> "live", owner |-> t.user]]
    /\ UNCHANGED <<users, tokens, flows, running, lastAction, adminEmails,
                   signupDisabled, now, barred>>

\* create_api_key without a session: a new funded account, in development only
CreateAnonymousKey(k) ==
    /\ ~InProduction
    /\ keys[k].state = "unused"
    /\ keys' = [keys EXCEPT ![k] = [state |-> "live", owner |-> Anonymous]]
    /\ UNCHANGED <<users, tokens, flows, running, lastAction, adminEmails,
                   signupDisabled, now, barred>>

RevokeKey(t, k) ==
    /\ Resolves(t)
    /\ keys[k] = [state |-> "live", owner |-> t.user]
    /\ keys' = [keys EXCEPT ![k].state = "revoked"]
    /\ UNCHANGED <<users, tokens, flows, running, lastAction, adminEmails,
                   signupDisabled, now, barred>>

\* resolve_caller for an inference request: a session first, else a key
AdmitSession(r, t) ==
    /\ running[r] = None
    /\ Resolves(t)
    /\ ~IsSuspended(t.user)
    /\ running' = [running EXCEPT ![r] = t.user]
    /\ UNCHANGED <<users, keys, tokens, flows, lastAction, adminEmails,
                   signupDisabled, now, barred>>

\* Variant of AdmitKey: forgets the suspension
AdmitKeyUnchecked(r, k) ==
    /\ running[r] = None
    /\ keys[k].state = "live"
    /\ running' = [running EXCEPT ![r] = keys[k].owner]
    /\ UNCHANGED <<users, keys, tokens, flows, lastAction, adminEmails,
                   signupDisabled, now, barred>>

AdmitKey(r, k) ==
    /\ running[r] = None
    /\ keys[k].state = "live"
    /\ ~IsSuspended(keys[k].owner)
    /\ running' = [running EXCEPT ![r] = keys[k].owner]
    /\ UNCHANGED <<users, keys, tokens, flows, lastAction, adminEmails,
                   signupDisabled, now, barred>>

\* No credential at all: the shared account, in development only
AdmitAnonymous(r) ==
    /\ running[r] = None
    /\ ~InProduction
    /\ running' = [running EXCEPT ![r] = Anonymous]
    /\ UNCHANGED <<users, keys, tokens, flows, lastAction, adminEmails,
                   signupDisabled, now, barred>>

RequestEnds(r) ==
    /\ running[r] # None
    /\ running' = [running EXCEPT ![r] = None]
    /\ UNCHANGED <<users, keys, tokens, flows, lastAction, adminEmails,
                   signupDisabled, now, barred>>

-----------------------------------------------------------------------------
\* Variant of Suspend: leaves the sessions
SuspendKeepingSessions(u, until) ==
    /\ AdminRequest
    /\ Live(u)
    /\ until > now
    /\ users' = [users EXCEPT ![u].until = until]
    /\ lastAction' = [lastAction EXCEPT ![u] = IF until = Forever THEN "ban" ELSE "suspend"]
    /\ UNCHANGED <<keys, tokens, flows, running, adminEmails, signupDisabled, now, barred>>

\* Variant of Suspend: adds the end to the present time
SuspendLonger(u, until) ==
    /\ AdminRequest
    /\ Live(u)
    /\ until > now
    /\ users[u].sv < MaxVersion
    /\ users' = [users EXCEPT ![u].until = now + until, ![u].sv = @ + 1]
    /\ lastAction' = [lastAction EXCEPT ![u] = IF until = Forever THEN "ban" ELSE "suspend"]
    /\ UNCHANGED <<keys, tokens, flows, running, adminEmails, signupDisabled, now, barred>>

\* suspend_account until the given time; Forever is a ban.  Ends all sessions.
Suspend(u, until) ==
    /\ AdminRequest
    /\ Live(u)
    /\ until > now
    /\ users[u].sv < MaxVersion
    /\ users' = [users EXCEPT ![u].until = until, ![u].sv = @ + 1]
    /\ lastAction' = [lastAction EXCEPT ![u] = IF until = Forever THEN "ban" ELSE "suspend"]
    /\ barred' = IF users[u].github = None THEN barred
                 ELSE IF until = Forever THEN barred \cup {users[u].github}
                 ELSE barred \ {users[u].github}
    /\ UNCHANGED <<keys, tokens, flows, running, adminEmails, signupDisabled, now>>

\* Variant of Unsuspend: gives the sessions back
UnsuspendRestoring(u) ==
    /\ AdminRequest
    /\ Live(u) /\ users[u].sv > 0
    /\ users' = [users EXCEPT ![u].until = 0, ![u].sv = @ - 1]
    /\ lastAction' = [lastAction EXCEPT ![u] = "unsuspend"]
    /\ UNCHANGED <<keys, tokens, flows, running, adminEmails, signupDisabled, now, barred>>

\* Variant of Unsuspend: without the row in the audit trail
UnsuspendSilently(u) ==
    /\ AdminRequest
    /\ Live(u)
    /\ users' = [users EXCEPT ![u].until = 0]
    /\ UNCHANGED <<keys, tokens, flows, running, lastAction, adminEmails, signupDisabled,
                   now, barred>>

\* unsuspend_account
Unsuspend(u) ==
    /\ AdminRequest
    /\ Live(u)
    /\ users' = [users EXCEPT ![u].until = 0]
    /\ lastAction' = [lastAction EXCEPT ![u] = "unsuspend"]
    /\ barred' = barred \ {users[u].github}
    /\ UNCHANGED <<keys, tokens, flows, running, adminEmails, signupDisabled, now>>

\* update_operator_controls
SetSignup(flag) ==
    /\ AdminRequest
    /\ signupDisabled' = flag
    /\ UNCHANGED <<users, keys, tokens, flows, running, lastAction, adminEmails,
                   now, barred>>

SessionTick ==
    /\ now < MaxSessionTime
    /\ now' = now + 1
    /\ UNCHANGED <<users, keys, tokens, flows, running, lastAction, adminEmails,
                   signupDisabled, barred>>

\* The database stays; controls and the allowlist come from the environment
\* again, requests and callbacks under way are gone (the browser keeps its
\* cookie), and so are all tokens if the secret was made up at the start
Restart ==
    /\ tokens' = IF KeepsSecret THEN tokens ELSE {}
    /\ flows' = [b \in Browsers |-> IF flows[b].stage = "exchanging"
                                    THEN [stage |-> "redirected", identity |-> None]
                                    ELSE flows[b]]
    /\ running' = [r \in Requests |-> None]
    /\ adminEmails' \in AdminLists
    /\ signupDisabled' = SignupPaused
    /\ UNCHANGED <<users, keys, lastAction, now, barred>>

SessionsInit ==
    /\ users = [u \in Users |-> Absent]
    /\ keys = [k \in Keys |-> [state |-> "unused", owner |-> None]]
    /\ tokens = {}
    /\ flows = [b \in Browsers |-> [stage |-> "none", identity |-> None]]
    /\ running = [r \in Requests |-> None]
    /\ lastAction = [u \in Users |-> "none"]
    /\ adminEmails \in AdminLists
    /\ signupDisabled = SignupPaused
    /\ now = 0
    /\ barred = {}

SessionsNext ==
    \/ \E u \in Users, e \in Emails, k \in Keys : Signup(u, e, k)
    \/ \E u \in Users : Login(u)
    \/ \E b \in Browsers : GithubLogin(b) \/ GithubFails(b) \/ GithubReturns(b) \/ GithubRefused(b)
    \/ \E b \in Browsers, g \in Identities : GithubCallback(b, g)
    \/ \E b \in Browsers, u \in Users, e \in Emails : GithubCreates(b, u, e)
    \/ \E t \in tokens : Logout(t) \/ DeleteAccount(t)
    \/ \E t \in tokens, k \in Keys : CreateKey(t, k) \/ RevokeKey(t, k)
    \/ \E t \in tokens, r \in Requests : AdmitSession(r, t)
    \/ \E k \in Keys, r \in Requests : AdmitKey(r, k)
    \/ \E k \in Keys : CreateAnonymousKey(k)
    \/ \E r \in Requests : AdmitAnonymous(r) \/ RequestEnds(r)
    \/ \E u \in Users, until \in 1..Forever : Suspend(u, until)
    \/ \E u \in Users : Unsuspend(u)
    \/ \E flag \in BOOLEAN : SetSignup(flag)
    \/ SessionTick
    \/ Restart

SessionsSpec == SessionsInit /\ [][SessionsNext]_sessionVars

-----------------------------------------------------------------------------
\* While an account is suspended, no session token of it resolves, those
\* included that were issued before and those that a sign-in begun before the
\* suspension would get (AUTH-017; suspend_user, login, github_callback).
SuspensionEndsSessions ==
    \A t \in tokens : IsSuspended(t.user) => ~Resolves(t)

\* A key that authenticates belongs to an account that exists, so a charge of
\* its requests has an account to go to (delete_user, create_api_key).
KeysHaveOwners ==
    \A k \in Keys : keys[k].state = "live" =>
        keys[k].owner = Anonymous \/ Live(keys[k].owner)

\* A banned GitHub identity is not shed by deleting the account and signing up
\* again: until an operator lifts the ban, the only account of the identity
\* is the banned one (delete_account, upsert_github_user).
BanIsNotShed ==
    \A g \in barred : \E u \in Users :
        /\ Live(u) /\ users[u].github = g /\ users[u].until = Forever
        /\ \A v \in Users : Live(v) /\ users[v].github = g => v = u

\* The newest row of the audit trail tells whether a suspension was set, and
\* whether for good (suspend_user and unsuspend_user write both or neither).
AuditTellsSuspension ==
    \A u \in Users : Live(u) =>
        /\ users[u].until = Forever <=> lastAction[u] = "ban"
        /\ users[u].until = 0 <=> lastAction[u] \in {"none", "unsuspend"}

\* A session that stopped working never works again: not after a later
\* sign-in, an unsuspension, a restart, or for another user (AUTH-004).
RevokedStayRevoked ==
    [][\A t \in tokens : ~Resolves(t) => ~Resolves(t)']_sessionVars

\* While an account is suspended nothing new is done in its name: no request is
\* admitted by any credential, no key is created, no session is issued (AUTH-017).
SuspendedStartNothing ==
    [][/\ \A r \in Requests : running'[r] # running[r] => ~IsSuspended(running'[r])
       /\ \A k \in Keys : keys[k].state # "live" /\ keys'[k].state = "live" =>
                            ~IsSuspended(keys'[k].owner)
       /\ \A t \in tokens' \ tokens : ~IsSuspended(t.user)]_sessionVars

\* While sign-up is paused no user is created, those included whose sign-in was
\* at GitHub when the operator paused (OPS-009; github_callback).
PausedCreatesNobody ==
    [][signupDisabled => \A u \in Users : Live(u)' => Live(u)]_sessionVars

\* Whoever changes a suspension or the sign-up switch is an administrator at
\* that moment: an existing, unsuspended user with an e-mail of the present
\* allowlist who holds an unrevoked session (AUTH-009, AUTH-010); the empty
\* development database is the exception the code makes.
OnlyAdminsOperate ==
    [][lastAction' # lastAction \/ signupDisabled' \notin {signupDisabled, SignupPaused} =>
          \/ \E t \in tokens : /\ Live(t.user) /\ ~IsSuspended(t.user)
                               /\ users[t.user].email \in adminEmails
                               /\ t.exp >= now /\ t.sv = users[t.user].sv
          \/ ~InProduction /\ \A u \in Users : ~Live(u)]_sessionVars

\* The state of users, sessions and keys is one that suspensions, bans and
\* deletions have left in order.
AccountsAreInOrder ==
    /\ SessionsTypeOK
    /\ SuspensionEndsSessions /\ KeysHaveOwners /\ BanIsNotShed /\ AuditTellsSuspension

\* The operators' decisions hold for every step, cannot be undone by waiting, and
\* only they take them.
OperatorsDecide ==
    /\ RevokedStayRevoked /\ SuspendedStartNothing
    /\ PausedCreatesNobody /\ OnlyAdminsOperate

=============================================================================
