---------------------------- MODULE Accounts_proofs ----------------------------
(***************************************************************************)
(* Proofs about ProviderAdmission, for every set of owners, credentials,   *)
(* sockets and handlers and every cap, and about Sessions, for any number  *)
(* of users, identities, keys, tokens and requests.                        *)
(***************************************************************************)
EXTENDS ProviderAdmission, Sessions, FiniteSetTheorems, TLAPS

(* A step of the accounts keeps their types.                                 *)
LEMMA IssueType ==
  ASSUME AccountsTypeOK, NEW t \in Tokens, NEW s \in {"admin", "self_service"},
         NEW o \in Owners \cup {NoOwner}, Issue(t, s, o)
  PROVE  AccountsTypeOK'
BY AccountsAssumption DEF AccountsTypeOK, Issue, userVars

LEMMA AccountType ==
  ASSUME AccountsTypeOK, Account
  PROVE  AccountsTypeOK'
<1>1. ASSUME NEW o \in Owners, CreateUser(o) \/ DeleteUser(o) \/ UnsuspendUser(o)
      PROVE  AccountsTypeOK'
  BY <1>1 DEF AccountsTypeOK, CreateUser, DeleteUser, UnsuspendUser, tokenVars
<1>2. ASSUME NEW t \in Tokens, CreateProviderToken(t) PROVE AccountsTypeOK'
  BY <1>2, IssueType DEF CreateProviderToken
<1>3. ASSUME NEW o \in Owners, NEW t \in Tokens, ClaimLegacyProvider(t, o)
      PROVE  AccountsTypeOK'
  BY <1>3 DEF AccountsTypeOK, ClaimLegacyProvider, userVars
<1>4. ASSUME NEW o \in Owners, NEW t \in Tokens, EnrollProviderNode(o, t)
      PROVE  AccountsTypeOK'
  BY <1>4, IssueType DEF EnrollProviderNode
<1>5. CASE Tick
  BY <1>5, AccountsAssumption DEF AccountsTypeOK, Tick, userVars, tokenVars
<1>6. QED
  BY <1>1, <1>2, <1>3, <1>4, <1>5 DEF Account

(* The parts of the accounts that handlers change.                           *)
LEMMA HandlerAccountType ==
  ASSUME AccountsTypeOK,
         \/ \E t \in Tokens : RevokeToken(t)
         \/ \E o \in Owners : SuspendUser(o)
         \/ UNCHANGED accountVars
  PROVE  AccountsTypeOK'
<1>1. ASSUME NEW t \in Tokens, RevokeToken(t) PROVE AccountsTypeOK'
  BY <1>1 DEF AccountsTypeOK, RevokeToken, userVars
<1>2. ASSUME NEW o \in Owners, SuspendUser(o) PROVE AccountsTypeOK'
  <2>1. PICK until \in {clock + d : d \in Durations} \cup {Permanent} :
          suspendedUntil' = [suspendedUntil EXCEPT ![o] = until]
    BY <1>2 DEF SuspendUser
  <2>2. until \in Nat
    <3>1. clock \in Nat /\ Durations \subseteq Nat /\ Permanent \in Nat
      BY AccountsAssumption DEF AccountsTypeOK
    <3>2. \A d \in Durations : clock + d \in Nat
      BY <3>1
    <3>3. QED
      BY <2>1, <3>1, <3>2
  <2>3. QED
    BY <1>2, <2>1, <2>2 DEF AccountsTypeOK, SuspendUser, tokenVars
<1>3. CASE UNCHANGED accountVars
  BY <1>3 DEF AccountsTypeOK, accountVars, userVars, tokenVars
<1>4. QED
  BY <1>1, <1>2, <1>3

(* Every start or continuation of a handler is one of these.                 *)
LEMMA SweepCases ==
  ASSUME NEW h \in Sweeps, Sweep(h)
  PROVE  \/ \E t \in Tokens : RevokeToken(t) /\ todo[h] = {} /\ SweepOn(h, Using(t))
         \/ \E o \in Owners : SuspendUser(o) /\ todo[h] = {} /\ SweepOn(h, UsedBy(o))
         \/ UNCHANGED accountVars /\ SweepOn(h, todo[h])
BY DEF Sweep, AdminRevokes, OwnerRevokes, RevokeOwnedCredential, AdminSuspends,
       ContinueSweep

(* What a sweep leaves typed.                                                *)
LEMMA SweepType ==
  ASSUME TypeOK, NEW h \in Sweeps, NEW S, SweepOn(h, S)
  PROVE  /\ phase' \in [Sockets -> Phases]
         /\ credential' = credential /\ pendingCount' = pendingCount
         /\ todo' \in [Sweeps -> SUBSET Sockets]
<1>1. CASE S \cap Registered = {}
  BY <1>1 DEF TypeOK, SweepOn
<1>2. CASE S \cap Registered # {}
  <2>1. PICK s \in S \cap Registered :
          /\ phase' = [phase EXCEPT ![s] = "closing"]
          /\ todo' = [todo EXCEPT ![h] = (S \cap Registered) \ {s}]
    BY <1>2 DEF SweepOn, Moves
  <2>2. (S \cap Registered) \ {s} \in SUBSET Sockets
    BY DEF Registered
  <2>3. QED
    BY <1>2, <2>1, <2>2 DEF TypeOK, SweepOn, Phases
<1>3. QED
  BY <1>1, <1>2

-----------------------------------------------------------------------------
(* Every variable keeps its type; in particular at most MaxPending sockets   *)
(* are in the handshake.                                                     *)
THEOREM TypeCorrect == Spec => []TypeOK
<1>1. Init => TypeOK
  BY AdmissionAssumption, AccountsAssumption
  DEF Init, TypeOK, AccountsInit, AccountsTypeOK, Phases, Incomplete
<1>2. TypeOK /\ [Next]_vars => TypeOK'
  <2> SUFFICES ASSUME TypeOK, [Next]_vars PROVE TypeOK'
    OBVIOUS
  <2>1. ASSUME NEW s \in Sockets, Socket(s) PROVE TypeOK'
    <3>1. AccountsTypeOK'
      BY <2>1, HandlerAccountType
      DEF TypeOK, Socket, RejectUpgrade, AcceptUpgrade, Register,
          RefuseRegistration, EndRegistration, EndConnection, AdminDisconnects
    <3>2. ASSUME NEW c \in Tokens \cup {NoToken}, AcceptUpgrade(s, c) PROVE TypeOK'
      BY <3>1, <3>2, AdmissionAssumption
      DEF TypeOK, AcceptUpgrade, Moves, Phases, Incomplete
    <3>3. CASE Register(s) \/ EndRegistration(s)
      BY <3>1, <3>3, AdmissionAssumption
      DEF TypeOK, Register, EndRegistration, GuardFinish, Moves, Phases, Incomplete
    <3>4. CASE \/ RejectUpgrade(s) \/ RefuseRegistration(s) \/ EndConnection(s)
               \/ AdminDisconnects(s)
      BY <3>1, <3>4
      DEF TypeOK, RejectUpgrade, RefuseRegistration, EndConnection,
          AdminDisconnects, Moves, Phases, Incomplete
    <3>5. QED
      BY <2>1, <3>2, <3>3, <3>4 DEF Socket
  <2>2. CASE Account
    BY <2>2, AccountType DEF TypeOK, Account, socketVars
  <2>3. ASSUME NEW h \in Sweeps, Sweep(h) PROVE TypeOK'
    <3>1. AccountsTypeOK'
      BY <2>3, SweepCases, HandlerAccountType DEF TypeOK
    <3>2. \E S : SweepOn(h, S)
      BY <2>3, SweepCases
    <3>3. QED
      BY <3>1, <3>2, SweepType DEF TypeOK
  <2>4. CASE UNCHANGED vars
    BY <2>4, HandlerAccountType DEF TypeOK, vars, socketVars
  <2>5. QED
    BY <2>1, <2>2, <2>3, <2>4 DEF Next
<1>3. QED
  BY <1>1, <1>2, PTL DEF Spec

-----------------------------------------------------------------------------
(* No step of the accounts, other than those of a disconnecting handler,     *)
(* takes the use of a credential away.                                       *)
LEMMA ActiveKept ==
  ASSUME AccountsTypeOK, Account, NEW t \in Tokens, CredentialIsActive(t)
  PROVE  CredentialIsActive(t)'
<1> USE AccountsAssumption DEF AccountsTypeOK, CredentialIsActive, Suspended, Issued
<1>1. ASSUME NEW o \in Owners, CreateUser(o) \/ DeleteUser(o) \/ UnsuspendUser(o)
      PROVE  CredentialIsActive(t)'
  BY <1>1 DEF CreateUser, DeleteUser, UnsuspendUser, tokenVars
<1>2. ASSUME NEW u \in Tokens, CreateProviderToken(u) PROVE CredentialIsActive(t)'
  BY <1>2 DEF CreateProviderToken, Issue, userVars
<1>3. ASSUME NEW o \in Owners, NEW u \in Tokens, ClaimLegacyProvider(u, o)
      PROVE  CredentialIsActive(t)'
  BY <1>3 DEF ClaimLegacyProvider, InGoodStanding, userVars
<1>4. ASSUME NEW o \in Owners, NEW u \in Tokens, EnrollProviderNode(o, u)
      PROVE  CredentialIsActive(t)'
  BY <1>4 DEF EnrollProviderNode, InGoodStanding, Issue, userVars
<1>5. CASE Tick
  BY <1>5 DEF Tick, userVars, tokenVars
<1>6. QED
  BY <1>1, <1>2, <1>3, <1>4, <1>5 DEF Account

(* A revocation takes only the use of the credential away, a suspension only *)
(* that of the owner's.                                                      *)
LEMMA OthersKept ==
  ASSUME AccountsTypeOK, NEW t \in Tokens, CredentialIsActive(t)
  PROVE  /\ \A u \in Tokens : RevokeToken(u) /\ t # u => CredentialIsActive(t)'
         /\ \A o \in Owners :
              SuspendUser(o) /\ t \notin OwnedTokens(o) => CredentialIsActive(t)'
         /\ UNCHANGED accountVars => CredentialIsActive(t)'
<1> USE DEF AccountsTypeOK, CredentialIsActive, Suspended, Issued
<1>1. ASSUME NEW u \in Tokens, RevokeToken(u), t # u PROVE CredentialIsActive(t)'
  BY <1>1 DEF RevokeToken, userVars
<1>2. ASSUME NEW o \in Owners, SuspendUser(o), t \notin OwnedTokens(o)
      PROVE  CredentialIsActive(t)'
  BY <1>2 DEF SuspendUser, OwnedTokens, tokenVars
<1>3. ASSUME UNCHANGED accountVars PROVE CredentialIsActive(t)'
  BY <1>3 DEF accountVars, userVars, tokenVars
<1>4. QED
  BY <1>1, <1>2, <1>3

(* A handler forgets only providers that have left the hub.                  *)
LEMMA SweepForgets ==
  ASSUME TypeOK, NEW h \in Sweeps, NEW S, SweepOn(h, S), NEW s \in Registered'
  PROVE  /\ s \in Registered
         /\ s \in S => s \in todo'[h]
         /\ \A g \in Sweeps \ {h} : todo'[g] = todo[g]
<1>1. CASE S \cap Registered = {}
  BY <1>1 DEF TypeOK, SweepOn, Registered
<1>2. CASE S \cap Registered # {}
  <2>1. PICK r \in S \cap Registered :
          /\ phase' = [phase EXCEPT ![r] = "closing"]
          /\ todo' = [todo EXCEPT ![h] = (S \cap Registered) \ {r}]
    BY <1>2 DEF SweepOn, Moves
  <2>2. s # r /\ s \in Registered
    BY <2>1 DEF TypeOK, Registered
  <2>3. QED
    BY <2>1, <2>2 DEF TypeOK
<1>3. QED
  BY <1>1, <1>2

(* A step of a socket's own task leaves the handlers and accounts alone, and *)
(* only Register brings a provider into the hub.                             *)
LEMMA SocketStep ==
  ASSUME TypeOK, NEW s \in Sockets, Socket(s), NEW r \in Registered'
  PROVE  /\ UNCHANGED <<accountVars, todo>>
         /\ \/ r \in Registered /\ credential'[r] = credential[r]
            \/ r = s /\ Register(s) /\ credential' = credential
BY DEF TypeOK, Registered, Socket, RejectUpgrade, AcceptUpgrade, Register,
       RefuseRegistration, EndRegistration, EndConnection, AdminDisconnects, Moves

(* Whatever the order of handshakes, revocations, suspensions, claims and    *)
(* disconnecting handlers, a provider in the hub is entitled to be there or  *)
(* is on the list of a handler that is about to disconnect it.               *)
THEOREM RevokedNeverStay == Spec => []RevokedAreSwept
<1>1. Init => RevokedAreSwept
  BY DEF Init, RevokedAreSwept, Registered
<1>2. TypeOK /\ RevokedAreSwept /\ [Next]_vars => RevokedAreSwept'
  <2> SUFFICES ASSUME TypeOK, RevokedAreSwept, [Next]_vars, NEW r \in Registered'
               PROVE  \/ credential'[r] = NoToken
                      \/ CredentialIsActive(credential[r])'
                      \/ \E h \in Sweeps : r \in todo'[h]
    BY DEF RevokedAreSwept, Registered
  <2> USE DEF RevokedAreSwept
  <2>1. credential[r] = NoToken \/ credential[r] \in Tokens
    BY DEF TypeOK, Registered
  <2>2. ASSUME NEW s \in Sockets, Socket(s)
        PROVE  \/ credential'[r] = NoToken
               \/ CredentialIsActive(credential[r])'
               \/ \E h \in Sweeps : r \in todo'[h]
    <3>1. CASE r \in Registered /\ credential'[r] = credential[r]
      BY <2>1, <2>2, <3>1, SocketStep, OthersKept DEF TypeOK
    <3>2. CASE Register(r) /\ credential' = credential
      BY <2>1, <2>2, <3>2, SocketStep, OthersKept DEF TypeOK, Register
    <3>3. QED
      BY <2>2, <3>1, <3>2, SocketStep
  <2>3. CASE Account
    <3>1. r \in Registered /\ credential' = credential /\ todo' = todo
      BY <2>3 DEF Account, socketVars, Registered
    <3>2. QED
      BY <2>1, <2>3, <3>1, ActiveKept DEF TypeOK
  <2>4. ASSUME NEW h \in Sweeps, Sweep(h)
        PROVE  \/ credential'[r] = NoToken
               \/ CredentialIsActive(credential[r])'
               \/ \E g \in Sweeps : r \in todo'[g]
    <3>1. ASSUME NEW S, SweepOn(h, S)
          PROVE  r \in Registered /\ credential' = credential
      BY <3>1, SweepForgets DEF SweepOn
    <3>2. ASSUME NEW S, SweepOn(h, S), r \in S \/ \E g \in Sweeps \ {h} : r \in todo[g]
          PROVE  \E g \in Sweeps : r \in todo'[g]
      BY <3>2, SweepForgets
    <3>3. ASSUME NEW t \in Tokens, RevokeToken(t), todo[h] = {}, SweepOn(h, Using(t))
          PROVE  \/ credential'[r] = NoToken
                 \/ CredentialIsActive(credential[r])'
                 \/ \E g \in Sweeps : r \in todo'[g]
      BY <2>1, <3>1, <3>2, <3>3, OthersKept DEF TypeOK, Using
    <3>4. ASSUME NEW o \in Owners, SuspendUser(o), todo[h] = {}, SweepOn(h, UsedBy(o))
          PROVE  \/ credential'[r] = NoToken
                 \/ CredentialIsActive(credential[r])'
                 \/ \E g \in Sweeps : r \in todo'[g]
      BY <2>1, <3>1, <3>2, <3>4, OthersKept DEF TypeOK, UsedBy
    <3>5. CASE UNCHANGED accountVars /\ SweepOn(h, todo[h])
      BY <2>1, <3>1, <3>2, <3>5, OthersKept DEF TypeOK
    <3>6. QED
      BY <2>4, <3>3, <3>4, <3>5, SweepCases
  <2>5. CASE UNCHANGED vars
    BY <2>1, <2>5, OthersKept DEF TypeOK, vars, socketVars, Registered
  <2>6. QED
    BY <2>2, <2>3, <2>4, <2>5 DEF Next
<1>3. QED
  BY <1>1, <1>2, TypeCorrect, PTL DEF Spec

-----------------------------------------------------------------------------
(* The sockets in the handshake.                                             *)
Handshaking == {s \in Sockets : phase[s] \in Incomplete}

(* What a move of one socket does to them.                                   *)
LEMMA HandshakingMoves ==
  ASSUME TypeOK, NEW s \in Sockets, NEW to \in Phases, Moves(s, to)
  PROVE  /\ s \notin Handshaking /\ to \notin Incomplete => Handshaking' = Handshaking
         /\ s \in Handshaking /\ to \in Incomplete => Handshaking' = Handshaking
         /\ s \notin Handshaking /\ to \in Incomplete
              => /\ Handshaking' = Handshaking \cup {s}
                 /\ Cardinality(Handshaking') = Cardinality(Handshaking) + 1
         /\ s \in Handshaking /\ to \notin Incomplete
              => /\ Handshaking' = Handshaking \ {s}
                 /\ Cardinality(Handshaking') = Cardinality(Handshaking) - 1
<1>1. IsFiniteSet(Handshaking)
  BY AdmissionAssumption, FS_Subset DEF Handshaking
<1>2. phase' = [phase EXCEPT ![s] = to] /\ phase \in [Sockets -> Phases]
  BY DEF Moves, TypeOK
<1>3. /\ s \in Handshaking <=> phase[s] \in Incomplete
      /\ Handshaking' = IF to \in Incomplete THEN Handshaking \cup {s}
                                           ELSE Handshaking \ {s}
  BY <1>2 DEF Handshaking
<1>4. CASE s \notin Handshaking
  BY <1>1, <1>3, <1>4, FS_AddElement
<1>5. CASE s \in Handshaking
  BY <1>1, <1>3, <1>5, FS_RemoveElement
<1>6. QED
  BY <1>4, <1>5

(* Places in the handshake are neither lost nor given back twice.            *)
THEOREM PlacesCounted == Spec => []PendingIsCounted
<1> USE DEF PendingIsCounted
<1>1. Init => PendingIsCounted
  <2>1. Init => {s \in Sockets : phase[s] \in Incomplete} = {}
    BY DEF Init, Incomplete
  <2>2. QED
    BY <2>1, FS_EmptySet DEF Init
<1>2. TypeOK /\ PendingIsCounted /\ [Next]_vars => PendingIsCounted'
  <2> SUFFICES ASSUME TypeOK, PendingIsCounted, [Next]_vars
               PROVE  pendingCount' = Cardinality(Handshaking')
    BY DEF Handshaking
  <2>1. /\ pendingCount = Cardinality(Handshaking) /\ pendingCount \in Nat
        /\ IsFiniteSet(Handshaking)
    BY AdmissionAssumption, FS_Subset DEF TypeOK, Handshaking
  <2>2. ASSUME NEW s \in Sockets, Socket(s)
        PROVE  pendingCount' = Cardinality(Handshaking')
    <3>1. ASSUME NEW c \in Tokens \cup {NoToken}, AcceptUpgrade(s, c)
          PROVE  pendingCount' = Cardinality(Handshaking')
      BY <2>1, <3>1, HandshakingMoves DEF AcceptUpgrade, Handshaking, Phases, Incomplete
    <3>2. CASE Register(s) \/ EndRegistration(s)
      <4>1. /\ s \in Handshaking /\ GuardFinish
            /\ Moves(s, "registered") \/ Moves(s, "gone")
        BY <3>2 DEF Register, EndRegistration, Handshaking, Incomplete
      <4>2. pendingCount > 0
        BY <2>1, <4>1, FS_EmptySet
      <4>3. QED
        BY <2>1, <4>1, <4>2, HandshakingMoves DEF GuardFinish, Phases, Incomplete
    <3>3. CASE \/ RejectUpgrade(s) \/ RefuseRegistration(s) \/ EndConnection(s)
               \/ AdminDisconnects(s)
      BY <2>1, <3>3, HandshakingMoves
      DEF RejectUpgrade, RefuseRegistration, EndConnection, AdminDisconnects,
          Handshaking, Phases, Incomplete
    <3>4. QED
      BY <2>2, <3>1, <3>2, <3>3 DEF Socket
  <2>3. ASSUME NEW h \in Sweeps, NEW S, SweepOn(h, S)
        PROVE  pendingCount' = Cardinality(Handshaking')
    <3>1. CASE S \cap Registered = {}
      BY <2>1, <2>3, <3>1 DEF SweepOn, Handshaking
    <3>2. CASE S \cap Registered # {}
      <4>1. PICK s \in Registered : Moves(s, "closing")
        BY <2>3, <3>2 DEF SweepOn
      <4>2. s \in Sockets \ Handshaking
        BY <4>1 DEF Registered, Handshaking, Incomplete
      <4>3. QED
        BY <2>1, <2>3, <4>1, <4>2, HandshakingMoves DEF SweepOn, Phases, Incomplete
    <3>3. QED
      BY <3>1, <3>2
  <2>4. CASE Account \/ UNCHANGED vars
    BY <2>1, <2>4 DEF Account, vars, socketVars, Handshaking
  <2>5. QED
    BY <2>2, <2>3, <2>4, SweepCases DEF Next
<1>3. QED
  BY <1>1, <1>2, TypeCorrect, PTL DEF Spec

-----------------------------------------------------------------------------
(* No account is deleted under a node, however claims, enrollments and       *)
(* deletions interleave.                                                     *)
THEOREM OwnersStay == Spec => []NodesHaveOwners
<1> USE DEF NodesHaveOwners
<1>1. Init => NodesHaveOwners
  BY DEF Init, AccountsInit
<1>2. TypeOK /\ NodesHaveOwners /\ [Next]_vars => NodesHaveOwners'
  <2> SUFFICES ASSUME TypeOK, NodesHaveOwners, [Next]_vars PROVE NodesHaveOwners'
    OBVIOUS
  <2> USE DEF TypeOK, AccountsTypeOK
  <2>1. CASE UNCHANGED <<user, nodeOwner>>
    BY <2>1
  <2>2. ASSUME NEW o \in Owners, CreateUser(o) \/ DeleteUser(o) \/ UnsuspendUser(o)
        PROVE  NodesHaveOwners'
    BY <2>2 DEF CreateUser, DeleteUser, UnsuspendUser, OwnedTokens, tokenVars
  <2>3. ASSUME NEW t \in Tokens, NEW s, NEW o \in Owners \cup {NoOwner}, Issue(t, s, o),
               o # NoOwner => user[o] = "present"
        PROVE  NodesHaveOwners'
    BY <2>3 DEF Issue, userVars
  <2>4. ASSUME NEW o \in Owners, NEW t \in Tokens,
               ClaimLegacyProvider(t, o) \/ EnrollProviderNode(o, t)
        PROVE  NodesHaveOwners'
    BY <2>3, <2>4 DEF ClaimLegacyProvider, EnrollProviderNode, InGoodStanding, userVars
  <2>5. CASE Account
    BY <2>1, <2>2, <2>3, <2>4, <2>5
    DEF Account, CreateProviderToken, Tick, userVars, tokenVars
  <2>6. ASSUME NEW h \in Sweeps, Sweep(h) PROVE UNCHANGED <<user, nodeOwner>>
    BY <2>6, SweepCases DEF RevokeToken, SuspendUser, accountVars, userVars, tokenVars
  <2>7. ASSUME NEW s \in Sockets, Socket(s) PROVE UNCHANGED <<user, nodeOwner>>
    BY <2>7
    DEF Socket, RejectUpgrade, AcceptUpgrade, Register, RefuseRegistration,
        EndRegistration, EndConnection, AdminDisconnects, accountVars, userVars, tokenVars
  <2>8. CASE UNCHANGED vars
    BY <2>8 DEF vars, accountVars, userVars, tokenVars
  <2>9. QED
    BY <2>1, <2>5, <2>6, <2>7, <2>8 DEF Next
<1>3. QED
  BY <1>1, <1>2, TypeCorrect, PTL DEF Spec

(* Neither hub nor guard keeps what does not belong there (PROV-010).        *)
THEOREM AdmissionTidy == Spec => []AdmissionIsTidy
BY TypeCorrect, PlacesCounted, RevokedNeverStay, PTL DEF AdmissionIsTidy

-----------------------------------------------------------------------------
(* The caps of PROV-018.                                                     *)

Window(o, begin) == {t \in SelfService(o) : createdAt[t] \in begin..(begin + Day)}

(* A self-service credential is bound to a node when it is issued, so a      *)
(* claim never adds one.                                                     *)
EnrollInv ==
  /\ EnrollmentIsCapped
  /\ \A t \in Tokens : source[t] = "self_service" => nodeOwner[t] # NoOwner

(* Revocations and whatever leaves the self-service credentials as they are  *)
(* keep the caps.                                                            *)
LEMMA CapsKept ==
  ASSUME EnrollmentIsCapped, revoked \subseteq revoked',
         \A o \in Owners : /\ SelfService(o)' = SelfService(o)
                           /\ \A t \in SelfService(o) : createdAt'[t] = createdAt[t]
  PROVE  EnrollmentIsCapped'
<1>1. ASSUME NEW o \in Owners PROVE Cardinality(SelfService(o)' \ revoked') <= 1
  <2>1. /\ SelfService(o)' \ revoked' \subseteq SelfService(o) \ revoked
        /\ IsFiniteSet(SelfService(o) \ revoked)
    BY AccountsAssumption, FS_Subset DEF SelfService, OwnedTokens
  <2>2. /\ Cardinality(SelfService(o)' \ revoked') <= Cardinality(SelfService(o) \ revoked)
        /\ Cardinality(SelfService(o) \ revoked) \in Nat
        /\ Cardinality(SelfService(o)' \ revoked') \in Nat
    BY <2>1, FS_Subset, FS_CardinalityType
  <2>3. Cardinality(SelfService(o) \ revoked) <= 1
    BY DEF EnrollmentIsCapped
  <2>4. QED
    BY <2>2, <2>3
<1>2. ASSUME NEW o \in Owners, NEW begin \in 0..MaxClock
      PROVE  Cardinality({t \in SelfService(o)' :
                            createdAt'[t] \in begin..(begin + Day)}) <= DailyLimit
  <2>1. {t \in SelfService(o)' : createdAt'[t] \in begin..(begin + Day)}
          = {t \in SelfService(o) : createdAt[t] \in begin..(begin + Day)}
    OBVIOUS
  <2>2. QED
    BY <2>1 DEF EnrollmentIsCapped
<1>3. QED
  BY <1>1, <1>2 DEF EnrollmentIsCapped

(* An enrollment adds one credential, now; whatever 24 hours it falls into,  *)
(* the others in them were counted by IssuedToday.                           *)
LEMMA EnrollKeeps ==
  ASSUME AccountsTypeOK, EnrollInv, NEW o \in Owners, NEW t \in Tokens,
         EnrollProviderNode(o, t)
  PROVE  EnrollInv'
<1>1. /\ source[t] = "none" /\ SelfService(o) \subseteq revoked
      /\ Cardinality(IssuedToday(o)) < DailyLimit
      /\ source' = [source EXCEPT ![t] = "self_service"]
      /\ createdAt' = [createdAt EXCEPT ![t] = clock]
      /\ nodeOwner' = [nodeOwner EXCEPT ![t] = o]
      /\ UNCHANGED <<clock, revoked>>
  BY DEF EnrollProviderNode, Issue
<1>2. /\ clock \in Nat /\ Day \in Nat /\ DailyLimit \in Nat /\ MaxClock \in Nat
      /\ createdAt \in [Tokens -> Nat] /\ source \in [Tokens -> {"none", "admin", "self_service"}]
      /\ nodeOwner \in [Tokens -> Owners \cup {NoOwner}]
      /\ IsFiniteSet(Tokens)
  BY AccountsAssumption DEF AccountsTypeOK
<1>3. /\ SelfService(o)' = SelfService(o) \cup {t} /\ t \notin SelfService(o)
      /\ \A p \in Owners \ {o} : SelfService(p)' = SelfService(p) /\ t \notin SelfService(p)
      /\ \A u \in Tokens \ {t} : createdAt'[u] = createdAt[u]
      /\ createdAt'[t] = clock
  <2>1. \A p \in Owners : t \notin SelfService(p)
    BY <1>1 DEF SelfService, OwnedTokens
  <2>2. ASSUME NEW p \in Owners, NEW u \in Tokens \ {t}
        PROVE  u \in SelfService(p)' <=> u \in SelfService(p)
    BY <1>1, <1>2 DEF SelfService, OwnedTokens
  <2>3. \A p \in Owners : t \in SelfService(p)' <=> p = o
    BY <1>1, <1>2 DEF SelfService, OwnedTokens
  <2>4. \A p \in Owners : SelfService(p) \subseteq Tokens /\ SelfService(p)' \subseteq Tokens
    BY DEF SelfService, OwnedTokens
  <2>5. SelfService(o)' = SelfService(o) \cup {t}
    BY <2>2, <2>3, <2>4
  <2>6. ASSUME NEW p \in Owners \ {o} PROVE SelfService(p)' = SelfService(p)
    BY <2>1, <2>2, <2>3, <2>4
  <2>7. /\ \A u \in Tokens \ {t} : createdAt'[u] = createdAt[u]
        /\ createdAt'[t] = clock
    BY <1>1, <1>2
  <2>8. QED
    BY <2>1, <2>5, <2>6, <2>7
<1>4. ASSUME NEW p \in Owners PROVE Cardinality(SelfService(p)' \ revoked') <= 1
  <2>1. CASE p = o
    <3>1. SelfService(o)' \ revoked' \subseteq {t}
      BY <1>1, <1>3
    <3>2. IsFiniteSet({t}) /\ Cardinality({t}) = 1
      BY FS_Singleton
    <3>3. IsFiniteSet(SelfService(o)' \ revoked')
          /\ Cardinality(SelfService(o)' \ revoked') <= Cardinality({t})
      BY <3>1, <3>2, FS_Subset
    <3>4. QED
      BY <2>1, <3>2, <3>3
  <2>2. CASE p # o
    BY <1>1, <1>3, <2>2 DEF EnrollInv, EnrollmentIsCapped
  <2>3. QED
    BY <2>1, <2>2
<1>5. ASSUME NEW p \in Owners, NEW begin \in 0..MaxClock
      PROVE  Cardinality({u \in SelfService(p)' :
                            createdAt'[u] \in begin..(begin + Day)}) <= DailyLimit
  <2> DEFINE later == {u \in SelfService(p)' : createdAt'[u] \in begin..(begin + Day)}
  <2>1. Cardinality(Window(p, begin)) <= DailyLimit
    BY DEF EnrollInv, EnrollmentIsCapped, Window
  <2>2. SelfService(p) \subseteq Tokens /\ SelfService(o) \subseteq Tokens
    BY DEF SelfService, OwnedTokens
  <2>3. CASE p # o \/ clock \notin begin..(begin + Day)
    <3>1. later = Window(p, begin)
      BY <1>3, <2>2, <2>3 DEF Window
    <3>2. QED
      BY <2>1, <3>1
  <2>4. CASE p = o /\ clock \in begin..(begin + Day)
    <3>1. Window(o, begin) \subseteq IssuedToday(o)
      <4>1. ASSUME NEW u \in Window(o, begin) PROVE createdAt[u] + Day >= clock
        <5>1. createdAt[u] \in Nat /\ createdAt[u] >= begin /\ begin \in Nat
          BY <1>2, <2>2 DEF Window
        <5>2. clock <= begin + Day
          BY <2>4
        <5>3. QED
          BY <1>2, <5>1, <5>2
      <4>2. QED
        BY <4>1 DEF Window, IssuedToday
    <3>2. later = Window(o, begin) \cup {t}
      BY <1>3, <2>2, <2>4 DEF Window
    <3>3. IsFiniteSet(IssuedToday(o))
      BY <1>2, <2>2, FS_Subset DEF IssuedToday
    <3>4. /\ IsFiniteSet(Window(o, begin))
          /\ Cardinality(Window(o, begin)) <= Cardinality(IssuedToday(o))
      BY <3>1, <3>3, FS_Subset
    <3>5. t \notin Window(o, begin)
      BY <1>3 DEF Window
    <3>6. Cardinality(later) = Cardinality(Window(o, begin)) + 1
      BY <3>2, <3>4, <3>5, FS_AddElement
    <3>7. Cardinality(Window(o, begin)) \in Nat /\ Cardinality(IssuedToday(o)) \in Nat
      BY <3>3, <3>4, FS_CardinalityType
    <3> HIDE DEF later
    <3>8. Cardinality(later) <= DailyLimit
      BY <1>1, <1>2, <3>4, <3>6, <3>7
    <3>9. QED
      BY <3>8 DEF later
  <2>5. QED
    BY <2>3, <2>4
<1>6. \A u \in Tokens : source'[u] = "self_service" => nodeOwner'[u] # NoOwner
  BY <1>1, <1>2, AccountsAssumption DEF EnrollInv
<1>7. QED
  BY <1>4, <1>5, <1>6 DEF EnrollInv, EnrollmentIsCapped

(* An owner has one self-service credential in use at most and gets at most  *)
(* DailyLimit in any 24 hours (PROV-018).                                    *)
THEOREM EnrollmentCapped == Spec => []EnrollmentIsCapped
<1>1. Init => EnrollInv
  <2> SUFFICES ASSUME Init PROVE EnrollInv
    OBVIOUS
  <2>1. \A o \in Owners : SelfService(o) = {}
    BY DEF Init, AccountsInit, SelfService, OwnedTokens
  <2>2. \A o \in Owners : SelfService(o) \ revoked = {}
    BY <2>1
  <2>3. \A o \in Owners, begin \in 0..MaxClock :
          {t \in SelfService(o) : createdAt[t] \in begin..(begin + Day)} = {}
    BY <2>1
  <2>4. Cardinality({}) = 0 /\ DailyLimit \in Nat
    BY FS_EmptySet, AccountsAssumption
  <2>5. EnrollmentIsCapped
    <3>1. ASSUME NEW o \in Owners PROVE Cardinality(SelfService(o) \ revoked) <= 1
      BY <2>2, <2>4
    <3>2. ASSUME NEW o \in Owners, NEW begin \in 0..MaxClock
          PROVE  Cardinality({t \in SelfService(o) :
                                createdAt[t] \in begin..(begin + Day)}) <= DailyLimit
      BY <2>3, <2>4
    <3>3. QED
      BY <3>1, <3>2 DEF EnrollmentIsCapped
  <2>6. QED
    BY <2>5 DEF EnrollInv, Init, AccountsInit
<1>2. TypeOK /\ EnrollInv /\ [Next]_vars => EnrollInv'
  <2> SUFFICES ASSUME TypeOK, EnrollInv, [Next]_vars PROVE EnrollInv'
    OBVIOUS
  <2>0. /\ AccountsTypeOK /\ EnrollmentIsCapped
        /\ source \in [Tokens -> {"none", "admin", "self_service"}]
        /\ createdAt \in [Tokens -> Nat]
        /\ nodeOwner \in [Tokens -> Owners \cup {NoOwner}]
        /\ revoked \in SUBSET Tokens
    BY DEF TypeOK, AccountsTypeOK, EnrollInv
  <2>1. ASSUME UNCHANGED <<source, createdAt, nodeOwner>>, revoked \subseteq revoked'
        PROVE  EnrollInv'
    BY <2>0, <2>1, CapsKept DEF EnrollInv, SelfService, OwnedTokens
  <2>2. ASSUME NEW t \in Tokens, CreateProviderToken(t) PROVE EnrollInv'
    <3>1. /\ source[t] = "none" /\ source' = [source EXCEPT ![t] = "admin"]
          /\ createdAt' = [createdAt EXCEPT ![t] = clock]
          /\ nodeOwner' = [nodeOwner EXCEPT ![t] = NoOwner]
          /\ revoked' = revoked
      BY <2>2 DEF CreateProviderToken, Issue
    <3>2. \A o \in Owners : /\ SelfService(o)' = SelfService(o)
                            /\ \A u \in SelfService(o) : createdAt'[u] = createdAt[u]
      BY <2>0, <3>1 DEF SelfService, OwnedTokens
    <3>3. \A u \in Tokens : source'[u] = "self_service" => nodeOwner'[u] # NoOwner
      BY <2>0, <3>1 DEF EnrollInv
    <3>4. QED
      BY <2>0, <3>1, <3>2, <3>3, CapsKept DEF EnrollInv
  <2>3. ASSUME NEW o \in Owners, NEW t \in Tokens, ClaimLegacyProvider(t, o)
        PROVE  EnrollInv'
    <3>1. /\ source[t] # "self_service" /\ nodeOwner' = [nodeOwner EXCEPT ![t] = o]
          /\ UNCHANGED <<source, createdAt, revoked>>
      BY <2>3 DEF ClaimLegacyProvider, EnrollInv
    <3>2. \A p \in Owners : SelfService(p)' = SelfService(p)
      BY <2>0, <3>1 DEF SelfService, OwnedTokens
    <3>3. \A u \in Tokens : source'[u] = "self_service" => nodeOwner'[u] # NoOwner
      BY <2>0, <3>1 DEF EnrollInv
    <3>4. QED
      BY <2>0, <3>1, <3>2, <3>3, CapsKept DEF EnrollInv
  <2>4. ASSUME NEW o \in Owners, CreateUser(o) \/ DeleteUser(o) \/ UnsuspendUser(o)
        PROVE  EnrollInv'
    BY <2>1, <2>4 DEF CreateUser, DeleteUser, UnsuspendUser, tokenVars
  <2>5. CASE Account
    BY <2>0, <2>1, <2>2, <2>3, <2>4, <2>5, EnrollKeeps DEF Account, Tick, tokenVars
  <2>6. ASSUME NEW h \in Sweeps, Sweep(h) PROVE EnrollInv'
    BY <2>1, <2>6, SweepCases DEF RevokeToken, SuspendUser, accountVars, tokenVars
  <2>7. ASSUME NEW s \in Sockets, Socket(s) PROVE EnrollInv'
    BY <2>1, <2>7
    DEF Socket, RejectUpgrade, AcceptUpgrade, Register, RefuseRegistration,
        EndRegistration, EndConnection, AdminDisconnects, accountVars, tokenVars
  <2>8. CASE UNCHANGED vars
    BY <2>1, <2>8 DEF vars, accountVars, tokenVars
  <2>9. QED
    BY <2>5, <2>6, <2>7, <2>8 DEF Next
<1>3. EnrollInv => EnrollmentIsCapped
  BY DEF EnrollInv
<1>4. QED
  BY <1>1, <1>2, <1>3, TypeCorrect, PTL DEF Spec

(* What owners have is theirs and within the caps.                           *)
THEOREM OwnershipAlwaysHolds == Spec => []OwnershipHolds
BY OwnersStay, EnrollmentCapped, PTL DEF OwnershipHolds

-----------------------------------------------------------------------------
(* Safety of sessions, keys and suspensions.  What makes the properties      *)
(* inductive is TokensAreOld: a token never has a higher version than its    *)
(* user, whose row existed when it was signed.                               *)

TokensAreOld ==
    \A t \in tokens : /\ users[t.user].state # "unused"
                      /\ t.sv <= users[t.user].sv

\* UNIQUE of github_id, and rows that carry what they are inserted with
RowsAreUnique ==
    \A u, v \in Users : /\ Live(u) => users[u].email \in Emails
                        /\ Live(u) /\ Live(v) /\ users[u].github = users[v].github
                             /\ users[u].github # None => u = v

\* The audit trail has nothing of a user id that was not given out
NothingBeforeSignup ==
    \A u \in Users : users[u].state = "unused" => lastAction[u] = "none"

SessionsIInv == /\ SessionsTypeOK /\ TokensAreOld /\ RowsAreUnique /\ NothingBeforeSignup
                /\ SuspensionEndsSessions /\ KeysHaveOwners /\ BanIsNotShed
                /\ AuditTellsSuspension

UserRow == [state : {"unused", "live", "deleted"}, email : Emails \cup {None},
            github : Identities \cup {None}, password : BOOLEAN,
            sv : 0..MaxVersion, until : 0..Forever]

USE SessionsAssumption

-----------------------------------------------------------------------------
\* The initial states have the invariant (SessionsInit).
LEMMA InitInv == SessionsInit => SessionsIInv
BY DEF SessionsInit, SessionsIInv, SessionsTypeOK, TokensAreOld, RowsAreUnique, NothingBeforeSignup,
       SuspensionEndsSessions, KeysHaveOwners, BanIsNotShed, AuditTellsSuspension,
       Absent, Live, IsSuspended, Resolves, Forever

\* What a step that changes neither users, tokens, keys, the clock nor the audit
\* trail preserves.
LEMMA QuietInv ==
    ASSUME SessionsIInv, SessionsTypeOK',
           UNCHANGED <<users, tokens, keys, lastAction, now, barred>>
    PROVE  SessionsIInv'
BY DEF SessionsIInv, TokensAreOld, RowsAreUnique, NothingBeforeSignup,
       SuspensionEndsSessions, KeysHaveOwners, BanIsNotShed, AuditTellsSuspension,
       Live, IsSuspended, Resolves

\* The steps of flows, requests and the sign-up switch (github_login, resolve_caller).
LEMMA QuietSteps ==
    ASSUME SessionsIInv,
           \/ \E b \in Browsers : GithubLogin(b) \/ GithubFails(b) \/ GithubRefused(b)
           \/ \E b \in Browsers, g \in Identities : GithubCallback(b, g)
           \/ \E t \in tokens, r \in Requests : AdmitSession(r, t)
           \/ \E k \in Keys, r \in Requests : AdmitKey(r, k)
           \/ \E r \in Requests : AdmitAnonymous(r) \/ RequestEnds(r)
           \/ \E flag \in BOOLEAN : SetSignup(flag)
    PROVE  SessionsIInv'
<1>0. SessionsTypeOK
  BY DEF SessionsIInv
<1>1. UNCHANGED <<users, tokens, keys, lastAction, now, barred>>
  BY DEF GithubLogin, GithubFails, GithubRefused, GithubCallback, AdmitSession, AdmitKey,
         AdmitAnonymous, RequestEnds, SetSignup
<1>2. CASE \E b \in Browsers : GithubLogin(b) \/ GithubFails(b) \/ GithubRefused(b)
  <2>1. SessionsTypeOK'
    <3>1. CASE \E b \in Browsers : GithubLogin(b)
      BY <1>0, <3>1 DEF SessionsTypeOK, GithubLogin
    <3>2. CASE \E b \in Browsers : GithubFails(b)
      BY <1>0, <3>2 DEF SessionsTypeOK, GithubFails, FlowEnds
    <3>3. CASE \E b \in Browsers : GithubRefused(b)
      BY <1>0, <3>3 DEF SessionsTypeOK, GithubRefused, FlowEnds
    <3> QED  BY <1>2, <3>1, <3>2, <3>3
  <2> QED  BY <1>1, <2>1, QuietInv
<1>3. CASE \E b \in Browsers, g \in Identities : GithubCallback(b, g)
  <2>1. SessionsTypeOK'
    BY <1>0, <1>3 DEF SessionsTypeOK, GithubCallback
  <2> QED  BY <1>1, <2>1, QuietInv
<1>4. CASE \E t \in tokens, r \in Requests : AdmitSession(r, t)
  <2>1. SessionsTypeOK'
    BY <1>0, <1>4 DEF SessionsTypeOK, AdmitSession, Token
  <2> QED  BY <1>1, <2>1, QuietInv
<1>5. CASE \E k \in Keys, r \in Requests : AdmitKey(r, k)
  <2>1. SessionsTypeOK'
    BY <1>0, <1>5 DEF SessionsTypeOK, AdmitKey
  <2> QED  BY <1>1, <2>1, QuietInv
<1>6. CASE \E r \in Requests : AdmitAnonymous(r) \/ RequestEnds(r)
  <2>1. SessionsTypeOK'
    BY <1>0, <1>6 DEF SessionsTypeOK, AdmitAnonymous, RequestEnds
  <2> QED  BY <1>1, <2>1, QuietInv
<1>7. CASE \E flag \in BOOLEAN : SetSignup(flag)
  <2>1. SessionsTypeOK'
    BY <1>0, <1>7 DEF SessionsTypeOK, SetSignup
  <2> QED  BY <1>1, <2>1, QuietInv
<1> QED  BY <1>2, <1>3, <1>4, <1>5, <1>6, <1>7

-----------------------------------------------------------------------------
\* Creating and revoking keys (create_api_key, revoke_api_key).
LEMMA KeySteps ==
    ASSUME SessionsIInv,
           \/ \E t \in tokens, k \in Keys : CreateKey(t, k) \/ RevokeKey(t, k)
           \/ \E k \in Keys : CreateAnonymousKey(k)
    PROVE  SessionsIInv'
<1>0. SessionsTypeOK /\ KeysHaveOwners
  BY DEF SessionsIInv
<1>1. UNCHANGED <<users, tokens, flows, running, lastAction, adminEmails, signupDisabled,
                  now, barred>>
  BY DEF CreateKey, RevokeKey, CreateAnonymousKey
<1>2. SessionsTypeOK' /\ KeysHaveOwners'
  <2>1. CASE \E t \in tokens, k \in Keys : CreateKey(t, k)
    <3>1. PICK t \in tokens, k \in Keys : CreateKey(t, k)
      BY <2>1
    <3>2. t.user \in Users /\ Live(t.user)
      BY <1>0, <3>1 DEF CreateKey, Resolves, SessionsTypeOK, Token
    <3> QED  BY <1>0, <1>1, <3>1, <3>2 DEF CreateKey, SessionsTypeOK, KeysHaveOwners, Live
  <2>2. CASE \E t \in tokens, k \in Keys : RevokeKey(t, k)
    BY <1>0, <1>1, <2>2 DEF RevokeKey, SessionsTypeOK, KeysHaveOwners, Live
  <2>3. CASE \E k \in Keys : CreateAnonymousKey(k)
    BY <1>0, <1>1, <2>3 DEF CreateAnonymousKey, SessionsTypeOK, KeysHaveOwners, Live
  <2> QED  BY <2>1, <2>2, <2>3
<1> QED
  BY <1>1, <1>2 DEF SessionsIInv, TokensAreOld, RowsAreUnique, NothingBeforeSignup,
     SuspensionEndsSessions, BanIsNotShed, AuditTellsSuspension, Live, IsSuspended, Resolves

-----------------------------------------------------------------------------
\* A session that IssueSession adds has the version of its user and is typed.
LEMMA IssueLemma ==
    ASSUME SessionsTypeOK, NEW u \in Users, IssueSession(u), users' \in [Users -> UserRow],
           users'[u].email \in Emails, now' = now
    PROVE  \E new \in Token : /\ tokens' = tokens \cup {new}
                              /\ new.user = u /\ new.sv = users'[u].sv
<1> DEFINE new == [user |-> u, email |-> users'[u].email,
                   role |-> RoleFor(users'[u].email), sv |-> users'[u].sv,
                   exp |-> now + TokenTtl]
<1>1. new \in Token
  <2>1. RoleFor(users'[u].email) \in Roles
    BY DEF RoleFor, Roles
  <2>2. now + TokenTtl \in 0..(MaxSessionTime + TokenTtl)
    BY DEF SessionsTypeOK
  <2>3. users'[u].sv \in 0..MaxVersion
    BY DEF UserRow
  <2> QED  BY <2>1, <2>2, <2>3 DEF Token
<1>2. tokens' = tokens \cup {new}
  BY DEF IssueSession
<1> QED  BY <1>1, <1>2

\* A session of an existing user who is not suspended (login, github_callback).
LEMMA SignInSteps ==
    ASSUME SessionsIInv,
           \/ \E u \in Users : Login(u)
           \/ \E b \in Browsers : GithubReturns(b)
    PROVE  SessionsIInv'
<1>0. SessionsTypeOK /\ TokensAreOld /\ SuspensionEndsSessions /\ RowsAreUnique
  BY DEF SessionsIInv
<1>1. UNCHANGED <<users, keys, running, lastAction, adminEmails, signupDisabled, now, barred>>
  BY DEF Login, GithubReturns
<1>2. \/ tokens' = tokens
      \/ \E u \in Users : Live(u) /\ ~IsSuspended(u) /\ IssueSession(u)
  BY DEF Login, GithubReturns
<1>3. flows' \in [Browsers -> [stage : {"none", "redirected", "exchanging"},
                               identity : Identities \cup {None}]]
  BY <1>0 DEF SessionsTypeOK, Login, GithubReturns, FlowEnds
<1>4. tokens' \subseteq Token /\ TokensAreOld' /\ SuspensionEndsSessions'
  <2>1. CASE tokens' = tokens
    BY <1>0, <1>1, <2>1 DEF SessionsTypeOK, TokensAreOld, SuspensionEndsSessions, IsSuspended, Live,
       Resolves
  <2>2. CASE \E u \in Users : Live(u) /\ ~IsSuspended(u) /\ IssueSession(u)
    <3>1. PICK u \in Users : Live(u) /\ ~IsSuspended(u) /\ IssueSession(u)
      BY <2>2
    <3>2. users' \in [Users -> UserRow] /\ users'[u].email \in Emails
      BY <1>0, <1>1, <3>1 DEF SessionsTypeOK, UserRow, RowsAreUnique
    <3>3. PICK new \in Token : /\ tokens' = tokens \cup {new}
                               /\ new.user = u /\ new.sv = users'[u].sv
      BY <1>0, <1>1, <3>1, <3>2, IssueLemma
    <3>4. tokens' \subseteq Token
      BY <1>0, <3>3 DEF SessionsTypeOK
    <3>5. TokensAreOld'
      BY <1>0, <1>1, <3>1, <3>2, <3>3 DEF TokensAreOld, SessionsTypeOK, Live, UserRow
    <3>6. SuspensionEndsSessions'
      BY <1>0, <1>1, <3>1, <3>3 DEF SuspensionEndsSessions, IsSuspended, Live, Resolves
    <3> QED  BY <3>4, <3>5, <3>6
  <2> QED  BY <1>2, <2>1, <2>2
<1>5. SessionsTypeOK'
  BY <1>0, <1>1, <1>3, <1>4 DEF SessionsTypeOK
<1> QED
  BY <1>1, <1>4, <1>5 DEF SessionsIInv, RowsAreUnique, NothingBeforeSignup, KeysHaveOwners,
     BanIsNotShed, AuditTellsSuspension, Live

\* A new user with a session (create_user, upsert_github_user).
LEMMA SignUpSteps ==
    ASSUME SessionsIInv,
           \/ \E u \in Users, e \in Emails, k \in Keys : Signup(u, e, k)
           \/ \E b \in Browsers, u \in Users, e \in Emails : GithubCreates(b, u, e)
    PROVE  SessionsIInv'
<1>0. SessionsTypeOK /\ TokensAreOld /\ SuspensionEndsSessions /\ RowsAreUnique
      /\ NothingBeforeSignup /\ KeysHaveOwners /\ BanIsNotShed /\ AuditTellsSuspension
  BY DEF SessionsIInv
<1>1. PICK u \in Users, e \in Emails, g \in Identities \cup {None}, p \in BOOLEAN :
         /\ InsertUser(u, e, g, p) /\ IssueSession(u)
         /\ UNCHANGED <<running, lastAction, adminEmails, signupDisabled, now, barred>>
         /\ g \in Identities => ~HasGithubUser(g)
         /\ \/ keys' = keys
            \/ \E k \in Keys : keys' = [keys EXCEPT ![k] = [state |-> "live", owner |-> u]]
         /\ flows' \in [Browsers -> [stage : {"none", "redirected", "exchanging"},
                                     identity : Identities \cup {None}]]
  <2>1. CASE \E u \in Users, e \in Emails, k \in Keys : Signup(u, e, k)
    BY <1>0, <2>1 DEF Signup, SessionsTypeOK
  <2>2. CASE \E b \in Browsers, u \in Users, e \in Emails : GithubCreates(b, u, e)
    <3>1. PICK b \in Browsers, u \in Users, e \in Emails : GithubCreates(b, u, e)
      BY <2>2
    <3>2. flows[b].identity \in Identities \cup {None}
      BY <1>0 DEF SessionsTypeOK
    <3>3. flows' \in [Browsers -> [stage : {"none", "redirected", "exchanging"},
                                   identity : Identities \cup {None}]]
      BY <1>0, <3>1 DEF GithubCreates, FlowEnds, SessionsTypeOK
    <3> QED  BY <3>1, <3>2, <3>3 DEF GithubCreates
  <2> QED  BY <2>1, <2>2
<1>2. /\ users[u].state = "unused"
      /\ users' = [users EXCEPT ![u] = [state |-> "live", email |-> e, github |-> g,
                                        password |-> p, sv |-> 0, until |-> 0]]
      /\ \A v \in Users : Live(v) /\ g # None => users[v].github # g
  BY <1>1 DEF InsertUser
<1>3. users' \in [Users -> UserRow] /\ users'[u].email = e /\ users'[u].sv = 0
      /\ users'[u].until = 0 /\ users'[u].state = "live" /\ users'[u].github = g
  BY <1>0, <1>2 DEF SessionsTypeOK, UserRow, Forever
<1>4. \A v \in Users : v # u => users'[v] = users[v]
  BY <1>0, <1>2 DEF SessionsTypeOK
<1>5. PICK new \in Token : /\ tokens' = tokens \cup {new}
                           /\ new.user = u /\ new.sv = users'[u].sv
  BY <1>0, <1>1, <1>3, IssueLemma
<1>6. \A t \in tokens : t \in Token /\ t.user # u
  BY <1>0, <1>2 DEF TokensAreOld, SessionsTypeOK
<1>7. SessionsTypeOK'
  <2>1. keys' \in [Keys -> [state : {"unused", "live", "revoked", "deleted"},
                            owner : Users \cup {Anonymous, None}]]
    BY <1>0, <1>1 DEF SessionsTypeOK
  <2>2. tokens' \subseteq Token
    BY <1>0, <1>5 DEF SessionsTypeOK
  <2> QED  BY <1>0, <1>1, <1>3, <2>1, <2>2 DEF SessionsTypeOK, UserRow
<1>8. TokensAreOld'
  BY <1>0, <1>3, <1>4, <1>5, <1>6 DEF TokensAreOld, Token
<1>9. SuspensionEndsSessions'
  <2> SUFFICES ASSUME NEW t \in tokens', IsSuspended(t.user)', Resolves(t)'
               PROVE  FALSE
    BY DEF SuspensionEndsSessions
  <2>1. t \in tokens
    <3>1. ~IsSuspended(u)'
      BY <1>0, <1>1, <1>3 DEF IsSuspended, Live, SessionsTypeOK
    <3> QED  BY <3>1, <1>5
  <2> QED  BY <2>1, <1>0, <1>1, <1>4, <1>6 DEF SuspensionEndsSessions, IsSuspended, Live,
              Resolves, Token
<1>10. RowsAreUnique'
  BY <1>0, <1>1, <1>2, <1>3, <1>4 DEF RowsAreUnique, Live
<1>11. NothingBeforeSignup'
  BY <1>0, <1>1, <1>3, <1>4 DEF NothingBeforeSignup
<1>12. KeysHaveOwners'
  <2> SUFFICES ASSUME NEW k \in Keys, keys'[k].state = "live", keys'[k].owner # Anonymous
               PROVE  Live(keys[k].owner)'
    BY DEF KeysHaveOwners
  <2>1. CASE keys'[k] = keys[k]
    BY <1>0, <1>3, <1>4, <2>1 DEF KeysHaveOwners, Live
  <2>2. CASE keys'[k] # keys[k]
    BY <1>0, <1>1, <1>3, <2>2 DEF SessionsTypeOK, Live
  <2> QED  BY <2>1, <2>2
<1>13. BanIsNotShed'
  <2> SUFFICES ASSUME NEW h \in barred
               PROVE  \E w \in Users :
                        /\ Live(w)' /\ users'[w].github = h /\ users'[w].until = Forever
                        /\ \A v \in Users : Live(v)' /\ users'[v].github = h => v = w
    BY <1>1 DEF BanIsNotShed
  <2>1. PICK w \in Users : /\ Live(w) /\ users[w].github = h /\ users[w].until = Forever
                           /\ \A v \in Users : Live(v) /\ users[v].github = h => v = w
    BY <1>0 DEF BanIsNotShed
  <2>2. w # u /\ h \in Identities /\ h # None
    BY <1>0, <1>2, <2>1 DEF Live, SessionsTypeOK
  <2>3. g # h
    BY <1>2, <2>1, <2>2
  <2> QED  BY <1>3, <1>4, <2>1, <2>2, <2>3 DEF Live
<1>14. AuditTellsSuspension'
  BY <1>0, <1>1, <1>2, <1>3, <1>4 DEF AuditTellsSuspension, NothingBeforeSignup, Live, Forever
<1> QED  BY <1>7, <1>8, <1>9, <1>10, <1>11, <1>12, <1>13, <1>14 DEF SessionsIInv

-----------------------------------------------------------------------------
\* Signing out everywhere (logout).
LEMMA LogoutStep ==
    ASSUME SessionsIInv, \E t \in tokens : Logout(t)
    PROVE  SessionsIInv'
<1>0. SessionsTypeOK /\ TokensAreOld /\ SuspensionEndsSessions /\ RowsAreUnique
      /\ NothingBeforeSignup /\ KeysHaveOwners /\ BanIsNotShed /\ AuditTellsSuspension
  BY DEF SessionsIInv
<1>1. PICK t \in tokens : Logout(t)
  OBVIOUS
<1>2. t.user \in Users /\ users[t.user].sv \in 0..MaxVersion /\ users[t.user].sv < MaxVersion
  BY <1>0, <1>1 DEF Logout, SessionsTypeOK, Token
<1>3. /\ users' \in [Users -> UserRow]
      /\ users'[t.user] = [users[t.user] EXCEPT !.sv = @ + 1]
      /\ \A v \in Users : v # t.user => users'[v] = users[v]
  <2> DEFINE row == [users[t.user] EXCEPT !.sv = @ + 1]
  <2>1. users[t.user] \in UserRow /\ users \in [Users -> UserRow]
    BY <1>0, <1>2 DEF SessionsTypeOK, UserRow
  <2>2. row \in UserRow
    BY <1>2, <2>1 DEF UserRow
  <2>3. users' = [users EXCEPT ![t.user] = row]
    BY <1>1 DEF Logout
  <2> QED  BY <1>2, <2>1, <2>2, <2>3
<1>4. \A v \in Users : /\ users'[v].state = users[v].state /\ users'[v].email = users[v].email
                       /\ users'[v].github = users[v].github
                       /\ users'[v].until = users[v].until
                       /\ users'[v].sv >= users[v].sv
  <2> SUFFICES ASSUME NEW v \in Users
               PROVE  /\ users'[v].state = users[v].state /\ users'[v].email = users[v].email
                      /\ users'[v].github = users[v].github
                      /\ users'[v].until = users[v].until
                      /\ users'[v].sv >= users[v].sv
    OBVIOUS
  <2>1. users[v] \in UserRow
    BY <1>0 DEF SessionsTypeOK, UserRow
  <2> QED  BY <1>2, <1>3, <2>1 DEF UserRow
<1>5. UNCHANGED <<keys, tokens, flows, running, lastAction, adminEmails, signupDisabled,
                  now, barred>>
  BY <1>1 DEF Logout
<1>6. SessionsTypeOK'
  BY <1>0, <1>3, <1>5 DEF SessionsTypeOK, UserRow
<1>7. TokensAreOld'
  <2> SUFFICES ASSUME NEW s \in tokens
               PROVE  users'[s.user].state # "unused" /\ s.sv <= users'[s.user].sv
    BY <1>5 DEF TokensAreOld
  <2>1. s.user \in Users /\ s.sv \in 0..MaxVersion
    BY <1>0 DEF SessionsTypeOK, Token
  <2>2. users[s.user].sv \in Nat /\ users'[s.user].sv \in Nat
    BY <1>0, <1>3, <2>1 DEF SessionsTypeOK, UserRow
  <2> QED  BY <1>0, <1>4, <2>1, <2>2 DEF TokensAreOld
<1>8. SuspensionEndsSessions'
  <2> SUFFICES ASSUME NEW s \in tokens, IsSuspended(s.user)', Resolves(s)'
               PROVE  FALSE
    BY <1>5 DEF SuspensionEndsSessions
  <2>1. IsSuspended(s.user) /\ s.user \in Users
    BY <1>4, <1>5 DEF IsSuspended, Live
  <2>2. CASE s.user = t.user
    BY <2>1, <2>2, <1>0, <1>1 DEF SuspensionEndsSessions, Logout, IsSuspended, Resolves
  <2>3. CASE s.user # t.user
    BY <2>1, <2>3, <1>0, <1>3, <1>5 DEF SuspensionEndsSessions, Resolves, Live
  <2> QED  BY <2>2, <2>3
<1>9. RowsAreUnique' /\ NothingBeforeSignup' /\ KeysHaveOwners'
  BY <1>0, <1>4, <1>5 DEF RowsAreUnique, NothingBeforeSignup, KeysHaveOwners, Live
<1>10. BanIsNotShed'
  BY <1>0, <1>4, <1>5 DEF BanIsNotShed, Live
<1>11. AuditTellsSuspension'
  BY <1>0, <1>4, <1>5 DEF AuditTellsSuspension, Live
<1> QED  BY <1>6, <1>7, <1>8, <1>9, <1>10, <1>11 DEF SessionsIInv

\* Deleting an account: not that of a banned identity (delete_account).
LEMMA DeleteStep ==
    ASSUME SessionsIInv, \E t \in tokens : DeleteAccount(t)
    PROVE  SessionsIInv'
<1>0. SessionsTypeOK /\ TokensAreOld /\ SuspensionEndsSessions /\ RowsAreUnique
      /\ NothingBeforeSignup /\ KeysHaveOwners /\ BanIsNotShed /\ AuditTellsSuspension
  BY DEF SessionsIInv
<1>1. PICK t \in tokens : DeleteAccount(t)
  OBVIOUS
<1>2. t.user \in Users /\ users[t.user].state = "live" /\ ~IsSuspended(t.user)
  BY <1>0, <1>1 DEF DeleteAccount, Resolves, Live, SessionsTypeOK, Token
<1>3. /\ users' \in [Users -> UserRow]
      /\ users'[t.user].state = "deleted"
      /\ users'[t.user].sv = users[t.user].sv
      /\ \A v \in Users : v # t.user => users'[v] = users[v]
  <2> DEFINE row == [users[t.user] EXCEPT !.state = "deleted"]
  <2>1. users[t.user] \in UserRow /\ users \in [Users -> UserRow]
    BY <1>0, <1>2 DEF SessionsTypeOK, UserRow
  <2>2. row \in UserRow /\ row.state = "deleted" /\ row.sv = users[t.user].sv
    BY <2>1 DEF UserRow
  <2>3. users' = [users EXCEPT ![t.user] = row]
    BY <1>1 DEF DeleteAccount
  <2> QED  BY <1>2, <2>1, <2>2, <2>3
<1>4. UNCHANGED <<tokens, flows, running, lastAction, adminEmails, signupDisabled,
                  now, barred>>
  BY <1>1 DEF DeleteAccount
<1>5. SessionsTypeOK'
  <2>1. keys' \in [Keys -> [state : {"unused", "live", "revoked", "deleted"},
                            owner : Users \cup {Anonymous, None}]]
    BY <1>0, <1>1 DEF DeleteAccount, SessionsTypeOK
  <2> QED  BY <1>0, <1>3, <1>4, <2>1 DEF SessionsTypeOK, UserRow
<1>6. TokensAreOld'
  BY <1>0, <1>3, <1>4 DEF TokensAreOld, SessionsTypeOK, Token
<1>7. SuspensionEndsSessions'
  BY <1>0, <1>3, <1>4 DEF SuspensionEndsSessions, IsSuspended, Resolves, Live
<1>8. RowsAreUnique' /\ NothingBeforeSignup' /\ AuditTellsSuspension'
  BY <1>0, <1>3, <1>4 DEF RowsAreUnique, NothingBeforeSignup, AuditTellsSuspension, Live
<1>9. KeysHaveOwners'
  <2> SUFFICES ASSUME NEW k \in Keys, keys'[k].state = "live", keys'[k].owner # Anonymous
               PROVE  Live(keys[k].owner)'
    BY DEF KeysHaveOwners
  <2>1. keys[k].owner # t.user /\ keys'[k] = keys[k]
    BY <1>0, <1>1 DEF DeleteAccount, SessionsTypeOK
  <2> QED  BY <1>0, <1>3, <2>1 DEF KeysHaveOwners, Live
<1>10. BanIsNotShed'
  <2> SUFFICES ASSUME NEW h \in barred
               PROVE  \E w \in Users :
                        /\ Live(w)' /\ users'[w].github = h /\ users'[w].until = Forever
                        /\ \A v \in Users : Live(v)' /\ users'[v].github = h => v = w
    BY <1>4 DEF BanIsNotShed
  <2>1. PICK w \in Users : /\ Live(w) /\ users[w].github = h /\ users[w].until = Forever
                           /\ \A v \in Users : Live(v) /\ users[v].github = h => v = w
    BY <1>0 DEF BanIsNotShed
  <2>2. w # t.user
    BY <1>0, <1>2, <2>1 DEF IsSuspended, Forever, SessionsTypeOK
  <2> QED  BY <1>3, <2>1, <2>2 DEF Live
<1> QED  BY <1>5, <1>6, <1>7, <1>8, <1>9, <1>10 DEF SessionsIInv

-----------------------------------------------------------------------------
\* Suspending and banning (suspend_account).
LEMMA SuspendStep ==
    ASSUME SessionsIInv, NEW u \in Users, NEW until \in 1..Forever, Suspend(u, until)
    PROVE  SessionsIInv'
<1>0. SessionsTypeOK /\ TokensAreOld /\ SuspensionEndsSessions /\ RowsAreUnique
      /\ NothingBeforeSignup /\ KeysHaveOwners /\ BanIsNotShed /\ AuditTellsSuspension
  BY DEF SessionsIInv
<1>1. /\ users[u].state = "live" /\ users[u].sv \in 0..MaxVersion
      /\ users[u].sv < MaxVersion /\ until \in 0..Forever /\ until > now /\ now \in Nat
  BY <1>0 DEF Suspend, Live, SessionsTypeOK, Forever
<1>2. /\ users' \in [Users -> UserRow]
      /\ users'[u].state = "live" /\ users'[u].sv = users[u].sv + 1
      /\ users'[u].until = until /\ users'[u].email = users[u].email
      /\ users'[u].github = users[u].github
      /\ \A v \in Users : v # u => users'[v] = users[v]
  BY <1>0, <1>1 DEF Suspend, SessionsTypeOK, UserRow
<1>3. UNCHANGED <<keys, tokens, flows, running, adminEmails, signupDisabled, now>>
  BY DEF Suspend
<1>4. lastAction' = [lastAction EXCEPT ![u] = IF until = Forever THEN "ban" ELSE "suspend"]
  BY DEF Suspend
<1>5. barred' \subseteq Identities
  BY <1>0 DEF Suspend, SessionsTypeOK
<1>6. SessionsTypeOK'
  <2>1. lastAction' \in [Users -> {"none", "suspend", "ban", "unsuspend"}]
    BY <1>0, <1>4 DEF SessionsTypeOK
  <2> QED  BY <1>0, <1>2, <1>3, <1>5, <2>1 DEF SessionsTypeOK, UserRow
<1>7. \A t \in tokens : /\ t.user \in Users /\ t.sv \in Nat /\ t.sv <= users[t.user].sv
                        /\ users[t.user].sv \in Nat
  BY <1>0 DEF TokensAreOld, SessionsTypeOK, Token
<1>8. TokensAreOld'
  BY <1>0, <1>1, <1>2, <1>3, <1>7 DEF TokensAreOld
<1>9. SuspensionEndsSessions'
  BY <1>0, <1>1, <1>2, <1>3, <1>7 DEF SuspensionEndsSessions, IsSuspended, Resolves, Live
<1>10. RowsAreUnique' /\ KeysHaveOwners'
  BY <1>0, <1>1, <1>2, <1>3 DEF RowsAreUnique, KeysHaveOwners, Live
<1>11. NothingBeforeSignup'
  BY <1>0, <1>1, <1>2, <1>4 DEF NothingBeforeSignup, SessionsTypeOK
<1>12. AuditTellsSuspension'
  BY <1>0, <1>1, <1>2, <1>4 DEF AuditTellsSuspension, Live, SessionsTypeOK
<1>13. BanIsNotShed'
  <2> SUFFICES ASSUME NEW h \in barred'
               PROVE  \E w \in Users :
                        /\ Live(w)' /\ users'[w].github = h /\ users'[w].until = Forever
                        /\ \A v \in Users : Live(v)' /\ users'[v].github = h => v = w
    BY DEF BanIsNotShed
  <2>1. h \in Identities /\ h # None
    BY <1>5
  <2>2. CASE users[u].github = h
    <3>1. until = Forever
      BY <2>1, <2>2 DEF Suspend
    <3>2. \A v \in Users : Live(v)' => Live(v) /\ users'[v].github = users[v].github
      BY <1>1, <1>2 DEF Live
    <3>3. \A v \in Users : Live(v)' /\ users'[v].github = h => v = u
      BY <1>0, <1>1, <2>1, <2>2, <3>2 DEF RowsAreUnique, Live
    <3> QED  BY <1>2, <2>2, <3>1, <3>3 DEF Live
  <2>3. CASE users[u].github # h
    <3>1. h \in barred
      BY <2>3 DEF Suspend
    <3>2. PICK w \in Users : /\ Live(w) /\ users[w].github = h /\ users[w].until = Forever
                             /\ \A v \in Users : Live(v) /\ users[v].github = h => v = w
      BY <1>0, <3>1 DEF BanIsNotShed
    <3> QED  BY <1>1, <1>2, <2>3, <3>2 DEF Live
  <2> QED  BY <2>2, <2>3
<1> QED  BY <1>6, <1>8, <1>9, <1>10, <1>11, <1>12, <1>13 DEF SessionsIInv

\* Lifting a suspension (unsuspend_account).
LEMMA UnsuspendStep ==
    ASSUME SessionsIInv, NEW u \in Users, Unsuspend(u)
    PROVE  SessionsIInv'
<1>0. SessionsTypeOK /\ TokensAreOld /\ SuspensionEndsSessions /\ RowsAreUnique
      /\ NothingBeforeSignup /\ KeysHaveOwners /\ BanIsNotShed /\ AuditTellsSuspension
  BY DEF SessionsIInv
<1>1. users[u].state = "live"
  BY DEF Unsuspend, Live
<1>2. /\ users' \in [Users -> UserRow]
      /\ users'[u].state = "live" /\ users'[u].sv = users[u].sv
      /\ users'[u].until = 0 /\ users'[u].email = users[u].email
      /\ users'[u].github = users[u].github
      /\ \A v \in Users : v # u => users'[v] = users[v]
  <2> DEFINE row == [users[u] EXCEPT !.until = 0]
  <2>1. users[u] \in UserRow /\ users \in [Users -> UserRow]
    BY <1>0 DEF SessionsTypeOK, UserRow
  <2>2. /\ row \in UserRow /\ row.until = 0 /\ row.state = users[u].state
        /\ row.sv = users[u].sv /\ row.email = users[u].email /\ row.github = users[u].github
    BY <2>1 DEF UserRow, Forever, SessionsTypeOK
  <2>3. users' = [users EXCEPT ![u] = row]
    BY DEF Unsuspend
  <2> QED  BY <1>1, <2>1, <2>2, <2>3
<1>3. /\ UNCHANGED <<keys, tokens, flows, running, adminEmails, signupDisabled, now>>
      /\ lastAction' = [lastAction EXCEPT ![u] = "unsuspend"]
      /\ barred' = barred \ {users[u].github}
  BY DEF Unsuspend
<1>4. SessionsTypeOK'
  <2>1. lastAction' \in [Users -> {"none", "suspend", "ban", "unsuspend"}]
    BY <1>0, <1>3 DEF SessionsTypeOK
  <2> QED  BY <1>0, <1>2, <1>3, <2>1 DEF SessionsTypeOK, UserRow
<1>5. TokensAreOld'
  BY <1>0, <1>1, <1>2, <1>3 DEF TokensAreOld, SessionsTypeOK, Token
<1>6. SuspensionEndsSessions'
  BY <1>0, <1>1, <1>2, <1>3 DEF SuspensionEndsSessions, IsSuspended, Resolves, Live, SessionsTypeOK
<1>7. RowsAreUnique' /\ KeysHaveOwners'
  BY <1>0, <1>1, <1>2, <1>3 DEF RowsAreUnique, KeysHaveOwners, Live
<1>8. NothingBeforeSignup'
  BY <1>0, <1>1, <1>2, <1>3 DEF NothingBeforeSignup, SessionsTypeOK
<1>9. AuditTellsSuspension'
  BY <1>0, <1>1, <1>2, <1>3 DEF AuditTellsSuspension, Live, SessionsTypeOK, Forever
<1>10. BanIsNotShed'
  <2> SUFFICES ASSUME NEW h \in barred, h # users[u].github
               PROVE  \E w \in Users :
                        /\ Live(w)' /\ users'[w].github = h /\ users'[w].until = Forever
                        /\ \A v \in Users : Live(v)' /\ users'[v].github = h => v = w
    BY <1>3 DEF BanIsNotShed
  <2>1. PICK w \in Users : /\ Live(w) /\ users[w].github = h /\ users[w].until = Forever
                           /\ \A v \in Users : Live(v) /\ users[v].github = h => v = w
    BY <1>0 DEF BanIsNotShed
  <2> QED  BY <1>1, <1>2, <2>1 DEF Live
<1> QED  BY <1>4, <1>5, <1>6, <1>7, <1>8, <1>9, <1>10 DEF SessionsIInv

\* The clock and a restart of the coordinator.
LEMMA TimeSteps ==
    ASSUME SessionsIInv, SessionTick \/ Restart
    PROVE  SessionsIInv'
<1>0. SessionsTypeOK /\ TokensAreOld /\ SuspensionEndsSessions /\ RowsAreUnique
      /\ NothingBeforeSignup /\ KeysHaveOwners /\ BanIsNotShed /\ AuditTellsSuspension
  BY DEF SessionsIInv
<1>1. UNCHANGED <<users, keys, lastAction, barred>> /\ tokens' \subseteq tokens
  BY DEF SessionTick, Restart
<1>2. now \in Nat /\ now' \in 0..MaxSessionTime /\ now' >= now
  BY <1>0 DEF SessionTick, Restart, SessionsTypeOK
<1>3. SessionsTypeOK'
  <2>1. CASE SessionTick
    BY <1>0, <1>2, <2>1 DEF SessionTick, SessionsTypeOK
  <2>2. CASE Restart
    BY <1>0, <2>2 DEF Restart, SessionsTypeOK
  <2> QED  BY <2>1, <2>2
<1>4. SuspensionEndsSessions'
  <2> SUFFICES ASSUME NEW t \in tokens, IsSuspended(t.user)', Resolves(t)'
               PROVE  FALSE
    BY <1>1 DEF SuspensionEndsSessions
  <2>1. t.exp \in Nat /\ users[t.user].until \in Nat /\ t.user \in Users
    BY <1>0 DEF SessionsTypeOK, Token, Forever
  <2>2. IsSuspended(t.user) /\ Resolves(t)
    BY <1>1, <1>2, <2>1 DEF IsSuspended, Resolves, Live
  <2> QED  BY <1>0, <2>2 DEF SuspensionEndsSessions
<1> QED
  BY <1>0, <1>1, <1>3, <1>4 DEF SessionsIInv, TokensAreOld, RowsAreUnique,
     NothingBeforeSignup, KeysHaveOwners, BanIsNotShed, AuditTellsSuspension, Live

\* Every step preserves the invariant.
LEMMA StepInv == SessionsIInv /\ [SessionsNext]_sessionVars => SessionsIInv'
<1> SUFFICES ASSUME SessionsIInv, [SessionsNext]_sessionVars PROVE SessionsIInv'
  OBVIOUS
<1>1. CASE sessionVars' = sessionVars
  BY <1>1 DEF sessionVars, SessionsIInv, SessionsTypeOK, TokensAreOld, RowsAreUnique, NothingBeforeSignup,
     SuspensionEndsSessions, KeysHaveOwners, BanIsNotShed, AuditTellsSuspension, Live,
     IsSuspended, Resolves
<1>2. CASE SessionsNext
  BY <1>2, QuietSteps, KeySteps, SignInSteps, SignUpSteps, LogoutStep, DeleteStep,
     SuspendStep, UnsuspendStep, TimeSteps DEF SessionsNext
<1> QED  BY <1>1, <1>2

\* The inductive invariant holds throughout.
LEMMA AlwaysIInv == SessionsSpec => []SessionsIInv
BY InitInv, StepInv, PTL DEF SessionsSpec

\* The state of users, keys, sessions and sign-ins has its type.
THEOREM SessionsTypeCorrect == SessionsSpec => []SessionsTypeOK
<1>1. SessionsIInv => SessionsTypeOK
  BY DEF SessionsIInv
<1> QED  BY <1>1, AlwaysIInv, PTL

\* No session of a suspended account resolves (AUTH-017).
THEOREM SuspensionEndsSessionsHolds == SessionsSpec => []SuspensionEndsSessions
<1>1. SessionsIInv => SuspensionEndsSessions
  BY DEF SessionsIInv
<1> QED  BY <1>1, AlwaysIInv, PTL

\* Every key that authenticates has an account (delete_user).
THEOREM KeysHaveOwnersHolds == SessionsSpec => []KeysHaveOwners
<1>1. SessionsIInv => KeysHaveOwners
  BY DEF SessionsIInv
<1> QED  BY <1>1, AlwaysIInv, PTL

\* A ban outlives every attempt to shed it (delete_account, upsert_github_user).
THEOREM BanIsNotShedHolds == SessionsSpec => []BanIsNotShed
<1>1. SessionsIInv => BanIsNotShed
  BY DEF SessionsIInv
<1> QED  BY <1>1, AlwaysIInv, PTL

\* The audit trail tells the suspensions (suspend_user, unsuspend_user).
THEOREM AuditTellsSuspensionHolds == SessionsSpec => []AuditTellsSuspension
<1>1. SessionsIInv => AuditTellsSuspension
  BY DEF SessionsIInv
<1> QED  BY <1>1, AlwaysIInv, PTL

-----------------------------------------------------------------------------
\* Versions and the clock never go back, and a deleted user stays deleted.
LEMMA NothingGoesBack ==
    ASSUME SessionsIInv, SessionsNext
    PROVE  /\ now' \in Nat /\ now \in Nat /\ now' >= now
           /\ \A v \in Users : users[v].state # "unused" =>
                /\ users'[v].state # "unused"
                /\ users[v].state = "deleted" => users'[v].state = "deleted"
                /\ users[v].sv \in Nat /\ users'[v].sv \in Nat
                /\ users'[v].sv >= users[v].sv
<1>0. SessionsTypeOK /\ SessionsTypeOK'
  BY StepInv DEF SessionsIInv
<1>1. /\ now' \in Nat /\ now \in Nat
      /\ \A v \in Users : users[v].sv \in Nat /\ users'[v].sv \in Nat
  BY <1>0 DEF SessionsTypeOK
<1>2. CASE users' = users
  <2>1. now' = now \/ now' = now + 1
    BY <1>2 DEF SessionsNext, Signup, Login, GithubLogin, GithubFails, GithubReturns,
       GithubRefused, GithubCallback, GithubCreates, Logout, DeleteAccount, CreateKey,
       RevokeKey, AdmitSession, AdmitKey, CreateAnonymousKey, AdmitAnonymous, RequestEnds,
       Suspend, Unsuspend, SetSignup, SessionTick, Restart
  <2> QED  BY <1>1, <1>2, <2>1
<1>3. CASE \/ \E u \in Users, e \in Emails, k \in Keys : Signup(u, e, k)
           \/ \E b \in Browsers, u \in Users, e \in Emails : GithubCreates(b, u, e)
  <2>1. now' = now /\ \E u \in Users, r \in UserRow :
          users[u].state = "unused" /\ users' = [users EXCEPT ![u] = r]
    <3>1. PICK u \in Users, e \in Emails, g \in Identities \cup {None}, p \in BOOLEAN :
            InsertUser(u, e, g, p) /\ now' = now
      BY <1>0, <1>3 DEF Signup, GithubCreates, SessionsTypeOK
    <3>2. [state |-> "live", email |-> e, github |-> g, password |-> p, sv |-> 0,
           until |-> 0] \in UserRow
      BY DEF UserRow, Forever
    <3> QED  BY <3>1, <3>2 DEF InsertUser
  <2> QED  BY <1>0, <1>1, <2>1 DEF SessionsTypeOK
<1>4. CASE \E t \in tokens : Logout(t) \/ DeleteAccount(t)
  <2>1. PICK t \in tokens : Logout(t) \/ DeleteAccount(t)
    BY <1>4
  <2>2. t.user \in Users /\ Live(t.user) /\ now' = now
    BY <1>0, <2>1 DEF Logout, DeleteAccount, Resolves, SessionsTypeOK, Token
  <2>3. \A v \in Users : v # t.user => users'[v] = users[v]
    BY <1>0, <2>1 DEF Logout, DeleteAccount, SessionsTypeOK
  <2>4. /\ users'[t.user].state \in {"live", "deleted"}
        /\ users'[t.user].sv \in {users[t.user].sv, users[t.user].sv + 1}
    BY <1>0, <2>1, <2>2 DEF Logout, DeleteAccount, SessionsTypeOK, Live
  <2> QED  BY <1>1, <2>2, <2>3, <2>4 DEF Live
<1>5. CASE \E u \in Users, until \in 1..Forever : Suspend(u, until)
  BY <1>0, <1>1, <1>5 DEF Suspend, Live, SessionsTypeOK
<1>6. CASE \E u \in Users : Unsuspend(u)
  BY <1>0, <1>1, <1>6 DEF Unsuspend, Live, SessionsTypeOK
<1> QED
  BY <1>2, <1>3, <1>4, <1>5, <1>6 DEF SessionsNext, Login, GithubLogin, GithubFails, GithubReturns,
     GithubRefused, GithubCallback, CreateKey, RevokeKey, AdmitSession, AdmitKey,
     CreateAnonymousKey, AdmitAnonymous, RequestEnds, SetSignup, SessionTick, Restart

\* A session that stopped working never works again (AUTH-004).
THEOREM RevokedStayRevokedHolds == SessionsSpec => RevokedStayRevoked
<1>1. SessionsIInv /\ [SessionsNext]_sessionVars => [\A t \in tokens : ~Resolves(t) => ~Resolves(t)']_sessionVars
  <2> SUFFICES ASSUME SessionsIInv, SessionsNext, NEW t \in tokens, ~Resolves(t), Resolves(t)'
               PROVE  FALSE
    OBVIOUS
  <2>1. /\ t.user \in Users /\ t.exp \in Nat /\ t.sv \in Nat
        /\ users[t.user].state \in {"live", "deleted"} /\ t.sv <= users[t.user].sv
    BY DEF SessionsIInv, SessionsTypeOK, TokensAreOld, Token
  <2> QED  BY <2>1, NothingGoesBack DEF Resolves, Live
<1> QED  BY <1>1, AlwaysIInv, PTL DEF SessionsSpec, RevokedStayRevoked

\* A suspended account starts nothing (AUTH-017).
THEOREM SuspendedStartNothingHolds == SessionsSpec => SuspendedStartNothing
<1> DEFINE Started ==
      /\ \A r \in Requests : running'[r] # running[r] => ~IsSuspended(running'[r])
      /\ \A k \in Keys : keys[k].state # "live" /\ keys'[k].state = "live" =>
                           ~IsSuspended(keys'[k].owner)
      /\ \A t \in tokens' \ tokens : ~IsSuspended(t.user)
<1>1. SessionsIInv /\ [SessionsNext]_sessionVars => [Started]_sessionVars
  <2> SUFFICES ASSUME SessionsIInv, SessionsNext PROVE Started
    OBVIOUS
  <2>0. SessionsTypeOK
    BY DEF SessionsIInv
  <2>1. \A r \in Requests : running'[r] # running[r] => ~IsSuspended(running'[r])
    <3>1. CASE UNCHANGED running
      BY <3>1
    <3>2. CASE \E t \in tokens, r \in Requests : AdmitSession(r, t)
      BY <2>0, <3>2 DEF AdmitSession, SessionsTypeOK
    <3>3. CASE \E k \in Keys, r \in Requests : AdmitKey(r, k)
      BY <2>0, <3>3 DEF AdmitKey, SessionsTypeOK
    <3>4. CASE \E r \in Requests : AdmitAnonymous(r) \/ RequestEnds(r)
      BY <2>0, <3>4 DEF AdmitAnonymous, RequestEnds, SessionsTypeOK, IsSuspended, Live
    <3>5. CASE Restart
      BY <2>0, <3>5 DEF Restart, SessionsTypeOK, IsSuspended, Live
    <3> QED
      BY <3>1, <3>2, <3>3, <3>4, <3>5 DEF SessionsNext, Signup, Login, GithubLogin, GithubFails,
         GithubReturns, GithubRefused, GithubCallback, GithubCreates, Logout, DeleteAccount,
         CreateKey, RevokeKey, CreateAnonymousKey, Suspend, Unsuspend, SetSignup, SessionTick
  <2>2. \A k \in Keys : keys[k].state # "live" /\ keys'[k].state = "live" =>
                          ~IsSuspended(keys'[k].owner)
    <3>1. CASE UNCHANGED keys
      BY <3>1
    <3>2. CASE \E u \in Users, e \in Emails, k \in Keys : Signup(u, e, k)
      BY <2>0, <3>2 DEF Signup, InsertUser, SessionsTypeOK, IsSuspended, Live
    <3>3. CASE \E t \in tokens : DeleteAccount(t)
      BY <2>0, <3>3 DEF DeleteAccount, SessionsTypeOK
    <3>4. CASE \E t \in tokens, k \in Keys : CreateKey(t, k) \/ RevokeKey(t, k)
      BY <2>0, <3>4 DEF CreateKey, RevokeKey, SessionsTypeOK
    <3>5. CASE \E k \in Keys : CreateAnonymousKey(k)
      BY <2>0, <3>5 DEF CreateAnonymousKey, SessionsTypeOK, IsSuspended, Live
    <3> QED
      BY <3>1, <3>2, <3>3, <3>4, <3>5 DEF SessionsNext, Login, GithubLogin, GithubFails,
         GithubReturns, GithubRefused, GithubCallback, GithubCreates, Logout,
         AdmitSession, AdmitKey, AdmitAnonymous, RequestEnds, Suspend, Unsuspend,
         SetSignup, SessionTick, Restart
  <2>3. \A t \in tokens' \ tokens : ~IsSuspended(t.user)
    <3>1. CASE tokens' \subseteq tokens
      BY <3>1
    <3>2. CASE \E u \in Users : IssueSession(u) /\ ~IsSuspended(u)
      BY <3>2 DEF IssueSession
    <3>3. CASE \E u \in Users, e \in Emails, k \in Keys : Signup(u, e, k)
      BY <3>2, <3>3 DEF Signup, InsertUser, IsSuspended, Live
    <3>4. CASE \E b \in Browsers, u \in Users, e \in Emails : GithubCreates(b, u, e)
      BY <3>2, <3>4 DEF GithubCreates, InsertUser, IsSuspended, Live
    <3>5. CASE \E u \in Users : Login(u)
      BY <3>2, <3>5 DEF Login
    <3>6. CASE \E b \in Browsers : GithubReturns(b)
      BY <3>1, <3>2, <3>6 DEF GithubReturns
    <3> QED
      BY <3>1, <3>3, <3>4, <3>5, <3>6 DEF SessionsNext, GithubLogin, GithubFails,
         GithubRefused, GithubCallback, Logout, DeleteAccount, CreateKey, RevokeKey,
         CreateAnonymousKey, AdmitSession, AdmitKey, AdmitAnonymous, RequestEnds, Suspend,
         Unsuspend, SetSignup, SessionTick, Restart
  <2> QED  BY <2>1, <2>2, <2>3
<1> QED  BY <1>1, AlwaysIInv, PTL DEF SessionsSpec, SuspendedStartNothing

\* A paused sign-up creates nobody (OPS-009).
THEOREM PausedCreatesNobodyHolds == SessionsSpec => PausedCreatesNobody
<1>1. SessionsIInv /\ [SessionsNext]_sessionVars =>
        [signupDisabled => \A u \in Users : Live(u)' => Live(u)]_sessionVars
  <2> SUFFICES ASSUME SessionsIInv, SessionsNext, signupDisabled, NEW u \in Users, Live(u)'
               PROVE  Live(u)
    OBVIOUS
  <2>0. SessionsTypeOK
    BY DEF SessionsIInv
  <2>1. CASE users' = users
    BY <2>1 DEF Live
  <2>2. CASE \E t \in tokens : Logout(t) \/ DeleteAccount(t)
    <3>1. CASE \E t \in tokens : Logout(t)
      BY <2>0, <3>1 DEF Logout, Resolves, Live, SessionsTypeOK
    <3>2. CASE \E t \in tokens : DeleteAccount(t)
      BY <2>0, <3>2 DEF DeleteAccount, Resolves, Live, SessionsTypeOK
    <3>3. QED
      BY <2>2, <3>1, <3>2
  <2>3. CASE \E v \in Users, until \in 1..Forever : Suspend(v, until)
    BY <2>0, <2>3 DEF Suspend, Live, SessionsTypeOK
  <2>4. CASE \E v \in Users : Unsuspend(v)
    BY <2>0, <2>4 DEF Unsuspend, Live, SessionsTypeOK
  <2> QED
    BY <2>1, <2>2, <2>3, <2>4 DEF SessionsNext, Signup, Login, GithubLogin, GithubFails,
       GithubReturns, GithubRefused, GithubCallback, GithubCreates, CreateKey, RevokeKey,
       CreateAnonymousKey, AdmitSession, AdmitKey, AdmitAnonymous, RequestEnds, SetSignup,
       SessionTick, Restart
<1> QED  BY <1>1, AlwaysIInv, PTL DEF SessionsSpec, PausedCreatesNobody

\* Only administrators operate (AUTH-009, AUTH-010).
THEOREM OnlyAdminsOperateHolds == SessionsSpec => OnlyAdminsOperate
<1> DEFINE Admin == \/ \E t \in tokens : /\ Live(t.user) /\ ~IsSuspended(t.user)
                                         /\ users[t.user].email \in adminEmails
                                         /\ t.exp >= now /\ t.sv = users[t.user].sv
                    \/ ~InProduction /\ \A u \in Users : ~Live(u)
<1>1. AdminRequest => Admin
  BY DEF AdminRequest, AdminSession, RoleFor, Resolves
<1>2. SessionsIInv /\ [SessionsNext]_sessionVars =>
        [lastAction' # lastAction \/ signupDisabled' \notin {signupDisabled, SignupPaused}
           => Admin]_sessionVars
  <2> SUFFICES ASSUME SessionsNext, \/ lastAction' # lastAction
                            \/ signupDisabled' \notin {signupDisabled, SignupPaused}
               PROVE  AdminRequest
    BY <1>1
  <2> QED
    BY DEF SessionsNext, Signup, Login, GithubLogin, GithubFails,
       GithubReturns, GithubRefused, GithubCallback, GithubCreates, Logout, DeleteAccount,
       CreateKey, RevokeKey, CreateAnonymousKey, AdmitSession, AdmitKey, AdmitAnonymous,
       RequestEnds, Suspend, Unsuspend, SetSignup, SessionTick, Restart
<1> QED  BY <1>2, AlwaysIInv, PTL DEF SessionsSpec, OnlyAdminsOperate

\* The accounts are in order in every reachable state: the run's invariant,
\* whole (AUTH-004, AUTH-011, AUTH-017).
THEOREM AccountsAreInOrderHolds == SessionsSpec => []AccountsAreInOrder
BY SessionsTypeCorrect, SuspensionEndsSessionsHolds, KeysHaveOwnersHolds,
   BanIsNotShedHolds, AuditTellsSuspensionHolds, PTL DEF AccountsAreInOrder

\* Suspension, pause and the allowlist bind every step (AUTH-009, OPS-009).
THEOREM OperatorsDecideHolds == SessionsSpec => OperatorsDecide
BY RevokedStayRevokedHolds, SuspendedStartNothingHolds, PausedCreatesNobodyHolds, OnlyAdminsOperateHolds
   DEF OperatorsDecide

===============================================================================
