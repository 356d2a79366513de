--------------------------- MODULE ProviderAdmission ---------------------------
(***************************************************************************)
(* How a provider's socket becomes a routable provider and stops being     *)
(* one: main.provider_websocket with RegistrationGuard                     *)
(* (coordinator/provider_registration.py), and the operators' and owners'  *)
(* handlers that revoke credentials, suspend owners and disconnect         *)
(* providers (routes_admin.py, routes_provider.py).  All run on one event  *)
(* loop; an action is a stretch between two awaits.                        *)
(*                                                                         *)
(*   new -> rejected                                                       *)
(*      \-> pending -> registered -> gone                                  *)
(*                \         \-> closing -> gone                            *)
(*                 \-> refusing -> gone                                    *)
(*                                                                         *)
(* "registered" are the sockets in ProviderHub._providers.  The throttle   *)
(* of attempts per credential is a refusal that may happen at any time.    *)
(***************************************************************************)
EXTENDS ProviderAccounts

CONSTANTS
  Sockets,     (* WebSocket connections, each used once                     *)
  NoToken,     (* a connection without a credential                         *)
  MaxPending,  (* MAX_INCOMPLETE_REGISTRATIONS                              *)
  Production,  (* is_production()                                           *)
  Sweeps       (* bound: disconnecting handlers that run at the same time   *)

ASSUME AdmissionAssumption ==
  /\ IsFiniteSet(Sockets)
  /\ NoToken \notin Tokens
  /\ MaxPending \in Nat
  /\ Production \in BOOLEAN

VARIABLES
  phase,         (* where the task of each socket is                        *)
  credential,    (* token_id of the socket                                  *)
  pendingCount,  (* RegistrationGuard.pending                               *)
  todo           (* the rest of the list a handler is disconnecting         *)

socketVars == <<phase, credential, pendingCount>>
vars == <<accountVars, socketVars, todo>>

Incomplete == {"pending", "refusing"}
Phases == {"new", "rejected", "registered", "closing", "gone"} \cup Incomplete

Init ==
  /\ AccountsInit
  /\ phase = [s \in Sockets |-> "new"]
  /\ credential = [s \in Sockets |-> NoToken]
  /\ pendingCount = 0
  /\ todo = [h \in Sweeps |-> {}]

TypeOK ==
  /\ AccountsTypeOK
  /\ phase \in [Sockets -> Phases]
  /\ credential \in [Sockets -> Tokens \cup {NoToken}]
  /\ pendingCount \in 0..MaxPending
  /\ todo \in [Sweeps -> SUBSET Sockets]

-----------------------------------------------------------------------------
(* The socket task.                                                          *)

Moves(s, to) == phase' = [phase EXCEPT ![s] = to]

(* The check at the upgrade: a valid credential, or none at all in a         *)
(* development instance that has not issued any.                             *)
Acceptable(c) ==
  \/ c \in Tokens /\ CredentialIsActive(c)
  \/ c = NoToken /\ Issued = {} /\ ~Production

(* The credential is refused, throttled, or too many others are pending.     *)
RejectUpgrade(s) ==
  /\ phase[s] = "new"
  /\ Moves(s, "rejected")
  /\ UNCHANGED <<accountVars, credential, pendingCount, todo>>

(* Variant of AcceptUpgrade with an off-by-one in begin.                     *)
AcceptOneMore(s, c) ==
  /\ phase[s] = "new"
  /\ Acceptable(c)
  /\ pendingCount <= MaxPending
  /\ pendingCount' = pendingCount + 1
  /\ Moves(s, "pending")
  /\ credential' = [credential EXCEPT ![s] = c]
  /\ UNCHANGED <<accountVars, todo>>

(* The credential is good and RegistrationGuard.begin has a place.           *)
AcceptUpgrade(s, c) ==
  /\ phase[s] = "new"
  /\ Acceptable(c)
  /\ pendingCount < MaxPending
  /\ pendingCount' = pendingCount + 1
  /\ Moves(s, "pending")
  /\ credential' = [credential EXCEPT ![s] = c]
  /\ UNCHANGED <<accountVars, todo>>

(* RegistrationGuard.finish.                                                 *)
GuardFinish ==
  pendingCount' = IF pendingCount > 0 THEN pendingCount - 1 ELSE 0

(* Variant of Register without the second look at the credential.            *)
RegisterUnchecked(s) ==
  /\ phase[s] = "pending"
  /\ Moves(s, "registered")
  /\ GuardFinish
  /\ UNCHANGED <<accountVars, credential, todo>>

(* A valid registration message arrives; the credential is looked at again,  *)
(* in the same step that makes the provider routable.                        *)
Register(s) ==
  /\ phase[s] = "pending"
  /\ credential[s] \in Tokens => CredentialIsActive(credential[s])
  /\ Moves(s, "registered")
  /\ GuardFinish
  /\ UNCHANGED <<accountVars, credential, todo>>

(* Timeout, invalid message or inactive credential: await ws.close.          *)
RefuseRegistration(s) ==
  /\ phase[s] = "pending"
  /\ Moves(s, "refusing")
  /\ UNCHANGED <<accountVars, credential, pendingCount, todo>>

(* Variant of EndRegistration that gives nothing back.                       *)
EndRegistrationCounted(s) ==
  /\ phase[s] \in Incomplete
  /\ Moves(s, "gone")
  /\ UNCHANGED <<accountVars, credential, pendingCount, todo>>

(* The finally clause of a task that did not register.                       *)
EndRegistration(s) ==
  /\ phase[s] \in Incomplete
  /\ Moves(s, "gone")
  /\ GuardFinish
  /\ UNCHANGED <<accountVars, credential, todo>>

(* The finally clause of a task that did: disconnect_provider.               *)
EndConnection(s) ==
  /\ phase[s] \in {"registered", "closing"}
  /\ Moves(s, "gone")
  /\ UNCHANGED <<accountVars, credential, pendingCount, todo>>

-----------------------------------------------------------------------------
(* Handlers that disconnect providers.                                       *)

Registered == {s \in Sockets : phase[s] = "registered"}
Using(t) == {s \in Registered : credential[s] = t}
UsedBy(o) == {s \in Registered : credential[s] \in OwnedTokens(o)}

(* Variant of SweepOn that stops at the first provider.                      *)
SweepFirst(h, S) ==
  /\ IF S \cap Registered = {}
     THEN UNCHANGED phase
     ELSE \E s \in S \cap Registered : Moves(s, "closing")
  /\ todo' = [todo EXCEPT ![h] = {}]
  /\ UNCHANGED <<credential, pendingCount>>

(* Handler h goes through the providers S: those that have left are skipped, *)
(* the next one leaves the hub, and then h awaits its ws.close.              *)
SweepOn(h, S) ==
  /\ IF S \cap Registered = {}
     THEN /\ UNCHANGED phase
          /\ todo' = [todo EXCEPT ![h] = {}]
     ELSE \E s \in S \cap Registered :
            /\ Moves(s, "closing")
            /\ todo' = [todo EXCEPT ![h] = (S \cap Registered) \ {s}]
  /\ UNCHANGED <<credential, pendingCount>>

AdminRevokes(h, t) ==
  /\ todo[h] = {}
  /\ RevokeToken(t)
  /\ SweepOn(h, Using(t))

OwnerRevokes(h, o, t) ==
  /\ todo[h] = {}
  /\ RevokeOwnedCredential(o, t)
  /\ SweepOn(h, Using(t))

AdminSuspends(h, o) ==
  /\ todo[h] = {}
  /\ SuspendUser(o)
  /\ SweepOn(h, UsedBy(o))

ContinueSweep(h) ==
  /\ todo[h] # {}
  /\ SweepOn(h, todo[h])
  /\ UNCHANGED accountVars

(* The operator disconnects one provider.                                    *)
AdminDisconnects(s) ==
  /\ phase[s] = "registered"
  /\ Moves(s, "closing")
  /\ UNCHANGED <<accountVars, credential, pendingCount, todo>>

-----------------------------------------------------------------------------
Socket(s) ==
  \/ RejectUpgrade(s)
  \/ \E c \in Tokens \cup {NoToken} : AcceptUpgrade(s, c)
  \/ Register(s)
  \/ RefuseRegistration(s)
  \/ EndRegistration(s)
  \/ EndConnection(s)
  \/ AdminDisconnects(s)

Account ==
  /\ \/ \E o \in Owners : CreateUser(o) \/ DeleteUser(o) \/ UnsuspendUser(o)
     \/ \E t \in Tokens : CreateProviderToken(t)
     \/ \E o \in Owners, t \in Tokens :
          ClaimLegacyProvider(t, o) \/ EnrollProviderNode(o, t)
     \/ Tick
  /\ UNCHANGED <<socketVars, todo>>

Sweep(h) ==
  \/ \E t \in Tokens : AdminRevokes(h, t)
  \/ \E o \in Owners, t \in Tokens : OwnerRevokes(h, o, t)
  \/ \E o \in Owners : AdminSuspends(h, o)
  \/ ContinueSweep(h)

Next ==
  \/ \E s \in Sockets : Socket(s)
  \/ Account
  \/ \E h \in Sweeps : Sweep(h)

Spec == Init /\ [][Next]_vars

(* The close of a socket ends, at the latest when its keepalive fails, so a  *)
(* handler that is disconnecting providers goes on.                          *)
FairSpec == Spec /\ \A h \in Sweeps : WF_vars(ContinueSweep(h))

-----------------------------------------------------------------------------
(* Properties.                                                               *)

(* The guard counts exactly the sockets that are between their upgrade and   *)
(* the end of their registration: no way out of the handshake forgets to     *)
(* give its place back or gives it back twice, so the cap never wears out.   *)
PendingIsCounted ==
  pendingCount = Cardinality({s \in Sockets : phase[s] \in Incomplete})

(* A provider in the hub has a credential that is not revoked and an owner   *)
(* who is not suspended, unless a handler is about to disconnect it; also if *)
(* the credential was revoked, claimed or its owner suspended during the     *)
(* handshake (PROV-010, AUTH-017, the comment at main.py:448).               *)
RevokedAreSwept ==
  \A s \in Registered :
    \/ credential[s] = NoToken
    \/ CredentialIsActive(credential[s])
    \/ \E h \in Sweeps : s \in todo[h]

(* A revoked credential's connections leave the hub, all of them (PROV-010). *)
RevokedLeave ==
  \A s \in Sockets :
    (phase[s] = "registered" /\ credential[s] \in revoked) ~> phase[s] # "registered"

(* A node is never left without its owner, whatever the order of claims,     *)
(* enrollments, revocations and account deletions (delete_user).             *)
NodesHaveOwners ==
  \A t \in Tokens : nodeOwner[t] # NoOwner => user[nodeOwner[t]] = "present"

(* PROV-018: an owner has at most one self-service credential in use, and    *)
(* gets at most DailyLimit of them within any 24 hours, whenever they begin  *)
(* and however many were revoked meanwhile.                                  *)
EnrollmentIsCapped ==
  \A o \in Owners :
    /\ Cardinality(SelfService(o) \ revoked) <= 1
    /\ \A begin \in 0..MaxClock :
         Cardinality({t \in SelfService(o) :
                        createdAt[t] \in begin..(begin + Day)}) <= DailyLimit

(* What sockets leave in the hub and in the guard, in every order.           *)
AdmissionIsTidy == TypeOK /\ PendingIsCounted /\ RevokedAreSwept

(* What owners may have, in every order.                                     *)
OwnershipHolds == NodesHaveOwners /\ EnrollmentIsCapped

=============================================================================
