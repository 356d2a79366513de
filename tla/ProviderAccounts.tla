--------------------------- MODULE ProviderAccounts ---------------------------
(***************************************************************************)
(* Who owns a provider and with which credential: the users,               *)
(* provider_nodes and provider_tokens tables of coordinator/store.py.      *)
(* Every operation is one transaction and so one step; the methods are     *)
(* action operators, the handlers that call them are in ProviderAdmission. *)
(*                                                                         *)
(* A credential, its billing account and its node belong together one to   *)
(* one, so all three are named by the credential.                          *)
(***************************************************************************)
EXTENDS Naturals, FiniteSets

CONSTANTS
  Owners,       (* IE users with a linked GitHub identity                   *)
  NoOwner,      (* of a credential that is bound to no node                 *)
  Tokens,       (* provider credentials, issued or not                      *)
  DailyLimit,   (* SELF_SERVICE_DAILY_ISSUANCE_LIMIT                        *)
  Day,          (* ticks of the clock that make 24 hours                    *)
  Durations,    (* of temporary suspensions, in ticks                       *)
  Permanent,    (* PERMANENT_SUSPENSION                                     *)
  MaxClock      (* bound: the clock stops there                             *)

ASSUME AccountsAssumption ==
  /\ NoOwner \notin Owners
  /\ IsFiniteSet(Tokens)
  /\ DailyLimit \in Nat /\ Day \in Nat
  /\ Durations \subseteq Nat \ {0}
  /\ MaxClock \in Nat
  /\ Permanent \in Nat /\ Permanent > MaxClock

VARIABLES
  clock,            (* time.time()                                          *)
  user,             (* rows of the users table                              *)
  suspendedUntil,   (* users.suspended_until; 0 means NULL                  *)
  source,           (* provider_tokens.issuance_source                      *)
  createdAt,        (* provider_tokens.created_at                           *)
  revoked,          (* provider_tokens with revoked_at set                  *)
  nodeOwner         (* owner of the node a credential is bound to           *)

userVars == <<user, suspendedUntil>>
tokenVars == <<source, createdAt, revoked, nodeOwner>>
accountVars == <<clock, userVars, tokenVars>>

AccountsInit ==
  /\ clock = 0
  /\ user = [o \in Owners |-> "absent"]
  /\ suspendedUntil = [o \in Owners |-> 0]
  /\ source = [t \in Tokens |-> "none"]
  /\ createdAt = [t \in Tokens |-> 0]
  /\ revoked = {}
  /\ nodeOwner = [t \in Tokens |-> NoOwner]

AccountsTypeOK ==
  /\ clock \in 0..MaxClock
  /\ user \in [Owners -> {"absent", "present", "deleted"}]
  /\ suspendedUntil \in [Owners -> Nat]
  /\ source \in [Tokens -> {"none", "admin", "self_service"}]
  /\ createdAt \in [Tokens -> Nat]
  /\ revoked \in SUBSET Tokens
  /\ nodeOwner \in [Tokens -> Owners \cup {NoOwner}]

-----------------------------------------------------------------------------
(* Queries.                                                                  *)

Suspended(o) == suspendedUntil[o] > clock
InGoodStanding(o) == user[o] = "present" /\ ~Suspended(o)
Issued == {t \in Tokens : source[t] # "none"}
OwnedTokens(o) == {t \in Tokens : nodeOwner[t] = o}
SelfService(o) == {t \in OwnedTokens(o) : source[t] = "self_service"}

(* provider_credential_is_active; the handshake checks the same thing with   *)
(* validate_provider_token, get_provider_node_owner and get_suspension.      *)
CredentialIsActive(t) ==
  /\ t \in Issued \ revoked
  /\ nodeOwner[t] # NoOwner => ~Suspended(nodeOwner[t])

-----------------------------------------------------------------------------
(* Users.                                                                    *)

(* upsert_github_user.                                                       *)
CreateUser(o) ==
  /\ user[o] = "absent"
  /\ user' = [user EXCEPT ![o] = "present"]
  /\ UNCHANGED <<clock, suspendedUntil, tokenVars>>

(* Variant of DeleteUser that only looks for credentials still in use.       *)
DeleteUserWithRevoked(o) ==
  /\ InGoodStanding(o)
  /\ OwnedTokens(o) \subseteq revoked
  /\ user' = [user EXCEPT ![o] = "deleted"]
  /\ UNCHANGED <<clock, suspendedUntil, tokenVars>>

(* delete_user, by the user, who must not be suspended.                      *)
DeleteUser(o) ==
  /\ InGoodStanding(o)
  /\ OwnedTokens(o) = {}
  /\ user' = [user EXCEPT ![o] = "deleted"]
  /\ UNCHANGED <<clock, suspendedUntil, tokenVars>>

SuspendUser(o) ==
  /\ user[o] = "present"
  /\ \E until \in {clock + d : d \in Durations} \cup {Permanent} :
       suspendedUntil' = [suspendedUntil EXCEPT ![o] = until]
  /\ UNCHANGED <<clock, user, tokenVars>>

UnsuspendUser(o) ==
  /\ user[o] = "present"
  /\ suspendedUntil' = [suspendedUntil EXCEPT ![o] = 0]
  /\ UNCHANGED <<clock, user, tokenVars>>

-----------------------------------------------------------------------------
(* Credentials.                                                              *)

Issue(t, s, o) ==
  /\ source[t] = "none"
  /\ source' = [source EXCEPT ![t] = s]
  /\ createdAt' = [createdAt EXCEPT ![t] = clock]
  /\ nodeOwner' = [nodeOwner EXCEPT ![t] = o]
  /\ UNCHANGED <<clock, userVars, revoked>>

CreateProviderToken(t) == Issue(t, "admin", NoOwner)

(* claim_legacy_provider: binds an unclaimed credential to an owner.         *)
ClaimLegacyProvider(t, o) ==
  /\ InGoodStanding(o)
  /\ t \in Issued \ revoked
  /\ nodeOwner[t] = NoOwner
  /\ nodeOwner' = [nodeOwner EXCEPT ![t] = o]
  /\ UNCHANGED <<clock, userVars, source, createdAt, revoked>>

(* Self-service credentials of o that were issued in the last 24 hours.      *)
IssuedToday(o) == {t \in SelfService(o) : createdAt[t] + Day >= clock}

(* Variants of EnrollProviderNode: the daily limit counts only what is still *)
(* in use.                                                                   *)
EnrollCountingActive(o, t) ==
  /\ InGoodStanding(o)
  /\ SelfService(o) \subseteq revoked
  /\ Cardinality(IssuedToday(o) \ revoked) < DailyLimit
  /\ Issue(t, "self_service", o)

(* enroll_provider_node: one node in use at a time, DailyLimit in 24 hours.  *)
EnrollProviderNode(o, t) ==
  /\ InGoodStanding(o)
  /\ SelfService(o) \subseteq revoked
  /\ Cardinality(IssuedToday(o)) < DailyLimit
  /\ Issue(t, "self_service", o)

(* revoke_provider_token.                                                    *)
RevokeToken(t) ==
  /\ t \in Issued \ revoked
  /\ revoked' = revoked \cup {t}
  /\ UNCHANGED <<clock, userVars, source, createdAt, nodeOwner>>

(* revoke_owned_self_service_credential, by an owner in good standing.       *)
RevokeOwnedCredential(o, t) ==
  /\ InGoodStanding(o)
  /\ t \in SelfService(o)
  /\ RevokeToken(t)

Tick ==
  /\ clock < MaxClock
  /\ clock' = clock + 1
  /\ UNCHANGED <<userVars, tokenVars>>

=============================================================================
