------------------------------- MODULE Throttles -------------------------------
(***************************************************************************)
(* What bounds how often a caller may ask: the token bucket of each        *)
(* consumer (rate_limiter.py), the sliding windows of sign-in by peer      *)
(* (routes_auth.py), of enrollment by owner and by peer                    *)
(* (routes_provider.py) and of registration by credential                  *)
(* (provider_registration.py).                                             *)
(*                                                                         *)
(* All of them read one clock, which does not go back.  A bucket gains one *)
(* unit with each tick, and a request costs PerRequest units.              *)
(***************************************************************************)
EXTENDS Integers, FiniteSets, SequencesExt

CONSTANTS
    Consumers, Burst, PerRequest,       \* the bucket holds Burst requests
    Peers, SignInLimit, SignInWindow,
    Owners, OwnerLimit, PeerLimit, EnrollWindow,
    Credentials, CredentialLimit, CredentialWindow, MaxBuckets,
    MaxTime                             \* bound: the last tick

ASSUME ThrottlesAssumption ==
    /\ Burst \in Nat \ {0} /\ PerRequest \in Nat \ {0}
    /\ SignInLimit \in Nat \ {0} /\ OwnerLimit \in Nat \ {0} /\ PeerLimit \in Nat \ {0}
    /\ CredentialLimit \in Nat \ {0} /\ MaxBuckets \in Nat \ {0}
    /\ {SignInWindow, EnrollWindow, CredentialWindow, MaxTime} \subseteq Nat \ {0}
    /\ IsFiniteSet(Credentials)

VARIABLES
    clock,
    buckets,        \* RateLimiter._buckets: units and time of the last refill
    signIns,        \* _auth_attempts
    enrollments,    \* _EnrollmentRate._attempts, of owners and of peers
    attempts,       \* RegistrationGuard._attempts: <<credential, times>>, oldest first
    passed          \* history: of each kind and caller, when it was let through

throttleVars == <<clock, buckets, signIns, enrollments, attempts, passed>>

Absent == [units |-> -1, at |-> 0]
EnrollKeys == ({"owner"} \X Owners) \union ({"peer"} \X Peers)
Throttled == ({"ask"} \X Consumers) \union ({"sign-in"} \X Peers) \union EnrollKeys
            \union ({"register"} \X Credentials)
Full == Burst * PerRequest

\* Variant of Within: the window is a tick too short
WithinShort(times, window) ==
    FoldLeft(LAMBDA kept, t : IF clock - t < window - 1 THEN Append(kept, t) ELSE kept, <<>>, times)

\* What is not older than the window
Within(times, window) ==
    FoldLeft(LAMBDA kept, t : IF clock - t < window THEN Append(kept, t) ELSE kept, <<>>, times)

Passed(who) == [k \in DOMAIN passed |-> IF k \in who THEN Append(passed[k], clock) ELSE passed[k]]

Tick ==
    /\ clock < MaxTime /\ clock' = clock + 1
    /\ UNCHANGED <<buckets, signIns, enrollments, attempts, passed>>

\* Variant of Refilled: no cap
RefilledUncapped(b) == b.units + (clock - b.at)

\* TokenBucket: what has come back since the last request
Refilled(b) == LET units == b.units + (clock - b.at) IN IF units > Full THEN Full ELSE units

\* RateLimiter.allow: a new bucket is full
Ask(c) ==
    LET units == IF buckets[c] = Absent THEN Full ELSE Refilled(buckets[c])
        allowed == units >= PerRequest
    IN  /\ buckets' = [buckets EXCEPT ![c] =
              [units |-> IF allowed THEN units - PerRequest ELSE units, at |-> clock]]
        /\ passed' = IF allowed THEN Passed({<<"ask", c>>}) ELSE passed
        /\ UNCHANGED <<clock, signIns, enrollments, attempts>>

\* Variant of SignIn: an attempt that is refused counts too
SignInCounting(p) ==
    LET kept == Within(signIns[p], SignInWindow)
        allowed == Len(kept) < SignInLimit
    IN  /\ signIns' = [signIns EXCEPT ![p] = Append(kept, clock)]
        /\ passed' = IF allowed THEN Passed({<<"sign-in", p>>}) ELSE passed
        /\ UNCHANGED <<clock, buckets, enrollments, attempts>>

\* _check_auth_rate
SignIn(p) ==
    LET kept == Within(signIns[p], SignInWindow)
        allowed == Len(kept) < SignInLimit
    IN  /\ signIns' = IF allowed THEN [signIns EXCEPT ![p] = Append(kept, clock)] ELSE signIns
        /\ passed' = IF allowed THEN Passed({<<"sign-in", p>>}) ELSE passed
        /\ UNCHANGED <<clock, buckets, enrollments, attempts>>

\* Variant of Enroll: each key is counted as soon as it passes
EnrollEagerly(o, p) ==
    LET owner == <<"owner", o>>
        peer == <<"peer", p>>
        mine == Within(enrollments[owner], EnrollWindow)
        theirs == Within(enrollments[peer], EnrollWindow)
        allowed == Len(mine) < OwnerLimit /\ Len(theirs) < PeerLimit
    IN  /\ enrollments' = [enrollments EXCEPT
              ![owner] = IF Len(mine) < OwnerLimit THEN Append(mine, clock) ELSE mine,
              ![peer] = IF allowed THEN Append(theirs, clock) ELSE theirs]
        /\ passed' = IF allowed THEN Passed({owner, peer}) ELSE passed
        /\ UNCHANGED <<clock, buckets, signIns, attempts>>

\* _EnrollmentRate.allow: both keys are counted, or neither
Enroll(o, p) ==
    LET owner == <<"owner", o>>
        peer == <<"peer", p>>
        mine == Within(enrollments[owner], EnrollWindow)
        theirs == Within(enrollments[peer], EnrollWindow)
        ownerHas == Len(mine) < OwnerLimit
        allowed == ownerHas /\ Len(theirs) < PeerLimit
    IN  /\ enrollments' = [enrollments EXCEPT
              ![owner] = IF allowed THEN Append(mine, clock) ELSE mine,
              ![peer] = IF allowed THEN Append(theirs, clock) ELSE IF ownerHas THEN theirs ELSE @]
        /\ passed' = IF allowed THEN Passed({owner, peer}) ELSE passed
        /\ UNCHANGED <<clock, buckets, signIns, attempts>>

Has(table, k) == \E i \in DOMAIN table : table[i][1] = k

\* Variant of WithRoom: the table is emptied when it is full
WithRoomForAll(k) ==
    IF Has(attempts, k) THEN attempts
    ELSE (IF Len(attempts) >= MaxBuckets THEN <<>> ELSE attempts) \o <<<<k, <<>>>>>>

\* The oldest credential is forgotten when a new one finds the table full
WithRoom(k) ==
    IF Has(attempts, k) THEN attempts
    ELSE (IF Len(attempts) >= MaxBuckets THEN Tail(attempts) ELSE attempts) \o <<<<k, <<>>>>>>

\* RegistrationGuard.allow
Register(k) ==
    LET table == WithRoom(k)
        i == CHOOSE n \in DOMAIN table : table[n][1] = k
        kept == Within(table[i][2], CredentialWindow)
        allowed == Len(kept) < CredentialLimit
    IN  /\ attempts' = [table EXCEPT ![i] = <<k, IF allowed THEN Append(kept, clock) ELSE kept>>]
        /\ passed' = IF allowed THEN Passed({<<"register", k>>}) ELSE passed
        /\ UNCHANGED <<clock, buckets, signIns, enrollments>>

ThrottlesInit ==
    /\ clock = 0 /\ attempts = <<>>
    /\ passed = [k \in Throttled |-> <<>>]
    /\ buckets = [c \in Consumers |-> Absent]
    /\ signIns = [p \in Peers |-> <<>>]
    /\ enrollments = [k \in EnrollKeys |-> <<>>]

ThrottlesNext ==
    \/ Tick
    \/ \E c \in Consumers : Ask(c)
    \/ \E p \in Peers : SignIn(p) \/ \E o \in Owners : Enroll(o, p)
    \/ \E k \in Credentials : Register(k)

ThrottlesSpec == ThrottlesInit /\ [][ThrottlesNext]_throttleVars

-----------------------------------------------------------------------------
ThrottlesTypeOK ==
    /\ clock \in 0..MaxTime
    /\ buckets \in [Consumers -> [units : 0..Full, at : 0..clock] \union {Absent}]
    /\ signIns \in [Peers -> Seq(0..clock)] /\ \A p \in Peers : Len(signIns[p]) <= SignInLimit
    /\ enrollments \in [EnrollKeys -> Seq(0..clock)]
    /\ Len(attempts) <= MaxBuckets
    /\ attempts \in Seq(Credentials \X Seq(0..clock))
    /\ passed \in [Throttled -> Seq(0..clock)]

\* However a consumer spaces its requests, no stretch of time admits more than the
\* burst and what came back during it (rate_limiter.py).
BurstIsBounded ==
    \A c \in Consumers :
        LET times == passed[<<"ask", c>>]
        IN  \A i, j \in DOMAIN times :
                i <= j => PerRequest * (j - i + 1) <= Full + (times[j] - times[i])

\* No window admits more than its limit, in whatever order the attempts come: of a
\* peer's sign-ins, and of the enrollments of an owner and of a peer.  A credential
\* that is not forgotten is limited too.
LimitedTo(limit, window, times) ==
    \A i \in DOMAIN times : i + limit \in DOMAIN times => times[i + limit] - times[i] >= window

Registered == {k \in Credentials : passed[<<"register", k>>] # <<>>}

WindowsAreKept ==
    /\ \A p \in Peers : LimitedTo(SignInLimit, SignInWindow, passed[<<"sign-in", p>>])
    /\ \A p \in Peers : LimitedTo(PeerLimit, EnrollWindow, passed[<<"peer", p>>])
    /\ \A o \in Owners : LimitedTo(OwnerLimit, EnrollWindow, passed[<<"owner", o>>])
    /\ Cardinality(Registered) <= MaxBuckets =>
         \A k \in Credentials : LimitedTo(CredentialLimit, CredentialWindow, passed[<<"register", k>>])

\* An attempt that is refused costs its caller nothing, and an owner who is over the
\* limit does not use up the places of others behind the same peer.
RecentPasses(key, window) ==
    Cardinality({i \in DOMAIN passed[key] : clock - passed[key][i] < window})

RefusalsCostNothing ==
    /\ \A p \in Peers :
         Len(Within(signIns[p], SignInWindow)) = RecentPasses(<<"sign-in", p>>, SignInWindow)
    /\ \A key \in EnrollKeys :
         Len(Within(enrollments[key], EnrollWindow)) = RecentPasses(key, EnrollWindow)

\* A new credential takes the place of the oldest only: the attempts of the others
\* are still counted against them.
OnlyTheOldestIsForgotten ==
    [][\A i \in DOMAIN attempts : i > 1 => Has(attempts', attempts[i][1])]_throttleVars

\* All throttles together: nobody gets more than allowed, and nobody less for
\* having been refused or for being forgotten too early.
ThrottlesHold ==
    /\ [](ThrottlesTypeOK /\ BurstIsBounded /\ WindowsAreKept /\ RefusalsCostNothing)
    /\ OnlyTheOldestIsForgotten

=============================================================================
