-------------------------- MODULE Attestation_proofs --------------------------
(***************************************************************************)
(* Proofs about Attestation for every finite set of providers and all      *)
(* lengths of the interval, the check, the timeout, a send and an answer.  *)
(***************************************************************************)
EXTENDS Attestation, FiniteSetTheorems, TLAPS

(* Numbers of providers are natural numbers.                                 *)
LEMMA Counting ==
  ASSUME NEW S \in SUBSET Providers
  PROVE  /\ IsFiniteSet(S)
         /\ Cardinality(S) \in Nat
         /\ Cardinality(S) <= Cardinality(Providers)
         /\ Cardinality(Providers) \in Nat
         /\ \A p \in S : Cardinality(S \ {p}) = Cardinality(S) - 1
  BY AttestationAssumption, FS_Subset, FS_CardinalityType, FS_RemoveElement

(* More sends take longer, and one more takes Stall longer.                  *)
LEMMA StallMonotone ==
  ASSUME NEW k \in Int, NEW l \in Int, k <= l
  PROVE  /\ k * Stall \in Int /\ l * Stall \in Int
         /\ k * Stall <= l * Stall
         /\ (k + 1) * Stall = k * Stall + Stall
         /\ 0 * Stall = 0
<1>1. Stall \in Nat
  BY AttestationAssumption
<1> DEFINE d == l - k
<1>2. d \in Nat /\ l = k + d
  OBVIOUS
<1>3. /\ d * Stall \in Nat /\ l * Stall = k * Stall + d * Stall
      /\ (k + 1) * Stall = k * Stall + Stall
      /\ k * Stall \in Int /\ 0 * Stall = 0
  BY <1>1, <1>2, SMT
<1>4. QED
  BY <1>1, <1>3, SMT

-----------------------------------------------------------------------------
(* Type correctness.                                                         *)

(* The two ways in which the loop goes on, when nobody in the round has an   *)
(* open challenge.                                                           *)
LEMMA GoOnCases ==
  ASSUME NEW round \in SUBSET Providers, NEW open,
         \A p \in round : open[p] = None, GoOn(round, open)
  PROVE  /\ waited' = 0 /\ elapsed' = 0
         /\ \/ \E p \in round :
                 /\ target' = p
                 /\ rest' = round \ {p}
                 /\ challenge' = IF p \in connected THEN [open EXCEPT ![p] = 0] ELSE open
            \/ /\ round = {}
               /\ target' = NoProvider
               /\ rest' = {}
               /\ challenge' = open
<1>1. {q \in round : open[q] # None} = {}
  OBVIOUS
<1>2. \A skipped \in SUBSET {q \in round : open[q] # None} : skipped = {}
  BY <1>1
<1>3. QED
  BY <1>2 DEF GoOn

(* Whatever the round, the loop's variables stay typed.                      *)
LEMMA GoOnType ==
  ASSUME NEW round \in SUBSET Providers, NEW open \in [Providers -> Age],
         GoOn(round, open)
  PROVE  /\ challenge' \in [Providers -> Age]
         /\ target' \in Providers \cup {NoProvider}
         /\ rest' \in SUBSET Providers
         /\ waited' = 0 /\ elapsed' = 0
<1>1. 0 \in Age
  BY DEF Age
<1>2. QED
  BY <1>1 DEF GoOn

(* Every reachable state is well typed.                                      *)
THEOREM TypeCorrect == Spec => []TypeOK
<1>1. Init => TypeOK
  BY AttestationAssumption DEF Init, TypeOK, Age, Patience
<1>2. ASSUME TypeOK, [Next]_vars PROVE TypeOK'
  <2>1. Unanswered \in [Providers -> Age]
    BY <1>2 DEF TypeOK, Unanswered, Age
  <2>2. ASSUME NEW p \in Providers, ProviderStep(p) PROVE TypeOK'
    <3>1. CASE Connect(p)
      BY <1>2, <3>1 DEF Connect, TypeOK, loopVars, Patience
    <3>2. CASE Leave(p)
      BY <1>2, <3>2 DEF Leave, TypeOK, loopVars, Patience, Age
    <3>3. CASE SocketDies(p)
      BY <1>2, <3>3 DEF SocketDies, TypeOK, loopVars, Patience, Age
    <3>4. ASSUME NEW complete \in BOOLEAN, AnswerOpen(p, complete) PROVE TypeOK'
      <4>1. Verdict(p, complete) \in {"pending", "passed", "degraded"}
        BY DEF Verdict
      <4>2. QED
        BY <1>2, <3>4, <4>1 DEF AnswerOpen, TypeOK, loopVars, Patience, Age
    <3>5. CASE AnswerOther(p)
      BY <1>2, <3>5 DEF AnswerOther, TypeOK, loopVars, Patience, Age
    <3>6. QED
      BY <2>2, <3>1, <3>2, <3>3, <3>4, <3>5 DEF ProviderStep
  <2>3. CASE SendEnds
    <3>1. GoOn(rest, challenge)
      BY <2>3 DEF SendEnds
    <3>2. /\ challenge' \in [Providers -> Age]
          /\ target' \in Providers \cup {NoProvider}
          /\ rest' \in SUBSET Providers
          /\ waited' = 0 /\ elapsed' = 0
      BY <1>2, <3>1, GoOnType DEF TypeOK
    <3>3. inbox' \in [Providers -> Age]
      BY <1>2, <2>3 DEF SendEnds, TypeOK, Age
    <3>4. QED
      BY <1>2, <2>3, <3>2, <3>3, AttestationAssumption DEF SendEnds, TypeOK, Patience
  <2>4. CASE SleepOn
    BY <1>2, <2>1, <2>4, AttestationAssumption
    DEF SleepOn, CheckTimeouts, SleepEnds, RoundDue, TypeOK, Patience, Age
  <2>5. CASE StartRound
    <3>1. GoOn(connected, Unanswered)
      BY <2>5 DEF StartRound
    <3>2. /\ challenge' \in [Providers -> Age]
          /\ target' \in Providers \cup {NoProvider}
          /\ rest' \in SUBSET Providers
          /\ waited' = 0 /\ elapsed' = 0
      BY <1>2, <2>1, <3>1, GoOnType DEF TypeOK
    <3>3. QED
      BY <1>2, <2>5, <3>2, AttestationAssumption
      DEF StartRound, CheckTimeouts, TypeOK, Patience, Age
  <2>6. CASE Tick
    <3>1. \A age \in Age : Older(age) \in Age
      BY DEF Older, Age, None
    <3>2. QED
      BY <1>2, <2>6, <3>1, AttestationAssumption DEF Tick, TypeOK, Patience
  <2>7. CASE UNCHANGED vars
    BY <1>2, <2>7 DEF vars, hubVars, loopVars, TypeOK, Patience
  <2>8. QED
    BY <1>2, <2>2, <2>3, <2>4, <2>5, <2>6, <2>7 DEF Next
<1>3. QED
  BY <1>1, <1>2, PTL DEF Spec

-----------------------------------------------------------------------------
(* The invariant.                                                            *)

(* A provider without an open challenge is not overdue.                      *)
LEMMA NotOverdue ==
  ASSUME NEW p \in Providers, challenge[p] = None
  PROVE  ~Overdue(p)
  BY AttestationAssumption DEF Overdue, None

(* What a tick does to an age.                                               *)
LEMMA Ageing ==
  ASSUME NEW age \in Age
  PROVE  /\ Older(age) = None <=> age = None
         /\ age # None => age \in Nat /\ Older(age) = age + 1
  BY DEF Older, Age, None

(* When a round is due, every challenge of the last one is overdue.          *)
LEMMA AllAnswered ==
  ASSUME TypeOK, RoundInv, RoundDue
  PROVE  Unanswered = [p \in Providers |-> None]
<1>1. ASSUME NEW p \in Providers, challenge[p] # None PROVE Overdue(p)
  BY <1>1, AttestationAssumption
  DEF TypeOK, Age, RoundInv, RoundDue, SleepEnds, Overdue
<1>2. QED
  BY <1>1 DEF Unanswered, Overdue

(* What a round begins with.                                                 *)
LEMMA RoundStarts ==
  ASSUME TypeOK, RoundInv, StartRound
  PROVE  /\ waited' = 0 /\ elapsed' = 0
         /\ \/ \E p \in connected :
                 /\ target' = p
                 /\ rest' = connected \ {p}
                 /\ challenge' = [[q \in Providers |-> None] EXCEPT ![p] = 0]
            \/ /\ connected = {}
               /\ target' = NoProvider
               /\ rest' = {}
               /\ challenge' = [q \in Providers |-> None]
<1>1. Unanswered = [q \in Providers |-> None]
  BY AllAnswered DEF StartRound
<1>2. GoOn(connected, Unanswered) /\ connected \in SUBSET Providers
  BY DEF StartRound, TypeOK
<1>3. \A q \in connected : Unanswered[q] = None
  BY <1>1, <1>2
<1>4. QED
  BY <1>1, <1>2, <1>3, GoOnCases

(* What a round goes on with when a send has ended.                          *)
LEMMA RoundGoesOn ==
  ASSUME TypeOK, RoundInv, SendEnds
  PROVE  /\ waited' = 0 /\ elapsed' = 0
         /\ \/ \E p \in rest :
                 /\ target' = p
                 /\ rest' = rest \ {p}
                 /\ challenge' = IF p \in connected THEN [challenge EXCEPT ![p] = 0]
                                 ELSE challenge
            \/ /\ rest = {}
               /\ target' = NoProvider
               /\ rest' = {}
               /\ challenge' = challenge
<1>1. GoOn(rest, challenge) /\ rest \in SUBSET Providers
  BY DEF SendEnds, TypeOK
<1>2. \A q \in rest : challenge[q] = None
  BY DEF RoundInv
<1>3. QED
  BY <1>1, <1>2, GoOnCases

(* Nobody in a round has an open challenge until visited, and what was sent  *)
(* in it is as old as the sleep that follows.                                *)
LEMMA RoundStep ==
  ASSUME TypeOK, TypeOK', AbsentInv, RoundInv, [Next]_vars
  PROVE  AbsentInv' /\ RoundInv'
<1>1. ASSUME NEW p \in Providers, ProviderStep(p) PROVE AbsentInv' /\ RoundInv'
  <2>1. CASE Connect(p)
    BY <2>1 DEF Connect, AbsentInv, RoundInv, loopVars
  <2>2. CASE Leave(p)
    BY <2>2 DEF Leave, AbsentInv, RoundInv, loopVars, TypeOK
  <2>3. CASE SocketDies(p)
    BY <2>3 DEF SocketDies, AbsentInv, RoundInv, loopVars, TypeOK
  <2>4. ASSUME NEW complete \in BOOLEAN, AnswerOpen(p, complete)
        PROVE  AbsentInv' /\ RoundInv'
    BY <2>4 DEF AnswerOpen, AbsentInv, RoundInv, loopVars, TypeOK
  <2>5. CASE AnswerOther(p)
    BY <2>5 DEF AnswerOther, AbsentInv, RoundInv, loopVars, TypeOK
  <2>6. QED
    BY <1>1, <2>1, <2>2, <2>3, <2>4, <2>5 DEF ProviderStep
<1>2. CASE SendEnds
  <2>1. AbsentInv'
    BY <1>2, RoundGoesOn DEF SendEnds, AbsentInv, TypeOK
  <2>2. RoundInv'
    BY <1>2, RoundGoesOn, AttestationAssumption
    DEF RoundInv, TypeOK, Age, None, SendEnds
  <2>3. QED
    BY <2>1, <2>2
<1>3. CASE SleepOn
  <2>1. AbsentInv'
    <3>1. ASSUME NEW p \in Providers \ connected
          PROVE  /\ challenge'[p] = challenge[p] /\ evidence'[p] = evidence[p]
                 /\ status'[p] = status[p]
      BY <1>3, NotOverdue DEF SleepOn, CheckTimeouts, Unanswered, AbsentInv
    <3>2. QED
      BY <1>3, <3>1 DEF SleepOn, AbsentInv
  <2>2. ASSUME NEW p \in Providers, challenge'[p] # None
        PROVE  /\ challenge'[p] = challenge[p]
               /\ challenge[p] # None
               /\ ~(challenge[p] > CHALLENGE_TIMEOUT)
    BY <1>3, <2>2 DEF SleepOn, Unanswered, Overdue
  <2>3. RoundInv'
    BY <1>3, <2>2, AttestationAssumption
    DEF SleepOn, SleepEnds, RoundInv, TypeOK, Age
  <2>4. QED
    BY <2>1, <2>3
<1>4. CASE StartRound
  <2>1. CheckTimeouts /\ connected' = connected /\ inbox' = inbox
    BY <1>4 DEF StartRound
  <2>2. CASE \E p \in connected :
               /\ target' = p
               /\ rest' = connected \ {p}
               /\ challenge' = [[q \in Providers |-> None] EXCEPT ![p] = 0]
    BY <2>1, <2>2, NotOverdue, AttestationAssumption
    DEF CheckTimeouts, AbsentInv, RoundInv, TypeOK
  <2>3. CASE rest' = {} /\ challenge' = [q \in Providers |-> None]
    BY <2>1, <2>3, NotOverdue DEF CheckTimeouts, AbsentInv, RoundInv
  <2>4. QED
    BY <1>4, <2>2, <2>3, RoundStarts
<1>5. CASE Tick
  <2>1. ASSUME NEW p \in Providers
        PROVE  /\ challenge[p] = None <=> challenge'[p] = None
               /\ challenge[p] # None => challenge'[p] = challenge[p] + 1
               /\ evidence[p] = None => evidence'[p] = None
               /\ inbox[p] = None => inbox'[p] = None
    BY <1>5, Ageing DEF Tick, TypeOK
  <2>2. AbsentInv'
    BY <1>5, <2>1 DEF Tick, AbsentInv, TypeOK
  <2>3. RoundInv'
    BY <1>5, <2>1, AttestationAssumption DEF Tick, RoundInv, TypeOK, Age, Patience
  <2>4. QED
    BY <2>2, <2>3
<1>6. CASE UNCHANGED vars
  BY <1>6 DEF vars, hubVars, loopVars, AbsentInv, RoundInv
<1>7. QED
  BY <1>1, <1>2, <1>3, <1>4, <1>5, <1>6 DEF Next

(* An honest agent with a working socket is never overdue when it is checked.*)
LEMMA HonestInTime ==
  ASSUME TypeOK, HonestInv, Stall + Reply <= CHALLENGE_TIMEOUT,
         target = NoProvider, NEW p \in Honest \cap (connected \ dead)
  PROVE  ~Overdue(p)
<1>1. p \in Providers /\ p # target
  BY AttestationAssumption
<1>2. CASE challenge[p] = None
  BY <1>1, <1>2, NotOverdue
<1>3. CASE challenge[p] # None
  <2>1. challenge[p] <= inbox[p] + Stall /\ inbox[p] <= Reply
    BY <1>1, <1>3 DEF HonestInv
  <2>2. QED
    BY <1>1, <2>1, AttestationAssumption DEF Overdue, TypeOK, Age, None
<1>4. QED
  BY <1>2, <1>3

(* The same for one provider: the conjuncts of HonestInv.                    *)
InTime(p) ==
  /\ challenge[p] = None => inbox[p] = None
  /\ challenge[p] # None =>
       IF target = p THEN inbox[p] = None /\ challenge[p] = waited
                     ELSE inbox[p] # None /\ challenge[p] <= inbox[p] + Stall
  /\ inbox[p] <= Reply
  /\ status[p] # "degraded"

LEMMA HonestStep ==
  ASSUME TypeOK, TypeOK', AbsentInv, RoundInv, HonestInv, [Next]_vars,
         Stall + Reply <= CHALLENGE_TIMEOUT
  PROVE  HonestInv'
<1> SUFFICES ASSUME NEW p \in Honest, p \in connected' \ dead' PROVE InTime(p)'
  BY DEF HonestInv, InTime
<1>1. p \in Providers /\ None # 0 /\ None <= Reply /\ 0 <= Reply
  BY AttestationAssumption DEF None
<1>2. p \in connected \ dead => InTime(p)
  BY DEF HonestInv, InTime
<1>3. ASSUME NEW q \in Providers, ProviderStep(q) PROVE InTime(p)'
  <2>1. CASE Connect(q)
    <3>1. CASE p = q
      BY <1>1, <2>1, <3>1 DEF Connect, AbsentInv, InTime, loopVars, TypeOK
    <3>2. CASE p # q
      BY <1>1, <1>2, <2>1, <3>2 DEF Connect, InTime, loopVars
    <3>3. QED
      BY <3>1, <3>2
  <2>2. CASE Leave(q)
    BY <1>1, <1>2, <2>2 DEF Leave, InTime, loopVars, TypeOK
  <2>3. CASE SocketDies(q)
    BY <1>1, <1>2, <2>3 DEF SocketDies, InTime, loopVars, TypeOK
  <2>4. ASSUME NEW complete \in BOOLEAN, AnswerOpen(q, complete) PROVE InTime(p)'
    <3>1. p \in connected \ dead
      BY <2>4 DEF AnswerOpen
    <3>2. CASE p = q
      <4>1. complete /\ Verdict(q, complete) # "degraded"
        BY <2>4, <3>2 DEF AnswerOpen, Verdict
      <4>2. QED
        BY <1>1, <2>4, <3>2, <4>1 DEF AnswerOpen, InTime, loopVars, TypeOK
    <3>3. CASE p # q
      BY <1>1, <1>2, <2>4, <3>1, <3>3 DEF AnswerOpen, InTime, loopVars, TypeOK
    <3>4. QED
      BY <3>2, <3>3
  <2>5. CASE AnswerOther(q)
    BY <1>1, <1>2, <2>5 DEF AnswerOther, InTime, loopVars, TypeOK
  <2>6. QED
    BY <1>3, <2>1, <2>2, <2>3, <2>4, <2>5 DEF ProviderStep
<1>4. CASE SendEnds
  <2>1. p \in connected \ dead /\ InTime(p) /\ status'[p] = status[p]
    BY <1>2, <1>4 DEF SendEnds
  <2>2. /\ inbox' = IF target \in Honest \cap (connected \ dead) /\ challenge[target] # None
                    THEN [inbox EXCEPT ![target] = 0] ELSE inbox
        /\ inbox \in [Providers -> Age] /\ challenge \in [Providers -> Age]
    BY <1>4 DEF SendEnds, TypeOK
  <2>3. /\ challenge[p] = None => inbox'[p] = None
        /\ challenge[p] # None => inbox'[p] # None /\ challenge[p] <= inbox'[p] + Stall
        /\ inbox'[p] <= Reply
    <3>1. CASE p = target
      BY <1>1, <2>1, <2>2, <3>1, AttestationAssumption
      DEF InTime, TypeOK, Age, Patience
    <3>2. CASE p # target
      BY <1>1, <2>1, <2>2, <3>2 DEF InTime
    <3>3. QED
      BY <3>1, <3>2
  <2>4. CASE \E q \in rest :
               /\ target' = q
               /\ challenge' = IF q \in connected THEN [challenge EXCEPT ![q] = 0]
                               ELSE challenge
    <3>1. PICK q \in rest :
               /\ target' = q
               /\ challenge' = IF q \in connected THEN [challenge EXCEPT ![q] = 0]
                               ELSE challenge
      BY <2>4
    <3>2. CASE p = q
      <4>1. challenge[p] = None /\ challenge'[p] = 0
        BY <1>1, <2>1, <2>2, <3>1, <3>2 DEF RoundInv
      <4>2. waited' = 0
        BY <1>4, RoundGoesOn
      <4>3. QED
        BY <1>1, <2>1, <2>3, <3>1, <3>2, <4>1, <4>2 DEF InTime
    <3>3. CASE p # q
      <4>1. challenge'[p] = challenge[p]
        BY <1>1, <2>2, <3>1, <3>3
      <4>2. QED
        BY <2>1, <2>3, <3>1, <3>3, <4>1 DEF InTime
    <3>4. QED
      BY <3>2, <3>3
  <2>5. CASE target' = NoProvider /\ challenge' = challenge
    BY <1>1, <2>1, <2>3, <2>5, AttestationAssumption DEF InTime
  <2>6. QED
    BY <1>4, <2>4, <2>5, RoundGoesOn
<1>5. CASE SleepOn
  <2>1. p \in connected \ dead /\ ~Overdue(p)
    BY <1>5, HonestInTime DEF SleepOn, SleepEnds
  <2>2. /\ status'[p] = status[p] /\ challenge'[p] = challenge[p]
        /\ inbox' = inbox /\ target # p /\ target' = target
    BY <1>1, <1>5, <2>1, AttestationAssumption
    DEF SleepOn, SleepEnds, CheckTimeouts, Unanswered
  <2>3. QED
    BY <1>2, <2>1, <2>2 DEF InTime
<1>6. CASE StartRound
  <2>1. p \in connected \ dead /\ ~Overdue(p) /\ target = NoProvider
    BY <1>6, HonestInTime DEF StartRound, RoundDue, SleepEnds
  <2>2. /\ status'[p] = status[p] /\ Unanswered[p] = challenge[p]
        /\ inbox' = inbox /\ target # p
    BY <1>1, <1>6, <2>1, AttestationAssumption
    DEF StartRound, CheckTimeouts, Unanswered
  <2>3. Unanswered[p] = None
    BY <1>1, <1>6, AllAnswered DEF StartRound
  <2>4. inbox'[p] = None /\ status'[p] # "degraded"
    BY <1>2, <2>1, <2>2, <2>3 DEF InTime
  <2>5. /\ waited' = 0
        /\ challenge'[p] # None => challenge'[p] = 0 /\ target' = p
    BY <1>1, <1>6, RoundStarts
  <2>6. QED
    BY <1>1, <2>4, <2>5 DEF InTime
<1>7. CASE Tick
  <2>1. p \in connected \ dead /\ InTime(p)
    BY <1>2, <1>7 DEF Tick
  <2>2. /\ challenge[p] \in Age /\ inbox[p] \in Age
        /\ challenge'[p] = Older(challenge[p]) /\ inbox'[p] = Older(inbox[p])
        /\ inbox[p] < Reply /\ waited' = waited + 1
        /\ target' = target /\ status' = status
    BY <1>1, <1>7 DEF Tick, TypeOK
  <2>3. QED
    BY <1>1, <2>1, <2>2, Ageing, AttestationAssumption DEF InTime
<1>8. CASE UNCHANGED vars
  BY <1>2, <1>8 DEF vars, hubVars, loopVars, InTime
<1>9. QED
  BY <1>3, <1>4, <1>5, <1>6, <1>7, <1>8 DEF Next

-----------------------------------------------------------------------------
(* The freshness of evidence.                                                *)

(* What the sends of a round have taken never exceeds the time of a round.   *)
LEMMA SentForBounded ==
  ASSUME TypeOK, RoundInv, target # NoProvider
  PROVE  /\ SentFor \in Nat /\ RoundTime \in Nat
         /\ SentFor <= RoundTime
         /\ (Cardinality(Providers) - Cardinality(rest)) * Stall >= SentFor
<1> DEFINE n == Cardinality(Providers)
           k == n - Cardinality(rest) - 1
<1>1. /\ Cardinality(rest) \in Nat /\ n \in Nat
      /\ Cardinality(rest) + 1 <= n
  <2>1. rest \in SUBSET (Providers \ {target}) /\ target \in Providers
    BY DEF TypeOK, RoundInv
  <2>2. /\ IsFiniteSet(Providers \ {target})
        /\ Cardinality(Providers \ {target}) = n - 1 /\ n \in Nat
    BY <2>1, Counting
  <2>3. Cardinality(rest) <= Cardinality(Providers \ {target})
    BY <2>1, <2>2, FS_Subset
  <2>4. QED
    BY <2>1, <2>2, <2>3, Counting DEF TypeOK
<1>2. k \in Nat /\ k + 1 <= n /\ k + 1 = n - Cardinality(rest)
  BY <1>1
<1> HIDE DEF n, k
<1>3. /\ 0 * Stall <= k * Stall /\ k * Stall \in Int /\ n * Stall \in Int
      /\ (k + 1) * Stall = k * Stall + Stall
      /\ (k + 1) * Stall <= n * Stall /\ 0 * Stall = 0
  <2>1. 0 \in Int /\ k \in Int /\ k + 1 \in Int /\ n \in Int /\ 0 <= k /\ k + 1 <= n
    BY <1>1, <1>2
  <2>2. 0 * Stall <= k * Stall /\ k * Stall \in Int /\ (k + 1) * Stall = k * Stall + Stall /\ 0 * Stall = 0
    BY <2>1, StallMonotone
  <2>3. (k + 1) * Stall <= n * Stall /\ n * Stall \in Int
    BY <2>1, StallMonotone
  <2>4. QED
    BY <2>2, <2>3
<1>4. waited \in Nat /\ waited <= Stall /\ Stall \in Nat
  BY AttestationAssumption DEF TypeOK, Patience
<1>5. SentFor = k * Stall + waited /\ RoundTime = n * Stall
  BY DEF SentFor, RoundTime, k, n
<1>6. (Cardinality(Providers) - Cardinality(rest)) * Stall = (k + 1) * Stall
  BY <1>2 DEF n
<1>7. QED
  BY <1>3, <1>4, <1>5, <1>6

(* A full round takes a natural number of ticks.                             *)
LEMMA FullRoundType == RoundTime \in Nat /\ FullRound \in Nat
<1>1. /\ Cardinality(Providers) \in Nat /\ Stall \in Nat
      /\ Cardinality(Providers) * Stall \in Int
      /\ 0 * Stall <= Cardinality(Providers) * Stall /\ 0 * Stall = 0
  BY Counting, StallMonotone, AttestationAssumption
<1>2. QED
  BY <1>1, AttestationAssumption DEF RoundTime, FullRound

(* How old evidence of the present round may be, and of the last one.        *)
Spent == IF target # NoProvider THEN SentFor ELSE RoundTime + elapsed + waited
Allowed(p) == Spent + IF p \in rest \/ challenge[p] # None THEN FullRound ELSE 0

LEMMA SpentType == TypeOK /\ RoundInv => Spent \in Nat /\ SentFor \in Int
<1> SUFFICES ASSUME TypeOK, RoundInv PROVE Spent \in Nat /\ SentFor \in Int
  OBVIOUS
<1>1. Cardinality(Providers) \in Nat /\ Cardinality(rest) \in Nat
  BY Counting DEF TypeOK
<1>2. (Cardinality(Providers) - Cardinality(rest) - 1) * Stall \in Int
  BY <1>1, StallMonotone
<1>3. SentFor \in Int
  BY <1>2, AttestationAssumption DEF SentFor, TypeOK, Patience
<1>4. QED
  BY <1>3, SentForBounded, FullRoundType, AttestationAssumption
  DEF Spent, TypeOK, Patience

(* EvidenceInv for one provider.                                             *)
LEMMA EvidenceOf ==
  RoundInv =>
    (EvidenceInv <=>
       \A p \in Providers :
         status[p] = "passed" => evidence[p] # None /\ evidence[p] <= Allowed(p))
  BY DEF EvidenceInv, Allowed, Spent, RoundInv

LEMMA EvidenceStep ==
  ASSUME TypeOK, TypeOK', AbsentInv, RoundInv, RoundInv', EvidenceInv, [Next]_vars
  PROVE  EvidenceInv'
<1> DEFINE Open(p) == p \in rest \/ challenge[p] # None
<1>1. /\ Spent \in Nat /\ Spent' \in Nat /\ SentFor \in Int /\ SentFor' \in Int
      /\ RoundTime \in Nat /\ FullRound \in Nat
      /\ RoundTime' = RoundTime /\ FullRound' = FullRound
  <2>1. Spent \in Nat /\ SentFor \in Int
    BY SpentType
  <2>2. (TypeOK /\ RoundInv => Spent \in Nat /\ SentFor \in Int)'
    BY SpentType, PTL
  <2>3. QED
    BY <2>1, <2>2, FullRoundType DEF RoundTime, FullRound
<1> SUFFICES ASSUME NEW p \in Providers, status'[p] = "passed"
             PROVE  evidence'[p] # None /\ evidence'[p] <= Allowed(p)'
  <2>1. (RoundInv =>
           (EvidenceInv <=>
              \A p \in Providers :
                status[p] = "passed" => evidence[p] # None /\ evidence[p] <= Allowed(p)))'
    BY EvidenceOf, PTL
  <2>2. QED
    BY <2>1
<1>2. status[p] = "passed" => evidence[p] # None /\ evidence[p] <= Allowed(p)
  BY EvidenceOf
<1>3. /\ evidence[p] \in Age /\ evidence'[p] \in Age /\ challenge[p] \in Age
      /\ evidence[p] \in Int /\ evidence'[p] \in Int
  BY DEF TypeOK, Age, None
<1>4. /\ Allowed(p) = IF Open(p) THEN Spent + FullRound ELSE Spent
      /\ Allowed(p)' = IF p \in rest' \/ challenge'[p] # None
                       THEN Spent' + FullRound ELSE Spent'
      /\ Allowed(p) \in Nat /\ Allowed(p)' \in Nat
  <2>1. \A m, n \in Nat : m + n \in Nat /\ m + 0 = m
    OBVIOUS
  <2>2. /\ Allowed(p) = Spent + IF Open(p) THEN FullRound ELSE 0
        /\ Allowed(p)' = Spent' + IF p \in rest' \/ challenge'[p] # None
                                  THEN FullRound ELSE 0
    BY <1>1 DEF Allowed
  <2> HIDE DEF Open
  <2>3. QED
    BY <1>1, <2>1, <2>2
<1>5. ASSUME evidence'[p] = evidence[p], status'[p] = status[p], Spent' >= Spent,
             Open(p) => p \in rest' \/ challenge'[p] # None
      PROVE  evidence'[p] # None /\ evidence'[p] <= Allowed(p)'
  BY <1>1, <1>2, <1>3, <1>4, <1>5
<1>6. ASSUME NEW q \in Providers, ProviderStep(q)
      PROVE  evidence'[p] # None /\ evidence'[p] <= Allowed(p)'
  <2>1. UNCHANGED loopVars
    BY <1>6 DEF ProviderStep, Connect, Leave, SocketDies, AnswerOpen, AnswerOther
  <2>2. Spent' >= Spent
    BY <1>1, <2>1 DEF Spent, SentFor, loopVars
  <2>3. CASE \E complete \in BOOLEAN : AnswerOpen(q, complete) /\ p = q
    <3>1. evidence'[p] = 0
      BY <2>3 DEF AnswerOpen, TypeOK
    <3>2. QED
      BY <1>4, <3>1 DEF None
  <2>4. CASE ~ \E complete \in BOOLEAN : AnswerOpen(q, complete) /\ p = q
    <3>1. /\ evidence'[p] = evidence[p] /\ status'[p] = status[p]
          /\ challenge'[p] = challenge[p]
      BY <1>6, <2>4
      DEF ProviderStep, Connect, Leave, SocketDies, AnswerOpen, AnswerOther, TypeOK
    <3>2. QED
      BY <1>5, <2>1, <2>2, <3>1 DEF loopVars
  <2>5. QED
    BY <2>3, <2>4
<1>7. CASE SendEnds
  <2>1. target # NoProvider /\ evidence' = evidence /\ status' = status
    BY <1>7 DEF SendEnds
  <2>2. p \in connected
    BY <2>1 DEF AbsentInv
  <2>3. /\ Spent = SentFor /\ SentFor <= RoundTime
        /\ (Cardinality(Providers) - Cardinality(rest)) * Stall >= SentFor
    BY <2>1, SentForBounded DEF Spent
  <2>4. CASE \E q \in rest :
               /\ target' = q
               /\ rest' = rest \ {q}
               /\ challenge' = IF q \in connected THEN [challenge EXCEPT ![q] = 0]
                               ELSE challenge
    <3>1. PICK q \in rest :
               /\ target' = q
               /\ rest' = rest \ {q}
               /\ challenge' = IF q \in connected THEN [challenge EXCEPT ![q] = 0]
                               ELSE challenge
      BY <2>4
    <3>2. Spent' >= Spent
      <4>1. target' # NoProvider /\ waited' = 0
        BY <1>7, <3>1, RoundGoesOn, AttestationAssumption DEF TypeOK
      <4>2. /\ Cardinality(rest') = Cardinality(rest) - 1
            /\ Cardinality(rest) \in Nat /\ Cardinality(Providers) \in Nat
        BY <3>1, Counting DEF TypeOK
      <4>3. Cardinality(Providers) - Cardinality(rest') - 1
              = Cardinality(Providers) - Cardinality(rest)
        BY <4>2
      <4>4. SentFor' = (Cardinality(Providers) - Cardinality(rest)) * Stall + 0
        BY <4>1, <4>3 DEF SentFor
      <4>5. (Cardinality(Providers) - Cardinality(rest)) * Stall \in Int
        BY <4>2, StallMonotone
      <4>6. QED
        BY <1>1, <2>3, <4>1, <4>4, <4>5 DEF Spent
    <3>3. Open(p) => p \in rest' \/ challenge'[p] # None
      BY <2>2, <3>1 DEF TypeOK, None
    <3>4. QED
      BY <1>5, <2>1, <3>2, <3>3
  <2>5. CASE rest = {} /\ target' = NoProvider /\ challenge' = challenge
    <3>1. Spent' = RoundTime
      BY <1>1, <1>7, <2>5, RoundGoesOn DEF Spent
    <3>2. QED
      BY <1>1, <1>5, <2>1, <2>3, <2>5, <3>1
  <2>6. QED
    BY <1>7, <2>4, <2>5, RoundGoesOn
<1>8. CASE SleepOn
  <2>1. ~Overdue(p)
    BY <1>8 DEF SleepOn, CheckTimeouts
  <2>2. /\ evidence'[p] = evidence[p] /\ status'[p] = status[p]
        /\ challenge'[p] = challenge[p] /\ rest' = rest
    BY <1>8, <2>1 DEF SleepOn, CheckTimeouts, Unanswered
  <2>3. Spent' = Spent
    BY <1>1, <1>8, AttestationAssumption
    DEF SleepOn, SleepEnds, Spent, TypeOK
  <2>4. QED
    BY <1>1, <1>5, <2>2, <2>3
<1>9. CASE StartRound
  <2>1. ~Overdue(p) /\ CheckTimeouts
    BY <1>9 DEF StartRound, CheckTimeouts
  <2>2. evidence'[p] = evidence[p] /\ status[p] = "passed" /\ Unanswered[p] = challenge[p]
    BY <2>1 DEF CheckTimeouts, Unanswered
  <2>3. challenge[p] = None
    BY <1>9, <2>2, AllAnswered DEF StartRound
  <2>4. /\ rest = {} /\ target = NoProvider
        /\ waited = TIMEOUT_CHECK_INTERVAL
    BY <1>9 DEF StartRound, RoundDue, SleepEnds, RoundInv
  <2>5. evidence[p] <= FullRound /\ evidence[p] # None
    BY <1>1, <1>2, <1>3, <1>4, <2>2, <2>3, <2>4, AttestationAssumption
    DEF Spent, FullRound, TypeOK
  <2>6. p \in connected
    BY <2>2 DEF AbsentInv
  <2>7. p \in rest' \/ challenge'[p] # None
    BY <1>9, <2>6, RoundStarts DEF None
  <2>8. QED
    BY <1>1, <1>3, <1>4, <2>2, <2>5, <2>7
<1>10. CASE Tick
  <2>1. /\ evidence'[p] = Older(evidence[p]) /\ challenge'[p] = Older(challenge[p])
        /\ status' = status /\ rest' = rest /\ target' = target
        /\ waited' = waited + 1 /\ elapsed' = elapsed
    BY <1>10 DEF Tick
  <2>2. evidence[p] # None /\ evidence'[p] = evidence[p] + 1 /\ evidence'[p] # None
    BY <1>2, <1>3, <2>1, Ageing
  <2>3. challenge'[p] = None <=> challenge[p] = None
    BY <1>3, <2>1, Ageing
  <2>4. Spent' = Spent + 1
    <3>1. (Cardinality(Providers) - Cardinality(rest) - 1) * Stall \in Int
      <4>1. Cardinality(Providers) - Cardinality(rest) - 1 \in Int
        BY Counting DEF TypeOK
      <4>2. QED
        BY <4>1, StallMonotone
    <3>2. waited \in Nat /\ elapsed \in Nat
      BY AttestationAssumption DEF TypeOK, Patience
    <3>3. QED
      BY <1>1, <2>1, <3>1, <3>2 DEF Spent, SentFor
  <2>5. QED
    BY <1>1, <1>2, <1>3, <1>4, <2>1, <2>2, <2>3, <2>4
<1>11. CASE UNCHANGED vars
  <2>1. Spent' = Spent
    BY <1>11 DEF vars, hubVars, loopVars, Spent, SentFor, RoundTime
  <2>2. QED
    BY <1>1, <1>5, <1>11, <2>1 DEF vars, hubVars, loopVars
<1>12. QED
  BY <1>6, <1>7, <1>8, <1>9, <1>10, <1>11 DEF Next

-----------------------------------------------------------------------------
(* The theorems.                                                             *)

(* The inductive invariant holds in every reachable state.                   *)
THEOREM Invariance == Spec => []AttestationIInv
<1>1. Init => AttestationIInv
  BY AttestationAssumption
  DEF Init, AttestationIInv, AbsentInv, RoundInv, HonestInv, EvidenceInv
<1>2. ASSUME TypeOK, TypeOK', AttestationIInv, [Next]_vars PROVE AttestationIInv'
  <2>1. AbsentInv' /\ RoundInv'
    BY <1>2, RoundStep DEF AttestationIInv
  <2>2. Stall + Reply <= CHALLENGE_TIMEOUT => HonestInv'
    BY <1>2, HonestStep DEF AttestationIInv
  <2>3. EvidenceInv'
    BY <1>2, <2>1, EvidenceStep DEF AttestationIInv
  <2>4. QED
    BY <2>1, <2>2, <2>3 DEF AttestationIInv
<1>3. QED
  BY <1>1, <1>2, TypeCorrect, PTL DEF Spec

(* A provider can leave a challenge unanswered, but it is challenged in the  *)
(* next round all the same.                                                  *)
THEOREM NobodySkipped == Spec => RoundSkipsNobody
<1>1. ASSUME TypeOK, AttestationIInv, [Next]_vars, RoundDue, waited' = 0
      PROVE  connected = (rest' \cup {target'}) \ {NoProvider}
  <2>1. target = NoProvider /\ waited = TIMEOUT_CHECK_INTERVAL /\ waited # 0
    BY <1>1, AttestationAssumption DEF RoundDue, SleepEnds
  <2>2. StartRound
    BY <1>1, <2>1, AttestationAssumption
    DEF Next, ProviderStep, Connect, Leave, SocketDies, AnswerOpen, AnswerOther,
        SendEnds, SleepOn, Tick, Patience, vars, loopVars
  <2>3. NoProvider \notin connected
    BY <1>1, AttestationAssumption DEF TypeOK
  <2>4. QED
    BY <1>1, <2>2, <2>3, RoundStarts DEF AttestationIInv
<1>2. TypeOK /\ AttestationIInv /\ [Next]_vars =>
        [RoundDue /\ waited' = 0 =>
           connected = (rest' \cup {target'}) \ {NoProvider}]_vars
  BY <1>1
<1>3. QED
  BY <1>2, TypeCorrect, Invariance, PTL DEF Spec, RoundSkipsNobody

(* An honest provider is not degraded while its socket works, if sends and   *)
(* evidence together are quick enough.                                       *)
THEOREM HonestStay == Spec => []HonestIsNotDegraded
<1>1. AttestationIInv => HonestIsNotDegraded
  BY DEF AttestationIInv, HonestInv, HonestIsNotDegraded
<1>2. QED
  BY <1>1, Invariance, PTL

(* The age of the evidence behind a "passed" is bounded, whatever providers  *)
(* do and however often they come and go.                                    *)
THEOREM EvidenceFresh == Spec => []EvidenceIsFresh
<1>1. TypeOK /\ AttestationIInv => EvidenceIsFresh
  <2> SUFFICES ASSUME TypeOK, AttestationIInv, NEW p \in Providers,
                      status[p] = "passed"
               PROVE  /\ evidence[p] # None
                      /\ evidence[p] <= CHALLENGE_INTERVAL + 2 * RoundTime
                           + CHALLENGE_TIMEOUT + 2 * TIMEOUT_CHECK_INTERVAL
    BY DEF EvidenceIsFresh
  <2>1. /\ RoundTime \in Nat /\ FullRound \in Nat /\ evidence[p] \in Int
        /\ FullRound = RoundTime + CHALLENGE_INTERVAL + TIMEOUT_CHECK_INTERVAL
        /\ CHALLENGE_INTERVAL \in Nat /\ CHALLENGE_TIMEOUT \in Nat
        /\ TIMEOUT_CHECK_INTERVAL \in Nat
    BY FullRoundType, AttestationAssumption DEF FullRound, TypeOK, Age, None
  <2>2. RoundInv /\ EvidenceInv
    BY DEF AttestationIInv
  <2>3. CASE target # NoProvider
    <3>1. SentFor \in Nat /\ SentFor <= RoundTime
      BY <2>2, <2>3, SentForBounded
    <3>2. evidence[p] # None /\ evidence[p] <= SentFor + FullRound
      BY <2>1, <2>2, <2>3, <3>1 DEF EvidenceInv
    <3>3. QED
      BY <2>1, <3>1, <3>2
  <2>4. CASE target = NoProvider
    <3>1. /\ waited \in Nat /\ waited <= TIMEOUT_CHECK_INTERVAL
          /\ elapsed \in Nat /\ elapsed < CHALLENGE_INTERVAL
      BY <2>4, AttestationAssumption DEF TypeOK, Patience
    <3>2. CASE challenge[p] = None
      BY <2>1, <2>2, <2>4, <3>1, <3>2 DEF EvidenceInv, RoundInv
    <3>3. CASE challenge[p] # None
      <4>1. /\ challenge[p] >= elapsed + waited
            /\ elapsed > 0 => challenge[p] <= CHALLENGE_TIMEOUT + waited
        BY <2>2, <2>4, <3>3 DEF RoundInv
      <4>2. challenge[p] \in Int
        BY DEF TypeOK, Age, None
      <4>3. elapsed + waited <= CHALLENGE_TIMEOUT + TIMEOUT_CHECK_INTERVAL
        BY <2>1, <3>1, <4>1, <4>2
      <4>4. /\ evidence[p] # None
            /\ evidence[p] <= RoundTime + elapsed + waited + FullRound
        BY <2>2, <2>4, <3>3 DEF EvidenceInv
      <4>5. QED
        BY <2>1, <3>1, <4>3, <4>4
    <3>4. QED
      BY <3>2, <3>3
  <2>5. QED
    BY <2>3, <2>4
<1>2. QED
  BY <1>1, TypeCorrect, Invariance, PTL

=============================================================================
