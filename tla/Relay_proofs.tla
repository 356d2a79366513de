---------------------------- MODULE Relay_proofs ----------------------------
(***************************************************************************)
(* Proofs about InferenceRelay and, at the end, about ConfidentialRelay,   *)
(* for every set of requests and providers, every eligibility relation,    *)
(* slot count, queue depth and answer bound.                               *)
(***************************************************************************)
EXTENDS ConfidentialRelay, FoldLemmas, SequenceTheorems

(* Appending to two sequences in a row is appending to the second.           *)
AppendsToSecond(s, t, e) == Append(s \o t, e) = s \o Append(t, e)

LEMMA AppendToBoth ==
  ASSUME NEW T, NEW s \in Seq(T), NEW t \in Seq(T), NEW e \in T
  PROVE  AppendsToSecond(s, t, e)
BY DEF AppendsToSecond

(* Removing one position from a queue of requests leaves a queue of requests.*)
LEMMA WithoutType ==
  ASSUME NEW S, NEW s \in Seq(S), NEW i \in DOMAIN s
  PROVE  RemoveAt(s, i) \in Seq(S)
<1>1. SubSeq(s, 1, i - 1) \in Seq(S) /\ SubSeq(s, i + 1, Len(s)) \in Seq(S)
  BY SubSeqProperties
<1>2. QED
  BY <1>1 DEF RemoveAt

(* What the operators shared by several handlers keep typed.                 *)
LEMMA BeginSendType ==
  ASSUME HubTypeOK, NEW r \in Requests, NEW p \in ProviderOrNone,
         NEW load \in [Providers -> Nat], BeginSend(r, p, load)
  PROVE  /\ open' \in SUBSET Requests
         /\ responses' \in [Requests -> Seq(Message)]
         /\ active' \in [Providers -> Nat]
         /\ routedTo' \in [Requests -> ProviderOrNone]
<1>1. active' \in [Providers -> Nat]
  <2>1. CASE p \in Providers
    BY <2>1 DEF BeginSend, CreateResponseQueue
  <2>2. CASE p \notin Providers
    <3>1. active' = load
      BY <2>2 DEF BeginSend
    <3>2. QED
      BY <3>1
  <2>3. QED
    BY <2>1, <2>2
<1>2. QED
  BY <1>1 DEF BeginSend, CreateResponseQueue, HubTypeOK

LEMMA RemoveResponseQueueType ==
  ASSUME HubTypeOK, NEW r \in Requests, RemoveResponseQueue(r)
  PROVE  /\ open' \in SUBSET Requests
         /\ responses' \in [Requests -> Seq(Message)]
         /\ routedTo' \in [Requests -> ProviderOrNone]
         /\ callback' \in [Requests -> ProviderOrNone]
BY DEF RemoveResponseQueue, HubTypeOK, ProviderOrNone

LEMMA DecrementedType ==
  ASSUME active \in [Providers -> Nat], NEW p
  PROVE  /\ Decremented(p) \in [Providers -> Nat]
         /\ Released(p) \in [Providers -> Nat]
<1>1. Decremented(p) \in [Providers -> Nat]
  <2>1. CASE p \in Providers
    <3>1. (IF active[p] > 0 THEN active[p] - 1 ELSE 0) \in Nat
      BY <2>1
    <3>2. QED
      BY <2>1, <3>1 DEF Decremented
  <2>2. CASE p \notin Providers
    <3>1. Decremented(p) = active
      BY <2>2 DEF Decremented
    <3>2. QED
      BY <3>1
  <2>3. QED
    BY <2>1, <2>2
<1>2. QED
  BY <1>1 DEF Released

LEMMA AmendedType ==
  ASSUME NEW T, "matched" \in T, outcome \in [Requests -> T], NEW rs, NEW v \in T
  PROVE  Amended(rs, v) \in [Requests -> T]
BY DEF Amended

LEMMA DepositType ==
  ASSUME responses \in [Requests -> Seq(Message)], NEW r \in Requests,
         NEW m \in Message, Deposit(r, m)
  PROVE  responses' \in [Requests -> Seq(Message)]
<1>1. Append(responses[r], m) \in Seq(Message)
  OBVIOUS
<1>2. QED
  BY <1>1 DEF Deposit

LEMMA AnswersType ==
  ASSUME TypeOK, NEW p \in Providers, NEW r \in Requests, Answers(p, r)
  PROVE  /\ said' \in [Requests -> [Providers -> Nat]]
         /\ link' \in [Providers -> LinkState]
<1>1. said[r] \in [Providers -> Nat]
  BY DEF TypeOK
<1>2. [said[r] EXCEPT ![p] = @ + 1] \in [Providers -> Nat]
  BY <1>1
<1>3. said' \in [Requests -> [Providers -> Nat]]
  BY <1>2 DEF Answers, Heard, TypeOK
<1>4. link' \in [Providers -> LinkState]
  BY DEF Answers, Heard, TypeOK, HubTypeOK, LinkState
<1>5. QED
  BY <1>3, <1>4

LEMMA EndRelayType ==
  ASSUME TypeOK, NEW r \in Requests, NEW v \in Verdict, EndRelay(r, v)
  PROVE  TypeOK'
<1>1. /\ open' \in SUBSET Requests
      /\ responses' \in [Requests -> Seq(Message)]
      /\ routedTo' \in [Requests -> ProviderOrNone]
      /\ callback' \in [Requests -> ProviderOrNone]
  <2>1. CASE r \in Streamed
    <3>1. responses[r] # <<>> => Tail(responses[r]) \in Seq(Message)
      BY DEF TypeOK, HubTypeOK
    <3>2. responses' \in [Requests -> Seq(Message)]
      BY <2>1, <3>1 DEF EndRelay, TypeOK, HubTypeOK
    <3>3. QED
      BY <2>1, <3>2 DEF EndRelay, TypeOK, HubTypeOK
  <2>2. CASE r \notin Streamed
    BY <2>2, RemoveResponseQueueType DEF EndRelay, TypeOK
  <2>3. QED
    BY <2>1, <2>2
<1>2. pc' \in [Requests -> Location] /\ verdict' \in [Requests -> Verdict]
  BY DEF EndRelay, TypeOK, Location, Live, Final
<1>3. QED
  BY <1>1, <1>2 DEF EndRelay, TypeOK, HubTypeOK, providerVars, queueVars

LEMMA DisconnectType ==
  ASSUME HubTypeOK, NEW p \in Providers, NEW next \in LinkState, Disconnect(p, next)
  PROVE  HubTypeOK'
<1>1. \A r \in Requests : Append(responses[r], "provider_disconnected") \in Seq(Message)
  BY DEF HubTypeOK, Message, Served
<1>2. responses' \in [Requests -> Seq(Message)]
  BY <1>1 DEF Disconnect, HubTypeOK
<1>3. routedTo' \in [Requests -> ProviderOrNone]
  BY DEF Disconnect, HubTypeOK, ProviderOrNone
<1>4. link' \in [Providers -> LinkState]
  BY DEF Disconnect, HubTypeOK
<1>5. QED
  BY <1>2, <1>3, <1>4 DEF Disconnect, HubTypeOK, queueVars

-----------------------------------------------------------------------------
(* The dispatch loop in closed form.                                         *)

(* The first queued request that some provider can take now, as a position   *)
(* in the queue.                                                             *)
Dispatchable(i) ==
  /\ i \in DOMAIN pending
  /\ Selectable(pending[i], active) # {}
  /\ \A j \in 1..(i - 1) : Selectable(pending[j], active) = {}

(* A dispatch that wakes the request at position i, and one that wakes none. *)
DispatchTo(i, p) ==
  /\ dispatches > 0
  /\ Dispatchable(i)
  /\ p \in Selectable(pending[i], active)
  /\ dispatches' = dispatches - 1
  /\ assigned' = [assigned EXCEPT ![pending[i]] = p]
  /\ woken' = woken \cup {pending[i]}
  /\ pending' = RemoveAt(pending, i)
  /\ UNCHANGED <<providerVars, open, responses, routedTo, callback, cleared>>

DispatchNone ==
  /\ dispatches > 0
  /\ \A i \in DOMAIN pending : Selectable(pending[i], active) = {}
  /\ dispatches' = dispatches - 1
  /\ UNCHANGED <<providerVars, open, responses, routedTo, callback, queueVars>>

RoundStates == [queue : Seq(Requests), chosen : SUBSET Requests]

(* What a round is after its first n turns.                                  *)
NobodyYet(n, round) ==
  /\ round.chosen = {}
  /\ round.queue = SubSeq(pending, 1, n)
  /\ \A j \in 1..n : Selectable(pending[j], active) = {}

ChosenAt(i, n, round) ==
  /\ Dispatchable(i)
  /\ round.chosen = {pending[i]}
  /\ round.queue = SubSeq(pending, 1, i - 1) \o SubSeq(pending, i + 1, n)

LEMMA ExamineType ==
  ASSUME NEW round \in RoundStates, NEW r \in Requests
  PROVE  Examine(round, r) \in RoundStates
<1>1. Append(round.queue, r) \in Seq(Requests) /\ {r} \in SUBSET Requests
  BY AppendProperties DEF RoundStates
<1>2. QED
  BY <1>1 DEF Examine, RoundStates

(* The function Rounds exists.                                               *)
LEMMA RoundsTurn ==
  ASSUME pending \in Seq(Requests)
  PROVE  /\ Rounds[0] = [queue |-> <<>>, chosen |-> {}]
         /\ \A n \in 1..Len(pending) : Rounds[n] = Examine(Rounds[n - 1], pending[n])
<1> DEFINE last == Len(pending)
           base == [queue |-> <<>>, chosen |-> {}]
           Turn(round, i) == Examine(round, pending[i])
           step == [x \in RoundStates \X (1..last) |-> Turn(x[1], x[2])]
           Body(h) == [n \in 0..last |-> IF n = 0 THEN base ELSE Turn(h[n - 1], n)]
<1>1. last \in Nat /\ \A i \in 1..last : pending[i] \in Requests
  OBVIOUS
<1>2. base \in RoundStates
  BY DEF RoundStates
<1>3. step \in [RoundStates \X (1..last) -> RoundStates]
  <2>1. \A x \in RoundStates \X (1..last) : Turn(x[1], x[2]) \in RoundStates
    BY <1>1, ExamineType
  <2> HIDE DEF Turn
  <2>2. QED
    BY <2>1
<1>4. \E h : h = Body(h)
  <2>1. PICK f : IsFold(RoundStates, base, step, last, f)
    BY <1>1, <1>2, <1>3, FoldExists
  <2> DEFINE h == [n \in 0..last |-> f[1..n]]
  <2>2. h[0] = base
    <3>1. 1..0 = {} /\ {} \in SUBSET (1..last)
      OBVIOUS
    <3>2. f[{}] = base
      BY <2>1, <3>1 DEF IsFold
    <3>3. QED
      BY <1>1, <3>1, <3>2
  <2>3. ASSUME NEW n \in 1..last PROVE h[n] = Turn(h[n - 1], n)
    <3> DEFINE m == n - 1
    <3>1. m \in Nat /\ m + 1 = n /\ m \in 0..last /\ n \in 0..last
      BY <1>1
    <3>2. 1..n # {} /\ Max(1..n) = n /\ (1..n) \ {n} = 1..m
      BY <3>1, OneMore
    <3>3. 1..n \in SUBSET (1..last) /\ 1..m \in SUBSET (1..last)
      BY <1>1
    <3> DEFINE all == 1..n
               before == 1..m
    <3> HIDE DEF all, before, Turn, step, base, m
    <3>4. f[all] = step[<<f[before], n>>]
      BY <2>1, <3>2, <3>3 DEF IsFold, all, before
    <3>5. f[before] \in RoundStates
      BY <2>1, <3>3 DEF IsFold, before
    <3>6. step[<<f[before], n>>] = Turn(f[before], n)
      BY <3>5 DEF step
    <3>7. h[n] = f[all] /\ h[m] = f[before]
      BY <3>1 DEF all, before
    <3> HIDE DEF h
    <3>8. QED
      BY <3>4, <3>6, <3>7 DEF m
  <2> HIDE DEF Turn, base
  <2>4. ASSUME NEW n \in 0..last PROVE h[n] = IF n = 0 THEN base ELSE Turn(h[n - 1], n)
    <3> HIDE DEF h
    <3>1. CASE n = 0
      BY <2>2, <3>1
    <3>2. CASE n # 0
      <4>1. n \in 1..last
        BY <1>1, <3>2
      <4>2. QED
        BY <2>3, <3>2, <4>1
    <3>3. QED
      BY <3>1, <3>2
  <2>5. h = Body(h)
    <3>1. h = [n \in 0..last |-> h[n]]
      OBVIOUS
    <3> HIDE DEF h
    <3>2. QED
      BY <2>4, <3>1
  <2>6. QED
    BY <2>5
<1>5. Rounds = CHOOSE h : h = Body(h)
  BY DEF Rounds
<1>6. Rounds = Body(Rounds)
  <2> HIDE DEF Body
  <2>1. QED
    BY <1>4, <1>5
<1> HIDE DEF Turn, base
<1>7. Rounds[0] = base /\ \A n \in 1..last : Rounds[n] = Turn(Rounds[n - 1], n)
  <2>1. \A n \in 0..last : Rounds[n] = IF n = 0 THEN base ELSE Turn(Rounds[n - 1], n)
    BY <1>6
  <2>2. 0 \in 0..last /\ \A n \in 1..last : n \in 0..last /\ n # 0
    BY <1>1
  <2> HIDE DEF last
  <2>3. QED
    BY <2>1, <2>2
<1>8. QED
  BY <1>7 DEF Turn, base

(* After n turns nobody among the first n could be served, or the first of   *)
(* them who could is chosen and the others are queued again, in order.       *)
LEMMA RoundsSoFar ==
  ASSUME pending \in Seq(Requests), NEW n \in 0..Len(pending)
  PROVE  \/ NobodyYet(n, Rounds[n])
         \/ \E i \in 1..n : ChosenAt(i, n, Rounds[n])
<1> DEFINE last == Len(pending)
           Holds(m) == /\ Rounds[m] \in RoundStates
                       /\ \/ NobodyYet(m, Rounds[m])
                          \/ \E i \in 1..m : ChosenAt(i, m, Rounds[m])
           S == {m \in Nat : m <= last => Holds(m)}
<1>1. last \in Nat
  OBVIOUS
<1>2. 0 \in S
  <2>1. SubSeq(pending, 1, 0) = <<>>
    OBVIOUS
  <2>2. Rounds[0].queue = <<>> /\ Rounds[0].chosen = {}
    BY RoundsTurn
  <2>3. NobodyYet(0, Rounds[0])
    BY <2>1, <2>2 DEF NobodyYet
  <2>4. Rounds[0] \in RoundStates
    <3>1. [queue |-> <<>>, chosen |-> {}] \in RoundStates
      BY DEF RoundStates
    <3>2. QED
      BY <3>1, RoundsTurn
  <2>5. QED
    BY <2>3, <2>4
<1>3. ASSUME NEW m \in Nat, m \in S PROVE m + 1 \in S
  <2> SUFFICES ASSUME m + 1 <= last PROVE Holds(m + 1)
    OBVIOUS
  <2> DEFINE k == m + 1
             r == pending[k]
  <2>1. k \in 1..last /\ k - 1 = m /\ k \in Nat /\ m <= last /\ m \in 0..last
    OBVIOUS
  <2>2. Holds(m)
    BY <1>3, <2>1
  <2>3. Rounds[k] = Examine(Rounds[m], r)
    BY <2>1, RoundsTurn
  <2>4. \A i \in 1..k : Append(SubSeq(pending, i, m), r) = SubSeq(pending, i, k)
    BY <2>1
  <2>3a. Rounds[m] \in RoundStates /\ Rounds[k] \in RoundStates
    <3>1. r \in Requests
      BY <2>1
    <3> HIDE DEF r
    <3>2. QED
      BY <2>2, <2>3, <3>1, ExamineType
  <2>4a. \A j \in 1..k : j \in 1..m \/ j = k
    BY <2>1
  <2> HIDE DEF k, r
  <2>5. CASE NobodyYet(m, Rounds[m]) /\ Selectable(r, active) = {}
    <3>1. Rounds[k].queue = Append(Rounds[m].queue, r) /\ Rounds[k].chosen = Rounds[m].chosen
      BY <2>3, <2>3a, <2>5 DEF Examine, NobodyYet, RoundStates
    <3>2. Rounds[k].queue = SubSeq(pending, 1, k) /\ Rounds[k].chosen = {}
      <4>1. 1 \in 1..k
        BY <2>1
      <4>2. QED
        BY <2>4, <2>5, <3>1, <4>1 DEF NobodyYet
    <3>3. \A j \in 1..k : Selectable(pending[j], active) = {}
      BY <2>4a, <2>5 DEF NobodyYet, r
    <3>4. QED
      BY <2>3a, <3>2, <3>3 DEF NobodyYet, k
  <2>6. CASE NobodyYet(m, Rounds[m]) /\ Selectable(r, active) # {}
    <3>1. Rounds[k].queue = Rounds[m].queue /\ Rounds[k].chosen = {r}
      BY <2>3, <2>3a, <2>6 DEF Examine, NobodyYet, RoundStates
    <3>2. Dispatchable(k)
      <4>1. k \in DOMAIN pending /\ 1..(k - 1) = 1..m
        BY <2>1
      <4>2. QED
        BY <2>6, <4>1 DEF Dispatchable, NobodyYet, r
    <3>3. SubSeq(pending, k + 1, k) = <<>> /\ SubSeq(pending, 1, m) \in Seq(Requests)
      BY <2>1
    <3>4. SubSeq(pending, 1, m) \o SubSeq(pending, k + 1, k) = SubSeq(pending, 1, m)
      BY <3>3, ConcatEmptySeq
    <3>5. ChosenAt(k, k, Rounds[k])
      BY <2>1, <2>6, <3>1, <3>2, <3>4 DEF ChosenAt, NobodyYet, r
    <3>6. k \in 1..k
      BY <2>1
    <3>7. QED
      BY <2>3a, <3>5, <3>6 DEF k
  <2>7. ASSUME NEW i \in 1..m, ChosenAt(i, m, Rounds[m]) PROVE Holds(m + 1)
    <3>1. Rounds[k].queue = Append(Rounds[m].queue, r) /\ Rounds[k].chosen = Rounds[m].chosen
      <4>1. Rounds[m].chosen # {}
        BY <2>7 DEF ChosenAt
      <4>2. QED
        BY <2>3, <2>3a, <4>1 DEF Examine, RoundStates
    <3> DEFINE front == SubSeq(pending, 1, i - 1)
               back == SubSeq(pending, i + 1, m)
    <3>2. front \in Seq(Requests) /\ back \in Seq(Requests) /\ r \in Requests
      BY <2>1 DEF r
    <3>3. Append(back, r) = SubSeq(pending, i + 1, k)
      <4>1. i + 1 \in 1..k
        BY <2>1
      <4>2. QED
        BY <2>4, <4>1
    <3> HIDE DEF front, back
    <3>4. Append(front \o back, r) = front \o Append(back, r)
      <4>1. AppendsToSecond(front, back, r)
        BY <3>2, AppendToBoth
      <4>2. QED
        BY <4>1 DEF AppendsToSecond
    <3>5. ChosenAt(i, k, Rounds[k])
      BY <2>7, <3>1, <3>3, <3>4 DEF ChosenAt, front, back
    <3>6. i \in 1..k
      BY <2>1
    <3>7. QED
      BY <2>3a, <3>5, <3>6 DEF k
  <2>8. QED
    BY <2>2, <2>5, <2>6, <2>7
<1>4. n \in S
  <2>1. n \in Nat
    BY <1>1
  <2> HIDE DEF S
  <2>2. Nat \subseteq S
    BY <1>2, <1>3, SetInduction
  <2>3. QED
    BY <2>1, <2>2
<1>5. QED
  BY <1>1, <1>4

(* A dispatch wakes the first request that can be served, or nobody if there *)
(* is none, and leaves the others in the queue as they were.                 *)
LEMMA DispatchInOrder ==
  ASSUME TypeOK, DispatchQueued
  PROVE  \/ DispatchNone
         \/ \E i \in DOMAIN pending, p \in Providers : DispatchTo(i, p)
<1> DEFINE last == Len(pending)
           round == Rounds[last]
<1>1. pending \in Seq(Requests) /\ last \in 0..last /\ DOMAIN pending = 1..last
  BY DEF TypeOK, HubTypeOK
<1>2. \/ NobodyYet(last, round)
      \/ \E i \in 1..last : ChosenAt(i, last, round)
  BY <1>1, RoundsSoFar
<1>3. /\ dispatches > 0
      /\ dispatches' = dispatches - 1
      /\ pending' = round.queue
      /\ woken' = woken \cup round.chosen
      /\ \/ round.chosen = {} /\ UNCHANGED assigned
         \/ \E r \in round.chosen : \E p \in Selectable(r, active) :
              assigned' = [assigned EXCEPT ![r] = p]
      /\ UNCHANGED <<providerVars, open, responses, routedTo, callback, cleared>>
  BY DEF DispatchQueued
<1> HIDE DEF round
<1>4. CASE NobodyYet(last, round)
  <2>1. SubSeq(pending, 1, last) = pending
    BY <1>1
  <2>2. DispatchNone
    BY <1>1, <1>3, <1>4, <2>1 DEF NobodyYet, DispatchNone, queueVars
  <2>3. QED
    BY <2>2
<1>5. ASSUME NEW i \in 1..last, ChosenAt(i, last, round)
      PROVE  \E p \in Providers : DispatchTo(i, p)
  <2>1. PICK p \in Selectable(pending[i], active) : assigned' = [assigned EXCEPT ![pending[i]] = p]
    BY <1>3, <1>5 DEF ChosenAt
  <2>2. p \in Providers
    BY DEF Selectable, Routable
  <2>3. pending' = RemoveAt(pending, i)
    BY <1>3, <1>5 DEF ChosenAt, RemoveAt
  <2>4. DispatchTo(i, p)
    BY <1>3, <1>5, <2>1, <2>3 DEF ChosenAt, DispatchTo
  <2>5. QED
    BY <2>2, <2>4
<1>6. QED
  BY <1>1, <1>2, <1>4, <1>5

-----------------------------------------------------------------------------
USE HubAssumption, RelayAssumption

(* Every step keeps the types.                                               *)
LEMMA TypeStep ==
  ASSUME TypeOK, [Next]_vars
  PROVE  TypeOK'
<1> USE DEF TypeOK, HubTypeOK, LinkState, Message, Served, ProviderOrNone, Location,
            Sending, Live, Final, Verdict, providerVars, queueVars, hubVars,
            relayVars
<1>1. ASSUME NEW r \in Requests, RefuseUnfunded(r) PROVE TypeOK'
  BY <1>1 DEF RefuseUnfunded, Finish
<1>2. ASSUME NEW r \in Requests, NEW p \in Providers, RouteDirect(r, p) PROVE TypeOK'
  <2>1. p \in ProviderOrNone
    OBVIOUS
  <2>2. /\ open' \in SUBSET Requests
        /\ responses' \in [Requests -> Seq(Message)]
        /\ active' \in [Providers -> Nat]
        /\ routedTo' \in [Requests -> ProviderOrNone]
    BY <1>2, <2>1, BeginSendType DEF RouteDirect
  <2>3. QED
    BY <1>2, <2>2 DEF RouteDirect
<1>2a. ASSUME NEW r \in Requests, NEW p \in Providers, EncryptionFails(r, p)
       PROVE  TypeOK'
  BY <1>2a DEF EncryptionFails, CreateResponseQueue, Finish
<1>3. ASSUME NEW r \in Requests, FailFast(r) PROVE TypeOK'
  BY <1>3 DEF FailFast, Finish
<1>4. ASSUME NEW r \in Requests, Enqueue(r) PROVE TypeOK'
  BY <1>4 DEF Enqueue, EnqueueRequest
<1>5. ASSUME NEW r \in Requests, RefuseQueueFull(r) PROVE TypeOK'
  BY <1>5 DEF RefuseQueueFull, Finish
<1>6. ASSUME NEW r \in Requests, QueueTimeout(r) PROVE TypeOK'
  BY <1>6 DEF QueueTimeout, Finish
<1>7. ASSUME NEW r \in Requests, ResumeCleared(r) PROVE TypeOK'
  BY <1>7 DEF ResumeCleared, Finish
<1>8. ASSUME NEW r \in Requests, ResumeAssigned(r) PROVE TypeOK'
  <2>1. assigned[r] \in ProviderOrNone
    OBVIOUS
  <2>2. /\ open' \in SUBSET Requests
        /\ responses' \in [Requests -> Seq(Message)]
        /\ active' \in [Providers -> Nat]
        /\ routedTo' \in [Requests -> ProviderOrNone]
    BY <1>8, <2>1, BeginSendType DEF ResumeAssigned
  <2>3. QED
    BY <1>8, <2>1, <2>2 DEF ResumeAssigned
<1>8a. ASSUME NEW r \in Requests, AssignedEncryptionFails(r) PROVE TypeOK'
  BY <1>8a DEF AssignedEncryptionFails, Finish
<1>9. ASSUME NEW r \in Requests, Deliver(r) PROVE TypeOK'
  <2>1. target[r] \in ProviderOrNone
    BY <1>9 DEF Deliver
  <2>2. received' \in SUBSET (Requests \X ProviderOrNone)
    BY <1>9, <2>1 DEF Deliver
  <2>3. QED
    BY <1>9, <2>2 DEF Deliver
<1>10. ASSUME NEW r \in Requests, SendCompletes(r) PROVE TypeOK'
  BY <1>10 DEF SendCompletes
<1>11. ASSUME NEW r \in Requests, NEW p \in Providers, RetryElsewhere(r, p) PROVE TypeOK'
  <2>1. Decremented(target[r]) \in [Providers -> Nat]
    BY DecrementedType
  <2>2. /\ open' \in SUBSET Requests
        /\ responses' \in [Requests -> Seq(Message)]
        /\ active' \in [Providers -> Nat]
        /\ routedTo' \in [Requests -> ProviderOrNone]
    BY <1>11, <2>1, BeginSendType DEF RetryElsewhere
  <2>3. QED
    BY <1>11, <2>2 DEF RetryElsewhere
<1>11a. ASSUME NEW r \in Requests, NEW p \in Providers, RetryEncryptionFails(r, p)
        PROVE  TypeOK'
  <2>1. active' \in [Providers -> Nat]
    BY <1>11a, DecrementedType DEF RetryEncryptionFails
  <2>2. /\ open' \in SUBSET Requests
        /\ responses' \in [Requests -> Seq(Message)]
    BY <1>11a DEF RetryEncryptionFails, CreateResponseQueue
  <2>3. routedTo' \in [Requests -> ProviderOrNone] /\ callback' \in [Requests -> ProviderOrNone]
    BY <1>11a DEF RetryEncryptionFails
  <2>4. pc' \in [Requests -> Location] /\ verdict' \in [Requests -> Verdict]
    BY <1>11a DEF RetryEncryptionFails, Finish
  <2>5. QED
    BY <1>11a, <2>1, <2>2, <2>3, <2>4 DEF RetryEncryptionFails
<1>12. ASSUME NEW r \in Requests, SendFails(r) PROVE TypeOK'
  <2>1. active' \in [Providers -> Nat]
    BY <1>12, DecrementedType DEF SendFails
  <2>2. /\ open' \in SUBSET Requests
        /\ responses' \in [Requests -> Seq(Message)]
        /\ routedTo' \in [Requests -> ProviderOrNone]
        /\ callback' \in [Requests -> ProviderOrNone]
    BY <1>12, RemoveResponseQueueType DEF SendFails
  <2>3. QED
    BY <1>12, <2>1, <2>2 DEF SendFails, Finish
<1>13. ASSUME NEW r \in Requests, StartBody(r) PROVE TypeOK'
  BY <1>13 DEF StartBody
<1>14. ASSUME NEW r \in Requests, AbandonBody(r) PROVE TypeOK'
  BY <1>14 DEF AbandonBody
<1>14a. ASSUME NEW r \in Requests, ConsumeChunk(r) PROVE TypeOK'
  <2>1. Tail(responses[r]) \in Seq(Message)
    BY <1>14a DEF ConsumeChunk
  <2>2. QED
    BY <1>14a, <2>1 DEF ConsumeChunk
<1>15. ASSUME NEW r \in Requests, Consume(r) PROVE TypeOK'
  BY <1>15, EndRelayType DEF Consume
<1>16. ASSUME NEW r \in Requests, RelayTimeout(r) PROVE TypeOK'
  BY <1>16, EndRelayType DEF RelayTimeout
<1>17. ASSUME NEW r \in Requests, CloseStream(r) PROVE TypeOK'
  BY <1>17 DEF CloseStream, RemoveResponseQueue
<1>18. ASSUME NEW r \in Requests, CancelStream(r) PROVE TypeOK'
  BY <1>18 DEF CancelStream, RemoveResponseQueue
<1>19. ASSUME NEW p \in Providers, NEW r \in Requests, HandleDone(p, r) PROVE TypeOK'
  <2>1. /\ said' \in [Requests -> [Providers -> Nat]]
        /\ link' \in [Providers -> LinkState]
    BY <1>19, AnswersType DEF HandleDone
  <2>2. responses' \in [Requests -> Seq(Message)]
    BY <1>19, DepositType DEF HandleDone
  <2>3. active' \in [Providers -> Nat]
    BY <1>19, DecrementedType DEF HandleDone
  <2>4. /\ callback' \in [Requests -> ProviderOrNone]
        /\ bills' \in [Requests -> Nat]
        /\ outcome' \in [Requests -> {"none", "matched", "completed", "failed"}]
    <3> PICK charged \in {TRUE} \cup {~ChargeMayFail} : Settle(r, charged)
      BY <1>19 DEF HandleDone
    <3>1. CASE callback[r] = NoProvider
      BY <3>1 DEF Settle
    <3>2. CASE callback[r] # NoProvider
      <4> DEFINE status == IF charged THEN "completed" ELSE "failed"
                 count == IF charged THEN bills[r] + 1 ELSE bills[r]
      <4>1. /\ outcome' = Amended({r}, status)
            /\ bills' = [bills EXCEPT ![r] = count]
            /\ callback' = [callback EXCEPT ![r] = NoProvider]
        BY <3>2 DEF Settle
      <4>2. status \in {"none", "matched", "completed", "failed"} /\ count \in Nat
        OBVIOUS
      <4> HIDE DEF status, count
      <4>3. outcome' \in [Requests -> {"none", "matched", "completed", "failed"}]
        BY <4>1, <4>2, AmendedType
      <4>4. QED
        BY <4>1, <4>2, <4>3
    <3>3. QED
      BY <3>1, <3>2
  <2>5. callback' \in [Requests -> ProviderOrNone] /\ dispatches' \in Nat
    BY <1>19, <2>4 DEF HandleDone
  <2>6. HubTypeOK'
    BY <1>19, <2>1, <2>2, <2>3, <2>5 DEF HandleDone
  <2>7. QED
    BY <1>19, <2>1, <2>4, <2>6 DEF HandleDone
<1>20. ASSUME NEW p \in Providers, NEW r \in Requests, HandleError(p, r) PROVE TypeOK'
  <2>1. /\ said' \in [Requests -> [Providers -> Nat]]
        /\ link' \in [Providers -> LinkState]
    BY <1>20, AnswersType DEF HandleError
  <2>2. responses' \in [Requests -> Seq(Message)]
    BY <1>20, DepositType DEF HandleError
  <2>3. active' \in [Providers -> Nat]
    BY <1>20, DecrementedType DEF HandleError
  <2>4. outcome' \in [Requests -> {"none", "matched", "completed", "failed"}]
    BY <1>20, AmendedType DEF HandleError
  <2>5. callback' \in [Requests -> ProviderOrNone] /\ dispatches' \in Nat
    BY <1>20, <2>4 DEF HandleError
  <2>6. HubTypeOK'
    BY <1>20, <2>1, <2>2, <2>3, <2>5 DEF HandleError
  <2>7. QED
    BY <1>20, <2>1, <2>4, <2>6 DEF HandleError
<1>21. ASSUME NEW p \in Providers, NEW r \in Requests, IgnoreError(p, r) PROVE TypeOK'
  <2>1. /\ said' \in [Requests -> [Providers -> Nat]]
        /\ link' \in [Providers -> LinkState]
    BY <1>21, AnswersType DEF IgnoreError
  <2>2. QED
    BY <1>21, <2>1 DEF IgnoreError
<1>21a. ASSUME NEW p \in Providers, NEW r \in Requests, HandleChunk(p, r)
        PROVE  TypeOK'
  <2>1. responses' \in [Requests -> Seq(Message)]
    BY <1>21a, DepositType DEF HandleChunk
  <2>2. link' \in [Providers -> LinkState]
    BY <1>21a DEF HandleChunk, Heard
  <2>3. QED
    BY <1>21a, <2>1, <2>2 DEF HandleChunk
<1>22. ASSUME NEW p \in Providers, HandleHeartbeat(p) PROVE TypeOK'
  <2>1. PICK count \in 0..(Cardinality(Reached(p)) + Leftover) : Heartbeat(p, count)
    BY <1>22 DEF HandleHeartbeat
  <2>2. QED
    BY <1>22, <2>1 DEF HandleHeartbeat, Heartbeat
<1>23. ASSUME NEW p \in Providers, ConnectProvider(p) PROVE TypeOK'
  BY <1>23 DEF ConnectProvider, Register
<1>24. ASSUME NEW p \in Providers, DropProvider(p) PROVE TypeOK'
  <2>1. CASE Disconnect(p, "gone") /\ outcome' = Amended(OrphanedRequests(p), "failed")
             /\ UNCHANGED <<pc, target, verdict, received, said, bills>>
    <3>1. HubTypeOK'
      BY <2>1, DisconnectType
    <3>2. outcome' \in [Requests -> {"none", "matched", "completed", "failed"}]
      BY <2>1, AmendedType
    <3>3. QED
      BY <2>1, <3>1, <3>2
  <2>2. QED
    BY <1>24, <2>1 DEF DropProvider
<1>25. ASSUME NEW p \in Providers, ForceDisconnect(p) PROVE TypeOK'
  <2>1. HubTypeOK'
    BY <1>25, DisconnectType DEF ForceDisconnect
  <2>2. outcome' \in [Requests -> {"none", "matched", "completed", "failed"}]
    BY <1>25, AmendedType DEF ForceDisconnect
  <2>3. QED
    BY <1>25, <2>1, <2>2 DEF ForceDisconnect
<1>26. ASSUME NEW p \in Providers, Quarantine(p) PROVE TypeOK'
  BY <1>26 DEF Quarantine, SetQuarantine
<1>27. CASE ClearPending
  BY <1>27 DEF ClearPending, ClearQueue
<1>28. CASE TryDispatch
  <2>1. ASSUME NEW i \in DOMAIN pending, NEW p \in Providers, DispatchTo(i, p)
        PROVE  HubTypeOK'
    <3>1. pending[i] \in Requests /\ p \in ProviderOrNone /\ dispatches' \in Nat
      BY <2>1 DEF DispatchTo
    <3>2. pending' \in Seq(Requests)
      BY <2>1, WithoutType DEF DispatchTo
    <3>3. QED
      BY <2>1, <3>1, <3>2 DEF DispatchTo
  <2>2. ASSUME DispatchNone PROVE HubTypeOK'
    BY <2>2 DEF DispatchNone
  <2>3. HubTypeOK'
    <3> HIDE DEF TypeOK, HubTypeOK
    <3>1. QED
      BY <1>28, <2>1, <2>2, DispatchInOrder DEF TryDispatch
  <2>4. QED
    BY <1>28, <2>3 DEF TryDispatch
<1>29. CASE UNCHANGED vars
  BY <1>29 DEF vars
<1>30. QED
  BY <1>1, <1>2, <1>2a, <1>3, <1>4, <1>5, <1>6, <1>7, <1>8, <1>8a, <1>9, <1>10, <1>11, <1>11a, <1>12,
     <1>13, <1>14, <1>14a, <1>15, <1>16, <1>17, <1>18, <1>19, <1>20, <1>21, <1>21a, <1>22,
     <1>23, <1>24, <1>25, <1>26, <1>27, <1>28, <1>29
     DEF Next, Consumer, Provider

THEOREM TypeCorrect == Spec => []TypeOK
<1>1. Init => TypeOK
  BY DEF Init, HubInit, TypeOK, HubTypeOK, LinkState, Message, ProviderOrNone,
         Location, Verdict
<1>2. QED
  BY <1>1, TypeStep, PTL DEF Spec

(* Only the end of a send registers a callback, and only once per request.   *)
LEMMA BillingStep ==
  ASSUME TypeOK, BillingInv, [Next]_vars
  PROVE  BillingInv'
<1>0. /\ pc \in [Requests -> Location]
      /\ bills \in [Requests -> Nat]
      /\ callback \in [Requests -> ProviderOrNone]
      /\ \A r \in Requests : callback[r] # NoProvider => callback[r] \in Providers
  BY DEF TypeOK, HubTypeOK, ProviderOrNone
<1> USE DEF BillingInv, Sending, Live, Final
<1>1. ASSUME NEW r \in Requests, RefuseUnfunded(r) PROVE BillingInv'
  BY <1>0, <1>1 DEF RefuseUnfunded, Finish, relayVars, hubVars
<1>2. ASSUME NEW r \in Requests, NEW p \in Providers, RouteDirect(r, p) PROVE BillingInv'
  BY <1>0, <1>2 DEF RouteDirect
<1>2a. ASSUME NEW r \in Requests, NEW p \in Providers, EncryptionFails(r, p)
       PROVE  BillingInv'
  BY <1>0, <1>2a DEF EncryptionFails, CreateResponseQueue, Finish, relayVars, hubVars, queueVars, providerVars
<1>3. ASSUME NEW r \in Requests, FailFast(r) PROVE BillingInv'
  BY <1>0, <1>3 DEF FailFast, Finish, relayVars, hubVars
<1>4. ASSUME NEW r \in Requests, Enqueue(r) PROVE BillingInv'
  BY <1>0, <1>4 DEF Enqueue
<1>5. ASSUME NEW r \in Requests, RefuseQueueFull(r) PROVE BillingInv'
  BY <1>0, <1>5 DEF RefuseQueueFull, Finish, relayVars, hubVars
<1>6. ASSUME NEW r \in Requests, QueueTimeout(r) PROVE BillingInv'
  BY <1>0, <1>6 DEF QueueTimeout, Finish, relayVars, hubVars
<1>7. ASSUME NEW r \in Requests, ResumeCleared(r) PROVE BillingInv'
  BY <1>0, <1>7 DEF ResumeCleared, Finish, relayVars, hubVars
<1>8. ASSUME NEW r \in Requests, ResumeAssigned(r) PROVE BillingInv'
  BY <1>0, <1>8 DEF ResumeAssigned
<1>8a. ASSUME NEW r \in Requests, AssignedEncryptionFails(r) PROVE BillingInv'
  BY <1>0, <1>8a DEF AssignedEncryptionFails, Finish, relayVars, hubVars, queueVars, providerVars
<1>9. ASSUME NEW r \in Requests, Deliver(r) PROVE BillingInv'
  BY <1>0, <1>9 DEF Deliver, relayVars, hubVars
<1>10. ASSUME NEW r \in Requests, SendCompletes(r) PROVE BillingInv'
  BY <1>0, <1>10 DEF SendCompletes
<1>11. ASSUME NEW r \in Requests, NEW p \in Providers, RetryElsewhere(r, p) PROVE BillingInv'
  BY <1>0, <1>11 DEF RetryElsewhere
<1>11a. ASSUME NEW r \in Requests, NEW p \in Providers, RetryEncryptionFails(r, p)
        PROVE  BillingInv'
  BY <1>0, <1>11a DEF RetryEncryptionFails, CreateResponseQueue, Finish, relayVars, hubVars, queueVars, providerVars
<1>12. ASSUME NEW r \in Requests, SendFails(r) PROVE BillingInv'
  BY <1>0, <1>12 DEF SendFails, Finish, RemoveResponseQueue
<1>13. ASSUME NEW r \in Requests, StartBody(r) PROVE BillingInv'
  BY <1>0, <1>13 DEF StartBody, relayVars, hubVars
<1>14. ASSUME NEW r \in Requests, AbandonBody(r) PROVE BillingInv'
  BY <1>0, <1>14 DEF AbandonBody, relayVars, hubVars
<1>14a. ASSUME NEW r \in Requests, ConsumeChunk(r) PROVE BillingInv'
  BY <1>0, <1>14a DEF ConsumeChunk, relayVars, hubVars, queueVars, providerVars
<1>15. ASSUME NEW r \in Requests, Consume(r) PROVE BillingInv'
  BY <1>0, <1>15 DEF Consume, EndRelay, RemoveResponseQueue
<1>16. ASSUME NEW r \in Requests, RelayTimeout(r) PROVE BillingInv'
  BY <1>0, <1>16 DEF RelayTimeout, EndRelay, RemoveResponseQueue
<1>17. ASSUME NEW r \in Requests, CloseStream(r) PROVE BillingInv'
  BY <1>0, <1>17 DEF CloseStream, RemoveResponseQueue
<1>18. ASSUME NEW r \in Requests, CancelStream(r) PROVE BillingInv'
  BY <1>0, <1>18 DEF CancelStream, RemoveResponseQueue
<1>19. ASSUME NEW p \in Providers, NEW r \in Requests, HandleDone(p, r) PROVE BillingInv'
  BY <1>0, <1>19 DEF HandleDone, Settle
<1>20. ASSUME NEW p \in Providers, NEW r \in Requests, HandleError(p, r) PROVE BillingInv'
  BY <1>0, <1>20 DEF HandleError
<1>21. ASSUME NEW p \in Providers, NEW r \in Requests, IgnoreError(p, r) PROVE BillingInv'
  BY <1>0, <1>21 DEF IgnoreError
<1>21a. ASSUME NEW p \in Providers, NEW r \in Requests, HandleChunk(p, r)
        PROVE  BillingInv'
  BY <1>0, <1>21a DEF HandleChunk, relayVars, hubVars, queueVars, providerVars
<1>22. ASSUME NEW p \in Providers, HandleHeartbeat(p) PROVE BillingInv'
  BY <1>0, <1>22 DEF HandleHeartbeat, Heartbeat, relayVars, hubVars
<1>23. ASSUME NEW p \in Providers, ConnectProvider(p) PROVE BillingInv'
  BY <1>0, <1>23 DEF ConnectProvider, Register, relayVars, hubVars
<1>24. ASSUME NEW p \in Providers, DropProvider(p) PROVE BillingInv'
  BY <1>0, <1>24 DEF DropProvider, Disconnect, relayVars, hubVars
<1>25. ASSUME NEW p \in Providers, ForceDisconnect(p) PROVE BillingInv'
  BY <1>0, <1>25 DEF ForceDisconnect, Disconnect
<1>26. ASSUME NEW p \in Providers, Quarantine(p) PROVE BillingInv'
  BY <1>0, <1>26 DEF Quarantine, SetQuarantine, relayVars, hubVars
<1>27. CASE ClearPending
  BY <1>0, <1>27 DEF ClearPending, ClearQueue, relayVars, hubVars
<1>28. CASE TryDispatch
  BY <1>0, <1>28 DEF TryDispatch, DispatchQueued, relayVars, hubVars
<1>29. CASE UNCHANGED vars
  BY <1>0, <1>29 DEF vars, hubVars, relayVars
<1>30. QED
  BY <1>1, <1>2, <1>2a, <1>3, <1>4, <1>5, <1>6, <1>7, <1>8, <1>8a, <1>9, <1>10, <1>11, <1>11a, 
     <1>12, <1>13, <1>14, <1>14a, <1>15, <1>16, <1>17, <1>18, <1>19, <1>20, <1>21, <1>21a, 
     <1>22, <1>23, <1>24, <1>25, <1>26, <1>27, <1>28, <1>29
     DEF Next, Consumer, Provider

(* A dispatch gives a provider to the request it wakes, and a clear marks    *)
(* every request it wakes; nothing else sets an event.                       *)
LEMMA WokenStep ==
  ASSUME TypeOK, WokenInv, [Next]_vars
  PROVE  WokenInv'
<1>0. /\ assigned \in [Requests -> ProviderOrNone]
      /\ woken \in SUBSET Requests
      /\ pending \in Seq(Requests)
      /\ \A i \in DOMAIN pending : pending[i] \in Requests
  BY DEF TypeOK, HubTypeOK
<1> USE DEF WokenInv
<1>1. ASSUME NEW r \in Requests, RefuseUnfunded(r) PROVE WokenInv'
  BY <1>0, <1>1 DEF RefuseUnfunded, hubVars, queueVars
<1>2. ASSUME NEW r \in Requests, NEW p \in Providers, RouteDirect(r, p) PROVE WokenInv'
  BY <1>0, <1>2 DEF RouteDirect, queueVars
<1>2a. ASSUME NEW r \in Requests, NEW p \in Providers, EncryptionFails(r, p)
       PROVE  WokenInv'
  BY <1>0, <1>2a DEF EncryptionFails, CreateResponseQueue, Finish, relayVars, hubVars, queueVars, providerVars
<1>3. ASSUME NEW r \in Requests, FailFast(r) PROVE WokenInv'
  BY <1>0, <1>3 DEF FailFast, hubVars, queueVars
<1>4. ASSUME NEW r \in Requests, Enqueue(r) PROVE WokenInv'
  BY <1>0, <1>4 DEF Enqueue, EnqueueRequest
<1>5. ASSUME NEW r \in Requests, RefuseQueueFull(r) PROVE WokenInv'
  BY <1>0, <1>5 DEF RefuseQueueFull, hubVars, queueVars
<1>6. ASSUME NEW r \in Requests, QueueTimeout(r) PROVE WokenInv'
  BY <1>0, <1>6 DEF QueueTimeout, hubVars, queueVars
<1>7. ASSUME NEW r \in Requests, ResumeCleared(r) PROVE WokenInv'
  BY <1>0, <1>7 DEF ResumeCleared, hubVars, queueVars
<1>8. ASSUME NEW r \in Requests, ResumeAssigned(r) PROVE WokenInv'
  BY <1>0, <1>8 DEF ResumeAssigned, queueVars
<1>8a. ASSUME NEW r \in Requests, AssignedEncryptionFails(r) PROVE WokenInv'
  BY <1>0, <1>8a DEF AssignedEncryptionFails, Finish, relayVars, hubVars, queueVars, providerVars
<1>9. ASSUME NEW r \in Requests, Deliver(r) PROVE WokenInv'
  BY <1>0, <1>9 DEF Deliver, hubVars, queueVars
<1>10. ASSUME NEW r \in Requests, SendCompletes(r) PROVE WokenInv'
  BY <1>0, <1>10 DEF SendCompletes, queueVars
<1>11. ASSUME NEW r \in Requests, NEW p \in Providers, RetryElsewhere(r, p) PROVE WokenInv'
  BY <1>0, <1>11 DEF RetryElsewhere, queueVars
<1>11a. ASSUME NEW r \in Requests, NEW p \in Providers, RetryEncryptionFails(r, p)
        PROVE  WokenInv'
  BY <1>0, <1>11a DEF RetryEncryptionFails, CreateResponseQueue, Finish, relayVars, hubVars, queueVars, providerVars
<1>12. ASSUME NEW r \in Requests, SendFails(r) PROVE WokenInv'
  BY <1>0, <1>12 DEF SendFails, queueVars
<1>13. ASSUME NEW r \in Requests, StartBody(r) PROVE WokenInv'
  BY <1>0, <1>13 DEF StartBody, hubVars, queueVars
<1>14. ASSUME NEW r \in Requests, AbandonBody(r) PROVE WokenInv'
  BY <1>0, <1>14 DEF AbandonBody, hubVars, queueVars
<1>14a. ASSUME NEW r \in Requests, ConsumeChunk(r) PROVE WokenInv'
  BY <1>0, <1>14a DEF ConsumeChunk, relayVars, hubVars, queueVars, providerVars
<1>15. ASSUME NEW r \in Requests, Consume(r) PROVE WokenInv'
  BY <1>0, <1>15 DEF Consume, EndRelay, queueVars
<1>16. ASSUME NEW r \in Requests, RelayTimeout(r) PROVE WokenInv'
  BY <1>0, <1>16 DEF RelayTimeout, EndRelay, queueVars
<1>17. ASSUME NEW r \in Requests, CloseStream(r) PROVE WokenInv'
  BY <1>0, <1>17 DEF CloseStream, queueVars
<1>18. ASSUME NEW r \in Requests, CancelStream(r) PROVE WokenInv'
  BY <1>0, <1>18 DEF CancelStream, queueVars
<1>19. ASSUME NEW p \in Providers, NEW r \in Requests, HandleDone(p, r) PROVE WokenInv'
  BY <1>0, <1>19 DEF HandleDone, queueVars
<1>20. ASSUME NEW p \in Providers, NEW r \in Requests, HandleError(p, r) PROVE WokenInv'
  BY <1>0, <1>20 DEF HandleError, queueVars
<1>21. ASSUME NEW p \in Providers, NEW r \in Requests, IgnoreError(p, r) PROVE WokenInv'
  BY <1>0, <1>21 DEF IgnoreError, queueVars
<1>21a. ASSUME NEW p \in Providers, NEW r \in Requests, HandleChunk(p, r)
        PROVE  WokenInv'
  BY <1>0, <1>21a DEF HandleChunk, relayVars, hubVars, queueVars, providerVars
<1>22. ASSUME NEW p \in Providers, HandleHeartbeat(p) PROVE WokenInv'
  BY <1>0, <1>22 DEF HandleHeartbeat, queueVars, Heartbeat, relayVars, hubVars
<1>23. ASSUME NEW p \in Providers, ConnectProvider(p) PROVE WokenInv'
  BY <1>0, <1>23 DEF ConnectProvider, queueVars, Register, relayVars, hubVars
<1>24. ASSUME NEW p \in Providers, DropProvider(p) PROVE WokenInv'
  BY <1>0, <1>24 DEF DropProvider, queueVars, Disconnect, relayVars, hubVars
<1>25. ASSUME NEW p \in Providers, ForceDisconnect(p) PROVE WokenInv'
  BY <1>0, <1>25 DEF ForceDisconnect, queueVars, Disconnect
<1>26. ASSUME NEW p \in Providers, Quarantine(p) PROVE WokenInv'
  BY <1>0, <1>26 DEF Quarantine, queueVars, SetQuarantine, relayVars, hubVars
<1>27. CASE ClearPending
  BY <1>0, <1>27 DEF ClearPending, ClearQueue, relayVars, hubVars
<1>28. CASE TryDispatch
  <2>1. UNCHANGED cleared
    BY <1>28 DEF TryDispatch, DispatchQueued
  <2>2. CASE DispatchNone
    BY <1>0, <2>1, <2>2 DEF DispatchNone, queueVars
  <2>3. ASSUME NEW i \in DOMAIN pending, NEW p \in Providers, DispatchTo(i, p)
        PROVE  WokenInv'
    <3>1. pending[i] \in Requests
      BY DEF TypeOK, HubTypeOK
    <3>2. QED
      BY <1>0, <2>1, <2>3, <3>1 DEF DispatchTo
  <2>4. QED
    BY <1>28, <2>2, <2>3, DispatchInOrder DEF TryDispatch
<1>29. CASE UNCHANGED vars
  BY <1>0, <1>29 DEF vars, hubVars, queueVars, relayVars
<1>30. QED
  BY <1>1, <1>2, <1>2a, <1>3, <1>4, <1>5, <1>6, <1>7, <1>8, <1>8a, <1>9, <1>10, <1>11, <1>11a, 
     <1>12, <1>13, <1>14, <1>14a, <1>15, <1>16, <1>17, <1>18, <1>19, <1>20, <1>21, <1>21a, 
     <1>22, <1>23, <1>24, <1>25, <1>26, <1>27, <1>28, <1>29
     DEF Next, Consumer, Provider

(* A message goes to the end of a response queue.                            *)
LEMMA AppendedLast ==
  ASSUME NEW S, NEW s \in Seq(S), NEW e \in S
  PROVE  /\ \A i \in DOMAIN s : i \in DOMAIN Append(s, e) /\ Append(s, e)[i] = s[i]
         /\ Len(s) + 1 \in DOMAIN Append(s, e) /\ Append(s, e)[Len(s) + 1] = e
<1>1. Len(s) \in Nat /\ DOMAIN s = 1..Len(s)
  OBVIOUS
<1>2. DOMAIN Append(s, e) = 1..(Len(s) + 1) /\ Append(s, e)[Len(s) + 1] = e
  BY AppendProperties
<1>3. \A i \in 1..Len(s) : Append(s, e)[i] = s[i]
  BY AppendProperties
<1>4. QED
  BY <1>1, <1>2, <1>3

(* The first message after an operator's disconnect takes the link down, and *)
(* no message brings a link that is up down.                                 *)
LEMMA AnswersKeepLinks ==
  ASSUME TypeOK, NEW p \in Providers, NEW r \in Requests, Answers(p, r)
  PROVE  \A x \in Providers : link[x] = "up" => link'[x] = "up"
BY DEF Answers, Heard, TypeOK, HubTypeOK

(* Depositing a message leaves the end of a response where it is.            *)
LEMMA DepositKeepsMessages ==
  ASSUME TypeOK, NEW r \in Requests, NEW m \in Message, Deposit(r, m)
  PROVE  \A q \in Requests : EndArrived(q) => EndArrived(q)'
<1>1. responses \in [Requests -> Seq(Message)] /\ responses[r] \in Seq(Message)
  BY DEF TypeOK, HubTypeOK
<1>2. \A i \in DOMAIN responses[r] : /\ i \in DOMAIN Append(responses[r], m)
                                    /\ Append(responses[r], m)[i] = responses[r][i]
  BY <1>1, AppendedLast
<1>3. responses' = responses \/ responses' = [responses EXCEPT ![r] = Append(responses[r], m)]
  BY DEF Deposit
<1>4. QED
  BY <1>1, <1>2, <1>3 DEF EndArrived

(* So does reading a chunk.                                                  *)
LEMMA ChunkReadKeepsEnd ==
  ASSUME TypeOK, NEW r \in Requests, ConsumeChunk(r)
  PROVE  \A q \in Requests : EndArrived(q) => EndArrived(q)'
<1> DEFINE s == responses[r]
<1>1. responses \in [Requests -> Seq(Message)] /\ s \in Seq(Message)
  BY DEF TypeOK, HubTypeOK
<1>2. responses' = [responses EXCEPT ![r] = Tail(s)] /\ s # <<>> /\ s[1] = "chunk"
  BY <1>1 DEF ConsumeChunk
<1> HIDE DEF s
<1>3. ASSUME NEW i \in DOMAIN s, s[i] # "chunk"
      PROVE  i - 1 \in DOMAIN Tail(s) /\ Tail(s)[i - 1] # "chunk"
  <2>1. Len(s) \in Nat /\ DOMAIN s = 1..Len(s) /\ i \in 2..Len(s)
    BY <1>1, <1>2, <1>3
  <2>2. Len(Tail(s)) = Len(s) - 1 /\ DOMAIN Tail(s) = 1..(Len(s) - 1)
    BY <1>1, <1>2, <2>1
  <2>3. Tail(s)[i - 1] = s[(i - 1) + 1]
    BY <1>1, <1>2, <2>1
  <2>4. QED
    BY <1>3, <2>1, <2>2, <2>3
<1>4. EndArrived(r) => \E i \in DOMAIN Tail(s) : Tail(s)[i] # "chunk"
  BY <1>3 DEF EndArrived, s
<1>5. QED
  BY <1>1, <1>2, <1>4 DEF EndArrived

(* A disconnect tells every open request mapped to the provider, and leaves  *)
(* the other requests and providers as they are.                             *)
LEMMA DisconnectTells ==
  ASSUME TypeOK, NEW p \in Providers, NEW next \in LinkState, Disconnect(p, next)
  PROVE  /\ open' = open
         /\ \A q \in Requests : EndArrived(q) => EndArrived(q)'
         /\ \A q \in open : routedTo[q] = p => EndArrived(q)'
         /\ \A q \in Requests : routedTo[q] # p => routedTo'[q] = routedTo[q]
         /\ \A x \in Providers \ {p} : link'[x] = link[x]
<1>1. /\ responses \in [Requests -> Seq(Message)]
      /\ link \in [Providers -> LinkState]
      /\ open \in SUBSET Requests
  BY DEF TypeOK, HubTypeOK
<1> DEFINE told(q) == Append(responses[q], "provider_disconnected")
<1>2. ASSUME NEW q \in Requests
      PROVE  /\ \A i \in DOMAIN responses[q] : i \in DOMAIN told(q) /\ told(q)[i] = responses[q][i]
             /\ \E i \in DOMAIN told(q) : told(q)[i] = "provider_disconnected"
  <2>1. responses[q] \in Seq(Message) /\ "provider_disconnected" \in Message
    BY <1>1 DEF Message
  <2>2. QED
    BY <2>1, AppendedLast
<1>3. ASSUME NEW q \in Requests
      PROVE  responses'[q] = IF routedTo[q] = p /\ q \in open THEN told(q) ELSE responses[q]
  BY DEF Disconnect, OrphanedRequests
<1> HIDE DEF told
<1>4. \A q \in Requests : /\ EndArrived(q) => EndArrived(q)'
                          /\ q \in open /\ routedTo[q] = p => EndArrived(q)'
  BY <1>2, <1>3 DEF EndArrived
<1>5. \A q \in open : routedTo[q] = p => EndArrived(q)'
  BY <1>1, <1>4
<1>6. /\ open' = open
      /\ \A q \in Requests : routedTo[q] # p => routedTo'[q] = routedTo[q]
      /\ \A x \in Providers \ {p} : link'[x] = link[x]
  BY <1>1 DEF Disconnect, OrphanedRequests
<1>7. QED
  BY <1>4, <1>5, <1>6

(* A request that is being relayed loses its mapping only when its provider  *)
(* disconnects, and then there is a message in its queue.                    *)
LEMMA RelayStep ==
  ASSUME TypeOK, WokenInv, RelayInv, [Next]_vars
  PROVE  RelayInv'
<1>0. /\ pc \in [Requests -> Location]
      /\ target \in [Requests -> ProviderOrNone]
      /\ responses \in [Requests -> Seq(Message)]
      /\ routedTo \in [Requests -> ProviderOrNone]
      /\ assigned \in [Requests -> ProviderOrNone]
      /\ link \in [Providers -> LinkState]
      /\ open \in SUBSET Requests
      /\ NoProvider \notin Providers
      /\ \A q \in Requests : responses'[q] = responses[q] => (EndArrived(q)' <=> EndArrived(q))
  BY HubAssumption DEF TypeOK, HubTypeOK, EndArrived
<1> USE DEF RelayInv, Sending, Live, Final, ProviderOrNone
<1>1. ASSUME NEW r \in Requests, RefuseUnfunded(r) PROVE RelayInv'
  BY <1>0, <1>1 DEF RefuseUnfunded, Finish, relayVars, hubVars, queueVars, providerVars
<1>2. ASSUME NEW r \in Requests, NEW p \in Providers, RouteDirect(r, p) PROVE RelayInv'
  BY <1>0, <1>2 DEF RouteDirect, BeginSend, CreateResponseQueue, Selectable, Routable, relayVars, hubVars, queueVars, providerVars
<1>2a. ASSUME NEW r \in Requests, NEW p \in Providers, EncryptionFails(r, p)
       PROVE  RelayInv'
  BY <1>0, <1>2a DEF EncryptionFails, CreateResponseQueue, Finish, relayVars, hubVars, queueVars, providerVars
<1>3. ASSUME NEW r \in Requests, FailFast(r) PROVE RelayInv'
  BY <1>0, <1>3 DEF FailFast, Finish, relayVars, hubVars, queueVars, providerVars
<1>4. ASSUME NEW r \in Requests, Enqueue(r) PROVE RelayInv'
  BY <1>0, <1>4 DEF Enqueue, relayVars, hubVars, queueVars, providerVars
<1>5. ASSUME NEW r \in Requests, RefuseQueueFull(r) PROVE RelayInv'
  BY <1>0, <1>5 DEF RefuseQueueFull, Finish, relayVars, hubVars, queueVars, providerVars
<1>6. ASSUME NEW r \in Requests, QueueTimeout(r) PROVE RelayInv'
  BY <1>0, <1>6 DEF QueueTimeout, Finish, relayVars, hubVars, queueVars, providerVars
<1>7. ASSUME NEW r \in Requests, ResumeCleared(r) PROVE RelayInv'
  BY <1>0, <1>7 DEF ResumeCleared, Finish, relayVars, hubVars, queueVars, providerVars
<1>8. ASSUME NEW r \in Requests, ResumeAssigned(r) PROVE RelayInv'
  BY <1>0, <1>8 DEF WokenInv, ResumeAssigned, BeginSend, CreateResponseQueue, relayVars, hubVars, queueVars, providerVars
<1>8a. ASSUME NEW r \in Requests, AssignedEncryptionFails(r) PROVE RelayInv'
  BY <1>0, <1>8a DEF AssignedEncryptionFails, Finish, relayVars, hubVars, queueVars, providerVars
<1>9. ASSUME NEW r \in Requests, Deliver(r) PROVE RelayInv'
  BY <1>0, <1>9 DEF Deliver, relayVars, hubVars, queueVars, providerVars
<1>10. ASSUME NEW r \in Requests, SendCompletes(r) PROVE RelayInv'
  BY <1>0, <1>10 DEF SendCompletes, relayVars, hubVars, queueVars, providerVars
<1>11. ASSUME NEW r \in Requests, NEW p \in Providers, RetryElsewhere(r, p) PROVE RelayInv'
  BY <1>0, <1>11 DEF RetryElsewhere, BeginSend, CreateResponseQueue, Selectable, Routable, relayVars, hubVars, queueVars, providerVars
<1>11a. ASSUME NEW r \in Requests, NEW p \in Providers, RetryEncryptionFails(r, p)
        PROVE  RelayInv'
  BY <1>0, <1>11a DEF RetryEncryptionFails, CreateResponseQueue, Finish, relayVars, hubVars, queueVars, providerVars
<1>12. ASSUME NEW r \in Requests, SendFails(r) PROVE RelayInv'
  BY <1>0, <1>12 DEF SendFails, Finish, RemoveResponseQueue, relayVars, hubVars, queueVars, providerVars
<1>13. ASSUME NEW r \in Requests, StartBody(r) PROVE RelayInv'
  BY <1>0, <1>13 DEF StartBody, relayVars, hubVars, queueVars, providerVars
<1>14. ASSUME NEW r \in Requests, AbandonBody(r) PROVE RelayInv'
  BY <1>0, <1>14 DEF AbandonBody, relayVars, hubVars, queueVars, providerVars
<1>14a. ASSUME NEW r \in Requests, ConsumeChunk(r) PROVE RelayInv'
  <2>1. \A q \in Requests : EndArrived(q) => EndArrived(q)'
    BY <1>14a, ChunkReadKeepsEnd
  <2>2. UNCHANGED <<pc, target, received, open, routedTo, link>>
    BY <1>14a DEF ConsumeChunk, relayVars, providerVars
  <2>3. QED
    BY <1>0, <2>1, <2>2
<1>15. ASSUME NEW r \in Requests, Consume(r) PROVE RelayInv'
  BY <1>0, <1>15 DEF Consume, EndRelay, RemoveResponseQueue, relayVars, hubVars, queueVars, providerVars
<1>16. ASSUME NEW r \in Requests, RelayTimeout(r) PROVE RelayInv'
  BY <1>0, <1>16 DEF RelayTimeout, EndRelay, RemoveResponseQueue, relayVars, hubVars, queueVars, providerVars
<1>17. ASSUME NEW r \in Requests, CloseStream(r) PROVE RelayInv'
  BY <1>0, <1>17 DEF CloseStream, RemoveResponseQueue, relayVars, hubVars, queueVars, providerVars
<1>18. ASSUME NEW r \in Requests, CancelStream(r) PROVE RelayInv'
  BY <1>0, <1>18 DEF CancelStream, RemoveResponseQueue, relayVars, hubVars, queueVars, providerVars
<1>19. ASSUME NEW p \in Providers, NEW r \in Requests, HandleDone(p, r) PROVE RelayInv'
  <2>1. \A x \in Providers : link[x] = "up" => link'[x] = "up"
    BY <1>19, AnswersKeepLinks DEF HandleDone
  <2>2. \A q \in Requests : EndArrived(q) => EndArrived(q)'
    BY <1>19, DepositKeepsMessages DEF HandleDone, Message, Served
  <2>3. UNCHANGED <<pc, target, received, open, routedTo>>
    BY <1>19 DEF HandleDone
  <2>4. QED
    BY <1>0, <2>1, <2>2, <2>3
<1>20. ASSUME NEW p \in Providers, NEW r \in Requests, HandleError(p, r) PROVE RelayInv'
  <2>1. \A x \in Providers : link[x] = "up" => link'[x] = "up"
    BY <1>20, AnswersKeepLinks DEF HandleError
  <2>2. \A q \in Requests : EndArrived(q) => EndArrived(q)'
    BY <1>20, DepositKeepsMessages DEF HandleError, Message, Served
  <2>3. UNCHANGED <<pc, target, received, open, routedTo>>
    BY <1>20 DEF HandleError
  <2>4. QED
    BY <1>0, <2>1, <2>2, <2>3
<1>21. ASSUME NEW p \in Providers, NEW r \in Requests, IgnoreError(p, r) PROVE RelayInv'
  BY <1>0, <1>21 DEF IgnoreError, Answers, Heard, relayVars, hubVars, queueVars, providerVars
<1>21a. ASSUME NEW p \in Providers, NEW r \in Requests, HandleChunk(p, r)
        PROVE  RelayInv'
  <2>1. \A x \in Providers : link[x] = "up" => link'[x] = "up"
    BY <1>0, <1>21a DEF HandleChunk, Heard
  <2>2. \A q \in Requests : EndArrived(q) => EndArrived(q)'
    BY <1>21a, DepositKeepsMessages DEF HandleChunk, Message, Served
  <2>3. UNCHANGED <<pc, target, received, open, routedTo>>
    BY <1>21a DEF HandleChunk, relayVars
  <2>4. QED
    BY <1>0, <2>1, <2>2, <2>3
<1>22. ASSUME NEW p \in Providers, HandleHeartbeat(p) PROVE RelayInv'
  BY <1>0, <1>22 DEF HandleHeartbeat, Heartbeat, relayVars, hubVars, queueVars, providerVars
<1>23. ASSUME NEW p \in Providers, ConnectProvider(p) PROVE RelayInv'
  BY <1>0, <1>23 DEF ConnectProvider, Register, relayVars, hubVars, queueVars, providerVars
<1>24. ASSUME NEW p \in Providers, DropProvider(p) PROVE RelayInv'
  <2>1. CASE Disconnect(p, "gone") /\ UNCHANGED <<pc, target, received>>
    BY <1>0, <2>1, DisconnectTells DEF LinkState
  <2>2. CASE link[p] = "closing"
    BY <1>0, <1>24, <2>2 DEF DropProvider, Disconnect, relayVars
  <2>3. \/ Disconnect(p, "gone") /\ UNCHANGED <<pc, target, received>>
        \/ link[p] = "closing"
    BY <1>24 DEF DropProvider
  <2> HIDE DEF RelayInv, Sending, Live, Final, ProviderOrNone
  <2>4. QED
    BY <2>1, <2>2, <2>3
<1>25. ASSUME NEW p \in Providers, ForceDisconnect(p) PROVE RelayInv'
  <2>1. UNCHANGED <<pc, target, received>> /\ Disconnect(p, "closing")
    BY <1>25 DEF ForceDisconnect
  <2>2. QED
    BY <1>0, <2>1, DisconnectTells DEF LinkState
<1>26. ASSUME NEW p \in Providers, Quarantine(p) PROVE RelayInv'
  BY <1>0, <1>26 DEF Quarantine, SetQuarantine, relayVars, hubVars, queueVars, providerVars
<1>27. CASE ClearPending
  BY <1>0, <1>27 DEF ClearPending, ClearQueue, relayVars, hubVars, queueVars, providerVars
<1>28. CASE TryDispatch
  BY <1>0, <1>28 DEF TryDispatch, DispatchQueued, relayVars, hubVars, queueVars, providerVars
<1>29. CASE UNCHANGED vars
  BY <1>0, <1>29 DEF vars, hubVars, queueVars, relayVars, providerVars
<1>30. QED
  <2> HIDE DEF RelayInv, Sending, Live, Final, ProviderOrNone
  <2>1. QED
    BY <1>1, <1>2, <1>2a, <1>3, <1>4, <1>5, <1>6, <1>7, <1>8, <1>8a, <1>9, <1>10, <1>11, <1>11a,
       <1>12, <1>13, <1>14, <1>14a, <1>15, <1>16, <1>17, <1>18, <1>19, <1>20, <1>21, <1>21a, <1>22,
       <1>23, <1>24, <1>25, <1>26, <1>27, <1>28, <1>29
       DEF Next, Consumer, Provider

(* Only the end of a send registers a callback, and a request without a      *)
(* handler gets no entry from the messages of its provider.                  *)
LEMMA ResidueStep ==
  ASSUME TypeOK, BillingInv, ResidueInv, [Next]_vars
  PROVE  ResidueInv'
<1>0. /\ pc \in [Requests -> Location]
      /\ open \in SUBSET Requests
      /\ routedTo \in [Requests -> ProviderOrNone]
      /\ callback \in [Requests -> ProviderOrNone]
      /\ verdict \in [Requests -> Verdict]
  BY DEF TypeOK, HubTypeOK
<1> USE DEF ResidueInv, Sending, Live, Final
<1>1. ASSUME NEW r \in Requests, RefuseUnfunded(r) PROVE ResidueInv'
  BY <1>0, <1>1 DEF RefuseUnfunded, Finish, relayVars, hubVars, queueVars, providerVars
<1>2. ASSUME NEW r \in Requests, NEW p \in Providers, RouteDirect(r, p) PROVE ResidueInv'
  BY <1>0, <1>2 DEF RouteDirect, BeginSend, CreateResponseQueue, Selectable, Routable, relayVars, hubVars, queueVars, providerVars
<1>2a. ASSUME NEW r \in Requests, NEW p \in Providers, EncryptionFails(r, p)
       PROVE  ResidueInv'
  BY <1>0, <1>2a DEF EncryptionFails, BillingInv, CreateResponseQueue, Finish, relayVars, hubVars, queueVars, providerVars
<1>3. ASSUME NEW r \in Requests, FailFast(r) PROVE ResidueInv'
  BY <1>0, <1>3 DEF FailFast, Finish, relayVars, hubVars, queueVars, providerVars
<1>4. ASSUME NEW r \in Requests, Enqueue(r) PROVE ResidueInv'
  BY <1>0, <1>4 DEF Enqueue, relayVars, hubVars, queueVars, providerVars
<1>5. ASSUME NEW r \in Requests, RefuseQueueFull(r) PROVE ResidueInv'
  BY <1>0, <1>5 DEF RefuseQueueFull, Finish, relayVars, hubVars, queueVars, providerVars
<1>6. ASSUME NEW r \in Requests, QueueTimeout(r) PROVE ResidueInv'
  BY <1>0, <1>6 DEF QueueTimeout, Finish, relayVars, hubVars, queueVars, providerVars
<1>7. ASSUME NEW r \in Requests, ResumeCleared(r) PROVE ResidueInv'
  BY <1>0, <1>7 DEF ResumeCleared, Finish, relayVars, hubVars, queueVars, providerVars
<1>8. ASSUME NEW r \in Requests, ResumeAssigned(r) PROVE ResidueInv'
  BY <1>0, <1>8 DEF ResumeAssigned, BeginSend, CreateResponseQueue, relayVars, hubVars, queueVars, providerVars
<1>8a. ASSUME NEW r \in Requests, AssignedEncryptionFails(r) PROVE ResidueInv'
  BY <1>0, <1>8a DEF AssignedEncryptionFails, Finish, relayVars, hubVars, queueVars, providerVars
<1>9. ASSUME NEW r \in Requests, Deliver(r) PROVE ResidueInv'
  BY <1>0, <1>9 DEF Deliver, relayVars, hubVars, queueVars, providerVars
<1>10. ASSUME NEW r \in Requests, SendCompletes(r) PROVE ResidueInv'
  BY <1>0, <1>10 DEF SendCompletes, relayVars, hubVars, queueVars, providerVars
<1>11. ASSUME NEW r \in Requests, NEW p \in Providers, RetryElsewhere(r, p) PROVE ResidueInv'
  BY <1>0, <1>11 DEF RetryElsewhere, BeginSend, CreateResponseQueue, Selectable, Routable, relayVars, hubVars, queueVars, providerVars
<1>11a. ASSUME NEW r \in Requests, NEW p \in Providers, RetryEncryptionFails(r, p)
        PROVE  ResidueInv'
  BY <1>0, <1>11a DEF RetryEncryptionFails, BillingInv, CreateResponseQueue, Finish, relayVars, hubVars, queueVars, providerVars
<1>12. ASSUME NEW r \in Requests, SendFails(r) PROVE ResidueInv'
  BY <1>0, <1>12 DEF SendFails, Finish, RemoveResponseQueue, relayVars, hubVars, queueVars, providerVars
<1>13. ASSUME NEW r \in Requests, StartBody(r) PROVE ResidueInv'
  BY <1>0, <1>13 DEF StartBody, relayVars, hubVars, queueVars, providerVars
<1>14. ASSUME NEW r \in Requests, AbandonBody(r) PROVE ResidueInv'
  BY <1>0, <1>14 DEF AbandonBody, relayVars, hubVars, queueVars, providerVars
<1>14a. ASSUME NEW r \in Requests, ConsumeChunk(r) PROVE ResidueInv'
  BY <1>0, <1>14a DEF ConsumeChunk, relayVars, hubVars, queueVars, providerVars
<1>15. ASSUME NEW r \in Requests, Consume(r) PROVE ResidueInv'
  BY <1>0, <1>15 DEF Consume, EndRelay, RemoveResponseQueue, relayVars, hubVars, queueVars, providerVars
<1>16. ASSUME NEW r \in Requests, RelayTimeout(r) PROVE ResidueInv'
  BY <1>0, <1>16 DEF RelayTimeout, EndRelay, RemoveResponseQueue, relayVars, hubVars, queueVars, providerVars
<1>17. ASSUME NEW r \in Requests, CloseStream(r) PROVE ResidueInv'
  BY <1>0, <1>17 DEF CloseStream, RemoveResponseQueue, relayVars, hubVars, queueVars, providerVars
<1>18. ASSUME NEW r \in Requests, CancelStream(r) PROVE ResidueInv'
  BY <1>0, <1>18 DEF CancelStream, RemoveResponseQueue, relayVars, hubVars, queueVars, providerVars
<1>19. ASSUME NEW p \in Providers, NEW r \in Requests, HandleDone(p, r) PROVE ResidueInv'
  BY <1>0, <1>19 DEF HandleDone, Answers, Heard, Deposit, relayVars, hubVars, queueVars, providerVars, Settle
<1>20. ASSUME NEW p \in Providers, NEW r \in Requests, HandleError(p, r) PROVE ResidueInv'
  BY <1>0, <1>20 DEF HandleError, Answers, Heard, Deposit, relayVars, hubVars, queueVars, providerVars
<1>21. ASSUME NEW p \in Providers, NEW r \in Requests, IgnoreError(p, r) PROVE ResidueInv'
  BY <1>0, <1>21 DEF IgnoreError, Answers, Heard, relayVars, hubVars, queueVars, providerVars
<1>21a. ASSUME NEW p \in Providers, NEW r \in Requests, HandleChunk(p, r)
        PROVE  ResidueInv'
  BY <1>0, <1>21a DEF HandleChunk, relayVars, hubVars, queueVars, providerVars
<1>22. ASSUME NEW p \in Providers, HandleHeartbeat(p) PROVE ResidueInv'
  BY <1>0, <1>22 DEF HandleHeartbeat, Heartbeat, relayVars, hubVars, queueVars, providerVars
<1>23. ASSUME NEW p \in Providers, ConnectProvider(p) PROVE ResidueInv'
  BY <1>0, <1>23 DEF ConnectProvider, Register, relayVars, hubVars, queueVars, providerVars
<1>24. ASSUME NEW p \in Providers, DropProvider(p) PROVE ResidueInv'
  BY <1>0, <1>24 DEF DropProvider, Disconnect, OrphanedRequests, relayVars, hubVars, queueVars, providerVars
<1>25. ASSUME NEW p \in Providers, ForceDisconnect(p) PROVE ResidueInv'
  BY <1>0, <1>25 DEF ForceDisconnect, Disconnect, OrphanedRequests, relayVars, hubVars, queueVars, providerVars
<1>26. ASSUME NEW p \in Providers, Quarantine(p) PROVE ResidueInv'
  BY <1>0, <1>26 DEF Quarantine, SetQuarantine, relayVars, hubVars, queueVars, providerVars
<1>27. CASE ClearPending
  BY <1>0, <1>27 DEF ClearPending, ClearQueue, relayVars, hubVars, queueVars, providerVars
<1>28. CASE TryDispatch
  BY <1>0, <1>28 DEF TryDispatch, DispatchQueued, relayVars, hubVars, queueVars, providerVars
<1>29. CASE UNCHANGED vars
  BY <1>0, <1>29 DEF vars, hubVars, queueVars, relayVars, providerVars
<1>30. QED
  BY <1>1, <1>2, <1>2a, <1>3, <1>4, <1>5, <1>6, <1>7, <1>8, <1>8a, <1>9, <1>10, <1>11, <1>11a,
     <1>12, <1>13, <1>14, <1>14a, <1>15, <1>16, <1>17, <1>18, <1>19, <1>20, <1>21, <1>21a, <1>22,
     <1>23, <1>24, <1>25, <1>26, <1>27, <1>28, <1>29
     DEF Next, Consumer, Provider

(* A refusal comes before any charge and ends the handler, and the provider  *)
(* of a refused request finds no callback any more.                          *)
LEMMA VerdictStep ==
  ASSUME TypeOK, BillingInv, ResidueInv, VerdictInv, [Next]_vars
  PROVE  VerdictInv'
<1>0. /\ pc \in [Requests -> Location]
      /\ verdict \in [Requests -> Verdict]
      /\ bills \in [Requests -> Nat]
  BY DEF TypeOK
<1> USE DEF VerdictInv, Refusals, Verdict, Sending, Live, Final
<1>1. ASSUME NEW r \in Requests, RefuseUnfunded(r) PROVE VerdictInv'
  BY <1>0, <1>1 DEF BillingInv, RefuseUnfunded, Finish, relayVars, hubVars, queueVars, providerVars
<1>2. ASSUME NEW r \in Requests, NEW p \in Providers, RouteDirect(r, p) PROVE VerdictInv'
  BY <1>0, <1>2 DEF RouteDirect, BeginSend, CreateResponseQueue, Selectable, Routable, relayVars, hubVars, queueVars, providerVars
<1>2a. ASSUME NEW r \in Requests, NEW p \in Providers, EncryptionFails(r, p)
       PROVE  VerdictInv'
  BY <1>0, <1>2a DEF EncryptionFails, BillingInv, CreateResponseQueue, Finish, relayVars, hubVars, queueVars, providerVars
<1>3. ASSUME NEW r \in Requests, FailFast(r) PROVE VerdictInv'
  BY <1>0, <1>3 DEF BillingInv, FailFast, Finish, relayVars, hubVars, queueVars, providerVars
<1>4. ASSUME NEW r \in Requests, Enqueue(r) PROVE VerdictInv'
  BY <1>0, <1>4 DEF Enqueue, relayVars, hubVars, queueVars, providerVars
<1>5. ASSUME NEW r \in Requests, RefuseQueueFull(r) PROVE VerdictInv'
  BY <1>0, <1>5 DEF BillingInv, RefuseQueueFull, Finish, relayVars, hubVars, queueVars, providerVars
<1>6. ASSUME NEW r \in Requests, QueueTimeout(r) PROVE VerdictInv'
  BY <1>0, <1>6 DEF BillingInv, QueueTimeout, Finish, relayVars, hubVars, queueVars, providerVars
<1>7. ASSUME NEW r \in Requests, ResumeCleared(r) PROVE VerdictInv'
  BY <1>0, <1>7 DEF BillingInv, ResumeCleared, Finish, relayVars, hubVars, queueVars, providerVars
<1>8. ASSUME NEW r \in Requests, ResumeAssigned(r) PROVE VerdictInv'
  BY <1>0, <1>8 DEF ResumeAssigned, BeginSend, CreateResponseQueue, relayVars, hubVars, queueVars, providerVars
<1>8a. ASSUME NEW r \in Requests, AssignedEncryptionFails(r) PROVE VerdictInv'
  BY <1>0, <1>8a DEF AssignedEncryptionFails, BillingInv, Finish, relayVars, hubVars, queueVars, providerVars
<1>9. ASSUME NEW r \in Requests, Deliver(r) PROVE VerdictInv'
  BY <1>0, <1>9 DEF Deliver, relayVars, hubVars, queueVars, providerVars
<1>10. ASSUME NEW r \in Requests, SendCompletes(r) PROVE VerdictInv'
  BY <1>0, <1>10 DEF SendCompletes, relayVars, hubVars, queueVars, providerVars
<1>11. ASSUME NEW r \in Requests, NEW p \in Providers, RetryElsewhere(r, p) PROVE VerdictInv'
  BY <1>0, <1>11 DEF RetryElsewhere, BeginSend, CreateResponseQueue, Selectable, Routable, relayVars, hubVars, queueVars, providerVars
<1>11a. ASSUME NEW r \in Requests, NEW p \in Providers, RetryEncryptionFails(r, p)
        PROVE  VerdictInv'
  BY <1>0, <1>11a DEF RetryEncryptionFails, BillingInv, CreateResponseQueue, Finish, relayVars, hubVars, queueVars, providerVars
<1>12. ASSUME NEW r \in Requests, SendFails(r) PROVE VerdictInv'
  BY <1>0, <1>12 DEF BillingInv, SendFails, Finish, RemoveResponseQueue, relayVars, hubVars, queueVars, providerVars
<1>13. ASSUME NEW r \in Requests, StartBody(r) PROVE VerdictInv'
  BY <1>0, <1>13 DEF StartBody, relayVars, hubVars, queueVars, providerVars
<1>14. ASSUME NEW r \in Requests, AbandonBody(r) PROVE VerdictInv'
  BY <1>0, <1>14 DEF AbandonBody, relayVars, hubVars, queueVars, providerVars
<1>14a. ASSUME NEW r \in Requests, ConsumeChunk(r) PROVE VerdictInv'
  BY <1>0, <1>14a DEF ConsumeChunk, relayVars, hubVars, queueVars, providerVars
<1>15. ASSUME NEW r \in Requests, Consume(r) PROVE VerdictInv'
  BY <1>0, <1>15 DEF Consume, EndRelay, RemoveResponseQueue, relayVars, hubVars, queueVars, providerVars
<1>16. ASSUME NEW r \in Requests, RelayTimeout(r) PROVE VerdictInv'
  BY <1>0, <1>16 DEF RelayTimeout, EndRelay, RemoveResponseQueue, relayVars, hubVars, queueVars, providerVars
<1>17. ASSUME NEW r \in Requests, CloseStream(r) PROVE VerdictInv'
  BY <1>0, <1>17 DEF CloseStream, RemoveResponseQueue, relayVars, hubVars, queueVars, providerVars
<1>18. ASSUME NEW r \in Requests, CancelStream(r) PROVE VerdictInv'
  BY <1>0, <1>18 DEF CancelStream, RemoveResponseQueue, relayVars, hubVars, queueVars, providerVars
<1>19. ASSUME NEW p \in Providers, NEW r \in Requests, HandleDone(p, r) PROVE VerdictInv'
  BY <1>0, <1>19 DEF ResidueInv, HandleDone, Answers, Heard, Deposit, relayVars, hubVars, queueVars, providerVars, Settle
<1>20. ASSUME NEW p \in Providers, NEW r \in Requests, HandleError(p, r) PROVE VerdictInv'
  BY <1>0, <1>20 DEF HandleError, Answers, Heard, Deposit, relayVars, hubVars, queueVars, providerVars
<1>21. ASSUME NEW p \in Providers, NEW r \in Requests, IgnoreError(p, r) PROVE VerdictInv'
  BY <1>0, <1>21 DEF IgnoreError, Answers, Heard, relayVars, hubVars, queueVars, providerVars
<1>21a. ASSUME NEW p \in Providers, NEW r \in Requests, HandleChunk(p, r)
        PROVE  VerdictInv'
  BY <1>0, <1>21a DEF HandleChunk, relayVars, hubVars, queueVars, providerVars
<1>22. ASSUME NEW p \in Providers, HandleHeartbeat(p) PROVE VerdictInv'
  BY <1>0, <1>22 DEF HandleHeartbeat, Heartbeat, relayVars, hubVars, queueVars, providerVars
<1>23. ASSUME NEW p \in Providers, ConnectProvider(p) PROVE VerdictInv'
  BY <1>0, <1>23 DEF ConnectProvider, Register, relayVars, hubVars, queueVars, providerVars
<1>24. ASSUME NEW p \in Providers, DropProvider(p) PROVE VerdictInv'
  BY <1>0, <1>24 DEF DropProvider, Disconnect, OrphanedRequests, relayVars, hubVars, queueVars, providerVars
<1>25. ASSUME NEW p \in Providers, ForceDisconnect(p) PROVE VerdictInv'
  BY <1>0, <1>25 DEF ForceDisconnect, Disconnect, OrphanedRequests, relayVars, hubVars, queueVars, providerVars
<1>26. ASSUME NEW p \in Providers, Quarantine(p) PROVE VerdictInv'
  BY <1>0, <1>26 DEF Quarantine, SetQuarantine, relayVars, hubVars, queueVars, providerVars
<1>27. CASE ClearPending
  BY <1>0, <1>27 DEF ClearPending, ClearQueue, relayVars, hubVars, queueVars, providerVars
<1>28. CASE TryDispatch
  BY <1>0, <1>28 DEF TryDispatch, DispatchQueued, relayVars, hubVars, queueVars, providerVars
<1>29. CASE UNCHANGED vars
  BY <1>0, <1>29 DEF vars, hubVars, queueVars, relayVars, providerVars
<1>30. QED
  BY <1>1, <1>2, <1>2a, <1>3, <1>4, <1>5, <1>6, <1>7, <1>8, <1>8a, <1>9, <1>10, <1>11, <1>11a,
     <1>12, <1>13, <1>14, <1>14a, <1>15, <1>16, <1>17, <1>18, <1>19, <1>20, <1>21, <1>21a, <1>22,
     <1>23, <1>24, <1>25, <1>26, <1>27, <1>28, <1>29
     DEF Next, Consumer, Provider

(* A handler that ends before any send succeeded refuses the request.        *)
LEMMA Refusing ==
  ASSUME TypeOK, RelayIInv, NEW r \in Requests, NEW v \in Refusals,
         pc[r] \in {"new", "queued"} \cup Sending, Finish(r, v), UNCHANGED bills
  PROVE  Contract!Refuse(r)
BY DEF Contract!Refuse, Told, Finish, TypeOK, RelayIInv, BillingInv, VerdictInv,
       Refusals, Verdict, Sending

(* A handler that relays concludes the request when its wait is over.        *)
LEMMA Concluding ==
  ASSUME TypeOK, RelayIInv, NEW r \in Requests, NEW v \in {"done", "error", "timeout"},
         pc[r] = "relaying", EndRelay(r, v)
  PROVE  Contract!Conclude(r)
BY DEF Contract!Conclude, Told, EndRelay, TypeOK, RelayIInv, VerdictInv, Refusals, Verdict

(* Every step of the relay is a step of the contract, or none.               *)
LEMMA ContractStep ==
  ASSUME TypeOK, RelayIInv, [Next]_vars
  PROVE  [Contract!Next]_(Contract!contractVars)
<1>0. /\ pc \in [Requests -> Location]
      /\ verdict \in [Requests -> Verdict]
      /\ bills \in [Requests -> Nat]
      /\ BillingInv /\ ResidueInv /\ VerdictInv
  BY DEF TypeOK, RelayIInv
<1> USE DEF Contract!Next, Contract!Refuse, Contract!Conclude, Contract!Charge, Contract!contractVars
<1>1. ASSUME NEW r \in Requests, RefuseUnfunded(r) PROVE [Contract!Next]_(Contract!contractVars)
  BY <1>0, <1>1, Refusing DEF RefuseUnfunded, Refusals, Verdict, Sending, hubVars
<1>2. ASSUME NEW r \in Requests, NEW p \in Providers, RouteDirect(r, p) PROVE [Contract!Next]_(Contract!contractVars)
  BY <1>0, <1>2 DEF RouteDirect, Told, relayVars, hubVars
<1>2a. ASSUME NEW r \in Requests, NEW p \in Providers, EncryptionFails(r, p)
       PROVE  [Contract!Next]_(Contract!contractVars)
  BY <1>0, <1>2a, Refusing DEF EncryptionFails, Refusals, Verdict, Sending
<1>3. ASSUME NEW r \in Requests, FailFast(r) PROVE [Contract!Next]_(Contract!contractVars)
  BY <1>0, <1>3, Refusing DEF FailFast, Refusals, Verdict, Sending, hubVars
<1>4. ASSUME NEW r \in Requests, Enqueue(r) PROVE [Contract!Next]_(Contract!contractVars)
  BY <1>0, <1>4 DEF Enqueue, Told, relayVars, hubVars
<1>5. ASSUME NEW r \in Requests, RefuseQueueFull(r) PROVE [Contract!Next]_(Contract!contractVars)
  BY <1>0, <1>5, Refusing DEF RefuseQueueFull, Refusals, Verdict, Sending, hubVars
<1>6. ASSUME NEW r \in Requests, QueueTimeout(r) PROVE [Contract!Next]_(Contract!contractVars)
  BY <1>0, <1>6, Refusing DEF QueueTimeout, Refusals, Verdict, Sending, hubVars
<1>7. ASSUME NEW r \in Requests, ResumeCleared(r) PROVE [Contract!Next]_(Contract!contractVars)
  BY <1>0, <1>7, Refusing DEF ResumeCleared, Refusals, Verdict, Sending, hubVars
<1>8. ASSUME NEW r \in Requests, ResumeAssigned(r) PROVE [Contract!Next]_(Contract!contractVars)
  BY <1>0, <1>8 DEF ResumeAssigned, Told, relayVars, hubVars
<1>8a. ASSUME NEW r \in Requests, AssignedEncryptionFails(r) PROVE [Contract!Next]_(Contract!contractVars)
  BY <1>0, <1>8a, Refusing DEF AssignedEncryptionFails, Refusals, Verdict, Sending
<1>9. ASSUME NEW r \in Requests, Deliver(r) PROVE [Contract!Next]_(Contract!contractVars)
  BY <1>0, <1>9 DEF Deliver, Told, relayVars, hubVars
<1>10. ASSUME NEW r \in Requests, SendCompletes(r) PROVE [Contract!Next]_(Contract!contractVars)
  BY <1>0, <1>10 DEF SendCompletes, Told, relayVars, hubVars
<1>11. ASSUME NEW r \in Requests, NEW p \in Providers, RetryElsewhere(r, p) PROVE [Contract!Next]_(Contract!contractVars)
  BY <1>0, <1>11 DEF RetryElsewhere, Told, relayVars, hubVars
<1>11a. ASSUME NEW r \in Requests, NEW p \in Providers, RetryEncryptionFails(r, p)
        PROVE  [Contract!Next]_(Contract!contractVars)
  BY <1>0, <1>11a, Refusing DEF RetryEncryptionFails, Refusals, Verdict, Sending
<1>12. ASSUME NEW r \in Requests, SendFails(r) PROVE [Contract!Next]_(Contract!contractVars)
  BY <1>0, <1>12, Refusing DEF SendFails, Refusals, Verdict, Sending, hubVars
<1>13. ASSUME NEW r \in Requests, StartBody(r) PROVE [Contract!Next]_(Contract!contractVars)
  BY <1>0, <1>13 DEF StartBody, Told, relayVars, hubVars
<1>14. ASSUME NEW r \in Requests, AbandonBody(r) PROVE [Contract!Next]_(Contract!contractVars)
  BY <1>0, <1>14 DEF AbandonBody, Told, relayVars, hubVars
<1>14a. ASSUME NEW r \in Requests, ConsumeChunk(r) PROVE [Contract!Next]_(Contract!contractVars)
  BY <1>0, <1>14a DEF ConsumeChunk, Told, relayVars
<1>15. ASSUME NEW r \in Requests, Consume(r) PROVE [Contract!Next]_(Contract!contractVars)
  BY <1>0, <1>15, Concluding DEF Consume
<1>16. ASSUME NEW r \in Requests, RelayTimeout(r) PROVE [Contract!Next]_(Contract!contractVars)
  BY <1>0, <1>16, Concluding DEF RelayTimeout
<1>17. ASSUME NEW r \in Requests, CloseStream(r) PROVE [Contract!Next]_(Contract!contractVars)
  BY <1>0, <1>17 DEF CloseStream, Told, relayVars, hubVars
<1>18. ASSUME NEW r \in Requests, CancelStream(r) PROVE [Contract!Next]_(Contract!contractVars)
  BY <1>0, <1>18 DEF CancelStream, Told, relayVars, hubVars
<1>19. ASSUME NEW p \in Providers, NEW r \in Requests, HandleDone(p, r) PROVE [Contract!Next]_(Contract!contractVars)
  <2>1. CASE callback[r] = NoProvider
    BY <1>0, <1>19, <2>1 DEF HandleDone, Settle, Told
  <2>2. CASE callback[r] # NoProvider
    <3>1. bills[r] = 0 /\ Told[r] # "refused"
      BY <1>0, <2>2 DEF BillingInv, ResidueInv, VerdictInv, Told
    <3>2. PICK charged \in {TRUE} \cup {~ChargeMayFail} : Settle(r, charged)
      BY <1>19 DEF HandleDone
    <3>3. UNCHANGED Told
      BY <1>19 DEF HandleDone, Told
    <3>4. bills' = [bills EXCEPT ![r] = 1] \/ UNCHANGED bills
      BY <1>0, <2>2, <3>1, <3>2 DEF Settle
    <3>5. QED
      BY <3>1, <3>3, <3>4
  <2>3. QED
    BY <2>1, <2>2
<1>20. ASSUME NEW p \in Providers, NEW r \in Requests, HandleError(p, r) PROVE [Contract!Next]_(Contract!contractVars)
  BY <1>0, <1>20 DEF HandleError, Told, relayVars, hubVars
<1>21. ASSUME NEW p \in Providers, NEW r \in Requests, IgnoreError(p, r) PROVE [Contract!Next]_(Contract!contractVars)
  BY <1>0, <1>21 DEF IgnoreError, Told, relayVars, hubVars
<1>21a. ASSUME NEW p \in Providers, NEW r \in Requests, HandleChunk(p, r)
        PROVE  [Contract!Next]_(Contract!contractVars)
  BY <1>0, <1>21a DEF HandleChunk, Told, relayVars
<1>22. ASSUME NEW p \in Providers, HandleHeartbeat(p) PROVE [Contract!Next]_(Contract!contractVars)
  BY <1>0, <1>22 DEF HandleHeartbeat, Heartbeat, Told, relayVars, hubVars
<1>23. ASSUME NEW p \in Providers, ConnectProvider(p) PROVE [Contract!Next]_(Contract!contractVars)
  BY <1>0, <1>23 DEF ConnectProvider, Register, Told, relayVars, hubVars
<1>24. ASSUME NEW p \in Providers, DropProvider(p) PROVE [Contract!Next]_(Contract!contractVars)
  BY <1>0, <1>24 DEF DropProvider, Disconnect, Told, relayVars, hubVars
<1>25. ASSUME NEW p \in Providers, ForceDisconnect(p) PROVE [Contract!Next]_(Contract!contractVars)
  BY <1>0, <1>25 DEF ForceDisconnect, Told, relayVars, hubVars
<1>26. ASSUME NEW p \in Providers, Quarantine(p) PROVE [Contract!Next]_(Contract!contractVars)
  BY <1>0, <1>26 DEF Quarantine, SetQuarantine, Told, relayVars, hubVars
<1>27. CASE ClearPending
  BY <1>0, <1>27 DEF ClearPending, ClearQueue, Told, relayVars, hubVars
<1>28. CASE TryDispatch
  BY <1>0, <1>28 DEF TryDispatch, DispatchQueued, Told, relayVars, hubVars
<1>29. CASE UNCHANGED vars
  BY <1>0, <1>29 DEF Told, vars, hubVars, queueVars, relayVars, providerVars
<1>30. QED
  BY <1>1, <1>2, <1>2a, <1>3, <1>4, <1>5, <1>6, <1>7, <1>8, <1>8a, <1>9, <1>10, <1>11, <1>11a,
     <1>12, <1>13, <1>14, <1>14a, <1>15, <1>16, <1>17, <1>18, <1>19, <1>20, <1>21, <1>21a, <1>22,
     <1>23, <1>24, <1>25, <1>26, <1>27, <1>28, <1>29
     DEF Next, Consumer, Provider

(* The properties that the runs check are conjuncts or consequences of       *)
(* RelayIInv, which every step preserves: those that fail to encrypt, and    *)
(* leave a response queue behind, and those that pass chunks on included.    *)
THEOREM Invariance == Spec => []RelayIInv
<1>1. Init => RelayIInv
  BY DEF Init, HubInit, RelayIInv, BillingInv, WokenInv, RelayInv, ResidueInv,
         VerdictInv, Refusals, Sending, Live, Final
<1>2. TypeOK /\ RelayIInv /\ [Next]_vars => RelayIInv'
  BY BillingStep, WokenStep, RelayStep, ResidueStep, VerdictStep DEF RelayIInv
<1>3. QED
  BY <1>1, <1>2, TypeCorrect, PTL DEF Spec

(* The relay implements ChatContract: a request is charged at most once,     *)
(* however often and however late its provider says Done, and a refused one  *)
(* never, across queueing, retries and disconnects.                          *)
THEOREM RelayImplementsContract == Spec => ImplementsContract
<1>1. Init => Contract!Init
  BY DEF Init, Contract!Init, Told
<1>2. TypeOK /\ RelayIInv /\ [Next]_vars => [Contract!Next]_(Contract!contractVars)
  BY ContractStep
<1>3. QED
  BY <1>1, <1>2, TypeCorrect, Invariance, PTL
     DEF Spec, ImplementsContract, Contract!Spec

(* Whatever providers and operators do, a consumer whose response queue does *)
(* not hold the end of its response waits for a connected provider that is   *)
(* mapped to it.                                                             *)
THEOREM NobodyStranded == Spec => []NoStrandedRelay
<1>1. RelayIInv => NoStrandedRelay
  BY DEF RelayIInv, RelayInv, NoStrandedRelay
<1>2. QED
  BY <1>1, Invariance, PTL

(* When a handler has ended the hub keeps no mapping or callback of its      *)
(* request, and later messages of the provider do not bring one back; it     *)
(* keeps a response queue only if the handler ended because it could not     *)
(* encrypt the request.                                                      *)
THEOREM NothingLeftBehind == Spec => []NoResidue
<1>1. RelayIInv => NoResidue
  BY DEF RelayIInv, ResidueInv, NoResidue
<1>2. QED
  BY <1>1, Invariance, PTL

-----------------------------------------------------------------------------
(* Billing and the history.                                                  *)

(* Only a Done completes a row, and only with a charge of the same step.     *)
LEMMA CompletedStep ==
  ASSUME TypeOK, BillingInv, CompletedIsBilled, [Next]_vars
  PROVE  CompletedIsBilled'
<1>0. /\ outcome \in [Requests -> {"none", "matched", "completed", "failed"}]
      /\ bills \in [Requests -> Nat]
      /\ BillingInv /\ CompletedIsBilled
  BY DEF TypeOK
<1> USE DEF CompletedIsBilled
<1>1. ASSUME UNCHANGED <<outcome, bills>> PROVE CompletedIsBilled'
  BY <1>0, <1>1
<1>2. ASSUME NEW rs, outcome' = Amended(rs, "failed"), UNCHANGED bills
      PROVE  CompletedIsBilled'
  BY <1>0, <1>2 DEF Amended
<1>3. ASSUME NEW r \in Requests, SendCompletes(r) PROVE CompletedIsBilled'
  BY <1>0, <1>3 DEF SendCompletes
<1>4. ASSUME NEW p \in Providers, NEW r \in Requests, HandleDone(p, r)
      PROVE  CompletedIsBilled'
  <2>1. PICK charged \in {TRUE} \cup {~ChargeMayFail} : Settle(r, charged)
    BY <1>4 DEF HandleDone
  <2>2. CASE callback[r] = NoProvider
    BY <2>1, <2>2, <1>1 DEF Settle
  <2>3. CASE callback[r] # NoProvider
    <3>1. bills[r] = 0
      BY <1>0, <2>3 DEF BillingInv
    <3>2. CASE charged = TRUE
      <4>1. Settle(r, TRUE)
        BY <2>1, <3>2
      <4>2. /\ outcome' = Amended({r}, "completed")
            /\ bills' = [bills EXCEPT ![r] = bills[r] + 1]
        BY <2>3, <4>1 DEF Settle
      <4>3. bills'[r] = 1 /\ \A s \in Requests : s # r => bills'[s] = bills[s]
        BY <1>0, <3>1, <4>2
      <4>4. \A s \in Requests : s # r => outcome'[s] = outcome[s]
        BY <1>0, <4>2 DEF Amended
      <4>5. QED
        BY <1>0, <4>3, <4>4
    <3>3. CASE charged # TRUE
      <4>1. charged = FALSE
        BY <3>3
      <4>2. Settle(r, FALSE)
        BY <2>1, <4>1
      <4>3. outcome' = Amended({r}, "failed") /\ bills' = [bills EXCEPT ![r] = bills[r]]
        BY <2>3, <4>2 DEF Settle
      <4>4. UNCHANGED bills
        BY <1>0, <4>3
      <4>5. QED
        BY <1>2, <4>3, <4>4
    <3>4. QED
      BY <3>2, <3>3
  <2>4. QED
    BY <2>2, <2>3
<1>5. ASSUME NEW p \in Providers, NEW r \in Requests, HandleError(p, r)
      PROVE  CompletedIsBilled'
  BY <1>2, <1>5 DEF HandleError
<1>6. ASSUME NEW p \in Providers, DropProvider(p) \/ ForceDisconnect(p)
      PROVE  CompletedIsBilled'
  BY <1>1, <1>2, <1>6 DEF DropProvider, ForceDisconnect, relayVars
<1>7. ASSUME NEW r \in Requests, Consumer(r), ~SendCompletes(r)
      PROVE  UNCHANGED <<outcome, bills>>
  BY <1>7 DEF Consumer, RefuseUnfunded, RouteDirect, FailFast, Enqueue,
     RefuseQueueFull, QueueTimeout, ResumeCleared, ResumeAssigned, Deliver,
     RetryElsewhere, SendFails, StartBody, AbandonBody, Consume, RelayTimeout,
     EndRelay, CloseStream, CancelStream, EncryptionFails, AssignedEncryptionFails,
     RetryEncryptionFails, ConsumeChunk, relayVars
<1>8. ASSUME NEW p \in Providers, NEW r \in Requests,
             IgnoreError(p, r) \/ HandleChunk(p, r)
      PROVE  UNCHANGED <<outcome, bills>>
  BY <1>8 DEF IgnoreError, HandleChunk, relayVars
<1>9. ASSUME NEW p \in Providers,
             HandleHeartbeat(p) \/ ConnectProvider(p) \/ Quarantine(p)
      PROVE  UNCHANGED <<outcome, bills>>
  BY <1>9 DEF HandleHeartbeat, ConnectProvider, Quarantine, relayVars
<1>10. ASSUME ClearPending \/ TryDispatch \/ UNCHANGED vars
       PROVE  UNCHANGED <<outcome, bills>>
  BY <1>10 DEF ClearPending, TryDispatch, relayVars, vars
<1>11. QED
  BY <1>1, <1>3, <1>4, <1>5, <1>6, <1>7, <1>8, <1>9, <1>10 DEF Next, Provider

(* A row says completed only if its consumer was charged, once.              *)
THEOREM CompletedBilled == Spec => []CompletedIsBilled
<1>1. Init => CompletedIsBilled
  BY DEF Init, CompletedIsBilled
<1>2. TypeOK /\ RelayIInv /\ CompletedIsBilled /\ [Next]_vars => CompletedIsBilled'
  BY CompletedStep DEF RelayIInv
<1>3. QED
  BY <1>1, <1>2, TypeCorrect, Invariance, PTL DEF Spec

(* No relay waits in vain, nothing is left of one that ended but the queue   *)
(* of a request that could not be encrypted, and the history agrees with the *)
(* charges.                                                                  *)
THEOREM NothingLost == Spec => []NothingIsLost
BY TypeCorrect, NobodyStranded, NothingLeftBehind, CompletedBilled, PTL
   DEF NothingIsLost

-----------------------------------------------------------------------------
(* The queue.                                                                *)

(* Removing a position moves up what is behind it and keeps the rest.        *)
AllButOne(s, i, left) ==
  /\ Len(left) = Len(s) - 1
  /\ \A k \in 1..(Len(s) - 1) : left[k] = IF k < i THEN s[k] ELSE s[k + 1]

LEMMA WithoutElements ==
  ASSUME NEW S, NEW s \in Seq(S), NEW i \in DOMAIN s
  PROVE  RemoveAt(s, i) \in Seq(S) /\ AllButOne(s, i, RemoveAt(s, i))
<1> DEFINE front == SubSeq(s, 1, i - 1)
           back  == SubSeq(s, i + 1, Len(s))
           both  == front \o back
<1>1. i \in 1..Len(s) /\ Len(s) \in Nat
  OBVIOUS
<1>2. /\ front \in Seq(S) /\ Len(front) = i - 1
      /\ \A k \in 1..(i - 1) : front[k] = s[k]
  BY <1>1, SubSeqProperties
<1>3. /\ back \in Seq(S) /\ Len(back) = Len(s) - i
      /\ \A k \in 1..(Len(s) - i) : back[k] = s[i + k]
  BY <1>1, SubSeqProperties
<1>4. RemoveAt(s, i) = front \o back
  BY DEF RemoveAt
<1> HIDE DEF front, back
<1>5. /\ both \in Seq(S)
      /\ Len(both) = Len(s) - 1
      /\ \A k \in 1..(Len(s) - 1) :
           both[k] = IF k < i THEN front[k] ELSE back[k - (i - 1)]
  <2>1. /\ front \o back \in Seq(S) /\ Len(front \o back) = Len(front) + Len(back)
        /\ \A k \in 1..(Len(front) + Len(back)) :
             (front \o back)[k] = IF k <= Len(front) THEN front[k] ELSE back[k - Len(front)]
    <3>1. front \in Seq(S) /\ back \in Seq(S)
      BY <1>2, <1>3
    <3>2. QED
      BY <3>1, ConcatProperties
  <2>2. /\ both \in Seq(S) /\ Len(both) = (i - 1) + (Len(s) - i)
        /\ \A k \in 1..((i - 1) + (Len(s) - i)) :
             both[k] = IF k <= i - 1 THEN front[k] ELSE back[k - (i - 1)]
    BY <1>2, <1>3, <2>1
  <2> HIDE DEF both
  <2>3. (i - 1) + (Len(s) - i) = Len(s) - 1
    BY <1>1
  <2>4. \A k \in 1..(Len(s) - 1) : k <= i - 1 <=> k < i
    BY <1>1
  <2>5. QED
    BY <2>2, <2>3, <2>4
<1>6. ASSUME NEW k \in 1..(Len(s) - 1)
      PROVE  RemoveAt(s, i)[k] = IF k < i THEN s[k] ELSE s[k + 1]
  <2>1. CASE k < i
    BY <1>1, <1>2, <1>4, <1>5, <2>1
  <2>2. CASE ~(k < i)
    <3>1. k - (i - 1) \in 1..(Len(s) - i) /\ i + (k - (i - 1)) = k + 1
      BY <1>1, <2>2
    <3>2. back[k - (i - 1)] = s[k + 1]
      BY <1>3, <3>1
    <3>3. QED
      BY <1>4, <1>5, <2>2, <3>2
  <2>3. QED
    BY <2>1, <2>2
<1>7. QED
  BY <1>4, <1>5, <1>6 DEF AllButOne

InQueue(r) == \E i \in DOMAIN pending : pending[i] = r

(* The inductive invariant of the queue: a request is in it once, unwoken    *)
(* and not on its way, or it is woken; only the woken are assigned or        *)
(* cleared, and the cleared are not assigned.                                *)
QueueInv ==
  /\ Len(pending) <= QueueMaxDepth
  /\ \A i, j \in DOMAIN pending : pending[i] = pending[j] => i = j
  /\ \A r \in Requests :
       /\ InQueue(r) => r \notin woken /\ pc[r] \in {"queued", "finished"}
       /\ pc[r] = "queued" => InQueue(r) \/ r \in woken
       /\ pc[r] = "new" => r \notin woken
       /\ r \notin woken => assigned[r] = NoProvider /\ r \notin cleared
       /\ r \in cleared => assigned[r] = NoProvider /\ pc[r] \in {"queued", "finished"}

(* How a step that leaves the queue alone may move a request.                *)
Moves(r) ==
  \/ pc'[r] = pc[r]
  \/ pc'[r] = "finished"
  \/ pc[r] \notin {"queued", "finished"} /\ pc'[r] \notin {"new", "queued"}
  \/ pc'[r] = "sendingLast" /\ r \in woken /\ r \notin cleared

LEMMA QueueKept ==
  ASSUME QueueInv, UNCHANGED queueVars, \A r \in Requests : Moves(r)
  PROVE  QueueInv'
BY DEF QueueInv, InQueue, Moves, queueVars

(* Consumers' steps other than Enqueue leave the queue alone.                *)
LEMMA ConsumerMoves ==
  ASSUME TypeOK, NEW r \in Requests, Consumer(r), ~Enqueue(r)
  PROVE  UNCHANGED queueVars /\ \A s \in Requests : Moves(s)
<1>0. pc \in [Requests -> Location]
  BY DEF TypeOK
<1> USE <1>0 DEF Moves, hubVars, queueVars, relayVars
<1>1. CASE RefuseUnfunded(r) \/ FailFast(r) \/ RefuseQueueFull(r)
  BY <1>1 DEF RefuseUnfunded, FailFast, RefuseQueueFull, Finish
<1>2. CASE QueueTimeout(r) \/ ResumeCleared(r)
  BY <1>2 DEF QueueTimeout, ResumeCleared, Finish
<1>3. CASE \E p \in Providers : RouteDirect(r, p) \/ EncryptionFails(r, p)
  BY <1>3 DEF RouteDirect, EncryptionFails, Finish
<1>4. CASE ResumeAssigned(r) \/ AssignedEncryptionFails(r)
  BY <1>4 DEF ResumeAssigned, AssignedEncryptionFails, Finish
<1>5. CASE Deliver(r)
  BY <1>5 DEF Deliver
<1>6. CASE SendCompletes(r)
  BY <1>6 DEF SendCompletes, Sending
<1>7. CASE \E p \in Providers : RetryElsewhere(r, p) \/ RetryEncryptionFails(r, p)
  BY <1>7 DEF RetryElsewhere, RetryEncryptionFails, Finish
<1>8. CASE SendFails(r)
  BY <1>8 DEF SendFails, Finish
<1>9. CASE StartBody(r) \/ AbandonBody(r)
  BY <1>9 DEF StartBody, AbandonBody
<1>10. CASE ConsumeChunk(r) \/ Consume(r) \/ RelayTimeout(r)
  BY <1>10 DEF ConsumeChunk, Consume, RelayTimeout, EndRelay
<1>11. CASE CloseStream(r) \/ CancelStream(r)
  BY <1>11 DEF CloseStream, CancelStream
<1>12. QED
  BY <1>1, <1>2, <1>3, <1>4, <1>5, <1>6, <1>7, <1>8, <1>9, <1>10, <1>11 DEF Consumer

(* So do the providers' messages, their connections and the operators.       *)
LEMMA ProviderMoves ==
  ASSUME NEW p \in Providers, Provider(p)
  PROVE  UNCHANGED queueVars /\ \A s \in Requests : Moves(s)
<1> USE DEF Moves, hubVars, queueVars, relayVars
<1>1. ASSUME NEW r \in Requests, \/ HandleDone(p, r) \/ HandleError(p, r)
                                \/ IgnoreError(p, r) \/ HandleChunk(p, r)
      PROVE  UNCHANGED queueVars /\ UNCHANGED pc
  BY <1>1 DEF HandleDone, HandleError, IgnoreError, HandleChunk
<1>2. CASE HandleHeartbeat(p) \/ ConnectProvider(p) \/ Quarantine(p)
  BY <1>2 DEF HandleHeartbeat, Heartbeat, ConnectProvider, Register, Quarantine, SetQuarantine
<1>3. CASE DropProvider(p) \/ ForceDisconnect(p)
  BY <1>3 DEF DropProvider, ForceDisconnect, Disconnect
<1>4. QED
  BY <1>1, <1>2, <1>3 DEF Provider

(* A request joins at the end; it was neither there nor woken before.        *)
LEMMA EnqueueKeeps ==
  ASSUME TypeOK, QueueInv, NEW r \in Requests, Enqueue(r)
  PROVE  QueueInv'
<1>1. /\ pending \in Seq(Requests) /\ pc \in [Requests -> Location]
      /\ QueueMaxDepth \in Nat /\ Len(pending) \in Nat
  BY HubAssumption DEF TypeOK, HubTypeOK
<1>2. /\ pc[r] = "new" /\ ~InQueue(r) /\ r \notin woken
      /\ Len(pending) < QueueMaxDepth
      /\ pending' = Append(pending, r)
      /\ UNCHANGED <<assigned, woken, cleared>>
      /\ pc' = [pc EXCEPT ![r] = "queued"]
  BY DEF Enqueue, EnqueueRequest, QueueInv
<1>3. /\ Len(pending') = Len(pending) + 1
      /\ DOMAIN pending = 1..Len(pending) /\ DOMAIN pending' = 1..(Len(pending) + 1)
      /\ \A i \in 1..Len(pending) : pending'[i] = pending[i]
      /\ pending'[Len(pending) + 1] = r
  BY <1>1, <1>2, AppendProperties
<1>4. \A s \in Requests : InQueue(s)' <=> InQueue(s) \/ s = r
  <2>1. \A k : k \in 1..(Len(pending) + 1) <=> k \in 1..Len(pending) \/ k = Len(pending) + 1
    BY <1>1
  <2> DEFINE last == Len(pending) + 1
  <2> HIDE DEF last
  <2>2. QED
    BY <1>3, <2>1 DEF InQueue, last
<1>5. Len(pending') <= QueueMaxDepth
  BY <1>1, <1>2, <1>3
<1>6. ASSUME NEW i \in DOMAIN pending', NEW j \in DOMAIN pending',
             pending'[i] = pending'[j]
      PROVE  i = j
  <2>1. \A k \in 1..Len(pending) : pending[k] # r
    BY <1>2, <1>3 DEF InQueue
  <2>2. \A k, l \in 1..Len(pending) : pending[k] = pending[l] => k = l
    BY <1>3 DEF QueueInv
  <2>3. i \in 1..Len(pending) \/ i = Len(pending) + 1
    BY <1>1, <1>3, <1>6
  <2>4. j \in 1..Len(pending) \/ j = Len(pending) + 1
    BY <1>1, <1>3, <1>6
  <2>5. pending'[i] = pending'[j]
    BY <1>6
  <2>6. QED
    BY <1>3, <2>1, <2>2, <2>3, <2>4, <2>5
<1>7. ASSUME NEW s \in Requests
      PROVE  /\ InQueue(s)' => s \notin woken' /\ pc'[s] \in {"queued", "finished"}
             /\ pc'[s] = "queued" => InQueue(s)' \/ s \in woken'
             /\ pc'[s] = "new" => s \notin woken'
             /\ s \notin woken' => assigned'[s] = NoProvider /\ s \notin cleared'
             /\ s \in cleared' => assigned'[s] = NoProvider /\ pc'[s] \in {"queued", "finished"}
  BY <1>1, <1>2, <1>4 DEF QueueInv
<1>8. QED
  BY <1>5, <1>6, <1>7 DEF QueueInv

(* All that are drained are woken and cleared at once.                       *)
LEMMA ClearKeeps ==
  ASSUME TypeOK, QueueInv, ClearPending
  PROVE  QueueInv'
<1>1. pending \in Seq(Requests) /\ QueueMaxDepth \in Nat
  BY HubAssumption DEF TypeOK, HubTypeOK
<1>2. /\ pending' = <<>> /\ UNCHANGED <<assigned, pc>>
      /\ cleared' = cleared \cup {pending[i] : i \in DOMAIN pending}
      /\ woken' = woken \cup {pending[i] : i \in DOMAIN pending}
  BY DEF ClearPending, ClearQueue, relayVars
<1>3. \A s : s \in {pending[i] : i \in DOMAIN pending} <=> InQueue(s)
  BY DEF InQueue
<1>4. Len(pending') = 0 /\ DOMAIN pending' = {} /\ \A s : ~InQueue(s)'
  BY <1>2 DEF InQueue
<1>5. QED
  BY <1>1, <1>2, <1>3, <1>4 DEF QueueInv

(* The one that is handed a provider leaves and is woken; it was unwoken and *)
(* therefore not cleared.                                                    *)
LEMMA DispatchKeeps ==
  ASSUME TypeOK, QueueInv, NEW i \in DOMAIN pending, NEW p \in Providers,
         DispatchTo(i, p), UNCHANGED relayVars
  PROVE  QueueInv'
<1>1. /\ pending \in Seq(Requests) /\ assigned \in [Requests -> ProviderOrNone]
      /\ QueueMaxDepth \in Nat /\ Len(pending) \in Nat
      /\ DOMAIN pending = 1..Len(pending) /\ i \in 1..Len(pending)
  <2>1. pending \in Seq(Requests)
    BY DEF TypeOK, HubTypeOK
  <2>2. assigned \in [Requests -> ProviderOrNone] /\ QueueMaxDepth \in Nat
    BY HubAssumption DEF TypeOK, HubTypeOK
  <2>3. Len(pending) \in Nat /\ DOMAIN pending = 1..Len(pending)
    BY <2>1
  <2>4. QED
    BY <2>1, <2>2, <2>3
<1> DEFINE r == pending[i]
<1>2. r \in Requests /\ InQueue(r) /\ r \notin woken /\ r \notin cleared
  BY <1>1 DEF QueueInv, InQueue
<1>3. /\ pending' = RemoveAt(pending, i) /\ woken' = woken \cup {r}
      /\ assigned' = [assigned EXCEPT ![r] = p]
      /\ UNCHANGED <<cleared, pc>>
  BY DEF DispatchTo, relayVars
<1>4. /\ pending' \in Seq(Requests)
      /\ Len(pending') = Len(pending) - 1
      /\ \A k \in 1..(Len(pending) - 1) :
           pending'[k] = IF k < i THEN pending[k] ELSE pending[k + 1]
  <2>1. RemoveAt(pending, i) \in Seq(Requests) /\ AllButOne(pending, i, RemoveAt(pending, i))
    BY <1>1, WithoutElements
  <2>2. QED
    BY <1>3, <2>1 DEF AllButOne
<1>5. DOMAIN pending' = 1..(Len(pending) - 1)
  BY <1>1, <1>4
<1> HIDE HubAssumption, RelayAssumption
<1>6. \A k, l \in 1..Len(pending) : pending[k] = pending[l] => k = l
  BY <1>1 DEF QueueInv
<1>7. ASSUME NEW s \in Requests PROVE InQueue(s)' <=> InQueue(s) /\ s # r
  <2>1. ASSUME NEW k \in DOMAIN pending', pending'[k] = s PROVE InQueue(s) /\ s # r
    <3>1. CASE k < i
      <4>1. k \in 1..Len(pending) /\ pending[k] = s /\ k # i
        BY <1>1, <1>4, <1>5, <2>1, <3>1
      <4>2. QED
        BY <1>1, <1>6, <4>1 DEF InQueue
    <3>2. CASE ~(k < i)
      <4>1. k + 1 \in 1..Len(pending) /\ pending[k + 1] = s /\ k + 1 # i
        BY <1>1, <1>4, <1>5, <2>1, <3>2
      <4>2. QED
        BY <1>1, <1>6, <4>1 DEF InQueue
    <3>3. QED
      BY <3>1, <3>2
  <2>2. ASSUME NEW k \in DOMAIN pending, pending[k] = s, s # r PROVE InQueue(s)'
    <3>1. CASE k < i
      <4>1. k \in DOMAIN pending' /\ pending'[k] = s
        BY <1>1, <1>4, <1>5, <2>2, <3>1
      <4>2. QED
        BY <4>1 DEF InQueue
    <3>2. CASE ~(k < i)
      <4>1. k # i
        BY <2>2
      <4>2. k - 1 \in 1..(Len(pending) - 1) /\ ~(k - 1 < i) /\ (k - 1) + 1 = k
        BY <1>1, <3>2, <4>1
      <4>3. pending'[k - 1] = s
        BY <1>4, <2>2, <4>2
      <4>4. QED
        BY <1>5, <4>2, <4>3 DEF InQueue
    <3>3. QED
      BY <3>1, <3>2
  <2>3. QED
    BY <2>1, <2>2 DEF InQueue
<1>8. Len(pending') <= QueueMaxDepth
  BY <1>1, <1>4 DEF QueueInv
<1>9. ASSUME NEW k \in DOMAIN pending', NEW l \in DOMAIN pending',
             pending'[k] = pending'[l]
      PROVE  k = l
  <2>1. /\ k \in 1..(Len(pending) - 1) /\ l \in 1..(Len(pending) - 1)
        /\ (IF k < i THEN pending[k] ELSE pending[k + 1])
             = (IF l < i THEN pending[l] ELSE pending[l + 1])
    BY <1>4, <1>5, <1>9
  <2>2. QED
    BY <1>1, <1>6, <2>1
<1> HIDE DEF r
<1>10. ASSUME NEW s \in Requests
       PROVE  /\ InQueue(s)' => s \notin woken' /\ pc'[s] \in {"queued", "finished"}
              /\ pc'[s] = "queued" => InQueue(s)' \/ s \in woken'
              /\ pc'[s] = "new" => s \notin woken'
              /\ s \notin woken' => assigned'[s] = NoProvider /\ s \notin cleared'
              /\ s \in cleared' => assigned'[s] = NoProvider /\ pc'[s] \in {"queued", "finished"}
  BY <1>1, <1>2, <1>3, <1>7, <1>10 DEF QueueInv
<1>11. QED
  BY <1>8, <1>9, <1>10 DEF QueueInv

LEMMA QueueStep ==
  ASSUME TypeOK, QueueInv, [Next]_vars
  PROVE  QueueInv'
<1>1. ASSUME NEW r \in Requests, Consumer(r) PROVE QueueInv'
  BY <1>1, ConsumerMoves, QueueKept, EnqueueKeeps
<1>2. ASSUME NEW p \in Providers, Provider(p) PROVE QueueInv'
  BY <1>2, ProviderMoves, QueueKept
<1>3. CASE TryDispatch
  <2>1. CASE DispatchNone /\ UNCHANGED relayVars
    BY <2>1, QueueKept DEF DispatchNone, relayVars, Moves
  <2>2. ASSUME NEW i \in DOMAIN pending, NEW p \in Providers,
               DispatchTo(i, p), UNCHANGED relayVars
        PROVE  QueueInv'
    BY <2>2, DispatchKeeps
  <2>3. QED
    BY <1>3, <2>1, <2>2, DispatchInOrder DEF TryDispatch
<1>4. CASE UNCHANGED vars
  <2>1. UNCHANGED queueVars /\ UNCHANGED pc
    BY <1>4 DEF vars, hubVars, queueVars, relayVars
  <2>2. QED
    BY <2>1, QueueKept DEF Moves
<1>5. QED
  BY <1>1, <1>2, <1>3, <1>4, ClearKeeps DEF Next

LEMMA QueueInvariance == Spec => []QueueInv
<1>1. Init => QueueInv
  BY HubAssumption DEF Init, HubInit, QueueInv, InQueue
<1>2. QED
  BY <1>1, QueueStep, TypeCorrect, PTL DEF Spec

(* Whoever waits in the queue is in it, once, or has been woken, and the     *)
(* queue keeps its depth (ROUTE-005).                                        *)
THEOREM NobodyLost == Spec => []NoLostWaiter
<1>1. ASSUME TypeOK, QueueInv PROVE NoLostWaiter
  <2>1. ASSUME NEW r \in Requests
        PROVE  Cardinality({i \in DOMAIN pending : pending[i] = r}) = 0 <=> ~InQueue(r)
    <3> DEFINE places == {i \in DOMAIN pending : pending[i] = r}
    <3>1. DOMAIN pending = 1..Len(pending) /\ Len(pending) \in Nat
      BY <1>1 DEF TypeOK, HubTypeOK
    <3>2. IsFiniteSet(places)
      <4>1. IsFiniteSet(1..Len(pending)) /\ places \subseteq 1..Len(pending)
        BY <3>1, FS_Interval
      <4>2. QED
        BY <4>1, FS_Subset
    <3>3. Cardinality(places) = 0 <=> places = {}
      BY <3>2, FS_EmptySet
    <3>4. QED
      BY <3>3 DEF InQueue
  <2>2. QED
    BY <1>1, <2>1 DEF QueueInv, NoLostWaiter
<1>2. QED
  BY <1>1, QueueInvariance, TypeCorrect, PTL

(* What an operator cleared is never served (OPS-010).                       *)
THEOREM ClearedNeverServed == Spec => []ClearedIsNeverServed
<1>1. TypeOK /\ QueueInv => ClearedIsNeverServed
  BY DEF TypeOK, HubTypeOK, QueueInv, ClearedIsNeverServed
<1>2. QED
  BY <1>1, QueueInvariance, TypeCorrect, PTL

(* Only the dispatch loop takes a scheduled dispatch away.                   *)
LEMMA DispatchesStay ==
  ASSUME TypeOK,
         \/ \E r \in Requests : Consumer(r)
         \/ \E p \in Providers : Provider(p)
         \/ ClearPending
         \/ UNCHANGED vars
  PROVE  ~(dispatches' < dispatches)
<1>1. dispatches \in Nat
  BY DEF TypeOK, HubTypeOK
<1> SUFFICES dispatches' = dispatches \/ dispatches' = dispatches + 1
  BY <1>1
<1> USE DEF hubVars
<1>2. ASSUME NEW r \in Requests, Consumer(r) PROVE UNCHANGED dispatches
  BY <1>2 DEF Consumer, RefuseUnfunded, RouteDirect, FailFast, Enqueue,
     RefuseQueueFull, QueueTimeout, ResumeCleared, ResumeAssigned, Deliver, SendCompletes,
     RetryElsewhere, SendFails, StartBody, AbandonBody, Consume, RelayTimeout,
     EndRelay, CloseStream, CancelStream, EncryptionFails, AssignedEncryptionFails,
     RetryEncryptionFails, ConsumeChunk
<1>3. ASSUME NEW p \in Providers, Provider(p)
      PROVE  dispatches' = dispatches \/ dispatches' = dispatches + 1
  BY <1>3 DEF Provider, HandleDone, HandleError, IgnoreError, HandleChunk, HandleHeartbeat,
     Heartbeat, ConnectProvider, Register, DropProvider, ForceDisconnect, Disconnect,
     Quarantine, SetQuarantine
<1>4. QED
  BY <1>2, <1>3 DEF ClearPending, ClearQueue, vars

(* A dispatch passes over nobody that could be served, wakes only the one it *)
(* has a provider for, and leaves the others in the queue, in order.         *)
THEOREM DispatchIsFifo == Spec => FifoDispatch
<1> DEFINE First(r) ==
             /\ assigned'[r] \in Selectable(r, active)
             /\ \E i \in DOMAIN pending :
                  /\ pending[i] = r
                  /\ \A j \in 1..(i - 1) : Selectable(pending[j], active) = {}
                  /\ pending' = RemoveAt(pending, i)
           Nobody ==
             /\ \A i \in DOMAIN pending : Selectable(pending[i], active) = {}
             /\ pending' = pending
           Fifo == /\ \A r \in (woken' \ woken) \ cleared' : First(r)
                   /\ dispatches' < dispatches /\ woken' = woken => Nobody
<1>1. ASSUME TypeOK, QueueInv, [Next]_vars PROVE Fifo
  <2> HIDE DEF First, Nobody
  <2>1. ASSUME woken' \subseteq woken \cup cleared', ~(dispatches' < dispatches) PROVE Fifo
    BY <2>1
  <2>2. ASSUME NEW r \in Requests, Consumer(r) PROVE Fifo
    <3>1. CASE Enqueue(r)
      BY <1>1, <2>1, <2>2, <3>1, DispatchesStay DEF Enqueue, EnqueueRequest
    <3>2. CASE ~Enqueue(r)
      BY <1>1, <2>1, <2>2, <3>2, ConsumerMoves, DispatchesStay DEF queueVars
    <3>3. QED
      BY <3>1, <3>2
  <2>3. ASSUME NEW p \in Providers, Provider(p) PROVE Fifo
    BY <1>1, <2>1, <2>3, ProviderMoves, DispatchesStay DEF queueVars
  <2>4. ASSUME NEW k \in DOMAIN pending, NEW p \in Providers, DispatchTo(k, p)
        PROVE  Fifo
    <3> DEFINE q == pending[k]
    <3>1. /\ woken' = woken \cup {q}
          /\ assigned' = [assigned EXCEPT ![q] = p]
          /\ pending' = RemoveAt(pending, k)
          /\ p \in Selectable(q, active)
          /\ \A j \in 1..(k - 1) : Selectable(pending[j], active) = {}
      BY <2>4 DEF DispatchTo, Dispatchable
    <3>2. q \in Requests /\ assigned \in [Requests -> ProviderOrNone]
      BY <1>1 DEF TypeOK, HubTypeOK
    <3>3. q \notin woken
      BY <1>1, <3>2 DEF QueueInv, InQueue
    <3>4. First(q)
      BY <3>1, <3>2 DEF First
    <3> HIDE DEF q
    <3>5. QED
      BY <3>1, <3>3, <3>4
  <2>5. CASE DispatchNone
    <3>1. Nobody
      BY <2>5 DEF DispatchNone, queueVars, Nobody
    <3>2. woken' = woken
      BY <2>5 DEF DispatchNone, queueVars
    <3>3. QED
      BY <3>1, <3>2
  <2>6. CASE TryDispatch
    <3> HIDE DEF Fifo
    <3>1. QED
      BY <1>1, <2>4, <2>5, <2>6, DispatchInOrder DEF TryDispatch
  <2>7. CASE ClearPending
    <3>1. woken' \subseteq woken \cup cleared'
      BY <2>7 DEF ClearPending, ClearQueue
    <3>2. QED
      BY <1>1, <2>1, <2>7, <3>1, DispatchesStay
  <2>8. CASE UNCHANGED vars
    <3>1. woken' \subseteq woken \cup cleared'
      BY <2>8 DEF vars, hubVars
    <3>2. QED
      BY <1>1, <2>1, <2>8, <3>1, DispatchesStay
  <2> HIDE DEF Fifo
  <2>9. QED
    BY <1>1, <2>2, <2>3, <2>6, <2>7, <2>8 DEF Next
<1>2. QED
  BY <1>1, QueueInvariance, TypeCorrect, PTL DEF Spec, FifoDispatch

-----------------------------------------------------------------------------
(***************************************************************************)
(* The confidential relay.  A step that a confidential request shares with *)
(* the chat relay is a step of InferenceRelay, whose lemmas apply; only    *)
(* the steps of its own are left to look at.                               *)
(***************************************************************************)

USE ConfidentialAssumption DEF Chat

(* The steps that only the confidential relay takes.                         *)
Own ==
  \E r \in Confidential :
    \/ \E p \in Providers : RouteConfidential(r, p) \/ HandleFinish(p, r)
    \/ NoProviderAvailable(r)
    \/ ConfidentialSent(r)
    \/ Collect(r)
    \/ SettleStream(r)

LEMMA SharedOrOwn ==
  ASSUME [ConfidentialNext]_vars
  PROVE  Own \/ [Next]_vars
BY DEF ConfidentialNext, ConfidentialConsumer, StreamWaits, Own, Next, Consumer, Provider

(* What a collected response ends with.                                      *)
LEMMA CollectCases ==
  ASSUME NEW r \in Requests, Collect(r)
  PROVE  \E v \in Concluded : CollectEnds(r, v)
BY DEF Collect, Concluded

LEMMA OwnTypeStep ==
  ASSUME TypeOK, Own
  PROVE  TypeOK'
<1> USE DEF TypeOK, HubTypeOK, LinkState, ProviderOrNone, Location, Sending, Live,
            Final, Verdict, providerVars, queueVars, hubVars, relayVars
<1>1. ASSUME NEW r \in Confidential, NEW p \in Providers, RouteConfidential(r, p)
      PROVE  TypeOK'
  <2>1. /\ open' \in SUBSET Requests
        /\ responses' \in [Requests -> Seq(Message)]
        /\ active' \in [Providers -> Nat]
        /\ routedTo' \in [Requests -> ProviderOrNone]
    BY <1>1, BeginSendType DEF RouteConfidential
  <2>2. QED
    BY <1>1, <2>1 DEF RouteConfidential
<1>2. ASSUME NEW r \in Confidential, NEW p \in Providers, HandleFinish(p, r)
      PROVE  TypeOK'
  <2>1. responses' \in [Requests -> Seq(Message)]
    BY <1>2, DepositType DEF HandleFinish, Message, Served
  <2>2. link' \in [Providers -> LinkState]
    BY <1>2 DEF HandleFinish, Heard
  <2>3. QED
    BY <1>2, <2>1, <2>2 DEF HandleFinish
<1>3. ASSUME NEW r \in Confidential, NoProviderAvailable(r) PROVE TypeOK'
  BY <1>3 DEF NoProviderAvailable, Finish
<1>4. ASSUME NEW r \in Confidential, ConfidentialSent(r) PROVE TypeOK'
  BY <1>4 DEF ConfidentialSent
<1>5. ASSUME NEW r \in Confidential, NEW v \in Concluded,
             CollectEnds(r, v)
      PROVE  TypeOK'
  <2>1. /\ open' \in SUBSET Requests
        /\ responses' \in [Requests -> Seq(Message)]
        /\ routedTo' \in [Requests -> ProviderOrNone]
        /\ callback' \in [Requests -> ProviderOrNone]
    BY <1>5, RemoveResponseQueueType DEF CollectEnds
  <2>2. bills' \in [Requests -> Nat]
    BY <1>5 DEF CollectEnds
  <2>3. QED
    BY <1>5, <2>1, <2>2 DEF CollectEnds, Finish, Concluded
<1>6. ASSUME NEW r \in Confidential, SettleStream(r) PROVE TypeOK'
  <2>1. /\ open' \in SUBSET Requests
        /\ responses' \in [Requests -> Seq(Message)]
        /\ routedTo' \in [Requests -> ProviderOrNone]
        /\ callback' \in [Requests -> ProviderOrNone]
    BY <1>6, RemoveResponseQueueType DEF SettleStream
  <2>2. bills' \in [Requests -> Nat]
    BY <1>6 DEF SettleStream
  <2>3. QED
    BY <1>6, <2>1, <2>2 DEF SettleStream
<1> HIDE DEF TypeOK
<1>7. QED
  BY <1>1, <1>2, <1>3, <1>4, <1>5, <1>6, CollectCases DEF Own

(* Types of the relay with both kinds of requests.                           *)
THEOREM ConfidentialTypeCorrect == ConfidentialSpec => []TypeOK
<1>1. Init => TypeOK
  BY DEF Init, HubInit, TypeOK, HubTypeOK, LinkState, Message, ProviderOrNone,
         Location, Verdict
<1>2. TypeOK /\ [ConfidentialNext]_vars => TypeOK'
  BY SharedOrOwn, OwnTypeStep, TypeStep
<1>3. QED
  BY <1>1, <1>2, PTL DEF ConfidentialSpec

-----------------------------------------------------------------------------
(* The steps of its own keep what the chat relay relies on.                  *)
LEMMA OwnRelayStep ==
  ASSUME TypeOK, ConfidentialIInv, Own
  PROVE  RelayIInv'
<1>0. /\ pc \in [Requests -> Location]
      /\ target \in [Requests -> ProviderOrNone]
      /\ responses \in [Requests -> Seq(Message)]
      /\ routedTo \in [Requests -> ProviderOrNone]
      /\ callback \in [Requests -> ProviderOrNone]
      /\ link \in [Providers -> LinkState]
      /\ open \in SUBSET Requests
      /\ verdict \in [Requests -> Verdict]
      /\ bills \in [Requests -> Nat]
      /\ NoProvider \notin Providers
      /\ \A q \in Requests : responses'[q] = responses[q] => (EndArrived(q)' <=> EndArrived(q))
  BY HubAssumption DEF TypeOK, HubTypeOK, EndArrived
<1> USE DEF ConfidentialIInv, RelayIInv, BillingInv, WokenInv, RelayInv, ResidueInv,
            VerdictInv, UnchargedInv, Concluded, Sending, Live, Final, ProviderOrNone,
            relayVars, hubVars, queueVars, providerVars
<1>1. ASSUME NEW r \in Confidential, NEW p \in Providers, RouteConfidential(r, p)
      PROVE  RelayIInv'
  BY <1>0, <1>1 DEF RouteConfidential, BeginSend, CreateResponseQueue, Selectable, Routable
<1>2. ASSUME NEW r \in Confidential, NEW p \in Providers, HandleFinish(p, r)
      PROVE  RelayIInv'
  <2>1. \A q \in Requests : EndArrived(q) => EndArrived(q)'
    BY <1>2, DepositKeepsMessages DEF HandleFinish, Message, Served
  <2>2. \A x \in Providers : link[x] = "up" => link'[x] = "up"
    BY <1>0, <1>2 DEF HandleFinish, Heard
  <2>3. UNCHANGED <<pc, target, received, open, routedTo, callback, verdict>>
    BY <1>2 DEF HandleFinish
  <2>4. RelayInv'
    BY <1>0, <2>1, <2>2, <2>3
  <2>5. BillingInv'
    BY <1>0, <1>2 DEF HandleFinish
  <2>6. WokenInv'
    BY <1>0, <1>2 DEF HandleFinish
  <2>7. ResidueInv'
    BY <1>0, <2>3
  <2>8. VerdictInv'
    BY <1>0, <1>2 DEF HandleFinish
  <2>9. QED
    BY <2>4, <2>5, <2>6, <2>7, <2>8
<1>3. ASSUME NEW r \in Confidential, NoProviderAvailable(r) PROVE RelayIInv'
  BY <1>0, <1>3 DEF NoProviderAvailable, Finish, Refusals, Verdict
<1>4. ASSUME NEW r \in Confidential, ConfidentialSent(r) PROVE RelayIInv'
  <2>1. RelayInv'
    BY <1>0, <1>4 DEF ConfidentialSent
  <2>2. ResidueInv'
    BY <1>0, <1>4 DEF ConfidentialSent
  <2>3. BillingInv' /\ WokenInv' /\ VerdictInv'
    BY <1>0, <1>4 DEF ConfidentialSent
  <2>4. QED
    BY <2>1, <2>2, <2>3
<1>5. ASSUME NEW r \in Confidential, NEW v \in Concluded,
             CollectEnds(r, v)
      PROVE  RelayIInv'
  BY <1>0, <1>5 DEF CollectEnds, Finish, RemoveResponseQueue, Refusals, Verdict
<1>6. ASSUME NEW r \in Confidential, SettleStream(r) PROVE RelayIInv'
  BY <1>0, <1>6 DEF SettleStream, RemoveResponseQueue
<1>7. QED
  BY <1>1, <1>2, <1>3, <1>4, <1>5, <1>6, CollectCases DEF Own

-----------------------------------------------------------------------------
(* No step but the last of a confidential request charges it, and none gives *)
(* it a callback.                                                            *)
ChargeInv == UnchargedInv /\ ChargedAtTheEnd

(* If a step ends the handler it tells a refusal, and if it ends the relay of *)
(* a stream it tells its end.                                                *)
EndsUncharged(r) ==
  /\ pc'[r] = "finished" => verdict'[r] \in Refusals
  /\ pc'[r] = "closing" => verdict'[r] \in Concluded

(* A step that leaves the charges and callbacks of the confidential requests *)
(* alone and concludes none of them.                                         *)
LEMMA NothingCharged ==
  ASSUME TypeOK, ChargeInv,
         \A r \in Confidential :
           /\ bills'[r] = bills[r]
           /\ callback'[r] = NoProvider
           /\ \/ pc'[r] = pc[r] /\ verdict'[r] = verdict[r]
              \/ pc[r] # "finished" /\ EndsUncharged(r)
  PROVE  ChargeInv'
<1>1. \A r \in Confidential : r \in Requests
  OBVIOUS
<1>2. ASSUME NEW r \in Confidential, pc'[r] = pc[r] /\ verdict'[r] = verdict[r]
      PROVE  ChargeDue(r)' <=> ChargeDue(r)
  BY <1>2 DEF ChargeDue
<1>3. ASSUME NEW r \in Confidential, EndsUncharged(r)
      PROVE  ~ChargeDue(r)' /\ (pc'[r] = "closing" => verdict'[r] \in Concluded)
  BY <1>3 DEF EndsUncharged, ChargeDue, Refusals, Concluded
<1>4. ASSUME NEW r \in Confidential
      PROVE  /\ callback'[r] = NoProvider
             /\ pc'[r] # "finished" => bills'[r] = 0
             /\ pc'[r] = "closing" => verdict'[r] \in Concluded
             /\ bills'[r] \in {0, 1}
             /\ bills'[r] = 1 => ChargeDue(r)'
             /\ ChargeDue(r)' /\ ~ChargeMayFail => bills'[r] = 1
  <2>1. /\ bills[r] \in {0, 1} /\ (bills[r] = 1 => ChargeDue(r))
        /\ ChargeDue(r) /\ ~ChargeMayFail => bills[r] = 1
        /\ pc[r] # "finished" => bills[r] = 0
        /\ pc[r] = "closing" => verdict[r] \in Concluded
    BY DEF ChargeInv, UnchargedInv, ChargedAtTheEnd
  <2>2. bills'[r] = bills[r] /\ callback'[r] = NoProvider
    OBVIOUS
  <2>3. CASE pc'[r] = pc[r] /\ verdict'[r] = verdict[r]
    BY <1>2, <2>1, <2>2, <2>3
  <2>4. CASE pc[r] # "finished" /\ EndsUncharged(r)
    BY <1>3, <2>1, <2>2, <2>4
  <2>5. QED
    BY <2>3, <2>4
<1>5. QED
  BY <1>4 DEF ChargeInv, UnchargedInv, ChargedAtTheEnd

(* A handler changes nothing of the other requests.                          *)
LeavesOthers(r) ==
  \A x \in Requests \ {r} :
    /\ bills'[x] = bills[x] /\ callback'[x] = callback[x]
    /\ pc'[x] = pc[x] /\ verdict'[x] = verdict[x]

LEMMA HandlerLeavesOthers ==
  ASSUME TypeOK, NEW r \in Requests, Consumer(r)
  PROVE  LeavesOthers(r)
<1>0. /\ pc \in [Requests -> Location]
      /\ verdict \in [Requests -> Verdict]
      /\ callback \in [Requests -> ProviderOrNone]
  BY DEF TypeOK, HubTypeOK
<1> USE <1>0 DEF LeavesOthers, Finish, RemoveResponseQueue, EndRelay, BeginSend, CreateResponseQueue, hubVars,
                 queueVars, providerVars
<1>1. CASE RefuseUnfunded(r)
  BY <1>1 DEF RefuseUnfunded
<1>2. ASSUME NEW p \in Providers, RouteDirect(r, p) \/ EncryptionFails(r, p)
      PROVE  LeavesOthers(r)
  BY <1>2 DEF RouteDirect, EncryptionFails
<1>3. CASE FailFast(r)
  BY <1>3 DEF FailFast
<1>4. CASE Enqueue(r)
  BY <1>4 DEF Enqueue
<1>5. CASE RefuseQueueFull(r)
  BY <1>5 DEF RefuseQueueFull
<1>6. CASE QueueTimeout(r)
  BY <1>6 DEF QueueTimeout
<1>7. CASE ResumeCleared(r)
  BY <1>7 DEF ResumeCleared
<1>8. CASE ResumeAssigned(r) \/ AssignedEncryptionFails(r)
  BY <1>8 DEF ResumeAssigned, AssignedEncryptionFails
<1>9. CASE Deliver(r)
  BY <1>9 DEF Deliver
<1>10. CASE SendCompletes(r)
  BY <1>10 DEF SendCompletes
<1>11. ASSUME NEW p \in Providers, RetryElsewhere(r, p) \/ RetryEncryptionFails(r, p)
       PROVE  LeavesOthers(r)
  BY <1>11 DEF RetryElsewhere, RetryEncryptionFails
<1>12. CASE SendFails(r)
  BY <1>12 DEF SendFails
<1>13. CASE StartBody(r)
  BY <1>13 DEF StartBody
<1>14. CASE AbandonBody(r)
  BY <1>14 DEF AbandonBody
<1>15. CASE ConsumeChunk(r) \/ Consume(r)
  BY <1>15 DEF ConsumeChunk, Consume, relayVars
<1>16. CASE RelayTimeout(r)
  BY <1>16 DEF RelayTimeout
<1>17. CASE CloseStream(r)
  BY <1>17 DEF CloseStream
<1>18. CASE CancelStream(r)
  BY <1>18 DEF CancelStream
<1>19. QED
  BY <1>1, <1>2, <1>3, <1>4, <1>5, <1>6, <1>7, <1>8, <1>9, <1>10, <1>11,
     <1>12, <1>13, <1>14, <1>15, <1>16, <1>17, <1>18
     DEF Consumer

LEMMA ChatCharge ==
  ASSUME TypeOK, ChargeInv, NEW r \in Chat, Consumer(r)
  PROVE  ChargeInv'
<1>1. \A x \in Confidential : x \in Requests \ {r}
  OBVIOUS
<1>2. LeavesOthers(r)
  BY HandlerLeavesOthers
<1>3. QED
  BY <1>1, <1>2, NothingCharged DEF LeavesOthers, ChargeInv, UnchargedInv

(* The steps of a confidential request's handler before the response is over.*)
LEMMA ConfidentialCharge ==
  ASSUME TypeOK, ChargeInv, NEW r \in Confidential, ConfidentialConsumer(r),
         ~ Collect(r), ~ SettleStream(r)
  PROVE  ChargeInv'
<1>0. /\ pc \in [Requests -> Location]
      /\ verdict \in [Requests -> Verdict]
      /\ bills \in [Requests -> Nat]
      /\ callback \in [Requests -> ProviderOrNone]
      /\ callback[r] = NoProvider
      /\ r \in Requests
  BY DEF TypeOK, HubTypeOK, ChargeInv, UnchargedInv
<1> DEFINE Harmless ==
      /\ LeavesOthers(r)
      /\ bills' = bills
      /\ callback'[r] = NoProvider
      /\ pc[r] # "finished"
      /\ EndsUncharged(r)
<1>1. Harmless
  <2> USE <1>0 DEF LeavesOthers, Finish, RemoveResponseQueue, EndRelay, BeginSend, CreateResponseQueue,
                   hubVars, queueVars, providerVars, Sending, EndsUncharged, Refusals,
                   Verdict, Concluded
  <2>1. CASE RefuseUnfunded(r)
    BY <2>1 DEF RefuseUnfunded
  <2>2. ASSUME NEW p \in Providers, RouteConfidential(r, p) PROVE Harmless
    BY <2>2 DEF RouteConfidential
  <2>3. CASE NoProviderAvailable(r)
    BY <2>3 DEF NoProviderAvailable
  <2>4. CASE Deliver(r)
    BY <2>4 DEF Deliver
  <2>5. CASE ConfidentialSent(r)
    BY <2>5 DEF ConfidentialSent
  <2>6. CASE SendFails(r)
    BY <2>6 DEF SendFails
  <2>7. CASE StartBody(r)
    BY <2>7 DEF StartBody
  <2>8. CASE AbandonBody(r)
    BY <2>8 DEF AbandonBody
  <2>8a. CASE ConsumeChunk(r)
    BY <2>8a DEF ConsumeChunk, relayVars
  <2>9. CASE StreamWaits(r)
    BY <2>9 DEF StreamWaits, Consume, RelayTimeout
  <2>10. CASE CancelStream(r)
    BY <2>10 DEF CancelStream
  <2>11. QED
    BY <2>1, <2>2, <2>3, <2>4, <2>5, <2>6, <2>7, <2>8, <2>8a, <2>9, <2>10
       DEF ConfidentialConsumer
<1>2. QED
  BY <1>0, <1>1, NothingCharged DEF LeavesOthers, ChargeInv, UnchargedInv

(* A charge that may fail, of a request that has none yet.                   *)
LEMMA ChargedOnce ==
  ASSUME bills \in [Requests -> Nat], NEW r \in Requests, bills[r] = 0,
         NEW due \in BOOLEAN,
         \E charged \in {TRUE} \cup {~ChargeMayFail} :
           bills' = [bills EXCEPT ![r] = IF due /\ charged THEN @ + 1 ELSE @]
  PROVE  \/ due /\ bills' = [bills EXCEPT ![r] = 1]
         \/ (~due \/ ChargeMayFail) /\ bills' = bills
<1>1. PICK charged \in {TRUE} \cup {~ChargeMayFail} :
        bills' = [bills EXCEPT ![r] = IF due /\ charged THEN @ + 1 ELSE @]
  OBVIOUS
<1>2. CASE due /\ charged
  <2>1. bills' = [bills EXCEPT ![r] = bills[r] + 1]
    BY <1>1, <1>2
  <2>2. due
    BY <1>2
  <2>3. bills' = [bills EXCEPT ![r] = 1]
    <3>1. bills[r] + 1 = 1
      OBVIOUS
    <3>2. QED
      BY <2>1, <3>1
  <2>4. QED
    BY <2>2, <2>3
<1>3. CASE ~(due /\ charged)
  <2>1. bills' = bills
    <3>1. bills' = [bills EXCEPT ![r] = bills[r]]
      BY <1>1, <1>3
    <3>2. QED
      BY <3>1
  <2>2. charged \/ ChargeMayFail
    <3>1. CASE charged = TRUE
      BY <3>1
    <3>2. CASE charged = ~ChargeMayFail
      <4>1. CASE ChargeMayFail = TRUE
        BY <4>1
      <4>2. CASE ChargeMayFail = FALSE
        BY <3>2, <4>2
      <4>3. QED
        BY <4>1, <4>2, RelayAssumption
    <3>3. QED
      BY <3>1, <3>2
  <2>3. QED
    BY <1>3, <2>1, <2>2
<1>4. QED
  BY <1>2, <1>3

(* The end of the response: the charge comes with it.                        *)
LEMMA FinalCharge ==
  ASSUME TypeOK, ChargeInv, NEW r \in Confidential, Collect(r) \/ SettleStream(r)
  PROVE  ChargeInv'
<1>0. /\ pc \in [Requests -> Location]
      /\ verdict \in [Requests -> Verdict]
      /\ bills \in [Requests -> Nat]
      /\ callback \in [Requests -> ProviderOrNone]
      /\ r \in Requests
  BY DEF TypeOK, HubTypeOK
<1> USE <1>0 DEF ChargeInv, UnchargedInv, ChargedAtTheEnd, ChargeDue, RemoveResponseQueue
<1>1. CASE Collect(r)
  <2>1. PICK v \in Concluded : CollectEnds(r, v)
    BY <1>1, CollectCases
  <2>2. bills[r] = 0
    BY <2>1 DEF CollectEnds
  <2>3. \/ v = "done" /\ bills' = [bills EXCEPT ![r] = 1]
        \/ (v # "done" \/ ChargeMayFail) /\ bills' = bills
    BY <2>1, <2>2, ChargedOnce DEF CollectEnds, ChargesCollected
  <2>4. QED
    BY <2>1, <2>2, <2>3 DEF CollectEnds, Finish
<1>2. CASE SettleStream(r)
  <2>1. bills[r] = 0 /\ r \in Streamed
    BY <1>2 DEF SettleStream
  <2>2. \/ bills' = [bills EXCEPT ![r] = 1]
        \/ ChargeMayFail /\ bills' = bills
    BY <1>2, <2>1, ChargedOnce DEF SettleStream
  <2>3. QED
    BY <1>2, <2>1, <2>2 DEF SettleStream
<1>3. QED
  BY <1>1, <1>2

(* A provider's message never charges a confidential request: it finds no    *)
(* callback.                                                                 *)
LEMMA ProviderCharge ==
  ASSUME TypeOK, ChargeInv,
         \/ \E p \in Providers : Provider(p)
         \/ \E p \in Providers, r \in Confidential : HandleFinish(p, r)
         \/ ClearPending
         \/ TryDispatch
  PROVE  ChargeInv'
<1>0. /\ bills \in [Requests -> Nat]
      /\ callback \in [Requests -> ProviderOrNone]
      /\ \A x \in Confidential : x \in Requests /\ callback[x] = NoProvider
  BY DEF TypeOK, HubTypeOK, ChargeInv, UnchargedInv
<1> DEFINE Harmless ==
      /\ UNCHANGED <<pc, verdict>>
      /\ \A x \in Confidential : bills'[x] = bills[x] /\ callback'[x] = NoProvider
<1> USE <1>0 DEF hubVars, relayVars, queueVars, providerVars
<1>1. ASSUME NEW p \in Providers, NEW r \in Requests, HandleDone(p, r) PROVE Harmless
  BY <1>1 DEF HandleDone, Settle
<1>2. ASSUME NEW p \in Providers, NEW r \in Requests, HandleError(p, r) PROVE Harmless
  BY <1>2 DEF HandleError
<1>3. ASSUME NEW p \in Providers, NEW r \in Requests, IgnoreError(p, r) PROVE Harmless
  BY <1>3 DEF IgnoreError
<1>3a. ASSUME NEW p \in Providers, NEW r \in Requests, HandleChunk(p, r) PROVE Harmless
  BY <1>3a DEF HandleChunk
<1>4. ASSUME NEW p \in Providers, HandleHeartbeat(p) PROVE Harmless
  BY <1>4 DEF HandleHeartbeat, Heartbeat
<1>5. ASSUME NEW p \in Providers, ConnectProvider(p) PROVE Harmless
  BY <1>5 DEF ConnectProvider, Register
<1>6. ASSUME NEW p \in Providers, DropProvider(p) PROVE Harmless
  BY <1>6 DEF DropProvider, Disconnect
<1>7. ASSUME NEW p \in Providers, ForceDisconnect(p) PROVE Harmless
  BY <1>7 DEF ForceDisconnect, Disconnect
<1>8. ASSUME NEW p \in Providers, Quarantine(p) PROVE Harmless
  BY <1>8 DEF Quarantine, SetQuarantine
<1>9. ASSUME NEW p \in Providers, NEW r \in Confidential, HandleFinish(p, r) PROVE Harmless
  BY <1>9 DEF HandleFinish
<1>10. ASSUME ClearPending PROVE Harmless
  BY <1>10 DEF ClearPending, ClearQueue
<1>11. ASSUME TryDispatch PROVE Harmless
  BY <1>11 DEF TryDispatch, DispatchQueued
<1>12. Harmless
  BY <1>1, <1>2, <1>3, <1>3a, <1>4, <1>5, <1>6, <1>7, <1>8, <1>9, <1>10, <1>11 DEF Provider
<1>13. QED
  BY <1>12, NothingCharged

LEMMA ChargeStep ==
  ASSUME TypeOK, ChargeInv, [ConfidentialNext]_vars
  PROVE  ChargeInv'
<1>1. CASE UNCHANGED vars
  BY <1>1, NothingCharged DEF vars, hubVars, relayVars, ChargeInv, UnchargedInv
<1>2. QED
  BY <1>1, ChatCharge, ConfidentialCharge, FinalCharge, ProviderCharge DEF ConfidentialNext

(* The inductive invariant of both relays on the same providers: what the    *)
(* chat relay relies on, and that confidential requests have no callback and *)
(* no charge before their end.                                               *)
THEOREM ConfidentialInvariance == ConfidentialSpec => []ConfidentialIInv
<1>1. Init => ConfidentialIInv
  BY DEF Init, HubInit, ConfidentialIInv, UnchargedInv, ChargedAtTheEnd, ChargeDue, RelayIInv,
         BillingInv, WokenInv, RelayInv, ResidueInv, VerdictInv, Refusals, Sending,
         Live, Final
<1>2. TypeOK /\ ConfidentialIInv /\ [ConfidentialNext]_vars => ConfidentialIInv'
  <2> SUFFICES ASSUME TypeOK, ConfidentialIInv, [ConfidentialNext]_vars
               PROVE  ConfidentialIInv'
    OBVIOUS
  <2>1. ChargeInv'
    BY ChargeStep DEF ChargeInv, ConfidentialIInv
  <2>2. CASE Own
    BY <2>1, <2>2, OwnRelayStep DEF ChargeInv, ConfidentialIInv
  <2>3. CASE [Next]_vars
    BY <2>1, <2>3, BillingStep, WokenStep, RelayStep, ResidueStep, VerdictStep
       DEF ChargeInv, ConfidentialIInv, RelayIInv
  <2>4. QED
    BY <2>2, <2>3, SharedOrOwn
<1>3. QED
  BY <1>1, <1>2, ConfidentialTypeCorrect, PTL DEF ConfidentialSpec

(* Whatever order answers, timeouts, disconnects and cancellations come in,  *)
(* a confidential request is charged at most once, and only by its own       *)
(* handler: when a collected response was served, or a stream's consumer was *)
(* told its end.  One that left before is never charged.                     *)
THEOREM ConfidentialCharges == ConfidentialSpec => []ChargedAtTheEnd
<1>1. ConfidentialIInv => ChargedAtTheEnd
  BY DEF ConfidentialIInv
<1>2. QED
  BY <1>1, ConfidentialInvariance, PTL

-----------------------------------------------------------------------------
(* The steps of its own are steps of the contract, or none.                  *)
LEMMA OwnContractStep ==
  ASSUME TypeOK, ConfidentialIInv, Own
  PROVE  [Contract!Next]_(Contract!contractVars)
<1>0. /\ pc \in [Requests -> Location]
      /\ verdict \in [Requests -> Verdict]
      /\ bills \in [Requests -> Nat]
      /\ RelayIInv /\ VerdictInv /\ UnchargedInv
  BY DEF TypeOK, ConfidentialIInv, RelayIInv
<1> USE <1>0 DEF Contract!Next, Contract!contractVars, Told
<1>1. ASSUME NEW r \in Confidential, NEW p \in Providers, RouteConfidential(r, p)
      PROVE  UNCHANGED Contract!contractVars
  BY <1>1 DEF RouteConfidential
<1>2. ASSUME NEW r \in Confidential, NEW p \in Providers, HandleFinish(p, r)
      PROVE  UNCHANGED Contract!contractVars
  BY <1>2 DEF HandleFinish, relayVars
<1>3. ASSUME NEW r \in Confidential, NoProviderAvailable(r) PROVE Contract!Refuse(r)
  BY <1>3, Refusing DEF NoProviderAvailable, Refusals, Verdict
<1>4. ASSUME NEW r \in Confidential, ConfidentialSent(r)
      PROVE  UNCHANGED Contract!contractVars
  BY <1>4 DEF ConfidentialSent
<1>5. ASSUME NEW r \in Confidential, NEW v \in Concluded,
             CollectEnds(r, v)
      PROVE  Contract!Conclude(r) \/ Contract!Settle(r)
  <2>1. verdict[r] = "none" /\ bills[r] = 0
    BY <1>5 DEF CollectEnds, VerdictInv, UnchargedInv
  <2>2. Told' = [Told EXCEPT ![r] = "concluded"]
    BY <1>5 DEF CollectEnds, Finish, Refusals, Verdict, Concluded
  <2>3. bills' = [bills EXCEPT ![r] = 1] \/ UNCHANGED bills
    BY <1>5, <2>1, ChargedOnce DEF CollectEnds, ChargesCollected
  <2>4. QED
    BY <2>1, <2>2, <2>3 DEF Contract!Conclude, Contract!Settle
<1>6. ASSUME NEW r \in Confidential, SettleStream(r)
      PROVE  Contract!Charge(r) \/ UNCHANGED Contract!contractVars
  <2>1. Told[r] # "refused" /\ bills[r] = 0
    BY <1>6 DEF SettleStream, VerdictInv, UnchargedInv
  <2>2. UNCHANGED Told
    BY <1>6 DEF SettleStream
  <2>3. bills' = [bills EXCEPT ![r] = 1] \/ UNCHANGED bills
    BY <1>6, <2>1, ChargedOnce DEF SettleStream
  <2>4. QED
    BY <2>1, <2>2, <2>3 DEF Contract!Charge
<1>7. QED
  BY <1>1, <1>2, <1>3, <1>4, <1>5, <1>6, CollectCases DEF Own

(* Both relays together implement ChatContract: at most one charge, and none *)
(* for a request that was refused.                                           *)
THEOREM ConfidentialImplementsContract == ConfidentialSpec => ImplementsContract
<1>1. Init => Contract!Init
  BY DEF Init, Contract!Init, Told
<1>2. TypeOK /\ ConfidentialIInv /\ [ConfidentialNext]_vars
        => [Contract!Next]_(Contract!contractVars)
  BY SharedOrOwn, OwnContractStep, ContractStep DEF ConfidentialIInv
<1>3. QED
  BY <1>1, <1>2, ConfidentialTypeCorrect, ConfidentialInvariance, PTL
     DEF ConfidentialSpec, ImplementsContract, Contract!Spec

=============================================================================
