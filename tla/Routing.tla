-------------------------------- MODULE Routing --------------------------------
(***************************************************************************)
(* How the hub chooses a provider: ProviderHub.select_provider with the    *)
(* session affinity it remembers, explain_no_match, and the reputation     *)
(* that the outcomes of earlier requests leave (reputation.py).            *)
(*                                                                         *)
(* A request comes by one of three ways.  A fresh one is scored with       *)
(* reputations and remembers its session; one from the queue remembers its *)
(* session, and one that is tried again does not; the last two are scored  *)
(* as if every reputation were perfect.                                    *)
(*                                                                         *)
(* Reputations are fixed-point numbers of Scale, exact for as many         *)
(* outcomes as 5 divides Scale \div 2.  ProviderHub has the queue,         *)
(* InferenceRelay the relay.                                               *)
(***************************************************************************)
EXTENDS MatchScore, SequencesExt

CONSTANTS
    Connections,        \* connection ids that the hub hands out
    Capabilities,       \* [Connections -> models, price, speed, level, total]
    SessionIds, NoSession,
    Requests,           \* model, preference, floor, ceiling
    OutcomeKinds,       \* outcomes that requests end with
    MaxAffinity,        \* _SESSION_AFFINITY_MAX
    Scale,              \* a reputation of 1
    MaxSent,            \* bound: requests given to a connection whose outcome is not recorded yet
    MaxOutcomes         \* bound: recorded outcomes of all connections

RepUnit == 10 * Scale
AllOutcomes == {"fast", "slow", "error", "timeout", "disconnect"}
Successes == {"fast", "slow"}

ASSUME RoutingAssumption ==
    /\ NoSession \notin SessionIds /\ IsFiniteSet(Connections)
    /\ \A c \in Connections :
         LET f == Capabilities[c]
         IN  /\ f.price \in Nat /\ f.speed \in Nat /\ f.level \in 0..3 /\ f.total \in Nat \ {0}
             /\ IsExact(f)
    /\ \A r \in Requests : r.preference \in Preferences /\ r.floor \in 0..3 /\ r.ceiling \in Nat
    /\ OutcomeKinds \subseteq AllOutcomes
    /\ Scale \in Nat /\ Scale % 2 = 0 /\ Scale >= 30
    /\ MaxAffinity \in Nat \ {0} /\ MaxSent \in Nat /\ MaxOutcomes \in Nat

VARIABLES
    online,         \* _providers: the connections, in the order they registered
    gone,           \* connection ids that are used up
    routable,       \* admitted and not quarantined
    active,         \* active_requests of each connection
    sent,           \* requests given to a connection whose outcome is still open
    sending,        \* fresh ones whose first send is not over
    woken,          \* requests from the queue that were given a connection and not sent yet
    reputation,     \* success_rate_ema, latency_score_ema and recent_outcomes
    affinity,       \* _session_affinity: pairs of a session and a connection, oldest first
    decision        \* the last choice and what it was made of

routingVars == <<online, gone, routable, active, sent, sending, woken, reputation, affinity, decision>>

NoDecision == [way |-> "none"]
OnlineNow == ToSet(online)

\* ProviderReputation.score: neutral until the third outcome
ScoreOf(rep) ==
    IF Len(rep.recent) < 3 THEN RepUnit \div 2 ELSE 7 * rep.rate + 3 * rep.latency

IsDegraded(rep) == Len(rep.recent) >= 5 /\ 2 * rep.rate < Scale

\* Variant of Averaged: the old weight is not lowered
AveragedOver(ema, value) == value \div 5 + ema

\* An exponential moving average with alpha = 1/5
Averaged(ema, value) == (value + 4 * ema) \div 5

\* Variant of Recorded: a timeout leaves the success rate alone
RecordedMildly(rep, kind) ==
    [rate |-> CASE kind \in Successes -> Averaged(rep.rate, Scale)
                [] kind = "timeout" -> rep.rate [] OTHER -> Averaged(rep.rate, 0),
     latency |-> CASE kind = "fast" -> Averaged(rep.latency, Scale)
                   [] kind \in {"slow", "timeout"} -> Averaged(rep.latency, 0)
                   [] OTHER -> rep.latency,
     recent |-> Append(rep.recent, kind)]

\* ProviderReputation.record_outcome; a slow success has no latency score
Recorded(rep, kind) ==
    [rate |-> Averaged(rep.rate, IF kind \in Successes THEN Scale ELSE 0),
     latency |-> CASE kind = "fast" -> Averaged(rep.latency, Scale)
                   [] kind \in {"slow", "timeout"} -> Averaged(rep.latency, 0)
                   [] OTHER -> rep.latency,
     recent |-> Append(rep.recent, kind)]

NewReputation == [rate |-> Scale \div 2, latency |-> Scale \div 2, recent |-> <<>>]

Remembers(session) == {i \in DOMAIN affinity : affinity[i][1] = session}
AffinityOf(session) ==
    LET at == Remembers(session) IN IF at = {} THEN NoSession ELSE affinity[CHOOSE i \in at : TRUE][2]

\* Variant of Remembered: a session is moved to the end, and what was full stays full
RememberedUnevicted(session, c) ==
    IF session = NoSession THEN affinity
    ELSE IF Remembers(session) # {} THEN [i \in DOMAIN affinity |->
             IF affinity[i][1] = session THEN <<session, c>> ELSE affinity[i]]
    ELSE IF Len(affinity) = MaxAffinity THEN affinity ELSE Append(affinity, <<session, c>>)

\* A session that is known keeps its place; the oldest leaves when there are too many
Remembered(session, c) ==
    LET longer == Append(affinity, <<session, c>>)
    IN  IF session = NoSession THEN affinity
        ELSE IF Remembers(session) # {} THEN [i \in DOMAIN affinity |->
                 IF affinity[i][1] = session THEN <<session, c>> ELSE affinity[i]]
        ELSE IF Len(longer) > MaxAffinity THEN Tail(longer) ELSE longer

OfferOf(c, load, rep) ==
    LET f == Capabilities[c]
    IN  [models |-> f.models, price |-> f.price, speed |-> f.speed, level |-> f.level,
         total |-> f.total, provider |-> c, used |-> load, reputation |-> rep]

OffersOf(way, loads) ==
    [c \in OnlineNow \cap routable |->
        OfferOf(c, loads[c], IF way = "fresh" THEN ScoreOf(reputation[c]) ELSE RepUnit)]

OrderOf(r, session) ==
    [model |-> r.model, preference |-> r.preference, floor |-> r.floor, ceiling |-> r.ceiling,
     affinity |-> AffinityOf(session)]

\* The connections with the best score
Best(order, offers) ==
    LET rank(c) == Score(order, offers[c], RepUnit)
    IN  {c \in DOMAIN offers : rank(c) > 0 /\ \A d \in DOMAIN offers : rank(d) <= rank(c)}

\* A scan of the connections with > ends at the first of the best
FirstOf(best) ==
    LET places == {i \in DOMAIN online : online[i] \in best}
    IN  IF places = {} THEN {} ELSE {online[Min(places)]}

\* Variant of Choice: the provider of the session, as long as it has a slot
ChoiceBySession(order, offers) ==
    LET own == {c \in DOMAIN offers : c = order.affinity /\ Free(offers[c]) > 0}
    IN  IF own # {} THEN own ELSE FirstOf(Best(order, offers))

\* select_provider: no connection, or the one that is chosen
Choice(order, offers) == FirstOf(Best(order, offers))

\* Variant of Explained: a provider without a free slot is left out
ExplainedByLoad(r) ==
    LET could == {c \in OnlineNow \cap routable : Eligible(r, OfferOf(c, active[c], RepUnit))}
    IN  IF could = {} THEN "no_compatible_provider" ELSE "none"

\* explain_no_match, whatever the load
Explained(r) ==
    LET there == OnlineNow \cap routable
        serving == {c \in there : Serves(r, Capabilities[c])}
        trusted == {c \in serving : Capabilities[c].level >= r.floor}
        priced == {c \in trusted : Capabilities[c].price <= r.ceiling}
    IN  CASE there = {} -> "no_provider_available"
          [] there # {} /\ serving = {} -> "model_not_available"
          [] serving # {} /\ priced = {} -> "no_compatible_provider"
          [] OTHER -> "none"

Decided(way, r, session, offers, won, answer) ==
    [way |-> way, order |-> OrderOf(r, session), session |-> session,
     offers |-> offers, won |-> won, answer |-> answer]

-----------------------------------------------------------------------------
\* register_provider, after the socket task has admitted it
Connect(c) ==
    /\ c \notin gone /\ c \notin OnlineNow
    /\ online' = Append(online, c)
    /\ \E admitted \in BOOLEAN :
         routable' = IF admitted THEN routable \union {c} ELSE routable \ {c}
    /\ active' = [active EXCEPT ![c] = 0]
    /\ decision' = NoDecision
    /\ UNCHANGED <<gone, sent, sending, woken, reputation, affinity>>

\* disconnect_provider: the affinity and the reputation of the connection stay
Disconnect(c) ==
    /\ c \in OnlineNow
    /\ online' = RemoveAt(online, CHOOSE i \in DOMAIN online : online[i] = c)
    /\ gone' = gone \union {c}
    /\ decision' = NoDecision
    /\ UNCHANGED <<routable, active, sent, sending, woken, reputation, affinity>>

\* set_quarantine, or the end of an admission
SetRoutable(c) ==
    /\ c \in OnlineNow
    /\ routable' = IF c \in routable THEN routable \ {c} ELSE routable \union {c}
    /\ decision' = NoDecision
    /\ UNCHANGED <<online, gone, active, sent, sending, woken, reputation, affinity>>

\* handle_heartbeat takes the agent's word for its load
Heartbeat(c) ==
    /\ c \in OnlineNow /\ active[c] # sent[c]
    /\ active' = [active EXCEPT ![c] = sent[c]]
    /\ decision' = NoDecision
    /\ UNCHANGED <<online, gone, routable, sent, sending, woken, reputation, affinity>>

Outstanding == SumFunction(sent) + SumFunction(woken)
SendingTo(c) == Cardinality({s \in sending : s[2] = c})
More(counts, won) == [c \in Connections |-> IF c \in won THEN counts[c] + 1 ELSE counts[c]]
Less(counts, c) == [counts EXCEPT ![c] = IF @ > 0 THEN @ - 1 ELSE 0]

\* _route_and_dispatch up to the send, or to the error, or to the queue
Route(r, session) ==
    LET offers == OffersOf("fresh", active)
        won == Choice(OrderOf(r, session), offers)
    IN  /\ Outstanding < MaxSent
        /\ affinity' = IF won = {} THEN affinity ELSE Remembered(session, CHOOSE c \in won : TRUE)
        /\ decision' = Decided("fresh", r, session, offers, won,
                               IF won # {} THEN "sent" ELSE Explained(r))
        /\ active' = More(active, won) /\ sent' = More(sent, won)
        /\ sending' = sending \union {<<r, c>> : c \in won}
        /\ UNCHANGED <<online, gone, routable, woken, reputation>>

\* One request of _try_dispatch_queued: it is given a connection whose slot stays
\* free until its handler runs
Dequeue(r, session) ==
    LET offers == OffersOf("queued", active)
        won == Choice(OrderOf(r, session), offers)
    IN  /\ Outstanding < MaxSent /\ won # {}
        /\ affinity' = Remembered(session, CHOOSE c \in won : TRUE)
        /\ decision' = Decided("queued", r, session, offers, won, "given")
        /\ woken' = More(woken, won)
        /\ UNCHANGED <<online, gone, routable, active, sent, sending, reputation>>

\* The woken handler sends the request, or fails to encrypt it
SendQueued(c) ==
    /\ woken[c] > 0
    /\ woken' = [woken EXCEPT ![c] = @ - 1]
    /\ \/ active' = More(active, {c}) /\ sent' = More(sent, {c})
       \/ UNCHANGED <<active, sent>>
    /\ decision' = NoDecision
    /\ UNCHANGED <<online, gone, routable, sending, reputation, affinity>>

SendEnds(r, c) ==
    /\ <<r, c>> \in sending
    /\ sending' = sending \ {<<r, c>>}
    /\ decision' = NoDecision
    /\ UNCHANGED <<online, gone, routable, active, sent, woken, reputation, affinity>>

\* The first send raised: another provider is tried, without the session
Retry(r, c) ==
    LET loads == Less(active, c)
        offers == OffersOf("again", loads)
        won == Choice(OrderOf(r, NoSession), offers) \ {c}
    IN  /\ <<r, c>> \in sending
        /\ sending' = sending \ {<<r, c>>}
        /\ decision' = Decided("again", r, NoSession, offers, won, IF won = {} THEN "failed" ELSE "sent")
        /\ active' = More(loads, won) /\ sent' = More(Less(sent, c), won)
        /\ UNCHANGED <<online, gone, routable, woken, reputation, affinity>>

\* A queued request's send, or a second one, raised: the request fails
SendFails(c) ==
    /\ sent[c] > SendingTo(c)
    /\ active' = Less(active, c) /\ sent' = Less(sent, c)
    /\ decision' = NoDecision
    /\ UNCHANGED <<online, gone, routable, sending, woken, reputation, affinity>>

\* handle_provider_message of a last message: the slot is free
Release(c) ==
    /\ c \in OnlineNow /\ active[c] > 0
    /\ active' = [active EXCEPT ![c] = @ - 1]
    /\ decision' = NoDecision
    /\ UNCHANGED <<online, gone, routable, sent, sending, woken, reputation, affinity>>

OutcomesSoFar == SumFunction([c \in Connections |-> Len(reputation[c].recent)])

\* The relay records how a request ended, the connection may be gone
Record(c, kind) ==
    /\ sent[c] > SendingTo(c)
    /\ OutcomesSoFar < MaxOutcomes
    /\ reputation' = [reputation EXCEPT ![c] = Recorded(@, kind)]
    /\ sent' = [sent EXCEPT ![c] = @ - 1]
    /\ decision' = NoDecision
    /\ UNCHANGED <<online, gone, routable, active, sending, woken, affinity>>

RoutingInit ==
    /\ online = <<>> /\ gone = {} /\ routable = {} /\ affinity = <<>>
    /\ active = [c \in Connections |-> 0] /\ sent = [c \in Connections |-> 0]
    /\ woken = [c \in Connections |-> 0]
    /\ reputation = [c \in Connections |-> NewReputation]
    /\ sending = {} /\ decision = NoDecision

RoutingNext ==
    \/ \E c \in Connections : \/ Connect(c) \/ Disconnect(c) \/ SetRoutable(c)
                              \/ Heartbeat(c) \/ Release(c) \/ SendQueued(c) \/ SendFails(c)
                              \/ \E kind \in OutcomeKinds : Record(c, kind)
    \/ \E r \in Requests : \/ \E s \in SessionIds \union {NoSession} : Route(r, s) \/ Dequeue(r, s)
                           \/ \E c \in Connections : SendEnds(r, c) \/ Retry(r, c)

RoutingSpec == RoutingInit /\ [][RoutingNext]_routingVars

-----------------------------------------------------------------------------
RoutingTypeOK ==
    /\ OnlineNow \subseteq Connections /\ gone \subseteq Connections \ OnlineNow
    /\ routable \subseteq Connections
    /\ active \in [Connections -> Nat] /\ sent \in [Connections -> Nat]
    /\ woken \in [Connections -> Nat]
    /\ \A c \in Connections : /\ reputation[c].rate \in 0..Scale /\ reputation[c].latency \in 0..Scale
                              /\ reputation[c].recent \in Seq(OutcomeKinds)
    /\ sending \subseteq Requests \X Connections
    /\ \A i \in DOMAIN affinity : affinity[i] \in SessionIds \X Connections
    /\ decision = NoDecision \/ decision.won \subseteq DOMAIN decision.offers

Chosen == IF decision = NoDecision THEN {} ELSE decision.won

\* Whatever the way, the score, the session and the reputations: a connection that
\* is chosen was routable, serves the model within the ceiling and the trust floor,
\* and had a free slot (T1 and T2 of the design review).
ConstraintsAreHard ==
    \A c \in Chosen : Meets(decision.order, decision.offers[c]) /\ Free(decision.offers[c]) > 0

\* A request is refused at once exactly when no routable provider could serve it
\* even if idle, and it queues only behind providers that are full (explain_no_match).
RefusalIsRight ==
    decision # NoDecision /\ decision.way = "fresh" =>
        LET could == {c \in DOMAIN decision.offers : Meets(decision.order, decision.offers[c])}
        IN  CASE decision.answer = "sent" -> could # {}
              [] decision.answer = "none" -> could # {} /\ \A c \in could : Free(decision.offers[c]) = 0
              [] OTHER -> could = {}

\* The one that is chosen is not beaten by an eligible one that is at least as good
\* in everything and better in something, unless the session is its own (T5).
WinnerIsUndominated ==
    \A c \in Chosen, d \in (IF decision = NoDecision THEN {} ELSE DOMAIN decision.offers) :
        LET f == decision.offers[c]
            g == decision.offers[d]
        IN  /\ Eligible(decision.order, g) /\ AtLeastAsGood(g, f) /\ ~AtLeastAsGood(f, g)
            /\ d \notin {c} /\ decision.way # "again"
            => decision.order.affinity = c

\* The session of the request that was just routed is remembered, however many
\* sessions came before, and the table stays within its limit.
SessionIsRemembered ==
    /\ Len(affinity) <= MaxAffinity
    /\ \A i, j \in DOMAIN affinity : affinity[i][1] = affinity[j][1] => i = j
    /\ Chosen # {} /\ decision.session # NoSession => AffinityOf(decision.session) \in Chosen

\* Four failures in a row degrade a provider that has five outcomes, and four
\* successes in a row clear it, whatever came before (an average with alpha 1/5).
StreaksDecide ==
    \A c \in Connections :
        LET recent == reputation[c].recent
            last == {recent[i] : i \in (Len(recent) - 3)..Len(recent)}
        IN  Len(recent) >= 5 => /\ last \subseteq Successes => ~IsDegraded(reputation[c])
                                /\ last \cap Successes = {} => IsDegraded(reputation[c])

\* The choice of a provider, the refusal of a request, and what both leave behind.
RoutingIsSound ==
    /\ RoutingTypeOK
    /\ ConstraintsAreHard /\ RefusalIsRight /\ WinnerIsUndominated
    /\ SessionIsRemembered /\ StreaksDecide

-----------------------------------------------------------------------------
\* The inductive invariant behind RoutingIsSound.
Reputations == [rate : 0..Scale, latency : 0..Scale, recent : Seq(OutcomeKinds)]

Streak(recent, k, kinds) ==
    k <= Len(recent) /\ \A i \in (Len(recent) - k + 1)..Len(recent) : recent[i] \in kinds

\* Each failure in a row leaves at most four fifths of the rate, and each success at most
\* four fifths of what the rate lacks, but for the rounding
StreaksShow(rep) ==
    LET lack == Scale - rep.rate
        failing(k) == Streak(rep.recent, k, OutcomeKinds \ Successes)
        passing(k) == Streak(rep.recent, k, Successes)
    IN  /\ failing(1) => 5 * rep.rate <= 4 * Scale
        /\ failing(2) => 25 * rep.rate <= 16 * Scale
        /\ failing(3) => 125 * rep.rate <= 64 * Scale
        /\ failing(4) => 625 * rep.rate <= 256 * Scale
        /\ passing(1) => 5 * lack <= 4 * Scale + 4
        /\ passing(2) => 25 * lack <= 16 * Scale + 36
        /\ passing(3) => 125 * lack <= 64 * Scale + 244
        /\ passing(4) => 625 * lack <= 256 * Scale + 1476

Decisions ==
    /\ decision # NoDecision =>
           /\ decision.way \in {"fresh", "queued", "again"}
           /\ decision.won \subseteq DOMAIN decision.offers
    /\ ConstraintsAreHard /\ RefusalIsRight /\ WinnerIsUndominated

RoutingIInv ==
    /\ online \in Seq(Connections) /\ \A i, j \in DOMAIN online : online[i] = online[j] => i = j
    /\ gone \subseteq Connections \ OnlineNow /\ routable \subseteq Connections
    /\ active \in [Connections -> Nat] /\ sent \in [Connections -> Nat]
    /\ woken \in [Connections -> Nat]
    /\ sending \subseteq Requests \X Connections /\ IsFiniteSet(sending)
    /\ reputation \in [Connections -> Reputations]
    /\ \A c \in Connections : StreaksShow(reputation[c])
    /\ affinity \in Seq(SessionIds \X Connections)
    /\ Decisions /\ SessionIsRemembered

=============================================================================
