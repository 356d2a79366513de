------------------------------- MODULE Matching -------------------------------
(***************************************************************************)
(* The two matching strategies of matching/strategy.py: a round of orders  *)
(* and offers is given to one of them.  Offers keep the order of the list, *)
(* which decides between equal scores.                                     *)
(***************************************************************************)
EXTENDS MatchScore, SequencesExt

CONSTANTS
    OrderKinds,     \* orders: model, ceiling, floor, preference, affinity, expired, at
    OfferKinds,     \* offers: models, price, speed, level, total, used, reputation
    MaxOrders, MaxOffers    \* bounds of a round

RepScale == 2       \* reputations of a round are 0, 1/2 or 1

ASSUME MatchingAssumption ==
    /\ \A o \in OrderKinds : /\ o.preference \in Preferences /\ o.expired \in BOOLEAN
                             /\ o.ceiling \in Nat /\ o.floor \in 0..3 /\ o.at \in Nat
    /\ \A f \in OfferKinds : /\ f.price \in Nat /\ f.speed \in Nat /\ f.level \in 0..3
                             /\ f.total \in Nat \ {0} /\ f.used \in Nat
                             /\ f.reputation \in 0..RepScale /\ IsExact(f)
    /\ MaxOrders \in Nat /\ MaxOffers \in Nat

\* An offer of the list
Posted(f, place) ==
    [models |-> f.models, price |-> f.price, speed |-> f.speed, level |-> f.level, total |-> f.total,
     used |-> f.used, reputation |-> f.reputation, provider |-> place]

VARIABLES
    orders, offers, \* the lists that match is given
    outcome         \* what it returned: an offer, or the reason of a failure

matchingVars == <<orders, offers, outcome>>

Reasons == {"timeout", "no_provider", "no_capacity"}
Unmatched == [by |-> "none"]

MatchingTypeOK ==
    /\ orders \in Seq(OrderKinds) /\ Len(orders) <= MaxOrders
    /\ Len(offers) <= MaxOffers
    /\ \A i \in DOMAIN offers : \E f \in OfferKinds : offers[i] = Posted(f, i)
    /\ outcome # Unmatched =>
         /\ outcome.by \in {"greedy", "batch"}
         /\ DOMAIN outcome.match = DOMAIN orders /\ DOMAIN outcome.reason = DOMAIN orders
         /\ \A i \in DOMAIN orders : IF outcome.match[i] = 0 THEN outcome.reason[i] \in Reasons
                                     ELSE /\ outcome.match[i] \in DOMAIN offers
                                          /\ outcome.reason[i] = "none"

Rank(i, j) == Score(orders[i], offers[j], RepScale)

\* The first of the best, as a scan with > finds it
BestOf(i, candidates) ==
    CHOOSE j \in candidates : \A k \in candidates : \/ Rank(i, k) < Rank(i, j)
                                                    \/ Rank(i, k) = Rank(i, j) /\ j <= k

\* sorted with a key, which is stable: the places of the orders, the least key first
Comes(key, i, j) == key[i] < key[j] \/ (key[i] = key[j] /\ i < j)
Sorted(key) ==
    CHOOSE s \in [DOMAIN orders -> DOMAIN orders] :
        /\ \A i \in DOMAIN orders : \E p \in DOMAIN s : s[p] = i
        /\ \A p, q \in DOMAIN s : p < q => Comes(key, s[p], s[q])

\* Variant of BySubmission: in the order of the list
ByPlace == [i \in DOMAIN orders |-> i]

\* The time of submission
BySubmission == [i \in DOMAIN orders |-> orders[i].at]

\* Variant of GreedyStep: the slots of an offer are not counted down
GreedyStepUncounted(done, i) ==
    LET open == {j \in DOMAIN offers : Free(offers[j]) > 0 /\ Rank(i, j) > 0}
    IN  IF orders[i].expired THEN [done EXCEPT !.reason[i] = "timeout"]
        ELSE IF open = {} THEN [done EXCEPT !.reason[i] = "no_provider"]
        ELSE [done EXCEPT !.match[i] = BestOf(i, open)]

\* Variant of GreedyStep: an expired order is skipped without a failure
GreedyStepSilent(done, i) ==
    LET taken(j) == Cardinality({k \in DOMAIN orders : done.match[k] = j})
        open == {j \in DOMAIN offers : taken(j) < Free(offers[j]) /\ Rank(i, j) > 0}
    IN  IF orders[i].expired THEN done
        ELSE IF open = {} THEN [done EXCEPT !.reason[i] = "no_provider"]
        ELSE [done EXCEPT !.match[i] = BestOf(i, open)]

\* One order of GreedyStrategy.match: the best offer with a slot left
GreedyStep(done, i) ==
    LET taken(j) == Cardinality({k \in DOMAIN orders : done.match[k] = j})
        open == {j \in DOMAIN offers : taken(j) < Free(offers[j]) /\ Rank(i, j) > 0}
    IN  IF orders[i].expired THEN [done EXCEPT !.reason[i] = "timeout"]
        ELSE IF open = {} THEN [done EXCEPT !.reason[i] = "no_provider"]
        ELSE [done EXCEPT !.match[i] = BestOf(i, open)]

Started(strategy) == [by |-> strategy, match |-> [i \in DOMAIN orders |-> 0],
                      reason |-> [i \in DOMAIN orders |-> "none"]]

\* An offer appears once for each of its free slots
Slots == UNION {{j} \X (1..Free(offers[j])) : j \in DOMAIN offers}

\* Variant of ByEligibility: in the order of submission
ByArrival == BySubmission

EligibleSlots(i) == Cardinality({s \in Slots : Rank(i, s[1]) > 0})

\* The most constrained orders first
ByEligibility == [i \in DOMAIN orders |-> EligibleSlots(i)]

\* Variant of BatchStep: an offer is in the list of slots once
BatchStepOnce(done, i) ==
    LET open == {j \in DOMAIN offers : Free(offers[j]) > 0 /\ Rank(i, j) > 0
                                       /\ \A k \in DOMAIN orders : done.match[k] # j}
    IN  IF open = {} THEN [done EXCEPT !.reason[i] =
                             IF offers = <<>> THEN "no_provider" ELSE "no_capacity"]
        ELSE [done EXCEPT !.match[i] = BestOf(i, open)]

\* One order of _solve_assignment: the best slot that is not used
BatchStep(done, i) ==
    LET taken(j) == Cardinality({k \in DOMAIN orders : done.match[k] = j})
        open == {j \in DOMAIN offers : taken(j) < Free(offers[j]) /\ Rank(i, j) > 0}
    IN  IF open = {} THEN [done EXCEPT !.reason[i] =
                             IF Slots # {} /\ orders[i].expired THEN "timeout"
                             ELSE IF offers = <<>> THEN "no_provider" ELSE "no_capacity"]
        ELSE [done EXCEPT !.match[i] = BestOf(i, open)]

-----------------------------------------------------------------------------
SubmitOrder(o) ==
    /\ outcome = Unmatched /\ Len(orders) < MaxOrders
    /\ orders' = Append(orders, o)
    /\ UNCHANGED <<offers, outcome>>

PostOffer(f) ==
    /\ outcome = Unmatched /\ Len(offers) < MaxOffers
    /\ offers' = Append(offers, Posted(f, Len(offers) + 1))
    /\ UNCHANGED <<orders, outcome>>

\* GreedyStrategy.match
MatchGreedily ==
    /\ outcome = Unmatched /\ orders # <<>>
    /\ outcome' = FoldLeft(GreedyStep, Started("greedy"), Sorted(BySubmission))
    /\ UNCHANGED <<orders, offers>>

\* BatchAuctionStrategy.match
MatchBatch ==
    /\ outcome = Unmatched /\ orders # <<>>
    /\ outcome' = FoldLeft(BatchStep, Started("batch"), Sorted(ByEligibility))
    /\ UNCHANGED <<orders, offers>>

NextRound ==
    /\ outcome # Unmatched
    /\ orders' = <<>> /\ offers' = <<>> /\ outcome' = Unmatched

MatchingInit == orders = <<>> /\ offers = <<>> /\ outcome = Unmatched

MatchingNext ==
    \/ \E o \in OrderKinds : SubmitOrder(o)
    \/ \E f \in OfferKinds : PostOffer(f)
    \/ MatchGreedily \/ MatchBatch \/ NextRound

MatchingSpec == MatchingInit /\ [][MatchingNext]_matchingVars

-----------------------------------------------------------------------------
Matched == IF outcome = Unmatched THEN {} ELSE {i \in DOMAIN orders : outcome.match[i] # 0}
TakenOf(j) == {i \in Matched : outcome.match[i] = j}

\* Several orders of a round never get more of a provider than its free slots,
\* and each match meets its order's constraints (M1 of the system design).
SlotsAreNotOverdrawn ==
    /\ \A j \in DOMAIN offers : Cardinality(TakenOf(j)) <= Free(offers[j])
    /\ \A i \in Matched : Meets(orders[i], offers[outcome.match[i]])

\* An order that is left over, and has not expired, could have used no slot that
\* is left over: of both strategies.
NobodyWaitsInVain ==
    outcome # Unmatched =>
        \A i \in DOMAIN orders \ Matched, j \in DOMAIN offers :
            Meets(orders[i], offers[j]) /\ Cardinality(TakenOf(j)) < Free(offers[j])
                => orders[i].expired

\* Greedy is fair: an order never prefers what a later one got (M2, M3).
EarlierChooseFirst ==
    outcome # Unmatched /\ outcome.by = "greedy" =>
        \A i, k \in Matched :
            orders[i].at < orders[k].at =>
                Rank(i, outcome.match[i]) >= Rank(i, outcome.match[k])

\* In a batch an order is not squeezed out by one with more slots to choose from
\* (_solve_assignment).
ConstrainedAreNotSqueezedOut ==
    outcome # Unmatched /\ outcome.by = "batch" =>
        \A i \in DOMAIN orders \ Matched, k \in Matched :
            Rank(i, outcome.match[k]) > 0 => EligibleSlots(k) <= EligibleSlots(i)

\* Both strategies keep what a round of orders may expect.
MatchingIsFair ==
    /\ MatchingTypeOK
    /\ SlotsAreNotOverdrawn /\ NobodyWaitsInVain
    /\ EarlierChooseFirst /\ ConstrainedAreNotSqueezedOut

-----------------------------------------------------------------------------
\* The inductive invariant behind MatchingIsFair.
Posts == {Posted(f, place) : f \in OfferKinds, place \in 1..MaxOffers}
MatchingIInv == offers \in Seq(Posts) /\ MatchingIsFair

=============================================================================
