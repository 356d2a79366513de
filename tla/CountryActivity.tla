---------------------------- MODULE CountryActivity ----------------------------
(***************************************************************************)
(* country_activity.py: how many requests went from which country to which *)
(* provider's country, counted for two days in memory and published a day  *)
(* late, only where there were enough requests of enough consumers.        *)
(*                                                                         *)
(* The hashes stand for what they are of: they are only compared.          *)
(***************************************************************************)
EXTENDS Integers, FiniteSets

CONSTANTS
    Callers, Anonymous,     \* consumers; the last is no account
    CompletionIds, Routes,  \* requests; pairs of countries
    MinRequests, MinConsumers,
    MaxCompletions, MaxRoutes,  \* of a day
    MaxDay                      \* bound

ASSUME CountryActivityAssumption ==
    /\ Anonymous \in Callers /\ MaxDay \in Nat
    /\ {MinRequests, MinConsumers, MaxCompletions, MaxRoutes} \subseteq Nat \ {0}

VARIABLES
    today,
    days,       \* CountryActivity._days
    counted,    \* history: <<day, request, route, consumer>> of this run
    started     \* history: the day this run began

activityVars == <<today, days, counted, started>>

\* Variant of Pruned: one day more
PrunedLate(d) == [x \in DOMAIN d \cap {today - 2, today - 1, today} |-> d[x]]

Pruned(d) == [x \in DOMAIN d \cap {today - 1, today} |-> d[x]]
With(f, x, v) == [y \in DOMAIN f \union {x} |-> IF y = x THEN v ELSE f[y]]
Empty == [seen |-> {}, routes |-> <<>>]
DayOf(d, x) == IF x \in DOMAIN d THEN d[x] ELSE Empty

\* Variant of SeenBefore: the day before is forgotten
SeenToday(d, id) == id \in DayOf(d, today).seen

\* A completion that was counted today, or yesterday, is not counted again
SeenBefore(d, id) == id \in DayOf(d, today).seen \union DayOf(d, today - 1).seen

\* Variant of Counted: all consumers are kept
CountedFully(state, id, route, consumer) ==
    LET old == IF route \in DOMAIN state.routes THEN state.routes[route]
               ELSE [count |-> 0, consumers |-> {}]
        new == [count |-> old.count + 1, consumers |-> old.consumers \union {consumer}]
    IN  [seen |-> state.seen \union {id}, routes |-> With(state.routes, route, new)]

\* The consumers are told apart only until there are enough
Counted(state, id, route, consumer) ==
    LET old == IF route \in DOMAIN state.routes THEN state.routes[route]
               ELSE [count |-> 0, consumers |-> {}]
        new == [count |-> old.count + 1,
                consumers |-> IF Cardinality(old.consumers) < MinConsumers
                              THEN old.consumers \union {consumer} ELSE old.consumers]
    IN  [seen |-> state.seen \union {id}, routes |-> With(state.routes, route, new)]

\* CountryActivity.record, by the billing callback
RecordCompletion(id, route, consumer) ==
    LET kept == Pruned(days)
        state == DayOf(kept, today)
        counts == /\ consumer # Anonymous /\ ~SeenBefore(kept, id)
                  /\ Cardinality(state.seen) < MaxCompletions
                  /\ route \in DOMAIN state.routes \/ Cardinality(DOMAIN state.routes) < MaxRoutes
    IN  /\ days' = IF consumer = Anonymous THEN kept
                   ELSE With(kept, today, IF counts THEN Counted(state, id, route, consumer) ELSE state)
        /\ counted' = IF counts THEN counted \union {<<today, id, route, consumer>>} ELSE counted
        /\ UNCHANGED <<today, started>>

\* cleanup_loop, each minute; a snapshot prunes as well
Expire ==
    /\ Pruned(days) # days
    /\ days' = Pruned(days)
    /\ UNCHANGED <<today, counted, started>>

NewDay ==
    /\ today < MaxDay /\ today' = today + 1
    /\ UNCHANGED <<days, counted, started>>

\* The process starts again and remembers nothing
RestartActivity ==
    /\ days # <<>>
    /\ days' = <<>> /\ counted' = {} /\ started' = today
    /\ UNCHANGED today

\* Variant of Released: the day that is not over is shown
ReleasedLive ==
    LET routes == DayOf(days, today).routes
    IN  {r \in DOMAIN routes : /\ routes[r].count >= MinRequests
                               /\ Cardinality(routes[r].consumers) >= MinConsumers}

\* CountryActivity.snapshot
Released ==
    LET routes == DayOf(days, today - 1).routes
    IN  {r \in DOMAIN routes : /\ routes[r].count >= MinRequests
                               /\ Cardinality(routes[r].consumers) >= MinConsumers}

ActivityInit == today = 0 /\ days = <<>> /\ counted = {} /\ started = 0
ActivityNext ==
    \/ \E id \in CompletionIds, r \in Routes, c \in Callers : RecordCompletion(id, r, c)
    \/ Expire \/ NewDay \/ RestartActivity
ActivitySpec == ActivityInit /\ [][ActivityNext]_activityVars /\ WF_activityVars(Expire)

-----------------------------------------------------------------------------
ActivityTypeOK ==
    /\ today \in 0..MaxDay
    /\ \A x \in DOMAIN days : /\ x \in 0..today
                              /\ Cardinality(days[x].seen) <= MaxCompletions
                              /\ Cardinality(DOMAIN days[x].routes) <= MaxRoutes
                              /\ \A r \in DOMAIN days[x].routes :
                                   Cardinality(days[x].routes[r].consumers) <= MinConsumers

\* A route is published only if yesterday enough different requests of enough
\* different consumers took it.
SmallCountsAreSuppressed ==
    \A r \in Released :
        LET those == {k \in counted : k[1] = today - 1 /\ k[3] = r}
        IN  /\ Cardinality({k[2] : k \in those}) >= MinRequests
            /\ Cardinality({k[4] : k \in those}) >= MinConsumers

\* A request counts once, even if its completion is heard of again a day later.
NothingCountsTwice ==
    \A j, k \in counted : j[2] = k[2] /\ j # k => j[1] + 1 < k[1] \/ k[1] + 1 < j[1]

\* What is published does not move while the day lasts: it is no sliding window
\* that would show single requests.
PublishedStandsStill ==
    [][today' = today /\ ~RestartActivity => Released' = Released]_activityVars

\* Counters of older days do not stay.
OldDaysLeave == []<>(DOMAIN days \subseteq {today - 1, today})

\* What is published cannot be traced to a consumer.
CountsStayPrivate ==
    /\ [](ActivityTypeOK /\ SmallCountsAreSuppressed /\ NothingCountsTwice)
    /\ PublishedStandsStill

=============================================================================
