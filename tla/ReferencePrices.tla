---------------------------- MODULE ReferencePrices ----------------------------
(***************************************************************************)
(* The background collector of other vendors' prices                       *)
(* (coordinator/price_collector.py), the table it snapshots into           *)
(* (store.py) and what the exchange shows from both (routes_exchange.py).  *)
(*                                                                         *)
(* The loop fetches what is due, writes the whole cache to the table,      *)
(* deletes old rows and sleeps an interval it jitters around the time to   *)
(* live of the live source, so that some wake-ups fetch nothing.  While a  *)
(* fetch waits for the network, requests read the cache.  A restart loses  *)
(* the cache and keeps the table.  A time is a number of ticks; a row is   *)
(* kept once (the code writes an unchanged price again in every cycle).    *)
(***************************************************************************)
EXTENDS Integers, FiniteSets, SequencesExt

CONSTANTS
    Listing,        \* model -> [source, family], of every vendor's model
    StaticPrices,   \* the prices kept in the code: model -> price
    BundledPrices,  \* the prices shipped in openrouter_cache.json: model -> price
    Prices,         \* the prices the live source may ask
    LiveTtl, StaticTtl,
    Jitters,        \* the lengths a sleep may have
    LongestFetch,   \* bound: how long the live source keeps a fetch waiting (httpx limits
                    \* each read and write of it, and not the whole)
    PruneAge, DayLength,
    ExchangePrices, \* the exchange's own prices: family -> set of prices
    MaxPriceTime    \* the bound on the clock

ASSUME PricesAssumption ==
    /\ DOMAIN StaticPrices \intersect DOMAIN BundledPrices = {}
    /\ DOMAIN StaticPrices \union DOMAIN BundledPrices = DOMAIN Listing
    /\ \A m \in DOMAIN StaticPrices : StaticPrices[m] \in Nat
    /\ \A m \in DOMAIN BundledPrices : BundledPrices[m] \in Nat
    /\ \A m \in DOMAIN Listing : Listing[m].source # "inference-exchange"
    /\ \A family \in DOMAIN ExchangePrices : ExchangePrices[family] \in (SUBSET Nat) \ {{}}
    /\ Prices \subseteq Nat
    /\ Jitters \subseteq Nat \ {0} /\ Jitters # {} /\ IsFiniteSet(Jitters)
    /\ {LiveTtl, StaticTtl, DayLength} \subseteq Nat \ {0} /\ LiveTtl <= StaticTtl
    /\ {LongestFetch, PruneAge, MaxPriceTime} \subseteq Nat

VARIABLES
    priceClock,
    offered,        \* what the live source sells now: model -> price
    collector,      \* "off", "fetching" or "asleep", with what runs and when it wakes or woke
    prices,         \* PriceCollector._cache: model -> [price, at]
    lastFetch,      \* PriceCollector._last_fetch
    priceRows,      \* the table reference_prices
    cycle           \* history: when the last cycle ended, what it wrote and deleted

priceVars == <<priceClock, offered, collector, prices, lastFetch, priceRows, cycle>>

Fetchers == {"live", "static"}
Ttl(f) == IF f = "live" THEN LiveTtl ELSE StaticTtl
\* What replaces or adds to what was known: dict.update
Over(new, old) == [k \in DOMAIN new \union DOMAIN old |-> IF k \in DOMAIN new THEN new[k] ELSE old[k]]
Stamped(got) == [m \in DOMAIN got |-> [price |-> got[m], at |-> priceClock]]
Row == [model : DOMAIN Listing, price : Nat, at : 0 .. MaxPriceTime]
LongestSleep == Max(Jitters)

-----------------------------------------------------------------------------
\* The fetches due now: all of them after a start
Due == {f \in Fetchers : f \in DOMAIN lastFetch => priceClock - lastFetch[f] >= Ttl(f)}

Asleep(jitter) == [phase |-> "asleep", running |-> {}, wake |-> priceClock + jitter]

PricesInit ==
    /\ priceClock = 0
    /\ offered \in {[m \in D |-> BundledPrices[m]] : D \in SUBSET DOMAIN BundledPrices}
    /\ collector = [phase |-> "off", running |-> {}, wake |-> 0]
    /\ prices = <<>> /\ lastFetch = <<>> /\ priceRows = {}
    /\ cycle = [at |-> 0, saved |-> FALSE, pruned |-> FALSE]

\* Variant of WakeUp: every wake-up counts as a fetch, due or not
WakeUpCounting ==
    /\ collector.phase = "off" \/ (collector.phase = "asleep" /\ collector.wake = priceClock)
    /\ IF Due = {}
       THEN \E j \in Jitters : collector' = Asleep(j)
       ELSE collector' = [phase |-> "fetching", running |-> Due, wake |-> priceClock]
    /\ lastFetch' = [f \in DOMAIN lastFetch |-> priceClock]
    /\ UNCHANGED <<priceClock, offered, prices, priceRows, cycle>>

(* start() and the first lines of fetch_all: at once after a start, and at the end of a sleep. *)
WakeUp ==
    /\ collector.phase = "off" \/ (collector.phase = "asleep" /\ collector.wake = priceClock)
    /\ IF Due = {}
       THEN \E j \in Jitters : collector' = Asleep(j)
       ELSE collector' = [phase |-> "fetching", running |-> Due, wake |-> priceClock]
    /\ UNCHANGED <<priceClock, offered, prices, lastFetch, priceRows, cycle>>

\* Variant of Store: what a source sent takes the place of all it had sent before
StoreReplacing(f, got) ==
    /\ f \in collector.running
    /\ collector' = [collector EXCEPT !.running = @ \ {f}]
    /\ prices' = Over(Stamped(got),
                      [m \in DOMAIN prices \ DOMAIN (IF f = "live" THEN BundledPrices ELSE StaticPrices) |-> prices[m]])
    /\ lastFetch' = Over([k \in {f} |-> priceClock], lastFetch)
    /\ UNCHANGED <<priceClock, offered, priceRows, cycle>>

(* A fetch stamps what it got and overwrites those keys; other keys keep what they had. *)
Store(f, got) ==
    /\ f \in collector.running
    /\ collector' = [collector EXCEPT !.running = @ \ {f}]
    /\ prices' = Over(Stamped(got), prices)
    /\ lastFetch' = Over([k \in {f} |-> priceClock], lastFetch)
    /\ UNCHANGED <<priceClock, offered, priceRows, cycle>>

FetchStatic == Store("static", StaticPrices)

(* The live source answers. *)
FetchLive == Store("live", offered)

(* Both attempts fail, or the answer cannot be parsed: the bundled file stands in, if it is there. *)
FetchBundled == \E got \in {BundledPrices, <<>>} : Store("live", got)

\* Variant of Snapshot: only what this cycle fetched is written
SnapshotOfFetched(kept) ==
    kept \union {[model |-> m, price |-> prices[m].price, at |-> prices[m].at] :
                    m \in {n \in DOMAIN prices : prices[n].at >= collector.wake}}

(* Every fetch has returned: the whole cache is written, then what is too old is deleted.  Either *)
(* may fail, which is logged.                                                                     *)
Snapshot(kept) ==
    kept \union {[model |-> m, price |-> prices[m].price, at |-> prices[m].at] : m \in DOMAIN prices}
Recent(kept) == {r \in kept : r.at >= priceClock - PruneAge}

\* Variant of Written: old rows are deleted before the cache is written
WrittenAfterPruning(saves, prunes) ==
    LET left == IF prunes THEN Recent(priceRows) ELSE priceRows
    IN  IF saves THEN Snapshot(left) ELSE left

Written(saves, prunes) ==
    LET saved == IF saves THEN Snapshot(priceRows) ELSE priceRows
    IN  IF prunes THEN Recent(saved) ELSE saved

EndCycle ==
    /\ collector.phase = "fetching" /\ collector.running = {}
    /\ \E saves, prunes \in BOOLEAN, j \in Jitters :
          /\ priceRows' = Written(saves, prunes)
          /\ cycle' = [at |-> priceClock, saved |-> saves, pruned |-> prunes]
          /\ collector' = Asleep(j)
    /\ UNCHANGED <<priceClock, offered, prices, lastFetch>>

\* Variant of RestartCollector: stop() that leaves the fetches of the cancelled loop running
RestartWithFetches ==
    /\ collector.phase # "off"
    /\ collector' = [collector EXCEPT !.phase = "off"]
    /\ prices' = <<>> /\ lastFetch' = <<>>
    /\ UNCHANGED <<priceClock, offered, priceRows, cycle>>

(* The coordinator stops or crashes, also in the middle of a fetch, and starts again. *)
RestartCollector ==
    /\ collector.phase # "off"
    /\ collector' = [phase |-> "off", running |-> {}, wake |-> 0]
    /\ prices' = <<>> /\ lastFetch' = <<>>
    /\ UNCHANGED <<priceClock, offered, priceRows, cycle>>

(* The live source changes a price, adds a model or withdraws one. *)
Reprice ==
    /\ \E m \in DOMAIN BundledPrices :
          \/ \E p \in Prices : offered' = Over([n \in {m} |-> p], offered)
          \/ offered' = [n \in DOMAIN offered \ {m} |-> offered[n]]
    /\ offered' # offered
    /\ UNCHANGED <<priceClock, collector, prices, lastFetch, priceRows, cycle>>

\* Time passes in a sleep, and while the live source is asked; the other prices are
\* read from the code, without waiting
PriceTick ==
    /\ \/ collector.phase = "asleep" /\ priceClock < collector.wake
       \/ collector.running = {"live"} /\ priceClock < collector.wake + LongestFetch
    /\ priceClock < MaxPriceTime
    /\ priceClock' = priceClock + 1
    /\ UNCHANGED <<offered, collector, prices, lastFetch, priceRows, cycle>>

PricesNext ==
    WakeUp \/ FetchStatic \/ FetchLive \/ FetchBundled \/ EndCycle \/ RestartCollector \/ Reprice \/ PriceTick
PricesSpec == PricesInit /\ [][PricesNext]_priceVars

-----------------------------------------------------------------------------
(* What the exchange shows *)

Cheaper(m, n) == prices[m].price <= prices[n].price

\* The vendors of a family
SoldAs(family) == {m \in DOMAIN prices : Listing[m].family = family}

\* Variant of CheapestSource: the vendors are sorted the other way round
CheapestDescending(family) ==
    LET first == CHOOSE m \in SoldAs(family) : \A n \in SoldAs(family) : Cheaper(n, m)
    IN  IF Min(ExchangePrices[family]) <= Min({prices[m].price : m \in SoldAs(family)})
        THEN "inference-exchange" ELSE Listing[first].source

\* get_reference_prices of routes_exchange.py: whom it names as the cheapest of a family that is
\* sold here and elsewhere
CheapestSource(family) ==
    LET first == CHOOSE m \in SoldAs(family) : \A n \in SoldAs(family) : Cheaper(m, n)
    IN  IF Min(ExchangePrices[family]) <= prices[first].price
        THEN "inference-exchange" ELSE Listing[first].source

Day(t) == t \div DayLength
PlaceOf(r) == <<Day(r.at), Listing[r.model].source>>
PlacesOf(rows) == {PlaceOf(r) : r \in rows}

\* Variant of Overwrite: the first row of a day stays
OverwriteNone(shown, rows) ==
    Over(shown, [place \in PlacesOf(rows) |-> CHOOSE r \in rows : Listing[r.model].source = place[2]])

\* get_reference_price_history: the rows of a family in the order of time, each of which takes the
\* place of the one shown for its day and source
Overwrite(shown, rows) ==
    Over([place \in PlacesOf(rows) |-> CHOOSE r \in rows : Listing[r.model].source = place[2]], shown)
RowsAt(family) ==
    [i \in 1 .. MaxPriceTime + 1 |-> {r \in priceRows : Listing[r.model].family = family /\ r.at = i - 1}]
History(family) == FoldLeft(Overwrite, <<>>, RowsAt(family))

-----------------------------------------------------------------------------
(* The variables have their types; what runs was due. *)
PricesTypeOK ==
    /\ priceClock \in 0 .. MaxPriceTime
    /\ DOMAIN offered \subseteq DOMAIN BundledPrices
    /\ \A m \in DOMAIN offered : offered[m] \in Nat
    /\ collector \in [phase : {"off", "fetching", "asleep"}, running : SUBSET Fetchers, wake : Nat]
    /\ collector.phase # "fetching" => collector.running = {}
    /\ DOMAIN prices \subseteq DOMAIN Listing
    /\ \A m \in DOMAIN prices : prices[m] \in [price : Nat, at : 0 .. priceClock]
    /\ DOMAIN lastFetch \subseteq Fetchers
    /\ \A f \in DOMAIN lastFetch : lastFetch[f] \in 0 .. priceClock
    /\ priceRows \subseteq Row
    /\ cycle \in [at : 0 .. priceClock, saved : BOOLEAN, pruned : BOOLEAN]

(* While the collector sleeps, the table holds every price of the cache, as it was stamped, unless *)
(* the last write failed or the price is past the age of deletion: also the prices of models that  *)
(* were withdrawn, of the source that was not due, and of cycles whose write failed.               *)
HistoryHoldsCurrent ==
    collector.phase = "asleep" /\ cycle.saved =>
        \A m \in DOMAIN prices :
            \/ [model |-> m, price |-> prices[m].price, at |-> prices[m].at] \in priceRows
            \/ cycle.pruned /\ prices[m].at < cycle.at - PruneAge

(* A cycle that deleted leaves no row past the age, although the cache never forgets a withdrawn   *)
(* model and the same cycle writes its old price again.                                            *)
OldPricesLeave ==
    collector.phase = "asleep" /\ cycle.pruned => \A r \in priceRows : r.at >= cycle.at - PruneAge

(* A sleep may end before a source is due, which then waits for the next wake-up: the last attempt *)
(* at the live prices is never longer ago than their time to live and one longest sleep; those of  *)
(* the code, which wait with the whole cycle for a slow live source, may be a longest fetch older. *)
PricesAreRefreshed ==
    collector.phase = "asleep" =>
        /\ DOMAIN StaticPrices \subseteq DOMAIN prices /\ "live" \in DOMAIN lastFetch
        /\ \A m \in DOMAIN StaticPrices : priceClock - prices[m].at < StaticTtl + LongestSleep + LongestFetch
        /\ priceClock - lastFetch["live"] < LiveTtl + LongestSleep

(* A failed fetch, an empty answer or a withdrawn model takes no price from the listing: until a   *)
(* restart the cache only grows.                                                                   *)
KnownPricesStay ==
    [][collector'.phase # "off" => DOMAIN prices \subseteq DOMAIN prices']_priceVars

(* The history shows for a day and source a price fetched last on that day, whatever was restarted *)
(* in between and however often a row was written.                                                 *)
HistoryShowsTheLatest ==
    \A family \in DOMAIN ExchangePrices :
        LET shown == History(family)
        IN  \A r \in priceRows : Listing[r.model].family = family =>
                PlaceOf(r) \in DOMAIN shown /\ shown[PlaceOf(r)].at >= r.at

(* The source named the cheapest of a family asks no more than anybody in the listing. *)
CheapestIsNamed ==
    \A family \in DOMAIN ExchangePrices : SoldAs(family) # {} =>
        LET named == CheapestSource(family)
            asked(source) == IF source = "inference-exchange" THEN ExchangePrices[family]
                             ELSE {prices[m].price : m \in {n \in SoldAs(family) : Listing[n].source = source}}
        IN  \A source \in {Listing[m].source : m \in SoldAs(family)} \union {"inference-exchange"} :
                Min(asked(named)) <= Min(asked(source))

(* Cache, table and views agree, stay fresh and stay bounded.                                       *)
PricesAreKept ==
    /\ [](PricesTypeOK /\ HistoryHoldsCurrent /\ OldPricesLeave /\ PricesAreRefreshed
           /\ HistoryShowsTheLatest /\ CheapestIsNamed)
    /\ KnownPricesStay

=============================================================================
