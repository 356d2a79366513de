-------------------------------- MODULE MCMarket --------------------------------
(***************************************************************************)
(* Instances of what decides and records beside the relay, and of the      *)
(* client side of a request.  The parts do not share state, so a behaviour *)
(* moves one of them, its `marketFocus`,                                   *)
(* and the state space is the sum and not the product of theirs.           *)
(***************************************************************************)
EXTENDS Matching, Routing, Throttles, Throughput, Telemetry, CountryActivity,
        EndToEnd, ConsumerSdk, ReferencePrices, ModelCapabilities

CONSTANTS c1, c2, owner1, s1, e2, i1, i2, i3

VARIABLE marketFocus

Cap(models, price, speed, level, total) ==
    [models |-> models, price |-> price, speed |-> speed, level |-> level, total |-> total]
MCCapabilities == c1 :> Cap({"m1"}, 1, 10, 2, 1) @@ c2 :> Cap({"m1", "m2"}, 2, 10, 1, 1)

MCRequests ==
    {[model |-> "default", preference |-> "balanced", floor |-> 0, ceiling |-> 3],
     [model |-> "m1", preference |-> "cheapest", floor |-> 2, ceiling |-> 1]}

Order(model, ceiling, floor, preference, affinity_, expired, at) ==
    [model |-> model, ceiling |-> ceiling, floor |-> floor, preference |-> preference,
     affinity |-> affinity_, expired |-> expired, at |-> at]
MCOrders ==
    {Order("default", 3, 0, "cheapest", 0, FALSE, 1), Order("m1", 3, 0, "fastest", 1, FALSE, 0),
     Order("m1", 1, 2, "balanced", 0, FALSE, 2), Order("m2", 3, 1, "most_secure", 2, FALSE, 1),
     Order("default", 3, 0, "balanced", 0, TRUE, 0)}

Offer(capability, used, reputation_) == capability @@ [used |-> used, reputation |-> reputation_]
MCOffers ==
    {Offer(Cap({"m1"}, 1, 10, 2, 1), 0, 2), Offer(Cap({"m1", "m2"}, 3, 30, 3, 2), 1, 1),
     Offer(Cap({"m2"}, 0, 0, 0, 2), 0, 0), Offer(Cap({"m1"}, 1, 30, 2, 1), 1, 2),
     Offer(Cap({"m1", "m2"}, 1, 10, 2, 2), 0, 1)}

MCTable ==
    <<<<<<"apple", "m4">>, "7b", 40>>, <<<<"apple", "m4", "pro">>, "7b", 60>>,
      <<<<"apple", "m4", "pro">>, "13b", 35>>, <<<<"unknown">>, "7b", 10>>>>
MCHardware == {<<"apple", "m4", "pro", "48gb">>, <<"apple", "m4">>, <<"intel">>}

Vendor(source, family) == [source |-> source, family |-> family]
MCListing == "llama-a" :> Vendor("openrouter", "llama") @@ "llama-b" :> Vendor("openrouter", "llama")
          @@ "llama-c" :> Vendor("groq", "llama") @@ "gpt" :> Vendor("openai", "gpt")
MCStaticPrices == "llama-c" :> 2 @@ "gpt" :> 3
MCBundledPrices == "llama-a" :> 1 @@ "llama-b" :> 2
MCExchangePrices == "llama" :> {2}

Knows(context, tools) == [context |-> context, tools |-> tools]

-----------------------------------------------------------------------------
\* Routing with two connections, of which one may leave and one has up to three good or bad
\* outcomes; reputation with one connection and as many outcomes as its average can hold.
\* Session names may be exchanged for one another.
RoutingPart ==
    /\ marketFocus = "routing" /\ RoutingNext /\ OutcomesSoFar' <= 3 /\ gone' # Connections
    /\ reputation'[c2] = reputation[c2]
    /\ \A i \in DOMAIN affinity' : affinity = <<>> => affinity'[i][1] = s1
    /\ \A c \in Connections : \A i \in DOMAIN reputation'[c].recent : reputation'[c].recent[i] # "timeout"
ReputationPart ==
    /\ marketFocus = "reputation" /\ RoutingNext
    /\ online' \in {<<>>, <<c1>>} /\ routable' = OnlineNow' /\ gone' = {} /\ affinity' = <<>>

LetThrough == MapThenSumSet(LAMBDA k : Len(passed[k]), DOMAIN passed)

ThrottlesPart(kinds) ==
    \/ Tick
    \/ kinds = "ask" /\ LetThrough < 7 /\ \E c \in Consumers : Ask(c)
    \/ kinds = "sign-in" /\ LetThrough < 6 /\ \E p \in Peers : SignIn(p)
    \/ kinds = "enroll" /\ LetThrough < 6 /\ \E p \in Peers, o \in Owners : Enroll(o, p)
    \/ kinds = "register" /\ LetThrough < 4 /\ \E k \in Credentials : Register(k)

\* Sessions may be exchanged for one another: one of two is read from, the other is there
\* for its messages to be delivered to the wrong end
ChannelPart ==
    ChannelNext /\ \A side \in Sides : ends[side][e2].open => ends'[side][e2].got = <<>>

\* Completions may be exchanged for one another: they are counted in order
CompletionsInOrder == {k[2] : k \in counted'} \in {{}, {i1}, {i1, i2}, {i1, i2, i3}}

\* The live source withdraws a model or raises a price once, one step of a cycle fails at most,
\* and one restart happens
PricesPart ==
    /\ PricesNext
    /\ offered' # offered => offered = MCBundledPrices
    /\ cycle' # cycle => cycle'.saved \/ cycle'.pruned
    /\ collector'.phase = "off" => priceClock = 2

\* Providers that know nothing or their context length
CapabilitiesPart ==
    \/ \E n \in Nodes, repo \in Repos \union {NoRepo}, own \in {Nothing, Knows(4, FALSE)}, half \in BOOLEAN :
          RegisterModel(n, [repo |-> repo, own |-> own, header |-> Knows(8, FALSE)], half)
    \/ (\E n \in Nodes : LeaveHub(n)) \/ HubFlips \/ HubTick

ThrottleKinds == {"ask", "sign-in", "enroll", "register"}

MCInit ==
    /\ MatchingInit /\ RoutingInit /\ ThrottlesInit /\ ThroughputInit
    /\ TelemetryInit /\ ActivityInit /\ ChannelInit /\ SdkInit /\ PricesInit /\ CapabilitiesInit
    /\ marketFocus \in {"matching", "routing", "reputation", "throughput", "telemetry", "activity",
                        "channel", "sdk", "prices", "capabilities"}
                       \union ThrottleKinds
    /\ marketFocus = "sdk" \/ ~transport.fallback
    /\ offered = MCBundledPrices /\ (marketFocus = "capabilities" \/ hubUp)
    /\ baseOf = ("quant" :> "base" @@ "base" :> NoRepo)
    /\ \/ files = ("base" :> Knows(8, TRUE))
       \/ /\ marketFocus = "capabilities"
          /\ files \in {<<>>, "base" :> Knows(8, FALSE) @@ "quant" :> Knows(4, TRUE)}

\* The parts of the coordinator
ServerNext ==
    /\ UNCHANGED <<channelVars, sdkVars, priceVars, capabilityVars>>
    /\ \/ /\ marketFocus = "matching" /\ MatchingNext
          /\ UNCHANGED <<routingVars, throttleVars, throughputVars, telemetryVars, activityVars>>
       \/ /\ RoutingPart \/ ReputationPart
          /\ UNCHANGED <<matchingVars, throttleVars, throughputVars, telemetryVars, activityVars>>
       \/ /\ marketFocus \in ThrottleKinds /\ ThrottlesPart(marketFocus)
          /\ UNCHANGED <<matchingVars, routingVars, throughputVars, telemetryVars, activityVars>>
       \/ /\ marketFocus = "throughput" /\ ThroughputNext
          /\ UNCHANGED <<matchingVars, routingVars, throttleVars, telemetryVars, activityVars>>
       \/ /\ marketFocus = "telemetry" /\ TelemetryNext
          /\ UNCHANGED <<matchingVars, routingVars, throttleVars, throughputVars, activityVars>>
       \/ /\ marketFocus = "activity" /\ ActivityNext /\ CompletionsInOrder
          /\ UNCHANGED <<matchingVars, routingVars, throttleVars, throughputVars, telemetryVars>>

serverVars ==
    <<matchingVars, routingVars, throttleVars, throughputVars, telemetryVars, activityVars>>
marketVars == <<serverVars, channelVars, sdkVars, priceVars, capabilityVars, marketFocus>>

MCNext ==
    /\ UNCHANGED marketFocus
    /\ \/ ServerNext
       \/ /\ marketFocus = "channel" /\ ChannelPart
          /\ UNCHANGED <<serverVars, sdkVars, priceVars, capabilityVars>>
       \/ /\ marketFocus = "sdk" /\ SdkNext
          /\ UNCHANGED <<serverVars, channelVars, priceVars, capabilityVars>>
       \/ /\ marketFocus = "prices" /\ PricesPart
          /\ UNCHANGED <<serverVars, channelVars, sdkVars, capabilityVars>>
       \/ /\ marketFocus = "capabilities" /\ CapabilitiesPart
          /\ UNCHANGED <<serverVars, channelVars, sdkVars, priceVars>>

MCSpec ==
    /\ MCInit /\ [][MCNext]_marketVars
    /\ \A c \in Clients : WF_marketVars(marketFocus = "telemetry" /\ Forward(c) /\ MCNext)
    /\ WF_marketVars(marketFocus = "activity" /\ Expire /\ MCNext)

\* Nothing of those who left stays: the feed of a browser that has gone (main.py),
\* the counters of a day that is over (country_activity.py).
NothingLingers == GoneFeedsEnd /\ OldDaysLeave
=============================================================================
