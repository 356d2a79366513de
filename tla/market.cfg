SPECIFICATION MCSpec
CONSTANTS
    c1 = c1
    c2 = c2
    owner1 = owner1
    s1 = s1
    e2 = e2
    i1 = i1
    i2 = i2
    i3 = i3
    Unit = 12
    OrderKinds <- MCOrders
    OfferKinds <- MCOffers
    MaxOrders = 3
    MaxOffers = 2
    Connections = {c1, c2}
    Capabilities <- MCCapabilities
    SessionIds = {s1, s2}
    NoSession = NoSession
    Requests <- MCRequests
    OutcomeKinds = {"fast", "disconnect", "timeout"}
    MaxAffinity = 1
    Scale = 6250
    MaxSent = 1
    MaxOutcomes = 5
    Consumers = {owner1}
    Burst = 2
    PerRequest = 2
    Peers = {p, q}
    SignInLimit = 2
    SignInWindow = 2
    Owners = {owner1, o2, o3}
    OwnerLimit = 1
    PeerLimit = 2
    EnrollWindow = 2
    Credentials = {k1, k2, k3}
    CredentialLimit = 2
    CredentialWindow = 2
    MaxBuckets = 2
    MaxTime = 5
    ExpectedTps <- MCTable
    Hardware <- MCHardware
    Sizes = {"7b", "13b", "2b"}
    Speeds = {1, 9, 40}
    SpeedUnit = 160000
    MaxMeasured = 5
    Clients = {d1}
    RequestIds = {r1}
    NoRequest = NoRequest
    MaxHistory = 2
    MaxEvents = 3
    MaxRuns = 2
    Callers = {owner1, b, c, anon}
    Anonymous = anon
    CompletionIds = {i1, i2, i3}
    Routes = {t1, t2}
    MinRequests = 2
    MinConsumers = 2
    MaxCompletions = 3
    MaxRoutes = 1
    MaxDay = 2
    SessionNames = {e1, e2}
    Ephemerals = {x1}
    Admissions = {a1}
    MaxSaid = 2
    MaxDamaged = 0
    ManagedAgents = {"m1"}
    PlainAgents = {"p1"}
    MaxKeys = 2
    MaxCalls = 2
    MaxTokens = 2
    Listing <- MCListing
    StaticPrices <- MCStaticPrices
    BundledPrices <- MCBundledPrices
    ExchangePrices <- MCExchangePrices
    Prices = {3}
    LiveTtl = 2
    StaticTtl = 2
    Jitters = {1, 2}
    LongestFetch = 1
    PruneAge = 2
    DayLength = 3
    MaxPriceTime = 5
    Repos = {"quant", "base"}
    NoRepo = NoRepo
    Nodes = {n1}
    Contexts = {4, 8}
    RetryAfter = 2
    MaxHubTime = 3
INVARIANTS
  MatchingIsFair
  RoutingIsSound
  SpeedIsPlausible
  ChannelIsFaithful
  CallsAreFaithful
  CapabilitiesAreFound
  TelemetryIsComplete
PROPERTIES
  ThrottlesHold
  CountsStayPrivate
  PricesAreKept
  NothingLingers
CHECK_DEADLOCK FALSE
