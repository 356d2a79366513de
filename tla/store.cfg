SPECIFICATION MCSpec
CONSTANTS
    Owners = {o1}
    Requests = {1, 2, 3}
    None = None
    Retention = 1
    MaxRows = 2
    MaxClock = 2
    MaxEpoch = 1
    Credentials = {c1, c2}
    PrincipalIds = {p1, p2, p3}
    KeyIds = {k1, k2}
    MaxDeploys = 1
    MaxStops = 1
    Legacy = {l1, l2}
    Stable = {s1, s2}
    Txs = {1, 2, 3}
    MaxScriptRuns = 2
PROPERTIES
  HistoryIsTrue
  DeploymentIsSafe
  ConsolidationIsExact
  StoreProgresses
CHECK_DEADLOCK FALSE
