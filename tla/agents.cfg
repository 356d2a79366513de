SPECIFICATION MCSpec
CONSTANTS
    Requests = {r1}
    MaxRestarts = 3
    MaxConns = 2
    MaxCrashes = 3
    Jobs = {j1, j2, j3}
    MaxLinks = 3
INVARIANTS
  LegacyLoadIsTrue
PROPERTIES
  AgentIsTidy
  AgentsRecover
CHECK_DEADLOCK FALSE
