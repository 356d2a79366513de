CONSTANTS
  r1 = r1
  r2 = r2
  r3 = r3
  alice = alice
  node = node
  Requests = {r1, r2, r3}
  Payer <- OnePayer
  Accounts = {alice, node}
  Providers = {node}
  RawCosts <- CheapAndDear
  MaxCost <- Dearest
  Limits = {1, 2}
  MaxLimit = 2
  Production = FALSE
SPECIFICATION Spec
INVARIANTS
  AccountsReconcile
  BalancesAddUp
  OverdraftIsBounded
PROPERTIES
  LimitsHold
CHECK_DEADLOCK FALSE
