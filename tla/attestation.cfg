CONSTANTS
  p1 = p1
  p2 = p2
  p3 = p3
  NoProvider = NoProvider
  Providers = {p1, p2, p3}
  Honest = {p1}
  Claim <- Claims
  CHALLENGE_INTERVAL = 6
  TIMEOUT_CHECK_INTERVAL = 2
  CHALLENGE_TIMEOUT = 3
  Stall = 1
  Reply = 2
SPECIFICATION MCSpec
INVARIANTS
  HonestIsNotDegraded
  EvidenceIsFresh
PROPERTIES
  RoundSkipsNobody
  EveryoneIsJudged
CHECK_DEADLOCK FALSE
