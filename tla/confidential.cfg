CONSTANTS
  r1 = r1
  r2 = r2
  p1 = p1
  NoProvider = NoProvider
  Requests = {r1, r2}
  Providers = {p1}
  Serves <- AllServe
  Slots <- OneSlot
  QueueMaxDepth = 1
  Streamed = {r2}
  Confidential = {r1, r2}
  ChargeMayFail = FALSE
  BadKeys = {}
  MaxAnswers = 1
  MaxChunks <- ChunksOfStreamed
  Leftover = 0
SPECIFICATION ConfidentialFairSpec
INVARIANTS
  ChargedAtTheEnd
PROPERTIES
  EveryRequestEnds
CHECK_DEADLOCK FALSE
