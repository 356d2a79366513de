CONSTANTS
  r1 = r1
  r2 = r2
  r3 = r3
  p1 = p1
  p2 = p2
  p3 = p3
  NoProvider = NoProvider
  Requests = {r1, r2}
  Providers = {p1}
  Serves <- AllServe
  Slots <- OneSlot
  QueueMaxDepth = 1
  Streamed = {r1}
  ChargeMayFail = FALSE
  BadKeys = {}
  MaxAnswers = 1
  MaxChunks <- ChunksOfCollected
  Leftover = 0
SPECIFICATION HeartbeatSpec
PROPERTIES
  EveryRequestEnds
  LoadRecovers
CHECK_DEADLOCK FALSE
