CONSTANTS
  r1 = r1
  r2 = r2
  p1 = p1
  NoProvider = NoProvider
  Requests = {r1, r2}
  Providers = {p1}
  Serves <- AllServe
  Slots <- OneSlot
  QueueMaxDepth = 1
  Streamed = {r2}
  Confidential = {r2}
  ChargeMayFail = FALSE
  BadKeys = {}
  MaxAnswers = 1
  MaxChunks <- NoChunks
  Leftover = 0
SPECIFICATION ConfidentialSpec
INVARIANTS
  FailedIsNotBilled
CHECK_DEADLOCK FALSE
