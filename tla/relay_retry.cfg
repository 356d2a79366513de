CONSTANTS
  r1 = r1
  r2 = r2
  r3 = r3
  p1 = p1
  p2 = p2
  p3 = p3
  NoProvider = NoProvider
  Requests = {r1}
  Providers = {p1, p2, p3}
  Serves <- AllServe
  Slots <- OneSlot
  QueueMaxDepth = 1
  Streamed = {r1}
  ChargeMayFail = TRUE
  BadKeys = {p3}
  MaxAnswers = 2
  MaxChunks <- ChunksOfStreamed
  Leftover = 0
SPECIFICATION Spec

  
PROPERTIES
  ImplementsContract
CHECK_DEADLOCK FALSE
SYMMETRY InterchangeableProviders
CONSTRAINT TwoConnect
