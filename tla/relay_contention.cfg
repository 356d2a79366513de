CONSTANTS
  r1 = r1
  r2 = r2
  r3 = r3
  p1 = p1
  p2 = p2
  p3 = p3
  NoProvider = NoProvider
  Requests = {r1, r2, r3}
  Providers = {p1, p3}
  Serves <- AllServe
  Slots <- OneSlot
  QueueMaxDepth = 2
  Streamed = {}
  ChargeMayFail = FALSE
  BadKeys = {p3}
  MaxAnswers = 1
  MaxChunks <- NoChunks
  Leftover = 1
SPECIFICATION Spec
INVARIANTS
  NoLostWaiter
  ClearedIsNeverServed
PROPERTIES
  FifoDispatch
CHECK_DEADLOCK FALSE
SYMMETRY Interchangeable
CONSTRAINT BadKeyComesLate
