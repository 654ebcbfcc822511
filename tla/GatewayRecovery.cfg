SPECIFICATION Spec
CONSTANTS
  NumSources = 1
  MaxVisible = 2
  MaxGeneration = 2
  NumConsumers = 1
  MaxSequence = 1
  MaxRequests = 2
  MaxInternal = 1
  InitTimeout = 1
  OpTimeout = 1
  FenceTimeout = 1
  StableInterval = 2
  MaxAttempts = 2
  MaxProjection = 2
  MaxSurface = 2
  MaxEffect = 0
  MaxToken = 0
  WriteFailures = {"transient", "persistent"}
  Inputs = {"call", "garbled", "error", "violation", "surface", "late", "surfaceSet", "time"}
INVARIANTS
  QuarantineExact
  NoTornScreen
PROPERTIES
  HistoryKept
CHECK_DEADLOCK FALSE
