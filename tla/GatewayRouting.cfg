SPECIFICATION Spec
CONSTANTS
  NumSources = 2
  MaxVisible = 2
  MaxGeneration = 1
  NumConsumers = 2
  MaxSequence = 3
  MaxRequests = 2
  MaxInternal = 1
  InitTimeout = 1
  OpTimeout = 1
  FenceTimeout = 1
  StableInterval = 1
  MaxAttempts = 1
  MaxProjection = 1
  MaxSurface = 1
  MaxEffect = 0
  MaxToken = 0
  WriteFailures = {"transient"}
  Inputs = {"call", "focus", "chunk", "error", "time"}
INVARIANTS
  AnswersReachTheirCall
  TablesAgree
PROPERTIES
  NeverReplayed
  KeepsPromise
