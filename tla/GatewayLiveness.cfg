SPECIFICATION FairSpec
CONSTANTS
  NumSources = 2
  MaxVisible = 2
  MaxGeneration = 1
  NumConsumers = 1
  MaxSequence = 1
  MaxRequests = 2
  MaxInternal = 1
  InitTimeout = 1
  OpTimeout = 2
  FenceTimeout = 2
  StableInterval = 2
  MaxAttempts = 1
  MaxProjection = 1
  MaxSurface = 1
  MaxEffect = 0
  MaxToken = 0
  WriteFailures = {"transient"}
  Inputs = {"call", "fence", "surfaceSet", "error", "time"}
INVARIANTS
  FenceKept
PROPERTIES
  EveryCallAnswered
  EveryFenceAnswered
