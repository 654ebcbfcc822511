SPECIFICATION FairSpec
CONSTANTS
  NumSources = 1
  MaxVisible = 2
  MaxGeneration = 1
  NumConsumers = 1
  MaxSequence = 1
  MaxRequests = 2
  MaxInternal = 1
  InitTimeout = 1
  OpTimeout = 1
  FenceTimeout = 1
  StableInterval = 1
  MaxAttempts = 1
  MaxProjection = 1
  MaxSurface = 1
  MaxEffect = 0
  MaxToken = 0
  WriteFailures = {"transient"}
  Inputs = {"call", "garbled", "time"}
PROPERTIES
  EveryCallAnswered
