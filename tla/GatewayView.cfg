SPECIFICATION Spec
CONSTANTS
  NumSources = 2
  MaxVisible = 2
  MaxGeneration = 1
  NumConsumers = 1
  MaxSequence = 0
  MaxRequests = 2
  MaxInternal = 1
  InitTimeout = 1
  OpTimeout = 1
  FenceTimeout = 1
  StableInterval = 1
  MaxAttempts = 1
  MaxProjection = 1
  MaxSurface = 1
  MaxEffect = 1
  MaxToken = 1
  WriteFailures = {"transient"}
  Inputs = {"call", "focus", "surfaceSet", "effect", "surface", "leave", "error", "unpublish", "broadcast", "input", "resize", "rename", "misuse", "time"}
INVARIANTS
  OneHolder
  ViewSettled
  ScreenIsCurrent
CHECK_DEADLOCK FALSE
