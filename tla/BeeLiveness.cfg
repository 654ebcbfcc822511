SPECIFICATION BeeSpec
CONSTANTS
  t1 = t1
  t2 = t2
  p1 = p1
  p2 = p2
  w = w
  Tab = {t1, t2}
  Pane = {p1, p2}
  Workspace = {w}
  NoTab = noTab
  Layouts <- MCLayouts
  Destination = {t2, p2, w}
  FirstTab = t1
  MaxRequests = 3
  MaxMoves = 1
  MaxPending = 2
  None = None
  Proc = {p1, p2}
  MaxVersion = 2
  NoVersion = none
INVARIANTS
  BarriersKeepVisibility
  ShownIsPinned
  TornIsRepaired
PROPERTIES
  NavigationsSettle
  SuccessIsActive
  PublisherComesBack
CHECK_DEADLOCK FALSE
