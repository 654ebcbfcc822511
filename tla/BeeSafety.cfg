SPECIFICATION BeeSpec
CONSTANTS
  s1 = s1
  s2 = s2
  v1 = v1
  v2 = v2
  v3 = v3
  Session = {s1, s2}
  p1 = p1
  p2 = p2
  Pane = {p1, p2}
  View = {v1, v2, v3}
  SessionOf <- MCSessionOf
  MaxSlots = 1
  Closing = {s1}
  NoLock = NoLock
  Nil = Nil
  h1 = h1
  h2 = h2
  wrong = wrong
  Hive = {h1, h2}
  WrongKey = wrong
  Invitations <- MCInvitations
  Keys = {k1, k2}
  OwnKey = own
  OwnHosts = hosts
  Manual = manual
  ManualHive = h1
  None = None
INVARIANTS
  HelpersCounted
  ClosedIsQuiet
  NoDeadlock
  JoinsResume
PROPERTIES
  StoppedForAReason
  JoinsAreSafe
SYMMETRY Sym
CHECK_DEADLOCK FALSE
