SPECIFICATION Spec
CONSTANTS
  p = p
  q = q
  c = c
  bee = bee
  user = user
  Conn = {p, q, c}
  Device = {bee, user}
  DeviceOf <- MCDeviceOf
  Bees = {p, q}
  Handler = {h1}
  Stream = {x, y}
  Kinds = {"api", "viewer"}
  MaxConns = 2
  MaxViewers = 1
  NoConn = NoConn
INVARIANTS
  PublicationsAreReal
  ChannelsAreOwned
  ShutdownIsClean
PROPERTIES
  WithdrawnBeforeReplaced
SYMMETRY Sym
CHECK_DEADLOCK FALSE
