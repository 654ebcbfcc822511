SPECIFICATION FairSpec
CONSTANTS
  p = p
  q = q
  c = c
  bee = bee
  user = user
  Conn = {p, c}
  Device = {bee, user}
  DeviceOf <- OnceDeviceOf
  Bees = {p}
  Handler = {h1}
  Stream = {x}
  Kinds = {"client", "query", "api", "viewer"}
  MaxConns = 2
  MaxViewers = 1
  NoConn = NoConn
PROPERTIES
  ConnEnds
  ServeReturns
CHECK_DEADLOCK FALSE
