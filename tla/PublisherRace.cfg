SPECIFICATION Spec
CONSTANTS
  s = s
  Session = {s}
  Cli = {a}
  Run = {r1}
  Stream = {x}
  Settings <- MCSettings
  MaxChanges = 1
  MaxReplaced = 3
  NoOne = NoOne
INVARIANTS
  StreamsReachTheirSession
