SPECIFICATION FairSpec
CONSTANTS
  s = s
  Session = {s}
  Cli = {a, b}
  Run = {r1, r2}
  Stream = {x}
  Settings <- MCSettings
  MaxChanges = 2
  MaxReplaced = 2
  NoOne = NoOne
INVARIANTS
  StreamsStayBound
  ChangesTakeEffect
PROPERTIES
  StaleIsWithdrawn
  ReloadsAreAnswered
