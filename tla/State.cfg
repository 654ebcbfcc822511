SPECIFICATION StateSpec
CONSTANTS
  Owner = {a, b, c, d}
  Wanted <- WorkerNames
  MaxNames = 3
  Key = {a, b}
  once = once
  many = many
  more = more
  Token <- MCToken
  Limit <- MCLimit
  MaxKeys = 3
  MaxTokens = 2
  NoToken = NoToken
PROPERTIES
  NamesStable
INVARIANTS
  NamesUnique
  KeysAreCounted
  LimitKept
  NobodyLockedOut
