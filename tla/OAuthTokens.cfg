SPECIFICATION FairSpec
CONSTANTS
  Caller = {c1, c2}
  Life = 1
  Buffer = 1
  MaxTime = 1
  MaxTokens = 3
  Budget = 1
INVARIANTS
  RefreshTokenKept
  SafeUnlessDeleted
PROPERTIES
  CallsEndUnlessDeleted
  MemoryCatchesUp
