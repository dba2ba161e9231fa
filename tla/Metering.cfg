SPECIFICATION FairSpec
CONSTANTS
  Request = {1, 2}
  BufferSize = 1
  BatchSize = 2
  LogBuffer = 1
  LastWindow = 1
  Budget = 1
  Kinds <- MCKinds
  Costs = {2}
  Rules <- MCRules
  Quota = 1
  ClassicMax = 1
INVARIANTS
  CountedOnce
  AnswersAreCounted
  LimitedOnlyWhenUsedUp
PROPERTIES
  SumsSettle
CHECK_DEADLOCK FALSE
