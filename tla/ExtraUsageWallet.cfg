SPECIFICATION Spec
CONSTANTS
  o1 = o1
  Session = {s1, s2, s3}
  NoSession = NoSession
  Order = {o1}
  NoOrder = NoOrder
  Credits <- MCCredits
  Costs = {2}
  Grants = {5}
  Limits = {0, 3}
  DailyCap = 0
  Budget <- MCBudget
INVARIANTS
  TypeOK
  LedgerExplainsBalance
  AtMostOncePerOrder
  StatusBacked
PROPERTIES
  DeliveredNeverReopened
  OverLimitOnlyByRace
  ImplementsAccount
