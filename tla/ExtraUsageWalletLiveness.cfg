SPECIFICATION FairSpec
CONSTANTS
  o1 = o1
  Session = {s1, s2}
  NoSession = NoSession
  Order = {o1, o2}
  NoOrder = NoOrder
  Credits <- MCCredits
  Costs = {2}
  Grants = {5}
  Limits = {0, 3}
  DailyCap = 4
  Budget <- MCOrderBudget
PROPERTY
  PaidIsSettled
