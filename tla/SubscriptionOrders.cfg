SPECIFICATION FairSpec
CONSTANTS
  Session = {s1, s2}
  Order = {o1, o2}
  NoOrder = NoOrder
  Pod = {p1, p2}
  Tiers = {1, 2}
  Currencies = {"CNY"}
  Term = 1
  MaxTime = 2
  Budget <- MCBudget
INVARIANTS
  DeliveredOnce
PROPERTIES
  DeliveryReplaces
  SweepSparesRenewal
  CoverageKept
  PaidIsDelivered
  LapsedIsReplaced
