SPECIFICATION FairSpec
CONSTANTS
  Key = {k1}
  Session = {s1, s2}
  Request = {r1}
  Role = {"owner", "developer"}
  Budget = 2
PROPERTIES
  RemovedIsRefused
  FactsSettle
CHECK_DEADLOCK FALSE
