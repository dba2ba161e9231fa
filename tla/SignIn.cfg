SPECIFICATION FairSpec
CONSTANTS
  Person = {alice}
  Tab = {t1, t2}
  Poll = {q1, q2}
  MaxProjects = 1
  Budget = 2
INVARIANTS
  TokensHandedOutOnce
  OneDefaultProject
PROPERTIES
  RefusedForGood
  DeviceIsTold
CHECK_DEADLOCK FALSE
