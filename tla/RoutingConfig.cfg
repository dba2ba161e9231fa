SPECIFICATION FairSpec
CONSTANTS
  Model = {m1}
  Upstream = {u1}
  Group = {g1, g2}
  Route <- Routes
  RouteRow <- RouteRows
  Admin = {a1, a2}
  Budget = 2
INVARIANT ViewsMirrorMatch
PROPERTIES DanglesOnlyByRace Recovers
CHECK_DEADLOCK FALSE
