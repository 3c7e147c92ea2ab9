SPECIFICATION FairSpec
CONSTANTS
  shared = shared
  other = other
  None = None
  Free = Free
  Ci = Ci
  Host = {shared}
  CiHost = {shared}
  NumBuilds = 1
  NumTargets = 2
  MaxCrashes = 1
INVARIANTS TypeOK WholeResult
PROPERTIES BuildsSettle HostNotStranded
CHECK_DEADLOCK FALSE
