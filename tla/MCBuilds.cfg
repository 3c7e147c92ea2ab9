SPECIFICATION Spec
CONSTANTS
  shared = shared
  other = other
  None = None
  Free = Free
  Ci = Ci
  Host = {shared}
  CiHost = {shared}
  NumBuilds = 2
  NumTargets = 1
  MaxCrashes = 1
INVARIANT AdmissionExclusive
PROPERTY FencedPublication
CHECK_DEADLOCK FALSE
