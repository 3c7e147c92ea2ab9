SPECIFICATION FairSpec
CONSTANTS
  deploy = deploy
  redeploy = redeploy
  stack = stack
  child = child
  removal = removal
  legacy = legacy
  name = name
  app = app
  gone = gone
  other = other
  stk = stk
  Nobody = Nobody
  NonOp = NonOp
  NoParent = NoParent
  Op = {stack, child, removal, redeploy, legacy}
  Key = {name, app, gone, other, stk}
  AppKey = {name, app, gone, other}
  Def <- QueueDef
  MaxConcurrent = 1
  MaxCompensationAttempts = 2
  MaxCrashes = 1
  MaxRequests = 1
PROPERTIES NoOvertaking EventuallySettles
CHECK_DEADLOCK FALSE
