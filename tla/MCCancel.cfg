SPECIFICATION Spec
CONSTANTS
  deploy = deploy
  redeploy = redeploy
  stack = stack
  child = child
  removal = removal
  legacy = legacy
  name = name
  app = app
  gone = gone
  other = other
  stk = stk
  Nobody = Nobody
  NonOp = NonOp
  NoParent = NoParent
  Op = {deploy}
  Key = {name, app}
  AppKey = {name, app}
  Def <- SagaDef
  MaxConcurrent = 1
  MaxCompensationAttempts = 2
  MaxCrashes = 1
  MaxRequests = 1
INVARIANT CancelledClean
CHECK_DEADLOCK FALSE
