SPECIFICATION Spec
CONSTANTS
  deploy = deploy
  redeploy = redeploy
  stack = stack
  child = child
  removal = removal
  legacy = legacy
  name = name
  app = app
  gone = gone
  other = other
  stk = stk
  Nobody = Nobody
  NonOp = NonOp
  NoParent = NoParent
  Op = {deploy, redeploy}
  Key = {name, app}
  AppKey = {name, app}
  Def <- SagaDef
  MaxConcurrent = 2
  MaxCompensationAttempts = 3
  MaxCrashes = 1
  MaxRequests = 2
INVARIANTS TypeOK OneRunner RolledBackClean
PROPERTIES ImplementsSaga  DoneMeansDone
CHECK_DEADLOCK FALSE
