SPECIFICATION FairSpec
CONSTANTS
  NumServers = 2
  Placements <- Both
  Declared <- Spread
  Kinds = {"move", "redeploy", "reload", "attest"}
  MaxAttempts = 2
  MaxOps = 1
  MaxFaults = 1
  MaxCrashes = 1
INVARIANTS TypeOK
PROPERTIES DrainKeepsSibling RedeployWhole Converges
CHECK_DEADLOCK FALSE
