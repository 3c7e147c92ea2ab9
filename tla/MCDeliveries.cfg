SPECIFICATION Spec
CONSTANTS
  old = old
  new = new
  manual = manual
  None = None
  Delivery = {old, new, manual}
  Release = {manual}
  Commit <- CommitDef
  At <- AtDef
  MaxOps = 3
  MaxCrashes = 1
INVARIANTS TypeOK OneWorkPerDelivery
PROPERTIES LiveMovesForward DeployedIsLive
CHECK_DEADLOCK FALSE
