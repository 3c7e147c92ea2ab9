SPECIFICATION FairSpec
CONSTANTS
  NumVolumes = 1
  Kinds = {"deploy", "redeploy", "attach", "adopt", "detach", "remount", "destroy", "move"}
  MaxOps = 2
  MaxFaults = 2
  MaxCrashes = 1
INVARIANTS TypeOK NoVolumeForgotten
PROPERTIES DoneIsWhole RollbackServes OwnedVolumeKept DeletionEnds Homed
CHECK_DEADLOCK FALSE
