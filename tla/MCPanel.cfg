SPECIFICATION FairSpec
CONSTANTS
  base = base
  good = good
  bad = bad
  None = None
  Image = {base, good, bad}
  Schema <- Schemas
  Sound = {base, good}
  First = base
  NumReleases = 2
  MaxWrites = 2
  MaxMishaps = 1
INVARIANTS TypeOK WritesKept Readable
PROPERTY ServesAgain
CHECK_DEADLOCK FALSE
