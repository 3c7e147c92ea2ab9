SPECIFICATION FairSpec
CONSTANTS
  web = web
  one = one
  None = None
  App = {web}
  Pool = {one}
  Slot = {1, 2}
  MaxChanges = 2
  MaxMishaps = 2
INVARIANT TypeOK
PROPERTY Wired
CHECK_DEADLOCK FALSE
