SPECIFICATION Spec
CONSTANTS
  web = web
  data = data
  NoMember = NoMember
  Members <- Two
  Needs <- WebNeedsData
  Requests <- Changes
  MaxRequests = 2
  MaxMishaps = 0
PROPERTIES DestroyTakesAll
CHECK_DEADLOCK FALSE
