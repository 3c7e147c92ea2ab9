SPECIFICATION Spec
CONSTANTS
  web = web
  data = data
  NoMember = NoMember
  Members <- Two
  Needs <- WebNeedsData
  Requests <- Changes
  MaxRequests = 2
  MaxMishaps = 2
INVARIANTS TypeOK OneChildPerMember
PROPERTIES GatedLevels DoneIsDesired TornDown
CHECK_DEADLOCK FALSE
