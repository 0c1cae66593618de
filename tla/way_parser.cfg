\* Two blocks with different string tables.
SPECIFICATION Spec
CONSTANTS
  n = n
  NodeIds = {n}
  WayIds = {}
  Locations = {}
  Bounds = {}
  HighwayValues <- MCHighwayValues
  HwTagIds <- MCHwTagIds
  Inputs <- MCInputs
  Processors = {{}, {"maxspeed"}}
  Values <- MCValues
  TypeSpeed <- MCTypeSpeed
  Lengths = {1, 36}
  timeMult = 100
INVARIANTS
  TypeOK
  CallsMatchTags
  StoredTagsAreOfThisWay
  SpeedsMatchTags
  WeightsAreDefined
\* The program goes on with the next pass.
CHECK_DEADLOCK FALSE
