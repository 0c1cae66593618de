\* maxspeed tags of every kind.
SPECIFICATION Spec
CONSTANTS
  n = n
  NodeIds = {n}
  WayIds = {}
  Locations = {}
  Bounds = {}
  HighwayValues <- MCHighwayValues
  HwTagIds <- MCHwTagIds
  Inputs <- MCInputs
  Processors = {{}, {"maxspeed"}}
  Values <- MCValues
  TypeSpeed <- MCTypeSpeed
  Lengths = {1, 36}
  timeMult = 100
INVARIANT SpeedsMatchDocuments
\* The program goes on with the next pass.
CHECK_DEADLOCK FALSE
