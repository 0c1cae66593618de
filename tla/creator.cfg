\* One extract, and two that are read together and may share nodes and ways.
SPECIFICATION FairSpec
CONSTANTS
  n1 = n1
  n2 = n2
  n3 = n3
  n4 = n4
  w1 = w1
  w2 = w2
  here = here
  there = there
  NodeIds <- MCNodeIds
  WayIds <- MCWayIds
  Locations <- MCLocations
  Bounds <- MCBounds
  HighwayValues <- MCHighwayValues
  HwTagIds <- MCHwTagIds
  Streams <- MCStreams
  Options <- MCOptions
  IdSpace = 16
  DegreeSpace = 16
INVARIANTS
  TypeOK
  HeaderMatchesOutput
  IdsNamePositions
  EdgesResolve
  NodesAreNeeded
  InvalidWaysLackNodes
  DegreesMatchEdges
PROPERTY Termination
\* The program ends.
CHECK_DEADLOCK FALSE
