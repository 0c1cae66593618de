\* Two extracts that share nodes: some edges have no end.
SPECIFICATION FairSpec
CONSTANTS
  n1 = n1
  n2 = n2
  n3 = n3
  n4 = n4
  w1 = w1
  w2 = w2
  here = here
  there = there
  NodeIds <- MCNodeIds
  WayIds <- MCWayIds
  Locations <- MCLocations
  Bounds <- MCBounds
  HighwayValues <- MCHighwayValues
  HwTagIds <- MCHwTagIds
  Streams <- TwoExtracts
  Options <- NoBounds
  IdSpace = 16
  DegreeSpace = 16
INVARIANT EdgesPointToNodes
\* The program ends.
CHECK_DEADLOCK FALSE
