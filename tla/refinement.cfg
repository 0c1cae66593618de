\* The creator implements GraphExtraction; three nodes do not fit into the id space.
SPECIFICATION FairSpec
CONSTANTS
  n1 = n1
  n2 = n2
  n3 = n3
  n4 = n4
  w1 = w1
  w2 = w2
  here = here
  there = there
  NodeIds <- FourNodeIds
  WayIds <- MCWayIds
  Locations <- MCLocations
  Bounds <- MCBounds
  HighwayValues <- MCHighwayValues
  HwTagIds <- MCHwTagIds
  Streams <- RefinementExtracts
  Options <- RefinementOptions
  IdSpace = 3
  DegreeSpace = 16
INVARIANT AbortsOnlyOnOverflow
PROPERTY KeepsPromise
\* The program ends.
CHECK_DEADLOCK FALSE
