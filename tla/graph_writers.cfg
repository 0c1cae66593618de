\* All writers but RamGraphWriter, with and without -s; degrees wrap around at 5.
SPECIFICATION Spec
CONSTANTS
  Writers = {"Static", "Topology", "Plot", "Drop"}
  Graphs <- MCGraphs
  DegreeSpace = 5
  TypeSpace = 4
  MaxCount = 5
INVARIANTS
  TypeOK
  EdgesLieAtTheirSource
  AllSlotsTaken
  NoAccessOutside
  ProtocolKept
  DropComplainsRightly
  FileHasLayout
\* The program ends.
CHECK_DEADLOCK FALSE
