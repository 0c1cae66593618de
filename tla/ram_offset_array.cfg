\* RamGraphWriter.
SPECIFICATION Spec
CONSTANTS
  Writers = {"Ram"}
  Graphs <- MCGraphs
  DegreeSpace = 5
  TypeSpace = 4
  MaxCount = 5
INVARIANT NoAccessOutside
\* The program ends.
CHECK_DEADLOCK FALSE
