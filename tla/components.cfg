\* The connected components of small graphs, for every kind of filter.
SPECIFICATION FairSpec
CONSTANTS
  Graphs <- MCGraphs
  Filters <- MCFilters
  MaxCount = 4
INVARIANTS
  TypeOK
  CursorsAligned
  FilesAreComponents
  FilesAreSorted
  FilterKeepsTheRightOnes
PROPERTIES
  KeepsPromise
  Termination
\* The program ends.
CHECK_DEADLOCK FALSE
