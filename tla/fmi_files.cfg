\* Complete and truncated files of all four formats.
SPECIFICATION FairSpec
CONSTANTS
  MaxRecords = 2
  ByteSpace = 2
  Graphs <- MCGraphs
INVARIANTS
  TypeOK
  RoundTrip
  OnlyTheLastIsWrong
  LosesAtMostOne
PROPERTY
  Termination
\* The reader returns, throws or crashes.
CHECK_DEADLOCK FALSE
