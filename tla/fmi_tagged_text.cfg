SPECIFICATION Spec
CONSTANTS
  MaxRecords = 2
  ByteSpace = 2
  Graphs <- MCGraphs
INVARIANT
  TaggedTextIsRead
\* The reader returns, throws or crashes.
CHECK_DEADLOCK FALSE
