------------------------------ MODULE FmiFiles ------------------------------
(***************************************************************************)
(* The FMI file formats: what the text and binary writers of               *)
(* creator/GraphWriter.cpp put into a file, and what FmiTextReader and     *)
(* FmiBinaryReader of readers/ make of the file they find.                 *)
(*                                                                         *)
(* The creator never looks at the state of its output stream, and writes   *)
(* straight into the file that a reader opens.  When it dies, or the disk  *)
(* is full, that file is a prefix of what it has written, and the reader   *)
(* has only the counts of the header to notice.                            *)
(*                                                                         *)
(* A file is a sequence of tokens: the lines of the header, the counts,    *)
(* and the fields of the records.  A cut inside a token leaves a partial   *)
(* one, which is a shorter number in a text file; in a binary file the     *)
(* record then ends behind the end of the file, just as if the token were  *)
(* not there, only that the high bytes of a count may be read.             *)
(*                                                                         *)
(* A definition like Enough_Always is a faulty variant of the one that  *)
(* follows it, used only to show that a property can fail.                 *)
(***************************************************************************)
EXTENDS Integers, Sequences, FiniteSets, Functions

CONSTANTS
  Graphs,     \* [format, type, nodeTags, edgeTags], see FileAssumption
  ByteSpace   \* how many values a byte has: 256

\* The last two say for each record whether its tag string is empty (0) or not.
ASSUME FileAssumption ==
  /\ Graphs \subseteq [format : {"text", "binary"}, type : {"standard", "maxspeed"},
                       nodeTags : Seq({0, 1}), edgeTags : Seq({0, 1})]
  /\ ByteSpace \in Nat \ {0, 1}

VARIABLES
  graph,      \* what is written; fixed
  written,    \* how many records have been written; -1: not even the header
  file,       \* the tokens of the file
  complete,   \* whether the creator has closed it
  separated,  \* whether there is white space behind the last one (text)
  phase,
  pos,        \* how many tokens have been read: it - inBegin, or the get position
  eof, fail,  \* the state of the input stream (text)
  values,     \* the local variables of readGraph that a record is read into
  count,      \* nodeCount and edgeCount, as read
  i,          \* the loop variable
  delivered   \* the arguments of the calls of header, node and edge

reading == <<pos, eof, fail, values, count, i, delivered>>
vars    == <<graph, written, file, complete, separated, phase, reading>>

-----------------------------------------------------------------------------
(* The writers.                                                            *)

Format    == graph.format   \* which of the writers, and of the readers
GraphType == graph.type

HeaderLines == 5
NodeCount == Len(graph.nodeTags)
EdgeCount == Len(graph.edgeTags)

Fields(kind, n, width) == [k \in 1..width |-> <<kind, n, k>>]
NodeWidth == 5
EdgeWidth == IF GraphType = "maxspeed" THEN 5 ELSE 4

Tags_SizeIfAny(size) ==
  IF size = 0 THEN << >> ELSE << <<"size", size>>, <<"tags">> >>
\* Text: the tags follow the fields.  Binary: the size of the tags, and they.
Tags(size) == (IF Format = "binary" THEN << <<"size", size>> >> ELSE << >>)
                \o [k \in 1..size |-> <<"tags">>]

Header == [k \in 1..HeaderLines |-> <<"line", k>>]
            \o << <<"count", NodeCount>>, <<"count", EdgeCount>> >>
NodeTokens(n) == Fields("node", n, NodeWidth) \o Tags(graph.nodeTags[n])
EdgeTokens(n) == Fields("edge", n, EdgeWidth) \o Tags(graph.edgeTags[n])

WriteHeader ==
  /\ phase = "write" /\ written = -1
  /\ file' = Header /\ written' = 0
  /\ UNCHANGED <<graph, complete, separated, phase, reading>>

WriteNode ==
  /\ phase = "write" /\ written \in 0..(NodeCount - 1)
  /\ file' = file \o NodeTokens(written + 1) /\ written' = written + 1
  /\ UNCHANGED <<graph, complete, separated, phase, reading>>

WriteEdge ==
  /\ phase = "write" /\ written \in NodeCount..(NodeCount + EdgeCount - 1)
  /\ file' = file \o EdgeTokens(written + 1 - NodeCount) /\ written' = written + 1
  /\ UNCHANGED <<graph, complete, separated, phase, reading>>

\* The creator exits: the stream is flushed and closed.
Close ==
  /\ phase = "write" /\ written = NodeCount + EdgeCount
  /\ phase' = "header" /\ complete' = TRUE
  /\ UNCHANGED <<graph, written, file, separated, reading>>

\* What a cut leaves of a token: a number with fewer digits has a smaller value.
Partials(token) ==
  IF Format = "text" /\ token[1] = "count" THEN {<<"count", c>> : c \in 1..(token[2] - 1)}
  ELSE IF Format = "text" /\ token[1] \in {"node", "edge"} THEN {<<"partial">>}
  ELSE {}

\* It does not get that far, and some of what it has written is lost.
Truncate ==
  /\ phase = "write"
  /\ \E n \in 0..Len(file) :
       \/ /\ file' = SubSeq(file, 1, n)
          /\ separated' \in (IF Format = "text" /\ n > HeaderLines THEN BOOLEAN ELSE {TRUE})
       \/ /\ n > 0
          /\ \E p \in Partials(file[n]) : file' = [SubSeq(file, 1, n) EXCEPT ![n] = p]
          /\ separated' = FALSE
  /\ phase' = "header"
  /\ UNCHANGED <<graph, written, complete, reading>>

-----------------------------------------------------------------------------
(* The readers.                                                            *)

Junk == <<"junk">>   \* an uninitialized local variable
Zero == <<"zero">>
NoHeader == [type |-> "none", nodeCount |-> 0, edgeCount |-> 0]
Unread == [node |-> [k \in 1..5 |-> Junk],
           edge |-> [k \in 1..5 |-> IF k = 5 THEN Zero ELSE Junk]]

Init ==
  /\ graph \in Graphs
  /\ written = -1 /\ file = << >> /\ complete = FALSE /\ separated = TRUE /\ phase = "write"
  /\ pos = 0 /\ eof = FALSE /\ fail = FALSE
  /\ values = Unread
  /\ count = [node |-> 0, edge |-> 0] /\ i = 0
  /\ delivered = [header |-> NoHeader, node |-> << >>, edge |-> << >>]

IsNumber(token) == token[1] # "tags"

\* input >> x[1] >> ... >> x[width], from the position at on in a stream that is
\* in the state ended, failed: nothing happens unless the stream is good; at the
\* end of the file a variable keeps its value; where there is no number it becomes
\* 0 and the text stays; a number that the file ends with sets eof.
Extract(at, ended, failed, x, width) ==
  LET good == ~ ended /\ ~ failed
      read == Cardinality({k \in 1..width : good /\ at + k <= Len(file)
                             /\ \A l \in 1..k : IsNumber(file[at + l])})
      atEnd == at + read = Len(file)
  IN [pos  |-> at + read,
      eof  |-> ended \/ (good /\ atEnd /\ (read < width \/ ~ separated)),
      fail |-> failed \/ read < width,
      x    |-> [k \in DOMAIN x |-> IF k <= read THEN file[at + k]
                                  ELSE IF k = read + 1 /\ k <= width /\ good /\ ~ atEnd THEN Zero
                                  ELSE x[k]]]

Past(n) == n > Len(file)

\* The high bytes of a count in a file that ends within it; the low ones are 0.
HighBytes(c) ==
  {0} \cup {c - (c % b) : b \in {ByteSpace, ByteSpace * ByteSpace, ByteSpace * ByteSpace * ByteSpace}}

\* What may be read for the n-th count.
CountsRead(n) ==
  IF ~Past(HeaderLines + n) THEN {file[HeaderLines + n][2]}
  ELSE IF Format = "binary" /\ Len(file) = HeaderLines + n - 1
    THEN HighBytes(<<NodeCount, EdgeCount>>[n])
    ELSE {0}

\* Behind the lines of the header; input >> nodeCount >> edgeCount from there.
Here == IF Past(HeaderLines) THEN Len(file) ELSE HeaderLines
CountStream == Extract(Here, Past(HeaderLines), FALSE, <<Zero, Zero>>, 2)

\* The header: without the type it is an error, without the counts they are 0.
\* A binary file is mapped into memory, and an empty one cannot be.  What
\* follows it in its last page is 0, what follows that page cannot be read.
ReadHeader ==
  /\ phase = "header"
  /\ IF Len(file) < 3
       THEN phase' = "failed" /\ UNCHANGED reading
       ELSE \/ /\ \E nodeCount \in CountsRead(1), edgeCount \in CountsRead(2) :
                    /\ count' = [node |-> nodeCount, edge |-> edgeCount]
                    /\ delivered' = [delivered EXCEPT !.header =
                         [type |-> GraphType, nodeCount |-> nodeCount, edgeCount |-> edgeCount]]
               /\ IF Format = "text"
                    THEN /\ pos' = CountStream.pos
                         /\ eof' = CountStream.eof /\ fail' = CountStream.fail
                    ELSE pos' = Here + 2 /\ UNCHANGED <<eof, fail>>
               /\ phase' = "node"
               /\ UNCHANGED <<values, i>>
            \/ Format = "binary" /\ Past(HeaderLines + 2)
               /\ phase' = "crashed" /\ UNCHANGED reading
  /\ UNCHANGED <<graph, written, file, complete, separated>>

AtEnd == IF Format = "text" THEN eof ELSE pos >= Len(file)

Width(kind) == IF kind = "node" THEN NodeWidth ELSE EdgeWidth

\* A text record is handed over whatever the stream says, without its tags.
ReadText ==
  /\ Format = "text" /\ phase \in {"node", "edge"}
  /\ i < count[phase] /\ ~ AtEnd
  /\ LET s == Extract(pos, eof, fail, values[phase], Width(phase))
     IN /\ pos' = s.pos /\ eof' = s.eof /\ fail' = s.fail
        /\ values' = [values EXCEPT ![phase] = s.x]
        /\ delivered' = [delivered EXCEPT ![phase] = Append(@, [x |-> s.x, tags |-> 0])]
  /\ i' = i + 1
  /\ UNCHANGED <<graph, written, file, complete, separated, phase, count>>

\* A binary record is handed over if all of it lies before the end of the file.
Fits_Unchecked(n) == TRUE
Fits_Less(n) == n < Len(file)
Fits(n) == n <= Len(file)

ReadBinary ==
  /\ Format = "binary" /\ phase \in {"node", "edge"}
  /\ i < count[phase] /\ ~ AtEnd
  /\ LET width == Width(phase)
         behind == pos + width + 1   \* the fields and the size of the tags
         size == IF Past(behind) THEN 0 ELSE file[behind][2]
         field(n) == IF Past(n) THEN Zero ELSE file[n]
         x == [k \in 1..5 |-> IF k <= width THEN field(pos + k) ELSE values[phase][k]]
     IN \/ /\ values' = [values EXCEPT ![phase] = x]
           /\ delivered' = IF Fits(behind + size)
                             THEN [delivered EXCEPT ![phase] =
                                     Append(@, [x |-> x, tags |-> size])]
                             ELSE delivered
           /\ pos' = behind + size
           /\ i' = i + 1
           /\ UNCHANGED phase
        \/ Past(behind) /\ phase' = "crashed" /\ UNCHANGED <<values, delivered, pos, i>>
  /\ UNCHANGED <<graph, written, file, complete, separated, eof, fail, count>>

\* The end of a loop.  If the loop has ended early the reader throws "Not enough
\* nodes" or "Not enough edges".
Enough_Always == TRUE
Enough == i = count[phase]
LoopDone_IfAll == i = count[phase]
LoopDone == i = count[phase] \/ AtEnd

EndLoop ==
  /\ phase \in {"node", "edge"} /\ LoopDone
  /\ phase' = IF ~ Enough THEN "failed" ELSE IF phase = "node" THEN "edge" ELSE "done"
  /\ i' = 0
  /\ UNCHANGED <<graph, written, file, complete, separated>>
  /\ UNCHANGED <<pos, eof, fail, values, count, delivered>>

Next ==
  \/ WriteHeader \/ WriteNode \/ WriteEdge \/ Close \/ Truncate
  \/ ReadHeader \/ ReadText \/ ReadBinary \/ EndLoop

Spec == Init /\ [][Next]_vars
FairSpec == Spec /\ WF_vars(Next)

-----------------------------------------------------------------------------
(* Properties.                                                             *)

Values == {Junk, Zero, <<"partial">>} \cup
          {<<kind, n, k>> : kind \in {"node", "edge"},
                            n \in 1..(NodeCount + EdgeCount), k \in 1..5}

\* The state has the types the code declares; a reader never runs ahead of the
\* counts, and what it has delivered are records of such values.
TypeOK ==
  /\ phase \in {"write", "header", "node", "edge", "done", "failed", "crashed"}
  /\ written \in -1..(NodeCount + EdgeCount)
  /\ {complete, separated, eof, fail} \subseteq BOOLEAN
  /\ values \in [{"node", "edge"} -> [1..5 -> Values]]
  /\ count \in [{"node", "edge"} -> Nat]
  /\ phase \in {"node", "edge"} => i \in 0..count[phase]
  /\ \A kind \in {"node", "edge"} :
       \A n \in DOMAIN delivered[kind] :
         delivered[kind][n] \in [x : [1..5 -> Values], tags : {0, 1}]

\* The calls that hand over record n as it was written.
Written(kind, n) ==
  [x |-> [k \in 1..5 |-> IF k <= Width(kind) THEN <<kind, n, k>> ELSE Zero],
   tags |-> IF Format = "text" THEN 0
            ELSE IF kind = "node" THEN graph.nodeTags[n] ELSE graph.edgeTags[n]]

IsWritten(kind, n) == n \in DOMAIN delivered[kind] /\ delivered[kind][n] = Written(kind, n)

AllDelivered ==
  /\ delivered.header = [type |-> GraphType, nodeCount |-> NodeCount, edgeCount |-> EdgeCount]
  /\ delivered.node = [n \in 1..NodeCount |-> Written("node", n)]
  /\ delivered.edge = [n \in 1..EdgeCount |-> Written("edge", n)]

\* The text reader knows of no tags (see TaggedTextIsRead).
TextTags == Format = "text" /\ 1 \in Range(graph.nodeTags \o graph.edgeTags)

\* Whoever reads a complete file gets the graph, tags included if it is binary,
\* and no error: the readers (fmitextreader.cpp:27-86, fmibinaryreader.cpp:89-174)
\* take apart what the writers (GraphWriter.cpp:145-276) put together.
RoundTrip ==
  (complete /\ ~ TextTags) =>
    /\ phase \notin {"failed", "crashed"}
    /\ phase = "done" => AllDelivered

\* Wherever a file has been cut, a binary reader hands over nothing but the first
\* records as they were written, and never one that reaches beyond the end of the
\* file (fmibinaryreader.cpp:137, 164); a text reader may get its last call
\* wrong (fmitextreader.cpp:59-60, 75-79), but no earlier one.
OnlyTheLastIsWrong ==
  ~ TextTags =>
    \A kind \in {"node", "edge"} : \A n \in DOMAIN delivered[kind] :
      \/ IsWritten(kind, n)
      \/ /\ Format = "text" /\ n = Len(delivered[kind])
         /\ kind = "node" => delivered.edge = << >>

\* A reader that returns without an error has found the counts that were written
\* and lacks at most one record, unless it says that there are no nodes at all:
\* this is what "Not enough nodes" and "Not enough edges" are worth
\* (fmitextreader.cpp:62-65, 81-84, fmibinaryreader.cpp:142-145, 169-172).
LosesAtMostOne ==
  (phase = "done" /\ ~ TextTags) =>
    \/ delivered.header.nodeCount = 0
    \/ /\ count = [node |-> NodeCount, edge |-> EdgeCount]
       /\ \A n \in 1..NodeCount : IsWritten("node", n) \/ (n = NodeCount /\ EdgeCount = 0)
       /\ \A n \in 1..(EdgeCount - 1) : IsWritten("edge", n)

\* Every file is read to an end: no loop of a reader waits for input that a
\* truncated file does not have.
Termination == <>(phase \in {"done", "failed", "crashed"})


\* A text file with tags is read like one without: README.md:123 allows [TAGS] at
\* the end of a record and README.md:89-90 gives the readers as examples for the
\* formats.  It does not hold.
TaggedTextIsRead == (phase = "done" /\ complete) => AllDelivered

=============================================================================
