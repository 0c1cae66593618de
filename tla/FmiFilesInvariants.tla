------------------------- MODULE FmiFilesInvariants -------------------------
(***************************************************************************)
(* The inductive invariants from which the properties of FmiFiles are      *)
(* proved: where a record lies in a file, what a cut leaves of it, and     *)
(* how far a reader can have got.                                          *)
(***************************************************************************)
EXTENDS FmiFiles

-----------------------------------------------------------------------------
(* The layout: nodes and edges are the records 1..RecordCount.             *)

RecordCount  == NodeCount + EdgeCount
HeaderLength == HeaderLines + 2

KindOf(r)   == IF r <= NodeCount THEN "node" ELSE "edge"
NumberOf(r) == IF r <= NodeCount THEN r ELSE r - NodeCount
TagSize(r)  == IF r <= NodeCount THEN graph.nodeTags[r] ELSE graph.edgeTags[r - NodeCount]
Tokens(r)   == Fields(KindOf(r), NumberOf(r), Width(KindOf(r))) \o Tags(TagSize(r))

\* The size of the tags, which only a binary file has, and the tags.
Behind(r) == (IF Format = "binary" THEN 1 ELSE 0) + TagSize(r)
RecordLength(r) == Width(KindOf(r)) + Behind(r)

\* Where record r ends: behind the fields of the records up to it, the sizes of
\* their tags, and the tags.
Tagged(r) == {m \in 1..r : TagSize(m) = 1}
FieldsUpTo(r) == IF r <= NodeCount THEN r * NodeWidth
                 ELSE NodeCount * NodeWidth + (r - NodeCount) * EdgeWidth
EndOf(r) == HeaderLength + FieldsUpTo(r) + (IF Format = "binary" THEN r ELSE 0)
              + Cardinality(Tagged(r))

\* The first n tokens of f are those that the writers put there.
Untouched(f, n) ==
  /\ \A p \in 1..HeaderLength : p <= n => f[p] = Header[p]
  /\ \A r \in 1..RecordCount : \A k \in 1..RecordLength(r) :
       EndOf(r - 1) + k <= n => f[EndOf(r - 1) + k] = Tokens(r)[k]

\* What a cut within the last token leaves of it.
LastIsPartial(f) ==
  LET n == Len(f)
  IN IF n <= HeaderLength
       THEN n > HeaderLines /\ \E c \in 1..(Header[n][2] - 1) : f[n] = <<"count", c>>
       ELSE f[n] = <<"partial">>

\* The tokens there can be, and the numbers among those of a text file.
Token == ({"line", "count", "size"} \X Nat) \cup ({"node", "edge"} \X Nat \X Nat)
           \cup {<<"tags">>, <<"partial">>}
Numbers(f) ==
  \A p \in 1..Len(f) :
    (Format = "text" /\ p > HeaderLength /\ IsNumber(f[p])) => f[p] \in Values

FileInv ==
  /\ graph \in Graphs
  /\ written \in -1..RecordCount
  /\ phase \in {"write", "header", "node", "edge", "done", "failed", "crashed"}
  /\ complete \in BOOLEAN /\ separated \in BOOLEAN
  /\ file \in Seq(Token) /\ Len(file) <= EndOf(RecordCount) /\ Numbers(file)
  /\ phase = "write" => /\ ~ complete /\ separated
                        /\ Len(file) = IF written = -1 THEN 0 ELSE EndOf(written)
  /\ separated => Untouched(file, Len(file))
  /\ ~ separated => /\ Format = "text" /\ Len(file) > HeaderLines
                    /\ \/ Untouched(file, Len(file))
                       \/ Untouched(file, Len(file) - 1) /\ LastIsPartial(file)
  /\ complete => separated /\ Len(file) = EndOf(RecordCount)

-----------------------------------------------------------------------------
(* The readers.                                                            *)

Kinds == {"node", "edge"}

\* What was read into variables, and how often, whatever the file.
ValuesInv ==
  /\ {eof, fail} \subseteq BOOLEAN /\ pos \in Nat
  /\ values \in [Kinds -> [1..5 -> Values]]
  /\ count \in [Kinds -> Nat]
  /\ phase \in {"write", "header"} =>
       /\ pos = 0 /\ ~ eof /\ ~ fail /\ i = 0
       /\ delivered.node = << >> /\ delivered.edge = << >>
  /\ phase \in Kinds => i \in 0..count[phase]
  /\ (phase \in Kinds /\ Format = "text") => /\ pos <= Len(file)
                                             /\ eof \/ pos >= HeaderLength
  /\ DOMAIN delivered = {"header"} \cup Kinds
  /\ \A kind \in Kinds :
       delivered[kind] \in Seq([x : [1..5 -> Values], tags : {0, 1}])
  /\ GraphType = "standard" => values.edge[5] = Zero

\* All has gone well so far: nothing has been read from behind the file.
Whole == IF Format = "text" THEN ~ eof ELSE pos <= Len(file)

\* How many records precede those that are being read.
Before == IF phase = "edge" THEN NodeCount ELSE 0

CountsRight ==
  /\ count = [node |-> NodeCount, edge |-> EdgeCount]
  /\ delivered.header = [type |-> GraphType, nodeCount |-> NodeCount, edgeCount |-> EdgeCount]

Handed(kind, n) == \A m \in 1..n : IsWritten(kind, m)

\* A reader that is in a loop.
LoopInv ==
  phase \in Kinds =>
    /\ count.node = delivered.header.nodeCount
    /\ complete => Whole
    /\ Whole => /\ CountsRight /\ ~ fail
                /\ pos = EndOf(Before + i)
                /\ Handed(phase, i) /\ Len(delivered[phase]) = i
    /\ i > 0 => CountsRight /\ Handed(phase, i - 1)
    /\ Len(delivered[phase]) <= i
    /\ \A n \in DOMAIN delivered[phase] : IsWritten(phase, n) \/ (Format = "text" /\ ~ Whole /\ n = i)
    /\ phase = "node" => delivered.edge = << >>
    /\ phase = "edge" =>
         /\ Len(delivered.node) <= NodeCount
         /\ count.node = 0 \/ (CountsRight /\ Handed("node", NodeCount - 1))
         /\ Whole \/ i > 0 => Handed("node", NodeCount)
         /\ Format = "binary" => \A n \in DOMAIN delivered.node : IsWritten("node", n)

ReaderInv == ~ TextTags => LoopInv /\ OnlyTheLastIsWrong /\ RoundTrip /\ LosesAtMostOne

=============================================================================
