--------------------------- MODULE ComponentFiles ---------------------------
(***************************************************************************)
(* What -cc promises (README.md, "Connected components", and types.h:20-26): *)
(* the connected components that the filter keeps are numbered by falling  *)
(* size and each is written to the file of its number, whole, one file     *)
(* after the other.  It may fail before it writes anything if the graph    *)
(* cannot be split, and between two files if the next one cannot be        *)
(* opened; what has been written by then stays complete.  TopK keeps at    *)
(* least one component: a threshold of 0 counts as 1.                      *)
(*                                                                         *)
(* Nothing is said about union-find, sorting, cursors, the numbers of      *)
(* nodes within a file, or the order of the files.                         *)
(***************************************************************************)
EXTENDS ConnectedComponents

CONSTANTS Graphs, Filters, MaxCount

VARIABLES
  graph, filter,  \* the input; fixed
  phase,          \* "collecting", "writing", "done", "failed"
  kept,           \* number -> the component that is to be written
  open,           \* the numbers of the files that are being written
  files           \* number -> the finished file: its nodes and the bag of its edges

vars == <<graph, filter, phase, kept, open, files>>

EdgeBag(S) ==
  [e \in {graph.edges[k] : k \in EdgesWithin(graph, S)} |->
     Cardinality({k \in DOMAIN graph.edges : graph.edges[k] = e})]

File(S) == [nodes |-> S, edges |-> EdgeBag(S)]

AtLeast == IF filter.value = 0 THEN 1 ELSE filter.value

\* A function from numbers to components that the filter allows: by falling
\* size, and cut off where the filter says.
Allowed(f) ==
  LET Size(S) == SizeIn(graph, S)
      all     == ComponentsOf(graph)
      k       == Cardinality(DOMAIN f)
  IN /\ DOMAIN f = 0..(k - 1)
     /\ \A c, d \in DOMAIN f : c < d => f[c] # f[d] /\ ~Bigger(Size(f[d]), Size(f[c]))
     /\ {f[c] : c \in DOMAIN f} \subseteq all
     /\ LET dropped == all \ {f[c] : c \in DOMAIN f}
        IN CASE filter.mode = "All"     -> dropped = {}
             [] filter.mode = "MinSize" ->
                  /\ \A c \in DOMAIN f : Cardinality(f[c]) >= filter.value
                  /\ \A S \in dropped : Cardinality(S) < filter.value
             [] filter.mode = "TopK"    ->
                  /\ dropped # {} => k >= AtLeast
                  /\ \A S \in dropped, c \in DOMAIN f : Bigger(Size(f[c]), Size(S))
                  /\ \A c \in DOMAIN f :
                       c >= AtLeast => Size(f[c]) = Size(f[AtLeast - 1])

Numberings(n) == [0..(n - 1) -> ComponentsOf(graph)]

\* It is too large, an edge has no such end, or there is no largest component.
Unsplittable ==
  \/ graph.nodeCount > MaxCount \/ Len(graph.edges) > MaxCount
  \/ \E k \in DOMAIN graph.edges :
       ~({graph.edges[k].source, graph.edges[k].target} \subseteq 0..(graph.nodeCount - 1))
  \/ graph.nodeCount = 0 /\ filter.mode = "TopK"

Nothing == [c \in {} |-> {}]

Init ==
  /\ graph \in Graphs /\ filter \in Filters
  /\ phase = "collecting"
  /\ kept = Nothing /\ open = {} /\ files = Nothing

Choose ==
  /\ phase = "collecting" /\ ~Unsplittable
  /\ phase' = "writing"
  /\ \E n \in 0..graph.nodeCount : kept' \in {f \in Numberings(n) : Allowed(f)}
  /\ UNCHANGED <<graph, filter, open, files>>

Open ==
  /\ phase = "writing" /\ open = {}
  /\ \E c \in DOMAIN kept \ DOMAIN files : open' = {c}
  /\ UNCHANGED <<graph, filter, phase, kept, files>>

Close ==
  /\ phase = "writing"
  /\ \E c \in open :
       /\ files' = [d \in DOMAIN files \cup {c} |->
                      IF d = c THEN File(kept[c]) ELSE files[d]]
       /\ open' = {}
  /\ UNCHANGED <<graph, filter, phase, kept>>

Finish ==
  /\ phase = "writing" /\ DOMAIN files = DOMAIN kept
  /\ phase' = "done"
  /\ UNCHANGED <<graph, filter, kept, open, files>>

Fail ==
  /\ \/ phase = "collecting" /\ Unsplittable
     \/ phase = "writing" /\ open = {} /\ DOMAIN files # DOMAIN kept
  /\ phase' = "failed"
  /\ UNCHANGED <<graph, filter, kept, open, files>>

Next == Choose \/ Open \/ Close \/ Finish \/ Fail

SafeSpec == Init /\ [][Next]_vars
Spec == SafeSpec /\ WF_vars(Next)

=============================================================================
