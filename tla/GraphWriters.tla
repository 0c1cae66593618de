--------------------------- MODULE GraphWriters ---------------------------
(***************************************************************************)
(* The last part of main(): the calls that hand a finished graph to a      *)
(* GraphWriter, and the classes of creator/GraphWriter.cpp that take them. *)
(*                                                                         *)
(* With -s a SortedEdgeWriter stands between main and the writer.  It      *)
(* keeps back all edges until endEdges, sorts them, and only then calls    *)
(* the writer below.  The others put a graph into its place themselves:    *)
(*                                                                         *)
(*   - Ram, Static: RamGraphWriter and StaticGraphWriter keep the edges of *)
(*     a node in consecutive slots of one array.  The slots are reserved   *)
(*     when the node is written, by the out-degree that an earlier pass    *)
(*     has counted (GraphCreator!DegreeWay), modulo the width of the       *)
(*     counter.  Static keeps a vector of the next free slots, Ram takes   *)
(*     the slot behind the edges the node has so far.                      *)
(*   - Topology: the fields of TopologyText- and TopologyBinaryGraphWriter. *)
(*   - Plot: a line with the coordinates of both ends for each edge.       *)
(*   - Drop: writes nothing, but complains about graphs that do not agree. *)
(*                                                                         *)
(* An edge is named by its place in the creator's output.  A definition    *)
(* like FreeSlot_Begin is a faulty variant of the one that follows it,     *)
(* used only to show that a property can fail.                             *)
(***************************************************************************)
EXTENDS Integers, Sequences, SequencesExt, FiniteSets

CONSTANTS
  Writers,      \* the classes: a subset of the five below
  Graphs,       \* the graphs main may have: [nodeCount, edges]
  DegreeSpace,  \* 2^16: Node::outdegree and ram::Node::edgeCount are uint16_t
  TypeSpace,    \* 2^8: ram::Edge::type is uint8_t
  MaxCount      \* 2^32 - 1

OffsetArrays == {"Ram", "Static"}

ASSUME GraphWritersAssumption ==
  /\ Writers \subseteq OffsetArrays \cup {"Topology", "Plot", "Drop"}
  /\ \A g \in Graphs :
       g \in [nodeCount : Nat, edges : Seq([source : Nat, target : Nat, type : Nat])]
  /\ {DegreeSpace, TypeSpace} \subseteq Nat \ {0}
  /\ MaxCount \in Nat

VARIABLES
  graph, writer, sorted,  \* the input; fixed
  call,                   \* what main does next, or how it ended
  given,                  \* how many nodes or edges main has handed over
  m_edges,                \* what SortedEdgeWriter keeps back
  heard,                  \* the calls the writer has got, a history
  nodes,                  \* the node vector: where edges begin, and their number
  edges,                  \* the edge vector: slot -> edge
  m_edgeBegin,
  m_edgeOffsets,          \* the next free slots
  out                     \* the fields of the stream, or Drop's complaints

input   == <<graph, writer, sorted>>
arrays  == <<nodes, edges, m_edgeBegin, m_edgeOffsets>>
base    == <<arrays, out>>
vars    == <<input, call, given, m_edges, heard, base>>

Vertices   == 0..(graph.nodeCount - 1)
EdgeAt(n)  == graph.edges[n]

\* Both ends of every edge are nodes.  The creator may break it for
\* overlapping files (run overlap_edges); the pass that counts degrees for an
\* offset array does not get past such an edge.
PointsToNodes(g) ==
  \A n \in DOMAIN g.edges : {g.edges[n].source, g.edges[n].target} \subseteq 0..(g.nodeCount - 1)

\* What a slot holds before it is written.
Unset == [dest |-> -1, type |-> 0]

\* What NodeDegreeProcessor leaves in Node::outdegree.
OutEdges(v) == {n \in DOMAIN graph.edges : EdgeAt(n).source = v}
outdegree_Unbounded(v) == Cardinality(OutEdges(v))
outdegree(v) == Cardinality(OutEdges(v)) % DegreeSpace

Field(kind, x) == [kind |-> kind, of |-> x]
Call(name, x)  == [name |-> name, of |-> x]
Hear(names)    == heard' = heard \o [n \in 1..Len(names) |-> Call(names[n], 0)]

Init ==
  /\ graph \in Graphs
  /\ writer \in Writers /\ (writer \in OffsetArrays => PointsToNodes(graph))
  /\ sorted \in BOOLEAN
  /\ call = "header" /\ given = 0
  /\ m_edges = << >> /\ heard = << >>
  /\ nodes = << >> /\ edges = [slot \in {} |-> Unset]
  /\ m_edgeBegin = 0 /\ m_edgeOffsets = << >>
  /\ out = << >>

-----------------------------------------------------------------------------
(* The writers.                                                            *)

TooLarge == writer = "Static" /\ (graph.nodeCount > MaxCount \/ Len(graph.edges) > MaxCount)

BaseHeader ==
  /\ edges' = IF writer \in OffsetArrays THEN [slot \in 0..(Len(graph.edges) - 1) |-> Unset]
              ELSE edges
  /\ out' = IF writer = "Topology"
              THEN <<Field("count", graph.nodeCount), Field("count", Len(graph.edges))>>
              ELSE out
  /\ UNCHANGED <<nodes, m_edgeBegin, m_edgeOffsets>>

NextBegin_OneLess(v) == (m_edgeBegin + outdegree(v) - 1) % (MaxCount + 1)
NextBegin(v) == (m_edgeBegin + outdegree(v)) % (MaxCount + 1)

Coordinates(v) == <<Field("lat", v), Field("lon", v)>>

BaseNode(v) ==
  \/ /\ writer \in OffsetArrays
     /\ nodes' = Append(nodes, [edgesBegin |-> m_edgeBegin, edgeCount |-> outdegree(v)])
     /\ m_edgeBegin' = NextBegin(v)
     /\ m_edgeOffsets' = IF writer = "Static" THEN Append(m_edgeOffsets, m_edgeBegin)
                         ELSE m_edgeOffsets
     /\ UNCHANGED <<edges, out>>
  \/ /\ writer \notin OffsetArrays
     /\ out' = IF writer = "Topology" THEN out \o Coordinates(v) ELSE out
     /\ UNCHANGED arrays

FreeSlot_Begin(v) == nodes[v + 1].edgesBegin
FreeSlot_Behind(v) == m_edgeOffsets[v + 1] + nodes[v + 1].edgeCount
FreeSlot(v) == IF writer = "Static" THEN m_edgeOffsets[v + 1]
               ELSE nodes[v + 1].edgesBegin + nodes[v + 1].edgeCount

\* operator[] behind the end of a vector.
NoSlot(e)        == writer \in OffsetArrays /\ FreeSlot(e.source) \notin DOMAIN edges
NoCoordinates(e) == writer = "Plot" /\ ~({e.source, e.target} \subseteq Vertices)

PutSlot(e) ==
  /\ edges' = [edges EXCEPT ![FreeSlot(e.source)] = [dest |-> e.target,
                                                     type |-> e.type % TypeSpace]]
  /\ IF writer = "Static"
       THEN /\ m_edgeOffsets' = [m_edgeOffsets EXCEPT ![e.source + 1] = @ + 1]
            /\ UNCHANGED nodes
       ELSE /\ nodes' = [nodes EXCEPT ![e.source + 1].edgeCount = (@ + 1) % DegreeSpace]
            /\ UNCHANGED m_edgeOffsets
  /\ UNCHANGED <<m_edgeBegin, out>>

Complaints_OffByOne(e) ==
  [n \in 1..Cardinality({x \in {"source", "target"} : e[x] > graph.nodeCount}) |->
     Field("complaint", n)]
Complaints(e) ==
  [n \in 1..Cardinality({x \in {"source", "target"} : e[x] >= graph.nodeCount}) |->
     Field("complaint", n)]

Line_Swapped(e) == Coordinates(e.source) \o Coordinates(e.target)
Line(e) == Reverse(Coordinates(e.source)) \o Reverse(Coordinates(e.target))

Printed(e) ==
  CASE writer = "Topology" -> <<Field("id", e.source), Field("id", e.target)>>
    [] writer = "Plot"     -> Line(e)
    [] writer = "Drop"     -> Complaints(e)

BaseEdge(n) ==
  /\ heard' = Append(heard, Call("writeEdge", n))
  /\ \/ /\ NoSlot(EdgeAt(n)) \/ NoCoordinates(EdgeAt(n))
        /\ call' = "undefined" /\ UNCHANGED base
     \/ /\ ~NoSlot(EdgeAt(n)) /\ ~NoCoordinates(EdgeAt(n)) /\ UNCHANGED call
        /\ IF writer \in OffsetArrays THEN PutSlot(EdgeAt(n))
           ELSE out' = out \o Printed(EdgeAt(n)) /\ UNCHANGED arrays

-----------------------------------------------------------------------------
(* SortedEdgeWriter, or nothing, in front of the writer.                   *)

Before_SourceOnly(e1, e2) == e1.source < e2.source
Before(e1, e2) == IF e1.source = e2.source THEN e1.target < e2.target ELSE e1.source < e2.source

\* std::sort leaves open how equivalent edges are ordered.
SortedOrders(s) ==
  {p \in SetToSeqs(ToSet(s)) :
     \A i, j \in DOMAIN p : i < j => ~Before(EdgeAt(p[j]), EdgeAt(p[i]))}

WriteHeader ==
  /\ call = "header"
  /\ IF TooLarge THEN call' = "aborted" /\ Hear(<<"beginGraph", "beginHeader", "writeHeader">>)
                        /\ UNCHANGED base
     ELSE /\ call' = "nodes"
          /\ Hear(<<"beginGraph", "beginHeader", "writeHeader", "endHeader", "beginNodes">>)
          /\ BaseHeader
  /\ UNCHANGED <<input, given, m_edges>>

WriteNode ==
  /\ call = "nodes" /\ given < graph.nodeCount
  /\ BaseNode(given)
  /\ heard' = Append(heard, Call("writeNode", given))
  /\ given' = given + 1
  /\ UNCHANGED <<input, call, m_edges>>

BeginEdges ==
  /\ call = "nodes" /\ given = graph.nodeCount
  /\ call' = "edges" /\ given' = 0
  /\ Hear(IF sorted THEN <<"endNodes">> ELSE <<"endNodes", "beginEdges">>)
  /\ UNCHANGED <<input, m_edges, base>>

WriteEdge ==
  /\ call = "edges" /\ given < Len(graph.edges)
  /\ given' = given + 1
  /\ \/ sorted /\ m_edges' = Append(m_edges, given + 1) /\ UNCHANGED <<call, heard, base>>
     \/ ~sorted /\ BaseEdge(given + 1) /\ UNCHANGED m_edges
  /\ UNCHANGED input

EndEdges ==
  /\ call = "edges" /\ given = Len(graph.edges)
  /\ \/ /\ sorted
        /\ m_edges' \in SortedOrders(m_edges)
        /\ call' = "sorted" /\ Hear(<<"beginEdges">>)
     \/ /\ ~sorted
        /\ call' = "end" /\ Hear(<<"endEdges">>) /\ UNCHANGED m_edges
  /\ UNCHANGED <<input, given, base>>

PassOn ==
  /\ call = "sorted" /\ m_edges # << >>
  /\ BaseEdge(Head(m_edges))
  /\ m_edges' = Tail(m_edges)
  /\ UNCHANGED <<input, given>>

EndSorted ==
  /\ call = "sorted" /\ m_edges = << >>
  /\ call' = "end" /\ Hear(<<"endEdges">>)
  /\ UNCHANGED <<input, given, m_edges, base>>

\* DropGraphWriter compares what it has got with the header.
EndGraph ==
  /\ call = "end"
  /\ call' = "done" /\ Hear(<<"endGraph">>)
  /\ LET Count(name) == Cardinality({i \in DOMAIN heard : heard[i].name = name})
         wrong == {x \in {<<"writeNode", graph.nodeCount>>, <<"writeEdge", Len(graph.edges)>>} :
                     Count(x[1]) # x[2]}
     IN out' = IF writer = "Drop" /\ wrong # {} THEN Append(out, Field("complaint", 0)) ELSE out
  /\ UNCHANGED <<input, given, m_edges, arrays>>

Next == WriteHeader \/ WriteNode \/ BeginEdges \/ WriteEdge \/ EndEdges \/ PassOn \/ EndSorted
        \/ EndGraph

Spec == Init /\ [][Next]_vars

-----------------------------------------------------------------------------
(* Properties.                                                             *)

Ends   == {"done", "aborted", "undefined"}
Fields == [kind : {"count", "lat", "lon", "id", "complaint"}, of : Nat]

\* The state has the types the code declares.
TypeOK ==
  /\ call \in {"header", "nodes", "edges", "sorted", "end"} \cup Ends
  /\ given \in 0..(graph.nodeCount + Len(graph.edges))
  /\ m_edges \in Seq(DOMAIN graph.edges)
  /\ nodes \in Seq([edgesBegin : 0..MaxCount, edgeCount : 0..(DegreeSpace - 1)])
  /\ edges \in [DOMAIN edges -> {Unset} \cup [dest : Vertices, type : 0..(TypeSpace - 1)]]
  /\ m_edgeBegin \in 0..MaxCount
  /\ m_edgeOffsets \in Seq(0..(MaxCount + 1))
  /\ out \in Seq(Fields)

NoWrap == \A v \in Vertices : Cardinality(OutEdges(v)) < DegreeSpace

EdgeCalls == {i \in DOMAIN heard : heard[i].name = "writeEdge"}
Written   == {heard[i].of : i \in EdgeCalls}

Slots(v) == LET n == nodes[v + 1]
            IN n.edgesBegin..(n.edgesBegin + n.edgeCount - 1)
Stored(v, x) == Cardinality({slot \in Slots(v) \cap DOMAIN edges : edges[slot] = x})
Got(v, x) ==
  Cardinality({n \in OutEdges(v) \cap Written :
                 x = [dest |-> EdgeAt(n).target, type |-> EdgeAt(n).type % TypeSpace]})

\* While the edges are written, in whatever order of sources, the slots of each
\* node hold just those of its edges that have been written, each as often as
\* it was: no edge lands among the edges of another node, none overwrites
\* another.  It needs degrees that fit into their counter.
EdgesLieAtTheirSource ==
  (writer \in OffsetArrays /\ NoWrap /\ call \in {"edges", "sorted", "end", "done"}) =>
    \A v \in Vertices :
      \A x \in {edges[slot] : slot \in Slots(v) \cap DOMAIN edges} \ {Unset} :
        Stored(v, x) = Got(v, x)

\* In the end every slot is taken: the slots of a node hold all of its edges,
\* with -s by their targets.
AllSlotsTaken ==
  (writer \in OffsetArrays /\ NoWrap /\ call = "done") =>
    /\ \A slot \in DOMAIN edges : edges[slot] # Unset
    /\ UNION {Slots(v) : v \in Vertices} = DOMAIN edges
    /\ sorted => \A v \in Vertices : \A i, j \in Slots(v) :
                   i < j => edges[i].dest <= edges[j].dest

\* No vector is accessed outside of its range, neither the slots that
\* writeHeader has sized (GraphWriter.cpp:288, 328), even if a degree has wrapped
\* around, nor the nodes PlotGraph keeps (590-597).  PlotGraph needs edges that
\* point to nodes.  It does not hold for RamGraphWriter.
NoAccessOutside == call = "undefined" => ~PointsToNodes(graph)

\* What main tells a writer: everything between its begin and its end.
Protocol ==
  <<"beginGraph", "beginHeader", "writeHeader", "endHeader", "beginNodes">>
    \o [v \in 1..graph.nodeCount |-> "writeNode"] \o <<"endNodes", "beginEdges">>
    \o [n \in DOMAIN graph.edges |-> "writeEdge"] \o <<"endEdges", "endGraph">>

\* By source, and those of one source by target.
InOrder(e1, e2) == e1.source < e2.source \/ (e1.source = e2.source /\ e1.target <= e2.target)

\* A writer cannot tell whether a SortedEdgeWriter is in front of it, but by the
\* order of the edges: it hears the same calls in the same order, no edge before
\* beginEdges or behind endEdges, each edge once, in the order of source and
\* target or in that of the ways, and all of it in the end.
ProtocolKept ==
  /\ IsPrefix([i \in DOMAIN heard |-> heard[i].name], Protocol)
  /\ call = "done" => Len(heard) = Len(Protocol)
  /\ \A i, j \in EdgeCalls :
       i < j => /\ heard[i].of # heard[j].of
                /\ IF sorted THEN InOrder(EdgeAt(heard[i].of), EdgeAt(heard[j].of))
                   ELSE heard[i].of < heard[j].of

\* The "drop" output complains about a graph if, and only if, an edge points
\* nowhere: the creator gives it no other reason to (GraphWriter.cpp:51-84).
DropComplainsRightly ==
  (writer = "Drop" /\ call = "done") => (out = << >> <=> PointsToNodes(graph))

\* The n-th edge of a writer, at its place in Protocol.
NthEdge(n) == heard[graph.nodeCount + 7 + n].of

\* A file in topology format can be read by the layout that GraphWriter.h:81-90
\* gives for it: from the counts alone follows where each node and each edge is.
\* PlotGraph prints a line from one end of each edge to the other, as lon lat.
FileHasLayout ==
  call = "done" =>
    /\ writer = "Topology" =>
         LET numNodes == out[1].of
             numEdges == out[2].of
             At(i) == <<out[i], out[i + 1]>>
         IN /\ Len(out) = 2 + 2 * numNodes + 2 * numEdges
            /\ \A v \in 0..(numNodes - 1) : At(3 + 2 * v) = Coordinates(v)
            /\ \A n \in 0..(numEdges - 1) :
                 LET e == EdgeAt(NthEdge(n + 1))
                 IN At(3 + 2 * numNodes + 2 * n) = <<Field("id", e.source), Field("id", e.target)>>
    /\ writer = "Plot" =>
         /\ Len(out) = 4 * Len(graph.edges)
         /\ \A n \in DOMAIN graph.edges :
              LET e == EdgeAt(NthEdge(n))
              IN SubSeq(out, 4 * n - 3, 4 * n) = <<Field("lon", e.source), Field("lat", e.source),
                                                   Field("lon", e.target), Field("lat", e.target)>>

=============================================================================
