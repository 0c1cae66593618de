----------------------- MODULE GraphWritersInvariants -----------------------
(***************************************************************************)
(* The inductive invariants from which the properties of GraphWriters are  *)
(* proved.  What a writer has got is read off the calls it has heard, so   *)
(* that the same invariants hold with and without a SortedEdgeWriter.      *)
(***************************************************************************)
EXTENDS GraphWriters

nodeCount == graph.nodeCount
edgeCount == Len(graph.edges)
Edges     == DOMAIN graph.edges
EdgeRecords == [source : Nat, target : Nat, type : Nat]

\* How many edges the writer has got.
Passed == IF Len(heard) <= nodeCount + 7 THEN 0
          ELSE IF Len(heard) <= nodeCount + 7 + edgeCount THEN Len(heard) - nodeCount - 7
          ELSE edgeCount

CallNames == {"beginGraph", "beginHeader", "writeHeader", "endHeader", "beginNodes", "writeNode",
              "endNodes", "beginEdges", "writeEdge", "endEdges", "endGraph"}
CallRecords == [name : CallNames, of : Nat]

\* The calls have the names Protocol gives them.
NamesInv ==
  /\ heard \in Seq(CallRecords) /\ Len(heard) <= Len(Protocol)
  /\ \A i \in DOMAIN heard : heard[i].name = Protocol[i]

\* The number of calls follows from where main is.
LengthInv ==
  /\ call = "header"    => Len(heard) = 0
  /\ call = "aborted"   => Len(heard) = 3
  /\ call = "nodes"     => Len(heard) = 5 + given
  /\ call = "edges"     => Len(heard) = IF sorted THEN nodeCount + 6 ELSE nodeCount + 7 + given
  /\ call = "sorted"    => Len(heard) = nodeCount + 7 + edgeCount - Len(m_edges)
  /\ call = "undefined" => Len(heard) \in (nodeCount + 8)..(nodeCount + 7 + edgeCount)
  /\ call = "end"       => Len(heard) = nodeCount + 8 + edgeCount
  /\ call = "done"      => Len(heard) = nodeCount + 9 + edgeCount

InputInv ==
  /\ graph \in Graphs /\ writer \in Writers /\ sorted \in BOOLEAN
  /\ writer \in OffsetArrays => PointsToNodes(graph)

CallInv ==
  /\ call \in {"header", "nodes", "edges", "sorted", "end"} \cup Ends
  /\ given \in Nat
  /\ call \in {"header", "aborted"} => given = 0
  /\ call = "nodes" => given <= nodeCount
  /\ call \notin {"header", "aborted", "nodes"} => given <= edgeCount
  /\ call \in {"end", "done"} \/ ~sorted => m_edges = << >>
  /\ m_edges \in Seq(Edges) /\ Len(m_edges) <= edgeCount
  /\ call = "sorted" => sorted

\* Each edge is passed on once.  A SortedEdgeWriter passes on what it has kept
\* back, and what it keeps back is not before what it has passed on.
GotInv ==
  /\ \A n \in 1..Passed : NthEdge(n) \in Edges
  /\ \A n, k \in 1..Passed : n < k => NthEdge(n) # NthEdge(k)
  /\ sorted => \A n, k \in 1..Passed : n < k => ~Before(EdgeAt(NthEdge(k)), EdgeAt(NthEdge(n)))
  /\ ~sorted => \A n \in 1..Passed : NthEdge(n) = n

KeptInv ==
  /\ call \in {"header", "nodes"} => m_edges = << >>
  /\ call = "edges" /\ sorted => Len(m_edges) = given /\ \A n \in 1..given : m_edges[n] = n

OrderInv == GotInv /\ KeptInv

\* No edge is lost while they are passed on.
SortedInv ==
  /\ call = "sorted" =>
       /\ \A i, j \in 1..Len(m_edges) : i < j =>
            m_edges[i] # m_edges[j] /\ ~Before(EdgeAt(m_edges[j]), EdgeAt(m_edges[i]))
       /\ \A n \in 1..Passed, i \in 1..Len(m_edges) :
            NthEdge(n) # m_edges[i] /\ ~Before(EdgeAt(m_edges[i]), EdgeAt(NthEdge(n)))
       /\ \A e \in Edges : \/ \E n \in 1..Passed : NthEdge(n) = e
                           \/ \E i \in 1..Len(m_edges) : m_edges[i] = e
  /\ call \in {"end", "done"} => \A e \in Edges : \E n \in 1..Passed : NthEdge(n) = e

HeardInv == NamesInv /\ LengthInv /\ InputInv /\ CallInv /\ OrderInv /\ SortedInv

\* How many nodes it has got.
NodesOut == IF call \in {"header", "aborted"} THEN 0 ELSE IF call = "nodes" THEN given ELSE nodeCount

(***************************************************************************)
(* The offset array of StaticGraphWriter.                                  *)
(***************************************************************************)

\* What the vectors hold.
NodeRecords == [edgesBegin : 0..MaxCount, edgeCount : 0..(DegreeSpace - 1)]
Contents    == [dest : Vertices, type : 0..(TypeSpace - 1)]

ArrayInv ==
  /\ nodes \in Seq(NodeRecords)
  /\ edges \in [DOMAIN edges -> {Unset} \cup Contents]
  /\ m_edgeBegin \in 0..MaxCount
  /\ m_edgeOffsets \in Seq(Nat) /\ (writer # "Static" => m_edgeOffsets = << >>)

\* The edges of the nodes before v.
Lower(v) == {n \in Edges : EdgeAt(n).source < v}

SizesInv ==
  writer = "Static" =>
    /\ call \notin {"header", "aborted"} =>
         edgeCount <= MaxCount /\ DOMAIN edges = 0..(edgeCount - 1)
    /\ call \in {"header", "aborted"} => DOMAIN edges = {}
    /\ Len(nodes) = NodesOut /\ Len(m_edgeOffsets) = NodesOut

\* The slots of a node begin behind those of the nodes before it, or earlier if
\* a degree has wrapped around; the next free one is behind the edges it has.
BeginInv ==
  writer = "Static" =>
    /\ m_edgeBegin <= Cardinality(Lower(NodesOut))
    /\ NoWrap => m_edgeBegin = Cardinality(Lower(NodesOut))
    /\ \A v \in 0..(NodesOut - 1) :
         /\ nodes[v + 1].edgeCount = outdegree(v)
         /\ nodes[v + 1].edgesBegin <= Cardinality(Lower(v))
         /\ NoWrap => nodes[v + 1].edgesBegin = Cardinality(Lower(v))
         /\ m_edgeOffsets[v + 1] = nodes[v + 1].edgesBegin + Cardinality(OutEdges(v) \cap Written)

\* The slots before the next free one are filled, with what the node has got.
AtSlots(v, x) == {slot \in Slots(v) : edges[slot] = x}

FillInv ==
  writer = "Static" /\ NoWrap =>
    /\ call = "nodes" => \A slot \in DOMAIN edges : edges[slot] = Unset
    /\ \A v \in 0..(NodesOut - 1) :
         \A slot \in Slots(v) : edges[slot] = Unset <=> slot >= m_edgeOffsets[v + 1]
    /\ \A v \in 0..(NodesOut - 1) : \A x \in Contents : Cardinality(AtSlots(v, x)) = Got(v, x)
    /\ \A slot \in 0..(m_edgeBegin - 1) : \E v \in 0..(NodesOut - 1) : slot \in Slots(v)

\* With -s they are filled by the targets, and what is still kept back is not
\* before them.
TargetsInv ==
  writer = "Static" /\ NoWrap /\ sorted =>
    \A v \in 0..(NodesOut - 1) : \A i \in Slots(v) :
      edges[i] # Unset =>
        /\ \A j \in Slots(v) : i < j /\ edges[j] # Unset => edges[i].dest <= edges[j].dest
        /\ call = "sorted" =>
             \A k \in 1..Len(m_edges) :
               EdgeAt(m_edges[k]).source = v => edges[i].dest <= EdgeAt(m_edges[k]).target

SlotsInv == ArrayInv /\ SizesInv /\ BeginInv /\ FillInv /\ TargetsInv

(***************************************************************************)
(* The stream.                                                             *)
(***************************************************************************)

TopologyInv ==
  writer = "Topology" =>
    /\ Len(out) = IF call = "header" THEN 0 ELSE 2 + 2 * NodesOut + 2 * Passed
    /\ call # "header" => out[1] = Field("count", nodeCount) /\ out[2] = Field("count", edgeCount)
    /\ \A v \in 0..(NodesOut - 1) :
         out[3 + 2 * v] = Field("lat", v) /\ out[4 + 2 * v] = Field("lon", v)
    /\ \A n \in 1..Passed :
         /\ out[1 + 2 * nodeCount + 2 * n] = Field("id", EdgeAt(NthEdge(n)).source)
         /\ out[2 + 2 * nodeCount + 2 * n] = Field("id", EdgeAt(NthEdge(n)).target)

PlotInv ==
  writer = "Plot" /\ call # "undefined" =>
    /\ Len(out) = 4 * Passed
    /\ \A n \in 1..Passed :
         /\ out[4 * n - 3] = Field("lon", EdgeAt(NthEdge(n)).source)
         /\ out[4 * n - 2] = Field("lat", EdgeAt(NthEdge(n)).source)
         /\ out[4 * n - 1] = Field("lon", EdgeAt(NthEdge(n)).target)
         /\ out[4 * n]     = Field("lat", EdgeAt(NthEdge(n)).target)

LayoutInv == TopologyInv /\ PlotInv

Resolves(e) == e.source < nodeCount /\ e.target < nodeCount

DropInv ==
  writer = "Drop" => (out = << >> <=> \A n \in 1..Passed : Resolves(EdgeAt(NthEdge(n))))

=============================================================================
