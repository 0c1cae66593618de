--------------------------- MODULE CCGraphWriter ---------------------------
(***************************************************************************)
(* CCGraphWriter of creator/GraphWriter.cpp: collects a graph and writes   *)
(* each connected component to a file of its own.                          *)
(*                                                                         *)
(* endGraph sorts all nodes and all edges by the representative of their   *)
(* component and then walks through both vectors with two cursors.  They   *)
(* have no common index: that the cursor of the edges stands at the first  *)
(* edge of a component when the cursor of the nodes stands at its first    *)
(* node follows only from the counts and from both sorts using one order.  *)
(*                                                                         *)
(* A node is its position in the input (its global id); an edge is its     *)
(* ends.  The disjoint sets are sserialize::UnionFind, which may make      *)
(* either representative that of the union.                                *)
(*                                                                         *)
(* A definition like OrderEdges_NoRep is a faulty variant of the one that  *)
(* follows it, used only to show that a property can fail.                 *)
(***************************************************************************)
EXTENDS ConnectedComponents, SequencesExt

CONSTANTS
  Graphs,     \* the graphs it may be given: [nodeCount, edges]
  Filters,    \* the values of -cc: [mode, value]
  MaxCount    \* 2^32 - 1, the most nodes or edges it takes

FilterModes == {"TopK", "MinSize", "All"}

ASSUME WriterAssumption ==
  /\ Graphs \subseteq [nodeCount : Nat, edges : Seq([source : Nat, target : Nat])]
  /\ Filters \subseteq [mode : FilterModes, value : Nat]
  /\ MaxCount \in Nat

VARIABLES
  graph, filter,       \* the input; fixed
  phase,
  m_nodes, m_edges,    \* what writeNode and writeEdge have collected
  rep,                 \* uf.find for each node
  united,              \* how many edges have been united
  cch,                 \* representative -> number of nodes and of edges
  nodesSortedByRep, edgesSortedByRep,
  write_filter,        \* representative -> ccId, of the components to write
  seen,                \* how many components the last loop has handled
  nodePos, edgePos,    \* the two cursors
  ccrep, written,      \* the component being written; nodes or edges of it done
  nodeIdRemap,
  files                \* ccId -> the file: its header, nodes, edges

collected == <<graph, filter, m_nodes, m_edges>>
sets      == <<rep, united>>
sorted    == <<cch, nodesSortedByRep, edgesSortedByRep>>
cursors   == <<seen, nodePos, edgePos, ccrep, written>>
vars == <<collected, phase, sets, sorted, write_filter, cursors, nodeIdRemap, files>>

Nodes == 0..(m_nodes - 1)
Empty == [x \in {} |-> 0]

Init ==
  /\ graph \in Graphs /\ filter \in Filters
  /\ phase = "header"
  /\ m_nodes = 0 /\ m_edges = << >>
  /\ rep = Empty /\ united = 0
  /\ cch = Empty /\ nodesSortedByRep = << >> /\ edgesSortedByRep = << >>
  /\ write_filter = Empty
  /\ seen = 0 /\ nodePos = 0 /\ edgePos = 0 /\ ccrep = 0 /\ written = 0
  /\ nodeIdRemap = Empty
  /\ files = Empty

-----------------------------------------------------------------------------
(* Collecting the graph.                                                   *)

TooLarge(n, e) == n > MaxCount \/ e > MaxCount

WriteHeader ==
  /\ phase = "header"
  /\ phase' = IF TooLarge(graph.nodeCount, Len(graph.edges)) THEN "aborted" ELSE "collect"
  /\ UNCHANGED <<collected, sets, sorted, write_filter, cursors, nodeIdRemap, files>>

WriteNode ==
  /\ phase = "collect" /\ m_nodes < graph.nodeCount
  /\ m_nodes' = m_nodes + 1
  /\ UNCHANGED <<graph, filter, phase, m_edges, sets, sorted, write_filter, cursors,
                 nodeIdRemap, files>>

WriteEdge ==
  /\ phase = "collect" /\ m_nodes = graph.nodeCount /\ Len(m_edges) < Len(graph.edges)
  /\ m_edges' = Append(m_edges, graph.edges[Len(m_edges) + 1])
  /\ UNCHANGED <<graph, filter, phase, m_nodes, sets, sorted, write_filter, cursors,
                 nodeIdRemap, files>>

\* endGraph, up to the single sets.
EndGraph ==
  /\ phase = "collect" /\ m_nodes = graph.nodeCount /\ Len(m_edges) = Len(graph.edges)
  /\ IF TooLarge(m_nodes, Len(m_edges))
       THEN phase' = "aborted" /\ UNCHANGED rep
       ELSE phase' = "unite" /\ rep' = [i \in Nodes |-> i]
  /\ UNCHANGED <<collected, united, sorted, write_filter, cursors, nodeIdRemap, files>>

-----------------------------------------------------------------------------
(* Finding the components.                                                 *)

\* std::vector::at throws if an edge has no such end.
Unite ==
  /\ phase = "unite" /\ united < Len(m_edges)
  /\ LET e == m_edges[united + 1]
     IN IF {e.source, e.target} \subseteq Nodes
          THEN /\ \E r \in {rep[e.source], rep[e.target]} :
                    rep' = [i \in Nodes |->
                              IF rep[i] \in {rep[e.source], rep[e.target]} THEN r ELSE rep[i]]
               /\ united' = united + 1
               /\ UNCHANGED phase
          ELSE phase' = "aborted" /\ UNCHANGED sets
  /\ UNCHANGED <<collected, sorted, write_filter, cursors, nodeIdRemap, files>>

Reps == {rep[i] : i \in Nodes}
NodesOf(r) == {i \in Nodes : rep[i] = r}
EdgesOf(r) == {k \in DOMAIN m_edges : rep[m_edges[k].source] = r}

OrderNodes(a, b) == IF rep[a] = rep[b] THEN a < b ELSE rep[a] < rep[b]

\* std::sort of all nodes.
NodeOrders ==
  {s \in SetToSeqs(Nodes) : \A j, k \in DOMAIN s : j < k => OrderNodes(s[j], s[k])}

\* The comparison of edges: strict, but two edges may be equivalent.
OrderEdges_NoTarget(j, k) ==
  LET a == m_edges[j]
      b == m_edges[k]
  IN IF rep[a.source] # rep[b.source] THEN rep[a.source] < rep[b.source]
     ELSE a.source < b.source
OrderEdges_NoRep(j, k) ==
  LET a == m_edges[j]
      b == m_edges[k]
  IN IF a.source # b.source THEN a.source < b.source ELSE a.target < b.target
OrderEdges(j, k) ==
  LET a == m_edges[j]
      b == m_edges[k]
  IN IF rep[a.source] # rep[b.source] THEN rep[a.source] < rep[b.source]
     ELSE IF a.source # b.source THEN a.source < b.source
     ELSE a.target < b.target

\* std::sort may leave equivalent edges in any order.
EdgeOrders ==
  {s \in SetToSeqs(DOMAIN m_edges) :
     \A j, k \in DOMAIN s : j < k => ~ OrderEdges(s[k], s[j])}

Counts == [r \in Reps |-> [nodes |-> Cardinality(NodesOf(r)), edges |-> Cardinality(EdgesOf(r))]]

\* The consistency check: nn and ne are sums over all components.
nn == Cardinality({x \in Reps \X (1..m_nodes) : x[2] <= Counts[x[1]].nodes})
ne == Cardinality({x \in Reps \X DOMAIN m_edges : x[2] <= Counts[x[1]].edges})

\* The counts, the check of their sums, and the two sorts.
SortByRep ==
  /\ phase = "unite" /\ united = Len(m_edges)
  /\ cch' = Counts
  /\ nodesSortedByRep' \in NodeOrders
  /\ IF nn = m_nodes /\ ne = Len(m_edges)
       THEN edgesSortedByRep' \in EdgeOrders /\ phase' = "filter"
       ELSE phase' = "aborted" /\ UNCHANGED edgesSortedByRep
  /\ UNCHANGED <<collected, sets, write_filter, cursors, nodeIdRemap, files>>

-----------------------------------------------------------------------------
(* Choosing the components to write.                                       *)

Larger(r, q) ==
  IF cch[r].nodes # cch[q].nodes THEN cch[r].nodes > cch[q].nodes
  ELSE IF cch[r].edges # cch[q].edges THEN cch[r].edges > cch[q].edges
  ELSE r > q

\* The values cch_by_size may have once it is sorted and reversed.
SizeOrders ==
  {s \in SetToSeqs(Reps) : \A j, k \in DOMAIN s : j < k => Larger(s[j], s[k])}

\* Whether the loops over cch_by_size take the n-th component if they have taken
\* all before it.
Taken_NoTies(cch_by_size, n) ==
  CASE filter.mode = "MinSize" -> cch[cch_by_size[n]].nodes >= filter.value
    [] filter.mode = "TopK"    -> n <= filter.value
    [] filter.mode = "All"     -> TRUE
Taken_OneMore(cch_by_size, n) ==
  CASE filter.mode = "MinSize" -> cch[cch_by_size[n]].nodes >= filter.value
    [] filter.mode = "TopK"    -> n - 1 <= filter.value
    [] filter.mode = "All"     -> TRUE
Taken(cch_by_size, n) ==
  CASE filter.mode = "MinSize" -> cch[cch_by_size[n]].nodes >= filter.value
    [] filter.mode = "TopK"    ->
         \/ n - 1 < filter.value
         \/ cch[cch_by_size[n]] = cch[cch_by_size[IF n = 1 THEN 1 ELSE n - 1]]
    [] filter.mode = "All"     -> TRUE

\* The loops end behind the first ccid components: the next one is not taken.
LoopEnds(cch_by_size, ccid) ==
  /\ \A n \in 1..ccid : Taken(cch_by_size, n)
  /\ ccid < Len(cch_by_size) => ~Taken(cch_by_size, ccid + 1)

\* TopK reads the first component before the loop.  Of an empty graph there is
\* none: front() of an empty vector is undefined, and reads a null pointer.
ChooseComponents ==
  /\ phase = "filter"
  /\ IF filter.mode = "TopK" /\ Reps = {}
       THEN phase' = "aborted" /\ UNCHANGED <<write_filter, nodeIdRemap>>
       ELSE /\ \E cch_by_size \in SizeOrders : \E ccid \in 0..Len(cch_by_size) :
                 /\ LoopEnds(cch_by_size, ccid)
                 /\ write_filter' = [r \in {cch_by_size[n] : n \in 1..ccid} |->
                                       (CHOOSE n \in 1..ccid : cch_by_size[n] = r) - 1]
            /\ nodeIdRemap' = [i \in Nodes |-> 0]
            /\ phase' = "next"
  /\ UNCHANGED <<collected, sets, sorted, cursors, files>>

-----------------------------------------------------------------------------
(* Writing them.                                                           *)

\* How often the loop over the components runs.
ComponentCount == Cardinality(DOMAIN cch)

NextRep == rep[nodesSortedByRep[nodePos + 1]]

SkipComponent_Swapped ==
  /\ phase = "next" /\ seen < ComponentCount
  /\ NextRep \notin DOMAIN write_filter
  /\ nodePos' = nodePos + cch[NextRep].edges
  /\ edgePos' = edgePos + cch[NextRep].nodes
  /\ seen' = seen + 1
  /\ UNCHANGED <<collected, phase, sets, sorted, write_filter, ccrep, written,
                 nodeIdRemap, files>>

SkipComponent ==
  /\ phase = "next" /\ seen < ComponentCount
  /\ NextRep \notin DOMAIN write_filter
  /\ nodePos' = nodePos + cch[NextRep].nodes
  /\ edgePos' = edgePos + cch[NextRep].edges
  /\ seen' = seen + 1
  /\ UNCHANGED <<collected, phase, sets, sorted, write_filter, ccrep, written,
                 nodeIdRemap, files>>

ccId == write_filter[ccrep]

\* The factory opens the file; it may throw.
OpenComponent ==
  /\ phase = "next" /\ seen < ComponentCount
  /\ NextRep \in DOMAIN write_filter
  /\ \/ /\ phase' = "aborted"
        /\ UNCHANGED <<ccrep, written, files>>
     \/ /\ phase' = "nodes"
        /\ ccrep' = NextRep /\ written' = 0
        /\ files' = [c \in DOMAIN files \cup {write_filter[NextRep]} |->
                       IF c = write_filter[NextRep]
                         THEN [header |-> cch[NextRep], nodes |-> << >>, edges |-> << >>,
                               ended |-> FALSE]
                         ELSE files[c]]
  /\ UNCHANGED <<collected, sets, sorted, write_filter, seen, nodePos, edgePos, nodeIdRemap>>

PutNode ==
  /\ phase = "nodes" /\ written < cch[ccrep].nodes
  /\ LET globalNodeId == nodesSortedByRep[nodePos + 1]
     IN /\ files' = [files EXCEPT ![ccId].nodes =
                       Append(@, [id |-> written, node |-> globalNodeId])]
        /\ nodeIdRemap' = [nodeIdRemap EXCEPT ![globalNodeId] = written]
  /\ nodePos' = nodePos + 1 /\ written' = written + 1
  /\ UNCHANGED <<collected, phase, sets, sorted, write_filter, seen, edgePos, ccrep>>

EndNodes_NeedsEdges ==
  /\ phase = "nodes" /\ written = cch[ccrep].nodes /\ cch[ccrep].edges > 0
  /\ phase' = "edges" /\ written' = 0
  /\ UNCHANGED <<collected, sets, sorted, write_filter, seen, nodePos, edgePos, ccrep,
                 nodeIdRemap, files>>

EndNodes ==
  /\ phase = "nodes" /\ written = cch[ccrep].nodes
  /\ phase' = "edges" /\ written' = 0
  /\ UNCHANGED <<collected, sets, sorted, write_filter, seen, nodePos, edgePos, ccrep,
                 nodeIdRemap, files>>

Remapped_NotTarget(e) == [source |-> nodeIdRemap[e.source], target |-> e.target]
Remapped(e) == [source |-> nodeIdRemap[e.source], target |-> nodeIdRemap[e.target]]

PutEdge ==
  /\ phase = "edges" /\ written < cch[ccrep].edges
  /\ files' = [files EXCEPT ![ccId].edges =
                 Append(@, Remapped(m_edges[edgesSortedByRep[edgePos + 1]]))]
  /\ edgePos' = edgePos + 1 /\ written' = written + 1
  /\ UNCHANGED <<collected, phase, sets, sorted, write_filter, seen, nodePos, ccrep,
                 nodeIdRemap>>

CloseComponent ==
  /\ phase = "edges" /\ written = cch[ccrep].edges
  /\ files' = [files EXCEPT ![ccId].ended = TRUE]
  /\ seen' = seen + 1
  /\ phase' = "next"
  /\ UNCHANGED <<collected, sets, sorted, write_filter, nodePos, edgePos, ccrep, written,
                 nodeIdRemap>>

Finish ==
  /\ phase = "next" /\ seen = ComponentCount
  /\ phase' = "done"
  /\ UNCHANGED <<collected, sets, sorted, write_filter, cursors, nodeIdRemap, files>>

Next ==
  \/ WriteHeader \/ WriteNode \/ WriteEdge \/ EndGraph
  \/ Unite \/ SortByRep \/ ChooseComponents
  \/ SkipComponent \/ OpenComponent \/ PutNode \/ EndNodes \/ PutEdge
  \/ CloseComponent \/ Finish

Spec == Init /\ [][Next]_vars
FairSpec == Spec /\ WF_vars(Next)

-----------------------------------------------------------------------------
(* Properties.                                                             *)

\* The state has the types the code declares, and the cursors stay in range.
TypeOK ==
  /\ phase \in {"header", "collect", "unite", "filter", "next", "nodes", "edges",
                "done", "aborted"}
  /\ m_nodes \in 0..graph.nodeCount
  /\ Len(m_edges) <= Len(graph.edges)
  /\ rep \in [DOMAIN rep -> Nodes] /\ DOMAIN rep \subseteq Nodes
  /\ united \in 0..Len(m_edges)
  /\ cch \in [DOMAIN cch -> [nodes : Nat, edges : Nat]]
  /\ nodePos \in 0..m_nodes
  /\ edgePos \in 0..Len(m_edges)
  /\ \A c \in DOMAIN files :
       files[c] \in [header : [nodes : Nat, edges : Nat],
                     nodes : Seq([id : Nat, node : Nodes]),
                     edges : Seq([source : Nat, target : Nat]), ended : BOOLEAN]

Components == ComponentsOf(graph)
Size(S) == SizeIn(graph, S)

\* The node and the edge under the cursors belong to the component that is
\* being written: the assertions of GraphWriter.cpp:542 and 553, which a release
\* build does not check.
CursorsAligned ==
  /\ (phase = "nodes" /\ written < cch[ccrep].nodes) =>
       rep[nodesSortedByRep[nodePos + 1]] = ccrep
  /\ (phase = "edges" /\ written < cch[ccrep].edges) =>
       rep[m_edges[edgesSortedByRep[edgePos + 1]].source] = ccrep

Content(c) == {files[c].nodes[i].node : i \in DOMAIN files[c].nodes}
Original(c, e) == [source |-> files[c].nodes[e.source + 1].node,
                   target |-> files[c].nodes[e.target + 1].node]
Occurrences(s, x) == Cardinality({k \in DOMAIN s : s[k] = x})
Ended == {c \in DOMAIN files : files[c].ended}

\* A finished file holds one whole connected component: all its nodes, numbered
\* by position, and all its edges with their ends renumbered, each as often as
\* it was given; and its header, written first, announces just that.
FilesAreComponents ==
  \A c \in Ended :
    /\ Content(c) \in Components
    /\ files[c].header = Size(Content(c))
    /\ Len(files[c].nodes) = files[c].header.nodes
    /\ Len(files[c].edges) = files[c].header.edges
    /\ \A i \in DOMAIN files[c].nodes : files[c].nodes[i].id = i - 1
    /\ \A e \in {files[c].edges[k] : k \in DOMAIN files[c].edges} :
         /\ {e.source, e.target} \subseteq 0..(Len(files[c].nodes) - 1)
         /\ Occurrences(files[c].edges, e) = Occurrences(graph.edges, Original(c, e))

\* The edges of a file are sorted by source and target, as the comment at
\* GraphWriter.cpp:440-443 claims and main.cpp:307-310 relies on when it leaves
\* the SortedEdgeWriter out: renumbering keeps the order.
FilesAreSorted ==
  \A c \in Ended : \A k \in 1..(Len(files[c].edges) - 1) :
    LET a == files[c].edges[k]
        b == files[c].edges[k + 1]
    IN a.source < b.source \/ (a.source = b.source /\ a.target <= b.target)

Kept == {Content(c) : c \in DOMAIN files}
Dropped == Components \ Kept

\* When all is done, the files are numbered without gaps by falling size, every
\* component is in at most one of them, and the filter has kept the right ones:
\* those that are large enough, or the k largest and their ties, so that fewer
\* than k are larger than any that is kept (k is at least 1).
FilterKeepsTheRightOnes ==
  phase = "done" =>
    /\ DOMAIN files = 0..(Cardinality(Kept) - 1)
    /\ \A c, d \in DOMAIN files : c < d => ~ Bigger(Size(Content(d)), Size(Content(c)))
    /\ CASE filter.mode = "All"     -> Dropped = {}
         [] filter.mode = "MinSize" ->
              Kept = {S \in Components : Cardinality(S) >= filter.value}
         [] filter.mode = "TopK"    ->
              /\ Dropped # {} => Cardinality(Kept) >= filter.value
              /\ \A S \in Dropped, T \in Kept : Bigger(Size(T), Size(S))
              /\ \A T \in Kept :
                   Cardinality({S \in Kept : Bigger(Size(S), Size(T))})
                     < IF filter.value = 0 THEN 1 ELSE filter.value

\* The writer comes to an end.
Termination == <>(phase \in {"done", "aborted"})

=============================================================================
