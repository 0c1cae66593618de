---------------------- MODULE CCGraphWriterInvariants ----------------------
(***************************************************************************)
(* The inductive invariants from which the properties of CCGraphWriter are *)
(* proved.  Components are handled by rising representative: all that has  *)
(* been done is what belongs to the representatives below some bound.      *)
(***************************************************************************)
EXTENDS CCGraphWriter

EdgeRecords == [source : Nat, target : Nat]
Edges       == DOMAIN m_edges
EdgeAt(k)   == m_edges[k]

Collected == m_nodes = graph.nodeCount /\ m_edges = graph.edges

\* A file exists only if the graph could be split.
Split == phase \in {"next", "nodes", "edges", "done"} \/ files # Empty

CollectInv ==
  /\ graph \in Graphs /\ filter \in Filters
  /\ phase \in {"header", "collect", "unite", "filter", "next", "nodes", "edges", "done", "aborted"}
  /\ m_nodes \in 0..graph.nodeCount /\ m_edges \in Seq(EdgeRecords)
  /\ Len(m_edges) <= Len(graph.edges)
  /\ \A k \in Edges : m_edges[k] = graph.edges[k]
  /\ phase \in {"unite", "filter"} \/ Split => Collected
  /\ phase = "header" => m_nodes = 0 /\ m_edges = << >>
  /\ files # Empty => phase \in {"next", "nodes", "edges", "done", "aborted"}

\* No edge of the first k leaves T.
SeparateUpTo(k, T) == \A n \in 1..k : EdgeAt(n).source \in T <=> EdgeAt(n).target \in T

\* The sets are what the edges so far connect: the ends of an edge are in one
\* set, and a set that no edge leaves has all of one or nothing of it.
UniteInv ==
  /\ united \in 0..Len(m_edges)
  /\ phase \in {"header", "collect"} => united = 0 /\ rep = Empty
  /\ DOMAIN rep \subseteq Nodes /\ rep \in [DOMAIN rep -> Nodes]
  /\ phase \in {"unite", "filter"} \/ Split =>
       /\ DOMAIN rep = Nodes
       /\ \A k \in 1..united : /\ EdgeAt(k).source \in Nodes /\ EdgeAt(k).target \in Nodes
                               /\ rep[EdgeAt(k).source] = rep[EdgeAt(k).target]
       /\ \A T \in SUBSET Nodes :
            SeparateUpTo(united, T) =>
              \A i, j \in Nodes : rep[i] = rep[j] /\ i \in T => j \in T
  /\ phase = "filter" \/ Split => united = Len(m_edges)

\* A sequence that holds each element of S once.
Lists(s, S) ==
  /\ DOMAIN s = 1..Cardinality(S)
  /\ \A n \in DOMAIN s : s[n] \in S
  /\ \A j, k \in DOMAIN s : j # k => s[j] # s[k]
  /\ \A x \in S : \E n \in DOMAIN s : s[n] = x

\* Both vectors are sorted by the representative.
SortedInv ==
  /\ cch \in [DOMAIN cch -> [nodes : Nat, edges : Nat]]
  /\ phase = "filter" \/ Split =>
       /\ cch = Counts
       /\ Lists(nodesSortedByRep, Nodes) /\ Lists(edgesSortedByRep, Edges)
       /\ \A j, k \in DOMAIN nodesSortedByRep :
            j < k => OrderNodes(nodesSortedByRep[j], nodesSortedByRep[k])
       /\ \A j, k \in DOMAIN edgesSortedByRep :
            j < k => ~OrderEdges(edgesSortedByRep[k], edgesSortedByRep[j])

LargerCount(a, b) == a.nodes > b.nodes \/ (a.nodes = b.nodes /\ a.edges > b.edges)

\* The components to be written are the largest, numbered by falling size.
RightChoice(wf) ==
  LET chosen == DOMAIN wf
  IN /\ chosen \subseteq Reps
     /\ \A r \in chosen : wf[r] \in 0..(Cardinality(chosen) - 1)
     /\ \A n \in 0..(Cardinality(chosen) - 1) : \E r \in chosen : wf[r] = n
     /\ \A r, q \in chosen : wf[r] = wf[q] => r = q
     /\ \A r, q \in chosen : wf[r] < wf[q] => Larger(r, q)
     /\ filter.mode = "All" => chosen = Reps
     /\ filter.mode = "MinSize" => \A r \in Reps : r \in chosen <=> cch[r].nodes >= filter.value
     /\ filter.mode = "TopK" =>
          /\ chosen # Reps => Cardinality(chosen) >= (IF filter.value = 0 THEN 1 ELSE filter.value)
          /\ \A r \in chosen, q \in Reps \ chosen : LargerCount(cch[r], cch[q])
          /\ \A r \in chosen : wf[r] >= filter.value =>
               \E q \in chosen :
                 wf[q] = (IF filter.value = 0 THEN 0 ELSE filter.value - 1) /\ cch[r] = cch[q]

FilterInv == Split => RightChoice(write_filter)

\* Before there is a choice; and endGraph has not counted too much.
EarlyInv ==
  /\ phase \in {"header", "collect", "unite", "filter"} => write_filter = Empty
  /\ phase \in {"unite", "filter"} => ~TooLarge(m_nodes, Len(m_edges))

-----------------------------------------------------------------------------
(* Where the cursors are.                                                  *)

LowNodes(bound) == {i \in Nodes : rep[i] < bound}
LowEdges(bound) == {k \in Edges : rep[EdgeAt(k).source] < bound}
LowReps(bound)  == {r \in Reps : r < bound}

\* How much there is below each bound.
Low == [bound \in 0..m_nodes |-> [reps  |-> Cardinality(LowReps(bound)),
                                  nodes |-> Cardinality(LowNodes(bound)),
                                  edges |-> Cardinality(LowEdges(bound))]]

\* What both vectors have of each component, in their order.
Block ==
  [r \in Reps |->
     [count |-> cch[r],
      nodes |-> [n \in 1..cch[r].nodes |-> nodesSortedByRep[Low[r].nodes + n]],
      edges |-> [n \in 1..cch[r].edges |-> EdgeAt(edgesSortedByRep[Low[r].edges + n])]]]

\* The file f has the first n nodes, or the first k edges of the block.
HasNodes(f, block, n) ==
  /\ Len(f.nodes) = n
  /\ \A m \in 1..n : f.nodes[m] = [id |-> m - 1, node |-> block.nodes[m]]
HasEdges(f, block, k) ==
  /\ Len(f.edges) = k
  /\ \A m \in 1..k :
       LET e == f.edges[m]
       IN /\ e.source + 1 \in 1..block.count.nodes
          /\ e.target + 1 \in 1..block.count.nodes
          /\ block.nodes[e.source + 1] = block.edges[m].source
          /\ block.nodes[e.target + 1] = block.edges[m].target

\* nodeIdRemap numbers the first n nodes of the block.
Renumbers(remap, block, n) == \A m \in 1..n : remap[block.nodes[m]] = m - 1

FileTypes == [header : [nodes : Nat, edges : Nat], nodes : Seq([id : Nat, node : Nodes]),
              edges : Seq(EdgeRecords), ended : BOOLEAN]

\* The file of a component that is done.
IsDone(f, block) ==
  /\ f.header = block.count /\ f.ended
  /\ HasNodes(f, block, block.count.nodes) /\ HasEdges(f, block, block.count.edges)

\* All components whose representatives are below the bound are done with, and
\* the others have no file, or only the ones being written.
DoneBelow(fs, wf, blocks, bound, others) ==
  /\ \A r \in DOMAIN wf : r < bound => wf[r] \in DOMAIN fs /\ IsDone(fs[wf[r]], blocks[r])
  /\ \A c \in DOMAIN fs : c \in others \/ \E r \in DOMAIN wf : r < bound /\ wf[r] = c

\* Between two components.
Between ==
  \E bound \in 0..m_nodes :
    /\ seen = Low[bound].reps /\ nodePos = Low[bound].nodes /\ edgePos = Low[bound].edges
    /\ DoneBelow(files, write_filter, Block, bound, {})

\* Within the component ccrep.
Within ==
  /\ ccrep \in DOMAIN write_filter /\ ccId \in DOMAIN files
  /\ seen = Low[ccrep].reps
  /\ DoneBelow(files, write_filter, Block, ccrep, {ccId})
  /\ files[ccId].header = Block[ccrep].count /\ ~files[ccId].ended

InNodes ==
  /\ Within
  /\ written \in 0..cch[ccrep].nodes
  /\ nodePos = Low[ccrep].nodes + written /\ edgePos = Low[ccrep].edges
  /\ HasNodes(files[ccId], Block[ccrep], written) /\ HasEdges(files[ccId], Block[ccrep], 0)
  /\ Renumbers(nodeIdRemap, Block[ccrep], written)

InEdges ==
  /\ Within
  /\ written \in 0..cch[ccrep].edges
  /\ nodePos = Low[ccrep].nodes + cch[ccrep].nodes /\ edgePos = Low[ccrep].edges + written
  /\ HasNodes(files[ccId], Block[ccrep], cch[ccrep].nodes)
  /\ HasEdges(files[ccId], Block[ccrep], written)
  /\ Renumbers(nodeIdRemap, Block[ccrep], cch[ccrep].nodes)

\* Every finished file is that of a component.
EndedAreDone ==
  \A c \in DOMAIN files :
    files[c].ended =>
      \E r \in DOMAIN write_filter : write_filter[r] = c /\ IsDone(files[c], Block[r])

CursorInv ==
  /\ \A c \in DOMAIN files : files[c] \in FileTypes
  /\ nodePos \in 0..m_nodes /\ edgePos \in 0..Len(m_edges)
  /\ phase \in {"header", "collect", "unite", "filter"} => seen = 0 /\ nodePos = 0 /\ edgePos = 0
  /\ Split => nodeIdRemap \in [Nodes -> Nat] /\ EndedAreDone
  /\ phase = "next"  => Between
  /\ phase = "nodes" => InNodes
  /\ phase = "edges" => InEdges
  /\ phase = "done"  => DoneBelow(files, write_filter, Block, m_nodes, {})

=============================================================================
