---------------------- MODULE GraphCreatorInvariants ----------------------
(***************************************************************************)
(* The inductive invariants from which the properties of GraphCreator are  *)
(* proved.  Each says what a pass has done with the items before pos, as a *)
(* set that is defined by the input alone.                                 *)
(***************************************************************************)
EXTENDS GraphCreator

\* What the items of s up to position k contribute; wb says if there are bounds.
RefsUpTo(s, k) == UNION {RefSet(s[i]) : i \in {j \in AcceptedAt(s) : j <= k}}
FoundUpTo(s, wb, k) == {s[i].id : i \in {j \in DOMAIN s : UsableAt(s, wb, j) /\ j <= k}}
IncompleteUpTo(s, wb, k) ==
  {s[i].id : i \in {j \in AcceptedAt(s) : ~ RefSet(s[j]) \subseteq Usable(s, wb) /\ j <= k}}
NeededUpTo(s, wb, k) == UNION {RefSet(s[i]) : i \in {j \in CompleteAt(s, wb) : j <= k}}

Missing(s, wb) == RefsUpTo(s, Len(s)) \ Usable(s, wb)

MarkPasses == {"collect", "available", "invalidate", "refs"}

ScanOK ==
  /\ stream \in Extracts
  /\ cmd \in CommandLines
  /\ pass \in Passes
  /\ pos \in Nat
  /\ pass # "nodes" => pos <= Len(stream)

\* Which nodes are marked.
MarksInv ==
  /\ pass = "collect" => DOMAIN osmIdToMyNodeId = RefsUpTo(stream, pos)
  /\ pass = "available" => DOMAIN osmIdToMyNodeId = RefsUpTo(stream, Len(stream)) \ FoundUpTo(stream, cmd.withBounds, pos)
  /\ pass = "invalidate" => DOMAIN osmIdToMyNodeId = Missing(stream, cmd.withBounds)
  /\ pass = "refs" => DOMAIN osmIdToMyNodeId = NeededUpTo(stream, cmd.withBounds, pos)
  /\ pass \notin MarkPasses => DOMAIN osmIdToMyNodeId = Needed(stream, cmd.withBounds)

\* Which ways are invalid.
InvalidInv ==
  /\ pass \in {"collect", "available"} => invalidWays = {}
  /\ pass = "invalidate" => invalidWays = IncompleteUpTo(stream, cmd.withBounds, pos)
  /\ pass \notin {"collect", "available", "invalidate"} =>
       invalidWays = IncompleteIds(stream, cmd.withBounds)

\* The state that decides which ways and nodes become part of the graph.
SelectionInv == ScanOK /\ MarksInv /\ InvalidInv

(***************************************************************************)
(* What gatherNodes has stored, and what has been written of it.           *)
(***************************************************************************)

\* The records of gatherNodes: main() clears nodes once they are written.
Records == IF AllNodesOut THEN [i \in DOMAIN outNodes |-> outNodes[i].node] ELSE nodes

\* The two vectors and the map agree.  While nodes are marked nothing has been
\* fetched, hence no marked node has an id.
IdsInv ==
  /\ pass \in MarkPasses => nodeCoordinates = << >>
  /\ DOMAIN Records = 1..Len(nodeCoordinates)
  /\ pass # "aborted" => nodeId = Len(nodeCoordinates)
  /\ pass # "aborted" => \A i \in DOMAIN Records : Records[i].id = i - 1
  /\ \A x \in DOMAIN osmIdToMyNodeId :
       osmIdToMyNodeId[x] # NoId =>
         /\ osmIdToMyNodeId[x] + 1 \in DOMAIN Records
         /\ Records[osmIdToMyNodeId[x] + 1].osmId = x

\* The node section so far is what the vectors hold.
WrittenInv ==
  /\ pass \notin Writing => outNodes = << >>
  /\ pass = "nodes" => Len(outNodes) = pos
  /\ \A i \in DOMAIN outNodes :
       /\ i \in DOMAIN nodeCoordinates
       /\ outNodes[i] = [node |-> Records[i], coordinates |-> nodeCoordinates[i]]

(***************************************************************************)
(* Which nodes gatherNodes has stored, if no node occurs twice.            *)
(***************************************************************************)

\* The nodes up to position k, inside the bounds or not: gatherNodes does not
\* look at the bounds again, the marks have taken account of them.
NodesUpTo(s, k) == {s[i].id : i \in {j \in DOMAIN s : NodeAt(s, j) /\ j <= k}}

RecordIds == {Records[i].osmId : i \in DOMAIN Records}

\* Each needed node is stored once, when it is read, and its id is the number of
\* nodes stored before it.  Hence there are as many nodes as there are ids, and
\* gatherNodes stops at a block only if it has stored all of them.
FetchInv ==
  /\ pass \notin Writing => header = NoHeader /\ outEdges = << >>
  /\ NodesUnique(stream) =>
       /\ \A i, j \in DOMAIN Records : Records[i].osmId = Records[j].osmId => i = j
       /\ pass = "fetch" =>
            RecordIds = Needed(stream, cmd.withBounds) \cap NodesUpTo(stream, pos)
       /\ pass \in Fetched => RecordIds = Needed(stream, cmd.withBounds)
       /\ pass \in {"fetch"} \cup Fetched =>
            \A i \in DOMAIN Records : osmIdToMyNodeId[Records[i].osmId] = i - 1
       /\ pass = "aborted" => Cardinality(Needed(stream, cmd.withBounds)) >= IdSpace

\* Each stored node has the location that the input gives to it.
LocationsInv ==
  \A i \in DOMAIN nodeCoordinates :
    \E j \in DOMAIN stream : /\ NodeAt(stream, j)
                            /\ stream[j].id = Records[i].osmId
                            /\ stream[j].loc = nodeCoordinates[i]

(***************************************************************************)
(* The edges.  The edge <<i, n>> is the n-th one of the way at position i. *)
(***************************************************************************)

WayEdges(s, i) == {<<i, n>> : n \in 1..WayEdgeCount(s[i])}
EdgesUpTo(s, wb, k) == UNION {WayEdges(s, i) : i \in {j \in CompleteAt(s, wb) : j <= k}}

\* The counter of the header has the edges that refs has seen ...
EdgesCounted ==
  /\ pass \in MarkPasses \ {"refs"} => edgeCount = 0
  /\ pass = "refs" => /\ IsFiniteSet(EdgesUpTo(stream, cmd.withBounds, pos))
                      /\ edgeCount = Cardinality(EdgesUpTo(stream, cmd.withBounds, pos))
  /\ pass \notin MarkPasses =>
       /\ IsFiniteSet(EdgesUpTo(stream, cmd.withBounds, Len(stream)))
       /\ edgeCount = Cardinality(EdgesUpTo(stream, cmd.withBounds, Len(stream)))

HeaderWritten ==
  pass \in Writing => header = [nodeCount |-> Len(nodeCoordinates), edgeCount |-> edgeCount]

\* ... and the edge section grows by the same ones.
EdgesWritten ==
  /\ ~ AllNodesOut => outEdges = << >>
  /\ pass = "ways" => Len(outEdges) = Cardinality(EdgesUpTo(stream, cmd.withBounds, pos))
  /\ pass = "done" => Len(outEdges) = Cardinality(EdgesUpTo(stream, cmd.withBounds, Len(stream)))

EdgeCountInv == EdgesCounted /\ HeaderWritten /\ EdgesWritten

\* The edges up to position k whose source, or whose target, has the given id.
EdgesFrom(id, s, wb, k) ==
  {p \in EdgesUpTo(s, wb, k) : osmIdToMyNodeId[SourceRef(s[p[1]], p[2])] = id}
EdgesInto(id, s, wb, k) ==
  {p \in EdgesUpTo(s, wb, k) : osmIdToMyNodeId[TargetRef(s[p[1]], p[2])] = id}

\* The degrees of the records count the edges that degree has seen, up to the
\* width of the counters.
DegreesAre(k) ==
  \A i \in DOMAIN Records :
    /\ Records[i].outdegree =
         Cardinality(EdgesFrom(i - 1, stream, cmd.withBounds, k)) % DegreeSpace
    /\ Records[i].indegree =
         Cardinality(EdgesInto(i - 1, stream, cmd.withBounds, k)) % DegreeSpace

DegreesCounted ==
  NodesUnique(stream) =>
    /\ pass = "fetch" => DegreesAre(0)
    /\ pass = "degree" => DegreesAre(pos)
    /\ pass \in Fetched \ {"degree"} /\ cmd.graphType \in OffsetArrays => DegreesAre(Len(stream))

\* The edges of a section that begin, or end, at a node.
SourcedAt(id, edges) == {n \in DOMAIN edges : edges[n].source = id}
TargetedAt(id, edges) == {n \in DOMAIN edges : edges[n].target = id}

\* The edge section has the same edges at every node.
EdgesAt(k) ==
  \A id \in 0..(Len(nodeCoordinates) - 1) :
    /\ Cardinality(SourcedAt(id, outEdges))
         = Cardinality(EdgesFrom(id, stream, cmd.withBounds, k))
    /\ Cardinality(TargetedAt(id, outEdges))
         = Cardinality(EdgesInto(id, stream, cmd.withBounds, k))

EdgesPlaced ==
  NodesUnique(stream) =>
    /\ pass = "ways" => EdgesAt(pos)
    /\ pass = "done" => EdgesAt(Len(stream))

DegreeInv == DegreesCounted /\ EdgesPlaced

=============================================================================
