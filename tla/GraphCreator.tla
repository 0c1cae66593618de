--------------------------- MODULE GraphCreator ---------------------------
(***************************************************************************)
(* The creator: main() of creator/main.cpp from the first pass over the    *)
(* input on, with the processors of creator/Processors.h.                  *)
(*                                                                         *)
(* The program reads the same extract several times, and what one pass     *)
(* leaves in the shared State is what the next one relies on:              *)
(*                                                                         *)
(*   collect     mark the nodes of all accepted ways                       *)
(*   available   unmark those that are there; the rest is missing          *)
(*   invalidate  remember the ways that use a missing node                 *)
(*   refs        mark the nodes of the other ways and count their edges    *)
(*   fetch       give the marked nodes their ids                           *)
(*   degree      count the edges at every node (offset arrays only)        *)
(*   header, nodes, ways   write the graph                                 *)
(*                                                                         *)
(* The header is written from counters of earlier passes, before any node  *)
(* or edge; that they agree with what follows is what there is to check.   *)
(*                                                                         *)
(* A definition like EndInvalidate_NoClear is a faulty variant of the one  *)
(* that follows it.  The specification uses none of them; each makes a     *)
(* property fail that holds with the original in its place.                *)
(***************************************************************************)
EXTENDS OsmData

CONSTANTS
  Streams,      \* the extracts the creator may be given
  Options,      \* the command lines it may be given
  IdSpace,      \* 2^32: node ids are uint32_t
  DegreeSpace   \* 2^16: node degrees are uint16_t

ASSUME CreatorAssumption ==
  /\ Streams \subseteq Extracts
  /\ Options \subseteq CommandLines
  /\ IdSpace \in Nat \ {0}
  /\ DegreeSpace \in Nat \ {0}

VARIABLES
  stream,            \* the input; fixed
  cmd,               \* State::cmd; fixed
  pass,              \* where main() is
  pos,               \* how many items (or nodes) the pass has handled
  osmIdToMyNodeId,   \* the marked nodes and, once fetched, their ids
  invalidWays,
  edgeCount,
  nodeId,            \* the counter of gatherNodes
  nodes,
  nodeCoordinates,
  header,            \* what writeHeader was given
  outNodes,          \* what writeNode was given, in order
  outEdges           \* what writeEdge was given, in order

input   == <<stream, cmd>>
scan    == <<pass, pos>>
fetched == <<nodeId, nodes, nodeCoordinates>>
output  == <<header, outNodes, outEdges>>
vars    == <<input, scan, osmIdToMyNodeId, invalidWays, edgeCount, fetched, output>>

-----------------------------------------------------------------------------
(* The map from OSM ids to node ids.  A marked node has an entry at once;  *)
(* what the entry holds before it is assigned is not specified.            *)

NoId == -1

EmptyMap     == [x \in {} |-> NoId]
Mark(m, S)   == [x \in DOMAIN m \cup S |-> IF x \in DOMAIN m THEN m[x] ELSE NoId]
Unmark(m, x) == [y \in DOMAIN m \ {x} |-> m[y]]

-----------------------------------------------------------------------------
(* The edges of a way: one for each pair of consecutive references, each   *)
(* followed by its reverse if the street can be used both ways.            *)

BothWays(w) == cmd.addReverseEdges /\ isUndirectedEdge(Ows(w), HwType(w))

\* How many edges NodeRefGatherProcessor counts ...
myEdgeCount_IgnoresOption(w) ==
  (Len(w.refs) - 1) * (IF isUndirectedEdge(Ows(w), HwType(w)) THEN 2 ELSE 1)
myEdgeCount(w) == (Len(w.refs) - 1) * (IF BothWays(w) THEN 2 ELSE 1)

\* ... and how many the loops over the references make: the n-th edge belongs
\* to a segment and may be its reverse.
WayEdgeCount(w) == IF BothWays(w) THEN 2 * (Len(w.refs) - 1) ELSE Len(w.refs) - 1

Segment(w, n)  == IF BothWays(w) THEN (n + 1) \div 2 ELSE n

Reversed_Never(w, n) == FALSE
Reversed(w, n) == BothWays(w) /\ n % 2 = 0

SourceRef(w, n) == w.refs[IF Reversed(w, n) THEN Segment(w, n) + 1 ELSE Segment(w, n)]
TargetRef(w, n) == w.refs[IF Reversed(w, n) THEN Segment(w, n) ELSE Segment(w, n) + 1]

CoordinatesOf(id) ==
  IF id + 1 \in DOMAIN nodeCoordinates THEN {nodeCoordinates[id + 1]} ELSE {}

\* The weight is computed from the coordinates of the two ends and the type;
\* "ends" stands for it.
MakeEdge(source, target, type) ==
  [source |-> source, target |-> target, type |-> type,
   ends |-> CoordinatesOf(source) \cup CoordinatesOf(target)]

EdgesOf(w) ==
  [n \in 1..WayEdgeCount(w) |->
     MakeEdge(osmIdToMyNodeId[SourceRef(w, n)], osmIdToMyNodeId[TargetRef(w, n)],
              HwType(w))]

-----------------------------------------------------------------------------
NoHeader == [nodeCount |-> -1, edgeCount |-> -1]

Init ==
  /\ stream \in Streams
  /\ cmd \in Options
  /\ pass = "collect" /\ pos = 0
  /\ osmIdToMyNodeId = EmptyMap
  /\ invalidWays = {}
  /\ edgeCount = 0
  /\ nodeId = 0 /\ nodes = << >> /\ nodeCoordinates = << >>
  /\ header = NoHeader /\ outNodes = << >> /\ outEdges = << >>

item == stream[pos + 1]

Reading(p) == pass = p /\ pos < Len(stream)
AtWay(p)   == Reading(p) /\ Accepted(item)
AtNode(p)  == Reading(p) /\ item.kind = "node"
AtEnd(p)   == pass = p /\ pos = Len(stream)

Advance_Twice == pos' = pos + 2 /\ UNCHANGED pass
Advance == pos' = pos + 1 /\ UNCHANGED pass
Goto(p) == pass' = p /\ pos' = 0

WayPasses  == {"collect", "invalidate", "refs", "degree", "ways"}
NodePasses == {"available", "fetch"}

\* Where gatherNodes stops: at the end, or at a block after it has seen as
\* many nodes as there are marked ones.
AllFetched_OneShort ==
  item = BlockItem /\ nodeId + 1 >= Cardinality(DOMAIN osmIdToMyNodeId)
AllFetched == item = BlockItem /\ nodeId >= Cardinality(DOMAIN osmIdToMyNodeId)

\* An item the pass has no use for.
SkipItem ==
  /\ \/ \E p \in WayPasses : Reading(p) /\ ~ Accepted(item)
     \/ \E p \in NodePasses : Reading(p) /\ item.kind # "node"
  /\ pass = "fetch" => ~ AllFetched
  /\ Advance
  /\ UNCHANGED <<input, osmIdToMyNodeId, invalidWays, edgeCount, fetched, output>>

\* AllNodesGatherProcessor
CollectWay ==
  /\ AtWay("collect")
  /\ osmIdToMyNodeId' = Mark(osmIdToMyNodeId, RefSet(item))
  /\ Advance
  /\ UNCHANGED <<input, invalidWays, edgeCount, fetched, output>>

EndCollect ==
  /\ AtEnd("collect")
  /\ Goto("available")
  /\ UNCHANGED <<input, osmIdToMyNodeId, invalidWays, edgeCount, fetched, output>>

\* deleteAvailableNodes
DeleteAvailable_NoBounds ==
  /\ AtNode("available")
  /\ osmIdToMyNodeId' = Unmark(osmIdToMyNodeId, item.id)
  /\ Advance
  /\ UNCHANGED <<input, invalidWays, edgeCount, fetched, output>>

DeleteAvailable ==
  /\ AtNode("available")
  /\ osmIdToMyNodeId' =
       IF cmd.withBounds => item.loc \in Bounds
         THEN Unmark(osmIdToMyNodeId, item.id) ELSE osmIdToMyNodeId
  /\ Advance
  /\ UNCHANGED <<input, invalidWays, edgeCount, fetched, output>>

EndAvailable_OnlyIfMissing ==
  /\ AtEnd("available")
  /\ DOMAIN osmIdToMyNodeId # {}
  /\ Goto("invalidate")
  /\ UNCHANGED <<input, osmIdToMyNodeId, invalidWays, edgeCount, fetched, output>>

EndAvailable ==
  /\ AtEnd("available")
  /\ Goto(IF DOMAIN osmIdToMyNodeId = {} THEN "refs" ELSE "invalidate")
  /\ UNCHANGED <<input, osmIdToMyNodeId, invalidWays, edgeCount, fetched, output>>

\* InvalidWayMarkingProcessor
LacksNode(w) == RefSet(w) \cap DOMAIN osmIdToMyNodeId # {}

InvalidateWay ==
  /\ AtWay("invalidate")
  /\ invalidWays' = IF LacksNode(item)
                      THEN invalidWays \cup {item.id} ELSE invalidWays
  /\ Advance
  /\ UNCHANGED <<input, osmIdToMyNodeId, edgeCount, fetched, output>>

EndInvalidate_NoClear ==
  /\ AtEnd("invalidate")
  /\ Goto("refs")
  /\ UNCHANGED <<input, osmIdToMyNodeId, invalidWays, edgeCount, fetched, output>>

EndInvalidate ==
  /\ AtEnd("invalidate")
  /\ osmIdToMyNodeId' = EmptyMap
  /\ Goto("refs")
  /\ UNCHANGED <<input, invalidWays, edgeCount, fetched, output>>

\* NodeRefGatherProcessor
RefsWay ==
  /\ AtWay("refs")
  /\ IF item.id \in invalidWays
       THEN UNCHANGED <<osmIdToMyNodeId, edgeCount>>
       ELSE /\ osmIdToMyNodeId' = Mark(osmIdToMyNodeId, RefSet(item))
            /\ edgeCount' = edgeCount + myEdgeCount(item)
  /\ Advance
  /\ UNCHANGED <<input, invalidWays, fetched, output>>

EndRefs ==
  /\ AtEnd("refs")
  /\ Goto("fetch")
  /\ UNCHANGED <<input, osmIdToMyNodeId, invalidWays, edgeCount, fetched, output>>

\* gatherNodes.  The overflow is noticed after the node has been stored and
\* before its id is; nobody catches the exception.
AssignedId_AfterIncrement == nodeId + 1
AssignedId == nodeId

Overflow_AtMax(next) == next = IdSpace - 1
Overflow_Ignored(next) == FALSE
Overflow(next) == next = 0

FetchNode ==
  /\ AtNode("fetch")
  /\ IF item.id \in DOMAIN osmIdToMyNodeId
       THEN /\ nodes' = Append(nodes, [id |-> nodeId, osmId |-> item.id,
                                       indegree |-> 0, outdegree |-> 0])
            /\ nodeCoordinates' = Append(nodeCoordinates, item.loc)
            /\ nodeId' = (nodeId + 1) % IdSpace
            /\ IF Overflow(nodeId')
                 THEN pass' = "aborted" /\ UNCHANGED <<pos, osmIdToMyNodeId>>
                 ELSE /\ osmIdToMyNodeId' = [osmIdToMyNodeId EXCEPT ![item.id] = AssignedId]
                      /\ Advance
       ELSE Advance /\ UNCHANGED <<osmIdToMyNodeId, fetched>>
  /\ UNCHANGED <<input, invalidWays, edgeCount, output>>

EndFetch ==
  /\ AtEnd("fetch") \/ (Reading("fetch") /\ AllFetched)
  /\ Goto(IF cmd.graphType \in OffsetArrays THEN "degree" ELSE "header")
  /\ UNCHANGED <<input, osmIdToMyNodeId, invalidWays, edgeCount, fetched, output>>

\* NodeDegreeProcessor.  "junk" is what the map holds for a node that was
\* marked and never fetched; std::vector::at throws if it is no position.
DegreeId(x, junk) == IF osmIdToMyNodeId[x] = NoId THEN junk ELSE osmIdToMyNodeId[x]

OutDegree_ForwardOnly(w, i, junk) ==
  Cardinality({n \in 1..(Len(w.refs) - 1) : DegreeId(SourceRef(w, n), junk) = i})
OutDegree(w, i, junk) ==
  Cardinality({n \in 1..WayEdgeCount(w) : DegreeId(SourceRef(w, n), junk) = i})
InDegree(w, i, junk) ==
  Cardinality({n \in 1..WayEdgeCount(w) : DegreeId(TargetRef(w, n), junk) = i})

DegreeWay ==
  /\ AtWay("degree")
  /\ \E junk \in 0..Len(nodes) :
       IF item.id \in invalidWays
         THEN Advance /\ UNCHANGED nodes
         ELSE IF \E x \in RefSet(item) : DegreeId(x, junk) >= Len(nodes)
         THEN pass' = "aborted" /\ UNCHANGED <<pos, nodes>>
         ELSE /\ nodes' = [i \in DOMAIN nodes |->
                   [nodes[i] EXCEPT
                      !.outdegree = (@ + OutDegree(item, i - 1, junk)) % DegreeSpace,
                      !.indegree = (@ + InDegree(item, i - 1, junk)) % DegreeSpace]]
              /\ Advance
  /\ UNCHANGED <<input, osmIdToMyNodeId, invalidWays, edgeCount,
                 nodeId, nodeCoordinates, output>>

EndDegree ==
  /\ AtEnd("degree")
  /\ Goto("header")
  /\ UNCHANGED <<input, osmIdToMyNodeId, invalidWays, edgeCount, fetched, output>>

WriteHeader ==
  /\ pass = "header"
  /\ header' = [nodeCount |-> Len(nodes), edgeCount |-> edgeCount]
  /\ Goto("nodes")
  /\ UNCHANGED <<input, osmIdToMyNodeId, invalidWays, edgeCount, fetched,
                 outNodes, outEdges>>

WriteNode ==
  /\ pass = "nodes" /\ pos < Len(nodes)
  /\ outNodes' = Append(outNodes, [node |-> nodes[pos + 1],
                                   coordinates |-> nodeCoordinates[pos + 1]])
  /\ Advance
  /\ UNCHANGED <<input, osmIdToMyNodeId, invalidWays, edgeCount, fetched,
                 header, outEdges>>

EndNodes ==
  /\ pass = "nodes" /\ pos = Len(nodes)
  /\ nodes' = << >>
  /\ Goto("ways")
  /\ UNCHANGED <<input, osmIdToMyNodeId, invalidWays, edgeCount, nodeId,
                 nodeCoordinates, output>>

\* FinalWayProcessor
WriteWay ==
  /\ AtWay("ways")
  /\ outEdges' = IF item.id \in invalidWays THEN outEdges
                 ELSE outEdges \o EdgesOf(item)
  /\ Advance
  /\ UNCHANGED <<input, osmIdToMyNodeId, invalidWays, edgeCount, fetched,
                 header, outNodes>>

EndWays ==
  /\ AtEnd("ways")
  /\ pass' = "done"
  /\ UNCHANGED <<pos, input, osmIdToMyNodeId, invalidWays, edgeCount, fetched, output>>

Next ==
  \/ SkipItem
  \/ CollectWay \/ EndCollect
  \/ DeleteAvailable \/ EndAvailable
  \/ InvalidateWay \/ EndInvalidate
  \/ RefsWay \/ EndRefs
  \/ FetchNode \/ EndFetch
  \/ DegreeWay \/ EndDegree
  \/ WriteHeader \/ WriteNode \/ EndNodes
  \/ WriteWay \/ EndWays

Spec == Init /\ [][Next]_vars

\* One thread: whenever it can take a step it does.
FairSpec == Spec /\ WF_vars(Next)

-----------------------------------------------------------------------------
(* Properties.                                                             *)

Passes == WayPasses \cup NodePasses \cup {"header", "nodes", "done", "aborted"}

NodeRecords == [id : 0..(IdSpace - 1), osmId : NodeIds,
                indegree : 0..(DegreeSpace - 1), outdegree : 0..(DegreeSpace - 1)]
EdgeRecords == [source : {NoId} \cup 0..(IdSpace - 1),
                target : {NoId} \cup 0..(IdSpace - 1),
                type : Int, ends : SUBSET Locations]

\* The state has the types the code declares; pos never runs past its pass.
TypeOK ==
  /\ stream \in Extracts
  /\ cmd \in CommandLines
  /\ pass \in Passes
  /\ pos \in 0..(IF pass = "nodes" THEN Len(nodes) ELSE Len(stream))
  /\ DOMAIN osmIdToMyNodeId \subseteq NodeIds
  /\ osmIdToMyNodeId \in [DOMAIN osmIdToMyNodeId -> {NoId} \cup 0..(IdSpace - 1)]
  /\ invalidWays \subseteq WayIds
  /\ edgeCount \in Nat
  /\ nodeId \in 0..(IdSpace - 1)
  /\ nodes \in Seq(NodeRecords)
  /\ nodeCoordinates \in Seq(Locations)
  /\ header \in [nodeCount : Int, edgeCount : Int]
  /\ outNodes \in Seq([node : NodeRecords, coordinates : Locations])
  /\ outEdges \in Seq(EdgeRecords)

Fetched   == {"degree", "header", "nodes", "ways", "done"}
Writing   == {"nodes", "ways", "done"}
AllNodesOut == pass \in {"ways", "done"}

\* The header announces the node and the edge section exactly, although it is
\* written before both (main.cpp:407, Processors.h:260-264, 348-358): while the
\* sections are written they never grow past it, and at the end they fill it.
\* DropGraphWriter::endGraph reports the contrary.
HeaderMatchesOutput ==
  pass \in Writing =>
    /\ Len(outNodes) <= header.nodeCount
    /\ Len(outEdges) <= header.edgeCount
    /\ pass = "done" => /\ Len(outNodes) = header.nodeCount
                        /\ Len(outEdges) = header.edgeCount

\* An id of the map is the position at which that very node is written, with
\* its own coordinates (Processors.h:88-99, main.cpp:412-414): gatherNodes
\* fills the map and two vectors, and the edges are written from the map long
\* after the nodes have been written from the vectors.
IdsNamePositions ==
  AllNodesOut =>
    \A x \in DOMAIN osmIdToMyNodeId :
      osmIdToMyNodeId[x] # NoId =>
        LET i == osmIdToMyNodeId[x] + 1
        IN /\ i \in DOMAIN outNodes
           /\ outNodes[i].node.osmId = x
           /\ outNodes[i].node.id = i - 1
           /\ outNodes[i].coordinates = nodeCoordinates[i]

\* If no node occurs twice, the ends of every edge are in the node section
\* (DropGraphWriter::writeEdge reports the contrary): gatherNodes never stops
\* before it has seen every node that a written way refers to.
EdgesResolve ==
  NodesUnique(stream) =>
    \A n \in DOMAIN outEdges :
      {outEdges[n].source, outEdges[n].target} \subseteq 0..(header.nodeCount - 1)

\* If no node occurs twice, the node section holds exactly the nodes of the
\* complete ways: none is missing and none is isolated.
NodesAreNeeded ==
  NodesUnique(stream) /\ AllNodesOut =>
    /\ {outNodes[i].node.osmId : i \in DOMAIN outNodes} = Needed(stream, cmd.withBounds)
    /\ Len(outNodes) = Cardinality(Needed(stream, cmd.withBounds))

\* Once refs begins, exactly the ways that lack a node are invalid, whatever
\* the order of nodes and ways in the input and however often they occur.
InvalidWaysLackNodes ==
  pass \in {"refs", "fetch"} \cup Fetched =>
    invalidWays = IncompleteIds(stream, cmd.withBounds)

\* The degrees in the node section are those of the edge section that follows,
\* up to the width of the counters; the offset array writers place the edges
\* by them (GraphWriter.cpp:291-294, 332-336).
DegreesMatchEdges ==
  (pass = "done" /\ cmd.graphType \in OffsetArrays /\ NodesUnique(stream)) =>
    \A i \in DOMAIN outNodes :
      /\ outNodes[i].node.outdegree =
           Cardinality({n \in DOMAIN outEdges : outEdges[n].source = i - 1}) % DegreeSpace
      /\ outNodes[i].node.indegree =
           Cardinality({n \in DOMAIN outEdges : outEdges[n].target = i - 1}) % DegreeSpace

\* If no node occurs twice, the creator gives up only when the nodes do not fit
\* into the id space (Processors.h:95-98), and then it has written nothing.
AbortsOnlyOnOverflow ==
  pass = "aborted" =>
    /\ header = NoHeader /\ outNodes = << >> /\ outEdges = << >>
    /\ NodesUnique(stream) => Cardinality(Needed(stream, cmd.withBounds)) >= IdSpace

\* Every edge of the output points into its node section, whatever was read:
\* what DropGraphWriter::writeEdge reports otherwise (GraphWriter.cpp:66-71).
\* It does not hold when input files overlap.
EdgesPointToNodes ==
  \A n \in DOMAIN outEdges :
    {outEdges[n].source, outEdges[n].target} \subseteq 0..(header.nodeCount - 1)

\* Every run of the creator comes to an end.
Termination == <>(pass \in {"done", "aborted"})

=============================================================================
