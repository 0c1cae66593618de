-------------------------- MODULE GraphExtraction --------------------------
(***************************************************************************)
(* What the creator promises about an extract in which no node occurs      *)
(* twice: it first announces the size of the graph, then writes each node  *)
(* of the complete ways once, then the edges of each complete way once,    *)
(* and it comes to an end.  Nothing is said about passes, node ids or the  *)
(* order of nodes and ways.  It may fail, before it has announced anything, *)
(* if there are more nodes than node ids.                                  *)
(*                                                                         *)
(* Nodes and edges are named by OSM ids here.  A street that can be used   *)
(* both ways may be written once for each direction; several equal edges   *)
(* count as several, so the edges form a bag.                              *)
(***************************************************************************)
EXTENDS OsmData

CONSTANT IdSpace   \* how many node ids there are

VARIABLES stream, cmd, phase, announced, writtenNodes, writtenWays, writtenEdges

vars == <<stream, cmd, phase, announced, writtenNodes, writtenWays, writtenEdges>>

Complete == CompleteAt(stream, cmd.withBounds)

NeededNodes ==
  {[osmId |-> stream[i].id, loc |-> stream[i].loc] :
     i \in {j \in DOMAIN stream :
              NodeAt(stream, j) /\ stream[j].id \in Needed(stream, cmd.withBounds)}}

Location(x) == CHOOSE l \in Locations : [osmId |-> x, loc |-> l] \in NeededNodes

\* A slot is one edge to be written: segment k of the way at position i, along
\* the way or against it.
TwoWay(i) == cmd.addReverseEdges /\ isUndirectedEdge(Ows(stream[i]), HwType(stream[i]))

Slots(ways) ==
  UNION {{[way |-> i, segment |-> k, forward |-> f] :
            k \in 1..(Len(stream[i].refs) - 1),
            f \in IF TwoWay(i) THEN BOOLEAN ELSE {TRUE}} : i \in ways}

EdgeIn(slot) ==
  LET refs == stream[slot.way].refs
      a == refs[slot.segment]
      b == refs[slot.segment + 1]
  IN [from |-> IF slot.forward THEN a ELSE b,
      to |-> IF slot.forward THEN b ELSE a,
      type |-> HwType(stream[slot.way]),
      ends |-> {Location(a), Location(b)}]

EdgeBag(ways) ==
  [e \in {EdgeIn(slot) : slot \in Slots(ways)} |->
     Cardinality({slot \in Slots(ways) : EdgeIn(slot) = e})]

Init ==
  /\ stream \in Extracts /\ NodesUnique(stream)
  /\ cmd \in CommandLines
  /\ phase = "reading"
  /\ announced = [nodeCount |-> -1, edgeCount |-> -1]
  /\ writtenNodes = {}
  /\ writtenWays = {}
  /\ writtenEdges = EdgeBag({})

Announce ==
  /\ phase = "reading"
  /\ phase' = "writing"
  /\ announced' = [nodeCount |-> Cardinality(Needed(stream, cmd.withBounds)),
                   edgeCount |-> Cardinality(Slots(Complete))]
  /\ UNCHANGED <<stream, cmd, writtenNodes, writtenWays, writtenEdges>>

Fail ==
  /\ phase = "reading"
  /\ Cardinality(Needed(stream, cmd.withBounds)) >= IdSpace
  /\ phase' = "failed"
  /\ UNCHANGED <<stream, cmd, announced, writtenNodes, writtenWays, writtenEdges>>

PutNode ==
  /\ phase = "writing"
  /\ \E n \in NeededNodes \ writtenNodes : writtenNodes' = writtenNodes \cup {n}
  /\ UNCHANGED <<stream, cmd, phase, announced, writtenWays, writtenEdges>>

PutWay ==
  /\ phase = "writing"
  /\ writtenNodes = NeededNodes
  /\ \E i \in Complete \ writtenWays : writtenWays' = writtenWays \cup {i}
  /\ writtenEdges' = EdgeBag(writtenWays')
  /\ UNCHANGED <<stream, cmd, phase, announced, writtenNodes>>

Finish ==
  /\ phase = "writing"
  /\ writtenNodes = NeededNodes
  /\ writtenWays = Complete
  /\ phase' = "done"
  /\ UNCHANGED <<stream, cmd, announced, writtenNodes, writtenWays, writtenEdges>>

Next == Announce \/ Fail \/ PutNode \/ PutWay \/ Finish

SafeSpec == Init /\ [][Next]_vars

Spec == SafeSpec /\ WF_vars(Next)

=============================================================================
