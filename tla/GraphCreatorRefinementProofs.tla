------------------- MODULE GraphCreatorRefinementProofs -------------------
(***************************************************************************)
(* The creator implements GraphExtraction: every step of the program is a  *)
(* step of the abstract creator, or changes nothing that it can see.  The  *)
(* abstract creator writes the edges of a way by OSM ids; the program by   *)
(* node ids, which the node section gives back.                            *)
(***************************************************************************)
EXTENDS GraphCreatorRefinement, GraphCreatorProofs

\* The abstract creator reads the same data.
LEMMA SameItems ==
  /\ Promise!Extracts = Extracts
  /\ Promise!CommandLines = CommandLines
  /\ \A s : Promise!NodesUnique(s) <=> NodesUnique(s)
  /\ \A s, i : Promise!NodeAt(s, i) <=> NodeAt(s, i)
  /\ \A w : Promise!HwType(w) = HwType(w) /\ Promise!Ows(w) = Ows(w) /\ Promise!RefSet(w) = RefSet(w)
  /\ \A x : Promise!Accepted(x) <=> Accepted(x)
  /\ \A o, t : Promise!isUndirectedEdge(o, t) <=> isUndirectedEdge(o, t)
<1>1. Promise!Items = Items
  BY DEF Promise!Items, Promise!BlockItem, Promise!NodeItems, Promise!WayItems, Promise!NoTag,
     Promise!OneWayValues, Items, BlockItem, NodeItems, WayItems, NoTag, OneWayValues
<1>2. Promise!Extracts = Extracts
  BY <1>1 DEF Promise!Extracts, Extracts, Promise!BlockItem, BlockItem
<1>3. Promise!CommandLines = CommandLines
  BY DEF Promise!CommandLines, Promise!GraphTypes, CommandLines, GraphTypes
<1>4. \A s : Promise!NodesUnique(s) <=> NodesUnique(s)
  BY DEF Promise!NodesUnique, Promise!NodeAt, NodesUnique, NodeAt
<1>5. \A s, i : Promise!NodeAt(s, i) <=> NodeAt(s, i)
  BY DEF Promise!NodeAt, NodeAt
<1>6. \A w : Promise!HwType(w) = HwType(w)
  BY DEF Promise!HwType, HwType
<1>7. \A w : Promise!Ows(w) = Ows(w)
  BY DEF Promise!Ows, Ows, Promise!toBool, toBool, Promise!NoTag, NoTag
<1>8. \A w : Promise!RefSet(w) = RefSet(w)
  BY DEF Promise!RefSet, RefSet
<1>9. \A x : Promise!Accepted(x) <=> Accepted(x)
  BY DEF Promise!Accepted, Accepted
<1>10. \A o, t : Promise!isUndirectedEdge(o, t) <=> isUndirectedEdge(o, t)
  BY DEF Promise!isUndirectedEdge, isUndirectedEdge, Promise!implicitOneWay, implicitOneWay
<1> QED BY <1>2, <1>3, <1>4, <1>5, <1>6, <1>7, <1>8, <1>9, <1>10

\* It counts alike.
LEMMA SameCount == \A S : Promise!Cardinality(S) = Cardinality(S)
BY Zenon DEF Promise!Cardinality, Cardinality

LEMMA SameData ==
  /\ \A s, wb : Promise!CompleteAt(s, wb) = CompleteAt(s, wb)
  /\ \A s, wb : Promise!Needed(s, wb) = Needed(s, wb)
<1>1. \A s, wb : Promise!Usable(s, wb) = Usable(s, wb)
  BY DEF Promise!Usable, Promise!UsableAt, Promise!NodeAt, Usable, UsableAt, NodeAt
<1>2. \A s : Promise!AcceptedAt(s) = AcceptedAt(s)
  BY SameItems DEF Promise!AcceptedAt, AcceptedAt
<1>3. \A s, wb : Promise!IncompleteIds(s, wb) = IncompleteIds(s, wb)
  BY SameItems, <1>1, <1>2 DEF Promise!IncompleteIds, IncompleteIds
<1>4. \A s, wb : Promise!CompleteAt(s, wb) = CompleteAt(s, wb)
  BY <1>2, <1>3 DEF Promise!CompleteAt, CompleteAt
<1>5. \A s, wb : Promise!Needed(s, wb) = Needed(s, wb)
  BY SameItems, <1>4 DEF Promise!Needed, Needed
<1> QED BY <1>4, <1>5

(***************************************************************************)
(* The stored nodes have the locations of the input.                       *)
(***************************************************************************)

\* Every step but those of gatherNodes keeps the stored nodes.
LEMMA LocationsStep ==
  ASSUME GraphInv, LocationsInv, Next
  PROVE  LocationsInv'
<1>1. UNCHANGED stream /\ stream \in Extracts
  BY DEF Next, SkipItem, CollectWay, EndCollect, DeleteAvailable, EndAvailable, InvalidateWay,
     EndInvalidate, RefsWay, EndRefs, FetchNode, EndFetch, DegreeWay, EndDegree, WriteHeader,
     WriteNode, EndNodes, WriteWay, EndWays, input, GraphInv, TypeOK
<1>2. DOMAIN Records = DOMAIN nodeCoordinates
  BY DEF GraphInv, IdsInv, TypeOK
<1>3. ASSUME nodeCoordinates' = nodeCoordinates,
             \A i \in DOMAIN Records : Records'[i].osmId = Records[i].osmId
      PROVE  LocationsInv'
  BY <1>1, <1>2, <1>3 DEF LocationsInv
<1>4. CASE \/ CollectWay \/ EndCollect \/ DeleteAvailable \/ EndAvailable
           \/ InvalidateWay \/ EndInvalidate \/ RefsWay \/ EndRefs
           \/ (SkipItem /\ pass \in MarkPasses)
  <2>1. pass \in MarkPasses /\ nodeCoordinates' = nodeCoordinates
    BY <1>4 DEF SkipItem, CollectWay, EndCollect, DeleteAvailable, EndAvailable, InvalidateWay,
       EndInvalidate, RefsWay, EndRefs, AtWay, AtNode, AtEnd, Reading, MarkPasses, fetched
  <2>2. nodeCoordinates' = << >>
    BY <2>1 DEF GraphInv, IdsInv
  <2> QED BY <2>2 DEF LocationsInv
<1>5. CASE DegreeWay
  BY <1>3, <1>5, DegreeWayRecords DEF DegreeWay
<1>6. CASE \/ EndFetch \/ EndDegree \/ WriteHeader \/ WriteNode \/ EndNodes \/ WriteWay \/ EndWays
           \/ (SkipItem /\ pass \in {"fetch", "degree", "ways"})
  <2>1. nodeCoordinates' = nodeCoordinates
    BY <1>6 DEF EndFetch, EndDegree, WriteHeader, WriteNode, EndNodes, WriteWay, EndWays, SkipItem,
       fetched
  <2> QED BY <1>3, <1>6, <2>1, LateRecords
<1>7. CASE FetchNode
  <2>1. /\ pass = "fetch" /\ pass' \in {"fetch", "aborted"} /\ pos < Len(stream)
        /\ item.kind = "node" /\ item = stream[pos + 1] /\ pos \in Nat
    BY <1>7 DEF FetchNode, AtNode, Reading, Advance, item, GraphInv, SelectionInv, ScanOK
  <2>2. Records = nodes /\ Records' = nodes'
    BY <2>1 DEF Records, AllNodesOut
  <2>3. pos + 1 \in DOMAIN stream /\ NodeAt(stream, pos + 1)
    BY <1>1, <2>1, Positions DEF NodeAt
  <2>4. CASE UNCHANGED fetched
    BY <1>3, <2>2, <2>4 DEF fetched
  <2>5. CASE ~ UNCHANGED fetched
    <3> DEFINE r == [id |-> nodeId, osmId |-> item.id, indegree |-> 0, outdegree |-> 0]
    <3>1. /\ nodes' = Append(nodes, r) /\ nodeCoordinates' = Append(nodeCoordinates, item.loc)
          /\ nodes \in Seq(NodeRecords) /\ nodeCoordinates \in Seq(Locations)
          /\ DOMAIN nodes = DOMAIN nodeCoordinates
      BY <1>2, <1>7, <2>2, <2>5 DEF FetchNode, fetched, GraphInv, TypeOK
    <3>2. ASSUME NEW i \in DOMAIN nodeCoordinates'
          PROVE  \/ /\ i \in DOMAIN nodeCoordinates
                    /\ nodes'[i] = nodes[i] /\ nodeCoordinates'[i] = nodeCoordinates[i]
                 \/ nodes'[i].osmId = item.id /\ nodeCoordinates'[i] = item.loc
      BY <3>1
    <3> HIDE DEF r
    <3> QED BY <1>1, <2>1, <2>2, <2>3, <3>2 DEF LocationsInv
  <2> QED BY <2>4, <2>5
<1>8. SkipItem => pass \in MarkPasses \cup {"fetch", "degree", "ways"}
  BY DEF SkipItem, WayPasses, NodePasses, MarkPasses, Reading
<1> QED BY <1>4, <1>5, <1>6, <1>7, <1>8 DEF Next

\* The location of every stored node is the one it has in the input.
THEOREM LocationsInvariant == Spec => []LocationsInv
<1>1. Init => LocationsInv
  BY DEF Init, LocationsInv
<1>2. GraphInv /\ LocationsInv /\ [Next]_vars => LocationsInv'
  <2> SUFFICES ASSUME GraphInv, LocationsInv, [Next]_vars PROVE LocationsInv'
    OBVIOUS
  <2>1. CASE UNCHANGED vars
    <3>1. UNCHANGED <<stream, pass, nodes, nodeCoordinates, outNodes>>
      BY <2>1 DEF vars, input, scan, fetched, output
    <3>2. Records' = Records
      BY <3>1 DEF Records, AllNodesOut
    <3> QED BY <3>1, <3>2 DEF LocationsInv
  <2> QED BY <2>1, LocationsStep
<1> QED BY <1>1, <1>2, GraphInvariant, PTL DEF Spec

(***************************************************************************)
(* The edges of the loops over a way are its slots.                        *)
(***************************************************************************)

EdgeSlot(i, n) ==
  [way |-> i, segment |-> Segment(stream[i], n), forward |-> ~ Reversed(stream[i], n)]

\* A way's edges run along it and, in a two-way street, against it.
Directions(i) == IF BothWays(stream[i]) THEN BOOLEAN ELSE {TRUE}
SlotsOf(i) == {[way |-> i, segment |-> k, forward |-> f] :
                 k \in 1..(Len(stream[i].refs) - 1), f \in Directions(i)}

\* The slots of one way, and of one way more.
LEMMA SlotsOfWays ==
  /\ \A ways : Promise!Slots(ways) = UNION {SlotsOf(i) : i \in ways}
  /\ \A ways, i : Promise!Slots(ways \cup {i}) = Promise!Slots(ways) \cup SlotsOf(i)
  /\ \A ways, i : i \notin ways => Promise!Slots(ways) \cap SlotsOf(i) = {}
<1>1. \A i : Promise!TwoWay(i) <=> BothWays(stream[i])
  BY DEF Promise!TwoWay, BothWays, Promise!isUndirectedEdge, isUndirectedEdge,
     Promise!implicitOneWay, implicitOneWay, Promise!Ows, Ows, Promise!HwType, HwType,
     Promise!toBool, toBool, Promise!NoTag, NoTag
<1>2. \A i : Directions(i) = IF Promise!TwoWay(i) THEN BOOLEAN ELSE {TRUE}
  BY <1>1 DEF Directions
<1>3. \A ways : Promise!Slots(ways) = UNION {SlotsOf(i) : i \in ways}
  <2> DEFINE D(i) == IF Promise!TwoWay(i) THEN BOOLEAN ELSE {TRUE}
             S(i) == {[way |-> i, segment |-> k, forward |-> f] :
                        k \in 1..(Len(stream[i].refs) - 1), f \in D(i)}
  <2>1. \A ways : Promise!Slots(ways) = UNION {S(i) : i \in ways}
    BY DEF Promise!Slots
  <2>2. ASSUME NEW i PROVE S(i) = SlotsOf(i)
    <3>1. Directions(i) = D(i)
      BY <1>2
    <3> HIDE DEF D
    <3> QED BY <3>1 DEF SlotsOf
  <2> HIDE DEF S
  <2> QED BY <2>1, <2>2
<1>4. \A i : \A s \in SlotsOf(i) : s.way = i
  BY DEF SlotsOf
<1> QED BY <1>3, <1>4

\* Numbers and slots correspond one to one.
LEMMA SlotNumbers ==
  ASSUME NEW i, Len(stream[i].refs) \in Nat, Len(stream[i].refs) > 1
  PROVE  /\ \A n \in 1..WayEdgeCount(stream[i]) : EdgeSlot(i, n) \in SlotsOf(i)
         /\ \A m, n \in 1..WayEdgeCount(stream[i]) : EdgeSlot(i, m) = EdgeSlot(i, n) => m = n
         /\ \A s \in SlotsOf(i) : \E n \in 1..WayEdgeCount(stream[i]) : s = EdgeSlot(i, n)
<1> DEFINE w == stream[i]
           L == Len(w.refs)
           seg(n) == Segment(w, n)
           fwd(n) == ~ Reversed(w, n)
<1>1. /\ \A n \in 1..WayEdgeCount(w) : seg(n) \in 1..(L - 1) /\ fwd(n) \in Directions(i)
      /\ \A m, n \in 1..WayEdgeCount(w) : seg(m) = seg(n) /\ fwd(m) = fwd(n) => m = n
      /\ \A k \in 1..(L - 1), f \in Directions(i) :
           \E n \in 1..WayEdgeCount(w) : seg(n) = k /\ fwd(n) = f
  <2>1. CASE BothWays(w)
    <3>1. /\ WayEdgeCount(w) = 2 * (L - 1) /\ Directions(i) = BOOLEAN
          /\ \A n : seg(n) = (n + 1) \div 2 /\ fwd(n) = (n % 2 # 0)
      BY <2>1 DEF WayEdgeCount, Segment, Reversed, Directions
    <3>2. \A n \in 1..(2 * (L - 1)) : (n + 1) \div 2 \in 1..(L - 1)
      OBVIOUS
    <3>3. \A m, n \in 1..(2 * (L - 1)) :
            (m + 1) \div 2 = (n + 1) \div 2 /\ (m % 2 # 0 <=> n % 2 # 0) => m = n
      OBVIOUS
    <3>4. \A k \in 1..(L - 1) : /\ 2 * k - 1 \in 1..(2 * (L - 1)) /\ 2 * k \in 1..(2 * (L - 1))
                                /\ (2 * k - 1 + 1) \div 2 = k /\ (2 * k + 1) \div 2 = k
                                /\ (2 * k - 1) % 2 # 0 /\ (2 * k) % 2 = 0
      OBVIOUS
    <3>5. \A k \in 1..(L - 1), f \in BOOLEAN :
            \E n \in 1..(2 * (L - 1)) : (n + 1) \div 2 = k /\ (n % 2 # 0) = f
      <4> TAKE k \in 1..(L - 1), f \in BOOLEAN
      <4>1. CASE f = TRUE
        <5> WITNESS 2 * k - 1 \in 1..(2 * (L - 1))
        <5> QED BY <3>4, <4>1
      <4>2. CASE f = FALSE
        <5> WITNESS 2 * k \in 1..(2 * (L - 1))
        <5> QED BY <3>4, <4>2
      <4> QED BY <4>1, <4>2
    <3> HIDE DEF seg, fwd, L, w
    <3> QED BY <3>1, <3>2, <3>3, <3>5
  <2>2. CASE ~ BothWays(w)
    <3>1. /\ WayEdgeCount(w) = L - 1 /\ Directions(i) = {TRUE}
          /\ \A n : seg(n) = n
      BY <2>2 DEF WayEdgeCount, Segment, Directions
    <3>2. \A n : fwd(n) = TRUE
      BY <2>2 DEF Reversed
    <3>3. \A m, n : seg(m) = seg(n) => m = n
      BY <3>1
    <3> HIDE DEF seg, fwd, L, w
    <3> QED BY Zenon, <3>1, <3>2, <3>3
  <2> QED BY <2>1, <2>2
<1>2. \A n : EdgeSlot(i, n) = [way |-> i, segment |-> seg(n), forward |-> fwd(n)]
  BY DEF EdgeSlot
<1>3. \A s : s \in SlotsOf(i) <=>
        \E k \in 1..(L - 1), f \in Directions(i) : s = [way |-> i, segment |-> k, forward |-> f]
  BY DEF SlotsOf
<1> HIDE DEF seg, fwd, L
<1>4. \A n \in 1..WayEdgeCount(w) : EdgeSlot(i, n) \in SlotsOf(i)
  BY <1>1, <1>2, <1>3
<1>5. \A n : EdgeSlot(i, n).segment = seg(n) /\ EdgeSlot(i, n).forward = fwd(n)
  BY <1>2
<1>6. \A s \in SlotsOf(i) : \E n \in 1..WayEdgeCount(w) : s = EdgeSlot(i, n)
  <2> TAKE s \in SlotsOf(i)
  <2>1. PICK k \in 1..(L - 1), f \in Directions(i) : s = [way |-> i, segment |-> k, forward |-> f]
    BY <1>3
  <2>2. PICK n \in 1..WayEdgeCount(w) : seg(n) = k /\ fwd(n) = f
    BY <1>1
  <2>3. s = EdgeSlot(i, n)
    BY <1>2, <2>1, <2>2
  <2> QED BY <2>3
<1>7. \A m, n \in 1..WayEdgeCount(w) : EdgeSlot(i, m) = EdgeSlot(i, n) => m = n
  BY Zenon, <1>1, <1>5
<1> QED BY <1>4, <1>6, <1>7

\* The slots whose edge is e, and the edges written that are resolved to e.
SlotsTo(ways, e) == {s \in Promise!Slots(ways) : Promise!EdgeIn(s) = e}
WrittenTo(e) == {n \in DOMAIN outEdges : Resolved(outEdges[n]) = e}

\* The numbers of a way's edges that are e.
NumbersTo(i, e) == {n \in 1..WayEdgeCount(stream[i]) : Promise!EdgeIn(EdgeSlot(i, n)) = e}

\* There are as many of a way's slots as numbers, for each edge.
LEMMA SlotsToCount ==
  ASSUME NEW i, Len(stream[i].refs) \in Nat, Len(stream[i].refs) > 1, NEW e
  PROVE  LET S == {s \in SlotsOf(i) : Promise!EdgeIn(s) = e}
         IN  /\ IsFiniteSet(S) /\ Cardinality(S) = Cardinality(NumbersTo(i, e))
             /\ Cardinality(NumbersTo(i, e)) \in Nat
<1> DEFINE w == stream[i]
           N == NumbersTo(i, e)
           S == {s \in SlotsOf(i) : Promise!EdgeIn(s) = e}
           g == [n \in N |-> EdgeSlot(i, n)]
<1>1. IsFiniteSet(N)
  <2>1. IsFiniteSet(1..WayEdgeCount(w))
    BY WayEdgesCount
  <2> QED BY <2>1, FS_Subset DEF NumbersTo
<1>2. \A m, n \in N : g[m] = g[n] => m = n
  BY SlotNumbers DEF NumbersTo
<1>3. \A s \in S : \E n \in N : g[n] = s
  BY SlotNumbers DEF NumbersTo
<1>4. \A n \in N : g[n] \in S
  BY SlotNumbers DEF NumbersTo
<1> HIDE DEF N, S
<1>5. g \in Bijection(N, S)
  BY <1>2, <1>3, <1>4, Fun_IsBij
<1>6. ExistsBijection(N, S)
  BY <1>5 DEF ExistsBijection
<1>7. IsFiniteSet(S) /\ Cardinality(S) = Cardinality(N) /\ Cardinality(N) \in Nat
  BY <1>1, <1>6, FS_Bijection, FS_CardinalityType
<1> QED BY <1>7 DEF N, S

\* There are as many slots as edges that the program counts.
LEMMA SlotCount ==
  ASSUME stream \in Extracts,
         IsFiniteSet(EdgesUpTo(stream, cmd.withBounds, Len(stream)))
  PROVE  LET S == Promise!Slots(CompleteAt(stream, cmd.withBounds))
         IN  /\ IsFiniteSet(S)
             /\ Cardinality(S) = Cardinality(EdgesUpTo(stream, cmd.withBounds, Len(stream)))
<1> DEFINE C == CompleteAt(stream, cmd.withBounds)
           E == EdgesUpTo(stream, cmd.withBounds, Len(stream))
           S == Promise!Slots(C)
           g == [p \in E |-> EdgeSlot(p[1], p[2])]
<1>1. ASSUME NEW i \in C PROVE Len(stream[i].refs) \in Nat /\ Len(stream[i].refs) > 1
  <2>1. Accepted(stream[i]) /\ stream[i] \in Items
    BY <1>1, WayPositions, Positions DEF AcceptedAt
  <2> QED BY <2>1, WayTypes
<1>2. E = UNION {WayEdges(stream, i) : i \in C}
  <2>1. {j \in C : j <= Len(stream)} = C
    BY WayPositions, Positions
  <2> QED BY <2>1 DEF EdgesUpTo
<1>3. S = UNION {SlotsOf(i) : i \in C}
  BY SlotsOfWays
<1>4. \A p \in E : p[1] \in C /\ p[2] \in 1..WayEdgeCount(stream[p[1]]) /\ p = <<p[1], p[2]>>
  BY <1>2 DEF WayEdges
<1>5. \A i \in C : \A n \in 1..WayEdgeCount(stream[i]) : <<i, n>> \in E
  BY <1>2 DEF WayEdges
<1>6. \A i, n : EdgeSlot(i, n).way = i
  BY DEF EdgeSlot
<1> HIDE DEF C, E, S
<1>7. \A p \in E : g[p] \in S
  <2> SUFFICES ASSUME NEW p \in E PROVE EdgeSlot(p[1], p[2]) \in S
    OBVIOUS
  <2>1. EdgeSlot(p[1], p[2]) \in SlotsOf(p[1])
    BY <1>1, <1>4, SlotNumbers
  <2> QED BY <1>3, <1>4, <2>1
<1>8. \A p, q \in E : g[p] = g[q] => p = q
  <2> SUFFICES ASSUME NEW p \in E, NEW q \in E, EdgeSlot(p[1], p[2]) = EdgeSlot(q[1], q[2])
               PROVE  p = q
    OBVIOUS
  <2>1. p[1] = q[1]
    BY <1>6
  <2>2. p[2] = q[2]
    BY <1>1, <1>4, <2>1, SlotNumbers
  <2> QED BY <1>4, <2>1, <2>2
<1>9. \A s \in S : \E p \in E : g[p] = s
  <2> TAKE s \in S
  <2>1. PICK i \in C : s \in SlotsOf(i)
    BY <1>3
  <2>2. PICK n \in 1..WayEdgeCount(stream[i]) : s = EdgeSlot(i, n)
    BY <1>1, <2>1, SlotNumbers
  <2>3. <<i, n>> \in E /\ g[<<i, n>>] = s
    BY <1>5, <2>2
  <2> QED BY <2>3
<1>10. g \in Bijection(E, S)
  BY <1>7, <1>8, <1>9, Fun_IsBij
<1>11. ExistsBijection(E, S)
  BY <1>10 DEF ExistsBijection
<1>12. IsFiniteSet(E)
  BY DEF E
<1>13. IsFiniteSet(S) /\ Cardinality(S) = Cardinality(E)
  BY <1>11, <1>12, FS_Bijection
<1> QED BY <1>13 DEF C, E, S

(***************************************************************************)
(* A node id stands for an OSM id and a location.                          *)
(***************************************************************************)

\* The location of a node is the one it has in the input.
LEMMA NodeLocation ==
  ASSUME NodesUnique(stream), stream \in Extracts, NEW j \in DOMAIN stream, NodeAt(stream, j),
         stream[j].id \in Needed(stream, cmd.withBounds)
  PROVE  Promise!Location(stream[j].id) = stream[j].loc
<1> DEFINE x == stream[j].id
           in(l) == [osmId |-> x, loc |-> l] \in Promise!NeededNodes
<1>1. stream[j].loc \in Locations
  BY Positions, NodeTypes DEF NodeAt
<1>2. in(stream[j].loc)
  BY SameItems, SameData DEF Promise!NeededNodes
<1>3. ASSUME NEW l, in(l) PROVE l = stream[j].loc
  <2>1. PICK k \in DOMAIN stream :
          /\ NodeAt(stream, k)
          /\ [osmId |-> x, loc |-> l] = [osmId |-> stream[k].id, loc |-> stream[k].loc]
    BY <1>3, SameItems DEF Promise!NeededNodes
  <2>2. stream[k].id = x /\ stream[k].loc = l
    BY <2>1
  <2>3. k = j
    BY <2>1, <2>2 DEF NodesUnique
  <2> QED BY <2>2, <2>3
<1>4. Promise!Location(x) = CHOOSE l \in Locations : in(l)
  BY DEF Promise!Location
<1> HIDE DEF in
<1> QED BY <1>1, <1>2, <1>3, <1>4

\* The coordinates that the program looks up by id are those of the node.
LEMMA IdLocation ==
  ASSUME GraphInv, FetchInv, LocationsInv, NodesUnique(stream), pass \in Fetched,
         NEW x \in Needed(stream, cmd.withBounds)
  PROVE  /\ CoordinatesOf(osmIdToMyNodeId[x]) = {Promise!Location(x)}
         /\ AllNodesOut => outNodes[osmIdToMyNodeId[x] + 1].node.osmId = x
<1> DEFINE i == osmIdToMyNodeId[x] + 1
<1>1. /\ osmIdToMyNodeId[x] \in 0..(Len(nodeCoordinates) - 1)
      /\ Records[i].osmId = x
  BY NeededIds
<1>2. /\ nodeCoordinates \in Seq(Locations) /\ stream \in Extracts
      /\ DOMAIN Records = 1..Len(nodeCoordinates)
  BY DEF GraphInv, TypeOK, IdsInv
<1>3. i \in DOMAIN nodeCoordinates /\ i \in DOMAIN Records
  BY <1>1, <1>2
<1>4. PICK j \in DOMAIN stream : /\ NodeAt(stream, j) /\ stream[j].id = Records[i].osmId
                                 /\ stream[j].loc = nodeCoordinates[i]
  BY <1>3 DEF LocationsInv
<1>5. Promise!Location(x) = nodeCoordinates[i]
  BY <1>1, <1>2, <1>4, NodeLocation
<1>6. CoordinatesOf(osmIdToMyNodeId[x]) = {nodeCoordinates[i]}
  BY <1>3 DEF CoordinatesOf
<1>7. AllNodesOut => outNodes[i].node = Records[i]
  BY <1>3 DEF Records
<1> QED BY <1>1, <1>5, <1>6, <1>7

\* An edge of a complete way is resolved to the edge that the slot promises.
LEMMA ResolvedEdge ==
  ASSUME GraphInv, FetchInv, LocationsInv, NodesUnique(stream), AtWay("ways"),
         item.id \notin invalidWays, NEW n \in 1..WayEdgeCount(item)
  PROVE  Resolved(EdgesOf(item)[n]) = Promise!EdgeIn(EdgeSlot(pos + 1, n))
<1> DEFINE w == item
           a == SourceRef(w, n)
           b == TargetRef(w, n)
           s == w.refs[Segment(w, n)]
           t == w.refs[Segment(w, n) + 1]
<1>1. /\ pass = "ways" /\ AllNodesOut /\ pass \in Fetched
      /\ Reading(pass) /\ Accepted(item) /\ item = stream[pos + 1]
  BY DEF AtWay, Reading, AllNodesOut, Fetched, item
<1>2. w.refs \in Seq(NodeIds) /\ Len(w.refs) > 1
  BY <1>1, NextWay
<1>3. a \in Needed(stream, cmd.withBounds) /\ b \in Needed(stream, cmd.withBounds)
  <2>1. RefSet(w) \subseteq Needed(stream, cmd.withBounds)
    BY <1>1, CompleteWay
  <2> QED BY <1>2, <2>1, EdgeRefs
<1>4. /\ a = IF Reversed(w, n) THEN t ELSE s
      /\ b = IF Reversed(w, n) THEN s ELSE t
  BY DEF SourceRef, TargetRef
<1>5. EdgesOf(w)[n] = MakeEdge(osmIdToMyNodeId[a], osmIdToMyNodeId[b], HwType(w))
  BY DEF EdgesOf
<1> DEFINE e == EdgesOf(w)[n]
           L(x) == Promise!Location(x)
<1>6. Resolved(e) = [from |-> a, to |-> b, type |-> HwType(w), ends |-> {L(a)} \cup {L(b)}]
  <2>1. /\ e.source = osmIdToMyNodeId[a] /\ e.target = osmIdToMyNodeId[b]
        /\ e.type = HwType(w)
        /\ e.ends = CoordinatesOf(osmIdToMyNodeId[a]) \cup CoordinatesOf(osmIdToMyNodeId[b])
    BY <1>5 DEF MakeEdge
  <2>2. /\ outNodes[e.source + 1].node.osmId = a
        /\ outNodes[e.target + 1].node.osmId = b
        /\ e.ends = {L(a)} \cup {L(b)}
    BY <1>1, <1>3, <2>1, IdLocation
  <2> HIDE DEF e, a, b, w, L
  <2> QED BY <2>1, <2>2 DEF Resolved
<1>7. Promise!EdgeIn(EdgeSlot(pos + 1, n)) =
        [from |-> a, to |-> b, type |-> HwType(w), ends |-> {L(s), L(t)}]
  <2> DEFINE sl == EdgeSlot(pos + 1, n)
  <2>1. /\ stream[sl.way] = w /\ sl.segment = Segment(w, n)
        /\ sl.forward <=> ~ Reversed(w, n)
    BY <1>1 DEF EdgeSlot
  <2>2. Promise!HwType(w) = HwType(w)
    BY SameItems
  <2>3. /\ (IF sl.forward THEN s ELSE t) = a
        /\ (IF sl.forward THEN t ELSE s) = b
    BY <1>4, <2>1
  <2>4. Promise!EdgeIn(sl) =
          [from |-> IF sl.forward THEN s ELSE t, to |-> IF sl.forward THEN t ELSE s,
           type |-> HwType(w), ends |-> {L(s), L(t)}]
    <3> HIDE DEF sl
    <3> QED BY <2>1, <2>2 DEF Promise!EdgeIn
  <2> HIDE DEF sl, s, t, a, b, w, L
  <2> QED BY <2>3, <2>4 DEF sl
<1>8. {L(a)} \cup {L(b)} = {L(s), L(t)}
  BY <1>4
<1> HIDE DEF s, t, a, b, L
<1> QED BY <1>6, <1>7, <1>8 DEF e

(***************************************************************************)
(* The bag of the edges written is the bag of the slots.                   *)
(***************************************************************************)

Fibre(f, e) == {x \in DOMAIN f : f[x] = e}
BagOf(f) == [e \in {f[x] : x \in DOMAIN f} |-> Cardinality(Fibre(f, e))]

\* Two bags are equal if they count each value alike, also the absent ones.
LEMMA EqualBags ==
  ASSUME NEW f, NEW g, IsFiniteSet(DOMAIN f), IsFiniteSet(DOMAIN g)
  PROVE  BagOf(f) = BagOf(g) <=> \A e : Cardinality(Fibre(f, e)) = Cardinality(Fibre(g, e))
<1>1. ASSUME NEW h, IsFiniteSet(DOMAIN h)
      PROVE  /\ \A e : e \in DOMAIN BagOf(h) <=> Cardinality(Fibre(h, e)) # 0
             /\ \A e \in DOMAIN BagOf(h) : BagOf(h)[e] = Cardinality(Fibre(h, e))
             /\ BagOf(h) = [e \in DOMAIN BagOf(h) |-> BagOf(h)[e]]
  <2>1. \A e : IsFiniteSet(Fibre(h, e))
    BY <1>1, FS_Subset DEF Fibre
  <2>2. \A e : Fibre(h, e) = {} <=> Cardinality(Fibre(h, e)) = 0
    BY <2>1, FS_EmptySet
  <2>3. \A e : e \in DOMAIN BagOf(h) <=> Fibre(h, e) # {}
    BY DEF BagOf, Fibre
  <2> QED BY <2>2, <2>3 DEF BagOf
<1>2. ASSUME BagOf(f) = BagOf(g), NEW e
      PROVE  Cardinality(Fibre(f, e)) = Cardinality(Fibre(g, e))
  BY <1>1, <1>2
<1>3. ASSUME \A e : Cardinality(Fibre(f, e)) = Cardinality(Fibre(g, e))
      PROVE  BagOf(f) = BagOf(g)
  <2>1. DOMAIN BagOf(f) = DOMAIN BagOf(g)
    BY <1>1, <1>3
  <2>2. \A e \in DOMAIN BagOf(f) : BagOf(f)[e] = BagOf(g)[e]
    BY <1>1, <1>3, <2>1
  <2> QED BY <1>1, <2>1, <2>2
<1> QED BY <1>2, <1>3

WrittenList == [n \in DOMAIN outEdges |-> Resolved(outEdges[n])]
SlotList(ways) == [s \in Promise!Slots(ways) |-> Promise!EdgeIn(s)]

WrittenBagIs ==
  /\ WrittenBag = BagOf(WrittenList)
  /\ \A e : Fibre(WrittenList, e) = WrittenTo(e)

\* The bag of the refinement mapping ...
LEMMA WrittenBags == WrittenBagIs
<1>1. \A e : Fibre(WrittenList, e) = WrittenTo(e)
  BY DEF Fibre, WrittenList, WrittenTo
<1>2. {Resolved(outEdges[n]) : n \in DOMAIN outEdges}
        = {WrittenList[n] : n \in DOMAIN WrittenList}
  BY DEF WrittenList
<1> QED BY <1>1, <1>2 DEF WrittenBagIs, WrittenBag, BagOf, WrittenTo

\* ... and the bag of the abstract creator.
LEMMA SlotBags ==
  ASSUME NEW ways
  PROVE  /\ Promise!EdgeBag(ways) = BagOf(SlotList(ways))
         /\ \A e : Fibre(SlotList(ways), e) = SlotsTo(ways, e)
<1>1. \A e : Fibre(SlotList(ways), e) = SlotsTo(ways, e)
  BY DEF Fibre, SlotList, SlotsTo
<1>2. {Promise!EdgeIn(s) : s \in Promise!Slots(ways)}
        = {SlotList(ways)[s] : s \in DOMAIN SlotList(ways)}
  BY DEF SlotList
<1>3. Promise!EdgeBag(ways) = [e \in {Promise!EdgeIn(s) : s \in Promise!Slots(ways)} |->
                                 Cardinality(SlotsTo(ways, e))]
  BY SameCount DEF Promise!EdgeBag, SlotsTo
<1> QED BY <1>1, <1>2, <1>3 DEF BagOf

\* Writing a complete way adds as many edges of each kind as it has slots.
LEMMA WriteWayBag ==
  ASSUME GraphInv, FetchInv, LocationsInv, NodesUnique(stream), WriteWay,
         item.id \notin invalidWays, NEW ways, IsFiniteSet(Promise!Slots(ways)),
         pos + 1 \notin ways, NEW e, Cardinality(WrittenTo(e)) = Cardinality(SlotsTo(ways, e))
  PROVE  Cardinality(WrittenTo(e)') = Cardinality(SlotsTo(ways \cup {pos + 1}, e))
<1> DEFINE i == pos + 1
           P == {x \in EdgeRecords : Resolved(x) = e}
<1>1. /\ AtWay("ways") /\ pass = "ways" /\ Reading(pass) /\ Accepted(item) /\ item = stream[i]
      /\ outEdges' = outEdges \o EdgesOf(item) /\ UNCHANGED <<outNodes, stream>>
  BY DEF WriteWay, AtWay, Reading, item, input
<1>2. outEdges \in Seq(EdgeRecords) /\ EdgesOf(item) \in Seq(EdgeRecords)
  BY <1>1, EdgesOfType DEF GraphInv, TypeOK
<1>3. Places(outEdges, P) = WrittenTo(e)
  <2>1. \A n \in DOMAIN outEdges : outEdges[n] \in P <=> Resolved(outEdges[n]) = e
    BY <1>2
  <2> HIDE DEF P
  <2> QED BY <2>1 DEF Places, WrittenTo
<1>4. Places(outEdges', P) = WrittenTo(e)'
  <2>1. outEdges' \in Seq(EdgeRecords)
    BY <1>1, <1>2
  <2>2. \A x : Resolved(x)' = Resolved(x)
    BY <1>1 DEF Resolved
  <2>3. \A n \in DOMAIN outEdges' : outEdges'[n] \in P <=> Resolved(outEdges'[n]) = e
    BY <2>1
  <2> HIDE DEF P
  <2> QED BY <2>2, <2>3 DEF Places, WrittenTo
<1>5. Places(EdgesOf(item), P) = NumbersTo(i, e)
  <2>1. DOMAIN EdgesOf(item) = 1..WayEdgeCount(item)
    BY DEF EdgesOf
  <2>2. \A n \in 1..WayEdgeCount(item) :
          Resolved(EdgesOf(item)[n]) = Promise!EdgeIn(EdgeSlot(i, n))
    BY <1>1, ResolvedEdge
  <2>3. \A n \in DOMAIN EdgesOf(item) : EdgesOf(item)[n] \in EdgeRecords
    BY <1>2
  <2>4. \A n \in 1..WayEdgeCount(item) :
          EdgesOf(item)[n] \in P <=> Promise!EdgeIn(EdgeSlot(i, n)) = e
    BY <2>1, <2>2, <2>3
  <2> HIDE DEF P
  <2> QED BY <1>1, <2>1, <2>4 DEF Places, NumbersTo
<1>6. Cardinality(WrittenTo(e)') = Cardinality(WrittenTo(e)) + Cardinality(NumbersTo(i, e))
  BY <1>1, <1>2, <1>3, <1>4, <1>5, ConcatCount
<1> DEFINE S == {s \in SlotsOf(i) : Promise!EdgeIn(s) = e}
           W == SlotsTo(ways, e)
<1>7. IsFiniteSet(S) /\ Cardinality(S) = Cardinality(NumbersTo(i, e))
  <2>1. Len(stream[i].refs) \in Nat /\ Len(stream[i].refs) > 1
    BY <1>1, NextWay
  <2> QED BY <2>1, SlotsToCount
<1>8. IsFiniteSet(W)
  BY FS_Subset DEF SlotsTo
<1>9. SlotsTo(ways \cup {i}, e) = W \cup S /\ W \cap S = {}
  BY SlotsOfWays DEF SlotsTo
<1> HIDE DEF S, W
<1>10. Cardinality(W \cup S) = Cardinality(W) + Cardinality(S)
  BY <1>7, <1>8, <1>9, DisjointCount
<1> QED BY <1>6, <1>7, <1>9, <1>10 DEF W

\* The slots and their edges are a matter of the input.
LEMMA PromiseFixed ==
  ASSUME UNCHANGED <<stream, cmd>>
  PROVE  /\ \A ways : Promise!EdgeBag(ways)' = Promise!EdgeBag(ways)
         /\ Promise!Complete' = Promise!Complete
         /\ Promise!NeededNodes' = Promise!NeededNodes
<1>1. /\ Promise!Complete' = Promise!Complete
      /\ Promise!NeededNodes' = Promise!NeededNodes
  BY DEF Promise!Complete, Promise!NeededNodes
<1>2. \A x : Promise!Location(x)' = Promise!Location(x)
  BY <1>1 DEF Promise!Location
<1>3. \A s : Promise!EdgeIn(s)' = Promise!EdgeIn(s)
  BY <1>2 DEF Promise!EdgeIn
<1> DEFINE D(i) == IF Promise!TwoWay(i) THEN BOOLEAN ELSE {TRUE}
<1>4. \A i : D(i)' = D(i)
  BY DEF Promise!TwoWay
<1>5. ASSUME NEW ways PROVE Promise!Slots(ways)' = Promise!Slots(ways)
  <2> DEFINE S(i) == {[way |-> i, segment |-> k, forward |-> f] :
                        k \in 1..(Len(stream[i].refs) - 1), f \in D(i)}
  <2>1. Promise!Slots(ways) = UNION {S(i) : i \in ways}
    BY DEF Promise!Slots
  <2>2. Promise!Slots(ways)' = UNION {S(i)' : i \in ways}
    BY DEF Promise!Slots
  <2>3. ASSUME NEW i PROVE S(i)' = S(i)
    <3> HIDE DEF D
    <3> QED BY <1>4
  <2> HIDE DEF S
  <2> QED BY <2>1, <2>2, <2>3
<1>6. \A ways : Promise!EdgeBag(ways)' = Promise!EdgeBag(ways)
  BY <1>3, <1>5 DEF Promise!EdgeBag
<1> QED BY <1>1, <1>6

\* The ways written so far, at the steps of the edge section and elsewhere.
LEMMA WrittenWaysAre ==
  ASSUME stream \in Extracts
  PROVE  /\ pass \notin {"ways", "done"} => WrittenWays = {}
         /\ pass = "ways" /\ pos = 0 => WrittenWays = {}
         /\ pass = "ways" /\ pos = Len(stream) => WrittenWays = CompleteAt(stream, cmd.withBounds)
         /\ pass = "done" => WrittenWays = CompleteAt(stream, cmd.withBounds)
         /\ WrittenWays \subseteq CompleteAt(stream, cmd.withBounds)
<1>1. \A i \in CompleteAt(stream, cmd.withBounds) : i \in Nat /\ 1 <= i /\ i <= Len(stream)
  BY WayPositions, Positions
<1> QED BY <1>1 DEF WrittenWays

BagInv == NodesUnique(stream) => WrittenBag = Promise!EdgeBag(WrittenWays)

\* The step that writes the edges of a complete way.
WritesWay == WriteWay /\ item.id \notin invalidWays

\* It adds the way, and its edges.
LEMMA WritesWayStep ==
  ASSUME GraphInv, FetchInv, EdgesCounted, LocationsInv, BagInv, NodesUnique(stream), WritesWay
  PROVE  /\ pos + 1 \in CompleteAt(stream, cmd.withBounds) \ WrittenWays
         /\ WrittenWays' = WrittenWays \cup {pos + 1}
         /\ WrittenBag' = Promise!EdgeBag(WrittenWays')
<1>1. /\ pass = "ways" /\ Reading(pass) /\ Accepted(item) /\ pos' = pos + 1 /\ pass' = pass
      /\ UNCHANGED <<stream, cmd>> /\ stream \in Extracts /\ pos \in Nat
  BY DEF WritesWay, WriteWay, AtWay, Reading, Advance, input, GraphInv, TypeOK, SelectionInv,
     ScanOK
<1>2. pos + 1 \in CompleteAt(stream, cmd.withBounds)
  BY <1>1, CompleteWay DEF WritesWay
<1>3. \A i \in CompleteAt(stream, cmd.withBounds) : i \in Nat
  BY <1>1, WayPositions, Positions
<1>4. pos + 1 \notin WrittenWays /\ WrittenWays' = WrittenWays \cup {pos + 1}
  <2>1. WrittenWays = {i \in CompleteAt(stream, cmd.withBounds) : i <= pos}
    BY <1>1 DEF WrittenWays
  <2>2. WrittenWays' = {i \in CompleteAt(stream, cmd.withBounds) : i <= pos + 1}
    BY <1>1 DEF WrittenWays
  <2> QED BY <1>1, <1>2, <1>3, <2>1, <2>2
<1> DEFINE W == WrittenWays
           X == W \cup {pos + 1}
<1>5. IsFiniteSet(Promise!Slots(CompleteAt(stream, cmd.withBounds)))
  <2>1. IsFiniteSet(EdgesUpTo(stream, cmd.withBounds, Len(stream)))
    BY <1>1 DEF EdgesCounted, MarkPasses
  <2> QED BY <1>1, <2>1, SlotCount
<1>6. IsFiniteSet(Promise!Slots(W)) /\ IsFiniteSet(Promise!Slots(X))
  <2>1. W \subseteq CompleteAt(stream, cmd.withBounds) /\ X \subseteq CompleteAt(stream, cmd.withBounds)
    BY <1>1, <1>2, WrittenWaysAre
  <2>2. /\ Promise!Slots(W) \subseteq Promise!Slots(CompleteAt(stream, cmd.withBounds))
        /\ Promise!Slots(X) \subseteq Promise!Slots(CompleteAt(stream, cmd.withBounds))
    <3> HIDE DEF W, X
    <3> QED BY <2>1, SlotsOfWays
  <2> QED BY <1>5, <2>2, FS_Subset
<1>7. DOMAIN SlotList(W) = Promise!Slots(W) /\ DOMAIN SlotList(X) = Promise!Slots(X)
  BY DEF SlotList
<1>8. IsFiniteSet(DOMAIN WrittenList) /\ IsFiniteSet(DOMAIN WrittenList')
  <2>1. outEdges \in Seq(EdgeRecords) /\ EdgesOf(item) \in Seq(EdgeRecords)
    BY <1>1, EdgesOfType DEF GraphInv, TypeOK, WritesWay, WriteWay
  <2>2. outEdges' = outEdges \o EdgesOf(item)
    BY DEF WritesWay, WriteWay
  <2>3. IsFiniteSet(DOMAIN outEdges) /\ IsFiniteSet(DOMAIN outEdges')
    BY <2>1, <2>2, ConcatParts, FS_Interval
  <2> QED BY <2>3 DEF WrittenList
<1>9. /\ WrittenBag' = BagOf(WrittenList')
      /\ \A e : Fibre(WrittenList', e) = WrittenTo(e)'
  <2>1. WrittenBagIs'
    BY WrittenBags, PTL
  <2> QED BY <2>1 DEF WrittenBagIs
<1>10. ASSUME NEW e PROVE Cardinality(Fibre(WrittenList', e)) = Cardinality(Fibre(SlotList(X), e))
  <2>1. BagOf(WrittenList) = BagOf(SlotList(W))
    BY WrittenBags, SlotBags DEF BagInv, WrittenBagIs
  <2>2. Cardinality(Fibre(WrittenList, e)) = Cardinality(Fibre(SlotList(W), e))
    BY <1>6, <1>7, <1>8, <2>1, EqualBags
  <2>3. Cardinality(WrittenTo(e)) = Cardinality(SlotsTo(W, e))
    BY <2>2, WrittenBags, SlotBags DEF WrittenBagIs
  <2>4. Cardinality(WrittenTo(e)') = Cardinality(SlotsTo(X, e))
    BY <1>4, <1>6, <2>3, WriteWayBag DEF WritesWay
  <2> QED BY <1>9, <2>4, SlotBags
<1>11. BagOf(WrittenList') = BagOf(SlotList(X))
  BY <1>6, <1>7, <1>8, <1>10, EqualBags
<1>12. WrittenBag' = Promise!EdgeBag(X)
  BY <1>9, <1>11, SlotBags
<1> QED BY <1>2, <1>4, <1>12

\* Every other step leaves the ways and edges written as they are.
LEMMA OtherSteps ==
  ASSUME GraphInv, EdgesWritten, Next, ~ WritesWay
  PROVE  WrittenWays' = WrittenWays /\ WrittenBag' = WrittenBag
<1>1. /\ UNCHANGED <<stream, cmd>> /\ stream \in Extracts /\ pos \in Nat
      /\ CompleteAt(stream, cmd.withBounds)' = CompleteAt(stream, cmd.withBounds)
  BY DEF Next, SkipItem, CollectWay, EndCollect, DeleteAvailable, EndAvailable, InvalidateWay,
     EndInvalidate, RefsWay, EndRefs, FetchNode, EndFetch, DegreeWay, EndDegree, WriteHeader,
     WriteNode, EndNodes, WriteWay, EndWays, input, GraphInv, SelectionInv, ScanOK
<1>2. \A i \in CompleteAt(stream, cmd.withBounds) : i \in 1..Len(stream)
  BY <1>1, WayPositions
<1>3. outEdges' = outEdges /\ (outNodes' = outNodes \/ outEdges = << >>)
  BY DEF Next, SkipItem, CollectWay, EndCollect, DeleteAvailable, EndAvailable, InvalidateWay,
     EndInvalidate, RefsWay, EndRefs, FetchNode, EndFetch, DegreeWay, EndDegree, WriteHeader,
     WriteNode, EndNodes, WriteWay, EndWays, WritesWay, output, EdgesWritten, AllNodesOut
<1>4. WrittenBag' = WrittenBag
  <2>1. CASE outNodes' = outNodes
    <3>1. \A e : Resolved(e)' = Resolved(e)
      BY <2>1 DEF Resolved
    <3> QED BY <1>3, <3>1 DEF WrittenBag
  <2>2. CASE outEdges = << >>
    <3>1. outEdges' = << >> /\ DOMAIN << >> = {}
      BY <1>3, <2>2
    <3>2. WrittenBag = [e \in {} |-> 0]
      <4>1. {Resolved(outEdges[n]) : n \in DOMAIN outEdges} = {}
        BY <2>2, <3>1
      <4> QED BY <4>1 DEF WrittenBag
    <3>3. WrittenBag' = [e \in {} |-> 0]
      <4>1. {Resolved(outEdges[n])' : n \in DOMAIN outEdges'} = {}
        BY <3>1
      <4> QED BY <4>1 DEF WrittenBag
    <3> QED BY <3>2, <3>3
  <2> QED BY <1>3, <2>1, <2>2
<1>5. WrittenWays' = WrittenWays
  <2>1. CASE pass = "ways" /\ pass' = "ways" /\ pos' = pos + 1
    <3>1. pos + 1 \notin CompleteAt(stream, cmd.withBounds)
      <4>1. CASE SkipItem
        <5>1. item = stream[pos + 1] /\ ~ Accepted(item)
          BY <2>1, <4>1 DEF SkipItem, Reading, item, NodePasses
        <5> QED BY <1>1, <5>1, WayPositions DEF AcceptedAt
      <4>2. CASE WriteWay
        <5>1. Reading(pass) /\ Accepted(item) /\ item.id \in invalidWays
          BY <2>1, <4>2 DEF WriteWay, AtWay, Reading, WritesWay
        <5> QED BY <2>1, <5>1, CompleteWay
      <4> QED BY <2>1, <4>1, <4>2 DEF Next, CollectWay, EndCollect, DeleteAvailable, EndAvailable,
                InvalidateWay, EndInvalidate, RefsWay, EndRefs, FetchNode, EndFetch, DegreeWay,
                EndDegree, WriteHeader, WriteNode, EndNodes, EndWays, AtWay, AtNode, AtEnd, Reading
    <3>2. \A i \in CompleteAt(stream, cmd.withBounds) : i <= pos + 1 <=> i <= pos
      BY <1>1, <1>2, <3>1, Positions
    <3> QED BY <1>1, <2>1, <3>2 DEF WrittenWays
  <2>2. CASE EndNodes
    <3>1. pass = "nodes" /\ pass' = "ways" /\ pos' = 0
      BY <2>2 DEF EndNodes, Goto
    <3> QED BY <1>1, <1>2, <3>1, Positions DEF WrittenWays
  <2>3. CASE EndWays
    <3>1. pass = "ways" /\ pass' = "done" /\ pos = Len(stream)
      BY <2>3 DEF EndWays, AtEnd
    <3> QED BY <1>1, <1>2, <3>1, Positions DEF WrittenWays
  <2>4. CASE pass \notin {"ways", "done"} /\ pass' \notin {"ways", "done"}
    BY <2>4 DEF WrittenWays
  <2>5. \/ pass = "ways" /\ pass' = "ways" /\ pos' = pos + 1
        \/ EndNodes \/ EndWays
        \/ pass \notin {"ways", "done"} /\ pass' \notin {"ways", "done"}
    BY DEF Next, SkipItem, CollectWay, EndCollect, DeleteAvailable, EndAvailable, InvalidateWay,
       EndInvalidate, RefsWay, EndRefs, FetchNode, EndFetch, DegreeWay, EndDegree, WriteHeader,
       WriteNode, WriteWay, AtWay, AtNode, AtEnd, Reading, Advance, Goto, WayPasses, NodePasses
  <2> QED BY <2>1, <2>2, <2>3, <2>4, <2>5
<1> QED BY <1>4, <1>5

\* The edges written are those of the ways written.
LEMMA BagStep ==
  ASSUME GraphInv, FetchInv, EdgesCounted, EdgesWritten, LocationsInv, BagInv, [Next]_vars
  PROVE  BagInv'
<1>1. UNCHANGED <<stream, cmd>>
  BY DEF Next, SkipItem, CollectWay, EndCollect, DeleteAvailable, EndAvailable, InvalidateWay,
     EndInvalidate, RefsWay, EndRefs, FetchNode, EndFetch, DegreeWay, EndDegree, WriteHeader,
     WriteNode, EndNodes, WriteWay, EndWays, input, vars
<1>2. \A ways : Promise!EdgeBag(ways)' = Promise!EdgeBag(ways)
  BY <1>1, PromiseFixed
<1>3. CASE WritesWay
  BY <1>1, <1>2, <1>3, WritesWayStep DEF BagInv
<1>4. CASE UNCHANGED vars
  <2>1. UNCHANGED <<pass, pos, outEdges, outNodes>>
    BY <1>4 DEF vars, scan, output
  <2>2. \A e : Resolved(e)' = Resolved(e)
    BY <2>1 DEF Resolved
  <2>3. WrittenBag' = WrittenBag
    BY <2>1, <2>2 DEF WrittenBag
  <2>4. WrittenWays' = WrittenWays
    BY <1>1, <2>1 DEF WrittenWays
  <2> QED BY <1>1, <1>2, <2>3, <2>4 DEF BagInv
<1>5. CASE Next /\ ~ WritesWay
  BY <1>1, <1>2, <1>5, OtherSteps DEF BagInv
<1> QED BY <1>3, <1>4, <1>5

(***************************************************************************)
(* The node section holds the needed nodes.                                *)
(***************************************************************************)

StoredNode(i) == [osmId |-> Records[i].osmId, loc |-> nodeCoordinates[i]]

\* The stored nodes and the needed nodes correspond one to one.
LEMMA StoredNodes ==
  ASSUME GraphInv, FetchInv, LocationsInv, NodesUnique(stream), pass \in Fetched
  PROVE  /\ WrittenNodes = {StoredNode(i) : i \in DOMAIN outNodes}
         /\ DOMAIN outNodes \subseteq DOMAIN Records
         /\ Promise!NeededNodes = {StoredNode(i) : i \in DOMAIN Records}
         /\ \A i, j \in DOMAIN Records : StoredNode(i) = StoredNode(j) => i = j
<1>1. /\ stream \in Extracts /\ DOMAIN Records = DOMAIN nodeCoordinates
  BY DEF GraphInv, TypeOK, IdsInv
<1>2. \A i \in DOMAIN outNodes : /\ i \in DOMAIN Records
                                 /\ outNodes[i].node = Records[i]
                                 /\ outNodes[i].coordinates = nodeCoordinates[i]
  BY <1>1 DEF GraphInv, WrittenInv
<1>3. WrittenNodes = {StoredNode(i) : i \in DOMAIN outNodes}
  BY <1>2 DEF WrittenNodes, StoredNode
<1>4. RecordIds = Needed(stream, cmd.withBounds)
  BY DEF FetchInv
<1>5. ASSUME NEW i \in DOMAIN Records PROVE StoredNode(i) \in Promise!NeededNodes
  <2>1. PICK j \in DOMAIN stream : /\ NodeAt(stream, j) /\ stream[j].id = Records[i].osmId
                                   /\ stream[j].loc = nodeCoordinates[i]
    BY <1>1, <1>5 DEF LocationsInv
  <2>2. stream[j].id \in Needed(stream, cmd.withBounds)
    BY <1>4, <1>5, <2>1 DEF RecordIds
  <2> QED BY <2>1, <2>2, SameItems, SameData DEF Promise!NeededNodes, StoredNode
<1>6. ASSUME NEW n \in Promise!NeededNodes
      PROVE  \E i \in DOMAIN Records : n = StoredNode(i)
  <2>1. PICK j \in DOMAIN stream :
          /\ NodeAt(stream, j) /\ stream[j].id \in Needed(stream, cmd.withBounds)
          /\ n = [osmId |-> stream[j].id, loc |-> stream[j].loc]
    BY <1>6, SameItems, SameData DEF Promise!NeededNodes
  <2>2. PICK i \in DOMAIN Records : Records[i].osmId = stream[j].id
    BY <1>4, <2>1 DEF RecordIds
  <2>3. PICK k \in DOMAIN stream : /\ NodeAt(stream, k) /\ stream[k].id = Records[i].osmId
                                   /\ stream[k].loc = nodeCoordinates[i]
    BY <1>1 DEF LocationsInv
  <2>4. k = j
    BY <2>1, <2>2, <2>3 DEF NodesUnique
  <2> QED BY <2>1, <2>2, <2>3, <2>4 DEF StoredNode
<1>7. \A i, j \in DOMAIN Records : StoredNode(i) = StoredNode(j) => i = j
  <2>1. \A i, j \in DOMAIN Records : Records[i].osmId = Records[j].osmId => i = j
    BY DEF FetchInv
  <2>2. \A i : StoredNode(i).osmId = Records[i].osmId
    BY DEF StoredNode
  <2> QED BY <2>1, <2>2
<1> QED BY <1>2, <1>3, <1>5, <1>6, <1>7

\* When the edge section begins, all needed nodes have been written.
LEMMA AllNodesWritten ==
  ASSUME GraphInv, FetchInv, LocationsInv, NodesUnique(stream), pass \in {"ways", "done"}
  PROVE  WrittenNodes = Promise!NeededNodes
<1>1. DOMAIN outNodes = DOMAIN Records
  BY DEF Records, AllNodesOut
<1> QED BY <1>1, StoredNodes DEF Fetched

\* The step that writes a node writes one that has not been written.
LEMMA WriteNodePuts ==
  ASSUME GraphInv, FetchInv, LocationsInv, NodesUnique(stream), WriteNode
  PROVE  \E n \in Promise!NeededNodes \ WrittenNodes : WrittenNodes' = WrittenNodes \cup {n}
<1> DEFINE r == [node |-> nodes[pos + 1], coordinates |-> nodeCoordinates[pos + 1]]
           k == pos + 1
<1>1. /\ pass = "nodes" /\ pass \in Fetched /\ pos < Len(nodes) /\ outNodes' = Append(outNodes, r)
  BY DEF WriteNode, Fetched
<1> DEFINE T == [node : NodeRecords, coordinates : Locations]
<1>2. /\ Records = nodes /\ pos \in Nat /\ nodes \in Seq(NodeRecords)
      /\ outNodes \in Seq(T) /\ Len(outNodes) = pos /\ DOMAIN outNodes = 1..pos
  <2>1. Records = nodes /\ pos \in Nat
    BY <1>1 DEF Records, AllNodesOut, GraphInv, SelectionInv, ScanOK
  <2>2. nodes \in Seq(NodeRecords) /\ outNodes \in Seq(T)
    BY DEF GraphInv, TypeOK
  <2>3. Len(outNodes) = pos
    BY <1>1 DEF GraphInv, WrittenInv
  <2> HIDE DEF T
  <2> QED BY <2>1, <2>2, <2>3
<1>3. k \in DOMAIN Records /\ k \notin DOMAIN outNodes
  BY <1>1, <1>2
<1>4. /\ DOMAIN outNodes' = DOMAIN outNodes \cup {k}
      /\ \A i \in DOMAIN outNodes : outNodes'[i] = outNodes[i]
      /\ outNodes'[k] = r
  <2> HIDE DEF r, T
  <2>1. /\ DOMAIN outNodes' = 1..(pos + 1)
        /\ \A i \in 1..pos : outNodes'[i] = outNodes[i]
        /\ outNodes'[pos + 1] = r
    BY <1>1, <1>2
  <2> QED BY <1>2, <2>1
<1> DEFINE out(i) == [osmId |-> outNodes[i].node.osmId, loc |-> outNodes[i].coordinates]
<1>5. WrittenNodes' = {out(i)' : i \in DOMAIN outNodes'}
  BY DEF WrittenNodes
<1>6. \A i \in DOMAIN outNodes : out(i)' = out(i)
  BY <1>4
<1>7. \A i : i = k => out(i)' = StoredNode(k)
  BY <1>2, <1>4 DEF StoredNode
<1>8. WrittenNodes = {out(i) : i \in DOMAIN outNodes}
  BY DEF WrittenNodes
<1> HIDE DEF out, k, r, T
<1>9. WrittenNodes' = WrittenNodes \cup {StoredNode(k)}
  BY <1>4, <1>5, <1>6, <1>7, <1>8
<1>10. StoredNode(k) \in Promise!NeededNodes
  BY <1>1, <1>3, StoredNodes
<1>11. StoredNode(k) \notin WrittenNodes
  BY <1>1, <1>3, StoredNodes
<1> QED BY <1>9, <1>10, <1>11

(***************************************************************************)
(* The steps.                                                              *)
(***************************************************************************)

\* What the abstract creator sees of a step that writes nothing.
LEMMA Unseen ==
  ASSUME GraphInv, EdgesWritten, Next, ~ WritesWay, Phase' = Phase,
         UNCHANGED <<header, outNodes>>
  PROVE  UNCHANGED Promise!vars
<1>1. UNCHANGED <<stream, cmd>>
  BY DEF Next, SkipItem, CollectWay, EndCollect, DeleteAvailable, EndAvailable, InvalidateWay,
     EndInvalidate, RefsWay, EndRefs, FetchNode, EndFetch, DegreeWay, EndDegree, WriteHeader,
     WriteNode, EndNodes, WriteWay, EndWays, input
<1>2. WrittenNodes' = WrittenNodes
  BY DEF WrittenNodes
<1> QED BY <1>1, <1>2, OtherSteps DEF Promise!vars

\* What the header announces is what there is.
LEMMA Announced ==
  ASSUME GraphInv, FetchInv, EdgesCounted, NodesUnique(stream), pass \in Fetched
  PROVE  /\ Len(nodeCoordinates) = Cardinality(Needed(stream, cmd.withBounds))
         /\ edgeCount = Cardinality(Promise!Slots(Promise!Complete))
<1>1. stream \in Extracts /\ pass \notin MarkPasses
  BY DEF GraphInv, TypeOK, Fetched, MarkPasses
<1>2. RecordIds = Needed(stream, cmd.withBounds)
  BY DEF FetchInv
<1>3. Len(nodeCoordinates) = Cardinality(Needed(stream, cmd.withBounds))
  BY <1>2, RecordCount
<1>4. Promise!Complete = CompleteAt(stream, cmd.withBounds)
  BY SameData DEF Promise!Complete
<1>5. edgeCount = Cardinality(Promise!Slots(Promise!Complete))
  BY <1>1, <1>4, SlotCount DEF EdgesCounted
<1> QED BY <1>3, <1>5

\* A step of the creator is a step of the abstract creator, or a stutter.
LEMMA StepPromised ==
  ASSUME GraphInv, FetchInv, EdgeCountInv, LocationsInv, BagInv, NodesUnique(stream),
         FetchInv', Next
  PROVE  Promise!Next \/ UNCHANGED Promise!vars
<1>1. /\ UNCHANGED <<stream, cmd>> /\ stream \in Extracts /\ pos \in Nat
      /\ EdgesCounted /\ EdgesWritten
  BY DEF Next, SkipItem, CollectWay, EndCollect, DeleteAvailable, EndAvailable, InvalidateWay,
     EndInvalidate, RefsWay, EndRefs, FetchNode, EndFetch, DegreeWay, EndDegree, WriteHeader,
     WriteNode, EndNodes, WriteWay, EndWays, input, GraphInv, SelectionInv, ScanOK, EdgeCountInv
<1>2. CASE WriteHeader
  <2>1. /\ pass = "header" /\ pass' = "nodes" /\ UNCHANGED outNodes
        /\ header' = [nodeCount |-> Len(nodes), edgeCount |-> edgeCount]
        /\ ~ WritesWay
    BY <1>2 DEF WriteHeader, Goto, WritesWay, WriteWay, AtWay, Reading
  <2>2. Phase = "reading" /\ Phase' = "writing"
    BY <2>1 DEF Phase
  <2>3. Len(nodes) = Len(nodeCoordinates)
    <3>1. Records = nodes /\ DOMAIN Records = 1..Len(nodeCoordinates)
      BY <2>1 DEF Records, AllNodesOut, GraphInv, IdsInv
    <3>2. nodes \in Seq(NodeRecords) /\ nodeCoordinates \in Seq(Locations)
      BY DEF GraphInv, TypeOK
    <3> QED BY <3>1, <3>2
  <2>4. header' = [nodeCount |-> Cardinality(Needed(stream, cmd.withBounds)),
                   edgeCount |-> Cardinality(Promise!Slots(Promise!Complete))]
    BY <1>1, <2>1, <2>3, Announced DEF Fetched
  <2>5. WrittenNodes' = WrittenNodes
    BY <2>1 DEF WrittenNodes
  <2> QED BY <1>1, <1>2, <2>1, <2>2, <2>4, <2>5, OtherSteps, SameCount, SameData
          DEF Promise!Announce, Promise!Next
<1>3. CASE pass' = "aborted"
  <2>1. /\ pass \notin {"nodes", "ways", "done", "aborted"} /\ ~ WritesWay
        /\ UNCHANGED <<header, outNodes>>
    BY <1>3 DEF Next, SkipItem, CollectWay, EndCollect, DeleteAvailable, EndAvailable,
       InvalidateWay, EndInvalidate, RefsWay, EndRefs, FetchNode, EndFetch, DegreeWay, EndDegree,
       WriteHeader, WriteNode, EndNodes, WriteWay, EndWays, WritesWay, AtWay, AtNode, AtEnd,
       Reading, Advance, Goto, WayPasses, NodePasses, output
  <2>2. Phase = "reading" /\ Phase' = "failed"
    BY <1>3, <2>1 DEF Phase
  <2>3. Cardinality(Needed(stream, cmd.withBounds)) >= IdSpace
    BY <1>1, <1>3 DEF FetchInv
  <2>4. WrittenNodes' = WrittenNodes
    BY <2>1 DEF WrittenNodes
  <2> QED BY <1>1, <2>1, <2>2, <2>3, <2>4, OtherSteps, SameCount, SameData
          DEF Promise!Fail, Promise!Next
<1>4. CASE WriteNode
  <2>1. /\ pass = "nodes" /\ pass' = "nodes" /\ UNCHANGED header /\ ~ WritesWay
    BY <1>4 DEF WriteNode, Advance, WritesWay, WriteWay, AtWay, Reading
  <2>2. Phase = "writing" /\ Phase' = "writing"
    BY <2>1 DEF Phase
  <2> QED BY <1>1, <1>4, <2>1, <2>2, WriteNodePuts, OtherSteps DEF Promise!PutNode, Promise!Next
<1>5. CASE WritesWay
  <2>1. pass = "ways" /\ pass' = "ways" /\ UNCHANGED <<header, outNodes>>
    BY <1>5 DEF WritesWay, WriteWay, AtWay, Reading, Advance
  <2>2. Phase = "writing" /\ Phase' = "writing"
    BY <2>1 DEF Phase
  <2>3. WrittenNodes = Promise!NeededNodes /\ WrittenNodes' = WrittenNodes
    BY <2>1, AllNodesWritten DEF WrittenNodes
  <2>4. Promise!Complete = CompleteAt(stream, cmd.withBounds)
    BY SameData DEF Promise!Complete
  <2>5. /\ \E i \in Promise!Complete \ WrittenWays : WrittenWays' = WrittenWays \cup {i}
        /\ WrittenBag' = Promise!EdgeBag(WrittenWays')
    BY <1>1, <1>5, <2>4, WritesWayStep
  <2> QED BY <1>1, <2>1, <2>2, <2>3, <2>5 DEF Promise!PutWay, Promise!Next
<1>6. CASE EndWays
  <2>1. /\ pass = "ways" /\ pass' = "done" /\ pos = Len(stream)
        /\ UNCHANGED <<header, outNodes>> /\ ~ WritesWay
    BY <1>6 DEF EndWays, AtEnd, WritesWay, WriteWay, AtWay, Reading, output
  <2>2. Phase = "writing" /\ Phase' = "done"
    BY <2>1 DEF Phase
  <2>3. WrittenNodes = Promise!NeededNodes /\ WrittenNodes' = WrittenNodes
    BY <2>1, AllNodesWritten DEF WrittenNodes
  <2>4. WrittenWays = Promise!Complete
    BY <1>1, <2>1, WrittenWaysAre, SameData DEF Promise!Complete
  <2> QED BY <1>1, <1>6, <2>1, <2>2, <2>3, <2>4, OtherSteps DEF Promise!Finish, Promise!Next
<1>7. CASE ~ (WriteHeader \/ pass' = "aborted" \/ WriteNode \/ WritesWay \/ EndWays)
  <2>1. UNCHANGED <<header, outNodes>>
    BY <1>7 DEF Next, SkipItem, CollectWay, EndCollect, DeleteAvailable, EndAvailable,
       InvalidateWay, EndInvalidate, RefsWay, EndRefs, FetchNode, EndFetch, DegreeWay, EndDegree,
       EndNodes, WriteWay, output
  <2>2. Phase' = Phase
    BY <1>7 DEF Phase, Next, SkipItem, CollectWay, EndCollect, DeleteAvailable, EndAvailable,
       InvalidateWay, EndInvalidate, RefsWay, EndRefs, FetchNode, EndFetch, DegreeWay, EndDegree,
       EndNodes, WriteWay, AtWay, AtNode, AtEnd, Reading, Advance, Goto, WayPasses, NodePasses
  <2> QED BY <1>1, <1>7, <2>1, <2>2, Unseen
<1> QED BY <1>2, <1>3, <1>4, <1>5, <1>6, <1>7

\* The creator starts as the abstract creator does.
LEMMA InitPromised ==
  ASSUME Init, NodesUnique(stream)
  PROVE  Promise!Init /\ BagInv
<1>1. /\ stream \in Extracts /\ cmd \in CommandLines /\ pass = "collect"
      /\ header = NoHeader /\ outNodes = << >> /\ outEdges = << >>
  BY CreatorAssumption DEF Init
<1>2. WrittenWays = {} /\ WrittenNodes = {}
  BY <1>1 DEF WrittenWays, WrittenNodes
<1>3. WrittenBag = Promise!EdgeBag({})
  <2>1. {Resolved(outEdges[n]) : n \in DOMAIN outEdges} = {}
    BY <1>1
  <2>2. Promise!Slots({}) = {}
    BY SlotsOfWays
  <2>3. WrittenBag = [e \in {} |-> 0]
    BY <2>1 DEF WrittenBag
  <2>4. Promise!EdgeBag({}) = [e \in {} |-> 0]
    BY <2>2 DEF Promise!EdgeBag
  <2> QED BY <2>3, <2>4
<1>4. Phase = "reading"
  BY <1>1 DEF Phase
<1> QED BY <1>1, <1>2, <1>3, <1>4, SameItems DEF Promise!Init, BagInv, NoHeader

\* On an extract in which no node occurs twice the creator implements the
\* abstract creator: it announces the graph that it then writes, each needed node
\* once and the edges of each complete way once.
THEOREM CreatorImplementsExtraction == Spec /\ NodesUnique(stream) => StepsKeepPromise
<1> DEFINE I == GraphInv /\ FetchInv /\ EdgeCountInv /\ LocationsInv
<1>1. Init /\ NodesUnique(stream) => Promise!Init /\ BagInv
  BY InitPromised
<1>2. NodesUnique(stream) /\ [Next]_vars => NodesUnique(stream)'
  <2>1. [Next]_vars => stream' = stream
    BY DEF Next, SkipItem, CollectWay, EndCollect, DeleteAvailable, EndAvailable, InvalidateWay,
       EndInvalidate, RefsWay, EndRefs, FetchNode, EndFetch, DegreeWay, EndDegree, WriteHeader,
       WriteNode, EndNodes, WriteWay, EndWays, input, vars
  <2> QED BY <2>1 DEF NodesUnique, NodeAt
<1>3. I /\ BagInv /\ [Next]_vars => BagInv'
  BY BagStep DEF EdgeCountInv
<1>4. I /\ I' /\ BagInv /\ NodesUnique(stream) /\ [Next]_vars => [Promise!Next]_(Promise!vars)
  <2> SUFFICES ASSUME I, I', BagInv, NodesUnique(stream), [Next]_vars
               PROVE  Promise!Next \/ UNCHANGED Promise!vars
    OBVIOUS
  <2>1. CASE Next
    BY <2>1, StepPromised
  <2>2. CASE UNCHANGED vars
    <3>1. UNCHANGED <<stream, cmd, pass, pos, header, outNodes, outEdges>>
      BY <2>2 DEF vars, input, scan, output
    <3>2. \A e : Resolved(e)' = Resolved(e)
      BY <3>1 DEF Resolved
    <3> QED BY <3>1, <3>2 DEF Promise!vars, WrittenBag, WrittenNodes, WrittenWays, Phase
  <2> QED BY <2>1, <2>2
<1>5. Spec => []I
  BY GraphInvariant, FetchInvariant, EdgeCountInvariant, LocationsInvariant, PTL
<1> HIDE DEF I
<1> QED BY <1>1, <1>2, <1>3, <1>4, <1>5, PTL DEF Spec, StepsKeepPromise, Promise!SafeSpec

=============================================================================
