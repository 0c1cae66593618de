------------------------ MODULE GraphCreatorProofs ------------------------
EXTENDS GraphCreatorInvariants, FiniteSetTheorems, FunctionTheorems, TLAPS

(***************************************************************************)
(* The items of an extract.                                                *)
(***************************************************************************)

\* The positions of an extract are those of a sequence, and hold items.
LEMMA Positions ==
  ASSUME NEW s \in Extracts
  PROVE  /\ Len(s) \in Nat
         /\ DOMAIN s = 1..Len(s)
         /\ \A i \in 1..Len(s) : s[i] \in Items
BY DEF Extracts

\* What is known of a node item.
LEMMA NodeTypes ==
  ASSUME NEW x \in Items, x.kind = "node"
  PROVE  x \in NodeItems /\ x.id \in NodeIds /\ x.loc \in Locations
BY DEF Items, BlockItem, NodeItems, WayItems

\* What is known of a way that the parser hands to a processor.
LEMMA WayTypes ==
  ASSUME NEW x \in Items, Accepted(x)
  PROVE  /\ x \in WayItems /\ x.id \in WayIds
         /\ x.refs \in Seq(NodeIds) /\ Len(x.refs) \in Nat /\ Len(x.refs) > 1
         /\ RefSet(x) \subseteq NodeIds
         /\ HwType(x) \in Int
<1>1. x.kind = "way" /\ x.highway \in DOMAIN HwTagIds /\ Len(x.refs) > 1
  BY DEF Accepted
<1>2. x \in WayItems
  BY <1>1 DEF Items, BlockItem, NodeItems, WayItems
<1>3. x.id \in WayIds /\ x.refs \in Seq(NodeIds)
  BY <1>2 DEF WayItems
<1>4. RefSet(x) \subseteq NodeIds
  BY <1>3 DEF RefSet
<1>5. HwType(x) \in Int
  BY <1>1, DataAssumption DEF HwType
<1> QED BY <1>1, <1>2, <1>3, <1>4, <1>5

\* The ways that are accepted, and the complete ones among them, are positions.
LEMMA WayPositions ==
  ASSUME NEW s \in Extracts, NEW wb
  PROVE  /\ AcceptedAt(s) \subseteq 1..Len(s)
         /\ CompleteAt(s, wb) \subseteq AcceptedAt(s)
BY Positions DEF AcceptedAt, CompleteAt

(***************************************************************************)
(* One more item: how the sets of GraphCreatorInvariants grow.             *)
(***************************************************************************)

\* An item that contributes nothing leaves a set as it is.
LEMMA NothingAdded == ASSUME NEW S PROVE S \cup {} = S
OBVIOUS

\* The node references of the accepted ways.
LEMMA RefsUpToStep ==
  ASSUME NEW s \in Extracts, NEW k \in Nat
  PROVE  RefsUpTo(s, k + 1) =
           RefsUpTo(s, k) \cup (IF k + 1 \in AcceptedAt(s) THEN RefSet(s[k + 1]) ELSE {})
<1> DEFINE U(m) == {j \in AcceptedAt(s) : j <= m}
<1>1. AcceptedAt(s) \subseteq Nat
  BY WayPositions, Positions
<1>2. U(k + 1) = U(k) \cup (IF k + 1 \in AcceptedAt(s) THEN {k + 1} ELSE {})
  BY <1>1
<1> QED BY <1>2 DEF RefsUpTo

\* The usable nodes.
LEMMA FoundUpToStep ==
  ASSUME NEW s \in Extracts, NEW wb, NEW k \in Nat, k < Len(s)
  PROVE  FoundUpTo(s, wb, k + 1) =
           FoundUpTo(s, wb, k) \cup (IF UsableAt(s, wb, k + 1)
                                THEN {s[k + 1].id} ELSE {})
<1> DEFINE U(m) == {j \in DOMAIN s : UsableAt(s, wb, j) /\ j <= m}
<1>1. DOMAIN s \subseteq Nat /\ k + 1 \in DOMAIN s
  BY Positions
<1>2. U(k + 1) = U(k) \cup (IF UsableAt(s, wb, k + 1) THEN {k + 1} ELSE {})
  BY <1>1
<1> QED BY <1>2 DEF FoundUpTo

\* The ways that lack a node.
LEMMA IncompleteUpToStep ==
  ASSUME NEW s \in Extracts, NEW wb, NEW k \in Nat
  PROVE  IncompleteUpTo(s, wb, k + 1) =
           IncompleteUpTo(s, wb, k) \cup
             (IF /\ k + 1 \in AcceptedAt(s)
                 /\ ~ RefSet(s[k + 1]) \subseteq Usable(s, wb)
                THEN {s[k + 1].id} ELSE {})
<1> DEFINE Lacks(j) == ~ RefSet(s[j]) \subseteq Usable(s, wb)
           U(m) == {j \in AcceptedAt(s) : Lacks(j) /\ j <= m}
<1>1. AcceptedAt(s) \subseteq Nat
  BY WayPositions, Positions
<1> HIDE DEF Lacks
<1>2. U(k + 1) = U(k) \cup (IF k + 1 \in AcceptedAt(s) /\ Lacks(k + 1) THEN {k + 1} ELSE {})
  BY <1>1
<1>3. \A m : IncompleteUpTo(s, wb, m) = {s[i].id : i \in U(m)}
  BY DEF IncompleteUpTo, Lacks
<1>4. IncompleteUpTo(s, wb, k + 1) =
        IncompleteUpTo(s, wb, k) \cup
          (IF k + 1 \in AcceptedAt(s) /\ Lacks(k + 1) THEN {s[k + 1].id} ELSE {})
  BY <1>2, <1>3
<1> QED BY <1>4 DEF Lacks

\* The node references of the complete ways.
LEMMA NeededUpToStep ==
  ASSUME NEW s \in Extracts, NEW wb, NEW k \in Nat
  PROVE  NeededUpTo(s, wb, k + 1) =
           NeededUpTo(s, wb, k) \cup (IF k + 1 \in CompleteAt(s, wb)
                                 THEN RefSet(s[k + 1]) ELSE {})
<1> DEFINE U(m) == {j \in CompleteAt(s, wb) : j <= m}
<1>1. CompleteAt(s, wb) \subseteq Nat
  BY WayPositions, Positions
<1>2. U(k + 1) = U(k) \cup (IF k + 1 \in CompleteAt(s, wb)
                              THEN {k + 1} ELSE {})
  BY <1>1
<1> QED BY <1>2 DEF NeededUpTo

\* Before the first item there is nothing, and after the last there is all.
LEMMA UpToEnds ==
  ASSUME NEW s \in Extracts, NEW wb
  PROVE  /\ RefsUpTo(s, 0) = {} /\ FoundUpTo(s, wb, 0) = {} /\ IncompleteUpTo(s, wb, 0) = {} /\ NeededUpTo(s, wb, 0) = {}
         /\ FoundUpTo(s, wb, Len(s)) = Usable(s, wb)
         /\ IncompleteUpTo(s, wb, Len(s)) = IncompleteIds(s, wb)
         /\ NeededUpTo(s, wb, Len(s)) = Needed(s, wb)
<1>1. /\ AcceptedAt(s) \subseteq 1..Len(s) /\ Len(s) \in Nat
      /\ CompleteAt(s, wb) \subseteq 1..Len(s)
      /\ DOMAIN s = 1..Len(s)
  BY WayPositions, Positions
<1>2. RefsUpTo(s, 0) = {} /\ NeededUpTo(s, wb, 0) = {}
  BY <1>1 DEF RefsUpTo, NeededUpTo
<1>3. FoundUpTo(s, wb, 0) = {} /\ IncompleteUpTo(s, wb, 0) = {}
  BY <1>1 DEF FoundUpTo, IncompleteUpTo
<1>4. FoundUpTo(s, wb, Len(s)) = Usable(s, wb)
  BY <1>1 DEF FoundUpTo, Usable
<1>5. IncompleteUpTo(s, wb, Len(s)) = IncompleteIds(s, wb)
  BY <1>1 DEF IncompleteUpTo, IncompleteIds
<1>6. NeededUpTo(s, wb, Len(s)) = Needed(s, wb)
  BY <1>1 DEF NeededUpTo, Needed
<1> QED BY <1>2, <1>3, <1>4, <1>5, <1>6

\* A way is invalid just if it has a reference to a missing node.
LEMMA LackingWays ==
  ASSUME NEW s \in Extracts, NEW wb, NEW i \in AcceptedAt(s)
  PROVE  RefSet(s[i]) \cap Missing(s, wb) # {} <=>
           ~ RefSet(s[i]) \subseteq Usable(s, wb)
<1>1. i \in 1..Len(s)
  BY WayPositions
<1>2. RefSet(s[i]) \subseteq RefsUpTo(s, Len(s))
  BY <1>1, Positions DEF RefsUpTo
<1> QED BY <1>2 DEF Missing

\* If no node is missing, no way is incomplete.
LEMMA NothingMissing ==
  ASSUME NEW s \in Extracts, NEW wb, Missing(s, wb) = {}
  PROVE  IncompleteIds(s, wb) = {}
BY LackingWays DEF IncompleteIds

(***************************************************************************)
(* The selection of ways and nodes.                                        *)
(***************************************************************************)

\* The next item of a pass over the input.
LEMMA NextItem ==
  ASSUME ScanOK, pos < Len(stream)
  PROVE  /\ pos + 1 \in 1..Len(stream)
         /\ item = stream[pos + 1] /\ item \in Items
         /\ Accepted(item) <=> pos + 1 \in AcceptedAt(stream)
BY Positions DEF ScanOK, item, AcceptedAt

\* After refs, the passes change neither the marks nor the invalid ways.
LEMMA SelectionKept ==
  ASSUME SelectionInv, UNCHANGED <<input, invalidWays>>,
         pass \notin MarkPasses, pass' \in Passes \ MarkPasses,
         DOMAIN osmIdToMyNodeId' = DOMAIN osmIdToMyNodeId,
         pos' \in Nat, pass' # "nodes" => pos' <= Len(stream)
  PROVE  SelectionInv'
<1>1. stream' = stream /\ cmd' = cmd /\ invalidWays' = invalidWays
  BY DEF input
<1>2. ScanOK'
  BY <1>1 DEF SelectionInv, ScanOK
<1>3. MarksInv'
  BY <1>1 DEF SelectionInv, MarksInv, MarkPasses
<1>4. InvalidInv'
  BY <1>1 DEF SelectionInv, InvalidInv, MarkPasses
<1> QED BY <1>2, <1>3, <1>4 DEF SelectionInv

\* An item that a pass skips contributes nothing to what the pass collects.
LEMMA SkipItemSelection ==
  ASSUME SelectionInv, SkipItem
  PROVE  SelectionInv'
<1> DEFINE wb == cmd.withBounds
<1>1. /\ pos < Len(stream) /\ pass' = pass /\ pos' = pos + 1
      /\ pass \in WayPasses \cup NodePasses
      /\ pass \in WayPasses => ~ Accepted(item)
      /\ pass \in NodePasses => item.kind # "node"
      /\ UNCHANGED <<input, osmIdToMyNodeId, invalidWays>>
  BY DEF SkipItem, Reading, Advance, WayPasses, NodePasses
<1>2. stream' = stream /\ cmd' = cmd
  BY <1>1 DEF input
<1>3. /\ ScanOK /\ stream \in Extracts /\ pos \in Nat /\ Len(stream) \in Nat
      /\ pass \in Passes
  BY Positions DEF SelectionInv, ScanOK
<1>4. /\ pos + 1 \in 1..Len(stream) /\ item = stream[pos + 1]
      /\ Accepted(item) <=> pos + 1 \in AcceptedAt(stream)
  BY <1>1, <1>3, NextItem
<1>5. ScanOK'
  BY <1>1, <1>2, <1>3 DEF ScanOK, WayPasses, NodePasses
<1>6. CASE pass = "collect"
  <2>1. RefsUpTo(stream, pos + 1) = RefsUpTo(stream, pos)
    BY <1>1, <1>3, <1>4, <1>6, RefsUpToStep, NothingAdded DEF WayPasses
  <2> QED BY <1>1, <1>2, <1>5, <1>6, <2>1 DEF SelectionInv, MarksInv, InvalidInv, MarkPasses
<1>7. CASE pass = "available"
  <2>1. ~ UsableAt(stream, wb, pos + 1)
    BY <1>1, <1>4, <1>7 DEF UsableAt, NodeAt, NodePasses
  <2>2. FoundUpTo(stream, wb, pos + 1) = FoundUpTo(stream, wb, pos)
    <3>1. FoundUpTo(stream, wb, pos + 1) = FoundUpTo(stream, wb, pos) \cup {}
      BY <1>1, <1>3, <2>1, FoundUpToStep
    <3> QED BY <3>1, NothingAdded
  <2> QED BY <1>1, <1>2, <1>5, <1>7, <2>2 DEF SelectionInv, MarksInv, InvalidInv, MarkPasses
<1>8. CASE pass = "invalidate"
  <2>1. IncompleteUpTo(stream, wb, pos + 1) = IncompleteUpTo(stream, wb, pos)
    <3>1. IncompleteUpTo(stream, wb, pos + 1) = IncompleteUpTo(stream, wb, pos) \cup {}
      BY <1>1, <1>3, <1>4, <1>8, IncompleteUpToStep DEF WayPasses
    <3> QED BY <3>1, NothingAdded
  <2> QED BY <1>1, <1>2, <1>5, <1>8, <2>1 DEF SelectionInv, MarksInv, InvalidInv, MarkPasses
<1>9. CASE pass = "refs"
  <2>1. pos + 1 \notin CompleteAt(stream, wb)
    BY <1>1, <1>3, <1>4, <1>9, WayPositions DEF WayPasses
  <2>2. NeededUpTo(stream, wb, pos + 1) = NeededUpTo(stream, wb, pos)
    <3>1. NeededUpTo(stream, wb, pos + 1) = NeededUpTo(stream, wb, pos) \cup {}
      BY <1>3, <2>1, NeededUpToStep
    <3> QED BY <3>1, NothingAdded
  <2> QED BY <1>1, <1>2, <1>5, <1>9, <2>2 DEF SelectionInv, MarksInv, InvalidInv, MarkPasses
<1>10. CASE pass \notin MarkPasses
  <2>1. pass' \in Passes \ MarkPasses /\ pos' \in Nat /\ pos' <= Len(stream)
    BY <1>1, <1>3, <1>10
  <2> QED BY <1>1, <1>10, <2>1, SelectionKept
<1> QED BY <1>6, <1>7, <1>8, <1>9, <1>10 DEF MarkPasses

\* collect marks the references of one more way.
LEMMA CollectWaySelection ==
  ASSUME SelectionInv, CollectWay
  PROVE  SelectionInv'
<1>1. /\ pass = "collect" /\ pos < Len(stream) /\ Accepted(item)
      /\ pass' = pass /\ pos' = pos + 1
      /\ osmIdToMyNodeId' = Mark(osmIdToMyNodeId, RefSet(item))
      /\ UNCHANGED <<input, invalidWays>>
  BY DEF CollectWay, AtWay, Reading, Advance
<1>2. stream' = stream /\ cmd' = cmd
  BY <1>1 DEF input
<1>3. /\ ScanOK /\ stream \in Extracts /\ pos \in Nat /\ Len(stream) \in Nat
  BY Positions DEF SelectionInv, ScanOK
<1>4. /\ item = stream[pos + 1] /\ pos + 1 \in AcceptedAt(stream)
  BY <1>1, <1>3, NextItem
<1>5. RefsUpTo(stream, pos + 1) = RefsUpTo(stream, pos) \cup RefSet(item)
  BY <1>3, <1>4, RefsUpToStep
<1>6. DOMAIN osmIdToMyNodeId' = DOMAIN osmIdToMyNodeId \cup RefSet(item)
  BY <1>1 DEF Mark
<1>7. ScanOK'
  BY <1>1, <1>2, <1>3 DEF ScanOK
<1>8. MarksInv'
  BY <1>1, <1>2, <1>5, <1>6 DEF SelectionInv, MarksInv, MarkPasses
<1>9. InvalidInv'
  BY <1>1, <1>2 DEF SelectionInv, InvalidInv
<1> QED BY <1>7, <1>8, <1>9 DEF SelectionInv

\* available starts with all of them.
LEMMA EndCollectSelection ==
  ASSUME SelectionInv, EndCollect
  PROVE  SelectionInv'
<1>1. /\ pass = "collect" /\ pos = Len(stream) /\ pass' = "available" /\ pos' = 0
      /\ UNCHANGED <<input, osmIdToMyNodeId, invalidWays>>
  BY DEF EndCollect, AtEnd, Goto
<1>2. stream' = stream /\ cmd' = cmd
  BY <1>1 DEF input
<1>3. stream \in Extracts /\ Len(stream) \in Nat
  BY Positions DEF SelectionInv, ScanOK
<1>4. FoundUpTo(stream, cmd.withBounds, 0) = {}
  BY <1>3, UpToEnds
<1>5. ScanOK'
  BY <1>1, <1>2, <1>3 DEF SelectionInv, ScanOK, Passes, NodePasses
<1>6. MarksInv'
  BY <1>1, <1>2, <1>4 DEF SelectionInv, MarksInv, MarkPasses
<1>7. InvalidInv'
  BY <1>1, <1>2 DEF SelectionInv, InvalidInv
<1> QED BY <1>5, <1>6, <1>7 DEF SelectionInv

\* available unmarks one more node if it can be used.
LEMMA DeleteAvailableSelection ==
  ASSUME SelectionInv, DeleteAvailable
  PROVE  SelectionInv'
<1> DEFINE wb == cmd.withBounds
<1>1. /\ pass = "available" /\ pos < Len(stream) /\ item.kind = "node"
      /\ pass' = pass /\ pos' = pos + 1
      /\ osmIdToMyNodeId' =
           IF cmd.withBounds => item.loc \in Bounds
             THEN Unmark(osmIdToMyNodeId, item.id) ELSE osmIdToMyNodeId
      /\ UNCHANGED <<input, invalidWays>>
  BY DEF DeleteAvailable, AtNode, Reading, Advance
<1>2. stream' = stream /\ cmd' = cmd
  BY <1>1 DEF input
<1>3. /\ ScanOK /\ stream \in Extracts /\ pos \in Nat /\ Len(stream) \in Nat
  BY Positions DEF SelectionInv, ScanOK
<1>4. item = stream[pos + 1]
  BY <1>1, <1>3, NextItem
<1>5. UsableAt(stream, wb, pos + 1) <=> (wb => item.loc \in Bounds)
  BY <1>1, <1>4 DEF UsableAt, NodeAt
<1>6. FoundUpTo(stream, wb, pos + 1) =
        FoundUpTo(stream, wb, pos) \cup (IF UsableAt(stream, wb, pos + 1)
                                           THEN {item.id} ELSE {})
  BY <1>1, <1>3, <1>4, FoundUpToStep
<1>7. DOMAIN osmIdToMyNodeId' =
        DOMAIN osmIdToMyNodeId \ (IF UsableAt(stream, wb, pos + 1) THEN {item.id} ELSE {})
  BY <1>1, <1>5 DEF Unmark
<1>8. ScanOK'
  BY <1>1, <1>2, <1>3 DEF ScanOK
<1>9. MarksInv'
  BY <1>1, <1>2, <1>6, <1>7 DEF SelectionInv, MarksInv, MarkPasses
<1>10. InvalidInv'
  BY <1>1, <1>2 DEF SelectionInv, InvalidInv
<1> QED BY <1>8, <1>9, <1>10 DEF SelectionInv

\* If nothing is missing, no way is incomplete and invalidate is left out.
LEMMA EndAvailableSelection ==
  ASSUME SelectionInv, EndAvailable
  PROVE  SelectionInv'
<1> DEFINE wb == cmd.withBounds
<1>1. /\ pass = "available" /\ pos = Len(stream) /\ pos' = 0
      /\ pass' = IF DOMAIN osmIdToMyNodeId = {} THEN "refs" ELSE "invalidate"
      /\ UNCHANGED <<input, osmIdToMyNodeId, invalidWays>>
  BY DEF EndAvailable, AtEnd, Goto
<1>2. stream' = stream /\ cmd' = cmd
  BY <1>1 DEF input
<1>3. stream \in Extracts /\ Len(stream) \in Nat
  BY Positions DEF SelectionInv, ScanOK
<1>4. DOMAIN osmIdToMyNodeId = Missing(stream, wb)
  BY <1>1, <1>3, UpToEnds DEF SelectionInv, MarksInv, Missing
<1>5. ScanOK'
  BY <1>1, <1>2, <1>3 DEF SelectionInv, ScanOK, Passes, WayPasses
<1>6. IncompleteUpTo(stream, wb, 0) = {} /\ NeededUpTo(stream, wb, 0) = {}
  BY <1>3, UpToEnds
<1>7. Missing(stream, wb) = {} => IncompleteIds(stream, wb) = {}
  BY <1>3, NothingMissing
<1>8. MarksInv'
  BY <1>1, <1>2, <1>4, <1>6 DEF MarksInv, MarkPasses
<1>9. InvalidInv'
  BY <1>1, <1>2, <1>4, <1>6, <1>7 DEF SelectionInv, InvalidInv
<1> QED BY <1>5, <1>8, <1>9 DEF SelectionInv

\* invalidate remembers one more way if it lacks a node.
LEMMA InvalidateWaySelection ==
  ASSUME SelectionInv, InvalidateWay
  PROVE  SelectionInv'
<1> DEFINE wb == cmd.withBounds
<1>1. /\ pass = "invalidate" /\ pos < Len(stream) /\ Accepted(item)
      /\ pass' = pass /\ pos' = pos + 1
      /\ invalidWays' = IF LacksNode(item) THEN invalidWays \cup {item.id} ELSE invalidWays
      /\ UNCHANGED <<input, osmIdToMyNodeId>>
  BY DEF InvalidateWay, AtWay, Reading, Advance
<1>2. stream' = stream /\ cmd' = cmd
  BY <1>1 DEF input
<1>3. /\ ScanOK /\ stream \in Extracts /\ pos \in Nat /\ Len(stream) \in Nat
  BY Positions DEF SelectionInv, ScanOK
<1>4. item = stream[pos + 1] /\ pos + 1 \in AcceptedAt(stream)
  BY <1>1, <1>3, NextItem
<1>5. LacksNode(item) <=> ~ RefSet(item) \subseteq Usable(stream, wb)
  BY <1>1, <1>3, <1>4, LackingWays DEF LacksNode, SelectionInv, MarksInv
<1>6. IncompleteUpTo(stream, wb, pos + 1) =
        IncompleteUpTo(stream, wb, pos) \cup (IF LacksNode(item) THEN {item.id} ELSE {})
  BY <1>3, <1>4, <1>5, IncompleteUpToStep
<1>7. ScanOK'
  BY <1>1, <1>2, <1>3 DEF ScanOK
<1>8. MarksInv'
  BY <1>1, <1>2 DEF SelectionInv, MarksInv, MarkPasses
<1>9. InvalidInv'
  BY <1>1, <1>2, <1>6 DEF SelectionInv, InvalidInv
<1> QED BY <1>7, <1>8, <1>9 DEF SelectionInv

\* refs starts with no marks.
LEMMA EndInvalidateSelection ==
  ASSUME SelectionInv, EndInvalidate
  PROVE  SelectionInv'
<1> DEFINE wb == cmd.withBounds
<1>1. /\ pass = "invalidate" /\ pos = Len(stream) /\ pass' = "refs" /\ pos' = 0
      /\ osmIdToMyNodeId' = EmptyMap
      /\ UNCHANGED <<input, invalidWays>>
  BY DEF EndInvalidate, AtEnd, Goto
<1>2. stream' = stream /\ cmd' = cmd
  BY <1>1 DEF input
<1>3. stream \in Extracts /\ Len(stream) \in Nat
  BY Positions DEF SelectionInv, ScanOK
<1>4. /\ NeededUpTo(stream, wb, 0) = {}
      /\ IncompleteUpTo(stream, wb, Len(stream)) = IncompleteIds(stream, wb)
  BY <1>3, UpToEnds
<1>5. ScanOK'
  BY <1>1, <1>2, <1>3 DEF SelectionInv, ScanOK, Passes, WayPasses
<1>6. MarksInv'
  BY <1>1, <1>2, <1>4 DEF MarksInv, MarkPasses, EmptyMap
<1>7. InvalidInv'
  BY <1>1, <1>2, <1>4 DEF SelectionInv, InvalidInv
<1> QED BY <1>5, <1>6, <1>7 DEF SelectionInv

\* refs marks the references of one more complete way.
LEMMA RefsWaySelection ==
  ASSUME SelectionInv, RefsWay
  PROVE  SelectionInv'
<1> DEFINE wb == cmd.withBounds
<1>1. /\ pass = "refs" /\ pos < Len(stream) /\ Accepted(item)
      /\ pass' = pass /\ pos' = pos + 1
      /\ osmIdToMyNodeId' = IF item.id \in invalidWays THEN osmIdToMyNodeId
                            ELSE Mark(osmIdToMyNodeId, RefSet(item))
      /\ UNCHANGED <<input, invalidWays>>
  BY DEF RefsWay, AtWay, Reading, Advance
<1>2. stream' = stream /\ cmd' = cmd
  BY <1>1 DEF input
<1>3. /\ ScanOK /\ stream \in Extracts /\ pos \in Nat /\ Len(stream) \in Nat
  BY Positions DEF SelectionInv, ScanOK
<1>4. item = stream[pos + 1] /\ pos + 1 \in AcceptedAt(stream)
  BY <1>1, <1>3, NextItem
<1>5. pos + 1 \in CompleteAt(stream, wb) <=> item.id \notin invalidWays
  BY <1>1, <1>4 DEF CompleteAt, SelectionInv, InvalidInv
<1>6. NeededUpTo(stream, wb, pos + 1) =
        NeededUpTo(stream, wb, pos) \cup (IF item.id \in invalidWays THEN {} ELSE RefSet(item))
  BY <1>3, <1>4, <1>5, NeededUpToStep
<1>7. DOMAIN osmIdToMyNodeId' =
        DOMAIN osmIdToMyNodeId \cup (IF item.id \in invalidWays THEN {} ELSE RefSet(item))
  BY <1>1 DEF Mark
<1>8. ScanOK'
  BY <1>1, <1>2, <1>3 DEF ScanOK
<1>9. MarksInv'
  BY <1>1, <1>2, <1>6, <1>7 DEF SelectionInv, MarksInv, MarkPasses
<1>10. InvalidInv'
  BY <1>1, <1>2 DEF SelectionInv, InvalidInv
<1> QED BY <1>8, <1>9, <1>10 DEF SelectionInv

\* After refs the marked nodes are the needed ones.
LEMMA EndRefsSelection ==
  ASSUME SelectionInv, EndRefs
  PROVE  SelectionInv'
<1>1. /\ pass = "refs" /\ pos = Len(stream) /\ pass' = "fetch" /\ pos' = 0
      /\ UNCHANGED <<input, osmIdToMyNodeId, invalidWays>>
  BY DEF EndRefs, AtEnd, Goto
<1>2. stream' = stream /\ cmd' = cmd
  BY <1>1 DEF input
<1>3. stream \in Extracts /\ Len(stream) \in Nat
  BY Positions DEF SelectionInv, ScanOK
<1>4. NeededUpTo(stream, cmd.withBounds, Len(stream)) = Needed(stream, cmd.withBounds)
  BY <1>3, UpToEnds
<1>5. ScanOK'
  BY <1>1, <1>2, <1>3 DEF SelectionInv, ScanOK, Passes, NodePasses
<1>6. MarksInv'
  BY <1>1, <1>2, <1>4 DEF SelectionInv, MarksInv, MarkPasses
<1>7. InvalidInv'
  BY <1>1, <1>2 DEF SelectionInv, InvalidInv
<1> QED BY <1>5, <1>6, <1>7 DEF SelectionInv

\* The passes after refs, and the end.
LateStep == \/ FetchNode \/ EndFetch \/ DegreeWay \/ EndDegree
            \/ WriteHeader \/ WriteNode \/ EndNodes \/ WriteWay \/ EndWays

\* The passes after refs keep the selection.
LEMMA LateStepSelection ==
  ASSUME SelectionInv, LateStep
  PROVE  SelectionInv'
<1> USE DEF Passes, MarkPasses, WayPasses, NodePasses
<1>1. /\ stream \in Extracts /\ pos \in Nat /\ Len(stream) \in Nat /\ pass \in Passes
      /\ pass # "nodes" => pos <= Len(stream)
  BY Positions DEF SelectionInv, ScanOK
<1>2. CASE FetchNode
  BY <1>1, <1>2, SelectionKept DEF FetchNode, AtNode, Reading, Advance, fetched
<1>3. CASE EndFetch
  BY <1>1, <1>3, SelectionKept DEF EndFetch, AtEnd, Reading, Goto
<1>4. CASE DegreeWay
  <2>1. /\ pass = "degree" /\ pos < Len(stream)
        /\ pass' \in {"degree", "aborted"} /\ pos' \in {pos, pos + 1}
        /\ UNCHANGED <<input, osmIdToMyNodeId, invalidWays>>
    BY <1>4 DEF DegreeWay, AtWay, Reading, Advance
  <2> QED BY <1>1, <2>1, SelectionKept
<1>5. CASE EndDegree
  BY <1>1, <1>5, SelectionKept DEF EndDegree, AtEnd, Goto
<1>6. CASE WriteHeader
  BY <1>1, <1>6, SelectionKept DEF WriteHeader, Goto
<1>7. CASE WriteNode
  BY <1>1, <1>7, SelectionKept DEF WriteNode, Advance
<1>8. CASE EndNodes
  BY <1>1, <1>8, SelectionKept DEF EndNodes, Goto
<1>9. CASE WriteWay
  BY <1>1, <1>9, SelectionKept DEF WriteWay, AtWay, Reading, Advance
<1>10. CASE EndWays
  BY <1>1, <1>10, SelectionKept DEF EndWays, AtEnd
<1> QED BY <1>2, <1>3, <1>4, <1>5, <1>6, <1>7, <1>8, <1>9, <1>10 DEF LateStep

\* Which ways and nodes are selected depends on the input alone: the marked
\* nodes and the invalid ways are in every pass those that GraphCreatorInvariants
\* says (Processors.h:108-130, 227-287, main.cpp:364-387).
THEOREM SelectionInvariant == Spec => []SelectionInv
<1>1. Init => SelectionInv
  <2> SUFFICES ASSUME Init PROVE SelectionInv
    OBVIOUS
  <2>1. stream \in Extracts /\ cmd \in CommandLines /\ pass = "collect" /\ pos = 0
    BY CreatorAssumption DEF Init
  <2>2. ScanOK
    BY <2>1, Positions DEF ScanOK, Passes, WayPasses
  <2>3. RefsUpTo(stream, 0) = {}
    BY <2>1, UpToEnds
  <2> QED BY <2>1, <2>2, <2>3 DEF Init, SelectionInv, MarksInv, InvalidInv, EmptyMap, MarkPasses
<1>2. SelectionInv /\ [Next]_vars => SelectionInv'
  <2> SUFFICES ASSUME SelectionInv, [Next]_vars PROVE SelectionInv'
    OBVIOUS
  <2>1. CASE UNCHANGED vars
    BY <2>1 DEF SelectionInv, ScanOK, MarksInv, InvalidInv, vars, input, scan
  <2> QED
    BY <2>1, SkipItemSelection, CollectWaySelection, EndCollectSelection,
       DeleteAvailableSelection, EndAvailableSelection, InvalidateWaySelection,
       EndInvalidateSelection, RefsWaySelection, EndRefsSelection, LateStepSelection
    DEF Next, LateStep
<1> QED BY <1>1, <1>2, PTL DEF Spec

\* The invalid ways are exactly those that lack a node, for every input.
THEOREM InvalidWaysAreIncomplete == Spec => []InvalidWaysLackNodes
<1>1. SelectionInv => InvalidWaysLackNodes
  BY DEF SelectionInv, InvalidInv, InvalidWaysLackNodes, Fetched
<1> QED BY <1>1, SelectionInvariant, PTL

(***************************************************************************)
(* Type correctness of GraphCreator.  It is not inductive by itself: that  *)
(* the edges have ids as their ends needs SelectionInv, since the program  *)
(* looks up the references of a way in a map that several earlier passes   *)
(* have filled and emptied.                                                *)
(***************************************************************************)

Ids == {NoId} \cup 0..(IdSpace - 1)

\* A counter that wraps stays inside its width.
LEMMA Wraps ==
  ASSUME NEW a \in Nat, NEW b \in Nat \ {0}
  PROVE  a % b \in 0..(b - 1)
OBVIOUS

\* Every edge of a way joins two of its references.
LEMMA EdgeRefs ==
  ASSUME NEW w, w.refs \in Seq(NodeIds), Len(w.refs) > 1,
         NEW n \in 1..WayEdgeCount(w)
  PROVE  SourceRef(w, n) \in RefSet(w) /\ TargetRef(w, n) \in RefSet(w)
<1>1. Len(w.refs) \in Nat /\ DOMAIN w.refs = 1..Len(w.refs)
  OBVIOUS
<1>2. n \in Nat /\ n > 0 /\ n <= WayEdgeCount(w)
  BY <1>1 DEF WayEdgeCount
<1>3. Segment(w, n) \in 1..(Len(w.refs) - 1)
  BY <1>1, <1>2 DEF Segment, WayEdgeCount
<1>4. /\ Segment(w, n) \in DOMAIN w.refs
      /\ Segment(w, n) + 1 \in DOMAIN w.refs
  BY <1>1, <1>3
<1> QED BY <1>4 DEF SourceRef, TargetRef, RefSet

\* A way has a whole number of edges, and NodeRefGatherProcessor counts them.
LEMMA EdgeCounts ==
  ASSUME NEW w, Len(w.refs) \in Nat, Len(w.refs) > 1
  PROVE  WayEdgeCount(w) \in Nat /\ myEdgeCount(w) = WayEdgeCount(w)
<1>1. CASE BothWays(w)
  BY <1>1 DEF WayEdgeCount, myEdgeCount
<1>2. CASE ~ BothWays(w)
  BY <1>2 DEF WayEdgeCount, myEdgeCount
<1> QED BY <1>1, <1>2

\* The edges that a way adds to a node's degree are finitely many.
LEMMA DegreeTypes ==
  ASSUME NEW w, Len(w.refs) \in Nat, Len(w.refs) > 1, NEW i, NEW junk
  PROVE  OutDegree(w, i, junk) \in Nat /\ InDegree(w, i, junk) \in Nat
<1>1. WayEdgeCount(w) \in Nat
  BY EdgeCounts
<1>2. IsFiniteSet(1..WayEdgeCount(w))
  BY <1>1, FS_Interval
<1>3. \A S \in SUBSET (1..WayEdgeCount(w)) : Cardinality(S) \in Nat
  BY <1>2, FS_Subset, FS_CardinalityType
<1> QED BY <1>3 DEF OutDegree, InDegree

\* The references of a way that is not invalid are marked once refs is over.
LEMMA RefsAreMarked ==
  ASSUME SelectionInv, pass \notin MarkPasses, pos < Len(stream), pass # "nodes",
         Accepted(item), item.id \notin invalidWays
  PROVE  RefSet(item) \subseteq DOMAIN osmIdToMyNodeId
<1>1. item = stream[pos + 1] /\ pos + 1 \in AcceptedAt(stream)
  BY NextItem DEF SelectionInv
<1>2. invalidWays = IncompleteIds(stream, cmd.withBounds)
  BY DEF SelectionInv, InvalidInv, MarkPasses
<1>3. pos + 1 \in CompleteAt(stream, cmd.withBounds)
  BY <1>1, <1>2 DEF CompleteAt
<1>4. RefSet(item) \subseteq Needed(stream, cmd.withBounds)
  BY <1>1, <1>3 DEF Needed
<1> QED BY <1>4 DEF SelectionInv, MarksInv

\* The edges of such a way are edges of the output.
LEMMA EdgesOfType ==
  ASSUME TypeOK, SelectionInv, AtWay("ways"), item.id \notin invalidWays
  PROVE  EdgesOf(item) \in Seq(EdgeRecords)
<1>1. /\ pass = "ways" /\ pos < Len(stream) /\ Accepted(item)
      /\ stream \in Extracts
  BY DEF AtWay, Reading, TypeOK
<1>2. item \in Items
  BY <1>1, NextItem DEF SelectionInv
<1>3. /\ item.refs \in Seq(NodeIds) /\ Len(item.refs) \in Nat /\ Len(item.refs) > 1
      /\ HwType(item) \in Int
  BY <1>1, <1>2, WayTypes
<1>4. WayEdgeCount(item) \in Nat
  BY <1>3, EdgeCounts
<1>5. RefSet(item) \subseteq DOMAIN osmIdToMyNodeId
  BY <1>1, RefsAreMarked DEF MarkPasses
<1>6. \A x \in RefSet(item) : osmIdToMyNodeId[x] \in Ids
  BY <1>5 DEF TypeOK, Ids
<1>7. \A id : CoordinatesOf(id) \subseteq Locations
  BY DEF TypeOK, CoordinatesOf
<1>8. \A n \in 1..WayEdgeCount(item) : EdgesOf(item)[n] \in EdgeRecords
  <2> TAKE n \in 1..WayEdgeCount(item)
  <2> DEFINE s == osmIdToMyNodeId[SourceRef(item, n)]
             t == osmIdToMyNodeId[TargetRef(item, n)]
  <2>1. s \in Ids /\ t \in Ids
    BY <1>3, <1>6, EdgeRefs
  <2>2. MakeEdge(s, t, HwType(item)) \in EdgeRecords
    <3>1. CoordinatesOf(s) \cup CoordinatesOf(t) \in SUBSET Locations
      BY <1>7
    <3> HIDE DEF s, t
    <3> QED BY <1>3, <2>1, <3>1 DEF MakeEdge, EdgeRecords, Ids
  <2> QED BY <2>2 DEF EdgesOf
<1>9. DOMAIN EdgesOf(item) = 1..WayEdgeCount(item)
  BY DEF EdgesOf
<1>10. EdgesOf(item) \in [1..WayEdgeCount(item) -> EdgeRecords]
  BY <1>8 DEF EdgesOf
<1> QED BY <1>4, <1>10

(***************************************************************************)
(* One step.                                                               *)
(***************************************************************************)

\* The parts of TypeOK that ScanOK does not already say.
MapType == /\ DOMAIN osmIdToMyNodeId \subseteq NodeIds
           /\ osmIdToMyNodeId \in [DOMAIN osmIdToMyNodeId -> Ids]
NodesType == /\ nodeId \in 0..(IdSpace - 1)
             /\ nodes \in Seq(NodeRecords)
             /\ nodeCoordinates \in Seq(Locations)
OutputType == /\ header \in [nodeCount : Int, edgeCount : Int]
              /\ outNodes \in Seq([node : NodeRecords, coordinates : Locations])
              /\ outEdges \in Seq(EdgeRecords)
CountType == invalidWays \subseteq WayIds /\ edgeCount \in Nat
NodesPos == pass = "nodes" => pos <= Len(nodes)

\* With ScanOK they are what TypeOK says.
LEMMA TypeParts ==
  ScanOK => (TypeOK <=> NodesPos /\ MapType /\ NodesType /\ OutputType /\ CountType)
<1> SUFFICES ASSUME ScanOK
             PROVE  TypeOK <=> NodesPos /\ MapType /\ NodesType /\ OutputType /\ CountType
  OBVIOUS
<1>1. Len(stream) \in Nat
  BY Positions DEF ScanOK
<1>2. ASSUME nodes \in Seq(NodeRecords)
      PROVE  pos \in 0..(IF pass = "nodes" THEN Len(nodes) ELSE Len(stream)) <=> NodesPos
  BY <1>1, <1>2 DEF ScanOK, NodesPos
<1> QED BY <1>2 DEF TypeOK, ScanOK, MapType, NodesType, OutputType, CountType, Ids

\* Marking and unmarking nodes keeps the type of a map.
LEMMA MarkType ==
  ASSUME NEW m, DOMAIN m \subseteq NodeIds, m \in [DOMAIN m -> Ids],
         NEW S \in SUBSET NodeIds, NEW x
  PROVE  /\ DOMAIN Mark(m, S) \subseteq NodeIds
         /\ Mark(m, S) \in [DOMAIN Mark(m, S) -> Ids]
         /\ DOMAIN Unmark(m, x) \subseteq NodeIds
         /\ Unmark(m, x) \in [DOMAIN Unmark(m, x) -> Ids]
BY DEF Mark, Unmark, Ids

\* The map holds ids of the width of nodeId.
LEMMA MapTypeStep ==
  ASSUME TypeOK, SelectionInv, Next
  PROVE  MapType'
<1>1. /\ DOMAIN osmIdToMyNodeId \subseteq NodeIds
      /\ osmIdToMyNodeId \in [DOMAIN osmIdToMyNodeId -> Ids]
      /\ nodeId \in Ids
  BY DEF TypeOK, Ids
<1>2. CASE UNCHANGED osmIdToMyNodeId
  BY <1>1, <1>2 DEF MapType
<1>3. CASE CollectWay \/ RefsWay
  <2>1. pos < Len(stream) /\ Accepted(item)
    BY <1>3 DEF CollectWay, RefsWay, AtWay, Reading
  <2>2. RefSet(item) \subseteq NodeIds
    BY <2>1, NextItem, WayTypes DEF SelectionInv
  <2>3. osmIdToMyNodeId' \in {osmIdToMyNodeId, Mark(osmIdToMyNodeId, RefSet(item))}
    BY <1>3 DEF CollectWay, RefsWay
  <2> QED BY <1>1, <2>2, <2>3, MarkType DEF MapType
<1>4. CASE DeleteAvailable
  <2>1. osmIdToMyNodeId' \in {osmIdToMyNodeId, Unmark(osmIdToMyNodeId, item.id)}
    BY <1>4 DEF DeleteAvailable
  <2> QED BY <1>1, <2>1, MarkType DEF MapType
<1>5. CASE EndInvalidate
  BY <1>5 DEF EndInvalidate, EmptyMap, MapType
<1>6. CASE FetchNode
  <2>1. \/ osmIdToMyNodeId' = osmIdToMyNodeId
        \/ osmIdToMyNodeId' = [osmIdToMyNodeId EXCEPT ![item.id] = nodeId]
    BY <1>6 DEF FetchNode, AssignedId
  <2> QED BY <1>1, <2>1 DEF MapType
<1> QED
  BY <1>2, <1>3, <1>4, <1>5, <1>6
  DEF Next, SkipItem, EndCollect, EndAvailable, InvalidateWay, EndRefs, EndFetch,
      DegreeWay, EndDegree, WriteHeader, WriteNode, EndNodes, WriteWay, EndWays

\* The invalid ways and the edge count.
LEMMA CountTypeStep ==
  ASSUME TypeOK, SelectionInv, Next
  PROVE  CountType'
<1>1. invalidWays \subseteq WayIds /\ edgeCount \in Nat
  BY DEF TypeOK
<1>2. CASE UNCHANGED <<invalidWays, edgeCount>>
  BY <1>1, <1>2 DEF CountType
<1>3. CASE InvalidateWay
  <2>1. pos < Len(stream) /\ Accepted(item)
    BY <1>3 DEF InvalidateWay, AtWay, Reading
  <2>2. item.id \in WayIds
    BY <2>1, NextItem, WayTypes DEF SelectionInv
  <2> QED BY <1>1, <1>3, <2>2 DEF InvalidateWay, CountType
<1>4. CASE RefsWay
  <2>1. pos < Len(stream) /\ Accepted(item)
    BY <1>4 DEF RefsWay, AtWay, Reading
  <2>2. Len(item.refs) \in Nat /\ Len(item.refs) > 1
    BY <2>1, NextItem, WayTypes DEF SelectionInv
  <2>3. myEdgeCount(item) \in Nat
    BY <2>2, EdgeCounts
  <2> QED BY <1>1, <1>4, <2>3 DEF RefsWay, CountType
<1> QED
  BY <1>2, <1>3, <1>4
  DEF Next, SkipItem, CollectWay, EndCollect, DeleteAvailable, EndAvailable,
      EndInvalidate, EndRefs, FetchNode, EndFetch, DegreeWay, EndDegree,
      WriteHeader, WriteNode, EndNodes, WriteWay, EndWays

\* The records of gatherNodes and their degrees.
LEMMA NodesTypeStep ==
  ASSUME TypeOK, SelectionInv, Next
  PROVE  NodesType'
<1>1. /\ nodeId \in 0..(IdSpace - 1) /\ nodes \in Seq(NodeRecords)
      /\ nodeCoordinates \in Seq(Locations)
      /\ IdSpace \in Nat \ {0} /\ DegreeSpace \in Nat \ {0}
  BY CreatorAssumption DEF TypeOK
<1>2. CASE UNCHANGED fetched
  BY <1>1, <1>2 DEF NodesType, fetched
<1>3. CASE FetchNode /\ ~ UNCHANGED fetched
  <2>1. /\ pos < Len(stream) /\ item.kind = "node"
        /\ nodes' = Append(nodes, [id |-> nodeId, osmId |-> item.id,
                                   indegree |-> 0, outdegree |-> 0])
        /\ nodeCoordinates' = Append(nodeCoordinates, item.loc)
        /\ nodeId' = (nodeId + 1) % IdSpace
    BY <1>3 DEF FetchNode, AtNode, Reading, fetched
  <2>2. item.id \in NodeIds /\ item.loc \in Locations
    BY <2>1, NextItem, NodeTypes DEF SelectionInv
  <2>3. [id |-> nodeId, osmId |-> item.id, indegree |-> 0, outdegree |-> 0]
          \in NodeRecords
    BY <1>1, <2>2 DEF NodeRecords
  <2>4. nodeId' \in 0..(IdSpace - 1)
    BY <1>1, <2>1, Wraps
  <2> QED BY <1>1, <2>1, <2>2, <2>3, <2>4 DEF NodesType
<1>4. CASE DegreeWay
  <2>1. /\ pos < Len(stream) /\ Accepted(item)
        /\ UNCHANGED <<nodeId, nodeCoordinates>>
    BY <1>4 DEF DegreeWay, AtWay, Reading
  <2>2. Len(item.refs) \in Nat /\ Len(item.refs) > 1
    BY <2>1, NextItem, WayTypes DEF SelectionInv
  <2>3. CASE UNCHANGED nodes
    BY <1>1, <2>1, <2>3 DEF NodesType
  <2>4. CASE ~ UNCHANGED nodes
    <3>1. PICK junk \in 0..Len(nodes) :
            nodes' = [i \in DOMAIN nodes |->
                   [nodes[i] EXCEPT
                      !.outdegree = (@ + OutDegree(item, i - 1, junk)) % DegreeSpace,
                      !.indegree = (@ + InDegree(item, i - 1, junk)) % DegreeSpace]]
      BY <1>4, <2>4 DEF DegreeWay
    <3>2. DOMAIN nodes = 1..Len(nodes) /\ Len(nodes) \in Nat
      BY <1>1
    <3> DEFINE o(i) == (nodes[i].outdegree + OutDegree(item, i - 1, junk)) % DegreeSpace
               d(i) == (nodes[i].indegree + InDegree(item, i - 1, junk)) % DegreeSpace
               r(i) == [nodes[i] EXCEPT !.outdegree = o(i), !.indegree = d(i)]
    <3>3. nodes' = [i \in 1..Len(nodes) |-> r(i)]
      BY <3>1, <3>2
    <3>4. ASSUME NEW i \in 1..Len(nodes)
          PROVE  r(i) \in NodeRecords
      <4>1. nodes[i] \in NodeRecords
        BY <1>1, <3>2, <3>4
      <4>2. /\ nodes[i].outdegree + OutDegree(item, i - 1, junk) \in Nat
            /\ nodes[i].indegree + InDegree(item, i - 1, junk) \in Nat
        <5>1. nodes[i].outdegree \in Nat /\ nodes[i].indegree \in Nat
          BY <4>1 DEF NodeRecords
        <5>2. OutDegree(item, i - 1, junk) \in Nat /\ InDegree(item, i - 1, junk) \in Nat
          BY <2>2, DegreeTypes
        <5> QED BY <5>1, <5>2
      <4>3. o(i) \in 0..(DegreeSpace - 1) /\ d(i) \in 0..(DegreeSpace - 1)
        BY <1>1, <4>2, Wraps
      <4> HIDE DEF o, d
      <4> QED BY <4>1, <4>3 DEF NodeRecords
    <3> HIDE DEF r
    <3>5. nodes' \in [1..Len(nodes) -> NodeRecords]
      BY <3>3, <3>4
    <3> QED BY <1>1, <2>1, <3>2, <3>5 DEF NodesType
  <2> QED BY <2>3, <2>4
<1>5. CASE EndNodes
  BY <1>1, <1>5 DEF EndNodes, NodesType
<1> QED
  BY <1>2, <1>3, <1>4, <1>5
  DEF Next, SkipItem, CollectWay, EndCollect, DeleteAvailable, EndAvailable,
      InvalidateWay, EndInvalidate, RefsWay, EndRefs, EndFetch, EndDegree,
      WriteHeader, WriteNode, WriteWay, EndWays

\* What is written: the header, the node section and the edge section.
LEMMA OutputTypeStep ==
  ASSUME TypeOK, SelectionInv, IdsInv, Next
  PROVE  OutputType'
<1>1. /\ header \in [nodeCount : Int, edgeCount : Int] /\ edgeCount \in Nat
      /\ outNodes \in Seq([node : NodeRecords, coordinates : Locations])
      /\ outEdges \in Seq(EdgeRecords)
      /\ nodes \in Seq(NodeRecords) /\ nodeCoordinates \in Seq(Locations)
  BY DEF TypeOK
<1>2. CASE UNCHANGED output
  BY <1>1, <1>2 DEF OutputType, output
<1>3. CASE WriteHeader
  BY <1>1, <1>3 DEF WriteHeader, OutputType
<1>4. CASE WriteNode
  <2>1. /\ pass = "nodes" /\ pos \in Nat /\ pos < Len(nodes)
        /\ outNodes' = Append(outNodes, [node |-> nodes[pos + 1],
                                         coordinates |-> nodeCoordinates[pos + 1]])
        /\ UNCHANGED <<header, outEdges>>
    BY <1>1, <1>4 DEF WriteNode, SelectionInv, ScanOK
  <2>2. pos + 1 \in 1..Len(nodeCoordinates) /\ pos + 1 \in 1..Len(nodes)
    BY <1>1, <2>1 DEF IdsInv, Records, AllNodesOut
  <2>3. nodes[pos + 1] \in NodeRecords /\ nodeCoordinates[pos + 1] \in Locations
    BY <1>1, <2>2
  <2> QED BY <1>1, <2>1, <2>3 DEF OutputType
<1>5. CASE WriteWay
  <2>1. UNCHANGED <<header, outNodes>> /\ AtWay("ways")
    BY <1>5 DEF WriteWay
  <2>2. outEdges' \in Seq(EdgeRecords)
    <3>1. CASE item.id \in invalidWays
      BY <1>1, <1>5, <3>1 DEF WriteWay
    <3>2. CASE item.id \notin invalidWays
      <4>1. EdgesOf(item) \in Seq(EdgeRecords)
        BY <2>1, <3>2, EdgesOfType
      <4> QED BY <1>1, <1>5, <3>2, <4>1 DEF WriteWay
    <3> QED BY <3>1, <3>2
  <2> QED BY <1>1, <2>1, <2>2 DEF OutputType
<1> QED
  BY <1>2, <1>3, <1>4, <1>5
  DEF Next, SkipItem, CollectWay, EndCollect, DeleteAvailable, EndAvailable,
      InvalidateWay, EndInvalidate, RefsWay, EndRefs, FetchNode, EndFetch,
      DegreeWay, EndDegree, EndNodes, EndWays, output

\* Nothing but gatherNodes and the node section changes what is left to write.
LEMMA NodesPosStep ==
  ASSUME TypeOK, SelectionInv, Next
  PROVE  NodesPos'
<1>1. CASE WriteHeader
  <2>1. pos' = 0 /\ nodes' = nodes
    BY <1>1 DEF WriteHeader, Goto, fetched
  <2> QED BY <2>1 DEF NodesPos, TypeOK
<1>2. CASE WriteNode
  <2>1. pos \in Nat /\ pos < Len(nodes) /\ pos' = pos + 1 /\ nodes' = nodes
    BY <1>2 DEF WriteNode, Advance, SelectionInv, ScanOK, fetched
  <2> QED BY <2>1 DEF NodesPos, TypeOK
<1>3. CASE ~ WriteHeader /\ ~ WriteNode
  <2>1. pass' # "nodes"
    BY <1>3 DEF Next, SkipItem, CollectWay, EndCollect, DeleteAvailable, EndAvailable,
         InvalidateWay, EndInvalidate, RefsWay, EndRefs, FetchNode, EndFetch,
         DegreeWay, EndDegree, EndNodes, WriteWay, EndWays,
         AtWay, AtNode, AtEnd, Reading, Advance, Goto, WayPasses, NodePasses
  <2> QED BY <2>1 DEF NodesPos
<1> QED BY <1>1, <1>2, <1>3

-----------------------------------------------------------------------------
(***************************************************************************)
(* The node ids of GraphCreator: the map, the two vectors of gatherNodes   *)
(* and the node section agree.  The inductive invariant is the conjunction *)
(* of TypeOK with the three invariants of GraphCreatorInvariants.          *)
(***************************************************************************)

GraphInv == SelectionInv /\ TypeOK /\ IdsInv /\ WrittenInv

\* The actions that change neither the records nor the vectors.
Kept == UNCHANGED <<Records, nodeId, nodeCoordinates>>

\* They keep IdsInv if the ids they leave in the map were there before.
LEMMA IdsKept ==
  ASSUME IdsInv, Kept, pass # "aborted", pass' \in MarkPasses => pass \in MarkPasses,
         \A x \in DOMAIN osmIdToMyNodeId' :
            \/ osmIdToMyNodeId'[x] = NoId
            \/ x \in DOMAIN osmIdToMyNodeId /\ osmIdToMyNodeId'[x] = osmIdToMyNodeId[x]
  PROVE  IdsInv'
<1>1. Records' = Records /\ nodeId' = nodeId /\ nodeCoordinates' = nodeCoordinates
  BY DEF Kept
<1> QED BY <1>1 DEF IdsInv

\* Marking and unmarking gives no ids.
LEMMA MarkIds ==
  ASSUME NEW m, NEW S, NEW y
  PROVE  /\ \A x \in DOMAIN Mark(m, S) :
              Mark(m, S)[x] = NoId \/ (x \in DOMAIN m /\ Mark(m, S)[x] = m[x])
         /\ \A x \in DOMAIN Unmark(m, y) : x \in DOMAIN m /\ Unmark(m, y)[x] = m[x]
BY DEF Mark, Unmark

\* The passes that mark nodes.
LEMMA MarkPassIds ==
  ASSUME GraphInv,
         SkipItem \/ CollectWay \/ EndCollect \/ DeleteAvailable \/ EndAvailable
         \/ InvalidateWay \/ EndInvalidate \/ RefsWay \/ EndRefs
  PROVE  IdsInv'
<1> USE DEF MarkPasses, WayPasses, NodePasses
<1>1. /\ UNCHANGED <<fetched, output>>
      /\ pass # "aborted" /\ AllNodesOut' = AllNodesOut
      /\ pass' \in MarkPasses => pass \in MarkPasses
  BY DEF SkipItem, CollectWay, EndCollect, DeleteAvailable, EndAvailable,
         InvalidateWay, EndInvalidate, RefsWay, EndRefs,
         AtWay, AtNode, AtEnd, Reading, Advance, Goto, AllNodesOut
<1>2. Kept
  BY <1>1 DEF Kept, Records, fetched, output
<1>3. \/ osmIdToMyNodeId' = osmIdToMyNodeId
      \/ osmIdToMyNodeId' = Mark(osmIdToMyNodeId, RefSet(item))
      \/ osmIdToMyNodeId' = Unmark(osmIdToMyNodeId, item.id)
      \/ osmIdToMyNodeId' = EmptyMap
  BY DEF SkipItem, CollectWay, EndCollect, DeleteAvailable, EndAvailable,
         InvalidateWay, EndInvalidate, RefsWay, EndRefs
<1>4. \A x \in DOMAIN osmIdToMyNodeId' :
        \/ osmIdToMyNodeId'[x] = NoId
        \/ x \in DOMAIN osmIdToMyNodeId /\ osmIdToMyNodeId'[x] = osmIdToMyNodeId[x]
  <2>1. CASE osmIdToMyNodeId' = Mark(osmIdToMyNodeId, RefSet(item))
    BY <2>1, MarkIds
  <2>2. CASE osmIdToMyNodeId' = Unmark(osmIdToMyNodeId, item.id)
    BY <2>2, MarkIds
  <2>3. CASE osmIdToMyNodeId' = EmptyMap
    BY <2>3 DEF EmptyMap
  <2> QED BY <1>3, <2>1, <2>2, <2>3
<1> QED BY <1>1, <1>2, <1>4, IdsKept DEF GraphInv

\* The counter either wraps to zero or grows by one.
LEMMA NextId ==
  ASSUME NEW b \in Nat \ {0}, NEW a \in 0..(b - 1), (a + 1) % b # 0
  PROVE  (a + 1) % b = a + 1
<1>1. a + 1 # b
  OBVIOUS
<1>2. a + 1 \in 0..(b - 1)
  BY <1>1
<1> QED BY <1>2

\* gatherNodes stores a node at the position that becomes its id.
LEMMA FetchNodeIds ==
  ASSUME GraphInv, FetchNode
  PROVE  IdsInv'
<1>1. /\ pass = "fetch" /\ pass' \in {"fetch", "aborted"}
      /\ UNCHANGED <<outNodes>>
  BY DEF FetchNode, AtNode, Reading, Advance, output
<1>2. Records = nodes /\ Records' = nodes'
  BY <1>1 DEF Records, AllNodesOut
<1>3. /\ nodes \in Seq(NodeRecords) /\ nodeCoordinates \in Seq(Locations)
      /\ nodeId = Len(nodeCoordinates) /\ DOMAIN nodes = 1..Len(nodeCoordinates)
      /\ nodeId \in 0..(IdSpace - 1) /\ IdSpace \in Nat \ {0}
      /\ \A i \in DOMAIN nodes : nodes[i].id = i - 1
      /\ \A x \in DOMAIN osmIdToMyNodeId :
           osmIdToMyNodeId[x] # NoId =>
             /\ osmIdToMyNodeId[x] + 1 \in DOMAIN nodes
             /\ nodes[osmIdToMyNodeId[x] + 1].osmId = x
  BY <1>1, <1>2, CreatorAssumption DEF GraphInv, TypeOK, IdsInv
<1>4. CASE UNCHANGED fetched
  BY <1>1, <1>2, <1>3, <1>4, IdsKept DEF FetchNode, GraphInv, fetched, Kept, MarkPasses
<1>5. CASE ~ UNCHANGED fetched
  <2> DEFINE r == [id |-> nodeId, osmId |-> item.id, indegree |-> 0, outdegree |-> 0]
  <2>1. /\ nodes' = Append(nodes, r)
        /\ nodeCoordinates' = Append(nodeCoordinates, item.loc)
        /\ nodeId' = (nodeId + 1) % IdSpace
        /\ nodeId' = 0 <=> pass' = "aborted"
        /\ \/ pass' = "aborted" /\ osmIdToMyNodeId' = osmIdToMyNodeId
           \/ osmIdToMyNodeId' = [osmIdToMyNodeId EXCEPT ![item.id] = nodeId]
    BY <1>1, <1>5 DEF FetchNode, Overflow, AssignedId, Advance, fetched
  <2>2. /\ DOMAIN nodes' = 1..Len(nodeCoordinates')
        /\ Len(nodeCoordinates') = nodeId + 1
        /\ nodes'[nodeId + 1] = r
        /\ \A i \in DOMAIN nodes : i \in DOMAIN nodes' /\ nodes'[i] = nodes[i]
    BY <1>3, <2>1
  <2>3. pass' # "aborted" => nodeId' = nodeId + 1
    BY <1>3, <2>1, NextId
  <2>4. \A i \in DOMAIN nodes' : nodes'[i].id = i - 1
    BY <1>3, <2>2
  <2>5. \A x \in DOMAIN osmIdToMyNodeId' :
          osmIdToMyNodeId'[x] # NoId =>
            /\ osmIdToMyNodeId'[x] + 1 \in DOMAIN nodes'
            /\ nodes'[osmIdToMyNodeId'[x] + 1].osmId = x
    BY <1>3, <2>1, <2>2
  <2> QED BY <1>1, <1>2, <2>2, <2>3, <2>4, <2>5 DEF IdsInv, MarkPasses
<1> QED BY <1>4, <1>5

\* NodeDegreeProcessor changes only the degrees.
LEMMA DegreeWayRecords ==
  ASSUME GraphInv, DegreeWay
  PROVE  /\ Records = nodes /\ Records' = nodes' /\ DOMAIN nodes' = DOMAIN nodes
         /\ \A i \in DOMAIN nodes : nodes'[i].id = nodes[i].id /\ nodes'[i].osmId = nodes[i].osmId
<1>1. /\ Records = nodes /\ Records' = nodes'
  BY DEF DegreeWay, AtWay, Reading, Advance, Records, AllNodesOut
<1>2. nodes \in Seq(NodeRecords)
  BY DEF GraphInv, TypeOK
<1>3. CASE nodes' = nodes
  BY <1>1, <1>3
<1>4. CASE nodes' # nodes
  <2>1. PICK junk \in 0..Len(nodes) :
          nodes' = [i \in DOMAIN nodes |->
                 [nodes[i] EXCEPT
                    !.outdegree = (@ + OutDegree(item, i - 1, junk)) % DegreeSpace,
                    !.indegree = (@ + InDegree(item, i - 1, junk)) % DegreeSpace]]
    BY <1>4 DEF DegreeWay
  <2> DEFINE o(i) == (nodes[i].outdegree + OutDegree(item, i - 1, junk)) % DegreeSpace
             d(i) == (nodes[i].indegree + InDegree(item, i - 1, junk)) % DegreeSpace
             r(i) == [nodes[i] EXCEPT !.outdegree = o(i), !.indegree = d(i)]
  <2>2. nodes' = [i \in DOMAIN nodes |-> r(i)]
    BY <2>1
  <2>3. ASSUME NEW i \in DOMAIN nodes
        PROVE  r(i).id = nodes[i].id /\ r(i).osmId = nodes[i].osmId
    <3>1. nodes[i] \in NodeRecords
      BY <1>2, <2>3
    <3> HIDE DEF o, d
    <3> QED BY <3>1 DEF NodeRecords
  <2> HIDE DEF r
  <2> QED BY <1>1, <2>2, <2>3
<1> QED BY <1>3, <1>4

\* Hence it keeps the ids.
LEMMA DegreeWayIds ==
  ASSUME GraphInv, DegreeWay
  PROVE  IdsInv'
<1>1. /\ pass = "degree" /\ pass' \in {"degree", "aborted"}
      /\ UNCHANGED <<osmIdToMyNodeId, nodeId, nodeCoordinates>>
  BY DEF DegreeWay, AtWay, Reading, Advance
<1> QED BY <1>1, DegreeWayRecords DEF GraphInv, IdsInv, MarkPasses

\* The node section replaces the vector that main() clears.
LEMMA EndNodesRecords ==
  ASSUME GraphInv, EndNodes
  PROVE  /\ DOMAIN Records' = DOMAIN Records
         /\ \A i \in DOMAIN Records : Records'[i] = Records[i]
<1>1. /\ pass = "nodes" /\ pass' = "ways" /\ pos = Len(nodes) /\ UNCHANGED outNodes
  BY DEF EndNodes, Goto, output
<1>2. /\ Records = nodes /\ Records' = [i \in DOMAIN outNodes |-> outNodes[i].node]
  BY <1>1 DEF Records, AllNodesOut
<1>3. DOMAIN outNodes = DOMAIN nodes
  BY <1>1 DEF GraphInv, TypeOK, WrittenInv
<1>4. \A i \in DOMAIN outNodes : outNodes[i].node = nodes[i]
  BY <1>2 DEF GraphInv, WrittenInv
<1> QED BY <1>2, <1>3, <1>4

\* Hence clearing it keeps the ids.
LEMMA EndNodesIds ==
  ASSUME GraphInv, EndNodes
  PROVE  IdsInv'
<1>1. /\ pass = "nodes" /\ pass' = "ways" /\ UNCHANGED <<osmIdToMyNodeId, nodeId, nodeCoordinates>>
  BY DEF EndNodes, Goto
<1> QED BY <1>1, EndNodesRecords DEF GraphInv, IdsInv, MarkPasses

\* Every step keeps the ids.
LEMMA IdsStep ==
  ASSUME GraphInv, Next
  PROVE  IdsInv'
<1>1. CASE EndFetch \/ EndDegree \/ WriteHeader \/ WriteNode \/ WriteWay \/ EndWays
  <2>1. /\ UNCHANGED <<fetched, osmIdToMyNodeId>> /\ pass # "aborted"
        /\ pass' \notin MarkPasses /\ AllNodesOut' = AllNodesOut
        /\ AllNodesOut => UNCHANGED outNodes
    BY <1>1 DEF EndFetch, EndDegree, WriteHeader, WriteNode, WriteWay, EndWays, AtWay,
         AtEnd, Reading, Advance, Goto, MarkPasses, AllNodesOut, output
  <2>2. Kept
    BY <2>1 DEF Kept, Records, fetched
  <2> QED BY <2>1, <2>2, IdsKept DEF GraphInv
<1> QED BY <1>1, MarkPassIds, FetchNodeIds, DegreeWayIds, EndNodesIds DEF Next

\* A step that writes no node, outside the node section.
LEMMA WrittenKept ==
  ASSUME GraphInv, UNCHANGED <<outNodes, nodeCoordinates>>, pass # "nodes",
         outNodes # << >> => Records' = Records,
         pass' \notin Writing => pass \notin Writing, pass' = "nodes" => pos' = 0 /\ pass \notin Writing
  PROVE  WrittenInv'
<1>1. CASE outNodes = << >>
  BY <1>1 DEF WrittenInv
<1>2. CASE outNodes # << >>
  <2>1. Records' = Records
    BY <1>2
  <2> QED BY <1>2, <2>1 DEF GraphInv, WrittenInv
<1> QED BY <1>1, <1>2

\* The node section grows by one node and its coordinates.
LEMMA WriteNodeWritten ==
  ASSUME GraphInv, WriteNode
  PROVE  WrittenInv'
<1>1. /\ pass = "nodes" /\ pass' = "nodes" /\ pos' = pos + 1 /\ pos \in Nat
      /\ pos < Len(nodes) /\ UNCHANGED <<nodes, nodeCoordinates>>
      /\ outNodes' = Append(outNodes, [node |-> nodes[pos + 1],
                                       coordinates |-> nodeCoordinates[pos + 1]])
  BY DEF WriteNode, Advance, fetched, GraphInv, SelectionInv, ScanOK
<1>2. Records = nodes /\ Records' = nodes
  BY <1>1 DEF Records, AllNodesOut
<1>3. /\ outNodes \in Seq([node : NodeRecords, coordinates : Locations])
      /\ nodes \in Seq(NodeRecords) /\ Len(outNodes) = pos
      /\ DOMAIN nodes = DOMAIN nodeCoordinates
      /\ nodeCoordinates \in Seq(Locations)
  BY <1>1, <1>2 DEF GraphInv, TypeOK, WrittenInv, IdsInv
<1>4. pos + 1 \in DOMAIN nodeCoordinates
  BY <1>1, <1>3
<1>5. /\ Len(outNodes') = pos + 1 /\ DOMAIN outNodes' = DOMAIN outNodes \cup {pos + 1}
      /\ outNodes'[pos + 1] = [node |-> nodes[pos + 1], coordinates |-> nodeCoordinates[pos + 1]]
      /\ \A i \in DOMAIN outNodes : outNodes'[i] = outNodes[i]
  BY <1>1, <1>3
<1>6. \A i \in DOMAIN outNodes' :
        /\ i \in DOMAIN nodeCoordinates
        /\ outNodes'[i] = [node |-> nodes[i], coordinates |-> nodeCoordinates[i]]
  BY <1>2, <1>4, <1>5 DEF GraphInv, WrittenInv
<1> QED BY <1>1, <1>2, <1>5, <1>6 DEF WrittenInv, Writing

\* When main() clears the vector, the node section holds its contents.
LEMMA EndNodesWritten ==
  ASSUME GraphInv, EndNodes
  PROVE  WrittenInv'
<1>1. /\ pass = "nodes" /\ pass' = "ways" /\ UNCHANGED <<nodeCoordinates, outNodes>>
  BY DEF EndNodes, Goto, output
<1>2. /\ Records = nodes /\ Records' = [i \in DOMAIN outNodes |-> outNodes[i].node]
  BY <1>1 DEF Records, AllNodesOut
<1>3. \A i \in DOMAIN outNodes : Records'[i] = Records[i]
  BY <1>2 DEF GraphInv, WrittenInv
<1> QED BY <1>1, <1>3 DEF GraphInv, WrittenInv, Writing

\* Every step keeps the node section equal to the vectors.
LEMMA WrittenStep ==
  ASSUME GraphInv, Next
  PROVE  WrittenInv'
<1> USE DEF MarkPasses, WayPasses, NodePasses, Writing
<1>1. CASE SkipItem \/ CollectWay \/ EndCollect \/ DeleteAvailable \/ EndAvailable
           \/ InvalidateWay \/ EndInvalidate \/ RefsWay \/ EndRefs
  <2>1. /\ UNCHANGED <<fetched, output>> /\ pass # "nodes" /\ pass' # "nodes"
        /\ AllNodesOut' = AllNodesOut /\ (pass' \in Writing) = (pass \in Writing)
    BY <1>1 DEF SkipItem, CollectWay, EndCollect, DeleteAvailable, EndAvailable,
         InvalidateWay, EndInvalidate, RefsWay, EndRefs,
         AtWay, AtNode, AtEnd, Reading, Advance, Goto, AllNodesOut
  <2> QED BY <2>1, WrittenKept DEF Records, fetched, output
<1>2. CASE FetchNode \/ DegreeWay
  <2>1. /\ pass \notin Writing /\ pass' \notin Writing /\ UNCHANGED outNodes
    BY <1>2 DEF FetchNode, DegreeWay, AtNode, AtWay, Reading, Advance, output
  <2>2. outNodes' = << >>
    BY <2>1 DEF GraphInv, WrittenInv
  <2> QED BY <2>1, <2>2 DEF WrittenInv
<1>3. CASE EndFetch \/ EndDegree \/ WriteHeader
  <2>1. /\ pass \notin Writing /\ UNCHANGED outNodes
        /\ pass' = "nodes" => pos' = 0
    BY <1>3 DEF EndFetch, EndDegree, WriteHeader, AtEnd, Reading, Goto, output
  <2>2. outNodes' = << >>
    BY <2>1 DEF GraphInv, WrittenInv
  <2> QED BY <2>1, <2>2 DEF WrittenInv
<1>4. CASE WriteWay \/ EndWays
  <2>1. /\ pass = "ways" /\ pass' \in {"ways", "done"} /\ UNCHANGED <<fetched, outNodes>>
    BY <1>4 DEF WriteWay, EndWays, AtWay, AtEnd, Reading, Advance, output
  <2> QED BY <2>1, WrittenKept DEF Records, AllNodesOut, fetched
<1> QED BY <1>1, <1>2, <1>3, <1>4, WriteNodeWritten, EndNodesWritten DEF Next

(***************************************************************************)
(* The theorems.                                                           *)
(***************************************************************************)

\* The types of the state, the selection of ways and nodes, the ids and the
\* node section are as GraphCreatorInvariants and TypeOK say, in every state.
THEOREM GraphInvariant == Spec => []GraphInv
<1>1. Init => TypeOK /\ IdsInv /\ WrittenInv
  <2> SUFFICES ASSUME Init PROVE TypeOK /\ IdsInv /\ WrittenInv
    OBVIOUS
  <2>1. stream \in Extracts /\ cmd \in CommandLines /\ IdSpace \in Nat \ {0}
    BY CreatorAssumption DEF Init
  <2>2. TypeOK
    BY <2>1, Positions
    DEF Init, TypeOK, Passes, WayPasses, EmptyMap, NoHeader
  <2>3. Records = << >>
    BY DEF Init, Records, AllNodesOut
  <2>4. IdsInv /\ WrittenInv
    BY <2>3 DEF Init, IdsInv, WrittenInv, EmptyMap, Writing
  <2> QED BY <2>2, <2>4
<1>2. SelectionInv /\ SelectionInv' /\ TypeOK /\ IdsInv /\ WrittenInv /\ [Next]_vars
        => TypeOK' /\ IdsInv' /\ WrittenInv'
  <2> SUFFICES ASSUME SelectionInv, SelectionInv', TypeOK, IdsInv, WrittenInv, [Next]_vars
               PROVE  TypeOK' /\ IdsInv' /\ WrittenInv'
    OBVIOUS
  <2>1. CASE Next
    <3>1. MapType' /\ CountType' /\ NodesType' /\ OutputType' /\ NodesPos'
      BY <2>1, MapTypeStep, CountTypeStep, NodesTypeStep, OutputTypeStep, NodesPosStep
    <3>2. TypeOK'
      BY <3>1, TypeParts, PTL DEF SelectionInv
    <3> QED BY <2>1, <3>2, IdsStep, WrittenStep DEF GraphInv
  <2>2. CASE UNCHANGED vars
    <3>1. UNCHANGED <<stream, cmd, pass, pos, osmIdToMyNodeId, invalidWays, edgeCount, nodeId,
                      nodes, nodeCoordinates, header, outNodes, outEdges>>
      BY <2>2 DEF vars, input, scan, fetched, output
    <3>2. Records' = Records
      BY <3>1 DEF Records, AllNodesOut
    <3> QED BY <3>1, <3>2 DEF TypeOK, IdsInv, WrittenInv
  <2> QED BY <2>1, <2>2
<1> QED BY <1>1, <1>2, SelectionInvariant, PTL DEF Spec, GraphInv

\* Type correctness, for every input, command line and width of the counters.
THEOREM TypeCorrect == Spec => []TypeOK
<1>1. GraphInv => TypeOK
  BY DEF GraphInv
<1> QED BY <1>1, GraphInvariant, PTL

\* An edge that is written with an id of the map is an edge of the node that
\* stands at that position of the node section.
THEOREM IdsArePositions == Spec => []IdsNamePositions
<1>1. GraphInv => IdsNamePositions
  <2> SUFFICES ASSUME GraphInv, AllNodesOut, NEW x \in DOMAIN osmIdToMyNodeId,
                      osmIdToMyNodeId[x] # NoId
               PROVE  LET i == osmIdToMyNodeId[x] + 1
                      IN /\ i \in DOMAIN outNodes
                         /\ outNodes[i].node.osmId = x
                         /\ outNodes[i].node.id = i - 1
                         /\ outNodes[i].coordinates = nodeCoordinates[i]
    BY DEF IdsNamePositions
  <2> DEFINE i == osmIdToMyNodeId[x] + 1
  <2>1. Records = [j \in DOMAIN outNodes |-> outNodes[j].node] /\ pass # "aborted"
    BY DEF Records, AllNodesOut
  <2>2. i \in DOMAIN outNodes /\ outNodes[i].node.osmId = x /\ outNodes[i].node.id = i - 1
    BY <2>1 DEF GraphInv, IdsInv
  <2>3. outNodes[i].coordinates = nodeCoordinates[i]
    BY <2>2 DEF GraphInv, WrittenInv
  <2> QED BY <2>2, <2>3
<1> QED BY <1>1, GraphInvariant, PTL

-----------------------------------------------------------------------------
(***************************************************************************)
(* If no node occurs twice, gatherNodes stores each needed node once, and  *)
(* stops only when it has all of them.                                     *)
(***************************************************************************)

\* A list without repetitions has as many members as places.
LEMMA DistinctCount ==
  ASSUME NEW n \in Nat, NEW f, DOMAIN f = 1..n,
         \A i, j \in 1..n : f[i].osmId = f[j].osmId => i = j,
         NEW S, S = {f[i].osmId : i \in DOMAIN f}
  PROVE  IsFiniteSet(S) /\ Cardinality(S) = n
<1> DEFINE g == [i \in 1..n |-> f[i].osmId]
<1>1. g \in Bijection(1..n, S)
  BY Fun_IsBij
<1>2. ExistsBijection(1..n, S)
  BY <1>1 DEF ExistsBijection
<1> QED BY <1>2, FS_CountingElements, FS_NatBijection

\* What is needed can be used, and can be found among the nodes.
LEMMA NeededNodes ==
  ASSUME NEW s \in Extracts, NEW wb
  PROVE  /\ Needed(s, wb) \subseteq NodesUpTo(s, Len(s))
         /\ IsFiniteSet(Needed(s, wb)) /\ Cardinality(Needed(s, wb)) \in Nat
<1>1. Needed(s, wb) \subseteq Usable(s, wb)
  BY DEF Needed, CompleteAt, IncompleteIds
<1>2. Usable(s, wb) \subseteq NodesUpTo(s, Len(s))
  BY Positions DEF Usable, UsableAt, NodesUpTo
<1>3. NodesUpTo(s, Len(s)) \subseteq NodeIds
  BY Positions, NodeTypes DEF NodesUpTo, NodeAt
<1>4. IsFiniteSet(Needed(s, wb))
  BY <1>1, <1>2, <1>3, DataAssumption, FS_Subset
<1> QED BY <1>1, <1>2, <1>4, FS_CardinalityType

\* The nodes up to the next position.
LEMMA NodesUpToStep ==
  ASSUME NEW s \in Extracts, NEW k \in Nat, k < Len(s)
  PROVE  /\ NodesUpTo(s, k + 1) =
              NodesUpTo(s, k) \cup (IF NodeAt(s, k + 1) THEN {s[k + 1].id} ELSE {})
         /\ NodesUnique(s) /\ NodeAt(s, k + 1) => s[k + 1].id \notin NodesUpTo(s, k)
         /\ NodesUpTo(s, 0) = {}
<1>1. DOMAIN s = 1..Len(s) /\ Len(s) \in Nat /\ k + 1 \in DOMAIN s
  BY Positions
<1> DEFINE U(m) == {j \in DOMAIN s : NodeAt(s, j) /\ j <= m}
<1>2. U(k + 1) = U(k) \cup (IF NodeAt(s, k + 1) THEN {k + 1} ELSE {})
  BY <1>1
<1>3. U(0) = {}
  BY <1>1
<1>4. \A m : NodesUpTo(s, m) = {s[i].id : i \in U(m)}
  BY DEF NodesUpTo
<1>5. NodesUnique(s) /\ NodeAt(s, k + 1) => s[k + 1].id \notin NodesUpTo(s, k)
  BY <1>1 DEF NodesUnique, NodesUpTo
<1> QED BY <1>2, <1>3, <1>4, <1>5

\* The nodes stored so far are as many as there are records.
LEMMA RecordCount ==
  ASSUME GraphInv, FetchInv, NodesUnique(stream)
  PROVE  /\ IsFiniteSet(RecordIds) /\ Cardinality(RecordIds) = Len(nodeCoordinates)
         /\ Len(nodeCoordinates) \in Nat /\ DOMAIN Records = 1..Len(nodeCoordinates)
<1>1. /\ nodeCoordinates \in Seq(Locations) /\ DOMAIN Records = 1..Len(nodeCoordinates)
  BY DEF GraphInv, TypeOK, IdsInv
<1>2. Len(nodeCoordinates) \in Nat
  BY <1>1
<1>3. \A i, j \in 1..Len(nodeCoordinates) : Records[i].osmId = Records[j].osmId => i = j
  BY <1>1 DEF FetchInv
<1>4. IsFiniteSet(RecordIds) /\ Cardinality(RecordIds) = Len(nodeCoordinates)
  BY <1>1, <1>2, <1>3, DistinctCount DEF RecordIds
<1> QED BY <1>1, <1>2, <1>4

\* The passes that mark nodes store none.
LEMMA MarkPassFetch ==
  ASSUME GraphInv, FetchInv, GraphInv', pass \in MarkPasses,
         SkipItem \/ CollectWay \/ EndCollect \/ DeleteAvailable \/ EndAvailable
         \/ InvalidateWay \/ EndInvalidate \/ RefsWay \/ EndRefs
  PROVE  FetchInv'
<1>1. /\ UNCHANGED <<input, fetched, output>>
      /\ pass' \in MarkPasses \cup {"fetch"}
      /\ pass' = "fetch" => pos' = 0
  BY DEF SkipItem, CollectWay, EndCollect, DeleteAvailable, EndAvailable,
         InvalidateWay, EndInvalidate, RefsWay, EndRefs,
         AtWay, AtNode, AtEnd, Reading, Advance, Goto, MarkPasses, NodePasses, WayPasses
<1>2. /\ nodeCoordinates' = << >> /\ stream' = stream /\ header' = header /\ outEdges' = outEdges
  BY <1>1 DEF GraphInv, IdsInv, fetched, input, output
<1>3. DOMAIN Records' = {}
  BY <1>2 DEF GraphInv, IdsInv
<1>4. RecordIds' = {}
  BY <1>3 DEF RecordIds
<1>5. NodesUpTo(stream, 0) = {}
  <2>1. stream \in Extracts
    BY DEF GraphInv, TypeOK
  <2>2. DOMAIN stream \subseteq Nat \ {0}
    BY <2>1, Positions
  <2> QED BY <2>2 DEF NodesUpTo
<1>6. pass \notin Writing /\ pass' \notin Fetched \cup {"aborted"}
  BY <1>1 DEF MarkPasses, Writing, Fetched
<1> QED BY <1>1, <1>2, <1>3, <1>4, <1>5, <1>6 DEF FetchInv

\* gatherNodes passes over what is no node.
LEMMA SkipItemFetch ==
  ASSUME GraphInv, FetchInv, SkipItem, pass = "fetch"
  PROVE  FetchInv'
<1>1. /\ pass' = "fetch" /\ pos' = pos + 1 /\ item.kind # "node" /\ pos < Len(stream)
      /\ UNCHANGED <<stream, cmd, osmIdToMyNodeId, nodes, outNodes, outEdges, header>>
  BY DEF SkipItem, Reading, Advance, WayPasses, NodePasses, input, fetched, output
<1>2. UNCHANGED <<Records, RecordIds>>
  BY <1>1 DEF Records, RecordIds, AllNodesOut
<1>3. stream \in Extracts /\ pos \in Nat /\ item = stream[pos + 1]
  BY <1>1 DEF GraphInv, SelectionInv, ScanOK, item
<1>4. NodesUpTo(stream, pos + 1) = NodesUpTo(stream, pos)
  <2>1. ~ NodeAt(stream, pos + 1)
    BY <1>1, <1>3 DEF NodeAt
  <2>2. NodesUpTo(stream, pos + 1) = NodesUpTo(stream, pos) \cup {}
    BY <1>1, <1>3, <2>1, NodesUpToStep
  <2> QED BY <2>2, NothingAdded
<1> QED BY <1>1, <1>2, <1>4 DEF FetchInv, Fetched, Writing

\* gatherNodes stores the next node if it is needed.  When the counter wraps
\* around, it has stored as many needed nodes as there are ids.
LEMMA FetchNodeFetch ==
  ASSUME GraphInv, FetchInv, FetchNode, GraphInv'
  PROVE  FetchInv'
<1> DEFINE N == Needed(stream, cmd.withBounds)
<1>1. /\ pass = "fetch" /\ pass' \in {"fetch", "aborted"} /\ pos < Len(stream)
      /\ item.kind = "node" /\ item = stream[pos + 1]
      /\ UNCHANGED <<stream, cmd, outNodes, outEdges, header>>
  BY DEF FetchNode, AtNode, Reading, Advance, output, input, item
<1>2. Records = nodes /\ Records' = nodes'
  BY <1>1 DEF Records, AllNodesOut
<1>3. /\ stream \in Extracts /\ pos \in Nat
      /\ nodes \in Seq(NodeRecords) /\ nodeCoordinates \in Seq(Locations)
      /\ nodeId = Len(nodeCoordinates) /\ DOMAIN nodes = 1..Len(nodeCoordinates)
      /\ nodeId \in 0..(IdSpace - 1) /\ IdSpace \in Nat \ {0}
      /\ DOMAIN osmIdToMyNodeId = N
  BY <1>1, <1>2, CreatorAssumption DEF GraphInv, SelectionInv, ScanOK, MarksInv, MarkPasses, TypeOK, IdsInv
<1>4. header' = NoHeader /\ outEdges' = << >>
  BY <1>1 DEF FetchInv, Writing
<1> SUFFICES ASSUME NodesUnique(stream) PROVE FetchInv'
  BY <1>1, <1>4 DEF FetchInv
<1>5. /\ NodesUpTo(stream, pos + 1) = NodesUpTo(stream, pos) \cup {item.id}
      /\ item.id \notin NodesUpTo(stream, pos)
  BY <1>1, <1>3, NodesUpToStep DEF NodeAt
<1>6. /\ RecordIds = {nodes[i].osmId : i \in DOMAIN nodes}
      /\ RecordIds' = {nodes'[i].osmId : i \in DOMAIN nodes'}
      /\ RecordIds = N \cap NodesUpTo(stream, pos)
      /\ \A i \in DOMAIN nodes : osmIdToMyNodeId[nodes[i].osmId] = i - 1
      /\ \A i, j \in DOMAIN nodes : nodes[i].osmId = nodes[j].osmId => i = j
  BY <1>1, <1>2 DEF RecordIds, FetchInv
<1>7. CASE item.id \notin N
  <2>1. /\ UNCHANGED <<nodes, osmIdToMyNodeId>> /\ pass' = "fetch" /\ pos' = pos + 1
    <3>1. item.id \notin DOMAIN osmIdToMyNodeId
      BY <1>3, <1>7
    <3> QED BY <1>1, <3>1 DEF FetchNode, Advance, fetched
  <2>2. N \cap NodesUpTo(stream, pos + 1) = RecordIds
    BY <1>5, <1>6, <1>7
  <2> QED BY <1>1, <1>2, <1>4, <1>6, <2>1, <2>2 DEF FetchInv, Fetched
<1>8. CASE item.id \in N
  <2> DEFINE r == [id |-> nodeId, osmId |-> item.id, indegree |-> 0, outdegree |-> 0]
  <2>1. /\ nodes' = Append(nodes, r)
        /\ nodeCoordinates' = Append(nodeCoordinates, item.loc)
        /\ nodeId' = (nodeId + 1) % IdSpace
        /\ nodeId' = 0 <=> pass' = "aborted"
        /\ \/ pass' = "aborted"
           \/ /\ pass' = "fetch" /\ pos' = pos + 1
              /\ osmIdToMyNodeId' = [osmIdToMyNodeId EXCEPT ![item.id] = nodeId]
    BY <1>1, <1>3, <1>8 DEF FetchNode, Overflow, AssignedId, Advance
  <2>2. /\ DOMAIN nodes' = DOMAIN nodes \cup {nodeId + 1} /\ nodes'[nodeId + 1] = r
        /\ nodeId + 1 \notin DOMAIN nodes /\ nodeId \in Nat
        /\ \A i \in DOMAIN nodes : nodes'[i] = nodes[i]
        /\ DOMAIN nodes' = 1..(nodeId + 1)
    BY <1>3, <2>1
  <2>3. item.id \notin RecordIds
    BY <1>5, <1>6
  <2>4. RecordIds' = RecordIds \cup {item.id}
    BY <1>6, <2>2
  <2>5. \A i, j \in DOMAIN nodes' : nodes'[i].osmId = nodes'[j].osmId => i = j
    BY <1>6, <2>2, <2>3
  <2>6. CASE pass' = "aborted"
    <3>1. nodeId + 1 = IdSpace
      <4>1. nodeId + 1 # IdSpace => nodeId + 1 \in 0..(IdSpace - 1)
        BY <1>3
      <4>2. nodeId + 1 \in 0..(IdSpace - 1) => (nodeId + 1) % IdSpace = nodeId + 1
        BY <1>3
      <4> QED BY <1>3, <2>1, <2>6, <4>1, <4>2
    <3>2. IsFiniteSet(RecordIds') /\ Cardinality(RecordIds') = IdSpace
      <4>1. /\ nodeId + 1 \in Nat /\ DOMAIN nodes' = 1..(nodeId + 1)
            /\ \A i, j \in 1..(nodeId + 1) : nodes'[i].osmId = nodes'[j].osmId => i = j
        BY <2>2, <2>5
      <4> DEFINE S == {nodes'[i].osmId : i \in DOMAIN nodes'}
      <4>2. IsFiniteSet(S) /\ Cardinality(S) = nodeId + 1
        BY <4>1, DistinctCount
      <4> QED BY <1>6, <3>1, <4>2
    <3>3. RecordIds' \subseteq N
      BY <1>6, <1>8, <2>4
    <3>4. Cardinality(N) >= IdSpace
      BY <1>3, <3>2, <3>3, NeededNodes, FS_Subset
    <3> QED BY <1>1, <1>2, <1>4, <2>5, <2>6, <3>4 DEF FetchInv, Fetched
  <2>7. CASE pass' # "aborted"
    <3>1. /\ pass' = "fetch" /\ pos' = pos + 1
          /\ osmIdToMyNodeId' = [osmIdToMyNodeId EXCEPT ![item.id] = nodeId]
      BY <2>1, <2>7
    <3>2. \A i \in DOMAIN nodes' : osmIdToMyNodeId'[nodes'[i].osmId] = i - 1
      BY <1>3, <1>6, <1>8, <2>2, <2>3, <3>1
    <3>3. RecordIds' = N \cap NodesUpTo(stream, pos + 1)
      BY <1>5, <1>6, <1>8, <2>4
    <3> QED BY <1>1, <1>2, <1>4, <2>5, <3>1, <3>2, <3>3 DEF FetchInv, Fetched
  <2> QED BY <2>6, <2>7
<1> QED BY <1>7, <1>8

\* gatherNodes ends with all nodes: at the end of the input because needed nodes
\* are in it, and before because it has counted them.
LEMMA EndFetchFetch ==
  ASSUME GraphInv, FetchInv, EndFetch
  PROVE  FetchInv'
<1> DEFINE N == Needed(stream, cmd.withBounds)
<1>1. /\ pass = "fetch" /\ pass' \in {"degree", "header"}
      /\ pos = Len(stream) \/ nodeId >= Cardinality(DOMAIN osmIdToMyNodeId)
      /\ UNCHANGED <<stream, cmd, osmIdToMyNodeId, nodes, outNodes, outEdges, header>>
  BY DEF EndFetch, AtEnd, Reading, AllFetched, Goto, input, fetched, output
<1>2. UNCHANGED <<Records, RecordIds>>
  BY <1>1 DEF Records, RecordIds, AllNodesOut
<1>3. /\ stream \in Extracts /\ DOMAIN osmIdToMyNodeId = N /\ nodeId = Len(nodeCoordinates)
  BY <1>1 DEF GraphInv, SelectionInv, ScanOK, MarksInv, MarkPasses, IdsInv
<1>4. ASSUME NodesUnique(stream)
      PROVE  RecordIds = N
  <2>1. RecordIds = N \cap NodesUpTo(stream, pos)
    BY <1>1, <1>4 DEF FetchInv
  <2>2. CASE pos = Len(stream)
    BY <1>3, <2>1, <2>2, NeededNodes
  <2>3. CASE nodeId >= Cardinality(DOMAIN osmIdToMyNodeId)
    <3>1. Cardinality(RecordIds) >= Cardinality(N) /\ Cardinality(RecordIds) \in Nat
      BY <1>3, <1>4, <2>3, RecordCount
    <3>2. /\ RecordIds \in SUBSET N /\ IsFiniteSet(N) /\ Cardinality(N) \in Nat
      BY <1>3, <2>1, NeededNodes
    <3>3. Cardinality(RecordIds) <= Cardinality(N)
      BY <3>2, FS_Subset
    <3>4. Cardinality(N) = Cardinality(RecordIds)
      BY <3>1, <3>2, <3>3
    <3> QED BY <3>2, <3>4, FS_Subset
  <2> QED BY <1>1, <2>2, <2>3
<1>5. header = NoHeader /\ outEdges = << >>
  BY <1>1 DEF FetchInv, Writing
<1> QED BY <1>1, <1>2, <1>4, <1>5 DEF FetchInv, Fetched

\* From the end of gatherNodes on, every needed node has an id of a record.
LEMMA NeededIds ==
  ASSUME GraphInv, FetchInv, NodesUnique(stream), pass \in Fetched,
         NEW x \in Needed(stream, cmd.withBounds)
  PROVE  /\ osmIdToMyNodeId[x] \in 0..(Len(nodeCoordinates) - 1)
         /\ osmIdToMyNodeId[x] # NoId
         /\ Records[osmIdToMyNodeId[x] + 1].osmId = x
<1>1. DOMAIN Records = 1..Len(nodeCoordinates) /\ Len(nodeCoordinates) \in Nat
  BY RecordCount
<1>2. PICK i \in DOMAIN Records : Records[i].osmId = x
  BY DEF FetchInv, RecordIds
<1>3. osmIdToMyNodeId[x] = i - 1
  BY <1>2 DEF FetchInv
<1> QED BY <1>1, <1>2, <1>3 DEF NoId

\* An accepted way that is not invalid is complete, and needs its references.
LEMMA CompleteWay ==
  ASSUME GraphInv, Reading(pass), Accepted(item), pass \in {"refs", "degree", "ways"}
  PROVE  /\ item.id \notin invalidWays <=> pos + 1 \in CompleteAt(stream, cmd.withBounds)
         /\ item.id \notin invalidWays => RefSet(item) \subseteq Needed(stream, cmd.withBounds)
<1>1. /\ stream \in Extracts /\ pos \in Nat /\ pos < Len(stream) /\ item = stream[pos + 1]
      /\ invalidWays = IncompleteIds(stream, cmd.withBounds)
  BY DEF GraphInv, SelectionInv, ScanOK, InvalidInv, Reading, item
<1>2. pos + 1 \in AcceptedAt(stream)
  BY <1>1, Positions DEF AcceptedAt
<1> QED BY <1>1, <1>2 DEF CompleteAt, Needed

\* NodeDegreeProcessor keeps the records, and finds every node.
LEMMA DegreeWayFetch ==
  ASSUME GraphInv, FetchInv, DegreeWay
  PROVE  FetchInv'
<1>1. /\ pass = "degree" /\ pass' \in {"degree", "aborted"} /\ Reading(pass) /\ Accepted(item)
      /\ UNCHANGED <<stream, cmd, osmIdToMyNodeId, header, outEdges>>
  BY DEF DegreeWay, AtWay, Reading, Advance, input, output
<1>2. /\ DOMAIN Records' = DOMAIN Records
      /\ \A i \in DOMAIN Records : Records'[i].osmId = Records[i].osmId
  BY DegreeWayRecords
<1>3. RecordIds' = RecordIds
  BY <1>2 DEF RecordIds
<1>4. NodesUnique(stream) => pass' # "aborted"
  <2> SUFFICES ASSUME NodesUnique(stream), pass' = "aborted" PROVE FALSE
    OBVIOUS
  <2>1. PICK junk \in 0..Len(nodes) :
          /\ item.id \notin invalidWays
          /\ \E x \in RefSet(item) : DegreeId(x, junk) >= Len(nodes)
    BY <1>1 DEF DegreeWay, Advance
  <2>2. PICK x \in RefSet(item) : DegreeId(x, junk) >= Len(nodes)
    BY <2>1
  <2>3. x \in Needed(stream, cmd.withBounds)
    BY <1>1, <2>1, <2>2, CompleteWay
  <2>4. /\ osmIdToMyNodeId[x] \in 0..(Len(nodeCoordinates) - 1) /\ osmIdToMyNodeId[x] # NoId
    BY <1>1, <2>3, NeededIds DEF Fetched
  <2>5. Len(nodes) = Len(nodeCoordinates) /\ Len(nodes) \in Nat
    BY <1>1 DEF GraphInv, TypeOK, IdsInv, Records, AllNodesOut
  <2> QED BY <2>2, <2>4, <2>5 DEF DegreeId
<1>5. header = NoHeader /\ outEdges = << >>
  BY <1>1 DEF FetchInv, Writing
<1> QED BY <1>1, <1>2, <1>3, <1>4, <1>5 DEF FetchInv, Fetched

\* The later passes keep the records, also when main() clears the vector.
LEMMA LateRecords ==
  ASSUME GraphInv,
         EndFetch \/ EndDegree \/ WriteHeader \/ WriteNode \/ EndNodes \/ WriteWay \/ EndWays
         \/ (SkipItem /\ pass \in {"fetch", "degree", "ways"})
  PROVE  /\ DOMAIN Records' = DOMAIN Records
         /\ \A i \in DOMAIN Records : Records'[i] = Records[i]
<1>1. CASE EndNodes
  BY <1>1, EndNodesRecords
<1>2. CASE ~ EndNodes
  <2>1. UNCHANGED nodes /\ AllNodesOut' = AllNodesOut /\ (AllNodesOut => UNCHANGED outNodes)
    BY <1>2 DEF EndFetch, EndDegree, WriteHeader, WriteNode, WriteWay, EndWays, SkipItem,
       fetched, output, AtWay, AtEnd, Reading, Advance, Goto, AllNodesOut
  <2>2. Records' = Records
    BY <2>1 DEF Records
  <2> QED BY <2>2
<1> QED BY <1>1, <1>2

\* They keep the ids too.
LEMMA LateFetch ==
  ASSUME GraphInv, FetchInv,
         EndDegree \/ WriteHeader \/ WriteNode \/ EndNodes \/ WriteWay \/ EndWays
         \/ (SkipItem /\ pass \in {"degree", "ways"})
  PROVE  FetchInv'
<1>1. /\ pass \in Fetched /\ pass' \in Fetched
      /\ pass' \in Writing \/ (pass \notin Writing /\ UNCHANGED <<header, outEdges>>)
      /\ UNCHANGED <<stream, cmd, osmIdToMyNodeId>>
  BY DEF EndDegree, WriteHeader, WriteNode, EndNodes, WriteWay, EndWays, SkipItem, input, output,
         AtWay, AtEnd, Reading, Advance, Goto, Fetched, Writing
<1>2. /\ DOMAIN Records' = DOMAIN Records
      /\ \A i \in DOMAIN Records : Records'[i] = Records[i]
  BY LateRecords
<1>3. RecordIds' = RecordIds
  BY <1>2 DEF RecordIds
<1> QED BY <1>1, <1>2, <1>3 DEF FetchInv, Fetched

\* Every step keeps what is known of the stored nodes.
LEMMA FetchStep ==
  ASSUME GraphInv, GraphInv', FetchInv, [Next]_vars
  PROVE  FetchInv'
<1>1. CASE UNCHANGED vars
  <2>1. UNCHANGED <<stream, cmd, pass, pos, osmIdToMyNodeId, nodes, header, outNodes, outEdges>>
    BY <1>1 DEF vars, input, scan, fetched, output
  <2>2. UNCHANGED <<Records, RecordIds>>
    BY <2>1 DEF Records, RecordIds, AllNodesOut
  <2> QED BY <2>1, <2>2 DEF FetchInv
<1>2. CASE SkipItem
  <2>1. pass \in MarkPasses \cup {"fetch", "degree", "ways"}
    BY <1>2 DEF SkipItem, WayPasses, NodePasses, MarkPasses, Reading
  <2> QED BY <1>2, <2>1, MarkPassFetch, SkipItemFetch, LateFetch
<1>3. CASE CollectWay \/ EndCollect \/ DeleteAvailable \/ EndAvailable
           \/ InvalidateWay \/ EndInvalidate \/ RefsWay \/ EndRefs
  <2>1. pass \in MarkPasses
    BY <1>3 DEF CollectWay, EndCollect, DeleteAvailable, EndAvailable, InvalidateWay,
       EndInvalidate, RefsWay, EndRefs, AtWay, AtNode, AtEnd, Reading, MarkPasses
  <2> QED BY <1>3, <2>1, MarkPassFetch
<1> QED BY <1>1, <1>2, <1>3, FetchNodeFetch, EndFetchFetch, DegreeWayFetch, LateFetch DEF Next

(***************************************************************************)
(* The theorems.                                                           *)
(***************************************************************************)

\* gatherNodes stores each needed node once and stops only when it has them all.
THEOREM FetchInvariant == Spec => []FetchInv
<1>1. Init => FetchInv
  <2> SUFFICES ASSUME Init PROVE FetchInv
    OBVIOUS
  <2>1. Records = << >> /\ pass = "collect" /\ header = NoHeader /\ outEdges = << >>
    BY DEF Init, Records, AllNodesOut
  <2> QED BY <2>1 DEF FetchInv, Fetched
<1>2. GraphInv /\ GraphInv' /\ FetchInv /\ [Next]_vars => FetchInv'
  BY FetchStep
<1> QED BY <1>1, <1>2, GraphInvariant, PTL DEF Spec

\* If no node occurs twice, the node section holds exactly the nodes of the
\* complete ways, for every input: the fetch pass may stop at any block.
THEOREM NodesNeeded == Spec => []NodesAreNeeded
<1>1. GraphInv /\ FetchInv => NodesAreNeeded
  <2> SUFFICES ASSUME GraphInv, FetchInv, NodesUnique(stream), AllNodesOut
               PROVE  /\ {outNodes[i].node.osmId : i \in DOMAIN outNodes}
                           = Needed(stream, cmd.withBounds)
                      /\ Len(outNodes) = Cardinality(Needed(stream, cmd.withBounds))
    BY DEF NodesAreNeeded
  <2>1. /\ pass \in Fetched /\ DOMAIN Records = DOMAIN outNodes
        /\ \A i \in DOMAIN outNodes : Records[i] = outNodes[i].node
    BY DEF Records, AllNodesOut, Fetched
  <2>2. RecordIds = Needed(stream, cmd.withBounds)
    BY <2>1 DEF FetchInv
  <2>3. RecordIds = {outNodes[i].node.osmId : i \in DOMAIN outNodes}
    BY <2>1 DEF RecordIds
  <2>4. Len(outNodes) = Len(nodeCoordinates)
    BY <2>1, RecordCount DEF GraphInv, TypeOK
  <2> QED BY <2>2, <2>3, <2>4, RecordCount
<1> QED BY <1>1, GraphInvariant, FetchInvariant, PTL

\* The creator never aborts on account of a missing node: if no node occurs
\* twice, it does so only when there are too many nodes, before it writes.
THEOREM AbortsOnOverflow == Spec => []AbortsOnlyOnOverflow
<1>1. GraphInv /\ FetchInv => AbortsOnlyOnOverflow
  BY DEF AbortsOnlyOnOverflow, GraphInv, FetchInv, WrittenInv, Writing
<1> QED BY <1>1, GraphInvariant, FetchInvariant, PTL

(***************************************************************************)
(* The edges of GraphCreator: what refs counts, what degree counts and     *)
(* what the edge section holds are the edges of the complete ways.         *)
(***************************************************************************)

(***************************************************************************)
(* Counting.  The edges of one way are pairs of its position and a number. *)
(***************************************************************************)

PairsWith(i, S) == {<<i, n>> : n \in S}
Shifted(i, S) == {i + n : n \in S}

\* Pairing with a fixed first component changes no count.
LEMMA PairCount ==
  ASSUME NEW S, IsFiniteSet(S), NEW i
  PROVE  /\ IsFiniteSet(PairsWith(i, S)) /\ Cardinality(PairsWith(i, S)) = Cardinality(S)
         /\ Cardinality(S) \in Nat
<1> DEFINE g == [n \in S |-> <<i, n>>]
<1>1. g \in Bijection(S, PairsWith(i, S))
  BY Fun_IsBij DEF PairsWith
<1>2. ExistsBijection(S, PairsWith(i, S))
  BY <1>1 DEF ExistsBijection
<1> QED BY <1>2, FS_Bijection, FS_CardinalityType

\* Nor does shifting a set of numbers.
LEMMA ShiftCount ==
  ASSUME NEW S \in SUBSET Int, IsFiniteSet(S), NEW i \in Int
  PROVE  /\ IsFiniteSet(Shifted(i, S)) /\ Cardinality(Shifted(i, S)) = Cardinality(S)
         /\ Cardinality(S) \in Nat
<1> DEFINE g == [n \in S |-> i + n]
<1>1. \A m, n \in S : g[m] = g[n] => m = n
  OBVIOUS
<1>2. g \in Bijection(S, Shifted(i, S))
  BY <1>1, Fun_IsBij DEF Shifted
<1>3. ExistsBijection(S, Shifted(i, S))
  BY <1>2 DEF ExistsBijection
<1> QED BY <1>3, FS_Bijection, FS_CardinalityType

\* Disjoint sets add up.
LEMMA DisjointCount ==
  ASSUME NEW S, NEW T, IsFiniteSet(S), IsFiniteSet(T), S \cap T = {}
  PROVE  /\ IsFiniteSet(S \cup T)
         /\ Cardinality(S \cup T) = Cardinality(S) + Cardinality(T)
<1>1. Cardinality(S) \in Nat /\ Cardinality(T) \in Nat /\ Cardinality(S \cap T) = 0
  BY FS_CardinalityType, FS_EmptySet
<1>2. /\ IsFiniteSet(S \cup T)
      /\ Cardinality(S \cup T) = Cardinality(S) + Cardinality(T) - Cardinality(S \cap T)
  BY FS_Union
<1> QED BY <1>1, <1>2

\* A concatenation is the one list and then the other.
LEMMA ConcatParts ==
  ASSUME NEW S, NEW a \in Seq(S), NEW b \in Seq(S)
  PROVE  /\ Len(a \o b) = Len(a) + Len(b) /\ Len(a) \in Nat /\ Len(b) \in Nat
         /\ DOMAIN a = 1..Len(a) /\ DOMAIN b = 1..Len(b)
         /\ DOMAIN (a \o b) = 1..(Len(a) + Len(b))
         /\ \A n \in 1..Len(a) : (a \o b)[n] = a[n]
         /\ \A n \in 1..Len(b) : (a \o b)[Len(a) + n] = b[n]
OBVIOUS

\* The edges up to the next position.
LEMMA EdgesUpToStep ==
  ASSUME NEW s \in Extracts, NEW wb, NEW k \in Nat
  PROVE  /\ k + 1 \in CompleteAt(s, wb) =>
              EdgesUpTo(s, wb, k + 1) = EdgesUpTo(s, wb, k) \cup WayEdges(s, k + 1)
         /\ k + 1 \notin CompleteAt(s, wb) => EdgesUpTo(s, wb, k + 1) = EdgesUpTo(s, wb, k)
         /\ EdgesUpTo(s, wb, k) \cap WayEdges(s, k + 1) = {}
         /\ EdgesUpTo(s, wb, 0) = {}
         /\ EdgesUpTo(s, wb, k) \subseteq EdgesUpTo(s, wb, Len(s))
<1> DEFINE U(m) == {j \in CompleteAt(s, wb) : j <= m}
<1>1. CompleteAt(s, wb) \subseteq 1..Len(s) /\ Len(s) \in Nat
  BY WayPositions, Positions
<1>2. U(k + 1) = U(k) \cup (IF k + 1 \in CompleteAt(s, wb) THEN {k + 1} ELSE {})
  BY <1>1
<1>3. U(0) = {} /\ U(k) \subseteq U(Len(s)) /\ k + 1 \notin U(k)
  BY <1>1
<1>4. \A m : EdgesUpTo(s, wb, m) = UNION {WayEdges(s, i) : i \in U(m)}
  BY DEF EdgesUpTo
<1>5. \A i : \A p \in WayEdges(s, i) : p[1] = i
  BY DEF WayEdges
<1>6. EdgesUpTo(s, wb, k) \cap WayEdges(s, k + 1) = {}
  BY <1>3, <1>4, <1>5
<1>7. ASSUME k + 1 \in CompleteAt(s, wb)
      PROVE  EdgesUpTo(s, wb, k + 1) = EdgesUpTo(s, wb, k) \cup WayEdges(s, k + 1)
  <2>1. U(k + 1) = U(k) \cup {k + 1}
    BY <1>2, <1>7
  <2> HIDE DEF U
  <2> QED BY <1>4, <2>1
<1>8. ASSUME k + 1 \notin CompleteAt(s, wb)
      PROVE  EdgesUpTo(s, wb, k + 1) = EdgesUpTo(s, wb, k)
  <2>1. U(k + 1) = U(k)
    BY <1>2, <1>8
  <2> QED BY <1>4, <2>1
<1>9. EdgesUpTo(s, wb, 0) = {} /\ EdgesUpTo(s, wb, k) \subseteq EdgesUpTo(s, wb, Len(s))
  <2> HIDE DEF U
  <2> QED BY <1>3, <1>4
<1> QED BY <1>6, <1>7, <1>8, <1>9

\* The edges of an accepted way.
LEMMA WayEdgesCount ==
  ASSUME NEW s, NEW i, Len(s[i].refs) \in Nat, Len(s[i].refs) > 1
  PROVE  /\ IsFiniteSet(WayEdges(s, i)) /\ Cardinality(WayEdges(s, i)) = WayEdgeCount(s[i])
         /\ WayEdgeCount(s[i]) \in Nat /\ IsFiniteSet(1..WayEdgeCount(s[i]))
<1>1. WayEdgeCount(s[i]) \in Nat
  BY EdgeCounts
<1>2. IsFiniteSet(1..WayEdgeCount(s[i])) /\ Cardinality(1..WayEdgeCount(s[i])) = WayEdgeCount(s[i])
  BY <1>1, FS_Interval
<1>3. WayEdges(s, i) = PairsWith(i, 1..WayEdgeCount(s[i]))
  BY DEF WayEdges, PairsWith
<1> QED BY <1>1, <1>2, <1>3, PairCount

\* What is known of the way at hand.
LEMMA NextWay ==
  ASSUME GraphInv, Reading(pass), Accepted(item)
  PROVE  /\ stream \in Extracts /\ pos \in Nat /\ item = stream[pos + 1] /\ item \in Items
         /\ item.refs \in Seq(NodeIds) /\ Len(item.refs) \in Nat /\ Len(item.refs) > 1
         /\ WayEdgeCount(item) \in Nat /\ myEdgeCount(item) = WayEdgeCount(item)
<1>1. ScanOK /\ pos < Len(stream) /\ pos \in Nat /\ stream \in Extracts
  BY DEF GraphInv, SelectionInv, ScanOK, Reading
<1>2. item = stream[pos + 1] /\ item \in Items
  BY <1>1, NextItem
<1>3. item.refs \in Seq(NodeIds) /\ Len(item.refs) \in Nat /\ Len(item.refs) > 1
  BY <1>2, WayTypes
<1> QED BY <1>1, <1>2, <1>3, EdgeCounts

\* The number of edges grows by those of the way at hand, if it is complete.
LEMMA NextWayCount ==
  ASSUME GraphInv, Reading(pass), Accepted(item), pass \in {"refs", "degree", "ways"},
         IsFiniteSet(EdgesUpTo(stream, cmd.withBounds, pos))
  PROVE  LET now  == EdgesUpTo(stream, cmd.withBounds, pos)
             then == EdgesUpTo(stream, cmd.withBounds, pos + 1)
         IN  /\ item.id \in invalidWays => then = now
             /\ item.id \notin invalidWays =>
                  IsFiniteSet(then) /\ Cardinality(then) = Cardinality(now) + WayEdgeCount(item)
<1> DEFINE wb == cmd.withBounds
           now == EdgesUpTo(stream, wb, pos)
           then == EdgesUpTo(stream, wb, pos + 1)
<1>1. /\ stream \in Extracts /\ pos \in Nat /\ item = stream[pos + 1]
      /\ Len(item.refs) \in Nat /\ Len(item.refs) > 1
  BY NextWay
<1>2. item.id \notin invalidWays <=> pos + 1 \in CompleteAt(stream, wb)
  BY CompleteWay
<1>3. item.id \in invalidWays => then = now
  BY <1>1, <1>2, EdgesUpToStep
<1>4. ASSUME item.id \notin invalidWays
      PROVE  IsFiniteSet(then) /\ Cardinality(then) = Cardinality(now) + WayEdgeCount(item)
  <2>1. then = now \cup WayEdges(stream, pos + 1) /\ now \cap WayEdges(stream, pos + 1) = {}
    BY <1>1, <1>2, <1>4, EdgesUpToStep
  <2>2. /\ IsFiniteSet(WayEdges(stream, pos + 1))
        /\ Cardinality(WayEdges(stream, pos + 1)) = WayEdgeCount(item)
    BY <1>1, WayEdgesCount
  <2> QED BY <2>1, <2>2, DisjointCount
<1> QED BY <1>3, <1>4

\* What is no accepted way adds no edge.
LEMMA SkipCount ==
  ASSUME GraphInv, Reading(pass), ~ Accepted(item)
  PROVE  EdgesUpTo(stream, cmd.withBounds, pos + 1) = EdgesUpTo(stream, cmd.withBounds, pos)
<1>1. ScanOK /\ pos < Len(stream) /\ pos \in Nat /\ stream \in Extracts
  BY DEF GraphInv, SelectionInv, ScanOK, Reading
<1>2. pos + 1 \notin CompleteAt(stream, cmd.withBounds)
  BY <1>1, NextItem, WayPositions
<1> QED BY <1>1, <1>2, EdgesUpToStep

\* The edges are a matter of the input.
LEMMA EdgesFixed ==
  ASSUME UNCHANGED <<stream, cmd>>
  PROVE  \A k : EdgesUpTo(stream, cmd.withBounds, k)' = EdgesUpTo(stream, cmd.withBounds, k)
BY DEF EdgesUpTo, WayEdges, WayEdgeCount, BothWays

(***************************************************************************)
(* The counter, the header and the edge section.                           *)
(***************************************************************************)

\* refs counts the edges of the complete ways, and no other pass counts.
LEMMA EdgesCountedStep ==
  ASSUME GraphInv, EdgesCounted, Next
  PROVE  EdgesCounted'
<1> USE DEF MarkPasses
<1> DEFINE wb == cmd.withBounds
           E(k) == EdgesUpTo(stream, wb, k)
<1>1. /\ stream \in Extracts /\ pos \in Nat /\ UNCHANGED <<stream, cmd>>
  BY DEF GraphInv, SelectionInv, ScanOK, Next, input,
       SkipItem, CollectWay, EndCollect, DeleteAvailable, EndAvailable, InvalidateWay,
       EndInvalidate, RefsWay, EndRefs, FetchNode, EndFetch, DegreeWay, EndDegree,
       WriteHeader, WriteNode, EndNodes, WriteWay, EndWays
<1>2. \A k : E(k)' = E(k)
  BY <1>1, EdgesFixed
<1>3. E(0) = {} /\ IsFiniteSet(E(0)) /\ Cardinality(E(0)) = 0
  BY <1>1, EdgesUpToStep, FS_EmptySet
<1>4. CASE RefsWay
  <2>1. /\ pass = "refs" /\ pass' = "refs" /\ pos' = pos + 1 /\ Reading(pass) /\ Accepted(item)
        /\ edgeCount' = IF item.id \in invalidWays THEN edgeCount ELSE edgeCount + myEdgeCount(item)
    BY <1>4 DEF RefsWay, AtWay, Reading, Advance
  <2>2. IsFiniteSet(E(pos)) /\ edgeCount = Cardinality(E(pos))
    BY <2>1 DEF EdgesCounted
  <2>3. IsFiniteSet(E(pos + 1)) /\ edgeCount' = Cardinality(E(pos + 1))
    BY <2>1, <2>2, NextWay, NextWayCount
  <2> QED BY <1>1, <1>2, <2>1, <2>3 DEF EdgesCounted
<1>5. CASE SkipItem /\ pass = "refs"
  <2>1. /\ pass' = "refs" /\ pos' = pos + 1 /\ Reading(pass) /\ ~ Accepted(item)
        /\ edgeCount' = edgeCount
    BY <1>5 DEF SkipItem, Reading, Advance, NodePasses
  <2>2. E(pos + 1) = E(pos)
    BY <2>1, SkipCount
  <2> QED BY <1>1, <1>2, <1>5, <2>1, <2>2 DEF EdgesCounted
<1>6. CASE EndRefs
  <2>1. pass = "refs" /\ pass' = "fetch" /\ pos = Len(stream) /\ edgeCount' = edgeCount
    BY <1>6 DEF EndRefs, AtEnd, Goto
  <2> QED BY <1>1, <1>2, <2>1 DEF EdgesCounted
<1>7. CASE \/ CollectWay \/ EndCollect \/ DeleteAvailable \/ EndAvailable
           \/ InvalidateWay \/ EndInvalidate
           \/ (SkipItem /\ pass \in MarkPasses \ {"refs"})
  <2>1. /\ pass \in MarkPasses \ {"refs"} /\ pass' \in MarkPasses /\ edgeCount' = edgeCount
        /\ pass' = "refs" => pos' = 0
    BY <1>7 DEF SkipItem, CollectWay, EndCollect, DeleteAvailable, EndAvailable, InvalidateWay,
       EndInvalidate, AtWay, AtNode, AtEnd, Reading, Advance, Goto
  <2>2. edgeCount' = 0
    BY <2>1 DEF EdgesCounted
  <2>3. pass' = "refs" => E(pos)' = E(0)
    BY <1>2, <2>1
  <2> QED BY <1>3, <2>1, <2>2, <2>3 DEF EdgesCounted
<1>8. CASE \/ FetchNode \/ EndFetch \/ DegreeWay \/ EndDegree \/ WriteHeader \/ WriteNode
           \/ EndNodes \/ WriteWay \/ EndWays \/ (SkipItem /\ pass \notin MarkPasses)
  <2>1. pass \notin MarkPasses /\ pass' \notin MarkPasses /\ edgeCount' = edgeCount
    BY <1>8 DEF SkipItem, FetchNode, EndFetch, DegreeWay, EndDegree, WriteHeader, WriteNode,
       EndNodes, WriteWay, EndWays, AtWay, AtNode, AtEnd, Reading, Advance, Goto
  <2> QED BY <1>1, <1>2, <2>1 DEF EdgesCounted
<1> QED BY <1>4, <1>5, <1>6, <1>7, <1>8 DEF Next

\* The header has the sizes of the two sections, and keeps them.
LEMMA HeaderWrittenStep ==
  ASSUME GraphInv, HeaderWritten, Next
  PROVE  HeaderWritten'
<1>1. CASE WriteHeader
  <2>1. /\ pass = "header" /\ header' = [nodeCount |-> Len(nodes), edgeCount |-> edgeCount]
        /\ UNCHANGED <<nodeCoordinates, edgeCount>>
    BY <1>1 DEF WriteHeader, fetched
  <2>2. Len(nodes) = Len(nodeCoordinates)
    BY <2>1 DEF GraphInv, TypeOK, IdsInv, Records, AllNodesOut
  <2> QED BY <2>1, <2>2 DEF HeaderWritten
<1>2. CASE ~ WriteHeader
  <2>1. pass' \in Writing =>
          pass \in Writing /\ UNCHANGED <<header, nodeCoordinates, edgeCount>>
    BY <1>2 DEF Next, Writing, MarkPasses, WayPasses, NodePasses,
       SkipItem, CollectWay, EndCollect, DeleteAvailable, EndAvailable, InvalidateWay,
       EndInvalidate, RefsWay, EndRefs, FetchNode, EndFetch, DegreeWay, EndDegree,
       WriteNode, EndNodes, WriteWay, EndWays,
       AtWay, AtNode, AtEnd, Reading, Advance, Goto, fetched, output
  <2> QED BY <2>1 DEF HeaderWritten
<1> QED BY <1>1, <1>2

\* The edge section grows by the edges of the complete ways.
LEMMA EdgesWrittenStep ==
  ASSUME GraphInv, EdgesCounted, EdgesWritten, Next
  PROVE  EdgesWritten'
<1> DEFINE wb == cmd.withBounds
           E(k) == EdgesUpTo(stream, wb, k)
<1>1. /\ stream \in Extracts /\ pos \in Nat /\ UNCHANGED <<stream, cmd>>
      /\ outEdges \in Seq(EdgeRecords)
  BY DEF GraphInv, TypeOK, SelectionInv, ScanOK, Next, input,
       SkipItem, CollectWay, EndCollect, DeleteAvailable, EndAvailable, InvalidateWay,
       EndInvalidate, RefsWay, EndRefs, FetchNode, EndFetch, DegreeWay, EndDegree,
       WriteHeader, WriteNode, EndNodes, WriteWay, EndWays
<1>2. \A k : E(k)' = E(k)
  BY <1>1, EdgesFixed
<1>3. CASE WriteWay
  <2>1. /\ pass = "ways" /\ pass' = "ways" /\ pos' = pos + 1 /\ Reading(pass) /\ Accepted(item)
        /\ outEdges' = IF item.id \in invalidWays THEN outEdges ELSE outEdges \o EdgesOf(item)
    BY <1>3 DEF WriteWay, AtWay, Reading, Advance
  <2>2. Len(outEdges) = Cardinality(E(pos)) /\ IsFiniteSet(E(pos))
    <3>1. IsFiniteSet(E(Len(stream)))
      BY <2>1 DEF EdgesCounted, MarkPasses
    <3>2. E(pos) \in SUBSET E(Len(stream))
      BY <1>1, EdgesUpToStep
    <3> QED BY <2>1, <3>1, <3>2, FS_Subset DEF EdgesWritten
  <2>3. WayEdgeCount(item) \in Nat
    BY <2>1, NextWay
  <2>4. item.id \notin invalidWays => Len(outEdges') = Len(outEdges) + WayEdgeCount(item)
    <3>1. item.id \notin invalidWays => EdgesOf(item) \in Seq(EdgeRecords)
      BY <1>3, EdgesOfType DEF WriteWay, GraphInv
    <3>2. DOMAIN EdgesOf(item) = 1..WayEdgeCount(item)
      BY DEF EdgesOf
    <3>3. item.id \notin invalidWays => Len(EdgesOf(item)) = WayEdgeCount(item)
      BY <2>3, <3>1, <3>2
    <3> QED BY <1>1, <2>1, <3>1, <3>3, ConcatParts
  <2>5. Len(outEdges') = Cardinality(E(pos + 1))
    BY <2>1, <2>2, <2>4, NextWayCount
  <2> QED BY <1>2, <2>1, <2>5 DEF EdgesWritten, AllNodesOut
<1>4. CASE SkipItem /\ pass = "ways"
  <2>1. /\ pass' = "ways" /\ pos' = pos + 1 /\ Reading(pass) /\ ~ Accepted(item)
        /\ outEdges' = outEdges
    BY <1>4 DEF SkipItem, Reading, Advance, NodePasses, output
  <2>2. E(pos + 1) = E(pos)
    BY <2>1, SkipCount
  <2> QED BY <1>2, <1>4, <2>1, <2>2 DEF EdgesWritten, AllNodesOut
<1>5. CASE EndNodes
  <2>1. pass = "nodes" /\ pass' = "ways" /\ pos' = 0 /\ outEdges' = outEdges
    BY <1>5 DEF EndNodes, Goto, output
  <2>2. outEdges' = << >>
    BY <2>1 DEF EdgesWritten, AllNodesOut
  <2>3. E(pos)' = E(0) /\ E(0) = {}
    BY <1>1, <1>2, <2>1, EdgesUpToStep
  <2> QED BY <2>1, <2>2, <2>3, FS_EmptySet DEF EdgesWritten, AllNodesOut
<1>6. CASE EndWays
  <2>1. pass = "ways" /\ pass' = "done" /\ pos = Len(stream) /\ outEdges' = outEdges
    BY <1>6 DEF EndWays, AtEnd, output
  <2> QED BY <1>1, <1>2, <2>1 DEF EdgesWritten, AllNodesOut
<1>7. CASE \/ CollectWay \/ EndCollect \/ DeleteAvailable \/ EndAvailable
           \/ InvalidateWay \/ EndInvalidate \/ RefsWay \/ EndRefs
           \/ FetchNode \/ EndFetch \/ DegreeWay \/ EndDegree \/ WriteHeader \/ WriteNode
           \/ (SkipItem /\ pass # "ways")
  <2>1. pass \notin {"ways", "done"} /\ pass' \notin {"ways", "done"} /\ outEdges' = outEdges
    BY <1>7 DEF SkipItem, CollectWay, EndCollect, DeleteAvailable, EndAvailable, InvalidateWay,
       EndInvalidate, RefsWay, EndRefs, FetchNode, EndFetch, DegreeWay, EndDegree,
       WriteHeader, WriteNode, WayPasses, NodePasses,
       AtWay, AtNode, AtEnd, Reading, Advance, Goto, output
  <2> QED BY <2>1 DEF EdgesWritten, AllNodesOut
<1> QED BY <1>3, <1>4, <1>5, <1>6, <1>7 DEF Next

\* The ends of the edges of a way that is written have the ids of written nodes.
LEMMA WrittenEnds ==
  ASSUME GraphInv, FetchInv, NodesUnique(stream), AtWay("ways"), item.id \notin invalidWays,
         NEW n \in 1..WayEdgeCount(item)
  PROVE  /\ osmIdToMyNodeId[SourceRef(item, n)] \in 0..(Len(nodeCoordinates) - 1)
         /\ osmIdToMyNodeId[TargetRef(item, n)] \in 0..(Len(nodeCoordinates) - 1)
         /\ EdgesOf(item)[n].source = osmIdToMyNodeId[SourceRef(item, n)]
         /\ EdgesOf(item)[n].target = osmIdToMyNodeId[TargetRef(item, n)]
<1>1. pass = "ways" /\ Reading(pass) /\ Accepted(item)
  BY DEF AtWay, Reading
<1>2. SourceRef(item, n) \in RefSet(item) /\ TargetRef(item, n) \in RefSet(item)
  BY <1>1, NextWay, EdgeRefs
<1>3. RefSet(item) \subseteq Needed(stream, cmd.withBounds)
  BY <1>1, CompleteWay
<1>4. /\ osmIdToMyNodeId[SourceRef(item, n)] \in 0..(Len(nodeCoordinates) - 1)
      /\ osmIdToMyNodeId[TargetRef(item, n)] \in 0..(Len(nodeCoordinates) - 1)
  BY <1>1, <1>2, <1>3, NeededIds DEF Fetched
<1> QED BY <1>4 DEF EdgesOf, MakeEdge

\* An edge is written with ids that the node section has.
LEMMA ResolveStep ==
  ASSUME GraphInv, FetchInv, EdgeCountInv, EdgesResolve, Next
  PROVE  EdgesResolve'
<1>1. CASE WriteWay /\ item.id \notin invalidWays
  <2> DEFINE e == EdgesOf(item)
  <2>1. /\ AtWay("ways") /\ pass = "ways" /\ UNCHANGED <<stream, header>>
        /\ outEdges' = outEdges \o e
    BY <1>1 DEF WriteWay, AtWay, Reading, input
  <2>2. e \in Seq(EdgeRecords) /\ outEdges \in Seq(EdgeRecords)
    BY <1>1, <2>1, EdgesOfType DEF GraphInv, TypeOK
  <2>3. header.nodeCount = Len(nodeCoordinates)
    BY <2>1 DEF EdgeCountInv, HeaderWritten, Writing
  <2> SUFFICES ASSUME NodesUnique(stream), NEW n \in DOMAIN outEdges'
               PROVE  {outEdges'[n].source, outEdges'[n].target} \subseteq 0..(header.nodeCount - 1)
    BY <2>1 DEF EdgesResolve
  <2>4. CASE n \in DOMAIN outEdges
    <3>1. outEdges'[n] = outEdges[n]
      BY <2>1, <2>2, <2>4, ConcatParts
    <3> QED BY <2>4, <3>1 DEF EdgesResolve
  <2>5. CASE n \notin DOMAIN outEdges
    <3>1. DOMAIN e = 1..WayEdgeCount(item)
      BY DEF EdgesOf
    <3>2. PICK m \in DOMAIN e : outEdges'[n] = e[m]
      <4>1. /\ n \in 1..(Len(outEdges) + Len(e)) /\ n \notin 1..Len(outEdges)
            /\ Len(outEdges) \in Nat /\ Len(e) \in Nat
            /\ DOMAIN e = 1..Len(e)
            /\ \A m \in 1..Len(e) : outEdges'[Len(outEdges) + m] = e[m]
        BY <2>1, <2>2, <2>5, ConcatParts
      <4>2. n - Len(outEdges) \in 1..Len(e) /\ n = Len(outEdges) + (n - Len(outEdges))
        BY <4>1
      <4> HIDE DEF e
      <4> QED BY <4>1, <4>2
    <3>3. m \in 1..WayEdgeCount(item)
      BY <3>1
    <3>4. e[m].source \in 0..(header.nodeCount - 1) /\ e[m].target \in 0..(header.nodeCount - 1)
      BY <1>1, <2>1, <2>3, <3>3, WrittenEnds
    <3> QED BY <3>2, <3>4
  <2> QED BY <2>4, <2>5
<1>2. CASE ~ (WriteWay /\ item.id \notin invalidWays)
  <2>1. UNCHANGED <<stream, outEdges>> /\ (pass \in Writing => UNCHANGED header)
    BY <1>2 DEF Next, SkipItem, CollectWay, EndCollect, DeleteAvailable, EndAvailable, InvalidateWay,
       EndInvalidate, RefsWay, EndRefs, FetchNode, EndFetch, DegreeWay, EndDegree,
       WriteHeader, WriteNode, EndNodes, WriteWay, EndWays, Writing, input, output
  <2>2. CASE pass \in Writing
    BY <2>1, <2>2 DEF EdgesResolve
  <2>3. CASE pass \notin Writing
    <3>1. outEdges' = << >>
      BY <2>1, <2>3 DEF FetchInv
    <3> QED BY <3>1 DEF EdgesResolve
  <2> QED BY <2>2, <2>3
<1> QED BY <1>1, <1>2

(***************************************************************************)
(* The degrees.  The edges at a node are those among the edges up to k     *)
(* that belong to a fixed set.                                             *)
(***************************************************************************)

\* Reducing a summand modulo the width first changes nothing.
LEMMA WrapAdd ==
  ASSUME NEW m \in Nat \ {0}, NEW a \in Nat, NEW b \in Nat
  PROVE  ((a % m) + b) % m = (a + b) % m
<1> DEFINE r == a % m
           q == a \div m
           u == (r + b) % m
           v == (r + b) \div m
           w == (a + b) % m
           z == (a + b) \div m
<1>1. /\ a = m * q + r /\ q \in Int /\ r \in 0..(m - 1)
      /\ r + b = m * v + u /\ v \in Int /\ u \in 0..(m - 1)
      /\ a + b = m * z + w /\ z \in Int /\ w \in 0..(m - 1)
  OBVIOUS
<1> HIDE DEF r, q, u, v, w, z
<1>2. m * (q + v) + u = m * z + w
  BY <1>1
<1>3. ASSUME NEW x \in Int, NEW y \in Int, NEW c \in 0..(m - 1), NEW d \in 0..(m - 1),
             m * x + c = m * y + d
      PROVE  x <= y
  <2> SUFFICES ASSUME x >= y + 1 PROVE FALSE
    BY <1>3
  <2>1. m * x >= m * (y + 1)
    BY <1>3
  <2>2. m * (y + 1) = m * y + m
    BY <1>3
  <2> QED BY <1>3, <2>1, <2>2
<1>4. q + v = z
  <2>1. q + v \in Int
    BY <1>1
  <2>2. q + v <= z /\ z <= q + v
    BY <1>1, <1>2, <1>3, <2>1
  <2> QED BY <1>1, <2>1, <2>2
<1>5. u = w
  BY <1>1, <1>2, <1>4
<1> QED BY <1>5 DEF r, u, w

Places(a, P) == {n \in DOMAIN a : a[n] \in P}

\* The places of a concatenation with some property are those of its parts.
LEMMA ConcatCount ==
  ASSUME NEW S, NEW a \in Seq(S), NEW b \in Seq(S), NEW P
  PROVE  Cardinality(Places(a \o b, P)) = Cardinality(Places(a, P)) + Cardinality(Places(b, P))
<1> DEFINE A == {n \in DOMAIN a : a[n] \in P}
           B == {n \in DOMAIN b : b[n] \in P}
           C == {n \in DOMAIN (a \o b) : (a \o b)[n] \in P}
           H == Shifted(Len(a), B)
<1>1. /\ Len(a \o b) = Len(a) + Len(b) /\ Len(a) \in Nat /\ Len(b) \in Nat
      /\ DOMAIN a = 1..Len(a) /\ DOMAIN b = 1..Len(b)
      /\ DOMAIN (a \o b) = 1..(Len(a) + Len(b))
      /\ \A n \in 1..Len(a) : (a \o b)[n] = a[n]
      /\ \A n \in 1..Len(b) : (a \o b)[Len(a) + n] = b[n]
  BY ConcatParts
<1>2. IsFiniteSet(A) /\ IsFiniteSet(B) /\ B \in SUBSET Int
  <2>1. IsFiniteSet(1..Len(a)) /\ IsFiniteSet(1..Len(b))
    BY <1>1, FS_Interval
  <2>2. A \in SUBSET (1..Len(a)) /\ B \in SUBSET (1..Len(b))
    BY <1>1
  <2> QED BY <2>1, <2>2, FS_Subset
<1>3. IsFiniteSet(H) /\ Cardinality(H) = Cardinality(B)
  BY <1>1, <1>2, ShiftCount
<1>4. A \cap H = {}
  BY <1>1 DEF Shifted
<1>5. C = A \cup H
  <2>1. A \subseteq C
    BY <1>1
  <2>2. H \subseteq C
    BY <1>1 DEF Shifted
  <2>3. ASSUME NEW n \in C, n \notin A PROVE n \in H
    <3>1. n \in 1..(Len(a) + Len(b)) /\ n \notin 1..Len(a) /\ (a \o b)[n] \in P
      BY <1>1, <2>3
    <3>2. n - Len(a) \in 1..Len(b) /\ n = Len(a) + (n - Len(a))
      BY <1>1, <3>1
    <3>3. b[n - Len(a)] \in P
      BY <1>1, <3>1, <3>2
    <3>4. n - Len(a) \in B
      BY <1>1, <3>2, <3>3
    <3> HIDE DEF B
    <3> QED BY <3>2, <3>4 DEF Shifted
  <2> HIDE DEF A, C, H
  <2> QED BY <2>1, <2>2, <2>3
<1> HIDE DEF A, B, C, H
<1>6. Cardinality(A \cup H) = Cardinality(A) + Cardinality(H)
  BY <1>2, <1>3, <1>4, DisjointCount
<1>7. Cardinality(C) = Cardinality(A) + Cardinality(B)
  BY <1>3, <1>5, <1>6
<1> QED BY <1>7 DEF A, B, C, Places

\* The edges of a fixed set, up to the next position.
LEMMA PartStep ==
  ASSUME GraphInv, Reading(pass), Accepted(item), pass \in {"degree", "ways"},
         IsFiniteSet(EdgesUpTo(stream, cmd.withBounds, pos)),
         item.id \notin invalidWays, NEW P
  PROVE  LET N == {n \in 1..WayEdgeCount(item) : <<pos + 1, n>> \in P}
             now == EdgesUpTo(stream, cmd.withBounds, pos) \cap P
             then == EdgesUpTo(stream, cmd.withBounds, pos + 1) \cap P
         IN  /\ Cardinality(then) = Cardinality(now) + Cardinality(N)
             /\ Cardinality(now) \in Nat /\ Cardinality(N) \in Nat
<1> DEFINE wb == cmd.withBounds
           E(k) == EdgesUpTo(stream, wb, k)
           N == {n \in 1..WayEdgeCount(item) : <<pos + 1, n>> \in P}
           now == E(pos) \cap P
           here == PairsWith(pos + 1, N)
           then == E(pos + 1) \cap P
<1>1. /\ stream \in Extracts /\ pos \in Nat /\ item = stream[pos + 1]
      /\ Len(item.refs) \in Nat /\ Len(item.refs) > 1
  BY NextWay
<1>2. pos + 1 \in CompleteAt(stream, wb)
  BY CompleteWay
<1>3. /\ E(pos + 1) = E(pos) \cup WayEdges(stream, pos + 1)
      /\ E(pos) \cap WayEdges(stream, pos + 1) = {}
  BY <1>1, <1>2, EdgesUpToStep
<1>4. here = WayEdges(stream, pos + 1) \cap P
  BY <1>1 DEF WayEdges, PairsWith
<1>5. IsFiniteSet(N)
  <2>1. IsFiniteSet(1..WayEdgeCount(item))
    BY <1>1, WayEdgesCount
  <2>2. N \in SUBSET (1..WayEdgeCount(item))
    OBVIOUS
  <2> QED BY <2>1, <2>2, FS_Subset
<1>6. IsFiniteSet(now)
  BY FS_Subset
<1> HIDE DEF N
<1>7. IsFiniteSet(here) /\ Cardinality(here) = Cardinality(N) /\ Cardinality(N) \in Nat
  BY <1>5, PairCount
<1>8. then = now \cup here /\ now \cap here = {}
  BY <1>3, <1>4
<1> HIDE DEF now, here, then
<1>9. Cardinality(then) = Cardinality(now) + Cardinality(N) /\ Cardinality(now) \in Nat
  BY <1>6, <1>7, <1>8, DisjointCount, FS_CardinalityType
<1> QED BY <1>7, <1>9 DEF N, now, then

\* The edges at a node, up to the next position.  Both ends are handled alike.
LEMMA NodeStep ==
  ASSUME GraphInv, Reading(pass), Accepted(item), pass \in {"degree", "ways"},
         IsFiniteSet(EdgesUpTo(stream, cmd.withBounds, Len(stream))),
         item.id \notin invalidWays, NEW id
  PROVE  LET From(k) == EdgesFrom(id, stream, cmd.withBounds, k)
             Into(k) == EdgesInto(id, stream, cmd.withBounds, k)
             from == {n \in 1..WayEdgeCount(item) : osmIdToMyNodeId[SourceRef(item, n)] = id}
             into == {n \in 1..WayEdgeCount(item) : osmIdToMyNodeId[TargetRef(item, n)] = id}
         IN  /\ Cardinality(From(pos + 1)) = Cardinality(From(pos)) + Cardinality(from)
             /\ Cardinality(Into(pos + 1)) = Cardinality(Into(pos)) + Cardinality(into)
             /\ Cardinality(From(pos)) \in Nat /\ Cardinality(from) \in Nat
             /\ Cardinality(Into(pos)) \in Nat /\ Cardinality(into) \in Nat
<1> DEFINE wb == cmd.withBounds
           E(k) == EdgesUpTo(stream, wb, k)
           From(k) == EdgesFrom(id, stream, wb, k)
           Into(k) == EdgesInto(id, stream, wb, k)
           N(P) == {n \in 1..WayEdgeCount(item) : <<pos + 1, n>> \in P}
           L == Len(stream)
<1>1. /\ stream \in Extracts /\ pos \in Nat /\ item = stream[pos + 1] /\ pos + 1 \in Nat
  BY NextWay
<1>2. /\ E(pos) \subseteq E(L) /\ E(pos + 1) \subseteq E(L) /\ IsFiniteSet(E(pos))
  <2>1. E(pos) \subseteq E(L)
    BY <1>1, EdgesUpToStep
  <2>2. E(pos + 1) \subseteq E(L)
    BY <1>1, EdgesUpToStep
  <2> QED BY <2>1, <2>2, FS_Subset
<1>3. /\ From(pos) = E(pos) \cap From(L) /\ From(pos + 1) = E(pos + 1) \cap From(L)
      /\ Into(pos) = E(pos) \cap Into(L) /\ Into(pos + 1) = E(pos + 1) \cap Into(L)
  BY <1>2 DEF EdgesFrom, EdgesInto
<1>4. \A n \in 1..WayEdgeCount(item) : <<pos + 1, n>> \in E(L)
  <2>1. WayEdges(stream, pos + 1) \subseteq E(L)
    BY <1>1, <1>2, CompleteWay, EdgesUpToStep
  <2> QED BY <1>1, <2>1 DEF WayEdges
<1>5. /\ N(From(L)) = {n \in 1..WayEdgeCount(item) : osmIdToMyNodeId[SourceRef(item, n)] = id}
      /\ N(Into(L)) = {n \in 1..WayEdgeCount(item) : osmIdToMyNodeId[TargetRef(item, n)] = id}
  BY <1>1, <1>4 DEF EdgesFrom, EdgesInto
<1>6. \A P : /\ Cardinality(E(pos + 1) \cap P) = Cardinality(E(pos) \cap P) + Cardinality(N(P))
             /\ Cardinality(E(pos) \cap P) \in Nat /\ Cardinality(N(P)) \in Nat
  BY <1>2, PartStep
<1> QED BY <1>3, <1>5, <1>6

\* The edges at a node are the same up to an item that adds none.
LEMMA NodeSkip ==
  ASSUME EdgesUpTo(stream, cmd.withBounds, pos + 1) = EdgesUpTo(stream, cmd.withBounds, pos)
  PROVE  \A id : /\ EdgesFrom(id, stream, cmd.withBounds, pos + 1)
                     = EdgesFrom(id, stream, cmd.withBounds, pos)
                 /\ EdgesInto(id, stream, cmd.withBounds, pos + 1)
                     = EdgesInto(id, stream, cmd.withBounds, pos)
BY DEF EdgesFrom, EdgesInto

\* They are a matter of the input and of the ids.
LEMMA NodeFixed ==
  ASSUME UNCHANGED <<stream, cmd, osmIdToMyNodeId>>
  PROVE  \A id, k : /\ EdgesFrom(id, stream, cmd.withBounds, k)'
                         = EdgesFrom(id, stream, cmd.withBounds, k)
                    /\ EdgesInto(id, stream, cmd.withBounds, k)'
                         = EdgesInto(id, stream, cmd.withBounds, k)
<1>1. \A k : EdgesUpTo(stream, cmd.withBounds, k)' = EdgesUpTo(stream, cmd.withBounds, k)
  BY EdgesFixed
<1> QED BY <1>1 DEF EdgesFrom, EdgesInto, SourceRef, TargetRef, Segment, Reversed, BothWays

\* Before the first item there are none.
LEMMA NodeStart ==
  ASSUME stream \in Extracts
  PROVE  \A id : /\ EdgesFrom(id, stream, cmd.withBounds, 0) = {}
                 /\ EdgesInto(id, stream, cmd.withBounds, 0) = {}
                 /\ Cardinality(EdgesFrom(id, stream, cmd.withBounds, 0)) = 0
                 /\ Cardinality(EdgesInto(id, stream, cmd.withBounds, 0)) = 0
<1>1. EdgesUpTo(stream, cmd.withBounds, 0) = {}
  BY EdgesUpToStep
<1> QED BY <1>1, FS_EmptySet DEF EdgesFrom, EdgesInto

\* Records with the degrees of the records before, and the same edges.
LEMMA DegreesKept ==
  ASSUME NEW k, DegreesAre(k), UNCHANGED <<stream, cmd, osmIdToMyNodeId>>,
         DOMAIN Records' = DOMAIN Records,
         \A i \in DOMAIN Records : Records'[i] = Records[i]
  PROVE  DegreesAre(k)'
BY NodeFixed DEF DegreesAre

\* NodeDegreeProcessor adds the edges of the way at hand to its nodes' degrees.
LEMMA DegreeWayDegrees ==
  ASSUME GraphInv, FetchInv, EdgesCounted, DegreeWay, NodesUnique(stream), DegreesAre(pos),
         pass' = "degree"
  PROVE  DegreesAre(pos)'
<1> DEFINE wb == cmd.withBounds
           From(i, k) == EdgesFrom(i - 1, stream, wb, k)
           Into(i, k) == EdgesInto(i - 1, stream, wb, k)
<1>1. /\ pass = "degree" /\ Reading(pass) /\ Accepted(item) /\ pos' = pos + 1
      /\ UNCHANGED <<stream, cmd, osmIdToMyNodeId>>
  BY DEF DegreeWay, AtWay, Reading, Advance, input
<1>2. Records = nodes /\ Records' = nodes' /\ DOMAIN nodes' = DOMAIN nodes
  BY DegreeWayRecords
<1>3. SUFFICES ASSUME NEW i \in DOMAIN nodes
               PROVE  /\ nodes'[i].outdegree = Cardinality(From(i, pos + 1)) % DegreeSpace
                      /\ nodes'[i].indegree = Cardinality(Into(i, pos + 1)) % DegreeSpace
  BY <1>1, <1>2, NodeFixed DEF DegreesAre
<1>4. /\ nodes[i].outdegree = Cardinality(From(i, pos)) % DegreeSpace
      /\ nodes[i].indegree = Cardinality(Into(i, pos)) % DegreeSpace
  BY <1>2 DEF DegreesAre
<1>5. CASE item.id \in invalidWays
  <2>1. nodes' = nodes
    BY <1>5 DEF DegreeWay
  <2>2. EdgesUpTo(stream, wb, pos + 1) = EdgesUpTo(stream, wb, pos)
    BY <1>1, <1>5, NextWay, CompleteWay, EdgesUpToStep
  <2> QED BY <1>4, <2>1, <2>2, NodeSkip
<1>6. CASE item.id \notin invalidWays
  <2>1. PICK junk \in 0..Len(nodes) :
          nodes' = [j \in DOMAIN nodes |->
                 [nodes[j] EXCEPT
                    !.outdegree = (@ + OutDegree(item, j - 1, junk)) % DegreeSpace,
                    !.indegree = (@ + InDegree(item, j - 1, junk)) % DegreeSpace]]
    BY <1>1, <1>6 DEF DegreeWay
  <2> DEFINE out == (nodes[i].outdegree + OutDegree(item, i - 1, junk)) % DegreeSpace
             in == (nodes[i].indegree + InDegree(item, i - 1, junk)) % DegreeSpace
             from == {n \in 1..WayEdgeCount(item) : osmIdToMyNodeId[SourceRef(item, n)] = i - 1}
             into == {n \in 1..WayEdgeCount(item) : osmIdToMyNodeId[TargetRef(item, n)] = i - 1}
  <2>2. nodes[i] \in NodeRecords
    BY DEF GraphInv, TypeOK
  <2>3. nodes'[i] = [nodes[i] EXCEPT !.outdegree = out, !.indegree = in]
    BY <2>1
  <2>4. nodes'[i].outdegree = out /\ nodes'[i].indegree = in
    <3> HIDE DEF out, in
    <3> QED BY <2>2, <2>3 DEF NodeRecords
  <2>5. \A x \in RefSet(item) : osmIdToMyNodeId[x] # NoId
    BY <1>1, <1>6, CompleteWay, NeededIds DEF Fetched
  <2>6. \A n \in 1..WayEdgeCount(item) :
          SourceRef(item, n) \in RefSet(item) /\ TargetRef(item, n) \in RefSet(item)
    BY <1>1, NextWay, EdgeRefs
  <2>7. OutDegree(item, i - 1, junk) = Cardinality(from) /\ InDegree(item, i - 1, junk) = Cardinality(into)
    BY <2>5, <2>6 DEF OutDegree, InDegree, DegreeId
  <2>8. /\ Cardinality(From(i, pos + 1)) = Cardinality(From(i, pos)) + Cardinality(from)
        /\ Cardinality(Into(i, pos + 1)) = Cardinality(Into(i, pos)) + Cardinality(into)
        /\ Cardinality(From(i, pos)) \in Nat /\ Cardinality(from) \in Nat
        /\ Cardinality(Into(i, pos)) \in Nat /\ Cardinality(into) \in Nat
    <3>1. IsFiniteSet(EdgesUpTo(stream, wb, Len(stream)))
      BY <1>1 DEF EdgesCounted, MarkPasses
    <3> QED BY <1>1, <1>6, <3>1, NodeStep
  <2>9. \A a, b \in Nat : ((a % DegreeSpace) + b) % DegreeSpace = (a + b) % DegreeSpace
    BY CreatorAssumption, WrapAdd
  <2> HIDE DEF from, into, From, Into
  <2>10. out = Cardinality(From(i, pos + 1)) % DegreeSpace
    <3>1. out = ((Cardinality(From(i, pos)) % DegreeSpace) + Cardinality(from)) % DegreeSpace
      BY <1>4, <2>7
    <3> QED BY <2>8, <2>9, <3>1
  <2>11. in = Cardinality(Into(i, pos + 1)) % DegreeSpace
    <3>1. in = ((Cardinality(Into(i, pos)) % DegreeSpace) + Cardinality(into)) % DegreeSpace
      BY <1>4, <2>7
    <3> QED BY <2>8, <2>9, <3>1
  <2> QED BY <2>4, <2>10, <2>11
<1> QED BY <1>5, <1>6

\* A node is stored with no edge counted.
LEMMA FetchNodeDegrees ==
  ASSUME GraphInv, GraphInv', FetchNode, DegreesAre(0)
  PROVE  DegreesAre(0)'
<1>1. /\ pass = "fetch" /\ pass' \in {"fetch", "aborted"} /\ UNCHANGED <<stream, cmd>>
  BY DEF FetchNode, AtNode, Reading, Advance, input
<1>2. Records = nodes /\ Records' = nodes' /\ nodes \in Seq(NodeRecords)
  BY <1>1 DEF Records, AllNodesOut, GraphInv, TypeOK
<1>3. stream \in Extracts /\ stream' \in Extracts /\ DegreeSpace \in Nat \ {0}
  BY <1>1, CreatorAssumption DEF GraphInv, TypeOK
<1>4. 0 % DegreeSpace = 0
  BY <1>3
<1>5. \A i \in DOMAIN nodes : nodes[i].outdegree = 0 /\ nodes[i].indegree = 0
  BY <1>2, <1>3, <1>4, NodeStart DEF DegreesAre
<1>6. \A i \in DOMAIN nodes' : nodes'[i].outdegree = 0 /\ nodes'[i].indegree = 0
  <2> DEFINE r == [id |-> nodeId, osmId |-> item.id, indegree |-> 0, outdegree |-> 0]
  <2>1. nodes' = nodes \/ nodes' = Append(nodes, r)
    BY DEF FetchNode, fetched
  <2> QED BY <1>2, <1>5, <2>1
<1>7. \A id : /\ Cardinality(EdgesFrom(id, stream, cmd.withBounds, 0)') = 0
             /\ Cardinality(EdgesInto(id, stream, cmd.withBounds, 0)') = 0
  <2>1. EdgesUpTo(stream, cmd.withBounds, 0)' = {}
    BY <1>1, <1>3, EdgesFixed, EdgesUpToStep
  <2>2. \A id : /\ EdgesFrom(id, stream, cmd.withBounds, 0)' = {}
               /\ EdgesInto(id, stream, cmd.withBounds, 0)' = {}
    BY <2>1 DEF EdgesFrom, EdgesInto
  <2> QED BY <2>2, FS_EmptySet
<1> QED BY <1>2, <1>4, <1>6, <1>7 DEF DegreesAre

\* Every step keeps the degrees.
LEMMA DegreesCountedStep ==
  ASSUME GraphInv, GraphInv', FetchInv, EdgesCounted, DegreesCounted, Next
  PROVE  DegreesCounted'
<1> USE DEF Fetched
<1>1. UNCHANGED <<stream, cmd>> /\ stream \in Extracts
  BY DEF Next, SkipItem, CollectWay, EndCollect, DeleteAvailable, EndAvailable, InvalidateWay,
     EndInvalidate, RefsWay, EndRefs, FetchNode, EndFetch, DegreeWay, EndDegree, WriteHeader,
     WriteNode, EndNodes, WriteWay, EndWays, input, GraphInv, TypeOK
<1> SUFFICES ASSUME NodesUnique(stream) PROVE DegreesCounted'
  BY <1>1 DEF DegreesCounted
<1>2. CASE \/ CollectWay \/ EndCollect \/ DeleteAvailable \/ EndAvailable
           \/ InvalidateWay \/ EndInvalidate \/ RefsWay
           \/ (SkipItem /\ pass \in MarkPasses)
  <2>1. pass' \in MarkPasses
    BY <1>2 DEF SkipItem, CollectWay, EndCollect, DeleteAvailable, EndAvailable, InvalidateWay,
       EndInvalidate, RefsWay, AtWay, AtNode, AtEnd, Reading, Advance, Goto, MarkPasses
  <2> QED BY <2>1 DEF DegreesCounted, MarkPasses
<1>3. CASE EndRefs
  <2>1. pass = "refs" /\ pass' = "fetch" /\ nodeCoordinates' = nodeCoordinates
    BY <1>3 DEF EndRefs, AtEnd, Goto, fetched
  <2>2. nodeCoordinates' = << >>
    BY <2>1 DEF GraphInv, IdsInv, MarkPasses
  <2>3. DOMAIN Records' = {}
    BY <2>2 DEF GraphInv, IdsInv
  <2> QED BY <2>1, <2>3 DEF DegreesCounted, DegreesAre
<1>4. CASE FetchNode
  <2>1. pass = "fetch" /\ pass' \in {"fetch", "aborted"}
    BY <1>4 DEF FetchNode, AtNode, Reading, Advance
  <2> QED BY <1>4, <2>1, FetchNodeDegrees DEF DegreesCounted
<1>5. CASE DegreeWay
  <2>1. pass = "degree" /\ pass' \in {"degree", "aborted"}
    BY <1>5 DEF DegreeWay, AtWay, Reading, Advance
  <2>2. pass' = "degree" => DegreesAre(pos)'
    BY <1>5, <2>1, DegreeWayDegrees DEF DegreesCounted
  <2> QED BY <2>1, <2>2 DEF DegreesCounted
<1>6. CASE SkipItem /\ pass = "degree"
  <2>1. /\ pass' = "degree" /\ pos' = pos + 1 /\ Reading(pass) /\ ~ Accepted(item)
        /\ UNCHANGED osmIdToMyNodeId
    BY <1>6 DEF SkipItem, Reading, Advance, NodePasses
  <2>2. DegreesAre(pos + 1)
    BY <1>6, <2>1, SkipCount, NodeSkip DEF DegreesCounted, DegreesAre
  <2>3. /\ DOMAIN Records' = DOMAIN Records
        /\ \A i \in DOMAIN Records : Records'[i] = Records[i]
    BY <1>6, LateRecords
  <2>4. DegreesAre(pos)'
    BY <1>1, <2>1, <2>2, <2>3, NodeFixed DEF DegreesAre
  <2> QED BY <2>1, <2>4 DEF DegreesCounted
<1>7. CASE \/ EndFetch \/ EndDegree \/ WriteHeader \/ WriteNode \/ EndNodes \/ WriteWay \/ EndWays
           \/ (SkipItem /\ pass \in {"fetch", "ways"})
  <2>1. /\ \/ pass = "fetch" /\ pass' = "fetch"
           \/ /\ pass = "fetch" /\ pos' = 0
              /\ pass' = IF cmd.graphType \in OffsetArrays THEN "degree" ELSE "header"
           \/ pass = "degree" /\ pass' = "header" /\ pos = Len(stream)
           \/ pass \in Fetched \ {"degree"} /\ pass' \in Fetched \ {"degree"}
        /\ UNCHANGED osmIdToMyNodeId
    BY <1>7 DEF SkipItem, EndFetch, EndDegree, WriteHeader, WriteNode, EndNodes, WriteWay, EndWays,
       AtWay, AtEnd, Reading, Advance, Goto
  <2>2. /\ DOMAIN Records' = DOMAIN Records
        /\ \A i \in DOMAIN Records : Records'[i] = Records[i]
    BY <1>7, LateRecords
  <2>3. \A k : DegreesAre(k) => DegreesAre(k)'
    BY <1>1, <2>1, <2>2, DegreesKept
  <2>4. CASE pass = "fetch" /\ pass' = "fetch"
    BY <2>3, <2>4 DEF DegreesCounted
  <2>5. CASE /\ pass = "fetch" /\ pos' = 0
             /\ pass' = IF cmd.graphType \in OffsetArrays THEN "degree" ELSE "header"
    <3>1. DegreesAre(0)'
      BY <2>3, <2>5 DEF DegreesCounted
    <3>2. DegreesAre(0)' => (pos = 0 => DegreesAre(pos))'
      BY DEF DegreesAre
    <3> QED BY <1>1, <2>5, <3>1, <3>2 DEF DegreesCounted
  <2>6. CASE pass = "degree" /\ pass' = "header" /\ pos = Len(stream)
    <3>1. DegreesAre(Len(stream))
      BY <2>6 DEF DegreesCounted
    <3>2. DegreesAre(Len(stream))'
      BY <1>1, <2>1, <2>2, <3>1, NodeFixed DEF DegreesAre
    <3> QED BY <2>6, <3>2 DEF DegreesCounted
  <2>7. CASE pass \in Fetched \ {"degree"} /\ pass' \in Fetched \ {"degree"}
    <3>1. cmd.graphType \in OffsetArrays => DegreesAre(Len(stream))
      BY <2>7 DEF DegreesCounted
    <3>2. cmd.graphType \in OffsetArrays => DegreesAre(Len(stream))'
      BY <1>1, <2>1, <2>2, <3>1, NodeFixed DEF DegreesAre
    <3> QED BY <1>1, <2>7, <3>2 DEF DegreesCounted
  <2> QED BY <2>1, <2>4, <2>5, <2>6, <2>7
<1>8. SkipItem => pass \in MarkPasses \cup {"fetch", "degree", "ways"}
  BY DEF SkipItem, WayPasses, NodePasses, MarkPasses, Reading
<1> QED BY <1>2, <1>3, <1>4, <1>5, <1>6, <1>7, <1>8 DEF Next

\* The edges of a concatenation at a node are those of its parts.
LEMMA ConcatAt ==
  ASSUME NEW a \in Seq(EdgeRecords), NEW b \in Seq(EdgeRecords), NEW id
  PROVE  /\ Cardinality(SourcedAt(id, a \o b))
               = Cardinality(SourcedAt(id, a)) + Cardinality(SourcedAt(id, b))
         /\ Cardinality(TargetedAt(id, a \o b))
               = Cardinality(TargetedAt(id, a)) + Cardinality(TargetedAt(id, b))
<1> DEFINE P == {e \in EdgeRecords : e.source = id}
           Q == {e \in EdgeRecords : e.target = id}
<1>1. a \o b \in Seq(EdgeRecords)
  OBVIOUS
<1>2. \A es \in Seq(EdgeRecords) : SourcedAt(id, es) = Places(es, P) /\ TargetedAt(id, es) = Places(es, Q)
  <2> TAKE es \in Seq(EdgeRecords)
  <2>1. \A n \in DOMAIN es : es[n] \in EdgeRecords
    OBVIOUS
  <2> QED BY <2>1 DEF SourcedAt, TargetedAt, Places
<1> HIDE DEF P, Q
<1>3. /\ SourcedAt(id, a \o b) = Places(a \o b, P) /\ TargetedAt(id, a \o b) = Places(a \o b, Q)
      /\ SourcedAt(id, a) = Places(a, P) /\ TargetedAt(id, a) = Places(a, Q)
      /\ SourcedAt(id, b) = Places(b, P) /\ TargetedAt(id, b) = Places(b, Q)
  BY <1>1, <1>2
<1>4. \A R : Cardinality(Places(a \o b, R)) = Cardinality(Places(a, R)) + Cardinality(Places(b, R))
  BY ConcatCount
<1> QED BY <1>3, <1>4

\* A way that is written adds the same edges to the edge section at every node.
LEMMA WriteWayPlaced ==
  ASSUME GraphInv, FetchInv, EdgesCounted, NodesUnique(stream), WriteWay,
         item.id \notin invalidWays, EdgesAt(pos), NEW id \in 0..(Len(nodeCoordinates) - 1)
  PROVE  /\ Cardinality(SourcedAt(id, outEdges'))
               = Cardinality(EdgesFrom(id, stream, cmd.withBounds, pos + 1))
         /\ Cardinality(TargetedAt(id, outEdges'))
               = Cardinality(EdgesInto(id, stream, cmd.withBounds, pos + 1))
<1> DEFINE wb == cmd.withBounds
           e == EdgesOf(item)
           from == {n \in 1..WayEdgeCount(item) : osmIdToMyNodeId[SourceRef(item, n)] = id}
           into == {n \in 1..WayEdgeCount(item) : osmIdToMyNodeId[TargetRef(item, n)] = id}
<1>1. /\ AtWay("ways") /\ pass = "ways" /\ Reading(pass) /\ Accepted(item)
      /\ outEdges' = outEdges \o e
  BY DEF WriteWay, AtWay, Reading
<1>2. e \in Seq(EdgeRecords) /\ outEdges \in Seq(EdgeRecords)
  BY <1>1, EdgesOfType DEF GraphInv, TypeOK
<1>3. DOMAIN e = 1..WayEdgeCount(item)
  BY DEF EdgesOf
<1>4. SourcedAt(id, e) = from /\ TargetedAt(id, e) = into
  BY <1>1, <1>3, WrittenEnds DEF SourcedAt, TargetedAt
<1>5. /\ Cardinality(EdgesFrom(id, stream, wb, pos + 1))
            = Cardinality(EdgesFrom(id, stream, wb, pos)) + Cardinality(from)
      /\ Cardinality(EdgesInto(id, stream, wb, pos + 1))
            = Cardinality(EdgesInto(id, stream, wb, pos)) + Cardinality(into)
  <2>1. IsFiniteSet(EdgesUpTo(stream, wb, Len(stream)))
    BY <1>1 DEF EdgesCounted, MarkPasses
  <2> QED BY <1>1, <2>1, NodeStep
<1>6. /\ Cardinality(SourcedAt(id, outEdges)) = Cardinality(EdgesFrom(id, stream, wb, pos))
      /\ Cardinality(TargetedAt(id, outEdges)) = Cardinality(EdgesInto(id, stream, wb, pos))
  BY DEF EdgesAt
<1> HIDE DEF e, from, into
<1> QED BY <1>1, <1>2, <1>4, <1>5, <1>6, ConcatAt

\* Every step keeps the edge section equal to the edges counted.
LEMMA EdgesPlacedStep ==
  ASSUME GraphInv, FetchInv, EdgesCounted, EdgesWritten, EdgesPlaced, Next
  PROVE  EdgesPlaced'
<1> DEFINE wb == cmd.withBounds
           At(k) == \A id \in 0..(Len(nodeCoordinates) - 1) :
                      /\ Cardinality(SourcedAt(id, outEdges'))
                           = Cardinality(EdgesFrom(id, stream, wb, k))
                      /\ Cardinality(TargetedAt(id, outEdges'))
                           = Cardinality(EdgesInto(id, stream, wb, k))
<1>1. UNCHANGED <<stream, cmd>> /\ stream \in Extracts
  BY DEF Next, SkipItem, CollectWay, EndCollect, DeleteAvailable, EndAvailable, InvalidateWay,
     EndInvalidate, RefsWay, EndRefs, FetchNode, EndFetch, DegreeWay, EndDegree, WriteHeader,
     WriteNode, EndNodes, WriteWay, EndWays, input, GraphInv, TypeOK
<1> SUFFICES ASSUME NodesUnique(stream) PROVE EdgesPlaced'
  BY <1>1 DEF EdgesPlaced
<1>2. pass' \in {"ways", "done"} =>
        /\ EndNodes \/ WriteWay \/ EndWays \/ (SkipItem /\ pass = "ways")
        /\ UNCHANGED <<osmIdToMyNodeId, nodeCoordinates>>
  BY DEF Next, SkipItem, CollectWay, EndCollect, DeleteAvailable, EndAvailable, InvalidateWay,
     EndInvalidate, RefsWay, EndRefs, FetchNode, EndFetch, DegreeWay, EndDegree, WriteHeader,
     WriteNode, EndNodes, WriteWay, EndWays, WayPasses, NodePasses,
     AtWay, AtNode, AtEnd, Reading, Advance, Goto, fetched
<1> SUFFICES ASSUME pass' \in {"ways", "done"} PROVE EdgesPlaced'
  BY DEF EdgesPlaced
<1>3. ASSUME NEW k, At(k)
      PROVE  /\ pos' = k => EdgesAt(pos)'
             /\ Len(stream) = k => EdgesAt(Len(stream))'
  <2>1. \A id : /\ EdgesFrom(id, stream, wb, k)' = EdgesFrom(id, stream, wb, k)
               /\ EdgesInto(id, stream, wb, k)' = EdgesInto(id, stream, wb, k)
    BY <1>1, <1>2, NodeFixed
  <2>2. \A id \in 0..(Len(nodeCoordinates') - 1) :
           /\ Cardinality(SourcedAt(id, outEdges')) = Cardinality(EdgesFrom(id, stream, wb, k)')
           /\ Cardinality(TargetedAt(id, outEdges')) = Cardinality(EdgesInto(id, stream, wb, k)')
    BY <1>2, <1>3, <2>1
  <2>3. pos' = k => EdgesAt(pos)'
    BY <1>1, <2>2 DEF EdgesAt
  <2>4. Len(stream) = k => EdgesAt(Len(stream))'
    BY <1>1, <2>2 DEF EdgesAt
  <2> QED BY <2>3, <2>4
<1>4. CASE EndNodes
  <2>1. pass = "nodes" /\ pass' = "ways" /\ pos' = 0 /\ outEdges' = outEdges
    BY <1>4 DEF EndNodes, Goto, output
  <2>2. outEdges' = << >>
    BY <2>1 DEF EdgesWritten, AllNodesOut
  <2>3. \A id : SourcedAt(id, outEdges') = {} /\ TargetedAt(id, outEdges') = {}
    BY <2>2 DEF SourcedAt, TargetedAt
  <2>4. At(0)
    BY <1>1, <2>3, NodeStart, FS_EmptySet
  <2> QED BY <1>3, <2>1, <2>4 DEF EdgesPlaced
<1>5. CASE SkipItem /\ pass = "ways"
  <2>1. /\ pass' = "ways" /\ pos' = pos + 1 /\ Reading(pass) /\ ~ Accepted(item)
        /\ outEdges' = outEdges
    BY <1>5 DEF SkipItem, Reading, Advance, NodePasses, output
  <2>2. At(pos + 1)
    BY <1>5, <2>1, SkipCount, NodeSkip DEF EdgesPlaced, EdgesAt
  <2> QED BY <1>3, <2>1, <2>2 DEF EdgesPlaced
<1>6. CASE EndWays
  <2>1. pass = "ways" /\ pass' = "done" /\ pos = Len(stream) /\ outEdges' = outEdges
    BY <1>6 DEF EndWays, AtEnd, output
  <2>2. At(Len(stream))
    BY <2>1 DEF EdgesPlaced, EdgesAt
  <2> QED BY <1>3, <2>1, <2>2 DEF EdgesPlaced
<1>7. CASE WriteWay
  <2>1. /\ pass = "ways" /\ pass' = "ways" /\ pos' = pos + 1 /\ Reading(pass) /\ Accepted(item)
        /\ item.id \in invalidWays => outEdges' = outEdges
    BY <1>7 DEF WriteWay, AtWay, Reading, Advance
  <2>2. EdgesAt(pos)
    BY <2>1 DEF EdgesPlaced
  <2>3. At(pos + 1)
    <3>1. CASE item.id \in invalidWays
      <4>1. EdgesUpTo(stream, wb, pos + 1) = EdgesUpTo(stream, wb, pos)
        BY <2>1, <3>1, NextWay, CompleteWay, EdgesUpToStep
      <4>2. \A id : /\ EdgesFrom(id, stream, wb, pos + 1) = EdgesFrom(id, stream, wb, pos)
                   /\ EdgesInto(id, stream, wb, pos + 1) = EdgesInto(id, stream, wb, pos)
        BY <4>1, NodeSkip
      <4> QED BY <2>1, <2>2, <3>1, <4>2 DEF EdgesAt
    <3>2. CASE item.id \notin invalidWays
      BY <1>7, <2>2, <3>2, WriteWayPlaced
    <3> QED BY <3>1, <3>2
  <2> QED BY <1>3, <2>1, <2>3 DEF EdgesPlaced
<1> QED BY <1>2, <1>4, <1>5, <1>6, <1>7

(***************************************************************************)
(* The theorems.                                                           *)
(***************************************************************************)

\* A step that changes nothing keeps the invariants of this module.
LEMMA EdgesUnchanged ==
  ASSUME UNCHANGED vars
  PROVE  /\ EdgeCountInv => EdgeCountInv'
         /\ EdgesResolve => EdgesResolve'
<1>1. UNCHANGED <<stream, cmd, pass, pos, edgeCount, nodeCoordinates, header, outEdges>>
  BY DEF vars, input, scan, fetched, output
<1>2. \A k : EdgesUpTo(stream, cmd.withBounds, k)' = EdgesUpTo(stream, cmd.withBounds, k)
  BY <1>1, EdgesFixed
<1> QED BY <1>1, <1>2
    DEF EdgeCountInv, EdgesCounted, HeaderWritten, EdgesWritten, EdgesResolve, AllNodesOut

\* The counter, the header and the edge section count the same edges.
THEOREM EdgeCountInvariant == Spec => []EdgeCountInv
<1>1. Init => EdgeCountInv
  BY DEF Init, EdgeCountInv, EdgesCounted, HeaderWritten, EdgesWritten, MarkPasses, Writing,
     AllNodesOut
<1>2. GraphInv /\ EdgeCountInv /\ [Next]_vars => EdgeCountInv'
  BY EdgesCountedStep, HeaderWrittenStep, EdgesWrittenStep, EdgesUnchanged DEF EdgeCountInv
<1> QED BY <1>1, <1>2, GraphInvariant, PTL DEF Spec

\* Whatever is read, in whatever order and however often, the header that is
\* written first announces exactly the nodes and edges that follow it.
THEOREM HeaderMatches == Spec => []HeaderMatchesOutput
<1>1. GraphInv /\ EdgeCountInv => HeaderMatchesOutput
  <2> SUFFICES ASSUME GraphInv, EdgeCountInv, pass \in Writing
               PROVE  /\ Len(outNodes) <= header.nodeCount
                      /\ Len(outEdges) <= header.edgeCount
                      /\ pass = "done" => /\ Len(outNodes) = header.nodeCount
                                          /\ Len(outEdges) = header.edgeCount
    BY DEF HeaderMatchesOutput
  <2> DEFINE E(k) == EdgesUpTo(stream, cmd.withBounds, k)
  <2>1. /\ outNodes \in Seq([node : NodeRecords, coordinates : Locations])
        /\ nodeCoordinates \in Seq(Locations) /\ outEdges \in Seq(EdgeRecords)
        /\ stream \in Extracts /\ pos \in Nat /\ pass \in {"nodes", "ways", "done"}
    BY DEF GraphInv, TypeOK, SelectionInv, ScanOK, Writing
  <2>2. header = [nodeCount |-> Len(nodeCoordinates), edgeCount |-> edgeCount]
    BY DEF EdgeCountInv, HeaderWritten
  <2>3. /\ IsFiniteSet(E(Len(stream))) /\ edgeCount = Cardinality(E(Len(stream)))
        /\ edgeCount \in Nat
    BY <2>1, FS_CardinalityType DEF EdgeCountInv, EdgesCounted, MarkPasses
  <2>4. Len(outNodes) <= Len(nodeCoordinates)
    <3>1. \A i \in 1..Len(outNodes) : i \in 1..Len(nodeCoordinates)
      BY <2>1 DEF GraphInv, WrittenInv
    <3>2. Len(outNodes) \in Nat /\ Len(nodeCoordinates) \in Nat
      BY <2>1
    <3> QED BY <3>1, <3>2
  <2>5. Len(outEdges) <= edgeCount
    <3>1. CASE pass = "nodes"
      BY <2>3, <3>1 DEF EdgeCountInv, EdgesWritten, AllNodesOut
    <3>2. CASE pass = "ways"
      <4>1. E(pos) \in SUBSET E(Len(stream))
        BY <2>1, EdgesUpToStep
      <4> QED BY <2>3, <3>2, <4>1, FS_Subset DEF EdgeCountInv, EdgesWritten
    <3>3. CASE pass = "done"
      BY <2>3, <3>3 DEF EdgeCountInv, EdgesWritten
    <3> QED BY <2>1, <3>1, <3>2, <3>3
  <2>6. ASSUME pass = "done"
        PROVE  Len(outNodes) = Len(nodeCoordinates) /\ Len(outEdges) = edgeCount
    <3>1. DOMAIN outNodes = DOMAIN Records
      BY <2>6 DEF Records, AllNodesOut
    <3>2. Len(outNodes) = Len(nodeCoordinates)
      BY <2>1, <3>1 DEF GraphInv, IdsInv
    <3> QED BY <2>3, <2>6, <3>2 DEF EdgeCountInv, EdgesWritten
  <2> QED BY <2>2, <2>4, <2>5, <2>6
<1> QED BY <1>1, GraphInvariant, EdgeCountInvariant, PTL

\* If no node occurs twice, every edge joins nodes of the node section.
THEOREM EdgesAreResolved == Spec => []EdgesResolve
<1>1. Init => EdgesResolve
  BY DEF Init, EdgesResolve
<1>2. GraphInv /\ FetchInv /\ EdgeCountInv /\ EdgesResolve /\ [Next]_vars => EdgesResolve'
  BY ResolveStep, EdgesUnchanged
<1> QED BY <1>1, <1>2, GraphInvariant, FetchInvariant, EdgeCountInvariant, PTL DEF Spec

\* The degrees and the edge section count the same edges at every node.
THEOREM DegreeInvariant == Spec => []DegreeInv
<1>1. Init => DegreeInv
  BY DEF Init, DegreeInv, DegreesCounted, EdgesPlaced, Fetched
<1>2. GraphInv /\ GraphInv' /\ FetchInv /\ EdgeCountInv /\ DegreeInv /\ [Next]_vars => DegreeInv'
  <2> SUFFICES ASSUME GraphInv, GraphInv', FetchInv, EdgeCountInv, DegreeInv, [Next]_vars
               PROVE  DegreeInv'
    OBVIOUS
  <2>1. CASE Next
    BY <2>1, DegreesCountedStep, EdgesPlacedStep DEF EdgeCountInv, DegreeInv
  <2>2. CASE UNCHANGED vars
    <3>1. UNCHANGED <<stream, cmd, pass, pos, osmIdToMyNodeId, nodes, nodeCoordinates, outNodes, outEdges>>
      BY <2>2 DEF vars, input, scan, fetched, output
    <3>2. Records' = Records
      BY <3>1 DEF Records, AllNodesOut
    <3>3. DegreesCounted'
      BY <3>1, <3>2, NodeFixed DEF DegreeInv, DegreesCounted, DegreesAre
    <3>4. EdgesPlaced'
      BY <3>1, NodeFixed DEF DegreeInv, EdgesPlaced, EdgesAt
    <3> QED BY <3>3, <3>4 DEF DegreeInv
  <2> QED BY <2>1, <2>2
<1> QED BY <1>1, <1>2, GraphInvariant, FetchInvariant, EdgeCountInvariant, PTL DEF Spec

\* If no node occurs twice, the degrees in the node section are those of the
\* edge section, up to the width of the counters: the offset arrays that are
\* built from them have a slot for each edge.
THEOREM DegreesMatch == Spec => []DegreesMatchEdges
<1>1. GraphInv /\ DegreeInv => DegreesMatchEdges
  <2> SUFFICES ASSUME GraphInv, DegreeInv, pass = "done", cmd.graphType \in OffsetArrays,
                      NodesUnique(stream), NEW i \in DOMAIN outNodes
               PROVE  /\ outNodes[i].node.outdegree =
                            Cardinality({n \in DOMAIN outEdges : outEdges[n].source = i - 1})
                              % DegreeSpace
                      /\ outNodes[i].node.indegree =
                            Cardinality({n \in DOMAIN outEdges : outEdges[n].target = i - 1})
                              % DegreeSpace
    BY DEF DegreesMatchEdges
  <2>1. DOMAIN Records = DOMAIN outNodes /\ Records[i] = outNodes[i].node
    BY DEF Records, AllNodesOut
  <2>2. i - 1 \in 0..(Len(nodeCoordinates) - 1)
    <3>1. i \in 1..Len(nodeCoordinates) /\ Len(nodeCoordinates) \in Nat
      BY <2>1 DEF GraphInv, IdsInv, TypeOK
    <3> QED BY <3>1
  <2>3. /\ Records[i].outdegree =
             Cardinality(EdgesFrom(i - 1, stream, cmd.withBounds, Len(stream))) % DegreeSpace
        /\ Records[i].indegree =
             Cardinality(EdgesInto(i - 1, stream, cmd.withBounds, Len(stream))) % DegreeSpace
    BY <2>1 DEF DegreeInv, DegreesCounted, DegreesAre, Fetched
  <2>4. /\ Cardinality(SourcedAt(i - 1, outEdges))
             = Cardinality(EdgesFrom(i - 1, stream, cmd.withBounds, Len(stream)))
        /\ Cardinality(TargetedAt(i - 1, outEdges))
             = Cardinality(EdgesInto(i - 1, stream, cmd.withBounds, Len(stream)))
    BY <2>2 DEF DegreeInv, EdgesPlaced, EdgesAt
  <2> QED BY <2>1, <2>3, <2>4 DEF SourcedAt, TargetedAt
<1> QED BY <1>1, GraphInvariant, DegreeInvariant, PTL
=============================================================================
