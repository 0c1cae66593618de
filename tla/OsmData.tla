------------------------------ MODULE OsmData ------------------------------
(***************************************************************************)
(* What the graph creator reads: an OpenStreetMap extract, as the osmpbf   *)
(* library hands it out block by block, and the meaning that the           *)
(* configuration file and the highway and oneway tags give to its ways.    *)
(*                                                                         *)
(* An extract is a finite sequence of items.  A "block" item stands for a  *)
(* successful call of PbiStream::parseNextBlock; the node and way items    *)
(* after it are the contents of that block.  Several input files are read  *)
(* as one extract, one file after the other.                               *)
(*                                                                         *)
(* The last section says which ways of an extract are complete and which   *)
(* nodes they need.  It does not come from the code: the properties of the *)
(* other modules are stated with it.                                       *)
(***************************************************************************)
EXTENDS Integers, Sequences, FiniteSets, Functions

CONSTANTS
  NodeIds,        \* OSM node ids (int64_t in the code)
  WayIds,         \* OSM way ids
  Locations,      \* the coordinates a node may have
  Bounds,         \* the locations inside the rectangle of option -b
  HighwayValues,  \* values of the highway tag
  HwTagIds        \* State::Configuration::hwTagIds: highway value -> edge type

ASSUME DataAssumption ==
  /\ IsFiniteSet(NodeIds)
  /\ Bounds \subseteq Locations
  /\ DOMAIN HwTagIds \subseteq HighwayValues
  /\ HwTagIds \in [DOMAIN HwTagIds -> Int]

NoTag == "absent"
OneWayValues == {NoTag, "yes", "true", "1", "no", "-1"}

BlockItem == [kind |-> "block"]
NodeItems == [kind : {"node"}, id : NodeIds, loc : Locations]
WayItems  == [kind : {"way"}, id : WayIds, refs : Seq(NodeIds),
              highway : HighwayValues \cup {NoTag}, oneway : OneWayValues]
Items     == {BlockItem} \cup NodeItems \cup WayItems

Extracts == {s \in Seq(Items) : s = << >> \/ s[1] = BlockItem}

-----------------------------------------------------------------------------
(* The tags of a way.                                                      *)

OneWayStatus == {"OW_YES", "OW_NO", "OW_IMPLICIT"}

\* Only these three spellings count as true; "-1" does not.
toBool(v) == v \in {"true", "yes", "1"}

Ows(w) == IF w.oneway = NoTag THEN "OW_IMPLICIT"
          ELSE IF toBool(w.oneway) THEN "OW_YES" ELSE "OW_NO"

\* The ways that WayParser hands to a processor: the highway value is
\* configured and there are at least two node references.
Accepted(x) == /\ x.kind = "way"
               /\ x.highway \in DOMAIN HwTagIds
               /\ Len(x.refs) > 1

HwType(w) == HwTagIds[w.highway]

\* Motorways are one-way streets unless they are tagged otherwise.  The set
\* holds edge types, not highway values: two values with one type share it.
implicitOneWay ==
  {HwTagIds[v] : v \in DOMAIN HwTagIds \cap {"motorway", "motorway_link"}}

isUndirectedEdge(ows, hwType) ==
  /\ ows # "OW_YES"
  /\ hwType \in implicitOneWay => ows = "OW_NO"

-----------------------------------------------------------------------------
(* The part of State::cmd that the passes depend on.                       *)

GraphTypes == {"GT_FMI_TEXT", "GT_SSERIALIZE_OFFSET_ARRAY",
               "GT_SSERIALIZE_LARGE_OFFSET_ARRAY"}
OffsetArrays == GraphTypes \ {"GT_FMI_TEXT"}

CommandLines ==
  [withBounds : BOOLEAN, addReverseEdges : BOOLEAN, graphType : GraphTypes]

-----------------------------------------------------------------------------
(* What an extract contains, for the statements of properties.             *)

RefSet(w) == {w.refs[k] : k \in DOMAIN w.refs}

NodeAt(s, i) == s[i].kind = "node"

\* A node that can be used: present, and inside the bounds if there are any.
UsableAt(s, withBounds, i) == NodeAt(s, i) /\ (withBounds => s[i].loc \in Bounds)

\* No node occurs twice, as in a single extract.  Extracts of neighbouring
\* regions that are read together share the nodes along their border.
NodesUnique(s) ==
  \A i, j \in DOMAIN s : NodeAt(s, i) /\ NodeAt(s, j) /\ s[i].id = s[j].id => i = j

Usable(s, withBounds) == {s[i].id : i \in {j \in DOMAIN s : UsableAt(s, withBounds, j)}}

AcceptedAt(s) == {i \in DOMAIN s : Accepted(s[i])}

\* The ids of the ways that lack a node.  The code drops ways by their id.
IncompleteIds(s, withBounds) ==
  {s[i].id : i \in {j \in AcceptedAt(s) : ~ RefSet(s[j]) \subseteq Usable(s, withBounds)}}

CompleteAt(s, withBounds) ==
  {i \in AcceptedAt(s) : s[i].id \notin IncompleteIds(s, withBounds)}

Needed(s, withBounds) == UNION {RefSet(s[i]) : i \in CompleteAt(s, withBounds)}

=============================================================================
