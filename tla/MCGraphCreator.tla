--------------------------- MODULE MCGraphCreator ---------------------------
(***************************************************************************)
(* Small instances of the creator: extracts with up to three nodes, each   *)
(* of which may be missing or out of bounds, and up to two ways, in        *)
(* several orders and cut into blocks in several places.                   *)
(***************************************************************************)
EXTENDS GraphCreatorRefinement, GraphCreatorInvariants

CONSTANTS n1, n2, n3, n4, w1, w2, here, there

MCNodeIds == {n1, n2, n3}
MCWayIds == {w1, w2}
MCLocations == {here, there}
MCBounds == {here}
MCHighwayValues == {"motorway", "primary", "track"}
MCHwTagIds == [motorway |-> 1, primary |-> 2]

Node(n, l) == [kind |-> "node", id |-> n, loc |-> l]
Way(w, refs, highway, oneway) ==
  [kind |-> "way", id |-> w, refs |-> refs, highway |-> highway, oneway |-> oneway]

\* A street, a street that meets itself, a motorway, a motorway with two
\* carriageways, a one-way street; and what is not accepted.
WayPool ==
  {Way(w1, <<n1, n2>>, "primary", NoTag),
   Way(w1, <<n1, n2, n1>>, "primary", "-1"),
   Way(w2, <<n1, n1>>, "motorway", NoTag),
   Way(w2, <<n2, n3>>, "motorway", "no"),
   Way(w2, <<n3, n1, n2>>, "primary", "yes"),
   Way(w2, <<n1, n3>>, "track", NoTag),
   Way(w1, <<n2>>, "primary", NoTag)}

NodeLists ==
  {a \o b \o c : a \in {<< >>, <<Node(n1, here)>>},
                 b \in {<< >>, <<Node(n2, here)>>, <<Node(n2, there)>>},
                 c \in {<< >>, <<Node(n3, here)>>}}
WayLists == {<< >>} \cup {<<v>> : v \in WayPool} \cup {<<v, w>> : v, w \in WayPool}

Block == <<BlockItem>>

\* One extract: no node occurs twice.
SingleExtracts ==
  {Block \o ns \o ws : ns \in NodeLists, ws \in WayLists}
    \cup {Block \o ws \o Block \o ns : ns \in NodeLists, ws \in WayLists}
    \cup {Block \o <<v>> \o ns \o Block \o <<w>> : ns \in NodeLists, v, w \in WayPool}

\* More nodes than ids.
FourNodeIds == MCNodeIds \cup {n4}
LargeExtracts ==
  {Block \o ns \o <<Way(w1, refs, "primary", NoTag)>> :
     ns \in {<<Node(n1, here), Node(n2, l), Node(n3, here), Node(n4, here)>> : l \in MCLocations},
     refs \in {<<n1, n2, n3, n4>>, <<n4, n3, n1>>, <<n4, n1>>}}
RefinementExtracts == SingleExtracts \cup LargeExtracts

\* Two extracts that may share nodes and ways, the second one in two blocks.
Streets == {Way(w1, <<n1, n2, n1>>, "primary", "-1"), Way(w2, <<n2, n3>>, "motorway", "no"),
            Way(w2, <<n3, n1, n2>>, "primary", "yes")}
Present == {ns \in NodeLists : \A i \in DOMAIN ns : ns[i].loc = here}
TwoExtracts ==
  {Block \o ms \o <<v>> \o Block \o ns \o Block \o os \o <<w>> :
     ms, ns \in Present, os \in {<< >>, <<Node(n3, here)>>}, v, w \in Streets}

MCStreams == SingleExtracts \cup TwoExtracts

MCOptions == {o \in CommandLines : o.graphType # "GT_SSERIALIZE_LARGE_OFFSET_ARRAY"}
NoBounds == {o \in MCOptions : ~ o.withBounds}

\* The abstract creator is compared for the options that matter to it.
RefinementOptions == {o \in CommandLines : o.graphType = "GT_FMI_TEXT"}

=============================================================================
