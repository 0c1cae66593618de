------------------------ MODULE ConnectedComponents ------------------------
(* The connected components of a graph [nodeCount, edges] and their order  *)
(* by size, without union-find.                                            *)
EXTENDS Integers, Sequences, FiniteSets

\* No edge leaves S.
Separate(g, S) ==
  \A k \in DOMAIN g.edges : g.edges[k].source \in S <=> g.edges[k].target \in S

\* The non-empty separate sets of nodes with no smaller such set inside.
ComponentsOf(g) ==
  LET separate == {S \in SUBSET (0..(g.nodeCount - 1)) : S # {} /\ Separate(g, S)}
  IN {S \in separate : \A T \in separate : T \subseteq S => T = S}

EdgesWithin(g, S) == {k \in DOMAIN g.edges : g.edges[k].source \in S}
SizeIn(g, S) == [nodes |-> Cardinality(S), edges |-> Cardinality(EdgesWithin(g, S))]
Bigger(a, b) == a.nodes > b.nodes \/ (a.nodes = b.nodes /\ a.edges > b.edges)

=============================================================================
