-------------------------- MODULE MCCCGraphWriter --------------------------
(* Small instances of CCGraphWriter: all graphs of three nodes with up to   *)
(* three edges, some of four with components that interleave, graphs with   *)
(* no edges, with repeated edges, and with an end that is no node.          *)
EXTENDS CCGraphWriterRefinement

E(a, b) == [source |-> a, target |-> b]
Pairs(n) == {E(a, b) : a, b \in 0..(n - 1)}
UpTo(S, n) == UNION {[1..m -> S] : m \in 0..n}
G(n, edges) == [nodeCount |-> n, edges |-> edges]

MCGraphs ==
  {G(3, es) : es \in UpTo(Pairs(3), 3)}
    \cup {G(n, << >>) : n \in 0..4}
    \cup {G(4, <<a, b, c>>) : a \in {E(0, 3), E(1, 0)}, b \in {E(2, 1), E(3, 3)},
                              c \in {E(2, 1), E(3, 2), E(0, 3)}}
    \cup {G(2, <<E(0, 2)>>), G(2, <<E(1, 0), E(0, 1), E(0, 1), E(1, 0)>>),
          G(5, << >>), G(1, <<E(0, 0), E(0, 0), E(0, 0), E(0, 0), E(0, 0)>>)}

F(mode, value) == [mode |-> mode, value |-> value]
MCFilters == {F("All", 0), F("MinSize", 2), F("TopK", 0), F("TopK", 1), F("TopK", 2)}

=============================================================================
