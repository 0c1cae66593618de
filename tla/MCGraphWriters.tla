-------------------------- MODULE MCGraphWriters --------------------------
(* Three nodes and four edges, whose sources come in every order; the type  *)
(* of an edge is its place in the input, so that edges can be told apart.   *)
(* Two nodes and up to five edges, some of them equal, so that degrees      *)
(* reach DegreeSpace.  Edges one of whose ends is no node.  No nodes at     *)
(* all, and nodes without edges.                                            *)
EXTENDS GraphWriters

MCGraphs ==
  {[nodeCount |-> n, edges |-> [k \in 1..m |-> [source |-> f[k], target |-> (f[k] + k) % n,
                                                type |-> k]]] :
     n \in {3}, m \in {4}, f \in [1..4 -> 0..2]}
  \cup {[nodeCount |-> n, edges |-> [k \in 1..m |-> [source |-> f[k], target |-> n - 1,
                                                     type |-> k % 2]]] :
     n \in {2}, m \in 0..5, f \in [1..5 -> 0..1]}
  \cup {[nodeCount |-> 2, edges |-> << [source |-> x, target |-> y, type |-> 0] >>] :
     x, y \in 0..2}
  \cup {[nodeCount |-> 0, edges |-> << >>], [nodeCount |-> 6, edges |-> << >>]}

=============================================================================
