------------------------ MODULE CCGraphWriterProofs ------------------------
(***************************************************************************)
(* Theorems about CCGraphWriter.  What the cursors point to follows from   *)
(* two facts: in a sorted vector the elements below a bound come first,    *)
(* and there are as many nodes and edges below the next bound as the       *)
(* counts of the components say.                                           *)
(***************************************************************************)
EXTENDS CCGraphWriterInvariants, FiniteSetTheorems, FunctionTheorems, SequenceTheorems, TLAPS

(***************************************************************************)
(* Lists of finite sets.                                                   *)
(***************************************************************************)

LEMMA IntervalFinite ==
  ASSUME NEW n \in Nat
  PROVE  /\ IsFiniteSet(1..n) /\ Cardinality(1..n) = n
         /\ IsFiniteSet(0..(n - 1)) /\ Cardinality(0..(n - 1)) = n
<1>1. IsFiniteSet(1..n) /\ Cardinality(1..n) = IF 1 > n THEN 0 ELSE n - 1 + 1
  BY FS_Interval
<1>2. IsFiniteSet(0..(n - 1)) /\ Cardinality(0..(n - 1)) = IF 0 > n - 1 THEN 0 ELSE n - 1 - 0 + 1
  BY FS_Interval
<1> QED BY <1>1, <1>2

\* If with each number of an interval all lower ones are in a set, then the set
\* begins the interval.
LEMMA PrefixSet ==
  ASSUME NEW n \in Nat, NEW P \in SUBSET (1..n),
         \A j, k \in 1..n : j < k /\ k \in P => j \in P
  PROVE  \A p \in 1..n : p \in P <=> p <= Cardinality(P)
<1>0. IsFiniteSet(P) /\ Cardinality(P) \in Nat
  BY IntervalFinite, FS_Subset, FS_CardinalityType
<1>1. ASSUME NEW p \in P PROVE p <= Cardinality(P)
  <2>1. 1..p \subseteq P
    OBVIOUS
  <2>2. Cardinality(1..p) = p
    BY IntervalFinite
  <2> QED BY <1>0, <2>1, <2>2, FS_Subset
<1>2. ASSUME NEW p \in 1..n, p \notin P PROVE p > Cardinality(P)
  <2>1. P \subseteq 1..(p - 1)
    BY <1>2
  <2>2. IsFiniteSet(1..(p - 1)) /\ Cardinality(1..(p - 1)) = p - 1
    BY IntervalFinite
  <2>3. Cardinality(P) <= p - 1
    BY <2>1, <2>2, FS_Subset
  <2> QED BY <1>0, <2>3
<1> QED BY <1>0, <1>1, <1>2

\* A sequence of SetToSeqs has each element once.
LEMMA SeqsAreLists ==
  ASSUME NEW S, IsFiniteSet(S), NEW s \in SetToSeqs(S)
  PROVE  Lists(s, S) /\ s \in [1..Cardinality(S) -> S] /\ Cardinality(S) \in Nat
<1>1. Cardinality(S) \in Nat
  BY FS_CardinalityType
<1>2. s \in [1..Cardinality(S) -> S] /\ \A i, j \in 1..Cardinality(S) : i # j => s[i] # s[j]
  BY DEF SetToSeqs
<1>3. s \in Injection(1..Cardinality(S), S)
  BY <1>2 DEF Injection, IsInjective
<1>4. s \in Surjection(1..Cardinality(S), S)
  <2>1. Cardinality(1..Cardinality(S)) = Cardinality(S)
    BY <1>1, IntervalFinite
  <2> QED BY <1>3, <2>1, FS_Injection
<1>5. \A x \in S : \E n \in DOMAIN s : s[n] = x
  BY <1>2, <1>4 DEF Surjection
<1> QED BY <1>1, <1>2, <1>5 DEF Lists

\* The elements of a set that comes first in a list are the first elements.
LEMMA ListPrefix ==
  ASSUME NEW S, IsFiniteSet(S), NEW s, Lists(s, S), NEW L \in SUBSET S,
         \A j, k \in DOMAIN s : j < k /\ s[k] \in L => s[j] \in L
  PROVE  /\ Cardinality(L) \in 0..Cardinality(S)
         /\ \A p \in DOMAIN s : s[p] \in L <=> p <= Cardinality(L)
<1> DEFINE P == {p \in DOMAIN s : s[p] \in L}
<1>1. Cardinality(S) \in Nat /\ DOMAIN s = 1..Cardinality(S)
  BY FS_CardinalityType DEF Lists
<1>2. IsFiniteSet(L) /\ Cardinality(L) \in Nat /\ Cardinality(L) <= Cardinality(S)
  BY FS_Subset, FS_CardinalityType
<1>3. IsFiniteSet(P)
  BY <1>1, IntervalFinite, FS_Subset
<1>4. Cardinality(L) = Cardinality(P)
  <2> DEFINE f == [p \in P |-> s[p]]
  <2>1. f \in [P -> L]
    OBVIOUS
  <2>2. \A a, b \in P : f[a] = f[b] => a = b
    BY DEF Lists
  <2>3. \A x \in L : \E a \in P : f[a] = x
    BY DEF Lists
  <2>4. f \in Bijection(P, L)
    BY <2>1, <2>2, <2>3 DEF Bijection, Injection, Surjection, IsInjective
  <2> QED BY <1>3, <2>4, FS_Bijection DEF ExistsBijection
<1>5. \A p \in 1..Cardinality(S) : p \in P <=> p <= Cardinality(P)
  <2>1. \A j, k \in 1..Cardinality(S) : j < k /\ k \in P => j \in P
    BY <1>1
  <2>2. P \in SUBSET (1..Cardinality(S))
    BY <1>1
  <2> HIDE DEF P
  <2> QED BY <1>1, <2>1, <2>2, PrefixSet
<1> QED BY <1>1, <1>2, <1>4, <1>5

(***************************************************************************)
(* The input and what is collected of it.                                  *)
(***************************************************************************)

LEMMA GraphType ==
  ASSUME graph \in Graphs
  PROVE  graph.nodeCount \in Nat /\ graph.edges \in Seq(EdgeRecords) /\ Len(graph.edges) \in Nat
<1>1. graph \in [nodeCount : Nat, edges : Seq(EdgeRecords)]
  BY WriterAssumption DEF EdgeRecords
<1> QED BY <1>1

\* The state whose other parts do not matter for what has been collected.
LEMMA CollectStep == CollectInv /\ [Next]_vars => CollectInv'
<1> SUFFICES ASSUME CollectInv, [Next]_vars PROVE CollectInv'
  OBVIOUS
<1>1. /\ graph \in Graphs /\ graph.nodeCount \in Nat /\ graph.edges \in Seq(EdgeRecords)
      /\ Len(graph.edges) \in Nat /\ DOMAIN graph.edges = 1..Len(graph.edges)
      /\ m_edges \in Seq(EdgeRecords) /\ Len(m_edges) \in Nat /\ Edges = 1..Len(m_edges)
  BY GraphType DEF CollectInv, Edges
<1>2. CASE WriteHeader
  BY <1>2 DEF CollectInv, WriteHeader, collected, Split, Collected, Edges
<1>3. CASE WriteNode
  <2>1. files' = files /\ phase' = phase /\ phase = "collect" /\ files = Empty
    BY <1>3 DEF WriteNode, CollectInv, cursors
  <2> QED BY <1>1, <1>3, <2>1 DEF CollectInv, WriteNode, Split, Collected, Edges
<1>4. CASE WriteEdge
  <2>1. files' = files /\ phase' = phase /\ phase = "collect" /\ files = Empty
    BY <1>4 DEF WriteEdge, CollectInv, cursors
  <2>2. graph.edges[Len(m_edges) + 1] \in EdgeRecords
    BY <1>1, <1>4, ElementOfSeq DEF WriteEdge
  <2>3. /\ m_edges' \in Seq(EdgeRecords) /\ Len(m_edges') = Len(m_edges) + 1
        /\ \A k \in 1..Len(m_edges) : m_edges'[k] = m_edges[k]
        /\ m_edges'[Len(m_edges) + 1] = graph.edges[Len(m_edges) + 1]
    BY <1>1, <1>4, <2>2 DEF WriteEdge
  <2>4. \A k \in 1..(Len(m_edges) + 1) : m_edges'[k] = graph.edges[k]
    BY <1>1, <2>3 DEF CollectInv
  <2> QED BY <1>1, <1>4, <2>1, <2>3, <2>4 DEF CollectInv, WriteEdge, Split, Collected, Edges
<1>5. CASE EndGraph
  <2>1. m_edges = graph.edges
    <3>1. \A k \in 1..Len(m_edges) : m_edges[k] = graph.edges[k]
      BY <1>1 DEF CollectInv
    <3>2. Len(m_edges) = Len(graph.edges)
      BY <1>5 DEF EndGraph
    <3> QED BY <1>1, <3>1, <3>2, SeqEqual
  <2> QED BY <1>5, <2>1 DEF CollectInv, EndGraph, collected, cursors, Split, Collected, Edges
<1>6. CASE Unite
  BY <1>6 DEF CollectInv, Unite, collected, cursors, Split, Collected, Edges
<1>7. CASE SortByRep
  BY <1>7 DEF CollectInv, SortByRep, collected, cursors, Split, Collected, Edges
<1>8. CASE ChooseComponents
  BY <1>8 DEF CollectInv, ChooseComponents, collected, cursors, Split, Collected, Edges
<1>9. CASE SkipComponent
  BY <1>9 DEF CollectInv, SkipComponent, collected, Split, Collected, Edges
<1>10. CASE OpenComponent
  BY <1>10 DEF CollectInv, OpenComponent, collected, Split, Collected, Edges
<1>11. CASE PutNode \/ EndNodes \/ PutEdge \/ CloseComponent \/ Finish
  BY <1>11 DEF CollectInv, PutNode, EndNodes, PutEdge, CloseComponent, Finish, collected, Split,
     Collected, Edges
<1>12. CASE UNCHANGED vars
  BY <1>12 DEF CollectInv, vars, collected, Split, Collected, Edges
<1> QED BY <1>2, <1>3, <1>4, <1>5, <1>6, <1>7, <1>8, <1>9, <1>10, <1>11, <1>12 DEF Next

LEMMA CollectInit == Init => CollectInv
<1> SUFFICES ASSUME Init PROVE CollectInv
  OBVIOUS
<1>1. graph.nodeCount \in Nat /\ graph.edges \in Seq(EdgeRecords) /\ Len(graph.edges) \in Nat
  BY GraphType DEF Init
<1> QED BY <1>1 DEF Init, CollectInv, Split, Edges

\* How the numbers of nodes and edges are typed, and when they are complete.
LEMMA Sizes ==
  ASSUME CollectInv
  PROVE  /\ m_nodes \in Nat /\ m_edges \in Seq(EdgeRecords) /\ Len(m_edges) \in Nat
         /\ Nodes = 0..(m_nodes - 1) /\ Edges = 1..Len(m_edges)
         /\ IsFiniteSet(Nodes) /\ Cardinality(Nodes) = m_nodes
         /\ IsFiniteSet(Edges) /\ Cardinality(Edges) = Len(m_edges)
         /\ \A k \in Edges : EdgeAt(k).source \in Nat /\ EdgeAt(k).target \in Nat
<1>1. /\ m_nodes \in Nat /\ m_edges \in Seq(EdgeRecords) /\ Len(m_edges) \in Nat
      /\ Nodes = 0..(m_nodes - 1) /\ Edges = 1..Len(m_edges)
  BY GraphType DEF CollectInv, Nodes, Edges
<1>2. \A k \in Edges : m_edges[k] \in EdgeRecords
  BY <1>1, ElementOfSeq
<1>3. \A k \in Edges : EdgeAt(k).source \in Nat /\ EdgeAt(k).target \in Nat
  BY <1>2 DEF EdgeAt, EdgeRecords
<1> QED BY <1>1, <1>3, IntervalFinite

(***************************************************************************)
(* The sets.                                                               *)
(***************************************************************************)

LEMMA UniteInit == Init => UniteInv
BY DEF Init, UniteInv, Split, Empty, Nodes

LEMMA UniteStep == CollectInv /\ UniteInv /\ [Next]_vars => UniteInv'
<1> SUFFICES ASSUME CollectInv, UniteInv, [Next]_vars PROVE UniteInv'
  OBVIOUS
<1>1. /\ m_nodes \in Nat /\ m_edges \in Seq(EdgeRecords) /\ Len(m_edges) \in Nat
      /\ Edges = 1..Len(m_edges) /\ Nodes = 0..(m_nodes - 1)
  BY Sizes
<1>2. CASE WriteHeader
  BY <1>2 DEF UniteInv, WriteHeader, collected, sets, cursors, Split, Nodes, SeparateUpTo, EdgeAt, CollectInv
<1>3. CASE WriteNode
  <2>1. files' = files /\ phase' = phase /\ phase = "collect" /\ files = Empty
    BY <1>3 DEF WriteNode, CollectInv, cursors
  <2>2. united' = united /\ united = 0 /\ rep' = rep /\ rep = Empty /\ m_edges' = m_edges
    BY <1>3, <2>1 DEF UniteInv, WriteNode, sets
  <2>3. Empty \in [{} -> Nodes'] /\ DOMAIN Empty = {}
    BY DEF Empty
  <2>4. DOMAIN rep' = {} /\ rep' \in [{} -> Nodes']
    BY <2>2, <2>3
  <2>5. Empty' = Empty
    BY DEF Empty
  <2> QED BY <1>1, <2>1, <2>2, <2>4, <2>5 DEF UniteInv, Split
<1>4. CASE WriteEdge
  <2>1. files' = files /\ phase' = phase /\ phase = "collect" /\ files = Empty
    BY <1>4 DEF WriteEdge, CollectInv, cursors
  <2>2. Len(m_edges') \in Nat
    BY <1>1, <1>4 DEF WriteEdge
  <2> QED BY <1>1, <1>4, <2>1, <2>2 DEF UniteInv, WriteEdge, sets, Split, Nodes, Empty
<1>5. CASE EndGraph
  <2>1. m_nodes' = m_nodes /\ m_edges' = m_edges /\ united' = united /\ united = 0 /\ files' = files /\ files = Empty
    BY <1>5 DEF EndGraph, collected, UniteInv, CollectInv, cursors
  <2>2. CASE phase' = "unite"
    <3>1. rep' = [i \in Nodes |-> i]
      BY <1>5, <2>2 DEF EndGraph
    <3>2. DOMAIN rep' = Nodes' /\ rep' \in [Nodes' -> Nodes'] /\ \A i \in Nodes' : rep'[i] = i
      BY <2>1, <3>1 DEF Nodes
    <3>3. 1..united' = {} /\ united' \in 0..Len(m_edges')
      BY <1>1, <2>1
    <3>4. \A T \in SUBSET Nodes' : \A i, j \in Nodes' : rep'[i] = rep'[j] /\ i \in T => j \in T
      BY <3>2
    <3> QED BY <2>2, <3>2, <3>3, <3>4, <2>1 DEF UniteInv, Split
  <2>3. CASE phase' = "aborted" /\ rep' = rep
    BY <1>1, <2>1, <2>3 DEF UniteInv, Split, Nodes
  <2> QED BY <1>5, <2>2, <2>3 DEF EndGraph
<1>6. CASE Unite
  <2>1. /\ m_nodes' = m_nodes /\ m_edges' = m_edges /\ files' = files /\ files = Empty /\ phase = "unite"
        /\ united < Len(m_edges) /\ Nodes' = Nodes
    BY <1>6 DEF Unite, collected, UniteInv, CollectInv, cursors, Nodes
  <2>2. DOMAIN rep = Nodes /\ rep \in [Nodes -> Nodes] /\ united \in 0..Len(m_edges)
    BY <2>1 DEF UniteInv
  <2>3. CASE phase' = "aborted" /\ UNCHANGED sets
    BY <1>1, <2>1, <2>3 DEF UniteInv, Split, Nodes, sets
  <2>4. ASSUME NEW r,
               {EdgeAt(united + 1).source, EdgeAt(united + 1).target} \subseteq Nodes,
               r \in {rep[EdgeAt(united + 1).source], rep[EdgeAt(united + 1).target]},
               rep' = [i \in Nodes |-> IF rep[i] \in {rep[EdgeAt(united + 1).source], rep[EdgeAt(united + 1).target]}
                                       THEN r ELSE rep[i]],
               united' = united + 1, phase' = phase
        PROVE  UniteInv'
    <3> DEFINE a == EdgeAt(united + 1).source
               b == EdgeAt(united + 1).target
    <3>1. a \in Nodes /\ b \in Nodes /\ r \in {rep[a], rep[b]} /\ r \in Nodes
      BY <2>2, <2>4
    <3>2. rep' \in [Nodes -> Nodes] /\ \A i \in Nodes : rep'[i] = IF rep[i] \in {rep[a], rep[b]} THEN r ELSE rep[i]
      BY <2>2, <2>4, <3>1
    <3>3. \A k \in 1..(united + 1) : /\ EdgeAt(k).source \in Nodes /\ EdgeAt(k).target \in Nodes
                                     /\ rep'[EdgeAt(k).source] = rep'[EdgeAt(k).target]
      <4> SUFFICES ASSUME NEW k \in 1..(united + 1)
                   PROVE  /\ EdgeAt(k).source \in Nodes /\ EdgeAt(k).target \in Nodes
                          /\ rep'[EdgeAt(k).source] = rep'[EdgeAt(k).target]
        OBVIOUS
      <4>1. CASE k = united + 1
        BY <3>1, <3>2, <4>1
      <4>2. CASE k \in 1..united
        BY <2>1, <3>2, <4>2 DEF UniteInv
      <4> QED BY <2>2, <4>1, <4>2
    <3>4. ASSUME NEW T \in SUBSET Nodes, SeparateUpTo(united + 1, T),
                 NEW i \in Nodes, NEW j \in Nodes, rep'[i] = rep'[j], i \in T
          PROVE  j \in T
      <4>1. SeparateUpTo(united, T) /\ (a \in T <=> b \in T)
        BY <2>2, <3>4 DEF SeparateUpTo
      <4>2. \A x, y \in Nodes : rep[x] = rep[y] /\ x \in T => y \in T
        BY <2>1, <4>1 DEF UniteInv
      <4>3. CASE rep[i] \in {rep[a], rep[b]}
        <5>1. rep[j] \in {rep[a], rep[b]}
          BY <3>1, <3>2, <3>4, <4>3
        <5>2. a \in T /\ b \in T
          BY <3>1, <3>4, <4>1, <4>2, <4>3
        <5> QED BY <3>1, <4>2, <5>1, <5>2
      <4>4. CASE rep[i] \notin {rep[a], rep[b]}
        <5>1. rep[j] = rep[i]
          BY <3>1, <3>2, <3>4, <4>4
        <5> QED BY <3>4, <4>2, <5>1
      <4> QED BY <4>3, <4>4
    <3>5. \A k : EdgeAt(k)' = EdgeAt(k)
      BY <2>1 DEF EdgeAt
    <3>6. \A T \in SUBSET Nodes : SeparateUpTo(united, T)' => SeparateUpTo(united + 1, T)
      BY <2>4, <3>5 DEF SeparateUpTo
    <3> HIDE DEF a, b
    <3>7. united' \in 0..Len(m_edges')
      BY <1>1, <2>1, <2>2, <2>4
    <3>8. \A k \in 1..united' : /\ EdgeAt(k)'.source \in Nodes' /\ EdgeAt(k)'.target \in Nodes'
                                /\ rep'[EdgeAt(k)'.source] = rep'[EdgeAt(k)'.target]
      BY <2>1, <2>4, <3>3, <3>5
    <3>9. \A T \in SUBSET Nodes' : SeparateUpTo(united, T)' =>
            \A i, j \in Nodes' : rep'[i] = rep'[j] /\ i \in T => j \in T
      BY <2>1, <3>4, <3>6
    <3> QED BY <2>1, <2>4, <3>2, <3>7, <3>8, <3>9 DEF UniteInv, Split
  <2> QED BY <1>6, <2>3, <2>4 DEF Unite, EdgeAt
<1>7. CASE SortByRep
  BY <1>7 DEF UniteInv, CollectInv, SortByRep, collected, sets, cursors, Split, Nodes, SeparateUpTo, EdgeAt
<1>8. CASE ChooseComponents
  BY <1>8 DEF UniteInv, CollectInv, ChooseComponents, collected, sets, cursors, Split, Nodes, SeparateUpTo, EdgeAt
<1>9. CASE \/ SkipComponent \/ OpenComponent \/ PutNode \/ EndNodes \/ PutEdge \/ CloseComponent
           \/ Finish \/ UNCHANGED vars
  <2>1. /\ UNCHANGED <<collected, sets>> /\ (Split' => Split) /\ phase' \notin {"header", "collect", "unite", "filter"}
        \/ UNCHANGED vars
    BY <1>9 DEF SkipComponent, OpenComponent, PutNode, EndNodes, PutEdge, CloseComponent, Finish, Split
  <2>2. UNCHANGED <<collected, sets>> /\ (Split' => Split) /\
          (phase' = phase \/ phase' \notin {"header", "collect", "unite", "filter"})
    BY <2>1 DEF vars, Split
  <2> QED BY <2>2 DEF UniteInv, collected, sets, Nodes, SeparateUpTo, EdgeAt
<1> QED BY <1>2, <1>3, <1>4, <1>5, <1>6, <1>7, <1>8, <1>9 DEF Next

(***************************************************************************)
(* The counts and the sorted vectors.                                      *)
(***************************************************************************)

\* The representatives are nodes, and their counts are numbers.
LEMMA CountsType ==
  ASSUME CollectInv, UniteInv, DOMAIN rep = Nodes
  PROVE  /\ rep \in [Nodes -> Nodes] /\ Reps \in SUBSET Nodes
         /\ IsFiniteSet(Reps) /\ Cardinality(Reps) \in Nat
         /\ \A r : /\ IsFiniteSet(NodesOf(r)) /\ Cardinality(NodesOf(r)) \in Nat
                   /\ IsFiniteSet(EdgesOf(r)) /\ Cardinality(EdgesOf(r)) \in Nat
         /\ Counts \in [Reps -> [nodes : Nat, edges : Nat]]
<1>1. rep \in [Nodes -> Nodes] /\ Reps \in SUBSET Nodes
  BY DEF UniteInv, Reps
<1>2. IsFiniteSet(Reps) /\ Cardinality(Reps) \in Nat
  BY <1>1, Sizes, FS_Subset, FS_CardinalityType
<1>3. ASSUME NEW r
      PROVE  /\ IsFiniteSet(NodesOf(r)) /\ Cardinality(NodesOf(r)) \in Nat
             /\ IsFiniteSet(EdgesOf(r)) /\ Cardinality(EdgesOf(r)) \in Nat
  <2>1. NodesOf(r) \in SUBSET Nodes /\ EdgesOf(r) \in SUBSET Edges
    BY DEF NodesOf, EdgesOf, Edges
  <2> QED BY <2>1, Sizes, FS_Subset, FS_CardinalityType
<1>4. Counts \in [Reps -> [nodes : Nat, edges : Nat]]
  BY <1>3 DEF Counts
<1> QED BY <1>1, <1>2, <1>3, <1>4

LEMMA SortedInit == Init => SortedInv
<1> SUFFICES ASSUME Init PROVE SortedInv
  OBVIOUS
<1>1. Empty \in [{} -> [nodes : Nat, edges : Nat]] /\ DOMAIN Empty = {}
  BY DEF Empty
<1>2. cch = Empty
  BY DEF Init
<1>3. cch \in [DOMAIN cch -> [nodes : Nat, edges : Nat]]
  BY <1>1, <1>2
<1> QED BY <1>3 DEF Init, SortedInv, Split

LEMMA SortedStep == CollectInv /\ UniteInv /\ SortedInv /\ [Next]_vars => SortedInv'
<1> SUFFICES ASSUME CollectInv, UniteInv, SortedInv, [Next]_vars PROVE SortedInv'
  OBVIOUS
<1>1. CASE \/ WriteHeader \/ WriteNode \/ WriteEdge \/ EndGraph \/ Unite
  <2>1. cch' = cch /\ files' = files /\ files = Empty /\ phase' \in {"collect", "unite", "aborted"}
    BY <1>1 DEF CollectInv, WriteHeader, WriteNode, WriteEdge, EndGraph, Unite, sorted, Split, cursors
  <2>2. Empty' = Empty
    BY DEF Empty
  <2> QED BY <2>1, <2>2 DEF SortedInv, Split
<1>2. CASE SortByRep
  <2>1. /\ phase = "unite" /\ DOMAIN rep = Nodes /\ files' = files /\ files = Empty /\ cch' = Counts
        /\ UNCHANGED <<m_nodes, m_edges, rep>>
    BY <1>2 DEF SortByRep, UniteInv, CollectInv, collected, sets, cursors
  <2>2. Nodes' = Nodes /\ Edges' = Edges /\ Counts' = Counts /\ Empty' = Empty
    BY <2>1 DEF Nodes, Edges, Counts, Reps, NodesOf, EdgesOf, Empty
  <2>3. cch' \in [DOMAIN cch' -> [nodes : Nat, edges : Nat]]
    <3>1. Counts \in [Reps -> [nodes : Nat, edges : Nat]]
      BY <2>1, CountsType
    <3>2. DOMAIN Counts = Reps
      BY <3>1
    <3> QED BY <2>1, <3>1, <3>2
  <2>4. CASE phase' = "aborted"
    BY <2>1, <2>2, <2>3, <2>4 DEF SortedInv, Split
  <2>5. CASE phase' = "filter" /\ edgesSortedByRep' \in EdgeOrders
    <3>1. nodesSortedByRep' \in NodeOrders
      BY <1>2 DEF SortByRep
    <3>2. PICK ns \in NodeOrders : nodesSortedByRep' = ns
      BY <3>1
    <3>3. PICK es \in EdgeOrders : edgesSortedByRep' = es
      BY <2>5
    <3>4. Lists(ns, Nodes) /\ Lists(es, Edges)
      BY SeqsAreLists, Sizes DEF NodeOrders, EdgeOrders, Edges
    <3>5. \A j, k \in DOMAIN ns : j < k => OrderNodes(ns[j], ns[k])
      BY DEF NodeOrders
    <3>6. \A j, k \in DOMAIN es : j < k => ~OrderEdges(es[k], es[j])
      BY DEF EdgeOrders
    <3>7. \A a, b : (OrderNodes(a, b)' <=> OrderNodes(a, b)) /\ (OrderEdges(a, b)' <=> OrderEdges(a, b))
      BY <2>1 DEF OrderNodes, OrderEdges
    <3>8. Lists(nodesSortedByRep', Nodes') /\ Lists(edgesSortedByRep', Edges')
      BY <2>2, <3>2, <3>3, <3>4
    <3>9. \A j, k \in DOMAIN nodesSortedByRep' : j < k => OrderNodes(nodesSortedByRep[j], nodesSortedByRep[k])'
      BY <3>2, <3>5, <2>1 DEF OrderNodes
    <3>10. \A j, k \in DOMAIN edgesSortedByRep' : j < k => ~OrderEdges(edgesSortedByRep[k], edgesSortedByRep[j])'
      BY <3>3, <3>6, <2>1 DEF OrderEdges
    <3> QED BY <2>1, <2>2, <2>3, <3>8, <3>9, <3>10 DEF SortedInv, Lists
  <2> QED BY <1>2, <2>4, <2>5 DEF SortByRep
<1>3. CASE \/ ChooseComponents \/ SkipComponent \/ OpenComponent \/ PutNode \/ EndNodes \/ PutEdge
           \/ CloseComponent \/ Finish \/ UNCHANGED vars
  <2>1. UNCHANGED <<m_nodes, m_edges, rep, cch, nodesSortedByRep, edgesSortedByRep>>
    BY <1>3 DEF ChooseComponents, SkipComponent, OpenComponent, PutNode, EndNodes, PutEdge,
       CloseComponent, Finish, vars, collected, sets, sorted
  <2>2. phase' = "filter" \/ Split' => phase = "filter" \/ Split
    BY <1>3 DEF ChooseComponents, SkipComponent, OpenComponent, PutNode, EndNodes, PutEdge,
       CloseComponent, Finish, vars, Split, cursors, Empty
  <2>3. Nodes' = Nodes /\ Edges' = Edges /\ Counts' = Counts
    BY <2>1 DEF Nodes, Edges, Counts, Reps, NodesOf, EdgesOf
  <2> QED BY <2>1, <2>2, <2>3 DEF SortedInv, Lists, OrderNodes, OrderEdges
<1> QED BY <1>1, <1>2, <1>3 DEF Next

Sorted == CollectInv /\ UniteInv /\ SortedInv /\ (phase = "filter" \/ Split)

\* What all later proofs use of these invariants.
LEMMA SortedFacts ==
  ASSUME Sorted
  PROVE  /\ rep \in [Nodes -> Nodes] /\ Reps \in SUBSET Nodes /\ IsFiniteSet(Reps)
         /\ DOMAIN cch = Reps
         /\ \A r \in Reps :
              /\ cch[r] \in [nodes : Nat, edges : Nat]
              /\ cch[r].nodes = Cardinality(NodesOf(r)) /\ cch[r].edges = Cardinality(EdgesOf(r))
              /\ cch[r].nodes \in Nat \ {0} /\ cch[r].edges \in Nat
         /\ \A k \in Edges : /\ EdgeAt(k).source \in Nodes /\ EdgeAt(k).target \in Nodes
                             /\ rep[EdgeAt(k).source] = rep[EdgeAt(k).target]
                             /\ rep[EdgeAt(k).source] \in Reps
         /\ DOMAIN nodesSortedByRep = 1..m_nodes /\ DOMAIN edgesSortedByRep = 1..Len(m_edges)
         /\ \A p \in 1..m_nodes : nodesSortedByRep[p] \in Nodes
         /\ \A p \in 1..Len(m_edges) : edgesSortedByRep[p] \in Edges
<1>1. DOMAIN rep = Nodes /\ united = Len(m_edges)
  BY DEF Sorted, UniteInv
<1>2. rep \in [Nodes -> Nodes] /\ Reps \in SUBSET Nodes /\ IsFiniteSet(Reps)
  BY <1>1, CountsType DEF Sorted
<1>3. cch = Counts /\ DOMAIN Counts = Reps
  BY DEF Sorted, SortedInv, Counts
<1>4. ASSUME NEW r \in Reps
      PROVE  /\ cch[r] \in [nodes : Nat, edges : Nat]
             /\ cch[r].nodes = Cardinality(NodesOf(r)) /\ cch[r].edges = Cardinality(EdgesOf(r))
             /\ cch[r].nodes \in Nat \ {0} /\ cch[r].edges \in Nat
  <2>1. /\ IsFiniteSet(NodesOf(r)) /\ Cardinality(NodesOf(r)) \in Nat /\ Cardinality(EdgesOf(r)) \in Nat
    BY <1>1, CountsType DEF Sorted
  <2>2. cch[r] = [nodes |-> Cardinality(NodesOf(r)), edges |-> Cardinality(EdgesOf(r))]
    BY <1>3 DEF Counts
  <2>3. NodesOf(r) # {}
    BY DEF Reps, NodesOf
  <2>4. Cardinality(NodesOf(r)) # 0
    BY <2>1, <2>3, FS_EmptySet
  <2> QED BY <2>1, <2>2, <2>4
<1>5. \A k \in Edges : /\ EdgeAt(k).source \in Nodes /\ EdgeAt(k).target \in Nodes
                       /\ rep[EdgeAt(k).source] = rep[EdgeAt(k).target]
                       /\ rep[EdgeAt(k).source] \in Reps
  <2>1. Edges = 1..united
    BY <1>1, Sizes DEF Sorted
  <2> QED BY <2>1 DEF Sorted, UniteInv, Reps
<1>6. Lists(nodesSortedByRep, Nodes) /\ Lists(edgesSortedByRep, Edges)
  BY DEF Sorted, SortedInv
<1>7. Cardinality(Nodes) = m_nodes /\ Cardinality(Edges) = Len(m_edges)
  BY Sizes DEF Sorted
<1>8. /\ DOMAIN nodesSortedByRep = 1..m_nodes /\ DOMAIN edgesSortedByRep = 1..Len(m_edges)
      /\ \A p \in 1..m_nodes : nodesSortedByRep[p] \in Nodes
      /\ \A p \in 1..Len(m_edges) : edgesSortedByRep[p] \in Edges
  BY <1>6, <1>7 DEF Lists
<1> QED BY <1>2, <1>3, <1>4, <1>5, <1>8

(***************************************************************************)
(* The block of a component in the sorted vectors.                         *)
(***************************************************************************)

\* The nodes, and the edges, below a bound come first.
LEMMA NodePrefix ==
  ASSUME Sorted, NEW b \in Nat
  PROVE  /\ Cardinality(LowNodes(b)) \in 0..m_nodes
         /\ \A p \in 1..m_nodes : rep[nodesSortedByRep[p]] < b <=> p <= Cardinality(LowNodes(b))
<1>1. Lists(nodesSortedByRep, Nodes) /\ LowNodes(b) \in SUBSET Nodes
  BY DEF Sorted, SortedInv, LowNodes
<1>2. /\ IsFiniteSet(Nodes) /\ Cardinality(Nodes) = m_nodes /\ Nodes \in SUBSET Nat
      /\ DOMAIN nodesSortedByRep = 1..m_nodes
      /\ rep \in [Nodes -> Nodes] /\ \A p \in 1..m_nodes : nodesSortedByRep[p] \in Nodes
  BY Sizes, SortedFacts DEF Sorted
<1>3. \A j, k \in DOMAIN nodesSortedByRep :
        j < k /\ nodesSortedByRep[k] \in LowNodes(b) => nodesSortedByRep[j] \in LowNodes(b)
  <2> SUFFICES ASSUME NEW j \in 1..m_nodes, NEW k \in 1..m_nodes, j < k,
                      nodesSortedByRep[k] \in LowNodes(b)
               PROVE  nodesSortedByRep[j] \in LowNodes(b)
    BY <1>2
  <2>1. OrderNodes(nodesSortedByRep[j], nodesSortedByRep[k])
    BY <1>2 DEF Sorted, SortedInv
  <2>2. rep[nodesSortedByRep[j]] \in Nat /\ rep[nodesSortedByRep[k]] \in Nat
    BY <1>2
  <2>3. rep[nodesSortedByRep[j]] <= rep[nodesSortedByRep[k]]
    BY <2>1, <2>2 DEF OrderNodes
  <2> QED BY <1>2, <2>2, <2>3 DEF LowNodes
<1>4. /\ Cardinality(LowNodes(b)) \in 0..m_nodes
      /\ \A p \in 1..m_nodes : nodesSortedByRep[p] \in LowNodes(b) <=> p <= Cardinality(LowNodes(b))
  BY <1>1, <1>2, <1>3, ListPrefix
<1> QED BY <1>2, <1>4 DEF LowNodes

LEMMA EdgePrefix ==
  ASSUME Sorted, NEW b \in Nat
  PROVE  /\ Cardinality(LowEdges(b)) \in 0..Len(m_edges)
         /\ \A p \in 1..Len(m_edges) :
              rep[EdgeAt(edgesSortedByRep[p]).source] < b <=> p <= Cardinality(LowEdges(b))
<1>1. Lists(edgesSortedByRep, Edges) /\ LowEdges(b) \in SUBSET Edges
  BY DEF Sorted, SortedInv, LowEdges
<1>2. /\ IsFiniteSet(Edges) /\ Cardinality(Edges) = Len(m_edges) /\ Nodes \in SUBSET Nat
      /\ DOMAIN edgesSortedByRep = 1..Len(m_edges)
      /\ rep \in [Nodes -> Nodes]
      /\ \A p \in 1..Len(m_edges) : edgesSortedByRep[p] \in Edges
      /\ \A k \in Edges : EdgeAt(k).source \in Nodes
  BY Sizes, SortedFacts DEF Sorted
<1>3. \A j, k \in DOMAIN edgesSortedByRep :
        j < k /\ edgesSortedByRep[k] \in LowEdges(b) => edgesSortedByRep[j] \in LowEdges(b)
  <2> SUFFICES ASSUME NEW j \in 1..Len(m_edges), NEW k \in 1..Len(m_edges), j < k,
                      edgesSortedByRep[k] \in LowEdges(b)
               PROVE  edgesSortedByRep[j] \in LowEdges(b)
    BY <1>2
  <2>1. ~OrderEdges(edgesSortedByRep[k], edgesSortedByRep[j])
    BY <1>2 DEF Sorted, SortedInv
  <2>2. /\ rep[EdgeAt(edgesSortedByRep[j]).source] \in Nat
        /\ rep[EdgeAt(edgesSortedByRep[k]).source] \in Nat
    BY <1>2
  <2>3. rep[EdgeAt(edgesSortedByRep[j]).source] <= rep[EdgeAt(edgesSortedByRep[k]).source]
    BY <2>1, <2>2 DEF OrderEdges, EdgeAt
  <2> QED BY <1>2, <2>2, <2>3 DEF LowEdges
<1>4. /\ Cardinality(LowEdges(b)) \in 0..Len(m_edges)
      /\ \A p \in 1..Len(m_edges) : edgesSortedByRep[p] \in LowEdges(b) <=> p <= Cardinality(LowEdges(b))
  BY <1>1, <1>2, <1>3, ListPrefix
<1> QED BY <1>2, <1>4 DEF LowEdges

\* The bound behind a component leaves in what the component has.
LEMMA NextBound ==
  ASSUME Sorted, NEW r \in Reps
  PROVE  /\ r \in Nat /\ r + 1 \in Nat /\ r < m_nodes
         /\ Cardinality(LowNodes(r)) \in Nat /\ Cardinality(LowEdges(r)) \in Nat
         /\ Cardinality(LowReps(r)) \in Nat
         /\ Cardinality(LowNodes(r + 1)) = Cardinality(LowNodes(r)) + cch[r].nodes
         /\ Cardinality(LowEdges(r + 1)) = Cardinality(LowEdges(r)) + cch[r].edges
         /\ Cardinality(LowReps(r + 1)) = Cardinality(LowReps(r)) + 1
         /\ Cardinality(LowNodes(r)) + cch[r].nodes <= m_nodes
         /\ Cardinality(LowEdges(r)) + cch[r].edges <= Len(m_edges)
<1>1. /\ IsFiniteSet(Nodes) /\ IsFiniteSet(Edges) /\ IsFiniteSet(Reps) /\ Nodes = 0..(m_nodes - 1)
      /\ m_nodes \in Nat /\ rep \in [Nodes -> Nodes] /\ Reps \in SUBSET Nodes
      /\ \A k \in Edges : EdgeAt(k).source \in Nodes
      /\ cch[r].nodes = Cardinality(NodesOf(r)) /\ cch[r].edges = Cardinality(EdgesOf(r))
  BY Sizes, SortedFacts DEF Sorted
<1>2. r \in Nat /\ r + 1 \in Nat /\ r < m_nodes
  BY <1>1
<1>3. /\ Cardinality(LowNodes(r + 1)) = Cardinality(LowNodes(r)) + Cardinality(NodesOf(r))
      /\ Cardinality(LowNodes(r)) \in Nat
  <2>1. LowNodes(r + 1) = LowNodes(r) \cup NodesOf(r) /\ LowNodes(r) \cap NodesOf(r) = {}
    <3>1. \A i \in Nodes : rep[i] \in Nat
      BY <1>1
    <3>2. \A x \in Nat : x < r + 1 <=> x < r \/ x = r
      BY <1>2
    <3> QED BY <1>2, <3>1, <3>2 DEF LowNodes, NodesOf
  <2>2. LowNodes(r) \in SUBSET Nodes /\ NodesOf(r) \in SUBSET Nodes
    BY DEF LowNodes, NodesOf
  <2>3. IsFiniteSet(LowNodes(r)) /\ IsFiniteSet(NodesOf(r))
    BY <1>1, <2>2, FS_Subset
  <2>4. Cardinality(LowNodes(r)) \in Nat /\ Cardinality(NodesOf(r)) \in Nat /\ Cardinality({}) = 0
    BY <2>3, FS_CardinalityType, FS_EmptySet
  <2>5. Cardinality(LowNodes(r) \cup NodesOf(r))
          = Cardinality(LowNodes(r)) + Cardinality(NodesOf(r)) - Cardinality(LowNodes(r) \cap NodesOf(r))
    BY <2>3, FS_Union
  <2> QED BY <2>1, <2>4, <2>5
<1>4. /\ Cardinality(LowEdges(r + 1)) = Cardinality(LowEdges(r)) + Cardinality(EdgesOf(r))
      /\ Cardinality(LowEdges(r)) \in Nat
  <2>1. LowEdges(r + 1) = LowEdges(r) \cup EdgesOf(r) /\ LowEdges(r) \cap EdgesOf(r) = {}
    <3>1. EdgesOf(r) = {k \in Edges : rep[EdgeAt(k).source] = r}
      BY DEF EdgesOf, EdgeAt, Edges
    <3>2. \A k \in Edges : rep[EdgeAt(k).source] \in Nat
      BY <1>1
    <3> QED BY <1>2, <3>1, <3>2 DEF LowEdges
  <2>2. LowEdges(r) \in SUBSET Edges /\ EdgesOf(r) \in SUBSET Edges
    BY DEF LowEdges, EdgesOf, Edges
  <2>3. IsFiniteSet(LowEdges(r)) /\ IsFiniteSet(EdgesOf(r))
    BY <1>1, <2>2, FS_Subset
  <2>4. Cardinality(LowEdges(r)) \in Nat /\ Cardinality(EdgesOf(r)) \in Nat /\ Cardinality({}) = 0
    BY <2>3, FS_CardinalityType, FS_EmptySet
  <2>5. Cardinality(LowEdges(r) \cup EdgesOf(r))
          = Cardinality(LowEdges(r)) + Cardinality(EdgesOf(r)) - Cardinality(LowEdges(r) \cap EdgesOf(r))
    BY <2>3, FS_Union
  <2> QED BY <2>1, <2>4, <2>5
<1>5. /\ Cardinality(LowReps(r + 1)) = Cardinality(LowReps(r)) + 1
      /\ Cardinality(LowReps(r)) \in Nat
  <2>1. LowReps(r + 1) = LowReps(r) \cup {r} /\ r \notin LowReps(r)
    <3>1. \A x \in Reps : x \in Nat
      BY <1>1
    <3>2. \A x \in Nat : x < r + 1 <=> x < r \/ x = r
      BY <1>2
    <3>3. r \notin LowReps(r)
      BY <1>2 DEF LowReps
    <3>4. \A x : x \in LowReps(r + 1) <=> x \in Reps /\ (x < r \/ x = r)
      BY <3>1, <3>2 DEF LowReps
    <3>5. \A x : x \in LowReps(r) <=> x \in Reps /\ x < r
      BY DEF LowReps
    <3>6. \A x : x \in LowReps(r + 1) <=> x \in LowReps(r) \cup {r}
      BY <3>4, <3>5
    <3> QED BY <3>3, <3>6
  <2>2. IsFiniteSet(LowReps(r))
    BY <1>1, FS_Subset DEF LowReps
  <2> QED BY <2>1, <2>2, FS_AddElement, FS_CardinalityType
<1>6. Cardinality(LowNodes(r + 1)) <= m_nodes /\ Cardinality(LowEdges(r + 1)) <= Len(m_edges)
  <2>1. Cardinality(LowNodes(r + 1)) \in 0..m_nodes
    BY <1>2, NodePrefix
  <2>2. Cardinality(LowEdges(r + 1)) \in 0..Len(m_edges)
    BY <1>2, EdgePrefix
  <2>3. Len(m_edges) \in Nat
    BY Sizes DEF Sorted
  <2> QED BY <1>1, <2>1, <2>2, <2>3
<1> QED BY <1>1, <1>2, <1>3, <1>4, <1>5, <1>6

\* While a component is left, the node cursor is in the vector, and no component
\* lies between the bound and the one of the node under it.
LEMMA NextComponent ==
  ASSUME Sorted, NEW b \in 0..m_nodes, nodePos = Cardinality(LowNodes(b)),
         seen = Cardinality(LowReps(b)), seen < ComponentCount
  PROVE  /\ NextRep \in Reps /\ b <= NextRep
         /\ LowNodes(NextRep) = LowNodes(b) /\ LowEdges(NextRep) = LowEdges(b)
         /\ LowReps(NextRep) = LowReps(b)
<1>1. /\ IsFiniteSet(Nodes) /\ Cardinality(Nodes) = m_nodes /\ IsFiniteSet(Reps)
      /\ Nodes = 0..(m_nodes - 1) /\ m_nodes \in Nat /\ rep \in [Nodes -> Nodes]
      /\ Reps \in SUBSET Nodes /\ b \in Nat
      /\ \A k \in Edges : EdgeAt(k).source \in Nodes
      /\ DOMAIN cch = Reps /\ DOMAIN nodesSortedByRep = 1..m_nodes
      /\ \A p \in 1..m_nodes : nodesSortedByRep[p] \in Nodes
  BY Sizes, SortedFacts DEF Sorted
<1>2. /\ nodePos \in 0..m_nodes
      /\ \A p \in 1..m_nodes : rep[nodesSortedByRep[p]] < b <=> p <= nodePos
  BY <1>1, NodePrefix
<1>3. nodePos # m_nodes
  <2>1. LowReps(b) # Reps
    <3>1. Cardinality(Reps) \in Nat
      BY <1>1, FS_CardinalityType
    <3>2. Cardinality(LowReps(b)) < Cardinality(Reps)
      BY <1>1 DEF ComponentCount
    <3> QED BY <3>1, <3>2
  <2>2. PICK r \in Reps : r \notin LowReps(b)
    BY <2>1 DEF LowReps
  <2>3. PICK i \in Nodes : rep[i] = r
    BY DEF Reps
  <2>4. i \notin LowNodes(b)
    BY <2>2, <2>3 DEF LowReps, LowNodes
  <2> QED BY <1>1, <2>4, FS_Subset DEF LowNodes
<1>4. nodePos + 1 \in 1..m_nodes
  BY <1>1, <1>2, <1>3
<1>5. NextRep \in Reps /\ b <= NextRep
  <2>1. nodesSortedByRep[nodePos + 1] \in Nodes
    BY <1>1, <1>4
  <2>2. ~(rep[nodesSortedByRep[nodePos + 1]] < b)
    BY <1>2, <1>4
  <2>3. NextRep \in Reps
    BY <2>1 DEF NextRep, Reps
  <2>4. NextRep \in Nat /\ b \in Nat
    BY <1>1, <2>3
  <2> QED BY <2>2, <2>3, <2>4 DEF NextRep
<1>6. ASSUME NEW i \in Nodes PROVE rep[i] < NextRep <=> rep[i] < b
  <2>1. rep[i] \in Nat /\ NextRep \in Nat
    BY <1>1, <1>5
  <2>2. CASE rep[i] < b
    BY <1>5, <2>1, <2>2, <1>1
  <2>3. CASE ~(rep[i] < b)
    <3>1. PICK p \in 1..m_nodes : nodesSortedByRep[p] = i
      BY <1>1 DEF Sorted, SortedInv, Lists
    <3>2. p > nodePos
      BY <1>2, <2>3, <3>1
    <3>3. CASE p = nodePos + 1
      BY <2>1, <2>3, <3>1, <3>3 DEF NextRep
    <3>4. CASE p # nodePos + 1
      <4>1. nodePos + 1 < p
        BY <1>2, <3>2, <3>4
      <4>2. OrderNodes(nodesSortedByRep[nodePos + 1], nodesSortedByRep[p])
        BY <1>1, <1>4, <4>1 DEF Sorted, SortedInv
      <4>3. NextRep <= rep[i]
        BY <2>1, <3>1, <4>2 DEF OrderNodes, NextRep
      <4> QED BY <2>1, <2>3, <4>3
    <3> QED BY <3>3, <3>4
  <2> QED BY <2>2, <2>3
<1>7. LowNodes(NextRep) = LowNodes(b)
  BY <1>6 DEF LowNodes
<1>8. LowEdges(NextRep) = LowEdges(b)
  BY <1>1, <1>6 DEF LowEdges
<1>9. LowReps(NextRep) = LowReps(b)
  <2>1. \A r \in Reps : r < NextRep <=> r < b
    <3> SUFFICES ASSUME NEW r \in Reps PROVE r < NextRep <=> r < b
      OBVIOUS
    <3>1. PICK i \in Nodes : rep[i] = r
      BY DEF Reps
    <3> QED BY <1>6, <3>1
  <2> QED BY <2>1 DEF LowReps
<1> QED BY <1>5, <1>7, <1>8, <1>9

\* What Low and Block stand for.
LEMMA LowIs ==
  ASSUME Sorted, NEW b \in 0..m_nodes
  PROVE  /\ Low[b].nodes = Cardinality(LowNodes(b)) /\ Low[b].edges = Cardinality(LowEdges(b))
         /\ Low[b].reps = Cardinality(LowReps(b))
         /\ Low[b].nodes \in 0..m_nodes /\ Low[b].edges \in 0..Len(m_edges)
<1>1. b \in Nat
  OBVIOUS
<1>2. /\ Low[b].nodes = Cardinality(LowNodes(b)) /\ Low[b].edges = Cardinality(LowEdges(b))
      /\ Low[b].reps = Cardinality(LowReps(b))
  BY DEF Low
<1>3. Cardinality(LowNodes(b)) \in 0..m_nodes /\ Cardinality(LowEdges(b)) \in 0..Len(m_edges)
  BY <1>1, NodePrefix, EdgePrefix
<1> QED BY <1>2, <1>3

LEMMA LowOfRep ==
  ASSUME Sorted, NEW r \in Reps
  PROVE  /\ r \in Nat /\ r \in 0..m_nodes /\ r + 1 \in 0..m_nodes
         /\ Low[r].nodes = Cardinality(LowNodes(r)) /\ Low[r].edges = Cardinality(LowEdges(r))
         /\ Low[r].nodes \in Nat /\ Low[r].edges \in Nat /\ Low[r].reps \in Nat
         /\ Low[r + 1].nodes = Low[r].nodes + cch[r].nodes
         /\ Low[r + 1].edges = Low[r].edges + cch[r].edges
         /\ Low[r + 1].reps = Low[r].reps + 1
         /\ Low[r].nodes + cch[r].nodes <= m_nodes
         /\ Low[r].edges + cch[r].edges <= Len(m_edges)
<1>1. r \in 0..m_nodes /\ r + 1 \in 0..m_nodes /\ r \in Nat
  <2>1. m_nodes \in Nat
    BY Sizes DEF Sorted
  <2> QED BY <2>1, NextBound
<1>2. /\ Low[r].nodes = Cardinality(LowNodes(r)) /\ Low[r].edges = Cardinality(LowEdges(r))
      /\ Low[r].reps = Cardinality(LowReps(r))
  BY <1>1, LowIs
<1>3. /\ Low[r + 1].nodes = Cardinality(LowNodes(r + 1)) /\ Low[r + 1].edges = Cardinality(LowEdges(r + 1))
      /\ Low[r + 1].reps = Cardinality(LowReps(r + 1))
  BY <1>1, LowIs
<1> QED BY <1>1, <1>2, <1>3, NextBound

\* The nodes of a component lie in its block in rising order.
LEMMA NodeBlock ==
  ASSUME Sorted, NEW r \in Reps
  PROVE  /\ \A n \in 1..cch[r].nodes : /\ Low[r].nodes + n \in 1..m_nodes
                                       /\ Block[r].nodes[n] = nodesSortedByRep[Low[r].nodes + n]
                                       /\ Block[r].nodes[n] \in NodesOf(r)
         /\ \A m, n \in 1..cch[r].nodes : m < n => Block[r].nodes[m] < Block[r].nodes[n]
         /\ \A i \in NodesOf(r) : \E n \in 1..cch[r].nodes : Block[r].nodes[n] = i
<1> DEFINE low == Low[r].nodes
<1>1. /\ r \in Nat /\ r + 1 \in Nat /\ low \in Nat /\ cch[r].nodes \in Nat /\ m_nodes \in Nat
      /\ low = Cardinality(LowNodes(r))
      /\ Cardinality(LowNodes(r + 1)) = low + cch[r].nodes /\ low + cch[r].nodes <= m_nodes
  BY LowOfRep, NextBound, SortedFacts, Sizes DEF Sorted
<1>2. /\ rep \in [Nodes -> Nodes] /\ Nodes \in SUBSET Nat /\ DOMAIN nodesSortedByRep = 1..m_nodes
      /\ \A p \in 1..m_nodes : nodesSortedByRep[p] \in Nodes
  BY SortedFacts, Sizes DEF Sorted
<1>3. \A p \in 1..m_nodes : rep[nodesSortedByRep[p]] < r <=> p <= low
  BY <1>1, NodePrefix
<1>4. \A p \in 1..m_nodes : rep[nodesSortedByRep[p]] < r + 1 <=> p <= low + cch[r].nodes
  BY <1>1, NodePrefix
<1> HIDE DEF low
<1>5. \A p \in 1..m_nodes : rep[nodesSortedByRep[p]] = r <=> p > low /\ p <= low + cch[r].nodes
  <2> SUFFICES ASSUME NEW p \in 1..m_nodes
               PROVE  rep[nodesSortedByRep[p]] = r <=> p > low /\ p <= low + cch[r].nodes
    OBVIOUS
  <2>1. rep[nodesSortedByRep[p]] \in Nat
    BY <1>2
  <2> QED BY <1>1, <1>3, <1>4, <2>1
<1>6. \A n \in 1..cch[r].nodes : low + n \in 1..m_nodes /\ nodesSortedByRep[low + n] \in NodesOf(r)
  <2> SUFFICES ASSUME NEW n \in 1..cch[r].nodes
               PROVE  low + n \in 1..m_nodes /\ nodesSortedByRep[low + n] \in NodesOf(r)
    OBVIOUS
  <2>1. low + n \in 1..m_nodes /\ low + n > low /\ low + n <= low + cch[r].nodes
    BY <1>1
  <2> QED BY <1>2, <1>5, <2>1 DEF NodesOf
<1>7. \A m, n \in 1..cch[r].nodes : m < n => nodesSortedByRep[low + m] < nodesSortedByRep[low + n]
  <2> SUFFICES ASSUME NEW m \in 1..cch[r].nodes, NEW n \in 1..cch[r].nodes, m < n
               PROVE  nodesSortedByRep[low + m] < nodesSortedByRep[low + n]
    OBVIOUS
  <2>1. low + m < low + n /\ low + m \in 1..m_nodes /\ low + n \in 1..m_nodes
    BY <1>1, <1>6
  <2>2. OrderNodes(nodesSortedByRep[low + m], nodesSortedByRep[low + n])
    BY <1>2, <2>1 DEF Sorted, SortedInv
  <2> QED BY <1>6, <2>2 DEF OrderNodes, NodesOf
<1>8. \A i \in NodesOf(r) : \E n \in 1..cch[r].nodes : nodesSortedByRep[low + n] = i
  <2> SUFFICES ASSUME NEW i \in NodesOf(r)
               PROVE  \E n \in 1..cch[r].nodes : nodesSortedByRep[low + n] = i
    OBVIOUS
  <2>1. PICK p \in 1..m_nodes : nodesSortedByRep[p] = i
    BY <1>2 DEF Sorted, SortedInv, Lists, NodesOf
  <2>2. p > low /\ p <= low + cch[r].nodes
    BY <1>5, <2>1 DEF NodesOf
  <2>3. p - low \in 1..cch[r].nodes /\ low + (p - low) = p
    BY <1>1, <2>2
  <2> QED BY <2>1, <2>3
<1>9. \A n \in 1..cch[r].nodes : Block[r].nodes[n] = nodesSortedByRep[low + n]
  BY DEF Block, low
<1> QED BY <1>6, <1>7, <1>8, <1>9 DEF low

\* The edges of a component lie in its block, by source and target.
LEMMA EdgeBlock ==
  ASSUME Sorted, NEW r \in Reps
  PROVE  /\ \A n \in 1..cch[r].edges :
              /\ Low[r].edges + n \in 1..Len(m_edges)
              /\ Block[r].edges[n] = EdgeAt(edgesSortedByRep[Low[r].edges + n])
              /\ edgesSortedByRep[Low[r].edges + n] \in EdgesOf(r)
              /\ Block[r].edges[n].source \in NodesOf(r) /\ Block[r].edges[n].target \in NodesOf(r)
         /\ \A m, n \in 1..cch[r].edges : m < n =>
              \/ Block[r].edges[m].source < Block[r].edges[n].source
              \/ /\ Block[r].edges[m].source = Block[r].edges[n].source
                 /\ Block[r].edges[m].target <= Block[r].edges[n].target
         /\ \A m, n \in 1..cch[r].edges : m # n =>
              edgesSortedByRep[Low[r].edges + m] # edgesSortedByRep[Low[r].edges + n]
         /\ \A k \in EdgesOf(r) :
              \E n \in 1..cch[r].edges : edgesSortedByRep[Low[r].edges + n] = k
<1> DEFINE low == Low[r].edges
           len == Len(m_edges)
<1>1. /\ r \in Nat /\ r + 1 \in Nat /\ low \in Nat /\ cch[r].edges \in Nat /\ len \in Nat
      /\ low = Cardinality(LowEdges(r))
      /\ Cardinality(LowEdges(r + 1)) = low + cch[r].edges /\ low + cch[r].edges <= len
  BY LowOfRep, NextBound, SortedFacts, Sizes DEF Sorted
<1>2. /\ rep \in [Nodes -> Nodes] /\ Nodes \in SUBSET Nat /\ DOMAIN edgesSortedByRep = 1..len
      /\ \A p \in 1..len : edgesSortedByRep[p] \in Edges
      /\ \A k \in Edges : /\ EdgeAt(k).source \in Nodes /\ EdgeAt(k).target \in Nodes
                          /\ rep[EdgeAt(k).source] = rep[EdgeAt(k).target]
  BY SortedFacts, Sizes DEF Sorted
<1>3. \A p \in 1..len : rep[EdgeAt(edgesSortedByRep[p]).source] < r <=> p <= low
  BY <1>1, EdgePrefix
<1>4. \A p \in 1..len : rep[EdgeAt(edgesSortedByRep[p]).source] < r + 1 <=> p <= low + cch[r].edges
  BY <1>1, EdgePrefix
<1>5. EdgesOf(r) = {k \in Edges : rep[EdgeAt(k).source] = r}
  BY DEF EdgesOf, EdgeAt, Edges
<1>6. Lists(edgesSortedByRep, Edges)
  BY DEF Sorted, SortedInv
<1>7. \A j, k \in 1..len : j < k => ~OrderEdges(edgesSortedByRep[k], edgesSortedByRep[j])
  BY <1>2 DEF Sorted, SortedInv
<1> HIDE DEF low, len
<1>8. \A p \in 1..len : edgesSortedByRep[p] \in EdgesOf(r) <=> p > low /\ p <= low + cch[r].edges
  <2> SUFFICES ASSUME NEW p \in 1..len
               PROVE  edgesSortedByRep[p] \in EdgesOf(r) <=> p > low /\ p <= low + cch[r].edges
    OBVIOUS
  <2>1. edgesSortedByRep[p] \in Edges /\ rep[EdgeAt(edgesSortedByRep[p]).source] \in Nat
    BY <1>2
  <2>2. rep[EdgeAt(edgesSortedByRep[p]).source] = r <=> p > low /\ p <= low + cch[r].edges
    BY <1>1, <1>3, <1>4, <2>1
  <2> QED BY <1>5, <2>1, <2>2
<1>9. \A n \in 1..cch[r].edges : low + n \in 1..len /\ edgesSortedByRep[low + n] \in EdgesOf(r)
  <2> SUFFICES ASSUME NEW n \in 1..cch[r].edges
               PROVE  low + n \in 1..len /\ edgesSortedByRep[low + n] \in EdgesOf(r)
    OBVIOUS
  <2>1. low + n \in 1..len /\ low + n > low /\ low + n <= low + cch[r].edges
    BY <1>1
  <2> QED BY <1>8, <2>1
<1>10. \A k \in EdgesOf(r) : /\ EdgeAt(k).source \in NodesOf(r) /\ EdgeAt(k).target \in NodesOf(r)
  BY <1>2, <1>5 DEF NodesOf
<1>11. ASSUME NEW m \in 1..cch[r].edges, NEW n \in 1..cch[r].edges, m < n
       PROVE  \/ EdgeAt(edgesSortedByRep[low + m]).source < EdgeAt(edgesSortedByRep[low + n]).source
              \/ /\ EdgeAt(edgesSortedByRep[low + m]).source = EdgeAt(edgesSortedByRep[low + n]).source
                 /\ EdgeAt(edgesSortedByRep[low + m]).target <= EdgeAt(edgesSortedByRep[low + n]).target
  <2>1. low + m < low + n /\ low + m \in 1..len /\ low + n \in 1..len
    BY <1>1, <1>9, <1>11
  <2>2. PICK j \in Edges, k \in Edges : /\ j = edgesSortedByRep[low + m] /\ k = edgesSortedByRep[low + n]
                                        /\ j \in EdgesOf(r) /\ k \in EdgesOf(r) /\ ~OrderEdges(k, j)
    BY <1>2, <1>7, <1>9, <2>1
  <2>3. rep[EdgeAt(j).source] = rep[EdgeAt(k).source]
    BY <1>5, <2>2
  <2>4. /\ EdgeAt(j).source \in Nat /\ EdgeAt(j).target \in Nat
        /\ EdgeAt(k).source \in Nat /\ EdgeAt(k).target \in Nat
    BY <1>2
  <2>5. EdgeAt(j).source < EdgeAt(k).source
          \/ (EdgeAt(j).source = EdgeAt(k).source /\ EdgeAt(j).target <= EdgeAt(k).target)
    BY <2>2, <2>3, <2>4 DEF OrderEdges, EdgeAt
  <2> QED BY <2>2, <2>5
<1>12. ASSUME NEW m \in 1..cch[r].edges, NEW n \in 1..cch[r].edges, m # n
       PROVE  edgesSortedByRep[low + m] # edgesSortedByRep[low + n]
  <2>1. low + m # low + n /\ low + m \in 1..len /\ low + n \in 1..len
    BY <1>1, <1>9, <1>12
  <2> QED BY <1>2, <1>6, <2>1 DEF Lists
<1>13. \A k \in EdgesOf(r) : \E n \in 1..cch[r].edges : edgesSortedByRep[low + n] = k
  <2> SUFFICES ASSUME NEW k \in EdgesOf(r)
               PROVE  \E n \in 1..cch[r].edges : edgesSortedByRep[low + n] = k
    OBVIOUS
  <2>1. PICK p \in 1..len : edgesSortedByRep[p] = k
    BY <1>2, <1>5, <1>6 DEF Lists
  <2>2. p > low /\ p <= low + cch[r].edges
    BY <1>8, <2>1
  <2>3. p - low \in 1..cch[r].edges /\ low + (p - low) = p
    BY <1>1, <2>2
  <2> QED BY <2>1, <2>3
<1>14. \A n \in 1..cch[r].edges : Block[r].edges[n] = EdgeAt(edgesSortedByRep[low + n])
  BY DEF Block, low
<1> QED BY <1>9, <1>10, <1>11, <1>12, <1>13, <1>14 DEF low, len

(***************************************************************************)
(* The filter.                                                             *)
(***************************************************************************)

\* Induction over an interval.
LEMMA IntervalInduction ==
  ASSUME NEW n \in Nat, NEW S, 1 \in S, \A j \in 1..(n - 1) : j \in S => j + 1 \in S
  PROVE  \A j \in 1..n : j \in S
<1> DEFINE P == {j \in 1..n : 1..j \subseteq S}
<1>1. \A j, k \in 1..n : j < k /\ k \in P => j \in P
  <2> SUFFICES ASSUME NEW j \in 1..n, NEW k \in P, j < k PROVE 1..j \subseteq S
    OBVIOUS
  <2>1. 1..j \subseteq 1..k
    OBVIOUS
  <2> QED BY <2>1
<1>2. IsFiniteSet(P) /\ Cardinality(P) \in Nat
  BY IntervalFinite, FS_Subset, FS_CardinalityType
<1>3. \A j \in 1..n : j \in P <=> j <= Cardinality(P)
  <2>1. P \in SUBSET (1..n)
    OBVIOUS
  <2> HIDE DEF P
  <2> QED BY <1>1, <2>1, PrefixSet
<1>4. Cardinality(P) >= n
  <2> SUFFICES ASSUME Cardinality(P) < n PROVE FALSE
    BY <1>2
  <2> DEFINE c == Cardinality(P)
  <2>0. c \in Nat /\ c + 1 \in 1..n
    BY <1>2
  <2>1. CASE c = 0
    <3>1. 1 \in P
      BY <2>0, <2>1
    <3> QED BY <1>3, <2>0, <2>1, <3>1
  <2>2. CASE c # 0
    <3>1. c \in 1..n /\ c \in 1..(n - 1)
      BY <2>0, <2>2
    <3>2. c \in P
      BY <1>3, <3>1
    <3>3. c \in S /\ 1..c \subseteq S
      BY <3>1, <3>2
    <3>4. c + 1 \in S
      BY <3>1, <3>3
    <3>5. \A x \in 1..(c + 1) : x \in 1..c \/ x = c + 1
      BY <2>0
    <3>6. 1..(c + 1) \subseteq S
      BY <3>3, <3>4, <3>5
    <3>7. c + 1 \in P
      BY <2>0, <3>6
    <3>8. c + 1 <= c
      BY <1>3, <2>0, <3>7
    <3> QED BY <2>0, <3>8
  <2> QED BY <2>1, <2>2
<1>5. \A j \in P : j \in S
  OBVIOUS
<1> HIDE DEF P
<1> QED BY <1>2, <1>3, <1>4, <1>5

LEMMA FilterInit == Init => FilterInv
BY DEF Init, FilterInv, Split, Empty

Even(a, b) == a.nodes = b.nodes /\ a.edges = b.edges

LEMMA LargerCountTransitive ==
  ASSUME NEW a, NEW b, NEW c, \A x \in {a, b, c} : x.nodes \in Nat /\ x.edges \in Nat
  PROVE  /\ LargerCount(a, b) /\ LargerCount(b, c) => LargerCount(a, c)
         /\ LargerCount(a, b) /\ Even(b, c) => LargerCount(a, c)
         /\ Even(a, b) /\ LargerCount(b, c) => LargerCount(a, c)
<1>1. PICK an \in Nat, ae \in Nat : an = a.nodes /\ ae = a.edges
  OBVIOUS
<1>2. PICK bn \in Nat, be \in Nat : bn = b.nodes /\ be = b.edges
  OBVIOUS
<1>3. PICK cn \in Nat, ce \in Nat : cn = c.nodes /\ ce = c.edges
  OBVIOUS
<1> QED BY <1>1, <1>2, <1>3 DEF LargerCount, Even

\* The first components of an order by size, up to where the loops end.
LEMMA ChoiceIsRight ==
  ASSUME Sorted, NEW s \in SizeOrders, NEW ccid \in 0..Len(s), LoopEnds(s, ccid),
         NEW wf, wf = [r \in {s[n] : n \in 1..ccid} |-> (CHOOSE n \in 1..ccid : s[n] = r) - 1]
  PROVE  RightChoice(wf)
<1> DEFINE N == Cardinality(Reps)
           chosen == DOMAIN wf
           v == filter.value
<1>1. /\ N \in Nat /\ Lists(s, Reps) /\ s \in [1..N -> Reps] /\ DOMAIN s = 1..N /\ Len(s) = N
      /\ ccid \in 0..N /\ ccid \in Nat
  <2>1. Lists(s, Reps) /\ s \in [1..N -> Reps] /\ N \in Nat
    BY SortedFacts, SeqsAreLists DEF SizeOrders
  <2>2. DOMAIN s = 1..N
    BY <2>1
  <2>3. s \in Seq(Reps) /\ Len(s) = N
    BY <2>1, <2>2
  <2> QED BY <2>1, <2>2, <2>3
<1>2. /\ \A r \in Reps : cch[r] \in [nodes : Nat, edges : Nat] /\ cch[r].nodes \in Nat /\ cch[r].edges \in Nat
      /\ Reps \in SUBSET Nat
  BY SortedFacts, Sizes DEF Sorted
<1>3. filter \in [mode : FilterModes, value : Nat] /\ v \in Nat
  BY WriterAssumption DEF Sorted, CollectInv
<1>4. chosen = {s[n] : n \in 1..ccid} /\ chosen \subseteq Reps
  BY <1>1
<1>5. \A n \in 1..ccid : n \in 1..N /\ s[n] \in chosen /\ wf[s[n]] = n - 1
  <2> SUFFICES ASSUME NEW n \in 1..ccid PROVE n \in 1..N /\ s[n] \in chosen /\ wf[s[n]] = n - 1
    OBVIOUS
  <2>1. n \in 1..N /\ s[n] \in {s[m] : m \in 1..ccid}
    BY <1>1
  <2>2. (CHOOSE m \in 1..ccid : s[m] = s[n]) = n
    BY <1>1, <2>1 DEF Lists
  <2> QED BY <2>1, <2>2
<1>6. \A r \in chosen : \E n \in 1..ccid : r = s[n]
  BY <1>4
<1>7. Cardinality(chosen) = ccid
  <2> DEFINE f == [n \in 1..ccid |-> s[n]]
  <2>1. f \in [1..ccid -> chosen]
    BY <1>5
  <2>2. \A a, b \in 1..ccid : f[a] = f[b] => a = b
    BY <1>1, <1>5 DEF Lists
  <2>3. \A x \in chosen : \E a \in 1..ccid : f[a] = x
    BY <1>6
  <2> HIDE DEF chosen
  <2>4. f \in Bijection(1..ccid, chosen)
    BY <2>1, <2>2, <2>3 DEF Bijection, Injection, Surjection, IsInjective
  <2> QED BY <1>1, <2>4, IntervalFinite, FS_Bijection DEF ExistsBijection
<1>8. \A r \in Reps \ chosen : \E m \in 1..N : m > ccid /\ r = s[m]
  <2> SUFFICES ASSUME NEW r \in Reps \ chosen PROVE \E m \in 1..N : m > ccid /\ r = s[m]
    OBVIOUS
  <2>1. PICK m \in 1..N : s[m] = r
    BY <1>1 DEF Lists
  <2>2. ~(m \in 1..ccid)
    BY <1>5, <2>1
  <2> QED BY <1>1, <2>1, <2>2
<1>9. \A j, k \in 1..N : j < k => Larger(s[j], s[k])
  BY <1>1 DEF SizeOrders
<1>10. \A n \in 1..ccid : Taken(s, n)
  BY DEF LoopEnds
<1>11. chosen # Reps => ccid < N /\ ccid + 1 \in 1..N /\ ~Taken(s, ccid + 1)
  <2> SUFFICES ASSUME chosen # Reps PROVE ccid < N /\ ccid + 1 \in 1..N /\ ~Taken(s, ccid + 1)
    OBVIOUS
  <2>1. PICK r \in Reps \ chosen : TRUE
    BY <1>4
  <2>2. ccid < N
    BY <1>1, <1>8, <2>1
  <2> QED BY <1>1, <2>2 DEF LoopEnds
<1> HIDE DEF chosen, N
<1>12. \A r \in chosen : wf[r] \in 0..(Cardinality(chosen) - 1)
  BY <1>1, <1>5, <1>6, <1>7
<1>13. \A n \in 0..(Cardinality(chosen) - 1) : \E r \in chosen : wf[r] = n
  <2> SUFFICES ASSUME NEW n \in 0..(ccid - 1) PROVE \E r \in chosen : wf[r] = n
    BY <1>7
  <2>1. PICK k \in 1..ccid : k = n + 1
    BY <1>1
  <2>2. s[k] \in chosen /\ wf[s[k]] = k - 1
    BY <1>5
  <2>3. k - 1 = n
    BY <2>1
  <2> QED BY <2>2, <2>3
<1>14. ASSUME NEW r \in chosen, NEW q \in chosen
       PROVE  (wf[r] = wf[q] => r = q) /\ (wf[r] < wf[q] => Larger(r, q))
  <2>1. PICK n \in 1..ccid : r = s[n]
    BY <1>6
  <2>2. PICK m \in 1..ccid : q = s[m]
    BY <1>6
  <2>3. wf[r] = n - 1 /\ wf[q] = m - 1 /\ n \in 1..N /\ m \in 1..N
    BY <1>5, <2>1, <2>2
  <2>4. wf[r] = wf[q] => r = q
    BY <2>1, <2>2, <2>3
  <2>5. wf[r] < wf[q] => Larger(r, q)
    BY <1>9, <2>1, <2>2, <2>3
  <2> QED BY <2>4, <2>5
<1>15. filter.mode = "All" => chosen = Reps
  BY <1>11 DEF Taken
<1>16. \A j, k \in 1..N : j <= k => cch[s[j]].nodes >= cch[s[k]].nodes
  <2> SUFFICES ASSUME NEW j \in 1..N, NEW k \in 1..N, j <= k PROVE cch[s[j]].nodes >= cch[s[k]].nodes
    OBVIOUS
  <2>1. cch[s[j]].nodes \in Nat /\ cch[s[k]].nodes \in Nat
    BY <1>1, <1>2
  <2>2. j = k \/ Larger(s[j], s[k])
    BY <1>9
  <2> QED BY <2>1, <2>2 DEF Larger
<1>17. ASSUME filter.mode = "MinSize", NEW r \in Reps PROVE r \in chosen <=> cch[r].nodes >= v
  <2>1. CASE r \in chosen
    <3>1. PICK n \in 1..ccid : r = s[n]
      BY <1>6, <2>1
    <3> QED BY <1>10, <1>17, <2>1, <3>1 DEF Taken
  <2>2. CASE r \notin chosen
    <3>1. PICK m \in 1..N : m > ccid /\ r = s[m]
      BY <1>8, <2>2
    <3>2. ccid + 1 \in 1..N /\ ~Taken(s, ccid + 1) /\ ccid + 1 <= m
      BY <1>1, <1>11, <2>2, <3>1
    <3>3. ~(cch[s[ccid + 1]].nodes >= v)
      BY <1>17, <3>2 DEF Taken
    <3>4. cch[s[ccid + 1]].nodes >= cch[r].nodes
      BY <1>16, <3>1, <3>2
    <3>5. cch[s[ccid + 1]].nodes \in Nat /\ cch[r].nodes \in Nat
      BY <1>1, <1>2, <3>2
    <3> QED BY <1>3, <2>2, <3>3, <3>4, <3>5
  <2> QED BY <2>1, <2>2
<1>18. ASSUME filter.mode = "TopK", chosen # Reps
       PROVE  ccid >= v /\ ccid # 0 /\ cch[s[ccid + 1]] # cch[s[ccid]]
  <2>1. /\ ~(ccid + 1 - 1 < v)
        /\ cch[s[ccid + 1]] # cch[s[IF ccid + 1 = 1 THEN 1 ELSE ccid + 1 - 1]]
    <3>1. ~Taken(s, ccid + 1) /\ filter.mode = "TopK"
      BY <1>11, <1>18
    <3> QED BY <3>1 DEF Taken
  <2>2. ccid + 1 - 1 = ccid
    BY <1>1
  <2>3. ccid # 0
    BY <2>1
  <2>4. ~(ccid + 1 = 1)
    BY <1>1, <2>3
  <2> QED BY <1>1, <1>3, <2>1, <2>2, <2>3, <2>4
<1>19. ASSUME filter.mode = "TopK", NEW r \in chosen, NEW q \in Reps \ chosen
       PROVE  LargerCount(cch[r], cch[q])
  <2>1. PICK n \in 1..ccid : r = s[n]
    BY <1>6
  <2>2. PICK m \in 1..N : m > ccid /\ q = s[m]
    BY <1>8
  <2>3. /\ ccid # 0 /\ cch[s[ccid + 1]] # cch[s[ccid]] /\ ccid \in 1..N /\ ccid + 1 \in 1..N
        /\ n <= ccid /\ ccid + 1 <= m /\ n \in 1..N
    BY <1>1, <1>11, <1>18, <1>19, <2>2
  <2>4. /\ s[n] \in Reps /\ s[ccid] \in Reps /\ s[ccid + 1] \in Reps /\ s[m] \in Reps
    BY <1>1, <2>2, <2>3
  <2>5. /\ n = ccid \/ Larger(s[n], s[ccid])
        /\ Larger(s[ccid], s[ccid + 1])
        /\ ccid + 1 = m \/ Larger(s[ccid + 1], s[m])
    BY <1>1, <1>9, <2>2, <2>3
  <2>6. cch[s[ccid]].nodes # cch[s[ccid + 1]].nodes \/ cch[s[ccid]].edges # cch[s[ccid + 1]].edges
    <3> DEFINE x == cch[s[ccid]]
               y == cch[s[ccid + 1]]
    <3>1. x \in [nodes : Nat, edges : Nat] /\ y \in [nodes : Nat, edges : Nat] /\ x # y
      BY <1>2, <2>3, <2>4
    <3> HIDE DEF x, y
    <3>2. x.nodes # y.nodes \/ x.edges # y.edges
      BY <3>1
    <3> QED BY <3>2 DEF x, y
  <2>7. \A a, b \in {s[n], s[ccid], s[ccid + 1], s[m]} :
          /\ cch[a].nodes \in Nat /\ cch[a].edges \in Nat
          /\ Larger(a, b) => LargerCount(cch[a], cch[b]) \/ Even(cch[a], cch[b])
    <3> SUFFICES ASSUME NEW a \in Reps, NEW b \in Reps
                 PROVE  /\ cch[a].nodes \in Nat /\ cch[a].edges \in Nat
                        /\ Larger(a, b) => LargerCount(cch[a], cch[b]) \/ Even(cch[a], cch[b])
      BY <2>4
    <3>1. /\ cch[a].nodes \in Nat /\ cch[a].edges \in Nat /\ cch[b].nodes \in Nat /\ cch[b].edges \in Nat
      BY <1>2
    <3> QED BY <3>1 DEF Larger, LargerCount, Even
  <2>8. LargerCount(cch[s[ccid]], cch[s[ccid + 1]])
    <3>1. ~Even(cch[s[ccid]], cch[s[ccid + 1]])
      BY <2>6 DEF Even
    <3> QED BY <2>5, <2>7, <3>1
  <2> DEFINE w == cch[s[n]]
             x == cch[s[ccid]]
             y == cch[s[ccid + 1]]
             z == cch[s[m]]
  <2>9. /\ n = ccid \/ LargerCount(w, x) \/ Even(w, x)
        /\ LargerCount(x, y)
        /\ ccid + 1 = m \/ LargerCount(y, z) \/ Even(y, z)
        /\ n = ccid => w = x
        /\ ccid + 1 = m => y = z
        /\ \A a \in {w, x, y, z} : a.nodes \in Nat /\ a.edges \in Nat
    BY <2>5, <2>7, <2>8
  <2> HIDE DEF w, x, y, z
  <2>10. LargerCount(w, z)
    <3>1. LargerCount(w, y)
      BY <2>9, LargerCountTransitive
    <3> QED BY <2>9, <3>1, LargerCountTransitive
  <2> QED BY <2>1, <2>2, <2>10 DEF w, z
<1>20. ASSUME filter.mode = "TopK", NEW r \in chosen, wf[r] >= v
       PROVE  \E q \in chosen : wf[q] = (IF v = 0 THEN 0 ELSE v - 1) /\ cch[r] = cch[q]
  <2> DEFINE last == IF v = 0 THEN 1 ELSE v
             Tie  == {j \in 1..ccid : j >= last => cch[s[j]] = cch[s[last]]}
  <2>0. PICK n \in 1..ccid : r = s[n]
    BY <1>6
  <2>1. r = s[n] /\ wf[r] = n - 1
    BY <1>5, <2>0
  <2>2. last \in 1..ccid /\ n >= last
    BY <1>1, <1>3, <1>20, <2>1
  <2>3. 1 \in Tie
    BY <1>1, <2>2
  <2>4. ASSUME NEW j \in 1..(ccid - 1), j \in Tie PROVE j + 1 \in Tie
    <3>0. j \in Nat /\ j + 1 \in 1..ccid /\ j + 1 # 1 /\ j + 1 - 1 = j
      BY <1>1
    <3>1. CASE j + 1 <= last
      BY <2>2, <3>0, <3>1
    <3>2. CASE j + 1 > last
      <4>1. Taken(s, j + 1)
        BY <1>10, <3>0
      <4>2. j + 1 - 1 < v \/ cch[s[j + 1]] = cch[s[IF j + 1 = 1 THEN 1 ELSE j + 1 - 1]]
        BY <1>20, <4>1 DEF Taken
      <4>3. ~(j < v) /\ j >= last
        BY <1>3, <2>2, <3>0, <3>2
      <4>4. cch[s[j + 1]] = cch[s[j]]
        BY <3>0, <4>2, <4>3
      <4>5. cch[s[j]] = cch[s[last]]
        BY <2>4, <4>3
      <4> QED BY <3>0, <4>4, <4>5
    <3> QED BY <2>2, <3>0, <3>1, <3>2
  <2>5. \A j \in 1..ccid : j \in Tie
    <3> HIDE DEF Tie
    <3> QED BY <1>1, <2>3, <2>4, IntervalInduction
  <2>6. cch[s[n]] = cch[s[last]]
    BY <2>2, <2>5
  <2>7. s[last] \in chosen /\ wf[s[last]] = last - 1
    BY <1>5, <2>2
  <2>8. last - 1 = IF v = 0 THEN 0 ELSE v - 1
    BY <1>3
  <2> QED BY <2>1, <2>6, <2>7, <2>8
<1>21. /\ chosen \subseteq Reps
       /\ filter.mode = "TopK" /\ chosen # Reps => Cardinality(chosen) >= (IF v = 0 THEN 1 ELSE v)
  <2>1. filter.mode = "TopK" /\ chosen # Reps => ccid >= (IF v = 0 THEN 1 ELSE v)
    BY <1>1, <1>18
  <2> QED BY <1>4, <1>7, <2>1
<1> HIDE DEF v
<1>22. /\ filter.mode = "MinSize" => \A r \in Reps : r \in chosen <=> cch[r].nodes >= v
       /\ filter.mode = "TopK" =>
            /\ \A r \in chosen, q \in Reps \ chosen : LargerCount(cch[r], cch[q])
            /\ \A r \in chosen : wf[r] >= v =>
                 \E q \in chosen : wf[q] = (IF v = 0 THEN 0 ELSE v - 1) /\ cch[r] = cch[q]
  BY <1>17, <1>19, <1>20
<1>23. /\ chosen \subseteq Reps
       /\ \A r \in chosen : wf[r] \in 0..(Cardinality(chosen) - 1)
       /\ \A n \in 0..(Cardinality(chosen) - 1) : \E r \in chosen : wf[r] = n
       /\ \A r, q \in chosen : wf[r] = wf[q] => r = q
       /\ \A r, q \in chosen : wf[r] < wf[q] => Larger(r, q)
  BY <1>12, <1>13, <1>14, <1>21
<1>24. filter.mode = "TopK" => (chosen # Reps => Cardinality(chosen) >= (IF v = 0 THEN 1 ELSE v))
  BY <1>21
<1>25. filter.mode = "TopK" =>
         /\ chosen # Reps => Cardinality(chosen) >= (IF v = 0 THEN 1 ELSE v)
         /\ \A r \in chosen, q \in Reps \ chosen : LargerCount(cch[r], cch[q])
         /\ \A r \in chosen : wf[r] >= v =>
              \E q \in chosen : wf[q] = (IF v = 0 THEN 0 ELSE v - 1) /\ cch[r] = cch[q]
  BY <1>22, <1>24
<1>26. filter.mode = "MinSize" => \A r \in Reps : r \in chosen <=> cch[r].nodes >= v
  BY <1>22
<1> QED BY <1>15, <1>23, <1>25, <1>26, Zenon DEF RightChoice, chosen, v

LEMMA FilterStep ==
  CollectInv /\ UniteInv /\ SortedInv /\ FilterInv /\ [Next]_vars => FilterInv'
<1> SUFFICES ASSUME CollectInv, UniteInv, SortedInv, FilterInv, [Next]_vars PROVE FilterInv'
  OBVIOUS
<1>1. CASE WriteHeader \/ WriteNode \/ WriteEdge \/ EndGraph \/ Unite \/ SortByRep
  <2>1. files' = files /\ files = Empty /\ phase' \in {"collect", "unite", "filter", "aborted"}
    BY <1>1 DEF CollectInv, WriteHeader, WriteNode, WriteEdge, EndGraph, Unite, SortByRep, cursors
  <2>2. Empty' = Empty
    BY DEF Empty
  <2> QED BY <2>1, <2>2 DEF FilterInv, Split
<1>2. CASE ChooseComponents
  <2>1. /\ phase = "filter" /\ files' = files /\ files = Empty /\ UNCHANGED <<rep, m_nodes, cch, filter>>
    BY <1>2 DEF ChooseComponents, CollectInv, collected, sets, sorted
  <2>2. Empty' = Empty
    BY DEF Empty
  <2>3. CASE phase' = "aborted"
    BY <2>1, <2>2, <2>3 DEF FilterInv, Split
  <2>4. ASSUME NEW s \in SizeOrders, NEW ccid \in 0..Len(s), LoopEnds(s, ccid),
               write_filter' = [r \in {s[n] : n \in 1..ccid} |-> (CHOOSE n \in 1..ccid : s[n] = r) - 1]
        PROVE  FilterInv'
    <3>1. PICK wf : wf = [r \in {s[n] : n \in 1..ccid} |-> (CHOOSE n \in 1..ccid : s[n] = r) - 1]
      OBVIOUS
    <3>2. Sorted
      BY <2>1 DEF Sorted
    <3>3. RightChoice(wf)
      BY <2>4, <3>1, <3>2, ChoiceIsRight
    <3>4. write_filter' = wf /\ Reps' = Reps
      BY <2>1, <2>4, <3>1 DEF Reps, Nodes
    <3>5. RightChoice(write_filter)'
      <4> USE <2>1, <3>4
      <4> HIDE <2>4
      <4>1. \A r, q : Larger(r, q)' <=> Larger(r, q)
        BY DEF Larger
      <4> QED BY <3>3, <4>1 DEF RightChoice
    <3> QED BY <3>5 DEF FilterInv
  <2> QED BY <1>2, <2>3, <2>4 DEF ChooseComponents
<1>3. CASE \/ SkipComponent \/ OpenComponent \/ PutNode \/ EndNodes \/ PutEdge
           \/ CloseComponent \/ Finish \/ UNCHANGED vars
  <2>1. UNCHANGED <<m_nodes, rep, cch, filter, write_filter>>
    BY <1>3 DEF SkipComponent, OpenComponent, PutNode, EndNodes, PutEdge,
       CloseComponent, Finish, vars, collected, sets, sorted
  <2>2. Split' => Split
    BY <1>3 DEF SkipComponent, OpenComponent, PutNode, EndNodes, PutEdge,
       CloseComponent, Finish, vars, Split, Empty
  <2>3. Reps' = Reps
    BY <2>1 DEF Reps, Nodes
  <2> QED BY <2>1, <2>2, <2>3 DEF FilterInv, RightChoice, Larger
<1> QED BY <1>1, <1>2, <1>3 DEF Next

(***************************************************************************)
(* The cursors.                                                            *)
(***************************************************************************)

LEMMA CursorInit == Init => CursorInv
<1> SUFFICES ASSUME Init PROVE CursorInv
  OBVIOUS
<1>1. files = Empty /\ DOMAIN Empty = {} /\ phase = "header" /\ nodePos = 0 /\ edgePos = 0 /\ seen = 0
  BY DEF Init, Empty
<1>2. m_nodes = 0 /\ Len(m_edges) = 0
  BY DEF Init
<1> QED BY <1>1, <1>2 DEF CursorInv, Split

\* Until a component is opened, no file exists.
LEMMA CursorEarly ==
  ASSUME CollectInv, CursorInv,
         WriteHeader \/ WriteNode \/ WriteEdge \/ EndGraph \/ Unite \/ SortByRep
  PROVE  CursorInv'
<1>1. files' = files /\ files = Empty /\ UNCHANGED cursors /\ seen = 0 /\ nodePos = 0 /\ edgePos = 0
      /\ phase' \in {"collect", "unite", "filter", "aborted"}
  BY DEF CollectInv, CursorInv, WriteHeader, WriteNode, WriteEdge, EndGraph, Unite, SortByRep
<1>2. Empty' = Empty /\ DOMAIN Empty = {}
  BY DEF Empty
<1>3. m_nodes \in Nat /\ m_edges \in Seq(EdgeRecords) /\ Len(m_edges) \in Nat
  BY Sizes
<1>4. m_nodes' \in Nat
  BY <1>3 DEF WriteHeader, WriteNode, WriteEdge, EndGraph, Unite, SortByRep, collected
<1>5. Len(m_edges') \in Nat
  BY <1>3 DEF WriteHeader, WriteNode, WriteEdge, EndGraph, Unite, SortByRep, collected
<1>6. nodePos' = 0 /\ edgePos' = 0 /\ seen' = 0
  BY <1>1 DEF cursors
<1> QED BY <1>1, <1>2, <1>4, <1>5, <1>6 DEF CursorInv, Split

\* What does not change once the vectors are sorted.
LEMMA Unmoved ==
  ASSUME UNCHANGED <<m_nodes, m_edges, rep, cch, nodesSortedByRep, edgesSortedByRep>>
  PROVE  /\ Nodes' = Nodes /\ Reps' = Reps /\ Low' = Low /\ Block' = Block
         /\ FileTypes' = FileTypes
<1>1. Nodes' = Nodes /\ Edges' = Edges
  BY DEF Nodes, Edges
<1>2. Reps' = Reps
  BY <1>1 DEF Reps
<1>3. Low' = Low
  BY <1>1, <1>2 DEF Low, LowReps, LowNodes, LowEdges, EdgeAt
<1>4. Block' = Block
  BY <1>2, <1>3 DEF Block, EdgeAt
<1> QED BY <1>1, <1>2, <1>3, <1>4 DEF FileTypes

LEMMA WriteUnmoved ==
  ASSUME \/ ChooseComponents \/ SkipComponent \/ OpenComponent \/ PutNode \/ EndNodes \/ PutEdge
         \/ CloseComponent \/ Finish
  PROVE  /\ UNCHANGED <<m_nodes, m_edges, rep, cch, nodesSortedByRep, edgesSortedByRep>>
         /\ Nodes' = Nodes /\ Reps' = Reps /\ Low' = Low /\ Block' = Block
         /\ FileTypes' = FileTypes
<1>1. UNCHANGED <<m_nodes, m_edges, rep, cch, nodesSortedByRep, edgesSortedByRep>>
  BY DEF ChooseComponents, SkipComponent, OpenComponent, PutNode, EndNodes, PutEdge,
     CloseComponent, Finish, collected, sets, sorted
<1> QED BY <1>1, Unmoved

Placed == Sorted /\ FilterInv /\ CursorInv

\* A change of one file leaves what is done as it is.
LEMMA OthersStay ==
  ASSUME NEW fs, NEW gs, NEW wf, NEW blocks, NEW bound, NEW O, NEW id,
         DoneBelow(fs, wf, blocks, bound, O),
         \A r \in DOMAIN wf : r < bound => wf[r] # id,
         DOMAIN gs = DOMAIN fs \cup {id},
         \A c \in DOMAIN fs : c # id => gs[c] = fs[c]
  PROVE  DoneBelow(gs, wf, blocks, bound, O \cup {id})
BY DEF DoneBelow

\* The components before the one that is being written have other files.
LEMMA OtherIds ==
  ASSUME FilterInv, Split, NEW R \in DOMAIN write_filter, R \in Nat
  PROVE  \A r \in DOMAIN write_filter : r < R => write_filter[r] # write_filter[R]
<1>1. \A r, q \in DOMAIN write_filter : write_filter[r] = write_filter[q] => r = q
  BY DEF FilterInv, RightChoice
<1>2. \A r : r < R => r # R
  BY DEF FilterInv
<1> QED BY <1>1, <1>2

\* The first choice: nothing is below the bound 0.
LEMMA CursorChoose ==
  ASSUME Placed, ChooseComponents PROVE CursorInv'
<1>1. /\ Low' = Low /\ Block' = Block /\ Nodes' = Nodes /\ m_nodes' = m_nodes /\ m_edges' = m_edges
  BY WriteUnmoved
<1>2. files' = files /\ files = Empty /\ UNCHANGED cursors /\ seen = 0 /\ nodePos = 0 /\ edgePos = 0
      /\ phase' \in {"aborted", "next"}
  BY DEF Placed, Sorted, CollectInv, CursorInv, ChooseComponents
<1>3. Empty' = Empty /\ DOMAIN Empty = {}
  BY DEF Empty
<1>4. m_nodes \in Nat /\ Len(m_edges) \in Nat /\ Reps \in SUBSET Nat /\ rep \in [Nodes -> Nat]
      /\ \A k \in Edges : rep[EdgeAt(k).source] \in Nat
  BY Sizes, SortedFacts DEF Placed, Sorted
<1>5. nodePos' = 0 /\ edgePos' = 0 /\ seen' = 0
  BY <1>2 DEF cursors
<1>6. CASE phase' = "aborted"
  BY <1>1, <1>2, <1>3, <1>4, <1>5, <1>6 DEF CursorInv, Split
<1>7. CASE phase' = "next"
  <2>1. nodeIdRemap' = [i \in Nodes |-> 0]
    BY <1>7 DEF ChooseComponents
  <2>2. nodeIdRemap' \in [Nodes -> Nat]
    BY <2>1
  <2>3. Low[0].nodes = 0 /\ Low[0].edges = 0 /\ Low[0].reps = 0
    <3>1. 0 \in 0..m_nodes /\ Cardinality({}) = 0
      BY <1>4, FS_EmptySet
    <3>2. LowNodes(0) = {} /\ LowReps(0) = {} /\ LowEdges(0) = {}
      <4>0. \A n \in Nat : ~(n < 0)
        OBVIOUS
      <4>1. LowNodes(0) = {}
        <5>1. \A i \in Nodes : rep[i] \in Nat
          BY <1>4
        <5> QED BY <4>0, <5>1 DEF LowNodes
      <4>2. LowReps(0) = {}
        BY <1>4, <4>0 DEF LowReps
      <4>3. LowEdges(0) = {}
        BY <1>4, <4>0 DEF LowEdges
      <4> QED BY <4>1, <4>2, <4>3
    <3> QED BY <3>1, <3>2 DEF Low
  <2>4. DoneBelow(files', write_filter', Block', 0, {})
    <3>1. DOMAIN write_filter' \subseteq Nat
      <4>0. PICK s \in SizeOrders : \E ccid \in 0..Len(s) :
              write_filter' = [r \in {s[n] : n \in 1..ccid} |-> (CHOOSE n \in 1..ccid : s[n] = r) - 1]
        BY <1>7 DEF ChooseComponents
      <4>1. PICK ccid \in 0..Len(s) :
              write_filter' = [r \in {s[n] : n \in 1..ccid} |-> (CHOOSE n \in 1..ccid : s[n] = r) - 1]
        BY <4>0
      <4>2. Lists(s, Reps) /\ Len(s) = Cardinality(Reps) /\ Len(s) \in Nat
        <5>1. Lists(s, Reps) /\ s \in [1..Cardinality(Reps) -> Reps] /\ Cardinality(Reps) \in Nat
          BY SortedFacts, SeqsAreLists DEF SizeOrders, Placed
        <5> QED BY <5>1
      <4>3. \A n \in 1..ccid : s[n] \in Reps
        BY <4>2 DEF Lists
      <4> QED BY <1>4, <4>1, <4>3
    <3> QED BY <1>2, <1>3, <3>1 DEF DoneBelow
  <2>5. Between'
    <3>1. 0 \in 0..m_nodes'
      BY <1>1, <1>4
    <3>2. seen' = Low'[0].reps /\ nodePos' = Low'[0].nodes /\ edgePos' = Low'[0].edges
      BY <1>1, <1>5, <2>3
    <3> QED BY <2>4, <3>1, <3>2 DEF Between
  <2>6. \A c \in DOMAIN files' : FALSE
    BY <1>2, <1>3
  <2> QED BY <1>1, <1>4, <1>5, <1>7, <2>2, <2>5, <2>6 DEF CursorInv, EndedAreDone
<1> QED BY <1>2, <1>6, <1>7

\* What is used of Placed while the components are written.
LEMMA PlacedFacts ==
  ASSUME Placed, Split
  PROVE  /\ Reps \in SUBSET Nat /\ \A r \in Reps : r \in 0..m_nodes
         /\ DOMAIN write_filter \in SUBSET Reps
         /\ m_nodes \in Nat /\ Len(m_edges) \in Nat
         /\ nodeIdRemap \in [Nodes -> Nat]
         /\ \A c \in DOMAIN files : files[c] \in FileTypes
         /\ \A r \in Reps : /\ cch[r] \in [nodes : Nat, edges : Nat] /\ cch[r].nodes \in Nat
                            /\ cch[r].edges \in Nat /\ Block[r].count = cch[r]
<1>1. Reps \in SUBSET Nodes /\ Nodes = 0..(m_nodes - 1) /\ m_nodes \in Nat /\ Len(m_edges) \in Nat
  BY Sizes, SortedFacts DEF Placed, Sorted
<1>2. Reps \in SUBSET Nat /\ \A r \in Reps : r \in 0..m_nodes
  BY <1>1
<1>3. DOMAIN write_filter \in SUBSET Reps
  BY DEF Placed, FilterInv, RightChoice
<1>4. nodeIdRemap \in [Nodes -> Nat] /\ \A c \in DOMAIN files : files[c] \in FileTypes
  BY DEF Placed, CursorInv
<1>5. \A r \in Reps : /\ cch[r] \in [nodes : Nat, edges : Nat] /\ cch[r].nodes \in Nat
                      /\ cch[r].edges \in Nat /\ Block[r].count = cch[r]
  BY SortedFacts DEF Placed, Block
<1> QED BY <1>1, <1>2, <1>3, <1>4, <1>5

\* Between two components, all is set for the next one.
LEMMA AtNext ==
  ASSUME Placed, phase = "next", seen < ComponentCount
  PROVE  /\ NextRep \in Reps /\ Low[NextRep].reps = seen
         /\ Low[NextRep].nodes = nodePos /\ Low[NextRep].edges = edgePos
         /\ DoneBelow(files, write_filter, Block, NextRep, {})
<1>1. PICK b \in 0..m_nodes :
        /\ seen = Low[b].reps /\ nodePos = Low[b].nodes /\ edgePos = Low[b].edges
        /\ DoneBelow(files, write_filter, Block, b, {})
  BY DEF Placed, CursorInv, Between
<1>2. /\ seen = Cardinality(LowReps(b)) /\ nodePos = Cardinality(LowNodes(b))
      /\ edgePos = Cardinality(LowEdges(b))
  BY <1>1, LowIs DEF Placed
<1>3. /\ NextRep \in Reps /\ b <= NextRep
      /\ LowNodes(NextRep) = LowNodes(b) /\ LowEdges(NextRep) = LowEdges(b)
      /\ LowReps(NextRep) = LowReps(b)
  BY <1>2, NextComponent DEF Placed
<1>4. PICK R \in Reps : R = NextRep
  BY <1>3
<1>5. Split /\ R \in 0..m_nodes /\ b \in Nat /\ R \in Nat
  BY <1>3, <1>4, PlacedFacts DEF Split
<1>6. Low[R].nodes = nodePos /\ Low[R].edges = edgePos /\ Low[R].reps = seen
  BY <1>2, <1>3, <1>4, <1>5, LowIs DEF Placed
<1>7. \A r \in Reps : r < R <=> r < b
  <2>1. \A r : r \in LowReps(R) <=> r \in LowReps(b)
    BY <1>3, <1>4
  <2> QED BY <2>1 DEF LowReps
<1>8. DOMAIN write_filter \in SUBSET Reps
  BY <1>5, PlacedFacts
<1>9. DoneBelow(files, write_filter, Block, R, {})
  <2>1. \A r \in DOMAIN write_filter : r < R <=> r < b
    BY <1>7, <1>8
  <2> QED BY <1>1, <2>1 DEF DoneBelow
<1> QED BY <1>3, <1>4, <1>6, <1>9

LEMMA CursorSkip ==
  ASSUME Placed, SkipComponent PROVE CursorInv'
<1> DEFINE R == NextRep
<1>0. /\ phase = "next" /\ seen < ComponentCount /\ R \notin DOMAIN write_filter
      /\ nodePos' = nodePos + cch[R].nodes /\ edgePos' = edgePos + cch[R].edges /\ seen' = seen + 1
      /\ UNCHANGED <<phase, files, write_filter, nodeIdRemap, m_nodes, m_edges>> /\ Split
  BY DEF SkipComponent, collected, Split
<1>1. /\ Low' = Low /\ Block' = Block /\ Nodes' = Nodes /\ FileTypes' = FileTypes
  BY WriteUnmoved
<1>2. /\ R \in Reps /\ Low[R].reps = seen /\ Low[R].nodes = nodePos /\ Low[R].edges = edgePos
      /\ DoneBelow(files, write_filter, Block, R, {})
  BY <1>0, AtNext
<1> HIDE DEF R
<1>3. PICK b \in 0..m_nodes : b = R + 1
  BY <1>2, LowOfRep DEF Placed
<1>4. /\ Low[b].nodes = nodePos' /\ Low[b].edges = edgePos' /\ Low[b].reps = seen'
  BY <1>0, <1>2, <1>3, LowOfRep DEF Placed
<1>5. DoneBelow(files, write_filter, Block, b, {})
  <2>1. R \in Nat /\ \A r \in DOMAIN write_filter : r \in Nat
    BY <1>0, <1>2, PlacedFacts
  <2>2. \A r \in DOMAIN write_filter : r < b <=> r < R
    BY <1>0, <1>3, <2>1
  <2> QED BY <1>2, <2>2 DEF DoneBelow
<1>6. Between'
  <2>1. DoneBelow(files', write_filter', Block', b, {})
    BY <1>0, <1>1, <1>5
  <2>2. seen' = Low'[b].reps /\ nodePos' = Low'[b].nodes /\ edgePos' = Low'[b].edges /\ b \in 0..m_nodes'
    BY <1>0, <1>1, <1>4
  <2> QED BY <2>1, <2>2 DEF Between
<1>7. nodePos' \in 0..m_nodes' /\ edgePos' \in 0..Len(m_edges')
  <2>1. Low[b].nodes \in 0..m_nodes /\ Low[b].edges \in 0..Len(m_edges)
    BY <1>3, LowIs DEF Placed
  <2> QED BY <1>0, <1>4, <2>1
<1>8. EndedAreDone'
  BY <1>0, <1>1 DEF Placed, CursorInv, EndedAreDone
<1> QED BY <1>0, <1>1, <1>6, <1>7, <1>8 DEF Placed, CursorInv

LEMMA CursorOpen ==
  ASSUME Placed, OpenComponent PROVE CursorInv'
<1> DEFINE R == NextRep
           id == write_filter[R]
           new == [header |-> cch[R], nodes |-> << >>, edges |-> << >>, ended |-> FALSE]
<1>0. /\ phase = "next" /\ seen < ComponentCount /\ R \in DOMAIN write_filter /\ Split
      /\ UNCHANGED <<seen, nodePos, edgePos, cch, write_filter, nodeIdRemap, m_nodes, m_edges>>
  BY DEF OpenComponent, collected, sorted, Split
<1>1. /\ Low' = Low /\ Block' = Block /\ Nodes' = Nodes /\ FileTypes' = FileTypes
  BY WriteUnmoved
<1>2. /\ R \in Reps /\ Low[R].reps = seen /\ Low[R].nodes = nodePos /\ Low[R].edges = edgePos
      /\ DoneBelow(files, write_filter, Block, R, {})
  BY <1>0, AtNext
<1>3. CASE phase' = "aborted" /\ files' = files
  <2>1. EndedAreDone'
    BY <1>0, <1>1, <1>3 DEF Placed, CursorInv, EndedAreDone
  <2> QED BY <1>0, <1>1, <1>3, <2>1 DEF Placed, CursorInv
<1>4. CASE /\ phase' = "nodes" /\ ccrep' = R /\ written' = 0
           /\ files' = [c \in DOMAIN files \cup {id} |-> IF c = id THEN new ELSE files[c]]
  <2>0. /\ cch[R] \in [nodes : Nat, edges : Nat] /\ Block[R].count = cch[R]
        /\ cch[R].nodes \in Nat /\ R \in Nat
        /\ \A c \in DOMAIN files : files[c] \in FileTypes
    BY <1>0, <1>2, PlacedFacts
  <2>1. new \in FileTypes
    BY <2>0 DEF FileTypes
  <2>2. new.header = Block[R].count /\ ~new.ended /\ new.nodes = << >> /\ new.edges = << >>
    BY <2>0
  <2> HIDE DEF new
  <2>3. /\ DOMAIN files' = DOMAIN files \cup {id} /\ files'[id] = new
        /\ \A c \in DOMAIN files : c # id => files'[c] = files[c]
    BY <1>4
  <2>4. \A r \in DOMAIN write_filter : r < R => write_filter[r] # id
    BY <1>0, <2>0, OtherIds DEF Placed
  <2>5. ccId' = id /\ write_filter' = write_filter
    BY <1>0, <1>4 DEF ccId
  <2> HIDE DEF id, R
  <2>6. DoneBelow(files', write_filter, Block, R, {} \cup {id})
    BY <1>2, <2>3, <2>4, OthersStay
  <2>7. {} \cup {id} = {id}
    OBVIOUS
  <2>8. Within'
    <3>1. DoneBelow(files', write_filter', Block', ccrep', {ccId'})
      BY <1>1, <1>4, <2>5, <2>6, <2>7
    <3>2. /\ ccrep' \in DOMAIN write_filter' /\ ccId' \in DOMAIN files' /\ seen' = Low'[ccrep'].reps
          /\ files'[ccId'].header = Block'[ccrep'].count /\ ~files'[ccId'].ended
      BY <1>0, <1>1, <1>2, <1>4, <2>2, <2>3, <2>5
    <3> QED BY <3>1, <3>2 DEF Within
  <2>9. HasNodes(new, Block[R], 0) /\ HasEdges(new, Block[R], 0) /\ Renumbers(nodeIdRemap, Block[R], 0)
    BY <2>2 DEF HasNodes, HasEdges, Renumbers
  <2>10. InNodes'
    <3>1. /\ HasNodes(files'[ccId'], Block'[ccrep'], written') /\ HasEdges(files'[ccId'], Block'[ccrep'], 0)
          /\ Renumbers(nodeIdRemap', Block'[ccrep'], written')
      BY <1>0, <1>1, <1>4, <2>3, <2>5, <2>9
    <3>2. written' \in 0..cch'[ccrep'].nodes
      BY <1>0, <1>4, <2>0
    <3>3. nodePos' = Low'[ccrep'].nodes + written' /\ edgePos' = Low'[ccrep'].edges
      <4>1. Low[R].nodes \in Nat
        BY <1>2, LowOfRep DEF Placed
      <4> QED BY <1>0, <1>1, <1>2, <1>4, <4>1
    <3> QED BY <2>8, <3>1, <3>2, <3>3 DEF InNodes
  <2>11. \A c \in DOMAIN files' : files'[c] \in FileTypes
    BY <2>0, <2>1, <2>3
  <2>12. EndedAreDone'
    <3>1. EndedAreDone
      BY <1>0 DEF Placed, CursorInv
    <3> QED BY <1>0, <1>1, <2>2, <2>3, <3>1 DEF EndedAreDone
  <2>13. nodePos' \in 0..m_nodes' /\ edgePos' \in 0..Len(m_edges') /\ nodeIdRemap' \in [Nodes' -> Nat]
    BY <1>0, <1>1 DEF Placed, CursorInv
  <2> QED BY <1>1, <1>4, <2>10, <2>11, <2>12, <2>13 DEF CursorInv
<1> QED BY <1>3, <1>4 DEF OpenComponent

\* What holds within a component.
LEMMA WithinFacts ==
  ASSUME Placed, Within, Split
  PROVE  /\ ccrep \in DOMAIN write_filter /\ ccrep \in Reps /\ ccrep \in Nat
         /\ ccId = write_filter[ccrep] /\ ccId \in DOMAIN files /\ files[ccId] \in FileTypes
         /\ cch[ccrep].nodes \in Nat /\ cch[ccrep].edges \in Nat /\ Block[ccrep].count = cch[ccrep]
         /\ \A r \in DOMAIN write_filter : r < ccrep => write_filter[r] # ccId
<1>1. ccrep \in DOMAIN write_filter /\ ccId \in DOMAIN files /\ ccId = write_filter[ccrep]
  BY DEF Within, ccId
<1>2. ccrep \in Reps /\ ccrep \in Nat
  BY <1>1, PlacedFacts
<1> QED BY <1>1, <1>2, PlacedFacts, OtherIds DEF Placed

\* A step that changes the current file alone, and does not end it, stays within
\* the component.
LEMMA WithinStep ==
  ASSUME Placed, Within, Split,
         UNCHANGED <<ccrep, seen, write_filter>>, Low' = Low, Block' = Block,
         NEW g, DOMAIN files' = DOMAIN files, files'[ccId] = g,
         \A c \in DOMAIN files : c # ccId => files'[c] = files[c],
         g \in FileTypes, g.header = files[ccId].header, ~g.ended, FileTypes' = FileTypes
  PROVE  /\ Within' /\ EndedAreDone' /\ \A c \in DOMAIN files' : files'[c] \in FileTypes'
         /\ ccId' = ccId
<1> DEFINE id == ccId
<1>1. /\ ccrep \in DOMAIN write_filter /\ id \in DOMAIN files
      /\ \A r \in DOMAIN write_filter : r < ccrep => write_filter[r] # id
  BY WithinFacts
<1>2. ccId' = id
  BY DEF ccId
<1>3. DoneBelow(files, write_filter, Block, ccrep, {id}) /\ DOMAIN files = DOMAIN files \cup {id}
  BY <1>1 DEF Within
<1>4. \A c \in DOMAIN files : c # id => files'[c] = files[c]
  OBVIOUS
<1> HIDE DEF id
<1>5. DoneBelow(files', write_filter, Block, ccrep, {id} \cup {id})
  <2>1. DOMAIN files' = DOMAIN files \cup {id}
    BY <1>3
  <2> QED BY <1>1, <1>3, <1>4, <2>1, OthersStay
<1>6. DoneBelow(files', write_filter', Block', ccrep', {id})
  BY <1>5
<1>7. Within'
  <2>1. /\ ccrep' \in DOMAIN write_filter' /\ ccId' \in DOMAIN files' /\ seen' = Low'[ccrep'].reps
    BY <1>1, <1>2 DEF Within
  <2>2. files'[ccId'].header = Block'[ccrep'].count /\ ~files'[ccId'].ended
    BY <1>2 DEF Within, id
  <2> QED BY <1>2, <1>6, <2>1, <2>2 DEF Within
<1>8. EndedAreDone'
  <2>1. EndedAreDone
    BY DEF Placed, CursorInv
  <2>2. ~files'[id].ended
    BY DEF id
  <2> QED BY <1>4, <2>1, <2>2 DEF EndedAreDone
<1>9. \A c \in DOMAIN files' : files'[c] \in FileTypes'
  <2>1. \A c \in DOMAIN files : files[c] \in FileTypes
    BY PlacedFacts
  <2>2. files'[id] \in FileTypes
    BY DEF id
  <2> QED BY <1>4, <2>1, <2>2
<1> QED BY <1>2, <1>7, <1>8, <1>9 DEF id

\* What an update of one field of a file does.
LEMMA FieldUpdate ==
  ASSUME NEW h, NEW n, NEW e, NEW d, NEW y, NEW f,
         f = [header |-> h, nodes |-> n, edges |-> e, ended |-> d]
  PROVE  /\ [f EXCEPT !.nodes = y] = [header |-> h, nodes |-> y, edges |-> e, ended |-> d]
         /\ [f EXCEPT !.edges = y] = [header |-> h, nodes |-> n, edges |-> y, ended |-> d]
         /\ [f EXCEPT !.ended = y] = [header |-> h, nodes |-> n, edges |-> e, ended |-> y]
         /\ f.header = h /\ f.nodes = n /\ f.edges = e /\ f.ended = d
<1>1. [f EXCEPT !.nodes = y] = [header |-> h, nodes |-> y, edges |-> e, ended |-> d]
  OBVIOUS
<1>2. [f EXCEPT !.edges = y] = [header |-> h, nodes |-> n, edges |-> y, ended |-> d]
  OBVIOUS
<1>3. [f EXCEPT !.ended = y] = [header |-> h, nodes |-> n, edges |-> e, ended |-> y]
  OBVIOUS
<1>4. f.header = h /\ f.nodes = n /\ f.edges = e /\ f.ended = d
  OBVIOUS
<1> QED BY <1>1, <1>2, <1>3, <1>4

LEMMA FileUpdate ==
  ASSUME NEW f \in FileTypes, NEW x, NEW b
  PROVE  /\ [f EXCEPT !.nodes = Append(@, x)]
              = [header |-> f.header, nodes |-> Append(f.nodes, x), edges |-> f.edges, ended |-> f.ended]
         /\ [f EXCEPT !.edges = Append(@, x)]
              = [header |-> f.header, nodes |-> f.nodes, edges |-> Append(f.edges, x), ended |-> f.ended]
         /\ [f EXCEPT !.ended = b]
              = [header |-> f.header, nodes |-> f.nodes, edges |-> f.edges, ended |-> b]
<1>1. f = [header |-> f.header, nodes |-> f.nodes, edges |-> f.edges, ended |-> f.ended]
  BY DEF FileTypes
<1>2. \A y : [f EXCEPT !.nodes = y]
               = [header |-> f.header, nodes |-> y, edges |-> f.edges, ended |-> f.ended]
  BY <1>1, FieldUpdate
<1>3. \A y : [f EXCEPT !.edges = y]
               = [header |-> f.header, nodes |-> f.nodes, edges |-> y, ended |-> f.ended]
  BY <1>1, FieldUpdate
<1>4. \A y : [f EXCEPT !.ended = y]
               = [header |-> f.header, nodes |-> f.nodes, edges |-> f.edges, ended |-> y]
  BY <1>1, FieldUpdate
<1> QED BY <1>2, <1>3, <1>4, Zenon

LEMMA CursorPutNode ==
  ASSUME Placed, PutNode PROVE CursorInv'
<1> DEFINE R == ccrep
           id == ccId
           f == files[id]
           node == nodesSortedByRep[nodePos + 1]
           g == [f EXCEPT !.nodes = Append(@, [id |-> written, node |-> node])]
<1>0. /\ phase = "nodes" /\ written < cch[R].nodes /\ Split /\ InNodes /\ Within
      /\ nodePos' = nodePos + 1 /\ written' = written + 1
      /\ UNCHANGED <<phase, seen, edgePos, ccrep, cch, write_filter, m_nodes, m_edges>>
      /\ nodeIdRemap' = [nodeIdRemap EXCEPT ![node] = written]
  BY DEF PutNode, collected, sorted, Split, Placed, CursorInv, InNodes
<1>1. /\ Low' = Low /\ Block' = Block /\ Nodes' = Nodes /\ FileTypes' = FileTypes
  BY WriteUnmoved
<1>2. /\ R \in Reps /\ id \in DOMAIN files /\ f \in FileTypes /\ cch[R].nodes \in Nat
      /\ Low[R].nodes \in Nat /\ Low[R].nodes + cch[R].nodes <= m_nodes
      /\ m_nodes \in Nat /\ nodeIdRemap \in [Nodes -> Nat]
  BY <1>0, WithinFacts, PlacedFacts, LowOfRep DEF Placed
<1>3. files' = [files EXCEPT ![id] = g]
  BY <1>2 DEF PutNode
<1>4. /\ written \in Nat /\ written + 1 \in 1..cch[R].nodes /\ nodePos = Low[R].nodes + written
  BY <1>0, <1>2 DEF InNodes
<1>5. /\ Block[R].nodes[written + 1] = node /\ node \in Nodes
      /\ \A m \in 1..written : Block[R].nodes[m] # node
  <2>1. PICK n \in 1..cch[R].nodes : n = written + 1
    BY <1>4
  <2>2. /\ Block[R].nodes[n] = nodesSortedByRep[Low[R].nodes + n] /\ Block[R].nodes[n] \in NodesOf(R)
        /\ \A m \in 1..cch[R].nodes : /\ m < n => Block[R].nodes[m] < Block[R].nodes[n]
                                      /\ Block[R].nodes[m] \in NodesOf(R)
    BY <1>2, NodeBlock DEF Placed
  <2>3. Low[R].nodes + n = nodePos + 1
    BY <1>2, <1>4, <2>1
  <2>4. Block[R].nodes[n] = node
    BY <2>2, <2>3
  <2>5. NodesOf(R) \in SUBSET Nodes /\ Nodes \in SUBSET Nat
    BY Sizes DEF NodesOf, Placed, Sorted
  <2>6. \A m \in 1..written : m \in 1..cch[R].nodes /\ m < n
    BY <1>2, <1>4, <2>1
  <2>7. \A m \in 1..written : Block[R].nodes[m] < node /\ Block[R].nodes[m] \in Nat /\ node \in Nat
    BY <2>2, <2>4, <2>5, <2>6
  <2> QED BY <2>1, <2>2, <2>4, <2>5, <2>7
<1> HIDE DEF node
<1>6. /\ g \in FileTypes /\ g.header = f.header /\ g.ended = f.ended /\ g.edges = f.edges
      /\ g.nodes = Append(f.nodes, [id |-> written, node |-> node])
      /\ f.nodes \in Seq([id : Nat, node : Nodes])
  <2>1. /\ f.nodes \in Seq([id : Nat, node : Nodes]) /\ f.header \in [nodes : Nat, edges : Nat]
        /\ f.edges \in Seq(EdgeRecords) /\ f.ended \in BOOLEAN
        /\ f = [header |-> f.header, nodes |-> f.nodes, edges |-> f.edges, ended |-> f.ended]
    BY <1>2 DEF FileTypes
  <2>2. [id |-> written, node |-> node] \in [id : Nat, node : Nodes]
    BY <1>4, <1>5
  <2> HIDE DEF f
  <2>3. g = [header |-> f.header, nodes |-> Append(f.nodes, [id |-> written, node |-> node]),
             edges |-> f.edges, ended |-> f.ended]
    <3>1. f \in FileTypes
      BY <1>2
    <3> QED BY <3>1, FileUpdate
  <2>4. Append(f.nodes, [id |-> written, node |-> node]) \in Seq([id : Nat, node : Nodes])
    BY <2>1, <2>2
  <2> HIDE DEF g
  <2> QED BY <2>1, <2>3, <2>4 DEF FileTypes
<1> HIDE DEF g
<1>7. DOMAIN files' = DOMAIN files /\ files'[id] = g /\ \A c \in DOMAIN files : c # id => files'[c] = files[c]
  BY <1>2, <1>3
<1>8. Within' /\ EndedAreDone' /\ (\A c \in DOMAIN files' : files'[c] \in FileTypes') /\ ccId' = ccId
  <2>1. ~g.ended
    BY <1>0, <1>6 DEF Within
  <2>2. Within' /\ EndedAreDone' /\ (\A c \in DOMAIN files' : files'[c] \in FileTypes') /\ ccId' = ccId
    BY <1>0, <1>1, <1>6, <1>7, <2>1, WithinStep
  <2> QED BY <2>2
<1>9. HasNodes(g, Block[R], written + 1)
  <2>1. /\ Len(f.nodes) = written
        /\ \A m \in 1..written : f.nodes[m] = [id |-> m - 1, node |-> Block[R].nodes[m]]
    BY <1>0 DEF InNodes, HasNodes
  <2> HIDE DEF f
  <2>2. Len(g.nodes) = written + 1
    BY <1>6, <2>1
  <2>3. \A m \in 1..written : g.nodes[m] = f.nodes[m]
    BY <1>4, <1>6, <2>1
  <2>4. g.nodes[written + 1] = [id |-> written, node |-> node]
    BY <1>4, <1>6, <2>1
  <2>5. written + 1 - 1 = written
    BY <1>4
  <2>6. \A m \in 1..(written + 1) : m \in 1..written \/ m = written + 1
    BY <1>4
  <2>7. g.nodes[written + 1] = [id |-> written + 1 - 1, node |-> Block[R].nodes[written + 1]]
    BY <1>5, <2>4, <2>5
  <2>8. \A m \in 1..(written + 1) : g.nodes[m] = [id |-> m - 1, node |-> Block[R].nodes[m]]
    <3> SUFFICES ASSUME NEW m \in 1..(written + 1)
                 PROVE  g.nodes[m] = [id |-> m - 1, node |-> Block[R].nodes[m]]
      OBVIOUS
    <3>1. CASE m \in 1..written
      BY <2>1, <2>3, <3>1
    <3>2. CASE m = written + 1
      <4>1. m - 1 = written + 1 - 1
        BY <1>4, <3>2
      <4>2. g.nodes[m] = g.nodes[written + 1] /\ Block[R].nodes[m] = Block[R].nodes[written + 1]
        BY <3>2
      <4> QED BY <2>7, <4>1, <4>2
    <3> QED BY <2>6, <3>1, <3>2
  <2> QED BY <2>2, <2>8 DEF HasNodes
<1>10. HasEdges(g, Block[R], 0)
  <2>1. HasEdges(f, Block[R], 0)
    BY <1>0 DEF InNodes
  <2> HIDE DEF f
  <2> QED BY <1>6, <2>1 DEF HasEdges
<1>11. Renumbers(nodeIdRemap', Block[R], written + 1) /\ nodeIdRemap' \in [Nodes -> Nat]
  <2>1. nodeIdRemap' \in [Nodes -> Nat]
    BY <1>0, <1>2, <1>4
  <2>2. nodeIdRemap'[node] = written
    BY <1>0, <1>2, <1>5
  <2>3. \A m \in 1..written : nodeIdRemap'[Block[R].nodes[m]] = m - 1
    <3>1. \A m \in 1..written : nodeIdRemap[Block[R].nodes[m]] = m - 1
      BY <1>0 DEF InNodes, Renumbers
    <3>2. \A m \in 1..written : Block[R].nodes[m] \in Nodes
      <4>1. \A m \in 1..written : m \in 1..cch[R].nodes
        BY <1>2, <1>4
      <4> QED BY <1>2, <4>1, NodeBlock DEF Placed, NodesOf
    <3> QED BY <1>0, <1>2, <1>5, <3>1, <3>2
  <2>4. \A m \in 1..(written + 1) : m \in 1..written \/ m = written + 1
    BY <1>4
  <2>5. nodeIdRemap'[Block[R].nodes[written + 1]] = written + 1 - 1
    BY <1>4, <1>5, <2>2
  <2>6. \A m \in 1..(written + 1) : nodeIdRemap'[Block[R].nodes[m]] = m - 1
    <3> SUFFICES ASSUME NEW m \in 1..(written + 1) PROVE nodeIdRemap'[Block[R].nodes[m]] = m - 1
      OBVIOUS
    <3>1. CASE m \in 1..written
      BY <2>3, <3>1
    <3>2. CASE m = written + 1
      <4>1. m - 1 = written + 1 - 1
        BY <1>4, <3>2
      <4>2. Block[R].nodes[m] = Block[R].nodes[written + 1]
        BY <3>2
      <4> QED BY <2>5, <4>1, <4>2
    <3> QED BY <2>4, <3>1, <3>2
  <2> QED BY <2>1, <2>6 DEF Renumbers
<1>12. InNodes'
  <2>1. /\ HasNodes(files'[ccId'], Block'[ccrep'], written') /\ HasEdges(files'[ccId'], Block'[ccrep'], 0)
        /\ Renumbers(nodeIdRemap', Block'[ccrep'], written')
    <3>1. files'[ccId'] = g
      BY <1>7, <1>8
    <3>2. Block'[ccrep'] = Block[R] /\ written' = written + 1
      BY <1>0, <1>1
    <3> QED BY <1>9, <1>10, <1>11, <3>1, <3>2
  <2>2. written' \in 0..cch'[ccrep'].nodes
    BY <1>0, <1>2, <1>4
  <2>3. nodePos' = Low'[ccrep'].nodes + written' /\ edgePos' = Low'[ccrep'].edges
    <3>1. edgePos = Low[R].edges
      BY <1>0 DEF InNodes
    <3> QED BY <1>0, <1>1, <1>2, <1>4, <3>1
  <2> QED BY <1>8, <2>1, <2>2, <2>3 DEF InNodes
<1>13. nodePos' \in 0..m_nodes' /\ edgePos' \in 0..Len(m_edges')
  <2>1. edgePos \in 0..Len(m_edges) /\ edgePos' = edgePos /\ m_edges' = m_edges /\ m_nodes' = m_nodes
    BY <1>0 DEF Placed, CursorInv
  <2>2. PICK low \in Nat, n \in Nat : low = Low[R].nodes /\ n = cch[R].nodes
    BY <1>2
  <2>3. nodePos' = low + written + 1 /\ written + 1 <= n /\ low + n <= m_nodes
    BY <1>0, <1>2, <1>4, <2>2
  <2>4. nodePos' \in 0..m_nodes
    BY <1>2, <1>4, <2>3
  <2> QED BY <2>1, <2>4
<1> QED BY <1>0, <1>1, <1>8, <1>11, <1>12, <1>13 DEF CursorInv

LEMMA CursorEndNodes ==
  ASSUME Placed, EndNodes PROVE CursorInv'
<1>0. /\ phase = "nodes" /\ written = cch[ccrep].nodes /\ Split /\ InNodes /\ Within
      /\ phase' = "edges" /\ written' = 0
      /\ UNCHANGED <<files, seen, nodePos, edgePos, ccrep, cch, write_filter, m_nodes, m_edges, nodeIdRemap>>
  BY DEF EndNodes, collected, sorted, Split, Placed, CursorInv, InNodes
<1>1. /\ Low' = Low /\ Block' = Block /\ Nodes' = Nodes /\ FileTypes' = FileTypes
  BY WriteUnmoved
<1>2. ccrep \in Reps /\ cch[ccrep].edges \in Nat /\ Low[ccrep].edges \in Nat
  BY <1>0, WithinFacts, LowOfRep DEF Placed
<1>3. ccId' = ccId
  BY <1>0 DEF ccId
<1>4. Within' /\ EndedAreDone'
  <2>1. EndedAreDone
    BY <1>0 DEF Placed, CursorInv
  <2> QED BY <1>0, <1>1, <1>3, <2>1 DEF Within, EndedAreDone
<1>5. InEdges'
  <2>1. /\ HasNodes(files'[ccId'], Block'[ccrep'], cch'[ccrep'].nodes)
        /\ HasEdges(files'[ccId'], Block'[ccrep'], written')
        /\ Renumbers(nodeIdRemap', Block'[ccrep'], cch'[ccrep'].nodes)
    BY <1>0, <1>1, <1>3 DEF InNodes
  <2>2. /\ written' \in 0..cch'[ccrep'].edges
        /\ nodePos' = Low'[ccrep'].nodes + cch'[ccrep'].nodes
        /\ edgePos' = Low'[ccrep'].edges + written'
    BY <1>0, <1>1, <1>2 DEF InNodes
  <2> QED BY <1>4, <2>1, <2>2 DEF InEdges
<1> QED BY <1>0, <1>1, <1>4, <1>5 DEF Placed, CursorInv

LEMMA CursorPutEdge ==
  ASSUME Placed, PutEdge PROVE CursorInv'
<1> DEFINE R == ccrep
           id == ccId
           f == files[id]
           e == m_edges[edgesSortedByRep[edgePos + 1]]
           g == [f EXCEPT !.edges = Append(@, Remapped(e))]
<1>0. /\ phase = "edges" /\ written < cch[R].edges /\ Split /\ InEdges /\ Within
      /\ edgePos' = edgePos + 1 /\ written' = written + 1
      /\ UNCHANGED <<phase, seen, nodePos, ccrep, cch, write_filter, m_nodes, m_edges, nodeIdRemap>>
  BY DEF PutEdge, collected, sorted, Split, Placed, CursorInv, InEdges
<1>1. /\ Low' = Low /\ Block' = Block /\ Nodes' = Nodes /\ FileTypes' = FileTypes
  BY WriteUnmoved
<1>2. /\ R \in Reps /\ id \in DOMAIN files /\ f \in FileTypes /\ cch[R].nodes \in Nat /\ cch[R].edges \in Nat
      /\ Low[R].edges \in Nat /\ Low[R].edges + cch[R].edges <= Len(m_edges)
      /\ Len(m_edges) \in Nat /\ nodeIdRemap \in [Nodes -> Nat] /\ Block[R].count = cch[R]
  BY <1>0, WithinFacts, PlacedFacts, LowOfRep DEF Placed
<1>3. files' = [files EXCEPT ![id] = g]
  BY <1>2 DEF PutEdge
<1>4. /\ written \in Nat /\ written + 1 \in 1..cch[R].edges /\ edgePos = Low[R].edges + written
  BY <1>0, <1>2 DEF InEdges
<1>5. Block[R].edges[written + 1] = e /\ e.source \in NodesOf(R) /\ e.target \in NodesOf(R)
  <2>1. PICK n \in 1..cch[R].edges : n = written + 1
    BY <1>4
  <2>2. /\ Block[R].edges[n] = EdgeAt(edgesSortedByRep[Low[R].edges + n])
        /\ Block[R].edges[n].source \in NodesOf(R) /\ Block[R].edges[n].target \in NodesOf(R)
    BY <1>2, EdgeBlock DEF Placed
  <2>3. Low[R].edges + n = edgePos + 1
    <3>1. PICK low \in Nat : low = Low[R].edges
      BY <1>2
    <3>2. edgePos = low + written
      BY <1>4, <3>1
    <3>3. low + n = edgePos + 1
      BY <1>4, <2>1, <3>2
    <3> QED BY <3>1, <3>3
  <2>4. Block[R].edges[n] = e
    BY <2>2, <2>3 DEF EdgeAt
  <2> QED BY <2>1, <2>2, <2>4
<1> HIDE DEF e
\* nodeIdRemap holds the place of an end of the edge among the nodes written.
<1>6. ASSUME NEW i \in NodesOf(R)
      PROVE  /\ nodeIdRemap[i] \in Nat /\ nodeIdRemap[i] + 1 \in 1..cch[R].nodes
             /\ Block[R].nodes[nodeIdRemap[i] + 1] = i
  <2>1. PICK m \in 1..cch[R].nodes : Block[R].nodes[m] = i
    BY <1>2, NodeBlock DEF Placed
  <2>2. nodeIdRemap[i] = m - 1
    BY <1>0, <2>1 DEF InEdges, Renumbers
  <2>3. m - 1 \in Nat /\ m - 1 + 1 = m
    BY <1>2
  <2> QED BY <2>1, <2>2, <2>3
<1>7. /\ Remapped(e).source = nodeIdRemap[e.source] /\ Remapped(e).target = nodeIdRemap[e.target]
      /\ Remapped(e) \in EdgeRecords
  BY <1>5, <1>6 DEF Remapped, EdgeRecords
<1>8. /\ g \in FileTypes /\ g.header = f.header /\ g.ended = f.ended /\ g.nodes = f.nodes
      /\ g.edges = Append(f.edges, Remapped(e)) /\ f.edges \in Seq(EdgeRecords)
  <2>1. /\ f.nodes \in Seq([id : Nat, node : Nodes]) /\ f.header \in [nodes : Nat, edges : Nat]
        /\ f.edges \in Seq(EdgeRecords) /\ f.ended \in BOOLEAN
    BY <1>2 DEF FileTypes
  <2> HIDE DEF f
  <2>2. g = [header |-> f.header, nodes |-> f.nodes, edges |-> Append(f.edges, Remapped(e)), ended |-> f.ended]
    BY <1>2, FileUpdate
  <2>3. Append(f.edges, Remapped(e)) \in Seq(EdgeRecords)
    BY <1>7, <2>1
  <2> HIDE DEF g
  <2> QED BY <2>1, <2>2, <2>3 DEF FileTypes
<1> HIDE DEF g
<1>9. DOMAIN files' = DOMAIN files /\ files'[id] = g /\ \A c \in DOMAIN files : c # id => files'[c] = files[c]
  BY <1>2, <1>3
<1>10. Within' /\ EndedAreDone' /\ (\A c \in DOMAIN files' : files'[c] \in FileTypes') /\ ccId' = ccId
  <2>1. ~g.ended
    BY <1>0, <1>8 DEF Within
  <2> QED BY <1>0, <1>1, <1>8, <1>9, <2>1, WithinStep
<1>11. HasNodes(g, Block[R], cch[R].nodes)
  <2>1. HasNodes(f, Block[R], cch[R].nodes)
    BY <1>0 DEF InEdges
  <2> HIDE DEF f
  <2> QED BY <1>8, <2>1 DEF HasNodes
<1>12. HasEdges(g, Block[R], written + 1)
  <2> DEFINE Fits(x, m) == /\ x.source + 1 \in 1..cch[R].nodes /\ x.target + 1 \in 1..cch[R].nodes
                           /\ Block[R].nodes[x.source + 1] = Block[R].edges[m].source
                           /\ Block[R].nodes[x.target + 1] = Block[R].edges[m].target
  <2>1. Len(f.edges) = written /\ \A m \in 1..written : Fits(f.edges[m], m)
    BY <1>0, <1>2 DEF InEdges, HasEdges
  <2> HIDE DEF f
  <2>2. /\ Len(g.edges) = written + 1 /\ g.edges[written + 1] = Remapped(e)
        /\ \A m \in 1..written : g.edges[m] = f.edges[m]
    BY <1>4, <1>7, <1>8, <2>1
  <2>3. Fits(Remapped(e), written + 1)
    <3>1. /\ nodeIdRemap[e.source] + 1 \in 1..cch[R].nodes /\ nodeIdRemap[e.target] + 1 \in 1..cch[R].nodes
          /\ Block[R].nodes[nodeIdRemap[e.source] + 1] = e.source
          /\ Block[R].nodes[nodeIdRemap[e.target] + 1] = e.target
      BY <1>5, <1>6
    <3> QED BY <1>5, <1>7, <3>1
  <2>4. \A m \in 1..(written + 1) : m \in 1..written \/ m = written + 1
    BY <1>4
  <2>5. \A m \in 1..(written + 1) : Fits(g.edges[m], m)
    <3> SUFFICES ASSUME NEW m \in 1..(written + 1) PROVE Fits(g.edges[m], m)
      OBVIOUS
    <3>1. CASE m \in 1..written
      <4>1. Fits(f.edges[m], m) /\ g.edges[m] = f.edges[m]
        BY <2>1, <2>2, <3>1
      <4> HIDE DEF Fits
      <4> QED BY <4>1
    <3>2. CASE m = written + 1
      <4> HIDE DEF Fits
      <4>1. Fits(g.edges[written + 1], written + 1)
        BY <2>2, <2>3
      <4> QED BY <3>2, <4>1
    <3> HIDE DEF Fits
    <3> QED BY <2>4, <3>1, <3>2
  <2> QED BY <1>2, <2>2, <2>5 DEF HasEdges
<1>13. InEdges'
  <2>1. files'[ccId'] = g
    BY <1>9, <1>10
  <2>2. Block'[ccrep'] = Block[R] /\ written' = written + 1 /\ cch'[ccrep'] = cch[R] /\ nodeIdRemap' = nodeIdRemap
    BY <1>0, <1>1
  <2>3. Renumbers(nodeIdRemap, Block[R], cch[R].nodes)
    BY <1>0 DEF InEdges
  <2>4. /\ HasNodes(files'[ccId'], Block'[ccrep'], cch'[ccrep'].nodes)
        /\ HasEdges(files'[ccId'], Block'[ccrep'], written')
        /\ Renumbers(nodeIdRemap', Block'[ccrep'], cch'[ccrep'].nodes)
    BY <1>11, <1>12, <2>1, <2>2, <2>3
  <2>5. written' \in 0..cch'[ccrep'].edges
    BY <1>2, <1>4, <2>2
  <2>6. nodePos' = Low'[ccrep'].nodes + cch'[ccrep'].nodes /\ edgePos' = Low'[ccrep'].edges + written'
    <3>1. nodePos = Low[R].nodes + cch[R].nodes
      BY <1>0 DEF InEdges
    <3>2. Low'[ccrep'] = Low[R] /\ nodePos' = nodePos
      BY <1>0, <1>1
    <3>3. nodePos' = Low'[ccrep'].nodes + cch'[ccrep'].nodes
      BY <2>2, <3>1, <3>2
    <3>4. edgePos' = Low[R].edges + written'
      <4>1. PICK low \in Nat : low = Low[R].edges
        BY <1>2
      <4>2. edgePos' = low + written + 1 /\ written' = written + 1
        BY <1>0, <1>4, <4>1
      <4>3. edgePos' = low + written'
        BY <1>4, <4>2
      <4> QED BY <4>1, <4>3
    <3> QED BY <3>2, <3>3, <3>4
  <2> QED BY <1>10, <2>4, <2>5, <2>6 DEF InEdges
<1>14. nodePos' \in 0..m_nodes' /\ edgePos' \in 0..Len(m_edges')
  <2>1. nodePos \in 0..m_nodes /\ nodePos' = nodePos /\ m_edges' = m_edges /\ m_nodes' = m_nodes
    BY <1>0 DEF Placed, CursorInv
  <2>2. PICK low \in Nat, n \in Nat : low = Low[R].edges /\ n = cch[R].edges
    BY <1>2
  <2>3. edgePos' = low + written + 1 /\ written + 1 <= n /\ low + n <= Len(m_edges)
    BY <1>0, <1>2, <1>4, <2>2
  <2>4. edgePos' \in 0..Len(m_edges)
    BY <1>2, <1>4, <2>3
  <2> QED BY <2>1, <2>4
<1>15. nodeIdRemap' \in [Nodes' -> Nat]
  BY <1>0, <1>1, <1>2
<1> QED BY <1>0, <1>10, <1>13, <1>14, <1>15 DEF CursorInv

LEMMA CursorClose ==
  ASSUME Placed, CloseComponent PROVE CursorInv'
<1> DEFINE R == ccrep
           id == ccId
           f == files[id]
           g == [f EXCEPT !.ended = TRUE]
<1>0. /\ phase = "edges" /\ written = cch[R].edges /\ Split /\ InEdges /\ Within
      /\ phase' = "next" /\ seen' = seen + 1
      /\ UNCHANGED <<nodePos, edgePos, ccrep, cch, write_filter, m_nodes, m_edges, nodeIdRemap>>
  BY DEF CloseComponent, collected, sorted, Split, Placed, CursorInv, InEdges
<1>1. /\ Low' = Low /\ Block' = Block /\ Nodes' = Nodes /\ FileTypes' = FileTypes
  BY WriteUnmoved
<1>2. /\ R \in Reps /\ R \in Nat /\ id \in DOMAIN files /\ f \in FileTypes /\ cch[R].nodes \in Nat
      /\ R \in DOMAIN write_filter /\ id = write_filter[R] /\ Block[R].count = cch[R]
      /\ \A r \in DOMAIN write_filter : r < R => write_filter[r] # id
      /\ DOMAIN write_filter \in SUBSET Reps /\ Reps \in SUBSET Nat
  BY <1>0, WithinFacts, PlacedFacts
<1>3. files' = [files EXCEPT ![id] = g]
  BY <1>2 DEF CloseComponent
<1>4. /\ g \in FileTypes /\ g.header = f.header /\ g.ended /\ g.nodes = f.nodes /\ g.edges = f.edges
  <2>1. /\ f.nodes \in Seq([id : Nat, node : Nodes]) /\ f.header \in [nodes : Nat, edges : Nat]
        /\ f.edges \in Seq(EdgeRecords) /\ f.ended \in BOOLEAN
    BY <1>2 DEF FileTypes
  <2> HIDE DEF f
  <2>2. g = [header |-> f.header, nodes |-> f.nodes, edges |-> f.edges, ended |-> TRUE]
    BY <1>2, FileUpdate
  <2> HIDE DEF g
  <2> QED BY <2>1, <2>2 DEF FileTypes
<1>5. DOMAIN files' = DOMAIN files /\ files'[id] = g /\ \A c \in DOMAIN files : c # id => files'[c] = files[c]
  BY <1>2, <1>3
<1>6. IsDone(g, Block[R])
  <2>1. f.header = Block[R].count /\ HasNodes(f, Block[R], cch[R].nodes) /\ HasEdges(f, Block[R], cch[R].edges)
    BY <1>0 DEF Within, InEdges
  <2> HIDE DEF f, g
  <2>2. HasNodes(g, Block[R], cch[R].nodes) /\ HasEdges(g, Block[R], cch[R].edges)
    BY <1>4, <2>1 DEF HasNodes, HasEdges
  <2> QED BY <1>2, <1>4, <2>1, <2>2 DEF IsDone
<1>7. DoneBelow(files, write_filter, Block, R, {id})
  BY <1>0 DEF Within
<1> HIDE DEF id, R, f, g
<1>8. PICK b \in 0..m_nodes : b = R + 1
  BY <1>2, LowOfRep DEF Placed
<1>9. DoneBelow(files', write_filter', Block', b, {})
  <2>1. \A r \in DOMAIN write_filter : r < b <=> r < R \/ r = R
    <3>1. \A r \in DOMAIN write_filter : r \in Nat
      BY <1>2
    <3> QED BY <1>2, <1>8, <3>1
  <2>2. ASSUME NEW r \in DOMAIN write_filter, r < b
        PROVE  write_filter[r] \in DOMAIN files' /\ IsDone(files'[write_filter[r]], Block[r])
    <3>1. CASE r = R
      BY <1>2, <1>5, <1>6, <3>1
    <3>2. CASE r < R
      <4>1. write_filter[r] \in DOMAIN files /\ IsDone(files[write_filter[r]], Block[r])
        BY <1>7, <3>2 DEF DoneBelow
      <4>2. files'[write_filter[r]] = files[write_filter[r]]
        BY <1>2, <1>5, <3>2, <4>1
      <4> QED BY <1>5, <4>1, <4>2
    <3> QED BY <2>1, <2>2, <3>1, <3>2
  <2>3. ASSUME NEW c \in DOMAIN files'
        PROVE  \E r \in DOMAIN write_filter : r < b /\ write_filter[r] = c
    <3>1. c = id \/ \E r \in DOMAIN write_filter : r < R /\ write_filter[r] = c
      BY <1>5, <1>7 DEF DoneBelow
    <3> QED BY <1>2, <2>1, <3>1
  <2>4. DoneBelow(files', write_filter, Block, b, {})
    BY <2>2, <2>3 DEF DoneBelow
  <2> QED BY <1>0, <1>1, <2>4
<1>10. Between'
  <2>1. seen = Low[R].reps /\ nodePos = Low[R].nodes + cch[R].nodes /\ edgePos = Low[R].edges + cch[R].edges
    BY <1>0 DEF Within, InEdges, R
  <2>2. seen' = Low[b].reps /\ nodePos' = Low[b].nodes /\ edgePos' = Low[b].edges
    BY <1>0, <1>2, <1>8, <2>1, LowOfRep DEF Placed
  <2>3. seen' = Low'[b].reps /\ nodePos' = Low'[b].nodes /\ edgePos' = Low'[b].edges /\ b \in 0..m_nodes'
    BY <1>0, <1>1, <2>2
  <2> QED BY <1>9, <2>3 DEF Between
<1>11. EndedAreDone'
  <2>1. EndedAreDone
    BY <1>0 DEF Placed, CursorInv
  <2>2. ASSUME NEW c \in DOMAIN files', files'[c].ended
        PROVE  \E r \in DOMAIN write_filter : write_filter[r] = c /\ IsDone(files'[c], Block[r])
    <3>1. CASE c = id
      BY <1>2, <1>5, <1>6, <3>1
    <3>2. CASE c # id
      BY <1>5, <2>1, <2>2, <3>2 DEF EndedAreDone
    <3> QED BY <3>1, <3>2
  <2> QED BY <1>0, <1>1, <2>2 DEF EndedAreDone
<1>12. \A c \in DOMAIN files' : files'[c] \in FileTypes'
  <2>1. \A c \in DOMAIN files : files[c] \in FileTypes
    BY <1>0, PlacedFacts
  <2> QED BY <1>1, <1>4, <1>5, <2>1
<1>13. nodePos' \in 0..m_nodes' /\ edgePos' \in 0..Len(m_edges') /\ nodeIdRemap' \in [Nodes' -> Nat]
  BY <1>0, <1>1 DEF Placed, CursorInv
<1> QED BY <1>0, <1>10, <1>11, <1>12, <1>13 DEF CursorInv

LEMMA CursorFinish ==
  ASSUME Placed, Finish PROVE CursorInv'
<1>0. /\ phase = "next" /\ seen = ComponentCount /\ Split /\ phase' = "done"
      /\ UNCHANGED <<nodePos, edgePos, seen, files, write_filter, m_nodes, m_edges, nodeIdRemap>>
  BY DEF Finish, collected, cursors, Split
<1>1. /\ Low' = Low /\ Block' = Block /\ Nodes' = Nodes /\ FileTypes' = FileTypes
  BY WriteUnmoved
<1>2. PICK b \in 0..m_nodes : seen = Low[b].reps /\ DoneBelow(files, write_filter, Block, b, {})
  BY <1>0 DEF Placed, CursorInv, Between
<1>3. LowReps(b) = Reps
  <2>1. Cardinality(LowReps(b)) = Cardinality(Reps)
    BY <1>0, <1>2, LowIs, SortedFacts DEF Placed, ComponentCount
  <2>2. IsFiniteSet(Reps) /\ LowReps(b) \in SUBSET Reps
    BY SortedFacts DEF Placed, LowReps
  <2> QED BY <2>1, <2>2, FS_Subset
<1>4. \A r \in DOMAIN write_filter : r < b /\ r < m_nodes
  <2>1. DOMAIN write_filter \in SUBSET Reps
    BY <1>0, PlacedFacts
  <2>2. \A r \in Reps : r < b
    BY <1>3 DEF LowReps
  <2>3. \A r \in Reps : r < m_nodes
    BY NextBound DEF Placed
  <2> QED BY <2>1, <2>2, <2>3
<1>5. DoneBelow(files, write_filter, Block, m_nodes, {})
  BY <1>2, <1>4 DEF DoneBelow
<1>6. DoneBelow(files', write_filter', Block', m_nodes', {})
  BY <1>0, <1>1, <1>5
<1>7. EndedAreDone'
  BY <1>0, <1>1 DEF Placed, CursorInv, EndedAreDone
<1> QED BY <1>0, <1>1, <1>6, <1>7 DEF Placed, CursorInv

LEMMA CursorStutter ==
  ASSUME CursorInv, UNCHANGED vars PROVE CursorInv'
<1>1. /\ UNCHANGED <<m_nodes, m_edges, rep, cch, nodesSortedByRep, edgesSortedByRep>>
      /\ UNCHANGED <<phase, files, write_filter, seen, nodePos, edgePos, ccrep, written, nodeIdRemap>>
  BY DEF vars, collected, sets, sorted, cursors
<1>2. Nodes' = Nodes /\ Low' = Low /\ Block' = Block /\ FileTypes' = FileTypes
  BY <1>1, Unmoved
<1>3. ccId' = ccId /\ (Split' <=> Split)
  BY <1>1 DEF ccId, Split, Empty
<1>4. /\ Within' <=> Within
      /\ EndedAreDone' <=> EndedAreDone
      /\ Between' <=> Between
  BY <1>1, <1>2, <1>3 DEF Within, EndedAreDone, Between
<1>5. (InNodes' <=> InNodes) /\ (InEdges' <=> InEdges)
  BY <1>1, <1>2, <1>3, <1>4 DEF InNodes, InEdges
<1> QED BY <1>1, <1>2, <1>3, <1>4, <1>5 DEF CursorInv

LEMMA CursorStep ==
  CollectInv /\ UniteInv /\ SortedInv /\ FilterInv /\ CursorInv /\ [Next]_vars => CursorInv'
<1> SUFFICES ASSUME CollectInv, UniteInv, SortedInv, FilterInv, CursorInv, [Next]_vars
             PROVE  CursorInv'
  OBVIOUS
<1>1. CASE WriteHeader \/ WriteNode \/ WriteEdge \/ EndGraph \/ Unite \/ SortByRep
  BY <1>1, CursorEarly
<1>2. CASE \/ ChooseComponents \/ SkipComponent \/ OpenComponent \/ PutNode \/ EndNodes \/ PutEdge
           \/ CloseComponent \/ Finish
  <2>1. phase \in {"filter", "next", "nodes", "edges"}
    BY <1>2 DEF ChooseComponents, SkipComponent, OpenComponent, PutNode, EndNodes, PutEdge,
       CloseComponent, Finish
  <2>2. Placed
    BY <2>1 DEF Placed, Sorted, Split
  <2> QED BY <1>2, <2>2, CursorChoose, CursorSkip, CursorOpen, CursorPutNode, CursorEndNodes,
             CursorPutEdge, CursorClose, CursorFinish
<1>3. CASE UNCHANGED vars
  BY <1>3, CursorStutter
<1> QED BY <1>1, <1>2, <1>3 DEF Next

(***************************************************************************)
(* The invariant, and what follows from it.                                *)
(***************************************************************************)

WriterInv == CollectInv /\ UniteInv /\ SortedInv /\ FilterInv /\ CursorInv

\* In every reachable state, what the writer has collected, united, sorted,
\* chosen and written is what belongs to the place in endGraph it has come to.
THEOREM WriterIsPlaced == Spec => []WriterInv
<1>1. Init => WriterInv
  BY CollectInit, UniteInit, SortedInit, FilterInit, CursorInit DEF WriterInv
<1>2. WriterInv /\ [Next]_vars => WriterInv'
  BY CollectStep, UniteStep, SortedStep, FilterStep, CursorStep DEF WriterInv
<1> QED BY <1>1, <1>2, PTL DEF Spec

LEMMA InvImpliesTypeOK == WriterInv => TypeOK
<1> SUFFICES ASSUME WriterInv PROVE TypeOK
  OBVIOUS
<1>1. phase \in {"header", "collect", "unite", "filter", "next", "nodes", "edges", "done", "aborted"}
  BY DEF WriterInv, CollectInv
<1>2. m_nodes \in 0..graph.nodeCount /\ Len(m_edges) <= Len(graph.edges)
  BY DEF WriterInv, CollectInv
<1>3. /\ rep \in [DOMAIN rep -> Nodes] /\ DOMAIN rep \subseteq Nodes /\ united \in 0..Len(m_edges)
  BY DEF WriterInv, UniteInv
<1>4. cch \in [DOMAIN cch -> [nodes : Nat, edges : Nat]]
  BY DEF WriterInv, SortedInv
<1>5. nodePos \in 0..m_nodes /\ edgePos \in 0..Len(m_edges)
  BY DEF WriterInv, CursorInv
<1>6. \A c \in DOMAIN files : files[c] \in FileTypes
  BY DEF WriterInv, CursorInv
<1> QED BY <1>1, <1>2, <1>3, <1>4, <1>5, <1>6 DEF TypeOK, FileTypes, EdgeRecords

\* The writer's state always has the types the code declares, and both cursors
\* stay within their vectors, one behind the last element at most.
THEOREM WriterTypeCorrect == Spec => []TypeOK
BY WriterIsPlaced, InvImpliesTypeOK, PTL

LEMMA InvImpliesCursorsAligned == WriterInv => CursorsAligned
<1> SUFFICES ASSUME WriterInv PROVE CursorsAligned
  OBVIOUS
<1>1. ASSUME phase = "nodes", written < cch[ccrep].nodes
      PROVE  rep[nodesSortedByRep[nodePos + 1]] = ccrep
  <2>1. Split /\ Placed /\ InNodes /\ Within
    BY <1>1 DEF Split, Placed, Sorted, WriterInv, CursorInv, InNodes
  <2>2. ccrep \in Reps /\ cch[ccrep].nodes \in Nat /\ Low[ccrep].nodes \in Nat
    BY <2>1, WithinFacts, LowOfRep DEF Placed
  <2>3. PICK n \in 1..cch[ccrep].nodes : n = written + 1 /\ written \in Nat
    BY <1>1, <2>1, <2>2 DEF InNodes
  <2>4. Block[ccrep].nodes[n] = nodesSortedByRep[Low[ccrep].nodes + n] /\ Block[ccrep].nodes[n] \in NodesOf(ccrep)
    BY <2>1, <2>2, NodeBlock DEF Placed
  <2>5. Low[ccrep].nodes + n = nodePos + 1
    BY <2>1, <2>2, <2>3 DEF InNodes
  <2> QED BY <2>4, <2>5 DEF NodesOf
<1>2. ASSUME phase = "edges", written < cch[ccrep].edges
      PROVE  rep[m_edges[edgesSortedByRep[edgePos + 1]].source] = ccrep
  <2>1. Split /\ Placed /\ InEdges /\ Within
    BY <1>2 DEF Split, Placed, Sorted, WriterInv, CursorInv, InEdges
  <2>2. ccrep \in Reps /\ cch[ccrep].edges \in Nat /\ Low[ccrep].edges \in Nat
    BY <2>1, WithinFacts, LowOfRep DEF Placed
  <2>3. PICK n \in 1..cch[ccrep].edges : n = written + 1 /\ written \in Nat
    BY <1>2, <2>1, <2>2 DEF InEdges
  <2>4. edgesSortedByRep[Low[ccrep].edges + n] \in EdgesOf(ccrep)
    BY <2>1, <2>2, EdgeBlock DEF Placed
  <2>5. Low[ccrep].edges + n = edgePos + 1
    <3>1. PICK low \in Nat : low = Low[ccrep].edges
      BY <2>2
    <3>2. edgePos = low + written
      BY <2>1, <3>1 DEF InEdges
    <3>3. low + n = edgePos + 1
      BY <2>3, <3>2
    <3> QED BY <3>1, <3>3
  <2> QED BY <2>4, <2>5 DEF EdgesOf
<1> QED BY <1>1, <1>2 DEF CursorsAligned

\* Whenever endGraph takes a node or an edge from a vector, it is one of the
\* component it is writing: its assertions never fail.
THEOREM CursorsPointIntoTheirComponent == Spec => []CursorsAligned
BY WriterIsPlaced, InvImpliesCursorsAligned, PTL

\* The sets of union-find are the connected components, counted rightly.
LEMMA SetsAreComponents ==
  ASSUME Sorted
  PROVE  /\ ComponentsOf(graph) = {NodesOf(r) : r \in Reps}
         /\ \A r \in Reps : SizeIn(graph, NodesOf(r)) = cch[r]
<1> DEFINE V == 0..(graph.nodeCount - 1)
<1>1. /\ Nodes = V /\ m_edges = graph.edges /\ Edges = DOMAIN graph.edges
      /\ united = Len(m_edges) /\ Edges = 1..united /\ Len(m_edges) \in Nat
  <2>1. Collected /\ united = Len(m_edges)
    BY DEF Sorted, CollectInv, UniteInv
  <2> QED BY <2>1, Sizes DEF Sorted, Collected, Nodes, Edges
<1>2. \A k \in Edges : /\ EdgeAt(k).source \in Nodes /\ EdgeAt(k).target \in Nodes
                       /\ rep[EdgeAt(k).source] = rep[EdgeAt(k).target]
                       /\ EdgeAt(k) = graph.edges[k]
  BY <1>1, SortedFacts DEF EdgeAt
<1>3. \A T \in SUBSET Nodes : Separate(graph, T) <=> SeparateUpTo(united, T)
  BY <1>1, <1>2 DEF Separate, SeparateUpTo
<1>4. \A T \in SUBSET Nodes : Separate(graph, T) =>
        \A i, j \in Nodes : rep[i] = rep[j] /\ i \in T => j \in T
  BY <1>3 DEF Sorted, UniteInv
<1>5. \A r \in Reps : NodesOf(r) \in SUBSET Nodes /\ NodesOf(r) # {} /\ Separate(graph, NodesOf(r))
  <2> SUFFICES ASSUME NEW r \in Reps
               PROVE  NodesOf(r) \in SUBSET Nodes /\ NodesOf(r) # {} /\ Separate(graph, NodesOf(r))
    OBVIOUS
  <2>1. NodesOf(r) \in SUBSET Nodes /\ NodesOf(r) # {}
    BY DEF NodesOf, Reps
  <2>2. Separate(graph, NodesOf(r))
    BY <1>1, <1>2 DEF Separate, NodesOf
  <2> QED BY <2>1, <2>2
<1> DEFINE separate == {S \in SUBSET V : S # {} /\ Separate(graph, S)}
<1>6. ComponentsOf(graph) = {S \in separate : \A T \in separate : T \subseteq S => T = S}
  BY DEF ComponentsOf
<1>7. ASSUME NEW r \in Reps PROVE NodesOf(r) \in ComponentsOf(graph)
  <2>1. NodesOf(r) \in separate
    BY <1>1, <1>5
  <2>2. ASSUME NEW T \in separate, T \subseteq NodesOf(r) PROVE T = NodesOf(r)
    <3>1. PICK i \in T : TRUE
      BY <2>2
    <3>2. \A j \in NodesOf(r) : j \in T
      BY <1>1, <1>4, <2>2, <3>1 DEF NodesOf
    <3> QED BY <2>2, <3>2
  <2> QED BY <1>6, <2>1, <2>2
<1>8. ASSUME NEW S \in ComponentsOf(graph) PROVE \E r \in Reps : S = NodesOf(r)
  <2>1. S \in separate /\ \A T \in separate : T \subseteq S => T = S
    BY <1>6
  <2>2. PICK i \in S : i \in Nodes
    BY <1>1, <2>1
  <2>3. rep[i] \in Reps
    BY <2>2 DEF Reps
  <2>4. \A j \in NodesOf(rep[i]) : j \in S
    BY <1>1, <1>4, <2>1, <2>2 DEF NodesOf
  <2>5. NodesOf(rep[i]) \in separate
    BY <1>1, <1>5, <2>3
  <2>6. NodesOf(rep[i]) = S
    BY <2>1, <2>4, <2>5
  <2> QED BY <2>3, <2>6
<1>9. ASSUME NEW r \in Reps PROVE SizeIn(graph, NodesOf(r)) = cch[r]
  <2>1. EdgesWithin(graph, NodesOf(r)) = EdgesOf(r)
    <3>1. \A k \in Edges : graph.edges[k].source \in NodesOf(r) <=> rep[m_edges[k].source] = r
      BY <1>1, <1>2 DEF NodesOf, EdgeAt
    <3> QED BY <1>1, <3>1 DEF EdgesWithin, EdgesOf, Edges
  <2>2. /\ cch[r] \in [nodes : Nat, edges : Nat] /\ cch[r].nodes = Cardinality(NodesOf(r))
        /\ cch[r].edges = Cardinality(EdgesOf(r))
    BY SortedFacts
  <2>3. cch[r] = [nodes |-> cch[r].nodes, edges |-> cch[r].edges]
    BY <2>2
  <2> QED BY <2>1, <2>2, <2>3 DEF SizeIn
<1> HIDE DEF separate
<1> QED BY <1>7, <1>8, <1>9

\* The block of a finished file.
LEMMA EndedFile ==
  ASSUME WriterInv, NEW c \in Ended
  PROVE  /\ Placed /\ Split /\ Sorted
         /\ \E r \in DOMAIN write_filter : write_filter[r] = c /\ r \in Reps /\ IsDone(files[c], Block[r])
<1>1. c \in DOMAIN files /\ files[c].ended /\ files # Empty
  BY DEF Ended, Empty
<1>2. Split /\ Placed /\ Sorted
  BY <1>1 DEF Split, Placed, Sorted, WriterInv
<1>3. EndedAreDone /\ DOMAIN write_filter \in SUBSET Reps
  BY <1>2, PlacedFacts DEF Placed, CursorInv
<1> QED BY <1>1, <1>2, <1>3 DEF EndedAreDone

LEMMA FileNodeFields ==
  ASSUME NEW i, NEW n PROVE [id |-> i, node |-> n].id = i /\ [id |-> i, node |-> n].node = n
OBVIOUS

\* The nodes in the file of a component.
LEMMA DoneNodes ==
  ASSUME Placed, Split, NEW r \in Reps, NEW c \in DOMAIN files, IsDone(files[c], Block[r])
  PROVE  /\ Len(files[c].nodes) = cch[r].nodes /\ DOMAIN files[c].nodes = 1..cch[r].nodes
         /\ \A m \in 1..cch[r].nodes : files[c].nodes[m] = [id |-> m - 1, node |-> Block[r].nodes[m]]
         /\ Len(files[c].edges) = cch[r].edges /\ DOMAIN files[c].edges = 1..cch[r].edges
         /\ \A m \in 1..cch[r].edges : files[c].edges[m] \in EdgeRecords
         /\ Content(c) = NodesOf(r)
<1>1. cch[r].nodes \in Nat /\ cch[r].edges \in Nat /\ Block[r].count = cch[r] /\ files[c] \in FileTypes
  BY PlacedFacts
<1>2. files[c].nodes \in Seq([id : Nat, node : Nodes]) /\ files[c].edges \in Seq(EdgeRecords)
  BY <1>1 DEF FileTypes
<1>3. /\ Len(files[c].nodes) = cch[r].nodes /\ Len(files[c].edges) = cch[r].edges
      /\ \A m \in 1..cch[r].nodes : files[c].nodes[m] = [id |-> m - 1, node |-> Block[r].nodes[m]]
  BY <1>1 DEF IsDone, HasNodes, HasEdges
<1>4. DOMAIN files[c].nodes = 1..cch[r].nodes /\ DOMAIN files[c].edges = 1..cch[r].edges
  BY <1>1, <1>2, <1>3
<1>5. \A m \in 1..cch[r].edges : files[c].edges[m] \in EdgeRecords
  BY <1>2, <1>3, <1>4, ElementOfSeq
<1>6. Content(c) = NodesOf(r)
  <2>1. \A m \in 1..cch[r].nodes : files[c].nodes[m].node = Block[r].nodes[m]
    <3> SUFFICES ASSUME NEW m \in 1..cch[r].nodes PROVE files[c].nodes[m].node = Block[r].nodes[m]
      OBVIOUS
    <3>1. files[c].nodes[m] = [id |-> m - 1, node |-> Block[r].nodes[m]]
      BY <1>3
    <3> QED BY <3>1, FileNodeFields
  <2>2. Content(c) = {files[c].nodes[i].node : i \in 1..cch[r].nodes}
    BY <1>4 DEF Content
  <2>3. \A i \in 1..cch[r].nodes : files[c].nodes[i].node \in NodesOf(r)
    BY <2>1, NodeBlock DEF Placed
  <2>4. \A x \in NodesOf(r) : \E i \in 1..cch[r].nodes : files[c].nodes[i].node = x
    BY <2>1, NodeBlock DEF Placed
  <2> QED BY <2>2, <2>3, <2>4
<1> QED BY <1>3, <1>4, <1>5, <1>6

\* The nodes of a component are numbered by their place in its block.
LEMMA BlockPlaces ==
  ASSUME Sorted, NEW r \in Reps, NEW a \in Nat, NEW b \in Nat,
         a + 1 \in 1..cch[r].nodes, b + 1 \in 1..cch[r].nodes
  PROVE  /\ Block[r].nodes[a + 1] = Block[r].nodes[b + 1] => a = b
         /\ Block[r].nodes[a + 1] < Block[r].nodes[b + 1] => a < b
         /\ Block[r].nodes[a + 1] \in Nat /\ Block[r].nodes[b + 1] \in Nat
<1>1. PICK m \in 1..cch[r].nodes, n \in 1..cch[r].nodes : m = a + 1 /\ n = b + 1
  OBVIOUS
<1>2. NodesOf(r) \in SUBSET Nat
  BY Sizes DEF NodesOf, Sorted
<1>3. /\ Block[r].nodes[m] \in NodesOf(r) /\ Block[r].nodes[n] \in NodesOf(r)
      /\ m < n => Block[r].nodes[m] < Block[r].nodes[n]
      /\ n < m => Block[r].nodes[n] < Block[r].nodes[m]
  BY NodeBlock
<1>4. PICK x \in Nat, y \in Nat : x = Block[r].nodes[m] /\ y = Block[r].nodes[n]
  BY <1>2, <1>3
<1>5. (m < n => x < y) /\ (n < m => y < x) /\ (m = n => x = y)
  BY <1>3, <1>4
<1>6. (x = y => a = b) /\ (x < y => a < b)
  BY <1>1, <1>5
<1> QED BY <1>1, <1>4, <1>6

\* What an edge in the file of a component stands for.
LEMMA DoneEdges ==
  ASSUME Placed, Split, NEW r \in Reps, NEW c \in DOMAIN files, IsDone(files[c], Block[r]),
         NEW k \in 1..cch[r].edges, NEW e, e = files[c].edges[k]
  PROVE  /\ e \in EdgeRecords /\ Block[r].edges[k] \in EdgeRecords
         /\ e.source \in Nat /\ e.source + 1 \in 1..cch[r].nodes
         /\ e.target \in Nat /\ e.target + 1 \in 1..cch[r].nodes
         /\ Block[r].nodes[e.source + 1] = Block[r].edges[k].source
         /\ Block[r].nodes[e.target + 1] = Block[r].edges[k].target
         /\ Original(c, e) = Block[r].edges[k]
<1> DEFINE f == files[c]
           B == Block[r]
           p == B.edges[k]
<1>1. /\ e \in EdgeRecords /\ B.count = cch[r] /\ cch[r].nodes \in Nat
      /\ \A m \in 1..cch[r].nodes : f.nodes[m] = [id |-> m - 1, node |-> B.nodes[m]]
  BY DoneNodes, PlacedFacts
<1>2. e.source \in Nat /\ e.target \in Nat
  BY <1>1 DEF EdgeRecords
<1>3. HasEdges(f, B, cch[r].edges)
  BY <1>1 DEF IsDone
<1> HIDE DEF f, B
<1>4. /\ e.source + 1 \in 1..cch[r].nodes /\ B.nodes[e.source + 1] = p.source
      /\ e.target + 1 \in 1..cch[r].nodes /\ B.nodes[e.target + 1] = p.target
  BY <1>1, <1>3 DEF HasEdges, f
<1>5. p \in EdgeRecords
  <2>1. p = EdgeAt(edgesSortedByRep[Low[r].edges + k]) /\ edgesSortedByRep[Low[r].edges + k] \in Edges
    BY EdgeBlock DEF Placed, EdgesOf, Edges, B
  <2>2. m_edges \in Seq(EdgeRecords)
    BY Sizes DEF Placed, Sorted
  <2> QED BY <2>1, <2>2, ElementOfSeq DEF EdgeAt, Edges
<1>6. Original(c, e) = p
  <2>1. \A n \in 1..cch[r].nodes : f.nodes[n].node = B.nodes[n]
    <3> SUFFICES ASSUME NEW n \in 1..cch[r].nodes PROVE f.nodes[n].node = B.nodes[n]
      OBVIOUS
    <3>1. f.nodes[n] = [id |-> n - 1, node |-> B.nodes[n]]
      BY <1>1
    <3> QED BY <3>1, FileNodeFields
  <2>2. f.nodes[e.source + 1].node = p.source /\ f.nodes[e.target + 1].node = p.target
    BY <1>4, <2>1
  <2>3. Original(c, e) = [source |-> p.source, target |-> p.target]
    BY <2>2 DEF Original, f
  <2>4. p = [source |-> p.source, target |-> p.target]
    BY <1>5 DEF EdgeRecords
  <2> QED BY <2>3, <2>4
<1> QED BY <1>1, <1>2, <1>4, <1>5, <1>6 DEF B

\* The block of a component has each of its edges as often as the graph.
LEMMA BlockOccurrences ==
  ASSUME Sorted, NEW r \in Reps, NEW m \in 1..cch[r].edges, NEW x, x = Block[r].edges[m]
  PROVE  Cardinality({k \in 1..cch[r].edges : Block[r].edges[k] = x})
           = Cardinality({j \in DOMAIN graph.edges : graph.edges[j] = x})
<1> DEFINE B == Block[r]
           ne0 == cch[r].edges
           ix(k) == edgesSortedByRep[Low[r].edges + k]
           K == {k \in 1..ne0 : B.edges[k] = x}
           J == {j \in DOMAIN graph.edges : graph.edges[j] = x}
           h == [k \in K |-> ix(k)]
<1>1. \A k \in 1..ne0 : ix(k) \in EdgesOf(r) /\ B.edges[k] = EdgeAt(ix(k))
  BY EdgeBlock
<1>2. /\ m_edges = graph.edges /\ \A j : EdgeAt(j) = graph.edges[j]
      /\ Edges = DOMAIN graph.edges /\ EdgesOf(r) \in SUBSET Edges
  BY DEF Sorted, CollectInv, Collected, EdgeAt, Edges, EdgesOf
<1>3. \A k \in K : ix(k) \in J
  BY <1>1, <1>2
<1>4. \A j, k \in K : ix(j) = ix(k) => j = k
  BY EdgeBlock
<1>5. \A j \in J : \E k \in K : ix(k) = j
  <2> SUFFICES ASSUME NEW j \in J PROVE \E k \in K : ix(k) = j
    OBVIOUS
  <2>1. x = EdgeAt(j) /\ j \in Edges
    BY <1>2
  <2>2. x = EdgeAt(ix(m)) /\ ix(m) \in EdgesOf(r)
    BY <1>1
  <2>3. rep[EdgeAt(j).source] = r
    <3>1. rep[EdgeAt(ix(m)).source] = r
      BY <2>2 DEF EdgesOf, EdgeAt
    <3> QED BY <2>1, <2>2, <3>1
  <2>4. j \in EdgesOf(r)
    BY <2>1, <2>3 DEF EdgesOf, EdgeAt, Edges
  <2>5. PICK k \in 1..ne0 : ix(k) = j
    BY <2>4, EdgeBlock
  <2>6. B.edges[k] = x
    BY <1>1, <2>1, <2>5
  <2> QED BY <2>5, <2>6
<1>6. IsFiniteSet(K)
  <2>1. ne0 \in Nat
    BY SortedFacts
  <2> QED BY <2>1, IntervalFinite, FS_Subset
<1> HIDE DEF K, J, ix
<1>7. h \in [K -> J] /\ \A k \in K : h[k] = ix(k)
  BY <1>3
<1> HIDE DEF h
<1>8. h \in Bijection(K, J)
  BY <1>4, <1>5, <1>7 DEF Bijection, Injection, Surjection, IsInjective
<1>9. Cardinality(K) = Cardinality(J)
  BY <1>6, <1>8, FS_Bijection DEF ExistsBijection
<1> QED BY <1>9 DEF K, J

LEMMA InvImpliesFilesAreComponents == WriterInv => FilesAreComponents
<1> SUFFICES ASSUME WriterInv, NEW c \in Ended
             PROVE  /\ Content(c) \in Components
                    /\ files[c].header = Size(Content(c))
                    /\ Len(files[c].nodes) = files[c].header.nodes
                    /\ Len(files[c].edges) = files[c].header.edges
                    /\ \A i \in DOMAIN files[c].nodes : files[c].nodes[i].id = i - 1
                    /\ \A e \in {files[c].edges[k] : k \in DOMAIN files[c].edges} :
                         /\ {e.source, e.target} \subseteq 0..(Len(files[c].nodes) - 1)
                         /\ Occurrences(files[c].edges, e) = Occurrences(graph.edges, Original(c, e))
  BY DEF FilesAreComponents
<1>1. Placed /\ Split /\ Sorted /\ c \in DOMAIN files
  BY EndedFile DEF Ended
<1>2. PICK r \in DOMAIN write_filter : write_filter[r] = c /\ r \in Reps /\ IsDone(files[c], Block[r])
  BY EndedFile
<1> DEFINE f  == files[c]
           nn0 == cch[r].nodes
           ne0 == cch[r].edges
           B  == Block[r]
<1>3. /\ Len(f.nodes) = nn0 /\ DOMAIN f.nodes = 1..nn0
      /\ \A m \in 1..nn0 : f.nodes[m] = [id |-> m - 1, node |-> B.nodes[m]]
      /\ Len(f.edges) = ne0 /\ DOMAIN f.edges = 1..ne0
      /\ \A m \in 1..ne0 : f.edges[m] \in EdgeRecords
      /\ Content(c) = NodesOf(r)
  BY <1>1, <1>2, DoneNodes
<1>4. nn0 \in Nat /\ ne0 \in Nat /\ f.header = cch[r] /\ B.count = cch[r]
  BY <1>1, <1>2, PlacedFacts DEF IsDone
<1>5. Content(c) \in Components /\ f.header = Size(Content(c))
  BY <1>1, <1>2, <1>3, <1>4, SetsAreComponents DEF Components, Size
<1>6. \A i \in DOMAIN f.nodes : f.nodes[i].id = i - 1
  <2> SUFFICES ASSUME NEW i \in 1..nn0 PROVE f.nodes[i].id = i - 1
    BY <1>3
  <2>1. f.nodes[i] = [id |-> i - 1, node |-> B.nodes[i]]
    BY <1>3
  <2> QED BY <2>1, FileNodeFields
\* What an edge of the file stands for.
<1>7. ASSUME NEW k \in 1..ne0
      PROVE  /\ f.edges[k].source \in Nat /\ f.edges[k].source + 1 \in 1..nn0
             /\ f.edges[k].target \in Nat /\ f.edges[k].target + 1 \in 1..nn0
             /\ B.nodes[f.edges[k].source + 1] = B.edges[k].source
             /\ B.nodes[f.edges[k].target + 1] = B.edges[k].target
  BY <1>1, <1>2, DoneEdges
<1>8. ASSUME NEW m \in 1..ne0
      PROVE  /\ {f.edges[m].source, f.edges[m].target} \subseteq 0..(nn0 - 1)
             /\ Occurrences(f.edges, f.edges[m]) = Occurrences(graph.edges, Original(c, f.edges[m]))
  <2> DEFINE x == B.edges[m]
             K == {k \in 1..ne0 : f.edges[k] = f.edges[m]}
             J == {j \in DOMAIN graph.edges : graph.edges[j] = x}
  <2>1. {f.edges[m].source, f.edges[m].target} \subseteq 0..(nn0 - 1)
    <3>1. /\ f.edges[m].source \in Nat /\ f.edges[m].source + 1 \in 1..nn0
          /\ f.edges[m].target \in Nat /\ f.edges[m].target + 1 \in 1..nn0
      BY <1>7
    <3> HIDE DEF f, nn0
    <3> QED BY <1>4, <3>1
  <2>2. \A k \in 1..ne0 : B.edges[k] \in EdgeRecords
    BY <1>1, <1>2, DoneEdges
  <2>3. \A k \in 1..ne0 : f.edges[k] = f.edges[m] <=> B.edges[k] = x
    <3> SUFFICES ASSUME NEW k \in 1..ne0 PROVE f.edges[k] = f.edges[m] <=> B.edges[k] = B.edges[m]
      OBVIOUS
    <3>1. PICK a \in EdgeRecords, b \in EdgeRecords : a = f.edges[k] /\ b = f.edges[m]
      BY <1>3
    <3>2. PICK p \in EdgeRecords, q \in EdgeRecords : p = B.edges[k] /\ q = B.edges[m]
      BY <2>2
    <3>3. /\ a.source \in Nat /\ a.source + 1 \in 1..nn0 /\ B.nodes[a.source + 1] = p.source
          /\ a.target \in Nat /\ a.target + 1 \in 1..nn0 /\ B.nodes[a.target + 1] = p.target
          /\ b.source \in Nat /\ b.source + 1 \in 1..nn0 /\ B.nodes[b.source + 1] = q.source
          /\ b.target \in Nat /\ b.target + 1 \in 1..nn0 /\ B.nodes[b.target + 1] = q.target
      BY <1>7, <3>1, <3>2
    <3>4. CASE p = q
      <4>1. a.source = b.source /\ a.target = b.target
        BY <1>1, <1>2, <3>3, <3>4, BlockPlaces
      <4>2. a = b
        BY <4>1 DEF EdgeRecords
      <4> QED BY <3>1, <3>2, <3>4, <4>2
    <3>5. CASE a = b
      <4>1. p.source = q.source /\ p.target = q.target
        BY <3>3, <3>5
      <4>2. p = q
        BY <4>1 DEF EdgeRecords
      <4> QED BY <3>1, <3>2, <3>5, <4>2
    <3> QED BY <3>1, <3>2, <3>4, <3>5
  <2>4. Original(c, f.edges[m]) = x
    BY <1>1, <1>2, DoneEdges
  <2>5. Occurrences(f.edges, f.edges[m]) = Cardinality(K)
    BY <1>3 DEF Occurrences
  <2>6. Occurrences(graph.edges, Original(c, f.edges[m])) = Cardinality(J)
    BY <2>4 DEF Occurrences
  <2>7. Cardinality(K) = Cardinality(J)
    <3>1. K = {k \in 1..ne0 : B.edges[k] = x}
      BY <2>3
    <3> QED BY <1>1, <1>2, <3>1, BlockOccurrences
  <2> QED BY <2>1, <2>5, <2>6, <2>7
<1>9. \A e \in {f.edges[k] : k \in DOMAIN f.edges} :
        /\ {e.source, e.target} \subseteq 0..(Len(f.nodes) - 1)
        /\ Occurrences(f.edges, e) = Occurrences(graph.edges, Original(c, e))
  <2> SUFFICES ASSUME NEW k \in 1..ne0
               PROVE  /\ {f.edges[k].source, f.edges[k].target} \subseteq 0..(Len(f.nodes) - 1)
                      /\ Occurrences(f.edges, f.edges[k]) = Occurrences(graph.edges, Original(c, f.edges[k]))
    BY <1>3
  <2> QED BY <1>3, <1>8
<1>10. Len(f.nodes) = f.header.nodes /\ Len(f.edges) = f.header.edges
  BY <1>3, <1>4
<1> QED BY <1>5, <1>6, <1>9, <1>10

\* Every finished file holds one connected component, whole and under its own
\* header, whatever union-find and std::sort do.
THEOREM FilesHoldComponents == Spec => []FilesAreComponents
BY WriterIsPlaced, InvImpliesFilesAreComponents, PTL

LEMMA InvImpliesFilesAreSorted == WriterInv => FilesAreSorted
<1> SUFFICES ASSUME WriterInv, NEW c \in Ended, NEW k \in 1..(Len(files[c].edges) - 1)
             PROVE  \/ files[c].edges[k].source < files[c].edges[k + 1].source
                    \/ /\ files[c].edges[k].source = files[c].edges[k + 1].source
                       /\ files[c].edges[k].target <= files[c].edges[k + 1].target
  BY DEF FilesAreSorted
<1>1. Placed /\ Split /\ Sorted /\ c \in DOMAIN files
  BY EndedFile DEF Ended
<1>2. PICK r \in DOMAIN write_filter : write_filter[r] = c /\ r \in Reps /\ IsDone(files[c], Block[r])
  BY EndedFile
<1>3. /\ cch[r].nodes \in Nat /\ cch[r].edges \in Nat /\ Block[r].count = cch[r]
      /\ Len(files[c].edges) = cch[r].edges /\ \A m \in 1..cch[r].edges : files[c].edges[m] \in EdgeRecords
  BY <1>1, <1>2, PlacedFacts, DoneNodes
<1>4. PICK l \in 1..cch[r].edges : l = k + 1 /\ k \in 1..cch[r].edges /\ k < l
  BY <1>3
<1>5. PICK a \in EdgeRecords, b \in EdgeRecords : a = files[c].edges[k] /\ b = files[c].edges[l]
  BY <1>3, <1>4
<1>6. HasEdges(files[c], Block[r], cch[r].edges)
  BY <1>2, <1>3 DEF IsDone
<1>7. /\ a.source + 1 \in 1..cch[r].nodes /\ Block[r].nodes[a.source + 1] = Block[r].edges[k].source
      /\ a.target + 1 \in 1..cch[r].nodes /\ Block[r].nodes[a.target + 1] = Block[r].edges[k].target
  BY <1>3, <1>4, <1>5, <1>6 DEF HasEdges
<1>8. /\ b.source + 1 \in 1..cch[r].nodes /\ Block[r].nodes[b.source + 1] = Block[r].edges[l].source
      /\ b.target + 1 \in 1..cch[r].nodes /\ Block[r].nodes[b.target + 1] = Block[r].edges[l].target
  BY <1>3, <1>4, <1>5, <1>6 DEF HasEdges
<1>9. \/ Block[r].edges[k].source < Block[r].edges[l].source
      \/ /\ Block[r].edges[k].source = Block[r].edges[l].source
         /\ Block[r].edges[k].target <= Block[r].edges[l].target
  BY <1>1, <1>2, <1>4, EdgeBlock
<1>10. a.source \in Nat /\ a.target \in Nat /\ b.source \in Nat /\ b.target \in Nat
  BY DEF EdgeRecords
<1>11. /\ Block[r].nodes[a.source + 1] < Block[r].nodes[b.source + 1] => a.source < b.source
       /\ Block[r].nodes[a.source + 1] = Block[r].nodes[b.source + 1] => a.source = b.source
  BY <1>1, <1>2, <1>7, <1>8, <1>10, BlockPlaces
<1>12. Block[r].nodes[a.target + 1] <= Block[r].nodes[b.target + 1] => a.target <= b.target
  <2>1. /\ Block[r].nodes[a.target + 1] < Block[r].nodes[b.target + 1] => a.target < b.target
        /\ Block[r].nodes[a.target + 1] = Block[r].nodes[b.target + 1] => a.target = b.target
        /\ Block[r].nodes[a.target + 1] \in Nat /\ Block[r].nodes[b.target + 1] \in Nat
    BY <1>1, <1>2, <1>7, <1>8, <1>10, BlockPlaces
  <2> QED BY <1>10, <2>1
<1>13. a.source < b.source \/ (a.source = b.source /\ a.target <= b.target)
  BY <1>7, <1>8, <1>9, <1>11, <1>12
<1> QED BY <1>4, <1>5, <1>13

\* The edges of every finished file are sorted by source and then by target.
THEOREM FilesStaySorted == Spec => []FilesAreSorted
BY WriterIsPlaced, InvImpliesFilesAreSorted, PTL

\* A function that is injective on a finite set keeps its cardinality.
LEMMA ImageSize ==
  ASSUME NEW P, IsFiniteSet(P), NEW f, DOMAIN f = P, \A a, b \in P : f[a] = f[b] => a = b
  PROVE  IsFiniteSet({f[a] : a \in P}) /\ Cardinality({f[a] : a \in P}) = Cardinality(P)
<1> DEFINE I == {f[a] : a \in P}
           h == [a \in P |-> f[a]]
<1>1. h \in [P -> I] /\ \A a \in P : h[a] = f[a]
  OBVIOUS
<1>2. \A x \in I : \E a \in P : f[a] = x
  OBVIOUS
<1> HIDE DEF h, I
<1>3. h \in Bijection(P, I)
  BY <1>1, <1>2 DEF Bijection, Injection, Surjection, IsInjective
<1>4. Cardinality(I) = Cardinality(P) /\ IsFiniteSet(I)
  BY <1>3, FS_Bijection DEF ExistsBijection
<1> QED BY <1>4 DEF I

LEMMA InvImpliesFilterKeepsTheRightOnes == WriterInv => FilterKeepsTheRightOnes
<1> SUFFICES ASSUME WriterInv, phase = "done" PROVE FilterKeepsTheRightOnes
  BY DEF FilterKeepsTheRightOnes
<1> DEFINE chosen == DOMAIN write_filter
           Nr == [r \in Reps |-> NodesOf(r)]
           v == filter.value
           k == Cardinality(chosen)
<1>1. Split /\ Placed /\ Sorted /\ RightChoice(write_filter) /\ DoneBelow(files, write_filter, Block, m_nodes, {})
  BY DEF Split, Placed, Sorted, WriterInv, FilterInv, CursorInv
<1>2. /\ chosen \in SUBSET Reps /\ IsFiniteSet(chosen) /\ IsFiniteSet(Reps) /\ k \in Nat /\ v \in Nat
      /\ filter.mode \in FilterModes
  <2>1. chosen \in SUBSET Reps /\ IsFiniteSet(Reps)
    BY <1>1, PlacedFacts, SortedFacts
  <2>2. IsFiniteSet(chosen) /\ k \in Nat
    BY <2>1, FS_Subset, FS_CardinalityType
  <2>3. filter \in [mode : FilterModes, value : Nat]
    BY WriterAssumption DEF WriterInv, CollectInv
  <2> QED BY <2>1, <2>2, <2>3
<1>3. /\ \A r \in Reps : /\ cch[r].nodes \in Nat /\ cch[r].edges \in Nat
                         /\ cch[r].nodes = Cardinality(NodesOf(r)) /\ Size(NodesOf(r)) = cch[r]
      /\ Components = {NodesOf(r) : r \in Reps} /\ Reps \in SUBSET Nat
  BY <1>1, SortedFacts, SetsAreComponents, PlacedFacts DEF Components, Size
<1>4. \A r, q \in Reps : NodesOf(r) = NodesOf(q) => r = q
  <2> SUFFICES ASSUME NEW r \in Reps, NEW q \in Reps, NodesOf(r) = NodesOf(q) PROVE r = q
    OBVIOUS
  <2>1. PICK i \in Nodes : rep[i] = r
    BY DEF Reps
  <2> QED BY <2>1 DEF NodesOf
<1>5. /\ \A r \in chosen : write_filter[r] \in DOMAIN files /\ Content(write_filter[r]) = NodesOf(r)
      /\ \A c \in DOMAIN files : \E r \in chosen : write_filter[r] = c
  <2>1. \A r \in Reps : r < m_nodes
    BY <1>1, NextBound
  <2>2. \A r \in chosen : write_filter[r] \in DOMAIN files /\ IsDone(files[write_filter[r]], Block[r])
    BY <1>1, <1>2, <2>1 DEF DoneBelow
  <2>3. \A r \in chosen : Content(write_filter[r]) = NodesOf(r)
    BY <1>1, <1>2, <2>2, DoneNodes
  <2>4. \A c \in DOMAIN files : \E r \in chosen : write_filter[r] = c
    BY <1>1 DEF DoneBelow
  <2> QED BY <2>2, <2>3, <2>4
<1>6. /\ \A r \in chosen : write_filter[r] \in 0..(k - 1)
      /\ \A n \in 0..(k - 1) : \E r \in chosen : write_filter[r] = n
      /\ \A r, q \in chosen : write_filter[r] = write_filter[q] => r = q
      /\ \A r, q \in chosen : write_filter[r] < write_filter[q] => Larger(r, q)
      /\ filter.mode = "All" => chosen = Reps
      /\ filter.mode = "MinSize" => \A r \in Reps : r \in chosen <=> cch[r].nodes >= v
  BY <1>1 DEF RightChoice
<1>7. filter.mode = "TopK" =>
        /\ chosen # Reps => k >= (IF v = 0 THEN 1 ELSE v)
        /\ \A r \in chosen, q \in Reps \ chosen : LargerCount(cch[r], cch[q])
        /\ \A r \in chosen : write_filter[r] >= v =>
             \E q \in chosen : write_filter[q] = (IF v = 0 THEN 0 ELSE v - 1) /\ cch[r] = cch[q]
  BY <1>1 DEF RightChoice
<1> HIDE DEF chosen, v, k
<1>8. Kept = {NodesOf(r) : r \in chosen}
  BY <1>5 DEF Kept
<1>9. Cardinality(Kept) = k
  <2> DEFINE f == [r \in chosen |-> NodesOf(r)]
  <2>1. \A a, b \in chosen : f[a] = f[b] => a = b
    BY <1>2, <1>4
  <2>2. DOMAIN f = chosen /\ Kept = {f[r] : r \in chosen}
    BY <1>8
  <2> HIDE DEF f
  <2> QED BY <1>2, <2>1, <2>2, ImageSize DEF k
<1>10. Dropped = {NodesOf(r) : r \in Reps \ chosen}
  <2>1. \A r \in Reps : NodesOf(r) \in Kept <=> r \in chosen
    BY <1>2, <1>4, <1>8
  <2>2. Dropped = {S \in Components : S \notin Kept}
    BY DEF Dropped
  <2>3. \A S : S \in Dropped <=> S \in {NodesOf(r) : r \in Reps \ chosen}
    BY <1>3, <2>1, <2>2
  <2> QED BY <2>3
<1>11. DOMAIN files = 0..(Cardinality(Kept) - 1)
  <2>1. \A c \in DOMAIN files : c \in 0..(k - 1)
    BY <1>5, <1>6
  <2>2. \A c \in 0..(k - 1) : c \in DOMAIN files
    BY <1>5, <1>6
  <2> QED BY <1>9, <2>1, <2>2
<1>12. \A r, q \in Reps : Larger(r, q) => ~Bigger(cch[q], cch[r])
  <2> SUFFICES ASSUME NEW r \in Reps, NEW q \in Reps, Larger(r, q) PROVE ~Bigger(cch[q], cch[r])
    OBVIOUS
  <2>1. PICK a \in Nat, b \in Nat, c \in Nat, d \in Nat :
          a = cch[r].nodes /\ b = cch[r].edges /\ c = cch[q].nodes /\ d = cch[q].edges
    BY <1>3
  <2>2. a > c \/ (a = c /\ b >= d)
    BY <2>1 DEF Larger
  <2>3. ~(c > a \/ (c = a /\ d > b))
    BY <2>2
  <2> QED BY <2>1, <2>3 DEF Bigger
<1>13. \A c, d \in DOMAIN files : c < d => ~ Bigger(Size(Content(d)), Size(Content(c)))
  <2> SUFFICES ASSUME NEW c \in DOMAIN files, NEW d \in DOMAIN files, c < d
               PROVE  ~ Bigger(Size(Content(d)), Size(Content(c)))
    OBVIOUS
  <2>1. PICK r \in chosen : write_filter[r] = c
    BY <1>5
  <2>2. PICK q \in chosen : write_filter[q] = d
    BY <1>5
  <2>3. Larger(r, q)
    BY <1>6, <2>1, <2>2
  <2>4. Content(c) = NodesOf(r) /\ Content(d) = NodesOf(q)
    BY <1>5, <2>1, <2>2
  <2>5. Size(Content(c)) = cch[r] /\ Size(Content(d)) = cch[q]
    BY <1>2, <1>3, <2>4
  <2> QED BY <1>2, <1>12, <2>3, <2>5
<1>14. CASE filter.mode = "All"
  <2>1. Dropped = {}
    BY <1>6, <1>10, <1>14
  <2> QED BY <1>11, <1>13, <1>14, <2>1 DEF FilterKeepsTheRightOnes
<1>15. CASE filter.mode = "MinSize"
  <2>1. \A r \in Reps : NodesOf(r) \in Kept <=> Cardinality(NodesOf(r)) >= v
    <3>1. \A r \in Reps : NodesOf(r) \in Kept <=> r \in chosen
      BY <1>2, <1>4, <1>8
    <3> QED BY <1>3, <1>6, <1>15, <3>1
  <2>2. \A S \in Kept : S \in Components
    BY <1>2, <1>3, <1>8
  <2>3. \A S : S \in Kept <=> S \in {T \in Components : Cardinality(T) >= v}
    BY <1>3, <2>1, <2>2
  <2>4. Kept = {T \in Components : Cardinality(T) >= v}
    BY <2>3
  <2> QED BY <1>11, <1>13, <1>15, <2>4 DEF FilterKeepsTheRightOnes, v
<1>16. CASE filter.mode = "TopK"
  <2>1. Dropped # {} => Cardinality(Kept) >= v
    <3>1. Dropped # {} => k >= (IF v = 0 THEN 1 ELSE v)
      BY <1>7, <1>10, <1>16
    <3> QED BY <1>2, <1>9, <3>1
  <2>2. \A S \in Dropped, T \in Kept : Bigger(Size(T), Size(S))
    <3> SUFFICES ASSUME NEW q \in Reps \ chosen, NEW r \in chosen
                 PROVE  Bigger(Size(NodesOf(r)), Size(NodesOf(q)))
      BY <1>8, <1>10
    <3>1. LargerCount(cch[r], cch[q])
      BY <1>7, <1>16
    <3>2. Size(NodesOf(r)) = cch[r] /\ Size(NodesOf(q)) = cch[q]
      BY <1>2, <1>3
    <3> QED BY <3>1, <3>2 DEF LargerCount, Bigger
  <2>3. ASSUME NEW q \in chosen
        PROVE  /\ Cardinality({S \in Kept : Bigger(Size(S), cch[q])}) \in Nat
               /\ Cardinality({S \in Kept : Bigger(Size(S), cch[q])}) <= write_filter[q]
    <3> DEFINE P == {p \in chosen : Bigger(cch[p], cch[q])}
               f == [p \in P |-> NodesOf(p)]
               g == [p \in P |-> write_filter[p]]
    <3>1. IsFiniteSet(P) /\ Cardinality(P) \in Nat
      BY <1>2, FS_Subset, FS_CardinalityType
    <3>2. {S \in Kept : Bigger(Size(S), cch[q])} = {f[p] : p \in P}
      <4>1. \A p \in chosen : Size(NodesOf(p)) = cch[p]
        BY <1>2, <1>3
      <4>2. {S \in Kept : Bigger(Size(S), cch[q])} = {NodesOf(p) : p \in P}
        <5>1. \A S : (S \in Kept /\ Bigger(Size(S), cch[q])) <=> \E p \in P : S = NodesOf(p)
          BY <1>8, <4>1
        <5> HIDE DEF P
        <5>2. \A S : S \in {NodesOf(p) : p \in P} <=> \E p \in P : S = NodesOf(p)
          OBVIOUS
        <5>3. \A S : S \in {T \in Kept : Bigger(Size(T), cch[q])} <=> (S \in Kept /\ Bigger(Size(S), cch[q]))
          OBVIOUS
        <5>4. \A S : S \in {T \in Kept : Bigger(Size(T), cch[q])} <=> S \in {NodesOf(p) : p \in P}
          BY <5>1, <5>2, <5>3
        <5> QED BY <5>4
      <4> QED BY <4>2
    <3>3. \A a, b \in P : (f[a] = f[b] => a = b) /\ (g[a] = g[b] => a = b)
      BY <1>2, <1>4, <1>6
    <3>4. \A p \in P : g[p] \in 0..(write_filter[q] - 1)
      <4> SUFFICES ASSUME NEW p \in P PROVE write_filter[p] \in 0..(write_filter[q] - 1)
        OBVIOUS
      <4>1. p \in Reps /\ q \in Reps /\ write_filter[p] \in Nat /\ write_filter[q] \in Nat
        BY <1>2, <1>6
      <4>2. Bigger(cch[p], cch[q])
        OBVIOUS
      <4>3. ~(write_filter[q] < write_filter[p])
        BY <1>6, <1>12, <4>1, <4>2
      <4>4. write_filter[q] # write_filter[p]
        <5>1. p # q
          BY <1>3, <4>1, <4>2 DEF Bigger
        <5> QED BY <1>6, <5>1
      <4> HIDE DEF P
      <4> QED BY <4>1, <4>3, <4>4
    <3>5. DOMAIN f = P /\ DOMAIN g = P /\ write_filter[q] \in Nat
      BY <1>2, <1>6
    <3> HIDE DEF f, g, P
    <3>6. Cardinality({f[p] : p \in P}) = Cardinality(P)
      BY <3>1, <3>3, <3>5, ImageSize
    <3>7. Cardinality({g[p] : p \in P}) = Cardinality(P)
      BY <3>1, <3>3, <3>5, ImageSize
    <3>8. {g[p] : p \in P} \subseteq 0..(write_filter[q] - 1)
      BY <3>4
    <3>9. Cardinality({g[p] : p \in P}) <= write_filter[q]
      <4>1. PICK n \in Nat : n = write_filter[q]
        BY <3>5
      <4>2. IsFiniteSet(0..(n - 1)) /\ Cardinality(0..(n - 1)) = n
        BY IntervalFinite
      <4>3. {g[p] : p \in P} \subseteq 0..(n - 1)
        BY <3>8, <4>1
      <4> QED BY <4>1, <4>2, <4>3, FS_Subset
    <3> QED BY <3>1, <3>2, <3>6, <3>7, <3>9
  <2>4. \A T \in Kept : Cardinality({S \in Kept : Bigger(Size(S), Size(T))}) < IF v = 0 THEN 1 ELSE v
    <3> SUFFICES ASSUME NEW T \in Kept
                 PROVE  Cardinality({S \in Kept : Bigger(Size(S), Size(T))}) < IF v = 0 THEN 1 ELSE v
      OBVIOUS
    <3>1. PICK r \in chosen : T = NodesOf(r) /\ Size(T) = cch[r]
      BY <1>2, <1>3, <1>8
    <3>2. PICK q \in chosen : cch[r] = cch[q] /\ write_filter[q] < IF v = 0 THEN 1 ELSE v
      <4>1. CASE write_filter[r] >= v
        <5>1. PICK q \in chosen : write_filter[q] = (IF v = 0 THEN 0 ELSE v - 1) /\ cch[r] = cch[q]
          BY <1>7, <1>16, <4>1
        <5> QED BY <1>2, <5>1
      <4>2. CASE ~(write_filter[r] >= v)
        <5>1. write_filter[r] \in Nat
          BY <1>2, <1>6
        <5> QED BY <1>2, <4>2, <5>1
      <4> QED BY <4>1, <4>2
    <3>3. Cardinality({S \in Kept : Bigger(Size(S), Size(T))}) <= write_filter[q]
      BY <2>3, <3>1, <3>2
    <3>4. Cardinality({S \in Kept : Bigger(Size(S), Size(T))}) \in Nat /\ write_filter[q] \in Nat
      BY <1>2, <1>6, <2>3, <3>1, <3>2
    <3> QED BY <1>2, <3>2, <3>3, <3>4
  <2> QED BY <1>11, <1>13, <1>16, <2>1, <2>2, <2>4 DEF FilterKeepsTheRightOnes, v
<1> QED BY <1>2, <1>14, <1>15, <1>16 DEF FilterModes

\* When the writer is done it has written just the components the filter is to
\* keep, numbered by falling size.
THEOREM FilterIsRight == Spec => []FilterKeepsTheRightOnes
BY WriterIsPlaced, InvImpliesFilterKeepsTheRightOnes, PTL

=============================================================================
