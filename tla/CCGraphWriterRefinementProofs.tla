------------------- MODULE CCGraphWriterRefinementProofs -------------------
(***************************************************************************)
(* CCGraphWriter implements ComponentFiles: every step of the writer is a  *)
(* step of the abstract one, or changes nothing that it can see.  What     *)
(* makes this short is that a finished file is a function of its component *)
(* (FilesAreFunctions): all steps behind the choice of the components are  *)
(* steps of the set of finished files.                                     *)
(***************************************************************************)
EXTENDS CCGraphWriterRefinement, CCGraphWriterProofs

\* The abstract writer means the same by components, sizes and numbers.
LEMMA SameCount == \A S : Promise!Cardinality(S) = Cardinality(S)
BY Zenon DEF Promise!Cardinality, Cardinality

LEMMA SameComponents ==
  /\ \A g : Promise!ComponentsOf(g) = ComponentsOf(g)
  /\ \A g, S : Promise!EdgesWithin(g, S) = EdgesWithin(g, S)
  /\ \A g, S : Promise!SizeIn(g, S) = SizeIn(g, S)
  /\ \A a, b : Promise!Bigger(a, b) <=> Bigger(a, b)
<1>1. \A g, S : Promise!Separate(g, S) <=> Separate(g, S)
  BY DEF Promise!Separate, Separate
<1>2. \A g : Promise!ComponentsOf(g) = ComponentsOf(g)
  BY <1>1 DEF Promise!ComponentsOf, ComponentsOf
<1>3. \A g, S : Promise!EdgesWithin(g, S) = EdgesWithin(g, S)
  BY DEF Promise!EdgesWithin, EdgesWithin
<1>4. \A g, S : Promise!SizeIn(g, S) = SizeIn(g, S)
  BY <1>3, SameCount DEF Promise!SizeIn, SizeIn
<1>5. \A a, b : Promise!Bigger(a, b) <=> Bigger(a, b)
  BY DEF Promise!Bigger, Bigger
<1> QED BY <1>2, <1>3, <1>4, <1>5

-----------------------------------------------------------------------------
(* Before the choice.                                                      *)

LEMMA EarlyInit == Init => EarlyInv
BY DEF Init, EarlyInv

LEMMA EarlyStep == EarlyInv /\ [Next]_vars => EarlyInv'
<1> SUFFICES ASSUME EarlyInv, [Next]_vars PROVE EarlyInv'
  OBVIOUS
<1>1. CASE WriteHeader \/ WriteNode \/ WriteEdge
  BY <1>1 DEF EarlyInv, WriteHeader, WriteNode, WriteEdge, Empty
<1>2. CASE EndGraph \/ Unite \/ SortByRep
  BY <1>2 DEF EarlyInv, EndGraph, Unite, SortByRep, Empty, collected, TooLarge
<1>3. CASE ChooseComponents \/ SkipComponent \/ OpenComponent \/ PutNode \/ EndNodes \/ PutEdge
           \/ CloseComponent \/ Finish
  BY <1>3 DEF EarlyInv, ChooseComponents, SkipComponent, OpenComponent, PutNode, EndNodes, PutEdge,
     CloseComponent, Finish
<1>4. CASE UNCHANGED vars
  BY <1>4 DEF EarlyInv, vars, collected, TooLarge, Empty
<1> QED BY <1>1, <1>2, <1>3, <1>4 DEF Next

\* The sizes of the parts of a finite set add up to that of the set: a number
\* below the size of a part stands for one of its elements.
LEMMA PartsAddUp ==
  ASSUME NEW S, IsFiniteSet(S), NEW R, NEW part, DOMAIN part = R,
         \A r \in R : part[r] \subseteq S,
         \A x \in S : \E r \in R : x \in part[r],
         \A r, q \in R : \A x : x \in part[r] /\ x \in part[q] => r = q
  PROVE  Cardinality({x \in R \X (1..Cardinality(S)) : x[2] <= Cardinality(part[x[1]])}) = Cardinality(S)
<1> DEFINE P == {x \in R \X (1..Cardinality(S)) : x[2] <= Cardinality(part[x[1]])}
           b == [r \in R |-> CHOOSE f : f \in Bijection(1..Cardinality(part[r]), part[r])]
           h == [x \in P |-> b[x[1]][x[2]]]
<1>1. ASSUME NEW r \in R
      PROVE  /\ Cardinality(part[r]) \in 0..Cardinality(S)
             /\ b[r] \in Bijection(1..Cardinality(part[r]), part[r])
  <2>1. IsFiniteSet(part[r]) /\ Cardinality(part[r]) <= Cardinality(S)
    BY FS_Subset
  <2>2. Cardinality(part[r]) \in Nat /\ Cardinality(S) \in Nat
        /\ ExistsBijection(1..Cardinality(part[r]), part[r])
    BY <2>1, FS_CardinalityType
  <2>3. \E f : f \in Bijection(1..Cardinality(part[r]), part[r])
    BY <2>2 DEF ExistsBijection
  <2> QED BY <2>1, <2>2, <2>3
<1>2. Cardinality(S) \in Nat
  BY FS_CardinalityType
<1> HIDE DEF b
<1>3. \A r \in R : \A n \in 1..Cardinality(part[r]) : b[r][n] \in part[r]
  BY <1>1 DEF Bijection, Injection
<1>4. \A r \in R : \A m, n \in 1..Cardinality(part[r]) : b[r][m] = b[r][n] => m = n
  BY <1>1 DEF Bijection, Injection, IsInjective
<1>5. \A r \in R : \A x \in part[r] : \E n \in 1..Cardinality(part[r]) : b[r][n] = x
  BY <1>1 DEF Bijection, Surjection
<1>6. \A x \in P : x[1] \in R /\ x[2] \in 1..Cardinality(part[x[1]]) /\ x = <<x[1], x[2]>>
  BY <1>1
<1>7. \A x \in P : h[x] \in S
  BY <1>3, <1>6
<1>8. \A x, y \in P : h[x] = h[y] => x = y
  <2> SUFFICES ASSUME NEW x \in P, NEW y \in P, h[x] = h[y] PROVE x = y
    OBVIOUS
  <2>1. h[x] \in part[x[1]] /\ h[x] \in part[y[1]]
    BY <1>3, <1>6
  <2>2. x[1] = y[1]
    BY <1>6, <2>1
  <2>3. x[2] = y[2]
    BY <1>4, <1>6, <2>2
  <2> QED BY <1>6, <2>2, <2>3
<1>9. \A s \in S : \E x \in P : h[x] = s
  <2> SUFFICES ASSUME NEW s \in S PROVE \E x \in P : h[x] = s
    OBVIOUS
  <2>1. PICK r \in R : s \in part[r]
    OBVIOUS
  <2>2. PICK n \in 1..Cardinality(part[r]) : b[r][n] = s
    BY <1>5, <2>1
  <2>3. n \in 1..Cardinality(S)
    BY <1>1, <1>2
  <2>4. <<r, n>> \in P
    BY <1>1, <2>3
  <2> QED BY <2>2, <2>4
<1>10. h \in [P -> S]
  BY <1>7
<1> HIDE DEF h, P
<1>11. h \in Bijection(P, S)
  BY <1>8, <1>9, <1>10 DEF Bijection, Injection, Surjection, IsInjective
<1>12. ExistsBijection(S, P)
  <2>1. ExistsBijection(P, S)
    BY <1>11 DEF ExistsBijection
  <2> QED BY <2>1, Fun_ExistsBijSymmetric
<1>13. Cardinality(P) = Cardinality(S)
  BY <1>12, FS_Bijection
<1> QED BY <1>13 DEF P

\* endGraph never finds its counts wrong: the sums over the components are the
\* numbers of nodes and edges (GraphWriter.cpp:418-436).
LEMMA CountsAddUp ==
  ASSUME CollectInv, UniteInv, phase = "unite", united = Len(m_edges)
  PROVE  nn = m_nodes /\ ne = Len(m_edges)
<1>1. /\ m_nodes \in Nat /\ Len(m_edges) \in Nat /\ DOMAIN m_edges = 1..Len(m_edges)
      /\ IsFiniteSet(Nodes) /\ Cardinality(Nodes) = m_nodes
      /\ IsFiniteSet(Edges) /\ Cardinality(Edges) = Len(m_edges) /\ Edges = DOMAIN m_edges
  BY Sizes DEF Edges
<1>2. /\ DOMAIN rep = Nodes
      /\ \A k \in Edges : m_edges[k].source \in Nodes
  <2>1. DOMAIN rep = Nodes /\ \A k \in 1..united : EdgeAt(k).source \in Nodes
    BY DEF UniteInv
  <2> QED BY <1>1, <2>1 DEF EdgeAt
<1>3. \A r \in Reps : /\ Counts[r].nodes = Cardinality(NodesOf(r))
                      /\ Counts[r].edges = Cardinality(EdgesOf(r))
  BY DEF Counts
<1>4. nn = m_nodes
  <2> DEFINE part == [r \in Reps |-> NodesOf(r)]
  <2>1. DOMAIN part = Reps /\ \A r \in Reps : part[r] = NodesOf(r)
    OBVIOUS
  <2> HIDE DEF part
  <2>2. \A r \in Reps : part[r] \subseteq Nodes
    BY <2>1 DEF NodesOf
  <2>3. \A i \in Nodes : \E r \in Reps : i \in part[r]
    <3>1. \A i \in Nodes : rep[i] \in Reps /\ i \in NodesOf(rep[i])
      BY DEF NodesOf, Reps
    <3> QED BY <2>1, <3>1
  <2>4. \A r, q \in Reps : \A i : i \in part[r] /\ i \in part[q] => r = q
    BY <2>1 DEF NodesOf
  <2>5. Cardinality({x \in Reps \X (1..Cardinality(Nodes)) : x[2] <= Cardinality(part[x[1]])}) = Cardinality(Nodes)
    BY <1>1, <2>1, <2>2, <2>3, <2>4, PartsAddUp
  <2>6. \A x \in Reps \X (1..m_nodes) : Counts[x[1]].nodes = Cardinality(part[x[1]])
    BY <1>3, <2>1
  <2>7. nn = Cardinality({x \in Reps \X (1..m_nodes) : x[2] <= Cardinality(part[x[1]])})
    <3>1. {x \in Reps \X (1..m_nodes) : x[2] <= Counts[x[1]].nodes}
            = {x \in Reps \X (1..m_nodes) : x[2] <= Cardinality(part[x[1]])}
      BY <2>6
    <3> QED BY <3>1 DEF nn
  <2> QED BY <1>1, <2>5, <2>7
<1>5. ne = Len(m_edges)
  <2> DEFINE part == [r \in Reps |-> EdgesOf(r)]
  <2>1. DOMAIN part = Reps /\ \A r \in Reps : part[r] = EdgesOf(r)
    OBVIOUS
  <2> HIDE DEF part
  <2>2. \A r \in Reps : part[r] \subseteq Edges
    BY <2>1 DEF EdgesOf, Edges
  <2>3. \A k \in Edges : \E r \in Reps : k \in part[r]
    <3>1. \A k \in Edges : /\ rep[m_edges[k].source] \in Reps
                           /\ k \in EdgesOf(rep[m_edges[k].source])
      BY <1>1, <1>2 DEF EdgesOf, Reps
    <3> QED BY <2>1, <3>1
  <2>4. \A r, q \in Reps : \A k : k \in part[r] /\ k \in part[q] => r = q
    <3>1. \A r, q : \A k : k \in EdgesOf(r) /\ k \in EdgesOf(q) => r = q
      BY DEF EdgesOf
    <3> QED BY <2>1, <3>1
  <2>5. Cardinality({x \in Reps \X (1..Cardinality(Edges)) : x[2] <= Cardinality(part[x[1]])}) = Cardinality(Edges)
    <3>1. IsFiniteSet(Edges)
      BY <1>1
    <3> QED BY <2>1, <2>2, <2>3, <2>4, <3>1, PartsAddUp
  <2>6. \A x \in Reps \X DOMAIN m_edges : Counts[x[1]].edges = Cardinality(part[x[1]])
    <3>1. \A x \in Reps \X DOMAIN m_edges : x[1] \in Reps
      OBVIOUS
    <3> QED BY <1>3, <2>1, <3>1
  <2>7. ne = Cardinality({x \in Reps \X DOMAIN m_edges : x[2] <= Cardinality(part[x[1]])})
    <3>1. {x \in Reps \X DOMAIN m_edges : x[2] <= Counts[x[1]].edges}
            = {x \in Reps \X DOMAIN m_edges : x[2] <= Cardinality(part[x[1]])}
      BY <2>6
    <3> QED BY <3>1 DEF ne
  <2> QED BY <1>1, <2>5, <2>7
<1> QED BY <1>4, <1>5

-----------------------------------------------------------------------------
(* What the abstract writer sees of a state.                               *)

\* The components that are kept are those of the chosen representatives.
LEMMA KeptAre ==
  ASSUME RightChoice(write_filter)
  PROVE  /\ DOMAIN KeptComponents = 0..(Cardinality(DOMAIN write_filter) - 1)
         /\ DOMAIN KeptComponents = {write_filter[r] : r \in DOMAIN write_filter}
         /\ \A r \in DOMAIN write_filter : KeptComponents[write_filter[r]] = NodesOf(r)
<1> DEFINE chosen == DOMAIN write_filter
<1>1. /\ \A r \in chosen : write_filter[r] \in 0..(Cardinality(chosen) - 1)
      /\ \A n \in 0..(Cardinality(chosen) - 1) : \E r \in chosen : write_filter[r] = n
      /\ \A r, q \in chosen : write_filter[r] = write_filter[q] => r = q
  BY DEF RightChoice
<1>2. DOMAIN KeptComponents = {write_filter[r] : r \in chosen}
  BY DEF KeptComponents
<1>3. {write_filter[r] : r \in chosen} = 0..(Cardinality(chosen) - 1)
  BY <1>1
<1>4. ASSUME NEW r \in chosen PROVE KeptComponents[write_filter[r]] = NodesOf(r)
  <2>1. (CHOOSE q \in chosen : write_filter[q] = write_filter[r]) = r
    BY <1>1
  <2> QED BY <2>1 DEF KeptComponents
<1> QED BY <1>2, <1>3, <1>4

\* The edges of a finished file, read back, are those of its component.
LEMMA EdgesReadBack ==
  ASSUME WriterInv, NEW c \in Ended, NEW r \in DOMAIN write_filter, write_filter[r] = c
  PROVE  FinishedFiles[c].edges = Promise!EdgeBag(NodesOf(r))
<1> DEFINE f == files[c]
           ne0 == cch[r].edges
           B == Block[r]
           given == {Original(c, e) : e \in ToSet(f.edges)}
           asked == {graph.edges[k] : k \in Promise!EdgesWithin(graph, NodesOf(r))}
<1>1. Placed /\ Split /\ Sorted /\ c \in DOMAIN files /\ r \in Reps /\ IsDone(f, B)
  <2>1. Placed /\ Split /\ Sorted /\ c \in DOMAIN files
    BY EndedFile DEF Ended
  <2>2. PICK q \in DOMAIN write_filter : write_filter[q] = c /\ q \in Reps /\ IsDone(f, Block[q])
    BY EndedFile
  <2>3. q = r
    BY <2>1, <2>2 DEF Placed, FilterInv, RightChoice
  <2> QED BY <2>1, <2>2, <2>3
<1>2. DOMAIN f.edges = 1..ne0
  BY <1>1, DoneNodes
<1>3. \A k \in 1..ne0 : Original(c, f.edges[k]) = B.edges[k]
  BY <1>1, DoneEdges
<1>4. given = {B.edges[k] : k \in 1..ne0}
  <2>1. given = {Original(c, f.edges[k]) : k \in 1..ne0}
    BY <1>2 DEF ToSet
  <2> QED BY <1>3, <2>1
<1>5. EdgesOf(r) = Promise!EdgesWithin(graph, NodesOf(r))
  <2>1. m_edges = graph.edges
    BY <1>1 DEF Sorted, CollectInv, Collected
  <2>2. \A k \in DOMAIN m_edges : m_edges[k].source \in Nodes
    BY <1>1, SortedFacts DEF Edges, EdgeAt
  <2>3. \A k : k \in EdgesOf(r) <=> k \in DOMAIN m_edges /\ m_edges[k].source \in NodesOf(r)
    BY <2>2 DEF EdgesOf, NodesOf
  <2> QED BY <2>1, <2>3 DEF Promise!EdgesWithin
<1>6. given = asked
  <2>1. \A k \in 1..ne0 : \E j \in EdgesOf(r) : B.edges[k] = graph.edges[j]
    <3>1. \A k \in 1..ne0 : /\ edgesSortedByRep[Low[r].edges + k] \in EdgesOf(r)
                           /\ B.edges[k] = EdgeAt(edgesSortedByRep[Low[r].edges + k])
      BY <1>1, EdgeBlock
    <3> QED BY <1>1, <3>1 DEF EdgeAt, Sorted, CollectInv, Collected
  <2>2. \A j \in EdgesOf(r) : \E k \in 1..ne0 : B.edges[k] = graph.edges[j]
    <3>1. /\ \A j \in EdgesOf(r) : \E k \in 1..ne0 : edgesSortedByRep[Low[r].edges + k] = j
          /\ \A k \in 1..ne0 : B.edges[k] = EdgeAt(edgesSortedByRep[Low[r].edges + k])
      BY <1>1, EdgeBlock
    <3> QED BY <1>1, <3>1 DEF EdgeAt, Sorted, CollectInv, Collected
  <2>3. asked = {graph.edges[k] : k \in EdgesOf(r)}
    BY <1>5
  <2> HIDE DEF B, ne0, given, asked
  <2> QED BY <1>4, <2>1, <2>2, <2>3
<1>7. ASSUME NEW x \in given
      PROVE  Cardinality({k \in DOMAIN f.edges : Original(c, f.edges[k]) = x})
               = Promise!Cardinality({k \in DOMAIN graph.edges : graph.edges[k] = x})
  <2>1. PICK m \in 1..ne0 : x = B.edges[m]
    BY <1>4
  <2>2. {k \in DOMAIN f.edges : Original(c, f.edges[k]) = x} = {k \in 1..ne0 : B.edges[k] = x}
    BY <1>2, <1>3
  <2> QED BY <1>1, <2>1, <2>2, BlockOccurrences, SameCount
<1>8. FinishedFiles[c].edges =
        [x \in given |-> Cardinality({k \in DOMAIN f.edges : Original(c, f.edges[k]) = x})]
  BY DEF FinishedFiles
<1>9. Promise!EdgeBag(NodesOf(r)) =
        [x \in asked |-> Promise!Cardinality({k \in DOMAIN graph.edges : graph.edges[k] = x})]
  BY DEF Promise!EdgeBag
<1> HIDE DEF given, asked, f
<1> QED BY <1>6, <1>7, <1>8, <1>9

\* A finished file is that of its component, however it came about.
FilesAreFunctions == FinishedFiles = [c \in Ended |-> Promise!File(KeptComponents[c])]

LEMMA InvImpliesFunctions == WriterInv => FilesAreFunctions
<1> SUFFICES ASSUME WriterInv PROVE FilesAreFunctions
  OBVIOUS
<1>1. ASSUME NEW c \in Ended PROVE FinishedFiles[c] = Promise!File(KeptComponents[c])
  <2>1. PICK r \in DOMAIN write_filter : write_filter[r] = c /\ r \in Reps /\ IsDone(files[c], Block[r])
    BY EndedFile
  <2>2. Placed /\ Split /\ c \in DOMAIN files
    BY EndedFile DEF Ended
  <2>3. KeptComponents[c] = NodesOf(r)
    BY <2>1, <2>2, KeptAre DEF Placed, FilterInv
  <2>4. Content(c) = NodesOf(r)
    BY <2>1, <2>2, DoneNodes
  <2>5. FinishedFiles[c] = [nodes |-> Content(c), edges |-> FinishedFiles[c].edges]
    BY DEF FinishedFiles
  <2>6. FinishedFiles[c].edges = Promise!EdgeBag(NodesOf(r))
    BY <2>1, EdgesReadBack
  <2> QED BY <2>3, <2>4, <2>5, <2>6 DEF Promise!File
<1>2. FinishedFiles = [c \in Ended |-> FinishedFiles[c]]
  BY DEF FinishedFiles
<1> QED BY <1>1, <1>2 DEF FilesAreFunctions

\* Only what the filter allows is chosen.
ChoiceAllowed ==
  /\ Cardinality(DOMAIN write_filter) \in 0..graph.nodeCount
  /\ KeptComponents \in Promise!Numberings(Cardinality(DOMAIN write_filter))
  /\ Promise!Allowed(KeptComponents)

LEMMA ChoiceIsAllowed == WriterInv /\ Split => ChoiceAllowed
<1> SUFFICES ASSUME WriterInv, Split PROVE ChoiceAllowed
  OBVIOUS
<1> DEFINE chosen == DOMAIN write_filter
           K == KeptComponents
           k == Cardinality(chosen)
           v == filter.value
           all == Promise!ComponentsOf(graph)
           dropped == all \ {K[c] : c \in DOMAIN K}
           S(T) == Promise!SizeIn(graph, T)
<1>1. Placed /\ Sorted /\ RightChoice(write_filter)
  BY DEF Placed, Sorted, WriterInv, FilterInv
<1>2. /\ chosen \in SUBSET Reps /\ IsFiniteSet(chosen) /\ k \in Nat /\ v \in Nat /\ filter.mode \in FilterModes
  <2>1. chosen \in SUBSET Reps /\ IsFiniteSet(Reps)
    BY <1>1, PlacedFacts, SortedFacts
  <2>2. IsFiniteSet(chosen) /\ k \in Nat
    BY <2>1, FS_Subset, FS_CardinalityType
  <2>3. filter \in [mode : FilterModes, value : Nat]
    BY WriterAssumption DEF WriterInv, CollectInv
  <2> QED BY <2>1, <2>2, <2>3
<1>3. k \in 0..graph.nodeCount
  <2>1. Reps \in SUBSET Nodes /\ IsFiniteSet(Nodes) /\ Cardinality(Nodes) = m_nodes
    BY <1>1, SortedFacts, Sizes DEF Sorted
  <2>2. m_nodes = graph.nodeCount /\ m_nodes \in Nat
    BY <1>1, Sizes DEF Sorted, CollectInv, Collected
  <2>3. k <= m_nodes
    BY <1>2, <2>1, FS_Subset
  <2> QED BY <1>2, <2>2, <2>3
<1>4. /\ DOMAIN K = 0..(k - 1)
      /\ DOMAIN K = {write_filter[r] : r \in chosen}
      /\ \A r \in chosen : K[write_filter[r]] = NodesOf(r)
  BY <1>1, KeptAre
<1>5. Promise!Cardinality(DOMAIN K) = k
  BY <1>2, <1>4, SameCount, IntervalFinite
<1>6. all = {NodesOf(r) : r \in Reps}
  BY <1>1, SetsAreComponents, SameComponents
<1>7. \A r \in Reps : /\ cch[r].nodes \in Nat /\ cch[r].edges \in Nat
                      /\ Cardinality(NodesOf(r)) = cch[r].nodes /\ S(NodesOf(r)) = cch[r]
  BY <1>1, SortedFacts, SetsAreComponents, SameComponents
<1>8. \A r, q \in Reps : NodesOf(r) = NodesOf(q) => r = q
  <2> SUFFICES ASSUME NEW r \in Reps, NEW q \in Reps, NodesOf(r) = NodesOf(q) PROVE r = q
    OBVIOUS
  <2>1. PICK i \in Nodes : rep[i] = r
    BY DEF Reps
  <2> QED BY <2>1 DEF NodesOf
<1>9. /\ \A r \in chosen : write_filter[r] \in 0..(k - 1)
      /\ \A n \in 0..(k - 1) : \E r \in chosen : write_filter[r] = n
      /\ \A r, q \in chosen : write_filter[r] < write_filter[q] => Larger(r, q)
  BY <1>1 DEF RightChoice
<1>10. /\ filter.mode = "All" => chosen = Reps
       /\ filter.mode = "MinSize" => \A r \in Reps : r \in chosen <=> cch[r].nodes >= v
  BY <1>1 DEF RightChoice
<1>11. filter.mode = "TopK" =>
         /\ chosen # Reps => k >= (IF v = 0 THEN 1 ELSE v)
         /\ \A r \in chosen, q \in Reps \ chosen : LargerCount(cch[r], cch[q])
         /\ \A r \in chosen : write_filter[r] >= v =>
              \E q \in chosen : write_filter[q] = (IF v = 0 THEN 0 ELSE v - 1) /\ cch[r] = cch[q]
  BY <1>1 DEF RightChoice
<1>12. \A c \in DOMAIN K : \E r \in chosen : c = write_filter[r] /\ K[c] = NodesOf(r)
  BY <1>4
<1>13. {K[c] : c \in DOMAIN K} = {NodesOf(r) : r \in chosen}
  <2>1. \A T : T \in {K[c] : c \in DOMAIN K} <=> \E c \in DOMAIN K : T = K[c]
    OBVIOUS
  <2>2. \A T : T \in {NodesOf(r) : r \in chosen} <=> \E r \in chosen : T = NodesOf(r)
    OBVIOUS
  <2>3. \A r \in chosen : write_filter[r] \in DOMAIN K
    BY <1>4, <1>9
  <2> HIDE DEF K, chosen
  <2>4. \A T : T \in {K[c] : c \in DOMAIN K} <=> T \in {NodesOf(r) : r \in chosen}
    BY <1>4, <1>12, <2>1, <2>2, <2>3
  <2> QED BY <2>4
<1>14. dropped = {NodesOf(r) : r \in Reps \ chosen}
  <2>1. \A r \in Reps : NodesOf(r) \in {NodesOf(q) : q \in chosen} <=> r \in chosen
    BY <1>2, <1>8
  <2>2. \A T : T \in dropped <=> T \in {NodesOf(r) : r \in Reps \ chosen}
    BY <1>6, <1>13, <2>1
  <2> QED BY <2>2
<1> HIDE DEF chosen, K, k, v, all, dropped, S
<1>15. K \in [0..(k - 1) -> all]
  <2>1. K = [c \in DOMAIN K |-> K[c]]
    BY DEF K, KeptComponents
  <2>2. \A c \in DOMAIN K : K[c] \in all
    BY <1>2, <1>6, <1>12
  <2> QED BY <1>4, <2>1, <2>2
<1>16. \A c, d \in DOMAIN K : c < d => K[c] # K[d] /\ ~Promise!Bigger(S(K[d]), S(K[c]))
  <2> SUFFICES ASSUME NEW c \in DOMAIN K, NEW d \in DOMAIN K, c < d
               PROVE  K[c] # K[d] /\ ~Promise!Bigger(S(K[d]), S(K[c]))
    OBVIOUS
  <2>1. PICK r \in chosen : c = write_filter[r] /\ K[c] = NodesOf(r)
    BY <1>12
  <2>2. PICK q \in chosen : d = write_filter[q] /\ K[d] = NodesOf(q)
    BY <1>12
  <2>3. Larger(r, q) /\ r \in Reps /\ q \in Reps
    BY <1>2, <1>9, <2>1, <2>2
  <2>4. r # q
    <3>1. c \in Nat /\ d \in Nat
      BY <1>2, <1>4
    <3> QED BY <2>1, <2>2, <3>1
  <2>5. K[c] # K[d]
    BY <1>8, <2>1, <2>2, <2>3, <2>4
  <2>6. ~Bigger(cch[q], cch[r])
    <3>1. PICK w \in Nat, x \in Nat, y \in Nat, z \in Nat :
            w = cch[r].nodes /\ x = cch[r].edges /\ y = cch[q].nodes /\ z = cch[q].edges
      BY <1>7, <2>3
    <3>2. w > y \/ (w = y /\ x >= z)
      BY <2>3, <3>1 DEF Larger
    <3>3. ~(y > w \/ (y = w /\ z > x))
      BY <3>2
    <3> QED BY <3>1, <3>3 DEF Bigger
  <2>7. S(K[d]) = cch[q] /\ S(K[c]) = cch[r]
    BY <1>7, <2>1, <2>2, <2>3
  <2> QED BY <2>5, <2>6, <2>7, SameComponents
<1>17. filter.mode = "All" => dropped = {}
  BY <1>10, <1>14
<1>18. filter.mode = "MinSize" =>
         /\ \A c \in DOMAIN K : Promise!Cardinality(K[c]) >= v
         /\ \A T \in dropped : Promise!Cardinality(T) < v
  <2> SUFFICES ASSUME filter.mode = "MinSize"
               PROVE  /\ \A c \in DOMAIN K : Cardinality(K[c]) >= v
                      /\ \A T \in dropped : Cardinality(T) < v
    BY SameCount
  <2>1. \A c \in DOMAIN K : Cardinality(K[c]) >= v
    BY <1>2, <1>7, <1>10, <1>12
  <2>2. \A T \in dropped : Cardinality(T) < v
    <3> SUFFICES ASSUME NEW r \in Reps \ chosen PROVE Cardinality(NodesOf(r)) < v
      BY <1>14
    <3>1. ~(cch[r].nodes >= v) /\ cch[r].nodes \in Nat
      BY <1>7, <1>10
    <3> QED BY <1>2, <1>7, <3>1
  <2> QED BY <2>1, <2>2
<1> DEFINE least == IF v = 0 THEN 1 ELSE v
<1>19. filter.mode = "TopK" =>
         /\ dropped # {} => k >= least
         /\ \A T \in dropped, c \in DOMAIN K : Promise!Bigger(S(K[c]), S(T))
         /\ \A c \in DOMAIN K : c >= least => S(K[c]) = S(K[least - 1])
  <2> SUFFICES ASSUME filter.mode = "TopK"
               PROVE  /\ dropped # {} => k >= least
                      /\ \A T \in dropped, c \in DOMAIN K : Promise!Bigger(S(K[c]), S(T))
                      /\ \A c \in DOMAIN K : c >= least => S(K[c]) = S(K[least - 1])
    OBVIOUS
  <2>1. dropped # {} => k >= least
    BY <1>11, <1>14
  <2>2. \A T \in dropped, c \in DOMAIN K : Promise!Bigger(S(K[c]), S(T))
    <3> SUFFICES ASSUME NEW q \in Reps \ chosen, NEW c \in DOMAIN K
                 PROVE  Promise!Bigger(S(K[c]), S(NodesOf(q)))
      BY <1>14
    <3>1. PICK r \in chosen : c = write_filter[r] /\ K[c] = NodesOf(r)
      BY <1>12
    <3>2. LargerCount(cch[r], cch[q])
      BY <1>11
    <3>3. S(K[c]) = cch[r] /\ S(NodesOf(q)) = cch[q]
      BY <1>2, <1>7, <3>1
    <3>4. Bigger(cch[r], cch[q])
      BY <3>2 DEF LargerCount, Bigger
    <3> QED BY <3>3, <3>4, SameComponents
  <2>3. ASSUME NEW c \in DOMAIN K, c >= least PROVE S(K[c]) = S(K[least - 1])
    <3>1. PICK r \in chosen : c = write_filter[r] /\ K[c] = NodesOf(r)
      BY <1>12
    <3>2. c >= v
      <4>1. c \in Nat
        BY <1>2, <1>4
      <4> QED BY <1>2, <2>3, <4>1
    <3>3. PICK q \in chosen : write_filter[q] = (IF v = 0 THEN 0 ELSE v - 1) /\ cch[r] = cch[q]
      BY <1>11, <3>1, <3>2
    <3>4. least - 1 = write_filter[q]
      BY <1>2, <3>3
    <3>5. K[least - 1] = NodesOf(q)
      BY <1>4, <3>4
    <3> QED BY <1>2, <1>7, <3>1, <3>3, <3>5
  <2> QED BY <2>1, <2>2, <2>3
<1>20. {K[c] : c \in DOMAIN K} \subseteq all
  BY <1>4, <1>15
<1>21. Promise!AtLeast = least
  BY DEF Promise!AtLeast, least, v
<1> HIDE DEF least
<1>22. Promise!Allowed(K)
  <2>1. CASE filter.mode = "All"
    BY <1>4, <1>5, <1>16, <1>17, <1>20, <2>1 DEF Promise!Allowed, S, all, dropped
  <2>2. CASE filter.mode = "MinSize"
    BY <1>4, <1>5, <1>16, <1>18, <1>20, <2>2 DEF Promise!Allowed, S, all, dropped, v
  <2>3. CASE filter.mode = "TopK"
    BY <1>4, <1>5, <1>16, <1>19, <1>20, <1>21, <2>3 DEF Promise!Allowed, S, all, dropped
  <2> QED BY <1>2, <2>1, <2>2, <2>3 DEF FilterModes
<1> QED BY <1>3, <1>15, <1>22 DEF ChoiceAllowed, Promise!Numberings, K, k, chosen, all

-----------------------------------------------------------------------------
(* The steps.                                                              *)

\* Without files, and without a choice, there is nothing to be seen of them.
LEMMA NothingYet ==
  /\ write_filter = Empty => KeptComponents = Promise!Nothing
  /\ files = Empty => /\ FinishedFiles = Promise!Nothing /\ DOMAIN files = {}
                      /\ Ended = {} /\ DOMAIN files \ Ended = {}
<1>0. DOMAIN Empty = {}
  BY DEF Empty
<1>1. ASSUME write_filter = Empty PROVE KeptComponents = Promise!Nothing
  <2>1. {write_filter[r] : r \in DOMAIN write_filter} = {}
    BY <1>0, <1>1
  <2> QED BY <2>1 DEF KeptComponents, Promise!Nothing
<1>2. ASSUME files = Empty
      PROVE  FinishedFiles = Promise!Nothing /\ DOMAIN files = {} /\ Ended = {} /\ DOMAIN files \ Ended = {}
  <2>1. Ended = {} /\ DOMAIN files = {}
    BY <1>0, <1>2 DEF Ended
  <2>2. FinishedFiles = Promise!Nothing
    BY <2>1 DEF FinishedFiles, Promise!Nothing
  <2> QED BY <2>1, <2>2
<1> QED BY <1>1, <1>2

LEMMA InitPromised == Init => Promise!Init
<1> SUFFICES ASSUME Init PROVE Promise!Init
  OBVIOUS
<1>1. graph \in Graphs /\ filter \in Filters /\ phase = "header" /\ write_filter = Empty /\ files = Empty
  BY DEF Init
<1>2. Phase = "collecting"
  BY <1>1 DEF Phase
<1> QED BY <1>1, <1>2, NothingYet DEF Promise!Init

\* No step but the choice changes what is kept.
LEMMA KeptStays ==
  ASSUME UNCHANGED <<m_nodes, rep, write_filter>> PROVE KeptComponents' = KeptComponents
<1>1. \A r : NodesOf(r)' = NodesOf(r)
  BY DEF NodesOf, Nodes
<1> QED BY <1>1 DEF KeptComponents

\* While nothing is written, all that may happen is to give up a graph that
\* cannot be split.
LEMMA EarlyStepsPromised ==
  ASSUME WriterInv, EarlyInv, WriteHeader \/ WriteNode \/ WriteEdge \/ EndGraph \/ Unite \/ SortByRep
  PROVE  [Promise!Next]_(Promise!vars)
<1>1. /\ phase \in {"header", "collect", "unite"} /\ UNCHANGED <<graph, filter, write_filter, files>>
      /\ phase' \in {"collect", "unite", "filter", "aborted"}
  BY DEF WriteHeader, WriteNode, WriteEdge, EndGraph, Unite, SortByRep, collected
<1>2. write_filter = Empty /\ files = Empty
  BY <1>1 DEF EarlyInv, WriterInv, CollectInv
<1>3. Empty' = Empty /\ DOMAIN Empty = {}
  BY DEF Empty
<1>4. Ended = {} /\ Ended' = {} /\ DOMAIN files \ Ended = {} /\ (DOMAIN files \ Ended)' = {}
  BY <1>1, <1>2, <1>3 DEF Ended
<1>5. KeptComponents' = KeptComponents
  <2>1. {write_filter[r] : r \in DOMAIN write_filter} = {}
    BY <1>2, <1>3
  <2>2. {write_filter[r] : r \in DOMAIN write_filter}' = {}
    BY <1>1, <1>2, <1>3
  <2> QED BY <2>1, <2>2 DEF KeptComponents
<1>6. FinishedFiles' = FinishedFiles
  BY <1>4 DEF FinishedFiles
<1>7. Phase = "collecting"
  BY <1>1 DEF Phase
<1>8. CASE phase' # "aborted"
  <2>1. Phase' = "collecting"
    BY <1>1, <1>8 DEF Phase
  <2> QED BY <1>1, <1>4, <1>5, <1>6, <1>7, <2>1 DEF Promise!vars
<1>9. CASE phase' = "aborted"
  <2>1. Phase' = "failed"
    BY <1>9 DEF Phase
  <2>2. Promise!Unsplittable
    <3>1. CASE WriteHeader
      BY <1>9, <3>1 DEF WriteHeader, TooLarge, Promise!Unsplittable
    <3>2. CASE EndGraph
      BY <1>9, <3>2 DEF EndGraph, TooLarge, Promise!Unsplittable
    <3>3. CASE Unite
      <4>1. /\ united < Len(m_edges)
            /\ ~({m_edges[united + 1].source, m_edges[united + 1].target} \subseteq Nodes)
            /\ phase = "unite"
        BY <1>9, <3>3 DEF Unite
      <4>2. m_nodes = graph.nodeCount /\ m_edges = graph.edges /\ united + 1 \in DOMAIN m_edges
        <5>1. Collected
          BY <4>1 DEF WriterInv, CollectInv
        <5>2. united \in 0..Len(m_edges) /\ m_edges \in Seq(EdgeRecords)
          BY DEF WriterInv, CollectInv, UniteInv
        <5> QED BY <4>1, <5>1, <5>2 DEF Collected
      <4> QED BY <4>1, <4>2 DEF Promise!Unsplittable, Nodes
    <3>4. CASE SortByRep
      <4>1. nn = m_nodes /\ ne = Len(m_edges)
        BY <3>4, CountsAddUp DEF SortByRep, WriterInv
      <4> QED BY <1>9, <3>4, <4>1 DEF SortByRep
    <3> QED BY <1>9, <3>1, <3>2, <3>3, <3>4 DEF WriteNode, WriteEdge
  <2> QED BY <1>1, <1>4, <1>5, <1>6, <1>7, <2>1, <2>2 DEF Promise!Next, Promise!Fail
<1> QED BY <1>8, <1>9

\* In the next state, too.
LEMMA ThenChoiceIsAllowed == WriterInv' /\ Split' => ChoiceAllowed'
BY ChoiceIsAllowed, PTL

LEMMA ThenFunctions == WriterInv' => FilesAreFunctions'
BY InvImpliesFunctions, PTL

LEMMA ChoosePromised ==
  ASSUME WriterInv, EarlyInv, WriterInv', ChooseComponents
  PROVE  Promise!Next
<1>1. /\ phase = "filter" /\ UNCHANGED <<graph, filter, files, m_nodes, rep>>
  BY DEF ChooseComponents, collected, sets
<1>2. write_filter = Empty /\ files = Empty /\ m_nodes = graph.nodeCount /\ m_edges = graph.edges
  BY <1>1 DEF EarlyInv, WriterInv, CollectInv, Collected
<1>3. Sorted
  BY <1>1 DEF Sorted, WriterInv
<1>4. Empty' = Empty /\ DOMAIN Empty = {}
  BY DEF Empty
<1>5. Ended = {} /\ Ended' = {} /\ DOMAIN files \ Ended = {} /\ (DOMAIN files \ Ended)' = {}
  BY <1>1, <1>2, <1>4 DEF Ended
<1>6. FinishedFiles' = FinishedFiles
  BY <1>5 DEF FinishedFiles
<1>7. Phase = "collecting"
  BY <1>1 DEF Phase
<1>8. m_nodes \in Nat /\ (Reps = {} <=> m_nodes = 0)
  <2>1. m_nodes \in Nat
    BY <1>3, Sizes DEF Sorted
  <2>2. m_nodes = 0 => Nodes = {}
    BY DEF Nodes
  <2>3. m_nodes # 0 => 0 \in Nodes
    BY <2>1 DEF Nodes
  <2> QED BY <2>1, <2>2, <2>3 DEF Reps
<1>9. CASE filter.mode = "TopK" /\ Reps = {}
  <2>1. phase' = "aborted" /\ UNCHANGED write_filter
    BY <1>9 DEF ChooseComponents
  <2>2. Phase' = "failed"
    BY <2>1 DEF Phase
  <2>3. Promise!Unsplittable
    BY <1>2, <1>8, <1>9 DEF Promise!Unsplittable
  <2>4. KeptComponents' = KeptComponents
    BY <1>1, <2>1, KeptStays
  <2> QED BY <1>1, <1>5, <1>6, <1>7, <2>2, <2>3, <2>4 DEF Promise!Next, Promise!Fail
<1>10. CASE ~(filter.mode = "TopK" /\ Reps = {})
  <2>1. phase' = "next"
    BY <1>10 DEF ChooseComponents
  <2>2. Phase' = "writing"
    BY <2>1 DEF Phase
  <2>3. ~Promise!Unsplittable
    <3>1. ~(graph.nodeCount > MaxCount \/ Len(graph.edges) > MaxCount)
      BY <1>1, <1>2 DEF EarlyInv, TooLarge
    <3>2. \A k \in DOMAIN graph.edges :
            {graph.edges[k].source, graph.edges[k].target} \subseteq 0..(graph.nodeCount - 1)
      BY <1>2, <1>3, SortedFacts DEF Edges, EdgeAt, Nodes
    <3>3. ~(graph.nodeCount = 0 /\ filter.mode = "TopK")
      BY <1>2, <1>8, <1>10
    <3> QED BY <3>1, <3>2, <3>3 DEF Promise!Unsplittable
  <2>4. Split'
    BY <2>1 DEF Split
  <2>5. ChoiceAllowed'
    BY <2>4, ThenChoiceIsAllowed
  <2>6. PICK n : n = Cardinality(DOMAIN write_filter')
    OBVIOUS
  <2>7. n \in 0..graph.nodeCount
    BY <1>1, <2>5, <2>6 DEF ChoiceAllowed
  <2>8. KeptComponents' \in Promise!Numberings(n)
    BY <1>1, <2>5, <2>6 DEF ChoiceAllowed, Promise!Numberings
  <2>9. Promise!Allowed(KeptComponents')
    BY <1>1, <2>5 DEF ChoiceAllowed, Promise!Allowed, Promise!AtLeast
  <2>10. \E m \in 0..graph.nodeCount : KeptComponents' \in {f \in Promise!Numberings(m) : Promise!Allowed(f)}
    BY <2>7, <2>8, <2>9
  <2>11. Promise!Choose
    BY <1>1, <1>5, <1>6, <1>7, <2>2, <2>3, <2>10 DEF Promise!Choose
  <2> QED BY <2>11 DEF Promise!Next
<1> QED BY <1>9, <1>10

\* Behind the choice, what is seen of the finished files follows from which
\* files are finished.
LEMMA FilesFollowEnded ==
  ASSUME WriterInv, WriterInv', UNCHANGED <<graph, m_nodes, rep, write_filter>>
  PROVE  /\ KeptComponents' = KeptComponents
         /\ FinishedFiles  = [c \in Ended  |-> Promise!File(KeptComponents[c])]
         /\ FinishedFiles' = [c \in Ended' |-> Promise!File(KeptComponents[c])]
         /\ Ended' = Ended => FinishedFiles' = FinishedFiles
<1>1. KeptComponents' = KeptComponents
  BY KeptStays
<1>2. FinishedFiles = [c \in Ended |-> Promise!File(KeptComponents[c])]
  BY InvImpliesFunctions DEF FilesAreFunctions
<1>3. FinishedFiles' = [c \in Ended' |-> Promise!File(KeptComponents[c])]
  <2>1. FilesAreFunctions'
    BY ThenFunctions
  <2>2. \A S : Promise!File(S)' = Promise!File(S)
    BY DEF Promise!File, Promise!EdgeBag
  <2> QED BY <1>1, <2>1, <2>2 DEF FilesAreFunctions
<1> QED BY <1>1, <1>2, <1>3

\* Skipping a component and writing the inside of a file are not seen.
LEMMA QuietSteps ==
  ASSUME WriterInv, WriterInv', SkipComponent \/ PutNode \/ EndNodes \/ PutEdge
  PROVE  UNCHANGED Promise!vars
<1>1. /\ UNCHANGED <<graph, filter, m_nodes, rep, write_filter>>
      /\ phase \in {"next", "nodes", "edges"} /\ phase' \in {"next", "nodes", "edges"}
  BY DEF SkipComponent, PutNode, EndNodes, PutEdge, collected, sets
<1>2. Phase' = "writing" /\ Phase = "writing"
  BY <1>1 DEF Phase
<1>3. DOMAIN files' = DOMAIN files /\ Ended' = Ended
  <2>1. CASE SkipComponent \/ EndNodes
    BY <2>1 DEF SkipComponent, EndNodes, Ended
  <2>2. CASE PutNode \/ PutEdge
    <3>1. ccId \in DOMAIN files /\ files[ccId] \in FileTypes
      <4>1. Split /\ Within /\ Placed
        BY <2>2 DEF PutNode, PutEdge, Split, Placed, Sorted, WriterInv, CursorInv, InNodes, InEdges
      <4> QED BY <4>1, WithinFacts
    <3>2. files[ccId] = [header |-> files[ccId].header, nodes |-> files[ccId].nodes,
                         edges |-> files[ccId].edges, ended |-> files[ccId].ended]
      BY <3>1 DEF FileTypes
    <3>3. \A x : /\ [files[ccId] EXCEPT !.nodes = x].ended = files[ccId].ended
                 /\ [files[ccId] EXCEPT !.edges = x].ended = files[ccId].ended
      BY <3>1 DEF FileTypes
    <3>4. DOMAIN files' = DOMAIN files /\ \A c \in DOMAIN files : files'[c].ended = files[c].ended
      <4>1. CASE PutNode
        BY <3>1, <3>3, <4>1 DEF PutNode
      <4>2. CASE PutEdge
        BY <3>1, <3>3, <4>2 DEF PutEdge
      <4> QED BY <2>2, <4>1, <4>2
    <3> QED BY <3>4 DEF Ended
  <2> QED BY <2>1, <2>2
<1> QED BY <1>1, <1>2, <1>3, FilesFollowEnded DEF Promise!vars

\* Between two files all are finished.
LEMMA AllEnded ==
  ASSUME WriterInv, phase = "next"
  PROVE  DOMAIN files \ Ended = {}
<1>1. PICK b \in 0..m_nodes : DoneBelow(files, write_filter, Block, b, {})
  BY DEF WriterInv, CursorInv, Between
<1>2. \A c \in DOMAIN files : files[c].ended
  BY <1>1 DEF DoneBelow, IsDone
<1> QED BY <1>2 DEF Ended

LEMMA OpenPromised ==
  ASSUME WriterInv, WriterInv', OpenComponent
  PROVE  Promise!Next
<1> DEFINE id == write_filter[NextRep]
           new == [header |-> cch[NextRep], nodes |-> << >>, edges |-> << >>, ended |-> FALSE]
<1>1. /\ UNCHANGED <<graph, filter, m_nodes, rep, write_filter>>
      /\ phase = "next" /\ seen < ComponentCount /\ NextRep \in DOMAIN write_filter /\ Split
  BY DEF OpenComponent, collected, sets, Split
<1>2. Placed /\ RightChoice(write_filter)
  BY <1>1 DEF Placed, Sorted, WriterInv, FilterInv
<1>3. Phase = "writing" /\ DOMAIN files \ Ended = {}
  BY <1>1, AllEnded DEF Phase
<1>4. id \in DOMAIN KeptComponents
  BY <1>1, <1>2, KeptAre
<1>5. id \notin DOMAIN files
  <2>1. NextRep \in Reps /\ DoneBelow(files, write_filter, Block, NextRep, {})
    BY <1>1, <1>2, AtNext
  <2>2. NextRep \in Nat
    BY <1>1, <1>2, <2>1, PlacedFacts
  <2>3. \A r \in DOMAIN write_filter : r < NextRep => write_filter[r] # id
    BY <1>1, <1>2, <2>2, OtherIds DEF Placed
  <2> QED BY <2>1, <2>3 DEF DoneBelow
<1>6. DOMAIN FinishedFiles = DOMAIN files
  <2>1. DOMAIN FinishedFiles = Ended
    BY DEF FinishedFiles
  <2> QED BY <1>3, <2>1 DEF Ended
<1>7. CASE phase' = "aborted" /\ files' = files
  <2>1. Phase' = "failed" /\ Ended' = Ended
    BY <1>7 DEF Phase, Ended
  <2>2. DOMAIN FinishedFiles # DOMAIN KeptComponents
    BY <1>4, <1>5, <1>6
  <2>3. (DOMAIN files \ Ended)' = DOMAIN files \ Ended
    BY <1>7, <2>1
  <2>4. FinishedFiles' = FinishedFiles /\ KeptComponents' = KeptComponents
    BY <1>1, <2>1, FilesFollowEnded
  <2>5. Promise!Fail
    BY <1>1, <1>3, <2>1, <2>2, <2>3, <2>4 DEF Promise!Fail
  <2> QED BY <2>5 DEF Promise!Next
<1>8. CASE /\ phase' = "nodes"
           /\ files' = [c \in DOMAIN files \cup {id} |-> IF c = id THEN new ELSE files[c]]
  <2>1. Phase' = "writing"
    BY <1>8 DEF Phase
  <2>2. ~new.ended
    OBVIOUS
  <2> HIDE DEF new, id
  <2>3. /\ DOMAIN files' = DOMAIN files \cup {id} /\ files'[id] = new
        /\ \A c \in DOMAIN files : files'[c] = files[c]
    BY <1>5, <1>8
  <2>4. Ended' = Ended
    BY <1>5, <2>2, <2>3 DEF Ended
  <2>5. (DOMAIN files \ Ended)' = {id}
    BY <1>3, <1>5, <2>3, <2>4 DEF Ended
  <2>6. FinishedFiles' = FinishedFiles /\ KeptComponents' = KeptComponents
    BY <1>1, <2>4, FilesFollowEnded
  <2>7. id \in DOMAIN KeptComponents \ DOMAIN FinishedFiles
    BY <1>4, <1>5, <1>6
  <2>8. Promise!Open
    BY <1>1, <1>3, <2>1, <2>5, <2>6, <2>7 DEF Promise!Open
  <2> QED BY <2>8 DEF Promise!Next
<1> QED BY <1>7, <1>8 DEF OpenComponent

LEMMA ClosePromised ==
  ASSUME WriterInv, WriterInv', CloseComponent
  PROVE  Promise!Next
<1> DEFINE id == ccId
<1>1. /\ UNCHANGED <<graph, filter, m_nodes, rep, write_filter>>
      /\ phase = "edges" /\ phase' = "next" /\ files' = [files EXCEPT ![id].ended = TRUE] /\ Split
  BY DEF CloseComponent, collected, sets, Split
<1>2. Placed /\ Within
  BY <1>1 DEF Placed, Sorted, WriterInv, CursorInv, InEdges
<1>3. Phase = "writing" /\ Phase' = "writing"
  BY <1>1 DEF Phase
<1>4. id \in DOMAIN files /\ files[id] \in FileTypes /\ ~files[id].ended
  BY <1>1, <1>2, WithinFacts DEF Within
<1>5. \A c \in DOMAIN files : c = id \/ files[c].ended
  BY <1>2 DEF Within, DoneBelow, IsDone
<1> HIDE DEF id
<1>6. DOMAIN files \ Ended = {id} /\ Ended = DOMAIN files \ {id}
  BY <1>4, <1>5 DEF Ended
<1>7. /\ DOMAIN files' = DOMAIN files /\ files'[id].ended
      /\ \A c \in DOMAIN files : c # id => files'[c] = files[c]
  <2>1. [files[id] EXCEPT !.ended = TRUE].ended
    BY <1>4 DEF FileTypes
  <2> QED BY <1>1, <1>4, <2>1
<1>8. Ended' = Ended \cup {id} /\ (DOMAIN files \ Ended)' = {}
  BY <1>4, <1>5, <1>7 DEF Ended
<1>9. /\ KeptComponents' = KeptComponents
      /\ FinishedFiles  = [c \in Ended  |-> Promise!File(KeptComponents[c])]
      /\ FinishedFiles' = [c \in Ended' |-> Promise!File(KeptComponents[c])]
  BY <1>1, FilesFollowEnded
<1>10. FinishedFiles' = [d \in DOMAIN FinishedFiles \cup {id} |->
                           IF d = id THEN Promise!File(KeptComponents[id]) ELSE FinishedFiles[d]]
  BY <1>8, <1>9
<1>11. Promise!Close
  BY <1>1, <1>3, <1>6, <1>8, <1>9, <1>10 DEF Promise!Close
<1> QED BY <1>11 DEF Promise!Next

LEMMA FinishPromised ==
  ASSUME WriterInv, WriterInv', Finish
  PROVE  Promise!Next
<1>1. /\ UNCHANGED <<graph, filter, m_nodes, rep, write_filter, files>>
      /\ phase = "next" /\ phase' = "done" /\ Split
  BY DEF Finish, collected, sets, Split
<1>2. Placed /\ Sorted /\ RightChoice(write_filter)
  BY <1>1 DEF Placed, Sorted, WriterInv, FilterInv
<1>3. Phase = "writing" /\ Phase' = "done" /\ DOMAIN files \ Ended = {} /\ Ended' = Ended
  BY <1>1, AllEnded DEF Phase, Ended
<1>4. DoneBelow(files, write_filter, Block', m_nodes, {})
  <2>1. CursorInv'
    BY DEF WriterInv
  <2>2. DoneBelow(files, write_filter, Block, m_nodes, {})'
    BY <1>1, <2>1 DEF CursorInv
  <2> QED BY <1>1, <2>2
<1>5. \A r \in DOMAIN write_filter : r < m_nodes
  <2>1. DOMAIN write_filter \in SUBSET Reps
    BY <1>1, <1>2, PlacedFacts
  <2> QED BY <1>2, <2>1, NextBound
<1>6. DOMAIN files = {write_filter[r] : r \in DOMAIN write_filter}
  <2>1. \A c : c \in DOMAIN files <=> \E r \in DOMAIN write_filter : c = write_filter[r]
    BY <1>4, <1>5 DEF DoneBelow
  <2> QED BY <2>1
<1>7. DOMAIN FinishedFiles = DOMAIN KeptComponents
  <2>1. DOMAIN FinishedFiles = DOMAIN files
    BY <1>3 DEF FinishedFiles, Ended
  <2>2. DOMAIN KeptComponents = {write_filter[r] : r \in DOMAIN write_filter}
    BY <1>2, KeptAre
  <2> QED BY <1>6, <2>1, <2>2
<1>8. FinishedFiles' = FinishedFiles /\ KeptComponents' = KeptComponents
  BY <1>1, <1>3, FilesFollowEnded
<1>9. (DOMAIN files \ Ended)' = DOMAIN files \ Ended
  BY <1>1, <1>3
<1>10. Promise!Finish
  BY <1>1, <1>3, <1>7, <1>8, <1>9 DEF Promise!Finish
<1> QED BY <1>10 DEF Promise!Next

LEMMA StutterPromised ==
  ASSUME WriterInv, WriterInv', UNCHANGED vars PROVE UNCHANGED Promise!vars
<1>1. UNCHANGED <<graph, filter, phase, m_nodes, rep, write_filter, files>>
  BY DEF vars, collected, sets
<1>2. Phase' = Phase /\ Ended' = Ended
  BY <1>1 DEF Phase, Ended
<1> QED BY <1>1, <1>2, FilesFollowEnded DEF Promise!vars

\* The writer keeps the promise of -cc: it divides the graph into its connected
\* components, keeps those that the filter asks for, numbers them by falling
\* size, and writes each whole to one file, one after the other; a finished file
\* stays as it is, and the writer gives up only where it may.
THEOREM WriterImplementsFiles == Spec => StepsKeepPromise
<1> DEFINE I == WriterInv /\ EarlyInv
<1>1. Init => Promise!Init
  BY InitPromised
<1>2. I /\ I' /\ [Next]_vars => [Promise!Next]_(Promise!vars)
  <2> SUFFICES ASSUME WriterInv, EarlyInv, WriterInv', [Next]_vars
               PROVE  [Promise!Next]_(Promise!vars)
    OBVIOUS
  <2>1. CASE WriteHeader \/ WriteNode \/ WriteEdge \/ EndGraph \/ Unite \/ SortByRep
    BY <2>1, EarlyStepsPromised
  <2>2. CASE ChooseComponents
    BY <2>2, ChoosePromised
  <2>3. CASE SkipComponent \/ PutNode \/ EndNodes \/ PutEdge
    BY <2>3, QuietSteps
  <2>4. CASE OpenComponent
    BY <2>4, OpenPromised
  <2>5. CASE CloseComponent
    BY <2>5, ClosePromised
  <2>6. CASE Finish
    BY <2>6, FinishPromised
  <2>7. CASE UNCHANGED vars
    BY <2>7, StutterPromised
  <2> QED BY <2>1, <2>2, <2>3, <2>4, <2>5, <2>6, <2>7 DEF Next
<1>3. Spec => []I
  <2>1. Init => EarlyInv
    BY EarlyInit
  <2>2. EarlyInv /\ [Next]_vars => EarlyInv'
    BY EarlyStep
  <2> QED BY <2>1, <2>2, WriterIsPlaced, PTL DEF Spec
<1> HIDE DEF I
<1> QED BY <1>1, <1>2, <1>3, PTL DEF Spec, StepsKeepPromise, Promise!SafeSpec

=============================================================================
