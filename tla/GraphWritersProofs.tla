------------------------- MODULE GraphWritersProofs -------------------------
(***************************************************************************)
(* What the writers hear and what they make of it, for every graph: the    *)
(* protocol, the files and the offset array.                               *)
(***************************************************************************)
EXTENDS GraphWritersInvariants, FiniteSetTheorems, FunctionTheorems, SequenceTheorems, TLAPS

\* What is known of the graph.
LEMMA GraphType ==
  ASSUME graph \in Graphs
  PROVE  /\ nodeCount \in Nat /\ edgeCount \in Nat /\ Edges = 1..edgeCount
         /\ Vertices = 0..(nodeCount - 1)
         /\ \A n \in Edges : /\ EdgeAt(n).source \in Nat /\ EdgeAt(n).target \in Nat
                             /\ EdgeAt(n).type \in Nat
<1>1. graph \in [nodeCount : Nat, edges : Seq(EdgeRecords)]
  BY GraphWritersAssumption DEF EdgeRecords
<1>2. graph.nodeCount \in Nat /\ graph.edges \in Seq(EdgeRecords)
  BY <1>1
<1>3. \A n \in Edges : EdgeAt(n) \in EdgeRecords
  BY <1>2, ElementOfSeq DEF Edges, EdgeAt
<1> QED BY <1>2, <1>3 DEF nodeCount, edgeCount, Edges, Vertices, EdgeRecords

\* A concatenation is the one list and then the other.
LEMMA ConcatParts ==
  ASSUME NEW S, NEW a \in Seq(S), NEW b \in Seq(S)
  PROVE  /\ a \o b \in Seq(S) /\ Len(a \o b) = Len(a) + Len(b)
         /\ Len(a) \in Nat /\ Len(b) \in Nat
         /\ \A i \in 1..Len(a) : (a \o b)[i] = a[i]
         /\ \A i \in 1..Len(b) : (a \o b)[Len(a) + i] = b[i]
BY ConcatProperties

\* The same for five lists.
FiveLists(a, b, c, d, e) == a \o b \o c \o d \o e

AreParts(p, a, b, c, d, e) ==
  /\ Len(p) = Len(a) + Len(b) + Len(c) + Len(d) + Len(e)
  /\ \A i \in 1..Len(a) : p[i] = a[i]
  /\ \A i \in 1..Len(b) : p[Len(a) + i] = b[i]
  /\ \A i \in 1..Len(c) : p[Len(a) + Len(b) + i] = c[i]
  /\ \A i \in 1..Len(d) : p[Len(a) + Len(b) + Len(c) + i] = d[i]
  /\ \A i \in 1..Len(e) : p[Len(a) + Len(b) + Len(c) + Len(d) + i] = e[i]

LEMMA FiveParts ==
  ASSUME NEW a \in Seq(CallNames), NEW b \in Seq(CallNames), NEW c \in Seq(CallNames), NEW d \in Seq(CallNames),
         NEW e \in Seq(CallNames)
  PROVE  FiveLists(a, b, c, d, e) \in Seq(CallNames) /\ AreParts(FiveLists(a, b, c, d, e), a, b, c, d, e)
<1> DEFINE ab == a \o b
           abc == ab \o c
           abcd == abc \o d
           q == abcd \o e
<1>1. /\ ab \in Seq(CallNames) /\ Len(ab) = Len(a) + Len(b) /\ Len(a) \in Nat /\ Len(b) \in Nat
      /\ \A i \in 1..Len(a) : ab[i] = a[i]
      /\ \A i \in 1..Len(b) : ab[Len(a) + i] = b[i]
  BY ConcatParts
<1> HIDE DEF ab
<1>2. /\ abc \in Seq(CallNames) /\ Len(abc) = Len(ab) + Len(c) /\ Len(c) \in Nat
      /\ \A i \in 1..Len(ab) : abc[i] = ab[i]
      /\ \A i \in 1..Len(c) : abc[Len(ab) + i] = c[i]
  <2>1. ab \in Seq(CallNames) BY <1>1
  <2> QED BY <2>1, ConcatParts
<1> HIDE DEF abc
<1>3. /\ abcd \in Seq(CallNames) /\ Len(abcd) = Len(abc) + Len(d) /\ Len(d) \in Nat
      /\ \A i \in 1..Len(abc) : abcd[i] = abc[i]
      /\ \A i \in 1..Len(d) : abcd[Len(abc) + i] = d[i]
  <2>1. abc \in Seq(CallNames) BY <1>2
  <2> QED BY <2>1, ConcatParts
<1> HIDE DEF abcd
<1>4. /\ q \in Seq(CallNames) /\ Len(q) = Len(abcd) + Len(e) /\ Len(e) \in Nat
      /\ \A i \in 1..Len(abcd) : q[i] = abcd[i]
      /\ \A i \in 1..Len(e) : q[Len(abcd) + i] = e[i]
  <2>1. abcd \in Seq(CallNames) BY <1>3
  <2> QED BY <2>1, ConcatParts
<1> HIDE DEF q
<1>5. /\ Len(q) = Len(a) + Len(b) + Len(c) + Len(d) + Len(e)
      /\ \A i \in 1..Len(a) : q[i] = a[i]
      /\ \A i \in 1..Len(b) : q[Len(a) + i] = b[i]
      /\ \A i \in 1..Len(c) : q[Len(a) + Len(b) + i] = c[i]
      /\ \A i \in 1..Len(d) : q[Len(a) + Len(b) + Len(c) + i] = d[i]
      /\ \A i \in 1..Len(e) : q[Len(a) + Len(b) + Len(c) + Len(d) + i] = e[i]
  <2>1. /\ Len(a) \in Nat /\ Len(b) \in Nat /\ Len(c) \in Nat /\ Len(d) \in Nat /\ Len(e) \in Nat
        /\ Len(ab) = Len(a) + Len(b) /\ Len(abc) = Len(a) + Len(b) + Len(c) /\ Len(abcd) = Len(a) + Len(b) + Len(c) + Len(d)
        /\ Len(q) = Len(a) + Len(b) + Len(c) + Len(d) + Len(e)
    BY <1>1, <1>2, <1>3, <1>4
  <2>2. /\ \A i \in 1..Len(a) : ab[i] = a[i]
        /\ \A i \in 1..Len(b) : ab[Len(a) + i] = b[i]
        /\ \A i \in 1..(Len(a) + Len(b)) : abc[i] = ab[i]
        /\ \A i \in 1..Len(c) : abc[Len(a) + Len(b) + i] = c[i]
    BY <1>1, <1>2, <2>1
  <2>3. /\ \A i \in 1..(Len(a) + Len(b) + Len(c)) : abcd[i] = abc[i]
        /\ \A i \in 1..Len(d) : abcd[Len(a) + Len(b) + Len(c) + i] = d[i]
        /\ \A i \in 1..(Len(a) + Len(b) + Len(c) + Len(d)) : q[i] = abcd[i]
        /\ \A i \in 1..Len(e) : q[Len(a) + Len(b) + Len(c) + Len(d) + i] = e[i]
    BY <1>3, <1>4, <2>1
  <2>4. \A i \in 1..(Len(a) + Len(b)) : q[i] = ab[i]
    <3> TAKE i \in 1..(Len(a) + Len(b))
    <3>1. i \in 1..(Len(a) + Len(b) + Len(c)) /\ i \in 1..(Len(a) + Len(b) + Len(c) + Len(d))
      BY <2>1
    <3> QED BY <2>2, <2>3, <3>1
  <2>5. \A i \in 1..Len(a) : q[i] = a[i]
    <3> TAKE i \in 1..Len(a)
    <3>1. i \in 1..(Len(a) + Len(b))
      BY <2>1
    <3> QED BY <2>2, <2>4, <3>1
  <2>6. \A i \in 1..Len(b) : q[Len(a) + i] = b[i]
    <3> TAKE i \in 1..Len(b)
    <3>1. Len(a) + i \in 1..(Len(a) + Len(b))
      BY <2>1
    <3> QED BY <2>2, <2>4, <3>1
  <2>7. \A i \in 1..Len(c) : q[Len(a) + Len(b) + i] = c[i]
    <3> TAKE i \in 1..Len(c)
    <3>1. /\ Len(a) + Len(b) + i \in 1..(Len(a) + Len(b) + Len(c))
          /\ Len(a) + Len(b) + i \in 1..(Len(a) + Len(b) + Len(c) + Len(d))
      BY <2>1
    <3> QED BY <2>2, <2>3, <3>1
  <2>8. \A i \in 1..Len(d) : q[Len(a) + Len(b) + Len(c) + i] = d[i]
    BY <2>1, <2>2, <2>3
  <2> QED BY <2>1, <2>3, <2>5, <2>6, <2>7, <2>8
<1>6. FiveLists(a, b, c, d, e) = q
  BY DEF FiveLists, q, ab, abc, abcd
<1>7. AreParts(q, a, b, c, d, e)
  BY <1>5 DEF AreParts
<1> QED BY Zenon, <1>4, <1>6, <1>7

\* The calls that main makes, by their places.
LEMMA ProtocolPlaces ==
  ASSUME graph \in Graphs
  PROVE  /\ Protocol \in Seq(CallNames) /\ Len(Protocol) = nodeCount + 9 + edgeCount
         /\ Protocol[1] = "beginGraph" /\ Protocol[2] = "beginHeader"
         /\ Protocol[3] = "writeHeader" /\ Protocol[4] = "endHeader"
         /\ Protocol[5] = "beginNodes"
         /\ \A v \in 1..nodeCount : Protocol[5 + v] = "writeNode"
         /\ Protocol[nodeCount + 6] = "endNodes" /\ Protocol[nodeCount + 7] = "beginEdges"
         /\ \A n \in 1..edgeCount : Protocol[nodeCount + 7 + n] = "writeEdge"
         /\ Protocol[nodeCount + 8 + edgeCount] = "endEdges"
         /\ Protocol[nodeCount + 9 + edgeCount] = "endGraph"
<1>0. nodeCount \in Nat /\ edgeCount \in Nat /\ DOMAIN graph.edges = 1..edgeCount
  BY GraphType DEF Edges
<1> DEFINE A == <<"beginGraph", "beginHeader", "writeHeader", "endHeader", "beginNodes">>
           B == [v \in 1..nodeCount |-> "writeNode"]
           C == <<"endNodes", "beginEdges">>
           D == [n \in 1..edgeCount |-> "writeEdge"]
           E == <<"endEdges", "endGraph">>
           Q == FiveLists(A, B, C, D, E)
<1>1. Protocol = Q
  BY <1>0 DEF FiveLists, Protocol, nodeCount
<1>2. /\ A \in Seq(CallNames) /\ B \in Seq(CallNames) /\ C \in Seq(CallNames)
      /\ D \in Seq(CallNames) /\ E \in Seq(CallNames)
  BY <1>0 DEF CallNames
<1>3. 5 = Len(A) /\ nodeCount = Len(B) /\ 2 = Len(C) /\ edgeCount = Len(D) /\ 2 = Len(E)
  BY <1>0
<1>4. /\ A[1] = "beginGraph" /\ A[2] = "beginHeader" /\ A[3] = "writeHeader"
      /\ A[4] = "endHeader" /\ A[5] = "beginNodes"
      /\ \A v \in 1..nodeCount : B[v] = "writeNode"
      /\ C[1] = "endNodes" /\ C[2] = "beginEdges" /\ \A n \in 1..edgeCount : D[n] = "writeEdge"
      /\ E[1] = "endEdges" /\ E[2] = "endGraph"
  BY <1>0
<1> HIDE DEF A, B, C, D, E
<1>5. Q \in Seq(CallNames) /\ AreParts(Q, A, B, C, D, E)
  BY <1>2, FiveParts
<1> HIDE DEF Q
<1>7. /\ Len(Q) = 5 + nodeCount + 2 + edgeCount + 2
      /\ \A i \in 1..5 : Q[i] = A[i]
      /\ \A i \in 1..nodeCount : Q[5 + i] = B[i]
      /\ \A i \in 1..2 : Q[5 + nodeCount + i] = C[i]
      /\ \A i \in 1..edgeCount : Q[5 + nodeCount + 2 + i] = D[i]
      /\ \A i \in 1..2 : Q[5 + nodeCount + 2 + edgeCount + i] = E[i]
  BY <1>3, <1>5 DEF AreParts
<1>8. /\ Q[5 + nodeCount + 1] = C[1] /\ Q[5 + nodeCount + 2] = C[2]
      /\ Q[5 + nodeCount + 2 + edgeCount + 1] = E[1]
      /\ Q[5 + nodeCount + 2 + edgeCount + 2] = E[2]
  BY <1>7
<1>9. Len(Q) = nodeCount + 9 + edgeCount /\ Q[nodeCount + 6] = C[1] /\ Q[nodeCount + 7] = C[2]
      /\ Q[nodeCount + 8 + edgeCount] = E[1]
      /\ Q[nodeCount + 9 + edgeCount] = E[2]
      /\ \A i \in 1..edgeCount : Q[nodeCount + 7 + i] = D[i]
  BY <1>0, <1>7, <1>8
<1> QED BY <1>1, <1>4, <1>5, <1>7, <1>9 DEF A, B, C, D, E

(***************************************************************************)
(* The calls.                                                              *)
(***************************************************************************)

\* The writer hears the next k calls of Protocol.
HearsNext(k) ==
  /\ heard' \in Seq(CallRecords) /\ Len(heard') = Len(heard) + k
  /\ \A i \in 1..Len(heard) : heard'[i] = heard[i]
  /\ \A i \in 1..k : heard'[Len(heard) + i].name = Protocol[Len(heard) + i]

LEMMA AppendCall ==
  ASSUME heard \in Seq(CallRecords), NEW name \in CallNames, NEW x \in Nat,
         heard' = Append(heard, Call(name, x)), Protocol[Len(heard) + 1] = name
  PROVE  HearsNext(1) /\ heard'[Len(heard) + 1] = Call(name, x)
<1>1. Call(name, x) \in CallRecords /\ Call(name, x).name = name
  BY DEF Call, CallRecords
<1>2. /\ heard' \in Seq(CallRecords) /\ Len(heard') = Len(heard) + 1
      /\ \A i \in 1..Len(heard) : heard'[i] = heard[i]
      /\ heard'[Len(heard) + 1] = Call(name, x)
  BY <1>1
<1>3. \A i \in 1..1 : heard'[Len(heard) + i].name = Protocol[Len(heard) + i]
  BY <1>1, <1>2
<1> QED BY <1>2, <1>3 DEF HearsNext

LEMMA HearCalls ==
  ASSUME heard \in Seq(CallRecords), NEW names \in Seq(CallNames), Hear(names),
         \A i \in 1..Len(names) : Protocol[Len(heard) + i] = names[i]
  PROVE  HearsNext(Len(names))
<1> DEFINE calls == [n \in 1..Len(names) |-> Call(names[n], 0)]
<1>1. \A n \in 1..Len(names) : names[n] \in CallNames
  OBVIOUS
<1>2. \A n \in 1..Len(names) : calls[n] \in CallRecords /\ calls[n].name = names[n]
  BY <1>1 DEF Call, CallRecords
<1>3. Len(calls) = Len(names)
  BY <1>2
<1>4. calls \in Seq(CallRecords)
  BY <1>2
<1>5. heard' = heard \o calls
  BY DEF Hear
<1> HIDE DEF calls
<1>6. /\ heard \o calls \in Seq(CallRecords) /\ Len(heard \o calls) = Len(heard) + Len(calls)
      /\ \A i \in 1..Len(heard) : (heard \o calls)[i] = heard[i]
      /\ \A i \in 1..Len(calls) : (heard \o calls)[Len(heard) + i] = calls[i]
  BY <1>4, ConcatParts
<1> QED BY <1>2, <1>3, <1>5, <1>6 DEF HearsNext

\* The names stay those of Protocol.
LEMMA NamesKept ==
  ASSUME NamesInv, graph \in Graphs, graph' = graph, NEW k \in Nat, HearsNext(k),
         Len(heard) + k <= nodeCount + 9 + edgeCount
  PROVE  NamesInv'
<1>1. Protocol' = Protocol
  BY DEF Protocol
<1>2. Len(Protocol) = nodeCount + 9 + edgeCount
  BY ProtocolPlaces
<1>3. heard' \in Seq(CallRecords) /\ Len(heard') <= Len(Protocol')
  BY <1>1, <1>2 DEF HearsNext
<1>4. ASSUME NEW i \in DOMAIN heard' PROVE heard'[i].name = Protocol'[i]
  <2>1. i \in 1..(Len(heard) + k) /\ Len(heard) \in Nat
    BY <1>3 DEF HearsNext, NamesInv
  <2>2. CASE i \in 1..Len(heard)
    BY <1>1, <2>2 DEF NamesInv, HearsNext
  <2>3. CASE i \notin 1..Len(heard)
    <3>1. i - Len(heard) \in 1..k /\ Len(heard) + (i - Len(heard)) = i
      BY <2>1, <2>3
    <3>2. heard'[Len(heard) + (i - Len(heard))].name = Protocol[Len(heard) + (i - Len(heard))]
      BY <3>1 DEF HearsNext
    <3> QED BY <1>1, <3>1, <3>2
  <2> QED BY <2>2, <2>3
<1> QED BY <1>3, <1>4 DEF NamesInv

\* SortedEdgeWriter puts all edges into some order, each once.
LEMMA SortedAll ==
  ASSUME graph \in Graphs, NEW s \in Seq(Edges), Len(s) = edgeCount,
         \A n \in 1..edgeCount : s[n] = n, NEW p \in SortedOrders(s)
  PROVE  /\ p \in Seq(Edges) /\ Len(p) = edgeCount
         /\ \A i, j \in 1..edgeCount : i # j => p[i] # p[j]
         /\ \A n \in Edges : \E i \in 1..edgeCount : p[i] = n
         /\ \A i, j \in 1..edgeCount : i < j => ~ Before(EdgeAt(p[j]), EdgeAt(p[i]))
<1>1. edgeCount \in Nat /\ Edges = 1..edgeCount
  BY GraphType
<1>2. ToSet(s) = Edges
  BY <1>1 DEF ToSet
<1>3. IsFiniteSet(Edges) /\ Cardinality(Edges) = edgeCount
  BY <1>1, FS_Interval
<1>4. /\ p \in [1..edgeCount -> Edges]
      /\ \A i, j \in 1..edgeCount : i # j => p[i] # p[j]
      /\ \A i, j \in DOMAIN p : i < j => ~ Before(EdgeAt(p[j]), EdgeAt(p[i]))
  BY <1>2, <1>3 DEF SortedOrders, SetToSeqs
<1>5. p \in Injection(Edges, Edges)
  BY <1>1, <1>4 DEF Injection, IsInjective
<1>6. p \in Surjection(Edges, Edges)
  BY <1>3, <1>5, FS_Injection
<1>7. \A n \in Edges : \E i \in Edges : p[i] = n
  BY <1>6 DEF Surjection
<1> QED BY <1>1, <1>4, <1>7

\* How many edges the writer has got follows from where main is.
PassedIs ==
  /\ Passed \in 0..edgeCount /\ nodeCount \in Nat /\ edgeCount \in Nat
  /\ Len(heard) \in Nat /\ Len(m_edges) \in Nat
  /\ call \in {"header", "nodes", "aborted"} => Passed = 0
  /\ call = "edges" => Passed = IF sorted THEN 0 ELSE given
  /\ call = "sorted" => Passed = edgeCount - Len(m_edges)
  /\ call = "undefined" => Passed \in 1..edgeCount
  /\ call \in {"end", "done"} => Passed = edgeCount
  /\ Passed > 0 => nodeCount + 7 + Passed <= Len(heard)

LEMMA PassedOf == NamesInv /\ LengthInv /\ InputInv /\ CallInv => PassedIs
<1> SUFFICES ASSUME NamesInv, LengthInv, InputInv, CallInv PROVE PassedIs
  OBVIOUS
<1> USE DEF PassedIs
<1>1. nodeCount \in Nat /\ edgeCount \in Nat
  BY GraphType DEF InputInv
<1>2. Len(heard) \in Nat
  BY DEF NamesInv
<1>3. Len(m_edges) \in Nat /\ Len(m_edges) <= edgeCount /\ given \in Nat
  BY DEF CallInv
<1>4. /\ call \in {"header", "nodes", "edges", "sorted", "end", "done", "aborted", "undefined"}
      /\ call = "nodes" => given <= nodeCount
      /\ call = "edges" => given <= edgeCount
  BY DEF CallInv, Ends
<1>5. /\ Len(heard) <= nodeCount + 7 => Passed = 0
      /\ \A n \in 1..edgeCount : Len(heard) = nodeCount + 7 + n => Passed = n
      /\ Len(heard) >= nodeCount + 7 + edgeCount => Passed = edgeCount
  BY <1>1, <1>2 DEF Passed
<1>6. CASE call \in {"header", "aborted", "nodes"}
  <2>1. PICK k : /\ k = Len(heard)
                 /\ k = 0 \/ k = 3 \/ (k = 5 + given /\ given <= nodeCount)
    BY <1>4, <1>6 DEF LengthInv
  <2>2. k <= nodeCount + 7
    BY <1>1, <1>3, <2>1
  <2> QED BY <1>1, <1>2, <1>3, <1>5, <1>6, <2>1, <2>2
<1>7. CASE call = "edges" /\ sorted
  <2>1. Len(heard) = nodeCount + 6
    BY <1>7 DEF LengthInv
  <2>2. Passed = 0
    BY <1>1, <1>5, <2>1
  <2> QED BY <1>1, <1>2, <1>3, <1>7, <2>2
<1>8. CASE call = "edges" /\ ~ sorted
  <2>1. Len(heard) = nodeCount + 7 + given
    BY <1>8 DEF LengthInv
  <2>2. Passed = given
    BY <1>1, <1>3, <1>4, <1>5, <1>8, <2>1
  <2> QED BY <1>1, <1>2, <1>3, <1>4, <1>8, <2>1, <2>2
<1>9. CASE call = "sorted"
  <2>1. Len(heard) = nodeCount + 7 + edgeCount - Len(m_edges)
    BY <1>9 DEF LengthInv
  <2>2. Passed = edgeCount - Len(m_edges)
    BY <1>1, <1>3, <1>5, <2>1
  <2> QED BY <1>1, <1>2, <1>3, <1>9, <2>1, <2>2
<1>10. CASE call = "undefined"
  <2>1. Len(heard) \in (nodeCount + 8)..(nodeCount + 7 + edgeCount)
    BY <1>10 DEF LengthInv
  <2>2. PICK n \in 1..edgeCount : Len(heard) = nodeCount + 7 + n
    <3>1. /\ Len(heard) - nodeCount - 7 \in 1..edgeCount
          /\ Len(heard) = nodeCount + 7 + (Len(heard) - nodeCount - 7)
      BY <1>1, <1>2, <2>1
    <3> QED BY <3>1
  <2> QED BY <1>1, <1>2, <1>3, <1>5, <1>10, <2>2
<1>11. CASE call \in {"end", "done"}
  <2>1. Len(heard) >= nodeCount + 8 + edgeCount
    BY <1>1, <1>11 DEF LengthInv
  <2>2. Passed = edgeCount
    BY <1>1, <1>2, <1>5, <2>1
  <2> QED BY <1>1, <1>2, <1>3, <1>11, <2>1, <2>2
<1> QED BY <1>4, <1>6, <1>7, <1>8, <1>9, <1>10, <1>11

\* The writer gets an edge.
LEMMA EdgePassed ==
  ASSUME graph \in Graphs, heard \in Seq(CallRecords), NEW n \in Edges, BaseEdge(n),
         Len(heard) >= nodeCount + 7, Len(heard) < nodeCount + 7 + edgeCount
  PROVE  HearsNext(1) /\ heard'[Len(heard) + 1].of = n /\ (call' = call \/ call' = "undefined")
<1>1. /\ nodeCount \in Nat /\ edgeCount \in Nat /\ n \in Nat
  BY GraphType
<1>2. /\ Len(heard) - nodeCount - 6 \in 1..edgeCount
      /\ nodeCount + 7 + (Len(heard) - nodeCount - 6) = Len(heard) + 1
  BY <1>1
<1>3. Protocol[nodeCount + 7 + (Len(heard) - nodeCount - 6)] = "writeEdge"
  BY <1>2, ProtocolPlaces
<1>4. Protocol[Len(heard) + 1] = "writeEdge"
  BY <1>2, <1>3
<1>5. heard' = Append(heard, Call("writeEdge", n)) /\ "writeEdge" \in CallNames
  BY DEF BaseEdge, CallNames
<1>6. HearsNext(1) /\ heard'[Len(heard) + 1] = Call("writeEdge", n)
  BY <1>1, <1>4, <1>5, AppendCall
<1>7. Call("writeEdge", n).of = n
  BY DEF Call
<1> QED BY <1>6, <1>7 DEF BaseEdge

\* A step of main, and what the writer hears of it.
LEMMA CallsStep ==
  ASSUME NamesInv, LengthInv, InputInv, CallInv, OrderInv, [Next]_vars
  PROVE  /\ NamesInv' /\ LengthInv' /\ InputInv' /\ CallInv'
         /\ UNCHANGED input /\ \E k \in Nat : HearsNext(k)
<1>0. UNCHANGED input
  BY DEF Next, vars, WriteHeader, WriteNode, BeginEdges, WriteEdge, EndEdges, PassOn, EndSorted,
     EndGraph
<1>1. /\ graph' = graph /\ writer' = writer /\ sorted' = sorted
      /\ nodeCount' = nodeCount /\ edgeCount' = edgeCount /\ Edges' = Edges
  BY <1>0 DEF input, nodeCount, edgeCount, Edges
<1>2. InputInv'
  BY <1>0 DEF input, InputInv, PointsToNodes
<1>3. /\ nodeCount \in Nat /\ edgeCount \in Nat /\ Edges = 1..edgeCount /\ graph \in Graphs
      /\ heard \in Seq(CallRecords) /\ Len(heard) \in Nat /\ given \in Nat
      /\ m_edges \in Seq(Edges) /\ Len(m_edges) \in Nat /\ Len(m_edges) <= edgeCount
      /\ Len(heard) <= nodeCount + 9 + edgeCount
  BY GraphType, ProtocolPlaces DEF InputInv, NamesInv, CallInv
<1> SUFFICES ASSUME TRUE
             PROVE  \E k \in Nat : /\ HearsNext(k) /\ LengthInv' /\ CallInv'
                                   /\ Len(heard) + k <= nodeCount + 9 + edgeCount
  BY <1>0, <1>1, <1>2, <1>3, NamesKept
<1>4. CASE WriteHeader /\ TooLarge
  <2> DEFINE names == <<"beginGraph", "beginHeader", "writeHeader">>
  <2>1. /\ call = "header" /\ call' = "aborted" /\ Hear(names)
        /\ given' = given /\ m_edges' = m_edges
    BY <1>4 DEF WriteHeader
  <2>2. names \in Seq(CallNames) /\ Len(names) = 3
    BY DEF CallNames
  <2>3. Len(heard) = 0
    BY <2>1 DEF LengthInv
  <2>4. \A i \in 1..3 : Protocol[i] = names[i]
    BY <1>3, ProtocolPlaces
  <2> HIDE DEF names
  <2>5. HearsNext(3)
    <3>1. \A i \in 1..Len(names) : Protocol[Len(heard) + i] = names[i]
      BY <2>2, <2>3, <2>4
    <3>2. HearsNext(Len(names))
      BY <1>3, <2>1, <2>2, <3>1, HearCalls
    <3> QED BY <2>2, <3>2
  <2>6. LengthInv' /\ CallInv'
    BY <1>1, <1>3, <2>1, <2>3, <2>5 DEF LengthInv, CallInv, HearsNext, Ends
  <2>7. Len(heard) + 3 <= nodeCount + 9 + edgeCount
    BY <1>3, <2>3
  <2> QED BY <2>5, <2>6, <2>7
<1>5. CASE WriteHeader /\ ~ TooLarge
  <2> DEFINE names == <<"beginGraph", "beginHeader", "writeHeader", "endHeader", "beginNodes">>
  <2>1. /\ call = "header" /\ call' = "nodes" /\ Hear(names)
        /\ given' = given /\ m_edges' = m_edges /\ given = 0
    BY <1>5 DEF WriteHeader, CallInv
  <2>2. names \in Seq(CallNames) /\ Len(names) = 5
    BY DEF CallNames
  <2>3. Len(heard) = 0
    BY <2>1 DEF LengthInv
  <2>4. \A i \in 1..5 : Protocol[i] = names[i]
    BY <1>3, ProtocolPlaces
  <2> HIDE DEF names
  <2>5. HearsNext(5)
    <3>1. \A i \in 1..Len(names) : Protocol[Len(heard) + i] = names[i]
      BY <2>2, <2>3, <2>4
    <3>2. HearsNext(Len(names))
      BY <1>3, <2>1, <2>2, <3>1, HearCalls
    <3> QED BY <2>2, <3>2
  <2>6. LengthInv' /\ CallInv'
    BY <1>1, <1>3, <2>1, <2>3, <2>5 DEF LengthInv, CallInv, HearsNext, Ends
  <2>7. Len(heard) + 5 <= nodeCount + 9 + edgeCount
    BY <1>3, <2>3
  <2> QED BY <2>5, <2>6, <2>7
<1>6. CASE WriteNode
  <2>1. /\ call = "nodes" /\ given < nodeCount /\ heard' = Append(heard, Call("writeNode", given))
        /\ given' = given + 1 /\ call' = call /\ m_edges' = m_edges
    BY <1>6 DEF WriteNode, nodeCount
  <2>2. Len(heard) = 5 + given
    BY <2>1 DEF LengthInv
  <2>3. given + 1 \in 1..nodeCount /\ Len(heard) + 1 = 5 + (given + 1)
    BY <1>3, <2>1, <2>2
  <2>4. HearsNext(1)
    <3>1. Protocol[5 + (given + 1)] = "writeNode"
      BY <1>3, <2>3, ProtocolPlaces
    <3>2. Protocol[Len(heard) + 1] = "writeNode"
      BY <2>3, <3>1
    <3> QED BY <1>3, <2>1, <3>2, AppendCall DEF CallNames
  <2>5. LengthInv' /\ CallInv'
    BY <1>1, <1>3, <2>1, <2>2, <2>4 DEF LengthInv, CallInv, HearsNext
  <2>6. Len(heard) + 1 <= nodeCount + 9 + edgeCount
    BY <1>3, <2>1, <2>2
  <2> QED BY <2>4, <2>5, <2>6
<1>7. CASE BeginEdges
  <2>1. /\ call = "nodes" /\ given = nodeCount /\ call' = "edges" /\ given' = 0
        /\ m_edges' = m_edges
    BY <1>7 DEF BeginEdges, nodeCount
  <2>2. Len(heard) = 5 + nodeCount
    BY <2>1 DEF LengthInv
  <2>3. Len(heard) + 1 = nodeCount + 6 /\ Len(heard) + 2 = nodeCount + 7
    BY <1>3, <2>2
  <2>4. CASE sorted
    <3> DEFINE names == <<"endNodes">>
    <3>1. names \in Seq(CallNames) /\ Len(names) = 1 /\ Hear(names)
      BY <1>7, <2>4 DEF CallNames, BeginEdges
    <3>2. \A i \in 1..1 : Protocol[Len(heard) + i] = names[i]
      BY <1>3, <2>3, ProtocolPlaces
    <3> HIDE DEF names
    <3>3. HearsNext(1)
      BY <1>3, <3>1, <3>2, HearCalls
    <3>4. LengthInv' /\ CallInv'
      BY <1>1, <1>3, <2>1, <2>2, <2>4, <3>3 DEF LengthInv, CallInv, HearsNext
    <3>5. Len(heard) + 1 <= nodeCount + 9 + edgeCount
      BY <1>3, <2>2
    <3> QED BY <3>3, <3>4, <3>5
  <2>5. CASE ~ sorted
    <3> DEFINE names == <<"endNodes", "beginEdges">>
    <3>1. names \in Seq(CallNames) /\ Len(names) = 2 /\ Hear(names)
      BY <1>7, <2>5 DEF CallNames, BeginEdges
    <3>2. \A i \in 1..2 : Protocol[Len(heard) + i] = names[i]
      BY <1>3, <2>3, ProtocolPlaces
    <3> HIDE DEF names
    <3>3. HearsNext(2)
      BY <1>3, <3>1, <3>2, HearCalls
    <3>4. LengthInv' /\ CallInv'
      BY <1>1, <1>3, <2>1, <2>2, <2>5, <3>3 DEF LengthInv, CallInv, HearsNext
    <3>5. Len(heard) + 2 <= nodeCount + 9 + edgeCount
      BY <1>3, <2>2
    <3> QED BY <3>3, <3>4, <3>5
  <2> QED BY <2>4, <2>5
<1>8. CASE WriteEdge
  <2>1. /\ call = "edges" /\ given < edgeCount /\ given' = given + 1
        /\ given + 1 \in Edges
    BY <1>3, <1>8 DEF WriteEdge, edgeCount
  <2>2. CASE sorted
    <3>1. m_edges' = Append(m_edges, given + 1) /\ call' = call /\ heard' = heard
      BY <1>8, <2>2 DEF WriteEdge
    <3>2. Len(m_edges) = given
      BY <2>1, <2>2 DEF OrderInv, KeptInv
    <3>3. m_edges' \in Seq(Edges) /\ Len(m_edges') = given + 1
      BY <1>3, <2>1, <3>1, <3>2
    <3>4. HearsNext(0)
      BY <1>3, <3>1 DEF HearsNext
    <3>5. LengthInv'
      BY <1>1, <2>1, <2>2, <3>1 DEF LengthInv
    <3>6. CallInv'
      BY <1>1, <1>3, <2>1, <2>2, <3>1, <3>3 DEF CallInv
    <3>7. 0 \in Nat /\ Len(heard) + 0 <= nodeCount + 9 + edgeCount
      BY <1>3
    <3> QED BY <3>4, <3>5, <3>6, <3>7
  <2>3. CASE ~ sorted
    <3>1. BaseEdge(given + 1) /\ m_edges' = m_edges
      BY <1>8, <2>3 DEF WriteEdge
    <3>2. Len(heard) = nodeCount + 7 + given
      BY <2>1, <2>3 DEF LengthInv
    <3>3. Len(heard) >= nodeCount + 7 /\ Len(heard) < nodeCount + 7 + edgeCount
      BY <1>3, <2>1, <3>2
    <3>4. HearsNext(1) /\ (call' = call \/ call' = "undefined")
      BY <1>3, <2>1, <3>1, <3>3, EdgePassed
    <3>5. Len(heard') = nodeCount + 7 + given + 1
      BY <3>2, <3>4 DEF HearsNext
    <3>6. LengthInv'
      BY <1>1, <1>3, <2>1, <2>3, <3>4, <3>5 DEF LengthInv
    <3>7. CallInv'
      BY <1>1, <1>3, <2>1, <3>1, <3>4 DEF CallInv, Ends
    <3>8. Len(heard) + 1 <= nodeCount + 9 + edgeCount
      BY <1>3, <3>3
    <3> QED BY <3>4, <3>6, <3>7, <3>8
  <2> QED BY <2>2, <2>3
<1>9. CASE EndEdges
  <2>1. call = "edges" /\ given = edgeCount /\ given' = given
    BY <1>9 DEF EndEdges, edgeCount
  <2>2. CASE sorted
    <3> DEFINE names == <<"beginEdges">>
    <3>1. /\ call' = "sorted" /\ Hear(names) /\ m_edges' \in SortedOrders(m_edges)
          /\ names \in Seq(CallNames) /\ Len(names) = 1
      BY <1>9, <2>2 DEF EndEdges, CallNames
    <3>2. Len(m_edges) = edgeCount /\ \A n \in 1..edgeCount : m_edges[n] = n
      BY <2>1, <2>2 DEF OrderInv, KeptInv
    <3>3. m_edges' \in Seq(Edges) /\ Len(m_edges') = edgeCount
      BY <1>3, <3>1, <3>2, SortedAll
    <3>4. Len(heard) = nodeCount + 6 /\ Len(heard) + 1 = nodeCount + 7
      BY <1>3, <2>1, <2>2 DEF LengthInv
    <3>5. \A i \in 1..1 : Protocol[Len(heard) + i] = names[i]
      BY <1>3, <3>4, ProtocolPlaces
    <3> HIDE DEF names
    <3>6. HearsNext(1)
      BY <1>3, <3>1, <3>5, HearCalls
    <3>7. LengthInv'
      BY <1>1, <1>3, <3>1, <3>3, <3>4, <3>6 DEF LengthInv, HearsNext
    <3>8. CallInv'
      BY <1>1, <1>3, <2>1, <2>2, <3>1, <3>3 DEF CallInv
    <3>9. Len(heard) + 1 <= nodeCount + 9 + edgeCount
      BY <1>3, <3>4
    <3> QED BY <3>6, <3>7, <3>8, <3>9
  <2>3. CASE ~ sorted
    <3> DEFINE names == <<"endEdges">>
    <3>1. /\ call' = "end" /\ Hear(names) /\ m_edges' = m_edges
          /\ names \in Seq(CallNames) /\ Len(names) = 1
      BY <1>9, <2>3 DEF EndEdges, CallNames
    <3>2. m_edges = << >>
      BY <2>3 DEF CallInv
    <3>3. Len(heard) = nodeCount + 7 + edgeCount /\ Len(heard) + 1 = nodeCount + 8 + edgeCount
      BY <1>3, <2>1, <2>3 DEF LengthInv
    <3>4. \A i \in 1..1 : Protocol[Len(heard) + i] = names[i]
      BY <1>3, <3>3, ProtocolPlaces
    <3> HIDE DEF names
    <3>5. HearsNext(1)
      BY <1>3, <3>1, <3>4, HearCalls
    <3>6. LengthInv'
      BY <1>1, <1>3, <3>1, <3>3, <3>5 DEF LengthInv, HearsNext
    <3>7. CallInv'
      BY <1>1, <1>3, <2>1, <3>1, <3>2 DEF CallInv
    <3>8. Len(heard) + 1 <= nodeCount + 9 + edgeCount
      BY <1>3, <3>3
    <3> QED BY <3>5, <3>6, <3>7, <3>8
  <2> QED BY <2>2, <2>3
<1>10. CASE PassOn
  <2>1. /\ call = "sorted" /\ m_edges # << >> /\ BaseEdge(Head(m_edges))
        /\ m_edges' = Tail(m_edges) /\ given' = given
    BY <1>10 DEF PassOn
  <2>2. /\ Head(m_edges) \in Edges /\ Tail(m_edges) \in Seq(Edges)
        /\ Len(Tail(m_edges)) = Len(m_edges) - 1
    BY <1>3, <2>1, HeadTailProperties
  <2>3. Len(m_edges) > 0
    BY <1>3, <2>1
  <2>4. Len(heard) = nodeCount + 7 + edgeCount - Len(m_edges)
    BY <2>1 DEF LengthInv
  <2>5. Len(heard) >= nodeCount + 7 /\ Len(heard) < nodeCount + 7 + edgeCount
    BY <1>3, <2>3, <2>4
  <2>6. HearsNext(1) /\ (call' = call \/ call' = "undefined")
    BY <1>3, <2>1, <2>2, <2>5, EdgePassed
  <2>7. Len(heard') = nodeCount + 7 + edgeCount - Len(m_edges')
    BY <1>3, <2>1, <2>2, <2>4, <2>6 DEF HearsNext
  <2>8. LengthInv'
    <3>1. CASE call' = "sorted"
      BY <1>1, <2>7, <3>1 DEF LengthInv
    <3>2. CASE call' = "undefined"
      <4>1. Len(heard') \in (nodeCount + 8)..(nodeCount + 7 + edgeCount)
        BY <1>3, <2>5, <2>6 DEF HearsNext
      <4> QED BY <1>1, <3>2, <4>1 DEF LengthInv
    <3> QED BY <2>1, <2>6, <3>1, <3>2
  <2>9. CallInv'
    <3>1. given <= edgeCount /\ sorted
      BY <2>1 DEF CallInv
    <3> QED BY <1>1, <1>3, <2>1, <2>2, <2>6, <3>1 DEF CallInv, Ends
  <2>10. Len(heard) + 1 <= nodeCount + 9 + edgeCount
    BY <1>3, <2>5
  <2> QED BY <2>6, <2>8, <2>9, <2>10
<1>11. CASE EndSorted
  <2> DEFINE names == <<"endEdges">>
  <2>1. /\ call = "sorted" /\ m_edges = << >> /\ call' = "end" /\ Hear(names)
        /\ given' = given /\ m_edges' = m_edges
        /\ names \in Seq(CallNames) /\ Len(names) = 1
    BY <1>11 DEF EndSorted, CallNames
  <2>2. Len(heard) = nodeCount + 7 + edgeCount /\ Len(heard) + 1 = nodeCount + 8 + edgeCount
    BY <1>3, <2>1 DEF LengthInv
  <2>3. \A i \in 1..1 : Protocol[Len(heard) + i] = names[i]
    BY <1>3, <2>2, ProtocolPlaces
  <2> HIDE DEF names
  <2>4. HearsNext(1)
    BY <1>3, <2>1, <2>3, HearCalls
  <2>5. LengthInv'
    BY <1>1, <1>3, <2>1, <2>2, <2>4 DEF LengthInv, HearsNext
  <2>6. CallInv'
    BY <1>1, <1>3, <2>1 DEF CallInv
  <2>7. Len(heard) + 1 <= nodeCount + 9 + edgeCount
    BY <1>3, <2>2
  <2> QED BY <2>4, <2>5, <2>6, <2>7
<1>12. CASE EndGraph
  <2> DEFINE names == <<"endGraph">>
  <2>1. /\ call = "end" /\ call' = "done" /\ Hear(names) /\ given' = given /\ m_edges' = m_edges
        /\ names \in Seq(CallNames) /\ Len(names) = 1
    BY <1>12 DEF EndGraph, CallNames
  <2>2. Len(heard) = nodeCount + 8 + edgeCount /\ Len(heard) + 1 = nodeCount + 9 + edgeCount
    BY <1>3, <2>1 DEF LengthInv
  <2>3. \A i \in 1..1 : Protocol[Len(heard) + i] = names[i]
    BY <1>3, <2>2, ProtocolPlaces
  <2> HIDE DEF names
  <2>4. HearsNext(1)
    BY <1>3, <2>1, <2>3, HearCalls
  <2>5. LengthInv'
    BY <1>1, <1>3, <2>1, <2>2, <2>4 DEF LengthInv, HearsNext
  <2>6. CallInv'
    BY <1>1, <1>3, <2>1 DEF CallInv, Ends
  <2>7. Len(heard) + 1 <= nodeCount + 9 + edgeCount
    BY <1>3, <2>2
  <2> QED BY <2>4, <2>5, <2>6, <2>7
<1>13. CASE UNCHANGED vars
  <2>1. HearsNext(0)
    BY <1>3, <1>13 DEF vars, HearsNext
  <2>2. LengthInv' /\ CallInv'
    BY <1>1, <1>13 DEF vars, LengthInv, CallInv
  <2>3. 0 \in Nat /\ Len(heard) + 0 <= nodeCount + 9 + edgeCount
    BY <1>3
  <2> QED BY <2>1, <2>2, <2>3
<1> QED BY <1>4, <1>5, <1>6, <1>7, <1>8, <1>9, <1>10, <1>11, <1>12, <1>13 DEF Next

\* The edges that the writer has got stay; it gets the next one by BaseEdge.
LEMMA PassedStep ==
  ASSUME NamesInv, LengthInv, InputInv, CallInv, OrderInv, [Next]_vars
  PROVE  /\ PassedIs /\ PassedIs'
         /\ Passed <= Passed' /\ \A n \in 1..Passed : NthEdge(n)' = NthEdge(n)
         /\ \A n \in Edges :
              /\ BaseEdge(n) /\ call \in {"edges", "sorted"}
              /\ call = "edges" => ~ sorted /\ given < edgeCount
              /\ call = "sorted" => Len(m_edges) > 0
              => Passed' = Passed + 1 /\ \A k : k = Passed + 1 => NthEdge(k)' = n
<1>1. /\ NamesInv' /\ LengthInv' /\ InputInv' /\ CallInv'
      /\ UNCHANGED input /\ \E k \in Nat : HearsNext(k)
  BY CallsStep
<1>2. PassedIs
  BY PassedOf
<1>3. PassedIs'
  BY <1>1, PassedOf, PTL
<1>4. nodeCount' = nodeCount /\ edgeCount' = edgeCount /\ graph' = graph /\ graph \in Graphs
  BY <1>1 DEF input, nodeCount, edgeCount, InputInv
<1>5. PICK k \in Nat : Len(heard') = Len(heard) + k /\ \A i \in 1..Len(heard) : heard'[i] = heard[i]
  BY <1>1 DEF HearsNext
<1>6. Passed <= Passed'
  BY <1>2, <1>4, <1>5 DEF PassedIs, Passed
<1>7. ASSUME NEW n \in 1..Passed PROVE NthEdge(n)' = NthEdge(n)
  <2>1. nodeCount + 7 + n \in 1..Len(heard)
    BY <1>2, <1>7 DEF PassedIs
  <2>2. heard'[nodeCount + 7 + n] = heard[nodeCount + 7 + n]
    BY <1>5, <2>1
  <2> QED BY <1>4, <2>2 DEF NthEdge, nodeCount
<1>8. ASSUME NEW n \in Edges, BaseEdge(n), call \in {"edges", "sorted"}, 
             call = "edges" => ~ sorted /\ given < edgeCount, call = "sorted" => Len(m_edges) > 0
      PROVE  Passed' = Passed + 1 /\ \A j : j = Passed + 1 => NthEdge(j)' = n
  <2>1. Len(heard) = nodeCount + 7 + Passed /\ Passed < edgeCount
    BY <1>2, <1>8 DEF PassedIs, LengthInv
  <2>2. heard \in Seq(CallRecords) /\ Len(heard) >= nodeCount + 7 /\ Len(heard) < nodeCount + 7 + edgeCount
    BY <1>2, <2>1 DEF PassedIs, NamesInv
  <2>3. heard'[Len(heard) + 1].of = n /\ Len(heard') = Len(heard) + 1
    BY <1>4, <1>8, <2>2, EdgePassed DEF HearsNext
  <2>4. \A j : j = Passed + 1 => Len(heard) + 1 = graph.nodeCount + 7 + j
    BY <1>2, <2>1 DEF PassedIs, nodeCount
  <2>5. Len(heard') = nodeCount + 7 + (Passed + 1) /\ Passed + 1 \in 1..edgeCount
    BY <1>2, <2>1, <2>3 DEF PassedIs
  <2>6. \A j \in 1..edgeCount : Len(heard') = nodeCount + 7 + j => Passed' = j
    BY <1>2, <1>4 DEF PassedIs, Passed
  <2>7. Passed' = Passed + 1
    BY <2>5, <2>6
  <2> QED BY <1>4, <2>3, <2>4, <2>7 DEF NthEdge
<1> QED BY <1>2, <1>3, <1>6, <1>7, <1>8

\* An edge more, or none.
LEMMA OrderStep ==
  ASSUME NamesInv, LengthInv, InputInv, CallInv, OrderInv, SortedInv, [Next]_vars
  PROVE  OrderInv' /\ SortedInv'
<1>1. /\ PassedIs /\ PassedIs' /\ \A n \in 1..Passed : NthEdge(n)' = NthEdge(n)
  BY PassedStep
<1>2. /\ graph' = graph /\ sorted' = sorted /\ Edges' = Edges /\ edgeCount' = edgeCount
      /\ \A n : EdgeAt(n)' = EdgeAt(n)
      /\ graph \in Graphs /\ edgeCount \in Nat /\ Edges = 1..edgeCount
  BY CallsStep, GraphType DEF input, Edges, edgeCount, EdgeAt, InputInv
<1>3. m_edges \in Seq(Edges) /\ given \in Nat
  BY DEF CallInv
\* What the writer has got, if it gets nothing now.
<1>4. ASSUME Passed' = Passed PROVE GotInv'
  <2>1. \A n \in 1..Passed' : n \in 1..Passed /\ NthEdge(n)' = NthEdge(n)
    BY <1>1, <1>4
  <2> QED BY <1>2, <2>1 DEF OrderInv, GotInv, EdgeAt
\* What it has got, if it gets the edge e.
<1>5. ASSUME Passed' = Passed + 1, NEW e \in Edges, \A k : k = Passed + 1 => NthEdge(k)' = e,
             \A n \in 1..Passed : NthEdge(n) # e,
             sorted => \A n \in 1..Passed : ~Before(EdgeAt(e), EdgeAt(NthEdge(n))),
             ~sorted => e = Passed + 1
      PROVE  GotInv'
  <2>1. \A n \in 1..Passed' :
          \/ n \in 1..Passed /\ NthEdge(n)' = NthEdge(n)
          \/ n = Passed + 1 /\ NthEdge(n)' = e
    BY <1>1, <1>5 DEF PassedIs
  <2>2. \A n \in 1..Passed' : NthEdge(n)' \in Edges'
    BY <1>2, <1>5, <2>1 DEF OrderInv, GotInv
  <2>3. ASSUME NEW n \in 1..Passed', NEW k \in 1..Passed', n < k
        PROVE  /\ NthEdge(n)' # NthEdge(k)'
               /\ sorted' => ~Before(EdgeAt(NthEdge(k))', EdgeAt(NthEdge(n))')
    <3>1. n \in 1..Passed /\ NthEdge(n)' = NthEdge(n)
      BY <1>1, <2>1, <2>3 DEF PassedIs
    <3>2. CASE k \in 1..Passed /\ NthEdge(k)' = NthEdge(k)
      BY <1>2, <2>3, <3>1, <3>2 DEF OrderInv, GotInv, EdgeAt
    <3>3. CASE k = Passed + 1 /\ NthEdge(k)' = e
      BY <1>2, <1>5, <3>1, <3>3 DEF EdgeAt
    <3> QED BY <2>1, <3>2, <3>3
  <2>4. ~sorted' => \A n \in 1..Passed' : NthEdge(n)' = n
    BY <1>2, <1>5, <2>1 DEF OrderInv, GotInv
  <2> QED BY <2>2, <2>3, <2>4 DEF GotInv
<1>6. CASE WriteHeader \/ WriteNode \/ BeginEdges
  <2>1. /\ call \in {"header", "nodes"} /\ m_edges' = m_edges
        /\ call' \in {"aborted", "nodes", "edges"} /\ (call' = "edges" => given' = 0)
    BY <1>6 DEF WriteHeader, WriteNode, BeginEdges
  <2>2. m_edges' = << >>
    BY <2>1 DEF OrderInv, KeptInv
  <2>3. Passed' = Passed
    BY <1>1, <2>1 DEF PassedIs
  <2>4. KeptInv'
    BY <2>1, <2>2 DEF KeptInv
  <2> QED BY <1>4, <2>1, <2>3, <2>4 DEF OrderInv, SortedInv
<1>7. CASE WriteEdge /\ sorted
  <2>1. /\ call = "edges" /\ given < edgeCount /\ given' = given + 1
        /\ m_edges' = Append(m_edges, given + 1) /\ call' = call
    BY <1>7 DEF WriteEdge, edgeCount
  <2>2. Len(m_edges) = given /\ \A n \in 1..given : m_edges[n] = n
    BY <1>7, <2>1 DEF OrderInv, KeptInv
  <2>3. Len(m_edges') = given' /\ \A n \in 1..given' : m_edges'[n] = n
    BY <1>2, <1>3, <2>1, <2>2
  <2>4. Passed' = Passed
    BY <1>1, <1>2, <1>7, <2>1 DEF PassedIs
  <2>5. KeptInv'
    BY <2>1, <2>3 DEF KeptInv
  <2> QED BY <1>4, <2>1, <2>4, <2>5 DEF OrderInv, SortedInv
<1>8. CASE WriteEdge /\ ~ sorted
  <2>1. /\ call = "edges" /\ given < edgeCount /\ BaseEdge(given + 1)
        /\ call' = call \/ call' = "undefined"
    BY <1>8 DEF WriteEdge, BaseEdge, edgeCount
  <2>2. given + 1 \in Edges /\ Passed = given
    BY <1>1, <1>2, <1>3, <1>8, <2>1 DEF PassedIs
  <2>3. Passed' = Passed + 1 /\ \A k : k = Passed + 1 => NthEdge(k)' = given + 1
    BY <1>8, <2>1, <2>2, PassedStep
  <2>4. \A n \in 1..Passed : NthEdge(n) # given + 1
    BY <1>3, <1>8, <2>2 DEF OrderInv, GotInv
  <2>5. GotInv'
    BY <1>5, <1>8, <2>2, <2>3, <2>4
  <2>6. KeptInv' /\ SortedInv'
    BY <1>2, <1>8, <2>1 DEF KeptInv, SortedInv
  <2> QED BY <2>5, <2>6 DEF OrderInv
<1>9. CASE EndEdges /\ sorted
  <2>1. /\ call = "edges" /\ given = edgeCount /\ call' = "sorted"
        /\ m_edges' \in SortedOrders(m_edges)
    BY <1>9 DEF EndEdges, edgeCount
  <2>2. Len(m_edges) = edgeCount /\ \A n \in 1..edgeCount : m_edges[n] = n
    BY <1>9, <2>1 DEF OrderInv, KeptInv
  <2>3. /\ m_edges' \in Seq(Edges) /\ Len(m_edges') = edgeCount
        /\ \A i, j \in 1..edgeCount : i # j => m_edges'[i] # m_edges'[j]
        /\ \A n \in Edges : \E i \in 1..edgeCount : m_edges'[i] = n
        /\ \A i, j \in 1..edgeCount :
             i < j => ~ Before(EdgeAt(m_edges'[j]), EdgeAt(m_edges'[i]))
    BY <1>2, <1>3, <2>1, <2>2, SortedAll
  <2>4. Passed = 0 /\ Passed' = 0
    BY <1>1, <1>2, <1>9, <2>1, <2>3 DEF PassedIs
  <2>5. GotInv' /\ KeptInv'
    BY <1>4, <2>1, <2>4 DEF KeptInv
  <2>6. SortedInv'
    <3>1. Len(m_edges') = edgeCount /\ call' = "sorted" /\ Passed' = 0 /\ Edges' = Edges
      BY <1>2, <2>1, <2>3, <2>4
    <3>2. \A i, j \in 1..Len(m_edges') : i < j => m_edges'[i] # m_edges'[j]
      BY <1>2, <2>3, <3>1
    <3>3. \A i, j \in 1..Len(m_edges') :
            i < j => ~ Before(EdgeAt(m_edges[j])', EdgeAt(m_edges[i])')
      BY <1>2, <2>3, <3>1 DEF EdgeAt
    <3>4. \A e \in Edges' : \E i \in 1..Len(m_edges') : m_edges'[i] = e
      BY <2>3, <3>1
    <3> QED BY <3>1, <3>2, <3>3, <3>4 DEF SortedInv
  <2> QED BY <2>5, <2>6 DEF OrderInv
<1>10. CASE EndEdges /\ ~ sorted
  <2>1. call = "edges" /\ given = edgeCount /\ call' = "end"
    BY <1>10 DEF EndEdges, edgeCount
  <2>2. Passed = edgeCount /\ Passed' = edgeCount
    BY <1>1, <1>2, <1>10, <2>1 DEF PassedIs
  <2>3. GotInv' /\ KeptInv'
    BY <1>2, <1>4, <1>10, <2>1, <2>2 DEF KeptInv
  <2>4. \A e \in Edges' : e \in 1..Passed' /\ NthEdge(e)' = e
    BY <1>1, <1>2, <1>10, <2>2 DEF OrderInv, GotInv
  <2>5. SortedInv'
    BY <2>1, <2>4 DEF SortedInv
  <2> QED BY <2>3, <2>5 DEF OrderInv
<1>11. CASE PassOn
  <2> DEFINE h == Head(m_edges)
  <2>1. /\ call = "sorted" /\ m_edges # << >> /\ BaseEdge(h) /\ m_edges' = Tail(m_edges)
        /\ call' = call \/ call' = "undefined"
    BY <1>11 DEF PassOn, BaseEdge
  <2>2. /\ h \in Edges /\ h = m_edges[1] /\ Len(m_edges) \in Nat /\ Len(m_edges) > 0
        /\ Len(m_edges') = Len(m_edges) - 1
        /\ \A i \in 1..Len(m_edges') : m_edges'[i] = m_edges[i + 1] /\ i + 1 \in 1..Len(m_edges)
    BY <1>3, <2>1, HeadTailProperties
  <2> HIDE DEF h
  <2>3. /\ \A i, j \in 1..Len(m_edges) : i < j =>
             m_edges[i] # m_edges[j] /\ ~Before(EdgeAt(m_edges[j]), EdgeAt(m_edges[i]))
        /\ \A n \in 1..Passed, i \in 1..Len(m_edges) :
             NthEdge(n) # m_edges[i] /\ ~Before(EdgeAt(m_edges[i]), EdgeAt(NthEdge(n)))
    BY <2>1 DEF SortedInv
  <2>4. /\ \A e \in Edges : \/ \E n \in 1..Passed : NthEdge(n) = e
                            \/ \E i \in 1..Len(m_edges) : m_edges[i] = e
    BY <2>1 DEF SortedInv
  <2>5. sorted
    BY <2>1 DEF CallInv
  <2>6. Passed' = Passed + 1 /\ \A k : k = Passed + 1 => NthEdge(k)' = h
    BY <2>1, <2>2, PassedStep
  <2>7. 1 \in 1..Len(m_edges)
    BY <2>2
  <2>8. GotInv'
    BY <1>5, <2>2, <2>3, <2>5, <2>6, <2>7
  <2>9. KeptInv'
    BY <2>1 DEF KeptInv
  <2>10. \A n \in 1..Passed' :
           \/ n \in 1..Passed /\ NthEdge(n)' = NthEdge(n)
           \/ n = Passed + 1 /\ NthEdge(n)' = h
    BY <1>1, <2>6 DEF PassedIs
  <2>11. \A i, j \in 1..Len(m_edges') : i < j =>
           m_edges'[i] # m_edges'[j] /\ ~Before(EdgeAt(m_edges[j])', EdgeAt(m_edges[i])')
    BY <1>2, <2>2, <2>3 DEF EdgeAt
  <2>12. ASSUME NEW n \in 1..Passed', NEW i \in 1..Len(m_edges')
         PROVE  NthEdge(n)' # m_edges'[i] /\ ~Before(EdgeAt(m_edges[i])', EdgeAt(NthEdge(n))')
    <3>1. m_edges'[i] = m_edges[i + 1] /\ i + 1 \in 1..Len(m_edges) /\ 1 < i + 1
      BY <2>2
    <3>2. CASE n \in 1..Passed /\ NthEdge(n)' = NthEdge(n)
      BY <1>2, <2>3, <3>1, <3>2 DEF EdgeAt
    <3>3. CASE n = Passed + 1 /\ NthEdge(n)' = h
      BY <1>2, <2>2, <2>3, <2>7, <3>1, <3>3 DEF EdgeAt
    <3> QED BY <2>10, <3>2, <3>3
  <2>13. ASSUME NEW e \in Edges'
         PROVE  \/ \E n \in 1..Passed' : NthEdge(n)' = e
                \/ \E i \in 1..Len(m_edges') : m_edges'[i] = e
    <3>1. CASE \E n \in 1..Passed : NthEdge(n) = e
      <4>1. PICK n \in 1..Passed : NthEdge(n) = e
        BY <3>1
      <4>2. n \in 1..Passed' /\ NthEdge(n)' = e
        BY <1>1, <2>6, <4>1 DEF PassedIs
      <4> QED BY <4>2
    <3>2. CASE \E i \in 1..Len(m_edges) : m_edges[i] = e
      <4>1. PICK i \in 1..Len(m_edges) : m_edges[i] = e
        BY <3>2
      <4>2. CASE i = 1
        <5>1. Passed + 1 \in 1..Passed'
          BY <1>1, <2>6 DEF PassedIs
        <5>2. \A n : n = Passed + 1 => n \in 1..Passed' /\ NthEdge(n)' = e
          BY <2>2, <2>6, <4>1, <4>2, <5>1
        <5> QED BY <5>2
      <4>3. CASE i # 1
        <5>1. i - 1 \in 1..Len(m_edges') /\ i - 1 + 1 = i
          BY <2>2, <4>3
        <5>2. m_edges'[i - 1] = e
          BY <2>2, <4>1, <5>1
        <5> QED BY <5>1, <5>2
      <4> QED BY <4>2, <4>3
    <3> QED BY <1>2, <2>4, <3>1, <3>2
  <2>14. SortedInv'
    BY <2>1, <2>11, <2>12, <2>13 DEF SortedInv
  <2> QED BY <2>8, <2>9, <2>14 DEF OrderInv
<1>12. CASE EndSorted \/ EndGraph
  <2>1. call \in {"sorted", "end"} /\ call' \in {"end", "done"} /\ (call = "sorted" => m_edges = << >>)
    BY <1>12 DEF EndSorted, EndGraph
  <2>2. Passed = edgeCount /\ Passed' = Passed
    BY <1>1, <1>2, <2>1 DEF PassedIs
  <2>3. GotInv' /\ KeptInv'
    BY <1>4, <2>1, <2>2 DEF KeptInv
  <2>4. \A e \in Edges : \E n \in 1..Passed : NthEdge(n) = e
    BY <2>1 DEF SortedInv
  <2>5. \A e \in Edges' : \E n \in 1..Passed' : NthEdge(n)' = e
    BY <1>1, <1>2, <2>2, <2>4
  <2>6. SortedInv'
    BY <2>1, <2>5 DEF SortedInv
  <2> QED BY <2>3, <2>6 DEF OrderInv
<1>13. CASE UNCHANGED vars
  <2>1. /\ call' = call /\ m_edges' = m_edges /\ given' = given /\ heard' = heard
    BY <1>13 DEF vars
  <2>2. Passed' = Passed
    BY <1>2, <1>13 DEF vars, input, Passed, nodeCount, edgeCount
  <2>3. GotInv' /\ KeptInv'
    BY <1>2, <1>4, <2>1, <2>2 DEF OrderInv, KeptInv
  <2>4. \A n : NthEdge(n)' = NthEdge(n)
    BY <1>2, <2>1 DEF NthEdge
  <2>5. SortedInv'
    BY <1>2, <2>1, <2>2, <2>4 DEF SortedInv, EdgeAt
  <2> QED BY <2>3, <2>5 DEF OrderInv
<1> QED BY <1>6, <1>7, <1>8, <1>9, <1>10, <1>11, <1>12, <1>13 DEF Next

LEMMA HeardInit == Init => HeardInv
<1> SUFFICES ASSUME Init PROVE HeardInv
  OBVIOUS
<1>1. /\ graph \in Graphs /\ call = "header" /\ given = 0 /\ m_edges = << >> /\ heard = << >>
      /\ Len(heard) = 0 /\ Len(m_edges) = 0
  BY DEF Init
<1>2. nodeCount \in Nat /\ edgeCount \in Nat /\ Len(Protocol) = nodeCount + 9 + edgeCount
  BY <1>1, GraphType, ProtocolPlaces
<1>3. NamesInv /\ LengthInv
  BY <1>1, <1>2 DEF NamesInv, LengthInv
<1>4. InputInv /\ CallInv
  BY <1>1, <1>2 DEF Init, InputInv, CallInv
<1>5. Passed = 0
  BY <1>1, <1>2 DEF Passed
<1>6. OrderInv /\ SortedInv
  BY <1>1, <1>5 DEF OrderInv, GotInv, KeptInv, SortedInv
<1> QED BY <1>3, <1>4, <1>6 DEF HeardInv

\* The calls a writer hears, for every graph and with every order of edges.
THEOREM HeardInvariant == Spec => []HeardInv
<1>1. HeardInv /\ [Next]_vars => HeardInv'
  BY CallsStep, OrderStep DEF HeardInv
<1> QED BY <1>1, HeardInit, PTL DEF Spec

\* The calls about edges are the ones at their places in Protocol.
EdgeCallsAre ==
  /\ \A n \in 1..Passed : nodeCount + 7 + n \in EdgeCalls
  /\ \A i \in EdgeCalls : i - nodeCount - 7 \in 1..Passed /\ i \in Nat

LEMMA EdgeCallsPlaces == HeardInv => EdgeCallsAre
<1> SUFFICES ASSUME HeardInv PROVE EdgeCallsAre
  OBVIOUS
<1>1. PassedIs /\ graph \in Graphs /\ heard \in Seq(CallRecords) /\ Len(heard) <= Len(Protocol)
  BY PassedOf DEF HeardInv, InputInv, NamesInv
<1>2. nodeCount \in Nat /\ edgeCount \in Nat /\ Len(heard) \in Nat /\ Passed \in 0..edgeCount
  BY <1>1 DEF PassedIs
<1>3. \A i \in 1..Len(heard) : heard[i].name = Protocol[i]
  BY <1>1 DEF HeardInv, NamesInv
<1>4. Len(Protocol) = nodeCount + 9 + edgeCount
  BY <1>1, ProtocolPlaces
<1>5. ASSUME NEW n \in 1..Passed PROVE nodeCount + 7 + n \in EdgeCalls
  <2>1. nodeCount + 7 + n \in 1..Len(heard) /\ n \in 1..edgeCount
    BY <1>1, <1>2, <1>5 DEF PassedIs
  <2>2. Protocol[nodeCount + 7 + n] = "writeEdge"
    BY <1>1, <2>1, ProtocolPlaces
  <2> QED BY <1>1, <1>3, <2>1, <2>2 DEF EdgeCalls
<1>6. ASSUME NEW i \in EdgeCalls PROVE i - nodeCount - 7 \in 1..Passed /\ i \in Nat
  <2>1. i \in 1..Len(heard) /\ Protocol[i] = "writeEdge"
    BY <1>1, <1>3, <1>6 DEF EdgeCalls
  <2>2. i \notin 1..5
    <3>1. \A j \in 1..5 : j = 1 \/ j = 2 \/ j = 3 \/ j = 4 \/ j = 5
      OBVIOUS
    <3> QED BY <1>1, <2>1, <3>1, ProtocolPlaces
  <2>3. i \notin 6..(nodeCount + 5)
    <3> SUFFICES ASSUME i \in 6..(nodeCount + 5) PROVE FALSE
      OBVIOUS
    <3>1. i - 5 \in 1..nodeCount /\ 5 + (i - 5) = i
      BY <1>2
    <3>2. Protocol[5 + (i - 5)] = "writeNode"
      BY <1>1, <3>1, ProtocolPlaces
    <3> QED BY <2>1, <3>1, <3>2
  <2>4. i # nodeCount + 6 /\ i # nodeCount + 7
    BY <1>1, <2>1, ProtocolPlaces
  <2>5. i # nodeCount + 8 + edgeCount /\ i # nodeCount + 9 + edgeCount
    BY <1>1, <2>1, ProtocolPlaces
  <2>6. i >= nodeCount + 8 /\ i <= nodeCount + 7 + edgeCount
    BY <1>1, <1>2, <1>4, <2>1, <2>2, <2>3, <2>4, <2>5
  <2>7. Passed = edgeCount \/ Passed = Len(heard) - nodeCount - 7
    BY <1>2, <2>1, <2>6 DEF Passed
  <2> QED BY <1>2, <2>1, <2>6, <2>7
<1> QED BY <1>5, <1>6 DEF EdgeCallsAre

\* A writer hears what Protocol says, and each edge once and in order.
THEOREM WritersHearProtocol == Spec => []ProtocolKept
<1>1. HeardInv => ProtocolKept
  <2> SUFFICES ASSUME HeardInv PROVE ProtocolKept
    OBVIOUS
  <2> DEFINE names == [i \in DOMAIN heard |-> heard[i].name]
  <2>1. PassedIs /\ EdgeCallsAre /\ graph \in Graphs /\ heard \in Seq(CallRecords)
    BY EdgeCallsPlaces, PassedOf DEF HeardInv, InputInv, NamesInv
  <2>2. Len(heard) <= Len(Protocol) /\ \A i \in 1..Len(heard) : heard[i].name = Protocol[i]
    BY <2>1 DEF HeardInv, NamesInv
  <2>3. Protocol \in Seq(CallNames) /\ Len(Protocol) = nodeCount + 9 + edgeCount
    BY <2>1, ProtocolPlaces
  <2>4. /\ names \in Seq(CallNames) /\ Len(names) = Len(heard)
        /\ \A i \in 1..Len(names) : names[i] = Protocol[i]
    <3>1. DOMAIN heard = 1..Len(heard) /\ Len(heard) \in Nat
      BY <2>1
    <3>2. \A i \in 1..Len(heard) : heard[i].name \in CallNames
      <4>1. \A i \in 1..Len(heard) : heard[i] \in CallRecords
        BY <2>1, ElementOfSeq
      <4> QED BY <4>1 DEF CallRecords
    <3>3. names = [i \in 1..Len(heard) |-> heard[i].name]
      BY <3>1
    <3>4. names \in [1..Len(heard) -> CallNames]
      BY <3>2, <3>3
    <3>5. names \in Seq(CallNames) /\ Len(names) = Len(heard)
      BY <3>1, <3>4
    <3>6. \A i \in 1..Len(heard) : names[i] = heard[i].name
      BY <3>3
    <3> QED BY <2>2, <3>5, <3>6
  <2> HIDE DEF names
  <2>5. IsPrefix(names, Protocol)
    <3>1. Len(names) <= Len(Protocol) /\ Len(names) \in Nat
      BY <2>2, <2>4
    <3>2. \A i \in 1..Len(names) : Protocol[i] \in CallNames /\ names[i] \in CallNames
      BY <2>3, <2>4, <3>1
    <3>3. SubSeq(names, 1, Len(names)) = SubSeq(Protocol, 1, Len(names))
      BY <2>3, <2>4, <3>1
    <3> QED BY <3>1, <3>3 DEF IsPrefix
  <2>6. call = "done" => Len(heard) = Len(Protocol)
    BY <2>3 DEF HeardInv, LengthInv
  <2>7. ASSUME NEW i \in EdgeCalls, NEW j \in EdgeCalls, i < j
        PROVE  /\ heard[i].of # heard[j].of
               /\ IF sorted THEN InOrder(EdgeAt(heard[i].of), EdgeAt(heard[j].of))
                  ELSE heard[i].of < heard[j].of
    <3> DEFINE n == i - nodeCount - 7
               k == j - nodeCount - 7
    <3>1. n \in 1..Passed /\ k \in 1..Passed /\ i \in Nat /\ j \in Nat
      BY <2>1 DEF EdgeCallsAre
    <3>2. n < k /\ nodeCount + 7 + n = i /\ nodeCount + 7 + k = j
      BY <2>1, <2>7, <3>1 DEF PassedIs
    <3>3. NthEdge(n) = heard[i].of /\ NthEdge(k) = heard[j].of
      BY <3>2 DEF NthEdge, nodeCount
    <3> HIDE DEF n, k
    <3>4. NthEdge(n) # NthEdge(k) /\ (sorted => ~Before(EdgeAt(NthEdge(k)), EdgeAt(NthEdge(n))))
      BY <3>1, <3>2 DEF HeardInv, OrderInv, GotInv
    <3>5. ~ sorted => NthEdge(n) = n /\ NthEdge(k) = k
      BY <3>1 DEF HeardInv, OrderInv, GotInv
    <3>6. NthEdge(n) \in Edges /\ NthEdge(k) \in Edges
      BY <3>1 DEF HeardInv, OrderInv, GotInv
    <3>7. sorted => InOrder(EdgeAt(NthEdge(n)), EdgeAt(NthEdge(k)))
      <4>1. \A e \in Edges : EdgeAt(e).source \in Nat /\ EdgeAt(e).target \in Nat
        BY <2>1, GraphType
      <4> QED BY <3>4, <3>6, <4>1 DEF InOrder, Before
    <3> QED BY <3>2, <3>3, <3>4, <3>5, <3>7
  <2> QED BY <2>5, <2>6, <2>7 DEF ProtocolKept, names
<1> QED BY <1>1, HeardInvariant, PTL

-----------------------------------------------------------------------------
(***************************************************************************)
(* What the writers make of the calls: the stream, and the complaints of   *)
(* DropGraphWriter.                                                        *)
(***************************************************************************)

(***************************************************************************)
(* The kinds of steps, told apart by what they do to a writer.             *)
(***************************************************************************)

HeaderStep ==
  /\ call = "header" /\ Passed = 0 /\ Passed' = 0
  /\ \/ TooLarge /\ call' = "aborted" /\ UNCHANGED base
     \/ ~TooLarge /\ call' = "nodes" /\ BaseHeader /\ given' = 0

NodeStep ==
  /\ call = "nodes" /\ call' = "nodes" /\ Passed = 0 /\ Passed' = 0
  /\ given < nodeCount /\ given' = given + 1 /\ BaseNode(given)

QuietStep ==
  /\ UNCHANGED base /\ Passed' = Passed
  /\ \/ UNCHANGED <<call, m_edges>> /\ (call = "nodes" => given' = given)
     \/ call = "nodes" /\ given = nodeCount /\ call' = "edges"
     \/ call = "edges" /\ call' = "edges"
     \/ call = "edges" /\ call' = "sorted" /\ Passed = 0
     \/ call \in {"edges", "sorted"} /\ call' = "end"

EdgeStep(n) ==
  /\ n \in Edges /\ BaseEdge(n)
  /\ call \in {"edges", "sorted"} /\ call' \in {call, "undefined"}
  /\ sorted => call = "sorted"
  /\ Passed' = Passed + 1 /\ \A k : k = Passed + 1 => NthEdge(k)' = n
  /\ \A k \in 1..Passed : NthEdge(k) # n
  /\ call = "sorted" => m_edges # << >> /\ n = Head(m_edges) /\ m_edges' = Tail(m_edges)

EndStep == call = "end" /\ EndGraph /\ call' = "done" /\ Passed = edgeCount /\ Passed' = edgeCount

LEMMA StepKinds ==
  ASSUME HeardInv, [Next]_vars
  PROVE  /\ PassedIs /\ PassedIs' /\ UNCHANGED input
         /\ \A k \in 1..Passed : NthEdge(k)' = NthEdge(k)
         /\ HeaderStep \/ NodeStep \/ QuietStep \/ (\E n \in Edges : EdgeStep(n)) \/ EndStep
<1>0. NamesInv /\ LengthInv /\ InputInv /\ CallInv /\ OrderInv /\ SortedInv
  BY DEF HeardInv
<1>1. /\ PassedIs /\ PassedIs' /\ \A k \in 1..Passed : NthEdge(k)' = NthEdge(k)
      /\ \A n \in Edges :
           /\ BaseEdge(n) /\ call \in {"edges", "sorted"}
           /\ call = "edges" => ~ sorted /\ given < edgeCount
           /\ call = "sorted" => Len(m_edges) > 0
           => Passed' = Passed + 1 /\ \A k : k = Passed + 1 => NthEdge(k)' = n
  BY <1>0, PassedStep
<1>2. /\ UNCHANGED input /\ graph' = graph /\ nodeCount' = nodeCount /\ edgeCount' = edgeCount
      /\ sorted' = sorted /\ OrderInv' /\ CallInv'
  BY <1>0, CallsStep, OrderStep DEF input, nodeCount, edgeCount
<1>3. /\ nodeCount \in Nat /\ edgeCount \in Nat /\ Edges = 1..edgeCount
      /\ given \in Nat /\ m_edges \in Seq(Edges)
  BY <1>0, GraphType DEF InputInv, CallInv
<1> SUFFICES ASSUME TRUE
             PROVE  HeaderStep \/ NodeStep \/ QuietStep \/ (\E n \in Edges : EdgeStep(n)) \/ EndStep
  BY <1>1, <1>2
\* Whatever the writer gets is new.
<1>4. ASSUME NEW n \in Edges, Passed' = Passed + 1, \A k : k = Passed + 1 => NthEdge(k)' = n
      PROVE  \A k \in 1..Passed : NthEdge(k) # n
  <2> SUFFICES ASSUME NEW k \in 1..Passed PROVE NthEdge(k) # n
    OBVIOUS
  <2>1. PICK j : j = Passed + 1
    OBVIOUS
  <2>2. k \in 1..Passed' /\ j \in 1..Passed' /\ k < j
    BY <1>1, <1>4, <2>1 DEF PassedIs
  <2>3. \A i, l \in 1..Passed' : i < l => NthEdge(i)' # NthEdge(l)'
    BY <1>2 DEF OrderInv, GotInv
  <2>4. NthEdge(k)' # NthEdge(j)'
    BY <2>2, <2>3
  <2>5. NthEdge(j)' = n /\ NthEdge(k)' = NthEdge(k)
    BY <1>1, <1>4, <2>1
  <2> QED BY <2>4, <2>5
<1>5. CASE WriteHeader
  <2>1. /\ call = "header" /\ Passed = 0 /\ call' \in {"nodes", "aborted"} /\ given' = given /\ given = 0
    BY <1>0, <1>1, <1>5 DEF WriteHeader, PassedIs, CallInv
  <2>2. Passed' = 0
    BY <1>1, <2>1 DEF PassedIs
  <2>3. HeaderStep
    BY <1>5, <2>1, <2>2 DEF WriteHeader, HeaderStep
  <2> QED BY <2>3
<1>6. CASE WriteNode
  <2>1. call = "nodes" /\ call' = "nodes"
    BY <1>6 DEF WriteNode
  <2>2. Passed = 0 /\ Passed' = 0
    BY <1>1, <2>1 DEF PassedIs
  <2>3. NodeStep
    BY <1>6, <2>1, <2>2 DEF WriteNode, NodeStep, nodeCount
  <2> QED BY <2>3
<1>7. CASE BeginEdges
  <2>1. call = "nodes" /\ call' = "edges" /\ given' = 0 /\ given = nodeCount /\ UNCHANGED base
    BY <1>7 DEF BeginEdges, nodeCount
  <2>2. Passed = 0 /\ Passed' = 0
    BY <1>1, <2>1 DEF PassedIs
  <2> QED BY <2>1, <2>2 DEF QuietStep
<1>8. CASE WriteEdge
  <2>1. call = "edges" /\ given < edgeCount /\ given' = given + 1
    BY <1>8 DEF WriteEdge, edgeCount
  <2>2. CASE sorted
    <3>1. UNCHANGED base /\ call' = "edges"
      BY <1>8, <2>1, <2>2 DEF WriteEdge
    <3>2. Passed' = Passed
      BY <1>1, <1>2, <2>1, <2>2, <3>1 DEF PassedIs
    <3> QED BY <2>1, <3>1, <3>2 DEF QuietStep
  <2>3. CASE ~ sorted
    <3>1. given + 1 \in Edges /\ BaseEdge(given + 1)
      BY <1>3, <1>8, <2>1, <2>3 DEF WriteEdge
    <3>2. Passed' = Passed + 1 /\ \A k : k = Passed + 1 => NthEdge(k)' = given + 1
      BY <1>1, <2>1, <2>3, <3>1
    <3>3. EdgeStep(given + 1)
      BY <1>4, <2>1, <2>3, <3>1, <3>2 DEF EdgeStep, BaseEdge
    <3> QED BY <3>1, <3>3
  <2> QED BY <2>2, <2>3
<1>9. CASE EndEdges
  <2>1. call = "edges" /\ given = edgeCount /\ UNCHANGED base
    BY <1>9 DEF EndEdges, edgeCount
  <2>2. CASE call' = "sorted"
    <3>1. sorted
      BY <1>2, <1>9, <2>2 DEF CallInv
    <3>2. Passed = 0
      BY <1>1, <2>1, <3>1 DEF PassedIs
    <3>3. m_edges' \in SortedOrders(m_edges) /\ m_edges \in Seq(Edges) /\ Len(m_edges) = edgeCount
          /\ \A n \in 1..edgeCount : m_edges[n] = n
      BY <1>0, <1>3, <1>9, <2>1, <2>2, <3>1 DEF EndEdges, OrderInv, KeptInv
    <3>4. Len(m_edges') = edgeCount
      BY <1>0, <3>3, SortedAll DEF InputInv
    <3>5. Passed' = 0
      BY <1>1, <1>2, <1>3, <2>2, <3>4 DEF PassedIs
    <3> QED BY <2>1, <2>2, <3>2, <3>5 DEF QuietStep
  <2>3. CASE call' = "end"
    <3>1. ~ sorted
      BY <1>0, <1>1, <1>2, <1>9, <2>1, <2>3 DEF EndEdges
    <3>2. Passed = edgeCount /\ Passed' = edgeCount
      BY <1>1, <1>2, <2>1, <2>3, <3>1 DEF PassedIs
    <3> QED BY <2>1, <2>3, <3>2 DEF QuietStep
  <2> QED BY <1>9, <2>2, <2>3 DEF EndEdges
<1>10. CASE PassOn
  <2>1. call = "sorted" /\ m_edges # << >> /\ BaseEdge(Head(m_edges)) /\ m_edges' = Tail(m_edges)
    BY <1>10 DEF PassOn
  <2>2. Len(m_edges) > 0 /\ Head(m_edges) \in Edges
    BY <1>3, <2>1
  <2>3. Passed' = Passed + 1 /\ \A k : k = Passed + 1 => NthEdge(k)' = Head(m_edges)
    BY <1>1, <2>1, <2>2
  <2>4. EdgeStep(Head(m_edges))
    BY <1>4, <2>1, <2>2, <2>3 DEF EdgeStep, BaseEdge
  <2> QED BY <2>2, <2>4
<1>11. CASE EndSorted
  <2>1. call = "sorted" /\ Len(m_edges) = 0 /\ call' = "end" /\ UNCHANGED base
    BY <1>11 DEF EndSorted
  <2>2. Passed = edgeCount /\ Passed' = edgeCount
    BY <1>1, <1>2, <1>3, <2>1 DEF PassedIs
  <2> QED BY <2>1, <2>2 DEF QuietStep
<1>12. CASE EndGraph
  <2>1. call = "end" /\ call' = "done"
    BY <1>12 DEF EndGraph
  <2>2. Passed = edgeCount /\ Passed' = edgeCount
    BY <1>1, <1>2, <2>1 DEF PassedIs
  <2> QED BY <1>12, <2>1, <2>2 DEF EndStep
<1>13. CASE UNCHANGED vars
  <2>1. UNCHANGED base /\ UNCHANGED <<call, m_edges>> /\ given' = given /\ heard' = heard
    BY <1>13 DEF vars
  <2>2. Passed' = Passed
    BY <1>2, <2>1 DEF Passed
  <2> QED BY <2>1, <2>2 DEF QuietStep
<1> QED BY <1>5, <1>6, <1>7, <1>8, <1>9, <1>10, <1>11, <1>12, <1>13 DEF Next

(***************************************************************************)
(* The stream.                                                             *)
(***************************************************************************)

LEMMA CoordinatesAre ==
  ASSUME NEW v \in Nat
  PROVE  /\ Coordinates(v) \in Seq(Fields) /\ Len(Coordinates(v)) = 2
         /\ Coordinates(v)[1] = Field("lat", v) /\ Coordinates(v)[2] = Field("lon", v)
<1>1. Field("lat", v) \in Fields /\ Field("lon", v) \in Fields
  BY DEF Field, Fields
<1> QED BY <1>1 DEF Coordinates

LEMMA LineIs ==
  ASSUME NEW e, e.source \in Nat, e.target \in Nat
  PROVE  /\ Line(e) \in Seq(Fields) /\ Len(Line(e)) = 4
         /\ Line(e)[1] = Field("lon", e.source) /\ Line(e)[2] = Field("lat", e.source)
         /\ Line(e)[3] = Field("lon", e.target) /\ Line(e)[4] = Field("lat", e.target)
<1>1. ASSUME NEW v \in Nat
      PROVE  Reverse(Coordinates(v)) = <<Field("lon", v), Field("lat", v)>>
  <2> DEFINE c == Coordinates(v)
  <2>1. Len(c) = 2 /\ c[1] = Field("lat", v) /\ c[2] = Field("lon", v)
    BY CoordinatesAre
  <2>2. Reverse(c) = [i \in 1..2 |-> c[(2 - i) + 1]]
    BY <2>1 DEF Reverse
  <2> HIDE DEF c
  <2>3. Reverse(c) = <<c[2], c[1]>>
    BY <2>2
  <2> QED BY <2>1, <2>3 DEF c
<1>2. \A v \in Nat : Field("lon", v) \in Fields /\ Field("lat", v) \in Fields
  BY DEF Field, Fields
<1> DEFINE a == <<Field("lon", e.source), Field("lat", e.source)>>
           b == <<Field("lon", e.target), Field("lat", e.target)>>
<1>3. Line(e) = a \o b
  BY <1>1 DEF Line
<1>4. /\ a \in Seq(Fields) /\ Len(a) = 2 /\ a[1] = Field("lon", e.source) /\ a[2] = Field("lat", e.source)
      /\ b \in Seq(Fields) /\ Len(b) = 2 /\ b[1] = Field("lon", e.target) /\ b[2] = Field("lat", e.target)
  BY <1>2
<1> HIDE DEF a, b
<1>5. a \in Seq(Fields) /\ b \in Seq(Fields)
  BY <1>4
<1>6. /\ Line(e) \in Seq(Fields) /\ Len(Line(e)) = Len(a) + Len(b)
      /\ \A i \in 1..Len(a) : Line(e)[i] = a[i]
      /\ \A i \in 1..Len(b) : Line(e)[Len(a) + i] = b[i]
  BY <1>3, <1>5, ConcatParts
<1>7. Len(Line(e)) = 4 /\ \A i \in 1..2 : Line(e)[i] = a[i] /\ Line(e)[2 + i] = b[i]
  BY <1>4, <1>6
<1>8. /\ Line(e)[1] = a[1] /\ Line(e)[2] = a[2] /\ Line(e)[2 + 1] = b[1] /\ Line(e)[2 + 2] = b[2]
  BY <1>7
<1> QED BY <1>4, <1>6, <1>7, <1>8

LEMMA ComplaintsAre ==
  ASSUME graph \in Graphs, NEW e, e.source \in Nat, e.target \in Nat
  PROVE  /\ Complaints(e) \in Seq(Fields) /\ Len(Complaints(e)) \in Nat
         /\ Len(Complaints(e)) = 0 <=> Resolves(e)
<1> DEFINE wrong == {x \in {"source", "target"} : e[x] >= graph.nodeCount}
<1>1. IsFiniteSet({"source", "target"})
  <2>1. IsFiniteSet({"source"})
    BY FS_Singleton
  <2>2. {"source", "target"} = {"source"} \cup {"target"}
    OBVIOUS
  <2> QED BY <2>1, <2>2, FS_AddElement
<1>2. IsFiniteSet(wrong) /\ Cardinality(wrong) \in Nat
  BY <1>1, FS_Subset, FS_CardinalityType
<1>3. Complaints(e) = [n \in 1..Cardinality(wrong) |-> Field("complaint", n)]
  BY DEF Complaints
<1>4. Cardinality(wrong) = 0 <=> wrong = {}
  BY <1>2, FS_EmptySet
<1>5. wrong = {} <=> Resolves(e)
  <2>1. graph.nodeCount \in Nat /\ nodeCount = graph.nodeCount
    BY GraphType DEF nodeCount
  <2>2. e["source"] = e.source /\ e["target"] = e.target
    OBVIOUS
  <2> QED BY <2>1, <2>2 DEF Resolves
<1>6. \A n \in Nat : Field("complaint", n) \in Fields
  BY DEF Field, Fields
<1> HIDE DEF wrong
<1> QED BY <1>2, <1>3, <1>4, <1>5, <1>6

\* What is put behind the stream.
LEMMA JoinOut ==
  ASSUME out \in Seq(Fields), NEW s \in Seq(Fields), out' = out \o s
  PROVE  /\ out' \in Seq(Fields) /\ Len(out') = Len(out) + Len(s)
         /\ \A i \in 1..Len(out) : out'[i] = out[i]
         /\ \A i \in 1..Len(s) : out'[Len(out) + i] = s[i]
BY ConcatParts

\* The edges' ends are numbers.
LEMMA PrintedIs ==
  ASSUME graph \in Graphs, writer \in {"Topology", "Plot", "Drop"}, NEW n \in Edges
  PROVE  Printed(EdgeAt(n)) \in Seq(Fields)
<1> DEFINE e == EdgeAt(n)
<1>1. e.source \in Nat /\ e.target \in Nat
  BY GraphType
<1>2. Line(e) \in Seq(Fields) /\ Complaints(e) \in Seq(Fields)
  BY <1>1, LineIs, ComplaintsAre
<1>3. <<Field("id", e.source), Field("id", e.target)>> \in Seq(Fields)
  <2>1. Field("id", e.source) \in Fields /\ Field("id", e.target) \in Fields
    BY <1>1 DEF Field, Fields
  <2> QED BY <2>1
<1> HIDE DEF e
<1>4. Printed(e) \in Seq(Fields)
  <2>1. CASE writer = "Topology"
    BY <1>3, <2>1 DEF Printed
  <2>2. CASE writer = "Plot"
    BY <1>2, <2>2 DEF Printed
  <2>3. CASE writer = "Drop"
    BY <1>2, <2>3 DEF Printed
  <2> QED BY <2>1, <2>2, <2>3
<1> QED BY <1>4 DEF e

\* The stream holds fields.
LEMMA OutStep == HeardInv /\ [Next]_vars /\ out \in Seq(Fields) => out' \in Seq(Fields)
<1> SUFFICES ASSUME HeardInv, [Next]_vars, out \in Seq(Fields) PROVE out' \in Seq(Fields)
  OBVIOUS
<1>1. /\ HeaderStep \/ NodeStep \/ QuietStep \/ (\E n \in Edges : EdgeStep(n)) \/ EndStep
      /\ graph \in Graphs /\ writer \in OffsetArrays \cup {"Topology", "Plot", "Drop"}
      /\ nodeCount \in Nat /\ edgeCount \in Nat /\ given \in Nat
      /\ graph.nodeCount = nodeCount /\ Len(graph.edges) = edgeCount
  BY StepKinds, GraphType, GraphWritersAssumption
  DEF HeardInv, InputInv, CallInv, nodeCount, edgeCount
<1>2. \A x \in Nat : \A k \in {"count", "lat", "lon", "id", "complaint"} : Field(k, x) \in Fields
  BY DEF Field, Fields
<1>3. CASE HeaderStep
  <2>1. out' = out \/ out' = <<Field("count", nodeCount), Field("count", edgeCount)>>
    BY <1>1, <1>3 DEF HeaderStep, BaseHeader, base
  <2>2. Field("count", nodeCount) \in Fields /\ Field("count", edgeCount) \in Fields
    BY <1>1, <1>2
  <2>3. \A x, y \in Fields : <<x, y>> \in Seq(Fields)
    OBVIOUS
  <2>4. <<Field("count", nodeCount), Field("count", edgeCount)>> \in Seq(Fields)
    BY <2>2, <2>3
  <2> QED BY <2>1, <2>4
<1>4. CASE NodeStep
  <2>1. out' = out \/ out' = out \o Coordinates(given)
    BY <1>4 DEF NodeStep, BaseNode
  <2> QED BY <1>1, <2>1, CoordinatesAre, JoinOut
<1>5. CASE QuietStep
  BY <1>5 DEF QuietStep, base
<1>6. ASSUME NEW n \in Edges, EdgeStep(n) PROVE out' \in Seq(Fields)
  <2>1. out' = out \/ (writer \notin OffsetArrays /\ out' = out \o Printed(EdgeAt(n)))
    BY <1>6 DEF EdgeStep, BaseEdge, base, PutSlot
  <2> QED BY <1>1, <2>1, PrintedIs, JoinOut DEF OffsetArrays
<1>7. CASE EndStep
  <2>1. out' = out \/ out' = Append(out, Field("complaint", 0))
    BY <1>7 DEF EndStep, EndGraph
  <2>2. Field("complaint", 0) \in Fields
    BY <1>2
  <2> QED BY <2>1, <2>2
<1> QED BY <1>1, <1>3, <1>4, <1>5, <1>6, <1>7

\* What a step leaves as it is.
LEMMA InputKept ==
  ASSUME HeardInv, [Next]_vars
  PROVE  /\ graph' = graph /\ writer' = writer /\ sorted' = sorted
         /\ nodeCount' = nodeCount /\ edgeCount' = edgeCount
         /\ \A k \in 1..Passed : EdgeAt(NthEdge(k))' = EdgeAt(NthEdge(k))
         /\ nodeCount \in Nat /\ edgeCount \in Nat /\ Passed \in 0..edgeCount /\ given \in Nat
         /\ graph.nodeCount = nodeCount /\ Len(graph.edges) = edgeCount
<1>1. PassedIs /\ UNCHANGED input /\ \A k \in 1..Passed : NthEdge(k)' = NthEdge(k)
  BY StepKinds
<1>2. given \in Nat
  BY DEF HeardInv, CallInv
<1> QED BY <1>1, <1>2 DEF input, PassedIs, nodeCount, edgeCount, EdgeAt

\* How many nodes a writer has got.
LEMMA NodesOutStep ==
  ASSUME HeardInv, [Next]_vars
  PROVE  /\ HeaderStep => NodesOut = 0 /\ (call' = "nodes" => NodesOut' = 0)
         /\ NodeStep => NodesOut = given /\ NodesOut' = NodesOut + 1
         /\ QuietStep \/ EndStep =>
              /\ NodesOut' = NodesOut /\ Passed' = Passed
              /\ (call' = "header" <=> call = "header")
         /\ \A n \in Edges : EdgeStep(n) =>
              /\ NodesOut' = nodeCount /\ NodesOut = nodeCount
              /\ call # "header" /\ call' # "header" /\ Passed' = Passed + 1
<1>1. nodeCount' = nodeCount /\ edgeCount' = edgeCount
  BY InputKept
<1> QED BY <1>1 DEF HeaderStep, NodeStep, QuietStep, EndStep, EdgeStep, NodesOut

\* A line of a topology file for each node and each edge.
LEMMA TopologyStep ==
  HeardInv /\ out \in Seq(Fields) /\ TopologyInv /\ [Next]_vars => TopologyInv'
<1> SUFFICES ASSUME HeardInv, out \in Seq(Fields), TopologyInv, [Next]_vars, writer = "Topology"
             PROVE  TopologyInv'
  BY InputKept DEF TopologyInv
<1>1. /\ writer' = writer /\ nodeCount' = nodeCount /\ edgeCount' = edgeCount
      /\ \A k \in 1..Passed : EdgeAt(NthEdge(k))' = EdgeAt(NthEdge(k))
      /\ nodeCount \in Nat /\ edgeCount \in Nat /\ Passed \in 0..edgeCount /\ given \in Nat
      /\ graph.nodeCount = nodeCount /\ Len(graph.edges) = edgeCount
  BY InputKept
<1>2. HeaderStep \/ NodeStep \/ QuietStep \/ (\E n \in Edges : EdgeStep(n)) \/ EndStep
  BY StepKinds
<1>3. CASE QuietStep \/ EndStep
  <2>1. /\ NodesOut' = NodesOut /\ Passed' = Passed /\ (call' = "header" <=> call = "header")
    BY <1>3, NodesOutStep
  <2>2. out' = out
    BY <1>3 DEF QuietStep, EndStep, EndGraph, base
  <2> QED BY <1>1, <2>1, <2>2 DEF TopologyInv
<1>4. CASE HeaderStep
  <2>1. /\ out' = <<Field("count", nodeCount), Field("count", edgeCount)>>
        /\ call' = "nodes" /\ Passed' = 0
    BY <1>1, <1>4 DEF HeaderStep, TooLarge, BaseHeader
  <2>2. NodesOut' = 0
    BY <1>4, <2>1, NodesOutStep
  <2>3. /\ Len(out') = 2 /\ out'[1] = Field("count", nodeCount) /\ out'[2] = Field("count", edgeCount)
    BY <2>1
  <2> QED BY <1>1, <2>1, <2>2, <2>3 DEF TopologyInv
<1>5. CASE NodeStep
  <2>1. /\ NodesOut = given /\ NodesOut' = given + 1 /\ Passed = 0 /\ Passed' = 0
        /\ call # "header" /\ call' # "header"
    BY <1>5, NodesOutStep DEF NodeStep
  <2>2. out' = out \o Coordinates(given)
    BY <1>5 DEF NodeStep, BaseNode, OffsetArrays
  <2>3. Len(out) = 2 + 2 * given
    BY <1>1, <2>1 DEF TopologyInv
  <2>4. /\ Len(out') = Len(out) + 2 /\ \A i \in 1..Len(out) : out'[i] = out[i]
        /\ out'[Len(out) + 1] = Field("lat", given) /\ out'[Len(out) + 2] = Field("lon", given)
    <3> DEFINE c == Coordinates(given)
    <3>1. c \in Seq(Fields) /\ Len(c) = 2 /\ c[1] = Field("lat", given) /\ c[2] = Field("lon", given)
      BY <1>1, CoordinatesAre
    <3> HIDE DEF c
    <3>2. c \in Seq(Fields) /\ out' = out \o c
      BY <2>2, <3>1 DEF c
    <3>3. /\ Len(out') = Len(out) + Len(c) /\ \A i \in 1..Len(out) : out'[i] = out[i]
          /\ \A i \in 1..Len(c) : out'[Len(out) + i] = c[i]
      BY <3>2, JoinOut
    <3>4. 1 \in 1..Len(c) /\ 2 \in 1..Len(c)
      BY <3>1
    <3> QED BY <3>1, <3>3, <3>4
  <2>5. Len(out') = 2 + 2 * NodesOut'
    BY <1>1, <2>1, <2>3, <2>4
  <2>6. out'[1] = Field("count", nodeCount) /\ out'[2] = Field("count", edgeCount)
    BY <1>1, <2>1, <2>3, <2>4 DEF TopologyInv
  <2>7. ASSUME NEW v \in 0..given
        PROVE  out'[3 + 2 * v] = Field("lat", v) /\ out'[4 + 2 * v] = Field("lon", v)
    <3>1. CASE v = given
      BY <1>1, <2>3, <2>4, <3>1
    <3>2. CASE v \in 0..(given - 1)
      <4>1. 3 + 2 * v \in 1..Len(out) /\ 4 + 2 * v \in 1..Len(out)
        BY <1>1, <2>3, <3>2
      <4>2. out[3 + 2 * v] = Field("lat", v) /\ out[4 + 2 * v] = Field("lon", v)
        BY <2>1, <3>2 DEF TopologyInv
      <4> QED BY <2>4, <4>1, <4>2
    <3> QED BY <1>1, <3>1, <3>2
  <2>8. \A v \in 0..(NodesOut' - 1) :
          out'[3 + 2 * v] = Field("lat", v) /\ out'[4 + 2 * v] = Field("lon", v)
    BY <1>1, <2>1, <2>7
  <2> QED BY <1>1, <2>1, <2>5, <2>6, <2>8 DEF TopologyInv
<1>6. ASSUME NEW n \in Edges, EdgeStep(n) PROVE TopologyInv'
  <2> DEFINE e == EdgeAt(n)
             s == <<Field("id", e.source), Field("id", e.target)>>
             at == 2 + 2 * nodeCount + 2 * Passed
  <2>1. /\ NodesOut = nodeCount /\ NodesOut' = nodeCount /\ Passed' = Passed + 1
        /\ call # "header" /\ call' # "header"
    BY <1>6, NodesOutStep
  <2>2. out' = out \o s
    BY <1>6 DEF EdgeStep, BaseEdge, NoSlot, NoCoordinates, OffsetArrays, Printed
  <2>3. Len(out) = at
    BY <1>1, <2>1 DEF TopologyInv
  <2>4. s \in Seq(Fields) /\ Len(s) = 2 /\ s[1] = Field("id", e.source) /\ s[2] = Field("id", e.target)
    <3>1. e.source \in Nat /\ e.target \in Nat
      BY GraphType DEF HeardInv, InputInv
    <3>2. Field("id", e.source) \in Fields /\ Field("id", e.target) \in Fields
      BY <3>1 DEF Field, Fields
    <3> QED BY <3>2
  <2>5. \A k : k = Passed + 1 => EdgeAt(NthEdge(k))' = e
    BY <1>6, InputKept DEF EdgeStep, EdgeAt
  <2> HIDE DEF e, s
  <2>6. /\ Len(out') = Len(out) + Len(s) /\ \A i \in 1..Len(out) : out'[i] = out[i]
        /\ \A i \in 1..Len(s) : out'[Len(out) + i] = s[i]
    BY <2>2, <2>4, JoinOut
  <2>7. /\ Len(out') = at + 2 /\ \A i \in 1..at : out'[i] = out[i]
        /\ out'[at + 1] = Field("id", e.source) /\ out'[at + 2] = Field("id", e.target)
    <3>1. 1 \in 1..Len(s) /\ 2 \in 1..Len(s)
      BY <2>4
    <3> QED BY <2>3, <2>4, <2>6, <3>1
  <2>8. \A v \in 0..(nodeCount - 1) :
          out'[3 + 2 * v] = Field("lat", v) /\ out'[4 + 2 * v] = Field("lon", v)
    <3> SUFFICES ASSUME NEW v \in 0..(nodeCount - 1)
                 PROVE  out'[3 + 2 * v] = Field("lat", v) /\ out'[4 + 2 * v] = Field("lon", v)
      OBVIOUS
    <3>1. 3 + 2 * v \in 1..at /\ 4 + 2 * v \in 1..at
      BY <1>1
    <3>2. out[3 + 2 * v] = Field("lat", v) /\ out[4 + 2 * v] = Field("lon", v)
      BY <2>1 DEF TopologyInv
    <3> QED BY <2>7, <3>1, <3>2
  <2>9. ASSUME NEW k \in 1..Passed'
        PROVE  /\ out'[1 + 2 * nodeCount + 2 * k] = Field("id", EdgeAt(NthEdge(k))'.source)
               /\ out'[2 + 2 * nodeCount + 2 * k] = Field("id", EdgeAt(NthEdge(k))'.target)
    <3>1. CASE k = Passed + 1
      <4>1. 1 + 2 * nodeCount + 2 * k = at + 1 /\ 2 + 2 * nodeCount + 2 * k = at + 2
        BY <1>1, <3>1
      <4>2. EdgeAt(NthEdge(k))' = e
        BY <2>5, <3>1
      <4> QED BY <2>7, <4>1, <4>2
    <3>2. CASE k \in 1..Passed
      <4>1. 1 + 2 * nodeCount + 2 * k \in 1..at /\ 2 + 2 * nodeCount + 2 * k \in 1..at
        BY <1>1, <3>2
      <4>2. /\ out[1 + 2 * nodeCount + 2 * k] = Field("id", EdgeAt(NthEdge(k)).source)
            /\ out[2 + 2 * nodeCount + 2 * k] = Field("id", EdgeAt(NthEdge(k)).target)
        BY <3>2 DEF TopologyInv
      <4>3. EdgeAt(NthEdge(k))' = EdgeAt(NthEdge(k))
        BY <1>1, <3>2
      <4> QED BY <2>7, <4>1, <4>2, <4>3
    <3> QED BY <1>1, <2>1, <3>1, <3>2
  <2>10. out'[1] = Field("count", nodeCount) /\ out'[2] = Field("count", edgeCount)
    <3>1. 1 \in 1..at /\ 2 \in 1..at
      BY <1>1
    <3> QED BY <2>1, <2>7, <3>1 DEF TopologyInv
  <2>11. Len(out') = 2 + 2 * nodeCount + 2 * Passed'
    BY <1>1, <2>1, <2>7
  <2> QED BY <1>1, <2>1, <2>8, <2>9, <2>10, <2>11 DEF TopologyInv
<1> QED BY <1>2, <1>3, <1>4, <1>5, <1>6

\* A line of a plot for each edge.
LEMMA PlotStep ==
  HeardInv /\ out \in Seq(Fields) /\ PlotInv /\ [Next]_vars => PlotInv'
<1> SUFFICES ASSUME HeardInv, out \in Seq(Fields), PlotInv, [Next]_vars, writer = "Plot",
                    call' # "undefined"
             PROVE  PlotInv'
  BY InputKept DEF PlotInv
<1>1. /\ writer' = writer /\ \A k \in 1..Passed : EdgeAt(NthEdge(k))' = EdgeAt(NthEdge(k))
      /\ Passed \in Nat
  BY InputKept
<1>2. HeaderStep \/ NodeStep \/ QuietStep \/ (\E n \in Edges : EdgeStep(n)) \/ EndStep
  BY StepKinds
<1>3. CASE HeaderStep \/ NodeStep \/ QuietStep \/ EndStep
  <2>1. Passed' = Passed /\ out' = out /\ call # "undefined"
    BY <1>3, NodesOutStep
    DEF HeaderStep, NodeStep, QuietStep, EndStep, EndGraph, base, TooLarge, BaseHeader, BaseNode, OffsetArrays
  <2> QED BY <1>1, <2>1 DEF PlotInv
<1>4. ASSUME NEW n \in Edges, EdgeStep(n) PROVE PlotInv'
  <2> DEFINE e == EdgeAt(n)
             s == Line(e)
             at == 4 * Passed
  <2>1. call \in {"edges", "sorted"} /\ Passed' = Passed + 1 /\ \A k : k = Passed + 1 => EdgeAt(NthEdge(k))' = e
    BY <1>4, InputKept DEF EdgeStep, EdgeAt
  <2>2. out' = out \o s
    BY <1>4 DEF EdgeStep, BaseEdge, OffsetArrays, Printed
  <2>3. Len(out) = at
    BY <2>1 DEF PlotInv
  <2>4. /\ s \in Seq(Fields) /\ Len(s) = 4
        /\ s[1] = Field("lon", e.source) /\ s[2] = Field("lat", e.source)
        /\ s[3] = Field("lon", e.target) /\ s[4] = Field("lat", e.target)
    <3>1. e.source \in Nat /\ e.target \in Nat
      BY GraphType DEF HeardInv, InputInv
    <3> QED BY <3>1, LineIs
  <2> HIDE DEF e, s
  <2>5. /\ Len(out') = Len(out) + Len(s) /\ \A i \in 1..Len(out) : out'[i] = out[i]
        /\ \A i \in 1..Len(s) : out'[Len(out) + i] = s[i]
    BY <2>2, <2>4, JoinOut
  <2>6. /\ Len(out') = at + 4 /\ \A i \in 1..at : out'[i] = out[i]
        /\ \A i \in 1..4 : out'[at + i] = s[i]
    BY <2>3, <2>4, <2>5
  <2>7. Len(out') = 4 * Passed'
    BY <1>1, <2>1, <2>6
  <2>8. ASSUME NEW k \in 1..Passed'
        PROVE  /\ out'[4 * k - 3] = Field("lon", EdgeAt(NthEdge(k))'.source)
               /\ out'[4 * k - 2] = Field("lat", EdgeAt(NthEdge(k))'.source)
               /\ out'[4 * k - 1] = Field("lon", EdgeAt(NthEdge(k))'.target)
               /\ out'[4 * k]     = Field("lat", EdgeAt(NthEdge(k))'.target)
    <3>1. CASE k = Passed + 1
      <4>1. /\ 4 * k - 3 = at + 1 /\ 4 * k - 2 = at + 2 /\ 4 * k - 1 = at + 3 /\ 4 * k = at + 4
        BY <1>1, <3>1
      <4>2. /\ out'[at + 1] = s[1] /\ out'[at + 2] = s[2] /\ out'[at + 3] = s[3] /\ out'[at + 4] = s[4]
        BY <2>6
      <4>3. EdgeAt(NthEdge(k))' = e
        BY <2>1, <3>1
      <4> QED BY <2>4, <4>1, <4>2, <4>3
    <3>2. CASE k \in 1..Passed
      <4>1. {4 * k - 3, 4 * k - 2, 4 * k - 1, 4 * k} \subseteq 1..at
        BY <1>1, <3>2
      <4>2. /\ out[4 * k - 3] = Field("lon", EdgeAt(NthEdge(k)).source)
            /\ out[4 * k - 2] = Field("lat", EdgeAt(NthEdge(k)).source)
            /\ out[4 * k - 1] = Field("lon", EdgeAt(NthEdge(k)).target)
            /\ out[4 * k]     = Field("lat", EdgeAt(NthEdge(k)).target)
        BY <2>1, <3>2 DEF PlotInv
      <4>3. EdgeAt(NthEdge(k))' = EdgeAt(NthEdge(k))
        BY <1>1, <3>2
      <4>4. /\ out'[4 * k - 3] = out[4 * k - 3] /\ out'[4 * k - 2] = out[4 * k - 2]
            /\ out'[4 * k - 1] = out[4 * k - 1] /\ out'[4 * k] = out[4 * k]
        BY <2>6, <4>1
      <4> QED BY <4>2, <4>3, <4>4
    <3> QED BY <1>1, <2>1, <3>1, <3>2
  <2> QED BY <1>1, <2>7, <2>8 DEF PlotInv
<1> QED BY <1>2, <1>3, <1>4

\* What is in the stream: fields, and each at its place.
StreamInv == HeardInv /\ out \in Seq(Fields) /\ LayoutInv

THEOREM StreamInvariant == Spec => []StreamInv
<1>1. Init => StreamInv
  <2> SUFFICES ASSUME Init PROVE StreamInv
    OBVIOUS
  <2>1. HeardInv /\ out \in Seq(Fields) /\ Len(out) = 0 /\ call = "header"
    BY HeardInit DEF Init
  <2>2. Passed = 0
    BY <2>1, PassedOf DEF HeardInv, PassedIs
  <2> QED BY <2>1, <2>2 DEF StreamInv, LayoutInv, TopologyInv, PlotInv, NodesOut
<1>2. StreamInv /\ [Next]_vars => StreamInv'
  <2>1. HeardInv /\ [Next]_vars => HeardInv'
    BY CallsStep, OrderStep DEF HeardInv
  <2> QED BY <2>1, OutStep, TopologyStep, PlotStep DEF StreamInv, LayoutInv
<1> QED BY <1>1, <1>2, PTL DEF Spec

\* A topology file can be read by the layout its header gives, and a plot has a
\* line from one end to the other of each edge.
THEOREM FilesHaveLayout == Spec => []FileHasLayout
<1>1. StreamInv => FileHasLayout
  <2> SUFFICES ASSUME StreamInv, call = "done" PROVE FileHasLayout
    BY DEF FileHasLayout
  <2>1. /\ PassedIs /\ Passed = edgeCount /\ nodeCount \in Nat /\ edgeCount \in Nat
        /\ graph.nodeCount = nodeCount /\ DOMAIN graph.edges = 1..edgeCount /\ Len(graph.edges) = edgeCount
        /\ NodesOut = nodeCount /\ out \in Seq(Fields)
    BY PassedOf, GraphType DEF StreamInv, HeardInv, InputInv, PassedIs, nodeCount, edgeCount, Edges, NodesOut
  <2>2. ASSUME writer = "Topology"
        PROVE  /\ out[1].of = nodeCount /\ out[2].of = edgeCount
               /\ Len(out) = 2 + 2 * nodeCount + 2 * edgeCount
               /\ \A v \in 0..(nodeCount - 1) :
                    <<out[3 + 2 * v], out[3 + 2 * v + 1]>> = Coordinates(v)
               /\ \A n \in 0..(edgeCount - 1) :
                    <<out[3 + 2 * nodeCount + 2 * n], out[3 + 2 * nodeCount + 2 * n + 1]>>
                      = <<Field("id", EdgeAt(NthEdge(n + 1)).source), Field("id", EdgeAt(NthEdge(n + 1)).target)>>
    <3>1. out[1] = Field("count", nodeCount) /\ out[2] = Field("count", edgeCount)
      BY <2>2 DEF StreamInv, LayoutInv, TopologyInv
    <3>2. Len(out) = 2 + 2 * nodeCount + 2 * edgeCount
      BY <2>1, <2>2 DEF StreamInv, LayoutInv, TopologyInv
    <3>3. ASSUME NEW v \in 0..(nodeCount - 1)
          PROVE  <<out[3 + 2 * v], out[3 + 2 * v + 1]>> = Coordinates(v)
      <4>1. out[3 + 2 * v] = Field("lat", v) /\ out[4 + 2 * v] = Field("lon", v)
        BY <2>1, <2>2 DEF StreamInv, LayoutInv, TopologyInv
      <4>2. 3 + 2 * v + 1 = 4 + 2 * v
        OBVIOUS
      <4> QED BY <4>1, <4>2 DEF Coordinates
    <3>4. ASSUME NEW n \in 0..(edgeCount - 1)
          PROVE  <<out[3 + 2 * nodeCount + 2 * n], out[3 + 2 * nodeCount + 2 * n + 1]>>
                   = <<Field("id", EdgeAt(NthEdge(n + 1)).source), Field("id", EdgeAt(NthEdge(n + 1)).target)>>
      <4>1. n + 1 \in 1..Passed
        BY <2>1
      <4>2. \A k \in 1..Passed :
              /\ out[1 + 2 * nodeCount + 2 * k] = Field("id", EdgeAt(NthEdge(k)).source)
              /\ out[2 + 2 * nodeCount + 2 * k] = Field("id", EdgeAt(NthEdge(k)).target)
        BY <2>2 DEF StreamInv, LayoutInv, TopologyInv
      <4>3. /\ out[1 + 2 * nodeCount + 2 * (n + 1)] = Field("id", EdgeAt(NthEdge(n + 1)).source)
            /\ out[2 + 2 * nodeCount + 2 * (n + 1)] = Field("id", EdgeAt(NthEdge(n + 1)).target)
        BY <4>1, <4>2
      <4>4. /\ 1 + 2 * nodeCount + 2 * (n + 1) = 3 + 2 * nodeCount + 2 * n
            /\ 2 + 2 * nodeCount + 2 * (n + 1) = 3 + 2 * nodeCount + 2 * n + 1
        BY <2>1
      <4> QED BY <4>3, <4>4
    <3>5. out[1].of = nodeCount /\ out[2].of = edgeCount
      BY <3>1 DEF Field
    <3> QED BY <3>2, <3>3, <3>4, <3>5
  <2>3. ASSUME writer = "Plot"
        PROVE  /\ Len(out) = 4 * Len(graph.edges)
               /\ \A n \in DOMAIN graph.edges :
                    LET e == EdgeAt(NthEdge(n))
                    IN SubSeq(out, 4 * n - 3, 4 * n) =
                         <<Field("lon", e.source), Field("lat", e.source),
                           Field("lon", e.target), Field("lat", e.target)>>
    <3>1. Len(out) = 4 * edgeCount
      BY <2>1, <2>3 DEF StreamInv, LayoutInv, PlotInv
    <3>2. ASSUME NEW n \in 1..edgeCount
          PROVE  SubSeq(out, 4 * n - 3, 4 * n) =
                   <<Field("lon", EdgeAt(NthEdge(n)).source), Field("lat", EdgeAt(NthEdge(n)).source),
                     Field("lon", EdgeAt(NthEdge(n)).target), Field("lat", EdgeAt(NthEdge(n)).target)>>
      <4>1. /\ out[4 * n - 3] = Field("lon", EdgeAt(NthEdge(n)).source)
            /\ out[4 * n - 2] = Field("lat", EdgeAt(NthEdge(n)).source)
            /\ out[4 * n - 1] = Field("lon", EdgeAt(NthEdge(n)).target)
            /\ out[4 * n]     = Field("lat", EdgeAt(NthEdge(n)).target)
        BY <2>1, <2>3 DEF StreamInv, LayoutInv, PlotInv
      <4>2. SubSeq(out, 4 * n - 3, 4 * n) = <<out[4 * n - 3], out[4 * n - 2], out[4 * n - 1], out[4 * n]>>
        <5>1. 4 * n - 3 \in 1..Len(out) /\ 4 * n \in 1..Len(out)
          BY <2>1, <3>1
        <5>2. PICK k \in Nat : k = 4 * n
          BY <2>1
        <5>3. SubSeq(out, k - 3, k) \in Seq(Fields) /\ Len(SubSeq(out, k - 3, k)) = 4
          BY <2>1, <5>1, <5>2
        <5>4. \A i \in 1..4 : SubSeq(out, k - 3, k)[i] = out[k - 4 + i]
          BY <2>1, <5>1, <5>2
        <5> DEFINE s == SubSeq(out, k - 3, k)
        <5>5. /\ s[1] = out[k - 3] /\ s[2] = out[k - 2] /\ s[3] = out[k - 1] /\ s[4] = out[k]
          <6>1. k - 4 + 1 = k - 3 /\ k - 4 + 2 = k - 2 /\ k - 4 + 3 = k - 1 /\ k - 4 + 4 = k
            BY <5>2
          <6> QED BY <5>4, <6>1
        <5> HIDE DEF s
        <5>6. s = <<s[1], s[2], s[3], s[4]>>
          <6>1. s \in Seq(Fields) /\ Len(s) = 4
            BY <5>3 DEF s
          <6> QED BY <6>1
        <5>7. SubSeq(out, k - 3, k) = <<out[k - 3], out[k - 2], out[k - 1], out[k]>>
          BY <5>5, <5>6 DEF s
        <5> QED BY <5>2, <5>7
      <4> QED BY <4>1, <4>2
    <3> QED BY <2>1, <3>1, <3>2
  <2> QED BY <2>2, <2>3 DEF FileHasLayout
<1> QED BY <1>1, StreamInvariant, PTL

(***************************************************************************)
(* DropGraphWriter.                                                        *)
(***************************************************************************)

\* Before endGraph a writer has got as many nodes and edges as the header says.
LEMMA CountsAreRight ==
  ASSUME HeardInv, call = "end"
  PROVE  /\ Cardinality({i \in DOMAIN heard : heard[i].name = "writeNode"}) = nodeCount
         /\ Cardinality({i \in DOMAIN heard : heard[i].name = "writeEdge"}) = edgeCount
<1>1. /\ PassedIs /\ EdgeCallsAre /\ graph \in Graphs /\ heard \in Seq(CallRecords)
      /\ nodeCount \in Nat /\ edgeCount \in Nat /\ Passed = edgeCount
  BY EdgeCallsPlaces, PassedOf DEF HeardInv, InputInv, NamesInv, PassedIs
<1>2. Len(heard) = nodeCount + 8 + edgeCount /\ DOMAIN heard = 1..Len(heard)
  BY <1>1 DEF HeardInv, LengthInv
<1>3. \A i \in DOMAIN heard : heard[i].name = Protocol[i]
  BY DEF HeardInv, NamesInv
<1>4. {i \in DOMAIN heard : heard[i].name = "writeEdge"} = (nodeCount + 8)..(nodeCount + 7 + edgeCount)
  <2>1. \A i \in EdgeCalls : i \in (nodeCount + 8)..(nodeCount + 7 + edgeCount)
    BY <1>1 DEF EdgeCallsAre
  <2>2. ASSUME NEW i \in (nodeCount + 8)..(nodeCount + 7 + edgeCount) PROVE i \in EdgeCalls
    <3>1. i - nodeCount - 7 \in 1..Passed /\ nodeCount + 7 + (i - nodeCount - 7) = i
      BY <1>1
    <3>2. nodeCount + 7 + (i - nodeCount - 7) \in EdgeCalls
      BY <1>1, <3>1 DEF EdgeCallsAre
    <3> QED BY <3>1, <3>2
  <2> QED BY <2>1, <2>2 DEF EdgeCalls
<1>5. {i \in DOMAIN heard : heard[i].name = "writeNode"} = 6..(nodeCount + 5)
  <2>1. ASSUME NEW i \in 6..(nodeCount + 5) PROVE i \in DOMAIN heard /\ heard[i].name = "writeNode"
    <3>1. i - 5 \in 1..nodeCount /\ 5 + (i - 5) = i /\ i \in DOMAIN heard
      BY <1>1, <1>2
    <3>2. Protocol[5 + (i - 5)] = "writeNode"
      BY <1>1, <3>1, ProtocolPlaces
    <3> QED BY <1>3, <3>1, <3>2
  <2>2. ASSUME NEW i \in DOMAIN heard, heard[i].name = "writeNode", i \notin 6..(nodeCount + 5)
        PROVE  FALSE
    <3>1. i \in 1..(nodeCount + 8 + edgeCount) /\ Protocol[i] = "writeNode"
      BY <1>2, <1>3, <2>2
    <3>2. i \notin (nodeCount + 8)..(nodeCount + 7 + edgeCount)
      <4>1. i \in (nodeCount + 8)..(nodeCount + 7 + edgeCount) => heard[i].name = "writeEdge"
        BY <1>4
      <4> QED BY <2>2, <4>1
    <3>3. i \notin 1..5
      BY <1>1, <3>1, ProtocolPlaces
    <3>4. i # nodeCount + 6 /\ i # nodeCount + 7 /\ i # nodeCount + 8 + edgeCount
      BY <1>1, <3>1, ProtocolPlaces
    <3> QED BY <1>1, <2>2, <3>1, <3>2, <3>3, <3>4
  <2> QED BY <2>1, <2>2
<1>6. /\ Cardinality(6..(nodeCount + 5)) = nodeCount
      /\ Cardinality((nodeCount + 8)..(nodeCount + 7 + edgeCount)) = edgeCount
  <2>1. Cardinality(6..(nodeCount + 5)) = IF 6 > nodeCount + 5 THEN 0 ELSE nodeCount + 5 - 6 + 1
    BY <1>1, FS_Interval
  <2>2. Cardinality((nodeCount + 8)..(nodeCount + 7 + edgeCount))
          = IF nodeCount + 8 > nodeCount + 7 + edgeCount THEN 0
            ELSE nodeCount + 7 + edgeCount - (nodeCount + 8) + 1
    BY <1>1, FS_Interval
  <2> QED BY <1>1, <2>1, <2>2
<1> QED BY <1>4, <1>5, <1>6

\* It complains about an edge, and never about the counts.
LEMMA DropStep ==
  HeardInv /\ out \in Seq(Fields) /\ DropInv /\ [Next]_vars => DropInv'
<1> SUFFICES ASSUME HeardInv, out \in Seq(Fields), DropInv, [Next]_vars, writer = "Drop"
             PROVE  DropInv'
  BY InputKept DEF DropInv
<1>1. /\ writer' = writer /\ nodeCount' = nodeCount /\ Passed \in Nat
      /\ \A k \in 1..Passed : EdgeAt(NthEdge(k))' = EdgeAt(NthEdge(k))
  BY InputKept
<1>2. HeaderStep \/ NodeStep \/ QuietStep \/ (\E n \in Edges : EdgeStep(n)) \/ EndStep
  BY StepKinds
<1>3. CASE HeaderStep \/ NodeStep \/ QuietStep \/ EndStep
  <2>1. Passed' = Passed
    BY <1>3, NodesOutStep DEF HeaderStep, NodeStep
  <2>2. CASE HeaderStep \/ NodeStep \/ QuietStep
    <3>1. out' = out
      BY <2>2 DEF HeaderStep, NodeStep, QuietStep, base, TooLarge, BaseHeader, BaseNode, OffsetArrays
    <3> QED BY <1>1, <2>1, <3>1 DEF DropInv, Resolves
  <2>3. CASE EndStep
    <3>1. /\ Cardinality({i \in DOMAIN heard : heard[i].name = "writeNode"}) = graph.nodeCount
          /\ Cardinality({i \in DOMAIN heard : heard[i].name = "writeEdge"}) = Len(graph.edges)
      BY <2>3, CountsAreRight DEF EndStep, nodeCount, edgeCount
    <3> DEFINE Count(name) == Cardinality({i \in DOMAIN heard : heard[i].name = name})
               wrong == {x \in {<<"writeNode", graph.nodeCount>>, <<"writeEdge", Len(graph.edges)>>} :
                           Count(x[1]) # x[2]}
    <3>2. out' = IF writer = "Drop" /\ wrong # {} THEN Append(out, Field("complaint", 0)) ELSE out
      BY <2>3 DEF EndStep, EndGraph
    <3>3. Count("writeNode") = graph.nodeCount /\ Count("writeEdge") = Len(graph.edges)
      BY <3>1
    <3> HIDE DEF Count
    <3>4. wrong = {}
      <4>1. \A x \in {<<"writeNode", graph.nodeCount>>, <<"writeEdge", Len(graph.edges)>>} :
              Count(x[1]) = x[2]
        BY <3>3
      <4> QED BY <4>1
    <3> HIDE DEF wrong
    <3>5. out' = out
      BY <3>2, <3>4
    <3> QED BY <1>1, <2>1, <3>5 DEF DropInv, Resolves
  <2> QED BY <1>3, <2>2, <2>3
<1>4. ASSUME NEW n \in Edges, EdgeStep(n) PROVE DropInv'
  <2> DEFINE e == EdgeAt(n)
             s == Complaints(e)
  <2>1. Passed' = Passed + 1 /\ \A k : k = Passed + 1 => EdgeAt(NthEdge(k))' = e
    BY <1>4, InputKept DEF EdgeStep, EdgeAt
  <2>2. out' = out \o s
    BY <1>4 DEF EdgeStep, BaseEdge, NoSlot, NoCoordinates, OffsetArrays, Printed
  <2>3. s \in Seq(Fields) /\ (Len(s) = 0 <=> Resolves(e))
    <3>1. e.source \in Nat /\ e.target \in Nat /\ graph \in Graphs
      BY GraphType DEF HeardInv, InputInv
    <3> QED BY <3>1, ComplaintsAre
  <2> HIDE DEF s, e
  <2>4. out' \in Seq(Fields) /\ Len(out') = Len(out) + Len(s)
    BY <2>2, <2>3, JoinOut
  <2>5. /\ out = << >> <=> Len(out) = 0
        /\ out' = << >> <=> Len(out') = 0
        /\ Len(out) \in Nat /\ Len(s) \in Nat
    BY <2>3, <2>4
  <2>6. out' = << >> <=> (out = << >> /\ Resolves(e))
    BY <2>3, <2>4, <2>5
  <2>7. \A k \in 1..Passed' :
          \/ k \in 1..Passed /\ EdgeAt(NthEdge(k))' = EdgeAt(NthEdge(k))
          \/ k = Passed + 1 /\ EdgeAt(NthEdge(k))' = e
    BY <1>1, <2>1
  <2>8. (\A k \in 1..Passed' : Resolves(EdgeAt(NthEdge(k))'))
          <=> Resolves(e) /\ \A k \in 1..Passed : Resolves(EdgeAt(NthEdge(k)))
    <3>1. ASSUME \A k \in 1..Passed' : Resolves(EdgeAt(NthEdge(k))')
          PROVE  Resolves(e) /\ \A k \in 1..Passed : Resolves(EdgeAt(NthEdge(k)))
      <4>1. PICK j : j = Passed + 1
        OBVIOUS
      <4>2. j \in 1..Passed' /\ EdgeAt(NthEdge(j))' = e /\ \A k \in 1..Passed : k \in 1..Passed'
        BY <1>1, <2>1, <4>1
      <4> QED BY <1>1, <3>1, <4>2
    <3> QED BY <2>7, <3>1
  <2>9. \A x : Resolves(x)' <=> Resolves(x)
    BY <1>1 DEF Resolves
  <2> QED BY <1>1, <2>6, <2>8 DEF DropInv, Resolves
<1> QED BY <1>2, <1>3, <1>4

\* DropGraphWriter complains if, and only if, an edge points nowhere.
THEOREM DropIsRight == Spec => []DropComplainsRightly
<1> DEFINE Inv == StreamInv /\ DropInv
<1>1. Init => DropInv
  <2> SUFFICES ASSUME Init PROVE DropInv
    OBVIOUS
  <2>1. HeardInv /\ out = << >> /\ call = "header"
    BY HeardInit DEF Init
  <2>2. Passed = 0
    BY <2>1, PassedOf DEF HeardInv, PassedIs
  <2> QED BY <2>1, <2>2 DEF DropInv
<1>2. Inv /\ [Next]_vars => DropInv'
  BY DropStep DEF StreamInv
<1>3. Inv => DropComplainsRightly
  <2> SUFFICES ASSUME Inv, writer = "Drop", call = "done" PROVE out = << >> <=> PointsToNodes(graph)
    BY DEF DropComplainsRightly
  <2>1. /\ Passed = edgeCount /\ graph.nodeCount = nodeCount /\ DOMAIN graph.edges = Edges
        /\ \A n \in Edges : EdgeAt(n).source \in Nat /\ EdgeAt(n).target \in Nat
        /\ nodeCount \in Nat
    BY PassedOf, GraphType DEF StreamInv, HeardInv, InputInv, PassedIs, nodeCount, Edges
  <2>2. \A n \in 1..Passed : NthEdge(n) \in Edges
    BY DEF StreamInv, HeardInv, OrderInv, GotInv
  <2>3. \A e \in Edges : \E n \in 1..Passed : NthEdge(n) = e
    BY DEF StreamInv, HeardInv, SortedInv
  <2>4. out = << >> <=> \A n \in 1..Passed : Resolves(EdgeAt(NthEdge(n)))
    BY DEF DropInv
  <2>5. out = << >> <=> \A n \in Edges : Resolves(EdgeAt(n))
    BY <2>2, <2>3, <2>4
  <2>6. \A n \in Edges :
          Resolves(EdgeAt(n)) <=> {graph.edges[n].source, graph.edges[n].target} \subseteq 0..(graph.nodeCount - 1)
    BY <2>1 DEF Resolves, EdgeAt
  <2> QED BY <2>1, <2>5, <2>6 DEF PointsToNodes
<1>4. Spec => [](StreamInv /\ DropInv)
  BY <1>1, <1>2, StreamInvariant, PTL DEF Spec
<1> QED BY <1>3, <1>4, PTL

-----------------------------------------------------------------------------
(***************************************************************************)
(* The offset array: every edge gets a slot of its own among those of its  *)
(* source, and no vector is accessed outside of its range.                 *)
(***************************************************************************)

(***************************************************************************)
(* The edges of a node, and of the nodes before it.                        *)
(***************************************************************************)

LEMMA ModFacts ==
  ASSUME NEW n \in Nat, NEW d \in Nat \ {0}
  PROVE  n % d \in 0..(d - 1) /\ n % d <= n /\ (n < d => n % d = n)
OBVIOUS

LEMMA EdgesFinite ==
  ASSUME graph \in Graphs, NEW S \in SUBSET Edges
  PROVE  IsFiniteSet(S) /\ Cardinality(S) \in 0..edgeCount /\ IsFiniteSet(Edges) /\ Cardinality(Edges) = edgeCount
<1>1. edgeCount \in Nat /\ Edges = 1..edgeCount
  BY GraphType
<1>2. IsFiniteSet(1..edgeCount) /\ Cardinality(1..edgeCount) = IF 1 > edgeCount THEN 0 ELSE edgeCount - 1 + 1
  BY <1>1, FS_Interval
<1>3. IsFiniteSet(Edges) /\ Cardinality(Edges) = edgeCount
  BY <1>1, <1>2
<1>4. IsFiniteSet(S) /\ Cardinality(S) <= edgeCount
  BY <1>3, FS_Subset
<1> QED BY <1>3, <1>4, FS_CardinalityType

LEMMA DegreesAre ==
  ASSUME graph \in Graphs, NEW v \in Nat
  PROVE  /\ OutEdges(v) \subseteq Edges /\ Cardinality(OutEdges(v)) \in Nat
         /\ outdegree(v) \in 0..(DegreeSpace - 1) /\ outdegree(v) <= Cardinality(OutEdges(v))
         /\ NoWrap /\ v \in Vertices => outdegree(v) = Cardinality(OutEdges(v))
<1>1. OutEdges(v) \subseteq Edges
  BY DEF OutEdges, Edges
<1>2. Cardinality(OutEdges(v)) \in Nat
  BY <1>1, EdgesFinite
<1>3. DegreeSpace \in Nat \ {0}
  BY GraphWritersAssumption
<1> QED BY <1>1, <1>2, <1>3, ModFacts DEF outdegree, NoWrap

LEMMA LowerAre ==
  ASSUME graph \in Graphs, NEW v \in Nat
  PROVE  /\ Cardinality(Lower(v)) \in 0..edgeCount
         /\ Cardinality(Lower(v + 1)) = Cardinality(Lower(v)) + Cardinality(OutEdges(v))
         /\ Cardinality(Lower(0)) = 0
<1>1. \A n \in Edges : EdgeAt(n).source \in Nat
  BY GraphType
<1>2. Lower(v) \subseteq Edges /\ OutEdges(v) \subseteq Edges
  BY DEF Lower, OutEdges, Edges
<1>3. /\ IsFiniteSet(Lower(v)) /\ Cardinality(Lower(v)) \in 0..edgeCount
      /\ IsFiniteSet(OutEdges(v)) /\ Cardinality(OutEdges(v)) \in Nat
  <2>1. IsFiniteSet(Lower(v)) /\ Cardinality(Lower(v)) \in 0..edgeCount
    BY <1>2, EdgesFinite
  <2>2. IsFiniteSet(OutEdges(v)) /\ Cardinality(OutEdges(v)) \in 0..edgeCount
    BY <1>2, EdgesFinite
  <2> QED BY <2>1, <2>2
<1>4. Lower(v + 1) = Lower(v) \cup OutEdges(v) /\ Lower(v) \cap OutEdges(v) = {}
  BY <1>1 DEF Lower, OutEdges, Edges
<1>5. Cardinality(Lower(v + 1)) = Cardinality(Lower(v)) + Cardinality(OutEdges(v)) - Cardinality({})
  BY <1>3, <1>4, FS_Union
<1>6. Lower(0) = {}
  BY <1>1 DEF Lower
<1> QED BY <1>3, <1>5, <1>6, FS_EmptySet

LEMMA LowerGrows ==
  ASSUME graph \in Graphs, NEW v \in Nat, NEW w \in Nat, v <= w
  PROVE  Cardinality(Lower(v)) <= Cardinality(Lower(w))
<1>1. Lower(v) \subseteq Lower(w) /\ Lower(w) \subseteq Edges
  BY GraphType DEF Lower
<1>2. IsFiniteSet(Lower(w))
  BY <1>1, EdgesFinite
<1> QED BY <1>1, <1>2, FS_Subset

(***************************************************************************)
(* The edges a writer has got.                                             *)
(***************************************************************************)

LEMMA WrittenAre ==
  ASSUME HeardInv
  PROVE  /\ \A n : n \in Written <=> \E k \in 1..Passed : NthEdge(k) = n
         /\ Written \subseteq Edges /\ (Passed = 0 => Written = {})
         /\ (call \in {"end", "done"} => Written = Edges)
<1>1. EdgeCallsAre /\ PassedIs /\ Passed \in Nat /\ nodeCount \in Nat
  BY EdgeCallsPlaces, PassedOf DEF HeardInv, PassedIs
<1>2. ASSUME NEW k \in 1..Passed PROVE NthEdge(k) \in Written
  <2>1. nodeCount + 7 + k \in EdgeCalls
    BY <1>1 DEF EdgeCallsAre
  <2> QED BY <2>1 DEF Written, NthEdge, nodeCount
<1>3. ASSUME NEW n \in Written PROVE \E k \in 1..Passed : NthEdge(k) = n
  <2>1. PICK i \in EdgeCalls : n = heard[i].of
    BY DEF Written
  <2>2. i - nodeCount - 7 \in 1..Passed /\ nodeCount + 7 + (i - nodeCount - 7) = i
    BY <1>1 DEF EdgeCallsAre
  <2>3. NthEdge(i - nodeCount - 7) = n
    BY <2>1, <2>2 DEF NthEdge, nodeCount
  <2> QED BY <2>2, <2>3
<1>4. \A k \in 1..Passed : NthEdge(k) \in Edges
  BY DEF HeardInv, OrderInv, GotInv
<1>5. call \in {"end", "done"} => \A e \in Edges : \E k \in 1..Passed : NthEdge(k) = e
  BY DEF HeardInv, SortedInv
<1>6. Passed = 0 => Written = {}
  BY <1>3
<1> QED BY <1>2, <1>3, <1>4, <1>5, <1>6

LEMMA HeardStep == HeardInv /\ [Next]_vars => HeardInv'
BY CallsStep, OrderStep DEF HeardInv

WrittenIs ==
  /\ \A n : n \in Written <=> \E k \in 1..Passed : NthEdge(k) = n
  /\ Passed = 0 => Written = {}

LEMMA WrittenOf == HeardInv => WrittenIs
BY WrittenAre DEF WrittenIs

LEMMA WrittenPrimed ==
  ASSUME HeardInv, [Next]_vars
  PROVE  /\ \A n : n \in Written' <=> \E k \in 1..Passed' : NthEdge(k)' = n
         /\ Passed' = 0 => Written' = {}
<1>1. HeardInv'
  BY HeardStep
<1>2. WrittenIs'
  BY <1>1, WrittenOf, PTL
<1> QED BY <1>2 DEF WrittenIs

LEMMA WrittenStep ==
  ASSUME HeardInv, [Next]_vars
  PROVE  /\ Passed' = Passed => Written' = Written
         /\ \A n \in Edges : EdgeStep(n) => Written' = Written \cup {n} /\ n \notin Written
<1>1. /\ \A k \in 1..Passed : NthEdge(k)' = NthEdge(k)
      /\ \A n : n \in Written <=> \E k \in 1..Passed : NthEdge(k) = n
      /\ \A n : n \in Written' <=> \E k \in 1..Passed' : NthEdge(k)' = n
      /\ Passed \in Nat
  BY StepKinds, WrittenAre, WrittenPrimed DEF PassedIs
<1>2. Passed' = Passed => Written' = Written
  BY <1>1
<1>3. ASSUME NEW n \in Edges, EdgeStep(n)
      PROVE  Written' = Written \cup {n} /\ n \notin Written
  <2>1. /\ Passed' = Passed + 1 /\ \A k : k = Passed + 1 => NthEdge(k)' = n
        /\ \A k \in 1..Passed : NthEdge(k) # n
    BY <1>3 DEF EdgeStep
  <2>2. \A k : k \in 1..Passed' <=> k \in 1..Passed \/ k = Passed + 1
    BY <1>1, <2>1
  <2>3. \A x : x \in Written' <=> x \in Written \/ x = n
    <3> SUFFICES ASSUME NEW x PROVE x \in Written' <=> x \in Written \/ x = n
      OBVIOUS
    <3>1. x \in Written' => x \in Written \/ x = n
      BY <1>1, <2>1, <2>2
    <3>2. x \in Written => x \in Written'
      BY <1>1, <2>2
    <3>3. n \in Written'
      <4>1. PICK j : j = Passed + 1
        OBVIOUS
      <4> QED BY <1>1, <2>1, <2>2, <4>1
    <3> QED BY <3>1, <3>2, <3>3
  <2> QED BY <1>1, <2>1, <2>3
<1> QED BY <1>2, <1>3

\* A list is over any set that its elements are in.
LEMMA ElementsWithin ==
  ASSUME NEW S, NEW s \in Seq(S), NEW T, \A i \in 1..Len(s) : s[i] \in T
  PROVE  s \in Seq(T)
<1>1. s \in [1..Len(s) -> T] /\ Len(s) \in Nat
  OBVIOUS
<1> QED BY <1>1

\* An element of a list is replaced.
LEMMA ElementReplaced ==
  ASSUME NEW S, NEW s \in Seq(S), NEW i, NEW x, i \in DOMAIN s => x \in S,
         NEW t, t = [s EXCEPT ![i] = x]
  PROVE  /\ t \in Seq(S) /\ Len(t) = Len(s)
         /\ \A j \in 1..Len(s) : t[j] = IF j = i THEN x ELSE s[j]
<1>1. s \in [1..Len(s) -> S] /\ Len(s) \in Nat /\ DOMAIN s = 1..Len(s)
  OBVIOUS
<1>2. t \in [1..Len(s) -> S] /\ \A j \in 1..Len(s) : t[j] = IF j = i THEN x ELSE s[j]
  BY <1>1
<1>3. t \in Seq(S) /\ Len(t) = Len(s)
  BY <1>1, <1>2
<1> QED BY <1>2, <1>3

(***************************************************************************)
(* The arrays.                                                             *)
(***************************************************************************)

\* The edges of a graph for an offset array point to nodes.
LEMMA EndsAreNodes ==
  ASSUME HeardInv, NEW n \in Edges
  PROVE  /\ EdgeAt(n).source \in Nat /\ EdgeAt(n).target \in Nat /\ EdgeAt(n).type \in Nat
         /\ writer \in OffsetArrays =>
              /\ EdgeAt(n).source \in Vertices /\ EdgeAt(n).target \in Vertices
              /\ EdgeAt(n).source \in 0..(nodeCount - 1)
BY GraphType DEF HeardInv, InputInv, PointsToNodes, EdgeAt, Edges, Vertices, nodeCount

\* What fills a slot.
Filling(e) == [dest |-> e.target, type |-> e.type % TypeSpace]

LEMMA FillingIs ==
  ASSUME HeardInv, writer \in OffsetArrays, NEW n \in Edges
  PROVE  Filling(EdgeAt(n)) \in Contents /\ Filling(EdgeAt(n)) # Unset
<1>1. EdgeAt(n).target \in Vertices /\ EdgeAt(n).type \in Nat /\ nodeCount \in Nat
      /\ Vertices = 0..(nodeCount - 1)
  BY EndsAreNodes, GraphType DEF HeardInv, InputInv
<1>2. TypeSpace \in Nat \ {0}
  BY GraphWritersAssumption
<1>3. EdgeAt(n).type % TypeSpace \in 0..(TypeSpace - 1)
  BY <1>1, <1>2, ModFacts
<1> QED BY <1>1, <1>3 DEF Filling, Contents, Unset

LEMMA ArrayStep == HeardInv /\ ArrayInv /\ [Next]_vars => ArrayInv'
<1> SUFFICES ASSUME HeardInv, ArrayInv, [Next]_vars PROVE ArrayInv'
  OBVIOUS
<1>1. /\ graph' = graph /\ writer' = writer /\ given \in Nat /\ graph \in Graphs
      /\ Contents' = Contents /\ NodeRecords' = NodeRecords
  BY InputKept DEF HeardInv, InputInv, Contents, NodeRecords, Vertices
<1>2. HeaderStep \/ NodeStep \/ QuietStep \/ (\E n \in Edges : EdgeStep(n)) \/ EndStep
  BY StepKinds
<1>3. MaxCount \in Nat /\ DegreeSpace \in Nat \ {0}
  BY GraphWritersAssumption
<1>4. ASSUME UNCHANGED arrays PROVE ArrayInv'
  BY <1>1, <1>4 DEF arrays, ArrayInv
<1>5. CASE HeaderStep
  <2>1. CASE UNCHANGED base
    BY <1>4, <2>1 DEF base
  <2>2. CASE BaseHeader
    <3>1. UNCHANGED <<nodes, m_edgeBegin, m_edgeOffsets>>
      BY <2>2 DEF BaseHeader
    <3>2. edges' = edges \/ edges' = [slot \in 0..(Len(graph.edges) - 1) |-> Unset]
      BY <2>2 DEF BaseHeader
    <3>3. edges' \in [DOMAIN edges' -> {Unset} \cup Contents]
      BY <3>2 DEF ArrayInv
    <3> QED BY <1>1, <3>1, <3>3 DEF ArrayInv
  <2> QED BY <1>5, <2>1, <2>2 DEF HeaderStep
<1>6. CASE NodeStep
  <2>1. CASE writer \notin OffsetArrays
    BY <1>4, <1>6, <2>1 DEF NodeStep, BaseNode
  <2>2. CASE writer \in OffsetArrays
    <3>1. /\ nodes' = Append(nodes, [edgesBegin |-> m_edgeBegin, edgeCount |-> outdegree(given)])
          /\ m_edgeBegin' = NextBegin(given) /\ edges' = edges
          /\ m_edgeOffsets' = IF writer = "Static" THEN Append(m_edgeOffsets, m_edgeBegin) ELSE m_edgeOffsets
      BY <1>6, <2>2 DEF NodeStep, BaseNode
    <3>2. outdegree(given) \in 0..(DegreeSpace - 1) /\ m_edgeBegin \in 0..MaxCount
      BY <1>1, DegreesAre DEF ArrayInv
    <3>3. [edgesBegin |-> m_edgeBegin, edgeCount |-> outdegree(given)] \in NodeRecords
      BY <3>2 DEF NodeRecords
    <3>4. nodes' \in Seq(NodeRecords)
      BY <3>1, <3>3 DEF ArrayInv
    <3>5. m_edgeBegin' \in 0..MaxCount
      <4>1. m_edgeBegin + outdegree(given) \in Nat /\ MaxCount + 1 \in Nat \ {0} /\ MaxCount + 1 - 1 = MaxCount
        BY <1>3, <3>2
      <4>2. PICK k \in Nat, d \in Nat \ {0} : k = m_edgeBegin + outdegree(given) /\ d = MaxCount + 1
        BY <4>1
      <4>3. m_edgeBegin' = k % d
        BY <3>1, <4>2 DEF NextBegin
      <4>4. k % d \in 0..(d - 1)
        BY ModFacts
      <4>5. 0..(d - 1) = 0..MaxCount
        BY <1>3, <4>2
      <4> QED BY <4>3, <4>4, <4>5
    <3>6. m_edgeOffsets' \in Seq(Nat) /\ (writer # "Static" => m_edgeOffsets' = << >>)
      BY <1>3, <3>1, <3>2 DEF ArrayInv
    <3> QED BY <1>1, <3>1, <3>4, <3>5, <3>6 DEF ArrayInv
  <2> QED BY <2>1, <2>2
<1>7. CASE QuietStep
  BY <1>4, <1>7 DEF QuietStep, base
<1>8. ASSUME NEW n \in Edges, EdgeStep(n) PROVE ArrayInv'
  <2> DEFINE e == EdgeAt(n)
  <2>1. CASE UNCHANGED arrays
    BY <1>4, <2>1
  <2>2. CASE writer \in OffsetArrays /\ PutSlot(e)
    <3>1. Filling(e) \in Contents
      BY <2>2, FillingIs
    <3> HIDE DEF e
    <3>2. edges' = [edges EXCEPT ![FreeSlot(e.source)] = Filling(e)] /\ m_edgeBegin' = m_edgeBegin
      BY <2>2 DEF PutSlot, Filling
    <3>3. edges' \in [DOMAIN edges' -> {Unset} \cup Contents]
      BY <3>1, <3>2 DEF ArrayInv
    <3>4. CASE writer = "Static"
      <4>1. m_edgeOffsets' = [m_edgeOffsets EXCEPT ![e.source + 1] = @ + 1] /\ nodes' = nodes
        BY <2>2, <3>4 DEF PutSlot
      <4>2. m_edgeOffsets' \in Seq(Nat)
        <5> DEFINE i == e.source + 1
                   x == m_edgeOffsets[i] + 1
        <5>1. m_edgeOffsets' = [m_edgeOffsets EXCEPT ![i] = x]
          BY <4>1
        <5>2. m_edgeOffsets \in Seq(Nat)
          BY DEF ArrayInv
        <5>3. i \in DOMAIN m_edgeOffsets => x \in Nat
          BY <5>2
        <5> HIDE DEF i, x
        <5> QED BY <5>1, <5>2, <5>3, ElementReplaced
      <4> QED BY <1>1, <3>2, <3>3, <3>4, <4>1, <4>2 DEF ArrayInv
    <3>5. CASE writer # "Static"
      <4>1. /\ nodes' = [nodes EXCEPT ![e.source + 1].edgeCount = (@ + 1) % DegreeSpace]
            /\ m_edgeOffsets' = m_edgeOffsets
        BY <2>2, <3>5 DEF PutSlot
      <4>2. \A r \in NodeRecords : [r EXCEPT !.edgeCount = (r.edgeCount + 1) % DegreeSpace] \in NodeRecords
        <5> SUFFICES ASSUME NEW r \in NodeRecords
                     PROVE  [r EXCEPT !.edgeCount = (r.edgeCount + 1) % DegreeSpace] \in NodeRecords
          OBVIOUS
        <5>1. r.edgeCount \in 0..(DegreeSpace - 1) /\ r.edgeCount + 1 \in Nat
          BY <1>3 DEF NodeRecords
        <5>2. (r.edgeCount + 1) % DegreeSpace \in 0..(DegreeSpace - 1)
          BY <1>3, <5>1, ModFacts
        <5> QED BY <5>2 DEF NodeRecords
      <4>3. nodes' \in Seq(NodeRecords)
        <5>1. nodes \in Seq(NodeRecords)
          BY DEF ArrayInv
        <5>2. nodes' = [nodes EXCEPT ![e.source + 1] =
                          [nodes[e.source + 1] EXCEPT !.edgeCount = (nodes[e.source + 1].edgeCount + 1) % DegreeSpace]]
          BY <4>1
        <5> DEFINE x == [nodes[e.source + 1] EXCEPT !.edgeCount = (nodes[e.source + 1].edgeCount + 1) % DegreeSpace]
        <5>3. ASSUME e.source + 1 \in DOMAIN nodes PROVE x \in NodeRecords
          <6>1. nodes[e.source + 1] \in NodeRecords
            BY <5>1, <5>3
          <6> QED BY <4>2, <6>1
        <5>4. nodes' = [nodes EXCEPT ![e.source + 1] = x]
          BY <5>2
        <5> HIDE DEF x
        <5> QED BY <5>1, <5>3, <5>4, ElementReplaced
      <4> QED BY <1>1, <3>2, <3>3, <3>5, <4>1, <4>3 DEF ArrayInv
    <3> QED BY <3>4, <3>5
  <2>3. UNCHANGED arrays \/ (writer \in OffsetArrays /\ PutSlot(e))
    BY <1>8 DEF EdgeStep, BaseEdge, base
  <2> QED BY <2>1, <2>2, <2>3
<1>9. CASE EndStep
  BY <1>4, <1>9 DEF EndStep, EndGraph
<1> QED BY <1>2, <1>5, <1>6, <1>7, <1>8, <1>9

\* The vectors have the size of the graph.
LEMMA SizesStep == HeardInv /\ ArrayInv /\ SizesInv /\ [Next]_vars => SizesInv'
<1> SUFFICES ASSUME HeardInv, ArrayInv, SizesInv, [Next]_vars, writer = "Static" PROVE SizesInv'
  BY InputKept DEF SizesInv
<1>1. /\ writer' = writer /\ nodeCount' = nodeCount /\ edgeCount' = edgeCount /\ given \in Nat
      /\ graph.nodeCount = nodeCount /\ Len(graph.edges) = edgeCount
  BY InputKept
<1>2. HeaderStep \/ NodeStep \/ QuietStep \/ (\E n \in Edges : EdgeStep(n)) \/ EndStep
  BY StepKinds
<1>3. nodes \in Seq(NodeRecords) /\ m_edgeOffsets \in Seq(Nat)
  BY DEF ArrayInv
<1>4. CASE QuietStep \/ EndStep
  <2>1. NodesOut' = NodesOut /\ UNCHANGED arrays
    BY <1>4, NodesOutStep DEF QuietStep, EndStep, EndGraph, base
  <2>2. call' \in {"header", "aborted"} <=> call \in {"header", "aborted"}
    BY <1>4 DEF QuietStep, EndStep
  <2> QED BY <1>1, <2>1, <2>2 DEF SizesInv, arrays
<1>5. CASE HeaderStep
  <2>1. call = "header" /\ NodesOut = 0
    BY <1>5, NodesOutStep DEF HeaderStep
  <2>2. CASE TooLarge /\ call' = "aborted" /\ UNCHANGED base
    BY <1>1, <2>1, <2>2 DEF SizesInv, base, arrays, NodesOut
  <2>3. CASE ~TooLarge /\ call' = "nodes" /\ BaseHeader
    <3>1. /\ nodes' = nodes /\ m_edgeOffsets' = m_edgeOffsets
          /\ DOMAIN edges' = 0..(edgeCount - 1)
      BY <1>1, <2>3 DEF BaseHeader, OffsetArrays
    <3>2. edgeCount <= MaxCount
      <4>1. edgeCount \in Nat /\ MaxCount \in Nat /\ ~(edgeCount > MaxCount)
        BY <1>1, <2>3, InputKept, GraphWritersAssumption DEF TooLarge
      <4> QED BY <4>1
    <3>3. NodesOut' = 0
      BY <1>5, <2>3, NodesOutStep
    <3> QED BY <1>1, <2>1, <2>3, <3>1, <3>2, <3>3 DEF SizesInv
  <2> QED BY <1>5, <2>2, <2>3 DEF HeaderStep
<1>6. CASE NodeStep
  <2>1. /\ NodesOut = given /\ NodesOut' = given + 1 /\ call = "nodes" /\ call' = "nodes"
    BY <1>6, NodesOutStep DEF NodeStep
  <2>2. /\ nodes' = Append(nodes, [edgesBegin |-> m_edgeBegin, edgeCount |-> outdegree(given)])
        /\ m_edgeOffsets' = Append(m_edgeOffsets, m_edgeBegin) /\ edges' = edges
    BY <1>6 DEF NodeStep, BaseNode, OffsetArrays
  <2>3. Len(nodes') = Len(nodes) + 1 /\ Len(m_edgeOffsets') = Len(m_edgeOffsets) + 1
    BY <1>3, <2>2
  <2> QED BY <1>1, <2>1, <2>2, <2>3 DEF SizesInv
<1>7. ASSUME NEW n \in Edges, EdgeStep(n) PROVE SizesInv'
  <2>1. /\ NodesOut = nodeCount /\ NodesOut' = nodeCount
        /\ call \in {"edges", "sorted"} /\ call' \in {"edges", "sorted", "undefined"}
    BY <1>7, NodesOutStep DEF EdgeStep
  <2>2. UNCHANGED arrays \/ PutSlot(EdgeAt(n))
    BY <1>7 DEF EdgeStep, BaseEdge, base, OffsetArrays
  <2>3. DOMAIN edges' = DOMAIN edges /\ Len(nodes') = Len(nodes) /\ Len(m_edgeOffsets') = Len(m_edgeOffsets)
    BY <1>3, <2>2 DEF arrays, PutSlot
  <2> QED BY <1>1, <2>1, <2>3 DEF SizesInv
<1> QED BY <1>2, <1>4, <1>5, <1>6, <1>7

\* The edges of the nodes do not change.
LEMMA GraphKept ==
  ASSUME HeardInv, [Next]_vars
  PROVE  /\ \A v : OutEdges(v)' = OutEdges(v) /\ outdegree(v)' = outdegree(v) /\ Lower(v)' = Lower(v)
         /\ Vertices' = Vertices /\ Edges' = Edges /\ (NoWrap' <=> NoWrap)
         /\ \A v : v = NodesOut' => Lower(NodesOut)' = Lower(v)
<1>1. graph' = graph
  BY InputKept
<1> QED BY <1>1 DEF OutEdges, outdegree, Lower, Vertices, Edges, NoWrap, EdgeAt

\* One more edge of the node v, and of no other.
LEMMA OneMoreWritten ==
  ASSUME HeardInv, [Next]_vars, NEW n \in Edges, EdgeStep(n), NEW v \in Nat
  PROVE  LET had == OutEdges(v) \cap Written
             has == OutEdges(v) \cap Written'
         IN /\ Cardinality(had) \in Nat
            /\ EdgeAt(n).source = v => has = had \cup {n} /\ n \notin had
                                       /\ Cardinality(has) = Cardinality(had) + 1
                                       /\ Cardinality(had) < Cardinality(OutEdges(v))
            /\ EdgeAt(n).source # v => has = had
<1>1. Written' = Written \cup {n} /\ n \notin Written
  BY WrittenStep
<1> DEFINE had == OutEdges(v) \cap Written
           has == OutEdges(v) \cap Written'
<1>2. had \subseteq Edges /\ OutEdges(v) \subseteq Edges /\ graph \in Graphs
  BY DEF OutEdges, Edges, HeardInv, InputInv
<1>3. IsFiniteSet(had) /\ Cardinality(had) \in Nat /\ IsFiniteSet(OutEdges(v))
  BY <1>2, EdgesFinite
<1>4. EdgeAt(n).source = v <=> n \in OutEdges(v)
  BY DEF OutEdges, Edges
<1>5. ASSUME EdgeAt(n).source = v
      PROVE  /\ has = had \cup {n} /\ n \notin had /\ Cardinality(has) = Cardinality(had) + 1
             /\ Cardinality(had) < Cardinality(OutEdges(v))
  <2>1. has = had \cup {n} /\ n \notin had /\ had \cup {n} \subseteq OutEdges(v)
    BY <1>1, <1>4, <1>5
  <2> HIDE DEF had, has
  <2>2. Cardinality(had \cup {n}) = Cardinality(had) + 1
    BY <1>3, <2>1, FS_AddElement
  <2>3. Cardinality(had \cup {n}) <= Cardinality(OutEdges(v))
    BY <1>3, <2>1, FS_Subset
  <2>4. Cardinality(OutEdges(v)) \in Nat
    BY <1>3, FS_CardinalityType
  <2> QED BY <1>3, <2>1, <2>2, <2>3, <2>4
<1>6. EdgeAt(n).source # v => has = had
  BY <1>1, <1>4
<1> QED BY <1>3, <1>5, <1>6

\* Every edge finds a free slot.
LEMMA SlotInRange ==
  ASSUME HeardInv, ArrayInv, SizesInv, BeginInv, [Next]_vars, writer = "Static",
         NEW n \in Edges, EdgeStep(n)
  PROVE  /\ FreeSlot(EdgeAt(n).source) \in DOMAIN edges
         /\ PutSlot(EdgeAt(n)) /\ call' = call
<1> DEFINE v == EdgeAt(n).source
<1>1. v \in Nat /\ v \in 0..(nodeCount - 1) /\ graph \in Graphs
  BY EndsAreNodes DEF OffsetArrays, HeardInv, InputInv
<1>2. NodesOut = nodeCount /\ call \in {"edges", "sorted"} /\ nodeCount \in Nat /\ edgeCount \in Nat
  BY NodesOutStep, InputKept DEF EdgeStep
<1>3. DOMAIN edges = 0..(edgeCount - 1) /\ Len(nodes) = nodeCount
  BY <1>2 DEF SizesInv
<1>4. /\ nodes[v + 1].edgesBegin <= Cardinality(Lower(v))
      /\ m_edgeOffsets[v + 1] = nodes[v + 1].edgesBegin + Cardinality(OutEdges(v) \cap Written)
  BY <1>1, <1>2 DEF BeginInv
<1>5. nodes[v + 1].edgesBegin \in Nat
  <2>1. v + 1 \in 1..Len(nodes)
    BY <1>1, <1>2, <1>3
  <2>2. nodes[v + 1] \in NodeRecords
    BY <2>1 DEF ArrayInv
  <2> QED BY <2>2, GraphWritersAssumption DEF NodeRecords
<1>6. /\ Cardinality(Lower(v + 1)) = Cardinality(Lower(v)) + Cardinality(OutEdges(v))
      /\ Cardinality(Lower(v)) \in Nat /\ Cardinality(Lower(v + 1)) <= edgeCount
      /\ Cardinality(OutEdges(v)) \in Nat
  <2>1. v + 1 \in Nat
    BY <1>1
  <2>2. Cardinality(Lower(v + 1)) \in 0..edgeCount
    BY <1>1, <2>1, LowerAre
  <2> QED BY <1>1, <1>2, <2>2, LowerAre, DegreesAre
<1>7. /\ Cardinality(OutEdges(v) \cap Written) \in Nat
      /\ Cardinality(OutEdges(v) \cap Written) < Cardinality(OutEdges(v))
  BY <1>1, OneMoreWritten
<1>8. FreeSlot(v) \in 0..(edgeCount - 1)
  BY <1>2, <1>4, <1>5, <1>6, <1>7 DEF FreeSlot
<1>9. ~NoSlot(EdgeAt(n)) /\ ~NoCoordinates(EdgeAt(n))
  BY <1>3, <1>8 DEF NoSlot, NoCoordinates
<1> QED BY <1>3, <1>8, <1>9 DEF EdgeStep, BaseEdge, OffsetArrays

LEMMA BeginStep ==
  HeardInv /\ ArrayInv /\ SizesInv /\ BeginInv /\ [Next]_vars => BeginInv'
<1> SUFFICES ASSUME HeardInv, ArrayInv, SizesInv, BeginInv, [Next]_vars, writer = "Static"
             PROVE  BeginInv'
  BY InputKept DEF BeginInv
<1>1. /\ writer' = writer /\ nodeCount' = nodeCount /\ nodeCount \in Nat /\ edgeCount \in Nat
      /\ given \in Nat /\ graph \in Graphs /\ Vertices = 0..(nodeCount - 1)
  BY InputKept, GraphType DEF HeardInv, InputInv
<1>2. /\ \A v : OutEdges(v)' = OutEdges(v) /\ outdegree(v)' = outdegree(v) /\ Lower(v)' = Lower(v)
      /\ (NoWrap' <=> NoWrap) /\ \A v : v = NodesOut' => Lower(NodesOut)' = Lower(v)
  BY GraphKept
<1>3. HeaderStep \/ NodeStep \/ QuietStep \/ (\E n \in Edges : EdgeStep(n)) \/ EndStep
  BY StepKinds
<1>4. m_edgeBegin \in Nat /\ nodes \in Seq(NodeRecords) /\ m_edgeOffsets \in Seq(Nat)
  BY GraphWritersAssumption DEF ArrayInv
<1>5. CASE QuietStep \/ EndStep
  <2>1. NodesOut' = NodesOut /\ UNCHANGED arrays /\ Passed' = Passed
    BY <1>5, NodesOutStep DEF QuietStep, EndStep, EndGraph, base
  <2>2. Written' = Written /\ Lower(NodesOut)' = Lower(NodesOut)
    BY <1>2, <2>1, WrittenStep
  <2> QED BY <1>1, <1>2, <2>1, <2>2 DEF BeginInv, arrays
<1>6. CASE HeaderStep
  <2>1. NodesOut = 0 /\ NodesOut' = 0
    BY <1>6, NodesOutStep DEF HeaderStep, NodesOut
  <2>2. m_edgeBegin' = m_edgeBegin
    BY <1>6 DEF HeaderStep, base, arrays, BaseHeader
  <2>3. Lower(NodesOut)' = Lower(0) /\ Cardinality(Lower(0)) = 0
    BY <1>1, <1>2, <2>1, LowerAre
  <2>4. m_edgeBegin = 0
    BY <1>4, <2>1, <2>3 DEF BeginInv
  <2> QED BY <1>1, <2>1, <2>2, <2>3, <2>4 DEF BeginInv
<1>7. CASE NodeStep
  <2>1. /\ NodesOut = given /\ NodesOut' = given + 1 /\ call = "nodes" /\ call' = "nodes"
        /\ given < nodeCount /\ Passed = 0 /\ Passed' = 0
    BY <1>7, NodesOutStep DEF NodeStep
  <2>2. /\ nodes' = Append(nodes, [edgesBegin |-> m_edgeBegin, edgeCount |-> outdegree(given)])
        /\ m_edgeOffsets' = Append(m_edgeOffsets, m_edgeBegin)
        /\ m_edgeBegin' = NextBegin(given)
    BY <1>7 DEF NodeStep, BaseNode, OffsetArrays
  <2>3. Len(nodes) = given /\ Len(m_edgeOffsets) = given /\ edgeCount <= MaxCount
    BY <2>1 DEF SizesInv
  <2>4. Written = {} /\ Written' = {}
    BY <2>1, WrittenAre, WrittenStep
  <2>5. /\ Cardinality(Lower(given)) \in Nat /\ Cardinality(OutEdges(given)) \in Nat
        /\ Cardinality(Lower(given + 1)) = Cardinality(Lower(given)) + Cardinality(OutEdges(given))
        /\ Cardinality(Lower(given + 1)) <= edgeCount
        /\ outdegree(given) \in Nat /\ outdegree(given) <= Cardinality(OutEdges(given))
        /\ NoWrap => outdegree(given) = Cardinality(OutEdges(given))
    <3>1. given + 1 \in Nat /\ given \in Vertices
      BY <1>1, <2>1
    <3>2. Cardinality(Lower(given + 1)) \in 0..edgeCount
      BY <1>1, <3>1, LowerAre
    <3>3. outdegree(given) \in Nat
      <4>1. outdegree(given) \in 0..(DegreeSpace - 1)
        BY <1>1, DegreesAre
      <4>2. DegreeSpace \in Nat
        BY GraphWritersAssumption
      <4> QED BY <4>1, <4>2
    <3> QED BY <1>1, <3>1, <3>2, <3>3, LowerAre, DegreesAre
  <2>6. m_edgeBegin <= Cardinality(Lower(given)) /\ (NoWrap => m_edgeBegin = Cardinality(Lower(given)))
    BY <2>1 DEF BeginInv
  <2>7. /\ m_edgeBegin' <= Cardinality(Lower(given + 1))
        /\ NoWrap => m_edgeBegin' = Cardinality(Lower(given + 1))
    <3>1. PICK k \in Nat, d \in Nat \ {0} : k = m_edgeBegin + outdegree(given) /\ d = MaxCount + 1
      BY <1>4, <2>5, GraphWritersAssumption
    <3>2. m_edgeBegin' = k % d
      BY <2>2, <3>1 DEF NextBegin
    <3>3. k % d \in 0..(d - 1) /\ k % d <= k /\ (k < d => k % d = k)
      BY ModFacts
    <3>4. k <= Cardinality(Lower(given + 1)) /\ (NoWrap => k = Cardinality(Lower(given + 1)))
      BY <1>4, <2>5, <2>6, <3>1
    <3>5. k < d
      BY <1>1, <2>3, <2>5, <3>1, <3>4, GraphWritersAssumption
    <3> HIDE <3>1
    <3> QED BY <3>2, <3>3, <3>4, <3>5
  <2>8. ASSUME NEW v \in 0..given
        PROVE  /\ nodes'[v + 1].edgeCount = outdegree(v)
               /\ nodes'[v + 1].edgesBegin <= Cardinality(Lower(v))
               /\ NoWrap => nodes'[v + 1].edgesBegin = Cardinality(Lower(v))
               /\ m_edgeOffsets'[v + 1] = nodes'[v + 1].edgesBegin + Cardinality(OutEdges(v) \cap Written')
    <3>1. CASE v = given
      <4>1. /\ nodes'[v + 1] = [edgesBegin |-> m_edgeBegin, edgeCount |-> outdegree(v)]
            /\ m_edgeOffsets'[v + 1] = m_edgeBegin
        BY <1>4, <2>2, <2>3, <3>1
      <4>2. OutEdges(v) \cap Written' = {}
        BY <2>4
      <4>3. Cardinality(OutEdges(v) \cap Written') = 0
        BY <4>2, FS_EmptySet
      <4>4. nodes'[v + 1].edgeCount = outdegree(v) /\ nodes'[v + 1].edgesBegin = m_edgeBegin
        BY <4>1
      <4>5. m_edgeOffsets'[v + 1] = nodes'[v + 1].edgesBegin + Cardinality(OutEdges(v) \cap Written')
        BY <1>4, <4>1, <4>3, <4>4
      <4> QED BY <2>6, <3>1, <4>4, <4>5
    <3>2. CASE v \in 0..(given - 1)
      <4>1. nodes'[v + 1] = nodes[v + 1] /\ m_edgeOffsets'[v + 1] = m_edgeOffsets[v + 1]
        BY <1>4, <2>2, <2>3, <3>2
      <4>2. OutEdges(v) \cap Written' = OutEdges(v) \cap Written
        BY <2>4
      <4>3. /\ nodes[v + 1].edgeCount = outdegree(v)
            /\ nodes[v + 1].edgesBegin <= Cardinality(Lower(v))
            /\ NoWrap => nodes[v + 1].edgesBegin = Cardinality(Lower(v))
            /\ m_edgeOffsets[v + 1] = nodes[v + 1].edgesBegin + Cardinality(OutEdges(v) \cap Written)
        BY <2>1, <3>2 DEF BeginInv
      <4> QED BY <4>1, <4>2, <4>3
    <3> QED BY <1>1, <3>1, <3>2
  <2>9. Lower(NodesOut)' = Lower(given + 1) /\ 0..(NodesOut' - 1) = 0..given
    BY <1>1, <1>2, <2>1
  <2> QED BY <1>1, <1>2, <2>7, <2>8, <2>9 DEF BeginInv
<1>8. ASSUME NEW n \in Edges, EdgeStep(n) PROVE BeginInv'
  <2> DEFINE s == EdgeAt(n).source
  <2>1. PutSlot(EdgeAt(n)) /\ NodesOut = nodeCount /\ NodesOut' = nodeCount
        /\ s \in 0..(nodeCount - 1) /\ call \notin {"header", "aborted"}
    BY <1>8, SlotInRange, NodesOutStep, EndsAreNodes DEF OffsetArrays, EdgeStep
  <2>2. /\ m_edgeOffsets' = [m_edgeOffsets EXCEPT ![s + 1] = m_edgeOffsets[s + 1] + 1]
        /\ nodes' = nodes /\ m_edgeBegin' = m_edgeBegin
    BY <2>1 DEF PutSlot
  <2>3. Len(m_edgeOffsets) = nodeCount
    BY <2>1 DEF SizesInv
  <2>4. Lower(NodesOut)' = Lower(NodesOut)
    BY <1>2, <2>1
  <2>5. ASSUME NEW v \in 0..(nodeCount - 1)
        PROVE  m_edgeOffsets'[v + 1] = nodes[v + 1].edgesBegin + Cardinality(OutEdges(v) \cap Written')
    <3>1. m_edgeOffsets[v + 1] = nodes[v + 1].edgesBegin + Cardinality(OutEdges(v) \cap Written)
      BY <2>1 DEF BeginInv
    <3>2. m_edgeOffsets'[v + 1] = IF v = s THEN m_edgeOffsets[v + 1] + 1 ELSE m_edgeOffsets[v + 1]
      BY <1>1, <1>4, <2>1, <2>2, <2>3
    <3>3. nodes[v + 1].edgesBegin \in Nat
      <4>1. v + 1 \in 1..Len(nodes)
        BY <1>1, <2>1 DEF SizesInv
      <4>2. nodes[v + 1] \in NodeRecords
        BY <1>4, <4>1
      <4> QED BY <4>2, GraphWritersAssumption DEF NodeRecords
    <3> v \in Nat
      BY <1>1
    <3>4. CASE v = s
      <4>1. /\ Cardinality(OutEdges(v) \cap Written) \in Nat
            /\ Cardinality(OutEdges(v) \cap Written') = Cardinality(OutEdges(v) \cap Written) + 1
        BY <1>8, <3>4, OneMoreWritten
      <4> QED BY <3>1, <3>2, <3>3, <3>4, <4>1
    <3>5. CASE v # s
      <4>1. OutEdges(v) \cap Written' = OutEdges(v) \cap Written
        BY <1>8, <3>5, OneMoreWritten
      <4> QED BY <3>1, <3>2, <3>5, <4>1
    <3> QED BY <3>4, <3>5
  <2> QED BY <1>1, <1>2, <2>1, <2>2, <2>4, <2>5 DEF BeginInv
<1> QED BY <1>3, <1>5, <1>6, <1>7, <1>8

\* The vectors have their sizes, and slots begin where they should.
OffsetsInv == HeardInv /\ ArrayInv /\ SizesInv /\ BeginInv

LEMMA OffsetsInit == Init => OffsetsInv
<1> SUFFICES ASSUME Init PROVE OffsetsInv
  OBVIOUS
<1>1. /\ HeardInv /\ call = "header" /\ nodes = << >> /\ m_edgeOffsets = << >> /\ m_edgeBegin = 0
      /\ edges = [slot \in {} |-> Unset] /\ graph \in Graphs /\ MaxCount \in Nat
  BY HeardInit, GraphWritersAssumption DEF Init
<1>2. NodesOut = 0
  BY <1>1 DEF NodesOut
<1>3. ArrayInv
  <2>1. edges \in [DOMAIN edges -> {Unset} \cup Contents] /\ m_edgeBegin \in 0..MaxCount
    BY <1>1
  <2> QED BY <1>1, <2>1 DEF ArrayInv
<1>4. SizesInv
  BY <1>1, <1>2 DEF SizesInv
<1>5. BeginInv
  <2>1. Cardinality(Lower(0)) = 0
    BY <1>1, LowerAre
  <2> QED BY <1>1, <1>2, <2>1 DEF BeginInv
<1> QED BY <1>1, <1>3, <1>4, <1>5 DEF OffsetsInv

THEOREM OffsetsInvariant == Spec => []OffsetsInv
<1>1. OffsetsInv /\ [Next]_vars => OffsetsInv'
  BY HeardStep, ArrayStep, SizesStep, BeginStep DEF OffsetsInv
<1> QED BY <1>1, OffsetsInit, PTL DEF Spec

\* The state has the types the code declares, whatever the degrees.
THEOREM WritersTypeCorrect == Spec => []TypeOK
<1>1. OffsetsInv /\ StreamInv => TypeOK
  <2> SUFFICES ASSUME OffsetsInv, StreamInv PROVE TypeOK
    OBVIOUS
  <2>1. /\ nodeCount \in Nat /\ edgeCount \in Nat /\ graph \in Graphs /\ MaxCount \in Nat
        /\ graph.nodeCount = nodeCount /\ Len(graph.edges) = edgeCount /\ DOMAIN graph.edges = Edges
    BY GraphType, GraphWritersAssumption
    DEF OffsetsInv, HeardInv, InputInv, nodeCount, edgeCount, Edges
  <2>2. /\ call \in {"header", "nodes", "edges", "sorted", "end"} \cup Ends
        /\ m_edges \in Seq(Edges) /\ given \in Nat
        /\ call \in {"header", "aborted"} => given = 0
        /\ call = "nodes" => given <= nodeCount
        /\ call \notin {"header", "aborted", "nodes"} => given <= edgeCount
    BY DEF OffsetsInv, HeardInv, CallInv
  <2>3. given \in 0..(graph.nodeCount + Len(graph.edges))
    <3>1. given <= nodeCount \/ given <= edgeCount
      BY <2>1, <2>2
    <3> QED BY <2>1, <2>2, <3>1
  <2>4. /\ nodes \in Seq([edgesBegin : 0..MaxCount, edgeCount : 0..(DegreeSpace - 1)])
        /\ edges \in [DOMAIN edges -> {Unset} \cup [dest : Vertices, type : 0..(TypeSpace - 1)]]
        /\ m_edgeBegin \in 0..MaxCount /\ m_edgeOffsets \in Seq(Nat)
        /\ writer # "Static" => m_edgeOffsets = << >>
    BY DEF OffsetsInv, ArrayInv, NodeRecords, Contents
  <2>5. m_edgeOffsets \in Seq(0..(MaxCount + 1))
    <3>1. CASE writer # "Static"
      BY <2>4, <3>1
    <3>2. CASE writer = "Static"
      <4>1. ASSUME NEW i \in 1..Len(m_edgeOffsets) PROVE m_edgeOffsets[i] \in 0..(MaxCount + 1)
        <5>1. PICK v \in Nat : i = v + 1
          <6>1. i - 1 \in Nat /\ i = (i - 1) + 1
            BY <2>4
          <6> QED BY <6>1
        <5>2. /\ Len(m_edgeOffsets) = NodesOut /\ Len(nodes) = NodesOut /\ NodesOut \in Nat
          BY <2>4, <3>2 DEF OffsetsInv, SizesInv
        <5>3. v \in 0..(NodesOut - 1) /\ call \notin {"header", "aborted"}
          <6>1. v \in 0..(NodesOut - 1) /\ NodesOut # 0
            BY <5>1, <5>2
          <6> QED BY <6>1 DEF NodesOut
        <5>4. /\ nodes[v + 1].edgesBegin <= Cardinality(Lower(v))
              /\ m_edgeOffsets[v + 1] = nodes[v + 1].edgesBegin + Cardinality(OutEdges(v) \cap Written)
          BY <3>2, <5>3 DEF OffsetsInv, BeginInv
        <5>5. edgeCount <= MaxCount
          BY <3>2, <5>3 DEF OffsetsInv, SizesInv
        <5>6. nodes[v + 1].edgesBegin \in Nat
          <6>1. nodes[v + 1] \in NodeRecords
            BY <5>1, <5>2 DEF OffsetsInv, ArrayInv
          <6> QED BY <2>1, <6>1 DEF NodeRecords
        <5>7. /\ Cardinality(OutEdges(v) \cap Written) <= Cardinality(OutEdges(v))
              /\ Cardinality(OutEdges(v) \cap Written) \in Nat /\ Cardinality(OutEdges(v)) \in Nat
          <6>1. OutEdges(v) \subseteq Edges /\ OutEdges(v) \cap Written \subseteq Edges
            BY DEF OutEdges, Edges
          <6>2. IsFiniteSet(OutEdges(v)) /\ Cardinality(OutEdges(v)) \in Nat
            BY <2>1, <6>1, EdgesFinite
          <6>3. Cardinality(OutEdges(v) \cap Written) \in Nat
            BY <2>1, <6>1, EdgesFinite
          <6> QED BY <6>2, <6>3, FS_Subset
        <5>8. /\ Cardinality(Lower(v + 1)) = Cardinality(Lower(v)) + Cardinality(OutEdges(v))
              /\ Cardinality(Lower(v)) \in Nat /\ Cardinality(Lower(v + 1)) <= edgeCount
          <6>1. v + 1 \in Nat
            OBVIOUS
          <6>2. Cardinality(Lower(v + 1)) \in 0..edgeCount
            BY <2>1, <6>1, LowerAre
          <6>3. /\ Cardinality(Lower(v)) \in 0..edgeCount
                /\ Cardinality(Lower(v + 1)) = Cardinality(Lower(v)) + Cardinality(OutEdges(v))
            BY <2>1, LowerAre
          <6> QED BY <2>1, <6>2, <6>3
        <5> QED BY <2>1, <5>1, <5>4, <5>5, <5>6, <5>7, <5>8
      <4> QED BY <2>4, <4>1, ElementsWithin
    <3> QED BY <3>1, <3>2
  <2>6. out \in Seq(Fields)
    BY DEF StreamInv
  <2> QED BY <2>1, <2>2, <2>3, <2>4, <2>5, <2>6 DEF TypeOK
<1> QED BY <1>1, OffsetsInvariant, StreamInvariant, PTL

\* No vector is accessed outside of its range by an offset array that keeps the
\* next free slots, even if a degree has wrapped around; PlotGraph needs edges
\* that point to nodes.  RamGraphWriter may leave its vector.
THEOREM StaysInside ==
  ASSUME "Ram" \notin Writers
  PROVE  Spec => []NoAccessOutside
<1>1. Init => NoAccessOutside
  BY DEF Init, NoAccessOutside
<1>2. OffsetsInv /\ NoAccessOutside /\ [Next]_vars => NoAccessOutside'
  <2> SUFFICES ASSUME OffsetsInv, NoAccessOutside, [Next]_vars, call' = "undefined"
               PROVE  ~PointsToNodes(graph)
    BY InputKept DEF OffsetsInv, NoAccessOutside, PointsToNodes
  <2>1. HeaderStep \/ NodeStep \/ QuietStep \/ (\E n \in Edges : EdgeStep(n)) \/ EndStep
    BY StepKinds DEF OffsetsInv
  <2>2. CASE HeaderStep \/ NodeStep \/ QuietStep \/ EndStep
    BY <2>2 DEF HeaderStep, NodeStep, QuietStep, EndStep, NoAccessOutside
  <2>3. ASSUME NEW n \in Edges, EdgeStep(n) PROVE ~PointsToNodes(graph)
    <3>1. (NoSlot(EdgeAt(n)) \/ NoCoordinates(EdgeAt(n))) /\ call # "undefined"
      BY <2>3 DEF EdgeStep, BaseEdge
    <3>2. writer # "Static"
      BY <2>3, <3>1, SlotInRange DEF OffsetsInv
    <3>3. writer # "Ram"
      BY DEF OffsetsInv, HeardInv, InputInv
    <3>4. ~({EdgeAt(n).source, EdgeAt(n).target} \subseteq Vertices)
      BY <3>1, <3>2, <3>3 DEF NoSlot, NoCoordinates, OffsetArrays
    <3> QED BY <3>4 DEF PointsToNodes, EdgeAt, Vertices, Edges
  <2> QED BY <2>1, <2>2, <2>3
<1> QED BY <1>1, <1>2, OffsetsInvariant, PTL DEF Spec

(***************************************************************************)
(* What is in the slots.                                                   *)
(***************************************************************************)

\* Where the slots of a node are, if no degree has wrapped around.
SlotsAt(v) ==
  /\ v \in Nat /\ Cardinality(Lower(v)) \in Nat /\ Cardinality(Lower(v + 1)) \in Nat
  /\ Cardinality(Lower(v + 1)) = Cardinality(Lower(v)) + Cardinality(OutEdges(v))
  /\ Slots(v) = Cardinality(Lower(v))..(Cardinality(Lower(v + 1)) - 1)
  /\ Slots(v) \subseteq DOMAIN edges /\ IsFiniteSet(Slots(v))
  /\ m_edgeOffsets[v + 1] = Cardinality(Lower(v)) + Cardinality(OutEdges(v) \cap Written)
  /\ Cardinality(OutEdges(v) \cap Written) \in Nat /\ m_edgeOffsets[v + 1] \in Nat
  /\ Cardinality(Lower(v + 1)) <= m_edgeBegin

SlotsPlaced == writer = "Static" /\ NoWrap => \A v \in 0..(NodesOut - 1) : SlotsAt(v)

LEMMA SlotsArePlaced == OffsetsInv => SlotsPlaced
<1> SUFFICES ASSUME OffsetsInv, writer = "Static", NoWrap, NEW v \in 0..(NodesOut - 1) PROVE SlotsAt(v)
  BY DEF SlotsPlaced
<1>1. /\ nodeCount \in Nat /\ edgeCount \in Nat /\ graph \in Graphs /\ Vertices = 0..(nodeCount - 1)
  BY GraphType DEF OffsetsInv, HeardInv, InputInv
<1>2. NodesOut \in Nat /\ NodesOut <= nodeCount
  BY <1>1 DEF OffsetsInv, HeardInv, CallInv, NodesOut
<1>3. v \in Nat /\ v + 1 \in Nat /\ v \in Vertices /\ v + 1 <= NodesOut
  BY <1>1, <1>2
<1>4. Cardinality(Lower(v)) \in 0..edgeCount /\ Cardinality(Lower(v + 1)) \in 0..edgeCount
  BY <1>1, <1>3, LowerAre
<1>5. /\ Cardinality(Lower(v + 1)) = Cardinality(Lower(v)) + Cardinality(OutEdges(v))
      /\ Cardinality(OutEdges(v)) \in Nat /\ outdegree(v) = Cardinality(OutEdges(v))
  BY <1>1, <1>3, LowerAre, DegreesAre
<1>6. /\ nodes[v + 1].edgeCount = Cardinality(OutEdges(v))
      /\ nodes[v + 1].edgesBegin = Cardinality(Lower(v))
      /\ m_edgeOffsets[v + 1] = Cardinality(Lower(v)) + Cardinality(OutEdges(v) \cap Written)
  BY <1>5 DEF OffsetsInv, BeginInv
<1>7. Slots(v) = Cardinality(Lower(v))..(Cardinality(Lower(v + 1)) - 1)
  <2>1. Slots(v) = nodes[v + 1].edgesBegin..(nodes[v + 1].edgesBegin + nodes[v + 1].edgeCount - 1)
    BY DEF Slots
  <2>2. Slots(v) = Cardinality(Lower(v))..(Cardinality(Lower(v)) + Cardinality(OutEdges(v)) - 1)
    BY <1>6, <2>1
  <2>3. Cardinality(Lower(v)) + Cardinality(OutEdges(v)) - 1 = Cardinality(Lower(v + 1)) - 1
    BY <1>4, <1>5
  <2> QED BY <2>2, <2>3
<1>8. call \notin {"header", "aborted"}
  BY <1>2, <1>3 DEF NodesOut
<1>9. DOMAIN edges = 0..(edgeCount - 1)
  BY <1>8 DEF OffsetsInv, SizesInv
<1>10. Slots(v) \subseteq DOMAIN edges
  BY <1>1, <1>4, <1>7, <1>9
<1>11. IsFiniteSet(Slots(v))
  BY <1>4, <1>7, FS_Interval
<1>12. Cardinality(OutEdges(v) \cap Written) \in Nat
  <2>1. OutEdges(v) \cap Written \subseteq Edges
    BY DEF OutEdges, Edges
  <2> QED BY <1>1, <2>1, EdgesFinite
<1>13. Cardinality(Lower(v + 1)) <= m_edgeBegin
  <2>1. Cardinality(Lower(v + 1)) <= Cardinality(Lower(NodesOut))
    BY <1>1, <1>2, <1>3, LowerGrows
  <2>2. m_edgeBegin = Cardinality(Lower(NodesOut))
    BY DEF OffsetsInv, BeginInv
  <2> QED BY <2>1, <2>2
<1> QED BY <1>3, <1>4, <1>5, <1>6, <1>7, <1>10, <1>11, <1>12, <1>13 DEF SlotsAt

LEMMA OffsetsStep == OffsetsInv /\ [Next]_vars => OffsetsInv'
BY HeardStep, ArrayStep, SizesStep, BeginStep DEF OffsetsInv

\* Two nodes have no slot in common.
LEMMA SlotsDisjoint ==
  ASSUME OffsetsInv, writer = "Static", NoWrap, NEW v \in 0..(NodesOut - 1), NEW w \in 0..(NodesOut - 1),
         v # w
  PROVE  Slots(v) \cap Slots(w) = {}
<1>1. SlotsAt(v) /\ SlotsAt(w) /\ graph \in Graphs
  BY SlotsArePlaced DEF SlotsPlaced, OffsetsInv, HeardInv, InputInv
<1>2. v \in Nat /\ w \in Nat /\ v + 1 \in Nat /\ w + 1 \in Nat /\ (v + 1 <= w \/ w + 1 <= v)
  BY <1>1 DEF SlotsAt
<1>3. \/ Cardinality(Lower(v + 1)) <= Cardinality(Lower(w))
      \/ Cardinality(Lower(w + 1)) <= Cardinality(Lower(v))
  BY <1>1, <1>2, LowerGrows
<1> QED BY <1>1, <1>3 DEF SlotsAt

\* The edges of a node that a writer has got, by what fills their slots.
GotSet(v, x) == {n \in OutEdges(v) \cap Written : x = Filling(EdgeAt(n))}

LEMMA GotIs ==
  ASSUME graph \in Graphs, NEW v, NEW x
  PROVE  Got(v, x) = Cardinality(GotSet(v, x)) /\ IsFiniteSet(GotSet(v, x))
<1>1. GotSet(v, x) \subseteq Edges
  BY DEF GotSet, OutEdges, Edges
<1>2. IsFiniteSet(GotSet(v, x))
  BY <1>1, EdgesFinite
<1> QED BY <1>2 DEF Got, GotSet, Filling

\* FillInv, node by node.
Filled(v) ==
  /\ \A slot \in Slots(v) : edges[slot] = Unset <=> slot >= m_edgeOffsets[v + 1]
  /\ \A x \in Contents : Cardinality(AtSlots(v, x)) = Cardinality(GotSet(v, x))

LEMMA FillIs ==
  ASSUME graph \in Graphs
  PROVE  FillInv <=>
           (writer = "Static" /\ NoWrap =>
              /\ call = "nodes" => \A slot \in DOMAIN edges : edges[slot] = Unset
              /\ \A v \in 0..(NodesOut - 1) : Filled(v)
              /\ \A slot \in 0..(m_edgeBegin - 1) : \E v \in 0..(NodesOut - 1) : slot \in Slots(v))
BY GotIs DEF FillInv, Filled

\* No slot is filled before there are edges.
EmptyFilled ==
  (writer = "Static" /\ NoWrap /\ call = "nodes" /\ \A slot \in DOMAIN edges : edges[slot] = Unset)
    => \A v \in 0..(NodesOut - 1) : Filled(v)

LEMMA EmptyIsFilled == OffsetsInv => EmptyFilled
<1> SUFFICES ASSUME OffsetsInv, writer = "Static", NoWrap, call = "nodes",
                    \A slot \in DOMAIN edges : edges[slot] = Unset, NEW v \in 0..(NodesOut - 1)
             PROVE  Filled(v)
  BY DEF EmptyFilled
<1>1. SlotsAt(v)
  BY SlotsArePlaced DEF SlotsPlaced
<1>2. Passed = 0
  BY PassedOf DEF OffsetsInv, HeardInv, PassedIs
<1>3. Written = {}
  BY <1>2, WrittenAre DEF OffsetsInv
<1>4. Cardinality(OutEdges(v) \cap Written) = 0
  BY <1>3, FS_EmptySet
<1>5. ASSUME NEW slot \in Slots(v) PROVE edges[slot] = Unset /\ slot >= m_edgeOffsets[v + 1]
  BY <1>1, <1>4 DEF SlotsAt
<1>6. ASSUME NEW x \in Contents PROVE AtSlots(v, x) = {} /\ GotSet(v, x) = {}
  <2>1. x # Unset
    <3>1. nodeCount \in Nat /\ Vertices = 0..(nodeCount - 1)
      BY GraphType DEF OffsetsInv, HeardInv, InputInv
    <3> QED BY <3>1 DEF Contents, Unset
  <2> QED BY <1>3, <1>5, <2>1 DEF AtSlots, GotSet
<1> QED BY <1>5, <1>6 DEF Filled

LEMMA FillStep == OffsetsInv /\ FillInv /\ [Next]_vars => FillInv'
<1> SUFFICES ASSUME OffsetsInv, FillInv, [Next]_vars, writer = "Static", NoWrap PROVE FillInv'
  BY InputKept, GraphKept DEF OffsetsInv, FillInv
<1>1. /\ writer' = writer /\ NoWrap' /\ graph \in Graphs /\ graph' \in Graphs /\ HeardInv
      /\ \A v : OutEdges(v)' = OutEdges(v) /\ EdgeAt(v)' = EdgeAt(v)
      /\ \A v : Lower(v)' = Lower(v)
      /\ Vertices' = Vertices /\ Contents' = Contents /\ given \in Nat
  BY InputKept, GraphKept DEF OffsetsInv, HeardInv, InputInv, EdgeAt, Contents
<1>2. OffsetsInv' /\ SlotsPlaced /\ SlotsPlaced'
  <2>1. OffsetsInv'
    BY OffsetsStep
  <2>2. SlotsPlaced'
    BY <2>1, SlotsArePlaced, PTL
  <2> QED BY <2>1, <2>2, SlotsArePlaced
\* FillInv node by node, before the step and behind it.
<1>3. /\ call = "nodes" => \A slot \in DOMAIN edges : edges[slot] = Unset
      /\ \A v \in 0..(NodesOut - 1) : Filled(v)
      /\ \A slot \in 0..(m_edgeBegin - 1) : \E v \in 0..(NodesOut - 1) : slot \in Slots(v)
  BY <1>1, FillIs
<1>4. ASSUME /\ call' = "nodes" => \A slot \in DOMAIN edges' : edges'[slot] = Unset
             /\ \A v \in 0..(NodesOut' - 1) : Filled(v)'
             /\ \A slot \in 0..(m_edgeBegin' - 1) : \E v \in 0..(NodesOut' - 1) : slot \in Slots(v)'
      PROVE  FillInv'
  <2> DEFINE F == (writer = "Static" /\ NoWrap =>
              /\ call = "nodes" => \A slot \in DOMAIN edges : edges[slot] = Unset
              /\ \A v \in 0..(NodesOut - 1) : Filled(v)
              /\ \A slot \in 0..(m_edgeBegin - 1) : \E v \in 0..(NodesOut - 1) : slot \in Slots(v))
  <2>1. F'
    BY <1>4
  <2> QED BY <1>1, <2>1 DEF FillInv, Filled, Got, GotSet, Filling, EdgeAt
<1>5. HeaderStep \/ NodeStep \/ QuietStep \/ (\E n \in Edges : EdgeStep(n)) \/ EndStep
  BY <1>1, StepKinds
<1>6. CASE QuietStep \/ EndStep
  <2>1. /\ NodesOut' = NodesOut /\ nodes' = nodes /\ edges' = edges /\ m_edgeBegin' = m_edgeBegin
        /\ m_edgeOffsets' = m_edgeOffsets /\ Passed' = Passed
    BY <1>1, <1>6, NodesOutStep DEF QuietStep, EndStep, EndGraph, base, arrays
  <2>2. Written' = Written
    BY <1>1, <2>1, WrittenStep
  <2>3. call' = "nodes" => call = "nodes"
    BY <1>6 DEF QuietStep, EndStep
  <2>4. \A v : Slots(v)' = Slots(v)
    BY <2>1 DEF Slots
  <2>5. \A v : Filled(v) => Filled(v)'
    BY <1>1, <2>1, <2>2, <2>4 DEF Filled, AtSlots, GotSet, Filling
  <2> QED BY <1>3, <1>4, <2>1, <2>3, <2>4, <2>5
<1>7. CASE HeaderStep
  <2>1. NodesOut = 0 /\ NodesOut' = 0 /\ m_edgeBegin' = m_edgeBegin
    BY <1>1, <1>7, NodesOutStep DEF HeaderStep, NodesOut, base, arrays, BaseHeader
  <2>2. call' = "nodes" => \A slot \in DOMAIN edges' : edges'[slot] = Unset
    BY <1>7 DEF HeaderStep, BaseHeader, OffsetArrays
  <2>3. m_edgeBegin' = 0
    <3>1. m_edgeBegin = Cardinality(Lower(0))
      BY <2>1 DEF OffsetsInv, BeginInv
    <3> QED BY <1>1, <2>1, <3>1, LowerAre
  <2> QED BY <1>4, <2>1, <2>2, <2>3
<1>8. CASE NodeStep
  <2>1. /\ NodesOut = given /\ NodesOut' = given + 1 /\ call = "nodes" /\ call' = "nodes"
    BY <1>1, <1>8, NodesOutStep DEF NodeStep
  <2>2. edges' = edges /\ nodes' = Append(nodes, [edgesBegin |-> m_edgeBegin, edgeCount |-> outdegree(given)])
        /\ m_edgeBegin' = NextBegin(given)
    BY <1>8 DEF NodeStep, BaseNode, OffsetArrays
  <2>3. \A slot \in DOMAIN edges' : edges'[slot] = Unset
    BY <1>3, <2>1, <2>2
  <2>4. \A v \in 0..(NodesOut' - 1) : Filled(v)'
    <3>1. EmptyFilled'
      BY <1>2, EmptyIsFilled, PTL
    <3> QED BY <1>1, <2>1, <2>3, <3>1 DEF EmptyFilled
  <2>5. ASSUME NEW slot \in 0..(m_edgeBegin' - 1)
        PROVE  \E v \in 0..(NodesOut' - 1) : slot \in Slots(v)'
    <3>1. m_edgeBegin \in Nat /\ m_edgeBegin' \in Nat
      BY <1>2, GraphWritersAssumption DEF OffsetsInv, ArrayInv
    <3>2. CASE slot < m_edgeBegin
      <4>1. PICK v \in 0..(given - 1) : slot \in Slots(v)
        BY <1>3, <2>1, <3>1, <3>2
      <4>2. nodes'[v + 1] = nodes[v + 1]
        <5>1. Len(nodes) = given /\ nodes \in Seq(NodeRecords)
          BY <2>1 DEF OffsetsInv, SizesInv, ArrayInv
        <5> QED BY <1>1, <2>2, <5>1
      <4>3. Slots(v)' = Slots(v)
        BY <4>2 DEF Slots
      <4> QED BY <1>1, <2>1, <4>1, <4>3
    <3>3. CASE slot >= m_edgeBegin
      <4>1. m_edgeBegin = Cardinality(Lower(given))
        BY <2>1 DEF OffsetsInv, BeginInv
      <4>2. m_edgeBegin' = Cardinality(Lower(given + 1))
        <5>1. m_edgeBegin' = Cardinality(Lower(NodesOut))'
          BY <1>1, <1>2 DEF OffsetsInv, BeginInv
        <5>2. Lower(NodesOut)' = Lower(given + 1)
          BY <1>1, <2>1, GraphKept
        <5> QED BY <5>1, <5>2
      <4>3. PICK v \in 0..(NodesOut' - 1) : v = given
        BY <1>1, <2>1
      <4>4. SlotsAt(v)'
        BY <1>1, <1>2, <4>3 DEF SlotsPlaced
      <4>5. Slots(v)' = Cardinality(Lower(v))..(Cardinality(Lower(v + 1)) - 1)
        BY <1>1, <4>4 DEF SlotsAt
      <4>6. slot \in Cardinality(Lower(v))..(Cardinality(Lower(v + 1)) - 1)
        BY <3>1, <3>3, <4>1, <4>2, <4>3
      <4> QED BY <4>3, <4>5, <4>6
    <3> QED BY <3>1, <3>2, <3>3
  <2> QED BY <1>4, <2>3, <2>4, <2>5
<1>9. ASSUME NEW n \in Edges, EdgeStep(n) PROVE FillInv'
  <2>0. PICK s, f, c : s = EdgeAt(n).source /\ f = m_edgeOffsets[s + 1] /\ c = Filling(EdgeAt(n))
    OBVIOUS
  <2>1. /\ PutSlot(EdgeAt(n)) /\ call' = call /\ call # "nodes"
        /\ NodesOut = nodeCount /\ NodesOut' = nodeCount /\ nodeCount \in Nat
        /\ s \in 0..(NodesOut - 1) /\ FreeSlot(s) = f /\ f \in DOMAIN edges
    BY <1>1, <1>9, <2>0, SlotInRange, NodesOutStep, EndsAreNodes, InputKept
    DEF OffsetsInv, OffsetArrays, EdgeStep, FreeSlot
  <2>2. c \in Contents /\ c # Unset
    BY <1>1, <2>0, FillingIs DEF OffsetArrays
  <2>3. /\ edges' = [edges EXCEPT ![f] = c] /\ nodes' = nodes /\ m_edgeBegin' = m_edgeBegin
        /\ m_edgeOffsets' = [m_edgeOffsets EXCEPT ![s + 1] = m_edgeOffsets[s + 1] + 1]
    BY <2>0, <2>1 DEF PutSlot, Filling
  <2>4. /\ edges'[f] = c /\ \A slot : slot # f => edges'[slot] = edges[slot]
        /\ m_edgeOffsets'[s + 1] = f + 1 /\ \A v \in 0..(NodesOut - 1) : v # s => m_edgeOffsets'[v + 1] = m_edgeOffsets[v + 1]
    <3>1. m_edgeOffsets \in Seq(Nat) /\ Len(m_edgeOffsets) = NodesOut
      BY DEF OffsetsInv, ArrayInv, SizesInv
    <3>2. s + 1 \in DOMAIN m_edgeOffsets
      BY <2>1, <3>1
    <3>3. \A v \in 0..(NodesOut - 1) : v # s => v + 1 # s + 1
      BY <2>1
    <3>4. edges \in [DOMAIN edges -> {Unset} \cup Contents]
      BY DEF OffsetsInv, ArrayInv
    <3>5. edges'[f] = c /\ \A slot : slot # f => edges'[slot] = edges[slot]
      BY <2>1, <2>3, <3>4
    <3>6. m_edgeOffsets'[s + 1] = m_edgeOffsets[s + 1] + 1
      BY <2>3, <3>2
    <3>7. \A v \in 0..(NodesOut - 1) : v # s => m_edgeOffsets'[v + 1] = m_edgeOffsets[v + 1]
      BY <2>3, <3>3
    <3> QED BY <2>0, <3>5, <3>6, <3>7
  <2>5. \A v : Slots(v)' = Slots(v)
    BY <2>3 DEF Slots
  <2>6. SlotsAt(s) /\ Filled(s) /\ s \in Nat
    BY <1>2, <1>3, <2>1 DEF SlotsPlaced, SlotsAt
  <2>7. /\ GotSet(s, c)' = GotSet(s, c) \cup {n} /\ n \notin GotSet(s, c)
        /\ \A v, x : (v # s \/ x # c) => GotSet(v, x)' = GotSet(v, x)
    <3>1. Written' = Written \cup {n} /\ n \notin Written
      BY <1>1, <1>9, WrittenStep
    <3>2. \A v : n \in OutEdges(v) <=> v = s
      BY <2>0 DEF OutEdges, Edges
    <3>3. \A v, x : GotSet(v, x)' = {m \in OutEdges(v) \cap Written' : x = Filling(EdgeAt(m))}
      BY <1>1 DEF GotSet, Filling
    <3>4. \A v, x, m : m \in GotSet(v, x)' <=> m \in OutEdges(v) /\ (m \in Written \/ m = n) /\ x = Filling(EdgeAt(m))
      BY <3>1, <3>3
    <3>5. \A v, x, m : m \in GotSet(v, x) <=> m \in OutEdges(v) /\ m \in Written /\ x = Filling(EdgeAt(m))
      BY DEF GotSet
    <3>6. n \notin GotSet(s, c) /\ \A m : m \in GotSet(s, c)' <=> m \in GotSet(s, c) \/ m = n
      BY <2>0, <3>1, <3>2, <3>4, <3>5
    <3>7. \A v, x : (v # s \/ x # c) => \A m : m \in GotSet(v, x)' <=> m \in GotSet(v, x)
      BY <2>0, <3>2, <3>4, <3>5
    <3>8. GotSet(s, c)' = GotSet(s, c) \cup {n}
      BY <3>6
    <3>9. ASSUME NEW v, NEW x, v # s \/ x # c PROVE GotSet(v, x)' = GotSet(v, x)
      <4>1. \A m : m \in GotSet(v, x)' <=> m \in GotSet(v, x)
        BY <3>7, <3>9
      <4> QED BY <4>1 DEF GotSet
    <3> QED BY <3>6, <3>8, <3>9
  <2>8. f \in Slots(s) /\ edges[f] = Unset
    <3>1. Cardinality(OutEdges(s) \cap Written) < Cardinality(OutEdges(s))
      BY <1>1, <1>9, <2>0, <2>6, OneMoreWritten
    <3>2. f \in Slots(s)
      <4>1. /\ f = Cardinality(Lower(s)) + Cardinality(OutEdges(s) \cap Written)
            /\ Slots(s) = Cardinality(Lower(s))..(Cardinality(Lower(s + 1)) - 1)
            /\ Cardinality(Lower(s + 1)) = Cardinality(Lower(s)) + Cardinality(OutEdges(s))
            /\ Cardinality(Lower(s)) \in Nat /\ Cardinality(Lower(s + 1)) \in Nat
            /\ Cardinality(OutEdges(s) \cap Written) \in Nat
        BY <2>0, <2>6 DEF SlotsAt
      <4>2. f \in Nat /\ f >= Cardinality(Lower(s)) /\ f <= Cardinality(Lower(s + 1)) - 1
        <5>1. Cardinality(OutEdges(s)) \in Nat
          BY <1>1, <2>6, DegreesAre
        <5> QED BY <3>1, <4>1, <5>1
      <4> QED BY <4>1, <4>2
    <3>3. f >= m_edgeOffsets[s + 1]
      BY <2>0, <2>6 DEF SlotsAt
    <3> QED BY <2>6, <3>2, <3>3 DEF Filled
  <2>9. Filled(s)'
    <3>1. \A slot \in Slots(s) : edges'[slot] = Unset <=> slot >= m_edgeOffsets'[s + 1]
      <4> SUFFICES ASSUME NEW slot \in Slots(s)
                   PROVE  edges'[slot] = Unset <=> slot >= m_edgeOffsets'[s + 1]
        OBVIOUS
      <4>1. f \in Nat /\ slot \in Int /\ f = m_edgeOffsets[s + 1]
        BY <2>0, <2>6 DEF SlotsAt
      <4>2. edges[slot] = Unset <=> slot >= f
        BY <2>0, <2>6, <4>1 DEF Filled
      <4>3. CASE slot = f
        BY <2>2, <2>4, <4>1, <4>3
      <4>4. CASE slot # f
        BY <2>4, <4>1, <4>2, <4>4
      <4> QED BY <4>3, <4>4
    <3>2. ASSUME NEW x \in Contents
          PROVE  Cardinality(AtSlots(s, x)') = Cardinality(GotSet(s, x)')
      <4>1. AtSlots(s, x)' = {slot \in Slots(s) : edges'[slot] = x}
        BY <2>5 DEF AtSlots
      <4>2. /\ Cardinality(AtSlots(s, x)) = Cardinality(GotSet(s, x))
            /\ IsFiniteSet(AtSlots(s, x)) /\ IsFiniteSet(GotSet(s, x))
        <5>1. AtSlots(s, x) \subseteq Slots(s) /\ IsFiniteSet(Slots(s))
          BY <2>6 DEF AtSlots, SlotsAt
        <5>2. IsFiniteSet(AtSlots(s, x))
          BY <5>1, FS_Subset
        <5> QED BY <1>1, <2>6, <5>2, GotIs DEF Filled
      <4>3. x # Unset
        <5>1. nodeCount \in Nat /\ Vertices = 0..(nodeCount - 1)
          BY <1>1, GraphType
        <5> QED BY <5>1 DEF Contents, Unset
      <4>4. CASE x = c
        <5>1. AtSlots(s, x)' = AtSlots(s, x) \cup {f} /\ f \notin AtSlots(s, x)
          BY <2>4, <2>8, <4>1, <4>3, <4>4 DEF AtSlots
        <5>2. Cardinality(AtSlots(s, x) \cup {f}) = Cardinality(AtSlots(s, x)) + 1
          BY <4>2, <5>1, FS_AddElement
        <5>3. Cardinality(GotSet(s, x) \cup {n}) = Cardinality(GotSet(s, x)) + 1
          <6>1. n \notin GotSet(s, x)
            BY <2>7, <4>4
          <6> QED BY <4>2, <6>1, FS_AddElement
        <5>4. GotSet(s, x)' = GotSet(s, x) \cup {n}
          BY <2>7, <4>4
        <5> QED BY <4>2, <5>1, <5>2, <5>3, <5>4
      <4>5. CASE x # c
        <5>1. AtSlots(s, x)' = AtSlots(s, x)
          BY <2>4, <2>8, <4>1, <4>3, <4>5 DEF AtSlots
        <5> QED BY <2>7, <4>2, <4>5, <5>1
      <4> QED BY <4>4, <4>5
    <3> QED BY <1>1, <2>5, <3>1, <3>2 DEF Filled
  <2>10. ASSUME NEW v \in 0..(NodesOut - 1), v # s PROVE Filled(v)'
    <3>1. Filled(v) /\ f \notin Slots(v)
      BY <1>3, <2>1, <2>8, <2>10, SlotsDisjoint
    <3>2. \A slot \in Slots(v) : edges'[slot] = edges[slot]
      BY <2>4, <3>1
    <3>3. m_edgeOffsets'[v + 1] = m_edgeOffsets[v + 1]
      BY <2>4, <2>10
    <3>4. \A x : AtSlots(v, x)' = AtSlots(v, x)
      BY <2>5, <3>2 DEF AtSlots
    <3>5. \A x : GotSet(v, x)' = GotSet(v, x)
      BY <2>7, <2>10
    <3> QED BY <1>1, <2>5, <3>1, <3>2, <3>3, <3>4, <3>5 DEF Filled
  <2>11. \A v \in 0..(NodesOut' - 1) : Filled(v)'
    BY <2>1, <2>9, <2>10
  <2> QED BY <1>3, <1>4, <2>1, <2>3, <2>5, <2>11
<1> QED BY <1>5, <1>6, <1>7, <1>8, <1>9

\* TargetsInv, node by node.
TargetsOf(v) ==
  \A i \in Slots(v) : edges[i] # Unset =>
    /\ \A j \in Slots(v) : i < j /\ edges[j] # Unset => edges[i].dest <= edges[j].dest
    /\ call = "sorted" =>
         \A k \in 1..Len(m_edges) :
           EdgeAt(m_edges[k]).source = v => edges[i].dest <= EdgeAt(m_edges[k]).target

LEMMA TargetsStep ==
  OffsetsInv /\ FillInv /\ TargetsInv /\ [Next]_vars => TargetsInv'
<1> SUFFICES ASSUME OffsetsInv, FillInv, TargetsInv, [Next]_vars, writer = "Static", NoWrap, sorted
             PROVE  TargetsInv'
  BY InputKept, GraphKept DEF OffsetsInv, TargetsInv
<1>1. /\ writer' = writer /\ sorted' = sorted /\ NoWrap' /\ graph \in Graphs /\ HeardInv
      /\ \A m : EdgeAt(m)' = EdgeAt(m)
      /\ graph' = graph
  BY InputKept, GraphKept DEF OffsetsInv, HeardInv, InputInv, EdgeAt
<1>2. OffsetsInv' /\ SlotsPlaced /\ SlotsPlaced' /\ FillInv'
  <2>1. OffsetsInv'
    BY OffsetsStep
  <2>2. SlotsPlaced'
    BY <2>1, SlotsArePlaced, PTL
  <2> QED BY <2>1, <2>2, SlotsArePlaced, FillStep
<1>3. \A v \in 0..(NodesOut - 1) : TargetsOf(v)
  BY <1>1 DEF TargetsInv, TargetsOf
<1>4. ASSUME \A v \in 0..(NodesOut' - 1) : TargetsOf(v)' PROVE TargetsInv'
  BY <1>1, <1>4 DEF TargetsInv, TargetsOf
\* A node without filled slots has nothing to show.
<1>5. ASSUME NEW v \in 0..(NodesOut' - 1), \A i \in Slots(v)' : edges'[i] = Unset PROVE TargetsOf(v)'
  BY <1>5 DEF TargetsOf
<1>6. HeaderStep \/ NodeStep \/ QuietStep \/ (\E n \in Edges : EdgeStep(n)) \/ EndStep
  BY <1>1, StepKinds
<1>7. CASE HeaderStep
  <2>1. NodesOut' = 0
    BY <1>7 DEF HeaderStep, NodesOut
  <2> QED BY <1>4, <2>1
<1>8. CASE NodeStep
  <2>1. \A slot \in DOMAIN edges' : edges'[slot] = Unset
    BY <1>1, <1>2, <1>8 DEF NodeStep, FillInv
  <2>2. \A v \in 0..(NodesOut' - 1) : Slots(v)' \subseteq DOMAIN edges'
    BY <1>1, <1>2 DEF SlotsPlaced, SlotsAt
  <2> QED BY <1>4, <1>5, <2>1, <2>2
<1>9. CASE QuietStep \/ EndStep
  <2>1. NodesOut' = NodesOut /\ nodes' = nodes /\ edges' = edges /\ Passed' = Passed
    BY <1>1, <1>9, NodesOutStep DEF QuietStep, EndStep, EndGraph, base, arrays
  <2>2. \A v : Slots(v)' = Slots(v)
    BY <2>1 DEF Slots
  <2>3. CASE call = "edges" /\ call' = "sorted" /\ Passed = 0
    <3>1. Written = {}
      BY <1>1, <2>3, WrittenAre
    <3>2. ASSUME NEW v \in 0..(NodesOut' - 1), NEW i \in Slots(v)' PROVE edges'[i] = Unset
      <4>1. v \in 0..(NodesOut - 1) /\ i \in Slots(v) /\ SlotsAt(v)
        BY <1>1, <1>2, <2>1, <2>2, <3>2 DEF SlotsPlaced
      <4>2. Cardinality(OutEdges(v) \cap Written) = 0
        BY <3>1, FS_EmptySet
      <4>3. i >= m_edgeOffsets[v + 1]
        BY <4>1, <4>2 DEF SlotsAt
      <4>4. edges[i] = Unset
        BY <1>1, <4>1, <4>3 DEF FillInv
      <4> QED BY <2>1, <4>4
    <3> QED BY <1>4, <1>5, <3>2
  <2>4. CASE call' # "sorted" \/ UNCHANGED <<call, m_edges>>
    <3>1. \A v : TargetsOf(v) => TargetsOf(v)'
      BY <1>1, <2>1, <2>2, <2>4 DEF TargetsOf
    <3> QED BY <1>3, <1>4, <2>1, <3>1
  <2>5. \/ call = "edges" /\ call' = "sorted" /\ Passed = 0
        \/ call' # "sorted" \/ UNCHANGED <<call, m_edges>>
    BY <1>9 DEF QuietStep, EndStep
  <2> QED BY <2>3, <2>4, <2>5
<1>10. ASSUME NEW n \in Edges, EdgeStep(n) PROVE TargetsInv'
  <2>0. PICK s, f, c : s = EdgeAt(n).source /\ f = m_edgeOffsets[s + 1] /\ c = Filling(EdgeAt(n))
    OBVIOUS
  <2>1. /\ PutSlot(EdgeAt(n)) /\ call' = call /\ call = "sorted"
        /\ NodesOut = nodeCount /\ NodesOut' = nodeCount /\ nodeCount \in Nat
        /\ s \in 0..(NodesOut - 1) /\ FreeSlot(s) = f /\ f \in DOMAIN edges
        /\ m_edges # << >> /\ n = Head(m_edges) /\ m_edges' = Tail(m_edges)
    BY <1>1, <1>10, <2>0, SlotInRange, NodesOutStep, EndsAreNodes, InputKept
    DEF OffsetsInv, OffsetArrays, EdgeStep, FreeSlot
  <2>2. /\ edges' = [edges EXCEPT ![f] = c] /\ nodes' = nodes
        /\ edges \in [DOMAIN edges -> {Unset} \cup Contents]
    BY <2>0, <2>1 DEF PutSlot, Filling, OffsetsInv, ArrayInv
  <2>3. edges'[f] = c /\ \A slot : slot # f => edges'[slot] = edges[slot]
    BY <2>1, <2>2
  <2>4. \A v : Slots(v)' = Slots(v)
    BY <2>2 DEF Slots
  <2>5. /\ m_edges \in Seq(Edges) /\ Len(m_edges) > 0 /\ n = m_edges[1]
        /\ Len(m_edges') = Len(m_edges) - 1
        /\ \A k \in 1..Len(m_edges') : k + 1 \in 1..Len(m_edges) /\ m_edges'[k] = m_edges[k + 1]
    <3>1. m_edges \in Seq(Edges)
      BY <1>1 DEF HeardInv, CallInv
    <3> QED BY <2>1, <3>1
  <2>6. \A k \in 1..Len(m_edges) :
          k > 1 => ~Before(EdgeAt(m_edges[k]), EdgeAt(m_edges[1]))
    BY <1>1, <2>1, <2>5 DEF HeardInv, SortedInv
  <2>7. \A m \in Edges : EdgeAt(m).source \in Nat /\ EdgeAt(m).target \in Nat
    BY <1>1, GraphType
  <2>8. c.dest = EdgeAt(n).target
    BY <2>0 DEF Filling
  <2>9. SlotsAt(s)
    BY <1>1, <1>2, <2>1 DEF SlotsPlaced
  <2>10. \A slot \in Slots(s) : slot \in Int /\ f \in Nat /\ (edges[slot] = Unset <=> slot >= f)
    <3>1. f \in Nat
      BY <2>0, <2>9 DEF SlotsAt
    <3>2. \A slot \in Slots(s) : slot \in Int
      BY <2>9 DEF SlotsAt, Slots
    <3>3. \A slot \in Slots(s) : edges[slot] = Unset <=> slot >= m_edgeOffsets[s + 1]
      <4>1. s \in 0..(NodesOut - 1)
        BY <2>1
      <4> QED BY <1>1, <4>1, Zenon DEF FillInv
    <3> QED BY <2>0, <3>1, <3>2, <3>3
  <2>11. TargetsOf(s)'
    <3> SUFFICES ASSUME NEW i \in Slots(s), edges'[i] # Unset
                 PROVE  /\ \A j \in Slots(s) : i < j /\ edges'[j] # Unset => edges'[i].dest <= edges'[j].dest
                        /\ \A k \in 1..Len(m_edges') :
                             EdgeAt(m_edges[k + 1]).source = s => edges'[i].dest <= EdgeAt(m_edges[k + 1]).target
      BY <1>1, <2>4, <2>5 DEF TargetsOf
    <3>1. CASE i # f
      <4>1. edges'[i] = edges[i] /\ edges[i] # Unset /\ i < f
        BY <2>3, <2>10, <3>1
      <4>2. /\ \A j \in Slots(s) : i < j /\ edges[j] # Unset => edges[i].dest <= edges[j].dest
            /\ \A k \in 1..Len(m_edges) :
                 EdgeAt(m_edges[k]).source = s => edges[i].dest <= EdgeAt(m_edges[k]).target
        BY <1>3, <2>1, <4>1 DEF TargetsOf
      <4>3. edges[i].dest <= c.dest
        BY <2>0, <2>5, <2>8, <4>2
      <4>4. ASSUME NEW j \in Slots(s), i < j, edges'[j] # Unset PROVE edges[i].dest <= edges'[j].dest
        BY <2>3, <4>2, <4>3, <4>4
      <4> QED BY <2>5, <4>1, <4>2, <4>4
    <3>2. CASE i = f
      <4>1. ASSUME NEW j \in Slots(s), i < j PROVE edges'[j] = Unset
        BY <2>3, <2>10, <3>2, <4>1
      <4>2. ASSUME NEW k \in 1..Len(m_edges'), EdgeAt(m_edges[k + 1]).source = s
            PROVE  c.dest <= EdgeAt(m_edges[k + 1]).target
        <5>1. k + 1 \in 1..Len(m_edges) /\ k + 1 > 1 /\ m_edges[k + 1] \in Edges
          BY <2>5
        <5>2. ~Before(EdgeAt(m_edges[k + 1]), EdgeAt(n))
          BY <2>5, <2>6, <5>1
        <5>3. ~(EdgeAt(m_edges[k + 1]).target < EdgeAt(n).target)
          BY <2>0, <4>2, <5>2 DEF Before
        <5> QED BY <2>7, <2>8, <5>1, <5>3
      <4> QED BY <2>3, <3>2, <4>1, <4>2
    <3> QED BY <3>1, <3>2
  <2>12. ASSUME NEW v \in 0..(NodesOut - 1), v # s PROVE TargetsOf(v)'
    <3>1. f \in Slots(s)
      <4>1. Cardinality(OutEdges(s) \cap Written) < Cardinality(OutEdges(s)) /\ Cardinality(OutEdges(s)) \in Nat
        <5>1. s \in Nat
          BY <2>1
        <5> QED BY <1>1, <1>10, <2>0, <5>1, OneMoreWritten, DegreesAre
      <4> QED BY <2>0, <2>9, <4>1 DEF SlotsAt
    <3>2. f \notin Slots(v)
      BY <2>1, <2>12, <3>1, SlotsDisjoint
    <3>3. \A slot \in Slots(v) : edges'[slot] = edges[slot]
      BY <2>3, <3>2
    <3>4. TargetsOf(v)
      BY <1>3
    <3> QED BY <1>1, <2>1, <2>4, <2>5, <3>3, <3>4 DEF TargetsOf
  <2> QED BY <1>4, <2>1, <2>11, <2>12
<1> QED BY <1>6, <1>7, <1>8, <1>9, <1>10

\* All of it.
THEOREM SlotsInvariant == Spec => [](HeardInv /\ SlotsInv)
<1>1. Init => OffsetsInv /\ FillInv /\ TargetsInv
  <2> SUFFICES ASSUME Init PROVE FillInv /\ TargetsInv
    BY OffsetsInit
  <2>1. NodesOut = 0 /\ call = "header" /\ m_edgeBegin = 0
    BY DEF Init, NodesOut
  <2> QED BY <2>1 DEF FillInv, TargetsInv
<1>2. OffsetsInv /\ FillInv /\ TargetsInv /\ [Next]_vars => (OffsetsInv /\ FillInv /\ TargetsInv)'
  BY OffsetsStep, FillStep, TargetsStep
<1>3. Spec => [](OffsetsInv /\ FillInv /\ TargetsInv)
  BY <1>1, <1>2, PTL DEF Spec
<1>4. OffsetsInv /\ FillInv /\ TargetsInv => HeardInv /\ SlotsInv
  BY DEF OffsetsInv, SlotsInv
<1> QED BY <1>3, <1>4, PTL

\* The slots of a node hold its edges, each as often as it was written: no edge
\* lands among those of another node, and none overwrites another.
THEOREM EdgesStayApart ==
  ASSUME "Ram" \notin Writers
  PROVE  Spec => []EdgesLieAtTheirSource
<1>1. HeardInv /\ SlotsInv => EdgesLieAtTheirSource
  <2> SUFFICES ASSUME HeardInv, SlotsInv, writer \in OffsetArrays, NoWrap,
                      call \in {"edges", "sorted", "end", "done"}, NEW v \in Vertices,
                      NEW slot \in Slots(v) \cap DOMAIN edges, edges[slot] # Unset
               PROVE  Stored(v, edges[slot]) = Got(v, edges[slot])
    BY DEF EdgesLieAtTheirSource
  <2>1. writer = "Static"
    BY DEF HeardInv, InputInv, OffsetArrays
  <2>2. v \in 0..(NodesOut - 1)
    BY GraphType DEF HeardInv, InputInv, NodesOut
  <2>3. SlotsAt(v)
    BY <2>1, <2>2, SlotsArePlaced DEF SlotsPlaced, OffsetsInv, SlotsInv
  <2>4. edges[slot] \in Contents
    BY DEF SlotsInv, ArrayInv
  <2>5. Cardinality(AtSlots(v, edges[slot])) = Got(v, edges[slot])
    BY <2>1, <2>2, <2>4 DEF SlotsInv, FillInv
  <2>6. PICK x : x = edges[slot]
    OBVIOUS
  <2>7. Slots(v) \cap DOMAIN edges = Slots(v)
    BY <2>3 DEF SlotsAt
  <2>8. Stored(v, x) = Cardinality(AtSlots(v, x))
    BY <2>7 DEF Stored, AtSlots
  <2> QED BY <2>5, <2>6, <2>8
<1> QED BY <1>1, SlotsInvariant, PTL

\* In the end the slots of the nodes are all of the vector, each of them holds
\* an edge, and with -s those of a node are in the order of their targets.
THEOREM EverySlotTaken ==
  ASSUME "Ram" \notin Writers
  PROVE  Spec => []AllSlotsTaken
<1>1. HeardInv /\ SlotsInv => AllSlotsTaken
  <2> SUFFICES ASSUME HeardInv, SlotsInv, writer \in OffsetArrays, NoWrap, call = "done"
               PROVE  /\ \A slot \in DOMAIN edges : edges[slot] # Unset
                      /\ UNION {Slots(v) : v \in Vertices} = DOMAIN edges
                      /\ sorted => \A v \in Vertices : \A i, j \in Slots(v) :
                                     i < j => edges[i].dest <= edges[j].dest
    BY DEF AllSlotsTaken
  <2>1. writer = "Static" /\ graph \in Graphs /\ PointsToNodes(graph)
    BY DEF HeardInv, InputInv, OffsetArrays
  <2>2. /\ nodeCount \in Nat /\ edgeCount \in Nat /\ Vertices = 0..(nodeCount - 1)
        /\ NodesOut = nodeCount /\ graph.nodeCount = nodeCount /\ DOMAIN graph.edges = Edges
    BY <2>1, GraphType DEF NodesOut, nodeCount, Edges
  <2>3. \A v \in Vertices : SlotsAt(v)
    BY <2>1, <2>2, SlotsArePlaced DEF SlotsPlaced, OffsetsInv, SlotsInv
  <2>4. ASSUME NEW v \in Vertices, NEW slot \in Slots(v) PROVE edges[slot] # Unset
    <3>1. Written = Edges
      BY WrittenAre
    <3>2. OutEdges(v) \cap Written = OutEdges(v)
      BY <3>1 DEF OutEdges, Edges
    <3>3. SlotsAt(v)
      BY <2>3
    <3>4. /\ m_edgeOffsets[v + 1] = Cardinality(Lower(v)) + Cardinality(OutEdges(v))
          /\ Cardinality(Lower(v + 1)) = Cardinality(Lower(v)) + Cardinality(OutEdges(v))
      BY <3>2, <3>3 DEF SlotsAt
    <3>5. slot \in Cardinality(Lower(v))..(Cardinality(Lower(v + 1)) - 1) /\ Cardinality(Lower(v)) \in Nat
      BY <3>3 DEF SlotsAt
    <3>6. Cardinality(Lower(v + 1)) \in Nat
      BY <3>3 DEF SlotsAt
    <3>7. m_edgeOffsets[v + 1] = Cardinality(Lower(v + 1))
      BY <3>4
    <3>8. slot \in Int /\ slot < Cardinality(Lower(v + 1))
      BY <3>5, <3>6
    <3>9. ~(slot >= m_edgeOffsets[v + 1])
      BY <3>6, <3>7, <3>8
    <3> QED BY <2>1, <2>2, <3>9 DEF SlotsInv, FillInv
  <2>5. m_edgeBegin = edgeCount
    <3>1. \A n \in Edges : EdgeAt(n).source < nodeCount
      BY <2>1, <2>2 DEF PointsToNodes, EdgeAt
    <3>2. Lower(nodeCount) = Edges
      BY <3>1 DEF Lower
    <3>3. Cardinality(Edges) = edgeCount
      BY <2>1, EdgesFinite
    <3> QED BY <2>1, <2>2, <3>2, <3>3 DEF SlotsInv, BeginInv
  <2>6. DOMAIN edges = 0..(m_edgeBegin - 1)
    BY <2>1, <2>5 DEF SlotsInv, SizesInv
  <2>7. \A slot \in DOMAIN edges : \E v \in Vertices : slot \in Slots(v)
    BY <2>1, <2>2, <2>6 DEF SlotsInv, FillInv
  <2>8. UNION {Slots(v) : v \in Vertices} = DOMAIN edges
    BY <2>3, <2>7 DEF SlotsAt
  <2>9. ASSUME sorted, NEW v \in Vertices, NEW i \in Slots(v), NEW j \in Slots(v), i < j
        PROVE  edges[i].dest <= edges[j].dest
    <3>1. edges[i] # Unset /\ edges[j] # Unset
      BY <2>4
    <3> QED BY <2>1, <2>2, <2>9, <3>1 DEF SlotsInv, TargetsInv
  <2> QED BY <2>4, <2>7, <2>8, <2>9
<1> QED BY <1>1, SlotsInvariant, PTL

=============================================================================
