-------------------------- MODULE FmiFilesProofs --------------------------
(***************************************************************************)
(* Proofs about FmiFiles: where the records lie in a file, and what the    *)
(* readers make of a file that may have been cut anywhere.                 *)
(***************************************************************************)
EXTENDS FmiFilesInvariants, FiniteSetTheorems, SequenceTheorems, TLAPS

(***************************************************************************)
(* The graph and its records.                                              *)
(***************************************************************************)

\* What is known of the graph.
LEMMA GraphIs ==
  ASSUME graph \in Graphs
  PROVE  /\ Format \in {"text", "binary"} /\ GraphType \in {"standard", "maxspeed"}
         /\ NodeCount \in Nat /\ EdgeCount \in Nat /\ RecordCount \in Nat
         /\ RecordCount = NodeCount + EdgeCount
         /\ \A n \in 1..NodeCount : graph.nodeTags[n] \in {0, 1}
         /\ \A n \in 1..EdgeCount : graph.edgeTags[n] \in {0, 1}
         /\ NodeWidth = 5 /\ EdgeWidth \in {4, 5}
<1>1. graph \in [format : {"text", "binary"}, type : {"standard", "maxspeed"},
                 nodeTags : Seq({0, 1}), edgeTags : Seq({0, 1})]
  BY FileAssumption
<1>2. graph.nodeTags \in Seq({0, 1}) /\ graph.edgeTags \in Seq({0, 1})
  BY <1>1
<1>3. NodeCount \in Nat /\ EdgeCount \in Nat
  BY <1>2 DEF NodeCount, EdgeCount
<1>4. \A n \in 1..NodeCount : graph.nodeTags[n] \in {0, 1}
  BY <1>2 DEF NodeCount
<1>5. \A n \in 1..EdgeCount : graph.edgeTags[n] \in {0, 1}
  BY <1>2 DEF EdgeCount
<1>6. Format \in {"text", "binary"} /\ GraphType \in {"standard", "maxspeed"}
  BY <1>1 DEF Format, GraphType
<1> QED BY <1>3, <1>4, <1>5, <1>6 DEF RecordCount, NodeWidth, EdgeWidth

\* What is known of a record.
LEMMA RecordIs ==
  ASSUME graph \in Graphs, NEW r \in 1..RecordCount
  PROVE  /\ KindOf(r) \in Kinds /\ NumberOf(r) \in 1..RecordCount
         /\ TagSize(r) \in {0, 1}
         /\ Width(KindOf(r)) \in {4, 5}
         /\ Width(KindOf(r)) = IF r <= NodeCount THEN 5 ELSE EdgeWidth
         /\ RecordLength(r) = Width(KindOf(r)) + (IF Format = "binary" THEN 1 ELSE 0) + TagSize(r)
         /\ RecordLength(r) \in Nat
<1>1. r \in Nat /\ r >= 1 /\ (r <= NodeCount => r \in 1..NodeCount)
      /\ (~(r <= NodeCount) => r - NodeCount \in 1..EdgeCount)
  BY GraphIs
<1>2. TagSize(r) \in {0, 1}
  BY <1>1, GraphIs DEF TagSize
<1>3. KindOf(r) \in Kinds /\ NumberOf(r) \in 1..RecordCount
  BY <1>1, GraphIs DEF KindOf, NumberOf, Kinds
<1>4. Width(KindOf(r)) = IF r <= NodeCount THEN 5 ELSE EdgeWidth
  BY GraphIs DEF Width, KindOf
<1>5. Width(KindOf(r)) \in {4, 5}
  BY <1>4, GraphIs
<1>6. RecordLength(r) = Width(KindOf(r)) + (IF Format = "binary" THEN 1 ELSE 0) + TagSize(r)
  BY <1>2, <1>5 DEF RecordLength, Behind
<1>7. RecordLength(r) \in Nat
  BY <1>2, <1>5, <1>6
<1> QED BY <1>2, <1>3, <1>4, <1>5, <1>6, <1>7

\* Two sequences of tokens, one behind the other.
LEMMA ConcatIs ==
  ASSUME NEW f \in Seq(Token), NEW t \in Seq(Token)
  PROVE  /\ f \o t \in Seq(Token)
         /\ Len(f) \in Nat /\ Len(t) \in Nat
         /\ Len(f \o t) = Len(f) + Len(t)
         /\ \A x \in Nat \ {0} : x <= Len(f) => (f \o t)[x] = f[x]
         /\ \A x \in Nat \ {0} : x <= Len(t) => (f \o t)[Len(f) + x] = t[x]
<1>1. f \o t \in Seq(Token) /\ Len(f \o t) = Len(f) + Len(t)
  BY ConcatProperties
<1>2. \A x \in 1..(Len(f) + Len(t)) : (f \o t)[x] = IF x <= Len(f) THEN f[x] ELSE t[x - Len(f)]
  BY ConcatProperties
<1>3. Len(f) \in Nat /\ Len(t) \in Nat
  OBVIOUS
<1>4. ASSUME NEW x \in Nat \ {0}, x <= Len(f) PROVE (f \o t)[x] = f[x]
  BY <1>2, <1>3, <1>4
<1>5. ASSUME NEW x \in Nat \ {0}, x <= Len(t) PROVE (f \o t)[Len(f) + x] = t[x]
  <2>1. Len(f) + x \in 1..(Len(f) + Len(t)) /\ ~(Len(f) + x <= Len(f)) /\ (Len(f) + x) - Len(f) = x
    BY <1>3, <1>5
  <2> QED BY <1>2, <2>1
<1> QED BY <1>1, <1>3, <1>4, <1>5

\* The fields of a record, what is behind them, and nothing else.
LEMMA TokensAre ==
  ASSUME graph \in Graphs, NEW r \in 1..RecordCount
  PROVE  /\ Tokens(r) \in Seq(Token) /\ Len(Tokens(r)) = RecordLength(r)
         /\ \A k \in 1..Width(KindOf(r)) : Tokens(r)[k] = <<KindOf(r), NumberOf(r), k>>
         /\ Format = "binary" => Tokens(r)[Width(KindOf(r)) + 1] = <<"size", TagSize(r)>>
         /\ \A k \in 1..RecordLength(r) :
              (Format = "text" /\ k > Width(KindOf(r))) => Tokens(r)[k] = <<"tags">>
<1> DEFINE w == Width(KindOf(r))
           f == Fields(KindOf(r), NumberOf(r), w)
           s == TagSize(r)
           a == IF Format = "binary" THEN << <<"size", s>> >> ELSE << >>
           b == [k \in 1..s |-> <<"tags">>]
           c == IF Format = "binary" THEN 1 ELSE 0
<1>1. /\ KindOf(r) \in Kinds /\ NumberOf(r) \in Nat /\ s \in {0, 1} /\ w \in {4, 5}
      /\ RecordLength(r) = w + c + s
  BY RecordIs
<1>2. f \in Seq(Token) /\ Len(f) = w /\ \A k \in 1..w : f[k] = <<KindOf(r), NumberOf(r), k>>
  <2>1. \A k \in 1..w : <<KindOf(r), NumberOf(r), k>> \in Token
    BY <1>1 DEF Token, Kinds
  <2>2. w \in Nat
    BY <1>1
  <2> HIDE DEF w
  <2> QED BY <2>1, <2>2 DEF Fields
<1>3. a \in Seq(Token) /\ Len(a) = c
  <2>1. <<"size", s>> \in Token
    BY <1>1 DEF Token
  <2> HIDE DEF s
  <2> QED BY <2>1
<1>4. b \in Seq(Token) /\ Len(b) = s /\ \A k \in 1..s : b[k] = <<"tags">>
  <2>1. <<"tags">> \in Token
    BY DEF Token
  <2>2. s \in Nat
    BY <1>1
  <2> HIDE DEF s
  <2> QED BY <2>1, <2>2
<1>5. Tokens(r) = f \o (a \o b)
  BY DEF Tokens, Tags
<1>6. Format = "binary" => a[1] = <<"size", s>>
  OBVIOUS
<1>7. c \in {0, 1} /\ (Format = "binary" => c = 1) /\ (Format = "text" => c = 0)
  OBVIOUS
<1> HIDE DEF f, a, b, w, s, c
<1>8. /\ a \o b \in Seq(Token) /\ Len(a \o b) = c + s
      /\ \A x \in Nat \ {0} : x <= c => (a \o b)[x] = a[x]
      /\ \A x \in Nat \ {0} : x <= s => (a \o b)[c + x] = b[x]
  <2>1. /\ a \o b \in Seq(Token) /\ Len(a \o b) = Len(a) + Len(b)
        /\ \A x \in Nat \ {0} : x <= Len(a) => (a \o b)[x] = a[x]
        /\ \A x \in Nat \ {0} : x <= Len(b) => (a \o b)[Len(a) + x] = b[x]
    BY <1>3, <1>4, ConcatIs
  <2>2. Len(a) = c /\ Len(b) = s
    BY <1>3, <1>4
  <2> QED BY <2>1, <2>2
<1> DEFINE t == a \o b
<1> HIDE DEF t
<1>9. /\ f \o t \in Seq(Token) /\ Len(f \o t) = w + Len(t)
      /\ \A x \in Nat \ {0} : x <= w => (f \o t)[x] = f[x]
      /\ \A x \in Nat \ {0} : x <= Len(t) => (f \o t)[w + x] = t[x]
  <2>1. t \in Seq(Token)
    BY <1>8 DEF t
  <2>2. /\ f \o t \in Seq(Token) /\ Len(f \o t) = Len(f) + Len(t)
        /\ \A x \in Nat \ {0} : x <= Len(f) => (f \o t)[x] = f[x]
        /\ \A x \in Nat \ {0} : x <= Len(t) => (f \o t)[Len(f) + x] = t[x]
    BY <1>2, <2>1, ConcatIs
  <2>3. Len(f) = w
    BY <1>2
  <2> QED BY <2>2, <2>3
<1>10. Len(t) = c + s /\ Tokens(r) = f \o t
  BY <1>5, <1>8 DEF t
<1>11. Tokens(r) \in Seq(Token) /\ Len(Tokens(r)) = RecordLength(r)
  BY <1>1, <1>7, <1>9, <1>10
<1>12. ASSUME NEW k \in 1..w PROVE Tokens(r)[k] = <<KindOf(r), NumberOf(r), k>>
  BY <1>1, <1>2, <1>9, <1>10
<1>13. Format = "binary" => Tokens(r)[w + 1] = <<"size", s>>
  <2> SUFFICES ASSUME Format = "binary" PROVE Tokens(r)[w + 1] = <<"size", s>>
    OBVIOUS
  <2>1. 1 <= c /\ 1 <= Len(t)
    BY <1>1, <1>7, <1>10
  <2>2. t[1] = <<"size", s>>
    BY <1>6, <1>8, <2>1 DEF t
  <2>3. Tokens(r)[w + 1] = t[1]
    BY <1>1, <1>9, <1>10, <2>1
  <2> QED BY <2>2, <2>3
<1>14. ASSUME NEW k \in 1..RecordLength(r), Format = "text", k > w
       PROVE  Tokens(r)[k] = <<"tags">>
  <2>1. c = 0 /\ k - w \in 1..s /\ k - w \in Nat \ {0} /\ k - w <= s /\ k = w + (k - w)
    BY <1>1, <1>7, <1>14
  <2>2. t[k - w] = b[k - w]
    <3>1. c + (k - w) = k - w
      BY <2>1
    <3> QED BY <1>8, <2>1, <3>1 DEF t
  <2>3. k - w <= Len(t)
    BY <1>1, <1>10, <2>1
  <2>4. Tokens(r)[w + (k - w)] = t[k - w]
    BY <1>9, <1>10, <2>1, <2>3
  <2> QED BY <1>4, <2>1, <2>2, <2>4
<1> QED BY <1>11, <1>12, <1>13, <1>14 DEF w, s

\* Every interval of integers is finite.
LEMMA IntervalFinite ==
  ASSUME NEW n \in Int, NEW m \in Int
  PROVE  IsFiniteSet(n..m)
BY FS_Interval

\* How many of the first records have tags.
LEMMA TaggedIs ==
  ASSUME graph \in Graphs
  PROVE  /\ Cardinality(Tagged(0)) = 0
         /\ \A r \in 0..RecordCount : IsFiniteSet(Tagged(r)) /\ Cardinality(Tagged(r)) \in Nat
         /\ \A r \in 1..RecordCount :
              Cardinality(Tagged(r)) = Cardinality(Tagged(r - 1)) + TagSize(r)
         /\ \A r, q \in 0..RecordCount :
              r <= q => Cardinality(Tagged(r)) <= Cardinality(Tagged(q))
<1>1. RecordCount \in Nat
  BY GraphIs
<1>2. Tagged(0) = {}
  BY DEF Tagged
<1>3. ASSUME NEW r \in 0..RecordCount
      PROVE  IsFiniteSet(Tagged(r)) /\ Cardinality(Tagged(r)) \in Nat
  <2>1. Tagged(r) \subseteq 1..r /\ IsFiniteSet(1..r)
    BY <1>1, IntervalFinite DEF Tagged
  <2>2. IsFiniteSet(Tagged(r))
    BY <2>1, FS_Subset
  <2> QED BY <2>2, FS_CardinalityType
<1>4. ASSUME NEW r \in 1..RecordCount
      PROVE  Cardinality(Tagged(r)) = Cardinality(Tagged(r - 1)) + TagSize(r)
  <2>1. r - 1 \in 0..RecordCount /\ r \in Nat /\ r \notin 1..(r - 1) /\ 1..r = (1..(r - 1)) \cup {r}
    BY <1>1
  <2>2. IsFiniteSet(Tagged(r - 1)) /\ Cardinality(Tagged(r - 1)) \in Nat
    BY <1>3, <2>1
  <2>3. TagSize(r) \in {0, 1}
    BY RecordIs
  <2>4. CASE TagSize(r) = 1
    <3>1. Tagged(r) = Tagged(r - 1) \cup {r} /\ r \notin Tagged(r - 1)
      BY <2>1, <2>4 DEF Tagged
    <3>2. Cardinality(Tagged(r - 1) \cup {r}) = Cardinality(Tagged(r - 1)) + 1
      BY <2>2, <3>1, FS_AddElement
    <3> QED BY <2>4, <3>1, <3>2
  <2>5. CASE TagSize(r) = 0
    <3>1. Tagged(r) = Tagged(r - 1)
      BY <2>1, <2>5 DEF Tagged
    <3> QED BY <2>2, <2>5, <3>1
  <2> QED BY <2>3, <2>4, <2>5
<1>5. ASSUME NEW r \in 0..RecordCount, NEW q \in 0..RecordCount, r <= q
      PROVE  Cardinality(Tagged(r)) <= Cardinality(Tagged(q))
  <2>1. Tagged(r) \subseteq Tagged(q)
    BY <1>1, <1>5 DEF Tagged
  <2> QED BY <1>3, <2>1, FS_Subset
<1>6. Cardinality(Tagged(0)) = 0
  BY <1>2, FS_EmptySet
<1> QED BY <1>3, <1>4, <1>5, <1>6

\* Where a record ends: its length behind the one before it.
LEMMA EndOfIs ==
  ASSUME graph \in Graphs
  PROVE  /\ EndOf(0) = 7
         /\ \A r \in 0..RecordCount : EndOf(r) \in Nat /\ EndOf(r) >= 7
         /\ \A r \in 1..RecordCount : EndOf(r) = EndOf(r - 1) + RecordLength(r)
         /\ \A r, q \in 0..RecordCount : r <= q => EndOf(r) <= EndOf(q)
         /\ \A r, q \in 0..RecordCount : r < q => EndOf(r) < EndOf(q)
<1> DEFINE C(r) == Cardinality(Tagged(r))
           b(r) == IF Format = "binary" THEN r ELSE 0
<1>1. /\ NodeCount \in Nat /\ EdgeCount \in Nat /\ RecordCount = NodeCount + EdgeCount
      /\ NodeWidth = 5 /\ EdgeWidth \in {4, 5} /\ HeaderLength = 7
  BY GraphIs DEF HeaderLength, HeaderLines
<1>2. \A r : EndOf(r) = 7 + FieldsUpTo(r) + b(r) + C(r)
  BY <1>1 DEF EndOf
<1>3. \A r \in 0..RecordCount : b(r) \in Nat /\ C(r) \in Nat
  <2>1. \A r \in 0..RecordCount : b(r) \in Nat
    BY <1>1
  <2> QED BY <2>1, TaggedIs
<1>4. \A r \in 0..RecordCount :
        FieldsUpTo(r) = IF r <= NodeCount THEN r * 5 ELSE NodeCount * 5 + (r - NodeCount) * EdgeWidth
  BY <1>1 DEF FieldsUpTo
<1>5. \A r \in 0..RecordCount : FieldsUpTo(r) \in Nat
  BY <1>1, <1>4
<1>6. FieldsUpTo(0) = 0 /\ b(0) = 0 /\ C(0) = 0
  BY <1>1, <1>4, TaggedIs
<1>7. ASSUME NEW r \in 1..RecordCount
      PROVE  FieldsUpTo(r) = FieldsUpTo(r - 1) + Width(KindOf(r)) /\ b(r) = b(r - 1) + b(1)
  <2>1. r \in Nat /\ r - 1 \in Nat /\ r - 1 \in 0..RecordCount /\ r \in 0..RecordCount
    BY <1>1
  <2>2. Width(KindOf(r)) = IF r <= NodeCount THEN 5 ELSE EdgeWidth
    BY RecordIs
  <2>3. FieldsUpTo(r) = FieldsUpTo(r - 1) + Width(KindOf(r))
    BY <1>1, <1>4, <2>1, <2>2
  <2> QED BY <2>1, <2>3
<1>8. ASSUME NEW r \in 0..RecordCount, NEW q \in 0..RecordCount, r < q
      PROVE  FieldsUpTo(r) < FieldsUpTo(q) /\ b(r) <= b(q) /\ C(r) <= C(q)
  <2>1. FieldsUpTo(r) < FieldsUpTo(q)
    BY <1>1, <1>4, <1>8
  <2>2. b(r) <= b(q)
    BY <1>1, <1>8
  <2>3. r <= q
    BY <1>1, <1>8
  <2> QED BY <2>1, <2>2, <2>3, TaggedIs
<1>9. \A r \in 1..RecordCount : C(r) = C(r - 1) + TagSize(r)
  BY TaggedIs
<1>10. \A r \in 1..RecordCount : /\ RecordLength(r) = Width(KindOf(r)) + b(1) + TagSize(r)
                                /\ TagSize(r) \in {0, 1} /\ Width(KindOf(r)) \in {4, 5}
  BY RecordIs
<1>11. b(1) \in {0, 1}
  OBVIOUS
<1> HIDE DEF C, b
<1>12. \A r \in 0..RecordCount : EndOf(r) \in Nat /\ EndOf(r) >= 7
  BY <1>2, <1>3, <1>5
<1>13. ASSUME NEW r \in 1..RecordCount PROVE EndOf(r) = EndOf(r - 1) + RecordLength(r)
  <2>1. r - 1 \in 0..RecordCount /\ r \in 0..RecordCount
    BY <1>1
  <2>2. /\ FieldsUpTo(r - 1) \in Nat /\ b(r - 1) \in Nat /\ C(r - 1) \in Nat
        /\ FieldsUpTo(r) = FieldsUpTo(r - 1) + Width(KindOf(r))
        /\ b(r) = b(r - 1) + b(1) /\ C(r) = C(r - 1) + TagSize(r)
    BY <1>3, <1>5, <1>7, <1>9, <2>1
  <2>3. /\ RecordLength(r) = Width(KindOf(r)) + b(1) + TagSize(r)
        /\ TagSize(r) \in {0, 1} /\ Width(KindOf(r)) \in {4, 5}
    BY <1>10
  <2>4. EndOf(r) = 7 + FieldsUpTo(r) + b(r) + C(r) /\ EndOf(r - 1) = 7 + FieldsUpTo(r - 1) + b(r - 1) + C(r - 1)
    BY <1>2
  <2> QED BY <1>11, <2>2, <2>3, <2>4
<1>14. ASSUME NEW r \in 0..RecordCount, NEW q \in 0..RecordCount, r < q PROVE EndOf(r) < EndOf(q)
  <2>1. FieldsUpTo(r) < FieldsUpTo(q) /\ b(r) <= b(q) /\ C(r) <= C(q)
    BY <1>8, <1>14
  <2>2. /\ FieldsUpTo(r) \in Nat /\ FieldsUpTo(q) \in Nat /\ b(r) \in Nat /\ b(q) \in Nat
        /\ C(r) \in Nat /\ C(q) \in Nat
    BY <1>3, <1>5
  <2>3. EndOf(r) = 7 + FieldsUpTo(r) + b(r) + C(r) /\ EndOf(q) = 7 + FieldsUpTo(q) + b(q) + C(q)
    BY <1>2
  <2> QED BY <2>1, <2>2, <2>3
<1>15. ASSUME NEW r \in 0..RecordCount, NEW q \in 0..RecordCount, r <= q PROVE EndOf(r) <= EndOf(q)
  <2>1. r = q \/ r < q
    BY <1>1, <1>15
  <2>2. EndOf(r) \in Nat /\ EndOf(q) \in Nat
    BY <1>12
  <2> QED BY <1>14, <2>1, <2>2
<1>16. EndOf(0) = 7
  BY <1>2, <1>6
<1> QED BY <1>12, <1>13, <1>14, <1>15, <1>16

-----------------------------------------------------------------------------
(* What the writers put into the file, and what a cut leaves of it.        *)

LEMMA HeaderIs ==
  ASSUME graph \in Graphs
  PROVE  /\ Header \in Seq(Token) /\ Len(Header) = 7 /\ HeaderLength = 7
         /\ Header[6] = <<"count", NodeCount>> /\ Header[7] = <<"count", EdgeCount>>
         /\ \A p \in 1..5 : Header[p] = <<"line", p>>
<1> DEFINE a == [k \in 1..5 |-> <<"line", k>>]
           b == << <<"count", NodeCount>>, <<"count", EdgeCount>> >>
<1>1. NodeCount \in Nat /\ EdgeCount \in Nat
  BY GraphIs
<1>2. a \in Seq(Token) /\ Len(a) = 5 /\ \A p \in 1..5 : a[p] = <<"line", p>>
  <2>1. \A k \in 1..5 : <<"line", k>> \in Token
    BY DEF Token
  <2> QED BY <2>1
<1>3. b \in Seq(Token) /\ Len(b) = 2 /\ b[1] = <<"count", NodeCount>> /\ b[2] = <<"count", EdgeCount>>
  <2>1. <<"count", NodeCount>> \in Token /\ <<"count", EdgeCount>> \in Token
    BY <1>1 DEF Token
  <2> QED BY <2>1
<1>4. Header = a \o b
  BY DEF Header, HeaderLines
<1> HIDE DEF a, b
<1>5. /\ a \o b \in Seq(Token) /\ Len(a \o b) = Len(a) + Len(b)
      /\ \A x \in Nat \ {0} : x <= Len(a) => (a \o b)[x] = a[x]
      /\ \A x \in Nat \ {0} : x <= Len(b) => (a \o b)[Len(a) + x] = b[x]
  BY <1>2, <1>3, ConcatIs
<1>6. Header[6] = b[1] /\ Header[7] = b[2]
  <2>1. (a \o b)[Len(a) + 1] = b[1] /\ (a \o b)[Len(a) + 2] = b[2]
    BY <1>3, <1>5
  <2>2. Len(a) + 1 = 6 /\ Len(a) + 2 = 7
    BY <1>2
  <2> QED BY <1>4, <2>1, <2>2
<1>7. \A p \in 1..5 : Header[p] = <<"line", p>>
  BY <1>2, <1>4, <1>5
<1> QED BY <1>2, <1>3, <1>4, <1>5, <1>6, <1>7 DEF HeaderLength, HeaderLines

\* The parts of a text file that are numbers are values that a reader may get.
LEMMA NumbersAre ==
  ASSUME graph \in Graphs, NEW r \in 1..RecordCount, NEW k \in 1..RecordLength(r),
         Format = "text", IsNumber(Tokens(r)[k])
  PROVE  Tokens(r)[k] \in Values
<1>1. /\ Width(KindOf(r)) \in {4, 5} /\ RecordLength(r) \in Nat
      /\ KindOf(r) \in {"node", "edge"} /\ NumberOf(r) \in 1..(NodeCount + EdgeCount)
  BY RecordIs DEF Kinds, RecordCount
<1>2. k <= Width(KindOf(r))
  <2>1. ASSUME k > Width(KindOf(r)) PROVE FALSE
    <3>1. Tokens(r)[k] = <<"tags">>
      BY <2>1, TokensAre
    <3> QED BY <3>1 DEF IsNumber
  <2> QED BY <1>1, <2>1
<1>3. k \in 1..Width(KindOf(r)) /\ k \in 1..5
  BY <1>1, <1>2
<1>4. Tokens(r)[k] = <<KindOf(r), NumberOf(r), k>>
  BY <1>3, TokensAre
<1> QED BY <1>1, <1>3, <1>4 DEF Values

\* One more record.
LEMMA AddRecord ==
  ASSUME graph \in Graphs, NEW r \in 1..RecordCount, NEW f \in Seq(Token),
         Len(f) = EndOf(r - 1), Untouched(f, Len(f)), Numbers(f)
  PROVE  /\ f \o Tokens(r) \in Seq(Token) /\ Len(f \o Tokens(r)) = EndOf(r)
         /\ Untouched(f \o Tokens(r), EndOf(r)) /\ Numbers(f \o Tokens(r))
<1> DEFINE t == Tokens(r)
           g == f \o t
           L == RecordLength(r)
<1>1. t \in Seq(Token) /\ Len(t) = L
  BY TokensAre
<1>2. /\ r \in Nat /\ r - 1 \in 0..RecordCount /\ r \in 0..RecordCount
      /\ EndOf(r - 1) \in Nat /\ EndOf(r - 1) >= 7 /\ L \in Nat /\ EndOf(r) = EndOf(r - 1) + L
      /\ RecordCount \in Nat
  <2>1. RecordCount \in Nat /\ L \in Nat
    BY GraphIs, RecordIs
  <2>2. r \in Nat /\ r - 1 \in 0..RecordCount /\ r \in 0..RecordCount
    BY <2>1
  <2>3. EndOf(r - 1) \in Nat /\ EndOf(r - 1) >= 7 /\ EndOf(r) = EndOf(r - 1) + L
    BY <2>2, EndOfIs
  <2> QED BY <2>1, <2>2, <2>3
<1> HIDE DEF t, L
<1>3. /\ g \in Seq(Token) /\ Len(g) = Len(f) + Len(t)
      /\ \A x \in Nat \ {0} : x <= Len(f) => g[x] = f[x]
      /\ \A x \in Nat \ {0} : x <= Len(t) => g[Len(f) + x] = t[x]
  BY <1>1, ConcatIs
<1> HIDE DEF g
<1>4. Len(g) = EndOf(r)
  BY <1>1, <1>2, <1>3
<1>5. \A p \in 1..HeaderLength : p <= EndOf(r) => g[p] = Header[p]
  <2> SUFFICES ASSUME NEW p \in 1..HeaderLength PROVE g[p] = Header[p]
    OBVIOUS
  <2>1. p \in Nat \ {0} /\ p <= 7 /\ p <= Len(f)
    BY <1>2, HeaderIs
  <2>2. f[p] = Header[p]
    BY <2>1 DEF Untouched
  <2> QED BY <1>3, <2>1, <2>2
<1>6. ASSUME NEW q \in 1..RecordCount, NEW k \in 1..RecordLength(q), EndOf(q - 1) + k <= EndOf(r)
      PROVE  g[EndOf(q - 1) + k] = Tokens(q)[k]
  <2>1. /\ q \in Nat /\ q - 1 \in 0..RecordCount /\ q \in 0..RecordCount /\ EndOf(q - 1) \in Nat
        /\ EndOf(q) = EndOf(q - 1) + RecordLength(q) /\ RecordLength(q) \in Nat /\ EndOf(q) \in Nat
    BY <1>2, EndOfIs, RecordIs
  <2>2. q <= r
    <3>1. ASSUME q > r PROVE FALSE
      <4>1. r <= q - 1
        BY <1>2, <2>1, <3>1
      <4>2. EndOf(r) <= EndOf(q - 1)
        BY <1>2, <2>1, <4>1, EndOfIs
      <4> QED BY <1>2, <1>6, <2>1, <4>2
    <3> QED BY <1>2, <2>1, <3>1
  <2>3. CASE q = r
    <3>1. k \in Nat \ {0} /\ k <= Len(t)
      BY <1>1, <2>1, <2>3 DEF L
    <3> QED BY <1>3, <2>3, <3>1 DEF t
  <2>4. CASE q # r
    <3>1. q <= r - 1
      BY <1>2, <2>1, <2>2, <2>4
    <3>2. EndOf(q) <= EndOf(r - 1)
      BY <1>2, <2>1, <3>1, EndOfIs
    <3>3. EndOf(q - 1) + k \in Nat \ {0} /\ EndOf(q - 1) + k <= Len(f)
      BY <1>2, <2>1, <3>2
    <3>4. f[EndOf(q - 1) + k] = Tokens(q)[k]
      BY <3>3 DEF Untouched
    <3> QED BY <1>3, <3>3, <3>4
  <2> QED BY <2>3, <2>4
<1>7. ASSUME NEW p \in 1..Len(g), Format = "text", p > HeaderLength, IsNumber(g[p])
      PROVE  g[p] \in Values
  <2>1. p \in Nat \ {0} /\ Len(f) \in Nat
    BY <1>2, <1>4
  <2>2. CASE p <= Len(f)
    <3>1. g[p] = f[p] /\ p \in 1..Len(f)
      BY <1>3, <2>1, <2>2
    <3> QED BY <1>7, <3>1 DEF Numbers
  <2>3. CASE ~(p <= Len(f))
    <3>1. p - Len(f) \in 1..L /\ p - Len(f) \in Nat \ {0} /\ p - Len(f) <= Len(t) /\ Len(f) + (p - Len(f)) = p
      BY <1>1, <1>2, <1>4, <2>1, <2>3
    <3>2. g[p] = t[p - Len(f)]
      BY <1>3, <3>1
    <3> QED BY <1>7, <3>1, <3>2, NumbersAre DEF t, L
  <2> QED BY <2>2, <2>3
<1>8. Untouched(g, EndOf(r))
  BY <1>5, <1>6 DEF Untouched
<1>9. Numbers(g)
  BY <1>7 DEF Numbers
<1> QED BY <1>3, <1>4, <1>8, <1>9 DEF g, t

\* The place of a token of a record.
LEMMA PlaceIs ==
  ASSUME graph \in Graphs, NEW r \in 1..RecordCount, NEW k \in 1..RecordLength(r)
  PROVE  /\ EndOf(r - 1) \in Nat /\ EndOf(r - 1) >= 7 /\ k \in Nat /\ EndOf(r - 1) + k \in Nat
         /\ EndOf(r - 1) + k > 7 /\ EndOf(r - 1) + k <= EndOf(r) /\ EndOf(r) <= EndOf(RecordCount)
<1>1. RecordCount \in Nat /\ RecordLength(r) \in Nat
  BY GraphIs, RecordIs
<1>2. r - 1 \in 0..RecordCount /\ r \in 0..RecordCount /\ RecordCount \in 0..RecordCount /\ r <= RecordCount
  BY <1>1
<1>3. EndOf(r - 1) \in Nat /\ EndOf(r - 1) >= 7 /\ EndOf(r) = EndOf(r - 1) + RecordLength(r)
  BY <1>2, EndOfIs
<1>4. EndOf(r) <= EndOf(RecordCount)
  BY <1>2, EndOfIs
<1> QED BY <1>1, <1>3, <1>4

\* What is left of a file that is cut behind a token.
LEMMA CutBehind ==
  ASSUME graph \in Graphs, NEW f \in Seq(Token), NEW n \in 0..Len(f),
         Untouched(f, Len(f)), Numbers(f)
  PROVE  /\ SubSeq(f, 1, n) \in Seq(Token) /\ Len(SubSeq(f, 1, n)) = n
         /\ \A p \in 1..n : SubSeq(f, 1, n)[p] = f[p]
         /\ Untouched(SubSeq(f, 1, n), n) /\ Numbers(SubSeq(f, 1, n))
<1> DEFINE g == SubSeq(f, 1, n)
<1>1. Len(f) \in Nat /\ n \in Nat /\ n <= Len(f)
  OBVIOUS
<1>2. g \in Seq(Token) /\ Len(g) = n
  <2>1. \A p \in 1..n : f[p] \in Token
    BY <1>1
  <2>2. Len(g) = n /\ g = [p \in 1..n |-> f[p]]
    BY <1>1
  <2> QED BY <1>1, <2>1, <2>2
<1>3. \A p \in 1..n : g[p] = f[p]
  BY <1>1
<1> HIDE DEF g
<1>4. \A p \in 1..HeaderLength : p <= n => g[p] = Header[p]
  <2> SUFFICES ASSUME NEW p \in 1..HeaderLength, p <= n PROVE g[p] = Header[p]
    OBVIOUS
  <2>1. p \in 1..n /\ p <= Len(f)
    BY <1>1, HeaderIs
  <2>2. f[p] = Header[p]
    BY <2>1 DEF Untouched
  <2> QED BY <1>3, <2>1, <2>2
<1>5. ASSUME NEW r \in 1..RecordCount, NEW k \in 1..RecordLength(r), EndOf(r - 1) + k <= n
      PROVE  g[EndOf(r - 1) + k] = Tokens(r)[k]
  <2>1. EndOf(r - 1) + k \in 1..n /\ EndOf(r - 1) + k <= Len(f)
    BY <1>1, <1>5, PlaceIs
  <2>2. f[EndOf(r - 1) + k] = Tokens(r)[k]
    BY <2>1 DEF Untouched
  <2> QED BY <1>3, <2>1, <2>2
<1>6. ASSUME NEW p \in 1..n, Format = "text", p > HeaderLength, IsNumber(g[p])
      PROVE  g[p] \in Values
  <2>1. p \in 1..Len(f) /\ g[p] = f[p]
    BY <1>1, <1>3
  <2> QED BY <1>6, <2>1 DEF Numbers
<1>7. Untouched(g, n)
  BY <1>4, <1>5 DEF Untouched
<1>8. Numbers(g)
  BY <1>2, <1>6 DEF Numbers
<1> QED BY <1>2, <1>3, <1>7, <1>8 DEF g

\* What is left of a file that is cut within its token n.
Clipped(f, n, x) == [SubSeq(f, 1, n) EXCEPT ![n] = x]

LEMMA CutWithin ==
  ASSUME graph \in Graphs, NEW f \in Seq(Token), NEW n \in 1..Len(f),
         Untouched(f, Len(f)), Numbers(f), NEW x \in Partials(f[n]),
         NEW h, h = Clipped(f, n, x)
  PROVE  /\ h \in Seq(Token) /\ Len(h) = n /\ n > HeaderLines /\ Format = "text"
         /\ Untouched(h, n - 1) /\ LastIsPartial(h) /\ Numbers(h)
<1> DEFINE g == SubSeq(f, 1, n)
<1>1. Len(f) \in Nat /\ n \in Nat /\ n <= Len(f) /\ n >= 1 /\ n \in 0..Len(f)
  OBVIOUS
<1>2. /\ g \in Seq(Token) /\ Len(g) = n /\ \A p \in 1..n : g[p] = f[p]
      /\ Untouched(g, n) /\ Numbers(g)
  BY <1>1, CutBehind
<1>3. h = [g EXCEPT ![n] = x]
  BY DEF Clipped
<1> HIDE DEF g
<1>4. /\ Format = "text"
      /\ \/ f[n][1] = "count" /\ \E c \in 1..(f[n][2] - 1) : x = <<"count", c>>
         \/ f[n][1] \in {"node", "edge"} /\ x = <<"partial">>
  BY DEF Partials
<1>5. HeaderLength = 7 /\ HeaderLines = 5
  BY DEF HeaderLength, HeaderLines
<1>6. n <= 7 => f[n] = Header[n]
  BY <1>1, <1>5 DEF Untouched
<1>7. n > 5
  <2> SUFFICES ASSUME n <= 5 PROVE FALSE
    BY <1>1
  <2>1. f[n] = <<"line", n>>
    BY <1>1, <1>6, HeaderIs
  <2> QED BY <1>4, <2>1
<1>8. h[n] = x /\ h \in [1..n -> Token \cup {x}] /\ DOMAIN h = 1..n
      /\ \A p \in 1..n : p # n => h[p] = g[p]
  <2>1. g \in [1..n -> Token]
    BY <1>1, <1>2
  <2>2. n \in 1..n
    BY <1>1
  <2>3. DOMAIN h = 1..n /\ h[n] = x /\ \A p \in 1..n : p # n => h[p] = g[p]
    BY <1>3, <2>1, <2>2
  <2>4. h \in [1..n -> Token \cup {x}]
    BY <1>3, <2>1
  <2> QED BY <2>3, <2>4
<1>9. ASSUME n <= 7
      PROVE  x \in Token /\ \E c \in 1..(Header[n][2] - 1) : x = <<"count", c>>
  <2>1. PICK N \in Nat : Header[n] = <<"count", N>>
    <3>1. n = 6 \/ n = 7
      BY <1>1, <1>7, <1>9
    <3> QED BY <3>1, HeaderIs, GraphIs
  <2>2. f[n] = <<"count", N>>
    BY <1>6, <1>9, <2>1
  <2>3. f[n][1] = "count" /\ f[n][2] = N /\ Header[n][2] = N
    BY <2>1, <2>2
  <2>4. PICK c \in 1..(N - 1) : x = <<"count", c>>
    BY <1>4, <2>3
  <2>5. x \in Token
    BY <2>1, <2>4 DEF Token
  <2>6. \E d \in 1..(Header[n][2] - 1) : x = <<"count", d>>
    BY <2>3, <2>4
  <2> QED BY <2>5, <2>6
<1>10. ASSUME n > 7
       PROVE  x = <<"partial">> /\ x \in Token /\ x \in Values
  <2>1. f[n][1] \in {"count", "node", "edge"}
    BY <1>4
  <2>2. f[n] \in Values
    BY <1>4, <1>5, <1>10, <2>1 DEF Numbers, IsNumber
  <2>3. f[n][1] # "count"
    BY <2>2 DEF Values, Junk, Zero
  <2> QED BY <1>4, <2>3 DEF Token, Values
<1>11. h \in Seq(Token) /\ Len(h) = n
  <2>1. x \in Token
    BY <1>1, <1>9, <1>10
  <2> QED BY <1>1, <1>8, <2>1
<1>12. LastIsPartial(h)
  <2>1. CASE n <= 7
    BY <1>5, <1>7, <1>8, <1>9, <1>11, <2>1 DEF LastIsPartial
  <2>2. CASE n > 7
    BY <1>1, <1>5, <1>8, <1>10, <1>11, <2>2 DEF LastIsPartial
  <2> QED BY <1>1, <2>1, <2>2
<1>13. Untouched(h, n - 1)
  <2>1. \A p \in 1..HeaderLength : p <= n - 1 => h[p] = Header[p]
    <3> SUFFICES ASSUME NEW p \in 1..HeaderLength, p <= n - 1 PROVE h[p] = Header[p]
      OBVIOUS
    <3>1. p \in 1..n /\ p # n /\ p <= n
      BY <1>1, <1>5
    <3>2. g[p] = Header[p]
      BY <1>2, <3>1 DEF Untouched
    <3> QED BY <1>8, <3>1, <3>2
  <2>2. ASSUME NEW r \in 1..RecordCount, NEW k \in 1..RecordLength(r), EndOf(r - 1) + k <= n - 1
        PROVE  h[EndOf(r - 1) + k] = Tokens(r)[k]
    <3>1. EndOf(r - 1) + k \in 1..n /\ EndOf(r - 1) + k # n /\ EndOf(r - 1) + k <= n
      BY <1>1, <2>2, PlaceIs
    <3>2. g[EndOf(r - 1) + k] = Tokens(r)[k]
      BY <1>2, <3>1 DEF Untouched
    <3> QED BY <1>8, <3>1, <3>2
  <2> QED BY <2>1, <2>2 DEF Untouched
<1>14. Numbers(h)
  <2> SUFFICES ASSUME NEW p \in 1..n, p > HeaderLength, IsNumber(h[p]) PROVE h[p] \in Values
    BY <1>11 DEF Numbers
  <2>1. CASE p = n
    BY <1>1, <1>5, <1>8, <1>10, <2>1
  <2>2. CASE p # n
    <3>1. h[p] = g[p] /\ p \in 1..Len(g)
      BY <1>2, <1>8, <2>2
    <3> QED BY <1>2, <1>4, <3>1 DEF Numbers
  <2> QED BY <2>1, <2>2
<1> QED BY <1>4, <1>5, <1>7, <1>11, <1>12, <1>13, <1>14

\* The graph is fixed, and with it all that only depends on it.
LEMMA GraphKept ==
  ASSUME graph' = graph
  PROVE  /\ NodeCount' = NodeCount /\ EdgeCount' = EdgeCount /\ RecordCount' = RecordCount
         /\ Format' = Format /\ GraphType' = GraphType /\ TextTags' = TextTags
         /\ Header' = Header /\ HeaderLength' = HeaderLength
         /\ Values' = Values
         /\ \A r : EndOf(r)' = EndOf(r)
         /\ \A kind, n : Written(kind, n)' = Written(kind, n)
<1>1. /\ NodeCount' = NodeCount /\ EdgeCount' = EdgeCount /\ RecordCount' = RecordCount
      /\ Format' = Format /\ GraphType' = GraphType
  BY DEF NodeCount, EdgeCount, RecordCount, Format, GraphType
<1>2. Header' = Header /\ HeaderLength' = HeaderLength
  BY <1>1 DEF Header, HeaderLength
<1>3. Values' = Values
  BY <1>1 DEF Values
<1>4. \A r : EndOf(r)' = EndOf(r)
  BY <1>1 DEF EndOf, FieldsUpTo, Tagged, TagSize, HeaderLength, NodeWidth, EdgeWidth
<1>5. \A kind, n : Written(kind, n)' = Written(kind, n)
  BY <1>1 DEF Written, Width, NodeWidth, EdgeWidth
<1>6. TextTags' = TextTags
  BY <1>1 DEF TextTags
<1> QED BY <1>1, <1>2, <1>3, <1>4, <1>5, <1>6

LEMMA LayoutKept ==
  ASSUME graph' = graph
  PROVE  /\ \A f, n : Untouched(f, n)' <=> Untouched(f, n)
         /\ \A f : Numbers(f)' <=> Numbers(f)
         /\ \A f : LastIsPartial(f)' <=> LastIsPartial(f)
<1>1. /\ NodeCount' = NodeCount /\ EdgeCount' = EdgeCount /\ RecordCount' = RecordCount
      /\ Format' = Format /\ GraphType' = GraphType /\ Header' = Header /\ Values' = Values
      /\ \A r : EndOf(r)' = EndOf(r)
  BY GraphKept
<1>2. \A r : RecordLength(r)' = RecordLength(r)
  BY <1>1 DEF RecordLength, Behind, Width, KindOf, TagSize, NodeWidth, EdgeWidth
<1>3. \A r : Tokens(r)' = Tokens(r)
  BY <1>1 DEF Tokens, Tags, Width, KindOf, NumberOf, TagSize, NodeWidth, EdgeWidth
<1>4. \A f, n : Untouched(f, n)' <=> Untouched(f, n)
  BY <1>1, <1>2, <1>3 DEF Untouched, HeaderLength
<1>5. \A f : Numbers(f)' <=> Numbers(f)
  BY <1>1 DEF Numbers, HeaderLength
<1>6. \A f : LastIsPartial(f)' <=> LastIsPartial(f)
  BY <1>1 DEF LastIsPartial, HeaderLength
<1> QED BY <1>4, <1>5, <1>6

LEMMA FileInit == Init => FileInv
<1> SUFFICES ASSUME Init PROVE FileInv
  OBVIOUS
<1>1. graph \in Graphs /\ file = << >> /\ Len(file) = 0 /\ file \in Seq(Token)
  BY DEF Init
<1>2. EndOf(RecordCount) \in Nat
  BY <1>1, GraphIs, EndOfIs
<1>3. Untouched(file, 0)
  <2>1. ASSUME NEW r \in 1..RecordCount, NEW k \in 1..RecordLength(r), EndOf(r - 1) + k <= 0
        PROVE  file[EndOf(r - 1) + k] = Tokens(r)[k]
    <3>1. EndOf(r - 1) + k > 7 /\ EndOf(r - 1) + k \in Nat
      BY <1>1, PlaceIs
    <3> QED BY <2>1, <3>1
  <2>2. ASSUME NEW p \in 1..HeaderLength, p <= 0 PROVE file[p] = Header[p]
    BY <2>2, <1>1, HeaderIs
  <2> QED BY <2>1, <2>2 DEF Untouched
<1>4. Numbers(file)
  BY <1>1 DEF Numbers
<1>5. written = -1 /\ complete = FALSE /\ separated = TRUE /\ phase = "write"
  BY DEF Init
<1>6. written \in -1..RecordCount /\ Untouched(file, Len(file)) /\ Len(file) <= EndOf(RecordCount)
  <2>1. RecordCount \in Nat
    BY <1>1, GraphIs
  <2>2. Untouched(file, Len(file))
    BY <1>1, <1>3
  <2> QED BY <1>1, <1>2, <1>5, <2>1, <2>2
<1>7. complete \in BOOLEAN /\ separated \in BOOLEAN /\ ~ complete /\ separated /\ phase = "write"
  BY <1>5
<1>8. Len(file) = IF written = -1 THEN 0 ELSE EndOf(written)
  BY <1>1, <1>5
<1> QED BY <1>1, <1>4, <1>6, <1>7, <1>8 DEF FileInv

\* What FileInv says does not change if the file does not.
LEMMA FileKept ==
  ASSUME FileInv, UNCHANGED <<graph, written, file, complete, separated>>,
         phase' \in {"header", "node", "edge", "done", "failed", "crashed"} \/ phase' = phase
  PROVE  FileInv'
<1> PICK f : f = file
  OBVIOUS
<1>1. /\ RecordCount' = RecordCount /\ Format' = Format /\ EndOf(RecordCount)' = EndOf(RecordCount)
      /\ EndOf(written)' = EndOf(written) /\ HeaderLines' = HeaderLines
  BY GraphKept DEF HeaderLines
<1>2. (\A m : Untouched(f, m)' <=> Untouched(f, m)) /\ (Numbers(f)' <=> Numbers(f))
      /\ (LastIsPartial(f)' <=> LastIsPartial(f))
  BY LayoutKept
<1> QED BY <1>1, <1>2 DEF FileInv

\* The file grows to f, record r being the last.
LEMMA FileWritten ==
  ASSUME FileInv, phase = "write", NEW r \in 0..RecordCount, NEW f,
         f \in Seq(Token), Len(f) = EndOf(r), Untouched(f, EndOf(r)), Numbers(f),
         file' = f, written' = r, UNCHANGED <<graph, complete, separated, phase>>
  PROVE  FileInv'
<1>1. /\ RecordCount' = RecordCount /\ EndOf(RecordCount)' = EndOf(RecordCount)
      /\ EndOf(r)' = EndOf(r)
  BY GraphKept
<1>2. Untouched(f, Len(f))' /\ Numbers(f)'
  <2>1. (\A m : Untouched(f, m)' <=> Untouched(f, m)) /\ (Numbers(f)' <=> Numbers(f))
    BY LayoutKept
  <2> QED BY <2>1
<1>3. RecordCount \in Nat /\ graph \in Graphs /\ ~ complete /\ separated
      /\ complete \in BOOLEAN /\ separated \in BOOLEAN
  BY GraphIs DEF FileInv
<1>4. r # -1 /\ r \in -1..RecordCount /\ Len(f) <= EndOf(RecordCount)
  <2>1. r <= RecordCount /\ RecordCount \in 0..RecordCount /\ r # -1 /\ r \in -1..RecordCount
    BY <1>3
  <2>2. EndOf(r) <= EndOf(RecordCount)
    BY <1>3, <2>1, EndOfIs
  <2> QED BY <2>1, <2>2
<1>5. (Untouched(file, Len(file)))' /\ (Numbers(file))'
  BY <1>2
<1>6. Len(file') = EndOf(written)' /\ Len(file') <= EndOf(RecordCount)' /\ written' # -1
  BY <1>1, <1>4
<1>7. written' \in -1..RecordCount' /\ graph' \in Graphs /\ file' \in Seq(Token)
  BY <1>1, <1>3, <1>4
<1> QED BY <1>3, <1>5, <1>6, <1>7 DEF FileInv

\* The file is cut to f.
LEMMA FileCut ==
  ASSUME FileInv, phase = "write", NEW f, f \in Seq(Token), Len(f) <= Len(file), Numbers(f),
         NEW s \in BOOLEAN,
         s => Untouched(f, Len(f)),
         ~ s => /\ Format = "text" /\ Len(f) > HeaderLines
                /\ Untouched(f, Len(f)) \/ (Untouched(f, Len(f) - 1) /\ LastIsPartial(f)),
         file' = f, separated' = s, phase' = "header", UNCHANGED <<graph, written, complete>>
  PROVE  FileInv'
<1>1. /\ RecordCount' = RecordCount /\ EndOf(RecordCount)' = EndOf(RecordCount)
      /\ Format' = Format
  BY GraphKept
<1>2. (\A m : Untouched(f, m)' <=> Untouched(f, m)) /\ (Numbers(f)' <=> Numbers(f))
      /\ (LastIsPartial(f)' <=> LastIsPartial(f))
  BY LayoutKept
<1>3. graph \in Graphs /\ ~ complete /\ complete \in BOOLEAN /\ written \in -1..RecordCount
      /\ file \in Seq(Token) /\ Len(file) <= EndOf(RecordCount)
  BY DEF FileInv
<1>4. Len(f) <= EndOf(RecordCount)
  <2>1. Len(f) \in Nat /\ Len(file) \in Nat /\ EndOf(RecordCount) \in Nat
    BY <1>3, EndOfIs, GraphIs
  <2> QED BY <1>3, <2>1
<1>5. /\ separated' => (Untouched(file, Len(file)))'
      /\ ~ separated' => /\ Format' = "text" /\ Len(file') > HeaderLines
                         /\ \/ (Untouched(file, Len(file)))'
                            \/ (Untouched(file, Len(file) - 1))' /\ (LastIsPartial(file))'
  BY <1>1, <1>2
<1>6. Len(file') <= EndOf(RecordCount)' /\ (Numbers(file))' /\ file' \in Seq(Token)
  BY <1>1, <1>2, <1>4
<1>7. written' \in -1..RecordCount' /\ graph' \in Graphs /\ complete' \in BOOLEAN
      /\ separated' \in BOOLEAN /\ ~ complete' /\ phase' = "header"
  BY <1>1, <1>3
<1> QED BY <1>5, <1>6, <1>7 DEF FileInv, HeaderLines

LEMMA FileStep == FileInv /\ [Next]_vars => FileInv'
<1> SUFFICES ASSUME FileInv, [Next]_vars PROVE FileInv'
  OBVIOUS
<1>1. graph \in Graphs /\ RecordCount \in Nat /\ NodeCount \in Nat /\ EdgeCount \in Nat
      /\ RecordCount = NodeCount + EdgeCount /\ file \in Seq(Token) /\ Numbers(file)
  BY GraphIs DEF FileInv
<1>2. phase = "write" => separated /\ Untouched(file, Len(file))
  BY DEF FileInv
<1>3. CASE WriteHeader
  <2>1. Header \in Seq(Token) /\ Len(Header) = 7 /\ EndOf(0) = 7 /\ 0 \in 0..RecordCount
    BY <1>1, HeaderIs, EndOfIs
  <2>2. Untouched(Header, EndOf(0))
    <3>1. ASSUME NEW r \in 1..RecordCount, NEW k \in 1..RecordLength(r), EndOf(r - 1) + k <= 7
          PROVE  FALSE
      <4>1. EndOf(r - 1) + k > 7 /\ EndOf(r - 1) + k \in Nat
        BY <1>1, PlaceIs
      <4> QED BY <3>1, <4>1
    <3> QED BY <2>1, <3>1 DEF Untouched
  <2>3. Numbers(Header)
    BY <2>1, <1>1, HeaderIs DEF Numbers
  <2> QED BY <1>3, <2>1, <2>2, <2>3, FileWritten DEF WriteHeader
<1>4. ASSUME NEW r \in 1..RecordCount, phase = "write", written = r - 1,
             file' = file \o Tokens(r), written' = r, UNCHANGED <<graph, complete, separated, phase>>
      PROVE  FileInv'
  <2>1. Len(file) = EndOf(r - 1) /\ r \in 0..RecordCount
    BY <1>1, <1>4 DEF FileInv
  <2> DEFINE f == file \o Tokens(r)
  <2>2. f \in Seq(Token) /\ Len(f) = EndOf(r) /\ Untouched(f, EndOf(r)) /\ Numbers(f)
    BY <1>1, <1>2, <1>4, <2>1, AddRecord
  <2>3. file' = f
    BY <1>4
  <2> HIDE DEF f
  <2> QED BY <1>4, <2>1, <2>2, <2>3, FileWritten
<1>5. CASE WriteNode
  <2>1. PICK r \in 1..NodeCount : r = written + 1
    BY <1>1, <1>5 DEF WriteNode
  <2>2. r \in 1..RecordCount /\ written = r - 1
    BY <1>1, <1>5, <2>1 DEF WriteNode
  <2>3. NodeTokens(r) = Tokens(r)
    BY <1>1, <2>1 DEF NodeTokens, Tokens, KindOf, NumberOf, TagSize, Width
  <2> QED BY <1>4, <1>5, <2>1, <2>2, <2>3 DEF WriteNode
<1>6. CASE WriteEdge
  <2>1. PICK r \in (NodeCount + 1)..RecordCount : r = written + 1
    BY <1>1, <1>6 DEF WriteEdge
  <2>2. r \in 1..RecordCount /\ written = r - 1
    BY <1>1, <1>6, <2>1 DEF WriteEdge
  <2>3. EdgeTokens(written + 1 - NodeCount) = Tokens(r)
    <3>1. written + 1 - NodeCount = r - NodeCount /\ ~(r <= NodeCount)
      BY <1>1, <2>1, <2>2
    <3> QED BY <3>1 DEF EdgeTokens, Tokens, KindOf, NumberOf, TagSize, Width
  <2> QED BY <1>4, <1>6, <2>1, <2>2, <2>3 DEF WriteEdge
<1>7. CASE Close
  <2>1. /\ RecordCount' = RecordCount /\ EndOf(RecordCount)' = EndOf(RecordCount)
    BY <1>7, GraphKept DEF Close
  <2>2. PICK f : f = file
    OBVIOUS
  <2>3. (\A m : Untouched(f, m)' <=> Untouched(f, m)) /\ (Numbers(f)' <=> Numbers(f))
    BY <1>7, LayoutKept DEF Close
  <2>4. written = RecordCount /\ written # -1 /\ Len(file) = EndOf(RecordCount) /\ separated
    BY <1>1, <1>7 DEF Close, FileInv
  <2>5. (Untouched(file, Len(file)))' /\ (Numbers(file))'
    BY <1>1, <1>2, <1>7, <2>2, <2>3 DEF Close
  <2>6. Len(file') <= EndOf(RecordCount)' /\ Len(file') = EndOf(RecordCount)'
        /\ file' \in Seq(Token) /\ graph' \in Graphs /\ written' \in -1..RecordCount'
    <3>1. EndOf(RecordCount) \in Nat
      BY <1>1, EndOfIs
    <3> QED BY <1>1, <1>7, <2>1, <2>4, <3>1 DEF Close
  <2>7. phase' = "header" /\ complete' = TRUE /\ separated' = separated
    BY <1>7 DEF Close
  <2>8. complete' \in BOOLEAN /\ separated' \in BOOLEAN /\ separated'
    BY <2>4, <2>7 DEF FileInv
  <2> QED BY <2>5, <2>6, <2>7, <2>8 DEF FileInv
<1>8. CASE Truncate
  <2>1. PICK n \in 0..Len(file) :
       \/ /\ file' = SubSeq(file, 1, n)
          /\ separated' \in (IF Format = "text" /\ n > HeaderLines THEN BOOLEAN ELSE {TRUE})
       \/ /\ n > 0
          /\ \E p \in Partials(file[n]) : file' = [SubSeq(file, 1, n) EXCEPT ![n] = p]
          /\ separated' = FALSE
    BY <1>8 DEF Truncate
  <2>2. phase = "write" /\ phase' = "header" /\ UNCHANGED <<graph, written, complete>>
    BY <1>8 DEF Truncate
  <2>3. Len(file) \in Nat /\ n \in Nat /\ n <= Len(file)
    BY <1>1
  <2>4. CASE /\ file' = SubSeq(file, 1, n)
             /\ separated' \in (IF Format = "text" /\ n > HeaderLines THEN BOOLEAN ELSE {TRUE})
    <3> DEFINE f == SubSeq(file, 1, n)
    <3>1. f \in Seq(Token) /\ Len(f) = n /\ Untouched(f, Len(f)) /\ Numbers(f)
      BY <1>1, <1>2, <2>2, CutBehind
    <3>2. file' = f
      BY <2>4
    <3> HIDE DEF f
    <3>3. separated' \in BOOLEAN /\ (~ separated' => Format = "text" /\ Len(f) > HeaderLines)
      BY <2>4, <3>1
    <3> QED BY <2>2, <2>3, <3>1, <3>2, <3>3, FileCut
  <2>5. CASE /\ n > 0
             /\ \E p \in Partials(file[n]) : file' = [SubSeq(file, 1, n) EXCEPT ![n] = p]
             /\ separated' = FALSE
    <3>1. PICK x \in Partials(file[n]) : file' = Clipped(file, n, x)
      BY <2>5 DEF Clipped
    <3>2. PICK h : h = Clipped(file, n, x)
      OBVIOUS
    <3>3. n \in 1..Len(file)
      BY <2>3, <2>5
    <3>4. /\ h \in Seq(Token) /\ Len(h) = n /\ n > HeaderLines /\ Format = "text"
          /\ Untouched(h, n - 1) /\ LastIsPartial(h) /\ Numbers(h)
      BY <1>1, <1>2, <2>2, <3>2, <3>3, CutWithin
    <3>5. file' = h /\ separated' = FALSE
      BY <2>5, <3>1, <3>2
    <3> QED BY <2>2, <2>3, <3>4, <3>5, FileCut
  <2> QED BY <2>1, <2>4, <2>5
<1>9. CASE ReadHeader
  BY <1>9, FileKept DEF ReadHeader
<1>10. CASE ReadText
  BY <1>10, FileKept DEF ReadText
<1>11. CASE ReadBinary
  BY <1>11, FileKept DEF ReadBinary
<1>12. CASE EndLoop
  BY <1>12, FileKept DEF EndLoop
<1>13. CASE UNCHANGED vars
  BY <1>13, FileKept DEF vars
<1> QED BY <1>3, <1>5, <1>6, <1>7, <1>8, <1>9, <1>10, <1>11, <1>12, <1>13 DEF Next

-----------------------------------------------------------------------------
(* What a reader finds in the file.                                        *)

\* The counts of the header, the second or both of which may be missing, and of
\* which the last may be cut.
LEMMA CountToken ==
  ASSUME FileInv, NEW p \in 6..7, p <= Len(file)
  PROVE  /\ IsNumber(file[p]) /\ file[p][2] \in Nat
         /\ (separated \/ p < Len(file)) => file[p] = Header[p]
<1>1. /\ graph \in Graphs /\ file \in Seq(Token) /\ Len(file) \in Nat
      /\ HeaderLength = 7 /\ HeaderLines = 5 /\ p \in 1..HeaderLength /\ p \in Nat
  BY DEF FileInv, HeaderLength, HeaderLines
<1>2. PICK N \in Nat : Header[p] = <<"count", N>>
  <2>1. p = 6 \/ p = 7
    OBVIOUS
  <2> QED BY <1>1, <2>1, HeaderIs, GraphIs
<1>3. CASE file[p] = Header[p]
  <2>1. file[p] = <<"count", N>>
    BY <1>2, <1>3
  <2> QED BY <1>3, <2>1 DEF IsNumber
<1>4. CASE file[p] # Header[p]
  <2>1. ~ Untouched(file, Len(file))
    BY <1>1, <1>4 DEF Untouched
  <2>2. ~ separated /\ Untouched(file, Len(file) - 1) /\ LastIsPartial(file)
    BY <2>1 DEF FileInv
  <2>3. ~(p <= Len(file) - 1)
    BY <1>1, <1>4, <2>2 DEF Untouched
  <2>4. p = Len(file)
    BY <1>1, <2>3
  <2>5. \E c \in 1..(Header[p][2] - 1) : file[p] = <<"count", c>>
    BY <1>1, <2>2, <2>4 DEF LastIsPartial
  <2>6. Header[p][2] = N
    BY <1>2
  <2>7. PICK c \in 1..(N - 1) : file[p] = <<"count", c>>
    BY <2>5, <2>6
  <2>8. c \in Nat
    BY <2>7
  <2> QED BY <2>2, <2>4, <2>7, <2>8 DEF IsNumber
<1> QED BY <1>3, <1>4

\* The tokens of a record, of which the last may be missing or cut.
LEMMA RecordToken ==
  ASSUME FileInv, NEW r \in 1..RecordCount, NEW k \in 1..RecordLength(r),
         EndOf(r - 1) + k <= Len(file)
  PROVE  \/ file[EndOf(r - 1) + k] = Tokens(r)[k]
         \/ ~ separated /\ EndOf(r - 1) + k = Len(file) /\ file[EndOf(r - 1) + k] = <<"partial">>
<1> PICK p : p = EndOf(r - 1) + k
  OBVIOUS
<1>1. graph \in Graphs /\ file \in Seq(Token) /\ Len(file) \in Nat
  BY DEF FileInv
<1>2. p \in Nat /\ p > 7 /\ HeaderLength = 7
  BY <1>1, PlaceIs DEF HeaderLength, HeaderLines
<1>3. ASSUME file[p] # Tokens(r)[k]
      PROVE  ~ separated /\ p = Len(file) /\ file[p] = <<"partial">>
  <2>1. ~ Untouched(file, Len(file))
    BY <1>3 DEF Untouched
  <2>2. ~ separated /\ Untouched(file, Len(file) - 1) /\ LastIsPartial(file)
    BY <2>1 DEF FileInv
  <2>3. ~(p <= Len(file) - 1)
    BY <1>3, <2>2 DEF Untouched
  <2>4. p = Len(file)
    BY <1>1, <1>2, <2>3
  <2>5. file[p] = <<"partial">>
    BY <1>1, <1>2, <2>2, <2>4 DEF LastIsPartial
  <2> QED BY <2>2, <2>4, <2>5
<1> QED BY <1>3

\* A set that with a number holds all smaller ones is the interval of its size.
LEMMA PrefixSet ==
  ASSUME NEW n \in Nat, NEW P \in SUBSET (1..n),
         \A j, k \in 1..n : j < k /\ k \in P => j \in P
  PROVE  /\ Cardinality(P) \in 0..n
         /\ \A p \in 1..n : p \in P <=> p <= Cardinality(P)
<1>1. IsFiniteSet(P) /\ Cardinality(P) \in Nat /\ IsFiniteSet(1..n) /\ Cardinality(1..n) = n
  <2>1. IsFiniteSet(1..n) /\ Cardinality(1..n) = n
    BY FS_Interval
  <2> QED BY <2>1, FS_Subset, FS_CardinalityType
<1>2. ASSUME NEW p \in P PROVE p <= Cardinality(P)
  <2>1. 1..p \subseteq P /\ p \in Nat
    OBVIOUS
  <2>2. Cardinality(1..p) = p
    BY <2>1, FS_Interval
  <2> QED BY <1>1, <2>1, <2>2, FS_Subset
<1>3. ASSUME NEW p \in 1..n, p \notin P PROVE p > Cardinality(P)
  <2>1. P \subseteq 1..(p - 1) /\ p - 1 \in Nat
    BY <1>3
  <2>2. IsFiniteSet(1..(p - 1)) /\ Cardinality(1..(p - 1)) = p - 1
    BY <2>1, FS_Interval
  <2>3. Cardinality(P) <= p - 1
    BY <2>1, <2>2, FS_Subset
  <2> QED BY <1>1, <2>3
<1>4. Cardinality(P) <= n
  BY <1>1, FS_Subset
<1> QED BY <1>1, <1>2, <1>3, <1>4

\* The numbers that can be read from behind the token at, and how many they are.
NumbersBehind(at, good, width) ==
  {k \in 1..width : good /\ at + k <= Len(file) /\ \A l \in 1..k : IsNumber(file[at + l])}
ReadBehind(at, good, width) == Cardinality(NumbersBehind(at, good, width))

LEMMA ReadBehindIs ==
  ASSUME file \in Seq(Token), NEW at \in Nat, at <= Len(file), NEW good \in BOOLEAN, NEW width \in Nat
  PROVE  /\ ReadBehind(at, good, width) \in 0..width
         /\ at + ReadBehind(at, good, width) <= Len(file)
         /\ \A k \in 1..width :
              k <= ReadBehind(at, good, width)
                <=> good /\ at + k <= Len(file) /\ \A l \in 1..k : IsNumber(file[at + l])
<1> DEFINE P == NumbersBehind(at, good, width)
           read == ReadBehind(at, good, width)
<1>1. P \in SUBSET (1..width) /\ Len(file) \in Nat
  BY DEF NumbersBehind
<1>2. ASSUME NEW j \in 1..width, NEW k \in 1..width, j < k, k \in P PROVE j \in P
  <2>1. /\ good /\ at + k <= Len(file) /\ \A l \in 1..k : IsNumber(file[at + l])
        /\ j \in Nat /\ k \in Nat
    BY <1>2 DEF NumbersBehind
  <2>2. at + j <= Len(file) /\ \A l \in 1..j : l \in 1..k
    BY <1>1, <1>2, <2>1
  <2> QED BY <2>1, <2>2 DEF NumbersBehind
<1>3. read = Cardinality(P)
  BY DEF ReadBehind
<1> HIDE DEF P, read
<1>4. read \in 0..width /\ \A p \in 1..width : p \in P <=> p <= read
  BY <1>1, <1>2, <1>3, PrefixSet
<1>5. at + read <= Len(file)
  <2>1. CASE read = 0
    BY <1>1, <2>1
  <2>2. CASE read # 0
    <3>1. read \in 1..width /\ read <= read
      BY <1>4, <2>2
    <3>2. read \in P
      BY <1>4, <3>1
    <3> QED BY <3>2 DEF NumbersBehind, P
  <2> QED BY <2>1, <2>2
<1> QED BY <1>4, <1>5 DEF read, P, NumbersBehind

\* What Extract returns when it has read so many numbers.
Extracted(at, ended, failed, x, width, read) ==
  [pos  |-> at + read,
   eof  |-> ended \/ ((~ ended /\ ~ failed) /\ at + read = Len(file) /\ (read < width \/ ~ separated)),
   fail |-> failed \/ read < width,
   x    |-> [k \in DOMAIN x |->
               IF k <= read THEN file[at + k]
               ELSE IF k = read + 1 /\ k <= width /\ (~ ended /\ ~ failed) /\ ~ (at + read = Len(file)) THEN Zero
               ELSE x[k]]]

LEMMA ExtractIs ==
  ASSUME NEW at, NEW ended, NEW failed, NEW x, NEW width
  PROVE  Extract(at, ended, failed, x, width)
           = Extracted(at, ended, failed, x, width, ReadBehind(at, ~ ended /\ ~ failed, width))
BY DEF Extract, Extracted, ReadBehind, NumbersBehind

\* There are no tags in a text file that is read as it was written.
LEMMA NoTags ==
  ASSUME graph \in Graphs, ~ TextTags, Format = "text", NEW r \in 1..RecordCount
  PROVE  TagSize(r) = 0 /\ RecordLength(r) = Width(KindOf(r))
<1> DEFINE a == graph.nodeTags
           b == graph.edgeTags
<1>1. a \in Seq({0, 1}) /\ b \in Seq({0, 1})
  BY FileAssumption
<1> HIDE DEF a, b
<1>2. a \o b \in Seq({0, 1}) /\ Len(a) \in Nat /\ Len(b) \in Nat
      /\ Len(a \o b) = Len(a) + Len(b)
      /\ \A n \in 1..(Len(a) + Len(b)) : (a \o b)[n] = IF n <= Len(a) THEN a[n] ELSE b[n - Len(a)]
  BY <1>1, ConcatProperties
<1>3. DOMAIN (a \o b) = 1..(Len(a) + Len(b))
  BY <1>2
<1>4. \A n \in 1..(Len(a) + Len(b)) : (a \o b)[n] # 1
  BY <1>3 DEF TextTags, Range, a, b
<1>5. r \in 1..(Len(a) + Len(b)) /\ NodeCount = Len(a)
  BY DEF RecordCount, NodeCount, EdgeCount, a, b
<1>6. TagSize(r) # 1
  BY <1>2, <1>4, <1>5 DEF TagSize, a, b
<1>7. TagSize(r) = 0
  BY <1>6, RecordIs
<1> QED BY <1>7, RecordIs

\* A record of a text file: it is read as it was written, unless the file ends in
\* it or with it.
LEMMA TextRecord ==
  ASSUME FileInv, ~ TextTags, Format = "text", NEW r \in 1..RecordCount,
         pos = EndOf(r - 1), pos <= Len(file), NEW x, DOMAIN x = 1..5, NEW w, w = Width(KindOf(r)),
         eof \in BOOLEAN, fail \in BOOLEAN, ~ eof, ~ fail,
         NEW s, s = Extract(pos, eof, fail, x, w)
  PROVE  /\ complete => ~ s.eof
         /\ ~ s.eof =>
              /\ ~ s.fail /\ s.pos = EndOf(r)
              /\ s.x = [k \in 1..5 |-> IF k \in 1..w THEN <<KindOf(r), NumberOf(r), k>> ELSE x[k]]
<1>1. /\ graph \in Graphs /\ file \in Seq(Token) /\ Len(file) \in Nat /\ RecordCount \in Nat
  BY GraphIs DEF FileInv
<1>2. /\ w \in {4, 5} /\ w \in Nat /\ RecordLength(r) = w /\ KindOf(r) \in {"node", "edge"}
  BY <1>1, RecordIs, NoTags DEF Kinds
<1>3. /\ pos \in Nat /\ EndOf(r) = pos + w
      /\ \A k \in 1..w : Tokens(r)[k] = <<KindOf(r), NumberOf(r), k>>
  <2>1. r \in 0..RecordCount /\ r - 1 \in 0..RecordCount
    BY <1>1
  <2>2. EndOf(r) = EndOf(r - 1) + RecordLength(r) /\ EndOf(r - 1) \in Nat
    BY <1>1, <2>1, EndOfIs
  <2> QED BY <1>1, <1>2, <2>2, TokensAre
<1>4. ASSUME NEW k \in 1..w, pos + k <= Len(file)
      PROVE  /\ IsNumber(file[pos + k])
             /\ \/ file[pos + k] = <<KindOf(r), NumberOf(r), k>>
                \/ ~ separated /\ pos + k = Len(file)
  <2>1. \/ file[pos + k] = Tokens(r)[k]
        \/ ~ separated /\ pos + k = Len(file) /\ file[pos + k] = <<"partial">>
    BY <1>2, <1>4, RecordToken
  <2>2. CASE file[pos + k] = Tokens(r)[k]
    <3>1. file[pos + k] = <<KindOf(r), NumberOf(r), k>>
      BY <1>3, <2>2
    <3>2. IsNumber(file[pos + k])
      BY <1>2, <3>1 DEF IsNumber
    <3> QED BY <3>1, <3>2
  <2>3. CASE ~ separated /\ pos + k = Len(file) /\ file[pos + k] = <<"partial">>
    BY <2>3 DEF IsNumber
  <2> QED BY <2>1, <2>2, <2>3
<1>. PICK good \in BOOLEAN : good = (~ eof /\ ~ fail)
  OBVIOUS
<1> DEFINE read == ReadBehind(pos, good, w)
           y == [k \in DOMAIN x |->
                  IF k <= read THEN file[pos + k]
                  ELSE IF k = read + 1 /\ k <= w /\ (~ eof /\ ~ fail) /\ ~ (pos + read = Len(file)) THEN Zero
                  ELSE x[k]]
<1>5. /\ s.pos = pos + read
      /\ s.eof <=> (pos + read = Len(file) /\ (read < w \/ ~ separated))
      /\ s.fail <=> (read < w)
      /\ s.x = y
  <2>1. s = Extracted(pos, eof, fail, x, w, read)
    BY ExtractIs
  <2> HIDE DEF read
  <2>2. s.pos = pos + read
    BY <2>1 DEF Extracted
  <2> DEFINE e == eof \/ ((~ eof /\ ~ fail) /\ pos + read = Len(file) /\ (read < w \/ ~ separated))
             f == fail \/ read < w
  <2>3. s = [pos |-> pos + read, eof |-> e, fail |-> f, x |-> y]
    BY Zenon, <2>1 DEF Extracted
  <2>4. (e <=> (pos + read = Len(file) /\ (read < w \/ ~ separated))) /\ (f <=> read < w)
    OBVIOUS
  <2> HIDE DEF e, f, y
  <2>5. s.eof = e
    BY <2>3
  <2>6. s.fail = f
    BY <2>3
  <2>7. s.x = y
    BY <2>3
  <2> QED BY Zenon, <2>2, <2>4, <2>5, <2>6, <2>7
<1>12. read \in 0..w /\ pos + read <= Len(file)
      /\ \A k \in 1..w : k <= read <=> good /\ pos + k <= Len(file) /\ \A l \in 1..k : IsNumber(file[pos + l])
  BY <1>1, <1>2, <1>3, ReadBehindIs
<1>6. ASSUME NEW k \in 1..w PROVE k <= read <=> pos + k <= Len(file)
  <2>2. pos + k <= Len(file) => \A l \in 1..k : l \in 1..w /\ pos + l <= Len(file)
    BY <1>1, <1>2, <1>3
  <2> HIDE DEF read
  <2>3. (\A l \in 1..k : IsNumber(file[pos + l])) \/ ~ (pos + k <= Len(file))
    BY <1>4, <2>2
  <2> QED BY <1>12, <2>3
<1> HIDE DEF read, y
<1>7. read < w => pos + read = Len(file)
  <2> SUFFICES ASSUME read < w PROVE pos + read = Len(file)
    OBVIOUS
  <2>1. read + 1 \in 1..w /\ ~ (read + 1 <= read)
    BY <1>2, <1>5, <1>12
  <2>2. ~ (pos + (read + 1) <= Len(file))
    BY <1>6, <2>1
  <2> QED BY <1>1, <1>2, <1>3, <1>5, <1>12, <2>2
<1>8. ASSUME complete PROVE ~ s.eof
  <2>1. separated /\ Len(file) = EndOf(RecordCount)
    BY <1>8 DEF FileInv
  <2>2. EndOf(r) <= EndOf(RecordCount)
    <3>1. w \in 1..RecordLength(r)
      BY <1>2
    <3> QED BY <1>1, <3>1, PlaceIs
  <2>3. pos + w <= Len(file) /\ w \in 1..w
    BY <1>2, <1>3, <2>1, <2>2
  <2>4. w <= read
    BY <1>6, <2>3
  <2>5. ~ (read < w)
    BY <1>2, <1>5, <1>12, <2>4
  <2> QED BY <1>5, <1>12, <2>1, <2>5
<1>9. ASSUME ~ s.eof PROVE read = w /\ ~ s.fail /\ s.pos = EndOf(r) /\ (pos + w = Len(file) => separated)
  <2>1. ~ (read < w)
    BY <1>5, <1>12, <1>7, <1>9
  <2>2. read = w
    BY <1>2, <1>5, <1>12, <2>1
  <2> QED BY <1>3, <1>5, <1>12, <1>9, <2>1, <2>2
<1>10. ASSUME ~ s.eof
       PROVE  s.x = [k \in 1..5 |-> IF k \in 1..w THEN <<KindOf(r), NumberOf(r), k>> ELSE x[k]]
  <2>1. read = w /\ (pos + w = Len(file) => separated)
    BY <1>9, <1>10
  <2>2. ASSUME NEW k \in 1..5
        PROVE  y[k] = IF k \in 1..w THEN <<KindOf(r), NumberOf(r), k>> ELSE x[k]
    <3>1. k \in Nat /\ k >= 1
      BY <1>10
    <3>2. CASE k \in 1..w
      <4>1. pos + k <= Len(file)
        BY <1>6, <2>1, <3>2
      <4>2. pos + k = Len(file) => k = w
        BY <1>1, <1>2, <1>3, <1>5, <1>12, <2>1, <3>2
      <4>3. file[pos + k] = <<KindOf(r), NumberOf(r), k>>
        BY <1>4, <2>1, <3>2, <4>1, <4>2
      <4>4. k <= read
        BY <2>1, <3>2
      <4> QED BY <3>2, <4>3, <4>4 DEF y
    <3>3. CASE k \notin 1..w
      <4>1. ~ (k <= read) /\ ~ (k <= w)
        BY <1>2, <2>1, <3>1, <3>3
      <4> QED BY <3>3, <4>1 DEF y
    <3> QED BY <3>2, <3>3
  <2>3. y = [k \in 1..5 |-> y[k]]
    BY DEF y
  <2>4. [k \in 1..5 |-> y[k]]
          = [k \in 1..5 |-> IF k \in 1..w THEN <<KindOf(r), NumberOf(r), k>> ELSE x[k]]
    BY <2>2
  <2> QED BY <1>5, <2>3, <2>4
<1> QED BY <1>8, <1>9, <1>10

\* A record of a binary file: whether its size is there, and where it ends.
LEMMA BinaryRecord ==
  ASSUME FileInv, Format = "binary", NEW r \in 1..RecordCount, pos = EndOf(r - 1),
         NEW w, w = Width(KindOf(r)), NEW behind, behind = pos + w + 1,
         NEW size, size = IF Past(behind) THEN 0 ELSE file[behind][2]
  PROVE  /\ w \in {4, 5} /\ behind \in Nat /\ size \in {0, 1}
         /\ \A k \in 1..w : Past(pos + k) \/ file[pos + k] = <<KindOf(r), NumberOf(r), k>>
         /\ ~ Past(behind) => size = TagSize(r) /\ behind + size = EndOf(r)
         /\ Fits(behind + size) => ~ Past(behind)
         /\ complete => ~ Past(behind) /\ Fits(behind + size)
<1>1. /\ graph \in Graphs /\ file \in Seq(Token) /\ Len(file) \in Nat /\ RecordCount \in Nat /\ separated
  BY GraphIs DEF FileInv
<1>2. /\ w \in {4, 5} /\ TagSize(r) \in {0, 1} /\ RecordLength(r) = w + 1 + TagSize(r)
  BY <1>1, RecordIs
<1>3. /\ pos \in Nat /\ EndOf(r) = pos + RecordLength(r) /\ EndOf(r) <= EndOf(RecordCount)
      /\ EndOf(RecordCount) \in Nat
      /\ \A k \in 1..w : Tokens(r)[k] = <<KindOf(r), NumberOf(r), k>>
      /\ Tokens(r)[w + 1] = <<"size", TagSize(r)>>
  <2>1. r \in 0..RecordCount /\ r - 1 \in 0..RecordCount /\ RecordCount \in 0..RecordCount /\ r <= RecordCount
    BY <1>1
  <2>2. EndOf(r) = EndOf(r - 1) + RecordLength(r) /\ EndOf(r - 1) \in Nat /\ EndOf(RecordCount) \in Nat
    BY <1>1, <2>1, EndOfIs
  <2>3. EndOf(r) <= EndOf(RecordCount)
    BY <1>1, <2>1, EndOfIs
  <2> QED BY <1>1, <2>2, <2>3, TokensAre
<1>4. ASSUME NEW k \in 1..(w + 1), ~ Past(pos + k) PROVE file[pos + k] = Tokens(r)[k]
  <2>1. k \in 1..RecordLength(r)
    BY <1>2
  <2>2. pos + k <= Len(file)
    BY <1>1, <1>2, <1>3, <1>4 DEF Past
  <2> QED BY <1>1, <2>1, <2>2, RecordToken
<1>5. ASSUME NEW k \in 1..w, ~ Past(pos + k) PROVE file[pos + k] = <<KindOf(r), NumberOf(r), k>>
  <2>1. k \in 1..(w + 1)
    BY <1>2
  <2> QED BY <1>3, <1>4, <1>5, <2>1
<1>6. ~ Past(behind) => size = TagSize(r)
  <2> SUFFICES ASSUME ~ Past(behind) PROVE size = TagSize(r)
    OBVIOUS
  <2>1. w + 1 \in 1..(w + 1) /\ behind = pos + (w + 1)
    BY <1>2, <1>3
  <2>2. file[behind] = Tokens(r)[w + 1]
    BY <1>4, <2>1
  <2>3. file[behind] = <<"size", TagSize(r)>>
    BY <1>3, <2>2
  <2> QED BY <2>3
<1>7. size \in {0, 1} /\ behind \in Nat
  BY <1>2, <1>3, <1>6
<1>8. ~ Past(behind) => behind + size = EndOf(r)
  BY <1>2, <1>3, <1>6
<1>9. Fits(behind + size) => ~ Past(behind)
  BY <1>1, <1>7 DEF Fits, Past
<1>10. ASSUME complete PROVE ~ Past(behind) /\ Fits(behind + size)
  <2>1. Len(file) = EndOf(RecordCount)
    BY <1>10 DEF FileInv
  <2>2. behind <= EndOf(r)
    BY <1>2, <1>3
  <2>3. ~ Past(behind)
    BY <1>1, <1>2, <1>3, <1>7, <2>1, <2>2 DEF Past
  <2> QED BY <1>3, <1>8, <2>1, <2>3 DEF Fits
<1> QED BY <1>2, <1>5, <1>6, <1>7, <1>8, <1>9, <1>10

\* The record that a reader is about to read.
LEMMA NextRecord ==
  ASSUME graph \in Graphs, phase \in Kinds, i \in Nat,
         i < IF phase = "node" THEN NodeCount ELSE EdgeCount
  PROVE  /\ Before + i + 1 \in 1..RecordCount /\ (Before + i + 1) - 1 = Before + i
         /\ KindOf(Before + i + 1) = phase /\ NumberOf(Before + i + 1) = i + 1
         /\ TagSize(Before + i + 1)
              = IF phase = "node" THEN graph.nodeTags[i + 1] ELSE graph.edgeTags[i + 1]
         /\ Before \in Nat /\ Before + i + 1 = Before + (i + 1)
<1>1. NodeCount \in Nat /\ EdgeCount \in Nat /\ RecordCount = NodeCount + EdgeCount
  BY GraphIs
<1>2. CASE phase = "node"
  <2>1. Before + i + 1 = i + 1 /\ i + 1 <= NodeCount /\ i + 1 \in 1..RecordCount
    BY <1>1, <1>2 DEF Before
  <2> QED BY <1>1, <1>2, <2>1 DEF Before, KindOf, NumberOf, TagSize
<1>3. CASE phase = "edge"
  <2>1. PICK r : r = Before + i + 1
    OBVIOUS
  <2>2. /\ r = NodeCount + i + 1 /\ ~ (r <= NodeCount) /\ r \in 1..RecordCount
        /\ r - NodeCount = i + 1 /\ r - 1 = Before + i /\ Before = NodeCount
    BY <1>1, <1>3, <2>1 DEF Before
  <2> QED BY <1>1, <1>3, <2>1, <2>2 DEF KindOf, NumberOf, TagSize
<1> QED BY <1>2, <1>3 DEF Kinds

\* Calls that have been made stay as they are.
LEMMA CallsKept ==
  ASSUME graph' = graph, NEW kind, delivered'[kind] = delivered[kind]
  PROVE  \A n : /\ IsWritten(kind, n)' <=> IsWritten(kind, n)
                /\ Handed(kind, n)' <=> Handed(kind, n)
<1>1. \A n : IsWritten(kind, n)' <=> IsWritten(kind, n)
  BY GraphKept DEF IsWritten
<1> QED BY <1>1 DEF Handed

LEMMA CallAdded ==
  ASSUME graph' = graph, NEW kind, NEW R, delivered[kind] \in Seq(R), NEW rec \in R,
         delivered'[kind] = Append(delivered[kind], rec), NEW n \in Nat, n = Len(delivered[kind])
  PROVE  /\ Len(delivered'[kind]) = n + 1 /\ DOMAIN delivered'[kind] = 1..(n + 1)
         /\ DOMAIN delivered[kind] = 1..n
         /\ \A m \in 1..n : IsWritten(kind, m)' <=> IsWritten(kind, m)
         /\ rec = Written(kind, n + 1) => IsWritten(kind, n + 1)'
<1>1. /\ Len(delivered'[kind]) = n + 1 /\ DOMAIN delivered'[kind] = 1..(n + 1)
      /\ DOMAIN delivered[kind] = 1..n
      /\ \A m \in 1..n : delivered'[kind][m] = delivered[kind][m]
      /\ delivered'[kind][n + 1] = rec
  <2> PICK d : d = delivered[kind]
    OBVIOUS
  <2> PICK e : e = Append(d, rec)
    OBVIOUS
  <2>1. Len(e) = n + 1 /\ DOMAIN e = 1..(n + 1) /\ DOMAIN d = 1..n
        /\ (\A m \in 1..n : e[m] = d[m]) /\ e[n + 1] = rec
    BY AppendProperties
  <2> QED BY <2>1
<1>2. ASSUME NEW m \in 1..n PROVE IsWritten(kind, m)' <=> IsWritten(kind, m)
  <2>1. m \in 1..(n + 1)
    OBVIOUS
  <2> QED BY <1>1, <2>1, GraphKept DEF IsWritten
<1>3. ASSUME rec = Written(kind, n + 1) PROVE IsWritten(kind, n + 1)'
  <2> PICK m : m = n + 1
    OBVIOUS
  <2>1. m \in DOMAIN delivered'[kind] /\ delivered'[kind][m] = Written(kind, m)'
    BY <1>1, <1>3, GraphKept
  <2>2. IsWritten(kind, m)'
    BY <2>1 DEF IsWritten
  <2> QED BY <2>2
<1> QED BY <1>1, <1>2, <1>3

\* A full record is what Written says.
LEMMA WrittenIs ==
  ASSUME graph \in Graphs, phase \in Kinds, NEW n \in Nat, NEW x \in [1..5 -> Values],
         x = [k \in 1..5 |-> IF k \in 1..Width(phase) THEN <<phase, n, k>> ELSE Zero],
         NEW t, t = IF Format = "text" THEN 0
                    ELSE IF phase = "node" THEN graph.nodeTags[n] ELSE graph.edgeTags[n]
  PROVE  [x |-> x, tags |-> t] = Written(phase, n)
<1>1. Width(phase) \in {4, 5}
  BY GraphIs DEF Width
<1>2. x = [k \in 1..5 |-> IF k <= Width(phase) THEN <<phase, n, k>> ELSE Zero]
  BY <1>1
<1> QED BY <1>2 DEF Written

-----------------------------------------------------------------------------
(* One more record is read.                                                *)

\* What a reader in a loop knows of the state.
LEMMA ReaderTypes ==
  ASSUME FileInv, ValuesInv, phase \in Kinds
  PROVE  /\ graph \in Graphs /\ file \in Seq(Token) /\ Len(file) \in Nat
         /\ NodeCount \in Nat /\ EdgeCount \in Nat /\ RecordCount = NodeCount + EdgeCount
         /\ count \in [Kinds -> Nat] /\ i \in Nat /\ i <= count[phase] /\ count.node \in Nat
         /\ pos \in Nat /\ eof \in BOOLEAN /\ fail \in BOOLEAN
         /\ delivered.node \in Seq([x : [1..5 -> Values], tags : {0, 1}])
         /\ delivered.edge \in Seq([x : [1..5 -> Values], tags : {0, 1}])
         /\ Len(delivered.node) \in Nat /\ Len(delivered.edge) \in Nat
         /\ DOMAIN delivered.node = 1..Len(delivered.node)
         /\ DOMAIN delivered.edge = 1..Len(delivered.edge)
         /\ values[phase] \in [1..5 -> Values]
<1>1. graph \in Graphs /\ file \in Seq(Token) /\ Len(file) \in Nat
  BY DEF FileInv
<1>2. NodeCount \in Nat /\ EdgeCount \in Nat /\ RecordCount = NodeCount + EdgeCount
  BY <1>1, GraphIs
<1>3. count \in [Kinds -> Nat] /\ i \in 0..count[phase] /\ count[phase] \in Nat /\ count.node \in Nat
  BY DEF ValuesInv, Kinds
<1>4. i \in Nat /\ i <= count[phase]
  BY <1>3
<1>5. pos \in Nat /\ eof \in BOOLEAN /\ fail \in BOOLEAN /\ values[phase] \in [1..5 -> Values]
  BY DEF ValuesInv, Kinds
<1> DEFINE T == [x : [1..5 -> Values], tags : {0, 1}]
<1>6. delivered.node \in Seq(T) /\ delivered.edge \in Seq(T)
  BY DEF ValuesInv, Kinds
<1> HIDE DEF T
<1>7. /\ Len(delivered.node) \in Nat /\ Len(delivered.edge) \in Nat
      /\ DOMAIN delivered.node = 1..Len(delivered.node)
      /\ DOMAIN delivered.edge = 1..Len(delivered.edge)
  BY <1>6
<1> QED BY <1>1, <1>2, <1>3, <1>4, <1>5, <1>6, <1>7 DEF T

\* A reader for which all has gone well so far is at the next record.
LEMMA AtRecord ==
  ASSUME FileInv, ValuesInv, LoopInv, phase \in Kinds, Whole, i < count[phase]
  PROVE  /\ CountsRight /\ ~ fail /\ pos = EndOf(Before + i)
         /\ Handed(phase, i) /\ Len(delivered[phase]) = i /\ i \in Nat
         /\ i < IF phase = "node" THEN NodeCount ELSE EdgeCount
<1>1. /\ CountsRight /\ ~ fail /\ pos = EndOf(Before + i)
      /\ Handed(phase, i) /\ Len(delivered[phase]) = i
  BY DEF LoopInv
<1>2. count[phase] = IF phase = "node" THEN NodeCount ELSE EdgeCount
  BY <1>1 DEF CountsRight, Kinds
<1>3. i \in Nat
  BY ReaderTypes
<1> QED BY <1>1, <1>2, <1>3

\* The loop goes on with the record that has been read: it is as it was written,
\* or nothing will be read any more.
LEMMA LoopGoesOn ==
  ASSUME FileInv, ValuesInv, LoopInv, OnlyTheLastIsWrong, ~ TextTags, phase \in Kinds, Whole,
         i < count[phase], NEW kind, kind = phase, NEW n, n = i, UNCHANGED <<graph, written, file, complete, separated, phase, count>>,
         i' = n + 1,
         \A k \in {"header"} \cup Kinds : k # kind => delivered'[k] = delivered[k],
         (complete => Whole)',
         Whole' => ~ fail' /\ pos' = EndOf(Before + n + 1) /\ Handed(kind, n + 1)'
                   /\ Len(delivered'[kind]) = n + 1,
         Handed(kind, n)', Len(delivered'[kind]) \in Nat, Len(delivered'[kind]) <= n + 1,
         DOMAIN delivered'[kind] = 1..Len(delivered'[kind]),
         \A m \in DOMAIN delivered'[kind] :
           IsWritten(kind, m)' \/ (Format = "text" /\ ~ Whole' /\ m = n + 1)
  PROVE  LoopInv' /\ OnlyTheLastIsWrong'
<1>1. /\ CountsRight /\ Handed(phase, i) /\ Len(delivered[phase]) = i /\ i \in Nat
      /\ i < IF phase = "node" THEN NodeCount ELSE EdgeCount
  BY AtRecord
<1>2. /\ graph \in Graphs /\ NodeCount \in Nat /\ EdgeCount \in Nat
      /\ DOMAIN delivered.node = 1..Len(delivered.node) /\ Len(delivered.node) \in Nat
      /\ DOMAIN delivered.edge = 1..Len(delivered.edge) /\ Len(delivered.edge) \in Nat
  BY ReaderTypes
<1>3. /\ NodeCount' = NodeCount /\ EdgeCount' = EdgeCount /\ Format' = Format /\ GraphType' = GraphType
      /\ phase' = phase /\ count' = count /\ Before' = Before /\ TextTags' = TextTags
      /\ \A r : EndOf(r)' = EndOf(r)
  BY GraphKept DEF Before
<1>4. delivered'.header = delivered.header
  BY DEF Kinds
<1>5. CountsRight'
  BY <1>1, <1>3, <1>4 DEF CountsRight
<1>6. (count.node = delivered.header.nodeCount)'
  BY <1>3, <1>4 DEF LoopInv
<1>7. phase = "edge" => delivered'.node = delivered.node
  BY DEF Kinds
<1>8. phase = "node" => delivered'.edge = delivered.edge
  BY DEF Kinds
<1>9. phase = "edge" => /\ \A l : IsWritten("node", l)' <=> IsWritten("node", l)
                        /\ \A l : Handed("node", l)' <=> Handed("node", l)
  BY <1>7, CallsKept
<1>10. phase = "edge" => /\ Len(delivered.node) <= NodeCount
                         /\ count.node = 0 \/ Handed("node", NodeCount - 1)
                         /\ Handed("node", NodeCount)
                         /\ Format = "binary" => \A l \in DOMAIN delivered.node : IsWritten("node", l)
  BY DEF LoopInv
<1>11. (phase = "node" => delivered.edge = << >>)'
  BY <1>3, <1>8 DEF LoopInv
<1>12. (phase = "edge" =>
          /\ Len(delivered.node) <= NodeCount
          /\ count.node = 0 \/ (CountsRight /\ Handed("node", NodeCount - 1))
          /\ Whole \/ i > 0 => Handed("node", NodeCount)
          /\ Format = "binary" => \A l \in DOMAIN delivered.node : IsWritten("node", l))'
  <2>1. SUFFICES ASSUME phase = "edge"
                 PROVE (/\ Len(delivered.node) <= NodeCount
                        /\ count.node = 0 \/ (CountsRight /\ Handed("node", NodeCount - 1))
                        /\ Whole \/ i > 0 => Handed("node", NodeCount)
                        /\ Format = "binary" => \A l \in DOMAIN delivered.node : IsWritten("node", l))'
    BY <1>3
  <2>2. (Len(delivered.node) <= NodeCount)'
    BY <1>3, <1>7, <1>10, <2>1
  <2> PICK m : m = NodeCount - 1
    OBVIOUS
  <2>3. (count.node = 0 \/ Handed("node", m))'
    BY <1>3, <1>9, <1>10, <2>1
  <2>4. (count.node = 0 \/ Handed("node", NodeCount - 1))'
    BY <1>3, <2>3
  <2> PICK all : all = NodeCount
    OBVIOUS
  <2>5. Handed("node", all)'
    BY <1>9, <1>10, <2>1
  <2>6. Handed("node", NodeCount)'
    BY <1>3, <2>5
  <2>7. (Format = "binary" => \A q \in DOMAIN delivered.node : IsWritten("node", q))'
    BY <1>3, <1>7, <1>9, <1>10, <2>1
  <2> QED BY <1>5, <2>2, <2>4, <2>6, <2>7
<1>13. (Whole => /\ CountsRight /\ ~ fail
                 /\ pos = EndOf(Before + i)
                 /\ Handed(phase, i) /\ Len(delivered[phase]) = i)'
  <2>1. SUFFICES ASSUME Whole'
                 PROVE (/\ CountsRight /\ ~ fail
                        /\ pos = EndOf(Before + i)
                        /\ Handed(phase, i) /\ Len(delivered[phase]) = i)'
    OBVIOUS
  <2> PICK r : r = Before + n + 1
    OBVIOUS
  <2>2. r = Before + (n + 1)
    BY <1>1, <1>2, NextRecord
  <2>3. pos' = EndOf(r)' /\ r = (Before + i)'
    BY <1>3, <2>1, <2>2
  <2>4. (pos = EndOf(Before + i))'
    BY <2>3
  <2> PICK m : m = n + 1
    OBVIOUS
  <2>5. Handed(kind, m)'
    BY <2>1
  <2>6. (Handed(phase, i))'
    BY <1>3, <2>5
  <2>7. (Len(delivered[phase]) = i)'
    BY <1>3, <2>1
  <2> QED BY <1>5, <2>1, <2>4, <2>6, <2>7
<1>14. (i > 0 => CountsRight /\ Handed(phase, i - 1))'
  <2> PICK m : m = n
    OBVIOUS
  <2>1. m = (i - 1)' /\ kind = phase'
    BY <1>1, <1>3
  <2>2. Handed(kind, m)'
    OBVIOUS
  <2>3. (Handed(phase, i - 1))'
    BY <2>1, <2>2
  <2> QED BY <1>5, <2>3
<1>15. (Len(delivered[phase]) <= i)'
  BY <1>3
<1>16. (\A m \in DOMAIN delivered[phase] : IsWritten(phase, m) \/ (Format = "text" /\ ~ Whole /\ m = i))'
  BY <1>3
<1>17. LoopInv'
  BY <1>6, <1>11, <1>12, <1>13, <1>14, <1>15, <1>16 DEF LoopInv
<1>18. OnlyTheLastIsWrong'
  <2>1. SUFFICES ASSUME NEW k \in {"node", "edge"}, NEW m, m \in DOMAIN delivered'[k], ~ IsWritten(k, m)'
                 PROVE  /\ Format' = "text" /\ m = Len(delivered'[k])
                        /\ k = "node" => delivered'.edge = << >>
    BY DEF OnlyTheLastIsWrong
  <2>2. CASE k = kind
    <3>1. Format = "text" /\ ~ Whole' /\ m = n + 1
      BY <2>1, <2>2
    <3>2. m \in Nat /\ m <= Len(delivered'[kind])
      BY <2>1, <2>2
    <3>3. m = Len(delivered'[k])
      BY <1>1, <2>2, <3>1, <3>2
    <3>4. k = "node" => delivered'.edge = << >>
      BY <1>8, <2>2 DEF LoopInv
    <3> QED BY <1>3, <3>1, <3>3, <3>4
  <2>3. CASE k # kind
    <3>1. delivered'[k] = delivered[k] /\ (\A q : IsWritten(k, q)' <=> IsWritten(k, q))
      BY <2>3, CallsKept DEF Kinds
    <3>2. CASE k = "node"
      <4>1. phase = "edge"
        BY <2>3, <3>2 DEF Kinds
      <4>2. m \in 1..NodeCount
        BY <1>2, <1>10, <2>1, <3>1, <3>2, <4>1
      <4>3. IsWritten("node", m)
        BY <1>10, <4>1, <4>2 DEF Handed
      <4> QED BY <2>1, <3>1, <3>2, <4>3
    <3>3. CASE k = "edge"
      <4>1. phase = "node" /\ delivered.edge = << >>
        BY <2>3, <3>3 DEF Kinds, LoopInv
      <4>2. DOMAIN delivered.edge = {}
        BY <4>1
      <4> QED BY <2>1, <3>1, <3>3, <4>2
    <3> QED BY <3>2, <3>3
  <2> QED BY <2>2, <2>3
<1> QED BY <1>17, <1>18

LEMMA TextLoopStep ==
  ASSUME FileInv, ValuesInv, LoopInv, OnlyTheLastIsWrong, ~ TextTags, ReadText, ValuesInv'
  PROVE  LoopInv' /\ OnlyTheLastIsWrong'
<1> DEFINE T == [x : [1..5 -> Values], tags : {0, 1}]
           w == Width(phase)
           s == Extract(pos, eof, fail, values[phase], w)
<1>1. /\ Format = "text" /\ phase \in Kinds /\ i < count[phase] /\ ~ eof
      /\ pos' = s.pos /\ eof' = s.eof /\ fail' = s.fail
      /\ values' = [values EXCEPT ![phase] = s.x]
      /\ delivered' = [delivered EXCEPT ![phase] = Append(@, [x |-> s.x, tags |-> 0])]
      /\ i' = i + 1
      /\ UNCHANGED <<graph, written, file, complete, separated, phase, count>>
  BY DEF ReadText, AtEnd, Kinds
<1> PICK kind : kind = phase
  OBVIOUS
<1> PICK n : n = i
  OBVIOUS
<1>2. Whole /\ Format' = "text" /\ (Whole' <=> ~ eof')
  BY <1>1, GraphKept DEF Whole
<1>3. /\ CountsRight /\ ~ fail /\ pos = EndOf(Before + n)
      /\ Handed(kind, n) /\ Len(delivered[kind]) = n /\ n \in Nat
      /\ n < IF phase = "node" THEN NodeCount ELSE EdgeCount
  BY <1>1, <1>2, AtRecord
<1>4. /\ graph \in Graphs /\ eof \in BOOLEAN /\ fail \in BOOLEAN /\ pos <= Len(file)
      /\ values[kind] \in [1..5 -> Values] /\ values \in [Kinds -> [1..5 -> Values]]
      /\ delivered[kind] \in Seq(T)
      /\ DOMAIN delivered = {"header"} \cup Kinds /\ kind \in Kinds
      /\ GraphType = "standard" => values.edge[5] = Zero
  <2>1. delivered[kind] \in Seq(T) /\ DOMAIN delivered = {"header"} \cup Kinds
    BY <1>1 DEF ValuesInv
  <2>2. /\ values \in [Kinds -> [1..5 -> Values]] /\ pos <= Len(file)
        /\ GraphType = "standard" => values.edge[5] = Zero
    BY <1>1 DEF ValuesInv
  <2> HIDE DEF T
  <2> QED BY <1>1, <2>1, <2>2, ReaderTypes
<1> PICK r : r = Before + n + 1
  OBVIOUS
<1>5. /\ r \in 1..RecordCount /\ r - 1 = Before + n /\ KindOf(r) = kind /\ NumberOf(r) = n + 1
  BY <1>1, <1>3, <1>4, NextRecord
<1> PICK q : q = s
  OBVIOUS
<1> PICK v : v = values[kind]
  OBVIOUS
<1>6. /\ complete => ~ q.eof
      /\ ~ q.eof => /\ ~ q.fail /\ q.pos = EndOf(r)
                    /\ q.x = [k \in 1..5 |-> IF k \in 1..w THEN <<KindOf(r), NumberOf(r), k>> ELSE v[k]]
  <2>1. pos = EndOf(r - 1) /\ DOMAIN v = 1..5 /\ w = Width(KindOf(r)) /\ q = Extract(pos, eof, fail, v, w)
    BY <1>3, <1>4, <1>5
  <2> HIDE DEF w, s
  <2> QED BY <1>1, <1>3, <1>4, <1>5, <2>1, TextRecord
<1> HIDE DEF s, w
<1>7. q.x \in [1..5 -> Values]
  <2>1. values' = [values EXCEPT ![kind] = q.x] /\ phase' = phase /\ graph' = graph
    BY <1>1
  <2>2. values'[kind] = q.x
    BY <1>4, <2>1
  <2>3. Values' = Values
    BY <2>1, GraphKept
  <2>4. values' \in [Kinds -> [1..5 -> Values']]
    BY DEF ValuesInv
  <2> QED BY <1>4, <2>2, <2>3, <2>4
<1> PICK rec : rec = [x |-> q.x, tags |-> 0]
  OBVIOUS
<1>8. rec \in T
  BY <1>7
<1>9. delivered'[kind] = Append(delivered[kind], rec)
      /\ \A k \in {"header"} \cup Kinds : k # kind => delivered'[k] = delivered[k]
  BY <1>1, <1>4
<1>10. ~ q.eof => rec = Written(kind, n + 1)
  <2>1. SUFFICES ASSUME ~ q.eof PROVE rec = Written(kind, n + 1)
    OBVIOUS
  <2>2. q.x = [k \in 1..5 |-> IF k \in 1..w THEN <<kind, n + 1, k>> ELSE v[k]]
    BY <1>5, <1>6, <2>1
  <2>3. \A k \in 1..5 : k \notin 1..w => v[k] = Zero
    <3>1. w \in {4, 5} /\ (w = 4 => kind = "edge" /\ GraphType = "standard")
      BY <1>1, <1>4, GraphIs DEF w, Width, NodeWidth, EdgeWidth, Kinds
    <3> QED BY <1>4, <3>1
  <2>4. q.x = [k \in 1..5 |-> IF k \in 1..w THEN <<kind, n + 1, k>> ELSE Zero]
    BY <2>2, <2>3
  <2> PICK m \in Nat : m = n + 1
    BY <1>3
  <2> PICK x \in [1..5 -> Values] : x = q.x
    BY <1>7
  <2>5. x = [k \in 1..5 |-> IF k \in 1..Width(phase) THEN <<phase, m, k>> ELSE Zero]
    BY <2>4 DEF w
  <2>6. [x |-> x, tags |-> 0] = Written(phase, m)
    BY <1>1, <1>4, <2>5, WrittenIs
  <2> QED BY <2>6
<1> HIDE DEF T
<1>11. /\ Len(delivered'[kind]) = n + 1 /\ DOMAIN delivered'[kind] = 1..(n + 1)
       /\ DOMAIN delivered[kind] = 1..n
       /\ \A m \in 1..n : IsWritten(kind, m)' <=> IsWritten(kind, m)
       /\ rec = Written(kind, n + 1) => IsWritten(kind, n + 1)'
  <2>1. delivered[kind] \in Seq(T) /\ rec \in T
    BY <1>4, <1>8
  <2>2. graph' = graph /\ n \in Nat /\ n = Len(delivered[kind])
        /\ delivered'[kind] = Append(delivered[kind], rec)
    BY <1>1, <1>3, <1>9
  <2> QED BY <2>1, <2>2, CallAdded
<1>12. \A m \in 1..n : IsWritten(kind, m)'
  BY <1>3, <1>11 DEF Handed
<1>13. Handed(kind, n)'
  BY <1>12 DEF Handed
<1>14. ~ q.eof => IsWritten(kind, n + 1)'
  BY <1>10, <1>11
<1>15. ASSUME ~ q.eof PROVE Handed(kind, n + 1)'
  <2>1. \A m \in 1..(n + 1) : m \in 1..n \/ m = n + 1
    BY <1>3
  <2>2. \A m \in 1..(n + 1) : IsWritten(kind, m)'
    BY <1>12, <1>14, <1>15, <2>1
  <2> QED BY <2>2 DEF Handed
<1>16. (complete => Whole)'
  BY <1>1, <1>2, <1>6
<1>17. Whole' => ~ fail' /\ pos' = EndOf(Before + n + 1)
  BY <1>1, <1>2, <1>6
<1>18. \A m \in DOMAIN delivered'[kind] : IsWritten(kind, m)' \/ (Format = "text" /\ ~ Whole' /\ m = n + 1)
  <2>1. SUFFICES ASSUME NEW m \in 1..(n + 1), ~ IsWritten(kind, m)'
                 PROVE  Format = "text" /\ ~ Whole' /\ m = n + 1
    BY <1>11
  <2>2. m = n + 1
    BY <1>3, <1>12, <2>1
  <2>3. q.eof
    BY <1>14, <2>1, <2>2
  <2> QED BY <1>1, <1>2, <2>2, <2>3
<1>19. Whole' => Handed(kind, n + 1)'
  BY <1>1, <1>2, <1>15
<1>20. Len(delivered'[kind]) = n + 1 /\ n + 1 \in Nat /\ n + 1 <= n + 1
       /\ DOMAIN delivered'[kind] = 1..Len(delivered'[kind]) /\ i' = n + 1
  BY <1>1, <1>3, <1>11
<1> QED BY <1>1, <1>2, <1>9, <1>13, <1>16, <1>17, <1>18, <1>19, <1>20, LoopGoesOn

LEMMA BinaryLoopStep ==
  ASSUME FileInv, ValuesInv, LoopInv, OnlyTheLastIsWrong, ReadBinary
  PROVE  /\ phase' \in Kinds => LoopInv'
         /\ phase' \notin Kinds => phase' = "crashed" /\ ~ complete'
         /\ OnlyTheLastIsWrong'
         /\ ValuesInv'
<1> DEFINE T == [x : [1..5 -> Values], tags : {0, 1}]
<1>1. /\ Format = "binary" /\ phase \in Kinds /\ i < count[phase] /\ pos < Len(file) /\ ~ TextTags
      /\ UNCHANGED <<graph, written, file, complete, separated, eof, fail, count>>
  <2>1. /\ Format = "binary" /\ phase \in Kinds /\ i < count[phase] /\ ~ (pos >= Len(file))
        /\ UNCHANGED <<graph, written, file, complete, separated, eof, fail, count>>
    BY DEF ReadBinary, AtEnd, Kinds
  <2>2. pos \in Nat /\ Len(file) \in Nat
    BY <2>1, ReaderTypes
  <2> QED BY <2>1, <2>2 DEF TextTags
<1> PICK kind : kind = phase
  OBVIOUS
<1> PICK n : n = i
  OBVIOUS
<1> PICK w : w = Width(phase)
  OBVIOUS
<1> PICK behind : behind = pos + w + 1
  OBVIOUS
<1> PICK size : size = IF Past(behind) THEN 0 ELSE file[behind][2]
  OBVIOUS
<1> PICK x : x = [k \in 1..5 |-> IF k <= w THEN (IF Past(pos + k) THEN Zero ELSE file[pos + k]) ELSE values[phase][k]]
  OBVIOUS
<1> PICK rec : rec = [x |-> x, tags |-> size]
  OBVIOUS
<1>2. \/ /\ values' = [values EXCEPT ![phase] = x]
         /\ delivered' = IF Fits(behind + size)
                           THEN [delivered EXCEPT ![phase] = Append(@, rec)]
                           ELSE delivered
         /\ pos' = behind + size
         /\ i' = i + 1
         /\ UNCHANGED phase
      \/ Past(behind) /\ phase' = "crashed" /\ UNCHANGED <<values, delivered, pos, i>>
  BY DEF ReadBinary
<1>3. Whole
  <2>1. pos \in Nat /\ Len(file) \in Nat
    BY <1>1, ReaderTypes
  <2> QED BY <1>1, <2>1 DEF Whole
<1>4. /\ CountsRight /\ ~ fail /\ pos = EndOf(Before + n)
      /\ Handed(kind, n) /\ Len(delivered[kind]) = n /\ n \in Nat
      /\ n < IF phase = "node" THEN NodeCount ELSE EdgeCount
  BY <1>1, <1>3, AtRecord
<1>5. /\ graph \in Graphs
      /\ values[kind] \in [1..5 -> Values] /\ values \in [Kinds -> [1..5 -> Values]]
      /\ delivered[kind] \in Seq(T)
      /\ DOMAIN delivered = {"header"} \cup Kinds /\ kind \in Kinds
      /\ GraphType = "standard" => values.edge[5] = Zero
  <2>1. delivered[kind] \in Seq(T) /\ DOMAIN delivered = {"header"} \cup Kinds
    BY <1>1 DEF ValuesInv
  <2>2. /\ values \in [Kinds -> [1..5 -> Values]]
        /\ GraphType = "standard" => values.edge[5] = Zero
    BY <1>1 DEF ValuesInv
  <2> HIDE DEF T
  <2> QED BY <1>1, <2>1, <2>2, ReaderTypes
<1> PICK r : r = Before + n + 1
  OBVIOUS
<1>6. /\ r \in 1..RecordCount /\ r - 1 = Before + n /\ KindOf(r) = kind /\ NumberOf(r) = n + 1
      /\ TagSize(r) = IF phase = "node" THEN graph.nodeTags[n + 1] ELSE graph.edgeTags[n + 1]
  BY <1>1, <1>4, <1>5, NextRecord
<1>7. /\ w \in {4, 5} /\ behind \in Nat /\ size \in {0, 1}
      /\ \A k \in 1..w : Past(pos + k) \/ file[pos + k] = <<KindOf(r), NumberOf(r), k>>
      /\ ~ Past(behind) => size = TagSize(r) /\ behind + size = EndOf(r)
      /\ Fits(behind + size) => ~ Past(behind)
      /\ complete => ~ Past(behind) /\ Fits(behind + size)
  <2>1. pos = EndOf(r - 1) /\ w = Width(KindOf(r))
    BY <1>4, <1>6
  <2> QED BY <1>1, <1>6, <2>1, BinaryRecord
<1>8. x \in [1..5 -> Values] /\ (GraphType = "standard" => (kind = "edge" => x[5] = Zero))
  <2>1. ASSUME NEW k \in 1..5
        PROVE  (IF k <= w THEN (IF Past(pos + k) THEN Zero ELSE file[pos + k]) ELSE values[phase][k]) \in Values
    <3>1. CASE k <= w /\ ~ Past(pos + k)
      <4>1. k \in 1..w /\ NumberOf(r) \in 1..(NodeCount + EdgeCount) /\ KindOf(r) \in {"node", "edge"}
        BY <1>5, <1>6, <1>7, <3>1, RecordIs DEF RecordCount, Kinds
      <4>2. file[pos + k] = <<KindOf(r), NumberOf(r), k>>
        BY <1>7, <3>1, <4>1
      <4>3. file[pos + k] \in Values
        BY <4>1, <4>2 DEF Values
      <4> QED BY <3>1, <4>3
    <3>2. CASE k <= w /\ Past(pos + k)
      BY <3>2 DEF Values
    <3>3. CASE ~ (k <= w)
      BY <1>5, <3>3
    <3> QED BY <3>1, <3>2, <3>3
  <2>2. kind = "edge" /\ GraphType = "standard" => w = 4
    BY DEF Width, EdgeWidth
  <2>3. kind = "edge" /\ GraphType = "standard" => x[5] = values.edge[5]
    BY <2>2
  <2> QED BY <1>5, <2>1, <2>3
<1>9. rec \in T
  BY <1>7, <1>8
<1>10. Fits(behind + size) => rec = Written(kind, n + 1)
  <2>1. SUFFICES ASSUME Fits(behind + size) PROVE rec = Written(kind, n + 1)
    OBVIOUS
  <2>2. ~ Past(behind) /\ size = TagSize(r) /\ pos \in Nat /\ Len(file) \in Nat
    BY <1>1, <1>7, <2>1, ReaderTypes
  <2>3. \A k \in 1..w : ~ Past(pos + k)
    BY <1>7, <2>2 DEF Past
  <2>4. \A k \in 1..5 : k \notin 1..w => values[phase][k] = Zero
    <3>1. w = 4 => kind = "edge" /\ GraphType = "standard"
      BY <1>1, <1>5, GraphIs DEF Width, NodeWidth, EdgeWidth, Kinds
    <3> QED BY <1>5, <1>7, <3>1
  <2>5. ASSUME NEW k \in 1..5
        PROVE  x[k] = IF k \in 1..w THEN <<kind, n + 1, k>> ELSE Zero
    <3>1. CASE k \in 1..w
      <4>1. k <= w /\ x[k] = file[pos + k]
        BY <2>3, <3>1
      <4>2. file[pos + k] = <<KindOf(r), NumberOf(r), k>>
        BY <1>7, <2>3, <3>1
      <4> QED BY <1>6, <3>1, <4>1, <4>2
    <3>2. CASE k \notin 1..w
      <4>1. ~ (k <= w) /\ x[k] = values[phase][k]
        BY <1>7, <3>2
      <4> QED BY <2>4, <3>2, <4>1
    <3> QED BY <3>1, <3>2
  <2>6. x = [k \in 1..5 |-> IF k \in 1..w THEN <<kind, n + 1, k>> ELSE Zero]
    BY <1>8, <2>5
  <2> PICK m \in Nat : m = n + 1
    BY <1>4
  <2>7. x = [k \in 1..5 |-> IF k \in 1..Width(phase) THEN <<phase, m, k>> ELSE Zero]
    BY <2>6
  <2>8. size = IF Format = "text" THEN 0
               ELSE IF phase = "node" THEN graph.nodeTags[m] ELSE graph.edgeTags[m]
    BY <1>1, <1>6, <2>2
  <2>9. [x |-> x, tags |-> size] = Written(phase, m)
    BY <1>1, <1>5, <1>8, <2>7, <2>8, WrittenIs
  <2> QED BY <2>9
<1> HIDE DEF T
<1>11. CASE phase' = "crashed" /\ Past(behind) /\ UNCHANGED <<values, delivered, pos, i>>
  <2>1. /\ phase' \notin Kinds /\ ~ complete'
    BY <1>1, <1>7, <1>11 DEF Kinds
  <2>2. OnlyTheLastIsWrong'
    <3>1. /\ \A k \in {"node", "edge"} : delivered'[k] = delivered[k]
          /\ Format' = Format /\ TextTags' = TextTags /\ delivered' = delivered
      BY <1>1, <1>11, GraphKept
    <3>2. \A k \in {"node", "edge"} : \A m : IsWritten(k, m)' <=> IsWritten(k, m)
      BY <1>1, <3>1, CallsKept
    <3> QED BY <3>1, <3>2 DEF OnlyTheLastIsWrong
  <2>3. ValuesInv'
    <3>1. Values' = Values /\ GraphType' = GraphType /\ Format' = Format
      BY <1>1, GraphKept
    <3>2. phase' \notin Kinds \cup {"write", "header"} /\ phase' \notin Kinds
      BY <1>11 DEF Kinds
    <3> QED BY <1>1, <1>11, <3>1, <3>2 DEF ValuesInv
  <2> QED BY <1>11, <2>1, <2>2, <2>3
<1>12. ASSUME values' = [values EXCEPT ![phase] = x], pos' = behind + size, i' = i + 1, phase' = phase,
              delivered' = IF Fits(behind + size)
                             THEN [delivered EXCEPT ![phase] = Append(@, rec)]
                             ELSE delivered
       PROVE  LoopInv' /\ OnlyTheLastIsWrong' /\ ValuesInv'
  <2>1. Whole' <=> Fits(behind + size)
    BY <1>1, <1>12, GraphKept DEF Whole, Fits
  <2>2. \A k \in {"header"} \cup Kinds : k # kind => delivered'[k] = delivered[k]
    BY <1>5, <1>12
  <2>3. DOMAIN delivered' = {"header"} \cup Kinds
    BY <1>5, <1>12
  <2>4. Fits(behind + size) =>
          /\ Len(delivered'[kind]) = n + 1 /\ DOMAIN delivered'[kind] = 1..(n + 1)
          /\ \A m \in 1..n : IsWritten(kind, m)' <=> IsWritten(kind, m)
          /\ IsWritten(kind, n + 1)'
          /\ delivered'[kind] \in Seq(T)
    <3>1. SUFFICES ASSUME Fits(behind + size)
                   PROVE /\ Len(delivered'[kind]) = n + 1 /\ DOMAIN delivered'[kind] = 1..(n + 1)
                         /\ \A m \in 1..n : IsWritten(kind, m)' <=> IsWritten(kind, m)
                         /\ IsWritten(kind, n + 1)'
                         /\ delivered'[kind] \in Seq(T)
      OBVIOUS
    <3>2. delivered'[kind] = Append(delivered[kind], rec) /\ graph' = graph
          /\ n \in Nat /\ n = Len(delivered[kind])
      BY <1>1, <1>4, <1>5, <1>12, <3>1
    <3>3. delivered[kind] \in Seq(T) /\ rec \in T
      BY <1>5, <1>9
    <3>4. delivered'[kind] \in Seq(T)
      BY <3>2, <3>3
    <3>5. /\ Len(delivered'[kind]) = n + 1 /\ DOMAIN delivered'[kind] = 1..(n + 1)
          /\ \A m \in 1..n : IsWritten(kind, m)' <=> IsWritten(kind, m)
          /\ rec = Written(kind, n + 1) => IsWritten(kind, n + 1)'
      BY <3>2, <3>3, CallAdded
    <3> QED BY <1>10, <3>1, <3>4, <3>5
  <2>5. ~ Fits(behind + size) =>
          /\ delivered'[kind] = delivered[kind]
          /\ Len(delivered'[kind]) = n /\ DOMAIN delivered'[kind] = 1..n
          /\ \A m \in 1..n : IsWritten(kind, m)' <=> IsWritten(kind, m)
          /\ delivered'[kind] \in Seq(T)
    <3>1. SUFFICES ASSUME ~ Fits(behind + size)
                   PROVE /\ delivered'[kind] = delivered[kind]
                         /\ Len(delivered'[kind]) = n /\ DOMAIN delivered'[kind] = 1..n
                         /\ \A m \in 1..n : IsWritten(kind, m)' <=> IsWritten(kind, m)
                         /\ delivered'[kind] \in Seq(T)
      OBVIOUS
    <3>2. delivered'[kind] = delivered[kind] /\ graph' = graph
      BY <1>1, <1>12, <3>1
    <3>3. DOMAIN delivered[kind] = 1..n
      BY <1>4, <1>5
    <3>4. \A m : IsWritten(kind, m)' <=> IsWritten(kind, m)
      BY <3>2, CallsKept
    <3> QED BY <1>4, <1>5, <3>2, <3>3, <3>4
  <2>6. \A m \in 1..n : IsWritten(kind, m)'
    BY <1>4, <2>4, <2>5 DEF Handed
  <2>7. Handed(kind, n)'
    BY <2>6 DEF Handed
  <2>8. Fits(behind + size) => Handed(kind, n + 1)'
    <3>1. \A m \in 1..(n + 1) : m \in 1..n \/ m = n + 1
      BY <1>4
    <3>2. Fits(behind + size) => \A m \in 1..(n + 1) : IsWritten(kind, m)'
      BY <2>4, <2>6, <3>1
    <3> QED BY <3>2 DEF Handed
  <2>9. (complete => Whole)'
    BY <1>1, <1>7, <2>1
  <2>10. Whole' => ~ fail' /\ pos' = EndOf(Before + n + 1) /\ Handed(kind, n + 1)'
                   /\ Len(delivered'[kind]) = n + 1
    BY <1>1, <1>4, <1>7, <1>12, <2>1, <2>4, <2>8
  <2>11. Len(delivered'[kind]) \in Nat /\ Len(delivered'[kind]) <= n + 1
         /\ DOMAIN delivered'[kind] = 1..Len(delivered'[kind])
    BY <1>4, <2>4, <2>5
  <2>12. \A m \in DOMAIN delivered'[kind] : IsWritten(kind, m)'
    <3>1. SUFFICES ASSUME NEW m \in DOMAIN delivered'[kind] PROVE IsWritten(kind, m)'
      OBVIOUS
    <3>2. m \in 1..n \/ (m = n + 1 /\ Fits(behind + size))
      BY <1>4, <2>4, <2>5
    <3> QED BY <2>4, <2>6, <3>2
  <2>13. LoopInv' /\ OnlyTheLastIsWrong'
    BY <1>1, <1>3, <1>12, <2>2, <2>7, <2>9, <2>10, <2>11, <2>12, LoopGoesOn
  <2>14. ValuesInv'
    <3>1. Values' = Values /\ GraphType' = GraphType /\ Format' = Format /\ phase' = phase
      BY <1>1, <1>12, GraphKept
    <3>2. values' \in [Kinds -> [1..5 -> Values]] /\ values'[kind] = x
          /\ \A k \in Kinds : k # kind => values'[k] = values[k]
      BY <1>5, <1>8, <1>12
    <3>3. (GraphType = "standard" => values.edge[5] = Zero)'
      <4>1. CASE kind = "edge"
        BY <1>8, <3>1, <3>2, <4>1
      <4>2. CASE kind # "edge"
        BY <1>5, <3>1, <3>2, <4>2 DEF Kinds
      <4> QED BY <4>1, <4>2
    <3>4. i' \in 0..count'[phase'] /\ count' \in [Kinds -> Nat]
      <4>1. count \in [Kinds -> Nat] /\ count[phase] \in Nat
        BY <1>1 DEF ValuesInv
      <4> QED BY <1>1, <1>4, <1>12, <4>1
    <3>5. \A k \in Kinds : delivered'[k] \in Seq(T)
      <4>1. \A k \in Kinds : delivered[k] \in Seq(T)
        BY DEF ValuesInv, T
      <4> QED BY <2>2, <2>4, <2>5, <4>1
    <3>6. \A k \in Kinds : delivered'[k] \in Seq([x : [1..5 -> Values'], tags : {0, 1}])
      BY <3>1, <3>5 DEF T
    <3>7. pos' \in Nat /\ {eof', fail'} \subseteq BOOLEAN
      <4>1. {eof, fail} \subseteq BOOLEAN
        BY DEF ValuesInv
      <4> QED BY <1>1, <1>7, <1>12, <4>1
    <3>8. phase' \notin {"write", "header"} /\ Format' # "text"
      BY <1>1, <3>1 DEF Kinds
    <3>9. values' \in [Kinds -> [1..5 -> Values']]
      BY <3>1, <3>2
    <3> QED BY <2>3, <3>3, <3>4, <3>6, <3>7, <3>8, <3>9 DEF ValuesInv
  <2> QED BY <2>13, <2>14
<1>13. phase' = phase => phase' \in Kinds
  BY <1>1
<1> QED BY <1>2, <1>11, <1>12, <1>13

-----------------------------------------------------------------------------
(* The header is read.                                                     *)

LEMMA TextHeader ==
  ASSUME FileInv, NEW ended \in BOOLEAN, ended <=> Past(HeaderLines), NEW failed \in BOOLEAN, ~ failed,
         NEW here, here = IF Past(HeaderLines) THEN Len(file) ELSE HeaderLines,
         NEW s, s = Extract(here, ended, failed, <<Zero, Zero>>, 2)
  PROVE  /\ s.pos \in Nat /\ s.pos <= Len(file) /\ s.eof \in BOOLEAN /\ s.fail \in BOOLEAN
         /\ complete => ~ s.eof
         /\ ~ s.eof => /\ s.pos = 7 /\ ~ s.fail
                       /\ \A p \in 6..7 : p <= Len(file) /\ file[p] = Header[p]
<1>1. /\ graph \in Graphs /\ file \in Seq(Token) /\ Len(file) \in Nat /\ HeaderLines = 5
  BY DEF FileInv, HeaderLines
<1>2. here \in Nat /\ here <= Len(file) /\ (~ ended => here = 5)
  BY <1>1 DEF Past
<1> PICK good \in BOOLEAN : good = (~ ended /\ ~ failed)
  OBVIOUS
<1> PICK read : read = ReadBehind(here, good, 2)
  OBVIOUS
<1> DEFINE e == ended \/ ((~ ended /\ ~ failed) /\ here + read = Len(file) /\ (read < 2 \/ ~ separated))
           f == failed \/ read < 2
           y == [k \in DOMAIN <<Zero, Zero>> |->
                  IF k <= read THEN file[here + k]
                  ELSE IF k = read + 1 /\ k <= 2 /\ (~ ended /\ ~ failed) /\ ~ (here + read = Len(file)) THEN Zero
                  ELSE <<Zero, Zero>>[k]]
<1>3. s = [pos |-> here + read, eof |-> e, fail |-> f, x |-> y]
  <2>1. s = Extracted(here, ended, failed, <<Zero, Zero>>, 2, read)
    BY ExtractIs
  <2> QED BY Zenon, <2>1 DEF Extracted
<1>4. /\ read \in 0..2 /\ here + read <= Len(file)
      /\ \A k \in 1..2 : k <= read <=> good /\ here + k <= Len(file) /\ \A l \in 1..k : IsNumber(file[here + l])
  BY <1>1, <1>2, ReadBehindIs
<1>5. e \in BOOLEAN /\ f \in BOOLEAN
  OBVIOUS
<1>6. (e <=> ended \/ (here + read = Len(file) /\ (read < 2 \/ ~ separated))) /\ (f <=> read < 2)
  OBVIOUS
<1> HIDE DEF e, f, y
<1>7. s.pos = here + read
  BY <1>3
<1>8. s.eof = e
  BY <1>3
<1>9. s.fail = f
  BY <1>3
<1>10. s.pos \in Nat /\ s.pos <= Len(file) /\ s.eof \in BOOLEAN /\ s.fail \in BOOLEAN
  BY <1>1, <1>2, <1>4, <1>5, <1>7, <1>8, <1>9
<1>11. ASSUME NEW k \in 1..2, ~ ended PROVE k <= read <=> 5 + k <= Len(file)
  <2>1. here = 5 /\ good
    BY <1>2, <1>11
  <2>2. 5 + k <= Len(file) => \A l \in 1..k : IsNumber(file[here + l])
    <3>1. SUFFICES ASSUME 5 + k <= Len(file), NEW l \in 1..k PROVE IsNumber(file[here + l])
      OBVIOUS
    <3> PICK p : p = 5 + l
      OBVIOUS
    <3>2. p \in 6..7 /\ p <= Len(file)
      BY <1>1, <3>1
    <3>3. IsNumber(file[p])
      BY <3>2, CountToken
    <3> QED BY <2>1, <3>3
  <2>3. k <= read <=> good /\ here + k <= Len(file) /\ \A l \in 1..k : IsNumber(file[here + l])
    BY <1>4
  <2> QED BY <2>1, <2>2, <2>3
<1>12. ~ ended /\ read < 2 => 5 + read = Len(file)
  <2>1. SUFFICES ASSUME ~ ended, read < 2 PROVE 5 + read = Len(file)
    OBVIOUS
  <2> PICK k : k = read + 1
    OBVIOUS
  <2>2. k \in 1..2 /\ ~ (k <= read)
    BY <1>4, <2>1
  <2>3. ~ (5 + k <= Len(file))
    BY <1>11, <2>1, <2>2
  <2> QED BY <1>1, <1>2, <1>4, <2>1, <2>2, <2>3
<1>13. complete => ~ s.eof
  <2>1. SUFFICES ASSUME complete PROVE ~ e
    BY <1>8
  <2>2. separated /\ Len(file) = EndOf(RecordCount)
    BY <2>1 DEF FileInv
  <2>3. Len(file) >= 7
    BY <1>1, <2>2, EndOfIs, GraphIs
  <2>4. ~ ended
    BY <1>1, <2>3 DEF Past
  <2>5. 2 \in 1..2 /\ 5 + 2 <= Len(file)
    BY <1>1, <2>3
  <2>6. 2 <= read
    BY <1>11, <2>4, <2>5
  <2>7. ~ (read < 2)
    BY <1>4, <2>6
  <2> QED BY <1>6, <2>2, <2>4, <2>7
<1>14. ASSUME ~ s.eof
       PROVE  s.pos = 7 /\ ~ s.fail /\ \A p \in 6..7 : p <= Len(file) /\ file[p] = Header[p]
  <2>1. ~ e
    BY <1>8, <1>14
  <2>2. ~ ended /\ here = 5
    BY <1>2, <1>6, <2>1
  <2>3. ~ (read < 2)
    BY <1>6, <1>12, <2>1, <2>2
  <2>4. read = 2
    BY <1>4, <2>3
  <2>5. s.pos = 7 /\ ~ s.fail
    BY <1>6, <1>7, <1>9, <2>2, <2>3, <2>4
  <2>6. 7 <= Len(file) /\ (7 = Len(file) => separated)
    <3>1. here + read <= Len(file) /\ here + read = 7
      BY <1>4, <2>2, <2>4
    <3>2. ~ (here + read = Len(file) /\ (read < 2 \/ ~ separated))
      BY <1>6, <2>1
    <3> QED BY <3>1, <3>2
  <2>7. ASSUME NEW p \in 6..7 PROVE p <= Len(file) /\ file[p] = Header[p]
    <3>1. p \in Nat /\ p <= 7
      OBVIOUS
    <3>2. p <= Len(file)
      BY <1>1, <2>6, <3>1
    <3>3. separated \/ p < Len(file)
      <4>1. CASE Len(file) = 7
        BY Zenon, <2>6, <4>1
      <4>2. CASE Len(file) # 7
        <5>1. p < Len(file)
          <6>1. 7 <= Len(file)
            BY <2>6
          <6>2. PICK L \in Nat : L = Len(file)
            BY <1>1
          <6>3. p < L
            BY <3>1, <4>2, <6>1, <6>2
          <6> QED BY <6>2, <6>3
        <5> QED BY <5>1
      <4> QED BY <4>1, <4>2
    <3> QED BY <3>2, <3>3, CountToken
  <2> QED BY <2>5, <2>7
<1> QED BY <1>10, <1>13, <1>14

\* The loops start behind the header, with the counts that were written unless
\* the file ends there.
LEMMA LoopStarts ==
  ASSUME FileInv, ValuesInv, phase = "header",
         UNCHANGED <<graph, written, file, complete, separated, values, i>>, phase' = "node",
         NEW c \in Nat, NEW d \in Nat,
         count' = [node |-> c, edge |-> d],
         delivered' = [delivered EXCEPT !.header = [type |-> GraphType, nodeCount |-> c, edgeCount |-> d]],
         pos' \in Nat, eof' \in BOOLEAN, fail' \in BOOLEAN,
         Format = "text" => pos' <= Len(file) /\ (eof' \/ pos' >= HeaderLength),
         (complete => Whole)',
         Whole' => ~ fail' /\ pos' = 7 /\ c = NodeCount /\ d = EdgeCount
  PROVE  ValuesInv' /\ LoopInv' /\ OnlyTheLastIsWrong'
<1>1. /\ graph \in Graphs /\ i = 0 /\ delivered.node = << >> /\ delivered.edge = << >>
      /\ DOMAIN delivered = {"header"} \cup Kinds
      /\ values \in [Kinds -> [1..5 -> Values]]
      /\ GraphType = "standard" => values.edge[5] = Zero
  BY DEF FileInv, ValuesInv
<1>2. /\ NodeCount' = NodeCount /\ EdgeCount' = EdgeCount /\ Format' = Format /\ GraphType' = GraphType
      /\ Values' = Values /\ HeaderLength' = HeaderLength /\ \A r : EndOf(r)' = EndOf(r)
  BY GraphKept
<1>3. /\ delivered'.node = << >> /\ delivered'.edge = << >>
      /\ DOMAIN delivered' = {"header"} \cup Kinds
      /\ delivered'.header = [type |-> GraphType, nodeCount |-> c, edgeCount |-> d]
  BY <1>1 DEF Kinds
<1>4. count' \in [Kinds -> Nat] /\ count'.node = c /\ count'.edge = d
  BY DEF Kinds
<1>5. ValuesInv'
  <2>1. \A k \in Kinds : delivered'[k] \in Seq([x : [1..5 -> Values'], tags : {0, 1}])
    <3> DEFINE S == [x : [1..5 -> Values'], tags : {0, 1}]
    <3>1. \A k \in Kinds : delivered'[k] = << >>
      BY <1>3 DEF Kinds
    <3> HIDE DEF S
    <3>2. << >> \in Seq(S)
      OBVIOUS
    <3>3. \A k \in Kinds : delivered'[k] \in Seq(S)
      BY <3>1, <3>2
    <3> QED BY <3>3 DEF S
  <2>2. i' \in 0..count'["node"]
    BY <1>1, <1>4
  <2>3. phase' \notin {"write", "header"} /\ {eof', fail'} \subseteq BOOLEAN
    OBVIOUS
  <2>4. values' \in [Kinds -> [1..5 -> Values']]
    BY <1>1, <1>2
  <2>5. (GraphType = "standard" => values.edge[5] = Zero)'
    BY <1>1, <1>2
  <2>6. (phase \in Kinds => i \in 0..count[phase])'
    BY <2>2
  <2>7. ((phase \in Kinds /\ Format = "text") => pos <= Len(file) /\ (eof \/ pos >= HeaderLength))'
    BY <1>2
  <2> QED BY <1>3, <1>4, <2>1, <2>3, <2>4, <2>5, <2>6, <2>7 DEF ValuesInv
<1>6. LoopInv'
  <2>1. Before' = 0 /\ EndOf(0)' = 7
    BY <1>1, <1>2, EndOfIs DEF Before
  <2>2. (Before + i)' = 0
    BY <1>1, <2>1
  <2>3. (Whole => CountsRight)'
    BY <1>2, <1>3 DEF CountsRight
  <2>4. (Whole => ~ fail /\ pos = EndOf(Before + i))'
    BY <2>1, <2>2
  <2>5. Handed(phase, i)'
    BY <1>1 DEF Handed
  <2>6. (Len(delivered[phase]) = i)' /\ (DOMAIN delivered[phase] = {})'
    <3>1. delivered'[phase'] = << >>
      BY <1>3
    <3> QED BY <1>1, <3>1
  <2>7. (~ (i > 0))' /\ (Len(delivered[phase]) <= i)'
    BY <1>1, <2>6
  <2>8. (count.node = delivered.header.nodeCount)'
    BY <1>3, <1>4
  <2> QED BY <1>3, <2>3, <2>4, <2>5, <2>6, <2>7, <2>8 DEF LoopInv
<1>7. OnlyTheLastIsWrong'
  <2>1. \A k \in {"node", "edge"} : delivered'[k] = << >>
    BY <1>3
  <2>2. DOMAIN << >> = {}
    OBVIOUS
  <2>3. \A k \in {"node", "edge"} : DOMAIN delivered'[k] = {}
    BY <2>1, <2>2
  <2> QED BY <2>3 DEF OnlyTheLastIsWrong
<1> QED BY <1>5, <1>6, <1>7

LEMMA CountsAre ==
  ASSUME FileInv
  PROVE  /\ CountsRead(1) \subseteq Nat /\ CountsRead(2) \subseteq Nat
         /\ (\A p \in 6..7 : p <= Len(file) /\ file[p] = Header[p]) =>
              CountsRead(1) = {NodeCount} /\ CountsRead(2) = {EdgeCount}
<1>1. /\ graph \in Graphs /\ Len(file) \in Nat /\ HeaderLines = 5
      /\ NodeCount \in Nat /\ EdgeCount \in Nat
  BY GraphIs DEF FileInv, HeaderLines
<1>2. ASSUME NEW k \in Nat PROVE HighBytes(k) \subseteq Nat
  <2>1. ASSUME NEW m \in Nat \ {0} PROVE k - (k % m) \in Nat
    BY <1>2, <2>1, SMT
  <2>2. ASSUME NEW m \in Nat \ {0}, NEW l \in Nat \ {0} PROVE m * l \in Nat \ {0}
    BY <2>2, SMT
  <2>3. ByteSpace \in Nat \ {0}
    BY FileAssumption
  <2>4. PICK two : two = ByteSpace * ByteSpace
    OBVIOUS
  <2>5. two \in Nat \ {0}
    BY <2>2, <2>3, <2>4
  <2>6. PICK three : three = two * ByteSpace
    OBVIOUS
  <2>7. three \in Nat \ {0}
    BY <2>2, <2>3, <2>5, <2>6
  <2>8. HighBytes(k) = {0} \cup {k - (k % m) : m \in {ByteSpace, two, three}}
    BY <2>4, <2>6 DEF HighBytes
  <2>9. \A m \in {ByteSpace, two, three} : k - (k % m) \in Nat
    BY <2>1, <2>3, <2>5, <2>7
  <2> QED BY <2>8, <2>9
<1>3. ASSUME NEW n \in 1..2 PROVE CountsRead(n) \subseteq Nat
  <2>1. CASE ~ Past(HeaderLines + n)
    <3> PICK p \in 6..7 : p = HeaderLines + n
      BY <1>1, <1>3
    <3>1. p <= Len(file)
      BY <1>1, <2>1 DEF Past
    <3>2. file[p][2] \in Nat
      BY <3>1, CountToken
    <3> QED BY <2>1, <3>2 DEF CountsRead
  <2>2. CASE Past(HeaderLines + n)
    <3>1. <<NodeCount, EdgeCount>>[n] \in Nat
      BY <1>1, <1>3
    <3>2. HighBytes(<<NodeCount, EdgeCount>>[n]) \subseteq Nat
      BY <1>2, <3>1
    <3> QED BY <2>2, <3>2 DEF CountsRead
  <2> QED BY <2>1, <2>2
<1>4. ASSUME \A p \in 6..7 : p <= Len(file) /\ file[p] = Header[p]
      PROVE  CountsRead(1) = {NodeCount} /\ CountsRead(2) = {EdgeCount}
  <2>1. /\ ~ Past(6) /\ ~ Past(7) /\ file[6] = Header[6] /\ file[7] = Header[7]
    BY <1>1, <1>4 DEF Past
  <2>2. file[6] = <<"count", NodeCount>> /\ file[7] = <<"count", EdgeCount>>
    BY <1>1, <2>1, HeaderIs
  <2>3. 5 + 1 = 6 /\ 5 + 2 = 7
    OBVIOUS
  <2> QED BY <1>1, <2>1, <2>2, <2>3 DEF CountsRead
<1> QED BY <1>3, <1>4

LEMMA HeaderStep ==
  ASSUME FileInv, ValuesInv, ReadHeader
  PROVE  /\ ValuesInv' /\ OnlyTheLastIsWrong' /\ phase' \in {"node", "failed", "crashed"}
         /\ phase' = "node" => LoopInv'
         /\ phase' # "node" => ~ complete'
<1>1. /\ graph \in Graphs /\ file \in Seq(Token) /\ Len(file) \in Nat
      /\ HeaderLines = 5 /\ HeaderLength = 7
      /\ phase = "header" /\ UNCHANGED <<graph, written, file, complete, separated>>
  BY DEF FileInv, HeaderLines, HeaderLength, ReadHeader
<1>2. /\ pos = 0 /\ ~ eof /\ ~ fail /\ i = 0 /\ delivered.node = << >> /\ delivered.edge = << >>
      /\ eof \in BOOLEAN /\ fail \in BOOLEAN
  BY <1>1 DEF ValuesInv
<1>3. complete => Len(file) >= 7 /\ separated
  <2>1. EndOf(RecordCount) >= 7
    BY <1>1, EndOfIs, GraphIs
  <2> QED BY <2>1 DEF FileInv
<1>4. ASSUME phase' \in {"failed", "crashed"}, UNCHANGED reading
      PROVE  ValuesInv' /\ OnlyTheLastIsWrong'
  <2>1. Values' = Values /\ GraphType' = GraphType /\ Format' = Format
    BY <1>1, GraphKept
  <2>2. phase' \notin Kinds /\ phase' \notin {"write", "header"}
        /\ UNCHANGED <<pos, eof, fail, values, count, i, delivered>>
    BY <1>4 DEF Kinds, reading
  <2>3. ValuesInv'
    BY <1>1, <2>1, <2>2 DEF ValuesInv
  <2>4. \A k \in {"node", "edge"} : DOMAIN delivered'[k] = {}
    BY <1>2, <2>2
  <2>5. OnlyTheLastIsWrong'
    BY <2>4 DEF OnlyTheLastIsWrong
  <2> QED BY <2>3, <2>5
<1> DEFINE Read(c, d) ==
             /\ count' = [node |-> c, edge |-> d]
             /\ delivered' = [delivered EXCEPT !.header =
                  [type |-> GraphType, nodeCount |-> c, edgeCount |-> d]]
             /\ phase' = "node" /\ UNCHANGED <<values, i>>
<1>5. CountsRead(1) \subseteq Nat /\ CountsRead(2) \subseteq Nat
  BY CountsAre
<1>6. (\A p \in 6..7 : p <= Len(file) /\ file[p] = Header[p]) =>
        CountsRead(1) = {NodeCount} /\ CountsRead(2) = {EdgeCount}
  BY CountsAre
<1>7. CASE Len(file) < 3
  <2>1. phase' = "failed" /\ UNCHANGED reading
    BY <1>7 DEF ReadHeader
  <2>2. ~ complete'
    BY <1>1, <1>3, <1>7
  <2> QED BY <1>4, <2>1, <2>2
<1>8. CASE ~ (Len(file) < 3)
  <2>1. \/ /\ \E c \in CountsRead(1), d \in CountsRead(2) : Read(c, d)
           /\ IF Format = "text"
                THEN pos' = CountStream.pos /\ eof' = CountStream.eof /\ fail' = CountStream.fail
                ELSE pos' = Here + 2 /\ UNCHANGED <<eof, fail>>
        \/ /\ Format = "binary" /\ Past(HeaderLines + 2)
           /\ phase' = "crashed" /\ UNCHANGED reading
    BY <1>8 DEF ReadHeader
  <2>2. CASE /\ Format = "binary" /\ Past(HeaderLines + 2)
             /\ phase' = "crashed" /\ UNCHANGED reading
    <3>1. ~ complete'
      BY <1>1, <1>3, <2>2 DEF Past
    <3> QED BY <1>4, <2>2, <3>1
  <2>3. ASSUME NEW c \in CountsRead(1), NEW d \in CountsRead(2), Read(c, d), Format = "text",
               pos' = CountStream.pos, eof' = CountStream.eof, fail' = CountStream.fail
        PROVE  ValuesInv' /\ LoopInv' /\ OnlyTheLastIsWrong'
    <3> PICK here : here = IF Past(HeaderLines) THEN Len(file) ELSE HeaderLines
      OBVIOUS
    <3>7. Past(HeaderLines) \in BOOLEAN
      BY DEF Past
    <3> PICK ended \in BOOLEAN : ended = Past(HeaderLines)
      BY Zenon, <3>7
    <3> PICK failed \in BOOLEAN : failed = FALSE
      OBVIOUS
    <3> PICK s : s = Extract(here, ended, failed, <<Zero, Zero>>, 2)
      OBVIOUS
    <3>1. pos' = s.pos /\ eof' = s.eof /\ fail' = s.fail
      BY Zenon, <2>3 DEF CountStream, Here
    <3>2. /\ s.pos \in Nat /\ s.pos <= Len(file) /\ s.eof \in BOOLEAN /\ s.fail \in BOOLEAN
          /\ complete => ~ s.eof
          /\ ~ s.eof => /\ s.pos = 7 /\ ~ s.fail
                        /\ \A p \in 6..7 : p <= Len(file) /\ file[p] = Header[p]
      BY TextHeader
    <3>3. Whole' <=> ~ s.eof
      BY <1>1, <2>3, <3>1, GraphKept DEF Whole
    <3>4. (complete => Whole)'
      BY <1>1, <3>2, <3>3
    <3>5. Whole' => ~ fail' /\ pos' = 7 /\ c = NodeCount /\ d = EdgeCount
      BY <1>6, <2>3, <3>1, <3>2, <3>3
    <3>6. pos' \in Nat /\ eof' \in BOOLEAN /\ fail' \in BOOLEAN
          /\ pos' <= Len(file) /\ (eof' \/ pos' >= HeaderLength)
      BY <1>1, <3>1, <3>2
    <3> QED BY <1>1, <1>5, <2>3, <3>4, <3>5, <3>6, LoopStarts
  <2>4. ASSUME NEW c \in CountsRead(1), NEW d \in CountsRead(2), Read(c, d), Format # "text",
               pos' = Here + 2, UNCHANGED <<eof, fail>>
        PROVE  ValuesInv' /\ LoopInv' /\ OnlyTheLastIsWrong'
    <3>1. separated
      BY <2>4 DEF FileInv
    <3>2. Whole' <=> pos' <= Len(file)
      BY <1>1, <2>4, GraphKept DEF Whole
    <3>3. pos' \in Nat /\ (pos' <= Len(file) => pos' = 7 /\ Len(file) >= 7)
      BY <1>1, <2>4 DEF Past, Here
    <3>4. Len(file) >= 7 => pos' <= Len(file)
      BY <1>1, <2>4 DEF Past, Here
    <3>5. (complete => Whole)'
      BY <1>1, <1>3, <3>2, <3>4
    <3>6. Len(file) >= 7 => \A p \in 6..7 : p <= Len(file) /\ file[p] = Header[p]
      BY <1>1, <3>1, CountToken
    <3>7. Whole' => ~ fail' /\ pos' = 7 /\ c = NodeCount /\ d = EdgeCount
      BY <1>2, <1>6, <2>4, <3>2, <3>3, <3>6
    <3>8. eof' \in BOOLEAN /\ fail' \in BOOLEAN
      BY <1>2, <2>4
    <3> QED BY <1>1, <1>5, <2>4, <3>3, <3>5, <3>7, <3>8, LoopStarts
  <2> QED BY <2>1, <2>2, <2>3, <2>4
<1> QED BY <1>7, <1>8

-----------------------------------------------------------------------------
(* The values that the variables of a reader may take.                     *)

\* A text file is read, whatever is in it.
LEMMA TextValues ==
  ASSUME FileInv, ValuesInv, ReadText
  PROVE  ValuesInv'
<1> DEFINE T == [x : [1..5 -> Values], tags : {0, 1}]
<1> PICK kind : kind = phase
  OBVIOUS
<1> PICK w : w = Width(phase)
  OBVIOUS
<1> PICK v : v = values[phase]
  OBVIOUS
<1> PICK s : s = Extract(pos, eof, fail, v, w)
  OBVIOUS
<1> PICK rec : rec = [x |-> s.x, tags |-> 0]
  OBVIOUS
<1>1. /\ Format = "text" /\ phase \in Kinds /\ i < count[phase] /\ ~ eof
      /\ pos' = s.pos /\ eof' = s.eof /\ fail' = s.fail
      /\ values' = [values EXCEPT ![kind] = s.x]
      /\ delivered' = [delivered EXCEPT ![kind] = Append(@, rec)]
      /\ i' = i + 1
      /\ UNCHANGED <<graph, written, file, complete, separated, phase, count>>
  BY DEF ReadText, AtEnd, Kinds
<1>2. /\ graph \in Graphs /\ file \in Seq(Token) /\ Len(file) \in Nat /\ i \in Nat
      /\ eof \in BOOLEAN /\ fail \in BOOLEAN /\ pos \in Nat
      /\ count \in [Kinds -> Nat] /\ count[phase] \in Nat
  BY <1>1, ReaderTypes DEF ValuesInv
<1>3. /\ pos <= Len(file) /\ pos >= HeaderLength /\ HeaderLength = 7
      /\ values \in [Kinds -> [1..5 -> Values]]
      /\ DOMAIN delivered = {"header"} \cup Kinds
      /\ \A k \in Kinds : delivered[k] \in Seq(T)
      /\ GraphType = "standard" => values.edge[5] = Zero
  <2>1. pos <= Len(file) /\ pos >= HeaderLength /\ HeaderLength = 7
    BY <1>1 DEF ValuesInv, HeaderLength, HeaderLines
  <2>2. /\ values \in [Kinds -> [1..5 -> Values]] /\ DOMAIN delivered = {"header"} \cup Kinds
        /\ GraphType = "standard" => values.edge[5] = Zero
    BY DEF ValuesInv
  <2>3. \A k \in Kinds : delivered[k] \in Seq(T)
    BY DEF ValuesInv
  <2> QED BY <2>1, <2>2, <2>3
<1>4. /\ v \in [1..5 -> Values] /\ w \in {4, 5}
      /\ (kind = "edge" /\ GraphType = "standard" => w = 4 /\ v[5] = Zero)
  BY <1>1, <1>2, <1>3, GraphIs DEF Width, EdgeWidth, NodeWidth, Kinds
<1> PICK good \in BOOLEAN : good = (~ eof /\ ~ fail)
  OBVIOUS
<1> PICK read : read = ReadBehind(pos, good, w)
  OBVIOUS
<1> DEFINE e == eof \/ ((~ eof /\ ~ fail) /\ pos + read = Len(file) /\ (read < w \/ ~ separated))
           f == fail \/ read < w
           y == [k \in DOMAIN v |->
                  IF k <= read THEN file[pos + k]
                  ELSE IF k = read + 1 /\ k <= w /\ (~ eof /\ ~ fail) /\ ~ (pos + read = Len(file)) THEN Zero
                  ELSE v[k]]
<1>5. s = [pos |-> pos + read, eof |-> e, fail |-> f, x |-> y]
  <2>1. s = Extracted(pos, eof, fail, v, w, read)
    BY ExtractIs
  <2> QED BY Zenon, <2>1 DEF Extracted
<1>6. /\ read \in 0..w /\ pos + read <= Len(file)
      /\ \A k \in 1..w : k <= read <=> good /\ pos + k <= Len(file) /\ \A l \in 1..k : IsNumber(file[pos + l])
  BY <1>2, <1>3, <1>4, ReadBehindIs
<1>7. e \in BOOLEAN /\ f \in BOOLEAN
  OBVIOUS
<1>8. y \in [1..5 -> Values]
  <2>1. ASSUME NEW k \in 1..5, k <= read PROVE file[pos + k] \in Values
    <3>1. k \in 1..w
      BY <1>4, <1>6, <2>1
    <3>2. pos + k <= Len(file) /\ \A l \in 1..k : IsNumber(file[pos + l])
      BY <1>6, <2>1, <3>1
    <3> PICK p : p = pos + k
      OBVIOUS
    <3>3. p \in 1..Len(file) /\ p > HeaderLength /\ IsNumber(file[p])
      BY <1>2, <1>3, <3>1, <3>2
    <3>4. Numbers(file)
      BY DEF FileInv
    <3>5. file[p] \in Values
      BY <1>1, <3>3, <3>4 DEF Numbers
    <3> QED BY <3>5
  <2>2. Zero \in Values
    BY DEF Values
  <2> QED BY <1>4, <2>1, <2>2
<1>9. kind = "edge" /\ GraphType = "standard" => y[5] = Zero
  <2>1. SUFFICES ASSUME kind = "edge", GraphType = "standard" PROVE y[5] = Zero
    OBVIOUS
  <2>2. w = 4 /\ v[5] = Zero /\ ~ (5 <= read) /\ ~ (5 <= w) /\ 5 \in DOMAIN v
    BY <1>4, <1>6, <2>1
  <2> QED BY <2>2
<1> HIDE DEF e, f, y
<1>10. s.pos = pos + read
  BY <1>5
<1>11. s.eof = e
  BY <1>5
<1>12. s.fail = f
  BY <1>5
<1>13. s.x = y
  BY <1>5
<1>14. rec \in T
  BY <1>8, <1>13
<1>15. Values' = Values /\ GraphType' = GraphType /\ Format' = Format /\ HeaderLength' = HeaderLength
  BY <1>1, GraphKept
<1>16. values' \in [Kinds -> [1..5 -> Values']]
  BY <1>1, <1>3, <1>8, <1>13, <1>15
<1>17. (GraphType = "standard" => values.edge[5] = Zero)'
  <2>1. CASE kind = "edge"
    <3>1. values'.edge = y
      BY <1>1, <1>3, <1>13, <2>1 DEF Kinds
    <3> QED BY <1>9, <1>15, <2>1, <3>1
  <2>2. CASE kind # "edge"
    <3>1. values'.edge = values.edge
      BY <1>1, <1>3, <2>2 DEF Kinds
    <3> QED BY <1>3, <1>15, <3>1
  <2> QED BY <2>1, <2>2
<1>18. (phase \in Kinds => i \in 0..count[phase])' /\ count' \in [Kinds -> Nat]
  BY <1>1, <1>2
<1>19. pos' \in Nat /\ pos' <= Len(file) /\ pos' >= HeaderLength
  BY <1>1, <1>2, <1>3, <1>4, <1>6, <1>10
<1>20. {eof', fail'} \subseteq BOOLEAN
  BY <1>1, <1>7, <1>11, <1>12
<1>21. phase' \notin {"write", "header"}
  BY <1>1 DEF Kinds
<1>22. DOMAIN delivered' = {"header"} \cup Kinds
  BY <1>1, <1>3
<1>23. \A k \in Kinds : delivered'[k] \in Seq(T)
  <2>1. SUFFICES ASSUME NEW k \in Kinds PROVE delivered'[k] \in Seq(T)
    OBVIOUS
  <2> PICK d : d = delivered[k]
    OBVIOUS
  <2> HIDE DEF T
  <2>2. d \in Seq(T)
    BY <1>3
  <2>3. CASE k = kind
    <3>1. delivered'[k] = Append(d, rec)
      BY <1>1, <1>3, <2>3
    <3> QED BY <1>14, <2>2, <3>1
  <2>4. CASE k # kind
    <3>1. delivered'[k] = d
      BY <1>1, <1>3, <2>4
    <3> QED BY <2>2, <3>1
  <2> QED BY <2>3, <2>4
<1>24. \A k \in Kinds : delivered'[k] \in Seq([x : [1..5 -> Values'], tags : {0, 1}])
  BY <1>15, <1>23
<1>25. ((phase \in Kinds /\ Format = "text") => pos <= Len(file) /\ (eof \/ pos >= HeaderLength))'
  BY <1>1, <1>15, <1>19
<1> QED BY <1>16, <1>17, <1>18, <1>19, <1>20, <1>21, <1>22, <1>24, <1>25 DEF ValuesInv

-----------------------------------------------------------------------------
(* A loop ends.                                                            *)

LEMMA EndValues ==
  ASSUME FileInv, ValuesInv, EndLoop
  PROVE  ValuesInv'
<1>1. /\ phase \in Kinds /\ phase' \in {"failed", "edge", "done"} /\ i' = 0
      /\ UNCHANGED <<graph, file, pos, eof, fail, values, count, delivered>>
  BY DEF EndLoop, Kinds
<1>2. Values' = Values /\ GraphType' = GraphType /\ Format' = Format /\ HeaderLength' = HeaderLength
  BY <1>1, GraphKept
<1>3. phase' \notin {"write", "header"} /\ (phase' \in Kinds => phase' = "edge")
  BY <1>1 DEF Kinds
<1>4. count \in [Kinds -> Nat]
  BY DEF ValuesInv
<1>5. phase' \in Kinds => i' \in 0..count'[phase']
  BY <1>1, <1>4
<1> QED BY <1>1, <1>2, <1>3, <1>5 DEF ValuesInv

\* Of a complete file both loops read all records.
LEMMA EndsWithAll ==
  ASSUME FileInv, ValuesInv, LoopInv, phase \in Kinds, complete, LoopDone
  PROVE  Enough
<1>1. /\ Whole /\ CountsRight /\ pos = EndOf(Before + i)
  BY DEF LoopInv
<1>2. /\ graph \in Graphs /\ NodeCount \in Nat /\ EdgeCount \in Nat /\ RecordCount = NodeCount + EdgeCount
      /\ i \in Nat /\ i <= count[phase] /\ pos \in Nat /\ Len(file) \in Nat
  BY ReaderTypes
<1>3. count[phase] = IF phase = "node" THEN NodeCount ELSE EdgeCount
  BY <1>1 DEF CountsRight, Kinds
<1> SUFFICES ASSUME i # count[phase] PROVE FALSE
  BY DEF Enough
<1>4. AtEnd
  BY DEF LoopDone
<1>5. Format = "binary" /\ pos = Len(file)
  BY <1>1, <1>2, <1>4, GraphIs DEF Whole, AtEnd
<1>6. Len(file) = EndOf(RecordCount)
  BY DEF FileInv
<1>7. Before + i < RecordCount /\ Before + i \in 0..RecordCount /\ RecordCount \in 0..RecordCount
  <2>1. CASE phase = "node"
    BY <1>2, <1>3, <2>1 DEF Before
  <2>2. CASE phase = "edge"
    BY <1>2, <1>3, <2>2 DEF Before
  <2> QED BY <2>1, <2>2 DEF Kinds
<1> PICK q : q = Before + i
  OBVIOUS
<1>8. EndOf(q) < EndOf(RecordCount) /\ EndOf(RecordCount) \in Nat
  BY <1>2, <1>7, EndOfIs
<1> QED BY <1>1, <1>5, <1>6, <1>8

\* The edges are read behind all the nodes.
LEMMA EdgesStart ==
  ASSUME FileInv, ValuesInv, LoopInv, EndLoop, phase' = "edge"
  PROVE  LoopInv'
<1>1. /\ phase = "node" /\ i = count.node /\ i' = 0
      /\ UNCHANGED <<graph, written, file, complete, separated, pos, eof, fail, values, count, delivered>>
  BY DEF EndLoop, Enough
<1>2. /\ graph \in Graphs /\ NodeCount \in Nat /\ EdgeCount \in Nat /\ i \in Nat /\ count.node \in Nat
      /\ DOMAIN delivered.node = 1..Len(delivered.node) /\ Len(delivered.node) \in Nat
  BY <1>1, ReaderTypes DEF Kinds
<1>3. /\ NodeCount' = NodeCount /\ EdgeCount' = EdgeCount /\ Format' = Format /\ GraphType' = GraphType
      /\ \A r : EndOf(r)' = EndOf(r)
  BY <1>1, GraphKept
<1>4. /\ count.node = delivered.header.nodeCount
      /\ complete => Whole
      /\ Whole => /\ CountsRight /\ ~ fail /\ pos = EndOf(Before + i)
                  /\ Handed(phase, i) /\ Len(delivered[phase]) = i
      /\ i > 0 => CountsRight /\ Handed(phase, i - 1)
      /\ Len(delivered[phase]) <= i
      /\ \A n \in DOMAIN delivered[phase] : IsWritten(phase, n) \/ (Format = "text" /\ ~ Whole /\ n = i)
      /\ delivered.edge = << >>
  BY <1>1 DEF LoopInv, Kinds
<1>5. Whole' <=> Whole
  BY <1>1, <1>3 DEF Whole
<1>6. CountsRight' <=> CountsRight
  BY <1>1, <1>3 DEF CountsRight
<1>7. CountsRight => i = NodeCount
  BY <1>1 DEF CountsRight
<1>8. \A n : /\ IsWritten("node", n)' <=> IsWritten("node", n)
             /\ Handed("node", n)' <=> Handed("node", n)
  BY <1>1, CallsKept
<1>9. Before' = NodeCount /\ Before = 0
  BY <1>1, <1>3 DEF Before
<1>10. (count.node = delivered.header.nodeCount)' /\ (complete => Whole)'
  BY <1>1, <1>4, <1>5
<1>11. (Whole => CountsRight /\ ~ fail)'
  BY <1>1, <1>4, <1>5, <1>6
<1>12. (Whole => pos = EndOf(Before + i))'
  <2> PICK r : r = NodeCount
    OBVIOUS
  <2>1. r = (Before + i)'
    BY <1>1, <1>2, <1>9
  <2>2. Whole => r = Before + i
    BY <1>2, <1>4, <1>7, <1>9
  <2>3. Whole => pos = EndOf(r)
    BY <1>4, <2>2
  <2>4. Whole' => pos' = EndOf(r)'
    BY <1>1, <1>3, <1>5, <2>3
  <2> QED BY <2>1, <2>4
<1>13. (Handed(phase, i))'
  BY <1>1 DEF Handed
<1>14. (Len(delivered[phase]) = i)' /\ (Len(delivered[phase]) <= i)' /\ (DOMAIN delivered[phase] = {})'
  <2>1. delivered'[phase'] = << >>
    BY <1>1, <1>4
  <2> QED BY <1>1, <2>1
<1>15. (~ (i > 0))'
  BY <1>1
<1>16. (Len(delivered.node) <= NodeCount)'
  <2>1. Len(delivered.node) <= NodeCount
    <3>1. i > 0 => i = NodeCount
      BY <1>4, <1>7
    <3>2. Len(delivered.node) <= i
      BY <1>1, <1>4
    <3> QED BY <1>2, <3>1, <3>2
  <2> QED BY <1>1, <1>3, <2>1
<1>17. (count.node = 0 \/ (CountsRight /\ Handed("node", NodeCount - 1)))'
  <2> PICK n : n = NodeCount - 1
    OBVIOUS
  <2>1. count.node = 0 \/ (CountsRight /\ Handed("node", n))
    <3>1. CASE i = 0
      BY <1>1, <3>1
    <3>2. CASE i # 0
      <4>1. i > 0 /\ i = NodeCount
        BY <1>2, <1>4, <1>7, <3>2
      <4>2. CountsRight /\ Handed("node", i - 1)
        BY <1>1, <1>4, <4>1
      <4> QED BY <4>1, <4>2
    <3> QED BY <3>1, <3>2
  <2>2. (count.node = 0 \/ (CountsRight /\ Handed("node", n)))'
    BY <1>1, <1>6, <1>8, <2>1
  <2>3. n = (NodeCount - 1)'
    BY <1>3
  <2> QED BY <2>2, <2>3
<1>18. (Whole \/ i > 0 => Handed("node", NodeCount))'
  <2> PICK n : n = NodeCount
    OBVIOUS
  <2>1. Whole => Handed("node", n)
    BY <1>1, <1>4, <1>7
  <2>2. Whole' => Handed("node", n)'
    BY <1>5, <1>8, <2>1
  <2>3. n = NodeCount'
    BY <1>3
  <2> QED BY <1>15, <2>2, <2>3
<1>19. (Format = "binary" => \A n \in DOMAIN delivered.node : IsWritten("node", n))'
  <2>1. Format = "binary" => \A n \in DOMAIN delivered.node : IsWritten("node", n)
    BY <1>1, <1>4
  <2> QED BY <1>1, <1>3, <1>8, <2>1
<1> QED BY <1>10, <1>11, <1>12, <1>13, <1>14, <1>15, <1>16, <1>17, <1>18, <1>19 DEF LoopInv

\* What a reader that has come to its end has handed over.
LEMMA AllIsRead ==
  ASSUME FileInv, ValuesInv, LoopInv, ~ TextTags, phase = "edge", i = count.edge
  PROVE  /\ complete => AllDelivered
         /\ \/ delivered.header.nodeCount = 0
            \/ /\ count = [node |-> NodeCount, edge |-> EdgeCount]
               /\ \A n \in 1..NodeCount : IsWritten("node", n) \/ (n = NodeCount /\ EdgeCount = 0)
               /\ \A n \in 1..(EdgeCount - 1) : IsWritten("edge", n)
<1>1. /\ graph \in Graphs /\ NodeCount \in Nat /\ EdgeCount \in Nat /\ i \in Nat /\ count.node \in Nat
      /\ DOMAIN delivered.node = 1..Len(delivered.node) /\ Len(delivered.node) \in Nat
      /\ DOMAIN delivered.edge = 1..Len(delivered.edge) /\ Len(delivered.edge) \in Nat
      /\ delivered.node \in Seq([x : [1..5 -> Values], tags : {0, 1}])
      /\ delivered.edge \in Seq([x : [1..5 -> Values], tags : {0, 1}])
  BY ReaderTypes DEF Kinds
<1>2. /\ count.node = delivered.header.nodeCount
      /\ complete => Whole
      /\ Whole => CountsRight /\ Handed("edge", i) /\ Len(delivered.edge) = i
      /\ i > 0 => CountsRight /\ Handed("edge", i - 1)
      /\ Len(delivered.node) <= NodeCount
      /\ count.node = 0 \/ (CountsRight /\ Handed("node", NodeCount - 1))
      /\ Whole \/ i > 0 => Handed("node", NodeCount)
  BY DEF LoopInv, Kinds
<1>3. CountsRight => i = EdgeCount /\ count = [node |-> NodeCount, edge |-> EdgeCount]
  BY DEF CountsRight
<1>4. ASSUME complete PROVE AllDelivered
  <2>1. CountsRight /\ Handed("edge", EdgeCount) /\ Len(delivered.edge) = EdgeCount /\ Handed("node", NodeCount)
    BY <1>2, <1>3, <1>4
  <2>2. delivered.header = [type |-> GraphType, nodeCount |-> NodeCount, edgeCount |-> EdgeCount]
    BY <2>1 DEF CountsRight
  <2>3. \A n \in 1..NodeCount : n \in DOMAIN delivered.node /\ delivered.node[n] = Written("node", n)
    BY <2>1 DEF Handed, IsWritten
  <2>4. DOMAIN delivered.node = 1..NodeCount
    <3>1. NodeCount <= Len(delivered.node)
      <4>1. CASE NodeCount = 0
        BY <1>1, <4>1
      <4>2. CASE NodeCount # 0
        <5>1. NodeCount \in 1..NodeCount
          BY <1>1, <4>2
        <5>2. NodeCount \in 1..Len(delivered.node)
          BY <1>1, <2>3, <5>1
        <5> QED BY <5>2
      <4> QED BY <4>1, <4>2
    <3> QED BY <1>1, <1>2, <3>1
  <2>5. delivered.node = [n \in 1..NodeCount |-> delivered.node[n]]
    BY <1>1, <2>4
  <2>6. delivered.node = [n \in 1..NodeCount |-> Written("node", n)]
    BY <2>3, <2>5
  <2>7. \A n \in 1..EdgeCount : delivered.edge[n] = Written("edge", n)
    BY <2>1 DEF Handed, IsWritten
  <2>8. delivered.edge = [n \in 1..EdgeCount |-> delivered.edge[n]]
    BY <1>1, <2>1
  <2>9. delivered.edge = [n \in 1..EdgeCount |-> Written("edge", n)]
    BY <2>7, <2>8
  <2> QED BY <2>2, <2>6, <2>9 DEF AllDelivered
<1>5. ASSUME delivered.header.nodeCount # 0
      PROVE  /\ count = [node |-> NodeCount, edge |-> EdgeCount]
             /\ \A n \in 1..NodeCount : IsWritten("node", n) \/ (n = NodeCount /\ EdgeCount = 0)
             /\ \A n \in 1..(EdgeCount - 1) : IsWritten("edge", n)
  <2>1. CountsRight /\ Handed("node", NodeCount - 1) /\ i = EdgeCount
    BY <1>2, <1>3, <1>5
  <2>2. ASSUME NEW n \in 1..NodeCount PROVE IsWritten("node", n) \/ (n = NodeCount /\ EdgeCount = 0)
    <3>1. CASE EdgeCount = 0
      <4>1. n = NodeCount \/ n \in 1..(NodeCount - 1)
        BY <1>1
      <4> QED BY <2>1, <3>1, <4>1 DEF Handed
    <3>2. CASE EdgeCount # 0
      <4>1. i > 0
        BY <1>1, <2>1, <3>2
      <4>2. Handed("node", NodeCount)
        BY <1>2, <4>1
      <4> QED BY <4>2 DEF Handed
    <3> QED BY <3>1, <3>2
  <2>3. ASSUME NEW n \in 1..(EdgeCount - 1) PROVE IsWritten("edge", n)
    <3>1. i > 0
      BY <1>1, <2>1
    <3>2. Handed("edge", EdgeCount - 1)
      BY <1>2, <2>1, <3>1
    <3> QED BY <3>2 DEF Handed
  <2> QED BY <1>3, <2>1, <2>2, <2>3
<1> QED BY <1>4, <1>5

-----------------------------------------------------------------------------
(* The invariants.                                                         *)

LEMMA ReaderInit == Init => ValuesInv /\ ReaderInv
<1> SUFFICES ASSUME Init PROVE ValuesInv /\ ReaderInv
  OBVIOUS
<1>1. /\ graph \in Graphs /\ phase = "write" /\ pos = 0 /\ eof = FALSE /\ fail = FALSE /\ i = 0
      /\ values = Unread /\ count = [node |-> 0, edge |-> 0]
      /\ delivered = [header |-> NoHeader, node |-> << >>, edge |-> << >>]
  BY DEF Init
<1>2. values \in [Kinds -> [1..5 -> Values]] /\ values.edge[5] = Zero
  <2>1. Junk \in Values /\ Zero \in Values
    BY DEF Values
  <2> DEFINE a == [k \in 1..5 |-> Junk]
             b == [k \in 1..5 |-> IF k = 5 THEN Zero ELSE Junk]
  <2>2. a \in [1..5 -> Values] /\ b \in [1..5 -> Values] /\ b[5] = Zero
    BY <2>1
  <2>3. values = [node |-> a, edge |-> b]
    BY <1>1 DEF Unread
  <2> HIDE DEF a, b
  <2> QED BY <2>2, <2>3 DEF Kinds
<1>3. count \in [Kinds -> Nat]
  BY <1>1 DEF Kinds
<1>4. DOMAIN delivered = {"header"} \cup Kinds /\ delivered.node = << >> /\ delivered.edge = << >>
  BY <1>1 DEF Kinds
<1>5. \A kind \in Kinds : delivered[kind] \in Seq([x : [1..5 -> Values], tags : {0, 1}])
  <2> DEFINE S == [x : [1..5 -> Values], tags : {0, 1}]
  <2>1. \A kind \in Kinds : delivered[kind] = << >>
    BY <1>4 DEF Kinds
  <2> HIDE DEF S
  <2>2. << >> \in Seq(S)
    OBVIOUS
  <2>3. \A kind \in Kinds : delivered[kind] \in Seq(S)
    BY <2>1, <2>2
  <2> QED BY <2>3 DEF S
<1>6. ValuesInv
  BY <1>1, <1>2, <1>3, <1>4, <1>5 DEF ValuesInv, Kinds
<1>7. LoopInv
  BY <1>1 DEF LoopInv, Kinds
<1>8. OnlyTheLastIsWrong
  <2>1. \A kind \in {"node", "edge"} : delivered[kind] = << >>
    BY <1>4
  <2>2. \A kind \in {"node", "edge"} : DOMAIN delivered[kind] = {}
    BY <2>1
  <2> QED BY <2>2 DEF OnlyTheLastIsWrong
<1>9. RoundTrip /\ LosesAtMostOne
  BY <1>1 DEF RoundTrip, LosesAtMostOne
<1> QED BY <1>6, <1>7, <1>8, <1>9 DEF ReaderInv

\* While the file is written nothing has been read.
LEMMA WritersStep ==
  ASSUME FileInv, ValuesInv, phase = "write", phase' \in {"write", "header"},
         graph' = graph, UNCHANGED reading
  PROVE  ValuesInv' /\ ReaderInv'
<1>1. UNCHANGED <<pos, eof, fail, values, count, i, delivered>>
  BY DEF reading
<1>2. Values' = Values /\ GraphType' = GraphType
  BY GraphKept
<1>3. phase' \notin Kinds /\ phase' \notin {"failed", "crashed", "done"}
  BY DEF Kinds
<1>4. /\ pos = 0 /\ ~ eof /\ ~ fail /\ i = 0 /\ delivered.node = << >> /\ delivered.edge = << >>
  BY DEF ValuesInv
<1>5. ValuesInv'
  BY <1>1, <1>2, <1>3, <1>4 DEF ValuesInv
<1>6. LoopInv' /\ RoundTrip' /\ LosesAtMostOne'
  BY <1>3 DEF LoopInv, RoundTrip, LosesAtMostOne
<1>7. OnlyTheLastIsWrong'
  <2>1. \A kind \in {"node", "edge"} : delivered'[kind] = << >>
    BY <1>1, <1>4
  <2>2. \A kind \in {"node", "edge"} : DOMAIN delivered'[kind] = {}
    BY <2>1
  <2> QED BY <2>2 DEF OnlyTheLastIsWrong
<1> QED BY <1>5, <1>6, <1>7 DEF ReaderInv

\* What has been read, and what has been reported, when a loop has ended.
LEMMA EndStep ==
  ASSUME FileInv, ValuesInv, ReaderInv, EndLoop
  PROVE  ReaderInv'
<1>1. /\ phase \in Kinds /\ LoopDone
      /\ phase' = IF ~ Enough THEN "failed" ELSE IF phase = "node" THEN "edge" ELSE "done"
      /\ UNCHANGED <<graph, complete, count, delivered>>
  BY DEF EndLoop, Kinds
<1>2. /\ NodeCount' = NodeCount /\ EdgeCount' = EdgeCount /\ Format' = Format /\ GraphType' = GraphType
      /\ TextTags' = TextTags /\ \A kind, n : Written(kind, n)' = Written(kind, n)
  BY <1>1, GraphKept
<1> SUFFICES ASSUME ~ TextTags
             PROVE  LoopInv' /\ OnlyTheLastIsWrong' /\ RoundTrip' /\ LosesAtMostOne'
  BY <1>2 DEF ReaderInv
<1>3. LoopInv /\ OnlyTheLastIsWrong
  BY DEF ReaderInv
<1>4. \A kind, n : IsWritten(kind, n)' <=> IsWritten(kind, n)
  BY <1>1, <1>2 DEF IsWritten
<1>5. OnlyTheLastIsWrong'
  BY <1>1, <1>2, <1>3, <1>4 DEF OnlyTheLastIsWrong
<1>6. LoopInv'
  <2>1. CASE phase' = "edge"
    BY <1>3, <2>1, EdgesStart
  <2>2. CASE phase' # "edge"
    <3>1. phase' \notin Kinds
      BY <1>1, <2>2 DEF Kinds
    <3> QED BY <3>1 DEF LoopInv
  <2> QED BY <2>1, <2>2
<1>7. complete => Enough
  BY <1>1, <1>3, EndsWithAll
<1>8. phase' = "done" => phase = "edge" /\ i = count.edge
  BY <1>1 DEF Enough, Kinds
<1>9. RoundTrip'
  <2>1. complete' => phase' \notin {"failed", "crashed"}
    BY <1>1, <1>7
  <2>2. complete' /\ phase' = "done" => AllDelivered'
    <3>1. AllDelivered' <=> AllDelivered
      BY <1>1, <1>2 DEF AllDelivered
    <3> QED BY <1>1, <1>3, <1>8, <3>1, AllIsRead
  <2> QED BY <2>1, <2>2 DEF RoundTrip
<1>10. LosesAtMostOne'
  <2>1. SUFFICES ASSUME phase' = "done"
                 PROVE (\/ delivered.header.nodeCount = 0
                        \/ /\ count = [node |-> NodeCount, edge |-> EdgeCount]
                           /\ \A n \in 1..NodeCount : IsWritten("node", n) \/ (n = NodeCount /\ EdgeCount = 0)
                           /\ \A n \in 1..(EdgeCount - 1) : IsWritten("edge", n))'
    BY DEF LosesAtMostOne
  <2>2. \/ delivered.header.nodeCount = 0
        \/ /\ count = [node |-> NodeCount, edge |-> EdgeCount]
           /\ \A n \in 1..NodeCount : IsWritten("node", n) \/ (n = NodeCount /\ EdgeCount = 0)
           /\ \A n \in 1..(EdgeCount - 1) : IsWritten("edge", n)
    BY <1>3, <1>8, <2>1, AllIsRead
  <2> QED BY <1>1, <1>2, <1>4, <2>2
<1> QED BY <1>5, <1>6, <1>9, <1>10

LEMMA ReaderStep == FileInv /\ ValuesInv /\ ReaderInv /\ [Next]_vars => ValuesInv' /\ ReaderInv'
<1> SUFFICES ASSUME FileInv, ValuesInv, ReaderInv, [Next]_vars PROVE ValuesInv' /\ ReaderInv'
  OBVIOUS
<1>1. CASE WriteHeader
  BY <1>1, WritersStep DEF WriteHeader
<1>2. CASE WriteNode
  BY <1>2, WritersStep DEF WriteNode
<1>3. CASE WriteEdge
  BY <1>3, WritersStep DEF WriteEdge
<1>4. CASE Close
  BY <1>4, WritersStep DEF Close
<1>5. CASE Truncate
  BY <1>5, WritersStep DEF Truncate
<1>6. CASE ReadHeader
  <2>1. /\ ValuesInv' /\ OnlyTheLastIsWrong' /\ phase' \in {"node", "failed", "crashed"}
        /\ phase' = "node" => LoopInv'
        /\ phase' # "node" => ~ complete'
    BY <1>6, HeaderStep
  <2>2. LoopInv'
    <3>1. phase' # "node" => phase' \notin Kinds
      BY <2>1 DEF Kinds
    <3> QED BY <2>1, <3>1 DEF LoopInv
  <2>3. RoundTrip' /\ LosesAtMostOne'
    BY <2>1 DEF RoundTrip, LosesAtMostOne
  <2> QED BY <2>1, <2>2, <2>3 DEF ReaderInv
<1>7. CASE ReadText
  <2>1. ValuesInv'
    BY <1>7, TextValues
  <2>2. phase' = phase /\ phase \in Kinds /\ graph' = graph
    BY <1>7 DEF ReadText, Kinds
  <2>3. RoundTrip' /\ LosesAtMostOne'
    BY <2>2 DEF RoundTrip, LosesAtMostOne, Kinds
  <2>4. ~ TextTags => LoopInv' /\ OnlyTheLastIsWrong'
    BY <1>7, <2>1, TextLoopStep DEF ReaderInv
  <2>5. TextTags' = TextTags
    BY <2>2, GraphKept
  <2> QED BY <2>1, <2>3, <2>4, <2>5 DEF ReaderInv
<1>8. CASE ReadBinary
  <2>1. Format = "binary" /\ ~ TextTags /\ (phase' = phase \/ phase' = "crashed") /\ phase \in Kinds
    BY <1>8 DEF ReadBinary, TextTags, Kinds
  <2>2. /\ phase' \in Kinds => LoopInv'
        /\ phase' \notin Kinds => phase' = "crashed" /\ ~ complete'
        /\ OnlyTheLastIsWrong'
        /\ ValuesInv'
    BY <1>8, <2>1, BinaryLoopStep DEF ReaderInv
  <2>3. LoopInv'
    BY <2>2 DEF LoopInv
  <2>4. RoundTrip' /\ LosesAtMostOne'
    BY <2>1, <2>2 DEF RoundTrip, LosesAtMostOne, Kinds
  <2> QED BY <2>2, <2>3, <2>4 DEF ReaderInv
<1>9. CASE EndLoop
  BY <1>9, EndValues, EndStep
<1>10. CASE UNCHANGED vars
  <2>1. UNCHANGED <<graph, written, file, complete, separated, phase,
                    pos, eof, fail, values, count, i, delivered>>
    BY <1>10 DEF vars, reading
  <2>2. /\ NodeCount' = NodeCount /\ EdgeCount' = EdgeCount /\ Format' = Format /\ GraphType' = GraphType
        /\ TextTags' = TextTags /\ Values' = Values /\ HeaderLength' = HeaderLength
        /\ (\A kind, n : Written(kind, n)' = Written(kind, n)) /\ (\A r : EndOf(r)' = EndOf(r))
    BY <2>1, GraphKept
  <2>3. ValuesInv'
    BY <2>1, <2>2 DEF ValuesInv
  <2>4. \A kind, n : IsWritten(kind, n)' <=> IsWritten(kind, n)
    BY <2>1, <2>2 DEF IsWritten
  <2>5. \A kind, n : Handed(kind, n)' <=> Handed(kind, n)
    BY <2>4 DEF Handed
  <2>6. Before' = Before /\ (Whole' <=> Whole) /\ (CountsRight' <=> CountsRight)
    BY <2>1, <2>2 DEF Before, Whole, CountsRight
  <2>7. LoopInv => LoopInv'
    BY <2>1, <2>2, <2>4, <2>5, <2>6 DEF LoopInv
  <2>8. OnlyTheLastIsWrong => OnlyTheLastIsWrong'
    BY <2>1, <2>2, <2>4 DEF OnlyTheLastIsWrong
  <2>9. RoundTrip => RoundTrip'
    BY <2>1, <2>2 DEF RoundTrip, AllDelivered
  <2>10. LosesAtMostOne => LosesAtMostOne'
    BY <2>1, <2>2, <2>4 DEF LosesAtMostOne
  <2> QED BY <2>2, <2>3, <2>7, <2>8, <2>9, <2>10 DEF ReaderInv
<1> QED BY <1>1, <1>2, <1>3, <1>4, <1>5, <1>6, <1>7, <1>8, <1>9, <1>10 DEF Next

LEMMA InvariantsHold == Spec => [](FileInv /\ ValuesInv /\ ReaderInv)
<1>1. Init => FileInv /\ ValuesInv /\ ReaderInv
  BY FileInit, ReaderInit
<1>2. FileInv /\ ValuesInv /\ ReaderInv /\ [Next]_vars => (FileInv /\ ValuesInv /\ ReaderInv)'
  BY FileStep, ReaderStep
<1> QED BY <1>1, <1>2, PTL DEF Spec

(***************************************************************************)
(* The theorems.                                                           *)
(***************************************************************************)

LEMMA TypesFollow == FileInv /\ ValuesInv => TypeOK
<1> SUFFICES ASSUME FileInv, ValuesInv PROVE TypeOK
  OBVIOUS
<1>1. /\ phase \in {"write", "header", "node", "edge", "done", "failed", "crashed"}
      /\ written \in -1..(NodeCount + EdgeCount)
  BY DEF FileInv, RecordCount
<1>2. {complete, separated, eof, fail} \subseteq BOOLEAN
  BY DEF FileInv, ValuesInv
<1>3. /\ values \in [{"node", "edge"} -> [1..5 -> Values]]
      /\ count \in [{"node", "edge"} -> Nat]
      /\ phase \in {"node", "edge"} => i \in 0..count[phase]
  BY DEF ValuesInv, Kinds
<1>4. ASSUME NEW kind \in {"node", "edge"}, NEW n \in DOMAIN delivered[kind]
      PROVE  delivered[kind][n] \in [x : [1..5 -> Values], tags : {0, 1}]
  <2> DEFINE T == [x : [1..5 -> Values], tags : {0, 1}]
  <2>1. delivered[kind] \in Seq(T)
    BY DEF ValuesInv, Kinds
  <2> HIDE DEF T
  <2>2. delivered[kind][n] \in T
    BY <2>1
  <2> QED BY <2>2 DEF T
<1> QED BY <1>1, <1>2, <1>3, <1>4 DEF TypeOK

\* Without tags in a text file this is part of the invariant; with them the
\* properties say nothing (see TaggedTextIsRead).
LEMMA PropertiesFollow == ReaderInv => RoundTrip /\ OnlyTheLastIsWrong /\ LosesAtMostOne
BY DEF ReaderInv, RoundTrip, OnlyTheLastIsWrong, LosesAtMostOne

\* Whatever is written, wherever the file is cut and however far a reader has got,
\* the variables keep the types the code declares: the loop variables of the
\* readers (fmitextreader.cpp:58, 74, fmibinaryreader.cpp:130, 155) never run
\* ahead of the counts, and every record that is handed over has all its fields.
THEOREM FmiFilesTypeCorrect == Spec => []TypeOK
BY InvariantsHold, TypesFollow, PTL

\* A file always consists of the header and the first records as the writers put
\* them there (GraphWriter.cpp:145-276), record r ending at EndOf(r), except that
\* the token a cut goes through may have become a shorter one, and a closed file
\* has all of the records.
THEOREM FmiFilesHoldRecords == Spec => []FileInv
BY InvariantsHold, PTL

\* Whoever reads a complete file gets the graph, tags included if it is binary,
\* and no error: the readers (fmitextreader.cpp:27-86, fmibinaryreader.cpp:89-174)
\* take apart what the writers (GraphWriter.cpp:145-276) put together, for every
\* graph of any size.
THEOREM FmiFilesRoundTrip == Spec => []RoundTrip
BY InvariantsHold, PropertiesFollow, PTL

\* Wherever a file has been cut, a binary reader hands over nothing but the first
\* records as they were written, and never one that reaches beyond the end of the
\* file (fmibinaryreader.cpp:137, 164); a text reader may get its last call wrong
\* (fmitextreader.cpp:59-60, 75-79), but no earlier one.
THEOREM FmiFilesOnlyTheLastIsWrong == Spec => []OnlyTheLastIsWrong
BY InvariantsHold, PropertiesFollow, PTL

\* A reader that returns without an error has found the counts that were written
\* and lacks at most one record, unless it says that there are no nodes at all:
\* what "Not enough nodes" and "Not enough edges" are worth
\* (fmitextreader.cpp:62-65, 81-84, fmibinaryreader.cpp:142-145, 169-172).
THEOREM FmiFilesLoseAtMostOne == Spec => []LosesAtMostOne
BY InvariantsHold, PropertiesFollow, PTL

=============================================================================
