--------------------------- MODULE StartupProofs ---------------------------
(***************************************************************************)
(* Proofs about Startup: how the groups of a command line lie in argv, the *)
(* range of the direct map, the configuration, and the options.            *)
(***************************************************************************)
EXTENDS StartupInvariants, FiniteSetTheorems, FunctionTheorems, SequenceTheorems, TLAPS

(* Numbers and sequences.                                                  *)

\* Every interval of integers is finite.
LEMMA IntervalFinite ==
  ASSUME NEW n \in Int, NEW m \in Int
  PROVE  IsFiniteSet(n..m)
BY FS_Interval

\* Induction on the numbers up to n, for a set of numbers.
LEMMA IntervalInduction ==
  ASSUME NEW n \in Nat, NEW S, 0 \in S, \A j \in 0..(n - 1) : j \in S => j + 1 \in S
  PROVE  \A j \in 0..n : j \in S
<1> SUFFICES ASSUME NEW x \in 0..n, x \notin S PROVE FALSE
  OBVIOUS
<1> DEFINE T == {0..j : j \in {k \in 0..n : k \notin S}}
           R == StrictSubsetOrdering(0..n)
<1>1. T # {}
  OBVIOUS
<1>2. T \subseteq FiniteSubsetsOf(0..n)
  <2> SUFFICES ASSUME NEW j \in 0..n PROVE 0..j \in FiniteSubsetsOf(0..n)
    OBVIOUS
  <2>1. IsFiniteSet(0..j) /\ 0..j \subseteq 0..n
    BY IntervalFinite
  <2> QED BY <2>1 DEF FiniteSubsetsOf
<1>3. IsWellFoundedOn(R, FiniteSubsetsOf(0..n))
  BY FS_StrictSubsetOrderingWellFounded
<1> HIDE DEF T, R
<1>4. PICK t \in T : \A u \in T : ~(<<u, t>> \in R)
  BY <1>1, <1>2, <1>3, WFMin
<1> USE DEF T, R
<1>5. PICK j \in 0..n : j \notin S /\ t = 0..j
  OBVIOUS
<1>6. j # 0 /\ j - 1 \in 0..(n - 1) /\ j - 1 \in 0..n
  BY <1>5
<1>7. j - 1 \notin S
  BY <1>5, <1>6
<1>8. 0..(j - 1) \in T
  BY <1>6, <1>7
<1>9. 0..(j - 1) \subseteq 0..j /\ 0..(j - 1) # 0..j /\ 0..j \subseteq 0..n
  <2>1. j \in 0..j /\ j \notin 0..(j - 1)
    BY <1>6
  <2>2. 0..(j - 1) \subseteq 0..j /\ 0..j \subseteq 0..n
    BY <1>6
  <2> QED BY <2>1, <2>2
<1>10. <<0..(j - 1), t>> \in R
  BY <1>5, <1>9 DEF StrictSubsetOrdering
<1> QED BY <1>4, <1>8, <1>10

\* The function that FlattenSeq defines exists.
LEMMA FlattenExists ==
  ASSUME NEW s \in Seq(Seq(STRING))
  PROVE  \E F \in [1..Len(s) -> Seq(STRING)] :
           \A j \in 1..Len(s) : F[j] = IF j = 1 THEN s[j] ELSE F[j - 1] \o s[j]
<1> DEFINE Sums(F, n) == \A j \in 1..n : F[j] = IF j = 1 THEN s[j] ELSE F[j - 1] \o s[j]
           S == {n \in 0..Len(s) : \E F \in [1..n -> Seq(STRING)] : Sums(F, n)}
<1>1. Len(s) \in Nat /\ \A j \in 1..Len(s) : s[j] \in Seq(STRING)
  OBVIOUS
<1>2. 0 \in S
  <2>1. [j \in 1..0 |-> << >>] \in [1..0 -> Seq(STRING)] /\ Sums([j \in 1..0 |-> << >>], 0)
    OBVIOUS
  <2> HIDE DEF Sums
  <2>2. \E F \in [1..0 -> Seq(STRING)] : Sums(F, 0)
    BY <2>1
  <2>3. 0 \in 0..Len(s)
    BY <1>1
  <2> QED BY <2>2, <2>3, Zenon
<1>3. ASSUME NEW n \in 0..(Len(s) - 1), n \in S PROVE n + 1 \in S
  <2>1. PICK F \in [1..n -> Seq(STRING)] : Sums(F, n)
    BY <1>3
  <2> DEFINE next == IF n + 1 = 1 THEN s[n + 1] ELSE F[n] \o s[n + 1]
             G == [j \in 1..(n + 1) |-> IF j = n + 1 THEN next ELSE F[j]]
  <2>2. n + 1 \in 1..Len(s) /\ n \in Nat
    BY <1>1
  <2>3. next \in Seq(STRING)
    <3>1. CASE n = 0
      BY <1>1, <2>2, <3>1
    <3>2. CASE n # 0
      <4>1. F[n] \in Seq(STRING) /\ s[n + 1] \in Seq(STRING)
        BY <1>1, <2>2, <3>2
      <4>2. F[n] \o s[n + 1] \in Seq(STRING)
        BY <4>1, ConcatProperties
      <4>3. n + 1 # 1
        BY <2>2, <3>2
      <4>4. next = F[n] \o s[n + 1]
        BY <4>3, Zenon
      <4> QED BY <4>2, <4>4, Zenon
    <3> HIDE DEF next
    <3> QED BY <3>1, <3>2
  <2> HIDE DEF next
  <2>4. G \in [1..(n + 1) -> Seq(STRING)]
    BY <2>2, <2>3
  <2>5. \A j \in 1..n : G[j] = F[j]
    BY <2>2
  <2>6. G[n + 1] = next
    BY <2>2
  <2>7. Sums(G, n + 1)
    <3> SUFFICES ASSUME NEW j \in 1..(n + 1)
                 PROVE  G[j] = IF j = 1 THEN s[j] ELSE G[j - 1] \o s[j]
      OBVIOUS
    <3> HIDE DEF G
    <3>1. CASE j = n + 1
      <4>1. CASE n = 0
        BY <2>6, <3>1, <4>1 DEF next
      <4>2. CASE n # 0
        <5>1. G[n] = F[n] /\ n + 1 # 1 /\ j - 1 = n /\ j # 1
          BY <2>2, <2>5, <3>1, <4>2
        <5> QED BY <2>6, <3>1, <5>1 DEF next
      <4> QED BY <4>1, <4>2
    <3>2. CASE j # n + 1
      <4>1. j \in 1..n /\ (j # 1 => j - 1 \in 1..n)
        BY <2>2, <3>2
      <4> QED BY <2>1, <2>5, <4>1
    <3> QED BY <3>1, <3>2
  <2> HIDE DEF G, Sums
  <2>8. n + 1 \in 0..Len(s)
    BY <2>2
  <2> QED BY <2>4, <2>7, <2>8
<1> HIDE DEF S
<1>4. \A n \in 0..Len(s) : n \in S
  BY <1>1, <1>2, <1>3, IntervalInduction
<1>5. Len(s) \in S
  BY <1>1, <1>4
<1> QED BY <1>5 DEF S

\* FlattenSeq concatenates from the left.
LEMMA FlattenIs ==
  ASSUME NEW s \in Seq(Seq(STRING)), Len(s) # 0
  PROVE  \E F \in [1..Len(s) -> Seq(STRING)] :
           /\ \A j \in 1..Len(s) : F[j] = IF j = 1 THEN s[j] ELSE F[j - 1] \o s[j]
           /\ FlattenSeq(s) = F[Len(s)]
<1> DEFINE Body(F) == [j \in 1..Len(s) |-> IF j = 1 THEN s[j] ELSE F[j - 1] \o s[j]]
           C == CHOOSE F : F = Body(F)
<1>1. \E F : F = Body(F)
  <2>1. PICK F \in [1..Len(s) -> Seq(STRING)] :
          \A j \in 1..Len(s) : F[j] = IF j = 1 THEN s[j] ELSE F[j - 1] \o s[j]
    BY FlattenExists
  <2>2. F = Body(F)
    BY <2>1
  <2> QED BY <2>2
<1>2. C = Body(C)
  BY <1>1
<1>3. FlattenSeq(s) = C[Len(s)]
  BY DEF FlattenSeq
<1> HIDE DEF C
<1>4. \A j \in 1..Len(s) : C[j] = IF j = 1 THEN s[j] ELSE C[j - 1] \o s[j]
  BY <1>2
<1>5. DOMAIN C = 1..Len(s) /\ C = [j \in 1..Len(s) |-> C[j]]
  BY <1>2
<1> HIDE DEF Body
<1>6. \A j \in 1..Len(s) : C[j] \in Seq(STRING)
  <2> DEFINE S == {n \in 0..Len(s) : n = 0 \/ C[n] \in Seq(STRING)}
  <2>1. Len(s) \in Nat /\ 0 \in S
    OBVIOUS
  <2>2. ASSUME NEW n \in 0..(Len(s) - 1), n \in S PROVE n + 1 \in S
    <3>1. n + 1 \in 1..Len(s) /\ s[n + 1] \in Seq(STRING) /\ n \in Nat
      BY <2>1
    <3>2. CASE n = 0
      BY <1>4, <3>1, <3>2
    <3>3. CASE n # 0
      <4>1. C[n] \in Seq(STRING) /\ n + 1 # 1 /\ (n + 1) - 1 = n
        BY <2>2, <3>1, <3>3
      <4>2. C[n + 1] = C[n] \o s[n + 1]
        BY <1>4, <3>1, <4>1
      <4>3. C[n + 1] \in Seq(STRING)
        BY <3>1, <4>1, <4>2, ConcatProperties
      <4> QED BY <3>1, <4>3
    <3> QED BY <3>2, <3>3
  <2> HIDE DEF S
  <2>3. \A j \in 0..Len(s) : j \in S
    BY <2>1, <2>2, IntervalInduction
  <2> QED BY <2>3, <2>1 DEF S
<1>7. C \in [1..Len(s) -> Seq(STRING)]
  BY <1>5, <1>6
<1> QED BY <1>3, <1>4, <1>7

\* Two sequences, one behind the other.
LEMMA ConcatIs ==
  ASSUME NEW f \in Seq(STRING), NEW t \in Seq(STRING)
  PROVE  /\ f \o t \in Seq(STRING)
         /\ Len(f) \in Nat /\ Len(t) \in Nat
         /\ Len(f \o t) = Len(f) + Len(t)
         /\ \A x \in Nat \ {0} : x <= Len(f) => (f \o t)[x] = f[x]
         /\ \A x \in Nat \ {0} : x <= Len(t) => (f \o t)[Len(f) + x] = t[x]
<1>1. /\ f \o t \in Seq(STRING)
      /\ Len(f \o t) = Len(f) + Len(t)
  BY ConcatProperties
<1>2. \A x \in 1..(Len(f) + Len(t)) : (f \o t)[x] = IF x <= Len(f) THEN f[x] ELSE t[x - Len(f)]
  BY ConcatProperties
<1>3. Len(f) \in Nat /\ Len(t) \in Nat
  OBVIOUS
<1>4. ASSUME NEW x \in Nat \ {0}, x <= Len(f) PROVE (f \o t)[x] = f[x]
  BY <1>2, <1>3, <1>4
<1>5. ASSUME NEW x \in Nat \ {0}, x <= Len(t) PROVE (f \o t)[Len(f) + x] = t[x]
  <2>1. Len(f) + x \in 1..(Len(f) + Len(t)) /\ ~(Len(f) + x <= Len(f)) /\ (Len(f) + x) - Len(f) = x
    BY <1>3, <1>5
  <2> QED BY <1>2, <2>1
<1> QED BY <1>1, <1>3, <1>4, <1>5

\* Where the parts lie in their concatenation, if e adds up their lengths.
LEMMA FlattenPlaces ==
  ASSUME NEW s \in Seq(Seq(STRING)), NEW e, e[0] = 0,
         \A k \in 1..Len(s) : e[k] = e[k - 1] + Len(s[k])
  PROVE  /\ FlattenSeq(s) \in Seq(STRING)
         /\ \A k \in 0..Len(s) : e[k] \in Nat /\ e[k] <= e[Len(s)]
         /\ e[Len(s)] = Len(FlattenSeq(s))
         /\ \A k \in 1..Len(s), j \in Nat \ {0} :
              j <= Len(s[k]) => FlattenSeq(s)[e[k - 1] + j] = s[k][j]
<1>1. Len(s) \in Nat /\ \A k \in 1..Len(s) : s[k] \in Seq(STRING)
  OBVIOUS
<1>2. CASE Len(s) = 0
  <2>1. FlattenSeq(s) = s /\ s = << >>
    BY <1>2 DEF FlattenSeq
  <2>2. FlattenSeq(s) \in Seq(STRING) /\ Len(FlattenSeq(s)) = 0
    BY <2>1
  <2> QED BY <1>2, <2>2
<1>3. CASE Len(s) # 0
  <2>1. PICK F \in [1..Len(s) -> Seq(STRING)] :
           /\ \A j \in 1..Len(s) : F[j] = IF j = 1 THEN s[j] ELSE F[j - 1] \o s[j]
           /\ FlattenSeq(s) = F[Len(s)]
    BY <1>3, FlattenIs
  <2> DEFINE
    Within(n) == \A k \in 0..n : e[k] \in Nat /\ e[k] <= e[n]
    Lies(n)   == \A k \in 1..n, j \in Nat \ {0} :
                   j <= Len(s[k]) => F[n][e[k - 1] + j] = s[k][j]
    S == {n \in 0..Len(s) : Within(n) /\ (n # 0 => Len(F[n]) = e[n] /\ Lies(n))}
  <2>2. 0 \in S
    <3>1. Within(0) /\ 0 \in 0..Len(s)
      BY <1>1
    <3> HIDE DEF Within, Lies
    <3> QED BY <3>1
  <2>3. ASSUME NEW n \in 0..(Len(s) - 1), n \in S PROVE n + 1 \in S
    <3>1. n \in Nat /\ n + 1 \in 1..Len(s) /\ n + 1 \in 0..Len(s) /\ (n + 1) - 1 = n
      BY <1>1
    <3>2. e[n + 1] = e[n] + Len(s[n + 1])
      BY <3>1
    <3>3. s[n + 1] \in Seq(STRING) /\ Len(s[n + 1]) \in Nat
      BY <1>1, <3>1
    <3>4. Within(n) /\ e[n] \in Nat
      BY <2>3, <3>1
    <3>5. e[n + 1] \in Nat /\ e[n] <= e[n + 1]
      BY <3>2, <3>3, <3>4
    <3>6. Within(n + 1)
      <4> SUFFICES ASSUME NEW k \in 0..(n + 1) PROVE e[k] \in Nat /\ e[k] <= e[n + 1]
        OBVIOUS
      <4>1. CASE k = n + 1
        BY <3>5, <4>1
      <4>2. CASE k # n + 1
        <5>1. k \in 0..n
          BY <3>1, <4>2
        <5>2. e[k] \in Nat /\ e[k] <= e[n]
          BY <3>4, <5>1
        <5> QED BY <3>4, <3>5, <5>2
      <4> QED BY <4>1, <4>2
    <3> HIDE DEF Within
    <3>7. Len(F[n + 1]) = e[n + 1] /\ Lies(n + 1)
      <4>1. CASE n = 0
        <5>1. F[n + 1] = s[n + 1] /\ e[n] = 0
          <6>1. n + 1 = 1 /\ e[n] = 0
            BY <4>1
          <6> QED BY <2>1, <3>1, <6>1
        <5>2. Len(F[n + 1]) = e[n + 1]
          BY <3>2, <3>3, <5>1
        <5>3. \A k \in 1..(n + 1) : k = n + 1 /\ k - 1 = n
          BY <4>1
        <5>4. Lies(n + 1)
          <6> SUFFICES ASSUME NEW k \in 1..(n + 1), NEW j \in Nat \ {0}, j <= Len(s[k])
                       PROVE  F[n + 1][e[k - 1] + j] = s[k][j]
            OBVIOUS
          <6>1. k = n + 1 /\ k - 1 = n
            BY <5>3
          <6>2. 0 + j = j
            OBVIOUS
          <6> QED BY <5>1, <6>1, <6>2
        <5> QED BY <5>2, <5>4
      <4>2. CASE n # 0
        <5>1. n \in 1..Len(s) /\ n + 1 # 1
          BY <3>1, <4>2
        <5>2. F[n + 1] = F[n] \o s[n + 1]
          BY <2>1, <3>1, <5>1
        <5>3. F[n] \in Seq(STRING) /\ Len(F[n]) = e[n] /\ Lies(n)
          BY <2>1, <2>3, <4>2, <5>1
        <5> DEFINE f == F[n]  t == s[n + 1]
        <5>4. f \in Seq(STRING) /\ t \in Seq(STRING) /\ Len(f) = e[n]
          BY <3>3, <5>3
        <5> HIDE DEF f, t
        <5>5. /\ Len(f \o t) = Len(f) + Len(t)
              /\ \A x \in Nat \ {0} : x <= Len(f) => (f \o t)[x] = f[x]
              /\ \A x \in Nat \ {0} : x <= Len(t) => (f \o t)[Len(f) + x] = t[x]
          BY <5>4, ConcatIs
        <5> USE DEF f, t
        <5>6. Len(F[n + 1]) = e[n + 1]
          BY <3>2, <5>2, <5>4, <5>5
        <5>7. Lies(n + 1)
          <6> SUFFICES ASSUME NEW k \in 1..(n + 1), NEW j \in Nat \ {0}, j <= Len(s[k])
                       PROVE  F[n + 1][e[k - 1] + j] = s[k][j]
            OBVIOUS
          <6>1. CASE k = n + 1
            <7>1. k - 1 = n /\ j <= Len(t)
              BY <3>1, <6>1
            <7>3. (f \o t)[e[n] + j] = t[j]
              BY <5>4, <5>5, <7>1
            <7> QED BY <5>2, <6>1, <7>1, <7>3
          <6>2. CASE k # n + 1
            <7>1. k \in 1..n /\ k \in 0..n /\ k - 1 \in 0..n
              BY <3>1, <6>2
            <7>2. F[n][e[k - 1] + j] = s[k][j]
              BY <5>3, <7>1
            <7>3. e[k] = e[k - 1] + Len(s[k]) /\ e[k - 1] \in Nat /\ e[k] \in Nat /\ e[k] <= e[n]
                  /\ Len(s[k]) \in Nat
              BY <1>1, <3>1, <3>4, <7>1 DEF Within
            <7>4. e[k - 1] + j \in Nat \ {0} /\ e[k - 1] + j <= Len(f)
              <8>1. e[k - 1] + j \in Nat \ {0} /\ e[k - 1] + j <= e[k]
                BY <7>3
              <8>2. e[k - 1] + j <= e[n]
                BY <3>4, <7>3, <8>1
              <8> QED BY <5>4, <8>1, <8>2
            <7>5. (f \o t)[e[k - 1] + j] = f[e[k - 1] + j]
              BY <5>5, <7>4
            <7> QED BY <5>2, <7>2, <7>5
          <6> QED BY <6>1, <6>2
        <5> QED BY <5>6, <5>7
      <4> QED BY <4>1, <4>2
    <3> HIDE DEF Lies
    <3> QED BY <3>1, <3>6, <3>7
  <2> HIDE DEF S
  <2>4. \A n \in 0..Len(s) : n \in S
    BY <1>1, <2>2, <2>3, IntervalInduction
  <2>5. Within(Len(s)) /\ Len(F[Len(s)]) = e[Len(s)] /\ Lies(Len(s))
    BY <1>1, <1>3, <2>4 DEF S
  <2>6. F[Len(s)] \in Seq(STRING)
    <3>1. Len(s) \in 1..Len(s)
      BY <1>1, <1>3
    <3> QED BY <2>1, <3>1
  <2> QED BY <2>1, <2>5, <2>6
<1> QED BY <1>2, <1>3

\* ArgsUpTo adds up the lengths of the groups.
LEMMA ArgsUpToIs ==
  ASSUME input \in Inputs
  PROVE  /\ ArgsUpTo[0] = 0
         /\ \A k \in 1..GroupCount : ArgsUpTo[k] = ArgsUpTo[k - 1] + Len(input.groups[k])
<1> DEFINE s == input.groups
           Body(e) == [k \in 0..Len(s) |-> IF k = 0 THEN 0 ELSE e[k - 1] + Len(s[k])]
<1>1. s \in Seq(Seq(STRING))
  BY StartupAssumption
<1>2. Len(s) \in Nat
  BY <1>1
<1>3. \E e : e = Body(e)
  <2>1. PICK F \in [1..Len(s) -> Seq(STRING)] :
          \A j \in 1..Len(s) : F[j] = IF j = 1 THEN s[j] ELSE F[j - 1] \o s[j]
    BY <1>1, FlattenExists
  <2> DEFINE e == [k \in 0..Len(s) |-> IF k = 0 THEN 0 ELSE Len(F[k])]
  <2>2. e[0] = 0 /\ \A k \in 1..Len(s) : e[k] = Len(F[k])
    BY <1>2
  <2>3. \A k \in 1..Len(s) : e[k] = e[k - 1] + Len(s[k])
    <3> SUFFICES ASSUME NEW k \in 1..Len(s) PROVE e[k] = e[k - 1] + Len(s[k])
      OBVIOUS
    <3>1. s[k] \in Seq(STRING) /\ Len(s[k]) \in Nat
      BY <1>1
    <3>2. e[k] = Len(F[k])
      BY <2>2
    <3> HIDE DEF e, s
    <3>3. CASE k = 1
      <4>1. F[k] = s[k] /\ e[k - 1] = 0
        <5>1. k - 1 = 0
          BY <3>3
        <5> QED BY <2>1, <2>2, <3>3, <5>1
      <4> QED BY <3>1, <3>2, <4>1
    <3>4. CASE k # 1
      <4>1. k - 1 \in 1..Len(s)
        BY <1>2, <3>4
      <4>2. e[k - 1] = Len(F[k - 1]) /\ F[k] = F[k - 1] \o s[k] /\ F[k - 1] \in Seq(STRING)
        BY <2>1, <2>2, <3>4, <4>1
      <4>3. Len(F[k - 1] \o s[k]) = Len(F[k - 1]) + Len(s[k])
        BY <3>1, <4>2, ConcatIs
      <4> QED BY <3>2, <4>2, <4>3
    <3> QED BY <3>3, <3>4
  <2>4. e = Body(e)
    <3>1. ASSUME NEW k \in 0..Len(s) PROVE e[k] = IF k = 0 THEN 0 ELSE e[k - 1] + Len(s[k])
      <4>1. k = 0 \/ k \in 1..Len(s)
        BY <1>2
      <4> HIDE DEF e, s
      <4> QED BY <2>2, <2>3, <4>1
    <3> QED BY <3>1
  <2> QED BY <2>4
<1>4. ArgsUpTo = CHOOSE e : e = Body(e)
  BY DEF ArgsUpTo, GroupCount
<1>5. ArgsUpTo = Body(ArgsUpTo)
  BY <1>3, <1>4
<1>6. \A k \in 0..Len(s) : ArgsUpTo[k] = IF k = 0 THEN 0 ELSE ArgsUpTo[k - 1] + Len(s[k])
  BY <1>5
<1>7. 0 \in 0..Len(s) /\ \A k \in 1..Len(s) : k \in 0..Len(s) /\ k # 0
  BY <1>2
<1> QED BY <1>6, <1>7 DEF GroupCount

\* argv is made of the groups.
LEMMA ArgvIs ==
  ASSUME input \in Inputs
  PROVE  /\ argv \in Seq(STRING) /\ GroupCount \in Nat
         /\ \A k \in 0..GroupCount : ArgsUpTo[k] \in Nat /\ ArgsUpTo[k] <= Len(argv)
         /\ ArgsUpTo[0] = 0 /\ ArgsUpTo[GroupCount] = Len(argv)
         /\ \A k \in 1..GroupCount : ArgsUpTo[k] = ArgsUpTo[k - 1] + Len(input.groups[k])
         /\ \A k \in 1..GroupCount, j \in Nat \ {0} :
              j <= Len(input.groups[k]) => argv[ArgsUpTo[k - 1] + j] = input.groups[k][j]
<1>1. input.groups \in Seq(Seq(STRING)) /\ GroupCount \in Nat
  BY StartupAssumption DEF GroupCount
<1>2. /\ ArgsUpTo[0] = 0
      /\ \A k \in 1..GroupCount : ArgsUpTo[k] = ArgsUpTo[k - 1] + Len(input.groups[k])
  BY ArgsUpToIs
<1> QED BY <1>1, <1>2, FlattenPlaces DEF GroupCount, argv

\* A finite set of numbers that is not empty has a largest and a least member.
LEMMA Extremes ==
  ASSUME NEW S, S \subseteq Int, IsFiniteSet(S), S # {}
  PROVE  /\ Max(S) \in S /\ \A x \in S : x <= Max(S)
         /\ Min(S) \in S /\ \A x \in S : Min(S) <= x
<1> DEFINE R == StrictSubsetOrdering(S)
           Above(x) == {y \in S : y > x}
           Below(x) == {y \in S : y < x}
           As == {Above(x) : x \in S}
           Bs == {Below(x) : x \in S}
<1>1. IsWellFoundedOn(R, FiniteSubsetsOf(S))
  BY FS_StrictSubsetOrderingWellFounded
<1>2. \A P : P \subseteq S => P \in FiniteSubsetsOf(S)
  BY FS_Subset DEF FiniteSubsetsOf
<1>3. \E m \in S : \A x \in S : x <= m
  <2>1. As \subseteq FiniteSubsetsOf(S) /\ As # {}
    <3>1. \A x \in S : Above(x) \in FiniteSubsetsOf(S)
      BY <1>2
    <3> HIDE DEF Above
    <3> QED BY <3>1
  <2> HIDE DEF As, R
  <2>2. PICK t \in As : \A u \in As : ~(<<u, t>> \in R)
    BY <1>1, <2>1, WFMin
  <2>3. PICK m \in S : t = Above(m)
    BY <2>2 DEF As
  <2>4. ASSUME NEW x \in S, ~(x <= m) PROVE FALSE
    <3>1. x > m /\ x \in Int /\ m \in Int
      BY <2>4
    <3>2. Above(x) \subseteq Above(m) /\ x \in Above(m) /\ x \notin Above(x)
      <4>1. \A y \in S : y \in Int
        OBVIOUS
      <4>2. \A y \in S : y > x => y > m
        BY <3>1, <4>1
      <4>3. ~(x > x)
        BY <3>1
      <4> QED BY <3>1, <4>2, <4>3
    <3>3. Above(x) \in As /\ Above(x) \subseteq S /\ Above(m) \subseteq S
      BY DEF As
    <3> HIDE DEF Above
    <3>4. <<Above(x), Above(m)>> \in R
      BY <3>2, <3>3 DEF R, StrictSubsetOrdering
    <3> QED BY <2>2, <2>3, <3>3, <3>4
  <2> QED BY <2>4
<1>4. \E m \in S : \A x \in S : m <= x
  <2>1. Bs \subseteq FiniteSubsetsOf(S) /\ Bs # {}
    <3>1. \A x \in S : Below(x) \in FiniteSubsetsOf(S)
      BY <1>2
    <3> HIDE DEF Below
    <3> QED BY <3>1
  <2> HIDE DEF Bs, R
  <2>2. PICK t \in Bs : \A u \in Bs : ~(<<u, t>> \in R)
    BY <1>1, <2>1, WFMin
  <2>3. PICK m \in S : t = Below(m)
    BY <2>2 DEF Bs
  <2>4. ASSUME NEW x \in S, ~(m <= x) PROVE FALSE
    <3>1. x < m /\ x \in Int /\ m \in Int
      BY <2>4
    <3>2. Below(x) \subseteq Below(m) /\ x \in Below(m) /\ x \notin Below(x)
      <4>1. \A y \in S : y \in Int
        OBVIOUS
      <4>2. \A y \in S : y < x => y < m
        BY <3>1, <4>1
      <4>3. ~(x < x)
        BY <3>1
      <4> QED BY <3>1, <4>2, <4>3
    <3>3. Below(x) \in Bs /\ Below(x) \subseteq S /\ Below(m) \subseteq S
      BY DEF Bs
    <3> HIDE DEF Below
    <3>4. <<Below(x), Below(m)>> \in R
      BY <3>2, <3>3 DEF R, StrictSubsetOrdering
    <3> QED BY <2>2, <2>3, <3>3, <3>4
  <2> QED BY <2>4
<1>5. Max(S) \in S /\ \A x \in S : x <= Max(S)
  <2>1. \E m \in S : \A x \in S : m >= x
    <3>1. \A m, x \in S : m >= x <=> x <= m
      OBVIOUS
    <3> QED BY <1>3, <3>1
  <2>2. Max(S) \in S /\ \A x \in S : Max(S) >= x
    BY <2>1 DEF Max
  <2> QED BY <2>2
<1>6. Min(S) \in S /\ \A x \in S : Min(S) <= x
  BY <1>4 DEF Min
<1> QED BY <1>5, <1>6

-----------------------------------------------------------------------------
(* Types.                                                                  *)

LEMMA WordFacts ==
  /\ SignedWords \subseteq Int
  /\ -1 \in SignedWords /\ 0 \in SignedWords /\ 0 \in 0..(WordSpace - 1)
  /\ \A x \in Int : Unsigned(x) \in 0..(WordSpace - 1)
<1>1. WordSpace \in Nat /\ WordSpace >= 2
  BY StartupAssumption
<1>2. WordSpace \div 2 \in Nat /\ WordSpace \div 2 >= 1
  BY <1>1, SMT
<1> QED BY <1>1, <1>2 DEF SignedWords, Unsigned

LEMMA LineFacts ==
  ASSUME input \in Inputs
  PROVE  lines \in Seq(STRING) /\ Len(lines) \in Nat /\ RecordCount \in Nat
<1>1. lines \in Seq(STRING)
  BY StartupAssumption DEF lines
<1> QED BY <1>1 DEF RecordCount

LEMMA NumberFacts ==
  \A s : atof(s) \in SignedWords /\ NumberIn(s) = atof(s)
BY StartupAssumption, WordFacts DEF atof, NumberIn

\* A value that an option may have.
FieldOK(f, x) ==
  /\ f \in DOMAIN Defaults
  /\ f = "wcType" => x \in Range(WeightWords)
  /\ f = "graphType" => x \in Range(GraphWords)
  /\ f = "mode" => x \in {NoValue} \cup Range(ModeWords)
  /\ f = "bounds" => x \in {NoValue} \cup Bounds
  /\ f \in {"sortedEdges", "noReverse"} => x \in BOOLEAN
  /\ f = "populate" => x \in SignedWords
  /\ f = "threshold" => x \in 0..(WordSpace - 1)

LEMMA SetField ==
  ASSUME NEW c, CmdOK(c), NEW f, NEW x, FieldOK(f, x)
  PROVE  CmdOK([c EXCEPT ![f] = x])
<1> DEFINE d == [c EXCEPT ![f] = x]
<1>1. DOMAIN d = DOMAIN Defaults
  BY DEF CmdOK
<1>2. \A g \in DOMAIN Defaults : d[g] = IF g = f THEN x ELSE c[g]
  BY DEF CmdOK
<1>3. {"wcType", "graphType", "mode", "bounds", "sortedEdges", "noReverse", "populate", "threshold"}
        \subseteq DOMAIN Defaults
  BY DEF Defaults
<1> HIDE DEF d
<1>4. d.wcType \in Range(WeightWords) /\ d.graphType \in Range(GraphWords)
  BY <1>2, <1>3 DEF CmdOK, FieldOK
<1>5. d.mode \in {NoValue} \cup Range(ModeWords) /\ d.bounds \in {NoValue} \cup Bounds
  BY <1>2, <1>3 DEF CmdOK, FieldOK
<1>6. d.sortedEdges \in BOOLEAN /\ d.noReverse \in BOOLEAN
  BY <1>2, <1>3 DEF CmdOK, FieldOK
<1>7. d.populate \in SignedWords /\ d.threshold \in 0..(WordSpace - 1)
  BY <1>2, <1>3 DEF CmdOK, FieldOK
<1>8. CmdOK(d)
  BY <1>1, <1>4, <1>5, <1>6, <1>7 DEF CmdOK
<1> QED BY <1>8 DEF d

LEMMA DefaultsOK == CmdOK(Defaults)
<1>1. Defaults.wcType \in Range(WeightWords) /\ Defaults.graphType \in Range(GraphWords)
  BY DEF Defaults, WeightWords, GraphWords, Range
<1>2. Defaults.mode = NoValue /\ Defaults.bounds = NoValue /\ Defaults.sortedEdges = FALSE
      /\ Defaults.noReverse = FALSE /\ Defaults.populate = -1 /\ Defaults.threshold = 0
  BY DEF Defaults
<1> QED BY <1>1, <1>2, WordFacts DEF CmdOK

LEMMA ValuedIs ==
  /\ DOMAIN Valued = {"-t", "-g", "-c", "-o", "-hs", "-dm", "-tm", "-b", "-cc"}
  /\ Valued["-t"] = "wcType" /\ Valued["-g"] = "graphType" /\ Valued["-c"] = "config"
  /\ Valued["-o"] = "outFile" /\ Valued["-hs"] = "populate" /\ Valued["-dm"] = "distanceMult"
  /\ Valued["-tm"] = "timeMult" /\ Valued["-b"] = "bounds" /\ Valued["-cc"] = "mode"
BY DEF Valued

LEMMA FlagsAre ==
  /\ DOMAIN Flags = {"-s", "--no-reverse-edge"}
  /\ Flags["-s"] = "sortedEdges" /\ Flags["--no-reverse-edge"] = "noReverse"
BY DEF Flags

LEMMA TypeInit == Init => TypeInv
<1> SUFFICES ASSUME Init PROVE TypeInv
  OBVIOUS
<1>1. argv \in Seq(STRING) /\ Len(argv) \in Nat
  BY ArgvIs DEF Init
<1>2. pc = "args" /\ i = 1 /\ inputFileNames = << >> /\ hwTagIds = NoEntries /\ range = NoRange
      /\ CmdOK(cmd) /\ input \in Inputs
  BY DefaultsOK DEF Init
<1>3. DOMAIN hwTagIds = {}
  BY <1>2 DEF NoEntries
<1>4. inputFileNames \in Seq(STRING) /\ Range(inputFileNames) = {}
  BY <1>2 DEF Range
<1>5. range.from = 0 /\ range.to = 0
  BY <1>2 DEF NoRange
<1>6. pc \in {"args", "open", "config", "writer", "range"} \cup Ends
  BY <1>2
<1>7. /\ i \in Nat \ {0} /\ i <= Len(argv) + 1
      /\ pc # "open" /\ pc # "config" /\ ~(pc # "args")
  BY <1>1, <1>2
<1>8. DOMAIN hwTagIds \subseteq Range(lines) \ {""} /\ Range(inputFileNames) \subseteq Range(argv)
  BY <1>3, <1>4
<1> QED BY <1>2, <1>4, <1>5, <1>6, <1>7, <1>8, WordFacts, Zenon DEF TypeInv

\* What main holds on to.
LEMMA Kept ==
  ASSUME TypeInv, [Next]_vars
  PROVE  /\ input' = input /\ argv' = argv /\ lines' = lines
         /\ argv \in Seq(STRING) /\ Len(argv) \in Nat
         /\ lines \in Seq(STRING) /\ Len(lines) \in Nat
<1>1. input' = input
  BY DEF Next, vars, Arguments, InArgs, TooFew, Help, ChoiceOption, NameOption, FactorOption,
         PopulateOption, BoundsOption, ComponentsOption, Flag, UnknownCommand, InputFile, EndArgs,
         OpenFiles, ReadRecord, EndConfig, OpenWriter, EndStartup, Ended
<1>2. argv \in Seq(STRING) /\ lines \in Seq(STRING)
  BY ArgvIs, LineFacts DEF TypeInv
<1> QED BY <1>1, <1>2 DEF argv, lines

LEMMA EndType ==
  ASSUME TypeInv, [Next]_vars, NEW how \in Ends \ {"passes"}, End(how), pc \in {"args", "open", "writer"},
         UNCHANGED <<config, range>>
  PROVE  TypeInv'
<1>1. pc' = how /\ i' = i /\ cmd' = cmd /\ inputFileNames' = inputFileNames /\ hwTagIds' = hwTagIds
      /\ range' = range
  BY DEF End, config
<1>2. how \notin {"args", "open", "config", "passes"} /\ how \in Ends
  BY DEF Ends
<1>3. i <= Len(argv) + Len(lines) + 4
  <2>1. i \in Nat /\ (i <= Len(argv) + 1 \/ i <= Len(argv) + Len(lines) + 4)
    BY DEF TypeInv
  <2> QED BY <2>1, Kept
<1>4. range = NoRange
  BY DEF TypeInv
<1> QED BY <1>1, <1>2, <1>3, <1>4, Kept DEF TypeInv

\* Setting fields of cmd does not disturb the rest.
LEMMA CmdType ==
  ASSUME TypeInv, [Next]_vars, InArgs, CmdOK(cmd'), i' \in Nat \ {0}, i' <= Len(argv) + 1,
         UNCHANGED <<pc, inputFileNames>>
  PROVE  TypeInv'
<1>1. pc = "args" /\ pc' = "args" /\ UNCHANGED <<input, hwTagIds, range>>
      /\ inputFileNames' = inputFileNames
  BY DEF InArgs, config
<1>2. range = NoRange
  BY <1>1 DEF TypeInv
<1> QED BY <1>1, <1>2, Kept DEF TypeInv

LEMMA SetToType ==
  ASSUME TypeInv, [Next]_vars, InArgs, HasNext, NEW f, NEW x, FieldOK(f, x), SetTo(f, x)
  PROVE  TypeInv'
<1>1. CmdOK(cmd')
  BY SetField DEF SetTo, TypeInv
<1>2. i \in Nat \ {0} /\ i + 1 <= Len(argv) /\ i' = i + 2 /\ UNCHANGED <<pc, inputFileNames>>
  BY DEF TypeInv, HasNext, SetTo, Skip
<1>3. i' \in Nat \ {0} /\ i' <= Len(argv) + 1
  BY <1>2, Kept
<1> QED BY <1>1, <1>2, <1>3, CmdType

LEMMA ArgumentsType ==
  ASSUME TypeInv, [Next]_vars, Arguments
  PROVE  TypeInv'
<1>0. InArgs => pc = "args" /\ i \in Nat \ {0} /\ i <= Len(argv) /\ UNCHANGED <<config, range>>
  BY DEF InArgs, TypeInv
<1>1. ASSUME TooFew PROVE TypeInv'
  <2>1. End("help") /\ "help" \in Ends \ {"passes"} /\ pc = "args" /\ UNCHANGED <<config, range>>
    BY <1>1 DEF TooFew, Ends
  <2> QED BY <2>1, EndType
<1>2. ASSUME Help PROVE TypeInv'
  <2>1. End("help") /\ "help" \in Ends \ {"passes"} /\ pc = "args" /\ UNCHANGED <<config, range>>
    BY <1>0, <1>2 DEF Help, Ends
  <2> QED BY <2>1, EndType
<1>a. ASSUME InArgs, End("rejected") PROVE TypeInv'
  <2>1. "rejected" \in Ends \ {"passes"} /\ pc \in {"args", "open", "writer"} /\ UNCHANGED <<config, range>>
    BY <1>0, <1>a DEF Ends
  <2> QED BY <2>1, <1>a, EndType
<1>b. ASSUME InArgs, End("crashed") PROVE TypeInv'
  <2>1. "crashed" \in Ends \ {"passes"} /\ pc \in {"args", "open", "writer"} /\ UNCHANGED <<config, range>>
    BY <1>0, <1>b DEF Ends
  <2> QED BY <2>1, <1>b, EndType
<1>3. ASSUME ChoiceOption PROVE TypeInv'
  <2>1. InArgs /\ arg \in {"-t", "-g"} /\ HasNext
    BY <1>3 DEF ChoiceOption
  <2>2. CASE value \in DOMAIN Choice(arg)
    <3>1. SetTo(Valued[arg], Choice(arg)[value])
      BY <1>3, <2>2 DEF ChoiceOption
    <3>2. Choice(arg)[value] \in Range(Choice(arg))
      BY <2>2 DEF Range
    <3>3. FieldOK(Valued[arg], Choice(arg)[value])
      <4>1. CASE arg = "-t"
        <5>1. Valued[arg] = "wcType" /\ Choice(arg) = WeightWords /\ "wcType" \in DOMAIN Defaults
          BY <4>1, ValuedIs DEF Choice, Defaults
        <5> QED BY <3>2, <5>1 DEF FieldOK
      <4>2. CASE arg = "-g"
        <5>1. Valued[arg] = "graphType" /\ Choice(arg) = GraphWords /\ "graphType" \in DOMAIN Defaults
          BY <4>2, ValuedIs DEF Choice, Defaults
        <5> QED BY <3>2, <5>1 DEF FieldOK
      <4> QED BY <2>1, <4>1, <4>2
    <3> QED BY <2>1, <3>1, <3>3, SetToType
  <2>3. CASE value \notin DOMAIN Choice(arg)
    BY <1>3, <1>a, <2>1, <2>3 DEF ChoiceOption
  <2> QED BY <2>2, <2>3
<1>4. ASSUME NameOption PROVE TypeInv'
  <2>1. InArgs /\ arg \in {"-c", "-o"} /\ HasNext /\ SetTo(Valued[arg], value)
    BY <1>4 DEF NameOption
  <2>2. FieldOK(Valued[arg], value)
    <3>1. Valued[arg] \in {"config", "outFile"} /\ {"config", "outFile"} \subseteq DOMAIN Defaults
      BY <2>1, ValuedIs DEF Defaults
    <3> QED BY <3>1 DEF FieldOK
  <2> QED BY <2>1, <2>2, SetToType
<1>5. ASSUME FactorOption PROVE TypeInv'
  <2>1. InArgs /\ arg \in {"-dm", "-tm"} /\ HasNext /\ SetTo(Valued[arg], atof(value))
    BY <1>5 DEF FactorOption
  <2>2. FieldOK(Valued[arg], atof(value))
    <3>1. Valued[arg] \in {"distanceMult", "timeMult"}
          /\ {"distanceMult", "timeMult"} \subseteq DOMAIN Defaults
      BY <2>1, ValuedIs DEF Defaults
    <3> QED BY <3>1 DEF FieldOK
  <2> QED BY <2>1, <2>2, SetToType
<1>6. ASSUME PopulateOption PROVE TypeInv'
  <2> DEFINE x == IF value = "auto" THEN 0
                  ELSE IF value \in DOMAIN Numbers THEN Numbers[value]
                  ELSE cmd.populate
  <2>1. InArgs /\ HasNext
    BY <1>6 DEF PopulateOption
  <2>2. CASE value \in TooBig
    BY <1>6, <1>b, <2>1, <2>2 DEF PopulateOption
  <2>3. CASE value \notin TooBig
    <3>1. SetTo("populate", x)
      BY <1>6, <2>3 DEF PopulateOption
    <3>2. x \in SignedWords
      <4>1. CASE value = "auto" /\ value \notin DOMAIN Numbers
        BY <4>1, WordFacts
      <4>2. CASE value \in DOMAIN Numbers
        <5>1. Numbers[value] \in SignedWords /\ 0 \in SignedWords
          BY <4>2, StartupAssumption, WordFacts
        <5>2. x = 0 \/ x = Numbers[value]
          BY <4>2
        <5> QED BY <5>1, <5>2
      <4>3. CASE value # "auto" /\ value \notin DOMAIN Numbers
        BY <4>3 DEF TypeInv, CmdOK
      <4> QED BY <4>1, <4>2, <4>3
    <3> HIDE DEF x
    <3>3. FieldOK("populate", x)
      BY <3>2 DEF FieldOK, Defaults
    <3> QED BY <2>1, <3>1, <3>3, SetToType
  <2> QED BY <2>2, <2>3
<1>7. ASSUME BoundsOption PROVE TypeInv'
  <2>1. InArgs /\ HasNext
    BY <1>7 DEF BoundsOption
  <2>2. CASE value \in Bounds
    <3>1. SetTo("bounds", value)
      BY <1>7, <2>2 DEF BoundsOption
    <3>2. FieldOK("bounds", value)
      BY <2>2 DEF FieldOK, Defaults
    <3> QED BY <2>1, <3>1, <3>2, SetToType
  <2>3. CASE value \notin Bounds
    BY <1>7, <1>a, <2>1, <2>3 DEF BoundsOption
  <2> QED BY <2>2, <2>3
<1>8. ASSUME ComponentsOption PROVE TypeInv'
  <2>1. InArgs /\ HasNext
    BY <1>8 DEF ComponentsOption
  <2>2. CASE value \notin DOMAIN ModeWords
    BY <1>8, <1>a, <2>1, <2>2 DEF ComponentsOption
  <2>3. CASE value \in DOMAIN ModeWords /\ value = "all"
    <3>1. SetTo("mode", "All")
      BY <1>8, <2>3 DEF ComponentsOption
    <3>2. FieldOK("mode", "All")
      BY DEF FieldOK, Defaults, ModeWords, Range
    <3> QED BY <2>1, <3>1, <3>2, SetToType
  <2>4. CASE value \in DOMAIN ModeWords /\ value # "all" /\ ~ThresholdAt(i + 2)
    BY <1>8, <1>b, <2>1, <2>4 DEF ComponentsOption
  <2>5. CASE value \in DOMAIN ModeWords /\ value # "all" /\ ThresholdAt(i + 2)
    <3> DEFINE x == ModeWords[value]
               y == Unsigned(Numbers[argv[i + 2]])
    <3>1. /\ cmd' = [cmd EXCEPT !.mode = x, !.threshold = y]
          /\ i' = i + 3 /\ UNCHANGED <<pc, inputFileNames>>
      BY <1>8, <2>5 DEF ComponentsOption
    <3>2. FieldOK("mode", x)
      BY <2>5 DEF FieldOK, Defaults, Range
    <3>3. y \in 0..(WordSpace - 1)
      <4>1. Numbers[argv[i + 2]] \in Int
        BY <2>5, StartupAssumption, WordFacts DEF ThresholdAt
      <4> QED BY <4>1, WordFacts
    <3> HIDE DEF x, y
    <3>4. FieldOK("threshold", y)
      BY <3>3 DEF FieldOK, Defaults
    <3>5. CmdOK([cmd EXCEPT !["mode"] = x])
      BY <3>2, SetField DEF TypeInv
    <3>6. CmdOK([[cmd EXCEPT !["mode"] = x] EXCEPT !["threshold"] = y])
      BY <3>4, <3>5, SetField
    <3>7. cmd' = [[cmd EXCEPT !["mode"] = x] EXCEPT !["threshold"] = y]
      BY <3>1
    <3>8. i' \in Nat \ {0} /\ i' <= Len(argv) + 1
      BY <1>0, <2>1, <2>5, <3>1, Kept DEF ThresholdAt
    <3> QED BY <2>1, <3>1, <3>6, <3>7, <3>8, CmdType
  <2> QED BY <2>2, <2>3, <2>4, <2>5
<1>9. ASSUME Flag PROVE TypeInv'
  <2>1. InArgs /\ arg \in DOMAIN Flags /\ cmd' = [cmd EXCEPT ![Flags[arg]] = TRUE]
        /\ i' = i + 1 /\ UNCHANGED <<pc, inputFileNames>>
    BY <1>9 DEF Flag
  <2>2. FieldOK(Flags[arg], TRUE)
    <3>1. Flags[arg] \in {"sortedEdges", "noReverse"}
          /\ {"sortedEdges", "noReverse"} \subseteq DOMAIN Defaults
      BY <2>1, FlagsAre DEF Defaults
    <3> QED BY <3>1 DEF FieldOK
  <2>3. CmdOK(cmd')
    BY <2>1, <2>2, SetField DEF TypeInv
  <2>4. i' \in Nat \ {0} /\ i' <= Len(argv) + 1
    BY <1>0, <2>1, Kept
  <2> QED BY <2>1, <2>3, <2>4, CmdType
<1>10. ASSUME UnknownCommand PROVE TypeInv'
  BY <1>10, <1>a DEF UnknownCommand
<1>11. ASSUME InputFile PROVE TypeInv'
  <2>1. InArgs /\ inputFileNames' = Append(inputFileNames, arg) /\ i' = i + 1
        /\ pc' = pc /\ cmd' = cmd /\ hwTagIds' = hwTagIds /\ range' = range
    BY <1>0, <1>11 DEF InputFile, config
  <2>2. i \in 1..Len(argv) /\ arg \in STRING /\ arg \in Range(argv)
    BY <1>0, <2>1, Kept DEF arg, Range
  <2>3. inputFileNames \in Seq(STRING) /\ Range(inputFileNames) \subseteq Range(argv)
    BY DEF TypeInv
  <2>4. inputFileNames' \in Seq(STRING)
    BY <2>1, <2>2, <2>3, AppendProperties
  <2>5. Range(inputFileNames') \subseteq Range(argv)
    <3> SUFFICES ASSUME NEW k \in DOMAIN inputFileNames' PROVE inputFileNames'[k] \in Range(argv)
      BY DEF Range
    <3>0. /\ Len(inputFileNames) \in Nat
          /\ Len(inputFileNames') = Len(inputFileNames) + 1
          /\ \A l \in 1..Len(inputFileNames) : inputFileNames'[l] = inputFileNames[l]
          /\ inputFileNames'[Len(inputFileNames) + 1] = arg
      <4>1. PICK f, a : f = inputFileNames /\ a = arg
        OBVIOUS
      <4>2. f \in Seq(STRING) /\ a \in STRING
        BY <2>2, <2>3, <4>1
      <4>3. Len(f) \in Nat /\ Len(Append(f, a)) = Len(f) + 1
        BY <4>2, AppendProperties
      <4>4. \A l \in 1..Len(f) : Append(f, a)[l] = f[l]
        BY <4>2, AppendProperties
      <4>5. Append(f, a)[Len(f) + 1] = a
        BY <4>2, AppendProperties
      <4> QED BY <2>1, <4>1, <4>3, <4>4, <4>5
    <3>1. k \in 1..Len(inputFileNames) \/ k = Len(inputFileNames) + 1
      BY <2>4, <3>0
    <3>2. CASE k \in 1..Len(inputFileNames)
      <4>1. inputFileNames'[k] = inputFileNames[k] /\ k \in DOMAIN inputFileNames
        BY <2>3, <3>0, <3>2
      <4> QED BY <2>3, <4>1 DEF Range
    <3>3. CASE k = Len(inputFileNames) + 1
      BY <2>2, <3>0, <3>3
    <3> QED BY <3>1, <3>2, <3>3
  <2>6. i' \in Nat \ {0} /\ i' <= Len(argv) + 1
    BY <1>0, <2>1, Kept
  <2>7. pc = "args" /\ range = NoRange
    BY <1>0, <2>1 DEF TypeInv
  <2> QED BY <2>1, <2>4, <2>5, <2>6, <2>7, Kept DEF TypeInv
<1>12. ASSUME EndArgs PROVE TypeInv'
  <2>1. pc = "args" /\ pc' = "open" /\ i' = 1 /\ cmd' = cmd /\ inputFileNames' = inputFileNames
        /\ hwTagIds' = hwTagIds /\ range' = range
    BY <1>12 DEF EndArgs, config
  <2>2. 1 \in Nat \ {0} /\ 1 <= Len(argv) + Len(lines) + 4
    BY Kept
  <2> QED BY <2>1, <2>2, Kept DEF TypeInv
<1> QED BY <1>1, <1>2, <1>3, <1>4, <1>5, <1>6, <1>7, <1>8, <1>9, <1>10, <1>11, <1>12 DEF Arguments

\* The ids of the references, and the limits of the range.
LEMMA RefFacts ==
  ASSUME input \in Inputs
  PROVE  /\ Len(input.refs) \in Nat
         /\ largest \in Nat /\ largest \in SignedWords /\ smallest \in SignedWords
         /\ smallest <= largest
         /\ \A x \in Range(input.refs) : x \in Int /\ smallest <= x /\ x <= largest
         /\ Len(input.refs) = 0 => largest = 0 /\ smallest = 0
         /\ Len(input.refs) # 0 => smallest = Min(Range(input.refs))
<1> DEFINE refs == input.refs
           R == Range(refs)
<1>1. refs \in Seq(SignedWords) /\ Len(refs) \in Nat
  BY StartupAssumption
<1>2. R \subseteq SignedWords /\ (Len(refs) = 0 => R = {}) /\ (Len(refs) # 0 => R # {})
  <2>0. DOMAIN refs = 1..Len(refs)
    BY <1>1
  <2>1. \A x \in R : \E j \in 1..Len(refs) : x = refs[j]
    BY <2>0 DEF Range
  <2>2. \A j \in 1..Len(refs) : refs[j] \in R
    BY <2>0 DEF Range
  <2>3. \A j \in 1..Len(refs) : refs[j] \in SignedWords
    BY <1>1
  <2>4. Len(refs) # 0 => 1 \in 1..Len(refs)
    BY <1>1
  <2> HIDE DEF R
  <2> QED BY <1>1, <2>1, <2>2, <2>3, <2>4
<1>3. IsFiniteSet(SignedWords) /\ SignedWords \subseteq Int /\ 0 \in SignedWords
  <2>1. -(WordSpace \div 2) \in Int /\ WordSpace \div 2 - 1 \in Int
    BY StartupAssumption
  <2> QED BY <2>1, IntervalFinite, WordFacts DEF SignedWords
<1> HIDE DEF R
<1>4. IsFiniteSet(R \cup {0}) /\ R \cup {0} \subseteq SignedWords
  BY <1>2, <1>3, FS_Subset
<1>5. largest = Max(R \cup {0}) /\ smallest = Min(R \cup {largest})
  BY DEF largest, smallest, R
<1>6. largest \in R \cup {0} /\ \A x \in R \cup {0} : x <= largest
  BY <1>3, <1>4, <1>5, Extremes
<1>7. R \cup {largest} \subseteq SignedWords /\ IsFiniteSet(R \cup {largest})
  <2>1. R \cup {largest} \subseteq SignedWords
    BY <1>2, <1>4, <1>6
  <2> QED BY <1>3, <2>1, FS_Subset
<1>8. smallest \in R \cup {largest} /\ \A x \in R \cup {largest} : smallest <= x
  BY <1>3, <1>5, <1>7, Extremes
<1>9. largest \in Nat /\ largest \in SignedWords /\ smallest \in SignedWords /\ smallest <= largest
  <2>1. largest \in SignedWords /\ smallest \in SignedWords
    BY <1>4, <1>6, <1>7, <1>8
  <2>2. largest \in Int /\ 0 <= largest /\ smallest <= largest
    BY <1>3, <1>6, <1>8, <2>1
  <2> QED BY <2>1, <2>2
<1>10. \A x \in R : x \in Int /\ smallest <= x /\ x <= largest
  BY <1>2, <1>3, <1>6, <1>8
<1>11. Len(refs) = 0 => largest = 0 /\ smallest = 0
  BY <1>2, <1>6, <1>8
<1>12. Len(refs) # 0 => smallest = Min(R)
  <2> SUFFICES ASSUME R # {} PROVE smallest = Min(R)
    BY <1>2
  <2>1. Min(R) \in R /\ \A x \in R : Min(R) <= x
    <3>1. IsFiniteSet(R) /\ R \subseteq Int
      BY <1>2, <1>3, FS_Subset
    <3> QED BY <3>1, Extremes
  <2>2. Min(R) \in Int /\ smallest \in Int /\ largest \in Int
    BY <1>3, <1>9, <1>10, <2>1
  <2>3. smallest <= Min(R) /\ Min(R) <= largest
    BY <1>10, <2>1
  <2>4. Min(R) <= smallest
    BY <1>8, <2>1, <2>3
  <2> QED BY <2>2, <2>3, <2>4
<1> QED BY <1>1, <1>9, <1>10, <1>11, <1>12 DEF R

\* What % does to a number of which a word holds the sign.
LEMMA RemainderIs ==
  ASSUME NEW m \in Nat \ {0}, NEW x \in Int
  PROVE  /\ x \in 0..(m - 1) => x % m = x
         /\ x \in (-m)..(-1) => x % m = x + m
<1> DEFINE r == x % m
           q == x \div m
<1>1. x = m * q + r /\ q \in Int /\ r \in 0..(m - 1)
  OBVIOUS
<1> HIDE DEF r, q
<1>2. q >= 1 => m * q >= m
  BY <1>1
<1>3. q <= -1 => m * q <= -m
  BY <1>1
<1>4. q <= -2 => m * q <= (-m) - m
  BY <1>1
<1>5. q = -1 => m * q = -m
  BY <1>1
<1>6. q = 0 => m * q = 0
  BY <1>1
<1> DEFINE p == m * q
<1>7. p \in Int /\ x = p + r
  BY <1>1
<1>8. /\ q >= 1 => p >= m
      /\ q <= -1 => p <= -m
      /\ q <= -2 => p <= (-m) - m
      /\ q = -1 => p = -m
      /\ q = 0 => p = 0
  BY <1>2, <1>3, <1>4, <1>5, <1>6
<1> HIDE DEF p
<1>9. x \in 0..(m - 1) => q = 0
  BY <1>1, <1>7, <1>8
<1>10. x \in (-m)..(-1) => q = -1
  BY <1>1, <1>7, <1>8
<1>11. x \in 0..(m - 1) => r = x
  BY <1>1, <1>7, <1>8, <1>9
<1>12. x \in (-m)..(-1) => r = x + m
  BY <1>1, <1>7, <1>8, <1>10
<1> QED BY <1>11, <1>12 DEF r

\* The limit of a range that begins at smallest.
LEMMA LimitIs ==
  ASSUME input \in Inputs, NEW n \in SignedWords, n > 0
  PROVE  /\ LimitedTo(n) \in 0..largest
         /\ smallest >= 0 => LimitedTo(n) <= smallest + n
         /\ \A x \in Int : x < smallest + n /\ x <= largest => x <= LimitedTo(n)
<1> DEFINE h == WordSpace \div 2
           u == Unsigned(smallest + n)
<1>1. WordSpace \in Nat /\ h \in Nat /\ h >= 1 /\ WordSpace >= h + h
  <2>1. WordSpace \in Nat /\ WordSpace >= 2
    BY StartupAssumption
  <2> QED BY <2>1, SMT
<1>2. SignedWords = (-h)..(h - 1)
  BY DEF SignedWords
<1> HIDE DEF h
<1>3. n \in Int /\ n <= h - 1 /\ smallest \in Int /\ smallest >= -h /\ smallest <= h - 1
      /\ largest \in Nat /\ largest <= h - 1
  BY <1>1, <1>2, RefFacts
<1>4. smallest + n \in Int /\ (smallest + n >= 0 => u = smallest + n)
      /\ (smallest + n < 0 => u = smallest + n + WordSpace)
  <2>1. smallest + n >= 0 => smallest + n \in 0..(WordSpace - 1)
    BY <1>1, <1>3
  <2>2. smallest + n < 0 => smallest + n \in (-WordSpace)..(-1)
    BY <1>1, <1>3
  <2>3. WordSpace \in Nat \ {0} /\ smallest + n \in Int
    BY <1>1, <1>3
  <2> QED BY <2>1, <2>2, <2>3, RemainderIs DEF Unsigned
<1>5. u \in Nat
  BY <1>1, <1>3, <1>4
<1> HIDE DEF u
<1>6. LimitedTo(n) = Min({u, largest})
  BY DEF LimitedTo, u
<1>7. IsFiniteSet({u, largest}) /\ {u, largest} \subseteq Int
  <2>1. {u, largest} = {u} \cup {largest}
    OBVIOUS
  <2>2. IsFiniteSet({u} \cup {largest})
    BY FS_Singleton, FS_AddElement
  <2> QED BY <1>3, <1>5, <2>1, <2>2
<1>8. LimitedTo(n) \in {u, largest} /\ LimitedTo(n) <= u /\ LimitedTo(n) <= largest
  BY <1>6, <1>7, Extremes
<1>9. LimitedTo(n) \in 0..largest
  BY <1>3, <1>5, <1>8
<1>10. smallest >= 0 => LimitedTo(n) <= smallest + n
  BY <1>3, <1>4, <1>8
<1>11. ASSUME NEW x \in Int, x < smallest + n, x <= largest PROVE x <= LimitedTo(n)
  <2>1. CASE smallest + n >= 0
    BY <1>3, <1>4, <1>8, <1>11, <2>1
  <2>2. CASE smallest + n < 0
    <3>1. u >= h
      BY <1>1, <1>3, <1>4, <2>2
    <3> QED BY <1>1, <1>3, <1>5, <1>8, <1>11, <3>1
  <2> QED BY <1>3, <2>1, <2>2
<1> QED BY <1>9, <1>10, <1>11

\* A member of a map behind an assignment.
LEMMA AssignedIs ==
  ASSUME NEW f, NEW x, NEW y
  PROVE  /\ DOMAIN Assigned(f, x, y) = DOMAIN f \cup {x}
         /\ Assigned(f, x, y)[x] = y
         /\ \A k \in DOMAIN f : k # x => Assigned(f, x, y)[k] = f[k]
BY DEF Assigned

LEMMA NextType == TypeInv /\ [Next]_vars => TypeInv'
<1> SUFFICES ASSUME TypeInv, [Next]_vars PROVE TypeInv'
  OBVIOUS
<1> USE Kept
<1>1. ASSUME OpenFiles PROVE TypeInv'
  <2>1. pc = "open" /\ UNCHANGED <<i, cmd, inputFileNames, hwTagIds, range>>
        /\ pc' \in {"rejected", "config"} /\ i = 1
    BY <1>1 DEF OpenFiles, config, TypeInv
  <2>2. 1 \in Nat \ {0} /\ 1 <= Len(argv) + Len(lines) + 4 /\ 1 <= Len(lines) + 2
    OBVIOUS
  <2>3. pc' \in {"args", "open", "config", "writer", "range"} \cup Ends /\ pc' # "args" /\ pc' # "open"
    BY <2>1 DEF Ends
  <2> QED BY <2>1, <2>2, <2>3 DEF TypeInv
<1>2. ASSUME ReadRecord PROVE TypeInv'
  <2>1. pc = "config" /\ UNCHANGED <<cmd, inputFileNames, range>> /\ ~Eof(i) /\ ~Eof(i + 1)
        /\ i \in Nat \ {0} /\ range = NoRange
    BY <1>2 DEF ReadRecord, Incomplete, TypeInv
  <2>2. i + 1 <= Len(lines) /\ i <= Len(lines)
    BY <2>1 DEF Eof
  <2>3. CASE pc' = "rejected" /\ UNCHANGED <<i, hwTagIds, typeToWeight>>
    <3>1. pc' \in {"args", "open", "config", "writer", "range"} \cup Ends
      BY <2>3 DEF Ends
    <3> QED BY <2>1, <2>3, <3>1 DEF TypeInv
  <2>4. CASE /\ "" \notin {LineAt(i), LineAt(i + 1), LineAt(i + 2)}
             /\ hwTagIds' = Assigned(hwTagIds, LineAt(i), atof(LineAt(i + 1)))
             /\ i' = i + 3 /\ pc' = pc
    <3>1. LineAt(i) = lines[i] /\ i \in DOMAIN lines
      BY <2>1, <2>2 DEF LineAt
    <3>2. LineAt(i) \in Range(lines) \ {""}
      BY <2>4, <3>1 DEF Range
    <3>3. DOMAIN hwTagIds' \subseteq Range(lines) \ {""}
      <4>1. DOMAIN hwTagIds' = DOMAIN hwTagIds \cup {LineAt(i)}
        BY <2>4, AssignedIs
      <4>2. DOMAIN hwTagIds \subseteq Range(lines) \ {""}
        BY DEF TypeInv
      <4> QED BY <3>2, <4>1, <4>2
    <3>4. i' \in Nat \ {0} /\ i' <= Len(lines) + 2 /\ i' <= Len(argv) + Len(lines) + 4
      <4>1. Len(argv) \in Nat /\ Len(lines) \in Nat /\ i \in Nat
        BY <2>1
      <4>2. i + 3 <= Len(lines) + 2 /\ i + 3 <= Len(argv) + Len(lines) + 4
        BY <2>2, <4>1
      <4>3. i + 3 \in Nat \ {0}
        BY <4>1
      <4> QED BY <2>4, <4>2, <4>3
    <3> QED BY <2>1, <2>4, <3>3, <3>4 DEF TypeInv
  <2> QED BY <1>2, <2>3, <2>4 DEF ReadRecord
<1>3. ASSUME EndConfig PROVE TypeInv'
  <2>1. pc = "config" /\ pc' = "writer" /\ UNCHANGED <<i, cmd, inputFileNames, hwTagIds, range>>
    BY <1>3 DEF EndConfig
  <2> QED BY <2>1 DEF TypeInv
<1>4. ASSUME OpenWriter PROVE TypeInv'
  <2>1. pc = "writer" /\ pc' \in {"rejected", "range"}
        /\ UNCHANGED <<i, cmd, inputFileNames, hwTagIds, range>>
    BY <1>4 DEF OpenWriter, config
  <2>2. pc' \in {"args", "open", "config", "writer", "range"} \cup Ends
    BY <2>1 DEF Ends
  <2> QED BY <2>1, <2>2 DEF TypeInv
<1>5. ASSUME EndStartup PROVE TypeInv'
  <2> DEFINE to == IF cmd.populate > 0 THEN LimitedTo(cmd.populate) ELSE largest
  <2>1. pc = "range" /\ pc' = "passes" /\ UNCHANGED <<i, cmd, inputFileNames, hwTagIds>>
        /\ (range' = [from |-> smallest, to |-> to] \/ range' = NoRange)
    BY <1>5 DEF EndStartup, config
  <2>2. to \in SignedWords
    <3>1. cmd.populate \in SignedWords /\ input \in Inputs
      BY DEF TypeInv, CmdOK
    <3>2. to \in 0..largest
      BY <3>1, RefFacts, LimitIs
    <3> HIDE DEF to
    <3>3. largest \in SignedWords /\ largest \in Nat
      BY <3>1, RefFacts
    <3>4. WordSpace \div 2 \in Int /\ -(WordSpace \div 2) <= 0
      <4>1. WordSpace \in Nat
        BY StartupAssumption
      <4> QED BY <4>1, SMT
    <3> QED BY <3>2, <3>3, <3>4 DEF SignedWords
  <2> HIDE DEF to
  <2>3. range'.from \in SignedWords /\ range'.to \in SignedWords
    <3>1. smallest \in SignedWords /\ 0 \in SignedWords
      BY RefFacts, WordFacts DEF TypeInv
    <3>2. CASE range' = [from |-> smallest, to |-> to]
      BY <2>2, <3>1, <3>2
    <3>3. CASE range' = NoRange
      BY <3>1, <3>3 DEF NoRange
    <3> QED BY <2>1, <3>2, <3>3
  <2>4. pc' \in {"args", "open", "config", "writer", "range"} \cup Ends
    BY <2>1 DEF Ends
  <2> QED BY <2>1, <2>3, <2>4 DEF TypeInv
<1>6. ASSUME Ended \/ UNCHANGED vars PROVE TypeInv'
  <2>1. UNCHANGED <<input, pc, i, cmd, inputFileNames, hwTagIds, range>>
    BY <1>6 DEF Ended, vars, config
  <2> QED BY <2>1 DEF TypeInv
<1> QED BY <1>1, <1>2, <1>3, <1>4, <1>5, <1>6, ArgumentsType DEF Next

LEMMA TypeInvariant == Spec => []TypeInv
BY TypeInit, NextType, PTL DEF Spec

LEMMA InvImpliesTypeOK == TypeInv => TypeOK
<1> SUFFICES ASSUME TypeInv PROVE TypeOK
  OBVIOUS
<1>1. Len(argv) \in Nat /\ Len(lines) \in Nat
  <2>1. input \in Inputs
    BY DEF TypeInv
  <2>2. argv \in Seq(STRING)
    BY <2>1, ArgvIs
  <2> QED BY <2>1, <2>2, LineFacts
<1>2. i \in 1..(Len(argv) + Len(lines) + 4)
  <2>1. i \in Nat \ {0} /\ (i <= Len(argv) + 1 \/ i <= Len(argv) + Len(lines) + 4)
    BY DEF TypeInv
  <2> QED BY <1>1, <2>1
<1>3. {cmd.sortedEdges, cmd.noReverse} \subseteq BOOLEAN
  BY DEF TypeInv, CmdOK
<1>4. {range.from, range.to} \subseteq SignedWords
  BY DEF TypeInv
<1>5. /\ cmd.wcType \in Range(WeightWords) /\ cmd.graphType \in Range(GraphWords)
      /\ cmd.mode \in {NoValue} \cup Range(ModeWords)
      /\ cmd.bounds \in {NoValue} \cup Bounds
      /\ cmd.threshold \in 0..(WordSpace - 1)
  BY Zenon DEF TypeInv, CmdOK
<1>6. /\ pc \in {"args", "open", "config", "writer", "range"} \cup Ends
      /\ Range(inputFileNames) \subseteq Range(argv)
      /\ DOMAIN hwTagIds \subseteq Range(lines) \ {""}
  BY Zenon DEF TypeInv
<1> QED BY <1>2, <1>3, <1>4, <1>5, <1>6, Zenon DEF TypeOK

(* The state of main() has the types that the code declares, whatever the  *)
(* command line, the configuration and the references are.                 *)
THEOREM StartupTypeCorrect == Spec => []TypeOK
BY TypeInvariant, InvImpliesTypeOK, PTL

-----------------------------------------------------------------------------
(* The range of the direct map.                                            *)

LEMMA RangeInit == Init => RangeHoldsReferences
BY DEF Init, RangeHoldsReferences

LEMMA RangeStep == TypeInv /\ RangeHoldsReferences /\ [Next]_vars => RangeHoldsReferences'
<1> SUFFICES ASSUME TypeInv, RangeHoldsReferences, [Next]_vars, pc' = "passes", range' # NoRange
             PROVE  RangeHoldsReferences'
  BY DEF RangeHoldsReferences
<1>1. input' = input /\ input \in Inputs
  BY Kept DEF TypeInv
<1>2. CASE EndStartup
  <2> DEFINE to == IF cmd.populate > 0 THEN LimitedTo(cmd.populate) ELSE largest
             n == cmd.populate
             R == Range(input.refs)
  <2>1. cmd' = cmd /\ range' = [from |-> smallest, to |-> to] /\ n >= 0
        /\ to - smallest < 3 * Len(input.refs)
    BY <1>2 DEF EndStartup
  <2>2. n \in SignedWords /\ n \in Int
    BY WordFacts DEF TypeInv, CmdOK
  <2>3. /\ Len(input.refs) \in Nat /\ largest \in Nat
        /\ smallest \in Int /\ smallest <= largest
        /\ \A x \in R : x \in Int /\ smallest <= x /\ x <= largest
    BY <1>1, RefFacts, WordFacts
  <2>4. n > 0 => /\ to \in 0..largest
                 /\ smallest >= 0 => to <= smallest + n
                 /\ \A x \in Int : x < smallest + n /\ x <= largest => x <= to
    BY <1>1, <2>2, LimitIs
  <2>5. ~(n > 0) => to = largest /\ n = 0
    BY <2>1, <2>2
  <2>6. to \in Nat
    BY <2>2, <2>3, <2>4, <2>5
  <2> HIDE DEF to, n, R
  <2>7. Len(input.refs) # 0
    <3>1. Len(input.refs) = 0 => smallest = 0
      BY <1>1, RefFacts
    <3> QED BY <2>1, <2>3, <2>6, <3>1
  <2>8. smallest = Min(R)
    BY <1>1, <2>7, RefFacts DEF R
  <2>9. ASSUME NEW x \in R, n = 0 \/ x < smallest + n PROVE x \in smallest..to
    <3>1. x \in Int /\ smallest <= x /\ x <= largest
      BY <2>3
    <3>2. x <= to
      <4>1. CASE n > 0
        BY <2>2, <2>4, <2>9, <3>1, <4>1
      <4>2. CASE ~(n > 0)
        BY <2>5, <3>1, <4>2
      <4> QED BY <4>1, <4>2
    <3> QED BY <2>3, <2>6, <3>1, <3>2
  <2>10. range'.from = smallest /\ range'.to = to /\ cmd'.populate = n /\ input'.refs = input.refs
    BY <1>1, <2>1 DEF n
  <2>11. Range(input.refs)' = R
    BY <1>1 DEF R
  <2>12. (n > 0 /\ smallest >= 0) => to <= smallest + n
    BY <2>4
  <2> QED BY <2>1, <2>8, <2>9, <2>10, <2>11, <2>12 DEF RangeHoldsReferences
<1>3. CASE pc = "passes"
  <2>1. UNCHANGED <<input, cmd, range, pc>>
    BY <1>3 DEF Next, vars, config, Arguments, InArgs, TooFew, Help, ChoiceOption, NameOption,
         FactorOption, PopulateOption, BoundsOption, ComponentsOption, Flag, UnknownCommand,
         InputFile, EndArgs, OpenFiles, ReadRecord, EndConfig, OpenWriter, EndStartup, Ended
  <2> QED BY <1>3, <2>1 DEF RangeHoldsReferences
<1>4. CASE pc # "passes" /\ ~EndStartup
  <2>1. pc' # "passes"
    BY <1>4 DEF Next, vars, config, Arguments, InArgs, TooFew, Help, ChoiceOption, NameOption,
         FactorOption, PopulateOption, BoundsOption, ComponentsOption, Flag, UnknownCommand,
         InputFile, EndArgs, OpenFiles, ReadRecord, EndConfig, OpenWriter, Ended, End, SetTo
  <2> QED BY <2>1
<1> QED BY <1>2, <1>3, <1>4

(* Whatever the references and -hs are, the direct part of the map begins  *)
(* at the smallest id referred to, leaves out none that it should hold,    *)
(* and is less than three times as long as there are references.           *)
THEOREM RangeIsRight == Spec => []RangeHoldsReferences
<1>1. Init => TypeInv /\ RangeHoldsReferences
  BY TypeInit, RangeInit
<1>2. TypeInv /\ RangeHoldsReferences /\ [Next]_vars => (TypeInv /\ RangeHoldsReferences)'
  BY NextType, RangeStep
<1> QED BY <1>1, <1>2, PTL DEF Spec

-----------------------------------------------------------------------------
(* The configuration.                                                      *)

LEMMA ConfigInit == Init => ConfigInv
BY DEF Init, ConfigInv

LEMMA NothingRead ==
  ASSUME hwTagIds = NoEntries, typeToWeight = NoEntries
  PROVE  RecordsRead(0)
<1>1. DOMAIN hwTagIds = {} /\ DOMAIN typeToWeight = {}
  BY DEF NoEntries
<1>2. 1..0 = {}
  OBVIOUS
<1> QED BY <1>1, <1>2 DEF RecordsRead

\* How far readConfig has come.
LEMMA AtRecord ==
  ASSUME NEW L \in Nat, NEW k \in 0..(L \div 3)
  PROVE  /\ 3 * k <= L
         /\ 3 * (k + 1) <= L => k + 1 \in 0..(L \div 3) /\ k + 1 \in 1..(L \div 3)
         /\ 3 * k + 2 >= L => k = L \div 3
OBVIOUS

LEMMA RecordStep ==
  ASSUME NEW k \in Nat, RecordsRead(k), input' = input,
         hwTagIds' = Assigned(hwTagIds, ValueOf(k + 1), TypeOf(k + 1)),
         typeToWeight' = Assigned(typeToWeight, TypeOf(k + 1), SpeedOf(k + 1))
  PROVE  RecordsRead(k + 1)'
<1> DEFINE v0 == ValueOf(k + 1)
           t0 == TypeOf(k + 1)
           s0 == SpeedOf(k + 1)
           h == hwTagIds
           w == typeToWeight
           hn == Assigned(h, v0, t0)
           wn == Assigned(w, t0, s0)
<1>0. hwTagIds' = hn /\ typeToWeight' = wn /\ lines' = lines
  BY DEF lines
<1>1. k + 1 \in 1..(k + 1) /\ \A n \in 1..(k + 1) : n = k + 1 \/ n \in 1..k
  OBVIOUS
<1>2. \A n \in 1..k : n \in 1..(k + 1) /\ \A m \in (n + 1)..(k + 1) : m = k + 1 \/ m \in (n + 1)..k
  OBVIOUS
<1>3. \A m \in (k + 1 + 1)..(k + 1) : FALSE
  OBVIOUS
<1>4. /\ DOMAIN hn = DOMAIN h \cup {v0} /\ hn[v0] = t0
      /\ \A v \in DOMAIN h : v # v0 => hn[v] = h[v]
      /\ DOMAIN wn = DOMAIN w \cup {t0} /\ wn[t0] = s0
      /\ \A t \in DOMAIN w : t # t0 => wn[t] = w[t]
  <2> HIDE DEF v0, t0, s0, h, w
  <2>1. /\ DOMAIN hn = DOMAIN h \cup {v0} /\ hn[v0] = t0
        /\ \A v \in DOMAIN h : v # v0 => hn[v] = h[v]
    BY DEF Assigned
  <2>2. /\ DOMAIN wn = DOMAIN w \cup {t0} /\ wn[t0] = s0
        /\ \A t \in DOMAIN w : t # t0 => wn[t] = w[t]
    BY DEF Assigned
  <2> QED BY <2>1, <2>2
<1> HIDE DEF hn, wn
<1>5. DOMAIN hn = {ValueOf(n) : n \in 1..(k + 1)}
  <2>1. DOMAIN h = {ValueOf(n) : n \in 1..k}
    BY DEF RecordsRead
  <2>2. \A v : v \in DOMAIN hn <=> v \in {ValueOf(n) : n \in 1..(k + 1)}
    BY <1>1, <1>2, <1>4, <2>1
  <2> QED BY <2>2
<1>6. ASSUME NEW v \in DOMAIN hn
      PROVE  \E n \in 1..(k + 1) :
               /\ ValueOf(n) = v /\ hn[v] = TypeOf(n)
               /\ \A m \in (n + 1)..(k + 1) : ValueOf(m) # v
  <2>1. CASE v = v0
    BY <1>1, <1>3, <1>4, <2>1
  <2>2. CASE v # v0
    <3>1. v \in DOMAIN h /\ hn[v] = h[v]
      BY <1>4, <2>2
    <3>2. PICK n \in 1..k : /\ ValueOf(n) = v /\ h[v] = TypeOf(n)
                            /\ \A m \in (n + 1)..k : ValueOf(m) # v
      BY <3>1 DEF RecordsRead
    <3>3. \A m \in (n + 1)..(k + 1) : ValueOf(m) # v
      BY <1>2, <2>2, <3>2
    <3> QED BY <1>2, <3>1, <3>2, <3>3
  <2> QED BY <2>1, <2>2
<1>7. \A v \in DOMAIN hn : hn[v] \in DOMAIN wn
  BY <1>4 DEF RecordsRead
<1>8. ASSUME NEW t \in DOMAIN wn
      PROVE  \E n \in 1..(k + 1) :
               /\ TypeOf(n) = t /\ wn[t] = SpeedOf(n)
               /\ \A m \in (n + 1)..(k + 1) : TypeOf(m) # t
  <2>1. CASE t = t0
    BY <1>1, <1>3, <1>4, <2>1
  <2>2. CASE t # t0
    <3>1. t \in DOMAIN w /\ wn[t] = w[t]
      BY <1>4, <2>2
    <3>2. PICK n \in 1..k : /\ TypeOf(n) = t /\ w[t] = SpeedOf(n)
                            /\ \A m \in (n + 1)..k : TypeOf(m) # t
      BY <3>1 DEF RecordsRead
    <3>3. \A m \in (n + 1)..(k + 1) : TypeOf(m) # t
      BY <1>2, <2>2, <3>2
    <3> QED BY <1>2, <3>1, <3>2, <3>3
  <2> QED BY <2>1, <2>2
<1> HIDE DEF v0, t0, s0, h, w
<1> QED BY <1>0, <1>5, <1>6, <1>7, <1>8 DEF RecordsRead, ValueOf, TypeOf, SpeedOf, NumberIn

LEMMA ConfigStep == TypeInv /\ ConfigInv /\ [Next]_vars => ConfigInv'
<1> SUFFICES ASSUME TypeInv, ConfigInv, [Next]_vars PROVE ConfigInv'
  OBVIOUS
<1>0. /\ input' = input /\ input \in Inputs /\ lines' = lines
      /\ Len(lines) \in Nat /\ RecordCount = Len(lines) \div 3
      /\ RecordCount \in Nat /\ RecordCount' = RecordCount
  BY Kept, LineFacts DEF TypeInv, RecordCount
<1>1. ASSUME Arguments PROVE ConfigInv'
  <2>1. pc = "args" /\ hwTagIds' = hwTagIds /\ typeToWeight' = typeToWeight
        /\ pc' \in {"args", "open", "help", "rejected", "crashed"}
    BY <1>1 DEF Arguments, InArgs, TooFew, Help, ChoiceOption, NameOption, FactorOption,
         PopulateOption, BoundsOption, ComponentsOption, Flag, UnknownCommand, InputFile, EndArgs,
         End, SetTo, config
  <2> QED BY <2>1 DEF ConfigInv
<1>2. ASSUME OpenFiles PROVE ConfigInv'
  <2>1. pc = "open" /\ hwTagIds' = hwTagIds /\ typeToWeight' = typeToWeight /\ i' = 1
        /\ pc' \in {"rejected", "config"}
    BY <1>2 DEF OpenFiles, config, TypeInv
  <2>2. hwTagIds' = NoEntries /\ typeToWeight' = NoEntries
    BY <2>1 DEF ConfigInv
  <2>3. RecordsRead(0)'
    <3>1. RecordsRead(0)
      BY <2>1, NothingRead DEF ConfigInv
    <3> QED BY <1>0, <2>1, <3>1 DEF RecordsRead, ValueOf, TypeOf, SpeedOf
  <2>4. 0 \in 0..RecordCount /\ 1 = 3 * 0 + 1
    BY <1>0
  <2>5. (\E k \in 0..RecordCount : i = 3 * k + 1 /\ RecordsRead(k))'
    BY <1>0, <2>1, <2>3, <2>4
  <2> QED BY <2>1, <2>5 DEF ConfigInv
<1>3. ASSUME ReadRecord PROVE ConfigInv'
  <2>1. pc = "config" /\ ~Eof(i) /\ ~Eof(i + 1)
    BY <1>3 DEF ReadRecord, Incomplete
  <2>2. CASE pc' = "rejected"
    BY <2>2 DEF ConfigInv
  <2>3. CASE /\ "" \notin {LineAt(i), LineAt(i + 1), LineAt(i + 2)}
             /\ hwTagIds' = Assigned(hwTagIds, LineAt(i), atof(LineAt(i + 1)))
             /\ typeToWeight' = Assigned(typeToWeight, atof(LineAt(i + 1)), atof(LineAt(i + 2)))
             /\ i' = i + 3 /\ pc' = pc
    <3>1. PICK k \in 0..RecordCount : i = 3 * k + 1 /\ RecordsRead(k)
      BY <2>1 DEF ConfigInv
    <3>2. i <= Len(lines) /\ i + 1 <= Len(lines) /\ i + 2 <= Len(lines)
      <4>1. i \in Nat
        BY DEF TypeInv
      <4>2. i + 1 <= Len(lines)
        BY <1>0, <2>1, <4>1 DEF Eof
      <4>3. i + 2 <= Len(lines)
        BY <2>3 DEF LineAt
      <4> QED BY <1>0, <4>1, <4>2, <4>3
    <3>3. i = 3 * (k + 1) - 2 /\ i + 1 = 3 * (k + 1) - 1 /\ i + 2 = 3 * (k + 1) /\ k \in Nat
      BY <1>0, <3>1
    <3>4. LineAt(i) = ValueOf(k + 1) /\ atof(LineAt(i + 1)) = TypeOf(k + 1)
          /\ atof(LineAt(i + 2)) = SpeedOf(k + 1)
      <4>1. LineAt(i) = lines[i] /\ LineAt(i + 1) = lines[i + 1] /\ LineAt(i + 2) = lines[i + 2]
        BY <3>2 DEF LineAt
      <4>2. \A s : atof(s) = NumberIn(s)
        BY NumberFacts
      <4> QED BY <3>3, <4>1, <4>2, Zenon DEF ValueOf, TypeOf, SpeedOf
    <3>5. RecordsRead(k + 1)'
      BY <1>0, <2>3, <3>1, <3>3, <3>4, RecordStep
    <3>6. k + 1 \in 0..RecordCount /\ i' = 3 * (k + 1) + 1
      <4>1. 3 * (k + 1) <= Len(lines)
        BY <3>2, <3>3
      <4>2. k + 1 \in 0..RecordCount
        BY <1>0, <3>1, <4>1, AtRecord
      <4>3. 3 * (k + 1) + 1 = (3 * k + 1) + 3
        BY <3>3
      <4>4. i' = (3 * k + 1) + 3
        BY <2>3, <3>1
      <4> QED BY <4>2, <4>3, <4>4
    <3>7. (\E l \in 0..RecordCount : i = 3 * l + 1 /\ RecordsRead(l))'
      <4>1. PICK n : n = k + 1
        OBVIOUS
      <4>2. RecordsRead(n)' /\ n \in 0..RecordCount /\ i' = 3 * n + 1
        BY <3>5, <3>6, <4>1
      <4> QED BY <1>0, <4>2
    <3> QED BY <2>1, <2>3, <3>7 DEF ConfigInv
  <2> QED BY <1>3, <2>2, <2>3 DEF ReadRecord
<1>4. ASSUME EndConfig PROVE ConfigInv'
  <2>1. pc = "config" /\ pc' = "writer" /\ hwTagIds' = hwTagIds /\ typeToWeight' = typeToWeight
        /\ (Eof(i) \/ Eof(i + 1))
    BY <1>4 DEF EndConfig, Incomplete
  <2>2. PICK k \in 0..RecordCount : i = 3 * k + 1 /\ RecordsRead(k)
    BY <2>1 DEF ConfigInv
  <2>3. k \in Nat /\ i = 3 * k + 1 /\ i + 1 = 3 * k + 2
    BY <1>0, <2>2
  <2>4. 3 * k + 2 >= Len(lines) /\ (Len(lines) = 3 * k + 2 => input.cut)
    <3>1. Eof(i) => 3 * k + 1 >= Len(lines)
      BY <1>0, <2>3 DEF Eof
    <3>2. Eof(i + 1) => 3 * k + 2 > Len(lines) \/ (3 * k + 2 = Len(lines) /\ input.cut)
      BY <1>0, <2>3 DEF Eof
    <3> QED BY <1>0, <2>1, <2>3, <3>1, <3>2
  <2>5. k = RecordCount
    BY <1>0, <2>2, <2>4, AtRecord
  <2>6. RecordsRead(RecordCount)'
    BY <1>0, <2>1, <2>2, <2>5 DEF RecordsRead, ValueOf, TypeOf, SpeedOf
  <2>7. Len(lines) - 3 * RecordCount = 2 => input.cut
    BY <1>0, <2>4, <2>5
  <2> QED BY <1>0, <2>1, <2>6, <2>7 DEF ConfigInv
<1>5. ASSUME OpenWriter \/ EndStartup \/ Ended \/ UNCHANGED vars PROVE ConfigInv'
  <2>1. /\ hwTagIds' = hwTagIds /\ typeToWeight' = typeToWeight
        /\ \/ pc \in {"writer", "range"} /\ pc' \in {"rejected", "range", "passes"}
           \/ pc' = pc /\ i' = i
    BY <1>5 DEF OpenWriter, EndStartup, Ended, vars, config
  <2>2. \A k : RecordsRead(k)' <=> RecordsRead(k)
    BY <1>0, <2>1 DEF RecordsRead, ValueOf, TypeOf, SpeedOf
  <2>3. RecordsRead(RecordCount)' <=> RecordsRead(RecordCount)
    BY <1>0, <2>1 DEF RecordsRead, ValueOf, TypeOf, SpeedOf
  <2>4. CASE pc \in {"writer", "range"} /\ pc' \in {"rejected", "range", "passes"}
    BY <1>0, <2>3, <2>4 DEF ConfigInv
  <2>5. CASE pc' = pc /\ i' = i
    BY <1>0, <2>1, <2>2, <2>3, <2>5 DEF ConfigInv
  <2> QED BY <2>1, <2>4, <2>5
<1> QED BY <1>1, <1>2, <1>3, <1>4, <1>5 DEF Next

LEMMA ConfigInvImplies == TypeInv /\ ConfigInv => ConfigIsTheFilesRecords
<1> SUFFICES ASSUME TypeInv, ConfigInv, pc \in {"writer", "range", "passes"}
             PROVE  ConfigIsTheFilesRecords
  BY DEF ConfigIsTheFilesRecords
<1>1. RecordsRead(RecordCount) /\ (Len(lines) - 3 * RecordCount = 2 => input.cut)
      /\ RecordCount \in Nat
  BY LineFacts DEF ConfigInv, TypeInv
<1>2. DOMAIN hwTagIds = {lines[3 * n - 2] : n \in 1..RecordCount}
  BY <1>1 DEF RecordsRead, ValueOf
<1>3. ASSUME NEW v \in DOMAIN hwTagIds
      PROVE  hwTagIds[v] = NumberIn(lines[3 * LastRecord(1, v) - 1])
  <2> DEFINE S == {n \in 1..RecordCount : lines[3 * n - 3 + 1] = v}
  <2>1. PICK n \in 1..RecordCount : /\ ValueOf(n) = v /\ hwTagIds[v] = TypeOf(n)
                                    /\ \A m \in (n + 1)..RecordCount : ValueOf(m) # v
    BY <1>1 DEF RecordsRead
  <2>2. \A m \in 1..RecordCount : m \in S <=> ValueOf(m) = v
    <3> SUFFICES ASSUME NEW m \in 1..RecordCount PROVE lines[3 * m - 3 + 1] = ValueOf(m)
      OBVIOUS
    <3>1. 3 * m - 3 + 1 = 3 * m - 2
      BY <1>1
    <3> QED BY <3>1 DEF ValueOf
  <2>3. S \subseteq 1..RecordCount
    OBVIOUS
  <2> HIDE DEF S
  <2>4. IsFiniteSet(S) /\ S \subseteq Int /\ n \in S
    <3>1. IsFiniteSet(1..RecordCount)
      BY <1>1, IntervalFinite
    <3>2. IsFiniteSet(S)
      BY <2>3, <3>1, FS_Subset
    <3> QED BY <2>1, <2>2, <2>3, <3>2
  <2>5. Max(S) \in S /\ n <= Max(S)
    BY <2>4, Extremes
  <2>6. Max(S) = n
    <3>1. Max(S) \in 1..RecordCount /\ ValueOf(Max(S)) = v
      BY <2>2, <2>3, <2>5
    <3>2. Max(S) \notin (n + 1)..RecordCount
      BY <2>1, <3>1
    <3> QED BY <1>1, <2>5, <3>1, <3>2
  <2>7. LastRecord(1, v) = n
    BY <2>6 DEF LastRecord, S
  <2> QED BY <2>1, <2>7 DEF TypeOf
<1>4. ASSUME NEW v \in DOMAIN hwTagIds
      PROVE  \E n \in 1..RecordCount :
               /\ NumberIn(lines[3 * n - 1]) = hwTagIds[v]
               /\ \A m \in (n + 1)..RecordCount : NumberIn(lines[3 * m - 1]) # hwTagIds[v]
               /\ typeToWeight[hwTagIds[v]] = NumberIn(lines[3 * n])
  <2> DEFINE t == hwTagIds[v]
  <2>1. PICK n \in 1..RecordCount : /\ TypeOf(n) = t /\ typeToWeight[t] = SpeedOf(n)
                                    /\ \A m \in (n + 1)..RecordCount : TypeOf(m) # t
    BY <1>1 DEF RecordsRead
  <2> QED BY <2>1 DEF TypeOf, SpeedOf
<1> QED BY <1>1, <1>2, <1>3, <1>4 DEF ConfigIsTheFilesRecords

(* Whatever the configuration file holds and however it ends: if it is     *)
(* accepted, readConfig has made of it what its complete records say.      *)
THEOREM ConfigIsRight == Spec => []ConfigIsTheFilesRecords
<1>1. Init => TypeInv /\ ConfigInv
  BY TypeInit, ConfigInit
<1>2. TypeInv /\ ConfigInv /\ [Next]_vars => (TypeInv /\ ConfigInv)'
  BY NextType, ConfigStep
<1> QED BY <1>1, <1>2, ConfigInvImplies, PTL DEF Spec

-----------------------------------------------------------------------------
(* The command line.                                                       *)

\* What a group of a well-formed command line looks like.
GroupFacts(g) ==
  /\ g \in Seq(STRING) /\ Len(g) \in Nat /\ Len(g) >= 1
  /\ \/ IsFile(g) /\ Len(g) = 1
     \/ IsFlag(g) /\ Len(g) = 1
     \/ Len(g) = 2 /\ g[1] \in DOMAIN Valued \ {"-cc"} /\ (g[1] = "-hs" => g[2] \notin TooBig)
     \/ Len(g) = 2 /\ g[1] = "-cc" /\ g[2] = "all"
     \/ Len(g) = 3 /\ g[1] = "-cc" /\ g[2] \in {"topk", "size"} /\ g[3] \in DOMAIN Numbers

LEMMA GroupIs ==
  ASSUME input \in Inputs, WellFormed, NEW k \in 1..GroupCount
  PROVE  GroupFacts(input.groups[k])
<1> DEFINE g == input.groups[k]
<1>1. input.groups \in Seq(Seq(STRING))
  BY StartupAssumption
<1>2. k \in DOMAIN input.groups /\ g \in Seq(STRING)
  BY <1>1 DEF GroupCount
<1>3. g \in Range(input.groups)
  BY <1>2 DEF Range
<1>4. IsFile(g) \/ IsFlag(g) \/ IsOption(g)
  BY <1>3 DEF WellFormed
<1> HIDE DEF g
<1>5. IsFile(g) => Len(g) = 1
  BY DEF IsFile
<1>6. IsFlag(g) => Len(g) = 1
  BY DEF IsFlag
<1>7. IsOption(g) =>
        \/ Len(g) = 2 /\ g[1] \in DOMAIN Valued \ {"-cc"} /\ (g[1] = "-hs" => g[2] \notin TooBig)
        \/ Len(g) = 2 /\ g[1] = "-cc" /\ g[2] = "all"
        \/ Len(g) = 3 /\ g[1] = "-cc" /\ g[2] \in {"topk", "size"} /\ g[3] \in DOMAIN Numbers
  <2>1. g = <<"-cc", "all">> => Len(g) = 2 /\ g[1] = "-cc" /\ g[2] = "all"
    OBVIOUS
  <2> QED BY <2>1 DEF IsOption
<1>8. Len(g) \in Nat /\ g \in Seq(STRING)
  BY <1>2 DEF g
<1>9. Len(g) = 1 \/ Len(g) = 2 \/ Len(g) = 3
  BY <1>4, <1>5, <1>6, <1>7
<1>10. Len(g) >= 1
  BY <1>8, <1>9
<1>11. GroupFacts(g)
  BY <1>4, <1>5, <1>6, <1>7, <1>8, <1>10, Zenon DEF GroupFacts
<1> QED BY <1>11 DEF g

\* A group of l arguments that begins behind a and ends at b, of m arguments.
LEMMA GroupPlaces ==
  ASSUME NEW a \in Nat, NEW b \in Nat, NEW l \in Nat, NEW m \in Nat, NEW p,
         p = a + 1, b = a + l, b <= m
  PROVE  /\ p + l = b + 1
         /\ l >= 2 => p + 1 = a + 2 /\ a + 2 <= m
         /\ l >= 3 => p + 2 = a + 3 /\ a + 3 <= m
OBVIOUS

\* The argument that is next begins the next group.
LEMMA AtGroup ==
  ASSUME input \in Inputs, WellFormed, NEW k \in 0..GroupCount, i = ArgsUpTo[k] + 1,
         i <= Len(argv),
         NEW g, g = input.groups[k + 1]
  PROVE  /\ k \in Nat /\ k + 1 \in 1..GroupCount /\ k + 1 \in 0..GroupCount
         /\ GroupFacts(g)
         /\ arg = g[1]
         /\ Len(g) >= 2 => HasNext /\ value = g[2]
         /\ Len(g) >= 3 => i + 2 <= Len(argv) /\ argv[i + 2] = g[3]
         /\ i + Len(g) = ArgsUpTo[k + 1] + 1
<1>1. /\ GroupCount \in Nat /\ Len(argv) \in Nat
      /\ \A l \in 0..GroupCount : ArgsUpTo[l] \in Nat /\ ArgsUpTo[l] <= Len(argv)
      /\ ArgsUpTo[GroupCount] = Len(argv)
  <2>1. argv \in Seq(STRING)
    BY ArgvIs
  <2> QED BY <2>1, ArgvIs
<1>2. /\ \A l \in 1..GroupCount : ArgsUpTo[l] = ArgsUpTo[l - 1] + Len(input.groups[l])
      /\ \A l \in 1..GroupCount, j \in Nat \ {0} :
           j <= Len(input.groups[l]) => argv[ArgsUpTo[l - 1] + j] = input.groups[l][j]
  BY ArgvIs
<1>3. k # GroupCount
  BY <1>1
<1>4. k \in Nat /\ k + 1 \in 1..GroupCount /\ k + 1 \in 0..GroupCount /\ (k + 1) - 1 = k
  BY <1>1, <1>3
<1>5. GroupFacts(g)
  BY <1>4, GroupIs
<1>6. Len(g) \in Nat /\ Len(g) >= 1
  BY <1>5 DEF GroupFacts
<1>7. ArgsUpTo[k] \in Nat /\ ArgsUpTo[k + 1] = ArgsUpTo[k] + Len(g) /\ ArgsUpTo[k + 1] <= Len(argv)
  BY <1>1, <1>2, <1>4
<1>8. /\ i + Len(g) = ArgsUpTo[k + 1] + 1
      /\ Len(g) >= 2 => i + 1 = ArgsUpTo[k] + 2 /\ ArgsUpTo[k] + 2 <= Len(argv)
      /\ Len(g) >= 3 => i + 2 = ArgsUpTo[k] + 3 /\ ArgsUpTo[k] + 3 <= Len(argv)
  <2>1. ArgsUpTo[k] \in Nat /\ ArgsUpTo[k + 1] \in Nat /\ Len(argv) \in Nat
    BY <1>1, <1>4, <1>7
  <2>2. PICK a \in Nat : a = ArgsUpTo[k]
    BY <2>1
  <2>3. PICK b \in Nat : b = ArgsUpTo[k + 1]
    BY <2>1
  <2>4. PICK m \in Nat : m = Len(argv)
    BY <2>1
  <2>5. PICK l \in Nat : l = Len(g)
    BY <1>6
  <2>6. i = a + 1 /\ b = a + l /\ b <= m
    BY <1>7, <2>2, <2>3, <2>4, <2>5
  <2>7. /\ i + l = b + 1
        /\ l >= 2 => i + 1 = a + 2 /\ a + 2 <= m
        /\ l >= 3 => i + 2 = a + 3 /\ a + 3 <= m
    BY <2>6, GroupPlaces
  <2> QED BY <2>2, <2>3, <2>4, <2>5, <2>7
<1>9. \A j \in Nat \ {0} : j <= Len(g) => argv[ArgsUpTo[k] + j] = g[j]
  BY <1>2, <1>4
<1>10. arg = g[1]
  BY <1>6, <1>9 DEF arg
<1>11. Len(g) >= 2 => HasNext /\ value = g[2]
  <2> SUFFICES ASSUME Len(g) >= 2 PROVE HasNext /\ value = g[2]
    OBVIOUS
  <2>1. i + 1 = ArgsUpTo[k] + 2 /\ ArgsUpTo[k] + 2 <= Len(argv)
    BY <1>8
  <2>2. argv[ArgsUpTo[k] + 2] = g[2]
    BY <1>9
  <2> QED BY <2>1, <2>2 DEF HasNext, value
<1>12. Len(g) >= 3 => i + 2 <= Len(argv) /\ argv[i + 2] = g[3]
  <2> SUFFICES ASSUME Len(g) >= 3 PROVE i + 2 <= Len(argv) /\ argv[i + 2] = g[3]
    OBVIOUS
  <2>1. i + 2 = ArgsUpTo[k] + 3 /\ ArgsUpTo[k] + 3 <= Len(argv)
    BY <1>8
  <2>2. argv[ArgsUpTo[k] + 3] = g[3]
    BY <1>9
  <2> QED BY <2>1, <2>2
<1> QED BY <1>4, <1>5, <1>10, <1>11, <1>12, <1>8

\* The files among the groups up to k.
LEMMA FilesInIs ==
  ASSUME input \in Inputs, NEW k \in Nat
  PROVE  /\ IsFiniteSet(FilesIn(k)) /\ Cardinality(FilesIn(k)) \in Nat
         /\ \A j \in FilesIn(k) : Cardinality(FilesIn(j)) \in 1..Cardinality(FilesIn(k))
         /\ k + 1 \notin Files => FilesIn(k + 1) = FilesIn(k)
         /\ k + 1 \in Files =>
              /\ FilesIn(k + 1) = FilesIn(k) \cup {k + 1}
              /\ Cardinality(FilesIn(k + 1)) = Cardinality(FilesIn(k)) + 1
<1>1. Files \subseteq Nat \ {0}
  <2>1. input.groups \in Seq(Seq(STRING))
    BY StartupAssumption
  <2>2. DOMAIN input.groups \subseteq Nat \ {0}
    BY <2>1
  <2> QED BY <2>2 DEF Files
<1>2. \A l \in Nat : FilesIn(l) \subseteq 1..l /\ IsFiniteSet(FilesIn(l))
  <2> SUFFICES ASSUME NEW l \in Nat PROVE FilesIn(l) \subseteq 1..l /\ IsFiniteSet(FilesIn(l))
    OBVIOUS
  <2>1. FilesIn(l) \subseteq 1..l
    <3> SUFFICES ASSUME NEW j \in FilesIn(l) PROVE j \in 1..l
      OBVIOUS
    <3>1. j \in Files /\ j <= l
      BY DEF FilesIn
    <3>2. j \in Nat \ {0}
      BY <1>1, <3>1
    <3> QED BY <3>1, <3>2
  <2> QED BY <2>1, IntervalFinite, FS_Subset
<1>3. Cardinality(FilesIn(k)) \in Nat
  BY <1>2, FS_CardinalityType
<1>4. ASSUME NEW j \in FilesIn(k)
      PROVE  Cardinality(FilesIn(j)) \in 1..Cardinality(FilesIn(k))
  <2>1. j \in Nat /\ j <= k /\ j \in Files
    BY <1>1 DEF FilesIn
  <2>2. FilesIn(j) \subseteq FilesIn(k) /\ j \in FilesIn(j)
    <3>1. \A l \in FilesIn(j) : l \in Files /\ l <= j /\ l \in Nat
      BY <1>1 DEF FilesIn
    <3>2. \A l \in FilesIn(j) : l \in Files /\ l <= k
      BY <2>1, <3>1
    <3>3. j <= j
      BY <2>1
    <3> QED BY <2>1, <3>2, <3>3 DEF FilesIn
  <2>3. Cardinality(FilesIn(j)) <= Cardinality(FilesIn(k)) /\ IsFiniteSet(FilesIn(j))
    BY <1>2, <2>2, FS_Subset
  <2>4. Cardinality(FilesIn(j)) \in Nat /\ Cardinality(FilesIn(j)) # 0
    BY <2>2, <2>3, FS_EmptySet, FS_CardinalityType
  <2> QED BY <1>3, <2>3, <2>4
<1>5. ASSUME k + 1 \notin Files PROVE FilesIn(k + 1) = FilesIn(k)
  <2>1. \A j \in Files : j <= k + 1 <=> j <= k
    BY <1>1, <1>5
  <2> QED BY <2>1 DEF FilesIn
<1>6. ASSUME k + 1 \in Files
      PROVE  /\ FilesIn(k + 1) = FilesIn(k) \cup {k + 1}
             /\ Cardinality(FilesIn(k + 1)) = Cardinality(FilesIn(k)) + 1
  <2>1. \A j \in Files : j <= k + 1 <=> j <= k \/ j = k + 1
    BY <1>1
  <2>2. FilesIn(k + 1) = FilesIn(k) \cup {k + 1}
    BY <1>6, <2>1 DEF FilesIn
  <2>3. k + 1 \notin FilesIn(k)
    BY DEF FilesIn
  <2> QED BY <1>2, <2>2, <2>3, FS_AddElement
<1> QED BY <1>2, <1>3, <1>4, <1>5, <1>6

\* The groups up to k that set an option.
LEMMA SettingInIs ==
  ASSUME input \in Inputs, NEW k \in Nat, NEW o
  PROVE  /\ \A j \in SettingIn(o, k) : j \in Nat /\ j <= k
         /\ k + 1 \notin Setting(o) => SettingIn(o, k + 1) = SettingIn(o, k)
         /\ k + 1 \in Setting(o) => SettingIn(o, k + 1) = SettingIn(o, k) \cup {k + 1}
<1>1. Setting(o) \subseteq Nat
  <2>1. input.groups \in Seq(Seq(STRING))
    BY StartupAssumption
  <2>2. DOMAIN input.groups \subseteq Nat
    BY <2>1
  <2> QED BY <2>2 DEF Setting
<1> DEFINE S == Setting(o)
<1> HIDE DEF S
<1>2. \A j \in S : j \in Nat
  BY <1>1 DEF S
<1>3. SettingIn(o, k) = {j \in S : j <= k} /\ SettingIn(o, k + 1) = {j \in S : j <= k + 1}
  BY DEF SettingIn, S
<1>4. \A j \in SettingIn(o, k) : j \in Nat /\ j <= k
  BY <1>2, <1>3
<1>5. \A j \in S : j <= k + 1 <=> j <= k \/ j = k + 1
  BY <1>2
<1>6. k + 1 \notin S => SettingIn(o, k + 1) = SettingIn(o, k)
  BY <1>3, <1>5
<1>7. k + 1 \in S => SettingIn(o, k + 1) = SettingIn(o, k) \cup {k + 1}
  BY <1>3, <1>5
<1> QED BY <1>4, <1>6, <1>7 DEF S

\* Group n turns the options c and the files fs into d and gs.
Adds(n, g, c, fs, d, gs) ==
  /\ \A o \in DOMAIN Valued :
       /\ n \in Setting(o) => d[Valued[o]] = Says(g)
       /\ n \notin Setting(o) => d[Valued[o]] = c[Valued[o]]
  /\ \A o \in DOMAIN Flags :
       /\ n \in Setting(o) => d[Flags[o]] = TRUE
       /\ n \notin Setting(o) => d[Flags[o]] = c[Flags[o]]
  /\ n \in Files => gs = Append(fs, g[1])
  /\ n \notin Files => gs = fs

\* One more group: its option or its file is added to what was said.
LEMMA SaidStep ==
  ASSUME input \in Inputs, NEW k \in Nat, NEW c, NEW fs \in Seq(STRING), SaidBy(c, fs, k),
         NEW d, NEW gs, NEW g, g = input.groups[k + 1], g \in Seq(STRING), g[1] \in STRING,
         Adds(k + 1, g, c, fs, d, gs)
  PROVE  SaidBy(d, gs, k + 1)
<1>0. /\ \A o \in DOMAIN Valued :
           /\ k + 1 \in Setting(o) => d[Valued[o]] = Says(g)
           /\ k + 1 \notin Setting(o) => d[Valued[o]] = c[Valued[o]]
      /\ \A o \in DOMAIN Flags :
           /\ k + 1 \in Setting(o) => d[Flags[o]] = TRUE
           /\ k + 1 \notin Setting(o) => d[Flags[o]] = c[Flags[o]]
      /\ k + 1 \in Files => gs = Append(fs, g[1])
      /\ k + 1 \notin Files => gs = fs
  BY DEF Adds
<1>1. ASSUME NEW o \in DOMAIN Valued
      PROVE  \/ SettingIn(o, k + 1) = {} /\ d[Valued[o]] = Defaults[Valued[o]]
             \/ \E j \in SettingIn(o, k + 1) :
                  IsLast(j, SettingIn(o, k + 1)) /\ d[Valued[o]] = Says(input.groups[j])
  <2>1. CASE k + 1 \in Setting(o)
    <3>1. SettingIn(o, k + 1) = SettingIn(o, k) \cup {k + 1}
      BY <2>1, SettingInIs
    <3>2. \A j \in SettingIn(o, k) : j \in Nat /\ j <= k
      BY SettingInIs
    <3>3. \A j \in SettingIn(o, k + 1) : j <= k + 1
      BY <3>1, <3>2
    <3>4. IsLast(k + 1, SettingIn(o, k + 1))
      BY <3>1, <3>3 DEF IsLast
    <3> QED BY <1>0, <2>1, <3>1, <3>4
  <2>2. CASE k + 1 \notin Setting(o)
    <3>1. SettingIn(o, k + 1) = SettingIn(o, k) /\ d[Valued[o]] = c[Valued[o]]
      BY <1>0, <2>2, SettingInIs
    <3>2. \/ SettingIn(o, k) = {} /\ c[Valued[o]] = Defaults[Valued[o]]
          \/ \E j \in SettingIn(o, k) :
               IsLast(j, SettingIn(o, k)) /\ c[Valued[o]] = Says(input.groups[j])
      BY DEF SaidBy
    <3> QED BY <3>1, <3>2
  <2> QED BY <2>1, <2>2
<1>2. ASSUME NEW o \in DOMAIN Flags PROVE d[Flags[o]] = (SettingIn(o, k + 1) # {})
  <2>1. c[Flags[o]] = (SettingIn(o, k) # {})
    BY DEF SaidBy
  <2>2. CASE k + 1 \in Setting(o)
    <3>1. SettingIn(o, k + 1) = SettingIn(o, k) \cup {k + 1}
      BY <2>2, SettingInIs
    <3> QED BY <1>0, <2>2, <3>1
  <2>3. CASE k + 1 \notin Setting(o)
    <3>1. SettingIn(o, k + 1) = SettingIn(o, k)
      BY <2>3, SettingInIs
    <3> QED BY <1>0, <2>1, <2>3, <3>1
  <2> QED BY <2>2, <2>3
<1> DEFINE C(j) == Cardinality(FilesIn(j))
<1>3. Len(fs) = C(k) /\ C(k) \in Nat /\ \A j \in FilesIn(k) : fs[C(j)] = input.groups[j][1]
  BY FilesInIs DEF SaidBy
<1>4. \A j \in FilesIn(k) : C(j) \in 1..C(k)
  BY FilesInIs
<1>5. /\ Len(gs) = C(k + 1)
      /\ \A j \in FilesIn(k + 1) : gs[C(j)] = input.groups[j][1]
  <2>1. CASE k + 1 \in Files
    <3>1. FilesIn(k + 1) = FilesIn(k) \cup {k + 1} /\ C(k + 1) = C(k) + 1
      BY <2>1, FilesInIs
    <3>2. gs = Append(fs, g[1])
      BY <1>0, <2>1
    <3> HIDE DEF C
    <3>3. Len(Append(fs, g[1])) = Len(fs) + 1
      BY AppendProperties
    <3>4. \A l \in 1..Len(fs) : Append(fs, g[1])[l] = fs[l]
      BY AppendProperties
    <3>5. Append(fs, g[1])[Len(fs) + 1] = g[1]
      BY AppendProperties
    <3>6. Len(gs) = C(k + 1)
      BY <1>3, <3>1, <3>2, <3>3
    <3>7. ASSUME NEW j \in FilesIn(k) PROVE gs[C(j)] = input.groups[j][1]
      <4>1. C(j) \in 1..Len(fs)
        BY <1>3, <1>4
      <4>2. gs[C(j)] = fs[C(j)]
        BY <3>2, <3>4, <4>1
      <4> QED BY <1>3, <4>2
    <3>8. gs[C(k + 1)] = g[1]
      BY <1>3, <3>1, <3>2, <3>5
    <3> QED BY <3>1, <3>6, <3>7, <3>8
  <2>2. CASE k + 1 \notin Files
    <3>1. FilesIn(k + 1) = FilesIn(k) /\ gs = fs
      BY <1>0, <2>2, FilesInIs
    <3> QED BY <1>3, <3>1
  <2> QED BY <2>1, <2>2
<1> QED BY <1>1, <1>2, <1>5 DEF SaidBy

\* The options set different fields.
LEMMA FieldsDiffer ==
  /\ \A o, p \in DOMAIN Valued : Valued[o] = Valued[p] => o = p
  /\ \A o, p \in DOMAIN Flags : Flags[o] = Flags[p] => o = p
  /\ \A o \in DOMAIN Valued, p \in DOMAIN Flags : Valued[o] # Flags[p] /\ o # p
  /\ \A o \in DOMAIN Valued : Valued[o] \in DOMAIN Defaults /\ Valued[o] # "threshold"
  /\ \A o \in DOMAIN Flags : Flags[o] \in DOMAIN Defaults /\ Flags[o] # "threshold"
  /\ "threshold" \in DOMAIN Defaults
<1>1. \A o, p \in DOMAIN Valued : Valued[o] = Valued[p] => o = p
  BY ValuedIs
<1>2. \A o, p \in DOMAIN Flags : Flags[o] = Flags[p] => o = p
  BY FlagsAre
<1>3. \A o \in DOMAIN Valued, p \in DOMAIN Flags : Valued[o] # Flags[p] /\ o # p
  BY ValuedIs, FlagsAre
<1>4. \A o \in DOMAIN Valued : Valued[o] \in DOMAIN Defaults /\ Valued[o] # "threshold"
  BY ValuedIs DEF Defaults
<1>5. \A o \in DOMAIN Flags : Flags[o] \in DOMAIN Defaults /\ Flags[o] # "threshold"
  BY FlagsAre DEF Defaults
<1>6. "threshold" \in DOMAIN Defaults
  BY DEF Defaults
<1> QED BY <1>1, <1>2, <1>3, <1>4, <1>5, <1>6

LEMMA SaidNow ==
  ASSUME input' = input, NEW n, NEW d, NEW gs, d = cmd', gs = inputFileNames', SaidBy(d, gs, n)
  PROVE  HasRead(n)'
<1>1. ASSUME NEW o \in DOMAIN Valued
      PROVE  (\/ SettingIn(o, n) = {} /\ cmd[Valued[o]] = Defaults[Valued[o]]
              \/ \E j \in SettingIn(o, n) :
                   IsLast(j, SettingIn(o, n)) /\ cmd[Valued[o]] = Says(input.groups[j]))'
  <2>1. \/ SettingIn(o, n) = {} /\ d[Valued[o]] = Defaults[Valued[o]]
        \/ \E j \in SettingIn(o, n) :
             IsLast(j, SettingIn(o, n)) /\ d[Valued[o]] = Says(input.groups[j])
    BY DEF SaidBy
  <2>2. SettingIn(o, n)' = SettingIn(o, n)
    BY DEF SettingIn, Setting
  <2>3. \A j : IsLast(j, SettingIn(o, n))' <=> IsLast(j, SettingIn(o, n))
    BY <2>2 DEF IsLast
  <2>4. \A j : Says(input.groups[j])' = Says(input.groups[j])
    BY DEF Says, NumberIn
  <2> QED BY <2>1, <2>2, <2>3, <2>4
<1>2. ASSUME NEW o \in DOMAIN Flags PROVE (cmd[Flags[o]] = (SettingIn(o, n) # {}))'
  <2>1. d[Flags[o]] = (SettingIn(o, n) # {})
    BY DEF SaidBy
  <2>2. SettingIn(o, n)' = SettingIn(o, n)
    BY DEF SettingIn, Setting
  <2> QED BY <2>1, <2>2
<1>3. (Len(inputFileNames) = Cardinality(FilesIn(n)))'
  BY DEF SaidBy, FilesIn, Files, IsFile
<1>4. (\A j \in FilesIn(n) : inputFileNames[Cardinality(FilesIn(j))] = input.groups[j][1])'
  <2>1. \A j \in FilesIn(n) : gs[Cardinality(FilesIn(j))] = input.groups[j][1]
    BY DEF SaidBy
  <2> QED BY <2>1 DEF FilesIn, Files, IsFile
<1> QED BY <1>1, <1>2, <1>3, <1>4 DEF HasRead, SaidBy

\* How a group that is an option changes cmd to d.
OptionSays(d, g) ==
  /\ \A o \in DOMAIN Valued \ {g[1]} : d[Valued[o]] = cmd[Valued[o]]
  /\ \A o \in DOMAIN Flags : d[Flags[o]] = cmd[Flags[o]]
  /\ IF g[1] = "-hs" /\ g[2] \notin DOMAIN Numbers \cup {"auto"}
       THEN d[Valued[g[1]]] = cmd[Valued[g[1]]]
       ELSE d[Valued[g[1]]] = Says(g)

LEMMA SetSays ==
  ASSUME CmdOK(cmd), NEW g, g[1] \in DOMAIN Valued, NEW x,
         x = IF g[1] = "-hs" /\ g[2] \notin DOMAIN Numbers \cup {"auto"}
               THEN cmd[Valued[g[1]]] ELSE Says(g),
         NEW d, d = [cmd EXCEPT ![Valued[g[1]]] = x]
  PROVE  OptionSays(d, g)
<1>1. DOMAIN cmd = DOMAIN Defaults
  BY DEF CmdOK
<1>2. d[Valued[g[1]]] = x
  BY <1>1, FieldsDiffer
<1>3. \A f \in DOMAIN Defaults : f # Valued[g[1]] => d[f] = cmd[f]
  BY <1>1
<1>4. \A o \in DOMAIN Valued \ {g[1]} : d[Valued[o]] = cmd[Valued[o]]
  BY <1>3, FieldsDiffer
<1>5. \A o \in DOMAIN Flags : d[Flags[o]] = cmd[Flags[o]]
  BY <1>3, FieldsDiffer
<1> QED BY <1>2, <1>4, <1>5 DEF OptionSays

\* The action that is taken at an option.
LEMMA AtOption ==
  ASSUME TypeInv, InArgs, Arguments, arg \in DOMAIN Valued, HasNext
  PROVE  /\ arg \in {"-t", "-g"} => ChoiceOption
         /\ arg \in {"-c", "-o"} => NameOption
         /\ arg \in {"-dm", "-tm"} => FactorOption
         /\ arg = "-hs" => PopulateOption
         /\ arg = "-b" => BoundsOption
         /\ arg = "-cc" => ComponentsOption
<1>1. pc = "args" /\ Len(argv) >= 3 /\ i <= Len(argv)
  BY DEF InArgs
<1>2. ~TooFew
  <2> SUFFICES ASSUME TooFew PROVE FALSE
    OBVIOUS
  <2>1. Len(argv) < 3 /\ Len(argv) >= 3
    BY <1>1 DEF TooFew
  <2> QED BY <2>1
<1>3. ~EndArgs
  <2> SUFFICES ASSUME EndArgs PROVE FALSE
    OBVIOUS
  <2>1. i > Len(argv) /\ i <= Len(argv) /\ i \in Nat /\ Len(argv) \in Nat
    <3>1. argv \in Seq(STRING) /\ i \in Nat
      BY ArgvIs DEF TypeInv
    <3> QED BY <1>1, <3>1 DEF EndArgs
  <2> QED BY <2>1
<1>4. arg \notin {"-h", "--help"} /\ arg \notin DOMAIN Flags /\ ~NoOption
  BY ValuedIs, FlagsAre DEF NoOption
<1>5. ~Help /\ ~Flag /\ ~UnknownCommand /\ ~InputFile
  BY <1>4 DEF Help, Flag, UnknownCommand, InputFile
<1>6. /\ ChoiceOption => arg \in {"-t", "-g"}
      /\ NameOption => arg \in {"-c", "-o"}
      /\ FactorOption => arg \in {"-dm", "-tm"}
      /\ PopulateOption => arg = "-hs"
      /\ BoundsOption => arg = "-b"
      /\ ComponentsOption => arg = "-cc"
  BY Zenon DEF ChoiceOption, NameOption, FactorOption, PopulateOption, BoundsOption, ComponentsOption
<1>7. \/ ChoiceOption \/ NameOption \/ FactorOption \/ PopulateOption \/ BoundsOption
      \/ ComponentsOption
  BY <1>2, <1>3, <1>5 DEF Arguments
<1> QED BY <1>6, <1>7

\* An option sets what it says, or main ends with a message.
LEMMA OptionStep ==
  ASSUME TypeInv, InArgs, Arguments, NEW g, GroupFacts(g), g[1] \in DOMAIN Valued,
         arg = g[1], HasNext, value = g[2],
         Len(g) >= 3 => i + 2 <= Len(argv) /\ argv[i + 2] = g[3]
  PROVE  \/ pc' = "rejected"
         \/ /\ pc' = pc /\ i' = i + Len(g) /\ inputFileNames' = inputFileNames
            /\ \E d : d = cmd' /\ OptionSays(d, g)
<1> DEFINE x == IF g[1] = "-hs" /\ g[2] \notin DOMAIN Numbers \cup {"auto"}
                  THEN cmd[Valued[g[1]]] ELSE Says(g)
<1>0. CmdOK(cmd)
  BY DEF TypeInv
<1>a. ~IsFile(g) /\ ~IsFlag(g)
  <2>1. g[1] \notin DOMAIN Flags
    BY ValuedIs, FlagsAre
  <2> QED BY <2>1 DEF IsFile, IsFlag
<1>b. g[1] # "-cc" => Len(g) = 2 /\ (g[1] = "-hs" => g[2] \notin TooBig)
  BY <1>a, Zenon DEF GroupFacts
<1>c. ASSUME Len(g) = 2, SetTo(Valued[g[1]], x)
      PROVE  /\ pc' = pc /\ i' = i + Len(g) /\ inputFileNames' = inputFileNames
             /\ \E d : d = cmd' /\ OptionSays(d, g)
  <2>1. pc' = pc /\ i' = i + 2 /\ inputFileNames' = inputFileNames
        /\ cmd' = [cmd EXCEPT ![Valued[g[1]]] = x]
    BY <1>c DEF SetTo, Skip
  <2>2. PICK y : y = x
    OBVIOUS
  <2>3. PICK d : d = [cmd EXCEPT ![Valued[g[1]]] = y]
    OBVIOUS
  <2> HIDE DEF x
  <2>4. OptionSays(d, g)
    <3>1. y = IF g[1] = "-hs" /\ g[2] \notin DOMAIN Numbers \cup {"auto"}
               THEN cmd[Valued[g[1]]] ELSE Says(g)
      BY <2>2 DEF x
    <3> QED BY <1>0, <2>3, <3>1, SetSays
  <2> QED BY <1>c, <2>1, <2>2, <2>3, <2>4
<1> USE AtOption
<1>1. CASE g[1] \in {"-t", "-g"}
  <2>1. CASE value \in DOMAIN Choice(arg)
    <3>1. SetTo(Valued[g[1]], Choice(g[1])[g[2]])
      BY <1>1, <2>1 DEF ChoiceOption
    <3>2. x = Choice(g[1])[g[2]]
      <4>1. x = Says(g)
        BY <1>1
      <4>2. CASE g[1] = "-t"
        BY <4>1, <4>2 DEF Says, Choice
      <4>3. CASE g[1] = "-g"
        BY <4>1, <4>3 DEF Says, Choice
      <4> QED BY <1>1, <4>2, <4>3
    <3> HIDE DEF x
    <3> QED BY <1>b, <1>c, <1>1, <3>1, <3>2
  <2>2. CASE value \notin DOMAIN Choice(arg)
    BY <1>1, <2>2 DEF ChoiceOption, End
  <2> QED BY <2>1, <2>2
<1>2. CASE g[1] \in {"-c", "-o"}
  <2>1. SetTo(Valued[g[1]], g[2])
    BY <1>2 DEF NameOption
  <2>2. x = g[2]
    BY <1>2 DEF Says
  <2> HIDE DEF x
  <2> QED BY <1>b, <1>c, <1>2, <2>1, <2>2
<1>3. CASE g[1] \in {"-dm", "-tm"}
  <2>1. SetTo(Valued[g[1]], atof(g[2]))
    BY <1>3 DEF FactorOption
  <2>2. x = atof(g[2])
    BY <1>3 DEF Says, NumberIn, atof
  <2> HIDE DEF x
  <2> QED BY <1>b, <1>c, <1>3, <2>1, <2>2
<1>4. CASE g[1] = "-hs"
  <2>1. SetTo("populate", IF value = "auto" THEN 0
                          ELSE IF value \in DOMAIN Numbers THEN Numbers[value]
                          ELSE cmd.populate)
    BY <1>b, <1>4 DEF PopulateOption
  <2>2. Valued[g[1]] = "populate"
    BY <1>4, ValuedIs
  <2>3. x = IF g[2] = "auto" THEN 0
            ELSE IF g[2] \in DOMAIN Numbers THEN Numbers[g[2]]
            ELSE cmd.populate
    BY <1>4, <2>2 DEF Says
  <2> HIDE DEF x
  <2> QED BY <1>b, <1>c, <1>4, <2>1, <2>2, <2>3
<1>5. CASE g[1] = "-b"
  <2>1. CASE value \in Bounds
    <3>1. SetTo(Valued[g[1]], g[2])
      BY <1>5, <2>1, ValuedIs DEF BoundsOption
    <3>2. x = g[2]
      BY <1>5 DEF Says
    <3> HIDE DEF x
    <3> QED BY <1>b, <1>c, <1>5, <3>1, <3>2
  <2>2. CASE value \notin Bounds
    BY <1>5, <2>2 DEF BoundsOption, End
  <2> QED BY <2>1, <2>2
<1>6. CASE g[1] = "-cc"
  <2>0. x = ModeWords[g[2]] /\ Valued[g[1]] = "mode"
        /\ DOMAIN ModeWords = {"topk", "size", "all"} /\ ModeWords["all"] = "All"
    BY <1>6, ValuedIs DEF Says, ModeWords
  <2>1. CASE Len(g) = 2 /\ g[2] = "all"
    <3>1. SetTo("mode", "All")
      BY <1>6, <2>0, <2>1 DEF ComponentsOption
    <3> HIDE DEF x
    <3> QED BY <1>c, <2>0, <2>1, <3>1
  <2>2. CASE Len(g) = 3 /\ g[2] \in {"topk", "size"} /\ g[3] \in DOMAIN Numbers
    <3>1. ThresholdAt(i + 2)
      BY <2>2 DEF ThresholdAt
    <3>2. /\ cmd' = [cmd EXCEPT !.mode = ModeWords[g[2]], !.threshold = Unsigned(Numbers[argv[i + 2]])]
          /\ i' = i + 3 /\ UNCHANGED <<pc, inputFileNames>>
      BY <1>6, <2>0, <2>2, <3>1 DEF ComponentsOption
    <3>3. PICK y, z, b, d : /\ y = ModeWords[g[2]] /\ z = Unsigned(Numbers[argv[i + 2]])
                            /\ b = [cmd EXCEPT !["mode"] = y]
                            /\ d = [cmd EXCEPT !["mode"] = y, !["threshold"] = z]
      OBVIOUS
    <3>4. OptionSays(b, g)
      <4>1. y = x
        BY <2>0, <3>3
      <4>2. y = IF g[1] = "-hs" /\ g[2] \notin DOMAIN Numbers \cup {"auto"}
                 THEN cmd[Valued[g[1]]] ELSE Says(g)
        BY <4>1
      <4> QED BY <1>0, <2>0, <3>3, <4>2, SetSays
    <3>5. \A f \in DOMAIN Defaults : f # "threshold" => d[f] = b[f]
      BY <1>0, <3>3 DEF CmdOK
    <3>6. OptionSays(d, g)
      <4>1. \A o \in DOMAIN Valued : d[Valued[o]] = b[Valued[o]]
        BY <3>5, FieldsDiffer
      <4>2. \A o \in DOMAIN Flags : d[Flags[o]] = b[Flags[o]]
        BY <3>5, FieldsDiffer
      <4> QED BY <3>4, <4>1, <4>2 DEF OptionSays
    <3>7. d = cmd'
      BY <3>2, <3>3
    <3> QED BY <2>2, <3>2, <3>6, <3>7
  <2> QED BY <1>a, <1>6, <2>1, <2>2 DEF GroupFacts
<1> QED BY <1>1, <1>2, <1>3, <1>4, <1>5, <1>6, ValuedIs

LEMMA ArgsInit == Init => ArgsInv
<1> SUFFICES ASSUME Init, WellFormed PROVE ArgsInv
  BY DEF ArgsInv
<1>1. input \in Inputs /\ pc = "args" /\ i = 1 /\ cmd = Defaults /\ inputFileNames = << >>
  BY DEF Init
<1>2. GroupCount \in Nat /\ ArgsUpTo[0] = 0
  BY <1>1, ArgvIs
<1>3. DOMAIN input.groups \subseteq Nat \ {0}
  <2>1. input.groups \in Seq(Seq(STRING))
    BY <1>1, StartupAssumption
  <2> QED BY <2>1
<1>4. ASSUME NEW o PROVE SettingIn(o, 0) = {}
  <2>1. Setting(o) \subseteq Nat \ {0}
    BY <1>3 DEF Setting
  <2>2. \A j \in Setting(o) : ~(j <= 0)
    BY <2>1
  <2> QED BY <2>2 DEF SettingIn
<1>5. FilesIn(0) = {}
  <2>1. Files \subseteq Nat \ {0}
    BY <1>3 DEF Files
  <2>2. \A j \in Files : ~(j <= 0)
    BY <2>1
  <2> QED BY <2>2 DEF FilesIn
<1>6. \A o \in DOMAIN Flags : Defaults[Flags[o]] = FALSE
  BY FlagsAre DEF Defaults
<1>7. Len(inputFileNames) = Cardinality(FilesIn(0))
  BY <1>1, <1>5, FS_EmptySet
<1>8. HasRead(0)
  BY <1>1, <1>4, <1>5, <1>6, <1>7 DEF HasRead, SaidBy
<1> QED BY <1>1, <1>2, <1>8 DEF ArgsInv

\* One round of the loop over argv reads one group.
LEMMA GroupStep ==
  ASSUME TypeInv, [Next]_vars, WellFormed, InArgs, Arguments,
         NEW k \in 0..GroupCount, i = ArgsUpTo[k] + 1, HasRead(k)
  PROVE  \/ pc' \in {"help", "rejected"}
         \/ pc' = "args" /\ k + 1 \in 0..GroupCount /\ i' = ArgsUpTo[k + 1] + 1 /\ HasRead(k + 1)'
<1>0. input \in Inputs /\ input' = input /\ pc = "args" /\ i <= Len(argv)
      /\ inputFileNames \in Seq(STRING) /\ CmdOK(cmd) /\ i \in Nat /\ Len(argv) \in Nat
      /\ Len(argv) >= 3
  BY Kept DEF TypeInv, InArgs
<1> DEFINE kk == k + 1
<1>1. PICK g : g = input.groups[k + 1]
  OBVIOUS
<1>2. /\ k \in Nat /\ kk \in 1..GroupCount /\ kk \in 0..GroupCount
      /\ GroupFacts(g) /\ arg = g[1]
      /\ Len(g) >= 2 => HasNext /\ value = g[2]
      /\ Len(g) >= 3 => i + 2 <= Len(argv) /\ argv[i + 2] = g[3]
      /\ i + Len(g) = ArgsUpTo[kk] + 1
  BY <1>0, <1>1, AtGroup
<1>3. g \in Seq(STRING) /\ g[1] \in STRING
  <2>1. g \in Seq(STRING) /\ Len(g) \in Nat /\ Len(g) >= 1
    BY <1>2 DEF GroupFacts
  <2> QED BY <2>1
<1>4. kk \in DOMAIN input.groups
  <2>1. input.groups \in Seq(Seq(STRING))
    BY <1>0, StartupAssumption
  <2> QED BY <1>2, <2>1 DEF GroupCount
<1>5. kk \in Files <=> IsFile(g)
  BY <1>1, <1>4 DEF Files
<1>6. \A o : kk \in Setting(o) <=> g[1] = o /\ (o = "-hs" => g[2] \in DOMAIN Numbers \cup {"auto"})
  BY <1>1, <1>4 DEF Setting
<1>7. SaidBy(cmd, inputFileNames, k)
  BY DEF HasRead
<1>8. ~EndArgs /\ ~TooFew
  <2>1. EndArgs => i > Len(argv)
    BY DEF EndArgs
  <2>2. TooFew => Len(argv) < 3
    BY DEF TooFew
  <2> QED BY <1>0, <2>1, <2>2
<1> HIDE DEF kk
<1>9. ASSUME NEW d, d = cmd', NEW gs, gs = inputFileNames',
             pc' = pc, i' = i + Len(g), Adds(kk, g, cmd, inputFileNames, d, gs)
      PROVE  pc' = "args" /\ kk \in 0..GroupCount /\ i' = ArgsUpTo[kk] + 1 /\ HasRead(kk)'
  <2>1. PICK c, fs : c = cmd /\ fs = inputFileNames
    OBVIOUS
  <2>2. SaidBy(d, gs, k + 1)
    <3>1. fs \in Seq(STRING) /\ SaidBy(c, fs, k)
      BY <1>0, <1>7, <2>1
    <3>2. Adds(k + 1, g, c, fs, d, gs)
      BY <1>9, <2>1 DEF kk
    <3> QED BY <1>0, <1>1, <1>2, <1>3, <3>1, <3>2, SaidStep
  <2>3. HasRead(kk)'
    <3>1. PICK n : n = kk
      OBVIOUS
    <3>2. SaidBy(d, gs, n)
      BY <2>2, <3>1 DEF kk
    <3>3. HasRead(n)'
      BY <1>0, <1>9, <3>2, SaidNow
    <3> QED BY <3>1, <3>3
  <2> QED BY <1>0, <1>2, <1>9, <2>3
<1>10. CASE IsFile(g)
  <2>1. arg \notin Dashed \cup DOMAIN Flags \cup {"-h", "--help"} \cup DOMAIN Valued /\ Len(g) = 1
    BY <1>2, <1>10 DEF IsFile
  <2>2. ~Help /\ ~Flag /\ ~UnknownCommand
    BY <2>1 DEF Help, Flag, UnknownCommand
  <2>3. /\ ~ChoiceOption /\ ~NameOption /\ ~FactorOption /\ ~PopulateOption /\ ~BoundsOption
        /\ ~ComponentsOption
    BY <2>1, ValuedIs DEF ChoiceOption, NameOption, FactorOption, PopulateOption, BoundsOption,
                          ComponentsOption
  <2>4. InputFile
    BY <1>8, <2>2, <2>3 DEF Arguments
  <2>5. PICK d, gs : d = cmd' /\ gs = inputFileNames'
    OBVIOUS
  <2>6. gs = Append(inputFileNames, g[1]) /\ i' = i + Len(g) /\ pc' = pc /\ d = cmd
    BY <1>2, <2>1, <2>4, <2>5 DEF InputFile
  <2>7. \A o \in DOMAIN Valued \cup DOMAIN Flags : kk \notin Setting(o)
    BY <1>2, <1>6, <2>1
  <2>8. \A o \in DOMAIN Valued :
           /\ kk \in Setting(o) => d[Valued[o]] = Says(g)
           /\ kk \notin Setting(o) => d[Valued[o]] = cmd[Valued[o]]
    BY <2>6, <2>7
  <2>9. \A o \in DOMAIN Flags :
           /\ kk \in Setting(o) => d[Flags[o]] = TRUE
           /\ kk \notin Setting(o) => d[Flags[o]] = cmd[Flags[o]]
    BY <2>6, <2>7
  <2>10. kk \in Files
    BY <1>5, <1>10
  <2>11. pc' = "args" /\ kk \in 0..GroupCount /\ i' = ArgsUpTo[kk] + 1 /\ HasRead(kk)'
    <3>1. Adds(kk, g, cmd, inputFileNames, d, gs)
      BY <2>6, <2>8, <2>9, <2>10 DEF Adds
    <3> QED BY <1>9, <2>5, <2>6, <3>1
  <2> QED BY <2>11 DEF kk
<1>11. CASE IsFlag(g)
  <2>1. arg \in DOMAIN Flags /\ Len(g) = 1
    BY <1>2, <1>11 DEF IsFlag
  <2>2. arg \notin {"-h", "--help"} /\ arg \notin DOMAIN Valued /\ ~NoOption
    BY <2>1, ValuedIs, FlagsAre DEF NoOption
  <2>3. ~Help /\ ~InputFile /\ ~UnknownCommand
    BY <2>2 DEF Help, InputFile, UnknownCommand
  <2>4. /\ ~ChoiceOption /\ ~NameOption /\ ~FactorOption /\ ~PopulateOption /\ ~BoundsOption
        /\ ~ComponentsOption
    BY <2>2, ValuedIs DEF ChoiceOption, NameOption, FactorOption, PopulateOption, BoundsOption,
                          ComponentsOption
  <2>5. Flag
    BY <1>8, <2>3, <2>4 DEF Arguments
  <2>6. PICK d, gs : d = cmd' /\ gs = inputFileNames'
    OBVIOUS
  <2>7. d = [cmd EXCEPT ![Flags[g[1]]] = TRUE] /\ gs = inputFileNames /\ i' = i + Len(g) /\ pc' = pc
    BY <1>2, <2>1, <2>5, <2>6 DEF Flag
  <2>8. DOMAIN cmd = DOMAIN Defaults /\ g[1] \in DOMAIN Flags
    BY <1>0, <1>2, <2>1 DEF CmdOK
  <2>9. d[Flags[g[1]]] = TRUE /\ \A f \in DOMAIN Defaults : f # Flags[g[1]] => d[f] = cmd[f]
    BY <2>7, <2>8, FieldsDiffer
  <2>10. \A o \in DOMAIN Valued :
           /\ kk \in Setting(o) => d[Valued[o]] = Says(g)
           /\ kk \notin Setting(o) => d[Valued[o]] = cmd[Valued[o]]
    <3>1. \A o \in DOMAIN Valued : kk \notin Setting(o)
      BY <1>2, <1>6, <2>2
    <3> QED BY <2>8, <2>9, <3>1, FieldsDiffer
  <2>11. \A o \in DOMAIN Flags :
           /\ kk \in Setting(o) => d[Flags[o]] = TRUE
           /\ kk \notin Setting(o) => d[Flags[o]] = cmd[Flags[o]]
    <3>1. g[1] # "-hs"
      BY <2>8, FlagsAre
    <3>2. \A o : kk \in Setting(o) <=> g[1] = o
      BY <1>6, <3>1
    <3> QED BY <2>8, <2>9, <3>2, FieldsDiffer
  <2>12. kk \notin Files
    BY <1>2, <1>5, <2>1 DEF IsFile
  <2>13. pc' = "args" /\ kk \in 0..GroupCount /\ i' = ArgsUpTo[kk] + 1 /\ HasRead(kk)'
    <3>1. Adds(kk, g, cmd, inputFileNames, d, gs)
      BY <2>7, <2>10, <2>11, <2>12 DEF Adds
    <3> QED BY <1>9, <2>6, <2>7, <3>1
  <2> QED BY <2>13 DEF kk
<1>12. CASE ~IsFile(g) /\ ~IsFlag(g)
  <2>1. g[1] \in DOMAIN Valued /\ Len(g) >= 2
    <3>1. Len(g) = 2 \/ Len(g) = 3
      BY <1>2, <1>12 DEF GroupFacts
    <3>2. g[1] \in DOMAIN Valued
      BY <1>2, <1>12, ValuedIs DEF GroupFacts
    <3>3. Len(g) >= 2
      <4>1. 2 >= 2 /\ 3 >= 2
        OBVIOUS
      <4> QED BY <3>1, <4>1, Zenon
    <3> QED BY <3>2, <3>3
  <2>2. \/ pc' = "rejected"
        \/ /\ pc' = pc /\ i' = i + Len(g) /\ inputFileNames' = inputFileNames
           /\ \E d : d = cmd' /\ OptionSays(d, g)
    BY <1>2, <2>1, OptionStep
  <2>3. CASE /\ pc' = pc /\ i' = i + Len(g) /\ inputFileNames' = inputFileNames
             /\ \E d : d = cmd' /\ OptionSays(d, g)
    <3>1. PICK d, gs : d = cmd' /\ OptionSays(d, g) /\ gs = inputFileNames'
      BY <2>3
    <3>2. \A o \in DOMAIN Valued :
             /\ kk \in Setting(o) => d[Valued[o]] = Says(g)
             /\ kk \notin Setting(o) => d[Valued[o]] = cmd[Valued[o]]
      BY <1>6, <3>1 DEF OptionSays
    <3>3. \A o \in DOMAIN Flags :
             /\ kk \in Setting(o) => d[Flags[o]] = TRUE
             /\ kk \notin Setting(o) => d[Flags[o]] = cmd[Flags[o]]
      <4>1. \A o \in DOMAIN Flags : kk \notin Setting(o)
        BY <1>6, <2>1, FieldsDiffer
      <4> QED BY <3>1, <4>1 DEF OptionSays
    <3>4. kk \notin Files
      BY <1>5, <1>12
    <3>5. pc' = "args" /\ kk \in 0..GroupCount /\ i' = ArgsUpTo[kk] + 1 /\ HasRead(kk)'
      <4>1. Adds(kk, g, cmd, inputFileNames, d, gs)
        BY <2>3, <3>1, <3>2, <3>3, <3>4 DEF Adds
      <4> QED BY <1>9, <2>3, <3>1, <4>1
    <3> QED BY <3>5 DEF kk
  <2> QED BY <2>2, <2>3
<1> QED BY <1>10, <1>11, <1>12

LEMMA ArgsStep == TypeInv /\ ArgsInv /\ [Next]_vars => ArgsInv'
<1> SUFFICES ASSUME TypeInv, ArgsInv, [Next]_vars, WellFormed' PROVE ArgsInv'
  BY DEF ArgsInv
<1>0. input' = input /\ input \in Inputs /\ argv \in Seq(STRING)
  BY Kept DEF TypeInv
<1>1. WellFormed /\ GroupCount' = GroupCount /\ ArgsUpTo' = ArgsUpTo
  <2>1. WellFormed
    BY <1>0 DEF WellFormed, IsFile, IsFlag, IsOption
  <2> QED BY <1>0, <2>1 DEF GroupCount, ArgsUpTo
<1>2. ASSUME pc = "args", Arguments PROVE ArgsInv'
  <2>1. PICK k \in 0..GroupCount : i = ArgsUpTo[k] + 1 /\ HasRead(k)
    BY <1>1, <1>2 DEF ArgsInv
  <2>2. CASE InArgs
    <3>1. \/ pc' \in {"help", "rejected"}
          \/ pc' = "args" /\ k + 1 \in 0..GroupCount /\ i' = ArgsUpTo[k + 1] + 1 /\ HasRead(k + 1)'
      BY <1>1, <1>2, <2>1, <2>2, GroupStep
    <3>2. CASE pc' \in {"help", "rejected"}
      BY <3>2 DEF ArgsInv
    <3>3. CASE pc' = "args" /\ k + 1 \in 0..GroupCount /\ i' = ArgsUpTo[k + 1] + 1 /\ HasRead(k + 1)'
      <4>1. PICK n : n = k + 1
        OBVIOUS
      <4>2. n \in 0..GroupCount /\ i' = ArgsUpTo[n] + 1 /\ HasRead(n)'
        BY <3>3, <4>1
      <4>3. (\E l \in 0..GroupCount : i = ArgsUpTo[l] + 1 /\ HasRead(l))'
        BY <1>1, <4>2
      <4> QED BY <3>3, <4>3 DEF ArgsInv
    <3> QED BY <3>1, <3>2, <3>3
  <2>3. CASE TooFew
    <3>1. pc' = "help"
      BY <2>3 DEF TooFew, End
    <3> QED BY <3>1 DEF ArgsInv
  <2>4. CASE EndArgs
    <3>1. i > Len(argv) /\ pc' = "open" /\ cmd' = cmd /\ inputFileNames' = inputFileNames
      BY <2>4 DEF EndArgs
    <3>2. k = GroupCount
      <4> SUFFICES ASSUME k # GroupCount PROVE FALSE
        OBVIOUS
      <4>1. /\ GroupCount \in Nat /\ Len(argv) \in Nat
            /\ \A l \in 0..GroupCount : ArgsUpTo[l] \in Nat /\ ArgsUpTo[l] <= Len(argv)
        BY <1>0, ArgvIs
      <4>2. k + 1 \in 1..GroupCount /\ k + 1 \in 0..GroupCount /\ (k + 1) - 1 = k
        BY <4>1
      <4>3. ArgsUpTo[k + 1] = ArgsUpTo[k] + Len(input.groups[k + 1])
        BY <1>0, <4>2, ArgvIs
      <4>4. Len(input.groups[k + 1]) \in Nat /\ Len(input.groups[k + 1]) >= 1
        BY <1>0, <1>1, <4>2, GroupIs DEF GroupFacts
      <4>5. ArgsUpTo[k] \in Nat /\ ArgsUpTo[k + 1] <= Len(argv)
        BY <4>1, <4>2
      <4> QED BY <2>1, <3>1, <4>1, <4>3, <4>4, <4>5
    <3>3. HasRead(GroupCount)'
      <4>1. PICK n, d, gs : n = GroupCount /\ d = cmd /\ gs = inputFileNames
        OBVIOUS
      <4>2. SaidBy(d, gs, n)
        BY <2>1, <3>2, <4>1 DEF HasRead
      <4>3. HasRead(n)'
        BY <1>0, <3>1, <4>1, <4>2, SaidNow
      <4> QED BY <1>1, <4>1, <4>3
    <3> QED BY <3>1, <3>3 DEF ArgsInv
  <2> QED BY <1>2, <2>2, <2>3, <2>4 DEF Arguments, Help, ChoiceOption, NameOption, FactorOption,
             PopulateOption, BoundsOption, ComponentsOption, Flag, UnknownCommand, InputFile
<1>3. ASSUME ~Arguments PROVE ArgsInv'
  <2>1. /\ cmd' = cmd /\ inputFileNames' = inputFileNames
        /\ \/ pc' = pc /\ i' = i
           \/ pc \in {"open", "config", "writer", "range"} /\ pc' \notin {"args", "crashed"}
    BY <1>3 DEF Next, OpenFiles, ReadRecord, EndConfig, OpenWriter, EndStartup, Ended, vars, config
  <2>2. \A n : HasRead(n) => HasRead(n)'
    <3> SUFFICES ASSUME NEW n, HasRead(n) PROVE HasRead(n)'
      OBVIOUS
    <3>1. PICK d, gs : d = cmd /\ gs = inputFileNames
      OBVIOUS
    <3>2. SaidBy(d, gs, n)
      BY <3>1 DEF HasRead
    <3> QED BY <1>0, <2>1, <3>1, <3>2, SaidNow
  <2>3. HasRead(GroupCount) => HasRead(GroupCount)'
    <3> SUFFICES ASSUME HasRead(GroupCount) PROVE HasRead(GroupCount)'
      OBVIOUS
    <3>1. PICK n : n = GroupCount
      OBVIOUS
    <3>2. HasRead(n)'
      BY <2>2, <3>1
    <3> QED BY <1>1, <3>1, <3>2
  <2>4. CASE pc' = pc /\ i' = i
    BY <1>1, <2>2, <2>3, <2>4 DEF ArgsInv
  <2>5. CASE pc \in {"open", "config", "writer", "range"} /\ pc' \notin {"args", "crashed"}
    BY <1>1, <2>3, <2>5 DEF ArgsInv
  <2> QED BY <2>1, <2>4, <2>5
<1>4. Arguments => pc = "args"
  BY DEF Arguments, InArgs, TooFew, Help, ChoiceOption, NameOption, FactorOption, PopulateOption,
         BoundsOption, ComponentsOption, Flag, UnknownCommand, InputFile, EndArgs
<1> QED BY <1>2, <1>3, <1>4

LEMMA ArgsInvImplies == TypeInv /\ ArgsInv => OptionsMeanWhatTheySay
<1> SUFFICES ASSUME TypeInv, ArgsInv, WellFormed PROVE OptionsMeanWhatTheySay
  BY DEF OptionsMeanWhatTheySay
<1>1. pc # "crashed"
  BY DEF ArgsInv
<1>2. ASSUME pc \notin {"args", "help", "rejected"}
      PROVE  /\ \A o \in DOMAIN Valued :
                  cmd[Valued[o]] = IF Setting(o) = {} THEN Defaults[Valued[o]]
                                   ELSE Says(input.groups[Max(Setting(o))])
             /\ \A o \in DOMAIN Flags : cmd[Flags[o]] <=> Setting(o) # {}
             /\ Len(inputFileNames) = Cardinality(Files)
             /\ \A k \in Files :
                  inputFileNames[Cardinality({j \in Files : j <= k})] = input.groups[k][1]
  <2>1. SaidBy(cmd, inputFileNames, GroupCount)
    BY <1>2 DEF ArgsInv, HasRead
  <2>2. DOMAIN input.groups = 1..GroupCount /\ GroupCount \in Nat
    <3>1. input.groups \in Seq(Seq(STRING))
      BY StartupAssumption DEF TypeInv
    <3> QED BY <3>1 DEF GroupCount
  <2>3. ASSUME NEW o PROVE SettingIn(o, GroupCount) = Setting(o)
    <3>1. Setting(o) \subseteq 1..GroupCount
      BY <2>2 DEF Setting
    <3>2. \A j \in Setting(o) : j <= GroupCount
      BY <2>2, <3>1
    <3> QED BY <3>2 DEF SettingIn
  <2>4. FilesIn(GroupCount) = Files
    <3>1. Files \subseteq 1..GroupCount
      BY <2>2 DEF Files
    <3>2. \A j \in Files : j <= GroupCount
      BY <2>2, <3>1
    <3> QED BY <3>2 DEF FilesIn
  <2>5. ASSUME NEW o \in DOMAIN Valued
        PROVE  cmd[Valued[o]] = IF Setting(o) = {} THEN Defaults[Valued[o]]
                                ELSE Says(input.groups[Max(Setting(o))])
    <3> DEFINE S == Setting(o)
    <3>1. \/ S = {} /\ cmd[Valued[o]] = Defaults[Valued[o]]
          \/ \E j \in S : IsLast(j, S) /\ cmd[Valued[o]] = Says(input.groups[j])
      BY <2>1, <2>3 DEF SaidBy
    <3>2. S \subseteq 1..GroupCount
      BY <2>2 DEF Setting
    <3> HIDE DEF S
    <3>3. IsFiniteSet(S) /\ S \subseteq Int
      <4>1. IsFiniteSet(1..GroupCount) /\ 1..GroupCount \subseteq Int
        BY <2>2, IntervalFinite
      <4> QED BY <3>2, <4>1, FS_Subset
    <3>4. ASSUME NEW j \in S, IsLast(j, S) PROVE j = Max(S)
      <4>1. Max(S) \in S /\ j <= Max(S)
        BY <3>3, Extremes
      <4>2. Max(S) <= j
        BY <3>4, <4>1 DEF IsLast
      <4>3. j \in Int /\ Max(S) \in Int
        BY <3>3, <4>1
      <4> QED BY <4>1, <4>2, <4>3
    <3>5. cmd[Valued[o]] = IF S = {} THEN Defaults[Valued[o]] ELSE Says(input.groups[Max(S)])
      BY <3>1, <3>4
    <3> QED BY <3>5 DEF S
  <2>6. \A o \in DOMAIN Flags : cmd[Flags[o]] <=> Setting(o) # {}
    <3> SUFFICES ASSUME NEW o \in DOMAIN Flags PROVE cmd[Flags[o]] <=> Setting(o) # {}
      OBVIOUS
    <3>1. cmd[Flags[o]] = (Setting(o) # {})
      BY <2>1, <2>3 DEF SaidBy
    <3> QED BY <3>1
  <2>7. Len(inputFileNames) = Cardinality(Files)
    BY <2>1, <2>4 DEF SaidBy
  <2>8. \A k \in Files : inputFileNames[Cardinality({j \in Files : j <= k})] = input.groups[k][1]
    BY <2>1, <2>4 DEF SaidBy, FilesIn
  <2> QED BY <2>5, <2>6, <2>7, <2>8
<1> QED BY <1>1, <1>2 DEF OptionsMeanWhatTheySay

(* Whatever options with their values, flags and files somebody puts into  *)
(* a command line, in whatever order and with whatever words as values,    *)
(* the loop of main() over argv takes each for what it is.                 *)
THEOREM OptionsAreTakenAsMeant == Spec => []OptionsMeanWhatTheySay
<1>1. Init => TypeInv /\ ArgsInv
  BY TypeInit, ArgsInit
<1>2. TypeInv /\ ArgsInv /\ [Next]_vars => (TypeInv /\ ArgsInv)'
  BY NextType, ArgsStep
<1> QED BY <1>1, <1>2, ArgsInvImplies, PTL DEF Spec

-----------------------------------------------------------------------------
(* The threshold of -cc.                                                   *)

LEMMA ThresholdInit == Init => ThresholdIsTheFilters
<1>1. Defaults.mode = NoValue /\ NoValue \notin {"TopK", "MinSize"}
  BY DEF Defaults, NoValue
<1> QED BY <1>1 DEF Init, ThresholdIsTheFilters

\* What sets neither the mode nor the threshold leaves them to each other.
LEMMA OthersKeepThreshold ==
  ASSUME TypeInv, [Next]_vars, ThresholdIsTheFilters,
         cmd'.mode = cmd.mode, cmd'.threshold = cmd.threshold
  PROVE  ThresholdIsTheFilters'
<1>1. argv' = argv
  BY Kept
<1> QED BY <1>1 DEF ThresholdIsTheFilters

LEMMA FieldKeepsThreshold ==
  ASSUME TypeInv, [Next]_vars, ThresholdIsTheFilters,
         NEW f, NEW x, f \notin {"mode", "threshold"}, cmd' = [cmd EXCEPT ![f] = x]
  PROVE  ThresholdIsTheFilters'
<1>1. {"mode", "threshold"} \subseteq DOMAIN cmd
  BY DEF TypeInv, CmdOK, Defaults
<1>2. PICK d : d = [cmd EXCEPT ![f] = x]
  OBVIOUS
<1>3. d.mode = cmd.mode /\ d.threshold = cmd.threshold
  BY <1>1, <1>2
<1> QED BY <1>2, <1>3, OthersKeepThreshold

LEMMA ThresholdStep ==
  TypeInv /\ ThresholdIsTheFilters /\ [Next]_vars => ThresholdIsTheFilters'
<1> SUFFICES ASSUME TypeInv, ThresholdIsTheFilters, [Next]_vars PROVE ThresholdIsTheFilters'
  OBVIOUS
<1>1. ASSUME cmd' = cmd PROVE ThresholdIsTheFilters'
  BY <1>1, OthersKeepThreshold
<1>2. ASSUME NEW how, End(how) PROVE ThresholdIsTheFilters'
  BY <1>1, <1>2 DEF End
<1>3. ASSUME NEW f, NEW x, f \notin {"mode", "threshold"}, SetTo(f, x)
      PROVE  ThresholdIsTheFilters'
  BY <1>3, FieldKeepsThreshold DEF SetTo
<1>4. CASE ChoiceOption
  <2>1. Valued[arg] \notin {"mode", "threshold"}
    BY <1>4, ValuedIs DEF ChoiceOption
  <2> QED BY <1>2, <1>3, <1>4, <2>1 DEF ChoiceOption
<1>5. CASE NameOption
  <2>1. Valued[arg] \notin {"mode", "threshold"}
    BY <1>5, ValuedIs DEF NameOption
  <2> QED BY <1>3, <1>5, <2>1 DEF NameOption
<1>6. CASE FactorOption
  <2>1. Valued[arg] \notin {"mode", "threshold"}
    BY <1>6, ValuedIs DEF FactorOption
  <2> QED BY <1>3, <1>6, <2>1 DEF FactorOption
<1>7. CASE PopulateOption
  BY <1>2, <1>3, <1>7 DEF PopulateOption
<1>8. CASE BoundsOption
  BY <1>2, <1>3, <1>8 DEF BoundsOption
<1>9. CASE ComponentsOption
  <2>1. CASE value \notin DOMAIN ModeWords
    BY <1>2, <1>9, <2>1 DEF ComponentsOption
  <2>2. CASE value \in DOMAIN ModeWords /\ value = "all"
    <3>1. cmd' = [cmd EXCEPT !["mode"] = "All"]
      BY <1>9, <2>2 DEF ComponentsOption, SetTo
    <3>2. PICK d : d = [cmd EXCEPT !["mode"] = "All"]
      OBVIOUS
    <3>3. d.mode = "All"
      BY <3>2 DEF TypeInv, CmdOK, Defaults
    <3> QED BY <3>1, <3>2, <3>3 DEF ThresholdIsTheFilters
  <2>3. CASE value \in DOMAIN ModeWords /\ value # "all" /\ ~ThresholdAt(i + 2)
    BY <1>2, <1>9, <2>3 DEF ComponentsOption
  <2>4. CASE value \in DOMAIN ModeWords /\ value # "all" /\ ThresholdAt(i + 2)
    <3> DEFINE x == ModeWords[value]
               y == Unsigned(Numbers[argv[i + 2]])
    <3>1. cmd' = [cmd EXCEPT !["mode"] = x, !["threshold"] = y]
      BY <1>9, <2>4 DEF ComponentsOption
    <3>2. PICK d, k : d = [cmd EXCEPT !["mode"] = x, !["threshold"] = y] /\ k = i
      OBVIOUS
    <3>3. d.mode = x /\ d.threshold = y
      <4> HIDE DEF x, y
      <4> QED BY <3>2 DEF TypeInv, CmdOK, Defaults
    <3>4. k \in 1..(Len(argv) - 2)
      <4>1. i \in Nat \ {0} /\ Len(argv) \in Nat /\ i + 2 <= Len(argv)
        BY <2>4, Kept DEF TypeInv, ThresholdAt
      <4> QED BY <3>2, <4>1
    <3>5. /\ argv[k] = "-cc" /\ argv[k + 1] \in DOMAIN ModeWords
          /\ argv[k + 2] \in DOMAIN Numbers
          /\ d.mode = ModeWords[argv[k + 1]]
          /\ d.threshold = Unsigned(Numbers[argv[k + 2]])
      BY <1>9, <2>4, <3>2, <3>3 DEF ComponentsOption, ThresholdAt, arg, value
    <3> HIDE DEF x, y
    <3>6. cmd' = d /\ argv' = argv
      BY <3>1, <3>2, Kept
    <3> QED BY <3>4, <3>5, <3>6 DEF ThresholdIsTheFilters
  <2> QED BY <2>1, <2>2, <2>3, <2>4
<1>10. CASE Flag
  <2>1. Flags[arg] \notin {"mode", "threshold"}
    BY <1>10, FlagsAre DEF Flag
  <2> QED BY <1>10, <2>1, FieldKeepsThreshold DEF Flag
<1>11. CASE TooFew \/ Help \/ UnknownCommand
  BY <1>2, <1>11 DEF TooFew, Help, UnknownCommand
<1>12. CASE InputFile \/ EndArgs \/ OpenFiles \/ ReadRecord \/ EndConfig \/ OpenWriter \/ EndStartup
  <2>1. cmd' = cmd
    BY <1>12 DEF InputFile, EndArgs, OpenFiles, ReadRecord, EndConfig, OpenWriter, EndStartup
  <2> QED BY <1>1, <2>1
<1>13. CASE Ended \/ UNCHANGED vars
  <2>1. cmd' = cmd
    BY <1>13 DEF Ended, vars
  <2> QED BY <1>1, <2>1
<1> QED BY <1>4, <1>5, <1>6, <1>7, <1>8, <1>9, <1>10, <1>11, <1>12, <1>13 DEF Next, Arguments

(* However malformed the command line is, a filter that needs a threshold  *)
(* gets the one that was given with it (main.cpp:119-141).                 *)
THEOREM ThresholdsAreGiven == Spec => []ThresholdIsTheFilters
<1>1. Init => TypeInv /\ ThresholdIsTheFilters
  BY TypeInit, ThresholdInit
<1>2. TypeInv /\ ThresholdIsTheFilters /\ [Next]_vars => (TypeInv /\ ThresholdIsTheFilters)'
  BY NextType, ThresholdStep
<1> QED BY <1>1, <1>2, PTL DEF Spec

=============================================================================
