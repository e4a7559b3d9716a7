-------------------------- MODULE SelectionTheorems --------------------------
(* What Selected yields, and what selecting does to a sequence which grows or   *)
(* shrinks.                                                                     *)
EXTENDS Selections, SequencesExt, SequenceTheorems, FiniteSetTheorems, FunctionTheorems, TLAPS

\* A sequence enumerating a finite set without repetition enumerates all of it.
LEMMA AllEnumerated ==
  ASSUME NEW S, IsFiniteSet(S), NEW f \in [1 .. Cardinality(S) -> S],
         \A i, j \in 1 .. Cardinality(S) : i # j => f[i] # f[j]
  PROVE  \A x \in S : \E i \in 1 .. Cardinality(S) : f[i] = x
<1>1. Cardinality(S) \in Nat
  BY FS_CardinalityType
<1>2. Cardinality(1 .. Cardinality(S)) = Cardinality(S)
  BY <1>1, FS_Interval
<1>3. f \in Injection(1 .. Cardinality(S), S)
  BY DEF Injection, IsInjective
<1>4. f \in Surjection(1 .. Cardinality(S), S)
  BY <1>2, <1>3, FS_Injection
<1> QED
  BY <1>4 DEF Surjection

\* A finite set as a sequence.
LEMMA SetToSeqProperties ==
  ASSUME NEW S, IsFiniteSet(S)
  PROVE  /\ Cardinality(S) \in Nat
         /\ SetToSeq(S) \in [1 .. Cardinality(S) -> S]
         /\ SetToSeq(S) \in Seq(S) /\ Len(SetToSeq(S)) = Cardinality(S)
         /\ \A i, j \in 1 .. Cardinality(S) : i # j => SetToSeq(S)[i] # SetToSeq(S)[j]
         /\ \A x \in S : \E i \in 1 .. Cardinality(S) : SetToSeq(S)[i] = x
<1>1. Cardinality(S) \in Nat /\ ExistsBijection(1 .. Cardinality(S), S)
  BY FS_CardinalityType
<1>2. \E f \in [1 .. Cardinality(S) -> S] : IsInjective(f)
  BY <1>1 DEF ExistsBijection, Bijection, Injection
<1>3. SetToSeq(S) \in [1 .. Cardinality(S) -> S] /\ IsInjective(SetToSeq(S))
  BY <1>2 DEF SetToSeq
<1>4. \A i, j \in 1 .. Cardinality(S) : i # j => SetToSeq(S)[i] # SetToSeq(S)[j]
  BY <1>3 DEF IsInjective
<1> DEFINE s == SetToSeq(S)
           m == Cardinality(S)
<1>5. s \in [1 .. m -> S] /\ m \in Nat
  BY <1>1, <1>3
<1> HIDE DEF s, m
<1>6. s \in Seq(S) /\ Len(s) = m
  BY <1>5, SeqDef, LenProperties
<1> QED
  BY <1>1, <1>3, <1>4, <1>6, AllEnumerated DEF s, m

\* The number of positions of I before i.
Rank(I, i) == Cardinality({j \in I : j < i})

LEMMA RankProperties ==
  ASSUME NEW n \in Nat, NEW I \in SUBSET (1 .. n)
  PROVE  /\ IsFiniteSet(I) /\ Cardinality(I) \in Nat
         /\ \A i \in I : Rank(I, i) \in 0 .. Cardinality(I) - 1
         /\ \A i, j \in I : i < j => Rank(I, i) < Rank(I, j)
<1>1. IsFiniteSet(1 .. n)
  BY FS_Interval
<1>2. IsFiniteSet(I)
  BY <1>1, FS_Subset
<1>3. Cardinality(I) \in Nat
  BY <1>2, FS_CardinalityType
<1>4. ASSUME NEW T \in SUBSET I, NEW U \in SUBSET I, NEW x \in U, x \notin T, T \subseteq U
      PROVE  Cardinality(T) \in Nat /\ Cardinality(U) \in Nat /\ Cardinality(T) < Cardinality(U)
  <2>1. IsFiniteSet(T) /\ IsFiniteSet(U)
    BY <1>2, FS_Subset
  <2>2. Cardinality(T) \in Nat /\ Cardinality(U) \in Nat
    BY <2>1, FS_CardinalityType
  <2>3. Cardinality(T) <= Cardinality(U) /\ Cardinality(T) # Cardinality(U)
    BY <1>4, <2>1, FS_Subset
  <2> QED
    BY <2>2, <2>3
<1>5. ASSUME NEW i \in I PROVE Rank(I, i) \in 0 .. Cardinality(I) - 1
  <2>1. {j \in I : j < i} \in SUBSET I /\ I \in SUBSET I /\ i \in I /\ i \in Nat
    OBVIOUS
  <2>2. i \notin {j \in I : j < i}
    BY <2>1
  <2>3. Cardinality({j \in I : j < i}) \in Nat /\ Cardinality({j \in I : j < i}) < Cardinality(I)
    BY <1>4, <2>1, <2>2
  <2> QED
    BY <1>3, <2>3 DEF Rank
<1>6. ASSUME NEW i \in I, NEW j \in I, i < j PROVE Rank(I, i) < Rank(I, j)
  <2>1. i \in Nat /\ j \in Nat /\ \A k \in I : k \in Nat
    OBVIOUS
  <2>2. /\ {k \in I : k < i} \subseteq {k \in I : k < j} /\ i \in {k \in I : k < j}
        /\ i \notin {k \in I : k < i}
    <3>1. \A k \in I : k < i => k < j
      BY <1>6, <2>1
    <3>2. ~(i < i)
      BY <2>1
    <3> QED
      BY <1>6, <3>1, <3>2
  <2>3. {k \in I : k < i} \in SUBSET I /\ {k \in I : k < j} \in SUBSET I
    OBVIOUS
  <2> QED
    BY <1>4, <2>2, <2>3 DEF Rank
<1> QED
  BY <1>2, <1>3, <1>5, <1>6

\* Positions(I) lists the positions of I in increasing order.
LEMMA PositionsProperties ==
  ASSUME NEW n \in Nat, NEW I \in SUBSET (1 .. n)
  PROVE  /\ Cardinality(I) \in Nat
         /\ Positions(I) \in [1 .. Cardinality(I) -> I]
         /\ \A k, l \in 1 .. Cardinality(I) : k < l => Positions(I)[k] < Positions(I)[l]
         /\ \A i \in I : \E k \in 1 .. Cardinality(I) : Positions(I)[k] = i
<1> DEFINE m == Cardinality(I)
           rank == [i \in I |-> Rank(I, i)]
<1>1. /\ IsFiniteSet(I) /\ m \in Nat
      /\ \A i \in I : Rank(I, i) \in 0 .. m - 1
      /\ \A i, j \in I : i < j => Rank(I, i) < Rank(I, j)
  BY RankProperties
<1>2. \A i \in I : i \in Nat
  OBVIOUS
<1> HIDE DEF m
<1>3. \A i, j \in I : i # j => Rank(I, i) # Rank(I, j)
  <2> SUFFICES ASSUME NEW i \in I, NEW j \in I, i # j PROVE Rank(I, i) # Rank(I, j)
    OBVIOUS
  <2>1. i < j \/ j < i
    BY <1>2
  <2>2. Rank(I, i) \in Nat /\ Rank(I, j) \in Nat
    BY <1>1
  <2> QED
    BY <1>1, <2>1, <2>2
<1>4. rank \in Injection(I, 0 .. m - 1)
  BY <1>1, <1>3 DEF Injection, IsInjective
<1>5. IsFiniteSet(0 .. m - 1) /\ Cardinality(0 .. m - 1) = m
  <2>1. 0 \in Int /\ m - 1 \in Int
    BY <1>1
  <2>2. IsFiniteSet(0 .. m - 1) /\ Cardinality(0 .. m - 1) = IF 0 > m - 1 THEN 0 ELSE (m - 1) - 0 + 1
    BY <2>1, FS_Interval
  <2> QED
    BY <1>1, <2>2
<1>6. rank \in Surjection(I, 0 .. m - 1)
  BY <1>4, <1>5, FS_Injection DEF m
<1>7. \A k \in 1 .. m : \E i \in I : Rank(I, i) = k - 1
  <2>1. \A k \in 1 .. m : k - 1 \in 0 .. m - 1
    BY <1>1
  <2> QED
    BY <1>6, <2>1 DEF Surjection
<1>8. Positions(I) = [k \in 1 .. m |-> CHOOSE i \in I : Rank(I, i) = k - 1]
  BY Zenon DEF Positions, Rank, m
<1>9. \A k \in 1 .. m : Positions(I)[k] \in I /\ Rank(I, Positions(I)[k]) = k - 1
  BY <1>7, <1>8
<1>10. ASSUME NEW k \in 1 .. m, NEW l \in 1 .. m, k < l PROVE Positions(I)[k] < Positions(I)[l]
  <2> DEFINE a == Positions(I)[k]
             b == Positions(I)[l]
  <2>1. a \in I /\ b \in I /\ Rank(I, a) = k - 1 /\ Rank(I, b) = l - 1 /\ k - 1 < l - 1
    BY <1>9, <1>10
  <2>2. a # b /\ ~(b < a)
    <3>1. k \in Nat /\ l \in Nat
      BY <1>1
    <3>2. k - 1 # l - 1 /\ ~(l - 1 < k - 1)
      BY <1>10, <3>1
    <3>3. a = b => k - 1 = l - 1
      BY <2>1
    <3>4. b < a => l - 1 < k - 1
      BY <1>1, <2>1
    <3> QED
      BY <3>2, <3>3, <3>4
  <2> HIDE DEF a, b
  <2>3. a < b
    BY <1>2, <2>1, <2>2
  <2> QED
    BY <2>3 DEF a, b
<1>11. ASSUME NEW i \in I PROVE \E k \in 1 .. m : Positions(I)[k] = i
  <2>1. Rank(I, i) + 1 \in 1 .. m /\ (Rank(I, i) + 1) - 1 = Rank(I, i)
    BY <1>1
  <2>2. Positions(I)[Rank(I, i) + 1] = i
    BY <1>3, <1>9, <2>1
  <2> QED
    BY <2>1, <2>2
<1> QED
  BY <1>1, <1>8, <1>9, <1>10, <1>11 DEF m

\* It is the only such list.
LEMMA PositionsUnique ==
  ASSUME NEW n \in Nat, NEW I \in SUBSET (1 .. n), NEW m \in Nat, NEW h \in [1 .. m -> I],
         \A k, l \in 1 .. m : k < l => h[k] < h[l],
         \A i \in I : \E k \in 1 .. m : h[k] = i
  PROVE  Positions(I) = h /\ Cardinality(I) = m
<1>0. \A i \in I : i \in Nat
  OBVIOUS
<1>1. \A k, l \in 1 .. m : h[k] < h[l] => k < l
  <2> SUFFICES ASSUME NEW k \in 1 .. m, NEW l \in 1 .. m, h[k] < h[l], ~(k < l) PROVE FALSE
    OBVIOUS
  <2>1. h[k] \in I /\ h[l] \in I
    OBVIOUS
  <2>2. h[k] \in Nat /\ h[l] \in Nat
    BY <1>0, <2>1
  <2>3. l < k \/ l = k
    OBVIOUS
  <2>4. h[l] < h[k] \/ h[l] = h[k]
    BY <2>3
  <2> QED
    BY <2>2, <2>4
<1>2. \A k, l \in 1 .. m : h[k] = h[l] => k = l
  <2> SUFFICES ASSUME NEW k \in 1 .. m, NEW l \in 1 .. m, h[k] = h[l], k # l PROVE FALSE
    OBVIOUS
  <2>1. h[k] \in I /\ h[l] \in I
    OBVIOUS
  <2>2. h[k] \in Nat /\ h[l] \in Nat
    BY <1>0, <2>1
  <2>3. l < k \/ k < l
    OBVIOUS
  <2>4. h[l] < h[k] \/ h[k] < h[l]
    BY <2>3
  <2> QED
    BY <2>2, <2>4
<1>3. ASSUME NEW k \in 0 .. m, NEW T, T = {h[l] : l \in 1 .. k}
      PROVE  Cardinality(T) = k
  <2> DEFINE g == [l \in 1 .. k |-> h[l]]
  <2>1. 1 .. k \subseteq 1 .. m /\ k \in Nat
    OBVIOUS
  <2>2. g \in Injection(1 .. k, T)
    BY <1>2, <1>3, <2>1 DEF Injection, IsInjective
  <2>3. g \in Surjection(1 .. k, T)
    BY <1>3, <2>1 DEF Surjection
  <2>4. ExistsBijection(1 .. k, T)
    BY <2>2, <2>3 DEF Bijection, ExistsBijection
  <2> QED
    BY <2>1, <2>4, FS_CountingElements
<1>4. Cardinality(I) = m
  <2>1. I = {h[l] : l \in 1 .. m}
    OBVIOUS
  <2>2. m \in 0 .. m
    OBVIOUS
  <2> QED
    BY <1>3, <2>1, <2>2
<1>5. ASSUME NEW k \in 1 .. m PROVE Rank(I, h[k]) = k - 1
  <2>1. {j \in I : j < h[k]} = {h[l] : l \in 1 .. k - 1}
    <3>1. ASSUME NEW j \in I, j < h[k] PROVE \E l \in 1 .. k - 1 : h[l] = j
      <4>1. PICK l \in 1 .. m : h[l] = j
        OBVIOUS
      <4>2. l < k
        BY <1>1, <3>1, <4>1
      <4> QED
        BY <4>1, <4>2
    <3>2. ASSUME NEW l \in 1 .. k - 1 PROVE h[l] \in I /\ h[l] < h[k]
      <4>1. l \in 1 .. m /\ l < k
        OBVIOUS
      <4> QED
        BY <4>1
    <3> QED
      BY <3>1, <3>2
  <2>2. k - 1 \in 0 .. m
    OBVIOUS
  <2> QED
    BY <1>3, <2>1, <2>2 DEF Rank
<1>6. ASSUME NEW k \in 1 .. m PROVE Positions(I)[k] = h[k]
  <2>1. Positions(I)[k] = CHOOSE i \in I : Rank(I, i) = k - 1
    BY <1>4 DEF Positions, Rank
  <2>2. h[k] \in I /\ Rank(I, h[k]) = k - 1
    BY <1>5
  <2>3. \A i \in I : Rank(I, i) = k - 1 => i = h[k]
    <3> SUFFICES ASSUME NEW i \in I, Rank(I, i) = k - 1 PROVE i = h[k]
      OBVIOUS
    <3>1. PICK l \in 1 .. m : h[l] = i
      OBVIOUS
    <3>2. l - 1 = k - 1
      BY <1>5, <3>1
    <3> QED
      BY <3>1, <3>2
  <2> QED
    BY <2>1, <2>2, <2>3
<1>7. Positions(I) \in [1 .. m -> I]
  BY <1>4, PositionsProperties
<1> QED
  BY <1>4, <1>6, <1>7

------------------------------------------------------------------------------
(* Selected.                                                                   *)

LEMMA SelectedProperties ==
  ASSUME NEW S, NEW q \in Seq(S), NEW I \in SUBSET DOMAIN q
  PROVE  /\ Selected(q, I) \in Seq(S) /\ Cardinality(I) \in Nat
         /\ DOMAIN Selected(q, I) = 1 .. Cardinality(I) /\ Len(Selected(q, I)) = Cardinality(I)
         /\ \A k \in 1 .. Cardinality(I) :
              Positions(I)[k] \in I /\ Selected(q, I)[k] = q[Positions(I)[k]]
         /\ \A k, l \in 1 .. Cardinality(I) : k < l => Positions(I)[k] < Positions(I)[l]
         /\ \A i \in I : \E k \in 1 .. Cardinality(I) : Positions(I)[k] = i
<1>1. Len(q) \in Nat /\ DOMAIN q = 1 .. Len(q) /\ \A i \in 1 .. Len(q) : q[i] \in S
  OBVIOUS
<1>2. /\ Cardinality(I) \in Nat
      /\ Positions(I) \in [1 .. Cardinality(I) -> I]
      /\ \A k, l \in 1 .. Cardinality(I) : k < l => Positions(I)[k] < Positions(I)[l]
      /\ \A i \in I : \E k \in 1 .. Cardinality(I) : Positions(I)[k] = i
  BY <1>1, PositionsProperties
<1>3. Selected(q, I) = [k \in 1 .. Cardinality(I) |-> q[Positions(I)[k]]]
  BY <1>2 DEF Selected
<1>4. \A k \in 1 .. Cardinality(I) : q[Positions(I)[k]] \in S
  BY <1>1, <1>2
<1>5. Selected(q, I) \in [1 .. Cardinality(I) -> S]
  BY <1>3, <1>4
<1>6. Selected(q, I) \in Seq(S)
  <2> DEFINE s == Selected(q, I)
             m == Cardinality(I)
  <2>1. s \in [1 .. m -> S] /\ m \in Nat
    BY <1>2, <1>5
  <2> HIDE DEF s, m
  <2>2. s \in Seq(S)
    BY <2>1, SeqDef
  <2> QED
    BY <2>2 DEF s
<1>7. Len(Selected(q, I)) = Cardinality(I)
  <2> DEFINE s == Selected(q, I)
             m == Cardinality(I)
  <2>1. s \in Seq(S) /\ m \in Nat /\ DOMAIN s = 1 .. m
    BY <1>2, <1>3, <1>6
  <2> HIDE DEF s, m
  <2>2. Len(s) = m
    BY <2>1, LenProperties
  <2> QED
    BY <2>2 DEF s, m
<1> QED
  BY <1>2, <1>3, <1>6, <1>7

LEMMA SelectedNone ==
  ASSUME NEW S, NEW q \in Seq(S)
  PROVE  Selected(q, {}) = <<>>
<1>1. Selected(q, {}) \in Seq(S) /\ Len(Selected(q, {})) = Cardinality({})
  BY SelectedProperties
<1>2. Cardinality({}) = 0
  BY FS_EmptySet
<1> QED
  BY <1>1, <1>2, EmptySeq

LEMMA SelectedOne ==
  ASSUME NEW S, NEW x \in S
  PROVE  Selected(<<x>>, {1}) = <<x>>
<1> DEFINE q == <<x>>
           I == {1}
<1>1. q \in Seq(S) /\ I \in SUBSET DOMAIN q /\ q[1] = x
  OBVIOUS
<1>2. Cardinality(I) = 1 /\ \A i \in I : i = 1
  BY FS_Singleton
<1> HIDE DEF q, I
<1>3. /\ Selected(q, I) \in Seq(S) /\ Len(Selected(q, I)) = Cardinality(I)
      /\ \A k \in 1 .. Cardinality(I) :
           Positions(I)[k] \in I /\ Selected(q, I)[k] = q[Positions(I)[k]]
  BY <1>1, SelectedProperties
<1>4. Len(Selected(q, I)) = 1 /\ Selected(q, I)[1] = x
  BY <1>1, <1>2, <1>3
<1> DEFINE s == Selected(q, I)
<1>5. s \in Seq(S) /\ Len(s) = 1 /\ s[1] = x
  BY <1>3, <1>4
<1> HIDE DEF s
<1>6. s = <<x>>
  BY <1>5
<1> QED
  BY <1>6 DEF s, q, I

\* The positions of the elements of a set.
Holding(q, P) == {i \in DOMAIN q : q[i] \in P}

\* Selecting in a concatenation.
LEMMA SelectedConcat ==
  ASSUME NEW S, NEW P, NEW q \in Seq(S), NEW r \in Seq(S)
  PROVE  Selected(q \o r, Holding(q \o r, P)) = Selected(q, Holding(q, P)) \o Selected(r, Holding(r, P))
<1> DEFINE I == Holding(q, P)
           J == Holding(r, P)
           K == Holding(q \o r, P)
           m == Cardinality(I)
           n == Cardinality(J)
           h == [k \in 1 .. m + n |-> IF k <= m THEN Positions(I)[k]
                                                ELSE Len(q) + Positions(J)[k - m]]
<1>1. /\ Len(q) \in Nat /\ DOMAIN q = 1 .. Len(q) /\ Len(r) \in Nat /\ DOMAIN r = 1 .. Len(r)
      /\ q \o r \in Seq(S) /\ DOMAIN (q \o r) = 1 .. Len(q) + Len(r)
      /\ \A i \in 1 .. Len(q) : (q \o r)[i] = q[i]
      /\ \A i \in 1 .. Len(r) : (q \o r)[Len(q) + i] = r[i]
  OBVIOUS
<1>a. I \in SUBSET DOMAIN q /\ J \in SUBSET DOMAIN r /\ K \in SUBSET DOMAIN (q \o r)
  BY DEF Holding
<1>b. \A i \in DOMAIN q : i \in K <=> i \in I
  BY <1>1 DEF Holding
<1>c. \A j \in DOMAIN r : Len(q) + j \in K <=> j \in J
  <2>1. \A j \in DOMAIN r : Len(q) + j \in DOMAIN (q \o r) /\ (q \o r)[Len(q) + j] = r[j]
    BY <1>1
  <2> QED
    BY <2>1 DEF Holding
<1> HIDE DEF I, J, K
<1>2. /\ Selected(q, I) \in Seq(S) /\ m \in Nat /\ Len(Selected(q, I)) = m
      /\ \A k \in 1 .. m : Positions(I)[k] \in I /\ Selected(q, I)[k] = q[Positions(I)[k]]
      /\ \A k, l \in 1 .. m : k < l => Positions(I)[k] < Positions(I)[l]
      /\ \A i \in I : \E k \in 1 .. m : Positions(I)[k] = i
  BY <1>a, SelectedProperties
<1>3. /\ Selected(r, J) \in Seq(S) /\ n \in Nat /\ Len(Selected(r, J)) = n
      /\ \A k \in 1 .. n : Positions(J)[k] \in J /\ Selected(r, J)[k] = r[Positions(J)[k]]
      /\ \A k, l \in 1 .. n : k < l => Positions(J)[k] < Positions(J)[l]
      /\ \A i \in J : \E k \in 1 .. n : Positions(J)[k] = i
  BY <1>a, SelectedProperties
<1> HIDE DEF m, n
<1>4. I \subseteq 1 .. Len(q) /\ J \subseteq 1 .. Len(r)
  BY <1>1, <1>a
<1>5. K \in SUBSET DOMAIN (q \o r)
  BY <1>a
<1>6. \A k \in 1 .. m + n : k > m => k - m \in 1 .. n
  BY <1>2, <1>3
<1>7. ASSUME NEW k \in 1 .. m + n PROVE h[k] \in K
  <2>1. CASE k <= m
    <3>1. Positions(I)[k] \in I
      BY <1>2, <1>3, <2>1
    <3>2. Positions(I)[k] \in K
      BY <1>a, <1>b, <3>1
    <3> QED
      BY <2>1, <3>2
  <2>2. CASE ~(k <= m)
    <3>1. Positions(J)[k - m] \in J
      BY <1>2, <1>3, <1>6, <2>2
    <3>2. Len(q) + Positions(J)[k - m] \in K
      BY <1>a, <1>c, <3>1
    <3> QED
      BY <2>2, <3>2
  <2> QED
    BY <2>1, <2>2
<1>8. ASSUME NEW k \in 1 .. m + n, NEW l \in 1 .. m + n, k < l PROVE h[k] < h[l]
  <2>0. k \in Int /\ l \in Int /\ m \in Nat
    BY <1>2, <1>3
  <2>1. CASE l <= m
    <3>1. k \in 1 .. m /\ l \in 1 .. m
      BY <1>2, <1>3, <1>8, <2>1
    <3> QED
      BY <1>2, <1>8, <2>1, <3>1
  <2>2. CASE k <= m /\ l > m
    <3>1. k \in 1 .. m /\ l - m \in 1 .. n
      BY <1>2, <1>3, <1>6, <2>2
    <3>2. Positions(I)[k] \in 1 .. Len(q) /\ Positions(J)[l - m] \in 1 .. Len(r)
      BY <1>2, <1>3, <1>4, <3>1
    <3>3. h[k] = Positions(I)[k] /\ h[l] = Len(q) + Positions(J)[l - m]
      BY <1>2, <2>2
    <3> QED
      BY <1>1, <3>2, <3>3
  <2>3. CASE k > m
    <3>1. k - m \in 1 .. n /\ l - m \in 1 .. n /\ k - m < l - m
      BY <1>2, <1>3, <1>6, <1>8, <2>3
    <3>2. Positions(J)[k - m] < Positions(J)[l - m]
      BY <1>3, <3>1
    <3>3. Positions(J)[k - m] \in 1 .. Len(r) /\ Positions(J)[l - m] \in 1 .. Len(r)
      BY <1>3, <1>4, <3>1
    <3>4. h[k] = Len(q) + Positions(J)[k - m] /\ h[l] = Len(q) + Positions(J)[l - m]
      BY <1>2, <1>8, <2>0, <2>3
    <3> QED
      BY <1>1, <3>2, <3>3, <3>4
  <2> QED
    BY <2>0, <2>1, <2>2, <2>3
<1>9. ASSUME NEW i \in K PROVE \E k \in 1 .. m + n : h[k] = i
  <2>1. CASE i \in I
    <3>1. PICK k \in 1 .. m : Positions(I)[k] = i
      BY <1>2, <2>1
    <3>2. k \in 1 .. m + n /\ k <= m
      BY <1>2, <1>3
    <3> QED
      BY <3>1, <3>2
  <2>2. CASE i \notin I
    <3>1. PICK j \in J : i = Len(q) + j
      <4>1. i \in 1 .. Len(q) + Len(r) /\ i \notin 1 .. Len(q)
        BY <1>1, <1>a, <1>b, <2>2
      <4>2. i - Len(q) \in 1 .. Len(r) /\ Len(q) + (i - Len(q)) = i
        BY <1>1, <4>1
      <4> QED
        BY <1>1, <1>c, <4>2
    <3>2. PICK k \in 1 .. n : Positions(J)[k] = j
      BY <1>3
    <3>3. m + k \in 1 .. m + n /\ ~(m + k <= m) /\ (m + k) - m = k
      BY <1>2, <1>3
    <3>4. h[m + k] = Len(q) + Positions(J)[k]
      BY <3>3
    <3> QED
      BY <3>1, <3>2, <3>3, <3>4
  <2> QED
    BY <2>1, <2>2
<1>10. h \in [1 .. m + n -> K]
  BY <1>7
<1>11. m + n \in Nat
  BY <1>2, <1>3
<1>12. \A k \in 1 .. m + n : h[k] = IF k <= m THEN Positions(I)[k]
                                                 ELSE Len(q) + Positions(J)[k - m]
  OBVIOUS
<1> HIDE DEF h
<1>13. /\ Selected(q \o r, K) \in Seq(S) /\ Len(Selected(q \o r, K)) = m + n
       /\ \A k \in 1 .. m + n : Selected(q \o r, K)[k] = (q \o r)[h[k]]
  <2> DEFINE s == q \o r
  <2>1. s \in Seq(S) /\ K \in SUBSET DOMAIN s
    BY <1>1, <1>5
  <2> HIDE DEF s
  <2>2. Positions(K) = h /\ Cardinality(K) = m + n
    <3> DEFINE N == Len(q) + Len(r)
               M == m + n
    <3>1. N \in Nat /\ K \in SUBSET (1 .. N) /\ M \in Nat /\ h \in [1 .. M -> K]
      BY <1>1, <1>5, <1>10, <1>11
    <3>2. \A k, l \in 1 .. M : k < l => h[k] < h[l]
      BY <1>8
    <3>3. \A i \in K : \E k \in 1 .. M : h[k] = i
      BY <1>9
    <3> HIDE DEF N, M
    <3>4. Positions(K) = h /\ Cardinality(K) = M
      BY <3>1, <3>2, <3>3, PositionsUnique
    <3> QED
      BY <3>4 DEF M
  <2>3. /\ Selected(s, K) \in Seq(S) /\ Len(Selected(s, K)) = Cardinality(K)
        /\ \A k \in 1 .. Cardinality(K) : Selected(s, K)[k] = s[Positions(K)[k]]
    BY <2>1, SelectedProperties
  <2> QED
    BY <2>2, <2>3 DEF s
<1> DEFINE u == Selected(q, I)
           v == Selected(r, J)
<1> HIDE DEF u, v
<1>14. /\ u \o v \in Seq(S) /\ Len(u \o v) = m + n
       /\ \A k \in 1 .. m : (u \o v)[k] = u[k]
       /\ \A k \in 1 .. n : (u \o v)[m + k] = v[k]
  <2>1. u \in Seq(S) /\ v \in Seq(S) /\ Len(u) = m /\ Len(v) = n /\ m \in Nat /\ n \in Nat
    BY <1>2, <1>3 DEF u, v
  <2> HIDE DEF m, n
  <2>2. /\ u \o v \in Seq(S) /\ Len(u \o v) = Len(u) + Len(v)
        /\ \A k \in 1 .. Len(u) + Len(v) :
             (u \o v)[k] = IF k <= Len(u) THEN u[k] ELSE v[k - Len(u)]
    BY <2>1, ConcatProperties
  <2>3. \A k \in 1 .. n : m + k \in 1 .. m + n /\ ~(m + k <= m) /\ (m + k) - m = k
    BY <2>1
  <2>4. \A k \in 1 .. m : k \in 1 .. m + n /\ k <= m
    BY <2>1
  <2> QED
    BY <2>1, <2>2, <2>3, <2>4
<1>15. ASSUME NEW k \in 1 .. m + n PROVE (q \o r)[h[k]] = (u \o v)[k]
  <2>1. CASE k <= m
    <3>1. k \in 1 .. m /\ h[k] = Positions(I)[k]
      BY <1>2, <1>3, <1>12, <2>1
    <3>2. (q \o r)[h[k]] = u[k]
      BY <1>1, <1>2, <1>4, <3>1 DEF u
    <3> QED
      BY <1>14, <3>1, <3>2
  <2>2. CASE ~(k <= m)
    <3>1. k - m \in 1 .. n /\ h[k] = Len(q) + Positions(J)[k - m] /\ m + (k - m) = k
      BY <1>2, <1>3, <1>6, <1>12, <2>2
    <3>2. PICK j \in 1 .. n : j = k - m
      BY <3>1
    <3>3. PICK i \in 1 .. Len(r) : i = Positions(J)[j] /\ v[j] = r[i]
      BY <1>3, <1>4 DEF v
    <3>4. (q \o r)[Len(q) + i] = r[i]
      BY <1>1
    <3>5. (q \o r)[h[k]] = v[k - m]
      BY <3>1, <3>2, <3>3, <3>4
    <3> QED
      BY <1>14, <3>1, <3>5
  <2> QED
    BY <2>1, <2>2
<1>16. Selected(q \o r, K) = u \o v
  <2> DEFINE s == Selected(q \o r, K)
             w == u \o v
  <2>1. s \in Seq(S) /\ w \in Seq(S) /\ Len(s) = Len(w)
    BY <1>13, <1>14
  <2>2. \A k \in 1 .. Len(s) : s[k] = w[k]
    BY <1>13, <1>14, <1>15
  <2> HIDE DEF s, w
  <2>3. s = w
    BY <2>1, <2>2, SeqEqual
  <2> QED
    BY <2>3 DEF s, w
<1> QED
  BY <1>16 DEF u, v, I, J, K

\* Selecting in a selection.
LEMMA SelectedTwice ==
  ASSUME NEW S, NEW q \in Seq(S), NEW I \in SUBSET DOMAIN q,
         NEW s, s = Selected(q, I), NEW J \in SUBSET DOMAIN s,
         NEW K \in SUBSET I, \A j \in DOMAIN s : Positions(I)[j] \in K <=> j \in J
  PROVE  Selected(s, J) = Selected(q, K)
<1> DEFINE m == Cardinality(I)
           n == Cardinality(J)
           h == [k \in 1 .. n |-> Positions(I)[Positions(J)[k]]]
<1>1. /\ s \in Seq(S) /\ m \in Nat /\ DOMAIN s = 1 .. m
      /\ \A k \in 1 .. m : Positions(I)[k] \in I /\ s[k] = q[Positions(I)[k]]
      /\ \A k, l \in 1 .. m : k < l => Positions(I)[k] < Positions(I)[l]
      /\ \A i \in I : \E k \in 1 .. m : Positions(I)[k] = i
  BY SelectedProperties
<1> HIDE DEF m
<1>2. /\ Selected(s, J) \in Seq(S) /\ n \in Nat /\ DOMAIN Selected(s, J) = 1 .. n
      /\ \A k \in 1 .. n : Positions(J)[k] \in J /\ Selected(s, J)[k] = s[Positions(J)[k]]
      /\ \A k, l \in 1 .. n : k < l => Positions(J)[k] < Positions(J)[l]
      /\ \A i \in J : \E k \in 1 .. n : Positions(J)[k] = i
  BY <1>1, SelectedProperties
<1> HIDE DEF n
<1>3. J \subseteq 1 .. m
  BY <1>1
<1>4. K \in SUBSET DOMAIN q
  OBVIOUS
<1>5. \A k \in 1 .. n : h[k] \in K
  BY <1>1, <1>2, <1>3
<1>6. \A k, l \in 1 .. n : k < l => h[k] < h[l]
  BY <1>1, <1>2, <1>3
<1>7. ASSUME NEW i \in K PROVE \E k \in 1 .. n : h[k] = i
  <2>1. PICK j \in 1 .. m : Positions(I)[j] = i
    BY <1>1
  <2>2. PICK k \in 1 .. n : Positions(J)[k] = j
    BY <1>1, <1>2, <2>1
  <2> QED
    BY <2>1, <2>2
<1>8. h \in [1 .. n -> K]
  BY <1>5
<1>9. \A k \in 1 .. n : h[k] = Positions(I)[Positions(J)[k]]
  OBVIOUS
<1> HIDE DEF h
<1>10. /\ Selected(q, K) \in Seq(S) /\ Len(Selected(q, K)) = n
       /\ \A k \in 1 .. n : Selected(q, K)[k] = q[h[k]]
  <2>1. Positions(K) = h /\ Cardinality(K) = n
    <3>1. Len(q) \in Nat /\ K \in SUBSET (1 .. Len(q)) /\ n \in Nat
      BY <1>2, <1>4
    <3>2. \A i \in K : \E k \in 1 .. n : h[k] = i
      BY <1>7
    <3> QED
      BY <1>6, <1>8, <3>1, <3>2, PositionsUnique
  <2>2. /\ Selected(q, K) \in Seq(S) /\ Len(Selected(q, K)) = Cardinality(K)
        /\ \A k \in 1 .. Cardinality(K) : Selected(q, K)[k] = q[Positions(K)[k]]
    BY <1>4, SelectedProperties
  <2> QED
    BY <2>1, <2>2
<1>11. \A k \in 1 .. n : Selected(s, J)[k] = q[h[k]]
  BY <1>1, <1>2, <1>3, <1>9
<1> DEFINE t == Selected(s, J)
           u == Selected(q, K)
<1>12. /\ t \in Seq(S) /\ u \in Seq(S) /\ Len(t) = Len(u)
       /\ \A k \in 1 .. Len(t) : t[k] = u[k]
  BY <1>2, <1>10, <1>11
<1> HIDE DEF t, u
<1>13. t = u
  BY <1>12, SeqEqual
<1> QED
  BY <1>13 DEF t, u
=============================================================================
