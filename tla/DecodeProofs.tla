---------------------------- MODULE DecodeProofs ----------------------------
(***************************************************************************)
(* Decoding and fusion, as computations. The prefix beam search is         *)
(* compared with the forward algorithm: NextTableIs says what one turn of  *)
(* the loop of prefix_beam_search does to every prefix, BlankMassNext and  *)
(* SymbolMassNext say the same of the masses of ctc_log_likelihood, and    *)
(* NextDecoded that the beams keep to them. ForwardIsExact says that these *)
(* masses are what CTC means by them: the sum over all paths that collapse *)
(* to the word. LetThrough is the argument for the review policy,          *)
(* QuantileCovers the one for the thresholds of the conformal sets, and    *)
(* FusionShuffled says that fusion does not depend on the order of the     *)
(* views. AlignIs says that align of strings.py makes an alignment of the  *)
(* edit distance, and OneEdit that an edit changes it by at most one.      *)
(*                                                                         *)
(* Nothing here is a step of a specification: what it means for the reader *)
(* is in ReaderProofs.                                                     *)
(***************************************************************************)
EXTENDS Languages, Fusion

-----------------------------------------------------------------------------
(***************************************************************************)
(* Strict total orders, the elements of a finite set in order, and the     *)
(* elements of a sequence at some indices.                                 *)
(***************************************************************************)
\* Ahead is a strict total order of S, as a set of pairs.
Orders(Ahead, S) ==
  /\ \A x \in S : <<x, x>> \notin Ahead
  /\ \A x, y, z \in S : <<x, y>> \in Ahead /\ <<y, z>> \in Ahead => <<x, z>> \in Ahead
  /\ \A x, y \in S : x = y \/ <<x, y>> \in Ahead \/ <<y, x>> \in Ahead

\* The elements that are ahead of x.
AheadOf(Ahead, S, x) == {y \in S : <<y, x>> \in Ahead}

\* There is one element for every rank.
Ranking(Ahead, S) ==
  /\ \A x \in S : Cardinality(AheadOf(Ahead, S, x)) + 1 \in 1 .. Cardinality(S)
  /\ \A x, y \in S : Cardinality(AheadOf(Ahead, S, x)) = Cardinality(AheadOf(Ahead, S, y)) => x = y
  /\ \A x, y \in S : <<x, y>> \in Ahead =>
       Cardinality(AheadOf(Ahead, S, x)) < Cardinality(AheadOf(Ahead, S, y))
  /\ \A n \in 1 .. Cardinality(S) : \E x \in S : Cardinality(AheadOf(Ahead, S, x)) = n - 1

\* A finite set in a strict total order has one element for every rank.
LEMMA Ranks ==
  ASSUME NEW S, IsFiniteSet(S), NEW Ahead, Orders(Ahead, S)
  PROVE  Ranking(Ahead, S)
<1>. DEFINE above(x) == AheadOf(Ahead, S, x)
            size == Cardinality(S)
            rank == [x \in S |-> Cardinality(above(x)) + 1]
<1>1. size \in Nat
  BY FS_CardinalityType
<1>2. ASSUME NEW x \in S
      PROVE  IsFiniteSet(above(x)) /\ Cardinality(above(x)) \in Nat /\ Cardinality(above(x)) < size
  <2>1. above(x) \in SUBSET S /\ x \notin above(x)
    BY DEF Orders, AheadOf
  <2>2. IsFiniteSet(above(x)) /\ Cardinality(above(x)) <= size /\ (size = Cardinality(above(x)) => S = above(x))
    BY <2>1, FS_Subset
  <2>3. Cardinality(above(x)) \in Nat
    BY <2>2, FS_CardinalityType
  <2>4. Cardinality(above(x)) # size
    BY <2>1, <2>2
  <2>. QED  BY <1>1, <2>2, <2>3, <2>4
<1>3. ASSUME NEW x \in S, NEW y \in S, <<x, y>> \in Ahead
      PROVE  Cardinality(above(x)) < Cardinality(above(y))
  <2>1. above(x) \in SUBSET above(y) /\ x \in above(y) /\ x \notin above(x)
    BY <1>3 DEF Orders, AheadOf
  <2>2. Cardinality(above(x)) <= Cardinality(above(y))
        /\ (Cardinality(above(y)) = Cardinality(above(x)) => above(y) = above(x))
    BY <1>2, <2>1, FS_Subset
  <2>. QED  BY <1>2, <2>1, <2>2
<1>. HIDE DEF above, size
<1>4. \A x, y \in S : Cardinality(above(x)) = Cardinality(above(y)) => x = y
  <2>. SUFFICES ASSUME NEW x \in S, NEW y \in S, Cardinality(above(x)) = Cardinality(above(y)), x # y
                PROVE  FALSE
    OBVIOUS
  <2>1. <<x, y>> \in Ahead \/ <<y, x>> \in Ahead
    BY DEF Orders
  <2>. QED  BY <1>2, <1>3, <2>1
<1>5. rank \in Injection(S, 1 .. size)
  <2>1. rank \in [S -> 1 .. size]
    BY <1>1, <1>2
  <2>2. \A x, y \in S : rank[x] = rank[y] => x = y
    BY <1>2, <1>4
  <2>. HIDE DEF rank
  <2>. QED  BY <2>1, <2>2 DEF Injection, IsInjective
<1>6. rank \in Surjection(S, 1 .. size)
  <2>1. IsFiniteSet(1 .. size) /\ Cardinality(1 .. size) = size
    BY <1>1, FS_Interval
  <2>. HIDE DEF rank
  <2>. QED  BY <1>5, <2>1, FS_Injection DEF size
<1>7. \A n \in 1 .. size : \E x \in S : Cardinality(above(x)) = n - 1
  <2>. TAKE n \in 1 .. size
  <2>1. PICK x \in S : rank[x] = n
    <3>. HIDE DEF rank
    <3>. QED  BY <1>6 DEF Surjection
  <2>. QED  BY <1>2, <2>1
<1>8. \A x \in S : Cardinality(above(x)) + 1 \in 1 .. size
  BY <1>1, <1>2
<1>. QED  BY <1>3, <1>4, <1>7, <1>8 DEF size, above, Ranking

\* The indices, smallest first.
LEMMA AscendingIs ==
  ASSUME NEW I \in SUBSET Nat, IsFiniteSet(I)
  PROVE  /\ Ascending(I) \in [1 .. Cardinality(I) -> I] /\ Cardinality(I) \in Nat
         /\ \A i \in I : \E n \in 1 .. Cardinality(I) : Ascending(I)[n] = i
         /\ \A m, n \in 1 .. Cardinality(I) : m < n => Ascending(I)[m] < Ascending(I)[n]
<1>. DEFINE less == {p \in I \X I : p[1] < p[2]}
            below(i) == {j \in I : j < i}
<1>1. Orders(less, I)
  BY DEF Orders
<1>2. ASSUME NEW i \in I PROVE AheadOf(less, I, i) = below(i)
  BY DEF AheadOf
<1>. HIDE DEF less
<1>3. /\ \A i \in I : Cardinality(below(i)) + 1 \in 1 .. Cardinality(I)
      /\ \A i, j \in I : Cardinality(below(i)) = Cardinality(below(j)) => i = j
      /\ \A n \in 1 .. Cardinality(I) : \E i \in I : Cardinality(below(i)) = n - 1
  <2>1. Ranking(less, I)
    BY <1>1, Ranks
  <2>. HIDE DEF below
  <2>2. \A i \in I : Cardinality(AheadOf(less, I, i)) = Cardinality(below(i))
    BY <1>2
  <2>. QED  BY <2>1, <2>2 DEF Ranking
<1>4. ASSUME NEW i \in I, NEW j \in I, i < j PROVE Cardinality(below(i)) < Cardinality(below(j))
  <2>1. <<i, j>> \in less
    BY <1>4 DEF less
  <2>. HIDE DEF below
  <2>2. Ranking(less, I)
    BY <1>1, Ranks
  <2>3. Cardinality(AheadOf(less, I, i)) < Cardinality(AheadOf(less, I, j))
    BY <2>1, <2>2 DEF Ranking
  <2>. QED  BY <1>2, <2>3
<1>5. Ascending(I) = [n \in 1 .. Cardinality(I) |-> CHOOSE i \in I : Cardinality(below(i)) = n - 1]
  BY DEF Ascending, InOrder
<1>6. Cardinality(I) \in Nat /\ \A i \in I : Cardinality(below(i)) \in Nat
  <2>1. \A i \in I : below(i) \in SUBSET I
    OBVIOUS
  <2>. HIDE DEF below
  <2>2. \A i \in I : IsFiniteSet(below(i))
    BY <2>1, FS_Subset
  <2>. QED  BY <2>2, FS_CardinalityType
<1>. HIDE DEF below
<1>7. ASSUME NEW n \in 1 .. Cardinality(I)
      PROVE  Ascending(I)[n] \in I /\ Cardinality(below(Ascending(I)[n])) = n - 1
  <2>1. \E i \in I : Cardinality(below(i)) = n - 1
    BY <1>3
  <2>. QED  BY <1>5, <2>1
<1>8. ASSUME NEW i \in I PROVE \E n \in 1 .. Cardinality(I) : Ascending(I)[n] = i
  <2>. DEFINE n == Cardinality(below(i)) + 1
  <2>1. n \in 1 .. Cardinality(I) /\ n - 1 = Cardinality(below(i))
    BY <1>3, <1>6
  <2>. HIDE DEF n
  <2>. QED  BY <1>3, <1>7, <2>1
<1>9. ASSUME NEW m \in 1 .. Cardinality(I), NEW n \in 1 .. Cardinality(I), m < n
      PROVE  Ascending(I)[m] < Ascending(I)[n]
  <2>. DEFINE i == Ascending(I)[m]
              j == Ascending(I)[n]
  <2>1. i \in I /\ j \in I /\ Cardinality(below(i)) = m - 1 /\ Cardinality(below(j)) = n - 1
    BY <1>7
  <2>. HIDE DEF i, j
  <2>2. i \in Nat /\ j \in Nat
    BY <2>1
  <2>3. ~(j < i)
    BY <1>4, <1>6, <1>9, <2>1
  <2>4. i # j
    BY <1>6, <1>9, <2>1
  <2>5. i < j
    BY <2>2, <2>3, <2>4
  <2>. QED  BY <2>5 DEF i, j
<1>10. Ascending(I) \in [1 .. Cardinality(I) -> I]
  BY <1>5, <1>7
<1>. QED  BY <1>6, <1>8, <1>9, <1>10

\* What is picked from a sequence are its elements at the indices, in their order.
LEMMA PickedIs ==
  ASSUME NEW S, NEW s \in Seq(S), NEW I \in SUBSET DOMAIN s
  PROVE  /\ Picked(s, I) \in Seq({s[i] : i \in I}) /\ Picked(s, I) \in Seq(S)
         /\ Len(Picked(s, I)) = Cardinality(I)
         /\ \A i \in I : \E n \in DOMAIN Picked(s, I) : Picked(s, I)[n] = s[i]
         /\ \A i \in I : (\A j \in I : i <= j) => Picked(s, I) # <<>> /\ Picked(s, I)[1] = s[i]
<1>1. DOMAIN s = 1 .. Len(s) /\ Len(s) \in Nat
  OBVIOUS
<1>2. IsFiniteSet(I) /\ I \in SUBSET Nat
  <2>1. IsFiniteSet(1 .. Len(s))
    BY <1>1, FS_Interval
  <2>. QED  BY <1>1, <2>1, FS_Subset
<1>. DEFINE n0 == Cardinality(I)
            at == Ascending(I)
            E == {s[i] : i \in I}
<1>3. at \in [1 .. n0 -> I] /\ n0 \in Nat /\ (\A i \in I : \E n \in 1 .. n0 : at[n] = i)
      /\ \A m, n \in 1 .. n0 : m < n => at[m] < at[n]
  BY <1>2, AscendingIs
<1>4. Picked(s, I) = [n \in 1 .. n0 |-> s[at[n]]]
  <2>1. DOMAIN at = 1 .. n0
    BY <1>3
  <2>. HIDE DEF at, n0
  <2>. QED  BY <2>1 DEF Picked, at
<1>. HIDE DEF n0, at
<1>5. Picked(s, I) \in [1 .. n0 -> E]
  BY <1>3, <1>4
<1>6. Picked(s, I) \in Seq(E) /\ Len(Picked(s, I)) = n0
  <2>. HIDE DEF E
  <2>. QED  BY <1>3, <1>5
<1>7. E \subseteq S
  BY <1>1
<1>8. Picked(s, I) \in Seq(S)
  <2>. HIDE DEF E
  <2>. QED  BY <1>6, <1>7
<1>9. ASSUME NEW i \in I, \A j \in I : i <= j PROVE Picked(s, I) # <<>> /\ Picked(s, I)[1] = s[i]
  <2>1. PICK n \in 1 .. n0 : at[n] = i
    BY <1>3
  <2>2. n0 > 0 /\ 1 \in 1 .. n0 /\ at[1] \in I
    BY <1>3, <2>1
  <2>3. n = 1
    <3>1. ~(1 < n)
      <4>1. SUFFICES ASSUME 1 < n PROVE FALSE
        OBVIOUS
      <4>2. at[1] < at[n] /\ i <= at[1]
        BY <1>3, <1>9, <2>2, <4>1
      <4>. QED  BY <1>2, <2>1, <2>2, <4>2
    <3>. QED  BY <1>3, <3>1
  <2>4. Picked(s, I)[1] = s[i]
    BY <1>4, <2>1, <2>2, <2>3
  <2>. QED  BY <1>6, <2>2, <2>4
<1>10. ASSUME NEW i \in I PROVE \E n \in DOMAIN Picked(s, I) : Picked(s, I)[n] = s[i]
  <2>1. PICK n \in 1 .. n0 : at[n] = i
    BY <1>3
  <2>2. n \in DOMAIN Picked(s, I) /\ Picked(s, I)[n] = s[i]
    BY <1>4, <2>1
  <2>. QED  BY <2>2
<1>. QED  BY <1>6, <1>8, <1>9, <1>10 DEF n0, E

-----------------------------------------------------------------------------
(***************************************************************************)
(* Sums and products.                                                      *)
(***************************************************************************)
\* A sum of numbers is a number.
LEMMA SumIsNat ==
  ASSUME NEW w \in Seq(Nat)
  PROVE  Sum(w) \in Nat
<1> DEFINE m == Len(w)
           step == [k \in 1 .. m |-> [x \in Nat |-> x + w[k]]]
<1>0. m \in Nat
  OBVIOUS
<1>1. ASSUME NEW k \in 1 .. m, NEW x \in Nat PROVE x + w[k] \in Nat
  <2>1. w[k] \in Nat
    OBVIOUS
  <2> QED BY <2>1
<1>2. step \in [1 .. m -> [Nat -> Nat]]
  BY <1>1
<1>3. 0 \in Nat
  OBVIOUS
<1> HIDE DEF m
<1>4. PICK g \in [0 .. m -> Nat] : g[0] = 0 /\ \A k \in 1 .. m : g[k] = step[k][g[k - 1]]
  <2> HIDE DEF step
  <2>1. \E g : Recurs(g, m, Nat, 0, step)
    BY <1>0, <1>2, <1>3, RecursionExists
  <2> QED BY <2>1 DEF Recurs
<1>5. ASSUME NEW k \in 1 .. m PROVE g[k] = g[k - 1] + w[k]
  <2>1. g[k - 1] \in Nat
    BY <1>0
  <2> QED BY <2>1, <1>4
<1>6. g = [k \in 0 .. m |-> IF k = 0 THEN 0 ELSE g[k - 1] + w[k]]
  BY <1>0, <1>4, <1>5
<1> DEFINE w0 == CHOOSE h : h = [k \in 0 .. m |-> IF k = 0 THEN 0 ELSE h[k - 1] + w[k]]
<1>7. w0 = [k \in 0 .. m |-> IF k = 0 THEN 0 ELSE w0[k - 1] + w[k]]
  <2> DEFINE Is(h) == h = [k \in 0 .. m |-> IF k = 0 THEN 0 ELSE h[k - 1] + w[k]]
  <2>1. Is(g)
    BY <1>6
  <2> HIDE DEF Is
  <2>2. Is(CHOOSE h : Is(h))
    BY <2>1, Zenon
  <2> QED BY <2>2 DEF Is
<1>8. Sum(w) = w0[m]
  BY Zenon DEF Sum, m
<1> HIDE DEF w0
<1>9. w0[0] = 0 /\ \A k \in 1 .. m : w0[k] = w0[k - 1] + w[k]
  <2>1. \A k \in 0 .. m : w0[k] = IF k = 0 THEN 0 ELSE w0[k - 1] + w[k]
    BY <1>7
  <2> QED BY <1>0, <2>1
<1>10. \A k \in 0 .. m : w0[k] = g[k]
  <2>1. w0[0] = g[0]
    BY <1>4, <1>9
  <2>2. ASSUME NEW k \in 1 .. m, w0[k - 1] = g[k - 1] PROVE w0[k] = g[k]
    BY <2>2, <1>5, <1>9, Zenon
  <2> QED BY <1>0, <2>1, <2>2, RecursionUnique
<1> QED BY <1>0, <1>8, <1>10

\* A product, factor by factor.
LEMMA ProductRuns ==
  ASSUME NEW w \in Seq(Nat)
  PROVE  \E g \in [0 .. Len(w) -> Nat] :
           g[0] = 1 /\ (\A k \in 1 .. Len(w) : g[k] = g[k - 1] * w[k]) /\ Product(w) = g[Len(w)]
<1> DEFINE m == Len(w)
           step == [k \in 1 .. m |-> [x \in Nat |-> x * w[k]]]
<1>0. m \in Nat
  OBVIOUS
<1>1. ASSUME NEW k \in 1 .. m, NEW x \in Nat PROVE x * w[k] \in Nat
  <2>1. w[k] \in Nat
    OBVIOUS
  <2> QED BY <2>1
<1>2. step \in [1 .. m -> [Nat -> Nat]]
  BY <1>1
<1>3. 1 \in Nat
  OBVIOUS
<1> HIDE DEF m
<1>4. PICK g \in [0 .. m -> Nat] : g[0] = 1 /\ \A k \in 1 .. m : g[k] = step[k][g[k - 1]]
  <2> HIDE DEF step
  <2>1. \E g : Recurs(g, m, Nat, 1, step)
    BY <1>0, <1>2, <1>3, RecursionExists
  <2> QED BY <2>1 DEF Recurs
<1>5. ASSUME NEW k \in 1 .. m PROVE g[k] = g[k - 1] * w[k]
  <2>1. g[k - 1] \in Nat
    BY <1>0
  <2> QED BY <2>1, <1>4
<1>6. g = [k \in 0 .. m |-> IF k = 0 THEN 1 ELSE g[k - 1] * w[k]]
  BY <1>0, <1>4, <1>5
<1> DEFINE w0 == CHOOSE h : h = [k \in 0 .. m |-> IF k = 0 THEN 1 ELSE h[k - 1] * w[k]]
<1>7. w0 = [k \in 0 .. m |-> IF k = 0 THEN 1 ELSE w0[k - 1] * w[k]]
  <2> DEFINE Is(h) == h = [k \in 0 .. m |-> IF k = 0 THEN 1 ELSE h[k - 1] * w[k]]
  <2>1. Is(g)
    BY <1>6
  <2> HIDE DEF Is
  <2>2. Is(CHOOSE h : Is(h))
    BY <2>1, Zenon
  <2> QED BY <2>2 DEF Is
<1>8. Product(w) = w0[m]
  BY Zenon DEF Product, m
<1> HIDE DEF w0
<1>9. w0[0] = 1 /\ \A k \in 1 .. m : w0[k] = w0[k - 1] * w[k]
  <2>1. \A k \in 0 .. m : w0[k] = IF k = 0 THEN 1 ELSE w0[k - 1] * w[k]
    BY <1>7
  <2> QED BY <1>0, <2>1
<1>10. \A k \in 0 .. m : w0[k] = g[k]
  <2>1. w0[0] = g[0]
    BY <1>4, <1>9
  <2>2. ASSUME NEW k \in 1 .. m, w0[k - 1] = g[k - 1] PROVE w0[k] = g[k]
    BY <2>2, <1>5, <1>9, Zenon
  <2> QED BY <1>0, <2>1, <2>2, RecursionUnique
<1>11. Product(w) = g[m]
  BY <1>0, <1>8, <1>10
<1> QED BY <1>4, <1>5, <1>11 DEF m

\* A product of numbers is a number; one more factor multiplies it.
LEMMA ProductIs ==
  ASSUME NEW w \in Seq(Nat)
  PROVE  /\ Product(w) \in Nat /\ Product(<<>>) = 1
         /\ \A x \in Nat : Product(Append(w, x)) = Product(w) * x
<1>1. PICK g :
        g \in [0 .. Len(w) -> Nat] /\ g[0] = 1 /\ (\A k \in 1 .. Len(w) : g[k] = g[k - 1] * w[k]) /\ Product(w) = g[Len(w)]
  BY ProductRuns
<1>2. Product(w) \in Nat
  <2>1. Len(w) \in 0 .. Len(w)
    OBVIOUS
  <2>. QED  BY <1>1, <2>1
<1>3. Product(<<>>) = 1
  <2>1. <<>> \in Seq(Nat) /\ Len(<<>>) = 0
    OBVIOUS
  <2>. HIDE DEF Product
  <2>2. PICK h \in [0 .. Len(<<>>) -> Nat] : h[0] = 1 /\ Product(<<>>) = h[Len(<<>>)]
    BY <2>1, ProductRuns
  <2>. QED  BY <2>1, <2>2
<1>4. ASSUME NEW x \in Nat PROVE Product(Append(w, x)) = Product(w) * x
  <2>. DEFINE v == Append(w, x)
              n == Len(w)
  <2>1. v \in Seq(Nat) /\ Len(v) = n + 1 /\ v[n + 1] = x /\ n \in Nat /\ \A k \in 1 .. n : v[k] = w[k]
    OBVIOUS
  <2>. HIDE DEF v, n
  <2>2. PICK h :
          h \in [0 .. n + 1 -> Nat] /\ h[0] = 1 /\ (\A k \in 1 .. n + 1 : h[k] = h[k - 1] * v[k]) /\ Product(v) = h[n + 1]
    BY <2>1, ProductRuns
  <2>3. \A k \in 0 .. n : h[k] = g[k]
    <3>1. \A k \in 1 .. n : h[k - 1] = g[k - 1] => h[k] = g[k]
      <4>1. SUFFICES ASSUME NEW k \in 1 .. n, h[k - 1] = g[k - 1] PROVE h[k] = g[k]
        OBVIOUS
      <4>2. h[k] = h[k - 1] * v[k] /\ g[k] = g[k - 1] * w[k] /\ v[k] = w[k]
        BY <1>1, <2>1, <2>2 DEF n
      <4>. QED  BY <4>1, <4>2, Zenon
    <3>2. g \in [0 .. n -> Nat]
      BY <1>1 DEF n
    <3>3. n \in Nat /\ h[0] = g[0]
      BY <1>1, <2>1, <2>2
    <3>. QED  BY <3>1, <3>2, <3>3, RecursionUnique
  <2>4. h[n + 1] = h[n] * x /\ h[n] = g[n] /\ Product(w) = g[n]
    <3>1. n + 1 \in 1 .. n + 1 /\ (n + 1) - 1 = n /\ n \in 0 .. n
      BY <2>1
    <3>2. h[n + 1] = h[n] * x
      BY <2>1, <2>2, <3>1, Zenon
    <3>. QED  BY <1>1, <2>3, <3>1, <3>2 DEF n
  <2>5. Product(v) = Product(w) * x
    BY <2>2, <2>4, Zenon
  <2>. QED  BY <2>5 DEF v
<1>. QED  BY <1>2, <1>3, <1>4

\* A power of numbers is a number.
LEMMA PowerIsNat ==
  ASSUME NEW x \in Nat, NEW n \in Nat
  PROVE  Power(x, n) \in Nat
<1>1. [k \in 1 .. n |-> x] \in Seq(Nat)
  OBVIOUS
<1> QED BY <1>1, ProductIs DEF Power

-----------------------------------------------------------------------------
(***************************************************************************)
(* The order of strings, and of hypotheses.                                *)
(***************************************************************************)
\* v is a beginning of w, and shorter.
Opens(v, w) == Len(v) < Len(w) /\ \A k \in 1 .. Len(v) : v[k] = w[k]

\* v and w differ first at i, where v has the smaller code point.
SmallerAt(v, w, i) ==
  i <= Len(v) /\ i <= Len(w) /\ Code[v[i]] < Code[w[i]] /\ \A k \in 1 .. i - 1 : v[k] = w[k]

\* The order of Python strings: the shorter one if it begins the other, else the first difference.
LEMMA BeforeIs ==
  ASSUME NEW v \in Seq(Symbols), NEW w \in Seq(Symbols)
  PROVE  Before(v, w) <=> Opens(v, w) \/ \E i \in Nat \ {0} : SmallerAt(v, w, i)
<1>0. Len(v) \in Nat /\ Len(w) \in Nat
  OBVIOUS
<1>1. IsStrictPrefix(v, w) <=> Opens(v, w)
  <2>1. ASSUME Len(v) <= Len(w)
        PROVE  SubSeq(v, 1, Len(v)) = SubSeq(w, 1, Len(v)) <=> \A k \in 1 .. Len(v) : v[k] = w[k]
    <3>1. /\ SubSeq(v, 1, Len(v)) \in Seq(Symbols) /\ Len(SubSeq(v, 1, Len(v))) = Len(v)
          /\ \A k \in 1 .. Len(v) : SubSeq(v, 1, Len(v))[k] = v[k]
      BY SubSeqProperties
    <3>2. /\ SubSeq(w, 1, Len(v)) \in Seq(Symbols) /\ Len(SubSeq(w, 1, Len(v))) = Len(v)
          /\ \A k \in 1 .. Len(v) : SubSeq(w, 1, Len(v))[k] = w[k]
      BY <1>0, <2>1, SubSeqProperties
    <3>. DEFINE a == SubSeq(v, 1, Len(v))
                b == SubSeq(w, 1, Len(v))
    <3>3. a = b <=> \A k \in 1 .. Len(v) : a[k] = b[k]
      <4>. HIDE DEF a, b
      <4>1. a \in Seq(Symbols) /\ b \in Seq(Symbols) /\ Len(a) = Len(v) /\ Len(b) = Len(v)
        BY <3>1, <3>2 DEF a, b
      <4>2. (\A k \in 1 .. Len(a) : a[k] = b[k]) => a = b
        BY <4>1, SeqEqual
      <4>. QED  BY <4>1, <4>2
    <3>. QED  BY <3>1, <3>2, <3>3
  <2>2. v # w /\ Len(v) <= Len(w) /\ (\A k \in 1 .. Len(v) : v[k] = w[k]) => Len(v) < Len(w)
    <3>1. Len(v) = Len(w) /\ (\A k \in 1 .. Len(v) : v[k] = w[k]) => v = w
      BY SeqEqual
    <3>. QED  BY <1>0, <3>1
  <2>. QED  BY <1>0, <2>1, <2>2 DEF IsStrictPrefix, IsPrefix, Opens
<1>2. (\E i \in 1 .. Len(v) : /\ i <= Len(w) /\ Code[v[i]] < Code[w[i]]
                              /\ \A k \in 1 .. i - 1 : v[k] = w[k])
      <=> \E i \in Nat \ {0} : SmallerAt(v, w, i)
  BY <1>0 DEF SmallerAt
<1>. QED  BY <1>1, <1>2 DEF Before

\* Strings are totally ordered.
LEMMA BeforeOrders ==
  /\ \A v \in Seq(Symbols) : ~Before(v, v)
  /\ \A v, w \in Seq(Symbols) : v = w \/ Before(v, w) \/ Before(w, v)
  /\ \A u, v, w \in Seq(Symbols) : Before(u, v) /\ Before(v, w) => Before(u, w)
<1>0. \A v \in Seq(Symbols) : \A i \in 1 .. Len(v) : Code[v[i]] \in Nat /\ v[i] \in Symbols
  BY CodeAssumption
<1>1. ASSUME NEW v \in Seq(Symbols) PROVE ~Before(v, v)
  <2>1. ~Opens(v, v)
    BY DEF Opens
  <2>2. ASSUME NEW i \in Nat \ {0}, SmallerAt(v, v, i) PROVE FALSE
    <3>1. i \in 1 .. Len(v) /\ Code[v[i]] < Code[v[i]]
      BY <2>2 DEF SmallerAt
    <3>. QED  BY <1>0, <3>1
  <2>. QED  BY <2>1, <2>2, BeforeIs
<1>2. ASSUME NEW v \in Seq(Symbols), NEW w \in Seq(Symbols), v # w
      PROVE  Before(v, w) \/ Before(w, v)
  <2>. DEFINE D == {i \in Nat : i \in DOMAIN v /\ i \in DOMAIN w /\ v[i] # w[i]}
  <2>0. Len(v) \in Nat /\ Len(w) \in Nat /\ DOMAIN v = 1 .. Len(v) /\ DOMAIN w = 1 .. Len(w)
    OBVIOUS
  <2>1. CASE D = {}
    <3>1. \A i \in Nat : i \in DOMAIN v /\ i \in DOMAIN w => v[i] = w[i]
      BY <2>1
    <3>2. Len(v) # Len(w)
      <4>1. SUFFICES ASSUME Len(v) = Len(w) PROVE FALSE
        OBVIOUS
      <4>2. \A i \in 1 .. Len(v) : v[i] = w[i]
        BY <2>0, <3>1, <4>1
      <4>. QED  BY <1>2, <4>1, <4>2, SeqEqual
    <3>. HIDE DEF D
    <3>3. CASE Len(v) < Len(w)
      <4>1. \A k \in 1 .. Len(v) : v[k] = w[k]
        BY <2>0, <3>1, <3>3
      <4>. QED  BY <3>3, <4>1, BeforeIs DEF Opens
    <3>4. CASE Len(w) < Len(v)
      <4>1. \A k \in 1 .. Len(w) : w[k] = v[k]
        BY <2>0, <3>1, <3>4
      <4>. QED  BY <3>4, <4>1, BeforeIs DEF Opens
    <3>5. Len(v) < Len(w) \/ Len(w) < Len(v)
      <4>1. \A m, n \in Nat : m # n => m < n \/ n < m
        OBVIOUS
      <4>. QED  BY <2>0, <3>2, <4>1, Zenon
    <3>. QED  BY <3>3, <3>4, <3>5, Zenon
  <2>2. CASE D # {}
    <3>1. PICK i \in D : \A j \in D : i <= j
      <4>1. PICK t \in D : TRUE
        BY <2>2
      <4>2. D \in SUBSET Nat
        OBVIOUS
      <4>. HIDE DEF D
      <4>. QED  BY <4>1, <4>2, LeastOf
    <3>2. i \in Nat \ {0} /\ i <= Len(v) /\ i <= Len(w) /\ v[i] # w[i]
      BY <2>0
    <3>3. \A k \in 1 .. i - 1 : v[k] = w[k]
      <4>. TAKE k \in 1 .. i - 1
      <4>1. k \notin D
        BY <3>1, <3>2
      <4>2. k \in Nat /\ k \in DOMAIN v /\ k \in DOMAIN w
        BY <2>0, <3>2
      <4>. QED  BY <4>1, <4>2
    <3>4. v[i] \in Symbols /\ w[i] \in Symbols
      BY <1>0, <3>2
    <3>5. Code[v[i]] # Code[w[i]] /\ Code[v[i]] \in Nat /\ Code[w[i]] \in Nat
      BY <3>2, <3>4, CodeAssumption
    <3>6. SmallerAt(v, w, i) \/ SmallerAt(w, v, i)
      BY <3>2, <3>3, <3>5 DEF SmallerAt
    <3>. QED  BY <3>2, <3>6, BeforeIs
  <2>. QED  BY <2>1, <2>2
<1>3. ASSUME NEW u \in Seq(Symbols), NEW v \in Seq(Symbols), NEW w \in Seq(Symbols),
             Before(u, v), Before(v, w)
      PROVE  Before(u, w)
  <2>0. Len(u) \in Nat /\ Len(v) \in Nat /\ Len(w) \in Nat
    OBVIOUS
  <2>1. ASSUME Opens(u, v), Opens(v, w) PROVE Opens(u, w)
    BY <2>0, <2>1 DEF Opens
  <2>2. ASSUME Opens(u, v), NEW i \in Nat \ {0}, SmallerAt(v, w, i) PROVE Opens(u, w) \/ SmallerAt(u, w, i)
    BY <2>0, <2>2 DEF Opens, SmallerAt
  <2>3. ASSUME NEW i \in Nat \ {0}, SmallerAt(u, v, i), Opens(v, w) PROVE SmallerAt(u, w, i)
    BY <2>0, <2>3 DEF Opens, SmallerAt
  <2>4. ASSUME NEW i \in Nat \ {0}, SmallerAt(u, v, i), NEW j \in Nat \ {0}, SmallerAt(v, w, j)
        PROVE  SmallerAt(u, w, i) \/ SmallerAt(u, w, j)
    <3>0. /\ i \in 1 .. Len(u) /\ i \in 1 .. Len(v) /\ j \in 1 .. Len(v) /\ j \in 1 .. Len(w)
      BY <2>0, <2>4 DEF SmallerAt
    <3>1. Code[u[i]] \in Nat /\ Code[v[i]] \in Nat /\ Code[v[j]] \in Nat /\ Code[w[j]] \in Nat
      BY <1>0, <3>0
    <3>2. CASE i < j
      BY <2>0, <2>4, <3>0, <3>1, <3>2 DEF SmallerAt
    <3>3. CASE j < i
      BY <2>0, <2>4, <3>0, <3>1, <3>3 DEF SmallerAt
    <3>4. CASE i = j
      BY <2>0, <2>4, <3>0, <3>1, <3>4 DEF SmallerAt
    <3>. QED  BY <3>2, <3>3, <3>4
  <2>5. Opens(u, v) \/ \E i \in Nat \ {0} : SmallerAt(u, v, i)
    BY <1>3, BeforeIs
  <2>6. Opens(v, w) \/ \E i \in Nat \ {0} : SmallerAt(v, w, i)
    BY <1>3, BeforeIs
  <2>7. Opens(u, w) \/ \E i \in Nat \ {0} : SmallerAt(u, w, i)
    BY <2>1, <2>2, <2>3, <2>4, <2>5, <2>6
  <2>. QED  BY <2>7, BeforeIs
<1>. QED  BY <1>1, <1>2, <1>3

\* What a decoder returns for a word.
Hypothesis == [tokens : Seq(Symbols), mass : Nat]

\* Hypotheses are ranked: each has its place, heavier ones first.
LEMMA ByMassRanks ==
  ASSUME NEW S \in SUBSET Hypothesis, IsFiniteSet(S)
  PROVE  /\ InOrder(S, ByMass) \in [1 .. Cardinality(S) -> S] /\ Cardinality(S) \in Nat
         /\ \A x \in S : \E n \in 1 .. Cardinality(S) : InOrder(S, ByMass)[n] = x
         /\ \A m, n \in 1 .. Cardinality(S) : m < n => InOrder(S, ByMass)[n].mass <= InOrder(S, ByMass)[m].mass
<1>. DEFINE heavier == {p \in S \X S : ByMass(p[1], p[2])}
            above(x) == {y \in S : ByMass(y, x)}
            list == InOrder(S, ByMass)
            size == Cardinality(S)
<1>0. \A x \in S : x.tokens \in Seq(Symbols) /\ x.mass \in Nat
  BY DEF Hypothesis
<1>1. Orders(heavier, S)
  <2>1. \A x \in S : ~ByMass(x, x)
    BY <1>0, BeforeOrders DEF ByMass
  <2>2. ASSUME NEW x \in S, NEW y \in S, NEW z \in S, ByMass(x, y), ByMass(y, z) PROVE ByMass(x, z)
    <3>1. x.mass \in Nat /\ y.mass \in Nat /\ z.mass \in Nat
      BY <1>0
    <3>2. Before(x.tokens, y.tokens) /\ Before(y.tokens, z.tokens) => Before(x.tokens, z.tokens)
      BY <1>0, BeforeOrders
    <3>. QED  BY <2>2, <3>1, <3>2 DEF ByMass
  <2>3. ASSUME NEW x \in S, NEW y \in S PROVE x = y \/ ByMass(x, y) \/ ByMass(y, x)
    <3>1. x.mass \in Nat /\ y.mass \in Nat
      BY <1>0
    <3>2. x.tokens = y.tokens \/ Before(x.tokens, y.tokens) \/ Before(y.tokens, x.tokens)
      BY <1>0, BeforeOrders
    <3>3. x.tokens = y.tokens /\ x.mass = y.mass => x = y
      BY DEF Hypothesis
    <3>. QED  BY <3>1, <3>2, <3>3 DEF ByMass
  <2>. QED  BY <2>1, <2>2, <2>3 DEF Orders
<1>2. ASSUME NEW x \in S PROVE AheadOf(heavier, S, x) = above(x)
  BY DEF AheadOf
<1>3. Ranking(heavier, S)
  <2>. HIDE DEF heavier
  <2>. QED  BY <1>1, Ranks
<1>4. \A x \in S : Cardinality(AheadOf(heavier, S, x)) = Cardinality(above(x))
  <2>. HIDE DEF heavier, above
  <2>. QED  BY <1>2
<1>5. \A x \in S : Cardinality(above(x)) \in Nat
  <2>1. \A x \in S : above(x) \in SUBSET S
    OBVIOUS
  <2>. HIDE DEF above
  <2>2. \A x \in S : IsFiniteSet(above(x))
    BY <2>1, FS_Subset
  <2>. QED  BY <2>2, FS_CardinalityType
<1>6. size \in Nat
  BY FS_CardinalityType
<1>7. list = [n \in 1 .. size |-> CHOOSE x \in S : Cardinality(above(x)) = n - 1]
  BY DEF InOrder
<1>. HIDE DEF above, size, list
<1>8. /\ \A x \in S : Cardinality(above(x)) + 1 \in 1 .. size
      /\ \A x, y \in S : Cardinality(above(x)) = Cardinality(above(y)) => x = y
      /\ \A x, y \in S : <<x, y>> \in heavier => Cardinality(above(x)) < Cardinality(above(y))
      /\ \A n \in 1 .. size : \E x \in S : Cardinality(above(x)) = n - 1
  <2>. HIDE DEF heavier
  <2>. QED  BY <1>3, <1>4 DEF Ranking, size
<1>9. ASSUME NEW n \in 1 .. size PROVE list[n] \in S /\ Cardinality(above(list[n])) = n - 1
  <2>1. \E x \in S : Cardinality(above(x)) = n - 1
    BY <1>8
  <2>. QED  BY <1>7, <2>1
<1>10. list \in [1 .. size -> S]
  BY <1>7, <1>9
<1>11. ASSUME NEW x \in S PROVE \E n \in 1 .. size : list[n] = x
  <2>. DEFINE n == Cardinality(above(x)) + 1
  <2>1. n \in 1 .. size /\ n - 1 = Cardinality(above(x))
    BY <1>5, <1>8
  <2>. HIDE DEF n
  <2>2. list[n] = x
    BY <1>8, <1>9, <2>1
  <2>. QED  BY <2>1, <2>2
<1>12. ASSUME NEW m \in 1 .. size, NEW n \in 1 .. size, m < n
       PROVE  list[n].mass <= list[m].mass
  <2>. DEFINE x == list[m]
              y == list[n]
  <2>1. x \in S /\ y \in S /\ Cardinality(above(x)) = m - 1 /\ Cardinality(above(y)) = n - 1
    BY <1>9
  <2>. HIDE DEF x, y
  <2>2. ~ByMass(y, x)
    <3>1. SUFFICES ASSUME ByMass(y, x) PROVE FALSE
      OBVIOUS
    <3>2. <<y, x>> \in heavier
      BY <2>1, <3>1
    <3>3. Cardinality(above(y)) < Cardinality(above(x))
      BY <1>8, <2>1, <3>2
    <3>. QED  BY <1>6, <1>12, <2>1, <3>3
  <2>3. x.mass \in Nat /\ y.mass \in Nat
    BY <1>0, <2>1
  <2>4. y.mass <= x.mass
    BY <2>2, <2>3 DEF ByMass
  <2>. QED  BY <2>4 DEF x, y
<1>. QED  BY <1>6, <1>10, <1>11, <1>12 DEF size, list

-----------------------------------------------------------------------------
(***************************************************************************)
(* Fusion and review: what is let through.                                 *)
(***************************************************************************)
\* The set of a posterior that names one string names the heaviest.
LEMMA SetOfOne ==
  ASSUME NEW posterior \in Seq(Hypothesis), posterior # <<>>,
         \A n \in DOMAIN posterior : posterior[n].mass <= posterior[1].mass,
         NEW threshold \in Nat \X Nat,
         ~(Len(SetOf(posterior, threshold)) > 1)
  PROVE  SetOf(posterior, threshold) \in {<<>>, <<posterior[1].tokens>>}
<1>. DEFINE all == MassOf(posterior)
            words == [i \in DOMAIN posterior |-> posterior[i].tokens]
            inSet(i) == \/ threshold[1] >= threshold[2]
                        \/ /\ Summable(posterior)
                           /\ AtMost(<<all - posterior[i].mass, all>>, threshold)
            members == {i \in DOMAIN posterior : inSet(i)}
<1>1. /\ DOMAIN posterior = 1 .. Len(posterior) /\ Len(posterior) \in Nat /\ 1 \in DOMAIN posterior
      /\ \A i \in DOMAIN posterior : posterior[i] \in Hypothesis
  OBVIOUS
<1>2. \A i \in DOMAIN posterior : posterior[i].mass \in Nat /\ posterior[i].tokens \in Seq(Symbols)
  BY <1>1 DEF Hypothesis
<1>3. all \in Nat
  <2>1. [i \in DOMAIN posterior |-> posterior[i].mass] \in Seq(Nat)
    BY <1>1, <1>2
  <2>. QED  BY <2>1, SumIsNat DEF MassOf
<1>4. words \in Seq(Seq(Symbols)) /\ DOMAIN words = DOMAIN posterior
  BY <1>1, <1>2
<1>5. SetOf(posterior, threshold) = Picked(words, members)
  BY Zenon DEF SetOf
<1>6. \A i \in DOMAIN posterior : inSet(i) => inSet(1)
  <2>. TAKE i \in DOMAIN posterior
  <2>. HIDE DEF all
  <2>. DEFINE a == all - posterior[1].mass
              b == all - posterior[i].mass
              c == threshold[2]
              d == threshold[1] * all
  <2>1. a \in Int /\ b \in Int /\ a <= b
    <3>1. posterior[1].mass \in Nat /\ posterior[i].mass \in Nat /\ posterior[i].mass <= posterior[1].mass
      BY <1>1, <1>2
    <3>. QED  BY <1>3, <3>1
  <2>2. c \in Nat /\ d \in Nat
    <3>1. threshold[1] \in Nat
      OBVIOUS
    <3>. QED  BY <1>3, <3>1
  <2>3. AtMost(<<a, all>>, threshold) <=> a * c <= d
    BY DEF AtMost
  <2>4. AtMost(<<b, all>>, threshold) <=> b * c <= d
    BY DEF AtMost
  <2>5. ASSUME NEW x \in Int, NEW y \in Int, x <= y, NEW z \in Nat, NEW u \in Nat, y * z <= u PROVE x * z <= u
    <3>1. x * z <= y * z
      BY <2>5
    <3>2. x * z \in Int /\ y * z \in Int
      BY <2>5
    <3>. QED  BY <2>5, <3>1, <3>2
  <2>. HIDE DEF a, b, c, d
  <2>6. b * c <= d => a * c <= d
    BY <2>1, <2>2, <2>5
  <2>7. AtMost(<<b, all>>, threshold) => AtMost(<<a, all>>, threshold)
    BY <2>3, <2>4, <2>6
  <2>. QED  BY <2>7 DEF a, b
<1>. HIDE DEF words, inSet
<1>7. CASE members = {}
  <2>1. Len(Picked(words, members)) = 0
    <3>1. Cardinality({}) = 0 /\ members \in SUBSET DOMAIN words
      BY <1>4, FS_EmptySet
    <3>. HIDE DEF members
    <3>. QED  BY <1>4, <1>7, <3>1, PickedIs
  <2>2. Picked(words, members) \in Seq(Seq(Symbols))
    <3>1. members \in SUBSET DOMAIN words
      BY <1>4
    <3>. HIDE DEF members
    <3>. QED  BY <1>4, <3>1, PickedIs
  <2>. HIDE DEF members
  <2>3. Picked(words, members) = <<>>
    BY <2>1, <2>2, EmptySeq
  <2>. QED  BY <1>5, <2>3
<1>8. CASE members # {}
  <2>1. 1 \in members /\ members \in SUBSET DOMAIN words /\ \A j \in members : 1 <= j
    BY <1>1, <1>4, <1>6, <1>8
  <2>. HIDE DEF members
  <2>. DEFINE chosen == Picked(words, members)
  <2>2. chosen \in Seq(Seq(Symbols)) /\ chosen # <<>> /\ chosen[1] = words[1]
    BY <1>4, <2>1, PickedIs
  <2>3. words[1] = posterior[1].tokens
    BY <1>1 DEF words
  <2>4. ~(Len(chosen) > 1)
    BY <1>5
  <2>. HIDE DEF chosen
  <2>5. chosen = <<posterior[1].tokens>>
    <3>1. Len(chosen) \in Nat /\ Len(chosen) # 0
      BY <2>2, EmptySeq
    <3>2. Len(chosen) = 1
      <4>1. \A n \in Nat : n # 0 /\ ~(n > 1) => n = 1
        OBVIOUS
      <4>. QED  BY <2>4, <3>1, <4>1, Zenon
    <3>. DEFINE word == posterior[1].tokens
                W == Seq(Symbols)
    <3>3. word \in W /\ chosen \in Seq(W) /\ chosen[1] = word
      BY <1>1, <1>2, <2>2, <2>3
    <3>. HIDE DEF word, W
    <3>4. <<word>> \in Seq(W) /\ Len(<<word>>) = 1 /\ <<word>>[1] = word
      BY <3>3
    <3>5. \A i \in 1 .. Len(chosen) : chosen[i] = <<word>>[i]
      BY <3>2, <3>3, <3>4
    <3>6. chosen = <<word>>
      BY <3>2, <3>3, <3>4, <3>5, SeqEqual
    <3>. QED  BY <3>6 DEF word
  <2>. QED  BY <1>5, <2>5 DEF chosen
<1>. QED  BY <1>7, <1>8

\* A view that was read.
IsView(view) ==
  /\ view.hypotheses \in Seq(Hypothesis)
  /\ view.of \in Nat /\ view.weight \in Nat

\* The range of a sequence is finite.
LEMMA RangeIs ==
  ASSUME NEW S, NEW s \in Seq(S)
  PROVE  /\ IsFiniteSet(Range(s)) /\ Range(s) \in SUBSET S
         /\ \A i \in DOMAIN s : s[i] \in Range(s)
         /\ \A x \in Range(s) : \E i \in DOMAIN s : s[i] = x
<1>1. DOMAIN s = 1 .. Len(s) /\ Len(s) \in Nat
  OBVIOUS
<1>2. s \in Surjection(1 .. Len(s), Range(s))
  <2>1. s \in [1 .. Len(s) -> Range(s)] /\ \A x \in Range(s) : \E i \in 1 .. Len(s) : s[i] = x
    BY <1>1 DEF Range
  <2>. QED  BY <2>1 DEF Surjection
<1>3. IsFiniteSet(1 .. Len(s))
  BY <1>1, FS_Interval
<1>4. IsFiniteSet(Range(s))
  BY <1>2, <1>3, FS_Surjection
<1>. QED  BY <1>1, <1>4 DEF Range

\* The words that a view proposes are finitely many plates.
LEMMA ProposedIs ==
  ASSUME NEW view, IsView(view)
  PROVE  /\ IsFiniteSet(Proposed(view)) /\ Proposed(view) \in SUBSET Seq(Symbols)
         /\ \A s \in Proposed(view) : Accepts(s)
<1>. DEFINE H == {h \in Range(view.hypotheses) : Accepts(h.tokens)}
            name == [h \in H |-> h.tokens]
<1>1. IsFiniteSet(Range(view.hypotheses)) /\ Range(view.hypotheses) \in SUBSET Hypothesis
  BY RangeIs DEF IsView
<1>2. IsFiniteSet(H)
  <2>1. H \in SUBSET Range(view.hypotheses)
    OBVIOUS
  <2>. HIDE DEF H
  <2>. QED  BY <1>1, <2>1, FS_Subset
<1>3. Proposed(view) = {h.tokens : h \in H}
  BY DEF Proposed
<1>4. \A h \in H : h.tokens \in Seq(Symbols) /\ Accepts(h.tokens)
  BY <1>1 DEF Hypothesis
<1>. HIDE DEF H
<1>5. name \in Surjection(H, Proposed(view))
  BY <1>3 DEF Surjection
<1>. HIDE DEF name
<1>6. IsFiniteSet(Proposed(view))
  BY <1>2, <1>5, FS_Surjection
<1>. QED  BY <1>3, <1>4, <1>6

\* So are the candidates of all views: probabilistic_fusion filters by grammar.accepts.
LEMMA CandidatesAre ==
  ASSUME NEW V, NEW views \in Seq(V), \A v \in V : IsView(v)
  PROVE  /\ IsFiniteSet(Candidates(views)) /\ Candidates(views) \in SUBSET Seq(Symbols)
         /\ \A s \in Candidates(views) : Accepts(s)
<1>. DEFINE R == Range(views)
            P == {Proposed(v) : v \in R}
            proposed == [v \in R |-> Proposed(v)]
<1>1. IsFiniteSet(R) /\ R \in SUBSET V
  BY RangeIs
<1>2. Candidates(views) = UNION P
  BY DEF Candidates
<1>. HIDE DEF R
<1>3. proposed \in Surjection(R, P)
  BY DEF Surjection
<1>4. \A T \in P : IsFiniteSet(T) /\ T \in SUBSET Seq(Symbols) /\ \A s \in T : Accepts(s)
  BY <1>1, ProposedIs
<1>. HIDE DEF P, proposed
<1>5. IsFiniteSet(P)
  BY <1>1, <1>3, FS_Surjection
<1>6. IsFiniteSet(UNION P)
  BY <1>4, <1>5, FS_UNION
<1>. QED  BY <1>2, <1>4, <1>6

\* The greater of two numbers is a number.
LEMMA MaxOfTwo ==
  ASSUME NEW a \in Nat, NEW b \in Nat
  PROVE  Max({a, b}) \in Nat
<1>. DEFINE S == {a, b}
<1>1. \E x \in S : \A y \in S : x >= y
  OBVIOUS
<1>2. S \subseteq Nat
  OBVIOUS
<1>. HIDE DEF S
<1>3. Max(S) \in S
  BY <1>1, Zenon DEF Max
<1>4. Max(S) \in Nat
  BY <1>2, <1>3
<1>. QED  BY <1>4 DEF S

\* The evidence of a view for a string is a number.
LEMMA RawIsNat ==
  ASSUME NEW view, IsView(view), NEW tokens
  PROVE  Raw(view, tokens) \in Nat
<1>1. ASSUME NEW i \in DOMAIN view.hypotheses PROVE view.hypotheses[i].mass \in Nat
  <2>1. view.hypotheses \in Seq(Hypothesis)
    BY DEF IsView
  <2>2. view.hypotheses[i] \in Hypothesis
    BY <2>1
  <2>. QED  BY <2>2 DEF Hypothesis
<1>. DEFINE w == [i \in DOMAIN view.hypotheses |->
       IF view.hypotheses[i].tokens = tokens /\ Accepts(tokens) THEN view.hypotheses[i].mass ELSE 0]
<1>2. w \in Seq(Nat)
  <2>1. DOMAIN view.hypotheses = 1 .. Len(view.hypotheses) /\ Len(view.hypotheses) \in Nat
    BY DEF IsView
  <2>. QED  BY <1>1, <2>1
<1>3. Mass(view, tokens) \in Nat
  <2>. HIDE DEF w
  <2>1. Sum(w) \in Nat
    BY <1>2, SumIsNat
  <2>. QED  BY <2>1 DEF Mass, w
<1>4. view.of \in Nat
  BY DEF IsView
<1>5. Floor * Mass(view, tokens) \in Nat
  BY <1>3, FloorAssumption
<1>. QED  BY <1>4, <1>5, MaxOfTwo DEF Raw

\* The evidence of a candidate is a number.
LEMMA ScoreIsNat ==
  ASSUME NEW V, NEW views \in Seq(V), \A v \in V : IsView(v), NEW tokens
  PROVE  Score(views, tokens) \in Nat
<1>1. ASSUME NEW view \in V PROVE Raw(view, tokens) \in Nat
  BY RawIsNat
<1>. DEFINE w == [i \in DOMAIN views |->
       IF Proposed(views[i]) = {} THEN 1 ELSE Power(Raw(views[i], tokens), views[i].weight)]
<1>2. ASSUME NEW i \in DOMAIN views
      PROVE  (IF Proposed(views[i]) = {} THEN 1 ELSE Power(Raw(views[i], tokens), views[i].weight)) \in Nat
  <2>1. views[i] \in V /\ views[i].weight \in Nat
    BY DEF IsView
  <2>2. Power(Raw(views[i], tokens), views[i].weight) \in Nat
    BY <1>1, <2>1, PowerIsNat
  <2>. QED  BY <2>2
<1>3. w \in Seq(Nat)
  <2>1. DOMAIN views = 1 .. Len(views) /\ Len(views) \in Nat
    OBVIOUS
  <2>. QED  BY <1>2, <2>1
<1>. HIDE DEF w
<1>4. Product(w) \in Nat
  BY <1>3, ProductIs
<1>. QED  BY <1>4 DEF Score, w

\* The posterior is a ranking of the candidates.
LEMMA PosteriorIs ==
  ASSUME NEW V, NEW views \in Seq(V), \A v \in V : IsView(v), Candidates(views) # {}
  PROVE  /\ Posterior(views) \in Seq(Hypothesis) /\ Posterior(views) # <<>>
         /\ Posterior(views)[1].tokens \in Candidates(views)
         /\ \A n \in DOMAIN Posterior(views) : Posterior(views)[n].mass <= Posterior(views)[1].mass
<1>. DEFINE C == Candidates(views)
            S == {[tokens |-> s, mass |-> Score(views, s)] : s \in C}
            scored == [s \in C |-> [tokens |-> s, mass |-> Score(views, s)]]
            list == Posterior(views)
<1>1. IsFiniteSet(C) /\ C \in SUBSET Seq(Symbols) /\ C # {}
  BY CandidatesAre
<1>. HIDE DEF C
<1>2. S \in SUBSET Hypothesis
  <2>1. \A s \in C : s \in Seq(Symbols) /\ Score(views, s) \in Nat
    BY <1>1, ScoreIsNat
  <2>. QED  BY <2>1 DEF Hypothesis
<1>3. scored \in Surjection(C, S) /\ S # {} /\ \A x \in S : x.tokens \in C
  <2>1. scored \in [C -> S] /\ \A x \in S : \E s \in C : scored[s] = x
    OBVIOUS
  <2>2. S # {}
    <3>1. PICK s \in C : TRUE
      BY <1>1
    <3>2. [tokens |-> s, mass |-> Score(views, s)] \in S
      OBVIOUS
    <3>. QED  BY <3>2
  <2>3. \A x \in S : x.tokens \in C
    OBVIOUS
  <2>. HIDE DEF S, scored
  <2>. QED  BY <2>1, <2>2, <2>3 DEF Surjection
<1>4. list = InOrder(S, ByMass)
  BY DEF Posterior, C
<1>. HIDE DEF S, scored, list
<1>5. IsFiniteSet(S)
  BY <1>1, <1>3, FS_Surjection
<1>. DEFINE size == Cardinality(S)
<1>6. /\ list \in [1 .. size -> S] /\ size \in Nat
      /\ \A m, n \in 1 .. size : m < n => list[n].mass <= list[m].mass
  BY <1>2, <1>4, <1>5, ByMassRanks
<1>7. size # 0
  BY <1>3, <1>5, FS_EmptySet
<1>. HIDE DEF size
<1>8. list \in Seq(S) /\ Len(list) = size /\ 1 \in 1 .. size
  BY <1>6, <1>7
<1>9. list \in Seq(Hypothesis) /\ list # <<>>
  BY <1>2, <1>7, <1>8
<1>10. list[1].tokens \in C /\ list[1].mass \in Nat
  <2>1. list[1] \in S
    BY <1>6, <1>8
  <2>. QED  BY <1>2, <1>3, <2>1 DEF Hypothesis
<1>11. \A n \in DOMAIN list : list[n].mass <= list[1].mass
  <2>. TAKE n \in DOMAIN list
  <2>1. n \in 1 .. size
    BY <1>6
  <2>2. CASE n = 1
    BY <1>10, <2>2
  <2>3. CASE n # 1
    BY <1>6, <1>8, <2>1, <2>3
  <2>. QED  BY <2>2, <2>3
<1>. QED  BY <1>9, <1>10, <1>11 DEF C, list

\* What ReviewReason lets through is certain.
LEMMA LetThrough ==
  ASSUME NEW V, NEW views \in Seq(V), \A v \in V : IsView(v), views # <<>>,
         NEW threshold \in (Nat \X Nat) \cup {None}, NEW level, NEW let \in BOOLEAN,
         NEW fusion, fusion = ProbabilisticFusion(views, threshold),
         ReviewReason(fusion, level, TRUE, let) = ""
  PROVE  /\ Accepts(fusion.prediction)
         /\ AtMost(level, Confidence(fusion))
         /\ threshold # None => \/ fusion.set = <<fusion.prediction>>
                                \/ fusion.set = <<>> /\ ~let
<1>. DEFINE posterior == Posterior(views)
            winner == posterior[1].tokens
<1>1. "unreadable" # "" /\ "set_size" # "" /\ "empty_set" # "" /\ "low_confidence" # ""
  OBVIOUS
<1>2. /\ fusion.prediction # None
      /\ ~(fusion.certified # None /\ Len(fusion.set) > 1)
      /\ ~(fusion.certified # None /\ fusion.set = <<>> /\ let)
      /\ AtMost(level, Confidence(fusion))
  BY <1>1 DEF ReviewReason
<1>3. Candidates(views) # {}
  BY <1>2 DEF ProbabilisticFusion, NoFused
<1>4. /\ fusion.prediction = winner /\ fusion.certified = threshold
      /\ fusion.set = IF threshold = None THEN <<>> ELSE SetOf(posterior, threshold)
  BY <1>3 DEF ProbabilisticFusion
<1>5. /\ posterior \in Seq(Hypothesis) /\ posterior # <<>> /\ winner \in Candidates(views)
      /\ \A n \in DOMAIN posterior : posterior[n].mass <= posterior[1].mass
  BY <1>3, PosteriorIs
<1>6. Accepts(winner)
  BY <1>5, CandidatesAre
<1>. HIDE DEF posterior
<1>7. ASSUME threshold # None
      PROVE  \/ fusion.set = <<fusion.prediction>>
             \/ fusion.set = <<>> /\ ~let
  <2>1. threshold \in Nat \X Nat /\ fusion.set = SetOf(posterior, threshold)
    BY <1>4, <1>7
  <2>2. ~(Len(SetOf(posterior, threshold)) > 1)
    BY <1>2, <1>4, <1>7, <2>1
  <2>5. SetOf(posterior, threshold) \in {<<>>, <<winner>>}
    BY <1>5, <2>1, <2>2, SetOfOne
  <2>. QED  BY <1>2, <1>4, <1>7, <2>1, <2>5
<1>. QED  BY <1>2, <1>4, <1>6, <1>7

-----------------------------------------------------------------------------
(***************************************************************************)
(* The slots of a table.                                                   *)
(***************************************************************************)
\* A beam; Q are the states of the automaton.
BeamRecord(Q) == [prefix : Seq(Symbols), blank : Nat, symbol : Nat, state : Q]

\* A table has at most one slot for a prefix.
OneSlotEach(table) ==
  \A j, k \in DOMAIN table : table[j].prefix = table[k].prefix => j = k

\* A table has a slot for p.
HasSlot(table, p) == \E k \in DOMAIN table : table[k].prefix = p

\* Adding to a slot leaves a table of beams.
LEMMA SlotType ==
  ASSUME NEW Q, NEW table \in Seq(BeamRecord(Q)), NEW part \in BeamRecord(Q)
  PROVE  Slot(table, part) \in Seq(BeamRecord(Q))
<1>. DEFINE same == {k \in DOMAIN table : table[k].prefix = part.prefix}
            more(k) == [table[k] EXCEPT !.blank = @ + part.blank, !.symbol = @ + part.symbol]
            R == BeamRecord(Q)
<1>0. DOMAIN table = 1 .. Len(table) /\ Len(table) \in Nat
  OBVIOUS
<1>1. \A k \in DOMAIN table : more(k) \in R
  <2>. TAKE k \in DOMAIN table
  <2>1. table[k] \in BeamRecord(Q)
    OBVIOUS
  <2>2. /\ table[k].blank \in Nat /\ table[k].symbol \in Nat /\ part.blank \in Nat /\ part.symbol \in Nat
    BY <2>1 DEF BeamRecord
  <2>3. table[k].blank + part.blank \in Nat /\ table[k].symbol + part.symbol \in Nat
    BY <2>2
  <2>. QED  BY <2>1, <2>3 DEF BeamRecord
<1>2. Slot(table, part) = IF same = {} THEN Append(table, part)
                          ELSE [k \in DOMAIN table |-> IF k \in same THEN more(k) ELSE table[k]]
  BY DEF Slot
<1>. HIDE DEF same, more
<1>3. Append(table, part) \in Seq(R)
  OBVIOUS
<1>. HIDE DEF R
<1>4. [k \in DOMAIN table |-> IF k \in same THEN more(k) ELSE table[k]] \in [1 .. Len(table) -> R]
  BY <1>0, <1>1 DEF R
<1>5. [k \in DOMAIN table |-> IF k \in same THEN more(k) ELSE table[k]] \in Seq(R)
  BY <1>0, <1>4
<1>. QED  BY <1>2, <1>3, <1>5 DEF R

\* What becomes of a table's slots when a part is added.
LEMMA SlotIs ==
  ASSUME NEW Q, NEW table \in Seq(BeamRecord(Q)), NEW part \in BeamRecord(Q), OneSlotEach(table),
         NEW after, after = Slot(table, part)
  PROVE  /\ OneSlotEach(after)
         /\ \A p : HasSlot(after, p) <=> HasSlot(table, p) \/ p = part.prefix
         /\ \A k \in DOMAIN after :
              \/ /\ after[k].prefix # part.prefix
                 /\ \E j \in DOMAIN table : after[k] = table[j]
              \/ /\ after[k].prefix = part.prefix
                 /\ \/ ~HasSlot(table, part.prefix) /\ after[k] = part
                    \/ \E j \in DOMAIN table :
                         /\ table[j].prefix = part.prefix /\ after[k].state = table[j].state
                         /\ after[k].blank = table[j].blank + part.blank
                         /\ after[k].symbol = table[j].symbol + part.symbol
<1>. DEFINE same == {k \in DOMAIN table : table[k].prefix = part.prefix}
            more(k) == [table[k] EXCEPT !.blank = @ + part.blank, !.symbol = @ + part.symbol]
<1>0. DOMAIN table = 1 .. Len(table) /\ Len(table) \in Nat
  OBVIOUS
<1>1. after = IF same = {} THEN Append(table, part)
              ELSE [k \in DOMAIN table |-> IF k \in same THEN more(k) ELSE table[k]]
  BY DEF Slot
<1>2. CASE same = {}
  <2>1. after = Append(table, part) /\ ~HasSlot(table, part.prefix)
    BY <1>1, <1>2 DEF HasSlot
  <2>2. /\ DOMAIN after = 1 .. Len(table) + 1 /\ after[Len(table) + 1] = part
        /\ \A k \in 1 .. Len(table) : after[k] = table[k]
    BY <2>1
  <2>3. OneSlotEach(after)
    BY <1>0, <2>1, <2>2 DEF OneSlotEach, HasSlot
  <2>4. ASSUME NEW p PROVE HasSlot(after, p) <=> HasSlot(table, p) \/ p = part.prefix
    BY <1>0, <2>2 DEF HasSlot
  <2>5. ASSUME NEW k \in DOMAIN after
        PROVE  \/ after[k].prefix # part.prefix /\ \E j \in DOMAIN table : after[k] = table[j]
               \/ after[k].prefix = part.prefix /\ after[k] = part
    <3>1. CASE k = Len(table) + 1
      BY <2>2, <3>1
    <3>2. CASE k \in 1 .. Len(table)
      BY <1>0, <2>1, <2>2, <3>2 DEF HasSlot
    <3>. QED  BY <1>0, <2>2, <3>1, <3>2
  <2>. QED  BY <2>1, <2>3, <2>4, <2>5
<1>3. CASE same # {}
  <2>1. after = [k \in DOMAIN table |-> IF k \in same THEN more(k) ELSE table[k]]
    BY <1>1, <1>3
  <2>2. \A k \in DOMAIN table : table[k] \in BeamRecord(Q)
    OBVIOUS
  <2>3. DOMAIN after = DOMAIN table
    BY <2>1
  <2>4. ASSUME NEW k \in DOMAIN table
        PROVE  /\ after[k].prefix = table[k].prefix
               /\ k \notin same => after[k] = table[k]
               /\ k \in same => /\ after[k].state = table[k].state
                                /\ after[k].blank = table[k].blank + part.blank
                                /\ after[k].symbol = table[k].symbol + part.symbol
    <3>1. after[k] = IF k \in same THEN more(k) ELSE table[k]
      BY <2>1
    <3>2. more(k).prefix = table[k].prefix /\ more(k).state = table[k].state
          /\ more(k).blank = table[k].blank + part.blank /\ more(k).symbol = table[k].symbol + part.symbol
      BY <2>2 DEF BeamRecord
    <3>. HIDE DEF same, more
    <3>. QED  BY <3>1, <3>2
  <2>5. OneSlotEach(after)
    BY <2>3, <2>4 DEF OneSlotEach
  <2>6. ASSUME NEW p PROVE HasSlot(after, p) <=> HasSlot(table, p) \/ p = part.prefix
    <3>1. HasSlot(table, part.prefix)
      BY <1>3 DEF HasSlot
    <3>. QED  BY <2>3, <2>4, <3>1 DEF HasSlot
  <2>7. \A k \in DOMAIN table : k \in same <=> table[k].prefix = part.prefix
    OBVIOUS
  <2>. HIDE DEF same, more
  <2>8. ASSUME NEW k \in DOMAIN after
        PROVE  \/ after[k].prefix # part.prefix /\ \E j \in DOMAIN table : after[k] = table[j]
               \/ after[k].prefix = part.prefix
                  /\ \E j \in DOMAIN table :
                         /\ table[j].prefix = part.prefix /\ after[k].state = table[j].state
                         /\ after[k].blank = table[j].blank + part.blank
                         /\ after[k].symbol = table[j].symbol + part.symbol
    BY <2>3, <2>4, <2>7
  <2>. QED  BY <2>5, <2>6, <2>8
<1>. QED  BY <1>2, <1>3

\* The table holds the parts own[p] for p in A and more[p] for p in B, and nothing else.
Gathers(table, A, B, own, more) ==
  /\ OneSlotEach(table)
  /\ \A p : HasSlot(table, p) <=> p \in A \cup B
  /\ \A k \in DOMAIN table :
       LET p == table[k].prefix
       IN  /\ table[k].blank = (IF p \in A THEN own[p].blank ELSE 0) + (IF p \in B THEN more[p].blank ELSE 0)
           /\ table[k].symbol = (IF p \in A THEN own[p].symbol ELSE 0) + (IF p \in B THEN more[p].symbol ELSE 0)
           /\ table[k].state = IF p \in A THEN own[p].state ELSE more[p].state

\* The parts of one kind: what one beam gives to one prefix.
Parts(Q, P, parts) == parts \in [P -> BeamRecord(Q)] /\ \A p \in P : parts[p].prefix = p

\* A table that gathers from own and more gathers one more part of own ...
LEMMA GatherOwn ==
  ASSUME NEW Q, NEW table \in Seq(BeamRecord(Q)),
         NEW PA, NEW own, Parts(Q, PA, own), NEW PB, NEW more, Parts(Q, PB, more),
         \A p \in PA \cap PB : own[p].state = more[p].state,
         NEW A \in SUBSET PA, NEW B \in SUBSET PB, Gathers(table, A, B, own, more),
         NEW q \in PA, q \notin A
  PROVE  Gathers(Slot(table, own[q]), A \cup {q}, B, own, more)
<1>. DEFINE after == Slot(table, own[q])
<1>1. own[q] \in BeamRecord(Q) /\ own[q].prefix = q
  BY DEF Parts
<1>2. \A p \in PA : own[p].blank \in Nat /\ own[p].symbol \in Nat
  BY DEF Parts, BeamRecord
<1>3. \A p \in PB : more[p].blank \in Nat /\ more[p].symbol \in Nat
  BY DEF Parts, BeamRecord
<1>4. /\ OneSlotEach(after)
      /\ \A p : HasSlot(after, p) <=> HasSlot(table, p) \/ p = q
      /\ \A k \in DOMAIN after :
           \/ after[k].prefix # q /\ \E j \in DOMAIN table : after[k] = table[j]
           \/ /\ after[k].prefix = q
              /\ \/ ~HasSlot(table, q) /\ after[k] = own[q]
                 \/ \E j \in DOMAIN table :
                      /\ table[j].prefix = q /\ after[k].state = table[j].state
                      /\ after[k].blank = table[j].blank + own[q].blank
                      /\ after[k].symbol = table[j].symbol + own[q].symbol
  <2>1. OneSlotEach(table)
    BY DEF Gathers
  <2>. HIDE DEF after
  <2>2. after = Slot(table, own[q])
    BY DEF after
  <2>. QED  BY <1>1, <2>1, <2>2, SlotIs
<1>. HIDE DEF after
<1>5. ASSUME NEW k \in DOMAIN after
      PROVE  LET p == after[k].prefix
             IN  /\ after[k].blank = (IF p \in A \cup {q} THEN own[p].blank ELSE 0)
                                     + (IF p \in B THEN more[p].blank ELSE 0)
                 /\ after[k].symbol = (IF p \in A \cup {q} THEN own[p].symbol ELSE 0)
                                      + (IF p \in B THEN more[p].symbol ELSE 0)
                 /\ after[k].state = IF p \in A \cup {q} THEN own[p].state ELSE more[p].state
  <2>1. CASE after[k].prefix # q
    <3>1. PICK j \in DOMAIN table : after[k] = table[j]
      BY <1>4, <2>1
    <3>. QED  BY <2>1, <3>1 DEF Gathers
  <2>2. CASE after[k].prefix = q /\ ~HasSlot(table, q) /\ after[k] = own[q]
    <3>1. q \notin B
      BY <2>2 DEF Gathers
    <3>. QED  BY <1>2, <2>2, <3>1
  <2>3. CASE after[k].prefix = q /\ \E j \in DOMAIN table :
                      /\ table[j].prefix = q /\ after[k].state = table[j].state
                      /\ after[k].blank = table[j].blank + own[q].blank
                      /\ after[k].symbol = table[j].symbol + own[q].symbol
    <3>1. PICK j \in DOMAIN table :
                      /\ table[j].prefix = q /\ after[k].state = table[j].state
                      /\ after[k].blank = table[j].blank + own[q].blank
                      /\ after[k].symbol = table[j].symbol + own[q].symbol
      BY <2>3
    <3>2. q \in B
      BY <3>1 DEF Gathers, HasSlot
    <3>3. table[j].blank = 0 + more[q].blank /\ table[j].symbol = 0 + more[q].symbol /\ table[j].state = more[q].state
      BY <3>1, <3>2 DEF Gathers
    <3>4. after[k].blank = own[q].blank + more[q].blank /\ after[k].symbol = own[q].symbol + more[q].symbol
      BY <1>2, <1>3, <3>1, <3>2, <3>3
    <3>5. after[k].state = own[q].state
      BY <3>1, <3>2, <3>3
    <3>. QED  BY <2>3, <3>2, <3>4, <3>5
  <2>. QED  BY <1>4, <2>1, <2>2, <2>3
<1>6. \A p : HasSlot(after, p) <=> p \in (A \cup {q}) \cup B
  <2>. TAKE p
  <2>1. HasSlot(table, p) <=> p \in A \cup B
    BY DEF Gathers
  <2>. QED  BY <1>4, <2>1
<1>. QED  BY <1>4, <1>5, <1>6, Zenon DEF Gathers, after

-----------------------------------------------------------------------------
(***************************************************************************)
(* A turn over one beam gathers what stays and what grows.                 *)
(***************************************************************************)
\* ... and one more part of more: a slot holds what both say of its prefix.
LEMMA GatherMore ==
  ASSUME NEW Q, NEW table \in Seq(BeamRecord(Q)),
         NEW PA, NEW own, Parts(Q, PA, own), NEW PB, NEW more, Parts(Q, PB, more),
         \A p \in PA \cap PB : own[p].state = more[p].state,
         NEW A \in SUBSET PA, NEW B \in SUBSET PB, Gathers(table, A, B, own, more),
         NEW q \in PB, q \notin B
  PROVE  Gathers(Slot(table, more[q]), A, B \cup {q}, own, more)
<1>. DEFINE after == Slot(table, more[q])
<1>1. more[q] \in BeamRecord(Q) /\ more[q].prefix = q
  BY DEF Parts
<1>2. \A p \in PA : own[p].blank \in Nat /\ own[p].symbol \in Nat
  BY DEF Parts, BeamRecord
<1>3. \A p \in PB : more[p].blank \in Nat /\ more[p].symbol \in Nat
  BY DEF Parts, BeamRecord
<1>4. /\ OneSlotEach(after)
      /\ \A p : HasSlot(after, p) <=> HasSlot(table, p) \/ p = q
      /\ \A k \in DOMAIN after :
           \/ after[k].prefix # q /\ \E j \in DOMAIN table : after[k] = table[j]
           \/ /\ after[k].prefix = q
              /\ \/ ~HasSlot(table, q) /\ after[k] = more[q]
                 \/ \E j \in DOMAIN table :
                      /\ table[j].prefix = q /\ after[k].state = table[j].state
                      /\ after[k].blank = table[j].blank + more[q].blank
                      /\ after[k].symbol = table[j].symbol + more[q].symbol
  <2>1. OneSlotEach(table)
    BY DEF Gathers
  <2>. HIDE DEF after
  <2>2. after = Slot(table, more[q])
    BY DEF after
  <2>. QED  BY <1>1, <2>1, <2>2, SlotIs
<1>. HIDE DEF after
<1>5. ASSUME NEW k \in DOMAIN after
      PROVE  LET p == after[k].prefix
             IN  /\ after[k].blank = (IF p \in A THEN own[p].blank ELSE 0)
                                     + (IF p \in B \cup {q} THEN more[p].blank ELSE 0)
                 /\ after[k].symbol = (IF p \in A THEN own[p].symbol ELSE 0)
                                      + (IF p \in B \cup {q} THEN more[p].symbol ELSE 0)
                 /\ after[k].state = IF p \in A THEN own[p].state ELSE more[p].state
  <2>1. CASE after[k].prefix # q
    <3>1. PICK j \in DOMAIN table : after[k] = table[j]
      BY <1>4, <2>1
    <3>. QED  BY <2>1, <3>1 DEF Gathers
  <2>2. CASE after[k].prefix = q /\ ~HasSlot(table, q) /\ after[k] = more[q]
    <3>1. q \notin A
      BY <2>2 DEF Gathers
    <3>. QED  BY <1>3, <2>2, <3>1
  <2>3. CASE after[k].prefix = q /\ \E j \in DOMAIN table :
                      /\ table[j].prefix = q /\ after[k].state = table[j].state
                      /\ after[k].blank = table[j].blank + more[q].blank
                      /\ after[k].symbol = table[j].symbol + more[q].symbol
    <3>1. PICK j \in DOMAIN table :
                      /\ table[j].prefix = q /\ after[k].state = table[j].state
                      /\ after[k].blank = table[j].blank + more[q].blank
                      /\ after[k].symbol = table[j].symbol + more[q].symbol
      BY <2>3
    <3>2. q \in A
      BY <3>1 DEF Gathers, HasSlot
    <3>3. table[j].blank = own[q].blank + 0 /\ table[j].symbol = own[q].symbol + 0 /\ table[j].state = own[q].state
      BY <3>1, <3>2 DEF Gathers
    <3>4. after[k].blank = own[q].blank + more[q].blank /\ after[k].symbol = own[q].symbol + more[q].symbol
      BY <1>2, <1>3, <3>1, <3>2, <3>3
    <3>5. after[k].state = own[q].state
      BY <3>1, <3>2, <3>3
    <3>. QED  BY <2>3, <3>2, <3>4, <3>5
  <2>. QED  BY <1>4, <2>1, <2>2, <2>3
<1>6. \A p : HasSlot(after, p) <=> p \in A \cup (B \cup {q})
  <2>. TAKE p
  <2>1. HasSlot(table, p) <=> p \in A \cup B
    BY DEF Gathers
  <2>. QED  BY <1>4, <2>1
<1>. QED  BY <1>4, <1>5, <1>6, Zenon DEF Gathers, after

\* The state of a prefix, st[p], follows the automaton in a constrained search.
Steered(Q, st, constrained) ==
  /\ st \in [Seq(Symbols) -> Q]
  /\ \A p \in Seq(Symbols) : \A c \in Symbols :
       st[Append(p, c)] = IF constrained THEN StepTo(st[p], c) ELSE st[p]

\* A beam's state is the one that st gives its prefix.
ABeam(Q, st, b) == b \in BeamRecord(Q) /\ b.state = st[b.prefix]

\* What Stay makes of a beam.
LEMMA StayIs ==
  ASSUME NEW Q, NEW st, NEW b, ABeam(Q, st, b), NEW row \in [Classes -> Nat]
  PROVE  /\ Stay(b, row) \in BeamRecord(Q)
         /\ Stay(b, row).prefix = b.prefix /\ Stay(b, row).state = b.state
         /\ Stay(b, row).blank = (b.blank + b.symbol) * row[BLANK]
         /\ Stay(b, row).symbol = IF b.prefix = <<>> THEN 0 ELSE b.symbol * row[Last(b.prefix)]
<1>1. /\ b \in BeamRecord(Q) /\ b.blank \in Nat /\ b.symbol \in Nat /\ b.prefix \in Seq(Symbols)
  BY DEF ABeam, BeamRecord
<1>2. row[BLANK] \in Nat
  BY DEF Classes
<1>3. (b.blank + b.symbol) * row[BLANK] \in Nat
  BY <1>1, <1>2
<1>4. b.prefix # <<>> => b.symbol * row[Last(b.prefix)] \in Nat
  <2>1. SUFFICES ASSUME b.prefix # <<>> PROVE b.symbol * row[Last(b.prefix)] \in Nat
    OBVIOUS
  <2>2. Last(b.prefix) \in Symbols
    BY <1>1, <2>1 DEF Last
  <2>3. row[Last(b.prefix)] \in Nat
    BY <2>2 DEF Classes
  <2>. QED  BY <1>1, <2>3
<1>. DEFINE x == (b.blank + b.symbol) * row[BLANK]
            y == IF b.prefix = <<>> THEN 0 ELSE b.symbol * row[Last(b.prefix)]
<1>5. x \in Nat /\ y \in Nat /\ Stay(b, row) = [b EXCEPT !.blank = x, !.symbol = y]
  BY <1>3, <1>4 DEF Stay, Total
<1>. HIDE DEF x, y
<1>6. /\ Stay(b, row) \in BeamRecord(Q)
      /\ Stay(b, row).prefix = b.prefix /\ Stay(b, row).state = b.state
      /\ Stay(b, row).blank = x /\ Stay(b, row).symbol = y
  BY <1>1, <1>5 DEF BeamRecord
<1>. QED  BY <1>6 DEF x, y

\* What Extended makes of a beam.
LEMMA ExtendedIs ==
  ASSUME NEW Q, NEW st, NEW constrained \in BOOLEAN, Steered(Q, st, constrained),
         NEW b, ABeam(Q, st, b), NEW row \in [Classes -> Nat], NEW c \in Symbols
  PROVE  LET e == Extended(b, c, row, constrained)
         IN  /\ ABeam(Q, st, e)
             /\ e.prefix = Append(b.prefix, c) /\ e.blank = 0
             /\ e.symbol = (IF b.prefix # <<>> /\ c = Last(b.prefix) THEN b.blank ELSE b.blank + b.symbol) * row[c]
<1>1. /\ b.blank \in Nat /\ b.symbol \in Nat /\ b.prefix \in Seq(Symbols) /\ b.state = st[b.prefix]
  BY DEF ABeam, BeamRecord
<1>2. row[c] \in Nat
  BY DEF Classes
<1>. DEFINE x == IF b.prefix # <<>> /\ c = Last(b.prefix) THEN b.blank ELSE b.blank + b.symbol
            q == StateAfter(b, c, constrained)
            e == Extended(b, c, row, constrained)
            p == Append(b.prefix, c)
<1>3. x \in Nat /\ x = Source(b, c)
  BY <1>1 DEF Source, Total
<1>4. p \in Seq(Symbols)
  BY <1>1
<1>5. q = st[p] /\ q \in Q
  BY <1>1, <1>4 DEF Steered, StateAfter
<1>. DEFINE y == x * row[c]
<1>6. y \in Nat
  BY <1>2, <1>3
<1>7. e = [prefix |-> p, blank |-> 0, symbol |-> y, state |-> q]
  BY <1>3 DEF Extended
<1>. HIDE DEF p, q, x, y, e
<1>8. ABeam(Q, st, e) /\ e.prefix = p /\ e.blank = 0 /\ e.symbol = y
  BY <1>4, <1>5, <1>6, <1>7 DEF ABeam, BeamRecord
<1>. QED  BY <1>8 DEF e, p, y, x

\* The prefixes that one beam grows to with the first m symbols.
Grown(b, row, constrained, prune, m) ==
  {Append(b.prefix, c) : c \in {c \in 1 .. m : Grows(b, c, row, constrained, prune)}}

\* The classes are 0 (the blank) up to this one.
Alphabet == Cardinality(Symbols)

\* The table during the turn of a beam, after the first c symbols.
TurnRun(w, Q, table, b, row, constrained, prune) ==
  /\ w \in [0 .. Alphabet -> Seq(BeamRecord(Q))]
  /\ w[0] = Slot(table, Stay(b, row))
  /\ \A c \in 1 .. Alphabet :
       w[c] = IF Grows(b, c, row, constrained, prune) THEN Slot(w[c - 1], Extended(b, c, row, constrained))
              ELSE w[c - 1]

\* A turn fills slot by slot.
LEMMA TurnRuns ==
  ASSUME NEW Q, NEW st, NEW constrained \in BOOLEAN, Steered(Q, st, constrained),
         NEW row \in [Classes -> Nat], NEW prune,
         NEW table \in Seq(BeamRecord(Q)), NEW b, ABeam(Q, st, b)
  PROVE  \E w : /\ TurnRun(w, Q, table, b, row, constrained, prune)
                /\ Turn(table, b, row, constrained, prune) = w[Alphabet]
<1>. DEFINE V == Seq(BeamRecord(Q))
            N == Alphabet
            grows(c) == Grows(b, c, row, constrained, prune)
            part(c) == Extended(b, c, row, constrained)
            first == Slot(table, Stay(b, row))
            next(t, c) == IF grows(c) THEN Slot(t, part(c)) ELSE t
            step == [c \in 1 .. N |-> [t \in V |-> next(t, c)]]
<1>0. N \in Nat /\ Symbols = 1 .. N /\ {BLANK} \cup Symbols = 0 .. N
  BY SymbolsAssumption DEF Alphabet, BLANK
<1>1. first \in V
  BY StayIs, SlotType
<1>2. ASSUME NEW c \in 1 .. N, NEW t \in V PROVE next(t, c) \in V
  <2>1. part(c) \in BeamRecord(Q)
    BY <1>0, ExtendedIs DEF ABeam
  <2>2. Slot(t, part(c)) \in V
    BY <2>1, SlotType
  <2>. QED  BY <2>2
<1>. HIDE DEF V, first, next, N
<1>3. step \in [1 .. N -> [V -> V]]
  BY <1>2
<1>4. PICK g \in [0 .. N -> V] : g[0] = first /\ \A c \in 1 .. N : g[c] = step[c][g[c - 1]]
  <2>. HIDE DEF step
  <2>1. \E g : Recurs(g, N, V, first, step)
    BY <1>0, <1>1, <1>3, RecursionExists
  <2>. QED  BY <2>1 DEF Recurs
<1>5. ASSUME NEW c \in 1 .. N PROVE g[c] = next(g[c - 1], c)
  <2>1. g[c - 1] \in V
    BY <1>0
  <2>. QED  BY <2>1, <1>4
<1>6. g = [c \in 0 .. N |-> IF c = 0 THEN first ELSE next(g[c - 1], c)]
  BY <1>0, <1>4, <1>5
<1>. DEFINE w0 == CHOOSE h : h = [c \in {BLANK} \cup Symbols |->
                  IF c = BLANK THEN first ELSE IF grows(c) THEN Slot(h[c - 1], part(c)) ELSE h[c - 1]]
<1>7. w0 = [c \in {BLANK} \cup Symbols |->
              IF c = BLANK THEN first ELSE IF grows(c) THEN Slot(w0[c - 1], part(c)) ELSE w0[c - 1]]
  <2>. DEFINE Is(h) == h = [c \in {BLANK} \cup Symbols |->
                  IF c = BLANK THEN first ELSE IF grows(c) THEN Slot(h[c - 1], part(c)) ELSE h[c - 1]]
  <2>1. Is(g)
    BY <1>0, <1>6 DEF next, BLANK
  <2>. HIDE DEF Is
  <2>2. Is(CHOOSE h : Is(h))
    BY <2>1, Zenon
  <2>. QED  BY <2>2 DEF Is
<1>8. Turn(table, b, row, constrained, prune) = w0[N]
  BY Zenon DEF Turn, N, Alphabet, first
<1>. HIDE DEF w0
<1>9. w0[0] = first /\ \A c \in 1 .. N : w0[c] = next(w0[c - 1], c)
  <2>1. \A c \in 0 .. N : w0[c] = IF c = 0 THEN first ELSE next(w0[c - 1], c)
    BY <1>0, <1>7 DEF next, BLANK
  <2>. QED  BY <1>0, <2>1
<1>10. w0 \in [0 .. N -> V]
  <2>. DEFINE P(m) == m <= N => w0[m] \in V
              T == {m \in Nat : P(m)}
  <2>1. P(0)
    BY <1>1, <1>9
  <2>2. ASSUME NEW m \in Nat, P(m) PROVE P(m + 1)
    <3>. SUFFICES ASSUME m + 1 <= N PROVE w0[m + 1] \in V
      OBVIOUS
    <3>1. m + 1 \in 1 .. N /\ w0[m] \in V
      BY <1>0, <2>2
    <3>2. w0[m + 1] = next(w0[m], m + 1)
      BY <1>9, <3>1
    <3>. QED  BY <1>2, <3>1, <3>2
  <2>. HIDE DEF P
  <2>3. T \in SUBSET Nat /\ 0 \in T /\ \A m \in T : m + 1 \in T
    BY <2>1, <2>2
  <2>. HIDE DEF T
  <2>4. T = Nat
    BY <2>3, Induction
  <2>5. \A m \in 0 .. N : w0[m] \in V
    BY <1>0, <2>4 DEF T, P
  <2>6. w0 = [c \in 0 .. N |-> w0[c]]
    BY <1>0, <1>7
  <2>. QED  BY <2>5, <2>6
<1>11. TurnRun(w0, Q, table, b, row, constrained, prune)
  BY <1>9, <1>10 DEF TurnRun, next, first, V, N
<1>. QED  BY <1>8, <1>11 DEF N

\* The turn of one beam adds its parts.
LEMMA TurnGathers ==
  ASSUME NEW Q, NEW st, NEW constrained \in BOOLEAN, Steered(Q, st, constrained),
         NEW row \in [Classes -> Nat], NEW prune,
         NEW PA, NEW own, Parts(Q, PA, own), NEW PB, NEW more, Parts(Q, PB, more),
         \A p \in PA \cap PB : own[p].state = more[p].state,
         NEW A \in SUBSET PA, NEW B \in SUBSET PB,
         NEW table \in Seq(BeamRecord(Q)), Gathers(table, A, B, own, more),
         NEW b, ABeam(Q, st, b), b.prefix \in PA \ A, own[b.prefix] = Stay(b, row),
         \A c \in Symbols : Grows(b, c, row, constrained, prune) =>
           /\ Append(b.prefix, c) \in PB \ B
           /\ more[Append(b.prefix, c)] = Extended(b, c, row, constrained)
  PROVE  LET after == Turn(table, b, row, constrained, prune)
         IN  /\ after \in Seq(BeamRecord(Q))
             /\ Gathers(after, A \cup {b.prefix},
                        B \cup Grown(b, row, constrained, prune, Alphabet), own, more)
<1>. DEFINE V == Seq(BeamRecord(Q))
            N == Alphabet
            grows(c) == Grows(b, c, row, constrained, prune)
            part(c) == Extended(b, c, row, constrained)
            first == Slot(table, Stay(b, row))
            next(t, c) == IF grows(c) THEN Slot(t, part(c)) ELSE t
<1>0. N \in Nat /\ Symbols = 1 .. N
  BY SymbolsAssumption DEF Alphabet
<1>1. PICK w0 : TurnRun(w0, Q, table, b, row, constrained, prune) /\ Turn(table, b, row, constrained, prune) = w0[N]
  BY TurnRuns
<1>8. Turn(table, b, row, constrained, prune) = w0[N]
  BY <1>1
<1>9. w0[0] = first /\ (\A c \in 1 .. N : w0[c] = next(w0[c - 1], c)) /\ \A c \in 0 .. N : w0[c] \in V
  BY <1>1 DEF TurnRun
<1>. HIDE DEF V, N, first, next
<1>. DEFINE G(m) == Grown(b, row, constrained, prune, m)
            P(m) == m <= N => w0[m] \in V /\ Gathers(w0[m], A \cup {b.prefix}, B \cup G(m), own, more)
<1>10. P(0)
  <2>1. G(0) = {}
    BY DEF Grown
  <2>2. Gathers(first, A \cup {b.prefix}, B, own, more)
    BY GatherOwn DEF first
  <2>3. B \cup G(0) = B
    BY <2>1
  <2>. HIDE DEF G
  <2>4. w0[0] \in V
    BY <1>0, <1>9
  <2>. QED  BY <1>9, <2>2, <2>3, <2>4
<1>11. ASSUME NEW m \in Nat, P(m) PROVE P(m + 1)
  <2>. SUFFICES ASSUME m + 1 <= N
                PROVE  w0[m + 1] \in V /\ Gathers(w0[m + 1], A \cup {b.prefix}, B \cup G(m + 1), own, more)
    OBVIOUS
  <2>1. w0[m] \in V /\ Gathers(w0[m], A \cup {b.prefix}, B \cup G(m), own, more)
    BY <1>0, <1>11
  <2>2. m + 1 \in 1 .. N /\ m + 1 \in Symbols
    BY <1>0
  <2>3. w0[m + 1] = next(w0[m], m + 1)
    BY <1>9, <2>2
  <2>4. w0[m + 1] \in V
    BY <1>9, <2>2
  <2>. DEFINE q == Append(b.prefix, m + 1)
  <2>5. CASE ~grows(m + 1)
    <3>1. G(m + 1) = G(m)
      BY <2>5 DEF Grown
    <3>2. w0[m + 1] = w0[m]
      BY <2>3, <2>5 DEF next
    <3>. HIDE DEF G
    <3>. QED  BY <2>1, <3>1, <3>2
  <2>6. CASE grows(m + 1)
    <3>0. b.prefix \in Seq(Symbols)
      BY DEF ABeam, BeamRecord
    <3>1. G(m + 1) = G(m) \cup {q}
      <4>1. {c \in 1 .. m + 1 : Grows(b, c, row, constrained, prune)}
            = {c \in 1 .. m : Grows(b, c, row, constrained, prune)} \cup {m + 1}
        BY <2>6
      <4>. QED  BY <4>1 DEF Grown
    <3>2. q \notin G(m)
      <4>1. ASSUME NEW c \in 1 .. m, Append(b.prefix, c) = q PROVE FALSE
        <5>1. Append(b.prefix, c)[Len(b.prefix) + 1] = c /\ q[Len(b.prefix) + 1] = m + 1
          BY <3>0
        <5>. QED  BY <4>1, <5>1
      <4>. QED  BY <4>1 DEF Grown
    <3>3. q \in PB \ B /\ more[q] = part(m + 1)
      BY <2>2, <2>6
    <3>4. G(m) \in SUBSET PB
      <4>1. ASSUME NEW c \in 1 .. m, grows(c) PROVE Append(b.prefix, c) \in PB
        BY <1>0, <2>2, <4>1
      <4>. QED  BY <4>1 DEF Grown
    <3>5. w0[m + 1] = Slot(w0[m], more[q])
      BY <2>3, <2>6, <3>3 DEF next
    <3>. DEFINE B1 == B \cup G(m)
                A1 == A \cup {b.prefix}
                t1 == w0[m]
    <3>6. B1 \in SUBSET PB /\ A1 \in SUBSET PA /\ q \in PB /\ q \notin B1 /\ t1 \in Seq(BeamRecord(Q))
      BY <2>1, <3>2, <3>3, <3>4 DEF V
    <3>7. Gathers(t1, A1, B1, own, more)
      BY <2>1
    <3>. HIDE DEF q, G, A1, B1, t1
    <3>8. Gathers(Slot(t1, more[q]), A1, B1 \cup {q}, own, more)
      BY <3>6, <3>7, GatherMore
    <3>9. B1 \cup {q} = B \cup G(m + 1)
      BY <3>1 DEF B1
    <3>. QED  BY <2>4, <3>5, <3>8, <3>9 DEF A1, t1
  <2>. QED  BY <2>4, <2>5, <2>6
<1>. HIDE DEF P
<1>12. {m \in Nat : P(m)} = Nat
  <2>. DEFINE T == {m \in Nat : P(m)}
  <2>1. T \in SUBSET Nat /\ 0 \in T /\ \A m \in T : m + 1 \in T
    BY <1>10, <1>11
  <2>. HIDE DEF T
  <2>2. T = Nat
    BY <2>1, Induction
  <2>. QED  BY <2>2 DEF T
<1>13. P(N) /\ N <= N
  BY <1>0, <1>12
<1>. QED  BY <1>8, <1>13 DEF P, V, N

-----------------------------------------------------------------------------
(***************************************************************************)
(* The table of the next frame.                                            *)
(***************************************************************************)
\* The prefixes that beams grow to.
GrownTo(beams, row, constrained, prune, p) ==
  \E i \in DOMAIN beams : \E c \in Symbols :
    Grows(beams[i], c, row, constrained, prune) /\ p = Append(beams[i].prefix, c)

\* What a table holds for a prefix.
Held(table, p) ==
  IF HasSlot(table, p) THEN table[CHOOSE k \in DOMAIN table : table[k].prefix = p]
  ELSE [blank |-> 0, symbol |-> 0]

\* Beams of a search: every prefix once, with the automaton's state.
Search(Q, st, beams) ==
  /\ beams \in Seq(BeamRecord(Q)) /\ OneSlotEach(beams)
  /\ \A i \in DOMAIN beams : ABeam(Q, st, beams[i])

\* The slot of p after one more row.
NextSlot(beams, row, constrained, prune, slot) ==
  LET own == Held(beams, slot.prefix)
  IN  /\ slot.blank = (own.blank + own.symbol) * row[BLANK]
      /\ slot.prefix = <<>> => slot.symbol = 0
      /\ \A q \in Seq(Symbols), c \in Symbols : slot.prefix = Append(q, c) =>
           LET before == Held(beams, q)
               source == IF q # <<>> /\ c = Last(q) THEN before.blank ELSE before.blank + before.symbol
           IN  slot.symbol = own.symbol * row[c]
                 + (IF GrownTo(beams, row, constrained, prune, slot.prefix) THEN source * row[c] ELSE 0)

\* A slot is what is held for its prefix.
LEMMA HeldIs ==
  ASSUME NEW table, OneSlotEach(table), NEW k \in DOMAIN table
  PROVE  Held(table, table[k].prefix) = table[k]
<1>. DEFINE p == table[k].prefix
            same(j) == j \in DOMAIN table /\ table[j].prefix = p
<1>1. HasSlot(table, p) /\ \E j \in DOMAIN table : table[j].prefix = p
  BY DEF HasSlot
<1>2. DEFINE c == CHOOSE j \in DOMAIN table : table[j].prefix = p
<1>3. c \in DOMAIN table /\ table[c].prefix = p
  BY <1>1
<1>4. c = k
  BY <1>3 DEF OneSlotEach
<1>5. Held(table, p) = table[c]
  BY <1>1 DEF Held
<1>. QED  BY <1>4, <1>5

\* The table of the next frame has a slot for every old prefix and for every prefix that grows,
\* with the masses that the recurrence of CTC gives them.
LEMMA NextTableIs ==
  ASSUME NEW Q, NEW st, NEW constrained \in BOOLEAN, Steered(Q, st, constrained),
         NEW row \in [Classes -> Nat], NEW prune, NEW beams, Search(Q, st, beams)
  PROVE  LET after == NextTable(beams, row, constrained, prune)
         IN  /\ Search(Q, st, after)
             /\ \A p : HasSlot(after, p) <=> HasSlot(beams, p) \/ GrownTo(beams, row, constrained, prune, p)
             /\ \A k \in DOMAIN after : NextSlot(beams, row, constrained, prune, after[k])
<1>. DEFINE N == Len(beams)
            V == Seq(BeamRecord(Q))
            A(n) == {beams[i].prefix : i \in 1 .. n}
            grown(i) == Grown(beams[i], row, constrained, prune, Alphabet)
            B(n) == UNION {grown(i) : i \in 1 .. n}
            own == [p \in A(N) |-> Stay(Held(beams, p), row)]
            IsMore(e, p) == \E i \in DOMAIN beams : \E c \in Symbols :
                              /\ Grows(beams[i], c, row, constrained, prune)
                              /\ p = Append(beams[i].prefix, c)
                              /\ e = Extended(beams[i], c, row, constrained)
            more == [p \in B(N) |-> CHOOSE e : IsMore(e, p)]
<1>0. /\ N \in Nat /\ DOMAIN beams = 1 .. N /\ OneSlotEach(beams)
      /\ \A i \in 1 .. N : /\ ABeam(Q, st, beams[i]) /\ beams[i] \in BeamRecord(Q)
                           /\ beams[i].prefix \in Seq(Symbols) /\ beams[i].blank \in Nat /\ beams[i].symbol \in Nat
  <2>1. N \in Nat /\ DOMAIN beams = 1 .. N /\ OneSlotEach(beams) /\ \A i \in 1 .. N : ABeam(Q, st, beams[i])
    BY DEF Search
  <2>. QED  BY <2>1 DEF ABeam, BeamRecord
<1>1. Alphabet \in Nat /\ Symbols = 1 .. Alphabet
  BY SymbolsAssumption DEF Alphabet
<1>2. ASSUME NEW i \in 1 .. N, NEW p
      PROVE  p \in grown(i) <=> \E c \in Symbols : Grows(beams[i], c, row, constrained, prune) /\ p = Append(beams[i].prefix, c)
  BY <1>1 DEF Grown
<1>3. ASSUME NEW p PROVE p \in B(N) <=> GrownTo(beams, row, constrained, prune, p)
  <2>2. DOMAIN beams = 1 .. N
    BY <1>0
  <2>. HIDE DEF N
  <2>1. p \in B(N) <=> \E i \in 1 .. N : p \in grown(i)
    OBVIOUS
  <2>. HIDE DEF B, grown
  <2>3. p \in B(N) <=> \E i \in 1 .. N : \E c \in Symbols :
          Grows(beams[i], c, row, constrained, prune) /\ p = Append(beams[i].prefix, c)
    BY <1>2, <2>1
  <2>. QED  BY <2>2, <2>3 DEF GrownTo
<1>4. ASSUME NEW i \in 1 .. N PROVE own[beams[i].prefix] = Stay(beams[i], row) /\ beams[i].prefix \in A(N)
  <2>1. Held(beams, beams[i].prefix) = beams[i]
    BY <1>0, HeldIs
  <2>. QED  BY <2>1
<1>5. ASSUME NEW i \in 1 .. N, NEW c \in Symbols, Grows(beams[i], c, row, constrained, prune)
      PROVE  /\ Append(beams[i].prefix, c) \in B(N)
             /\ more[Append(beams[i].prefix, c)] = Extended(beams[i], c, row, constrained)
             /\ \A n \in 1 .. N : Append(beams[i].prefix, c) \in grown(n) => n = i
  <2>. DEFINE q == Append(beams[i].prefix, c)
              e == Extended(beams[i], c, row, constrained)
  <2>1. q \in B(N)
    BY <1>2, <1>5
  <2>2. ASSUME NEW j \in 1 .. N, NEW d \in Symbols, q = Append(beams[j].prefix, d) PROVE j = i /\ d = c
    <3>. DEFINE v == beams[i].prefix
                w == beams[j].prefix
    <3>2. v \in Seq(Symbols) /\ w \in Seq(Symbols) /\ Append(v, c) = Append(w, d)
      BY <1>0, <2>2
    <3>. HIDE DEF v, w
    <3>3. v = w /\ c = d
      BY <3>2, AppendInjective
    <3>1. beams[i].prefix = beams[j].prefix /\ c = d
      BY <3>3 DEF v, w
    <3>. QED  BY <1>0, <3>1 DEF OneSlotEach
  <2>. HIDE DEF N
  <2>3. IsMore(e, q) /\ \A x : IsMore(x, q) => x = e
    <3>1. IsMore(e, q)
      BY <1>0, <1>5
    <3>2. ASSUME NEW x, IsMore(x, q) PROVE x = e
      <4>1. PICK j \in DOMAIN beams : \E d \in Symbols :
              q = Append(beams[j].prefix, d) /\ x = Extended(beams[j], d, row, constrained)
        BY <3>2
      <4>2. PICK d \in Symbols : q = Append(beams[j].prefix, d) /\ x = Extended(beams[j], d, row, constrained)
        BY <4>1
      <4>3. j = i /\ d = c
        BY <1>0, <2>2, <4>2
      <4>. QED  BY <4>2, <4>3
    <3>. QED  BY <3>1, <3>2
  <2>4. \A n \in 1 .. N : q \in grown(n) => n = i
    <3>. TAKE n \in 1 .. N
    <3>. HIDE DEF q
    <3>1. q \in grown(n) => \E d \in Symbols : q = Append(beams[n].prefix, d)
      BY <1>2
    <3>. HIDE DEF grown
    <3>. QED  BY <2>2, <3>1 DEF q
  <2>. HIDE DEF IsMore, q, e
  <2>5. more[q] = e
    <3>1. (CHOOSE x : IsMore(x, q)) = e
      BY <2>3
    <3>. QED  BY <2>1, <3>1
  <2>. QED  BY <2>1, <2>4, <2>5 DEF q, e
<1>6. Parts(Q, A(N), own)
  <2>1. ASSUME NEW p \in A(N) PROVE own[p] \in BeamRecord(Q) /\ own[p].prefix = p /\ own[p].state = st[p]
    <3>1. PICK i \in 1 .. N : p = beams[i].prefix
      BY <2>1
    <3>2. own[p] = Stay(beams[i], row)
      BY <1>4, <3>1
    <3>3. Stay(beams[i], row) \in BeamRecord(Q) /\ Stay(beams[i], row).prefix = p
          /\ Stay(beams[i], row).state = beams[i].state
      BY <1>0, <3>1, StayIs
    <3>4. beams[i].state = st[p]
      BY <1>0, <3>1 DEF ABeam
    <3>. HIDE DEF own
    <3>. QED  BY <3>2, <3>3, <3>4
  <2>2. own \in [A(N) -> BeamRecord(Q)]
    <3>1. own = [p \in A(N) |-> own[p]]
      OBVIOUS
    <3>. HIDE DEF own, A
    <3>. QED  BY <2>1, <3>1
  <2>. HIDE DEF own, A
  <2>. QED  BY <2>1, <2>2 DEF Parts
<1>7. ASSUME NEW p \in A(N) PROVE own[p].state = st[p]
    <3>1. PICK i \in 1 .. N : p = beams[i].prefix
      BY <1>7
    <3>2. own[p] = Stay(beams[i], row)
      BY <1>4, <3>1
    <3>3. Stay(beams[i], row).state = beams[i].state
      BY <1>0, <3>1, StayIs
    <3>4. beams[i].state = st[p]
      BY <1>0, <3>1 DEF ABeam
    <3>. HIDE DEF own
    <3>. QED  BY <3>2, <3>3, <3>4
<1>8. ASSUME NEW p \in B(N)
      PROVE  \E i \in 1 .. N : \E c \in Symbols :
               /\ Grows(beams[i], c, row, constrained, prune) /\ p = Append(beams[i].prefix, c)
               /\ more[p] = Extended(beams[i], c, row, constrained)
               /\ more[p] \in BeamRecord(Q) /\ more[p].prefix = p /\ more[p].state = st[p] /\ more[p].blank = 0
               /\ more[p].symbol = (IF beams[i].prefix # <<>> /\ c = Last(beams[i].prefix) THEN beams[i].blank
                                    ELSE beams[i].blank + beams[i].symbol) * row[c]
  <2>0. GrownTo(beams, row, constrained, prune, p)
    BY <1>3, <1>8
  <2>1. PICK i \in 1 .. N : \E c \in Symbols : Grows(beams[i], c, row, constrained, prune) /\ p = Append(beams[i].prefix, c)
    BY <1>0, <2>0 DEF GrownTo
  <2>2. PICK c \in Symbols : Grows(beams[i], c, row, constrained, prune) /\ p = Append(beams[i].prefix, c)
    BY <2>1
  <2>. DEFINE e == Extended(beams[i], c, row, constrained)
  <2>3. more[p] = e
    BY <1>5, <2>2
  <2>4. ABeam(Q, st, e) /\ e.prefix = p /\ e.blank = 0
        /\ e.symbol = (IF beams[i].prefix # <<>> /\ c = Last(beams[i].prefix) THEN beams[i].blank
                                    ELSE beams[i].blank + beams[i].symbol) * row[c]
    BY <1>0, <2>2, ExtendedIs
  <2>. HIDE DEF more, e
  <2>5. e \in BeamRecord(Q) /\ e.state = st[p]
    BY <2>4 DEF ABeam
  <2>. QED  BY <2>2, <2>3, <2>4, <2>5 DEF e
<1>9. Parts(Q, B(N), more)
  <2>1. (\A p \in B(N) : more[p] \in BeamRecord(Q)) /\ \A p \in B(N) : more[p].prefix = p
    BY <1>8
  <2>2. more = [p \in B(N) |-> more[p]]
    <3>. HIDE DEF IsMore, B
    <3>. QED  OBVIOUS
  <2>. HIDE DEF more, B
  <2>3. more \in [B(N) -> BeamRecord(Q)]
    BY <2>1, <2>2
  <2>. QED  BY <2>1, <2>3 DEF Parts
<1>10. \A p \in A(N) \cap B(N) : own[p].state = more[p].state
  <2>1. \A p \in B(N) : more[p].state = st[p]
    BY <1>8
  <2>. HIDE DEF own, more, A, B
  <2>. QED  BY <1>7, <2>1
<1>. DEFINE start == <<>>
            turn(t, n) == Turn(t, beams[n], row, constrained, prune)
            step == [n \in 1 .. N |-> [t \in V |-> turn(t, n)]]
<1>11. start \in V /\ \A n \in 1 .. N : \A t \in V : turn(t, n) \in V
  <2>1. ASSUME NEW n \in 1 .. N, NEW t \in V PROVE turn(t, n) \in V
    <3>1. PICK w : TurnRun(w, Q, t, beams[n], row, constrained, prune) /\ turn(t, n) = w[Alphabet]
      BY <1>0, TurnRuns
    <3>. QED  BY <1>1, <3>1 DEF TurnRun
  <2>. QED  BY <2>1
<1>. DEFINE w0 == CHOOSE h : h = [n \in 0 .. N |-> IF n = 0 THEN start ELSE turn(h[n - 1], n)]
<1>12. NextTable(beams, row, constrained, prune) = w0[N]
  BY Zenon DEF NextTable
<1>. HIDE DEF N, V, start, turn, w0
<1>13. step \in [1 .. N -> [V -> V]]
  BY <1>11
<1>14. PICK g \in [0 .. N -> V] : g[0] = start /\ \A n \in 1 .. N : g[n] = step[n][g[n - 1]]
  <2>. HIDE DEF step
  <2>1. \E g : Recurs(g, N, V, start, step)
    BY <1>0, <1>11, <1>13, RecursionExists
  <2>. QED  BY <2>1 DEF Recurs
<1>15. ASSUME NEW n \in 1 .. N PROVE g[n] = turn(g[n - 1], n)
  <2>1. g[n - 1] \in V
    BY <1>0
  <2>. QED  BY <2>1, <1>14
<1>16. w0 = [n \in 0 .. N |-> IF n = 0 THEN start ELSE turn(w0[n - 1], n)]
  <2>. DEFINE Is(h) == h = [n \in 0 .. N |-> IF n = 0 THEN start ELSE turn(h[n - 1], n)]
  <2>1. Is(g)
    <3>1. \A n \in 0 .. N : g[n] = IF n = 0 THEN start ELSE turn(g[n - 1], n)
      <4>. TAKE n \in 0 .. N
      <4>1. n = 0 \/ n \in 1 .. N
        BY <1>0
      <4>. QED  BY <1>14, <1>15, <4>1
    <3>2. g = [n \in 0 .. N |-> g[n]]
      BY <1>14
    <3>. QED  BY <3>1, <3>2
  <2>. HIDE DEF Is
  <2>2. Is(CHOOSE h : Is(h))
    BY <2>1, Zenon
  <2>. QED  BY <2>2 DEF Is, w0
<1>17. w0[0] = start /\ \A n \in 1 .. N : w0[n] = turn(w0[n - 1], n)
  BY <1>0, <1>16
<1>. HIDE DEF A, B, own, more, grown
<1>. DEFINE P(n) == n <= N => w0[n] \in V /\ Gathers(w0[n], A(n), B(n), own, more)
<1>18. P(0)
  <2>1. A(0) = {} /\ B(0) = {}
    BY DEF A, B
  <2>2. Gathers(<<>>, {}, {}, own, more)
    BY DEF Gathers, OneSlotEach, HasSlot
  <2>. QED  BY <1>11, <1>17, <2>1, <2>2 DEF start
<1>19. ASSUME NEW n \in Nat, P(n) PROVE P(n + 1)
  <2>. SUFFICES ASSUME n + 1 <= N
                PROVE  w0[n + 1] \in V /\ Gathers(w0[n + 1], A(n + 1), B(n + 1), own, more)
    OBVIOUS
  <2>. DEFINE b == beams[n + 1]
              t == w0[n]
              A0 == A(n)
              B0 == B(n)
              AN == A(N)
              BN == B(N)
  <2>1. t \in V /\ Gathers(t, A0, B0, own, more) /\ n + 1 \in 1 .. N /\ 1 .. n \subseteq 1 .. N
    BY <1>0, <1>19
  <2>2. w0[n + 1] = Turn(t, b, row, constrained, prune)
    BY <1>17, <2>1 DEF turn
  <2>3. A0 \in SUBSET AN /\ B0 \in SUBSET BN
    BY <2>1 DEF A, B
  <2>4. b.prefix \in AN \ A0 /\ own[b.prefix] = Stay(b, row)
    <3>1. b.prefix \in AN /\ own[b.prefix] = Stay(b, row)
      BY <1>4, <2>1
    <3>2. ASSUME NEW i \in 1 .. n, beams[i].prefix = b.prefix PROVE FALSE
      <4>1. i \in 1 .. N /\ i # n + 1
        BY <2>1
      <4>. QED  BY <1>0, <2>1, <3>2, <4>1 DEF OneSlotEach
    <3>. QED  BY <3>1, <3>2 DEF A
  <2>5. ASSUME NEW c \in Symbols, Grows(b, c, row, constrained, prune)
        PROVE  /\ Append(b.prefix, c) \in BN \ B0
               /\ more[Append(b.prefix, c)] = Extended(b, c, row, constrained)
    <3>. DEFINE q == Append(b.prefix, c)
    <3>1. q \in BN /\ more[q] = Extended(b, c, row, constrained) /\ \A i \in 1 .. N : q \in grown(i) => i = n + 1
      BY <1>5, <2>1, <2>5
    <3>2. q \notin B0
      <4>1. SUFFICES ASSUME NEW i \in 1 .. n, q \in grown(i) PROVE FALSE
        BY DEF B
      <4>2. i = n + 1
        BY <2>1, <3>1, <4>1
      <4>. QED  BY <4>2
    <3>. QED  BY <3>1, <3>2
  <2>6. ABeam(Q, st, b)
    BY <1>0, <2>1
  <2>7. A(n + 1) = A0 \cup {b.prefix} /\ B(n + 1) = B0 \cup Grown(b, row, constrained, prune, Alphabet)
    <3>1. 1 .. n + 1 = (1 .. n) \cup {n + 1}
      OBVIOUS
    <3>. QED  BY <3>1 DEF A, B, grown
  <2>. HIDE DEF b, t, A0, B0, AN, BN
  <2>8. t \in Seq(BeamRecord(Q)) /\ Parts(Q, AN, own) /\ Parts(Q, BN, more)
        /\ \A p \in AN \cap BN : own[p].state = more[p].state
    <3>1. t \in Seq(BeamRecord(Q))
      BY <2>1 DEF V
    <3>2. Parts(Q, AN, own) /\ Parts(Q, BN, more)
      BY <1>6, <1>9 DEF AN, BN
    <3>3. \A p \in AN \cap BN : own[p].state = more[p].state
      BY <1>10 DEF AN, BN
    <3>. QED  BY <3>1, <3>2, <3>3
  <2>. DEFINE after == Turn(t, b, row, constrained, prune)
  <2>9. /\ after \in Seq(BeamRecord(Q))
        /\ Gathers(after, A0 \cup {b.prefix}, B0 \cup Grown(b, row, constrained, prune, Alphabet), own, more)
    BY <2>1, <2>3, <2>4, <2>5, <2>6, <2>8, TurnGathers, ZenonT(60)
  <2>. HIDE DEF after
  <2>. QED  BY <2>2, <2>7, <2>9 DEF after, V
<1>. HIDE DEF P
<1>20. P(N) /\ N <= N
  <2>. DEFINE T == {n \in Nat : P(n)}
  <2>1. T \in SUBSET Nat /\ 0 \in T /\ \A n \in T : n + 1 \in T
    BY <1>18, <1>19
  <2>. HIDE DEF T
  <2>2. T = Nat
    BY <2>1, Induction
  <2>. QED  BY <1>0, <2>2 DEF T
<1>. DEFINE after == NextTable(beams, row, constrained, prune)
<1>21. after \in Seq(BeamRecord(Q)) /\ Gathers(after, A(N), B(N), own, more)
  BY <1>12, <1>20 DEF P, V
<1>. HIDE DEF after
<1>22. \A p : HasSlot(beams, p) <=> p \in A(N)
  BY <1>0 DEF HasSlot, A
<1>23. \A p : HasSlot(after, p) <=> HasSlot(beams, p) \/ GrownTo(beams, row, constrained, prune, p)
  <2>. TAKE p
  <2>1. HasSlot(after, p) <=> p \in A(N) \cup B(N)
    BY <1>21 DEF Gathers
  <2>. QED  BY <1>3, <1>22, <2>1
<1>24. ASSUME NEW k \in DOMAIN after
       PROVE  ABeam(Q, st, after[k]) /\ NextSlot(beams, row, constrained, prune, after[k])
  <2>. DEFINE p == after[k].prefix
              held == Held(beams, p)
  <2>1. after[k] \in BeamRecord(Q) /\ p \in Seq(Symbols) /\ HasSlot(after, p)
    <3>1. after[k] \in BeamRecord(Q)
      BY <1>21
    <3>2. p \in Seq(Symbols)
      BY <3>1 DEF BeamRecord
    <3>3. HasSlot(after, p)
      BY DEF HasSlot
    <3>. QED  BY <3>1, <3>2, <3>3
  <2>2. p \in A(N) \cup B(N)
    BY <1>21, <2>1 DEF Gathers
  <2>3. after[k].state = IF p \in A(N) THEN own[p].state ELSE more[p].state
    BY <1>21 DEF Gathers
  <2>4. after[k].state = st[p]
    BY <1>7, <1>8, <2>2, <2>3
  <2>5. ABeam(Q, st, after[k])
    BY <2>1, <2>4 DEF ABeam
  <2>6. after[k].blank = (IF p \in A(N) THEN own[p].blank ELSE 0) + (IF p \in B(N) THEN more[p].blank ELSE 0)
        /\ after[k].symbol = (IF p \in A(N) THEN own[p].symbol ELSE 0) + (IF p \in B(N) THEN more[p].symbol ELSE 0)
    BY <1>21 DEF Gathers
  <2>7. /\ held.blank \in Nat /\ held.symbol \in Nat
        /\ p \notin A(N) => held.blank = 0 /\ held.symbol = 0
        /\ p \in A(N) => /\ own[p].blank = (held.blank + held.symbol) * row[BLANK]
                         /\ own[p].symbol = IF p = <<>> THEN 0 ELSE held.symbol * row[Last(p)]
    <3>1. CASE p \notin A(N)
      BY <1>22, <3>1 DEF Held
    <3>2. CASE p \in A(N)
      <4>1. PICK i \in 1 .. N : p = beams[i].prefix
        BY <3>2 DEF A
      <4>2. held = beams[i]
        BY <1>0, <4>1, HeldIs
      <4>3. own[p] = Stay(beams[i], row)
        BY <1>4, <4>1
      <4>4. Stay(beams[i], row).blank = (beams[i].blank + beams[i].symbol) * row[BLANK]
            /\ Stay(beams[i], row).symbol = IF p = <<>> THEN 0 ELSE beams[i].symbol * row[Last(p)]
        BY <1>0, <4>1, StayIs
      <4>. HIDE DEF p, held
      <4>. QED  BY <1>0, <3>2, <4>2, <4>3, <4>4
    <3>. QED  BY <3>1, <3>2
  <2>8. \A c \in Classes : row[c] \in Nat
    OBVIOUS
  <2>9. p \in B(N) => more[p].blank = 0
    BY <1>8
  <2>10. after[k].blank = (held.blank + held.symbol) * row[BLANK]
    <3>1. row[BLANK] \in Nat
      BY <2>8 DEF Classes
    <3>. HIDE DEF p, held
    <3>2. (held.blank + held.symbol) * row[BLANK] \in Nat /\ (0 + 0) * row[BLANK] = 0
      BY <2>7, <3>1
    <3>. DEFINE x == (held.blank + held.symbol) * row[BLANK]
    <3>3. x \in Nat /\ (p \in A(N) => own[p].blank = x) /\ (p \notin A(N) => x = 0)
      BY <2>7, <3>2
    <3>. HIDE DEF x
    <3>4. after[k].blank = x
      BY <2>2, <2>6, <2>9, <3>3
    <3>. QED  BY <3>4 DEF x
  <2>11. ASSUME p = <<>> PROVE after[k].symbol = 0
    <3>1. p \notin B(N)
      <4>1. SUFFICES ASSUME p \in B(N) PROVE FALSE
        OBVIOUS
      <4>2. PICK i \in 1 .. N : \E c \in Symbols : p = Append(beams[i].prefix, c)
        BY <1>8, <4>1
      <4>3. PICK c \in Symbols : p = Append(beams[i].prefix, c)
        BY <4>2
      <4>4. Append(beams[i].prefix, c) # <<>>
        <5>1. beams[i].prefix \in Seq(Symbols)
          BY <1>0
        <5>. QED  BY <5>1
      <4>. QED  BY <2>11, <4>3, <4>4
    <3>. HIDE DEF p, held
    <3>2. p \in A(N)
      BY <2>2, <3>1
    <3>. QED  BY <2>6, <2>7, <2>11, <3>1, <3>2
  <2>12. ASSUME NEW q \in Seq(Symbols), NEW c \in Symbols, p = Append(q, c)
         PROVE  LET before == Held(beams, q)
                    source == IF q # <<>> /\ c = Last(q) THEN before.blank ELSE before.blank + before.symbol
                IN  after[k].symbol = held.symbol * row[c]
                      + (IF GrownTo(beams, row, constrained, prune, p) THEN source * row[c] ELSE 0)
    <3>. DEFINE before == Held(beams, q)
                source == IF q # <<>> /\ c = Last(q) THEN before.blank ELSE before.blank + before.symbol
    <3>1. p # <<>> /\ Last(p) = c /\ row[c] \in Nat
      <4>1. p # <<>> /\ Len(p) = Len(q) + 1 /\ p[Len(q) + 1] = c
        <5>. HIDE DEF p
        <5>. QED  BY <2>12
      <4>2. row[c] \in Nat
        BY <2>8 DEF Classes
      <4>. QED  BY <4>1, <4>2 DEF Last
    <3>2. p \in B(N) => more[p].symbol = source * row[c] /\ source * row[c] \in Nat
      <4>1. SUFFICES ASSUME p \in B(N) PROVE more[p].symbol = source * row[c] /\ source * row[c] \in Nat
        OBVIOUS
      <4>2. PICK i \in 1 .. N : \E d \in Symbols :
               /\ p = Append(beams[i].prefix, d)
               /\ more[p].symbol = (IF beams[i].prefix # <<>> /\ d = Last(beams[i].prefix) THEN beams[i].blank
                                    ELSE beams[i].blank + beams[i].symbol) * row[d]
        <5>. HIDE DEF p, more, B, N, IsMore
        <5>. QED  BY <1>8, <4>1, ZenonT(60)
      <4>3. PICK d \in Symbols :
               /\ p = Append(beams[i].prefix, d)
               /\ more[p].symbol = (IF beams[i].prefix # <<>> /\ d = Last(beams[i].prefix) THEN beams[i].blank
                                    ELSE beams[i].blank + beams[i].symbol) * row[d]
        BY <4>2
      <4>4. beams[i].prefix = q /\ d = c
        <5>1. beams[i].prefix \in Seq(Symbols) /\ Append(beams[i].prefix, d) = Append(q, c)
          BY <1>0, <2>12, <4>3
        <5>. QED  BY <5>1, AppendInjective
      <4>5. before = beams[i]
        BY <1>0, <4>4, HeldIs
      <4>. HIDE DEF p, before
      <4>6. source = IF beams[i].prefix # <<>> /\ d = Last(beams[i].prefix) THEN beams[i].blank
                                    ELSE beams[i].blank + beams[i].symbol
        BY <4>4, <4>5
      <4>7. source \in Nat
        <5>1. beams[i].blank \in Nat /\ beams[i].symbol \in Nat
          BY <1>0
        <5>. HIDE DEF source
        <5>. QED  BY <4>6, <5>1
      <4>. HIDE DEF source
      <4>8. source * row[c] \in Nat
        BY <3>1, <4>7
      <4>. QED  BY <4>3, <4>4, <4>6, <4>8
    <3>3. p \in B(N) <=> GrownTo(beams, row, constrained, prune, p)
      BY <1>3
    <3>. HIDE DEF p, held, source
    <3>4. after[k].symbol = held.symbol * row[c] + (IF p \in B(N) THEN source * row[c] ELSE 0)
      <4>1. held.symbol * row[c] \in Nat /\ 0 * row[c] = 0
        BY <2>7, <3>1
      <4>. DEFINE x == source * row[c]
                  y == held.symbol * row[c]
      <4>2. (p \in B(N) => more[p].symbol = x /\ x \in Nat) /\ y \in Nat
            /\ (p \in A(N) => own[p].symbol = y) /\ (p \notin A(N) => y = 0)
        BY <2>7, <3>1, <3>2, <4>1
      <4>. HIDE DEF x, y
      <4>3. after[k].symbol = y + (IF p \in B(N) THEN x ELSE 0)
        BY <2>2, <2>6, <4>2
      <4>. QED  BY <4>3 DEF x, y
    <3>. QED  BY <3>3, <3>4 DEF p, held, source
  <2>. QED  BY <2>5, <2>10, <2>11, <2>12 DEF NextSlot
<1>25. Search(Q, st, after)
  BY <1>21, <1>24 DEF Search, Gathers
<1>. QED  BY <1>23, <1>24, <1>25 DEF after

-----------------------------------------------------------------------------
(***************************************************************************)
(* Ranking and cutting.                                                    *)
(***************************************************************************)
\* The two tables hold the same beams.
SameBeams(t, u) ==
  /\ Len(t) = Len(u)
  /\ \A i \in DOMAIN t : \E k \in DOMAIN u : t[i] = u[k]
  /\ \A k \in DOMAIN u : \E i \in DOMAIN t : t[i] = u[k]

\* Ranking a table keeps its beams.
LEMMA RankedIs ==
  ASSUME NEW Q, NEW st, NEW table, Search(Q, st, table)
  PROVE  Search(Q, st, Ranked(table)) /\ SameBeams(Ranked(table), table)
<1>. DEFINE S == DOMAIN table
            ahead(i, j) == \/ Total(table[i]) > Total(table[j])
                           \/ Total(table[i]) = Total(table[j]) /\ i < j
            pairs == {p \in S \X S : ahead(p[1], p[2])}
            before(x) == {y \in S : ahead(y, x)}
            ranks == [i \in 1 .. Cardinality(S) |-> CHOOSE x \in S : Cardinality(before(x)) = i - 1]
            list == Ranked(table)
            R == BeamRecord(Q)
<1>1. /\ table \in Seq(R) /\ S = 1 .. Len(table) /\ Len(table) \in Nat
      /\ \A i \in S : table[i] \in R /\ Total(table[i]) \in Nat
  <2>1. table \in Seq(R)
    BY DEF Search
  <2>2. S = 1 .. Len(table) /\ Len(table) \in Nat /\ \A i \in S : table[i] \in R
    <3>. HIDE DEF R
    <3>. QED  BY <2>1
  <2>3. ASSUME NEW i \in S PROVE Total(table[i]) \in Nat
    <3>1. table[i].blank \in Nat /\ table[i].symbol \in Nat
      BY <2>2 DEF BeamRecord
    <3>. QED  BY <3>1 DEF Total
  <2>. QED  BY <2>1, <2>2, <2>3
<1>2. IsFiniteSet(S) /\ Cardinality(S) = Len(table)
  <2>1. \A n \in Nat : IsFiniteSet(1 .. n) /\ Cardinality(1 .. n) = n
    BY FS_Interval
  <2>. QED  BY <1>1, <2>1
<1>3. Orders(pairs, S)
  <2>1. \A x \in S : <<x, x>> \notin pairs
    BY <1>1
  <2>2. ASSUME NEW x \in S, NEW y \in S, NEW z \in S, <<x, y>> \in pairs, <<y, z>> \in pairs
        PROVE  <<x, z>> \in pairs
    <3>1. ahead(x, y) /\ ahead(y, z)
      BY <2>2
    <3>2. Total(table[x]) \in Nat /\ Total(table[y]) \in Nat /\ Total(table[z]) \in Nat /\ x \in Nat /\ y \in Nat /\ z \in Nat
      BY <1>1
    <3>3. ahead(x, z)
      BY <3>1, <3>2
    <3>. QED  BY <3>3
  <2>3. \A x, y \in S : x = y \/ <<x, y>> \in pairs \/ <<y, x>> \in pairs
    BY <1>1
  <2>. QED  BY <2>1, <2>2, <2>3 DEF Orders
<1>4. Ranking(pairs, S)
  BY <1>2, <1>3, Ranks
<1>5. \A x \in S : AheadOf(pairs, S, x) = before(x)
  BY DEF AheadOf
<1>6. list = [i \in 1 .. Cardinality(S) |-> table[ranks[i]]] 
  BY DEF Ranked, InOrder
<1>7. \A x \in S : Cardinality(before(x)) \in Nat
  <2>1. \A x \in S : before(x) \in SUBSET S
    OBVIOUS
  <2>. HIDE DEF before, S
  <2>2. \A x \in S : IsFiniteSet(before(x))
    BY <1>2, <2>1, FS_Subset
  <2>. QED  BY <2>2, FS_CardinalityType
<1>. HIDE DEF S, before, pairs, list, R
<1>8. /\ \A x \in S : Cardinality(before(x)) + 1 \in 1 .. Cardinality(S)
      /\ \A n \in 1 .. Cardinality(S) : \E x \in S : Cardinality(before(x)) = n - 1
      /\ \A x, y \in S : Cardinality(before(x)) = Cardinality(before(y)) => x = y
  BY <1>4, <1>5 DEF Ranking
<1>9. ASSUME NEW n \in 1 .. Len(table) PROVE ranks[n] \in S /\ Cardinality(before(ranks[n])) = n - 1
  <2>1. \E x \in S : Cardinality(before(x)) = n - 1
    BY <1>2, <1>8
  <2>. QED  BY <1>2, <2>1
<1>10. ASSUME NEW k \in S PROVE \E n \in 1 .. Len(table) : ranks[n] = k
  <2>. DEFINE n == Cardinality(before(k)) + 1
  <2>1. n \in 1 .. Len(table) /\ n - 1 = Cardinality(before(k))
    BY <1>2, <1>7, <1>8
  <2>. HIDE DEF n, ranks
  <2>2. ranks[n] \in S /\ Cardinality(before(ranks[n])) = Cardinality(before(k))
    BY <1>9, <2>1
  <2>3. ranks[n] = k
    BY <1>8, <2>2
  <2>. QED  BY <2>1, <2>3
<1>. HIDE DEF ranks
<1>11. list \in [1 .. Len(table) -> R] /\ list \in Seq(R) /\ Len(list) = Len(table)
  <2>1. list \in [1 .. Len(table) -> R]
    BY <1>1, <1>2, <1>6, <1>9
  <2>. QED  BY <1>1, <2>1
<1>12. \A n \in 1 .. Len(table) : list[n] = table[ranks[n]] /\ ranks[n] \in S
  BY <1>2, <1>6, <1>9
<1>13. OneSlotEach(list)
  <2>1. SUFFICES ASSUME NEW m \in 1 .. Len(table), NEW n \in 1 .. Len(table), list[m].prefix = list[n].prefix
                 PROVE  m = n
    BY <1>11 DEF OneSlotEach
  <2>2. ranks[m] = ranks[n]
    BY <1>12, <2>1 DEF Search, OneSlotEach, S
  <2>3. m - 1 = n - 1
    BY <1>9, <2>2
  <2>. QED  BY <1>1, <2>3
<1>14. \A i \in DOMAIN list : ABeam(Q, st, list[i])
  BY <1>11, <1>12 DEF Search, S
<1>15. SameBeams(list, table)
  BY <1>10, <1>11, <1>12 DEF SameBeams, S
<1>16. Search(Q, st, list)
  BY <1>11, <1>13, <1>14 DEF Search, R
<1>. QED  BY <1>15, <1>16 DEF list

\* What is kept of a table: all of it when the width allows.
Keeps(after, table, width) ==
  /\ \A i \in DOMAIN after : \E k \in DOMAIN table : after[i] = table[k]
  /\ Len(table) <= width => \A k \in DOMAIN table : \E i \in DOMAIN after : after[i] = table[k]

\* Cutting a ranked table keeps its beams if there is room for them.
LEMMA NextBeamsAre ==
  ASSUME NEW Q, NEW st, NEW constrained \in BOOLEAN, Steered(Q, st, constrained),
         NEW row \in [Classes -> Nat], NEW prune, NEW width \in Nat, NEW beams, Search(Q, st, beams),
         NEW table, table = NextTable(beams, row, constrained, prune)
  PROVE  /\ Search(Q, st, NextBeams(beams, row, constrained, width, prune))
         /\ Keeps(NextBeams(beams, row, constrained, width, prune), table, width)
<1>. DEFINE list == Ranked(table)
            n == IF width < Len(list) THEN width ELSE Len(list)
            after == SubSeq(list, 1, n)
            R == BeamRecord(Q)
<1>1. Search(Q, st, table)
  BY NextTableIs
<1>2. Search(Q, st, list) /\ SameBeams(list, table)
  BY <1>1, RankedIs
<1>3. NextBeams(beams, row, constrained, width, prune) = after
  BY DEF NextBeams
<1>. HIDE DEF list
<1>4. list \in Seq(R) /\ Len(list) \in Nat /\ DOMAIN list = 1 .. Len(list)
  <2>1. list \in Seq(R)
    BY <1>2 DEF Search
  <2>. HIDE DEF R
  <2>. QED  BY <2>1
<1>5. n \in 0 .. Len(list) /\ (Len(table) <= width => n = Len(list))
  <2>1. Len(list) = Len(table)
    BY <1>2 DEF SameBeams
  <2>2. \A m \in Nat : \A w \in Nat :
          LET k == IF w < m THEN w ELSE m IN k \in 0 .. m /\ (m <= w => k = m)
    OBVIOUS
  <2>. QED  BY <1>4, <2>1, <2>2
<1>. HIDE DEF n, R
<1>6. /\ after \in Seq(R) /\ Len(after) = n /\ DOMAIN after = 1 .. n
      /\ \A i \in 1 .. n : after[i] = list[i] /\ i \in DOMAIN list
  <2>1. n \in Nat /\ n <= Len(list) /\ \A i \in 1 .. n : i \in 1 .. Len(list)
    <3>1. \A m \in Nat : \A k \in 0 .. m : k \in Nat /\ k <= m /\ \A i \in 1 .. k : i \in 1 .. m
      OBVIOUS
    <3>. QED  BY <1>4, <1>5, <3>1, Zenon
  <2>2. after \in Seq(R) /\ Len(after) = n
    <3>1. \A i \in 1 .. n : list[i] \in R
      BY <1>4, <2>1
    <3>2. after \in Seq(R) /\ Len(after) = IF 1 <= n THEN n - 1 + 1 ELSE 0
      BY <2>1, <3>1, SubSeqProperties
    <3>. HIDE DEF after
    <3>. QED  BY <2>1, <3>2
  <2>3. \A i \in 1 .. n : after[i] = list[i]
    BY <1>4, <2>1
  <2>. HIDE DEF after
  <2>. QED  BY <1>4, <2>1, <2>2, <2>3
<1>. HIDE DEF after
<1>7. Search(Q, st, after)
  BY <1>2, <1>6 DEF Search, OneSlotEach, R
<1>8. \A i \in DOMAIN after : \E k \in DOMAIN table : after[i] = table[k]
  BY <1>2, <1>6 DEF SameBeams
<1>9. Len(table) <= width => \A k \in DOMAIN table : \E i \in DOMAIN after : after[i] = table[k]
  <2>. SUFFICES ASSUME Len(table) <= width, NEW k \in DOMAIN table PROVE \E i \in DOMAIN after : after[i] = table[k]
    OBVIOUS
  <2>1. PICK i \in DOMAIN list : list[i] = table[k]
    BY <1>2 DEF SameBeams
  <2>. QED  BY <1>4, <1>5, <1>6, <2>1
<1>. QED  BY <1>3, <1>7, <1>8, <1>9 DEF Keeps

\* The words of Symbols up to a length.
WordsUpTo(n) == UNION {[1 .. m -> Symbols] : m \in 0 .. n}

\* There are finitely many words of one length.
LEMMA FunctionsAreFinite ==
  ASSUME NEW m \in Nat, NEW S, IsFiniteSet(S)
  PROVE  IsFiniteSet([1 .. m -> S])
<1>. DEFINE C == (1 .. m) \X S
            words == [1 .. m -> S]
            graph == [w \in words |-> {c \in C : w[c[1]] = c[2]}]
<1>1. IsFiniteSet(1 .. m)
  BY FS_Interval
<1>2. IsFiniteSet(SUBSET C)
  BY <1>1, FS_Product, FS_SUBSET
<1>3. graph \in [words -> SUBSET C]
  OBVIOUS
<1>4. ASSUME NEW v \in words, NEW w \in words, graph[v] = graph[w] PROVE v = w
  <2>1. ASSUME NEW k \in 1 .. m PROVE v[k] = w[k]
    <3>1. <<k, v[k]>> \in graph[v]
      OBVIOUS
    <3>2. <<k, v[k]>> \in graph[w]
      BY <1>4, <3>1
    <3>. QED  BY <3>2
  <2>. QED  BY <2>1
<1>. HIDE DEF C, graph, words
<1>5. graph \in Injection(words, SUBSET C)
  BY <1>3, <1>4 DEF Injection, IsInjective
<1>6. IsFiniteSet(words)
  BY <1>2, <1>5, FS_Injection
<1>. QED  BY <1>6 DEF words

\* There are finitely many words up to a length.
LEMMA WordsUpToAre ==
  ASSUME NEW n \in Nat
  PROVE  IsFiniteSet(WordsUpTo(n)) /\ Cardinality(WordsUpTo(n)) \in Nat
         /\ \A p \in Seq(Symbols) : Len(p) <= n => p \in WordsUpTo(n)
<1>. DEFINE L == 0 .. n
            words(m) == [1 .. m -> Symbols]
            W == {words(m) : m \in L}
            name == [m \in L |-> words(m)]
<1>1. IsFiniteSet(L)
  BY FS_Interval
<1>2. IsFiniteSet(Symbols)
  BY SymbolsAssumption, FS_Interval
<1>3. \A m \in L : IsFiniteSet(words(m))
  BY <1>2, FunctionsAreFinite
<1>4. name \in Surjection(L, W)
  <2>. HIDE DEF words, L
  <2>. QED  BY DEF Surjection
<1>5. IsFiniteSet(W)
  <2>. HIDE DEF W, L, name
  <2>. QED  BY <1>1, <1>4, FS_Surjection
<1>6. WordsUpTo(n) = UNION W
  BY DEF WordsUpTo
<1>7. IsFiniteSet(WordsUpTo(n))
  <2>1. \A T \in W : IsFiniteSet(T)
    <3>. HIDE DEF words, L
    <3>. QED  BY <1>3
  <2>. HIDE DEF W
  <2>. QED  BY <1>5, <1>6, <2>1, FS_UNION
<1>8. ASSUME NEW p \in Seq(Symbols), Len(p) <= n PROVE p \in WordsUpTo(n)
  <2>1. Len(p) \in 0 .. n /\ p \in [1 .. Len(p) -> Symbols]
    BY <1>8
  <2>. QED  BY <2>1 DEF WordsUpTo
<1>. QED  BY <1>7, <1>8, FS_CardinalityType

\* One beam for a prefix: no more beams than words.
LEMMA FewBeams ==
  ASSUME NEW Q, NEW st, NEW beams, Search(Q, st, beams), NEW n \in Nat,
         \A k \in DOMAIN beams : Len(beams[k].prefix) <= n
  PROVE  Len(beams) <= Cardinality(WordsUpTo(n))
<1>. DEFINE W == WordsUpTo(n)
            name == [k \in 1 .. Len(beams) |-> beams[k].prefix]
<1>1. beams \in Seq(BeamRecord(Q)) /\ OneSlotEach(beams)
  BY DEF Search
<1>2. Len(beams) \in Nat /\ DOMAIN beams = 1 .. Len(beams) /\ \A k \in 1 .. Len(beams) : beams[k] \in BeamRecord(Q)
  BY <1>1
<1>3. \A k \in 1 .. Len(beams) : beams[k].prefix \in W
  <2>1. \A k \in 1 .. Len(beams) : beams[k].prefix \in Seq(Symbols)
    BY <1>2 DEF BeamRecord
  <2>. HIDE DEF W
  <2>. QED  BY <1>2, <2>1, WordsUpToAre DEF W
<1>. HIDE DEF W
<1>4. name \in Injection(1 .. Len(beams), W)
  BY <1>1, <1>2, <1>3 DEF Injection, IsInjective, OneSlotEach
<1>5. IsFiniteSet(W) /\ IsFiniteSet(1 .. Len(beams)) /\ Cardinality(1 .. Len(beams)) = Len(beams)
  <2>1. \A m \in Nat : IsFiniteSet(1 .. m) /\ Cardinality(1 .. m) = m
    BY FS_Interval
  <2>. QED  BY <1>2, <2>1, WordsUpToAre DEF W
<1>6. Cardinality(1 .. Len(beams)) <= Cardinality(W)
  BY <1>4, <1>5, FS_Injection
<1>. QED  BY <1>5, <1>6 DEF W

-----------------------------------------------------------------------------
(***************************************************************************)
(* The forward algorithm, as two masses for a prefix: the alignments that  *)
(* end in a blank and those that end in its last symbol.                   *)
(***************************************************************************)
\* A row of the network.
FrameRows == [Classes -> Nat]

\* Blanks stand at the odd places, the tokens at the even ones.
LEMMA SurroundedIs ==
  ASSUME NEW p \in Seq(Symbols), NEW x, x = Surrounded(p)
  PROVE  /\ DOMAIN x = 1 .. 2 * Len(p) + 1 /\ Len(p) \in Nat
         /\ \A i \in 0 .. Len(p) : x[2 * i + 1] = BLANK
         /\ \A i \in 1 .. Len(p) : x[2 * i] = p[i]
         /\ \A s \in DOMAIN x : x[s] \in Classes
<1>1. Len(p) \in Nat /\ \A i \in 1 .. Len(p) : p[i] \in Symbols
  OBVIOUS
<1>. DEFINE L == Len(p)
<1>2. x = [s \in 1 .. 2 * L + 1 |-> IF s % 2 = 1 THEN BLANK ELSE p[s \div 2]]
  BY DEF Surrounded
<1>. HIDE DEF L
<1>3. L \in Nat
  BY <1>1 DEF L
<1>4. DOMAIN x = 1 .. 2 * L + 1
  BY <1>2
<1>5. ASSUME NEW i \in 0 .. L PROVE x[2 * i + 1] = BLANK
  <2>1. 2 * i + 1 \in 1 .. 2 * L + 1 /\ (2 * i + 1) % 2 = 1
    BY <1>3
  <2>. QED  BY <1>2, <2>1
<1>6. ASSUME NEW i \in 1 .. L PROVE x[2 * i] = p[i]
  <2>1. 2 * i \in 1 .. 2 * L + 1 /\ (2 * i) % 2 = 0 /\ (2 * i) \div 2 = i
    BY <1>3
  <2>. QED  BY <1>2, <2>1
<1>7. ASSUME NEW s \in 1 .. 2 * L + 1 PROVE x[s] \in Classes
  <2>1. CASE s % 2 = 1
    BY <1>2, <2>1 DEF Classes
  <2>2. CASE s % 2 # 1
    <3>1. s \div 2 \in 1 .. L
      BY <1>3, <2>2
    <3>2. p[s \div 2] \in Symbols
      BY <1>1, <3>1 DEF L
    <3>. QED  BY <1>2, <2>2, <3>2 DEF Classes
  <2>. QED  BY <2>1, <2>2
<1>. QED  BY <1>1, <1>4, <1>5, <1>6, <1>7 DEF L

\* The values of one more row.
LEMMA OnwardIs ==
  ASSUME NEW p \in Seq(Symbols), NEW row \in FrameRows, NEW alpha \in [1 .. 2 * Len(p) + 1 -> Nat]
  PROVE  Onward(alpha, row, Surrounded(p)) \in [1 .. 2 * Len(p) + 1 -> Nat]
<1>. DEFINE x == Surrounded(p)
            D == 1 .. 2 * Len(p) + 1
            part(s) == IF s > 1 THEN alpha[s - 1] ELSE 0
            skip(s) == IF Jumps(x, s) THEN alpha[s - 2] ELSE 0
<1>1. DOMAIN x = D /\ Len(p) \in Nat /\ \A s \in D : x[s] \in Classes
  BY SurroundedIs
<1>2. Onward(alpha, row, x) = [s \in D |-> row[x[s]] * (alpha[s] + part(s) + skip(s))]
  BY <1>1 DEF Onward
<1>3. ASSUME NEW s \in D PROVE row[x[s]] * (alpha[s] + part(s) + skip(s)) \in Nat
  <2>1. row[x[s]] \in Nat
    BY <1>1 DEF FrameRows
  <2>2. alpha[s] \in Nat
    OBVIOUS
  <2>3. part(s) \in Nat
    <3>1. s > 1 => s - 1 \in D
      BY <1>1
    <3>. QED  BY <3>1
  <2>4. skip(s) \in Nat
    <3>1. Jumps(x, s) => s - 2 \in D
      BY <1>1 DEF Jumps
    <3>. QED  BY <3>1
  <2>. HIDE DEF part, skip
  <2>5. \A a, b, c, d \in Nat : a * (b + c + d) \in Nat
    OBVIOUS
  <2>. QED  BY <2>1, <2>2, <2>3, <2>4, <2>5
<1>. HIDE DEF part, skip
<1>. QED  BY <1>2, <1>3

\* The table of the forward algorithm after the first n + 1 frames.
ForwardRun(w, n, frames, p) ==
  LET extended == Surrounded(p)
  IN  /\ w \in [0 .. n -> [1 .. 2 * Len(p) + 1 -> Nat]]
      /\ w[0] = [s \in DOMAIN extended |-> IF s <= 2 THEN frames[1][extended[s]] ELSE 0]
      /\ \A t \in 1 .. n : w[t] = Onward(w[t - 1], frames[t + 1], extended)

\* The forward algorithm goes frame by frame.
LEMMA ForwardRuns ==
  ASSUME NEW p \in Seq(Symbols), NEW n \in Nat, NEW frames \in Seq(FrameRows), Len(frames) = n + 1
  PROVE  \E w : ForwardRun(w, n, frames, p) /\ Forward(frames, p) = w[n]
<1>. DEFINE x == Surrounded(p)
            V == [1 .. 2 * Len(p) + 1 -> Nat]
            first == [s \in DOMAIN x |-> IF s <= 2 THEN frames[1][x[s]] ELSE 0]
            on(a, t) == Onward(a, frames[t + 1], x)
            step == [t \in 1 .. n |-> [a \in V |-> on(a, t)]]
            w0 == CHOOSE h : h = [t \in 0 .. Len(frames) - 1 |-> IF t = 0 THEN first ELSE on(h[t - 1], t)]
<1>1. \A t \in 1 .. n + 1 : frames[t] \in FrameRows
  OBVIOUS
<1>2. first \in V
  <2>1. DOMAIN x = 1 .. 2 * Len(p) + 1 /\ \A s \in DOMAIN x : x[s] \in Classes
    BY SurroundedIs
  <2>2. \A c \in Classes : frames[1][c] \in Nat
    BY <1>1 DEF FrameRows
  <2>. HIDE DEF x
  <2>. QED  BY <2>1, <2>2
<1>3. \A t \in 1 .. n : \A a \in V : on(a, t) \in V
  BY <1>1, OnwardIs
<1>4. Len(frames) - 1 = n
  OBVIOUS
<1>5. Forward(frames, p) = w0[n]
  <2>1. Forward(frames, p) = w0[Len(frames) - 1]
    BY Zenon DEF Forward
  <2>. HIDE DEF w0
  <2>. QED  BY <1>4, <2>1
<1>6. w0 = CHOOSE h : h = [t \in 0 .. n |-> IF t = 0 THEN first ELSE on(h[t - 1], t)]
  BY <1>4
<1>. HIDE DEF w0, V, first, on
<1>7. step \in [1 .. n -> [V -> V]]
  BY <1>3
<1>8. PICK g : Recurs(g, n, V, first, step)
  <2>. HIDE DEF step
  <2>. QED  BY <1>2, <1>7, RecursionExists
<1>9. g \in [0 .. n -> V] /\ g[0] = first /\ \A t \in 1 .. n : g[t] = on(g[t - 1], t)
  <2>1. g \in [0 .. n -> V] /\ g[0] = first /\ \A t \in 1 .. n : g[t] = step[t][g[t - 1]]
    BY <1>8 DEF Recurs
  <2>2. \A t \in 1 .. n : g[t - 1] \in V
    BY <2>1
  <2>. QED  BY <2>1, <2>2
<1>10. w0 = [t \in 0 .. n |-> IF t = 0 THEN first ELSE on(w0[t - 1], t)]
  <2>. DEFINE Is(h) == h = [t \in 0 .. n |-> IF t = 0 THEN first ELSE on(h[t - 1], t)]
  <2>1. Is(g)
    <3>1. \A t \in 0 .. n : g[t] = IF t = 0 THEN first ELSE on(g[t - 1], t)
      <4>. TAKE t \in 0 .. n
      <4>1. t = 0 \/ t \in 1 .. n
        OBVIOUS
      <4>. QED  BY <1>9, <4>1
    <3>2. g = [t \in 0 .. n |-> g[t]]
      BY <1>9
    <3>. QED  BY <3>1, <3>2
  <2>. HIDE DEF Is
  <2>2. Is(CHOOSE h : Is(h))
    BY <2>1, Zenon
  <2>. QED  BY <1>6, <2>2 DEF Is
<1>11. w0[0] = first /\ \A t \in 1 .. n : w0[t] = on(w0[t - 1], t)
  BY <1>10
<1>12. \A t \in 0 .. n : w0[t] = g[t]
  <2>1. \A t \in 1 .. n : w0[t - 1] = g[t - 1] => w0[t] = g[t]
    BY <1>9, <1>11
  <2>2. g \in [0 .. n -> V] /\ w0[0] = g[0]
    BY <1>9, <1>11
  <2>. QED  BY <2>1, <2>2, RecursionUnique
<1>13. w0 \in [0 .. n -> V]
  <2>1. w0 = [t \in 0 .. n |-> w0[t]]
    BY <1>10
  <2>. QED  BY <1>9, <1>12, <2>1
<1>14. ForwardRun(w0, n, frames, p)
  BY <1>11, <1>13 DEF ForwardRun, V, first, on
<1>. QED  BY <1>5, <1>14

\* The values after the first t frames of a photo.
After(photo, t, p) == Forward(SubSeq(photo, 1, t), p)

\* The frames so far are the frames of the photo.
LEMMA Beginning ==
  ASSUME NEW photo \in Seq(FrameRows), NEW t \in 1 .. Len(photo)
  PROVE  SubSeq(photo, 1, t) \in Seq(FrameRows) /\ Len(SubSeq(photo, 1, t)) = (t - 1) + 1
         /\ \A i \in 1 .. t : SubSeq(photo, 1, t)[i] = photo[i]
<1>1. \A i \in 1 .. t : photo[i] \in FrameRows
  OBVIOUS
<1>. QED  BY <1>1, SubSeqProperties

\* After the first frame ...
LEMMA AfterOne ==
  ASSUME NEW photo \in Seq(FrameRows), photo # <<>>, NEW p \in Seq(Symbols)
  PROVE  \A s \in 1 .. 2 * Len(p) + 1 :
           After(photo, 1, p)[s] = IF s <= 2 THEN photo[1][Surrounded(p)[s]] ELSE 0
<1>0. 1 \in 1 .. Len(photo)
  OBVIOUS
<1>1. /\ SubSeq(photo, 1, 1) \in Seq(FrameRows) /\ Len(SubSeq(photo, 1, 1)) = 0 + 1 /\ SubSeq(photo, 1, 1)[1] = photo[1]
  BY <1>0, Beginning
<1>. DEFINE one == SubSeq(photo, 1, 1)
<1>. HIDE DEF one
<1>2. PICK w : ForwardRun(w, 0, one, p) /\ Forward(one, p) = w[0]
  BY <1>1, ForwardRuns DEF one
<1>3. DOMAIN Surrounded(p) = 1 .. 2 * Len(p) + 1
  BY SurroundedIs
<1>. QED  BY <1>1, <1>2, <1>3 DEF ForwardRun, After, one

\* ... and after one more.
LEMMA AfterNext ==
  ASSUME NEW photo \in Seq(FrameRows), NEW t \in 1 .. Len(photo), NEW p \in Seq(Symbols)
  PROVE  /\ After(photo, t, p) \in [1 .. 2 * Len(p) + 1 -> Nat]
         /\ t + 1 <= Len(photo) => After(photo, t + 1, p) = Onward(After(photo, t, p), photo[t + 1], Surrounded(p))
<1>. DEFINE n == t - 1
            V == [1 .. 2 * Len(p) + 1 -> Nat]
            f == SubSeq(photo, 1, t)
            h == SubSeq(photo, 1, t + 1)
<1>1. n \in Nat /\ n + 1 = t
  OBVIOUS
<1>2. f \in Seq(FrameRows) /\ Len(f) = n + 1 /\ \A i \in 1 .. t : f[i] = photo[i]
  BY Beginning
<1>. HIDE DEF f, n
<1>3. PICK w : ForwardRun(w, n, f, p) /\ Forward(f, p) = w[n]
  BY <1>1, <1>2, ForwardRuns
<1>4. w \in [0 .. n -> V] /\ w[n] \in V
  BY <1>1, <1>3 DEF ForwardRun
<1>5. ASSUME t + 1 <= Len(photo) PROVE Forward(h, p) = Onward(w[n], photo[t + 1], Surrounded(p))
  <2>0. t + 1 \in 1 .. Len(photo) /\ (t + 1) - 1 = t
    BY <1>5
  <2>1. h \in Seq(FrameRows) /\ Len(h) = t + 1 /\ \A i \in 1 .. t + 1 : h[i] = photo[i]
    BY <2>0, Beginning
  <2>. HIDE DEF h
  <2>2. PICK v : ForwardRun(v, t, h, p) /\ Forward(h, p) = v[t]
    BY <2>1, ForwardRuns
  <2>3. v[0] = w[0] /\ \A i \in 1 .. n : v[i - 1] = w[i - 1] => v[i] = w[i]
    <3>1. h[1] = f[1] /\ \A i \in 1 .. n : h[i + 1] = f[i + 1]
      BY <1>1, <1>2, <2>1
    <3>2. \A i \in 1 .. n : i \in 1 .. t
      BY <1>1
    <3>. QED  BY <1>3, <2>2, <3>1, <3>2 DEF ForwardRun
  <2>. HIDE DEF V
  <2>4. \A i \in 0 .. n : v[i] = w[i]
    BY <1>1, <1>4, <2>3, RecursionUnique
  <2>5. v[t] = Onward(v[t - 1], h[t + 1], Surrounded(p)) /\ t - 1 = n
    BY <1>1, <2>2 DEF ForwardRun
  <2>. QED  BY <1>1, <2>1, <2>2, <2>4, <2>5
<1>. QED  BY <1>3, <1>4, <1>5 DEF After, f, h

\* A longer word has the same values at the positions of a shorter one.
LEMMA AfterShorter ==
  ASSUME NEW photo \in Seq(FrameRows), NEW p \in Seq(Symbols), NEW c \in Symbols, NEW t \in 1 .. Len(photo)
  PROVE  \A s \in 1 .. 2 * Len(p) + 1 : After(photo, t, Append(p, c))[s] = After(photo, t, p)[s]
<1>. DEFINE q == Append(p, c)
            L == Len(p)
            D == 1 .. 2 * L + 1
            E == 1 .. 2 * Len(q) + 1
            x == Surrounded(p)
            y == Surrounded(q)
            P(n) == n + 1 <= Len(photo) => \A s \in D : After(photo, n + 1, q)[s] = After(photo, n + 1, p)[s]
<1>1. q \in Seq(Symbols) /\ Len(q) = L + 1 /\ L \in Nat /\ (\A i \in 1 .. L : q[i] = p[i]) /\ Len(photo) \in Nat
  OBVIOUS
<1>. HIDE DEF q, L
<1>2. DOMAIN x = D /\ DOMAIN y = E /\ D \subseteq E
  <2>1. D \subseteq E
    BY <1>1
  <2>. QED  BY <1>1, <2>1, SurroundedIs DEF L
<1>3. \A s \in D : x[s] = y[s]
  <2>1. /\ \A i \in 0 .. L : x[2 * i + 1] = BLANK /\ y[2 * i + 1] = BLANK
        /\ \A i \in 1 .. L : x[2 * i] = p[i] /\ y[2 * i] = q[i]
    <3>1. /\ \A i \in 0 .. L : x[2 * i + 1] = BLANK
          /\ \A i \in 1 .. L : x[2 * i] = p[i]
      BY SurroundedIs DEF L
    <3>2. /\ \A i \in 0 .. Len(q) : y[2 * i + 1] = BLANK
          /\ \A i \in 1 .. Len(q) : y[2 * i] = q[i]
      BY <1>1, SurroundedIs
    <3>3. \A i \in 0 .. L : i \in 0 .. Len(q)
      BY <1>1
    <3>4. \A i \in 1 .. L : i \in 1 .. Len(q)
      BY <1>1
    <3>. HIDE DEF x, y
    <3>. QED  BY <3>1, <3>2, <3>3, <3>4
  <2>. HIDE DEF x, y
  <2>. TAKE s \in D
  <2>2. CASE s % 2 = 1
    <3>. DEFINE i == s \div 2
    <3>1. i \in 0 .. L /\ s = 2 * i + 1
      BY <1>1, <2>2
    <3>. HIDE DEF i
    <3>. QED  BY <2>1, <3>1
  <2>3. CASE s % 2 # 1
    <3>. DEFINE i == s \div 2
    <3>1. i \in 1 .. L /\ s = 2 * i
      BY <1>1, <2>3
    <3>. HIDE DEF i
    <3>. QED  BY <1>1, <2>1, <3>1
  <2>. QED  BY <2>2, <2>3
<1>. HIDE DEF x, y, D, E
<1>4. P(0)
  <2>. SUFFICES ASSUME 1 <= Len(photo), NEW s \in D PROVE After(photo, 1, q)[s] = After(photo, 1, p)[s]
    OBVIOUS
  <2>1. photo # <<>>
    OBVIOUS
  <2>2. After(photo, 1, p)[s] = IF s <= 2 THEN photo[1][x[s]] ELSE 0
    BY <2>1, AfterOne DEF D, x, L
  <2>3. After(photo, 1, q)[s] = IF s <= 2 THEN photo[1][y[s]] ELSE 0
    BY <1>1, <1>2, <2>1, AfterOne DEF E, y
  <2>. QED  BY <1>3, <2>2, <2>3
<1>5. ASSUME NEW n \in Nat, P(n) PROVE P(n + 1)
  <2>. SUFFICES ASSUME (n + 1) + 1 <= Len(photo), NEW s \in D
                PROVE  After(photo, (n + 1) + 1, q)[s] = After(photo, (n + 1) + 1, p)[s]
    OBVIOUS
  <2>. DEFINE m == n + 1
              a == After(photo, m, p)
              b == After(photo, m, q)
              row == photo[m + 1]
  <2>1. m \in 1 .. Len(photo) /\ m + 1 <= Len(photo) /\ \A r \in D : b[r] = a[r]
    BY <1>1, <1>5
  <2>. HIDE DEF m
  <2>2. After(photo, m + 1, p) = Onward(a, row, x) /\ After(photo, m + 1, q) = Onward(b, row, y)
    BY <1>1, <2>1, AfterNext DEF x, y
  <2>. HIDE DEF a, b, row
  <2>3. /\ Onward(a, row, x)[s] = row[x[s]] * (a[s] + (IF s > 1 THEN a[s - 1] ELSE 0) + (IF Jumps(x, s) THEN a[s - 2] ELSE 0))
        /\ Onward(b, row, y)[s] = row[y[s]] * (b[s] + (IF s > 1 THEN b[s - 1] ELSE 0) + (IF Jumps(y, s) THEN b[s - 2] ELSE 0))
    BY <1>2 DEF Onward
  <2>4. (s > 1 => s - 1 \in D) /\ (s > 2 => s - 2 \in D)
    BY <1>1 DEF D
  <2>5. Jumps(x, s) <=> Jumps(y, s)
    BY <1>3, <2>4 DEF Jumps
  <2>6. (IF Jumps(x, s) THEN a[s - 2] ELSE 0) = (IF Jumps(y, s) THEN b[s - 2] ELSE 0)
    BY <2>1, <2>4, <2>5 DEF Jumps
  <2>7. (IF s > 1 THEN a[s - 1] ELSE 0) = (IF s > 1 THEN b[s - 1] ELSE 0)
    BY <2>1, <2>4
  <2>8. a[s] = b[s] /\ x[s] = y[s]
    BY <1>3, <2>1
  <2>9. Onward(a, row, x)[s] = Onward(b, row, y)[s]
    BY <2>3, <2>6, <2>7, <2>8
  <2>. QED  BY <2>2, <2>9 DEF m
<1>. HIDE DEF P
<1>6. {n \in Nat : P(n)} = Nat
  <2>. DEFINE T == {n \in Nat : P(n)}
  <2>1. T \in SUBSET Nat /\ 0 \in T /\ \A n \in T : n + 1 \in T
    BY <1>4, <1>5
  <2>. HIDE DEF T
  <2>2. T = Nat
    BY <2>1, Induction
  <2>. QED  BY <2>2 DEF T
<1>7. t - 1 \in Nat /\ (t - 1) + 1 = t /\ t <= Len(photo)
  BY <1>1
<1>. QED  BY <1>6, <1>7 DEF P, D, L, q

\* The mass of the alignments of the first t frames that end in a blank, and in the last symbol.
BlankMass(photo, t, p) ==
  IF t = 0 THEN (IF p = <<>> THEN 1 ELSE 0) ELSE After(photo, t, p)[2 * Len(p) + 1]

\* The alignments of t frames to p that end in p's last symbol.
SymbolMass(photo, t, p) ==
  IF t = 0 \/ p = <<>> THEN 0 ELSE After(photo, t, p)[2 * Len(p)]

\* Masses are numbers.
LEMMA MassesAre ==
  ASSUME NEW photo \in Seq(FrameRows), NEW p \in Seq(Symbols), NEW t \in 0 .. Len(photo)
  PROVE  BlankMass(photo, t, p) \in Nat /\ SymbolMass(photo, t, p) \in Nat
<1>1. CASE t = 0
  BY <1>1 DEF BlankMass, SymbolMass
<1>2. CASE t # 0
  <2>1. After(photo, t, p) \in [1 .. 2 * Len(p) + 1 -> Nat]
    BY <1>2, AfterNext
  <2>2. Len(p) \in Nat /\ (p # <<>> => Len(p) # 0)
    BY EmptySeq
  <2>3. 2 * Len(p) + 1 \in 1 .. 2 * Len(p) + 1 /\ (p # <<>> => 2 * Len(p) \in 1 .. 2 * Len(p) + 1)
    BY <2>2
  <2>. QED  BY <1>2, <2>1, <2>3 DEF BlankMass, SymbolMass
<1>. QED  BY <1>1, <1>2

\* One more frame: what ends in a blank ...
LEMMA BlankMassNext ==
  ASSUME NEW photo \in Seq(FrameRows), NEW p \in Seq(Symbols), NEW t \in Nat, t + 1 <= Len(photo)
  PROVE  BlankMass(photo, t + 1, p)
           = photo[t + 1][BLANK] * (BlankMass(photo, t, p) + SymbolMass(photo, t, p))
<1>. DEFINE s == 2 * Len(p) + 1
            x == Surrounded(p)
            row == photo[t + 1]
<1>1. Len(p) \in Nat /\ (p = <<>> <=> Len(p) = 0)
  BY EmptySeq
<1>2. DOMAIN x = 1 .. s /\ x[s] = BLANK /\ s \in 1 .. s
  BY <1>1, SurroundedIs
<1>3. row \in FrameRows /\ row[BLANK] \in Nat
  <2>1. t + 1 \in 1 .. Len(photo)
    OBVIOUS
  <2>2. row \in FrameRows
    BY <2>1
  <2>. QED  BY <2>2 DEF FrameRows, Classes
<1>4. BlankMass(photo, t + 1, p) = After(photo, t + 1, p)[s]
  BY DEF BlankMass
<1>. HIDE DEF x
<1>5. CASE t = 0
  <2>1. After(photo, t + 1, p)[s] = IF s <= 2 THEN row[x[s]] ELSE 0
    <3>1. photo # <<>>
      OBVIOUS
    <3>. QED  BY <1>2, <1>5, <3>1, AfterOne DEF x
  <2>2. s <= 2 <=> p = <<>>
    BY <1>1
  <2>3. BlankMass(photo, t, p) = IF p = <<>> THEN 1 ELSE 0
    BY <1>5 DEF BlankMass
  <2>4. SymbolMass(photo, t, p) = 0
    BY <1>5 DEF SymbolMass
  <2>. QED  BY <1>2, <1>3, <1>4, <2>1, <2>2, <2>3, <2>4
<1>6. CASE t # 0
  <2>. DEFINE a == After(photo, t, p)
  <2>1. a \in [1 .. s -> Nat] /\ After(photo, t + 1, p) = Onward(a, row, x)
    <3>1. t \in 1 .. Len(photo)
      BY <1>6
    <3>. QED  BY <3>1, AfterNext DEF x
  <2>2. BlankMass(photo, t, p) = a[s] /\ SymbolMass(photo, t, p) = IF p = <<>> THEN 0 ELSE a[2 * Len(p)]
    BY <1>6 DEF BlankMass, SymbolMass
  <2>. HIDE DEF a, row
  <2>3. ~Jumps(x, s)
    BY <1>2 DEF Jumps
  <2>. DEFINE before == IF p = <<>> THEN 0 ELSE a[2 * Len(p)]
  <2>4. (IF s > 1 THEN a[s - 1] ELSE 0) = before
    <3>1. (s > 1 <=> p # <<>>) /\ s - 1 = 2 * Len(p)
      BY <1>1
    <3>. QED  BY <3>1
  <2>5. Onward(a, row, x)[s] = row[x[s]] * (a[s] + (IF s > 1 THEN a[s - 1] ELSE 0) + (IF Jumps(x, s) THEN a[s - 2] ELSE 0))
    BY <1>2 DEF Onward
  <2>6. a[s] \in Nat /\ before \in Nat
    <3>1. p # <<>> => 2 * Len(p) \in 1 .. s
      BY <1>1
    <3>. QED  BY <1>2, <2>1, <3>1
  <2>. HIDE DEF before
  <2>7. Onward(a, row, x)[s] = row[BLANK] * (a[s] + before)
    <3>1. Onward(a, row, x)[s] = row[x[s]] * (a[s] + before + 0)
      BY <2>3, <2>4, <2>5
    <3>2. a[s] + before + 0 = a[s] + before
      BY <2>6
    <3>. QED  BY <1>2, <3>1, <3>2
  <2>. QED  BY <1>4, <2>1, <2>2, <2>7 DEF before, row
<1>. QED  BY <1>5, <1>6

\* ... and what ends in the last symbol, which needs a blank between two equal symbols.
LEMMA SymbolMassNext ==
  ASSUME NEW photo \in Seq(FrameRows), NEW p \in Seq(Symbols), NEW c \in Symbols, NEW t \in Nat, t + 1 <= Len(photo)
  PROVE  SymbolMass(photo, t + 1, Append(p, c))
           = photo[t + 1][c] * (SymbolMass(photo, t, Append(p, c)) + BlankMass(photo, t, p)
               + (IF p # <<>> /\ c = Last(p) THEN 0 ELSE SymbolMass(photo, t, p)))
<1>. DEFINE q == Append(p, c)
            L == Len(p)
            s == 2 * (L + 1)
            E == 1 .. 2 * Len(q) + 1
            x == Surrounded(q)
            row == photo[t + 1]
<1>1. /\ L \in Nat /\ (p = <<>> <=> L = 0) /\ q \in Seq(Symbols) /\ Len(q) = L + 1 /\ q # <<>>
      /\ q[L + 1] = c /\ \A i \in 1 .. L : q[i] = p[i]
  BY EmptySeq
<1>2. BLANK # c /\ Len(photo) \in Nat
  BY SymbolsAssumption DEF BLANK
<1>3. row \in FrameRows /\ row[c] \in Nat
  <2>1. t + 1 \in 1 .. Len(photo)
    BY <1>2
  <2>2. row \in FrameRows
    BY <2>1
  <2>. QED  BY <2>2 DEF FrameRows, Classes
<1>. HIDE DEF L, q
<1>4. DOMAIN x = E /\ s \in E /\ x[s] = c /\ (L > 0 => s - 2 \in E /\ x[s - 2] = p[L])
  <2>1. DOMAIN x = E /\ \A i \in 1 .. Len(q) : x[2 * i] = q[i]
    BY <1>1, SurroundedIs
  <2>2. L + 1 \in 1 .. Len(q) /\ s \in E
    BY <1>1
  <2>3. L > 0 => L \in 1 .. Len(q) /\ L \in 1 .. L /\ 2 * L = s - 2 /\ s - 2 \in E
    BY <1>1
  <2>. HIDE DEF x, E
  <2>. QED  BY <1>1, <2>1, <2>2, <2>3
<1>5. SymbolMass(photo, t + 1, q) = After(photo, t + 1, q)[s]
  BY <1>1 DEF SymbolMass
<1>. HIDE DEF x
<1>6. CASE t = 0
  <2>1. After(photo, t + 1, q)[s] = IF s <= 2 THEN row[x[s]] ELSE 0
    <3>1. photo # <<>>
      OBVIOUS
    <3>. QED  BY <1>1, <1>4, <1>6, <3>1, AfterOne DEF x
  <2>2. s <= 2 <=> p = <<>>
    BY <1>1
  <2>3. BlankMass(photo, t, p) = IF p = <<>> THEN 1 ELSE 0
    BY <1>6 DEF BlankMass
  <2>4. SymbolMass(photo, t, p) = 0 /\ SymbolMass(photo, t, q) = 0
    BY <1>6 DEF SymbolMass
  <2>. HIDE DEF row, s
  <2>. QED  BY <1>3, <1>4, <1>5, <2>1, <2>2, <2>3, <2>4 DEF q, row
<1>7. CASE t # 0
  <2>. DEFINE a == After(photo, t, q)
              b == After(photo, t, p)
  <2>0. t \in 1 .. Len(photo)
    BY <1>2, <1>7
  <2>1. a \in [E -> Nat] /\ After(photo, t + 1, q) = Onward(a, row, x)
    BY <1>1, <2>0, AfterNext DEF x
  <2>2. b \in [1 .. 2 * L + 1 -> Nat] /\ \A r \in 1 .. 2 * L + 1 : a[r] = b[r]
    BY <2>0, AfterNext, AfterShorter DEF q, L
  <2>3. /\ SymbolMass(photo, t, q) = a[s]
        /\ BlankMass(photo, t, p) = b[2 * L + 1]
        /\ SymbolMass(photo, t, p) = IF p = <<>> THEN 0 ELSE b[2 * L]
    BY <1>1, <1>7 DEF BlankMass, SymbolMass, L
  <2>. HIDE DEF a, b, row
  <2>4. /\ 2 * L + 1 \in 1 .. 2 * L + 1 /\ (p # <<>> => 2 * L \in 1 .. 2 * L + 1)
        /\ s - 1 = 2 * L + 1 /\ s - 2 = 2 * L /\ s > 1 /\ (s > 2 <=> p # <<>>) /\ (p # <<>> => L > 0)
    BY <1>1
  <2>5. Jumps(x, s) <=> p # <<>> /\ c # Last(p)
    BY <1>2, <1>4, <2>4 DEF Jumps, Last, L
  <2>6. Onward(a, row, x)[s] = row[x[s]] * (a[s] + (IF s > 1 THEN a[s - 1] ELSE 0) + (IF Jumps(x, s) THEN a[s - 2] ELSE 0))
    BY <1>4 DEF Onward
  <2>. HIDE DEF s
  <2>7. a[s - 1] = b[2 * L + 1] /\ (p # <<>> => a[s - 2] = b[2 * L])
    BY <2>2, <2>4
  <2>8. (IF Jumps(x, s) THEN a[s - 2] ELSE 0) = (IF p # <<>> /\ c = Last(p) THEN 0 ELSE SymbolMass(photo, t, p))
    BY <2>3, <2>5, <2>7
  <2>9. (IF s > 1 THEN a[s - 1] ELSE 0) = BlankMass(photo, t, p)
    BY <2>3, <2>4, <2>7
  <2>10. Onward(a, row, x)[s] = row[c] * (SymbolMass(photo, t, q) + BlankMass(photo, t, p)
               + (IF p # <<>> /\ c = Last(p) THEN 0 ELSE SymbolMass(photo, t, p)))
    BY <1>4, <2>3, <2>6, <2>8, <2>9
  <2>. QED  BY <1>5, <2>1, <2>10 DEF q, row
<1>. QED  BY <1>6, <1>7

\* The likelihood is the two masses together.
LEMMA LikelihoodIs ==
  ASSUME NEW photo, NEW p, NEW t \in Nat \ {0}
  PROVE  Likelihood(SubSeq(photo, 1, t), p) = BlankMass(photo, t, p) + SymbolMass(photo, t, p)
BY DEF Likelihood, BlankMass, SymbolMass, After

-----------------------------------------------------------------------------
(***************************************************************************)
(* The forward algorithm is exact: its two masses of a prefix are the sums *)
(* over the paths that collapse to it and end in a blank, or do not.       *)
(***************************************************************************)
\* The n-th of the indices has n - 1 below it.
LEMMA AscendingRanks ==
  ASSUME NEW I \in SUBSET Nat, IsFiniteSet(I), NEW n \in 1 .. Cardinality(I)
  PROVE  /\ Ascending(I)[n] \in I /\ Cardinality({j \in I : j < Ascending(I)[n]}) = n - 1
         /\ \A i \in I : Cardinality({j \in I : j < i}) = n - 1 => i = Ascending(I)[n]
<1>. DEFINE less == {p \in I \X I : p[1] < p[2]}
            below(i) == {j \in I : j < i}
<1>1. Orders(less, I)
  BY DEF Orders
<1>2. \A i \in I : AheadOf(less, I, i) = below(i)
  BY DEF AheadOf
<1>. HIDE DEF less, below
<1>3. Ranking(less, I)
  BY <1>1, Ranks
<1>4. /\ \A i, j \in I : Cardinality(below(i)) = Cardinality(below(j)) => i = j
      /\ \E i \in I : Cardinality(below(i)) = n - 1
  BY <1>2, <1>3 DEF Ranking
<1>5. Ascending(I)[n] = CHOOSE i \in I : Cardinality(below(i)) = n - 1
  BY DEF Ascending, InOrder, below
<1>6. Ascending(I)[n] \in I /\ Cardinality(below(Ascending(I)[n])) = n - 1
  BY <1>4, <1>5
<1>. QED  BY <1>4, <1>6 DEF below

\* One more index, after the others.
LEMMA AscendingMore ==
  ASSUME NEW I \in SUBSET Nat, IsFiniteSet(I), NEW m \in Nat, \A i \in I : i < m
  PROVE  /\ Cardinality(I) \in Nat /\ IsFiniteSet(I \cup {m}) /\ Cardinality(I \cup {m}) = Cardinality(I) + 1
         /\ Ascending(I \cup {m})[Cardinality(I) + 1] = m
         /\ \A n \in 1 .. Cardinality(I) : Ascending(I \cup {m})[n] = Ascending(I)[n]
<1>. DEFINE J == I \cup {m}
            k == Cardinality(I)
<1>1. k \in Nat /\ m \notin I
  BY FS_CardinalityType
<1>2. IsFiniteSet(J) /\ Cardinality(J) = k + 1 /\ J \in SUBSET Nat
  BY <1>1, FS_AddElement
<1>3. {j \in J : j < m} = I /\ m \in J
  <2>1. \A j \in J : j < m <=> j \in I
    OBVIOUS
  <2>. QED  BY <2>1
<1>4. ASSUME NEW i \in I PROVE {j \in J : j < i} = {j \in I : j < i} /\ i \in J
  <2>1. i < m /\ i \in Nat /\ ~(m < i)
    OBVIOUS
  <2>. QED  BY <2>1
<1>. HIDE DEF J
<1>5. Ascending(J)[k + 1] = m
  <2>1. k + 1 \in 1 .. Cardinality(J) /\ (k + 1) - 1 = k
    BY <1>1, <1>2
  <2>2. Cardinality({j \in J : j < m}) = (k + 1) - 1
    <3>1. Cardinality({j \in J : j < m}) = k
      BY <1>3, Zenon
    <3>. QED  BY <2>1, <3>1, Zenon
  <2>3. \A i \in J : Cardinality({j \in J : j < i}) = (k + 1) - 1 => i = Ascending(J)[k + 1]
    <3>. HIDE DEF k
    <3>. QED  BY <1>2, <2>1, AscendingRanks
  <2>. QED  BY <1>3, <2>2, <2>3, Zenon
<1>6. ASSUME NEW n \in 1 .. k PROVE Ascending(J)[n] = Ascending(I)[n]
  <2>. DEFINE i == Ascending(I)[n]
  <2>1. i \in I /\ Cardinality({j \in I : j < i}) = n - 1
    BY AscendingRanks
  <2>. HIDE DEF i
  <2>2. n \in 1 .. Cardinality(J)
    BY <1>1, <1>2
  <2>3. Cardinality({j \in J : j < i}) = n - 1 /\ i \in J
    BY <1>4, <2>1, Zenon
  <2>4. i = Ascending(J)[n]
    <3>1. \A l \in J : Cardinality({j \in J : j < l}) = n - 1 => l = Ascending(J)[n]
      BY <1>2, <2>2, AscendingRanks
    <3>. QED  BY <2>3, <3>1, Zenon
  <2>. QED  BY <2>4 DEF i
<1>. QED  BY <1>1, <1>2, <1>5, <1>6 DEF J

\* What is picked from a sequence that has one element more.
LEMMA PickedMore ==
  ASSUME NEW S, NEW s \in Seq(S), NEW x \in S, NEW I \in SUBSET DOMAIN s
  PROVE  /\ Picked(Append(s, x), I) = Picked(s, I)
         /\ Picked(Append(s, x), I \cup {Len(s) + 1}) = Append(Picked(s, I), x)
<1>. DEFINE m == Len(s)
            J == I \cup {m + 1}
            k == Cardinality(I)
            a == Ascending(I)
            b == Ascending(J)
            v == Append(s, x)
<1>1. /\ m \in Nat /\ DOMAIN s = 1 .. m /\ DOMAIN v = 1 .. m + 1
      /\ v[m + 1] = x /\ \A i \in 1 .. m : v[i] = s[i]
  OBVIOUS
<1>2. IsFiniteSet(I) /\ I \in SUBSET Nat /\ m + 1 \in Nat /\ \A i \in I : i < m + 1
  <2>1. IsFiniteSet(1 .. m)
    BY <1>1, FS_Interval
  <2>. QED  BY <1>1, <2>1, FS_Subset
<1>. HIDE DEF m, v
<1>3. k \in Nat /\ IsFiniteSet(J) /\ Cardinality(J) = k + 1 /\ b[k + 1] = m + 1 /\ \A n \in 1 .. k : b[n] = a[n]
  BY <1>2, AscendingMore
<1>4. a \in [1 .. k -> I]
  BY <1>2, AscendingIs
<1>5. DOMAIN a = 1 .. k /\ DOMAIN b = 1 .. k + 1
  BY <1>3 DEF Ascending, InOrder
<1>6. \A n \in 1 .. k : a[n] \in I /\ v[a[n]] = s[a[n]] /\ s[a[n]] \in S
  BY <1>1, <1>4
<1>. HIDE DEF J, k, a, b
<1>7. Picked(s, I) = [n \in 1 .. k |-> s[a[n]]] /\ Picked(v, I) = [n \in 1 .. k |-> v[a[n]]]
  BY <1>5 DEF Picked, a
<1>8. Picked(v, J) = [n \in 1 .. k + 1 |-> v[b[n]]]
  BY <1>5 DEF Picked, b
<1>9. Picked(v, I) = Picked(s, I)
  BY <1>6, <1>7
<1>. DEFINE p == Picked(s, I)
<1>10. p \in Seq(S) /\ Len(p) = k /\ \A n \in 1 .. k : p[n] = s[a[n]]
  BY <1>3, <1>6, <1>7
<1>. HIDE DEF p
<1>11. Append(p, x) = [n \in 1 .. k + 1 |-> IF n = k + 1 THEN x ELSE p[n]]
  <2>. DEFINE q == Append(p, x)
  <2>1. q \in Seq(S) /\ Len(q) = k + 1 /\ q[k + 1] = x /\ \A n \in 1 .. k : q[n] = p[n]
    BY <1>10, AppendProperties
  <2>. HIDE DEF q
  <2>2. q = [n \in 1 .. k + 1 |-> q[n]]
    BY <1>3, <2>1
  <2>3. \A n \in 1 .. k + 1 : q[n] = IF n = k + 1 THEN x ELSE p[n]
    BY <1>3, <2>1
  <2>. QED  BY <2>2, <2>3 DEF q
<1>12. \A n \in 1 .. k + 1 : v[b[n]] = IF n = k + 1 THEN x ELSE p[n]
  <2>. TAKE n \in 1 .. k + 1
  <2>1. CASE n = k + 1
    BY <1>1, <1>3, <2>1
  <2>2. CASE n # k + 1
    <3>1. n \in 1 .. k
      BY <1>3, <2>2
    <3>. QED  BY <1>3, <1>6, <1>10, <2>2, <3>1
  <2>. QED  BY <2>1, <2>2
<1>13. Picked(v, J) = Append(p, x)
  BY <1>8, <1>11, <1>12
<1>. QED  BY <1>9, <1>13 DEF p, v, J, m

\* The paths of t frames.
FramePaths(t) == [1 .. t -> Classes]

\* What one more class makes of a path.
LEMMA CollapsedNext ==
  ASSUME NEW t \in Nat, NEW path \in FramePaths(t), NEW c \in Classes
  PROVE  /\ path \in Seq(Classes) /\ Len(path) = t /\ Append(path, c) \in FramePaths(t + 1)
         /\ Append(path, c)[t + 1] = c
         /\ Collapsed(Append(path, c)) =
              IF c # BLANK /\ (t > 0 => path[t] # c) THEN Append(Collapsed(path), c) ELSE Collapsed(path)
<1>. DEFINE v == Append(path, c)
            kept(p, i) == p[i] # BLANK /\ (i > 1 => p[i - 1] # p[i])
            I == {i \in 1 .. t : kept(path, i)}
<1>1. path \in Seq(Classes) /\ Len(path) = t /\ DOMAIN path = 1 .. t
  BY DEF FramePaths
<1>2. /\ v \in FramePaths(t + 1) /\ DOMAIN v = 1 .. t + 1 /\ v[t + 1] = c
      /\ \A i \in 1 .. t : v[i] = path[i]
  <2>1. v \in Seq(Classes) /\ Len(v) = t + 1 /\ v[t + 1] = c /\ \A i \in 1 .. t : v[i] = path[i]
    BY <1>1, AppendProperties
  <2>. HIDE DEF v
  <2>2. v \in [1 .. t + 1 -> Classes]
    BY <2>1
  <2>. QED  BY <2>1, <2>2 DEF FramePaths
<1>. HIDE DEF v
<1>3. Collapsed(path) = Picked(path, I)
  BY <1>1 DEF Collapsed
<1>4. Collapsed(v) = Picked(v, {i \in 1 .. t + 1 : kept(v, i)})
  BY <1>2 DEF Collapsed
<1>5. \A i \in 1 .. t : kept(v, i) <=> kept(path, i)
  <2>. TAKE i \in 1 .. t
  <2>1. i > 1 => i - 1 \in 1 .. t
    OBVIOUS
  <2>. QED  BY <1>2, <2>1
<1>6. kept(v, t + 1) <=> c # BLANK /\ (t > 0 => path[t] # c)
  <2>1. t > 0 => t \in 1 .. t /\ v[t] = path[t]
    BY <1>2
  <2>. QED  BY <1>2, <2>1
<1>7. {i \in 1 .. t + 1 : kept(v, i)} = IF kept(v, t + 1) THEN I \cup {t + 1} ELSE I
  <2>1. 1 .. t + 1 = (1 .. t) \cup {t + 1} /\ t + 1 \notin 1 .. t
    OBVIOUS
  <2>. HIDE DEF kept
  <2>. QED  BY <1>5, <2>1
<1>8. I \in SUBSET DOMAIN path
  BY <1>1
<1>. HIDE DEF I, kept
<1>9. Picked(v, I) = Picked(path, I) /\ Picked(v, I \cup {t + 1}) = Append(Picked(path, I), c)
  BY <1>1, <1>8, PickedMore DEF v
<1>10. Collapsed(v) = IF c # BLANK /\ (t > 0 => path[t] # c) THEN Append(Collapsed(path), c) ELSE Collapsed(path)
  BY <1>3, <1>4, <1>6, <1>7, <1>9
<1>. QED  BY <1>1, <1>2, <1>10 DEF v

\* There are finitely many paths.
LEMMA PathsAreFinite ==
  ASSUME NEW t \in Nat
  PROVE  IsFiniteSet(FramePaths(t))
<1>1. IsFiniteSet(Symbols)
  BY SymbolsAssumption, FS_Interval
<1>2. IsFiniteSet(Classes)
  <2>1. Classes = Symbols \cup {BLANK}
    BY DEF Classes
  <2>. QED  BY <1>1, <2>1, FS_AddElement
<1>. QED  BY <1>2, FunctionsAreFinite DEF FramePaths

\* A path without its last class.
LEMMA PathSplits ==
  ASSUME NEW t \in Nat, NEW path \in FramePaths(t + 1)
  PROVE  \E before \in FramePaths(t), c \in Classes : path = Append(before, c)
<1>. DEFINE before == [k \in 1 .. t |-> path[k]]
            v == Append(before, path[t + 1])
<1>1. before \in FramePaths(t) /\ path[t + 1] \in Classes
  BY DEF FramePaths
<1>2. before \in Seq(Classes) /\ Len(before) = t /\ \A k \in 1 .. t : before[k] = path[k]
  BY <1>1, CollapsedNext
<1>. HIDE DEF before
<1>3. v \in FramePaths(t + 1) /\ v[t + 1] = path[t + 1]
  BY <1>1, CollapsedNext
<1>4. \A k \in 1 .. t : v[k] = path[k]
  BY <1>1, <1>2
<1>. HIDE DEF v
<1>5. v = path
  <2>1. \A k \in 1 .. t + 1 : v[k] = path[k]
    BY <1>3, <1>4
  <2>2. v = [k \in 1 .. t + 1 |-> v[k]] /\ path = [k \in 1 .. t + 1 |-> path[k]]
    BY <1>3 DEF FramePaths
  <2>. QED  BY <2>1, <2>2
<1>. QED  BY <1>1, <1>5 DEF v

\* A path collapses to a word, which ends with the path unless that ends in a blank.
LEMMA CollapsedIs ==
  \A t \in Nat : \A path \in FramePaths(t) :
    /\ Collapsed(path) \in Seq(Symbols)
    /\ t = 0 => path = <<>> /\ Collapsed(path) = <<>>
    /\ t > 0 /\ path[t] # BLANK => Collapsed(path) # <<>> /\ Last(Collapsed(path)) = path[t]
<1>. DEFINE Q(t, path) ==
              /\ Collapsed(path) \in Seq(Symbols)
              /\ t = 0 => path = <<>> /\ Collapsed(path) = <<>>
              /\ t > 0 /\ path[t] # BLANK => Collapsed(path) # <<>> /\ Last(Collapsed(path)) = path[t]
            T == {t \in Nat : \A path \in FramePaths(t) : Q(t, path)}
<1>1. 0 \in T
  <2>1. SUFFICES ASSUME NEW path \in FramePaths(0) PROVE Q(0, path)
    OBVIOUS
  <2>2. path = <<>>
    BY DEF FramePaths
  <2>3. {i \in DOMAIN path : path[i] # BLANK /\ (i > 1 => path[i - 1] # path[i])} = {}
    BY <2>2
  <2>4. Collapsed(path) = Picked(path, {})
    BY <2>3, Zenon DEF Collapsed
  <2>5. path \in Seq(Symbols) /\ {} \in SUBSET DOMAIN path
    BY <2>2
  <2>6. Picked(path, {}) \in Seq(Symbols) /\ Len(Picked(path, {})) = Cardinality({})
    BY <2>5, PickedIs
  <2>7. Picked(path, {}) = <<>>
    BY <2>6, FS_EmptySet, EmptySeq
  <2>. QED  BY <2>2, <2>4, <2>6, <2>7
<1>2. ASSUME NEW t \in T PROVE t + 1 \in T
  <2>1. t \in Nat /\ \A path \in FramePaths(t) : Q(t, path)
    OBVIOUS
  <2>2. SUFFICES ASSUME NEW longer \in FramePaths(t + 1) PROVE Q(t + 1, longer)
    BY <2>1
  <2>3. PICK path \in FramePaths(t), c \in Classes : longer = Append(path, c)
    BY <2>1, PathSplits
  <2>4. /\ longer[t + 1] = c
        /\ Collapsed(longer) =
             IF c # BLANK /\ (t > 0 => path[t] # c) THEN Append(Collapsed(path), c) ELSE Collapsed(path)
    BY <2>1, <2>3, CollapsedNext
  <2>5. Q(t, path)
    BY <2>1
  <2>6. CASE c # BLANK /\ (t > 0 => path[t] # c)
    <3>1. c \in Symbols
      BY <2>6 DEF Classes
    <3>2. Append(Collapsed(path), c) \in Seq(Symbols) /\ Append(Collapsed(path), c) # <<>>
          /\ Len(Append(Collapsed(path), c)) = Len(Collapsed(path)) + 1
          /\ Append(Collapsed(path), c)[Len(Collapsed(path)) + 1] = c
      BY <2>5, <3>1, AppendProperties
    <3>3. Last(Append(Collapsed(path), c)) = c
      BY <3>2 DEF Last
    <3>. QED  BY <2>1, <2>4, <2>6, <3>2, <3>3
  <2>7. CASE ~(c # BLANK /\ (t > 0 => path[t] # c))
    <3>1. Collapsed(longer) = Collapsed(path)
      BY <2>4, <2>7
    <3>2. c # BLANK => t > 0 /\ path[t] = c
      BY <2>1, <2>7
    <3>. QED  BY <2>1, <2>4, <2>5, <3>1, <3>2
  <2>. QED  BY <2>6, <2>7
<1>3. T = Nat
  <2>. HIDE DEF T
  <2>1. T \in SUBSET Nat
    BY DEF T
  <2>. QED  BY <1>1, <1>2, <2>1, Induction
<1>. QED  BY <1>3

\* The paths of t frames that collapse to a word and end in a blank, and those that do not.
EndsBlank(t, p) == {path \in FramePaths(t) : Collapsed(path) = p /\ (t = 0 \/ path[t] = BLANK)}

\* ... and those that end in its last symbol.
EndsSymbol(t, p) == {path \in FramePaths(t) : Collapsed(path) = p /\ t > 0 /\ path[t] # BLANK}

\* One more frame, as sets of paths.
More(paths, c) == {Append(path, c) : path \in paths}

\* The paths of a word that end in a blank go on from all its paths.
LEMMA MoreBlank ==
  ASSUME NEW t \in Nat, NEW p
  PROVE  EndsBlank(t + 1, p) = More(EndsBlank(t, p) \cup EndsSymbol(t, p), BLANK)
<1>. DEFINE old == EndsBlank(t, p) \cup EndsSymbol(t, p)
<1>0. BLANK \in Classes /\ t + 1 # 0
  BY DEF Classes
<1>1. old = {path \in FramePaths(t) : Collapsed(path) = p}
  BY DEF EndsBlank, EndsSymbol
<1>2. \A path \in FramePaths(t) : /\ Append(path, BLANK) \in FramePaths(t + 1) /\ Append(path, BLANK)[t + 1] = BLANK
                             /\ Collapsed(Append(path, BLANK)) = Collapsed(path)
  BY <1>0, CollapsedNext
<1>3. ASSUME NEW longer \in EndsBlank(t + 1, p) PROVE longer \in More(old, BLANK)
  <2>1. longer \in FramePaths(t + 1) /\ Collapsed(longer) = p /\ longer[t + 1] = BLANK
    BY <1>0 DEF EndsBlank
  <2>2. PICK path \in FramePaths(t), c \in Classes : longer = Append(path, c)
    BY <2>1, PathSplits
  <2>3. longer[t + 1] = c
    BY <2>2, CollapsedNext
  <2>4. Collapsed(path) = p /\ longer = Append(path, BLANK)
    BY <1>2, <2>1, <2>2, <2>3
  <2>. HIDE DEF old
  <2>. QED  BY <1>1, <2>4 DEF More
<1>4. ASSUME NEW longer \in More(old, BLANK) PROVE longer \in EndsBlank(t + 1, p)
  <2>1. PICK path \in old : longer = Append(path, BLANK)
    BY DEF More
  <2>. HIDE DEF old
  <2>2. path \in FramePaths(t) /\ Collapsed(path) = p
    BY <1>1
  <2>. QED  BY <1>2, <2>1, <2>2 DEF EndsBlank
<1>. QED  BY <1>3, <1>4

\* The paths before a frame of c, for a word that ends in c.
Preceding(t, p, c) ==
  EndsSymbol(t, Append(p, c)) \cup
    (EndsBlank(t, p) \cup (IF p # <<>> /\ c = Last(p) THEN {} ELSE EndsSymbol(t, p)))

\* Those that end in its last symbol c go on from the paths that end in c, or are a word
\* shorter and do not.
LEMMA MoreSymbol ==
  ASSUME NEW t \in Nat, NEW p \in Seq(Symbols), NEW c \in Symbols
  PROVE  EndsSymbol(t + 1, Append(p, c)) = More(Preceding(t, p, c), c)
<1>. DEFINE q == Append(p, c)
            old == Preceding(t, p, c)
<1>0. c \in Classes /\ c # BLANK /\ t + 1 > 0
  BY SymbolsAssumption DEF Classes, BLANK
<1>1. q \in Seq(Symbols) /\ q # <<>> /\ Last(q) = c
  <2>1. q \in Seq(Symbols) /\ q # <<>> /\ Len(q) = Len(p) + 1 /\ q[Len(p) + 1] = c
    BY AppendProperties
  <2>. HIDE DEF q
  <2>. QED  BY <2>1 DEF Last
<1>2. \A path \in FramePaths(t), d \in Classes :
        /\ Append(path, d) \in FramePaths(t + 1) /\ Append(path, d)[t + 1] = d
        /\ Collapsed(Append(path, d)) =
             IF d # BLANK /\ (t > 0 => path[t] # d) THEN Append(Collapsed(path), d) ELSE Collapsed(path)
  BY CollapsedNext
<1>3. \A path \in FramePaths(t) :
        /\ Collapsed(path) \in Seq(Symbols)
        /\ t > 0 /\ path[t] # BLANK => Collapsed(path) # <<>> /\ Last(Collapsed(path)) = path[t]
  BY CollapsedIs
<1>4. \A r \in Seq(Symbols) : Append(r, c) = q => r = p
  BY AppendInjective
<1>. HIDE DEF q
<1>5. ASSUME NEW path \in FramePaths(t)
      PROVE  path \in old <=> Collapsed(Append(path, c)) = q
  <2>1. CASE t > 0 /\ path[t] = c
    <3>1. Collapsed(Append(path, c)) = Collapsed(path)
      BY <1>0, <1>2, <2>1
    <3>2. path \in EndsSymbol(t, q) <=> Collapsed(path) = q
      BY <1>0, <2>1 DEF EndsSymbol
    <3>3. path \notin EndsBlank(t, p)
      BY <1>0, <2>1 DEF EndsBlank
    <3>4. path \in EndsSymbol(t, p) => p # <<>> /\ c = Last(p)
      BY <1>3, <2>1 DEF EndsSymbol
    <3>. QED  BY <3>1, <3>2, <3>3, <3>4 DEF Preceding, q
  <2>2. CASE ~(t > 0 /\ path[t] = c)
    <3>1. Collapsed(Append(path, c)) = Append(Collapsed(path), c)
      BY <1>0, <1>2, <2>2
    <3>2. Collapsed(Append(path, c)) = q <=> Collapsed(path) = p
      BY <1>3, <1>4, <3>1 DEF q
    <3>3. path \notin EndsSymbol(t, q)
      BY <1>1, <1>3, <2>2 DEF EndsSymbol
    <3>4. path \in EndsBlank(t, p) \/ path \in EndsSymbol(t, p) <=> Collapsed(path) = p
      BY DEF EndsBlank, EndsSymbol
    <3>5. path \in EndsSymbol(t, p) => ~(p # <<>> /\ c = Last(p))
      BY <1>3, <2>2 DEF EndsSymbol
    <3>. QED  BY <3>2, <3>3, <3>4, <3>5 DEF Preceding, q
  <2>. QED  BY <2>1, <2>2
<1>6. old \in SUBSET FramePaths(t)
  BY DEF Preceding, EndsBlank, EndsSymbol
<1>. HIDE DEF old
<1>7. ASSUME NEW longer \in EndsSymbol(t + 1, q) PROVE longer \in More(old, c)
  <2>1. longer \in FramePaths(t + 1) /\ Collapsed(longer) = q /\ longer[t + 1] # BLANK
    BY DEF EndsSymbol
  <2>2. PICK path \in FramePaths(t), d \in Classes : longer = Append(path, d)
    BY <2>1, PathSplits
  <2>3. d = c
    <3>1. longer[t + 1] = Last(Collapsed(longer))
      BY <1>0, <2>1, CollapsedIs
    <3>. QED  BY <1>1, <1>2, <2>1, <2>2, <3>1
  <2>. QED  BY <1>5, <2>1, <2>2, <2>3 DEF More
<1>8. ASSUME NEW longer \in More(old, c) PROVE longer \in EndsSymbol(t + 1, q)
  <2>1. PICK path \in old : longer = Append(path, c)
    BY DEF More
  <2>. QED  BY <1>0, <1>2, <1>5, <1>6, <2>1 DEF EndsSymbol
<1>9. EndsSymbol(t + 1, q) = More(old, c)
  BY <1>7, <1>8
<1>. QED  BY <1>9 DEF old, q

\* The weights of the paths of t frames.
Weights(photo, t) == [path \in FramePaths(t) |-> PathMass(photo, path)]

\* The weight of a path, one frame later.
LEMMA WeightNext ==
  ASSUME NEW photo \in Seq(FrameRows), NEW t \in Nat, t + 1 <= Len(photo), NEW path \in FramePaths(t), NEW c \in Classes
  PROVE  /\ Weights(photo, t)[path] \in Nat /\ photo[t + 1][c] \in Nat
         /\ Weights(photo, t + 1)[Append(path, c)] = photo[t + 1][c] * Weights(photo, t)[path]
<1>. DEFINE longer == Append(path, c)
            w == [k \in 1 .. t |-> photo[k][path[k]]]
            v == [k \in 1 .. t + 1 |-> photo[k][longer[k]]]
            x == photo[t + 1][c]
<1>1. Len(photo) \in Nat /\ \A k \in 1 .. Len(photo) : photo[k] \in FrameRows
  OBVIOUS
<1>2. \A k \in 1 .. Len(photo), d \in Classes : photo[k][d] \in Nat
  BY <1>1 DEF FrameRows
<1>3. /\ longer \in FramePaths(t + 1) /\ longer[t + 1] = c /\ DOMAIN longer = 1 .. t + 1
      /\ DOMAIN path = 1 .. t /\ \A k \in 1 .. t : longer[k] = path[k] /\ path[k] \in Classes
  <2>1. longer \in FramePaths(t + 1) /\ longer[t + 1] = c /\ path \in Seq(Classes) /\ Len(path) = t
    BY CollapsedNext
  <2>2. \A k \in 1 .. t : longer[k] = path[k]
    BY <2>1, AppendProperties
  <2>. HIDE DEF longer
  <2>. QED  BY <2>1, <2>2 DEF FramePaths
<1>. HIDE DEF longer
<1>4. x \in Nat
  BY <1>1, <1>2
<1>5. w \in Seq(Nat) /\ Len(w) = t
  <2>1. \A k \in 1 .. t : photo[k][path[k]] \in Nat
    BY <1>1, <1>2, <1>3
  <2>. QED  BY <2>1
<1>6. v = Append(w, x)
  <2>1. Append(w, x) \in Seq(Nat) /\ Len(Append(w, x)) = t + 1
        /\ Append(w, x)[t + 1] = x /\ \A k \in 1 .. t : Append(w, x)[k] = w[k]
    BY <1>4, <1>5, AppendProperties
  <2>. DEFINE u == Append(w, x)
  <2>2. \A k \in 1 .. t + 1 : u[k] = photo[k][longer[k]]
    <3>. TAKE k \in 1 .. t + 1
    <3>1. CASE k = t + 1
      BY <1>3, <2>1, <3>1
    <3>2. CASE k # t + 1
      BY <1>3, <2>1, <3>2
    <3>. QED  BY <3>1, <3>2
  <2>. HIDE DEF u
  <2>3. u = [k \in 1 .. t + 1 |-> u[k]]
    BY <2>1 DEF u
  <2>. QED  BY <2>2, <2>3 DEF u
<1>7. Weights(photo, t)[path] = Product(w)
  BY <1>3 DEF Weights, PathMass
<1>8. Weights(photo, t + 1)[longer] = Product(v)
  BY <1>3 DEF Weights, PathMass
<1>. HIDE DEF w, v, x
<1>9. Product(w) \in Nat /\ Product(v) = Product(w) * x
  BY <1>4, <1>5, <1>6, ProductIs
<1>10. Product(w) * x = x * Product(w)
  BY <1>4, <1>9
<1>. QED  BY <1>4, <1>7, <1>8, <1>9, <1>10 DEF longer, x

\* A sum over paths, one frame later.
LEMMA SumNext ==
  ASSUME NEW photo \in Seq(FrameRows), NEW t \in Nat, t + 1 <= Len(photo), NEW c \in Classes,
         NEW S \in SUBSET FramePaths(t)
  PROVE  SumOver(Weights(photo, t + 1), More(S, c)) = photo[t + 1][c] * SumOver(Weights(photo, t), S)
<1>. DEFINE m == [path \in FramePaths(t) |-> Append(path, c)]
            f == Weights(photo, t)
            g == Weights(photo, t + 1)
            k == photo[t + 1][c]
<1>0. IsFiniteSet(S)
  BY PathsAreFinite, FS_Subset
<1>1. \A path \in S : f[path] \in Nat /\ k \in Nat /\ g[Append(path, c)] = k * f[path]
  BY WeightNext
<1>2. k \in Nat
  <2>1. photo[t + 1] \in FrameRows
    <3>1. t + 1 \in 1 .. Len(photo)
      OBVIOUS
    <3>. QED  BY <3>1
  <2>. QED  BY <2>1 DEF FrameRows
<1>3. \A p, q \in S : Append(p, c) = Append(q, c) => p = q
  <2>1. \A p \in S : p \in Seq(Classes)
    BY CollapsedNext
  <2>. QED  BY <2>1, AppendInjective
<1>4. \A p \in S : m[p] = Append(p, c)
  OBVIOUS
<1>5. More(S, c) = {m[p] : p \in S}
  BY <1>4 DEF More
<1>. HIDE DEF m, f, g, k
<1>6. SumOver(g, {m[p] : p \in S}) = k * SumOver(f, S)
  <2>1. \A p \in S : f[p] \in Nat /\ g[m[p]] = k * f[p]
    BY <1>1, <1>4
  <2>2. \A p, q \in S : m[p] = m[q] => p = q
    BY <1>3, <1>4
  <2>. QED  BY <1>0, <1>2, <2>1, <2>2, SumOverMapped
<1>. QED  BY <1>5, <1>6 DEF f, g, k

\* The weight of a path is a number.
LEMMA WeightIsNat ==
  ASSUME NEW photo \in Seq(FrameRows), NEW t \in Nat, t <= Len(photo), NEW path \in FramePaths(t)
  PROVE  Weights(photo, t)[path] \in Nat
<1>. DEFINE w == [k \in 1 .. t |-> photo[k][path[k]]]
<1>1. \A k \in 1 .. t : photo[k] \in FrameRows /\ path[k] \in Classes
  BY DEF FramePaths
<1>2. \A k \in 1 .. t : photo[k][path[k]] \in Nat
  BY <1>1 DEF FrameRows
<1>3. w \in Seq(Nat)
  BY <1>2
<1>4. Weights(photo, t)[path] = Product(w)
  BY DEF Weights, PathMass, FramePaths
<1>. HIDE DEF w
<1>. QED  BY <1>3, <1>4, ProductIs

\* The forward algorithm keeps to the paths.
LEMMA MassesAreSums ==
  ASSUME NEW photo \in Seq(FrameRows)
  PROVE  \A t \in Nat : t <= Len(photo) => \A p \in Seq(Symbols) :
           /\ SumOver(Weights(photo, t), EndsBlank(t, p)) = BlankMass(photo, t, p)
           /\ SumOver(Weights(photo, t), EndsSymbol(t, p)) = SymbolMass(photo, t, p)
<1>. DEFINE B(t, p) == SumOver(Weights(photo, t), EndsBlank(t, p))
            S(t, p) == SumOver(Weights(photo, t), EndsSymbol(t, p))
            P(t) == \A p \in Seq(Symbols) : B(t, p) = BlankMass(photo, t, p) /\ S(t, p) = SymbolMass(photo, t, p)
            T == {t \in Nat : t <= Len(photo) => P(t)}
<1>0. ASSUME NEW t \in Nat, t <= Len(photo)
      PROVE  IsFiniteSet(FramePaths(t)) /\ \A path \in FramePaths(t) : Weights(photo, t)[path] \in Nat
  <2>1. \A path \in FramePaths(t) : Weights(photo, t)[path] \in Nat
    BY <1>0, WeightIsNat
  <2>. QED  BY <2>1, PathsAreFinite
<1>1. 0 \in T
  <2>0. FramePaths(0) = {<<>>} /\ Collapsed(<<>>) = <<>>
    <3>1. FramePaths(0) = {<<>>}
      <4>1. 1 .. 0 = {}
        OBVIOUS
      <4>2. ASSUME NEW f \in FramePaths(0) PROVE f = <<>>
        <5>1. f \in [1 .. 0 -> Classes]
          BY DEF FramePaths
        <5>2. f \in Seq(Classes)
          BY <5>1
        <5>3. Len(f) = 0
          BY <5>1, <5>2, <4>1
        <5>. QED  BY <5>2, <5>3, EmptySeq
      <4>3. <<>> \in FramePaths(0)
        <5>1. <<>> \in Seq(Classes) /\ Len(<<>>) = 0
          OBVIOUS
        <5>2. \A s : s \in Seq(Classes) => s \in [1 .. Len(s) -> Classes]
          OBVIOUS
        <5>. QED  BY <5>1, <5>2 DEF FramePaths
      <4>. QED  BY <4>2, <4>3
    <3>. QED  BY <3>1, CollapsedIs
  <2>1. Weights(photo, 0)[<<>>] = 1
    <3>1. Weights(photo, 0)[<<>>] = PathMass(photo, <<>>)
      BY <2>0 DEF Weights
    <3>2. [k \in DOMAIN <<>> |-> photo[k][<<>>[k]]] = <<>>
      OBVIOUS
    <3>3. PathMass(photo, <<>>) = Product(<<>>)
      BY <3>2, Zenon DEF PathMass
    <3>4. Product(<<>>) = 1
      <4>1. <<>> \in Seq(Nat)
        OBVIOUS
      <4>. QED  BY <4>1, ProductIs
    <3>. QED  BY <3>1, <3>3, <3>4
  <2>2. \A p : EndsSymbol(0, p) = {} /\ EndsBlank(0, p) = IF p = <<>> THEN {<<>>} ELSE {}
    BY <2>0 DEF EndsSymbol, EndsBlank
  <2>3. SumOver(Weights(photo, 0), {<<>>}) = 1
    <3>1. {} \cup {<<>>} = {<<>>} /\ IsFiniteSet({}) /\ <<>> \notin {}
      BY FS_EmptySet
    <3>2. \A x \in {} \cup {<<>>} : Weights(photo, 0)[x] \in Nat
      BY <2>1
    <3>3. SumOver(Weights(photo, 0), {} \cup {<<>>}) = Weights(photo, 0)[<<>>] + SumOver(Weights(photo, 0), {})
      BY <3>1, <3>2, SumOverOneMore
    <3>4. SumOver(Weights(photo, 0), {}) = 0
      BY SumOverNothing
    <3>. QED  BY <2>1, <3>1, <3>3, <3>4
  <2>4. SumOver(Weights(photo, 0), {}) = 0
    BY SumOverNothing
  <2>5. P(0)
    BY <2>2, <2>3, <2>4 DEF BlankMass, SymbolMass
  <2>. QED  BY <2>5
<1>2. ASSUME NEW t \in T PROVE t + 1 \in T
  <2>1. SUFFICES ASSUME t + 1 <= Len(photo) PROVE P(t + 1)
    OBVIOUS
  <2>2. t \in Nat /\ t <= Len(photo) /\ Len(photo) \in Nat /\ P(t)
    BY <2>1
  <2>3. IsFiniteSet(FramePaths(t)) /\ \A path \in FramePaths(t) : Weights(photo, t)[path] \in Nat
    BY <1>0, <2>2
  <2>4. \A p : EndsBlank(t, p) \in SUBSET FramePaths(t) /\ EndsSymbol(t, p) \in SUBSET FramePaths(t)
    BY DEF EndsBlank, EndsSymbol
  <2>5. \A r \in SUBSET FramePaths(t) : IsFiniteSet(r) /\ \A path \in r : Weights(photo, t)[path] \in Nat
    BY <2>3, FS_Subset
  <2>6. ASSUME NEW q \in SUBSET FramePaths(t), NEW r \in SUBSET FramePaths(t), q \cap r = {}
        PROVE  SumOver(Weights(photo, t), q \cup r) = SumOver(Weights(photo, t), q) + SumOver(Weights(photo, t), r)
    <3>1. \A path \in q \cup r : Weights(photo, t)[path] \in Nat
      BY <2>3
    <3>. QED  BY <2>5, <2>6, <3>1, SumOverUnion
  <2>7. \A p \in Seq(Symbols) : B(t + 1, p) = BlankMass(photo, t + 1, p)
    <3>. TAKE p \in Seq(Symbols)
    <3>1. B(t + 1, p) = photo[t + 1][BLANK] * SumOver(Weights(photo, t), EndsBlank(t, p) \cup EndsSymbol(t, p))
      <4>1. BLANK \in Classes /\ EndsBlank(t, p) \cup EndsSymbol(t, p) \in SUBSET FramePaths(t)
        BY <2>4 DEF Classes
      <4>2. EndsBlank(t + 1, p) = More(EndsBlank(t, p) \cup EndsSymbol(t, p), BLANK)
        BY <2>2, MoreBlank
      <4>. QED  BY <2>1, <2>2, <4>1, <4>2, SumNext
    <3>2. EndsBlank(t, p) \cap EndsSymbol(t, p) = {}
      BY DEF EndsBlank, EndsSymbol
    <3>3. SumOver(Weights(photo, t), EndsBlank(t, p) \cup EndsSymbol(t, p)) = B(t, p) + S(t, p)
      BY <2>4, <2>6, <3>2
    <3>4. B(t, p) = BlankMass(photo, t, p) /\ S(t, p) = SymbolMass(photo, t, p)
      BY <2>2
    <3>. HIDE DEF B, S
    <3>5. BlankMass(photo, t + 1, p) = photo[t + 1][BLANK] * (BlankMass(photo, t, p) + SymbolMass(photo, t, p))
      BY <2>1, <2>2, BlankMassNext
    <3>. QED  BY <3>1, <3>3, <3>4, <3>5, Zenon
  <2>8. ASSUME NEW p \in Seq(Symbols), NEW c \in Symbols
        PROVE  S(t + 1, Append(p, c)) = SymbolMass(photo, t + 1, Append(p, c))
    <3>. DEFINE q == Append(p, c)
                held == IF p # <<>> /\ c = Last(p) THEN {} ELSE EndsSymbol(t, p)
                rest == IF p # <<>> /\ c = Last(p) THEN 0 ELSE SymbolMass(photo, t, p)
    <3>0. c \in Classes /\ q \in Seq(Symbols) /\ q # p
      <4>1. Len(q) = Len(p) + 1 /\ Len(p) \in Nat
        OBVIOUS
      <4>. QED  BY <4>1, AppendProperties DEF Classes
    <3>1. EndsSymbol(t + 1, q) = More(Preceding(t, p, c), c)
      BY <2>2, MoreSymbol
    <3>2. Preceding(t, p, c) = EndsSymbol(t, q) \cup (EndsBlank(t, p) \cup held)
      BY DEF Preceding
    <3>. HIDE DEF q
    <3>3. held \in SUBSET FramePaths(t) /\ SumOver(Weights(photo, t), held) = rest
      <4>1. S(t, p) = SymbolMass(photo, t, p)
        BY <2>2
      <4>. QED  BY <2>4, <4>1, SumOverNothing
    <3>4. EndsBlank(t, p) \cap held = {} /\ EndsSymbol(t, q) \cap (EndsBlank(t, p) \cup held) = {}
      BY <3>0 DEF EndsBlank, EndsSymbol
    <3>. HIDE DEF held, rest
    <3>5. S(t, q) = SymbolMass(photo, t, q) /\ B(t, p) = BlankMass(photo, t, p)
      BY <2>2, <3>0
    <3>6. Preceding(t, p, c) \in SUBSET FramePaths(t)
      BY <2>4, <3>2, <3>3
    <3>7. SumOver(Weights(photo, t), EndsBlank(t, p) \cup held) = B(t, p) + rest
      BY <2>4, <2>6, <3>3, <3>4
    <3>8. SumOver(Weights(photo, t), Preceding(t, p, c)) = S(t, q) + (B(t, p) + rest)
      <4>1. EndsBlank(t, p) \cup held \in SUBSET FramePaths(t)
        BY <2>4, <3>3
      <4>. QED  BY <2>4, <2>6, <3>2, <3>4, <3>7, <4>1
    <3>9. S(t + 1, q) = photo[t + 1][c] * SumOver(Weights(photo, t), Preceding(t, p, c))
      BY <2>1, <2>2, <3>0, <3>1, <3>6, SumNext
    <3>10. SymbolMass(photo, t + 1, q)
             = photo[t + 1][c] * (SymbolMass(photo, t, q) + BlankMass(photo, t, p) + rest)
      BY <2>1, <2>2, SymbolMassNext DEF q, rest
    <3>11. SymbolMass(photo, t, q) \in Nat /\ BlankMass(photo, t, p) \in Nat /\ rest \in Nat
      <4>1. t \in 0 .. Len(photo)
        BY <2>2
      <4>. QED  BY <3>0, <4>1, MassesAre DEF rest
    <3>12. SymbolMass(photo, t, q) + BlankMass(photo, t, p) + rest
             = SymbolMass(photo, t, q) + (BlankMass(photo, t, p) + rest)
      BY <3>11
    <3>. HIDE DEF B, S
    <3>13. S(t + 1, q) = SymbolMass(photo, t + 1, q)
      BY <3>5, <3>8, <3>9, <3>10, <3>12, Zenon
    <3>. QED  BY <3>13 DEF q
  <2>9. S(t + 1, <<>>) = SymbolMass(photo, t + 1, <<>>)
    <3>1. EndsSymbol(t + 1, <<>>) = {}
      <4>1. \A path \in FramePaths(t + 1) : path[t + 1] # BLANK => Collapsed(path) # <<>>
        BY <2>2, CollapsedIs
      <4>. QED  BY <4>1 DEF EndsSymbol
    <3>. QED  BY <3>1, SumOverNothing DEF SymbolMass
  <2>10. \A p \in Seq(Symbols) : S(t + 1, p) = SymbolMass(photo, t + 1, p)
    <3>. TAKE p \in Seq(Symbols)
    <3>. HIDE DEF S
    <3>1. CASE p = <<>>
      BY <2>9, <3>1
    <3>2. CASE p # <<>>
      <4>1. PICK r \in Seq(Symbols), c \in Symbols : p = Append(r, c)
        BY <3>2, SequenceEmptyOrAppend
      <4>. QED  BY <2>8, <4>1
    <3>. QED  BY <3>1, <3>2
  <2>. QED  BY <2>7, <2>10
<1>3. T = Nat
  <2>. HIDE DEF T
  <2>1. T \in SUBSET Nat
    BY DEF T
  <2>. QED  BY <1>1, <1>2, <2>1, Induction
<1>. QED  BY <1>3

\* The first Len(s) elements of s.
LEMMA WholeOf ==
  ASSUME NEW S, NEW s \in Seq(S)
  PROVE  SubSeq(s, 1, Len(s)) = s
<1>1. /\ SubSeq(s, 1, Len(s)) \in Seq(S) /\ Len(SubSeq(s, 1, Len(s))) = Len(s)
      /\ \A i \in 1 .. Len(s) : SubSeq(s, 1, Len(s))[i] = s[i]
  OBVIOUS
<1>. QED  BY <1>1, SeqEqual

\* The sum of the community modules, over the paths of some frames, is this sum.
LEMMA PathSumIs ==
  ASSUME NEW frames, NEW S, IsFiniteSet(S), NEW f, \A x \in S : f[x] \in Nat /\ f[x] = PathMass(frames, x)
  PROVE  MapThenSumSet(LAMBDA p : PathMass(frames, p), S) = SumOver(f, S)
<1>. DEFINE one(s) == CHOOSE x \in s : TRUE
            there(k) == [s \in SUBSET S |-> IF s = {} THEN 0 ELSE PathMass(frames, one(s)) + k[s \ {one(s)}]]
            here(k) == [s \in SUBSET S |-> IF s = {} THEN 0 ELSE f[one(s)] + k[s \ {one(s)}]]
            h == CHOOSE k : k = there(k)
            g == CHOOSE k : SumsUp(k, f, S)
<1>1. MapThenSumSet(LAMBDA p : PathMass(frames, p), S) = h[S]
  BY Zenon DEF MapThenSumSet, MapThenFoldSet
<1>2. \A k : SumsUp(k, f, S) <=> k = here(k)
  BY Zenon DEF SumsUp
<1>3. ASSUME NEW k PROVE here(k) = there(k)
  <2>1. ASSUME NEW s \in SUBSET S
        PROVE  (IF s = {} THEN 0 ELSE f[one(s)] + k[s \ {one(s)}])
               = (IF s = {} THEN 0 ELSE PathMass(frames, one(s)) + k[s \ {one(s)}])
    <3>1. CASE s = {}
      BY <3>1
    <3>2. CASE s # {}
      <4>1. one(s) \in S
        BY <3>2
      <4>2. f[one(s)] = PathMass(frames, one(s))
        BY <4>1
      <4>. HIDE DEF one
      <4>. QED  BY <4>2, Zenon
    <3>. QED  BY <3>1, <3>2, Zenon
  <2>. HIDE DEF one
  <2>. QED  BY <2>1, Zenon
<1>4. \A x \in S : f[x] \in Nat
  OBVIOUS
<1>5. PICK k : SumsUp(k, f, S)
  BY <1>4, SumsUpSolved
<1>. HIDE DEF here, there
<1>6. h = there(h)
  <2>1. k = there(k)
    BY <1>2, <1>3, <1>5, Zenon
  <2>. QED  BY <2>1, Zenon
<1>7. SumsUp(h, f, S) /\ SumsUp(g, f, S)
  <2>1. SumsUp(g, f, S)
    BY <1>5, Zenon
  <2>. HIDE DEF h, g
  <2>. QED  BY <1>2, <1>3, <1>6, <2>1, Zenon
<1>. HIDE DEF h, g
<1>8. h[S] = g[S]
  BY <1>4, <1>7, SumsUpOnce
<1>9. SumOver(f, S) = g[S]
  BY Zenon DEF SumOver, g
<1>. QED  BY <1>1, <1>8, <1>9

\* ctc_log_likelihood computes what CTC means by the likelihood of a string: the mass of all paths
\* of the frames that collapse to it, for any number of frames and any string.
THEOREM ForwardIsExact ==
  ASSUME NEW frames \in Seq(FrameRows), frames # <<>>, NEW tokens \in Seq(Symbols)
  PROVE  Likelihood(frames, tokens) = AlignedMass(frames, tokens)
<1>. DEFINE t == Len(frames)
            f == Weights(frames, t)
            S == {path \in FramePaths(t) : Collapsed(path) = tokens}
            ends == EndsBlank(t, tokens)
            goes == EndsSymbol(t, tokens)
<1>1. t \in Nat \ {0} /\ SubSeq(frames, 1, t) = frames /\ DOMAIN frames = 1 .. t
  <2>1. Len(frames) \in Nat /\ DOMAIN frames = 1 .. Len(frames) /\ Len(frames) # 0
    BY EmptySeq
  <2>2. SubSeq(frames, 1, Len(frames)) = frames
    BY WholeOf
  <2>. QED  BY <2>1, <2>2
<1>2. Likelihood(frames, tokens) = BlankMass(frames, t, tokens) + SymbolMass(frames, t, tokens)
  BY <1>1, LikelihoodIs
<1>3. SumOver(f, ends) = BlankMass(frames, t, tokens) /\ SumOver(f, goes) = SymbolMass(frames, t, tokens)
  BY <1>1, MassesAreSums
<1>4. S = ends \cup goes /\ ends \cap goes = {} /\ ends \in SUBSET FramePaths(t) /\ goes \in SUBSET FramePaths(t)
  BY <1>1 DEF EndsBlank, EndsSymbol
<1>5. IsFiniteSet(FramePaths(t)) /\ \A path \in FramePaths(t) : f[path] \in Nat /\ f[path] = PathMass(frames, path)
  <2>1. ASSUME NEW path \in FramePaths(t) PROVE f[path] \in Nat
    BY <1>1, WeightIsNat
  <2>. QED  BY <1>1, <2>1, PathsAreFinite DEF Weights
<1>6. AlignedMass(frames, tokens) = MapThenSumSet(LAMBDA p : PathMass(frames, p), S)
  <2>1. FramePaths(t) = [DOMAIN frames -> Classes]
    BY <1>1 DEF FramePaths
  <2>. HIDE DEF t
  <2>. QED  BY <2>1, Zenon DEF AlignedMass
<1>. HIDE DEF t, f, S, ends, goes
<1>7. IsFiniteSet(S) /\ S \in SUBSET FramePaths(t) /\ IsFiniteSet(ends) /\ IsFiniteSet(goes)
  BY <1>4, <1>5, FS_Subset
<1>8. AlignedMass(frames, tokens) = SumOver(f, S)
  <2>1. MapThenSumSet(LAMBDA p : PathMass(frames, p), S) = SumOver(f, S)
    BY <1>5, <1>7, PathSumIs
  <2>. QED  BY <1>6, <2>1, Zenon
<1>9. SumOver(f, ends \cup goes) = SumOver(f, ends) + SumOver(f, goes)
  BY <1>4, <1>5, <1>7, SumOverUnion
<1>. QED  BY <1>2, <1>3, <1>4, <1>8, <1>9 DEF t

-----------------------------------------------------------------------------
(***************************************************************************)
(* The invariant of the search: the beams against the masses.              *)
(***************************************************************************)
\* The beams after t frames: their states are alive and their masses bounded, and if nothing is
\* cut the masses are exact and a live prefix without a beam has no mass.
Decoded(Q, st, photo, t, beams, sharp) ==
  /\ Search(Q, st, beams)
  /\ \A i \in DOMAIN beams :
       LET b == beams[i]
       IN  /\ Len(b.prefix) <= t /\ b.state # DEAD
           /\ b.blank <= BlankMass(photo, t, b.prefix) /\ b.symbol <= SymbolMass(photo, t, b.prefix)
           /\ sharp => /\ b.blank = BlankMass(photo, t, b.prefix)
                       /\ b.symbol = SymbolMass(photo, t, b.prefix)
  /\ sharp => \A p \in Seq(Symbols) : st[p] # DEAD /\ ~HasSlot(beams, p) =>
       BlankMass(photo, t, p) = 0 /\ SymbolMass(photo, t, p) = 0

\* Before the first frame there is the empty prefix.
LEMMA FirstDecoded ==
  ASSUME NEW Q, 1 \in Q, NEW st, st[<<>>] = 1, NEW photo, NEW sharp
  PROVE  Decoded(Q, st, photo, 0, FirstBeams, sharp)
<1>. DEFINE b == [prefix |-> <<>>, blank |-> 1, symbol |-> 0, state |-> 1]
<1>1. FirstBeams = <<b>> /\ b \in BeamRecord(Q)
  BY DEF FirstBeams, BeamRecord
<1>2. b.prefix = <<>> /\ b.blank = 1 /\ b.symbol = 0 /\ b.state = 1
  OBVIOUS
<1>. HIDE DEF b
<1>3. FirstBeams \in Seq(BeamRecord(Q)) /\ DOMAIN FirstBeams = {1} /\ FirstBeams[1] = b
  BY <1>1
<1>4. Search(Q, st, FirstBeams)
  BY <1>1, <1>2, <1>3 DEF Search, OneSlotEach, ABeam
<1>5. Len(<<>>) = 0 /\ 1 # DEAD
  BY DEF DEAD
<1>6. \A p : p # <<>> => BlankMass(photo, 0, p) = 0 /\ SymbolMass(photo, 0, p) = 0
  BY DEF BlankMass, SymbolMass
<1>7. BlankMass(photo, 0, <<>>) = 1 /\ SymbolMass(photo, 0, <<>>) = 0
  BY DEF BlankMass, SymbolMass
<1>8. HasSlot(FirstBeams, <<>>)
  BY <1>2, <1>3 DEF HasSlot
<1>. QED  BY <1>2, <1>3, <1>4, <1>5, <1>6, <1>7, <1>8 DEF Decoded

\* What the beams hold for a prefix.
Holds(h, exact, blank, symbol) ==
  /\ h.blank \in Nat /\ h.symbol \in Nat
  /\ h.blank <= blank /\ h.symbol <= symbol
  /\ exact => h.blank = blank /\ h.symbol = symbol

\* What the beams hold for a prefix is bounded by its masses, and is them where nothing is cut.
LEMMA HeldMasses ==
  ASSUME NEW Q, NEW st, NEW photo \in Seq(FrameRows), NEW t \in 0 .. Len(photo), NEW beams, NEW sharp \in BOOLEAN,
         Decoded(Q, st, photo, t, beams, sharp), NEW p \in Seq(Symbols)
  PROVE  Holds(Held(beams, p), sharp /\ st[p] # DEAD, BlankMass(photo, t, p), SymbolMass(photo, t, p))
<1>0. BlankMass(photo, t, p) \in Nat /\ SymbolMass(photo, t, p) \in Nat
  BY MassesAre
<1>1. CASE HasSlot(beams, p)
  <2>1. PICK k \in DOMAIN beams : beams[k].prefix = p
    BY <1>1 DEF HasSlot
  <2>2. Held(beams, p) = beams[k]
    BY <2>1, HeldIs DEF Decoded, Search
  <2>3. beams \in Seq(BeamRecord(Q))
    BY DEF Decoded, Search
  <2>4. beams[k] \in BeamRecord(Q)
    BY <2>3
  <2>5. beams[k].blank \in Nat /\ beams[k].symbol \in Nat
    BY <2>4 DEF BeamRecord
  <2>. QED  BY <2>1, <2>2, <2>5 DEF Decoded, Holds
<1>2. CASE ~HasSlot(beams, p)
  <2>1. Held(beams, p).blank = 0 /\ Held(beams, p).symbol = 0
    BY <1>2 DEF Held
  <2>. QED  BY <1>0, <1>2, <2>1 DEF Decoded, Holds
<1>. QED  BY <1>1, <1>2

\* A word whose longer words are alive is alive.
LEMMA DeadStays ==
  ASSUME NEW Q, NEW st, NEW constrained \in BOOLEAN, Steered(Q, st, constrained),
         NEW p \in Seq(Symbols), NEW c \in Symbols, st[Append(p, c)] # DEAD
  PROVE  st[p] # DEAD
BY DEF Steered, StepTo

\* One more frame.
LEMMA NextDecoded ==
  ASSUME NEW Q, NEW st, NEW constrained \in BOOLEAN, Steered(Q, st, constrained),
         NEW photo \in Seq([Classes -> Nat \ {0}]), NEW t \in Nat, t + 1 <= Len(photo),
         NEW width \in Nat, NEW prune \in Nat, NEW sharp \in BOOLEAN,
         sharp => prune = 0 /\ Cardinality(WordsUpTo(Len(photo))) <= width,
         NEW beams, Decoded(Q, st, photo, t, beams, sharp)
  PROVE  Decoded(Q, st, photo, t + 1, NextBeams(beams, photo[t + 1], constrained, width, prune), sharp)
<1>. DEFINE row == photo[t + 1]
            table == NextTable(beams, row, constrained, prune)
            after == NextBeams(beams, row, constrained, width, prune)
            grown(p) == GrownTo(beams, row, constrained, prune, p)
            B(p) == BlankMass(photo, t, p)
            S(p) == SymbolMass(photo, t, p)
            W == Cardinality(WordsUpTo(Len(photo)))
<1>0. /\ photo \in Seq(FrameRows) /\ row \in FrameRows /\ row \in [Classes -> Nat] /\ (\A c \in Classes : row[c] \in Nat /\ row[c] > 0)
      /\ Len(photo) \in Nat /\ t \in 0 .. Len(photo) /\ t + 1 \in 0 .. Len(photo)
  <2>0. Len(photo) \in Nat
    OBVIOUS
  <2>1. t + 1 \in 1 .. Len(photo) /\ t \in 0 .. Len(photo)
    BY <2>0
  <2>2. row \in [Classes -> Nat \ {0}]
    BY <2>1
  <2>3. row \in [Classes -> Nat] /\ \A c \in Classes : row[c] \in Nat /\ row[c] > 0
    <3>. HIDE DEF row
    <3>. QED  BY <2>2
  <2>4. photo \in Seq(FrameRows)
    <3>. DEFINE Positive == [Classes -> Nat \ {0}]
    <3>1. Positive \subseteq FrameRows /\ photo \in Seq(Positive)
      BY DEF FrameRows
    <3>. HIDE DEF Positive
    <3>2. photo \in Seq(FrameRows)
      BY <3>1
    <3>. QED  BY <3>2
  <2>. QED  BY <2>0, <2>1, <2>3, <2>4 DEF FrameRows
<1>1. Search(Q, st, beams)
  BY DEF Decoded
<1>2. /\ Search(Q, st, table)
      /\ \A p : HasSlot(table, p) <=> HasSlot(beams, p) \/ grown(p)
      /\ \A k \in DOMAIN table : NextSlot(beams, row, constrained, prune, table[k])
  BY <1>0, <1>1, NextTableIs
<1>3. Search(Q, st, after) /\ Keeps(after, table, width)
  <2>. HIDE DEF table, row
  <2>1. table = NextTable(beams, row, constrained, prune)
    BY DEF table
  <2>. QED  BY <1>0, <1>1, <2>1, NextBeamsAre
<1>. HIDE DEF table, after, row
<1>4. /\ beams \in Seq(BeamRecord(Q)) /\ table \in Seq(BeamRecord(Q))
      /\ \A i \in DOMAIN beams : /\ beams[i].prefix \in Seq(Symbols) /\ beams[i].state = st[beams[i].prefix]
                                 /\ Len(beams[i].prefix) \in Nat
      /\ \A k \in DOMAIN table : /\ table[k].prefix \in Seq(Symbols) /\ table[k].state = st[table[k].prefix]
                                 /\ Len(table[k].prefix) \in Nat
  BY <1>1, <1>2 DEF Search, ABeam, BeamRecord
\* What is in the table is alive and not longer than the frames.
<1>5. ASSUME NEW p \in Seq(Symbols), HasSlot(beams, p) PROVE Len(p) <= t /\ st[p] # DEAD
  <2>1. PICK i \in DOMAIN beams : beams[i].prefix = p
    BY <1>5 DEF HasSlot
  <2>. QED  BY <1>4, <2>1 DEF Decoded
<1>6. ASSUME NEW p \in Seq(Symbols), grown(p) PROVE Len(p) <= t + 1 /\ st[p] # DEAD
  <2>1. PICK i \in DOMAIN beams : \E c \in Symbols :
          Grows(beams[i], c, row, constrained, prune) /\ p = Append(beams[i].prefix, c)
    BY <1>6 DEF GrownTo
  <2>2. PICK c \in Symbols : Grows(beams[i], c, row, constrained, prune) /\ p = Append(beams[i].prefix, c)
    BY <2>1
  <2>3. Len(beams[i].prefix) <= t /\ Len(p) = Len(beams[i].prefix) + 1
    BY <1>4, <2>2 DEF Decoded
  <2>4. st[p] = StateAfter(beams[i], c, constrained)
    BY <1>4, <2>2 DEF Steered, StateAfter
  <2>. QED  BY <1>4, <2>2, <2>3, <2>4 DEF Grows
<1>7. ASSUME NEW k \in DOMAIN table PROVE Len(table[k].prefix) <= t + 1 /\ table[k].state # DEAD
  <2>. DEFINE p == table[k].prefix
  <2>1. p \in Seq(Symbols) /\ table[k].state = st[p] /\ HasSlot(table, p) /\ Len(p) \in Nat
    BY <1>4 DEF HasSlot
  <2>2. HasSlot(beams, p) \/ grown(p)
    BY <1>2, <2>1
  <2>. HIDE DEF p
  <2>3. CASE HasSlot(beams, p)
    <3>1. Len(p) <= t /\ st[p] # DEAD
      BY <1>5, <2>1, <2>3
    <3>. QED  BY <2>1, <3>1 DEF p
  <2>4. CASE grown(p)
    BY <1>6, <2>1, <2>4 DEF p
  <2>. QED  BY <2>2, <2>3, <2>4
\* A prefix that no beam grows to, though it is alive, has no beam to grow from.
<1>8. ASSUME sharp, NEW q \in Seq(Symbols), NEW c \in Symbols, st[Append(q, c)] # DEAD, ~grown(Append(q, c))
      PROVE  ~HasSlot(beams, q)
  <2>. SUFFICES ASSUME NEW i \in DOMAIN beams, beams[i].prefix = q PROVE FALSE
    BY DEF HasSlot
  <2>1. StateAfter(beams[i], c, constrained) = st[Append(q, c)]
    BY <1>4 DEF Steered, StateAfter
  <2>2. row[c] > prune
    <3>1. row[c] > 0 /\ prune = 0
      BY <1>0, <1>8 DEF Classes
    <3>. QED  BY <3>1
  <2>3. Grows(beams[i], c, row, constrained, prune)
    BY <1>8, <2>1, <2>2 DEF Grows
  <2>. QED  BY <1>8, <2>3 DEF GrownTo
<1>9. ASSUME NEW p \in Seq(Symbols) PROVE B(p) \in Nat /\ S(p) \in Nat
  BY <1>0, MassesAre
\* The masses in the table.
<1>10. ASSUME NEW k \in DOMAIN table
       PROVE  LET p == table[k].prefix
              IN  /\ table[k].blank <= BlankMass(photo, t + 1, p)
                  /\ table[k].symbol <= SymbolMass(photo, t + 1, p)
                  /\ sharp => /\ table[k].blank = BlankMass(photo, t + 1, p)
                              /\ table[k].symbol = SymbolMass(photo, t + 1, p)
  <2>. DEFINE p == table[k].prefix
              h == Held(beams, p)
  <2>1. p \in Seq(Symbols) /\ st[p] # DEAD /\ NextSlot(beams, row, constrained, prune, table[k])
    BY <1>2, <1>4, <1>7
  <2>2. /\ h.blank \in Nat /\ h.symbol \in Nat /\ h.blank <= B(p) /\ h.symbol <= S(p)
        /\ sharp => h.blank = B(p) /\ h.symbol = S(p)
    <3>. HIDE DEF p
    <3>1. Holds(Held(beams, p), sharp /\ st[p] # DEAD, BlankMass(photo, t, p), SymbolMass(photo, t, p))
      BY <1>0, <2>1, HeldMasses
    <3>. QED  BY <2>1, <3>1 DEF Holds
  <2>3. table[k].blank = (h.blank + h.symbol) * row[BLANK]
    BY <2>1 DEF NextSlot
  <2>4. BlankMass(photo, t + 1, p) = row[BLANK] * (B(p) + S(p)) /\ row[BLANK] \in Nat
    BY <1>0, <2>1, BlankMassNext DEF row, Classes
  <2>5. \A x, y, z \in Nat : /\ x * z \in Nat /\ z * y \in Nat /\ (x <= y => x * z <= z * y) /\ (x = y => x * z = z * y)
    <3>. TAKE x \in Nat, y \in Nat, z \in Nat
    <3>1. x * z \in Nat /\ z * y \in Nat /\ x * z = z * x
      OBVIOUS
    <3>2. x <= y => z * x <= z * y
      <4>1. SUFFICES ASSUME x <= y PROVE z * x <= z * y
        OBVIOUS
      <4>2. y - x \in Nat /\ z * (y - x) \in Nat /\ z * y = z * x + z * (y - x)
        BY <4>1
      <4>. QED  BY <3>1, <4>2
    <3>. QED  BY <3>1, <3>2
  <2>6. B(p) \in Nat /\ S(p) \in Nat
    BY <1>9, <2>1
  <2>. HIDE DEF p, h, B, S
  <2>7. table[k].blank <= BlankMass(photo, t + 1, p) /\ (sharp => table[k].blank = BlankMass(photo, t + 1, p))
    <3>. DEFINE x == h.blank + h.symbol
                y == B(p) + S(p)
    <3>1. x \in Nat /\ y \in Nat /\ x <= y /\ (sharp => x = y)
      BY <2>2, <2>6
    <3>. HIDE DEF x, y
    <3>2. x * row[BLANK] <= row[BLANK] * y /\ (x = y => x * row[BLANK] = row[BLANK] * y)
      BY <2>4, <2>5, <3>1
    <3>. QED  BY <2>3, <2>4, <3>1, <3>2 DEF x, y
  <2>8. CASE p = <<>>
    <3>1. table[k].symbol = 0
      BY <2>1, <2>8 DEF NextSlot, p
    <3>2. SymbolMass(photo, t + 1, p) = 0
      BY <2>8 DEF SymbolMass
    <3>. QED  BY <2>7, <3>1, <3>2 DEF p
  <2>9. CASE p # <<>>
    <3>1. PICK q \in Seq(Symbols) : \E c \in Symbols : p = Append(q, c)
      BY <2>1, <2>9, SequenceEmptyOrAppend
    <3>2. PICK c \in Symbols : p = Append(q, c)
      BY <3>1
    <3>. DEFINE g == Held(beams, q)
                same == q # <<>> /\ c = Last(q)
                source == IF same THEN g.blank ELSE g.blank + g.symbol
                x == h.symbol + (IF grown(p) THEN source ELSE 0)
                y == S(p) + B(q) + (IF same THEN 0 ELSE S(q))
    <3>3. /\ g.blank \in Nat /\ g.symbol \in Nat /\ g.blank <= B(q) /\ g.symbol <= S(q)
          /\ sharp => g.blank = B(q) /\ g.symbol = S(q)
      <4>1. st[q] # DEAD
        BY <2>1, <3>2, DeadStays
      <4>2. Holds(Held(beams, q), sharp /\ st[q] # DEAD, BlankMass(photo, t, q), SymbolMass(photo, t, q))
        BY <1>0, HeldMasses
      <4>. QED  BY <4>1, <4>2 DEF B, S, g, Holds
    <3>4. table[k].symbol = h.symbol * row[c] + (IF grown(p) THEN source * row[c] ELSE 0) /\ row[c] \in Nat
      BY <1>0, <2>1, <3>2 DEF NextSlot, p, h, Classes
    <3>5. SymbolMass(photo, t + 1, p) = row[c] * y
      BY <1>0, <3>2, SymbolMassNext DEF row, B, S
    <3>6. B(q) \in Nat /\ S(q) \in Nat
      BY <1>9 DEF B, S
    <3>7. sharp /\ ~grown(p) => g.blank = 0 /\ g.symbol = 0
      <4>1. SUFFICES ASSUME sharp, ~grown(p) PROVE g.blank = 0 /\ g.symbol = 0
        OBVIOUS
      <4>2. ~HasSlot(beams, q)
        BY <1>8, <2>1, <3>2, <4>1
      <4>. QED  BY <4>2 DEF Held
    <3>. HIDE DEF g, same, grown
    <3>8. source \in Nat /\ source <= B(q) + (IF same THEN 0 ELSE S(q))
          /\ (sharp => source = B(q) + (IF same THEN 0 ELSE S(q)))
          /\ (sharp /\ ~grown(p) => source = 0)
      BY <3>3, <3>6, <3>7
    <3>. HIDE DEF source
    <3>9. x \in Nat /\ y \in Nat /\ x <= y /\ (sharp => x = y)
      <4>. DEFINE z == B(q) + (IF same THEN 0 ELSE S(q))
      <4>1. source \in Nat /\ z \in Nat /\ source <= z /\ (sharp => source = z) /\ y = S(p) + z
        BY <2>6, <3>6, <3>8
      <4>. HIDE DEF z, y
      <4>2. CASE grown(p)
        <5>1. x = h.symbol + source
          BY <4>2
        <5>2. \A a, b, s, e \in Nat : a <= b /\ s <= e => a + s \in Nat /\ b + e \in Nat /\ a + s <= b + e
          OBVIOUS
        <5>. HIDE DEF x
        <5>. QED  BY <2>2, <2>6, <4>1, <5>1, <5>2
      <4>3. CASE ~grown(p)
        <5>1. x = h.symbol + 0 /\ (sharp => source = 0)
          BY <3>8, <4>3
        <5>. HIDE DEF x
        <5>. QED  BY <2>2, <2>6, <4>1, <5>1
      <4>. QED  BY <4>2, <4>3, Zenon
    <3>10. table[k].symbol = x * row[c]
      <4>1. \A u, v, w \in Nat : (u + v) * w = u * w + v * w /\ u * w \in Nat /\ u * w + 0 = (u + 0) * w
        OBVIOUS
      <4>2. h.symbol \in Nat /\ source \in Nat /\ row[c] \in Nat
        BY <2>2, <3>4, <3>8
      <4>3. CASE grown(p)
        BY <3>4, <4>1, <4>2, <4>3
      <4>4. CASE ~grown(p)
        BY <3>4, <4>1, <4>2, <4>4
      <4>. QED  BY <4>3, <4>4
    <3>. HIDE DEF x, y
    <3>11. x * row[c] <= row[c] * y /\ (x = y => x * row[c] = row[c] * y)
      BY <2>5, <3>4, <3>9
    <3>. QED  BY <2>7, <3>5, <3>9, <3>10, <3>11 DEF p
  <2>. QED  BY <2>8, <2>9
\* A live prefix without a slot has no mass.
<1>11. ASSUME sharp, NEW p \in Seq(Symbols), st[p] # DEAD, ~HasSlot(table, p)
       PROVE  BlankMass(photo, t + 1, p) = 0 /\ SymbolMass(photo, t + 1, p) = 0
  <2>1. ~HasSlot(beams, p) /\ ~grown(p)
    BY <1>2, <1>11
  <2>2. B(p) = 0 /\ S(p) = 0
    BY <1>11, <2>1 DEF Decoded
  <2>3. BlankMass(photo, t + 1, p) = row[BLANK] * (B(p) + S(p)) /\ row[BLANK] \in Nat
    BY <1>0, BlankMassNext DEF row, Classes
  <2>4. \A x \in Nat : x * (0 + 0) = 0 /\ x * (0 + 0 + 0) = 0
    OBVIOUS
  <2>. HIDE DEF B, S, grown
  <2>5. BlankMass(photo, t + 1, p) = 0
    BY <2>2, <2>3, <2>4
  <2>6. CASE p = <<>>
    BY <2>5, <2>6 DEF SymbolMass
  <2>7. CASE p # <<>>
    <3>1. PICK q \in Seq(Symbols) : \E c \in Symbols : p = Append(q, c)
      BY <2>7, SequenceEmptyOrAppend
    <3>2. PICK c \in Symbols : p = Append(q, c)
      BY <3>1
    <3>3. st[q] # DEAD
      BY <1>11, <3>2, DeadStays
    <3>4. ~HasSlot(beams, q)
      BY <1>8, <1>11, <2>1, <3>2
    <3>5. B(q) = 0 /\ S(q) = 0
      BY <1>11, <3>3, <3>4 DEF Decoded, B, S
    <3>6. SymbolMass(photo, t + 1, p) = row[c] * (S(p) + B(q) + (IF q # <<>> /\ c = Last(q) THEN 0 ELSE S(q)))
      BY <1>0, <3>2, SymbolMassNext DEF row, B, S
    <3>7. row[c] \in Nat
      BY <1>0 DEF Classes
    <3>. QED  BY <2>2, <2>4, <2>5, <3>5, <3>6, <3>7
  <2>. QED  BY <2>6, <2>7
\* With the width for every word nothing of the table is cut.
<1>12. sharp => Len(table) <= width
  <2>. SUFFICES ASSUME sharp PROVE Len(table) <= width
    OBVIOUS
  <2>1. \A k \in DOMAIN table : Len(table[k].prefix) <= Len(photo)
    BY <1>0, <1>4, <1>7
  <2>2. Len(table) <= W
    BY <1>0, <1>2, <2>1, FewBeams
  <2>3. W \in Nat /\ W <= width /\ Len(table) \in Nat
    BY <1>0, <1>4, WordsUpToAre
  <2>. HIDE DEF W
  <2>. QED  BY <2>2, <2>3
<1>13. sharp => \A p \in Seq(Symbols) : st[p] # DEAD /\ ~HasSlot(after, p) =>
         BlankMass(photo, t + 1, p) = 0 /\ SymbolMass(photo, t + 1, p) = 0
  <2>. SUFFICES ASSUME sharp, NEW p \in Seq(Symbols), st[p] # DEAD, ~HasSlot(after, p)
                PROVE  BlankMass(photo, t + 1, p) = 0 /\ SymbolMass(photo, t + 1, p) = 0
    OBVIOUS
  <2>1. ~HasSlot(table, p)
    BY <1>3, <1>12 DEF HasSlot, Keeps
  <2>. QED  BY <1>11, <2>1
<1>14. \A i \in DOMAIN after :
         LET b == after[i]
         IN  /\ Len(b.prefix) <= t + 1 /\ b.state # DEAD
             /\ b.blank <= BlankMass(photo, t + 1, b.prefix) /\ b.symbol <= SymbolMass(photo, t + 1, b.prefix)
             /\ sharp => /\ b.blank = BlankMass(photo, t + 1, b.prefix)
                         /\ b.symbol = SymbolMass(photo, t + 1, b.prefix)
  BY <1>3, <1>7, <1>10 DEF Keeps
<1>. QED  BY <1>3, <1>13, <1>14 DEF Decoded, after, row

-----------------------------------------------------------------------------
(***************************************************************************)
(* What is read from the beams.                                            *)
(***************************************************************************)
\* The hypotheses are words and masses.
LEMMA HypothesesAre ==
  ASSUME NEW Q, NEW beams \in Seq(BeamRecord(Q)), NEW constrained
  PROVE  Hypotheses(beams, constrained) \in Seq(Hypothesis)
<1>. DEFINE chosen == {b \in Range(beams) : b.prefix # <<>> /\ (constrained => AcceptingFormats(b.state) # {})}
            S == {[tokens |-> b.prefix, mass |-> Total(b)] : b \in chosen}
            made == [b \in chosen |-> [tokens |-> b.prefix, mass |-> Total(b)]]
<1>1. IsFiniteSet(Range(beams)) /\ Range(beams) \in SUBSET BeamRecord(Q)
  BY RangeIs
<1>2. Hypotheses(beams, constrained) = InOrder(S, ByMass)
  BY DEF Hypotheses
<1>3. IsFiniteSet(chosen) /\ chosen \in SUBSET BeamRecord(Q)
  <2>1. chosen \in SUBSET Range(beams)
    OBVIOUS
  <2>. HIDE DEF chosen
  <2>. QED  BY <1>1, <2>1, FS_Subset
<1>. HIDE DEF chosen
<1>4. S \in SUBSET Hypothesis
  <2>1. ASSUME NEW b \in chosen PROVE [tokens |-> b.prefix, mass |-> Total(b)] \in Hypothesis
    <3>1. b \in BeamRecord(Q)
      BY <1>3
    <3>2. b.prefix \in Seq(Symbols) /\ b.blank \in Nat /\ b.symbol \in Nat
      BY <3>1 DEF BeamRecord
    <3>. QED  BY <3>2 DEF Hypothesis, Total
  <2>. QED  BY <2>1
<1>5. made \in Surjection(chosen, S)
  BY DEF Surjection
<1>. HIDE DEF S, made
<1>6. IsFiniteSet(S)
  BY <1>3, <1>5, FS_Surjection
<1>. DEFINE n == Cardinality(S)
<1>7. InOrder(S, ByMass) \in [1 .. n -> S] /\ n \in Nat
  BY <1>4, <1>6, ByMassRanks
<1>. HIDE DEF n
<1>8. InOrder(S, ByMass) \in [1 .. n -> Hypothesis]
  BY <1>4, <1>7
<1>. QED  BY <1>2, <1>7, <1>8

\* There is a heaviest class in every row.
LEMMA HeaviestIs ==
  ASSUME NEW row \in FrameRows
  PROVE  Heaviest(row) \in Classes
<1>. DEFINE ahead == {p \in Classes \X Classes : row[p[1]] > row[p[2]] \/ (row[p[1]] = row[p[2]] /\ p[1] < p[2])}
<1>1. IsFiniteSet(Classes) /\ Classes # {} /\ Classes \subseteq Nat
  <2>1. Classes = 0 .. Cardinality(Symbols) /\ Cardinality(Symbols) \in Nat
    BY SymbolsAssumption DEF Classes, BLANK
  <2>. HIDE DEF Classes
  <2>. QED  BY <2>1, FS_Interval
<1>2. \A c \in Classes : row[c] \in Nat
  BY DEF FrameRows
<1>. HIDE DEF Classes
<1>3. Orders(ahead, Classes)
  <2>1. \A x \in Classes : <<x, x>> \notin ahead
    BY <1>1, <1>2
  <2>2. ASSUME NEW x \in Classes, NEW y \in Classes, NEW z \in Classes, <<x, y>> \in ahead, <<y, z>> \in ahead
        PROVE  <<x, z>> \in ahead
    <3>1. x \in Nat /\ y \in Nat /\ z \in Nat /\ row[x] \in Nat /\ row[y] \in Nat /\ row[z] \in Nat
      BY <1>1, <1>2
    <3>2. (row[x] > row[y] \/ (row[x] = row[y] /\ x < y)) /\ (row[y] > row[z] \/ (row[y] = row[z] /\ y < z))
      BY <2>2
    <3>3. row[x] > row[z] \/ (row[x] = row[z] /\ x < z)
      BY <3>1, <3>2
    <3>. QED  BY <3>3
  <2>3. ASSUME NEW x \in Classes, NEW y \in Classes PROVE x = y \/ <<x, y>> \in ahead \/ <<y, x>> \in ahead
    <3>1. x \in Nat /\ y \in Nat /\ row[x] \in Nat /\ row[y] \in Nat
      BY <1>1, <1>2
    <3>3. \A a, b, m, n \in Nat : m = n \/ a > b \/ (a = b /\ m < n) \/ b > a \/ (b = a /\ n < m)
      OBVIOUS
    <3>. DEFINE a == row[x]
                b == row[y]
    <3>4. a \in Nat /\ b \in Nat
      BY <3>1
    <3>. HIDE DEF a, b
    <3>5. x = y \/ a > b \/ (a = b /\ x < y) \/ b > a \/ (b = a /\ y < x)
      BY <3>1, <3>4, <3>3
    <3>2. \/ x = y
          \/ row[x] > row[y] \/ (row[x] = row[y] /\ x < y)
          \/ row[y] > row[x] \/ (row[y] = row[x] /\ y < x)
      BY <3>5 DEF a, b
    <3>. QED  BY <3>2
  <2>. QED  BY <2>1, <2>2, <2>3 DEF Orders
<1>4. \A x, y \in Classes : <<x, y>> \in ahead <=> row[x] > row[y] \/ (row[x] = row[y] /\ x < y)
  OBVIOUS
<1>. HIDE DEF ahead
<1>5. Ranking(ahead, Classes)
  BY <1>1, <1>3, Ranks
<1>6. Cardinality(Classes) \in Nat /\ Cardinality(Classes) # 0
  BY <1>1, FS_CardinalityType, FS_EmptySet
<1>7. PICK c \in Classes : Cardinality(AheadOf(ahead, Classes, c)) = 0
  <2>1. 1 \in 1 .. Cardinality(Classes)
    BY <1>6
  <2>. QED  BY <1>5, <2>1 DEF Ranking
<1>8. AheadOf(ahead, Classes, c) = {}
  <2>1. AheadOf(ahead, Classes, c) \in SUBSET Classes
    BY DEF AheadOf
  <2>2. IsFiniteSet(AheadOf(ahead, Classes, c))
    BY <1>1, <2>1, FS_Subset
  <2>. QED  BY <1>7, <2>2, FS_EmptySet
<1>9. \A d \in Classes \ {c} : row[d] <= row[c] /\ (row[d] = row[c] => c < d)
  <2>. TAKE d \in Classes \ {c}
  <2>1. <<d, c>> \notin ahead
    BY <1>8 DEF AheadOf
  <2>2. ~(row[d] > row[c]) /\ ~(row[d] = row[c] /\ d < c)
    BY <1>4, <2>1
  <2>3. row[d] \in Nat /\ row[c] \in Nat /\ c \in Nat /\ d \in Nat /\ c # d
    <3>1. c \in Classes /\ d \in Classes /\ c # d
      OBVIOUS
    <3>. QED  BY <1>1, <1>2, <3>1
  <2>4. \A a, b, m, n \in Nat : m # n /\ ~(a > b) /\ ~(a = b /\ m < n) => a <= b /\ (a = b => n < m)
    OBVIOUS
  <2>. DEFINE a == row[d]
              b == row[c]
  <2>5. a \in Nat /\ b \in Nat /\ ~(a > b) /\ ~(a = b /\ d < c)
    BY <2>2, <2>3
  <2>. HIDE DEF a, b
  <2>6. a <= b /\ (a = b => c < d)
    BY <2>3, <2>4, <2>5
  <2>. QED  BY <2>6 DEF a, b
<1>. QED  BY <1>9, Zenon DEF Heaviest

\* So is what the greedy decoder returns.
LEMMA GreedyIs ==
  ASSUME NEW photo \in Seq(FrameRows)
  PROVE  Greedy(photo) \in Hypothesis
<1>. DEFINE best == [t \in DOMAIN photo |-> Heaviest(photo[t])]
            I == {i \in DOMAIN best : best[i] # BLANK /\ (i > 1 => best[i - 1] # best[i])}
            w == [t \in DOMAIN best |-> photo[t][best[t]]]
            N == Len(photo)
<1>1. N \in Nat /\ DOMAIN photo = 1 .. N /\ \A t \in 1 .. N : photo[t] \in FrameRows
  OBVIOUS
<1>2. best \in [1 .. N -> Classes] /\ best \in Seq(Classes)
  <2>1. best \in [1 .. N -> Classes]
    BY <1>1, HeaviestIs
  <2>. HIDE DEF best, N
  <2>. QED  BY <1>1, <2>1
<1>. HIDE DEF best, N
<1>3. Collapsed(best) \in Seq(Symbols)
  <2>1. I \in SUBSET DOMAIN best /\ Collapsed(best) = Picked(best, I)
    BY DEF Collapsed
  <2>2. {best[i] : i \in I} \subseteq Symbols
    BY <1>2 DEF Classes
  <2>. DEFINE E == {best[i] : i \in I}
  <2>. HIDE DEF I
  <2>3. Picked(best, I) \in Seq(E)
    BY <1>2, <2>1, PickedIs
  <2>4. E \subseteq Symbols
    BY <2>2
  <2>. HIDE DEF E
  <2>5. Picked(best, I) \in Seq(Symbols)
    BY <2>3, <2>4
  <2>. QED  BY <2>1, <2>5
<1>4. PathMass(photo, best) \in Nat
  <2>1. \A t \in 1 .. N : photo[t][best[t]] \in Nat
    BY <1>1, <1>2 DEF FrameRows
  <2>2. w \in [1 .. N -> Nat]
    BY <1>2, <2>1
  <2>. HIDE DEF w
  <2>3. w \in Seq(Nat)
    BY <1>1, <2>2
  <2>4. Product(w) \in Nat
    BY <2>3, ProductIs
  <2>. QED  BY <2>4 DEF PathMass, w
<1>5. Greedy(photo) = [tokens |-> Collapsed(best), mass |-> PathMass(photo, best)]
  BY DEF Greedy, best
<1>. QED  BY <1>3, <1>4, <1>5 DEF Hypothesis

\* The mass of a distribution is a number.
LEMMA MassOfIsNat ==
  ASSUME NEW dist \in Seq(Hypothesis)
  PROVE  MassOf(dist) \in Nat
<1>. DEFINE w == [i \in DOMAIN dist |-> dist[i].mass]
<1>1. \A i \in DOMAIN dist : dist[i] \in Hypothesis
  OBVIOUS
<1>2. \A i \in DOMAIN dist : dist[i].mass \in Nat
  BY <1>1 DEF Hypothesis
<1>3. DOMAIN dist = 1 .. Len(dist) /\ Len(dist) \in Nat
  OBVIOUS
<1>4. w \in [1 .. Len(dist) -> Nat]
  BY <1>2, <1>3
<1>. HIDE DEF w
<1>5. w \in Seq(Nat)
  BY <1>3, <1>4
<1>. QED  BY <1>5, SumIsNat DEF MassOf, w

\* A non-empty set of bounded numbers has a greatest one.
LEMMA GreatestIs ==
  ASSUME NEW T \in SUBSET Nat, T # {}, NEW m \in Nat, \A k \in T : k <= m
  PROVE  Max(T) \in T
<1>. DEFINE D == {m - k : k \in T}
<1>1. D \in SUBSET Nat
  OBVIOUS
<1>2. PICK t \in T : TRUE
  OBVIOUS
<1>3. m - t \in D
  OBVIOUS
<1>4. PICK n \in D : \A j \in D : n <= j
  <2>. HIDE DEF D
  <2>. QED  BY <1>1, <1>3, LeastOf
<1>5. PICK k \in T : n = m - k
  OBVIOUS
<1>6. \A j \in T : k >= j
  <2>. TAKE j \in T
  <2>1. n <= m - j
    BY <1>4
  <2>2. j \in Nat /\ k \in Nat
    OBVIOUS
  <2>. QED  BY <1>5, <2>1, <2>2
<1>. QED  BY <1>6, Zenon DEF Max

\* A threshold, or none.
Fractions == (Nat \X Nat) \cup {None}

\* threshold_for returns a threshold of the calibration, or none.
LEMMA ThresholdIs ==
  ASSUME NEW calibration, calibration.single \in Fractions,
         DOMAIN calibration.fused \subseteq Nat,
         \A k \in DOMAIN calibration.fused : calibration.fused[k] \in Fractions,
         NEW views \in Nat
  PROVE  ThresholdFor(calibration, views) \in Fractions
<1>. DEFINE limit == Max({1, views})
            counts == {k \in DOMAIN calibration.fused : k <= limit}
            table == IF counts = {} THEN None ELSE calibration.fused[Max(counts)]
<1>1. limit \in Nat
  BY MaxOfTwo
<1>2. None \in Fractions
  BY DEF Fractions
<1>3. ThresholdFor(calibration, views) = IF table = None THEN calibration.single ELSE table
  BY DEF ThresholdFor
<1>. HIDE DEF limit
<1>4. counts \in SUBSET Nat /\ counts \subseteq DOMAIN calibration.fused /\ \A k \in counts : k <= limit
  OBVIOUS
<1>. HIDE DEF counts, Fractions
<1>5. counts # {} => Max(counts) \in DOMAIN calibration.fused
  BY <1>1, <1>4, GreatestIs
<1>6. table \in Fractions
  BY <1>2, <1>5
<1>. HIDE DEF table
<1>. QED  BY <1>3, <1>6

-----------------------------------------------------------------------------
(***************************************************************************)
(* Conformal sets: what the threshold covers.                              *)
(***************************************************************************)
\* Division rounds down.
LEMMA DivisionIs ==
  ASSUME NEW m \in Int, NEW d \in Nat \ {0}
  PROVE  m \div d \in Int /\ (m \div d) * d <= m /\ m < (m \div d) * d + d
OBVIOUS

\* At least k scores are not above the k-th in order.
LEMMA SortedIs ==
  ASSUME NEW n \in Nat, NEW scores \in [1 .. n -> Nat], NEW k \in 1 .. n
  PROVE  /\ Sorted(scores)[k] \in Nat
         /\ \E B \in SUBSET (1 .. n) :
              IsFiniteSet(B) /\ Cardinality(B) = k /\ \A j \in B : scores[j] <= Sorted(scores)[k]
<1>. DEFINE S == 1 .. n
            ahead(i, j) == scores[i] < scores[j] \/ (scores[i] = scores[j] /\ i < j)
            pairs == {p \in S \X S : ahead(p[1], p[2])}
            before(x) == {y \in S : ahead(y, x)}
            ranks == [i \in 1 .. Cardinality(S) |-> CHOOSE x \in S : Cardinality(before(x)) = i - 1]
<1>1. IsFiniteSet(S) /\ Cardinality(S) = n
  BY FS_Interval
<1>2. Orders(pairs, S)
  <2>1. \A x \in S : scores[x] \in Nat /\ x \in Nat
    OBVIOUS
  <2>2. \A x \in S : <<x, x>> \notin pairs
    BY <2>1
  <2>3. ASSUME NEW x \in S, NEW y \in S, NEW z \in S, <<x, y>> \in pairs, <<y, z>> \in pairs
        PROVE  <<x, z>> \in pairs
    <3>1. ahead(x, y) /\ ahead(y, z)
      BY <2>3
    <3>2. ahead(x, z)
      BY <2>1, <3>1
    <3>. QED  BY <3>2
  <2>4. \A x, y \in S : x = y \/ <<x, y>> \in pairs \/ <<y, x>> \in pairs
    BY <2>1
  <2>. QED  BY <2>2, <2>3, <2>4 DEF Orders
<1>3. Ranking(pairs, S)
  BY <1>1, <1>2, Ranks
<1>4. \A x \in S : AheadOf(pairs, S, x) = before(x)
  BY DEF AheadOf
<1>5. Sorted(scores) = [i \in 1 .. n |-> scores[ranks[i]]]
  <2>1. DOMAIN scores = S
    OBVIOUS
  <2>. QED  BY <1>1, <2>1 DEF Sorted, InOrder
<1>. DEFINE x == ranks[k]
<1>6. x \in S /\ Cardinality(before(x)) = k - 1
  <2>. HIDE DEF before, pairs
  <2>1. \E y \in S : Cardinality(before(y)) = k - 1
    BY <1>1, <1>3, <1>4 DEF Ranking
  <2>. QED  BY <1>1, <2>1
<1>7. Sorted(scores)[k] = scores[x]
  BY <1>5
<1>. HIDE DEF x
<1>. DEFINE B == before(x) \cup {x}
<1>8. before(x) \in SUBSET S /\ x \notin before(x)
  BY <1>6
<1>9. \A j \in B : scores[j] <= scores[x]
  BY <1>6
<1>10. IsFiniteSet(B) /\ Cardinality(B) = k
  <2>. HIDE DEF before
  <2>1. IsFiniteSet(before(x))
    BY <1>1, <1>8, FS_Subset
  <2>2. IsFiniteSet(B) /\ Cardinality(B) = Cardinality(before(x)) + 1
    BY <1>8, <2>1, FS_AddElement
  <2>. QED  BY <1>6, <2>2
<1>11. B \in SUBSET S
  BY <1>6, <1>8
<1>. HIDE DEF B
<1>. QED  BY <1>6, <1>7, <1>9, <1>10, <1>11

\* Where the j-th of the scores without the i-th is among all of them.
Skip(i, j) == IF j < i THEN j ELSE j + 1

\* The scores without the i-th.
LEMMA RemovedIs ==
  ASSUME NEW n \in Nat, NEW scores \in [1 .. n + 1 -> Nat], NEW i \in 1 .. n + 1
  PROVE  /\ RemoveAt(scores, i) \in [1 .. n -> Nat] /\ Len(RemoveAt(scores, i)) = n
         /\ \A j \in 1 .. n : Skip(i, j) \in 1 .. n + 1 /\ RemoveAt(scores, i)[j] = scores[Skip(i, j)]
<1>. DEFINE one == SubSeq(scores, 1, i - 1)
            two == SubSeq(scores, i + 1, n + 1)
<1>1. scores \in Seq(Nat) /\ Len(scores) = n + 1
  OBVIOUS
<1>2. one \in Seq(Nat) /\ Len(one) = i - 1 /\ \A j \in 1 .. i - 1 : one[j] = scores[j]
  BY <1>1, SubSeqProperties
<1>3. two \in Seq(Nat) /\ Len(two) = n + 1 - i /\ \A j \in 1 .. n + 1 - i : two[j] = scores[i + j]
  BY <1>1, SubSeqProperties
<1>4. RemoveAt(scores, i) = one \o two
  BY <1>1 DEF RemoveAt
<1>. HIDE DEF one, two
<1>5. one \o two \in Seq(Nat) /\ Len(one \o two) = n
      /\ \A j \in 1 .. n : (one \o two)[j] = IF j <= i - 1 THEN one[j] ELSE two[j - (i - 1)]
  <2>1. /\ one \o two \in Seq(Nat) /\ Len(one \o two) = Len(one) + Len(two)
        /\ \A j \in 1 .. Len(one) + Len(two) :
             (one \o two)[j] = IF j <= Len(one) THEN one[j] ELSE two[j - Len(one)]
    BY <1>2, <1>3, ConcatProperties
  <2>2. Len(one) + Len(two) = n /\ Len(one) = i - 1
    BY <1>2, <1>3
  <2>. QED  BY <2>1, <2>2
<1>6. ASSUME NEW j \in 1 .. n
      PROVE  Skip(i, j) \in 1 .. n + 1 /\ (one \o two)[j] = scores[Skip(i, j)]
  <2>1. CASE j < i
    BY <1>2, <1>5, <2>1 DEF Skip
  <2>2. CASE ~(j < i)
    <3>1. j - (i - 1) \in 1 .. n + 1 - i /\ i + (j - (i - 1)) = j + 1
      BY <2>2
    <3>2. (one \o two)[j] = two[j - (i - 1)]
      BY <1>5, <2>2
    <3>. QED  BY <1>3, <2>2, <3>1, <3>2 DEF Skip
  <2>. QED  BY <2>1, <2>2
<1>7. one \o two \in [1 .. n -> Nat]
  <2>. DEFINE both == one \o two
  <2>1. both \in Seq(Nat) /\ Len(both) = n
    BY <1>5
  <2>. HIDE DEF both
  <2>2. both \in [1 .. n -> Nat]
    BY <2>1
  <2>. QED  BY <2>2 DEF both
<1>. QED  BY <1>4, <1>5, <1>6, <1>7

\* The scores that are covered by the threshold that the others give.
Covered(scores, of, alpha) ==
  {i \in DOMAIN scores : scores[i] <= Quantile(RemoveAt(scores, i), of, alpha)}

\* Split conformal prediction: of any n + 1 scores, at least the rank that quantile computes are covered.
LEMMA RankCovered ==
  ASSUME NEW n \in Nat, NEW scores \in [1 .. n + 1 -> Nat], NEW of, NEW alpha,
         NEW rank \in 1 .. n, \A r : Len(r) = n => Quantile(r, of, alpha) = Sorted(r)[rank]
  PROVE  IsFiniteSet(Covered(scores, of, alpha)) /\ rank <= Cardinality(Covered(scores, of, alpha))
<1>. DEFINE D == 1 .. n + 1
            rest(i) == RemoveAt(scores, i)
            kth(i) == Sorted(rest(i))[rank]
            C == Covered(scores, of, alpha)
<1>1. IsFiniteSet(D) /\ Cardinality(D) = n + 1
  BY FS_Interval
<1>2. \A i \in D : Len(rest(i)) = n /\ rest(i) \in [1 .. n -> Nat]
  BY RemovedIs
<1>3. \A i \in D : Quantile(rest(i), of, alpha) = kth(i)
  <2>. HIDE DEF rest
  <2>. QED  BY <1>2
<1>4. C = {i \in D : scores[i] <= kth(i)}
  BY <1>3 DEF Covered
<1>5. \A i \in D : kth(i) \in Nat
  BY <1>2, SortedIs
<1>. HIDE DEF C, kth, rest
<1>6. IsFiniteSet(C)
  BY <1>1, <1>4, FS_Subset
<1>7. CASE C = D
  <2>1. rank <= n + 1
    OBVIOUS
  <2>. QED  BY <1>1, <1>6, <1>7, <2>1 DEF C
<1>8. CASE C # D
  <2>. DEFINE T == {scores[i] : i \in D \ C}
  <2>1. T \in SUBSET Nat /\ T # {}
    BY <1>4, <1>8
  <2>2. PICK least \in T : \A t \in T : least <= t
    <3>1. PICK t \in T : TRUE
      BY <2>1
    <3>. QED  BY <2>1, <3>1, LeastOf
  <2>3. PICK i \in D \ C : scores[i] = least
    BY <2>2
  <2>4. \A j \in D \ C : scores[i] <= scores[j]
    BY <2>2, <2>3
  <2>5. kth(i) < scores[i]
    BY <1>4, <1>5, <2>3
  <2>6. PICK B \in SUBSET (1 .. n) :
          IsFiniteSet(B) /\ Cardinality(B) = rank /\ \A j \in B : rest(i)[j] <= kth(i)
    <3>1. rest(i) \in [1 .. n -> Nat]
      BY <1>2
    <3>. QED  BY <3>1, SortedIs DEF kth
  <2>. DEFINE f == [j \in B |-> Skip(i, j)]
  <2>7. ASSUME NEW j \in B PROVE Skip(i, j) \in C
    <3>1. Skip(i, j) \in D /\ rest(i)[j] = scores[Skip(i, j)]
      <4>1. j \in 1 .. n /\ i \in 1 .. n + 1
        BY <2>6
      <4>. QED  BY <4>1, RemovedIs DEF rest
    <3>2. scores[Skip(i, j)] \in Nat /\ scores[i] \in Nat /\ kth(i) \in Nat
      BY <1>5, <3>1
    <3>3. scores[Skip(i, j)] < scores[i]
      BY <2>5, <2>6, <3>1, <3>2
    <3>4. ~(scores[i] <= scores[Skip(i, j)])
      BY <3>2, <3>3
    <3>. QED  BY <2>3, <2>4, <3>1, <3>4
  <2>8. f \in Injection(B, C)
    <3>1. f \in [B -> C]
      BY <2>7
    <3>2. \A j, k \in B : Skip(i, j) = Skip(i, k) => j = k
      BY DEF Skip
    <3>3. \A j, k \in B : f[j] = f[k] => j = k
      BY <3>2
    <3>. HIDE DEF f
    <3>. QED  BY <3>1, <3>3 DEF Injection, IsInjective
  <2>. HIDE DEF f
  <2>9. Cardinality(B) <= Cardinality(C)
    BY <1>6, <2>8, FS_Injection
  <2>. QED  BY <1>6, <2>6, <2>9 DEF C
<1>. QED  BY <1>7, <1>8 DEF C

\* A factor keeps the order of numbers.
LEMMA Multiplied ==
  ASSUME NEW a \in Int, NEW b \in Int, NEW d \in Nat, a <= b
  PROVE  a * d \in Int /\ b * d \in Int /\ a * d <= b * d
<1>1. (b - a) * d >= 0
  OBVIOUS
<1>2. (b - a) * d = b * d - a * d
  OBVIOUS
<1>. QED  BY <1>1, <1>2

\* Rounding up.
LEMMA RoundsUp ==
  ASSUME NEW x \in Nat \ {0}, NEW d \in Nat \ {0}, NEW r, r = -((-x) \div d)
  PROVE  r \in Int /\ 1 <= r /\ \A c \in Int : r <= c => c * d \in Int /\ x <= c * d
<1>. DEFINE q == (-x) \div d
<1>1. q \in Int /\ q * d <= -x
  BY DivisionIs
<1>2. r = -q
  OBVIOUS
<1>. HIDE DEF q
<1>3. r \in Int /\ q = -r
  BY <1>1, <1>2
<1>4. r * d = -(q * d)
  BY <1>1, <1>2
<1>5. r * d \in Int /\ q * d \in Int
  BY <1>1, <1>3
<1>6. x <= r * d
  BY <1>1, <1>4, <1>5
<1>7. ASSUME NEW c \in Int, r <= c PROVE c * d \in Int /\ x <= c * d
  <2>1. r * d <= c * d /\ c * d \in Int
    BY <1>3, <1>7, Multiplied
  <2>. QED  BY <1>5, <1>6, <2>1
<1>8. 1 <= r
  <2>1. SUFFICES ASSUME r <= 0 PROVE FALSE
    BY <1>3
  <2>2. x <= 0 * d
    BY <1>7, <2>1
  <2>. QED  BY <2>2
<1>. QED  BY <1>3, <1>7, <1>8

\* Split conformal prediction: of n + 1 scores, whichever is the new one and whichever are those
\* calibrated with, at least the share 1 - alpha is not above the threshold that conformal_quantile
\* makes of the other n.  An exchangeable new plate is then covered with that probability.
THEOREM QuantileCovers ==
  ASSUME NEW n \in Nat, NEW of \in Nat, NEW scores \in [1 .. n + 1 -> 0 .. of], NEW alpha \in Nat \X Nat,
         0 < alpha[1], alpha[1] < alpha[2]
  PROVE  Cardinality(Covered(scores, of, alpha)) * alpha[2] >= (n + 1) * (alpha[2] - alpha[1])
<1>. DEFINE d == alpha[2]
            e == d - alpha[1]
            share == (n + 1) * e
            rank == -((-(n + 1) * e) \div d)
            C == Covered(scores, of, alpha)
<1>1. d \in Nat \ {0} /\ e \in Nat \ {0} /\ e <= d
  OBVIOUS
<1>2. share \in Nat \ {0} /\ -(n + 1) * e = -share /\ share <= (n + 1) * d
  <2>. HIDE DEF e, d
  <2>1. e * (n + 1) <= d * (n + 1)
    BY <1>1, Multiplied
  <2>2. e * (n + 1) = share /\ d * (n + 1) = (n + 1) * d
    BY <1>1
  <2>3. share \in Nat \ {0} /\ -(n + 1) * e = -share
    BY <1>1
  <2>. QED  BY <2>1, <2>2, <2>3
<1>3. rank \in Int /\ 1 <= rank /\ \A c \in Int : rank <= c => c * d \in Int /\ share <= c * d
  <2>. HIDE DEF share, e, d
  <2>. QED  BY <1>1, <1>2, RoundsUp
<1>4. scores \in [1 .. n + 1 -> Nat]
  OBVIOUS
<1>5. Cardinality(C) * d >= share
  <2>1. CASE rank <= n
    <3>1. rank \in 1 .. n
      BY <1>3, <2>1
    <3>2. \A r : Len(r) = n => Quantile(r, of, alpha) = Sorted(r)[rank]
      BY <3>1 DEF Quantile
    <3>3. IsFiniteSet(C) /\ rank <= Cardinality(C)
      <4>. HIDE DEF rank
      <4>. QED  BY <1>4, <3>1, <3>2, RankCovered
    <3>. HIDE DEF rank, C, d, share
    <3>4. Cardinality(C) \in Nat
      BY <3>3, FS_CardinalityType
    <3>5. Cardinality(C) * d \in Int /\ share <= Cardinality(C) * d
      BY <1>3, <3>3, <3>4
    <3>. QED  BY <1>2, <3>5
  <2>2. CASE ~(rank <= n)
    <3>1. ASSUME NEW i \in 1 .. n + 1 PROVE Quantile(RemoveAt(scores, i), of, alpha) = of
      <4>1. Len(RemoveAt(scores, i)) = n
        BY <1>4, RemovedIs
      <4>2. rank > n
        BY <1>3, <2>2
      <4>. QED  BY <4>1, <4>2 DEF Quantile
    <3>2. C = 1 .. n + 1
      BY <3>1 DEF Covered
    <3>3. Cardinality(C) = n + 1
      BY <3>2, FS_Interval
    <3>. HIDE DEF C, d, share
    <3>. QED  BY <1>1, <1>2, <3>3
  <2>. QED  BY <2>1, <2>2
<1>. QED  BY <1>5

-----------------------------------------------------------------------------
(***************************************************************************)
(* Fusion does not depend on the order of the views: its products and      *)
(* sums are those of the same numbers in another order.                    *)
(***************************************************************************)
\* A product of one factor more.
LEMMA ProductNext ==
  ASSUME NEW n \in Nat, NEW w \in [1 .. n + 1 -> Nat]
  PROVE  /\ Product([i \in 1 .. n |-> w[i]]) \in Nat
         /\ Product(w) = Product([i \in 1 .. n |-> w[i]]) * w[n + 1]
<1>. DEFINE front == [i \in 1 .. n |-> w[i]]
<1>1. front \in Seq(Nat) /\ w \in Seq(Nat) /\ w[n + 1] \in Nat
  OBVIOUS
<1>2. Append(front, w[n + 1]) = w
  <2>1. /\ Append(front, w[n + 1]) \in Seq(Nat) /\ Len(Append(front, w[n + 1])) = n + 1
        /\ \A i \in 1 .. n + 1 : Append(front, w[n + 1])[i] = w[i]
    BY <1>1, AppendProperties
  <2>. HIDE DEF front
  <2>2. Len(w) = n + 1
    OBVIOUS
  <2>. QED  BY <1>1, <2>1, <2>2, SeqEqual
<1>. HIDE DEF front
<1>3. Product(front) \in Nat /\ Product(Append(front, w[n + 1])) = Product(front) * w[n + 1]
  BY <1>1, ProductIs
<1>. QED  BY <1>2, <1>3, Zenon DEF front

\* Any factor may come first.
LEMMA ProductWithout ==
  \A n \in Nat : \A w \in [1 .. n + 1 -> Nat], j \in 1 .. n + 1 :
    /\ Product([i \in 1 .. n |-> w[Skip(j, i)]]) \in Nat
    /\ Product(w) = w[j] * Product([i \in 1 .. n |-> w[Skip(j, i)]])
<1>. DEFINE rest(n, w, j) == [i \in 1 .. n |-> w[Skip(j, i)]]
            P(n) == \A w \in [1 .. n + 1 -> Nat], j \in 1 .. n + 1 :
                      Product(rest(n, w, j)) \in Nat /\ Product(w) = w[j] * Product(rest(n, w, j))
            T == {n \in Nat : P(n)}
<1>1. ASSUME NEW n \in Nat, NEW w \in [1 .. n + 1 -> Nat]
      PROVE  /\ Product(rest(n, w, n + 1)) \in Nat
             /\ Product(w) = w[n + 1] * Product(rest(n, w, n + 1))
  <2>1. rest(n, w, n + 1) = [i \in 1 .. n |-> w[i]]
    BY DEF Skip
  <2>. DEFINE front == [i \in 1 .. n |-> w[i]]
  <2>2. Product(front) \in Nat /\ Product(w) = Product(front) * w[n + 1] /\ w[n + 1] \in Nat
    BY ProductNext
  <2>. HIDE DEF front
  <2>3. Product(front) * w[n + 1] = w[n + 1] * Product(front)
    BY <2>2
  <2>. QED  BY <2>1, <2>2, <2>3, Zenon DEF front
<1>2. 0 \in T
  <2>1. ASSUME NEW w \in [1 .. 0 + 1 -> Nat], NEW j \in 1 .. 0 + 1
        PROVE  Product(rest(0, w, j)) \in Nat /\ Product(w) = w[j] * Product(rest(0, w, j))
    <3>1. j = 0 + 1
      OBVIOUS
    <3>. HIDE DEF rest
    <3>. QED  BY <1>1, <3>1
  <2>. QED  BY <2>1
<1>3. ASSUME NEW n \in T PROVE n + 1 \in T
  <2>0. n \in Nat /\ P(n)
    OBVIOUS
  <2>1. ASSUME NEW w \in [1 .. (n + 1) + 1 -> Nat], NEW j \in 1 .. (n + 1) + 1
        PROVE  Product(rest(n + 1, w, j)) \in Nat /\ Product(w) = w[j] * Product(rest(n + 1, w, j))
    <3>1. CASE j = (n + 1) + 1
      <4>. HIDE DEF rest
      <4>. QED  BY <1>1, <2>0, <3>1
    <3>2. CASE j # (n + 1) + 1
      <4>. DEFINE front == [i \in 1 .. n + 1 |-> w[i]]
                  more == rest(n + 1, w, j)
                  x == w[(n + 1) + 1]
      <4>1. j \in 1 .. n + 1 /\ x \in Nat /\ front \in [1 .. n + 1 -> Nat] /\ front[j] = w[j] /\ w[j] \in Nat
        BY <2>0, <3>2
      <4>2. Product(w) = Product(front) * x
        BY <2>0, ProductNext
      <4>3. more \in [1 .. n + 1 -> Nat] /\ more[n + 1] = x
        BY <2>0, <4>1 DEF Skip
      <4>4. [i \in 1 .. n |-> more[i]] = rest(n, front, j)
        BY <2>0, <4>1 DEF Skip
      <4>. HIDE DEF front, more, x, rest
      <4>5. Product(rest(n, front, j)) \in Nat /\ Product(front) = front[j] * Product(rest(n, front, j))
        BY <2>0, <4>1
      <4>6. Product(more) = Product(rest(n, front, j)) * x
        BY <2>0, <4>3, <4>4, ProductNext
      <4>7. \A a, b, c \in Nat : (a * b) * c = a * (b * c) /\ b * c \in Nat
        OBVIOUS
      <4>. DEFINE y == Product(rest(n, front, j))
      <4>8. y \in Nat /\ Product(front) = w[j] * y /\ Product(more) = y * x
        BY <4>1, <4>5, <4>6
      <4>. HIDE DEF y
      <4>9. Product(more) \in Nat /\ Product(w) = w[j] * Product(more)
        <5>1. y * x \in Nat /\ (w[j] * y) * x = w[j] * (y * x)
          BY <4>1, <4>7, <4>8
        <5>. QED  BY <4>2, <4>8, <5>1, Zenon
      <4>. QED  BY <4>9 DEF more
    <3>. QED  BY <3>1, <3>2
  <2>. HIDE DEF rest
  <2>. QED  BY <2>0, <2>1
<1>4. T = Nat
  <2>. HIDE DEF T
  <2>1. T \in SUBSET Nat
    BY DEF T
  <2>. QED  BY <1>2, <1>3, <2>1, Induction
<1>. QED  BY <1>4

\* The orders that n things may be put in.
Shuffles(n) == {p \in [1 .. n -> 1 .. n] : \A a, b \in 1 .. n : p[a] = p[b] => a = b}

\* Every thing is somewhere in the order.
LEMMA ShuffleReaches ==
  ASSUME NEW n \in Nat, NEW p \in Shuffles(n), NEW k \in 1 .. n
  PROVE  \E i \in 1 .. n : p[i] = k
<1>1. p \in Injection(1 .. n, 1 .. n)
  BY DEF Shuffles, Injection, IsInjective
<1>2. IsFiniteSet(1 .. n)
  BY FS_Interval
<1>. DEFINE S == 1 .. n
<1>. HIDE DEF S
<1>3. p \in Surjection(S, S)
  BY <1>1, <1>2, FS_Injection DEF S
<1>. QED  BY <1>3 DEF S, Surjection

\* The factors of a product may come in any order.
LEMMA ProductShuffled ==
  \A n \in Nat : \A w \in [1 .. n -> Nat], p \in Shuffles(n) :
    Product([i \in 1 .. n |-> w[p[i]]]) = Product(w)
<1>. DEFINE mixed(n, w, p) == [i \in 1 .. n |-> w[p[i]]]
            P(n) == \A w \in [1 .. n -> Nat], p \in Shuffles(n) : Product(mixed(n, w, p)) = Product(w)
            T == {n \in Nat : P(n)}
<1>1. 0 \in T
  <2>1. ASSUME NEW w \in [1 .. 0 -> Nat], NEW p \in Shuffles(0) PROVE mixed(0, w, p) = w
    <3>1. 1 .. 0 = {}
      OBVIOUS
    <3>2. \A i \in 1 .. 0 : mixed(0, w, p)[i] = w[i]
      BY <3>1
    <3>. QED  BY <3>2
  <2>. HIDE DEF mixed
  <2>. QED  BY <2>1
<1>2. ASSUME NEW n \in T PROVE n + 1 \in T
  <2>0. n \in Nat /\ P(n)
    OBVIOUS
  <2>1. ASSUME NEW w \in [1 .. n + 1 -> Nat], NEW p \in Shuffles(n + 1)
        PROVE  Product(mixed(n + 1, w, p)) = Product(w)
    <3>1. PICK j \in 1 .. n + 1 : p[j] = n + 1
      <4>1. n + 1 \in Nat /\ n + 1 \in 1 .. n + 1
        BY <2>0
      <4>. QED  BY <4>1, ShuffleReaches
    <3>. DEFINE v == mixed(n + 1, w, p)
                front == [i \in 1 .. n |-> w[i]]
                q == [i \in 1 .. n |-> p[Skip(j, i)]]
    <3>2. p \in [1 .. n + 1 -> 1 .. n + 1] /\ \A a, b \in 1 .. n + 1 : p[a] = p[b] => a = b
      BY DEF Shuffles
    <3>3. \A i \in 1 .. n : Skip(j, i) \in 1 .. n + 1 /\ Skip(j, i) # j
                            /\ \A k \in 1 .. n : Skip(j, i) = Skip(j, k) => i = k
      BY <2>0 DEF Skip
    <3>4. \A i \in 1 .. n : p[Skip(j, i)] \in 1 .. n
      <4>. TAKE i \in 1 .. n
      <4>1. p[Skip(j, i)] \in 1 .. n + 1 /\ p[Skip(j, i)] # n + 1
        BY <3>1, <3>2, <3>3
      <4>. QED  BY <2>0, <4>1
    <3>5. q \in Shuffles(n)
      BY <3>2, <3>3, <3>4 DEF Shuffles
    <3>6. v \in [1 .. n + 1 -> Nat] /\ v[j] = w[n + 1] /\ front \in [1 .. n -> Nat] /\ w[n + 1] \in Nat
      <4>1. \A i \in 1 .. n + 1 : w[p[i]] \in Nat
        BY <3>2
      <4>2. \A i \in 1 .. n : i \in 1 .. n + 1
        BY <2>0
      <4>3. w[n + 1] \in Nat
        BY <2>0
      <4>. QED  BY <3>1, <4>1, <4>2, <4>3
    <3>7. [i \in 1 .. n |-> v[Skip(j, i)]] = mixed(n, front, q)
      BY <3>2, <3>3, <3>4
    <3>. HIDE DEF v, front, q, mixed
    <3>8. Product(v) = w[n + 1] * Product(mixed(n, front, q))
      BY <2>0, <3>6, <3>7, ProductWithout
    <3>9. Product(mixed(n, front, q)) = Product(front)
      BY <2>0, <3>5, <3>6
    <3>10. Product(front) \in Nat /\ Product(w) = Product(front) * w[n + 1]
      BY <2>0, ProductNext DEF front
    <3>. DEFINE y == Product(front)
    <3>11. y \in Nat /\ Product(v) = w[n + 1] * y /\ Product(w) = y * w[n + 1]
      BY <3>8, <3>9, <3>10
    <3>. HIDE DEF y
    <3>12. w[n + 1] * y = y * w[n + 1]
      BY <3>6, <3>11
    <3>. QED  BY <3>11, <3>12 DEF v
  <2>. HIDE DEF mixed
  <2>. QED  BY <2>0, <2>1
<1>3. T = Nat
  <2>. HIDE DEF T
  <2>1. T \in SUBSET Nat
    BY DEF T
  <2>. QED  BY <1>1, <1>2, <2>1, Induction
<1>. QED  BY <1>3

\* The sum of the community modules is this sum: what the views give all candidates.
LEMMA NormIs ==
  ASSUME NEW view, IsView(view), NEW cands, IsFiniteSet(cands)
  PROVE  Norm(view, cands) \in Nat
<1>. DEFINE one(s) == CHOOSE x \in s : TRUE
            f == [s \in cands |-> Raw(view, s)]
            there(k) == [s \in SUBSET cands |-> IF s = {} THEN 0 ELSE Raw(view, one(s)) + k[s \ {one(s)}]]
            h == CHOOSE k : k = there(k)
<1>1. MapThenSumSet(LAMBDA s : Raw(view, s), cands) = h[cands]
  BY Zenon DEF MapThenSumSet, MapThenFoldSet
<1>2. \A s \in cands : f[s] \in Nat /\ f[s] = Raw(view, s)
  BY RawIsNat
<1>3. \A k : SumsUp(k, f, cands) <=> k = there(k)
  <2>. TAKE k
  <2>. DEFINE here == [s \in SUBSET cands |-> IF s = {} THEN 0 ELSE f[one(s)] + k[s \ {one(s)}]]
  <2>1. ASSUME NEW s \in SUBSET cands
        PROVE  (IF s = {} THEN 0 ELSE f[one(s)] + k[s \ {one(s)}])
               = (IF s = {} THEN 0 ELSE Raw(view, one(s)) + k[s \ {one(s)}])
    <3>1. s # {} => one(s) \in cands
      OBVIOUS
    <3>2. s # {} => f[one(s)] = Raw(view, one(s))
      BY <1>2, <3>1
    <3>. HIDE DEF one, f
    <3>. QED  BY <3>2, Zenon
  <2>2. here = there(k)
    <3>. HIDE DEF one, f
    <3>. QED  BY <2>1, Zenon
  <2>3. SumsUp(k, f, cands) <=> k = here
    BY Zenon DEF SumsUp
  <2>. HIDE DEF here, there
  <2>. QED  BY <2>2, <2>3, Zenon
<1>. HIDE DEF f, there
<1>4. SumsUp(h, f, cands)
  <2>1. \E k : SumsUp(k, f, cands)
    BY <1>2, SumsUpSolved
  <2>2. h = there(h)
    BY <1>3, <2>1, Zenon
  <2>. HIDE DEF h
  <2>. QED  BY <1>3, <2>2, Zenon
<1>. HIDE DEF h
<1>5. h[cands] \in Nat
  <2>1. AnyFirst(h, f, cands)
    BY <1>2, <1>4, SumsUpAny
  <2>. QED  BY <2>1 DEF AnyFirst
<1>. QED  BY <1>1, <1>5 DEF Norm

\* The votes of all views for all candidates.
VotesOf(views, cands, P) == [v \in P |-> Vote(views, cands, v[1], v[2])]

\* What they give together.
Tally(views, cands, P) == MapThenSumSet(LAMBDA v : Vote(views, cands, v[1], v[2]), P)

\* The votes for one position are such a sum as well.
LEMMA VotesAre ==
  ASSUME NEW views, NEW cands, NEW P, IsFiniteSet(P), \A v \in P : Vote(views, cands, v[1], v[2]) \in Nat
  PROVE  Tally(views, cands, P) = SumOver(VotesOf(views, cands, P), P)
<1>. DEFINE one(s) == CHOOSE x \in s : TRUE
            f == VotesOf(views, cands, P)
            there(k) == [s \in SUBSET P |->
                          IF s = {} THEN 0 ELSE Vote(views, cands, one(s)[1], one(s)[2]) + k[s \ {one(s)}]]
            h == CHOOSE k : k = there(k)
            g == CHOOSE k : SumsUp(k, f, P)
<1>1. Tally(views, cands, P) = h[P]
  BY Zenon DEF Tally, MapThenSumSet, MapThenFoldSet
<1>2. \A v \in P : f[v] \in Nat /\ f[v] = Vote(views, cands, v[1], v[2])
  BY DEF VotesOf
<1>3. \A k : SumsUp(k, f, P) <=> k = there(k)
  <2>. TAKE k
  <2>. DEFINE here == [s \in SUBSET P |-> IF s = {} THEN 0 ELSE f[one(s)] + k[s \ {one(s)}]]
  <2>1. ASSUME NEW s \in SUBSET P
        PROVE  (IF s = {} THEN 0 ELSE f[one(s)] + k[s \ {one(s)}])
               = (IF s = {} THEN 0 ELSE Vote(views, cands, one(s)[1], one(s)[2]) + k[s \ {one(s)}])
    <3>1. s # {} => one(s) \in P
      OBVIOUS
    <3>. HIDE DEF one, f
    <3>2. s # {} => f[one(s)] = Vote(views, cands, one(s)[1], one(s)[2])
      BY <1>2, <3>1
    <3>. QED  BY <3>2, Zenon
  <2>2. here = there(k)
    <3>. HIDE DEF one, f
    <3>. QED  BY <2>1, Zenon
  <2>3. SumsUp(k, f, P) <=> k = here
    BY Zenon DEF SumsUp
  <2>. HIDE DEF here, there
  <2>. QED  BY <2>2, <2>3, Zenon
<1>. HIDE DEF f, there
<1>4. PICK k : SumsUp(k, f, P)
  BY <1>2, SumsUpSolved
<1>5. SumsUp(g, f, P)
  BY <1>4, Zenon
<1>6. SumsUp(h, f, P)
  <2>2. h = there(h)
    BY <1>3, <1>4, Zenon
  <2>. HIDE DEF h
  <2>. QED  BY <1>3, <2>2, Zenon
<1>. HIDE DEF h
<1>7. SumOver(f, P) = g[P]
  BY Zenon DEF SumOver
<1>. HIDE DEF g
<1>8. h[P] = g[P]
  BY <1>2, <1>5, <1>6, SumsUpOnce
<1>. QED  BY <1>1, <1>7, <1>8 DEF f

\* Views in another order.
Reordered(views, p) == [i \in 1 .. Len(views) |-> views[p[i]]]

\* They are the same views.
LEMMA ReorderedIs ==
  ASSUME NEW V, NEW views \in Seq(V), NEW p \in Shuffles(Len(views))
  PROVE  /\ Len(views) \in Nat /\ DOMAIN views = 1 .. Len(views)
         /\ DOMAIN Reordered(views, p) = 1 .. Len(views)
         /\ \A i \in 1 .. Len(views) : p[i] \in 1 .. Len(views) /\ Reordered(views, p)[i] = views[p[i]]
         /\ \A i, k \in 1 .. Len(views) : p[i] = p[k] => i = k
         /\ \A k \in 1 .. Len(views) : \E i \in 1 .. Len(views) : p[i] = k
         /\ Range(Reordered(views, p)) = Range(views)
<1>. DEFINE n == Len(views)
            others == Reordered(views, p)
<1>1. n \in Nat /\ DOMAIN views = 1 .. n /\ DOMAIN others = 1 .. n
  BY DEF Reordered
<1>2. \A i \in 1 .. n : p[i] \in 1 .. n /\ others[i] = views[p[i]]
  BY DEF Reordered, Shuffles
<1>3. \A i, k \in 1 .. n : p[i] = p[k] => i = k
  BY DEF Shuffles
<1>4. \A k \in 1 .. n : \E i \in 1 .. n : p[i] = k
  BY <1>1, ShuffleReaches
<1>. HIDE DEF others, n
<1>5. Range(others) = Range(views)
  <2>1. \A x : x \in Range(others) <=> \E i \in 1 .. n : views[p[i]] = x
    BY <1>1, <1>2 DEF Range
  <2>2. \A x : x \in Range(views) <=> \E i \in 1 .. n : views[i] = x
    BY <1>1 DEF Range
  <2>3. \A x : x \in Range(others) <=> x \in Range(views)
    BY <1>2, <1>4, <2>1, <2>2
  <2>. QED  BY <2>3
<1>. QED  BY <1>1, <1>2, <1>3, <1>4, <1>5 DEF others, n

\* The evidence for a candidate is such a product.
LEMMA ScoreShuffled ==
  ASSUME NEW V, NEW views \in Seq(V), \A v \in V : IsView(v), NEW p \in Shuffles(Len(views)), NEW tokens
  PROVE  Score(Reordered(views, p), tokens) = Score(views, tokens)
<1>. DEFINE n == Len(views)
            others == Reordered(views, p)
            factor(x) == IF Proposed(x) = {} THEN 1 ELSE Power(Raw(x, tokens), x.weight)
            v == [i \in 1 .. n |-> factor(others[i])]
            w == [i \in 1 .. n |-> factor(views[i])]
<1>1. n \in Nat /\ DOMAIN views = 1 .. n /\ DOMAIN others = 1 .. n
  BY ReorderedIs
<1>2. \A i \in 1 .. n : p[i] \in 1 .. n /\ others[i] = views[p[i]]
  BY ReorderedIs
<1>3. \A i \in 1 .. n : factor(views[i]) \in Nat
  <2>. TAKE i \in 1 .. n
  <2>1. views[i] \in V /\ IsView(views[i]) /\ views[i].weight \in Nat
    BY <1>1 DEF IsView
  <2>2. Power(Raw(views[i], tokens), views[i].weight) \in Nat
    BY <2>1, RawIsNat, PowerIsNat
  <2>. QED  BY <2>2
<1>4. Score(others, tokens) = Product(v) /\ Score(views, tokens) = Product(w)
  BY <1>1, Zenon DEF Score
<1>. HIDE DEF factor, others
<1>5. w \in [1 .. n -> Nat]
  BY <1>3
<1>6. v = [i \in 1 .. n |-> w[p[i]]]
  <2>1. \A i \in 1 .. n : factor(others[i]) = w[p[i]]
    BY <1>2
  <2>. HIDE DEF w
  <2>. QED  BY <2>1
<1>7. p \in Shuffles(n)
  OBVIOUS
<1>. HIDE DEF v, w, n
<1>8. Product(v) = Product(w)
  <2>1. Product([i \in 1 .. n |-> w[p[i]]]) = Product(w)
    BY <1>1, <1>5, <1>7, ProductShuffled
  <2>. QED  BY <1>6, <2>1, Zenon
<1>. QED  BY <1>4, <1>8, Zenon DEF others

\* So is the product of the normalisers in a vote; what a view gives is a number.
LEMMA VoteShuffled ==
  ASSUME NEW V, NEW views \in Seq(V), \A v \in V : IsView(v), NEW p \in Shuffles(Len(views)),
         NEW cands, IsFiniteSet(cands), NEW j \in 1 .. Len(views), NEW s
  PROVE  /\ Vote(views, cands, p[j], s) \in Nat
         /\ Vote(Reordered(views, p), cands, j, s) = Vote(views, cands, p[j], s)
<1>. DEFINE n == Len(views)
            others == Reordered(views, p)
            v == [k \in 1 .. n |-> IF k = j THEN 1 ELSE Norm(others[k], cands)]
            w == [k \in 1 .. n |-> IF k = p[j] THEN 1 ELSE Norm(views[k], cands)]
<1>1. n \in Nat /\ DOMAIN views = 1 .. n /\ DOMAIN others = 1 .. n
  BY ReorderedIs
<1>2. \A i \in 1 .. n : p[i] \in 1 .. n /\ others[i] = views[p[i]]
  BY ReorderedIs
<1>3. \A i \in 1 .. n : p[i] = p[j] <=> i = j
  BY ReorderedIs
<1>4. \A i \in 1 .. n : IsView(views[i]) /\ views[i].weight \in Nat /\ Raw(views[i], s) \in Nat
                        /\ Norm(views[i], cands) \in Nat
  BY <1>1, RawIsNat, NormIs DEF IsView
<1>5. Vote(others, cands, j, s) = others[j].weight * Raw(others[j], s) * Product(v)
  BY <1>1, Zenon DEF Vote
<1>6. Vote(views, cands, p[j], s) = views[p[j]].weight * Raw(views[p[j]], s) * Product(w)
  BY <1>1, Zenon DEF Vote
<1>. HIDE DEF others
<1>7. w \in [1 .. n -> Nat]
  BY <1>4
<1>8. v = [i \in 1 .. n |-> w[p[i]]]
  <2>1. \A i \in 1 .. n : (IF i = j THEN 1 ELSE Norm(others[i], cands)) = w[p[i]]
    BY <1>2, <1>3
  <2>. HIDE DEF w
  <2>. QED  BY <2>1
<1>9. p \in Shuffles(n) /\ j \in 1 .. n
  OBVIOUS
<1>10. w \in Seq(Nat)
  BY <1>1, <1>7
<1>. HIDE DEF v, w, n
<1>11. Product(v) = Product(w) /\ Product(w) \in Nat
  <2>1. Product([i \in 1 .. n |-> w[p[i]]]) = Product(w)
    BY <1>1, <1>7, <1>9, ProductShuffled
  <2>. QED  BY <1>8, <1>10, <2>1, ProductIs
<1>12. Vote(others, cands, j, s) = Vote(views, cands, p[j], s)
  BY <1>2, <1>5, <1>6, <1>9, <1>11, Zenon
<1>13. Vote(views, cands, p[j], s) \in Nat
  <2>1. \A a, b, c \in Nat : a * b * c \in Nat
    OBVIOUS
  <2>2. views[p[j]].weight \in Nat /\ Raw(views[p[j]], s) \in Nat
    BY <1>2, <1>4, <1>9
  <2>. QED  BY <1>6, <1>11, <2>1, <2>2, Zenon
<1>. QED  BY <1>12, <1>13 DEF others

\* The views that vote.
Voting(views) == {i \in DOMAIN views : Proposed(views[i]) # {}}

\* What they give some of the candidates.
Given(views, cands, C) == Tally(views, cands, Voting(views) \X C)

\* What a candidate gets at a position, from whichever view.
LEMMA VotesShuffled ==
  ASSUME NEW V, NEW views \in Seq(V), \A v \in V : IsView(v), NEW p \in Shuffles(Len(views)),
         NEW cands, IsFiniteSet(cands),
         NEW C \in SUBSET cands
  PROVE  Given(Reordered(views, p), cands, C) = Given(views, cands, C)
<1>. DEFINE n == Len(views)
            others == Reordered(views, p)
            I == Voting(views)
            J == Voting(others)
            m == [v \in J \X C |-> <<p[v[1]], v[2]>>]
            f == VotesOf(others, cands, J \X C)
            g == VotesOf(views, cands, I \X C)
<1>1. n \in Nat /\ (\A i \in 1 .. n : p[i] \in 1 .. n) /\ (\A i, k \in 1 .. n : p[i] = p[k] => i = k)
      /\ \A k \in 1 .. n : \E i \in 1 .. n : p[i] = k
  BY ReorderedIs
<1>2. \A i \in 1 .. n, s \in cands : /\ Vote(views, cands, p[i], s) \in Nat
                                     /\ Vote(others, cands, i, s) = Vote(views, cands, p[i], s)
  BY VoteShuffled
<1>3. I = {i \in 1 .. n : Proposed(views[i]) # {}} /\ J = {i \in 1 .. n : Proposed(views[p[i]]) # {}}
  <2>1. I = {i \in 1 .. n : Proposed(views[i]) # {}}
    BY ReorderedIs DEF Voting
  <2>2. DOMAIN others = 1 .. n /\ \A i \in 1 .. n : others[i] = views[p[i]]
    BY ReorderedIs
  <2>3. J = {i \in 1 .. n : Proposed(others[i]) # {}}
    BY <2>2 DEF Voting
  <2>. HIDE DEF I, J, others
  <2>4. \A i \in 1 .. n : Proposed(others[i]) = Proposed(views[p[i]])
    BY <2>2, Zenon
  <2>. QED  BY <2>1, <2>3, <2>4
<1>4. IsFiniteSet(I \X C) /\ IsFiniteSet(J \X C)
  <2>1. IsFiniteSet(1 .. n) /\ I \subseteq 1 .. n /\ J \subseteq 1 .. n /\ C \subseteq cands
    BY <1>1, <1>3, FS_Interval
  <2>2. IsFiniteSet(I) /\ IsFiniteSet(J) /\ IsFiniteSet(C)
    BY <2>1, FS_Subset
  <2>. QED  BY <2>2, FS_Product
<1>. HIDE DEF n, others, I, J
<1>. DEFINE K == J \X C
            L == I \X C
<1>5. \A v \in L : /\ v = <<v[1], v[2]>> /\ v[1] \in 1 .. n /\ v[1] \in I
                   /\ v[2] \in C /\ v[2] \in cands
  BY <1>3
<1>6. \A v \in K : /\ v = <<v[1], v[2]>> /\ v[1] \in 1 .. n /\ v[1] \in J
                   /\ v[2] \in C /\ v[2] \in cands
  BY <1>3
<1>7. \A v \in K : m[v] = <<p[v[1]], v[2]>>
  OBVIOUS
<1>8. \A i \in 1 .. n : i \in J <=> p[i] \in I
  BY <1>1, <1>3
<1>9. (\A i, s : <<i, s>> \in K <=> i \in J /\ s \in C) /\ \A i, s : <<i, s>> \in L <=> i \in I /\ s \in C
  OBVIOUS
<1>10. \A i \in J : i \in 1 .. n
  BY <1>3
<1>. HIDE DEF m, K, L
<1>11. /\ \A v \in L : Vote(views, cands, v[1], v[2]) \in Nat
       /\ \A v \in K : /\ Vote(others, cands, v[1], v[2]) \in Nat
                       /\ Vote(others, cands, v[1], v[2]) = Vote(views, cands, p[v[1]], v[2])
  <2>1. ASSUME NEW v \in L PROVE Vote(views, cands, v[1], v[2]) \in Nat
    <3>1. PICK i \in 1 .. n : p[i] = v[1]
      BY <1>1, <1>5
    <3>. QED  BY <1>2, <1>5, <3>1
  <2>. QED  BY <1>2, <1>6, <2>1
<1>12. \A x, y \in K : m[x] = m[y] => x = y
  <2>. TAKE x \in K, y \in K
  <2>. HAVE m[x] = m[y]
  <2>1. p[x[1]] = p[y[1]] /\ x[2] = y[2]
    BY <1>7
  <2>2. x[1] = y[1]
    BY <1>1, <1>6, <2>1
  <2>. QED  BY <1>6, <2>1, <2>2, Zenon
<1>13. {m[v] : v \in K} = L
  <2>1. ASSUME NEW u \in L PROVE \E v \in K : m[v] = u
    <3>1. PICK i \in 1 .. n : p[i] = u[1]
      BY <1>1, <1>5
    <3>2. <<i, u[2]>> \in K
      BY <1>5, <1>8, <1>9, <3>1
    <3>3. m[<<i, u[2]>>] = <<p[i], u[2]>>
      BY <1>7, <3>2
    <3>4. m[<<i, u[2]>>] = u
      BY <1>5, <3>1, <3>3
    <3>. QED  BY <3>2, <3>4
  <2>2. ASSUME NEW v \in K PROVE m[v] \in L
    <3>1. v[1] \in J /\ p[v[1]] \in I /\ v[2] \in C
      BY <1>6, <1>8
    <3>2. <<p[v[1]], v[2]>> \in L
      BY <1>9, <3>1, Zenon
    <3>. QED  BY <1>7, <3>2, Zenon
  <2>. QED  BY <2>1, <2>2
<1>14. \A v \in K : f[v] = Vote(others, cands, v[1], v[2]) /\ f[v] \in Nat
  BY <1>11 DEF VotesOf, K
<1>15. \A v \in K : g[m[v]] = 1 * f[v]
  <2>. TAKE v \in K
  <2>1. m[v] \in L
    BY <1>13
  <2>2. g[m[v]] = Vote(views, cands, m[v][1], m[v][2])
    BY <2>1 DEF VotesOf, L
  <2>3. m[v][1] = p[v[1]] /\ m[v][2] = v[2]
    BY <1>7
  <2>4. g[m[v]] = f[v] /\ f[v] \in Nat
    BY <1>11, <1>14, <2>2, <2>3, Zenon
  <2>. HIDE DEF f, g
  <2>. QED  BY <2>4
<1>16. IsFiniteSet(K) /\ IsFiniteSet(L)
  BY <1>4 DEF K, L
<1>. HIDE DEF f, g
<1>17. SumOver(g, L) = SumOver(f, K)
  <2>1. 1 \in Nat /\ IsFiniteSet(K) /\ \A v \in K : f[v] \in Nat
    BY <1>14, <1>16
  <2>2. SumOver(g, {m[v] : v \in K}) = 1 * SumOver(f, K)
    BY <1>12, <1>15, <2>1, SumOverMapped
  <2>3. SumOver(f, K) \in Nat
    BY <2>1, SumOverIsNat
  <2>4. 1 * SumOver(f, K) = SumOver(f, K)
    BY <2>3
  <2>. QED  BY <1>13, <2>2, <2>4, Zenon
<1>18. Tally(others, cands, K) = SumOver(f, K)
  BY <1>11, <1>16, VotesAre DEF f, K
<1>19. Tally(views, cands, L) = SumOver(g, L)
  BY <1>11, <1>16, VotesAre DEF g, L
<1>. QED  BY <1>17, <1>18, <1>19, Zenon DEF Given, others, K, L, I, J, n

\* So the candidates, the posterior, the positions and the agreement are the same.
LEMMA PartsShuffled ==
  ASSUME NEW V, NEW views \in Seq(V), \A v \in V : IsView(v), NEW p \in Shuffles(Len(views))
  PROVE  LET others == Reordered(views, p)
         IN  /\ Candidates(others) = Candidates(views) /\ Posterior(others) = Posterior(views)
             /\ \A winner : Positions(others, winner) = Positions(views, winner)
             /\ \A winner : Agreeing(others, winner) = Agreeing(views, winner)
<1>. DEFINE n == Len(views)
            others == Reordered(views, p)
            cands == Candidates(views)
<1>1. /\ n \in Nat /\ DOMAIN views = 1 .. n /\ DOMAIN others = 1 .. n
      /\ \A i \in 1 .. n : p[i] \in 1 .. n /\ others[i] = views[p[i]]
      /\ \A i, k \in 1 .. n : p[i] = p[k] => i = k
      /\ \A k \in 1 .. n : \E i \in 1 .. n : p[i] = k
      /\ Range(others) = Range(views)
  BY ReorderedIs
<1>2. Candidates(others) = cands /\ IsFiniteSet(cands)
  <2>1. IsFiniteSet(cands)
    BY CandidatesAre
  <2>. HIDE DEF others
  <2>. QED  BY <1>1, <2>1, Zenon DEF Candidates
<1>3. \A s : Score(others, s) = Score(views, s)
  BY ScoreShuffled
<1>4. Posterior(others) = Posterior(views)
  <2>. DEFINE T(list) == {[tokens |-> s, mass |-> Score(list, s)] : s \in cands}
  <2>. HIDE DEF others, cands
  <2>1. T(others) = T(views)
    BY <1>3
  <2>2. Posterior(others) = InOrder(T(others), ByMass) /\ Posterior(views) = InOrder(T(views), ByMass)
    BY <1>2, Zenon DEF Posterior, cands
  <2>. QED  BY <2>1, <2>2, Zenon
<1>5. ASSUME NEW winner PROVE Positions(others, winner) = Positions(views, winner)
  <2>. DEFINE C(m, x) == {s \in cands : Aligned(winner, s, m) = x}
              given(list, c, m, x) == Tally(list, c, {v \in Voting(list) \X c : Aligned(winner, v[2], m) = x})
              from(total(_, _)) ==
                [m \in DOMAIN winner |->
                   LET voted == {x \in Symbols \cup {GAP} : total(m, x) > 0}
                   IN  IF voted = {} THEN winner[m] :> 1 ELSE [x \in voted |-> total(m, x)]]
              ours(m, x) == given(views, cands, m, x)
              theirs(m, x) == given(others, Candidates(others), m, x)
  <2>1. Positions(views, winner) = from(ours)
    BY Zenon DEF Positions, Tally, Voting
  <2>2. Positions(others, winner) = from(theirs)
    <3>. HIDE DEF others
    <3>. QED  BY Zenon DEF Positions, Tally, Voting
  <2>3. ASSUME NEW m, NEW x PROVE theirs(m, x) = ours(m, x)
    <3>1. C(m, x) \in SUBSET cands
      OBVIOUS
    <3>. HIDE DEF cands
    <3>2. ASSUME NEW K PROVE {v \in K \X cands : Aligned(winner, v[2], m) = x} = K \X C(m, x)
      OBVIOUS
    <3>. HIDE DEF C
    <3>3. Given(others, cands, C(m, x)) = Given(views, cands, C(m, x))
      BY <1>2, <3>1, VotesShuffled
    <3>. HIDE DEF others
    <3>4. ASSUME NEW list PROVE given(list, cands, m, x) = Given(list, cands, C(m, x))
      BY <3>2, Zenon DEF Given
    <3>. HIDE DEF given
    <3>. QED  BY <1>2, <3>3, <3>4, Zenon
  <2>. HIDE DEF ours, theirs, others
  <2>4. from(theirs) = from(ours)
    BY <2>3, Zenon
  <2>. QED  BY <2>1, <2>2, <2>4, Zenon
<1>6. ASSUME NEW winner PROVE Agreeing(others, winner) = Agreeing(views, winner)
  <2>. DEFINE A == {i \in 1 .. n : Proposed(views[i]) # {} /\ Choice(views[i]) = winner}
              B == {i \in 1 .. n : Proposed(views[p[i]]) # {} /\ Choice(views[p[i]]) = winner}
              f == [i \in B |-> p[i]]
  <2>1. A = {i \in DOMAIN views : Proposed(views[i]) # {} /\ Choice(views[i]) = winner}
    BY <1>1
  <2>2. B = {i \in DOMAIN others : Proposed(others[i]) # {} /\ Choice(others[i]) = winner}
    BY <1>1
  <2>3. Agreeing(views, winner) = Cardinality(A) /\ Agreeing(others, winner) = Cardinality(B)
    <3>. HIDE DEF A, B, others
    <3>. QED  BY <2>1, <2>2, Zenon DEF Agreeing
  <2>4. f \in Bijection(B, A)
    <3>1. f \in [B -> A] /\ \A i, k \in B : f[i] = f[k] => i = k
      BY <1>1
    <3>2. \A a \in A : \E i \in B : f[i] = a
      <4>. TAKE a \in A
      <4>1. PICK i \in 1 .. n : p[i] = a
        BY <1>1
      <4>2. i \in B /\ f[i] = a
        BY <4>1
      <4>. QED  BY <4>2
    <3>. HIDE DEF f, A, B
    <3>. QED  BY <3>1, <3>2 DEF Bijection, Injection, Surjection, IsInjective
  <2>5. IsFiniteSet(B)
    <3>1. IsFiniteSet(1 .. n) /\ B \subseteq 1 .. n
      BY <1>1, FS_Interval
    <3>. QED  BY <3>1, FS_Subset
  <2>. HIDE DEF A, B, f
  <2>6. Cardinality(A) = Cardinality(B)
    BY <2>4, <2>5, FS_Bijection DEF ExistsBijection
  <2>. QED  BY <2>3, <2>6, Zenon
<1>. QED  BY <1>2, <1>4, <1>5, <1>6, Zenon

\* And so is everything that fusion returns.
LEMMA FusionShuffled ==
  ASSUME NEW V, NEW views \in Seq(V), \A v \in V : IsView(v), NEW p \in Shuffles(Len(views)), NEW threshold
  PROVE  ProbabilisticFusion(Reordered(views, p), threshold) = ProbabilisticFusion(views, threshold)
<1>. DEFINE others == Reordered(views, p)
<1>1. /\ Candidates(others) = Candidates(views) /\ Posterior(others) = Posterior(views)
      /\ \A winner : Positions(others, winner) = Positions(views, winner)
      /\ \A winner : Agreeing(others, winner) = Agreeing(views, winner)
  BY PartsShuffled
<1>. HIDE DEF others
<1>2. ProbabilisticFusion(others, threshold) = ProbabilisticFusion(views, threshold)
  BY <1>1, Zenon DEF ProbabilisticFusion
<1>. QED  BY <1>2 DEF others

-----------------------------------------------------------------------------
(***************************************************************************)
(* Edit distance and alignment.                                            *)
(***************************************************************************)
\* The least of three numbers is one of them.
LEMMA MinOfThree ==
  ASSUME NEW x \in Nat, NEW y \in Nat, NEW z \in Nat
  PROVE  LET m == Min({x, y, z})
         IN  m \in Nat /\ m <= x /\ m <= y /\ m <= z /\ (m = x \/ m = y \/ m = z)
<1>. DEFINE S == {x, y, z}
<1>1. \E m \in S : \A k \in S : m <= k
  OBVIOUS
<1>2. S \subseteq Nat
  OBVIOUS
<1>3. \A m \in S : m = x \/ m = y \/ m = z
  OBVIOUS
<1>4. x \in S /\ y \in S /\ z \in S
  OBVIOUS
<1>. HIDE DEF S
<1>5. Min(S) \in S /\ \A k \in S : Min(S) <= k
  BY <1>1, Zenon DEF Min
<1>. QED  BY <1>2, <1>3, <1>4, <1>5 DEF S

\* A list that grows by an element a step, which may depend on what is there.
Appends(g, m, V, base, next) ==
  /\ g \in [0 .. m -> Seq(V)] /\ g[0] = <<base>> /\ Len(g[m]) = m + 1
  /\ \A j \in 1 .. m : Len(g[j - 1]) = j /\ g[j] = Append(g[j - 1], next[j][g[j - 1]])
  /\ \A j \in 0 .. m : \A k \in 1 .. j + 1 : g[m][k] = g[j][k]

\* There is such a list, and what was written stays.
LEMMA AppendingIs ==
  ASSUME NEW m \in Nat, NEW V, NEW base \in V, NEW next \in [1 .. m -> [Seq(V) -> V]]
  PROVE  \E g : Appends(g, m, V, base, next)
<1>. DEFINE step == [j \in 1 .. m |-> [list \in Seq(V) |-> Append(list, next[j][list])]]
<1>1. step \in [1 .. m -> [Seq(V) -> Seq(V)]]
  OBVIOUS
<1>2. <<base>> \in Seq(V) /\ Len(<<base>>) = 1
  OBVIOUS
<1>3. PICK g : g \in [0 .. m -> Seq(V)] /\ g[0] = <<base>> /\ \A j \in 1 .. m : g[j] = step[j][g[j - 1]]
  <2>. HIDE DEF step
  <2>1. \E g : Recurs(g, m, Seq(V), <<base>>, step)
    BY <1>1, <1>2, RecursionExists
  <2>. QED  BY <2>1 DEF Recurs
<1>4. \A j \in 1 .. m : /\ j - 1 \in 0 .. m /\ g[j - 1] \in Seq(V)
                        /\ next[j][g[j - 1]] \in V /\ g[j] = Append(g[j - 1], next[j][g[j - 1]])
  <2>. TAKE j \in 1 .. m
  <2>1. j - 1 \in 0 .. m
    OBVIOUS
  <2>2. g[j - 1] \in Seq(V)
    BY <1>3, <2>1
  <2>. QED  BY <1>3, <2>1, <2>2
<1>. HIDE DEF step
<1>. DEFINE T == {j \in Nat : j <= m => Len(g[j]) = j + 1}
<1>5. T = Nat
  <2>1. 0 \in T
    <3>1. Len(g[0]) = 1
      BY <1>2, <1>3
    <3>. QED  BY <3>1
  <2>2. ASSUME NEW j \in T PROVE j + 1 \in T
    <3>1. SUFFICES ASSUME j + 1 <= m PROVE Len(g[j + 1]) = j + 2
      OBVIOUS
    <3>2. j + 1 \in 1 .. m /\ (j + 1) - 1 = j /\ Len(g[j]) = j + 1
      BY <3>1
    <3>3. g[j] \in Seq(V) /\ g[j + 1] = Append(g[j], next[j + 1][g[j]]) /\ next[j + 1][g[j]] \in V
      BY <1>4, <3>2
    <3>. QED  BY <3>2, <3>3
  <2>3. T \in SUBSET Nat
    OBVIOUS
  <2>. HIDE DEF T
  <2>. QED  BY <2>1, <2>2, <2>3, Induction
<1>6. \A j \in 0 .. m : g[j] \in Seq(V) /\ Len(g[j]) = j + 1
  <2>. TAKE j \in 0 .. m
  <2>1. j \in T /\ j \in Nat /\ j <= m
    BY <1>5
  <2>2. Len(g[j]) = j + 1
    BY <2>1
  <2>. QED  BY <1>3, <2>2
<1>. HIDE DEF T
<1>7. \A j \in 1 .. m : Len(g[j - 1]) = j /\ \A k \in 1 .. j : g[j][k] = g[j - 1][k]
  <2>. TAKE j \in 1 .. m
  <2>1. j - 1 \in 0 .. m /\ (j - 1) + 1 = j
    OBVIOUS
  <2>2. Len(g[j - 1]) = j
    BY <1>6, <2>1
  <2>3. g[j - 1] \in Seq(V) /\ next[j][g[j - 1]] \in V /\ g[j] = Append(g[j - 1], next[j][g[j - 1]])
    BY <1>4
  <2>4. \A k \in 1 .. Len(g[j - 1]) : g[j][k] = g[j - 1][k]
    BY <2>3, AppendProperties
  <2>. QED  BY <2>2, <2>4
<1>8. ASSUME NEW j \in 0 .. m PROVE \A k \in 1 .. j + 1 : g[m][k] = g[j][k]
  <2>. DEFINE R == {i \in Nat : j <= i /\ i <= m => \A k \in 1 .. j + 1 : g[i][k] = g[j][k]}
  <2>1. 0 \in R
    OBVIOUS
  <2>2. ASSUME NEW i \in R PROVE i + 1 \in R
    <3>1. SUFFICES ASSUME j <= i + 1, i + 1 <= m PROVE \A k \in 1 .. j + 1 : g[i + 1][k] = g[j][k]
      OBVIOUS
    <3>2. i \in Nat /\ i + 1 \in 1 .. m /\ (i + 1) - 1 = i
      BY <3>1
    <3>3. CASE j = i + 1
      BY <3>3
    <3>4. CASE j # i + 1
      <4>1. j <= i /\ i <= m /\ \A k \in 1 .. j + 1 : k \in 1 .. i + 1
        BY <3>1, <3>2, <3>4
      <4>2. \A k \in 1 .. j + 1 : g[i + 1][k] = g[i][k]
        BY <1>7, <3>2, <4>1
      <4>. QED  BY <4>1, <4>2, <3>2
    <3>. QED  BY <3>3, <3>4
  <2>3. R \in SUBSET Nat
    OBVIOUS
  <2>4. R = Nat
    <3>. HIDE DEF R
    <3>. QED  BY <2>1, <2>2, <2>3, Induction
  <2>5. m \in R /\ j <= m /\ m <= m
    BY <2>4
  <2>. QED  BY <2>5
<1>9. m \in 0 .. m
  OBVIOUS
<1>. QED  BY <1>3, <1>4, <1>6, <1>7, <1>8, <1>9 DEF Appends

\* A row of the table: cell j + 1 is that of the beginning of length j.
Row(b) == [1 .. Len(b) + 1 -> Nat]

\* What NextRow computes, cell by cell from the left.
LEMMA NextRowIs ==
  ASSUME NEW V, NEW b \in Seq(V), NEW above \in Row(b), NEW x
  PROVE  LET row == NextRow(above, x, b)
         IN  /\ row \in Row(b) /\ row[1] = above[1] + 1
             /\ \A j \in 1 .. Len(b) :
                  row[j + 1] = Min({above[j + 1] + 1, row[j] + 1, above[j] + Cost(x, b[j])})
<1>. DEFINE m == Len(b)
            cell(left, j) == Min({above[j + 1] + 1, left[j] + 1, above[j] + Cost(x, b[j])})
            more(left, j) == Append(left, cell(left, j))
            next == [j \in 1 .. m |-> [left \in Seq(Nat) |-> IF Len(left) = j THEN cell(left, j) ELSE 0]]
            base == above[1] + 1
<1>1. m \in Nat /\ \A j \in 1 .. m + 1 : above[j] \in Nat
  BY DEF Row
<1>2. ASSUME NEW j \in 1 .. m, NEW left \in Seq(Nat), Len(left) = j
      PROVE  cell(left, j) \in Nat
  <2>1. left[j] \in Nat /\ above[j + 1] \in Nat /\ above[j] \in Nat /\ Cost(x, b[j]) \in Nat
    BY <1>1, <1>2 DEF Cost
  <2>2. above[j + 1] + 1 \in Nat /\ left[j] + 1 \in Nat /\ above[j] + Cost(x, b[j]) \in Nat
    <3>. DEFINE p == above[j + 1]  q == left[j]  r == above[j]  c == Cost(x, b[j])
    <3>1. p \in Nat /\ q \in Nat /\ r \in Nat /\ c \in Nat
      BY <2>1
    <3>. HIDE DEF p, q, r, c
    <3>2. p + 1 \in Nat /\ q + 1 \in Nat /\ r + c \in Nat
      BY <3>1
    <3>. QED  BY <3>2 DEF p, q, r, c
  <2>. QED  BY <2>2, MinOfThree
<1>. HIDE DEF cell
<1>3. next \in [1 .. m -> [Seq(Nat) -> Nat]]
  <2>1. \A j \in 1 .. m : \A left \in Seq(Nat) : Len(left) = j => cell(left, j) \in Nat
    BY <1>2
  <2>. QED  BY <2>1
<1>4. base \in Nat
  BY <1>1
<1>. HIDE DEF m, base
<1>5. PICK g :
        /\ g \in [0 .. m -> Seq(Nat)] /\ g[0] = <<base>> /\ Len(g[m]) = m + 1
        /\ \A j \in 1 .. m : Len(g[j - 1]) = j /\ g[j] = Append(g[j - 1], next[j][g[j - 1]])
        /\ \A j \in 0 .. m : \A k \in 1 .. j + 1 : g[m][k] = g[j][k]
  <2>. HIDE DEF next
  <2>1. \E g : Appends(g, m, Nat, base, next)
    BY <1>1, <1>3, <1>4, AppendingIs
  <2>. QED  BY <2>1 DEF Appends
<1>6. \A j \in 1 .. m : g[j] = more(g[j - 1], j) /\ Len(g[j - 1]) = j /\ g[j - 1] \in Seq(Nat)
  <2>. TAKE j \in 1 .. m
  <2>1. j - 1 \in 0 .. m
    BY <1>1
  <2>2. g[j - 1] \in Seq(Nat) /\ Len(g[j - 1]) = j
    BY <1>5, <2>1
  <2>3. next[j][g[j - 1]] = cell(g[j - 1], j)
    BY <2>2
  <2>. QED  BY <1>5, <2>2, <2>3, Zenon
<1>. DEFINE row == g[m]
<1>7. NextRow(above, x, b) = row
  <2>. DEFINE start == <<base>>
              Is(h) == h = [j \in 0 .. m |-> IF j = 0 THEN start ELSE more(h[j - 1], j)]
              h0 == CHOOSE h : Is(h)
  <2>1. Is(g)
    <3>1. DOMAIN g = 0 .. m /\ g[0] = start /\ \A j \in 1 .. m : g[j] = more(g[j - 1], j)
      BY <1>5, <1>6
    <3>. HIDE DEF more, start
    <3>2. g = [j \in 0 .. m |-> g[j]]
      BY <1>5
    <3>3. \A j \in 0 .. m : g[j] = IF j = 0 THEN start ELSE more(g[j - 1], j)
      BY <1>1, <3>1
    <3>. QED  BY <3>2, <3>3, Zenon
  <2>2. Is(h0)
    <3>. HIDE DEF Is
    <3>. QED  BY <2>1, Zenon
  <2>3. NextRow(above, x, b) = h0[m]
    BY Zenon DEF NextRow, m, base, cell
  <2>. HIDE DEF h0, more
  <2>4. h0[0] = start /\ \A j \in 1 .. m : h0[j] = more(h0[j - 1], j)
    <3>. HIDE DEF start
    <3>1. \A j \in 0 .. m : h0[j] = IF j = 0 THEN start ELSE more(h0[j - 1], j)
      BY <2>2
    <3>. QED  BY <1>1, <3>1
  <2>5. \A j \in 1 .. m : h0[j - 1] = g[j - 1] => h0[j] = g[j]
    BY <1>6, <2>4, Zenon
  <2>6. \A j \in 0 .. m : h0[j] = g[j]
    <3>1. g \in [0 .. m -> Seq(Nat)] /\ h0[0] = g[0]
      BY <1>5, <2>4
    <3>. QED  BY <1>1, <2>5, <3>1, RecursionUnique
  <2>. QED  BY <1>1, <2>3, <2>6
<1>. HIDE DEF next, row
<1>8. row \in Row(b)
  <2>1. row \in Seq(Nat) /\ Len(row) = m + 1
    BY <1>1, <1>5 DEF row
  <2>2. row \in [1 .. m + 1 -> Nat]
    BY <2>1
  <2>. QED  BY <2>2 DEF Row, m
<1>9. row[1] = above[1] + 1
  <2>1. 0 \in 0 .. m /\ 1 \in 1 .. 0 + 1
    BY <1>1
  <2>2. row[1] = g[0][1]
    BY <1>5, <2>1 DEF row
  <2>. QED  BY <1>5, <2>2 DEF base
<1>10. ASSUME NEW j \in 1 .. m PROVE row[j + 1] = cell(row, j)
  <2>1. j - 1 \in 0 .. m /\ j \in 0 .. m /\ j \in 1 .. (j - 1) + 1 /\ j + 1 \in 1 .. j + 1
    BY <1>1
  <2>2. row[j] = g[j - 1][j] /\ row[j + 1] = g[j][j + 1]
    BY <1>5, <2>1 DEF row
  <2>3. g[j][j + 1] = cell(g[j - 1], j)
    BY <1>6
  <2>4. cell(g[j - 1], j) = cell(row, j)
    BY <2>2 DEF cell
  <2>. QED  BY <2>2, <2>3, <2>4
<1>. QED  BY <1>7, <1>8, <1>9, <1>10 DEF cell, m

\* The table, row by row.
LEMMA TableIs ==
  ASSUME NEW V, NEW a \in Seq(V), NEW b \in Seq(V)
  PROVE  LET table == Table(a, b)
         IN  /\ table \in [1 .. Len(a) + 1 -> Row(b)]
             /\ table[1] = [j \in 1 .. Len(b) + 1 |-> j - 1]
             /\ \A i \in 1 .. Len(a) : table[i + 1] = NextRow(table[i], a[i], b)
<1>. DEFINE m == Len(a)
            below(rows, i) == NextRow(rows[i], a[i], b)
            more(rows, i) == Append(rows, below(rows, i))
            base == [j \in 1 .. Len(b) + 1 |-> j - 1]
            next == [i \in 1 .. m |-> [rows \in Seq(Row(b)) |-> IF Len(rows) = i THEN below(rows, i) ELSE base]]
<1>1. m \in Nat /\ Len(b) \in Nat
  OBVIOUS
<1>2. base \in Row(b)
  BY <1>1 DEF Row
<1>3. ASSUME NEW i \in 1 .. m, NEW rows \in Seq(Row(b)), Len(rows) = i PROVE below(rows, i) \in Row(b)
  <2>1. rows[i] \in Row(b)
    BY <1>3
  <2>. QED  BY <2>1, NextRowIs
<1>. HIDE DEF below, base
<1>4. next \in [1 .. m -> [Seq(Row(b)) -> Row(b)]]
  <2>1. \A i \in 1 .. m : \A rows \in Seq(Row(b)) : Len(rows) = i => below(rows, i) \in Row(b)
    BY <1>3
  <2>. QED  BY <1>2, <2>1
<1>. HIDE DEF m
<1>5. PICK g :
        /\ g \in [0 .. m -> Seq(Row(b))] /\ g[0] = <<base>> /\ Len(g[m]) = m + 1
        /\ \A j \in 1 .. m : Len(g[j - 1]) = j /\ g[j] = Append(g[j - 1], next[j][g[j - 1]])
        /\ \A j \in 0 .. m : \A k \in 1 .. j + 1 : g[m][k] = g[j][k]
  <2>. HIDE DEF next
  <2>1. \E g : Appends(g, m, Row(b), base, next)
    BY <1>1, <1>2, <1>4, AppendingIs
  <2>. QED  BY <2>1 DEF Appends
<1>6. \A j \in 1 .. m : g[j] = more(g[j - 1], j) /\ Len(g[j - 1]) = j /\ g[j - 1] \in Seq(Row(b))
  <2>. TAKE j \in 1 .. m
  <2>1. j - 1 \in 0 .. m
    BY <1>1
  <2>2. g[j - 1] \in Seq(Row(b)) /\ Len(g[j - 1]) = j
    BY <1>5, <2>1
  <2>3. next[j][g[j - 1]] = below(g[j - 1], j)
    BY <2>2
  <2>. QED  BY <1>5, <2>2, <2>3, Zenon
<1>. DEFINE table == g[m]
<1>7. Table(a, b) = table
  <2>. DEFINE start == <<base>>
              Is(h) == h = [j \in 0 .. m |-> IF j = 0 THEN start ELSE more(h[j - 1], j)]
              h0 == CHOOSE h : Is(h)
  <2>1. Is(g)
    <3>1. DOMAIN g = 0 .. m /\ g[0] = start /\ \A j \in 1 .. m : g[j] = more(g[j - 1], j)
      BY <1>5, <1>6
    <3>. HIDE DEF more, start
    <3>2. g = [j \in 0 .. m |-> g[j]]
      BY <1>5
    <3>3. \A j \in 0 .. m : g[j] = IF j = 0 THEN start ELSE more(g[j - 1], j)
      BY <1>1, <3>1
    <3>. QED  BY <3>2, <3>3, Zenon
  <2>2. Is(h0)
    <3>. HIDE DEF Is
    <3>. QED  BY <2>1, Zenon
  <2>3. Table(a, b) = h0[m]
    BY Zenon DEF Table, m, base, below
  <2>. HIDE DEF h0, more
  <2>4. h0[0] = start /\ \A j \in 1 .. m : h0[j] = more(h0[j - 1], j)
    <3>. HIDE DEF start
    <3>1. \A j \in 0 .. m : h0[j] = IF j = 0 THEN start ELSE more(h0[j - 1], j)
      BY <2>2
    <3>. QED  BY <1>1, <3>1
  <2>5. \A j \in 1 .. m : h0[j - 1] = g[j - 1] => h0[j] = g[j]
    BY <1>6, <2>4, Zenon
  <2>6. \A j \in 0 .. m : h0[j] = g[j]
    <3>1. g \in [0 .. m -> Seq(Row(b))] /\ h0[0] = g[0]
      BY <1>5, <2>4
    <3>. QED  BY <1>1, <2>5, <3>1, RecursionUnique
  <2>. QED  BY <1>1, <2>3, <2>6
<1>. HIDE DEF next, table
<1>8. table \in [1 .. m + 1 -> Row(b)]
  BY <1>1, <1>5 DEF table
<1>9. table[1] = base
  <2>1. 0 \in 0 .. m /\ 1 \in 1 .. 0 + 1
    BY <1>1
  <2>2. table[1] = g[0][1]
    BY <1>5, <2>1 DEF table
  <2>. QED  BY <1>5, <2>2
<1>10. ASSUME NEW j \in 1 .. m PROVE table[j + 1] = below(table, j)
  <2>1. j - 1 \in 0 .. m /\ j \in 0 .. m /\ j \in 1 .. (j - 1) + 1 /\ j + 1 \in 1 .. j + 1
    BY <1>1
  <2>2. table[j] = g[j - 1][j] /\ table[j + 1] = g[j][j + 1]
    BY <1>5, <2>1 DEF table
  <2>3. g[j][j + 1] = below(g[j - 1], j)
    BY <1>6
  <2>4. below(g[j - 1], j) = below(table, j)
    BY <2>2 DEF below
  <2>. QED  BY <2>2, <2>3, <2>4
<1>. QED  BY <1>7, <1>8, <1>9, <1>10 DEF below, base, m

\* The least of the three ways to come to a cell, and one of them.
Cell(d, k, i, j) ==
  /\ d[<<i, j>>] <= d[<<i - 1, j>>] + 1
  /\ d[<<i, j>>] <= d[<<i, j - 1>>] + 1
  /\ d[<<i, j>>] <= d[<<i - 1, j - 1>>] + k[<<i, j>>]
  /\ \/ d[<<i, j>>] = d[<<i - 1, j>>] + 1
     \/ d[<<i, j>>] = d[<<i, j - 1>>] + 1
     \/ d[<<i, j>>] = d[<<i - 1, j - 1>>] + k[<<i, j>>]

\* d is a table of n + 1 rows and m + 1 columns made with the costs k.
Tabled(d, k, n, m) ==
  /\ d \in [(0 .. n) \X (0 .. m) -> Nat]
  /\ k \in [(1 .. n) \X (1 .. m) -> {0, 1}]
  /\ \A i \in 1 .. n : \A j \in 1 .. m : Cell(d, k, i, j)

\* The distances between the beginnings of two words, and the costs of their symbols.
Distances(a, b) == [at \in (0 .. Len(a)) \X (0 .. Len(b)) |-> Table(a, b)[at[1] + 1][at[2] + 1]]
Costs(a, b) == [at \in (1 .. Len(a)) \X (1 .. Len(b)) |-> Cost(a[at[1]], b[at[2]])]

\* What a table of distances is, as a set of facts about its cells.
LEMMA DistancesAre ==
  ASSUME NEW V, NEW a \in Seq(V), NEW b \in Seq(V)
  PROVE  LET d == Distances(a, b)
         IN  /\ Tabled(d, Costs(a, b), Len(a), Len(b))
             /\ \A i \in 0 .. Len(a) : d[<<i, 0>>] = i
             /\ \A j \in 0 .. Len(b) : d[<<0, j>>] = j
             /\ Levenshtein(a, b) = d[<<Len(a), Len(b)>>]
<1>. DEFINE n == Len(a)
            m == Len(b)
            t == Table(a, b)
            d == Distances(a, b)
            k == Costs(a, b)
<1>1. n \in Nat /\ m \in Nat
  OBVIOUS
<1>2. /\ t \in [1 .. n + 1 -> Row(b)]
      /\ t[1] = [j \in 1 .. m + 1 |-> j - 1]
      /\ \A i \in 1 .. n : t[i + 1] = NextRow(t[i], a[i], b)
  BY TableIs
<1>3. \A i \in 0 .. n : \A j \in 0 .. m : d[<<i, j>>] = t[i + 1][j + 1] /\ t[i + 1][j + 1] \in Nat
  <2>. TAKE i \in 0 .. n
  <2>. TAKE j \in 0 .. m
  <2>1. i + 1 \in 1 .. n + 1 /\ j + 1 \in 1 .. m + 1
    BY <1>1
  <2>2. t[i + 1] \in [1 .. m + 1 -> Nat]
    BY <1>2, <2>1 DEF Row
  <2>3. d[<<i, j>>] = t[i + 1][j + 1]
    BY DEF Distances
  <2>. HIDE DEF t
  <2>. QED  BY <2>1, <2>2, <2>3
<1>4. \A i \in 1 .. n : \A j \in 1 .. m : k[<<i, j>>] = Cost(a[i], b[j]) /\ k[<<i, j>>] \in {0, 1}
  BY DEF Costs, Cost
<1>5. d \in [(0 .. n) \X (0 .. m) -> Nat]
  <2>1. \A at \in (0 .. n) \X (0 .. m) : t[at[1] + 1][at[2] + 1] \in Nat
    BY <1>3
  <2>. HIDE DEF t
  <2>2. d = [at \in (0 .. n) \X (0 .. m) |-> t[at[1] + 1][at[2] + 1]]
    BY DEF Distances, t
  <2>. QED  BY <2>1, <2>2
<1>6. k \in [(1 .. n) \X (1 .. m) -> {0, 1}]
  BY DEF Costs, Cost
<1>. HIDE DEF t, d, k, n, m
<1>7. \A j \in 0 .. m : d[<<0, j>>] = j
  <2>. TAKE j \in 0 .. m
  <2>1. 0 \in 0 .. n /\ j + 1 \in 1 .. m + 1 /\ (j + 1) - 1 = j /\ 0 + 1 = 1
    BY <1>1
  <2>2. d[<<0, j>>] = t[1][j + 1]
    BY <1>3, <2>1
  <2>. QED  BY <1>2, <2>1, <2>2
<1>8. \A i \in 1 .. n : /\ t[i] \in Row(b) /\ t[i + 1][1] = t[i][1] + 1
                        /\ \A j \in 1 .. m :
                             t[i + 1][j + 1] = Min({t[i][j + 1] + 1, t[i + 1][j] + 1, t[i][j] + Cost(a[i], b[j])})
  <2>. TAKE i \in 1 .. n
  <2>1. i \in 1 .. n + 1
    BY <1>1
  <2>2. t[i] \in Row(b)
    BY <1>2, <2>1
  <2>3. NextRow(t[i], a[i], b) \in Row(b)
        /\ NextRow(t[i], a[i], b)[1] = t[i][1] + 1
        /\ \A j \in 1 .. Len(b) : NextRow(t[i], a[i], b)[j + 1]
             = Min({t[i][j + 1] + 1, NextRow(t[i], a[i], b)[j] + 1, t[i][j] + Cost(a[i], b[j])})
    BY <2>2, NextRowIs
  <2>4. t[i + 1] = NextRow(t[i], a[i], b)
    BY <1>2
  <2>. QED  BY <2>2, <2>3, <2>4, Zenon DEF m
<1>9. \A i \in 0 .. n : d[<<i, 0>>] = i
  <2>. DEFINE T == {i \in Nat : i <= n => d[<<i, 0>>] = i}
  <2>1. 0 \in T
    BY <1>1, <1>7
  <2>2. ASSUME NEW i \in T PROVE i + 1 \in T
    <3>1. SUFFICES ASSUME i + 1 <= n PROVE d[<<i + 1, 0>>] = i + 1
      OBVIOUS
    <3>2. i \in 0 .. n /\ i + 1 \in 0 .. n /\ 0 \in 0 .. m /\ i + 1 \in 1 .. n /\ 0 + 1 = 1
      BY <1>1, <3>1
    <3>3. d[<<i + 1, 0>>] = t[(i + 1) + 1][1] /\ d[<<i, 0>>] = t[i + 1][1]
      BY <1>3, <3>2
    <3>4. t[(i + 1) + 1][1] = t[i + 1][1] + 1
      BY <1>8, <3>2
    <3>. QED  BY <1>1, <3>1, <3>3, <3>4
  <2>3. T \in SUBSET Nat
    OBVIOUS
  <2>4. T = Nat
    <3>. HIDE DEF T
    <3>. QED  BY <2>1, <2>2, <2>3, Induction
  <2>5. \A i \in 0 .. n : i \in T /\ i <= n
    <3>. HIDE DEF T
    <3>. QED  BY <1>1, <2>4
  <2>. QED  BY <2>5
<1>10. ASSUME NEW i \in 1 .. n, NEW j \in 1 .. m PROVE Cell(d, k, i, j)
  <2>1. /\ i \in 0 .. n /\ j \in 0 .. m /\ i - 1 \in 0 .. n /\ j - 1 \in 0 .. m
        /\ (i - 1) + 1 = i /\ (j - 1) + 1 = j
    BY <1>1
  <2>2. /\ d[<<i, j>>] = t[i + 1][j + 1] /\ d[<<i - 1, j>>] = t[i][j + 1]
        /\ d[<<i, j - 1>>] = t[i + 1][j] /\ d[<<i - 1, j - 1>>] = t[i][j]
        /\ d[<<i, j>>] \in Nat /\ d[<<i - 1, j>>] \in Nat
        /\ d[<<i, j - 1>>] \in Nat /\ d[<<i - 1, j - 1>>] \in Nat
    BY <1>3, <2>1
  <2>3. k[<<i, j>>] = Cost(a[i], b[j]) /\ k[<<i, j>>] \in Nat
    BY <1>4
  <2>4. d[<<i, j>>] = Min({d[<<i - 1, j>>] + 1, d[<<i, j - 1>>] + 1, d[<<i - 1, j - 1>>] + k[<<i, j>>]})
    BY <1>8, <2>2, <2>3, Zenon
  <2>. DEFINE z == d[<<i, j>>]
              p == d[<<i - 1, j>>]
              q == d[<<i, j - 1>>]
              r == d[<<i - 1, j - 1>>]
              c == k[<<i, j>>]
  <2>5. z \in Nat /\ p \in Nat /\ q \in Nat /\ r \in Nat /\ c \in Nat /\ z = Min({p + 1, q + 1, r + c})
    BY <2>2, <2>3, <2>4
  <2>. HIDE DEF z, p, q, r, c
  <2>6. p + 1 \in Nat /\ q + 1 \in Nat /\ r + c \in Nat
    BY <2>5
  <2>7. z <= p + 1 /\ z <= q + 1 /\ z <= r + c /\ (z = p + 1 \/ z = q + 1 \/ z = r + c)
    BY <2>5, <2>6, MinOfThree
  <2>. QED  BY <2>7, Zenon DEF Cell, z, p, q, r, c
<1>11. Levenshtein(a, b) = d[<<n, m>>]
  <2>1. n \in 0 .. n /\ m \in 0 .. m
    BY <1>1
  <2>2. d[<<n, m>>] = t[n + 1][m + 1]
    BY <1>3, <2>1
  <2>. QED  BY <2>2, Zenon DEF Levenshtein, t, n, m
<1>12. Tabled(d, k, n, m)
  BY <1>5, <1>6, <1>10 DEF Tabled
<1>. QED  BY <1>7, <1>9, <1>11, <1>12 DEF d, k, n, m

\* Two numbers that differ by at most g.
Within(p, q, g) == p <= q + g /\ q <= p + g

\* Three ways to a cell that cost nearly the same lead to nearly the same number.
LEMMA NearLeast ==
  ASSUME NEW g \in {0, 1}, NEW p \in Nat, NEW q \in Nat, NEW r \in Nat, NEW z \in Nat,
         NEW p1 \in Nat, NEW q1 \in Nat, NEW r1 \in Nat, NEW z1 \in Nat,
         Within(p, p1, g), Within(q, q1, g), Within(r, r1, g),
         z <= p /\ z <= q /\ z <= r /\ (z = p \/ z = q \/ z = r),
         z1 <= p1 /\ z1 <= q1 /\ z1 <= r1 /\ (z1 = p1 \/ z1 = q1 \/ z1 = r1)
  PROVE  Within(z, z1, g)
BY DEF Within

\* Tables whose edges and costs are nearly the same are nearly the same; a cost may differ by one
\* where what it is added to does not.
LEMMA NearTables ==
  ASSUME NEW n \in Nat, NEW m \in Nat, NEW x, NEW y, NEW k, NEW l, NEW g \in {0, 1},
         Tabled(x, k, n, m), Tabled(y, l, n, m),
         \A i \in 0 .. n : Within(x[<<i, 0>>], y[<<i, 0>>], g),
         \A j \in 0 .. m : Within(x[<<0, j>>], y[<<0, j>>], g),
         \A i \in 1 .. n : \A j \in 1 .. m :
           k[<<i, j>>] = l[<<i, j>>] \/ (g = 1 /\ x[<<i - 1, j - 1>>] = y[<<i - 1, j - 1>>])
  PROVE  \A i \in 0 .. n : \A j \in 0 .. m : Within(x[<<i, j>>], y[<<i, j>>], g)
<1>. DEFINE W(i, j) == Within(x[<<i, j>>], y[<<i, j>>], g)
            I == {i \in Nat : i <= n => \A j \in 0 .. m : W(i, j)}
<1>1. \A i \in 0 .. n : \A j \in 0 .. m : x[<<i, j>>] \in Nat /\ y[<<i, j>>] \in Nat
  BY DEF Tabled
<1>2. \A i \in 1 .. n : \A j \in 1 .. m : k[<<i, j>>] \in {0, 1} /\ l[<<i, j>>] \in {0, 1}
  BY DEF Tabled
<1>3. ASSUME NEW i \in 1 .. n, NEW j \in 1 .. m, W(i - 1, j), W(i, j - 1), W(i - 1, j - 1)
      PROVE  W(i, j)
  <2>1. i \in 0 .. n /\ j \in 0 .. m /\ i - 1 \in 0 .. n /\ j - 1 \in 0 .. m
    OBVIOUS
  <2>2. Cell(x, k, i, j) /\ Cell(y, l, i, j)
    BY DEF Tabled
  <2>. DEFINE p == x[<<i - 1, j>>]  q == x[<<i, j - 1>>]  r == x[<<i - 1, j - 1>>]  z == x[<<i, j>>]  c == k[<<i, j>>]
              p1 == y[<<i - 1, j>>]  q1 == y[<<i, j - 1>>]  r1 == y[<<i - 1, j - 1>>]  z1 == y[<<i, j>>]  c1 == l[<<i, j>>]
  <2>3. p \in Nat /\ q \in Nat /\ r \in Nat /\ z \in Nat /\ p1 \in Nat /\ q1 \in Nat /\ r1 \in Nat /\ z1 \in Nat
    BY <1>1, <2>1
  <2>4. c \in {0, 1} /\ c1 \in {0, 1} /\ (c = c1 \/ (g = 1 /\ r = r1))
    BY <1>2
  <2>5. Within(p, p1, g) /\ Within(q, q1, g) /\ Within(r, r1, g)
    BY <1>3
  <2>6. /\ z <= p + 1 /\ z <= q + 1 /\ z <= r + c /\ (z = p + 1 \/ z = q + 1 \/ z = r + c)
        /\ z1 <= p1 + 1 /\ z1 <= q1 + 1 /\ z1 <= r1 + c1 /\ (z1 = p1 + 1 \/ z1 = q1 + 1 \/ z1 = r1 + c1)
    BY <2>2, Zenon DEF Cell
  <2>. HIDE DEF p, q, r, z, c, p1, q1, r1, z1, c1
  <2>7. Within(p + 1, p1 + 1, g) /\ Within(q + 1, q1 + 1, g) /\ Within(r + c, r1 + c1, g)
    BY <2>3, <2>4, <2>5 DEF Within
  <2>8. p + 1 \in Nat /\ q + 1 \in Nat /\ r + c \in Nat /\ p1 + 1 \in Nat /\ q1 + 1 \in Nat /\ r1 + c1 \in Nat
    BY <2>3, <2>4
  <2>9. Within(z, z1, g)
    BY <2>3, <2>6, <2>7, <2>8, NearLeast
  <2>. QED  BY <2>9 DEF z, z1
<1>4. 0 \in I
  OBVIOUS
<1>5. ASSUME NEW i \in I PROVE i + 1 \in I
  <2>1. SUFFICES ASSUME i + 1 <= n PROVE \A j \in 0 .. m : W(i + 1, j)
    OBVIOUS
  <2>2. i \in Nat /\ i + 1 \in 1 .. n /\ (i + 1) - 1 = i /\ \A j \in 0 .. m : W(i, j)
    BY <2>1
  <2>. DEFINE J == {j \in Nat : j <= m => W(i + 1, j)}
  <2>3. 0 \in J
    BY <2>2
  <2>4. ASSUME NEW j \in J PROVE j + 1 \in J
    <3>1. SUFFICES ASSUME j + 1 <= m PROVE W(i + 1, j + 1)
      OBVIOUS
    <3>2. j + 1 \in 1 .. m /\ (j + 1) - 1 = j /\ W(i + 1, j) /\ j \in 0 .. m /\ j + 1 \in 0 .. m
      BY <3>1
    <3>3. W(i, j + 1) /\ W(i, j)
      BY <2>2, <3>2
    <3>. HIDE DEF W
    <3>. QED  BY <1>3, <2>2, <3>2, <3>3
  <2>5. J \in SUBSET Nat
    OBVIOUS
  <2>6. J = Nat
    <3>. HIDE DEF J
    <3>. QED  BY <2>3, <2>4, <2>5, Induction
  <2>. HIDE DEF W
  <2>. QED  BY <2>6
<1>6. I \in SUBSET Nat
  OBVIOUS
<1>7. I = Nat
  <2>. HIDE DEF I
  <2>. QED  BY <1>4, <1>5, <1>6, Induction
<1>. HIDE DEF W
<1>8. \A i \in 0 .. n : \A j \in 0 .. m : W(i, j)
  <2>1. ASSUME NEW i \in 0 .. n PROVE \A j \in 0 .. m : W(i, j)
    <3>1. i \in I /\ i <= n
      <4>. HIDE DEF I
      <4>. QED  BY <1>7
    <3>. QED  BY <3>1
  <2>. QED  BY <2>1
<1>. QED  BY <1>8 DEF W

\* Cells beside each other differ by at most one.
LEMMA AdjacentCells ==
  ASSUME NEW n \in Nat, NEW m \in Nat, NEW d, NEW k, Tabled(d, k, n, m),
         \A i \in 0 .. n : d[<<i, 0>>] = i, \A j \in 0 .. m : d[<<0, j>>] = j
  PROVE  \A i \in 0 .. n : \A j \in 1 .. m : Within(d[<<i, j>>], d[<<i, j - 1>>], 1)
<1>. DEFINE W(i) == \A j \in 1 .. m : d[<<i, j - 1>>] <= d[<<i, j>>] + 1
            I == {i \in Nat : i <= n => W(i)}
<1>1. \A i \in 0 .. n : \A j \in 0 .. m : d[<<i, j>>] \in Nat
  BY DEF Tabled
<1>2. \A i \in 1 .. n : \A j \in 1 .. m : k[<<i, j>>] \in {0, 1} /\ Cell(d, k, i, j)
  BY DEF Tabled
<1>3. 0 \in I
  <2>1. ASSUME NEW j \in 1 .. m PROVE d[<<0, j - 1>>] <= d[<<0, j>>] + 1
    <3>1. j - 1 \in 0 .. m /\ j \in 0 .. m
      OBVIOUS
    <3>2. d[<<0, j - 1>>] = j - 1 /\ d[<<0, j>>] = j
      BY <3>1
    <3>. QED  BY <3>2
  <2>. QED  BY <2>1
<1>4. ASSUME NEW i \in I PROVE i + 1 \in I
  <2>1. SUFFICES ASSUME i + 1 <= n, NEW j \in 1 .. m PROVE d[<<i + 1, j - 1>>] <= d[<<i + 1, j>>] + 1
    OBVIOUS
  <2>2. /\ i \in 0 .. n /\ i + 1 \in 0 .. n /\ i + 1 \in 1 .. n /\ (i + 1) - 1 = i
        /\ j \in 0 .. m /\ j - 1 \in 0 .. m
    BY <2>1
  <2>3. d[<<i, j - 1>>] <= d[<<i, j>>] + 1
    BY <2>1
  <2>4. d[<<i + 1, j - 1>>] <= d[<<i, j - 1>>] + 1
    <3>1. CASE j = 1
      <4>1. d[<<i + 1, 0>>] = i + 1 /\ d[<<i, 0>>] = i /\ j - 1 = 0
        BY <2>2, <3>1
      <4>. QED  BY <2>2, <4>1
    <3>2. CASE j # 1
      <4>1. j - 1 \in 1 .. m
        BY <3>2
      <4>2. Cell(d, k, i + 1, j - 1)
        BY <1>2, <2>2, <4>1
      <4>. QED  BY <2>2, <4>2 DEF Cell
    <3>. QED  BY <3>1, <3>2
  <2>5. Cell(d, k, i + 1, j) /\ k[<<i + 1, j>>] \in {0, 1}
    BY <1>2, <2>2
  <2>. DEFINE z == d[<<i + 1, j>>]  p == d[<<i, j>>]  q == d[<<i + 1, j - 1>>]  r == d[<<i, j - 1>>]  c == k[<<i + 1, j>>]
  <2>6. z = p + 1 \/ z = q + 1 \/ z = r + c
    BY <2>2, <2>5 DEF Cell
  <2>7. z \in Nat /\ p \in Nat /\ q \in Nat /\ r \in Nat /\ c \in {0, 1} /\ r <= p + 1 /\ q <= r + 1
    BY <1>1, <2>2, <2>3, <2>4, <2>5
  <2>. HIDE DEF z, p, q, r, c
  <2>8. q <= z + 1
    BY <2>6, <2>7
  <2>. QED  BY <2>8 DEF q, z
<1>5. I \in SUBSET Nat
  OBVIOUS
<1>6. I = Nat
  <2>. HIDE DEF I
  <2>. QED  BY <1>3, <1>4, <1>5, Induction
<1>7. \A i \in 0 .. n : W(i)
  <2>. HIDE DEF W
  <2>. QED  BY <1>6
<1>8. ASSUME NEW i \in 0 .. n, NEW j \in 1 .. m PROVE d[<<i, j>>] <= d[<<i, j - 1>>] + 1
  <2>1. CASE i = 0
    <3>1. j - 1 \in 0 .. m /\ j \in 0 .. m
      OBVIOUS
    <3>2. d[<<0, j - 1>>] = j - 1 /\ d[<<0, j>>] = j
      BY <3>1
    <3>. QED  BY <2>1, <3>2
  <2>2. CASE i # 0
    <3>1. i \in 1 .. n
      BY <2>2
    <3>. QED  BY <1>2, <3>1 DEF Cell
  <2>. QED  BY <2>1, <2>2
<1>. QED  BY <1>7, <1>8 DEF Within

\* A word is at no distance from itself.
LEMMA NoDistance ==
  ASSUME NEW V, NEW a \in Seq(V)
  PROVE  Levenshtein(a, a) = 0
<1>. DEFINE n == Len(a)
            d == Distances(a, a)
            k == Costs(a, a)
            T == {i \in Nat : i <= n => d[<<i, i>>] = 0}
<1>1. n \in Nat
  OBVIOUS
<1>2. Tabled(d, k, n, n) /\ (\A i \in 0 .. n : d[<<i, 0>>] = i) /\ Levenshtein(a, a) = d[<<n, n>>]
  BY DistancesAre
<1>3. \A i \in 1 .. n : k[<<i, i>>] = 0
  BY DEF Costs, Cost
<1>. HIDE DEF d, k, n
<1>4. 0 \in T
  BY <1>1, <1>2
<1>5. ASSUME NEW i \in T PROVE i + 1 \in T
  <2>1. SUFFICES ASSUME i + 1 <= n PROVE d[<<i + 1, i + 1>>] = 0
    OBVIOUS
  <2>2. i \in 0 .. n /\ i + 1 \in 0 .. n /\ i + 1 \in 1 .. n /\ (i + 1) - 1 = i /\ d[<<i, i>>] = 0
    BY <1>1, <2>1
  <2>3. Cell(d, k, i + 1, i + 1) /\ d[<<i + 1, i + 1>>] \in Nat
    BY <1>2, <2>2 DEF Tabled
  <2>4. d[<<i + 1, i + 1>>] <= d[<<i, i>>] + k[<<i + 1, i + 1>>]
    BY <2>2, <2>3 DEF Cell
  <2>. QED  BY <1>3, <2>2, <2>3, <2>4
<1>6. T \in SUBSET Nat
  OBVIOUS
<1>7. T = Nat
  <2>. HIDE DEF T
  <2>. QED  BY <1>4, <1>5, <1>6, Induction
<1>. QED  BY <1>1, <1>2, <1>7

\* The columns c .. c + m of a table, as a table.
Window(d, n, c, m) == [at \in (0 .. n) \X (0 .. m) |-> d[<<at[1], at[2] + c>>]]
Costing(k, n, c, m) == [at \in (1 .. n) \X (1 .. m) |-> k[<<at[1], at[2] + c>>]]

\* A window is a table, and what its cells are.
WindowOf(x, l, d, k, n, c, m) ==
  /\ Tabled(x, l, n, m)
  /\ \A i \in 0 .. n : \A j \in 0 .. m : x[<<i, j>>] = d[<<i, j + c>>]
  /\ \A i \in 1 .. n : \A j \in 1 .. m : l[<<i, j>>] = k[<<i, j + c>>]

\* A window of a table is one.
LEMMA WindowIs ==
  ASSUME NEW n \in Nat, NEW m \in Nat, NEW d, NEW k, Tabled(d, k, n, m),
         NEW c \in Nat, NEW e \in Nat, c + e <= m
  PROVE  WindowOf(Window(d, n, c, e), Costing(k, n, c, e), d, k, n, c, e)
<1>. DEFINE x == Window(d, n, c, e)
            l == Costing(k, n, c, e)
<1>1. /\ d \in [(0 .. n) \X (0 .. m) -> Nat] /\ k \in [(1 .. n) \X (1 .. m) -> {0, 1}]
      /\ \A i \in 1 .. n : \A j \in 1 .. m : Cell(d, k, i, j)
  BY DEF Tabled
<1>2. \A j \in 0 .. e : j + c \in 0 .. m
  OBVIOUS
<1>3. \A j \in 1 .. e : j + c \in 1 .. m
  OBVIOUS
<1>4. \A i \in 0 .. n : \A j \in 0 .. e : x[<<i, j>>] = d[<<i, j + c>>]
  BY DEF Window
<1>5. \A i \in 1 .. n : \A j \in 1 .. e : l[<<i, j>>] = k[<<i, j + c>>]
  BY DEF Costing
<1>6. x \in [(0 .. n) \X (0 .. e) -> Nat]
  <2>1. \A at \in (0 .. n) \X (0 .. e) : d[<<at[1], at[2] + c>>] \in Nat
    BY <1>1, <1>2
  <2>. QED  BY <2>1 DEF Window
<1>7. l \in [(1 .. n) \X (1 .. e) -> {0, 1}]
  <2>1. \A at \in (1 .. n) \X (1 .. e) : k[<<at[1], at[2] + c>>] \in {0, 1}
    BY <1>1, <1>3
  <2>. QED  BY <2>1 DEF Costing
<1>. HIDE DEF x, l
<1>8. ASSUME NEW i \in 1 .. n, NEW j \in 1 .. e PROVE Cell(x, l, i, j)
  <2>1. /\ i \in 0 .. n /\ i - 1 \in 0 .. n /\ j \in 0 .. e /\ j - 1 \in 0 .. e
        /\ (j - 1) + c = (j + c) - 1
    OBVIOUS
  <2>2. Cell(d, k, i, j + c)
    BY <1>1, <1>3
  <2>3. /\ x[<<i, j>>] = d[<<i, j + c>>] /\ x[<<i - 1, j>>] = d[<<i - 1, j + c>>]
        /\ x[<<i, j - 1>>] = d[<<i, (j + c) - 1>>] /\ x[<<i - 1, j - 1>>] = d[<<i - 1, (j + c) - 1>>]
        /\ l[<<i, j>>] = k[<<i, j + c>>]
    BY <1>4, <1>5, <2>1
  <2>. QED  BY <2>2, <2>3, Zenon DEF Cell
<1>9. Tabled(x, l, n, e)
  BY <1>6, <1>7, <1>8 DEF Tabled
<1>. QED  BY <1>4, <1>5, <1>9 DEF x, l, WindowOf

\* The words w and u are at the same distances from a, up to the length q.
SameDistances(a, w, u, q) ==
  \A i \in 0 .. Len(a) : \A j \in 0 .. q : Distances(a, w)[<<i, j>>] = Distances(a, u)[<<i, j>>]

\* What words have in common at their beginnings has the same distances.
LEMMA SameBeginnings ==
  ASSUME NEW V, NEW a \in Seq(V), NEW w \in Seq(V), NEW u \in Seq(V), NEW q \in Nat,
         q <= Len(w), q <= Len(u), \A j \in 1 .. q : u[j] = w[j]
  PROVE  SameDistances(a, w, u, q)
<1>. DEFINE n == Len(a)
            d == Distances(a, w)
            e == Distances(a, u)
            k == Costs(a, w)
            l == Costs(a, u)
<1>1. n \in Nat /\ Len(w) \in Nat /\ Len(u) \in Nat
  OBVIOUS
<1>2. /\ Tabled(d, k, n, Len(w)) /\ (\A i \in 0 .. n : d[<<i, 0>>] = i) /\ \A j \in 0 .. Len(w) : d[<<0, j>>] = j
      /\ Tabled(e, l, n, Len(u)) /\ (\A i \in 0 .. n : e[<<i, 0>>] = i) /\ \A j \in 0 .. Len(u) : e[<<0, j>>] = j
  BY DistancesAre
<1>3. \A i \in 1 .. n : \A j \in 1 .. q : k[<<i, j>>] = l[<<i, j>>]
  BY DEF Costs
<1>. HIDE DEF d, e, k, l, n
<1>. DEFINE x == Window(d, n, 0, q)
            y == Window(e, n, 0, q)
            s == Costing(k, n, 0, q)
            t == Costing(l, n, 0, q)
<1>4. 0 \in Nat /\ 0 + q <= Len(w) /\ 0 + q <= Len(u) /\ \A j \in 0 .. q : j + 0 = j /\ j \in 0 .. Len(w) /\ j \in 0 .. Len(u)
  BY <1>1
<1>5. /\ Tabled(x, s, n, q) /\ (\A i \in 0 .. n : \A j \in 0 .. q : x[<<i, j>>] = d[<<i, j>>])
      /\ \A i \in 1 .. n : \A j \in 1 .. q : s[<<i, j>>] = k[<<i, j>>]
  <2>1. ASSUME NEW m \in Nat, Tabled(d, k, n, m), 0 + q <= m PROVE WindowOf(x, s, d, k, n, 0, q)
    BY <1>1, <1>4, <2>1, WindowIs
  <2>2. WindowOf(x, s, d, k, n, 0, q)
    BY <1>1, <1>2, <1>4, <2>1
  <2>3. (\A j \in 0 .. q : j + 0 = j) /\ \A j \in 1 .. q : j + 0 = j
    OBVIOUS
  <2>. HIDE DEF x, y, s, t
  <2>. QED  BY <2>2, <2>3 DEF WindowOf
<1>6. /\ Tabled(y, t, n, q) /\ (\A i \in 0 .. n : \A j \in 0 .. q : y[<<i, j>>] = e[<<i, j>>])
      /\ \A i \in 1 .. n : \A j \in 1 .. q : t[<<i, j>>] = l[<<i, j>>]
  <2>1. ASSUME NEW m \in Nat, Tabled(e, l, n, m), 0 + q <= m PROVE WindowOf(y, t, e, l, n, 0, q)
    BY <1>1, <1>4, <2>1, WindowIs
  <2>2. WindowOf(y, t, e, l, n, 0, q)
    BY <1>1, <1>2, <1>4, <2>1
  <2>3. (\A j \in 0 .. q : j + 0 = j) /\ \A j \in 1 .. q : j + 0 = j
    OBVIOUS
  <2>. HIDE DEF x, y, s, t
  <2>. QED  BY <2>2, <2>3 DEF WindowOf
<1>. HIDE DEF x, y, s, t
<1>7. \A i \in 0 .. n : \A j \in 0 .. q :
        x[<<i, j>>] = d[<<i, j>>] /\ y[<<i, j>>] = e[<<i, j>>] /\ x[<<i, j>>] \in Nat /\ y[<<i, j>>] \in Nat
  BY <1>4, <1>5, <1>6 DEF Tabled
<1>8. \A i \in 0 .. n : Within(x[<<i, 0>>], y[<<i, 0>>], 0)
  <2>. TAKE i \in 0 .. n
  <2>1. 0 \in 0 .. q /\ i \in Nat
    BY <1>1
  <2>2. x[<<i, 0>>] = i /\ y[<<i, 0>>] = i
    BY <1>2, <1>7, <2>1
  <2>. QED  BY <2>1, <2>2 DEF Within
<1>9. \A j \in 0 .. q : Within(x[<<0, j>>], y[<<0, j>>], 0)
  <2>. TAKE j \in 0 .. q
  <2>1. 0 \in 0 .. n /\ j \in Nat
    BY <1>1
  <2>2. x[<<0, j>>] = j /\ y[<<0, j>>] = j
    BY <1>2, <1>4, <1>7, <2>1
  <2>. QED  BY <2>1, <2>2 DEF Within
<1>10. \A i \in 1 .. n : \A j \in 1 .. q :
         s[<<i, j>>] = t[<<i, j>>] \/ (0 = 1 /\ x[<<i - 1, j - 1>>] = y[<<i - 1, j - 1>>])
  <2>1. \A i \in 1 .. n : \A j \in 1 .. q : s[<<i, j>>] = t[<<i, j>>]
    BY <1>3, <1>5, <1>6
  <2>. QED  BY <2>1, Zenon
<1>11. \A i \in 0 .. n : \A j \in 0 .. q : Within(x[<<i, j>>], y[<<i, j>>], 0)
  <2>1. 0 \in {0, 1}
    OBVIOUS
  <2>. QED  BY <1>1, <1>5, <1>6, <1>8, <1>9, <1>10, <2>1, NearTables
<1>12. ASSUME NEW i \in 0 .. n, NEW j \in 0 .. q PROVE d[<<i, j>>] = e[<<i, j>>]
  BY <1>7, <1>11 DEF Within
<1>. QED  BY <1>12 DEF d, e, n, SameDistances

\* Another symbol at one place changes the distance by at most one.
LEMMA OneReplaced ==
  ASSUME NEW V, NEW a \in Seq(V), NEW w \in Seq(V), NEW u \in Seq(V), Len(u) = Len(w),
         NEW p \in 1 .. Len(w), \A j \in 1 .. Len(w) : j # p => u[j] = w[j]
  PROVE  Within(Levenshtein(a, u), Levenshtein(a, w), 1)
<1>. DEFINE n == Len(a)
            m == Len(w)
            d == Distances(a, w)
            e == Distances(a, u)
            k == Costs(a, w)
            l == Costs(a, u)
<1>1. n \in Nat /\ m \in Nat /\ p - 1 \in Nat /\ p - 1 <= m
  OBVIOUS
<1>2. /\ Tabled(d, k, n, m) /\ (\A i \in 0 .. n : d[<<i, 0>>] = i) /\ (\A j \in 0 .. m : d[<<0, j>>] = j)
      /\ Levenshtein(a, w) = d[<<n, m>>]
  BY DistancesAre
<1>3. /\ Tabled(e, l, n, m) /\ (\A i \in 0 .. n : e[<<i, 0>>] = i) /\ (\A j \in 0 .. m : e[<<0, j>>] = j)
      /\ Levenshtein(a, u) = e[<<n, m>>]
  BY DistancesAre
<1>4. \A i \in 1 .. n : \A j \in 1 .. m : j # p => l[<<i, j>>] = k[<<i, j>>]
  BY DEF Costs
<1>5. \A i \in 0 .. n : \A j \in 0 .. p - 1 : d[<<i, j>>] = e[<<i, j>>]
  <2>. DEFINE q == p - 1
  <2>1. q \in Nat /\ q <= Len(w) /\ q <= Len(u) /\ \A j \in 1 .. q : u[j] = w[j]
    BY <1>1
  <2>. HIDE DEF q
  <2>2. SameDistances(a, w, u, q)
    BY <2>1, SameBeginnings
  <2>. QED  BY <2>2 DEF SameDistances, q
<1>. HIDE DEF d, e, k, l, n, m
<1>6. \A i \in 0 .. n : Within(e[<<i, 0>>], d[<<i, 0>>], 1)
  <2>. TAKE i \in 0 .. n
  <2>1. e[<<i, 0>>] = i /\ d[<<i, 0>>] = i /\ i \in Nat
    BY <1>1, <1>2, <1>3
  <2>. QED  BY <2>1 DEF Within
<1>7. \A j \in 0 .. m : Within(e[<<0, j>>], d[<<0, j>>], 1)
  <2>. TAKE j \in 0 .. m
  <2>1. e[<<0, j>>] = j /\ d[<<0, j>>] = j /\ j \in Nat
    BY <1>1, <1>2, <1>3
  <2>. QED  BY <2>1 DEF Within
<1>8. \A i \in 1 .. n : \A j \in 1 .. m :
        l[<<i, j>>] = k[<<i, j>>] \/ (1 = 1 /\ e[<<i - 1, j - 1>>] = d[<<i - 1, j - 1>>])
  <2>1. ASSUME NEW i \in 1 .. n PROVE i - 1 \in 0 .. n /\ p - 1 \in 0 .. p - 1
    BY <1>1
  <2>. QED  BY <1>4, <1>5, <2>1
<1>9. \A i \in 0 .. n : \A j \in 0 .. m : Within(e[<<i, j>>], d[<<i, j>>], 1)
  <2>1. 1 \in {0, 1}
    OBVIOUS
  <2>. QED  BY <1>1, <1>2, <1>3, <1>6, <1>7, <1>8, <2>1, NearTables
<1>10. n \in 0 .. n /\ m \in 0 .. m
  BY <1>1
<1>. QED  BY <1>2, <1>3, <1>9, <1>10

\* So does a symbol that is left out.
LEMMA OneRemoved ==
  ASSUME NEW V, NEW a \in Seq(V), NEW w \in Seq(V), NEW u \in Seq(V),
         NEW p \in 1 .. Len(w), Len(u) = Len(w) - 1,
         \A j \in 1 .. p - 1 : u[j] = w[j], \A j \in p .. Len(u) : u[j] = w[j + 1]
  PROVE  Within(Levenshtein(a, u), Levenshtein(a, w), 1)
<1>. DEFINE n == Len(a)
            m == Len(w)
            r == m - p
            d == Distances(a, w)
            e == Distances(a, u)
            k == Costs(a, w)
            l == Costs(a, u)
<1>1. /\ n \in Nat /\ m \in Nat /\ p - 1 \in Nat /\ p \in Nat /\ r \in Nat /\ m - 1 \in Nat /\ Len(u) = m - 1
      /\ p + r = m /\ (p - 1) + r = m - 1 /\ p - 1 <= Len(w) /\ p - 1 <= Len(u)
  OBVIOUS
<1>2. /\ Tabled(d, k, n, m) /\ (\A i \in 0 .. n : d[<<i, 0>>] = i) /\ (\A j \in 0 .. m : d[<<0, j>>] = j)
      /\ Levenshtein(a, w) = d[<<n, m>>]
  BY DistancesAre
<1>3. /\ Tabled(e, l, n, m - 1) /\ (\A i \in 0 .. n : e[<<i, 0>>] = i) /\ (\A j \in 0 .. m - 1 : e[<<0, j>>] = j)
      /\ Levenshtein(a, u) = e[<<n, m - 1>>]
  <2>1. LET b == u
        IN  /\ Tabled(e, l, n, Len(b)) /\ (\A i \in 0 .. n : e[<<i, 0>>] = i)
            /\ (\A j \in 0 .. Len(b) : e[<<0, j>>] = j) /\ Levenshtein(a, b) = e[<<n, Len(b)>>]
    BY DistancesAre
  <2>. HIDE DEF e, l, n, m
  <2>. QED  BY <1>1, <2>1
<1>4. \A i \in 1 .. n : \A j \in 1 .. r : l[<<i, j + (p - 1)>>] = k[<<i, j + p>>]
  <2>. TAKE i \in 1 .. n
  <2>. TAKE j \in 1 .. r
  <2>1. j + (p - 1) \in 1 .. Len(u) /\ j + (p - 1) \in p .. Len(u) /\ j + p \in 1 .. m /\ (j + (p - 1)) + 1 = j + p
    BY <1>1
  <2>2. u[j + (p - 1)] = w[j + p]
    BY <2>1
  <2>. QED  BY <2>1, <2>2 DEF Costs
<1>5. \A i \in 0 .. n : \A j \in 0 .. p - 1 : d[<<i, j>>] = e[<<i, j>>]
  <2>. DEFINE q == p - 1
  <2>1. q \in Nat /\ q <= Len(w) /\ q <= Len(u) /\ \A j \in 1 .. q : u[j] = w[j]
    BY <1>1
  <2>. HIDE DEF q
  <2>2. SameDistances(a, w, u, q)
    BY <2>1, SameBeginnings
  <2>. QED  BY <2>2 DEF SameDistances, q
<1>. HIDE DEF d, e, k, l, n, m, r
<1>6. \A i \in 0 .. n : Within(d[<<i, p>>], d[<<i, p - 1>>], 1)
  <2>1. p \in 1 .. m
    BY DEF m
  <2>. QED  BY <1>1, <1>2, <2>1, AdjacentCells
<1>. DEFINE x == Window(e, n, p - 1, r)
            y == Window(d, n, p, r)
            s == Costing(l, n, p - 1, r)
            t == Costing(k, n, p, r)
<1>7. /\ Tabled(x, s, n, r) /\ (\A i \in 0 .. n : \A j \in 0 .. r : x[<<i, j>>] = e[<<i, j + (p - 1)>>])
      /\ \A i \in 1 .. n : \A j \in 1 .. r : s[<<i, j>>] = l[<<i, j + (p - 1)>>]
  <2>1. (p - 1) + r <= m - 1
    BY <1>1
  <2>2. WindowOf(x, s, e, l, n, p - 1, r)
    BY <1>1, <1>3, <2>1, WindowIs
  <2>. HIDE DEF x, y, s, t
  <2>. QED  BY <2>2 DEF WindowOf
<1>8. /\ Tabled(y, t, n, r) /\ (\A i \in 0 .. n : \A j \in 0 .. r : y[<<i, j>>] = d[<<i, j + p>>])
      /\ \A i \in 1 .. n : \A j \in 1 .. r : t[<<i, j>>] = k[<<i, j + p>>]
  <2>1. p + r <= m
    BY <1>1
  <2>2. WindowOf(y, t, d, k, n, p, r)
    BY <1>1, <1>2, <2>1, WindowIs
  <2>. HIDE DEF x, y, s, t
  <2>. QED  BY <2>2 DEF WindowOf
<1>. HIDE DEF x, y, s, t
<1>9. \A i \in 0 .. n : Within(x[<<i, 0>>], y[<<i, 0>>], 1)
  <2>. TAKE i \in 0 .. n
  <2>1. 0 \in 0 .. r /\ 0 + (p - 1) = p - 1 /\ 0 + p = p /\ p - 1 \in 0 .. p - 1 /\ p \in 0 .. m /\ p - 1 \in 0 .. m
    BY <1>1
  <2>2. x[<<i, 0>>] = d[<<i, p - 1>>] /\ y[<<i, 0>>] = d[<<i, p>>]
    BY <1>5, <1>7, <1>8, <2>1
  <2>. QED  BY <1>6, <2>2 DEF Within
<1>10. \A j \in 0 .. r : Within(x[<<0, j>>], y[<<0, j>>], 1)
  <2>. TAKE j \in 0 .. r
  <2>1. 0 \in 0 .. n /\ j + (p - 1) \in 0 .. m - 1 /\ j + p \in 0 .. m /\ j + p = (j + (p - 1)) + 1
    BY <1>1
  <2>2. x[<<0, j>>] = j + (p - 1) /\ y[<<0, j>>] = j + p
    BY <1>2, <1>3, <1>7, <1>8, <2>1
  <2>. QED  BY <2>1, <2>2 DEF Within
<1>11. \A i \in 1 .. n : \A j \in 1 .. r :
         s[<<i, j>>] = t[<<i, j>>] \/ (1 = 1 /\ x[<<i - 1, j - 1>>] = y[<<i - 1, j - 1>>])
  BY <1>4, <1>7, <1>8
<1>12. \A i \in 0 .. n : \A j \in 0 .. r : Within(x[<<i, j>>], y[<<i, j>>], 1)
  <2>1. 1 \in {0, 1}
    OBVIOUS
  <2>. QED  BY <1>1, <1>7, <1>8, <1>9, <1>10, <1>11, <2>1, NearTables
<1>13. n \in 0 .. n /\ r \in 0 .. r /\ r + (p - 1) = m - 1 /\ r + p = m
  BY <1>1
<1>14. x[<<n, r>>] = Levenshtein(a, u) /\ y[<<n, r>>] = Levenshtein(a, w)
  BY <1>2, <1>3, <1>7, <1>8, <1>13
<1>. QED  BY <1>12, <1>13, <1>14

\* The column that ends an alignment of beginnings, and the cell of the table it comes from.
LEMMA ColumnIs ==
  ASSUME NEW V, NEW a \in Seq(V), NEW b \in Seq(V), NEW i \in 0 .. Len(a), NEW j \in 0 .. Len(b),
         <<i, j>> # <<0, 0>>
  PROVE  LET d == Distances(a, b)
             column == ColumnAt(a, b, Table(a, b), i, j)
             before == Earlier(<<i, j>>, column)
         IN  \/ /\ i > 0 /\ j > 0 /\ column = <<i, j>> /\ before = <<i - 1, j - 1>>
                /\ d[<<i, j>>] = d[<<i - 1, j - 1>>] + Cost(a[i], b[j])
             \/ i > 0 /\ column = <<i, 0>> /\ before = <<i - 1, j>> /\ d[<<i, j>>] = d[<<i - 1, j>>] + 1
             \/ j > 0 /\ column = <<0, j>> /\ before = <<i, j - 1>> /\ d[<<i, j>>] = d[<<i, j - 1>>] + 1
<1>. DEFINE n == Len(a)
            m == Len(b)
            t == Table(a, b)
            d == Distances(a, b)
            k == Costs(a, b)
            column == ColumnAt(a, b, t, i, j)
<1>1. n \in Nat /\ m \in Nat /\ i \in Nat /\ j \in Nat /\ (i > 0 \/ j > 0)
  OBVIOUS
<1>2. Tabled(d, k, n, m) /\ (\A p \in 0 .. n : d[<<p, 0>>] = p) /\ (\A q \in 0 .. m : d[<<0, q>>] = q)
  BY DistancesAre
<1>3. \A p \in 0 .. n : \A q \in 0 .. m : d[<<p, q>>] = t[p + 1][q + 1]
  BY DEF Distances
<1>4. \A p \in 1 .. n : \A q \in 1 .. m : k[<<p, q>>] = Cost(a[p], b[q])
  BY DEF Costs
<1>. HIDE DEF t, d, k, n, m
<1>5. i \in 0 .. n /\ j \in 0 .. m
  BY DEF n, m
<1>6. CASE i > 0 /\ j > 0 /\ t[i + 1][j + 1] = t[i][j] + Cost(a[i], b[j])
  <2>1. column = <<i, j>>
    BY <1>6, Zenon DEF ColumnAt
  <2>2. Earlier(<<i, j>>, <<i, j>>) = <<i - 1, j - 1>>
    BY <1>1, <1>6 DEF Earlier
  <2>3. d[<<i, j>>] = t[i + 1][j + 1] /\ d[<<i - 1, j - 1>>] = t[i][j]
    <3>1. i - 1 \in 0 .. n /\ j - 1 \in 0 .. m /\ (i - 1) + 1 = i /\ (j - 1) + 1 = j
      BY <1>1, <1>5, <1>6
    <3>. QED  BY <1>3, <1>5, <3>1
  <2>. QED  BY <1>6, <2>1, <2>2, <2>3, Zenon DEF d, t
<1>7. CASE ~(i > 0 /\ j > 0 /\ t[i + 1][j + 1] = t[i][j] + Cost(a[i], b[j]))
           /\ i > 0 /\ t[i + 1][j + 1] = t[i][j + 1] + 1
  <2>1. column = <<i, 0>>
    BY <1>7, Zenon DEF ColumnAt
  <2>2. Earlier(<<i, j>>, <<i, 0>>) = <<i - 1, j>>
    BY <1>1, <1>7 DEF Earlier
  <2>3. d[<<i, j>>] = t[i + 1][j + 1] /\ d[<<i - 1, j>>] = t[i][j + 1]
    <3>1. i - 1 \in 0 .. n /\ (i - 1) + 1 = i
      BY <1>1, <1>5, <1>7
    <3>. QED  BY <1>3, <1>5, <3>1
  <2>. QED  BY <1>7, <2>1, <2>2, <2>3, Zenon DEF d, t
<1>8. CASE /\ ~(i > 0 /\ j > 0 /\ t[i + 1][j + 1] = t[i][j] + Cost(a[i], b[j]))
           /\ ~(i > 0 /\ t[i + 1][j + 1] = t[i][j + 1] + 1)
  <2>1. column = <<0, j>>
    BY <1>8, Zenon DEF ColumnAt
  <2>2. d[<<i, j>>] = t[i + 1][j + 1]
    BY <1>3, <1>5
  <2>3. i > 0 => d[<<i - 1, j>>] = t[i][j + 1]
    <3>1. SUFFICES ASSUME i > 0 PROVE d[<<i - 1, j>>] = t[i][j + 1]
      OBVIOUS
    <3>2. i - 1 \in 0 .. n /\ (i - 1) + 1 = i
      BY <1>1, <1>5, <3>1
    <3>. QED  BY <1>3, <1>5, <3>2
  <2>4. j > 0
    <3>1. SUFFICES ASSUME j = 0 PROVE FALSE
      BY <1>1
    <3>2. i > 0 /\ i - 1 \in 0 .. n
      BY <1>1, <1>5, <3>1
    <3>3. d[<<i, 0>>] = i /\ d[<<i - 1, 0>>] = i - 1
      BY <1>2, <1>5, <3>2
    <3>4. d[<<i, j>>] = d[<<i - 1, j>>] + 1
      BY <1>1, <3>1, <3>3
    <3>. QED  BY <1>8, <2>2, <2>3, <3>2, <3>4
  <2>5. j - 1 \in 0 .. m /\ j \in 1 .. m
    BY <1>1, <1>5, <2>4
  <2>6. d[<<i, j>>] = d[<<i, j - 1>>] + 1
    <3>1. CASE i = 0
      <4>1. d[<<0, j>>] = j /\ d[<<0, j - 1>>] = j - 1
        BY <1>2, <1>5, <2>5
      <4>. QED  BY <1>1, <3>1, <4>1
    <3>2. CASE i # 0
      <4>1. i > 0 /\ i \in 1 .. n /\ i - 1 \in 0 .. n /\ (i - 1) + 1 = i /\ (j - 1) + 1 = j
        BY <1>1, <1>5, <2>5, <3>2
      <4>2. Cell(d, k, i, j)
        BY <1>2, <2>5, <4>1 DEF Tabled
      <4>3. d[<<i - 1, j - 1>>] = t[i][j]
        BY <1>3, <2>5, <4>1
      <4>4. k[<<i, j>>] = Cost(a[i], b[j])
        BY <1>4, <2>5, <4>1
      <4>5. d[<<i, j>>] # d[<<i - 1, j - 1>>] + k[<<i, j>>] /\ d[<<i, j>>] # d[<<i - 1, j>>] + 1
        BY <1>8, <2>2, <2>3, <2>4, <4>1, <4>3, <4>4
      <4>. QED  BY <4>2, <4>5, Zenon DEF Cell
    <3>. QED  BY <3>1, <3>2
  <2>7. Earlier(<<i, j>>, <<0, j>>) = <<i, j - 1>>
    BY <1>1, <2>4 DEF Earlier
  <2>. QED  BY <2>1, <2>4, <2>6, <2>7, Zenon DEF d, t
<1>. QED  BY <1>6, <1>7, <1>8, Zenon

\* The numbers of a sequence that are no gaps.
NoGaps(s) == Picked(s, {i \in DOMAIN s : s[i] # 0})

\* One number more.
LEMMA NoGapsMore ==
  ASSUME NEW s \in Seq(Nat), NEW x \in Nat
  PROVE  NoGaps(Append(s, x)) = IF x = 0 THEN NoGaps(s) ELSE Append(NoGaps(s), x)
<1>. DEFINE v == Append(s, x)
            I == {i \in DOMAIN s : s[i] # 0}
            J == {i \in DOMAIN v : v[i] # 0}
            m == Len(s)
<1>1. /\ Picked(Append(s, x), I) = Picked(s, I)
      /\ Picked(Append(s, x), I \cup {Len(s) + 1}) = Append(Picked(s, I), x)
  <2>1. I \in SUBSET DOMAIN s
    OBVIOUS
  <2>. HIDE DEF I
  <2>. QED  BY <2>1, PickedMore
<1>2. /\ m \in Nat /\ DOMAIN s = 1 .. m /\ DOMAIN v = 1 .. m + 1
      /\ v[m + 1] = x /\ \A i \in 1 .. m : v[i] = s[i]
  OBVIOUS
<1>3. J = IF x = 0 THEN I ELSE I \cup {m + 1}
  <2>. HIDE DEF m, v
  <2>. QED  BY <1>2
<1>. HIDE DEF I, J, m
<1>4. Picked(v, J) = IF x = 0 THEN Picked(s, I) ELSE Append(Picked(s, I), x)
  BY <1>1, <1>3 DEF m
<1>. QED  BY <1>4, Zenon DEF NoGaps, v, I, J

\* The indices of one side of an alignment, without the gaps.
IndicesOn(columns, side) ==
  Picked([i \in DOMAIN columns |-> columns[i][side]], {i \in DOMAIN columns : columns[i][side] # 0})

\* Whether a column changes something, and the columns that do.
Changes(a, b, column) == column[1] = 0 \/ column[2] = 0 \/ a[column[1]] # b[column[2]]
Changing(a, b, columns) == {i \in DOMAIN columns : Changes(a, b, columns[i])}

\* Another column adds its index to a side, if it is no gap there.
LEMMA SideMore ==
  ASSUME NEW columns \in Seq(Nat \X Nat), NEW c \in Nat \X Nat, NEW side \in 1 .. 2
  PROVE  IndicesOn(Append(columns, c), side)
           = IF c[side] = 0 THEN IndicesOn(columns, side) ELSE Append(IndicesOn(columns, side), c[side])
<1>. DEFINE m == Len(columns)
            s == [i \in DOMAIN columns |-> columns[i][side]]
            more == Append(columns, c)
            s1 == [i \in DOMAIN more |-> more[i][side]]
<1>1. \A d \in Nat \X Nat : d[side] \in Nat
  OBVIOUS
<1>2. /\ more \in Seq(Nat \X Nat) /\ Len(more) = m + 1 /\ more[m + 1] = c /\ m \in Nat
      /\ \A i \in 1 .. m : more[i] = columns[i] /\ columns[i] \in Nat \X Nat
      /\ DOMAIN more = 1 .. m + 1 /\ DOMAIN columns = 1 .. m
  OBVIOUS
<1>. HIDE DEF more, m
<1>3. s \in Seq(Nat) /\ Len(s) = m /\ c[side] \in Nat /\ s \in [1 .. m -> Nat]
  <2>1. s \in [1 .. m -> Nat]
    BY <1>1, <1>2
  <2>2. c[side] \in Nat
    BY <1>1
  <2>. HIDE DEF s
  <2>3. s \in Seq(Nat) /\ Len(s) = m
    BY <1>2, <2>1, WordIsSeq
  <2>. QED  BY <2>1, <2>2, <2>3
<1>4. s1 = Append(s, c[side])
  <2>1. s1 \in [1 .. m + 1 -> Nat] /\ \A i \in 1 .. m + 1 : s1[i] = IF i = m + 1 THEN c[side] ELSE s[i]
    BY <1>1, <1>2
  <2>2. s1 \in Seq(Nat) /\ Len(s1) = m + 1
    <3>. HIDE DEF s1
    <3>1. m + 1 \in Nat /\ s1 \in [1 .. m + 1 -> Nat]
      BY <1>2, <2>1
    <3>. QED  BY <3>1, WordIsSeq
  <2>. HIDE DEF s, s1
  <2>3. /\ Append(s, c[side]) \in Seq(Nat) /\ Len(Append(s, c[side])) = m + 1
        /\ \A i \in 1 .. m + 1 : Append(s, c[side])[i] = IF i = m + 1 THEN c[side] ELSE s[i]
    BY <1>2, <1>3, AppendProperties
  <2>. QED  BY <2>1, <2>2, <2>3, SeqEqual
<1>5. IndicesOn(columns, side) = NoGaps(s)
  <2>1. {i \in DOMAIN s : s[i] # 0} = {i \in DOMAIN columns : columns[i][side] # 0}
    OBVIOUS
  <2>. QED  BY <2>1, Zenon DEF IndicesOn, NoGaps
<1>6. IndicesOn(more, side) = NoGaps(s1)
  <2>1. {i \in DOMAIN s1 : s1[i] # 0} = {i \in DOMAIN more : more[i][side] # 0}
    OBVIOUS
  <2>. QED  BY <2>1, Zenon DEF IndicesOn, NoGaps
<1>. HIDE DEF s, s1
<1>7. NoGaps(Append(s, c[side])) = IF c[side] = 0 THEN NoGaps(s) ELSE Append(NoGaps(s), c[side])
  BY <1>3, NoGapsMore
<1>. QED  BY <1>4, <1>5, <1>6, <1>7 DEF more

\* And it is one more change, if it changes something.
LEMMA ChangingMore ==
  ASSUME NEW columns \in Seq(Nat \X Nat), NEW c \in Nat \X Nat, NEW a, NEW b
  PROVE  /\ Cardinality(Changing(a, b, columns)) \in Nat
         /\ Cardinality(Changing(a, b, Append(columns, c)))
              = Cardinality(Changing(a, b, columns)) + (IF Changes(a, b, c) THEN 1 ELSE 0)
<1>. DEFINE m == Len(columns)
            S == Changing(a, b, columns)
            more == Append(columns, c)
<1>1. /\ more \in Seq(Nat \X Nat) /\ Len(more) = m + 1 /\ more[m + 1] = c /\ m \in Nat
      /\ \A i \in 1 .. m : more[i] = columns[i]
      /\ DOMAIN more = 1 .. m + 1 /\ DOMAIN columns = 1 .. m
  OBVIOUS
<1>2. S \subseteq 1 .. m
  BY <1>1 DEF Changing
<1>. HIDE DEF more, m
<1>3. IsFiniteSet(S) /\ Cardinality(S) \in Nat /\ m + 1 \notin S
  <2>1. IsFiniteSet(1 .. m)
    BY <1>1, FS_Interval
  <2>. QED  BY <1>1, <1>2, <2>1, FS_Subset, FS_CardinalityType
<1>4. Changing(a, b, more) = S \cup (IF Changes(a, b, c) THEN {m + 1} ELSE {})
  BY <1>1 DEF Changing
<1>. HIDE DEF S
<1>5. CASE Changes(a, b, c)
  BY <1>3, <1>4, <1>5, FS_AddElement DEF S, more
<1>6. CASE ~Changes(a, b, c)
  BY <1>3, <1>4, <1>6 DEF S, more
<1>. QED  BY <1>3, <1>5, <1>6 DEF S

\* Columns that name the first i of a and the first j of b, with the changes of their distance.
Aligns(columns, a, b, i, j) ==
  /\ columns \in Seq(Nat \X Nat)
  /\ IndicesOn(columns, 1) = [k \in 1 .. i |-> k] /\ IndicesOn(columns, 2) = [k \in 1 .. j |-> k]
  /\ Cardinality(Changing(a, b, columns)) = Distances(a, b)[<<i, j>>]

\* The numbers up to the next.
LEMMA CountOn ==
  ASSUME NEW i \in Nat \ {0}
  PROVE  Append([k \in 1 .. i - 1 |-> k], i) = [k \in 1 .. i |-> k]
<1>. DEFINE s == [k \in 1 .. i - 1 |-> k]
            t == [k \in 1 .. i |-> k]
<1>1. i - 1 \in Nat /\ (i - 1) + 1 = i
  OBVIOUS
<1>2. s \in Seq(Nat) /\ Len(s) = i - 1 /\ t \in Seq(Nat) /\ Len(t) = i
  BY <1>1
<1>3. \A k \in 1 .. i - 1 : s[k] = k
  OBVIOUS
<1>4. \A k \in 1 .. i : t[k] = k
  OBVIOUS
<1>. HIDE DEF s, t
<1>5. Append(s, i) \in Seq(Nat) /\ Len(Append(s, i)) = i /\ \A k \in 1 .. i : Append(s, i)[k] = k
  BY <1>1, <1>2, <1>3, AppendProperties
<1>6. Append(s, i) = t
  BY <1>2, <1>4, <1>5, SeqEqual
<1>. QED  BY <1>6 DEF s, t

\* One more column, of any of the three kinds.
LEMMA AlignsMore ==
  ASSUME NEW V, NEW a \in Seq(V), NEW b \in Seq(V), NEW i \in 0 .. Len(a), NEW j \in 0 .. Len(b),
         <<i, j>> # <<0, 0>>, NEW columns,
         LET before == Earlier(<<i, j>>, ColumnAt(a, b, Table(a, b), i, j))
         IN  Aligns(columns, a, b, before[1], before[2])
  PROVE  Aligns(Append(columns, ColumnAt(a, b, Table(a, b), i, j)), a, b, i, j)
<1>. DEFINE column == ColumnAt(a, b, Table(a, b), i, j)
            before == Earlier(<<i, j>>, column)
            d == Distances(a, b)
            more == Append(columns, column)
<1>1. \/ /\ i > 0 /\ j > 0 /\ column = <<i, j>> /\ before = <<i - 1, j - 1>>
         /\ d[<<i, j>>] = d[<<i - 1, j - 1>>] + Cost(a[i], b[j])
      \/ i > 0 /\ column = <<i, 0>> /\ before = <<i - 1, j>> /\ d[<<i, j>>] = d[<<i - 1, j>>] + 1
      \/ j > 0 /\ column = <<0, j>> /\ before = <<i, j - 1>> /\ d[<<i, j>>] = d[<<i, j - 1>>] + 1
  BY ColumnIs
<1>2. Aligns(columns, a, b, before[1], before[2])
  OBVIOUS
<1>3. i \in Nat /\ j \in Nat
  OBVIOUS
<1>. HIDE DEF column, before, d
<1>4. columns \in Seq(Nat \X Nat) /\ column \in Nat \X Nat
  BY <1>1, <1>2, <1>3 DEF Aligns
<1>5. /\ more \in Seq(Nat \X Nat)
      /\ Cardinality(Changing(a, b, columns)) \in Nat
      /\ Cardinality(Changing(a, b, more))
           = Cardinality(Changing(a, b, columns)) + (IF Changes(a, b, column) THEN 1 ELSE 0)
      /\ \A side \in 1 .. 2 : IndicesOn(more, side)
           = IF column[side] = 0 THEN IndicesOn(columns, side) ELSE Append(IndicesOn(columns, side), column[side])
  <2>1. more \in Seq(Nat \X Nat)
    BY <1>4
  <2>. QED  BY <1>4, <2>1, ChangingMore, SideMore
<1>6. ASSUME NEW p \in Nat, NEW q \in Nat, before = <<p, q>>
      PROVE  /\ IndicesOn(columns, 1) = [k \in 1 .. p |-> k] /\ IndicesOn(columns, 2) = [k \in 1 .. q |-> k]
             /\ Cardinality(Changing(a, b, columns)) = d[<<p, q>>]
  <2>1. before[1] = p /\ before[2] = q
    BY <1>6
  <2>. QED  BY <1>2, <2>1, Zenon DEF Aligns, d
<1>. HIDE DEF more
<1>7. ASSUME i > 0, j > 0, column = <<i, j>>, before = <<i - 1, j - 1>>,
             d[<<i, j>>] = d[<<i - 1, j - 1>>] + Cost(a[i], b[j])
      PROVE  Aligns(more, a, b, i, j)
  <2>1. i - 1 \in Nat /\ j - 1 \in Nat /\ i \in Nat \ {0} /\ j \in Nat \ {0}
    BY <1>3, <1>7
  <2>2. column[1] = i /\ column[2] = j
    BY <1>7
  <2>3. IndicesOn(more, 1) = Append(IndicesOn(columns, 1), i) /\ IndicesOn(more, 2) = Append(IndicesOn(columns, 2), j)
    BY <1>5, <2>1, <2>2
  <2>4. /\ IndicesOn(columns, 1) = [k \in 1 .. i - 1 |-> k] /\ IndicesOn(columns, 2) = [k \in 1 .. j - 1 |-> k]
        /\ Cardinality(Changing(a, b, columns)) = d[<<i - 1, j - 1>>]
    BY <1>6, <1>7, <2>1
  <2>5. IndicesOn(more, 1) = [k \in 1 .. i |-> k] /\ IndicesOn(more, 2) = [k \in 1 .. j |-> k]
    BY <2>1, <2>3, <2>4, CountOn
  <2>6. (IF Changes(a, b, column) THEN 1 ELSE 0) = Cost(a[i], b[j])
    BY <2>1, <2>2 DEF Changes, Cost
  <2>7. Cardinality(Changing(a, b, more)) = d[<<i, j>>]
    BY <1>5, <1>7, <2>4, <2>6
  <2>. QED  BY <1>5, <2>5, <2>7 DEF Aligns, d
<1>8. ASSUME i > 0, column = <<i, 0>>, before = <<i - 1, j>>, d[<<i, j>>] = d[<<i - 1, j>>] + 1
      PROVE  Aligns(more, a, b, i, j)
  <2>1. i - 1 \in Nat /\ i \in Nat \ {0}
    BY <1>3, <1>8
  <2>2. column[1] = i /\ column[2] = 0
    BY <1>8
  <2>3. IndicesOn(more, 1) = Append(IndicesOn(columns, 1), i) /\ IndicesOn(more, 2) = IndicesOn(columns, 2)
    BY <1>5, <2>1, <2>2
  <2>4. /\ IndicesOn(columns, 1) = [k \in 1 .. i - 1 |-> k] /\ IndicesOn(columns, 2) = [k \in 1 .. j |-> k]
        /\ Cardinality(Changing(a, b, columns)) = d[<<i - 1, j>>]
    BY <1>3, <1>6, <1>8, <2>1
  <2>5. IndicesOn(more, 1) = [k \in 1 .. i |-> k] /\ IndicesOn(more, 2) = [k \in 1 .. j |-> k]
    BY <2>1, <2>3, <2>4, CountOn
  <2>6. Changes(a, b, column)
    BY <2>2 DEF Changes
  <2>7. Cardinality(Changing(a, b, more)) = d[<<i, j>>]
    BY <1>5, <1>8, <2>4, <2>6
  <2>. QED  BY <1>5, <2>5, <2>7 DEF Aligns, d
<1>9. ASSUME j > 0, column = <<0, j>>, before = <<i, j - 1>>, d[<<i, j>>] = d[<<i, j - 1>>] + 1
      PROVE  Aligns(more, a, b, i, j)
  <2>1. j - 1 \in Nat /\ j \in Nat \ {0}
    BY <1>3, <1>9
  <2>2. column[1] = 0 /\ column[2] = j
    BY <1>9
  <2>3. IndicesOn(more, 1) = IndicesOn(columns, 1) /\ IndicesOn(more, 2) = Append(IndicesOn(columns, 2), j)
    BY <1>5, <2>1, <2>2
  <2>4. /\ IndicesOn(columns, 1) = [k \in 1 .. i |-> k] /\ IndicesOn(columns, 2) = [k \in 1 .. j - 1 |-> k]
        /\ Cardinality(Changing(a, b, columns)) = d[<<i, j - 1>>]
    BY <1>3, <1>6, <1>9, <2>1
  <2>5. IndicesOn(more, 1) = [k \in 1 .. i |-> k] /\ IndicesOn(more, 2) = [k \in 1 .. j |-> k]
    BY <2>1, <2>3, <2>4, CountOn
  <2>6. Changes(a, b, column)
    BY <2>2 DEF Changes
  <2>7. Cardinality(Changing(a, b, more)) = d[<<i, j>>]
    BY <1>5, <1>9, <2>4, <2>6
  <2>. QED  BY <1>5, <2>5, <2>7 DEF Aligns, d
<1>10. Aligns(more, a, b, i, j)
  BY <1>1, <1>7, <1>8, <1>9
<1>. QED  BY <1>10 DEF more, column

\* The beginnings of two words that an alignment has reached, by how far they are.
Places(a, b) == (0 .. Len(a)) \X (0 .. Len(b))
Far(a, b) == [at \in Places(a, b) |-> at[1] + at[2]]

\* The column that the alignment of a place ends with.
ColumnOf(a, b, at) == ColumnAt(a, b, Table(a, b), at[1], at[2])

\* The place before that column is a nearer one.
LEMMA EarlierIsNearer ==
  ASSUME NEW V, NEW a \in Seq(V), NEW b \in Seq(V), NEW at \in Places(a, b), at # <<0, 0>>
  PROVE  /\ ColumnOf(a, b, at) \in Nat \X Nat /\ Earlier(at, ColumnOf(a, b, at)) \in Places(a, b)
         /\ Far(a, b)[Earlier(at, ColumnOf(a, b, at))] < Far(a, b)[at]
<1>. DEFINE column == ColumnOf(a, b, at)
            before == Earlier(at, column)
<1>1. PICK i \in 0 .. Len(a), j \in 0 .. Len(b) : at = <<i, j>>
  BY DEF Places
<1>2. at[1] = i /\ at[2] = j
  BY <1>1
<1>3. column = ColumnAt(a, b, Table(a, b), i, j) /\ <<i, j>> # <<0, 0>>
  BY <1>1, <1>2 DEF ColumnOf
<1>4. before = Earlier(<<i, j>>, ColumnAt(a, b, Table(a, b), i, j))
  BY <1>1, <1>3
<1>. HIDE DEF column, before
<1>5. \/ i > 0 /\ j > 0 /\ column = <<i, j>> /\ before = <<i - 1, j - 1>>
      \/ i > 0 /\ column = <<i, 0>> /\ before = <<i - 1, j>>
      \/ j > 0 /\ column = <<0, j>> /\ before = <<i, j - 1>>
  <2>. DEFINE c == ColumnAt(a, b, Table(a, b), i, j)
              e == Earlier(<<i, j>>, c)
              d == Distances(a, b)
  <2>1. \/ /\ i > 0 /\ j > 0 /\ c = <<i, j>> /\ e = <<i - 1, j - 1>>
           /\ d[<<i, j>>] = d[<<i - 1, j - 1>>] + Cost(a[i], b[j])
        \/ i > 0 /\ c = <<i, 0>> /\ e = <<i - 1, j>> /\ d[<<i, j>>] = d[<<i - 1, j>>] + 1
        \/ j > 0 /\ c = <<0, j>> /\ e = <<i, j - 1>> /\ d[<<i, j>>] = d[<<i, j - 1>>] + 1
    <3>1. <<i, j>> # <<0, 0>>
      BY <1>3
    <3>. QED  BY <3>1, ColumnIs
  <2>. HIDE DEF c, e, d
  <2>2. \/ i > 0 /\ j > 0 /\ c = <<i, j>> /\ e = <<i - 1, j - 1>>
        \/ i > 0 /\ c = <<i, 0>> /\ e = <<i - 1, j>>
        \/ j > 0 /\ c = <<0, j>> /\ e = <<i, j - 1>>
    BY <2>1, Zenon
  <2>. USE DEF c, e
  <2>. QED  BY <1>3, <1>4, <2>2, Zenon
<1>6. i \in Nat /\ j \in Nat /\ Len(a) \in Nat /\ Len(b) \in Nat
  OBVIOUS
<1>7. column \in Nat \X Nat
  BY <1>5, <1>6
<1>8. before \in Places(a, b)
  BY <1>5, <1>6 DEF Places
<1>9. Far(a, b)[before] = before[1] + before[2] /\ Far(a, b)[at] = i + j
  BY <1>2, <1>8 DEF Far
<1>10. before[1] + before[2] < i + j
  <2>1. \/ before[1] = i - 1 /\ before[2] = j - 1
        \/ before[1] = i - 1 /\ before[2] = j
        \/ before[1] = i /\ before[2] = j - 1
    BY <1>5
  <2>. QED  BY <1>6, <2>1
<1>. QED  BY <1>7, <1>8, <1>9, <1>10 DEF column, before

\* A solution of the recursion of align.
Walks(g, a, b) ==
  /\ g \in [Places(a, b) -> Seq(Nat \X Nat)]
  /\ g[<<0, 0>>] = <<>>
  /\ \A at \in Places(a, b) : at # <<0, 0>> =>
       g[at] = Append(g[Earlier(at, ColumnOf(a, b, at))], ColumnOf(a, b, at))

\* There is one.
LEMMA WalkExists ==
  ASSUME NEW V, NEW a \in Seq(V), NEW b \in Seq(V)
  PROVE  \E g : Walks(g, a, b)
<1>. DEFINE D == Places(a, b)
            W == Seq(Nat \X Nat)
            N == Len(a) + Len(b)
            rank == Far(a, b)
            back == [at \in D |-> IF at = <<0, 0>> THEN at ELSE Earlier(at, ColumnOf(a, b, at))]
            last == [at \in D |-> IF at = <<0, 0>> THEN <<0, 0>> ELSE ColumnOf(a, b, at)]
            on(g) == [at \in D |-> IF at = <<0, 0>> THEN <<>> ELSE Append(g[back[at]], last[at])]
            step == [g \in [D -> W] |-> on(g)]
<1>1. Len(a) \in Nat /\ Len(b) \in Nat /\ N \in Nat /\ <<0, 0>> \in D
  BY DEF Places
<1>2. rank \in [D -> 0 .. N]
  BY <1>1 DEF Far, Places
<1>3. \A at \in D : at # <<0, 0>> =>
        /\ back[at] = Earlier(at, ColumnOf(a, b, at)) /\ last[at] = ColumnOf(a, b, at)
        /\ last[at] \in Nat \X Nat /\ back[at] \in D /\ rank[back[at]] < rank[at]
  <2>. TAKE at \in D
  <2>1. SUFFICES ASSUME at # <<0, 0>>
                 PROVE  /\ back[at] = Earlier(at, ColumnOf(a, b, at)) /\ last[at] = ColumnOf(a, b, at)
                        /\ last[at] \in Nat \X Nat /\ back[at] \in D /\ rank[back[at]] < rank[at]
    OBVIOUS
  <2>2. back[at] = Earlier(at, ColumnOf(a, b, at)) /\ last[at] = ColumnOf(a, b, at)
    BY <2>1
  <2>. HIDE DEF back, last
  <2>. QED  BY <2>1, <2>2, EarlierIsNearer
<1>. HIDE DEF D, N, rank, back, last
<1>4. <<>> \in W
  OBVIOUS
<1>5. ASSUME NEW g \in [D -> W] PROVE on(g) \in [D -> W]
  <2>1. \A at \in D : at # <<0, 0>> => g[back[at]] \in W /\ last[at] \in Nat \X Nat
    BY <1>3
  <2>2. \A at \in D : at # <<0, 0>> => Append(g[back[at]], last[at]) \in W
    BY <2>1
  <2>. HIDE DEF W
  <2>. QED  BY <1>4, <2>2
<1>6. step \in [[D -> W] -> [D -> W]]
  BY <1>5
<1>7. \A g, h \in [D -> W] : \A x \in D :
        (\A y \in D : rank[y] < rank[x] => g[y] = h[y]) => step[g][x] = step[h][x]
  <2>. TAKE g, h \in [D -> W]
  <2>. TAKE x \in D
  <2>. HAVE \A y \in D : rank[y] < rank[x] => g[y] = h[y]
  <2>1. step[g] = on(g) /\ step[h] = on(h)
    BY Zenon
  <2>2. on(g)[x] = (IF x = <<0, 0>> THEN <<>> ELSE Append(g[back[x]], last[x]))
        /\ on(h)[x] = (IF x = <<0, 0>> THEN <<>> ELSE Append(h[back[x]], last[x]))
    BY Zenon
  <2>3. CASE x = <<0, 0>>
    BY <2>1, <2>2, <2>3, Zenon
  <2>4. CASE x # <<0, 0>>
    <3>1. back[x] \in D /\ rank[back[x]] < rank[x]
      BY <1>3, <2>4
    <3>2. g[back[x]] = h[back[x]]
      BY <3>1
    <3>. QED  BY <2>1, <2>2, <2>4, <3>2, Zenon
  <2>. QED  BY <2>3, <2>4
<1>. HIDE DEF W, step
<1>8. PICK g : g \in [D -> W] /\ g = step[g]
  <2>1. \E g : g \in [D -> W] /\ g = step[g]
    <3>1. Grounded(D, W, N, rank, <<>>, step)
      BY <1>1, <1>2, <1>4, <1>6, <1>7, Zenon DEF Grounded
    <3>. QED  BY <3>1, RankedRecursion
  <2>. QED  BY <2>1
<1>9. g = on(g)
  BY <1>8, Zenon DEF step
<1>. HIDE DEF on
<1>10. \A at \in D : g[at] = IF at = <<0, 0>> THEN <<>> ELSE Append(g[back[at]], last[at])
  <2>1. \A at \in D : on(g)[at] = IF at = <<0, 0>> THEN <<>> ELSE Append(g[back[at]], last[at])
    BY Zenon DEF on
  <2>. QED  BY <1>9, <2>1, Zenon
<1>11. g[<<0, 0>>] = <<>>
  BY <1>1, <1>10
<1>12. \A at \in D : at # <<0, 0>> => g[at] = Append(g[Earlier(at, ColumnOf(a, b, at))], ColumnOf(a, b, at))
  BY <1>3, <1>10, Zenon
<1>13. Walks(g, a, b)
  BY <1>8, <1>11, <1>12, Zenon DEF Walks, D, W
<1>. QED  BY <1>13

\* What align walks back is a solution.
LEMMA AlignWalks ==
  ASSUME NEW V, NEW a \in Seq(V), NEW b \in Seq(V)
  PROVE  \E h : /\ Align(a, b) = h[<<Len(a), Len(b)>>]
                /\ h[<<0, 0>>] = <<>>
                /\ \A at \in Places(a, b) : at # <<0, 0>> =>
                     h[at] = Append(h[Earlier(at, ColumnOf(a, b, at))], ColumnOf(a, b, at))
<1>. DEFINE Is(h) == h = [at \in (0 .. Len(a)) \X (0 .. Len(b)) |->
                            IF at = <<0, 0>> THEN <<>>
                            ELSE Append(h[Earlier(at, ColumnAt(a, b, Table(a, b), at[1], at[2]))],
                                        ColumnAt(a, b, Table(a, b), at[1], at[2]))]
            h0 == CHOOSE h : Is(h)
<1>1. PICK g : Walks(g, a, b)
  BY WalkExists
<1>2. Is(g)
  <2>. DEFINE D == (0 .. Len(a)) \X (0 .. Len(b))
              next(at) == Append(g[Earlier(at, ColumnOf(a, b, at))], ColumnOf(a, b, at))
  <2>1. g = [at \in D |-> g[at]] /\ g[<<0, 0>>] = <<>> /\ \A at \in D : at # <<0, 0>> => g[at] = next(at)
    BY <1>1 DEF Walks, Places
  <2>. HIDE DEF next, D
  <2>2. \A at \in D : g[at] = IF at = <<0, 0>> THEN <<>> ELSE next(at)
    BY <2>1
  <2>3. g = [at \in D |-> IF at = <<0, 0>> THEN <<>> ELSE next(at)]
    BY <2>1, <2>2, Zenon
  <2>. QED  BY <2>3, Zenon DEF next, ColumnOf, D
<1>3. Is(h0)
  <2>. HIDE DEF Is
  <2>. QED  BY <1>2, Zenon
<1>4. Align(a, b) = h0[<<Len(a), Len(b)>>]
  BY Zenon DEF Align
<1>. HIDE DEF h0
<1>5. \A at \in Places(a, b) :
        h0[at] = IF at = <<0, 0>> THEN <<>> ELSE Append(h0[Earlier(at, ColumnOf(a, b, at))], ColumnOf(a, b, at))
  BY <1>3, Zenon DEF Places, ColumnOf
<1>6. <<0, 0>> \in Places(a, b)
  BY DEF Places
<1>7. h0[<<0, 0>>] = <<>>
  BY <1>5, <1>6
<1>8. \A at \in Places(a, b) : at # <<0, 0>> =>
        h0[at] = Append(h0[Earlier(at, ColumnOf(a, b, at))], ColumnOf(a, b, at))
  BY <1>5, Zenon
<1>. QED  BY <1>4, <1>7, <1>8, Zenon

\* Nothing is aligned at first.
LEMMA AlignsNothing ==
  ASSUME NEW V, NEW a \in Seq(V), NEW b \in Seq(V)
  PROVE  Aligns(<<>>, a, b, 0, 0)
<1>1. <<>> \in Seq(Nat \X Nat) /\ DOMAIN <<>> = {}
  OBVIOUS
<1>2. \A side \in 1 .. 2 : IndicesOn(<<>>, side) = <<>>
  <2>. TAKE side \in 1 .. 2
  <2>1. [i \in DOMAIN <<>> |-> <<>>[i][side]] = <<>>
    OBVIOUS
  <2>2. {i \in DOMAIN <<>> : <<>>[i][side] # 0} = {}
    OBVIOUS
  <2>3. Picked(<<>>, {}) = <<>>
    <3>1. <<>> \in Seq(Nat) /\ {} \in SUBSET DOMAIN <<>>
      OBVIOUS
    <3>2. Picked(<<>>, {}) \in Seq(Nat) /\ Len(Picked(<<>>, {})) = Cardinality({})
      BY <3>1, PickedIs
    <3>. QED  BY <3>2, FS_EmptySet
  <2>. QED  BY <2>1, <2>2, <2>3, Zenon DEF IndicesOn
<1>3. Cardinality(Changing(a, b, <<>>)) = 0
  <2>1. Changing(a, b, <<>>) = {}
    BY DEF Changing
  <2>. QED  BY <2>1, FS_EmptySet
<1>4. Distances(a, b)[<<0, 0>>] = 0
  <2>1. \A p \in 0 .. Len(a) : Distances(a, b)[<<p, 0>>] = p
    BY DistancesAre
  <2>2. 0 \in 0 .. Len(a)
    OBVIOUS
  <2>. QED  BY <2>1, <2>2
<1>5. [k \in 1 .. 0 |-> k] = <<>>
  OBVIOUS
<1>. QED  BY <1>1, <1>2, <1>3, <1>4, <1>5 DEF Aligns

\* What align computes: it names every index of both words once, in order, with the changes of the
\* edit distance.
LEMMA AlignIs ==
  ASSUME NEW V, NEW a \in Seq(V), NEW b \in Seq(V)
  PROVE  Aligns(Align(a, b), a, b, Len(a), Len(b))
<1>1. PICK h : /\ Align(a, b) = h[<<Len(a), Len(b)>>]
               /\ h[<<0, 0>>] = <<>>
               /\ \A at \in Places(a, b) : at # <<0, 0>> =>
                    h[at] = Append(h[Earlier(at, ColumnOf(a, b, at))], ColumnOf(a, b, at))
  BY AlignWalks
<1>. DEFINE D == Places(a, b)
            rank == Far(a, b)
            Right(at) == Aligns(h[at], a, b, at[1], at[2])
            T == {n \in Nat : \A at \in D : rank[at] <= n => Right(at)}
<1>2. \A at \in D : rank[at] \in Nat /\ (rank[at] = 0 => at = <<0, 0>>)
  BY DEF Far, Places
<1>4. 0 \in T
  <2>1. ASSUME NEW at \in D, rank[at] <= 0 PROVE Right(at)
    <3>1. at = <<0, 0>> /\ at[1] = 0 /\ at[2] = 0 /\ h[at] = <<>>
      BY <1>1, <1>2, <2>1
    <3>. QED  BY <3>1, AlignsNothing
  <2>. HIDE DEF Right, D
  <2>. QED  BY <2>1
<1>5. ASSUME NEW n \in T PROVE n + 1 \in T
  <2>1. n \in Nat /\ \A at \in D : rank[at] <= n => Right(at)
    <3>. HIDE DEF Right, D, rank
    <3>. QED  OBVIOUS
  <2>2. ASSUME NEW at \in D, rank[at] <= n + 1, at # <<0, 0>> PROVE Right(at)
    <3>. DEFINE before == Earlier(at, ColumnOf(a, b, at))
    <3>1. at # <<0, 0>>
      BY <2>2
    <3>2. before \in D /\ rank[before] < rank[at]
      BY <3>1, EarlierIsNearer
    <3>3. Aligns(h[before], a, b, before[1], before[2])
      <4>1. rank[before] <= n
        <5>1. rank[before] \in Nat /\ rank[at] \in Nat
          BY <1>2, <3>2
        <5>. HIDE DEF rank
        <5>. QED  BY <2>1, <2>2, <3>2, <5>1
      <4>. QED  BY <2>1, <3>2, <4>1
    <3>4. h[at] = Append(h[before], ColumnOf(a, b, at))
      BY <1>1, <3>1
    <3>. HIDE DEF before
    <3>5. PICK i \in 0 .. Len(a), j \in 0 .. Len(b) : at = <<i, j>>
      BY DEF Places
    <3>6. at[1] = i /\ at[2] = j
      BY <3>5
    <3>7. ColumnOf(a, b, at) = ColumnAt(a, b, Table(a, b), i, j)
      BY <3>6, Zenon DEF ColumnOf
    <3>8. before = Earlier(<<i, j>>, ColumnAt(a, b, Table(a, b), i, j))
      BY <3>5, <3>7 DEF before
    <3>9. Aligns(Append(h[before], ColumnAt(a, b, Table(a, b), i, j)), a, b, i, j)
      <4>1. <<i, j>> # <<0, 0>>
        BY <3>1, <3>5
      <4>2. Aligns(h[before], a, b, Earlier(<<i, j>>, ColumnAt(a, b, Table(a, b), i, j))[1],
                   Earlier(<<i, j>>, ColumnAt(a, b, Table(a, b), i, j))[2])
        BY <3>3, <3>8, Zenon
      <4>. QED  BY <4>1, <4>2, AlignsMore, Zenon
    <3>. QED  BY <3>4, <3>6, <3>7, <3>9, Zenon
  <2>3. Right(<<0, 0>>)
    <3>1. <<0, 0>>[1] = 0 /\ <<0, 0>>[2] = 0
      OBVIOUS
    <3>. QED  BY <1>1, <3>1, AlignsNothing
  <2>. HIDE DEF Right, D, rank
  <2>. QED  BY <2>1, <2>2, <2>3
<1>6. T = Nat
  <2>1. T \in SUBSET Nat
    OBVIOUS
  <2>. HIDE DEF T
  <2>. QED  BY <1>4, <1>5, <2>1, Induction
<1>. DEFINE end == <<Len(a), Len(b)>>
<1>7. end \in D /\ end[1] = Len(a) /\ end[2] = Len(b)
  BY DEF Places
<1>. HIDE DEF D, rank, end
<1>8. Right(end)
  <2>. HIDE DEF Right
  <2>. QED  BY <1>2, <1>6, <1>7
<1>. QED  BY <1>1, <1>7, <1>8, Zenon DEF end

\* An edit distance is a number.
LEMMA LevenshteinIsNat ==
  ASSUME NEW V, NEW a \in Seq(V), NEW b \in Seq(V)
  PROVE  Levenshtein(a, b) \in Nat
<1>1. Tabled(Distances(a, b), Costs(a, b), Len(a), Len(b))
  BY DistancesAre
<1>2. <<Len(a), Len(b)>> \in (0 .. Len(a)) \X (0 .. Len(b))
  OBVIOUS
<1>3. Distances(a, b)[<<Len(a), Len(b)>>] \in Nat
  BY <1>1, <1>2 DEF Tabled
<1>4. Distances(a, b)[<<Len(a), Len(b)>>] = Levenshtein(a, b)
  BY <1>2 DEF Distances, Levenshtein
<1>. QED  BY <1>3, <1>4

\* A sequence without one of its elements.
LEMMA LeftOut ==
  ASSUME NEW V, NEW w \in Seq(V), NEW p \in DOMAIN w
  PROVE  LET u == RemoveAt(w, p)
         IN  /\ u \in Seq(V) /\ Len(u) = Len(w) - 1
             /\ (\A j \in 1 .. p - 1 : u[j] = w[j]) /\ \A j \in p .. Len(u) : u[j] = w[j + 1]
<1>. DEFINE n == Len(w) - 1
            one == SubSeq(w, 1, p - 1)
            two == SubSeq(w, p + 1, n + 1)
<1>1. n \in Nat /\ Len(w) = n + 1 /\ p \in 1 .. n + 1
  OBVIOUS
<1>2. one \in Seq(V) /\ Len(one) = p - 1 /\ \A j \in 1 .. p - 1 : one[j] = w[j]
  BY <1>1, SubSeqProperties
<1>3. two \in Seq(V) /\ Len(two) = n + 1 - p /\ \A j \in 1 .. n + 1 - p : two[j] = w[p + j]
  BY <1>1, SubSeqProperties
<1>4. RemoveAt(w, p) = one \o two
  BY <1>1 DEF RemoveAt
<1>. HIDE DEF one, two, n
<1>5. one \o two \in Seq(V) /\ Len(one \o two) = n
      /\ \A j \in 1 .. n : (one \o two)[j] = IF j <= p - 1 THEN one[j] ELSE two[j - (p - 1)]
  <2>1. /\ one \o two \in Seq(V) /\ Len(one \o two) = Len(one) + Len(two)
        /\ \A j \in 1 .. Len(one) + Len(two) :
             (one \o two)[j] = IF j <= Len(one) THEN one[j] ELSE two[j - Len(one)]
    BY <1>2, <1>3, ConcatProperties
  <2>2. Len(one) + Len(two) = n /\ Len(one) = p - 1
    BY <1>1, <1>2, <1>3
  <2>. QED  BY <2>1, <2>2
<1>6. \A j \in 1 .. p - 1 : (one \o two)[j] = w[j]
  BY <1>1, <1>2, <1>5
<1>7. ASSUME NEW j \in p .. n PROVE (one \o two)[j] = w[j + 1]
  <2>1. j \in 1 .. n /\ ~(j <= p - 1) /\ j - (p - 1) \in 1 .. n + 1 - p /\ p + (j - (p - 1)) = j + 1
    BY <1>1
  <2>. QED  BY <1>3, <1>5, <2>1
<1>. QED  BY <1>1, <1>4, <1>5, <1>6, <1>7

\* One symbol of a word replaced or left out: the distance changes by at most one.
LEMMA OneEdit ==
  ASSUME NEW V, NEW a \in Seq(V), NEW w \in Seq(V), NEW p \in DOMAIN w, NEW x \in V
  PROVE  /\ Levenshtein(a, ReplaceAt(w, p, x)) - Levenshtein(a, w) \in -1 .. 1
         /\ Levenshtein(a, RemoveAt(w, p)) - Levenshtein(a, w) \in -1 .. 1
<1>1. p \in 1 .. Len(w) /\ Len(w) \in Nat
  OBVIOUS
<1>2. ASSUME NEW u \in Seq(V), Within(Levenshtein(a, u), Levenshtein(a, w), 1)
      PROVE  Levenshtein(a, u) - Levenshtein(a, w) \in -1 .. 1
  <2>1. Levenshtein(a, u) \in Nat /\ Levenshtein(a, w) \in Nat
    BY LevenshteinIsNat
  <2>. QED  BY <1>2, <2>1 DEF Within
<1>3. Levenshtein(a, ReplaceAt(w, p, x)) - Levenshtein(a, w) \in -1 .. 1
  <2>. DEFINE u == ReplaceAt(w, p, x)
  <2>1. u \in Seq(V) /\ Len(u) = Len(w) /\ \A j \in 1 .. Len(w) : j # p => u[j] = w[j]
    BY <1>1 DEF ReplaceAt
  <2>. HIDE DEF u
  <2>2. Within(Levenshtein(a, u), Levenshtein(a, w), 1)
    BY <1>1, <2>1, OneReplaced
  <2>3. Levenshtein(a, u) - Levenshtein(a, w) \in -1 .. 1
    BY <1>2, <2>1, <2>2
  <2>. QED  BY <2>3 DEF u
<1>4. Levenshtein(a, RemoveAt(w, p)) - Levenshtein(a, w) \in -1 .. 1
  <2>. DEFINE u == RemoveAt(w, p)
  <2>1. /\ u \in Seq(V) /\ Len(u) = Len(w) - 1
        /\ (\A j \in 1 .. p - 1 : u[j] = w[j]) /\ \A j \in p .. Len(u) : u[j] = w[j + 1]
    BY LeftOut
  <2>. HIDE DEF u
  <2>2. Within(Levenshtein(a, u), Levenshtein(a, w), 1)
    BY <1>1, <2>1, OneRemoved
  <2>3. Levenshtein(a, u) - Levenshtein(a, w) \in -1 .. 1
    BY <1>2, <2>1, <2>2
  <2>. QED  BY <2>3 DEF u
<1>. QED  BY <1>3, <1>4

\* What an alignment of two words is: AlignmentsAreMinimal says it of the words of the formats.
LEMMA AlignmentOf ==
  ASSUME NEW V, NEW v \in Seq(V), NEW w \in Seq(V)
  PROVE  /\ IndicesOn(Align(v, w), 1) = [i \in DOMAIN v |-> i] /\ IndicesOn(Align(v, w), 2) = [i \in DOMAIN w |-> i]
         /\ Cardinality(Changing(v, w, Align(v, w))) = Levenshtein(v, w)
         /\ v = w => Levenshtein(v, w) = 0
<1>1. Aligns(Align(v, w), v, w, Len(v), Len(w))
  BY AlignIs
<1>2. DOMAIN v = 1 .. Len(v) /\ DOMAIN w = 1 .. Len(w)
  OBVIOUS
<1>3. Distances(v, w)[<<Len(v), Len(w)>>] = Levenshtein(v, w)
  BY DEF Distances, Levenshtein
<1>4. Levenshtein(v, v) = 0
  BY NoDistance
<1>. QED  BY <1>1, <1>2, <1>3, <1>4, Zenon DEF Aligns

=============================================================================
