----------------------------- MODULE Languages -----------------------------
(***************************************************************************)
(* Lemmas about the operators of Grammar: the words of a format, the NFA   *)
(* states that a word leads to, and the ways to split a word into fields.  *)
(* Nothing here is about an execution; ReaderProofs uses it for the        *)
(* construction of the automaton.                                          *)
(*                                                                         *)
(* The model's recursive functions are over intervals of numbers or over   *)
(* the subsets of a finite set. What they compute for every input is       *)
(* proved by induction in the form of a set of numbers closed under        *)
(* successor (Induction, from WFMin), or of a set of subsets closed under  *)
(* adding an element (SubsetInduction). RecursionUnique says when two      *)
(* solutions of a recursion are one, RankedRecursion that there is one     *)
(* over any set with ranks, and SumOver is the sum that           *)
(* MapThenSumSet of the community modules computes.                        *)
(***************************************************************************)
EXTENDS Grammar, WellFoundedInduction, SequenceTheorems, FiniteSetTheorems, TLAPS


-----------------------------------------------------------------------------
(***************************************************************************)
(* Induction and recursion over numbers.                                   *)
(***************************************************************************)
\* A non-empty set of numbers has a least one.
LEMMA LeastOf ==
  ASSUME NEW T \in SUBSET Nat, NEW t \in T
  PROVE  \E n \in T : \A m \in T : n <= m
<1> DEFINE R == OpToRel(<, Nat)
<1>1. IsWellFoundedOn(R, Nat)
  BY NatLessThanWellFounded
<1>2. R = {p \in Nat \X Nat : p[1] < p[2]}
  BY Zenon DEF OpToRel
<1> HIDE DEF R
<1>3. PICK n \in T : \A m \in T : ~(<<m, n>> \in R)
  BY <1>1, WFMin
<1>4. ASSUME NEW m \in T PROVE n <= m
  <2>1. m \in Nat /\ n \in Nat
    OBVIOUS
  <2>2. ~(<<m, n>> \in {p \in Nat \X Nat : p[1] < p[2]})
    BY <1>2, <1>3
  <2>3. ~(m < n)
    BY <2>1, <2>2
  <2> QED BY <2>1, <2>3
<1> QED BY <1>4

\* Induction, as a statement about sets: what holds 0 and the successor of all it holds is Nat.
LEMMA Induction ==
  ASSUME NEW T \in SUBSET Nat, 0 \in T, \A n \in T : n + 1 \in T
  PROVE  T = Nat
<1> SUFFICES ASSUME T # Nat PROVE FALSE
  OBVIOUS
<1>1. PICK n \in Nat \ T : \A m \in Nat \ T : n <= m
  BY LeastOf
<1>2. n # 0 /\ n - 1 \in Nat
  OBVIOUS
<1>3. n - 1 \in T
  BY <1>1, <1>2
<1> QED BY <1>2, <1>3

\* g is the recursive function on 0 .. m that starts with base and goes on as step says.
Recurs(g, m, V, base, step) ==
  /\ g \in [0 .. m -> V] /\ g[0] = base
  /\ \A i \in 1 .. m : g[i] = step[i][g[i - 1]]

\* Every recursion over an interval has a solution: the recursive functions of the model,
\* which stand for loops of the code, are what their equations say.
LEMMA RecursionExists ==
  ASSUME NEW n \in Nat, NEW V, NEW base \in V, NEW step \in [1 .. n -> [V -> V]]
  PROVE  \E g : Recurs(g, n, V, base, step)
<1> USE DEF Recurs
<1> DEFINE Rec(g, m) == Recurs(g, m, V, base, step)
           Has(m) == \E g : Rec(g, m)
           T == {m \in Nat : m <= n => Has(m)}
<1>1. Has(0)
  <2>1. Rec([i \in 0 .. 0 |-> base], 0)
    OBVIOUS
  <2> QED BY <2>1
<1>2. ASSUME NEW m \in Nat, m + 1 <= n, Has(m) PROVE Has(m + 1)
  <2>1. PICK g : Rec(g, m)
    BY <1>2
  <2> DEFINE h == [i \in 0 .. m + 1 |-> IF i = m + 1 THEN step[m + 1][g[m]] ELSE g[i]]
  <2>2. g[m] \in V /\ m + 1 \in 1 .. n
    BY <1>2, <2>1
  <2>3. step[m + 1][g[m]] \in V
    BY <2>2
  <2>4. h \in [0 .. m + 1 -> V]
    BY <2>1, <2>3
  <2>5. h[0] = base
    BY <2>1
  <2>6. ASSUME NEW i \in 1 .. m + 1 PROVE h[i] = step[i][h[i - 1]]
    <3>1. i - 1 \in 0 .. m /\ h[i - 1] = g[i - 1]
      OBVIOUS
    <3>2. CASE i = m + 1
      BY <3>1, <3>2
    <3>3. CASE i # m + 1
      <4>1. i \in 1 .. m /\ h[i] = g[i]
        BY <3>3
      <4> QED BY <3>1, <4>1, <2>1
    <3> QED BY <3>2, <3>3
  <2> HIDE DEF h
  <2>7. Rec(h, m + 1)
    BY <2>4, <2>5, <2>6
  <2> QED BY <2>7
<1> HIDE DEF Has
<1>3. 0 \in T
  BY <1>1
<1>4. ASSUME NEW m \in T PROVE m + 1 \in T
  BY <1>2
<1>5. T = Nat
  <2> HIDE DEF T
  <2>1. T \in SUBSET Nat
    BY DEF T
  <2> QED BY <1>3, <1>4, <2>1, Induction
<1>6. n \in T
  BY <1>5
<1>7. PICK g : Rec(g, n)
  BY <1>6 DEF Has
<1> QED BY <1>7

\* Two functions with the same start and the same steps are equal.
LEMMA RecursionUnique ==
  ASSUME NEW n \in Nat, NEW V, NEW g \in [0 .. n -> V], NEW f,
         f[0] = g[0], \A i \in 1 .. n : f[i - 1] = g[i - 1] => f[i] = g[i]
  PROVE  \A i \in 0 .. n : f[i] = g[i]
<1> DEFINE T == {i \in Nat : i <= n => f[i] = g[i]}
<1>1. 0 \in T
  OBVIOUS
<1>2. ASSUME NEW i \in T PROVE i + 1 \in T
  <2>1. i \in Nat
    OBVIOUS
  <2>2. ASSUME i + 1 <= n PROVE f[i + 1] = g[i + 1]
    <3>1. f[i] = g[i] /\ i + 1 \in 1 .. n /\ (i + 1) - 1 = i
      BY <2>1, <2>2
    <3> QED BY <3>1
  <2> QED BY <2>1, <2>2
<1>3. T = Nat
  <2> HIDE DEF T
  <2>1. T \in SUBSET Nat
    BY DEF T
  <2> QED BY <1>1, <1>2, <2>1, Induction
<1> QED BY <1>3

\* A recursion over any set, in which a value depends on those of a lower rank.
Grounded(D, V, N, rank, base, step) ==
  /\ N \in Nat /\ rank \in [D -> 0 .. N] /\ base \in V /\ step \in [[D -> V] -> [D -> V]]
  /\ \A g, h \in [D -> V] : \A x \in D :
       (\A y \in D : rank[y] < rank[x] => g[y] = h[y]) => step[g][x] = step[h][x]

\* It has a solution.
LEMMA RankedRecursion ==
  ASSUME NEW D, NEW V, NEW N, NEW rank, NEW base, NEW step, Grounded(D, V, N, rank, base, step)
  PROVE  \E g : g \in [D -> V] /\ g = step[g]
<1>. DEFINE Known ==
       /\ N \in Nat /\ rank \in [D -> 0 .. N] /\ base \in V /\ step \in [[D -> V] -> [D -> V]]
       /\ \A g, h \in [D -> V] : \A x \in D :
            (\A y \in D : rank[y] < rank[x] => g[y] = h[y]) => step[g][x] = step[h][x]
<1>0. Known
  BY Zenon DEF Grounded
<1>. USE <1>0
<1>. DEFINE F == [D -> V]
            start == [x \in D |-> base]
            turns == [i \in 1 .. N + 1 |-> step]
<1>1. start \in F /\ turns \in [1 .. N + 1 -> [F -> F]] /\ N + 1 \in Nat
  OBVIOUS
<1>2. \A i \in 1 .. N + 1 : turns[i] = step
  OBVIOUS
<1>3. \A g \in F : step[g] \in F
  OBVIOUS
<1>4. \A x \in D : rank[x] \in 0 .. N
  OBVIOUS
<1>. HIDE DEF F, start, turns
<1>5. PICK it : it \in [0 .. N + 1 -> F] /\ it[0] = start /\ \A i \in 1 .. N + 1 : it[i] = turns[i][it[i - 1]]
  <2>1. \E g : Recurs(g, N + 1, F, start, turns)
    BY <1>1, RecursionExists
  <2>. QED  BY <2>1 DEF Recurs
<1>6. \A i \in 0 .. N + 1 : it[i] \in F
  BY <1>5
<1>. DEFINE P(i) == \A x \in D : rank[x] < i => step[it[i]][x] = it[i][x]
            T == {i \in Nat : i <= N + 1 => P(i)}
<1>7. 0 \in T
  BY <1>4
<1>8. ASSUME NEW i \in T PROVE i + 1 \in T
  <2>1. SUFFICES ASSUME i + 1 <= N + 1, NEW x \in D, rank[x] < i + 1
                 PROVE  step[it[i + 1]][x] = it[i + 1][x]
    OBVIOUS
  <2>2. i \in Nat /\ P(i) /\ i \in 0 .. N + 1 /\ i + 1 \in 0 .. N + 1 /\ i + 1 \in 1 .. N + 1 /\ (i + 1) - 1 = i
    BY <2>1
  <2>3. it[i + 1] = step[it[i]]
    BY <1>2, <1>5, <2>2
  <2>4. it[i] \in F /\ it[i + 1] \in F
    BY <1>6, <2>2
  <2>5. \A y \in D : rank[y] < rank[x] => it[i + 1][y] = it[i][y]
    <3>. TAKE y \in D
    <3>1. rank[y] \in 0 .. N /\ rank[x] \in 0 .. N
      BY <1>4
    <3>2. rank[y] < rank[x] => rank[y] < i
      BY <2>1, <2>2, <3>1
    <3>. QED  BY <2>2, <2>3, <3>2
  <2>6. step[it[i + 1]][x] = step[it[i]][x]
    BY <2>4, <2>5 DEF F
  <2>. QED  BY <2>3, <2>6
<1>9. T \in SUBSET Nat
  OBVIOUS
<1>10. T = Nat
  <2>. HIDE DEF T
  <2>. QED  BY <1>7, <1>8, <1>9, Induction
<1>11. P(N + 1) /\ N + 1 \in 0 .. N + 1
  BY <1>10
<1>. DEFINE g == it[N + 1]
<1>12. g \in F /\ step[g] \in F
  BY <1>3, <1>6, <1>11
<1>13. \A x \in D : step[g][x] = g[x]
  <2>1. \A x \in D : rank[x] < N + 1
    BY <1>4
  <2>. QED  BY <1>11, <2>1
<1>. HIDE DEF g
<1>14. g = step[g]
  BY <1>12, <1>13 DEF F
<1>. QED  BY <1>12, <1>14 DEF F

\* Induction over the subsets of a finite set.
LEMMA SubsetInduction ==
  ASSUME NEW U, IsFiniteSet(U), NEW T \in SUBSET SUBSET U, {} \in T,
         \A S \in T : \A x \in U \ S : S \cup {x} \in T
  PROVE  T = SUBSET U
<1>. DEFINE N == {n \in Nat : \A S \in SUBSET U : Cardinality(S) = n => S \in T}
<1>1. \A S \in SUBSET U : IsFiniteSet(S) /\ Cardinality(S) \in Nat
  BY FS_Subset, FS_CardinalityType
<1>2. 0 \in N
  BY <1>1, FS_EmptySet
<1>3. ASSUME NEW n \in N PROVE n + 1 \in N
  <2>1. n \in Nat /\ \A S \in SUBSET U : Cardinality(S) = n => S \in T
    OBVIOUS
  <2>2. SUFFICES ASSUME NEW S \in SUBSET U, Cardinality(S) = n + 1 PROVE S \in T
    BY <2>1
  <2>3. PICK x \in S : TRUE
    BY <1>1, <2>1, <2>2, FS_EmptySet
  <2>4. Cardinality(S \ {x}) = n
    BY <1>1, <2>1, <2>2, <2>3, FS_RemoveElement
  <2>5. S \ {x} \in T
    BY <2>1, <2>4
  <2>6. (S \ {x}) \cup {x} = S /\ x \in U \ (S \ {x})
    BY <2>3
  <2>. QED  BY <2>5, <2>6
<1>4. N = Nat
  <2>. HIDE DEF N
  <2>1. N \in SUBSET Nat
    BY DEF N
  <2>. QED  BY <1>2, <1>3, <2>1, Induction
<1>5. ASSUME NEW S \in SUBSET U PROVE S \in T
  <2>1. Cardinality(S) \in N
    BY <1>1, <1>4
  <2>. QED  BY <2>1
<1>. QED  BY <1>5

-----------------------------------------------------------------------------
(***************************************************************************)
(* Sums over a finite set.                                                 *)
(***************************************************************************)
\* h sums f over the subsets of S, an element at a time.
SumsUp(h, f, S) ==
  h = [s \in SUBSET S |-> IF s = {} THEN 0 ELSE LET x == CHOOSE x \in s : TRUE IN f[x] + h[s \ {x}]]

\* The sum of a function over a set.
SumOver(f, S) == LET h == CHOOSE h : SumsUp(h, f, S) IN h[S]

\* Such a summation exists.
LEMMA SumsUpSolved ==
  ASSUME NEW S, IsFiniteSet(S), NEW f, \A x \in S : f[x] \in Nat
  PROVE  \E h : SumsUp(h, f, S)
<1>. DEFINE n == Cardinality(S)
            one(s) == CHOOSE x \in s : TRUE
            on(g) == [s \in SUBSET S |-> IF s = {} THEN 0 ELSE f[one(s)] + g[s \ {one(s)}]]
            V == [SUBSET S -> Nat]
            step == [i \in 1 .. n |-> [g \in V |-> on(g)]]
            base == [s \in SUBSET S |-> 0]
<1>1. \A s \in SUBSET S : s # {} => one(s) \in s /\ f[one(s)] \in Nat /\ s \ {one(s)} \in SUBSET S
  OBVIOUS
<1>2. \A s \in SUBSET S : IsFiniteSet(s) /\ Cardinality(s) \in Nat /\ Cardinality(s) <= n
  BY FS_Subset, FS_CardinalityType
<1>3. n \in Nat
  BY FS_CardinalityType
<1>4. ASSUME NEW s \in SUBSET S, s # {} PROVE Cardinality(s \ {one(s)}) = Cardinality(s) - 1
  BY <1>1, <1>2, <1>4, FS_RemoveElement
<1>. HIDE DEF one
<1>5. \A g \in V : on(g) \in V
  <2>1. ASSUME NEW g \in V, NEW s \in SUBSET S
        PROVE  (IF s = {} THEN 0 ELSE f[one(s)] + g[s \ {one(s)}]) \in Nat
    <3>1. CASE s = {}
      BY <3>1
    <3>2. CASE s # {}
      <4>1. f[one(s)] \in Nat /\ g[s \ {one(s)}] \in Nat
        BY <1>1, <3>2
      <4>. QED  BY <3>2, <4>1
    <3>. QED  BY <3>1, <3>2
  <2>. QED  BY <2>1
<1>6. base \in V
  OBVIOUS
<1>7. \A g \in V : \A s \in SUBSET S : on(g)[s] = IF s = {} THEN 0 ELSE f[one(s)] + g[s \ {one(s)}]
  OBVIOUS
<1>. HIDE DEF on, n
<1>8. PICK g : g \in [0 .. n -> V] /\ g[0] = base /\ \A i \in 1 .. n : g[i] = step[i][g[i - 1]]
  <2>1. step \in [1 .. n -> [V -> V]]
    BY <1>5
  <2>. HIDE DEF step, V, base
  <2>2. \E g : Recurs(g, n, V, base, step)
    BY <1>3, <1>6, <2>1, RecursionExists
  <2>. QED  BY <2>2 DEF Recurs
<1>9. \A i \in 1 .. n : g[i] = on(g[i - 1]) /\ g[i - 1] \in V /\ g[i] \in V
  <2>. TAKE i \in 1 .. n
  <2>1. i \in 0 .. n /\ i - 1 \in 0 .. n
    BY <1>3
  <2>. HIDE DEF V
  <2>. QED  BY <1>8, <2>1
<1>. DEFINE P(i) == \A s \in SUBSET S : Cardinality(s) <= i => on(g[i])[s] = g[i][s]
            T == {i \in Nat : i <= n => P(i)}
<1>. HIDE DEF V
<1>10. 0 \in T
  <2>1. ASSUME NEW s \in SUBSET S, Cardinality(s) <= 0 PROVE on(g[0])[s] = g[0][s]
    <3>1. s = {}
      BY <1>2, <2>1, FS_EmptySet
    <3>. QED  BY <1>6, <1>7, <1>8, <3>1
  <2>. QED  BY <2>1
<1>11. ASSUME NEW i \in T PROVE i + 1 \in T
  <2>1. SUFFICES ASSUME i + 1 <= n PROVE P(i + 1)
    OBVIOUS
  <2>2. i \in Nat /\ P(i) /\ i + 1 \in 1 .. n /\ (i + 1) - 1 = i
    BY <1>3, <2>1
  <2>3. g[i + 1] = on(g[i]) /\ g[i] \in V /\ g[i + 1] \in V
    BY <1>9, <2>2
  <2>4. ASSUME NEW s \in SUBSET S, Cardinality(s) <= i + 1 PROVE on(g[i + 1])[s] = g[i + 1][s]
    <3>1. CASE s = {}
      BY <1>7, <2>3, <3>1
    <3>2. CASE s # {}
      <4>. DEFINE r == s \ {one(s)}
      <4>1. r \in SUBSET S /\ Cardinality(r) <= i
        BY <1>1, <1>2, <1>4, <2>2, <2>4, <3>2
      <4>2. g[i + 1][r] = g[i][r]
        <5>. HIDE DEF r
        <5>. QED  BY <2>2, <2>3, <4>1
      <4>3. on(g[i + 1])[s] = f[one(s)] + g[i + 1][r] /\ on(g[i])[s] = f[one(s)] + g[i][r]
        BY <1>7, <2>3, <3>2
      <4>. QED  BY <2>3, <4>2, <4>3
    <3>. QED  BY <3>1, <3>2
  <2>. QED  BY <2>4
<1>12. T = Nat
  <2>. HIDE DEF T
  <2>1. T \in SUBSET Nat
    BY DEF T
  <2>. QED  BY <1>10, <1>11, <2>1, Induction
<1>13. P(n)
  BY <1>3, <1>12
<1>. DEFINE h == g[n]
<1>14. h \in V
  BY <1>3, <1>8
<1>15. \A s \in SUBSET S : h[s] = IF s = {} THEN 0 ELSE f[one(s)] + h[s \ {one(s)}]
  <2>. TAKE s \in SUBSET S
  <2>1. on(h)[s] = h[s]
    BY <1>2, <1>13
  <2>. HIDE DEF h
  <2>. QED  BY <1>7, <1>14, <2>1
<1>. HIDE DEF h
<1>16. h = [s \in SUBSET S |-> h[s]]
  BY <1>14 DEF V
<1>17. h = [s \in SUBSET S |-> IF s = {} THEN 0 ELSE f[one(s)] + h[s \ {one(s)}]]
  BY <1>15, <1>16
<1>18. SumsUp(h, f, S)
  BY <1>17 DEF SumsUp, one
<1>. QED  BY <1>18

\* Whichever element is taken away first.
AnyFirst(h, f, S) ==
  /\ h[{}] = 0
  /\ \A s \in SUBSET S : h[s] \in Nat /\ \A y \in s : h[s] = f[y] + h[s \ {y}]

\* It does not matter which is.
LEMMA SumsUpAny ==
  ASSUME NEW S, IsFiniteSet(S), NEW f, \A x \in S : f[x] \in Nat, NEW h, SumsUp(h, f, S)
  PROVE  AnyFirst(h, f, S)
<1>. DEFINE one(s) == CHOOSE x \in s : TRUE
            Q(s) == h[s] \in Nat /\ \A y \in s : h[s] = f[y] + h[s \ {y}]
            N == {n \in Nat : \A s \in SUBSET S : Cardinality(s) <= n => Q(s)}
<1>1. h[{}] = 0
  BY DEF SumsUp
<1>2. \A s \in SUBSET S : s # {} => one(s) \in s /\ h[s] = f[one(s)] + h[s \ {one(s)}]
  BY DEF SumsUp
<1>3. \A s \in SUBSET S : IsFiniteSet(s) /\ Cardinality(s) \in Nat
  BY FS_Subset, FS_CardinalityType
<1>4. \A s \in SUBSET S : \A y \in s : Cardinality(s \ {y}) = Cardinality(s) - 1 /\ s \ {y} \in SUBSET S /\ f[y] \in Nat
  BY <1>3, FS_RemoveElement
<1>. HIDE DEF one
<1>5. 0 \in N
  <2>1. ASSUME NEW s \in SUBSET S, Cardinality(s) <= 0 PROVE Q(s)
    <3>1. s = {}
      BY <1>3, <2>1, FS_EmptySet
    <3>. QED  BY <1>1, <3>1
  <2>. QED  BY <2>1
<1>6. ASSUME NEW n \in N PROVE n + 1 \in N
  <2>1. n \in Nat /\ \A s \in SUBSET S : Cardinality(s) <= n => Q(s)
    OBVIOUS
  <2>2. SUFFICES ASSUME NEW s \in SUBSET S, Cardinality(s) <= n + 1 PROVE Q(s)
    BY <2>1
  <2>3. CASE s = {}
    BY <1>1, <2>3
  <2>4. CASE s # {}
    <3>. DEFINE x == one(s)
    <3>1. x \in s /\ h[s] = f[x] + h[s \ {x}]
      BY <1>2, <2>4
    <3>. HIDE DEF x
    <3>2. \A y \in s : Q(s \ {y}) /\ f[y] \in Nat
      BY <1>3, <1>4, <2>1, <2>2
    <3>3. h[s] \in Nat
      BY <3>1, <3>2
    <3>4. ASSUME NEW y \in s, y # x PROVE h[s] = f[y] + h[s \ {y}]
      <4>1. y \in s \ {x} /\ x \in s \ {y} /\ (s \ {x}) \ {y} = (s \ {y}) \ {x}
        BY <3>1, <3>4
      <4>. DEFINE r == (s \ {x}) \ {y}
      <4>2. h[s \ {x}] = f[y] + h[r] /\ h[s \ {x}] \in Nat
        BY <3>1, <3>2, <4>1
      <4>3. h[s \ {y}] = f[x] + h[r] /\ h[s \ {y}] \in Nat
        BY <3>2, <4>1
      <4>4. h[r] \in Nat
        <5>1. r \in SUBSET S /\ Cardinality(r) <= n
          <6>1. s \ {x} \in SUBSET S /\ Cardinality(s \ {x}) = Cardinality(s) - 1 /\ Cardinality(s) \in Nat
            BY <1>3, <1>4, <3>1
          <6>2. r \in SUBSET S /\ Cardinality(r) = Cardinality(s \ {x}) - 1
            BY <1>4, <4>1, <6>1
          <6>. QED  BY <2>1, <2>2, <6>1, <6>2
        <5>. QED  BY <2>1, <5>1
      <4>. HIDE DEF r
      <4>5. f[x] \in Nat /\ f[y] \in Nat
        BY <3>1, <3>2
      <4>. QED  BY <3>1, <4>2, <4>3, <4>4, <4>5
    <3>. QED  BY <3>1, <3>3, <3>4
  <2>. QED  BY <2>3, <2>4
<1>7. N = Nat
  <2>. HIDE DEF N
  <2>1. N \in SUBSET Nat
    BY DEF N
  <2>. QED  BY <1>5, <1>6, <2>1, Induction
<1>8. \A s \in SUBSET S : Q(s)
  BY <1>3, <1>7
<1>. QED  BY <1>1, <1>8 DEF AnyFirst

\* Two functions that add up the same values over the subsets of a finite set are the same.
LEMMA SumsUpOnce ==
  ASSUME NEW S, IsFiniteSet(S), NEW f, \A x \in S : f[x] \in Nat
  PROVE  \A a, b : SumsUp(a, f, S) /\ SumsUp(b, f, S) => a[S] = b[S]
<1>0. ASSUME NEW a, SumsUp(a, f, S)
      PROVE  a[{}] = 0 /\ \A s \in SUBSET S : a[s] \in Nat /\ \A z \in s : a[s] = f[z] + a[s \ {z}]
  <2>1. AnyFirst(a, f, S)
    BY <1>0, SumsUpAny
  <2>. QED  BY <2>1 DEF AnyFirst
<1>. SUFFICES ASSUME NEW a, NEW b, SumsUp(a, f, S) /\ SumsUp(b, f, S) PROVE a[S] = b[S]
  OBVIOUS
<1>1. b[{}] = 0 /\ \A s \in SUBSET S : b[s] \in Nat /\ \A z \in s : b[s] = f[z] + b[s \ {z}]
  BY <1>0, Zenon
<1>2. a[{}] = 0 /\ \A s \in SUBSET S : a[s] \in Nat /\ \A z \in s : a[s] = f[z] + a[s \ {z}]
  BY <1>0, Zenon
<1>. DEFINE T == {r \in SUBSET S : b[r] = a[r]}
<1>3. {} \in T
  BY <1>1, <1>2
<1>4. ASSUME NEW r \in T, NEW y \in S \ r PROVE r \cup {y} \in T
  <2>1. (r \cup {y}) \ {y} = r /\ r \cup {y} \in SUBSET S /\ y \in r \cup {y}
    OBVIOUS
  <2>2. b[r \cup {y}] = f[y] + b[(r \cup {y}) \ {y}] /\ a[r \cup {y}] = f[y] + a[(r \cup {y}) \ {y}]
    BY <1>1, <1>2, <2>1
  <2>3. b[r \cup {y}] = f[y] + b[r] /\ a[r \cup {y}] = f[y] + a[r]
    BY <2>1, <2>2, Zenon
  <2>. QED  BY <2>1, <2>3, Zenon
<1>5. T = SUBSET S
  <2>1. T \in SUBSET SUBSET S
    OBVIOUS
  <2>. HIDE DEF T
  <2>. QED  BY <1>3, <1>4, <2>1, SubsetInduction
<1>. QED  BY <1>5

\* Nothing, and one element more.
LEMMA SumOverNothing ==
  ASSUME NEW f
  PROVE  SumOver(f, {}) = 0
<1>1. \E h : SumsUp(h, f, {})
  BY SumsUpSolved, FS_EmptySet
<1>. DEFINE h == CHOOSE h : SumsUp(h, f, {})
<1>2. SumsUp(h, f, {})
  BY <1>1
<1>. HIDE DEF h
<1>3. h[{}] = 0
  <2>1. AnyFirst(h, f, {})
    BY <1>2, FS_EmptySet, SumsUpAny
  <2>. QED  BY <2>1 DEF AnyFirst
<1>. QED  BY <1>3 DEF SumOver, h

\* One more element.
LEMMA SumOverOneMore ==
  ASSUME NEW S, IsFiniteSet(S), NEW y, y \notin S, NEW f, \A x \in S \cup {y} : f[x] \in Nat
  PROVE  SumOver(f, S) \in Nat /\ SumOver(f, S \cup {y}) = f[y] + SumOver(f, S)
<1>. DEFINE U == S \cup {y}
            g == CHOOSE h : SumsUp(h, f, S)
            h == CHOOSE h : SumsUp(h, f, U)
<1>1. IsFiniteSet(U)
  BY FS_AddElement
<1>2. SumsUp(g, f, S)
  BY SumsUpSolved
<1>3. SumsUp(h, f, U)
  BY <1>1, SumsUpSolved
<1>. HIDE DEF g, h
<1>4. h[{}] = 0 /\ \A s \in SUBSET U : h[s] \in Nat /\ \A z \in s : h[s] = f[z] + h[s \ {z}]
  <2>1. \A x \in U : f[x] \in Nat
    OBVIOUS
  <2>. HIDE DEF U
  <2>2. AnyFirst(h, f, U)
    BY <1>1, <1>3, <2>1, SumsUpAny
  <2>. QED  BY <2>2 DEF AnyFirst
<1>5. g[{}] = 0 /\ \A s \in SUBSET S : g[s] \in Nat /\ \A z \in s : g[s] = f[z] + g[s \ {z}]
  <2>1. \A x \in S : f[x] \in Nat
    OBVIOUS
  <2>2. AnyFirst(g, f, S)
    BY <1>2, <2>1, SumsUpAny
  <2>. QED  BY <2>2 DEF AnyFirst
<1>. DEFINE T == {s \in SUBSET S : g[s] = h[s]}
<1>6. T = SUBSET S
  <2>1. {} \in T
    BY <1>4, <1>5
  <2>2. ASSUME NEW s \in T, NEW z \in S \ s PROVE s \cup {z} \in T
    <3>1. s \cup {z} \in SUBSET S /\ s \cup {z} \in SUBSET U /\ (s \cup {z}) \ {z} = s /\ g[s] = h[s]
      OBVIOUS
    <3>2. g[s \cup {z}] = f[z] + g[s] /\ h[s \cup {z}] = f[z] + h[s]
      BY <1>4, <1>5, <3>1
    <3>. QED  BY <3>1, <3>2
  <2>. HIDE DEF T
  <2>3. T \in SUBSET SUBSET S
    BY DEF T
  <2>. QED  BY <2>1, <2>2, <2>3, SubsetInduction
<1>7. g[S] = h[S]
  BY <1>6
<1>8. U \ {y} = S /\ y \in U
  OBVIOUS
<1>9. h[U] = f[y] + h[S] /\ h[S] \in Nat
  BY <1>4, <1>8
<1>10. SumOver(f, S) = g[S] /\ SumOver(f, U) = h[U]
  BY DEF SumOver, g, h
<1>. HIDE DEF U
<1>. QED  BY <1>7, <1>9, <1>10 DEF U

\* A sum of numbers is a number.
LEMMA SumOverIsNat ==
  ASSUME NEW S, IsFiniteSet(S), NEW f, \A x \in S : f[x] \in Nat
  PROVE  SumOver(f, S) \in Nat
<1>1. CASE S = {}
  BY <1>1, SumOverNothing
<1>2. CASE S # {}
  <2>1. PICK y \in S : TRUE
    BY <1>2
  <2>. DEFINE R == S \ {y}
  <2>2. IsFiniteSet(R) /\ y \notin R /\ R \cup {y} = S /\ f[y] \in Nat /\ \A x \in R \cup {y} : f[x] \in Nat
    BY <2>1, FS_RemoveElement
  <2>. HIDE DEF R
  <2>3. SumOver(f, R) \in Nat /\ SumOver(f, R \cup {y}) = f[y] + SumOver(f, R)
    BY <2>2, SumOverOneMore
  <2>4. SumOver(f, R \cup {y}) \in Nat
    BY <2>2, <2>3
  <2>. QED  BY <2>2, <2>4, Zenon
<1>. QED  BY <1>1, <1>2

\* Functions that agree on a set have the same sum, and factors come before it; the set may be
\* renamed by an injection.
LEMMA SumOverMapped ==
  ASSUME NEW S, IsFiniteSet(S), NEW f, \A x \in S : f[x] \in Nat,
         NEW m, \A x, y \in S : m[x] = m[y] => x = y,
         NEW k \in Nat, NEW g, \A x \in S : g[m[x]] = k * f[x]
  PROVE  IsFiniteSet({m[x] : x \in S}) /\ SumOver(g, {m[x] : x \in S}) = k * SumOver(f, S)
<1>. DEFINE img(s) == {m[x] : x \in s}
            P(s) == IsFiniteSet(img(s)) /\ SumOver(g, img(s)) = k * SumOver(f, s)
            T == {s \in SUBSET S : P(s)}
<1>0. \A s \in SUBSET S : IsFiniteSet(s) /\ SumOver(f, s) \in Nat
  <2>. TAKE s \in SUBSET S
  <2>1. IsFiniteSet(s) /\ \A x \in s : f[x] \in Nat
    BY FS_Subset
  <2>. QED  BY <2>1, SumOverIsNat
<1>1. {} \in T
  <2>1. img({}) = {} /\ IsFiniteSet({})
    BY FS_EmptySet
  <2>2. SumOver(g, {}) = 0 /\ SumOver(f, {}) = 0 /\ 0 = k * 0
    BY SumOverNothing
  <2>3. P({})
    BY <2>1, <2>2
  <2>. QED  BY <2>3
<1>2. ASSUME NEW s \in T, NEW y \in S \ s PROVE s \cup {y} \in T
  <2>0. s \in SUBSET S /\ IsFiniteSet(img(s)) /\ SumOver(g, img(s)) = k * SumOver(f, s)
    OBVIOUS
  <2>1. SumOver(f, s \cup {y}) = f[y] + SumOver(f, s)
    <3>1. IsFiniteSet(s) /\ y \notin s /\ \A x \in s \cup {y} : f[x] \in Nat
      BY <1>0, <2>0
    <3>. QED  BY <3>1, SumOverOneMore
  <2>2. SumOver(g, img(s) \cup {m[y]}) = g[m[y]] + SumOver(g, img(s)) /\ IsFiniteSet(img(s) \cup {m[y]})
    <3>1. m[y] \notin img(s)
      BY <2>0
    <3>2. \A z \in img(s) \cup {m[y]} : g[z] \in Nat
      <4>1. \A x \in s \cup {y} : k * f[x] \in Nat /\ g[m[x]] = k * f[x]
        BY <2>0
      <4>. QED  BY <4>1
    <3>. HIDE DEF img
    <3>. QED  BY <2>0, <3>1, <3>2, SumOverOneMore, FS_AddElement
  <2>3. img(s \cup {y}) = img(s) \cup {m[y]}
    OBVIOUS
  <2>4. g[m[y]] = k * f[y] /\ f[y] \in Nat /\ SumOver(f, s) \in Nat
    BY <1>0, <2>0
  <2>5. k * (f[y] + SumOver(f, s)) = k * f[y] + k * SumOver(f, s)
    <3>1. \A a, b \in Nat : k * (a + b) = k * a + k * b
      OBVIOUS
    <3>. QED  BY <2>4, <3>1
  <2>. HIDE DEF img
  <2>6. P(s \cup {y})
    BY <2>0, <2>1, <2>2, <2>3, <2>4, <2>5
  <2>. QED  BY <2>0, <2>6
<1>3. T = SUBSET S
  <2>. HIDE DEF T
  <2>1. T \in SUBSET SUBSET S
    BY DEF T
  <2>. QED  BY <1>1, <1>2, <2>1, SubsetInduction
<1>4. S \in T
  BY <1>3
<1>. QED  BY <1>4

\* The sum over a union of two parts.
LEMMA SumOverUnion ==
  ASSUME NEW S, IsFiniteSet(S), NEW R, IsFiniteSet(R), S \cap R = {}, NEW f, \A x \in S \cup R : f[x] \in Nat
  PROVE  IsFiniteSet(S \cup R) /\ SumOver(f, S \cup R) = SumOver(f, S) + SumOver(f, R)
<1>. DEFINE P(s) == SumOver(f, S \cup s) = SumOver(f, S) + SumOver(f, s)
            T == {s \in SUBSET R : P(s)}
<1>0. IsFiniteSet(S \cup R) /\ SumOver(f, S) \in Nat
  BY FS_Union, SumOverIsNat
<1>1. {} \in T
  <2>1. S \cup {} = S
    OBVIOUS
  <2>2. P({})
    BY <1>0, <2>1, SumOverNothing
  <2>. QED  BY <2>2
<1>2. ASSUME NEW s \in T, NEW y \in R \ s PROVE s \cup {y} \in T
  <2>1. s \in SUBSET R /\ P(s)
    OBVIOUS
  <2>2. IsFiniteSet(s) /\ IsFiniteSet(S \cup s)
    BY <1>0, <2>1, FS_Subset
  <2>3. SumOver(f, s) \in Nat /\ SumOver(f, s \cup {y}) = f[y] + SumOver(f, s)
    <3>1. y \notin s /\ \A x \in s \cup {y} : f[x] \in Nat
      BY <2>1
    <3>. QED  BY <2>2, <3>1, SumOverOneMore
  <2>4. SumOver(f, S \cup s) \in Nat /\ SumOver(f, (S \cup s) \cup {y}) = f[y] + SumOver(f, S \cup s)
    <3>1. y \notin S \cup s /\ \A x \in (S \cup s) \cup {y} : f[x] \in Nat
      BY <2>1
    <3>. QED  BY <2>2, <3>1, SumOverOneMore
  <2>5. S \cup (s \cup {y}) = (S \cup s) \cup {y} /\ f[y] \in Nat
    OBVIOUS
  <2>6. SumOver(f, S \cup s) = SumOver(f, S) + SumOver(f, s)
    BY <2>1
  <2>7. SumOver(f, (S \cup s) \cup {y}) = SumOver(f, S) + SumOver(f, s \cup {y})
    BY <1>0, <2>3, <2>4, <2>5, <2>6
  <2>8. P(s \cup {y})
    BY <2>5, <2>7, Zenon
  <2>. QED  BY <2>1, <2>8
<1>3. T = SUBSET R
  <2>. HIDE DEF T
  <2>1. T \in SUBSET SUBSET R
    BY DEF T
  <2>. QED  BY <1>1, <1>2, <2>1, SubsetInduction
<1>4. R \in T
  BY <1>3
<1>. QED  BY <1>0, <1>4

-----------------------------------------------------------------------------
(***************************************************************************)
(* The words of a format, field by field.                                  *)
(***************************************************************************)
\* The function inside Grammar!FormatWords, of any tuple of formats: the words of the first i fields.
WordsTo(F, f) ==
  CHOOSE upTo : upTo = [i \in 0 .. Len(F[f].fields) |->
    IF i = 0 THEN {<<>>}
    ELSE {w[1] \o w[2] : w \in upTo[i - 1] \X FieldWords(F[f].fields[i])}]

\* The symbols of a field.
Letters(F, f, i) == Members[F[f].fields[i].class]

\* A field of a declared format has bounds in order and at least one symbol.
LEMMA LettersAreSymbols ==
  ASSUME NEW F \in Seq(PlateFormat), NEW f \in DOMAIN F, NEW i \in 1 .. Len(F[f].fields)
  PROVE  /\ F[f].fields \in Seq(Field)
         /\ F[f].fields[i] \in Field
         /\ F[f].fields[i].min \in Nat /\ F[f].fields[i].max \in Nat \ {0}
         /\ F[f].fields[i].min <= F[f].fields[i].max
         /\ Letters(F, f, i) \subseteq Symbols /\ Letters(F, f, i) # {}
<1>1. F[f] \in PlateFormat
  OBVIOUS
<1>2. F[f].fields \in Seq(Field)
  BY <1>1 DEF PlateFormat
<1>3. F[f].fields[i] \in Field
  BY <1>2
<1> QED BY <1>2, <1>3, SymbolsAssumption DEF Field, Letters

\* A function on 1 .. n is a sequence of length n ...
LEMMA WordIsSeq ==
  ASSUME NEW S, NEW n \in Nat, NEW v \in [1 .. n -> S]
  PROVE  v \in Seq(S) /\ Len(v) = n
BY IsASeq

\* ... and a sequence is such a function.
LEMMA SeqIsWord ==
  ASSUME NEW S, NEW v \in Seq(S)
  PROVE  v \in [1 .. Len(v) -> S] /\ Len(v) \in Nat
BY LenProperties

\* A word of a field has an allowed number of the field's symbols.
LEMMA FieldWordsAre ==
  ASSUME NEW F \in Seq(PlateFormat), NEW f \in DOMAIN F, NEW i \in 1 .. Len(F[f].fields)
  PROVE  /\ FieldWords(F[f].fields[i]) \subseteq Seq(Symbols)
         /\ \A v : v \in FieldWords(F[f].fields[i]) <=>
              \E n \in F[f].fields[i].min .. F[f].fields[i].max : v \in [1 .. n -> Letters(F, f, i)]
<1>1. \A v : v \in FieldWords(F[f].fields[i]) <=>
              \E n \in F[f].fields[i].min .. F[f].fields[i].max : v \in [1 .. n -> Letters(F, f, i)]
  BY Zenon DEF FieldWords, Letters
<1>2. ASSUME NEW v \in FieldWords(F[f].fields[i]) PROVE v \in Seq(Symbols)
  <2>1. PICK n \in F[f].fields[i].min .. F[f].fields[i].max : v \in [1 .. n -> Letters(F, f, i)]
    BY <1>1
  <2>2. n \in Nat /\ Letters(F, f, i) \subseteq Symbols
    BY <2>1, LettersAreSymbols
  <2>3. v \in [1 .. n -> Symbols]
    BY <2>1, <2>2
  <2> QED BY <2>2, <2>3, WordIsSeq
<1> QED BY <1>1, <1>2

\* WordsTo satisfies the equations it is defined by.
LEMMA WordsToSteps ==
  ASSUME NEW F \in Seq(PlateFormat), NEW f \in DOMAIN F
  PROVE  /\ Len(F[f].fields) \in Nat
         /\ WordsTo(F, f) \in [0 .. Len(F[f].fields) -> SUBSET Seq(Symbols)]
         /\ WordsTo(F, f)[0] = {<<>>}
         /\ \A i \in 1 .. Len(F[f].fields) :
              WordsTo(F, f)[i] = {w[1] \o w[2] : w \in WordsTo(F, f)[i - 1] \X FieldWords(F[f].fields[i])}
<1> DEFINE n == Len(F[f].fields)
           V == SUBSET Seq(Symbols)
           More(i, S) == {w[1] \o w[2] : w \in S \X FieldWords(F[f].fields[i])}
           step == [i \in 1 .. n |-> [S \in V |-> More(i, S)]]
<1>1. n \in Nat
  <2>1. F[f].fields \in Seq(Field)
    <3>1. F[f] \in PlateFormat
      OBVIOUS
    <3> QED BY <3>1 DEF PlateFormat
  <2> QED BY <2>1
<1>2. ASSUME NEW i \in 1 .. n, NEW S \in V PROVE More(i, S) \in V
  <2>1. ASSUME NEW w \in S \X FieldWords(F[f].fields[i]) PROVE w[1] \o w[2] \in Seq(Symbols)
    <3>1. w[1] \in Seq(Symbols) /\ w[2] \in Seq(Symbols)
      BY FieldWordsAre
    <3> QED BY <3>1
  <2> QED BY <2>1
<1> HIDE DEF n, More
<1>3. step \in [1 .. n -> [V -> V]]
  BY <1>2
<1>4. {<<>>} \in V
  OBVIOUS
<1> HIDE DEF V
<1>5. PICK g \in [0 .. n -> V] : g[0] = {<<>>} /\ \A i \in 1 .. n : g[i] = step[i][g[i - 1]]
  <2> HIDE DEF step
  <2>1. \E g : Recurs(g, n, V, {<<>>}, step)
    BY <1>1, <1>3, <1>4, RecursionExists
  <2> QED BY <2>1 DEF Recurs
<1>6. ASSUME NEW i \in 1 .. n PROVE g[i] = More(i, g[i - 1])
  <2>1. g[i - 1] \in V
    BY <1>1
  <2> QED BY <2>1, <1>5
<1>7. g = [i \in 0 .. n |-> IF i = 0 THEN {<<>>} ELSE More(i, g[i - 1])]
  BY <1>1, <1>5, <1>6
<1> DEFINE w0 == CHOOSE upTo : upTo = [i \in 0 .. n |-> IF i = 0 THEN {<<>>} ELSE More(i, upTo[i - 1])]
<1>8. w0 = [i \in 0 .. n |-> IF i = 0 THEN {<<>>} ELSE More(i, w0[i - 1])]
  <2> DEFINE Is(h) == h = [i \in 0 .. n |-> IF i = 0 THEN {<<>>} ELSE More(i, h[i - 1])]
  <2>1. Is(g)
    BY <1>7
  <2> HIDE DEF Is
  <2>2. Is(CHOOSE h : Is(h))
    BY <2>1, Zenon
  <2> QED BY <2>2 DEF Is
<1>9. WordsTo(F, f) = w0
  BY Zenon DEF WordsTo, n, More
<1>10. \A i \in 0 .. n : w0[i] = g[i]
  <2> HIDE DEF w0
  <2>1. w0[0] = g[0]
    BY <1>1, <1>5, <1>8
  <2>2. ASSUME NEW i \in 1 .. n, w0[i - 1] = g[i - 1] PROVE w0[i] = g[i]
    <3>1. w0[i] = More(i, w0[i - 1])
      BY <1>1, <1>8
    <3> QED BY <3>1, <2>2, <1>6, Zenon
  <2> QED BY <1>1, <2>1, <2>2, RecursionUnique
<1>11. w0 \in [0 .. n -> V]
  <2> HIDE DEF w0
  <2> QED BY <1>8, <1>10
<1>12. w0[0] = {<<>>} /\ \A i \in 1 .. n : w0[i] = More(i, w0[i - 1])
  <2> HIDE DEF w0
  <2>1. \A i \in 0 .. n : w0[i] = IF i = 0 THEN {<<>>} ELSE More(i, w0[i - 1])
    BY <1>8
  <2> QED BY <1>1, <2>1
<1> HIDE DEF w0
<1>13. w0 \in [0 .. Len(F[f].fields) -> SUBSET Seq(Symbols)] /\ Len(F[f].fields) \in Nat
  BY <1>1, <1>11 DEF V, n
<1>14. \A i \in 1 .. Len(F[f].fields) :
         w0[i] = {w[1] \o w[2] : w \in w0[i - 1] \X FieldWords(F[f].fields[i])}
  BY <1>12, Zenon DEF n, More
<1> QED BY <1>9, <1>12, <1>13, <1>14, Zenon

\* A word of i fields is a word of the fields before and a word of field i.
LEMMA WordsToAre ==
  ASSUME NEW F \in Seq(PlateFormat), NEW f \in DOMAIN F, NEW i \in 1 .. Len(F[f].fields)
  PROVE  /\ i - 1 \in 0 .. Len(F[f].fields) /\ i \in 0 .. Len(F[f].fields)
         /\ WordsTo(F, f)[i] \subseteq Seq(Symbols) /\ WordsTo(F, f)[i - 1] \subseteq Seq(Symbols)
         /\ \A w : w \in WordsTo(F, f)[i] <=>
              \E u \in WordsTo(F, f)[i - 1], v \in FieldWords(F[f].fields[i]) : w = u \o v
<1>1. i - 1 \in 0 .. Len(F[f].fields) /\ i \in 0 .. Len(F[f].fields)
  BY WordsToSteps
<1>2. WordsTo(F, f)[i] \subseteq Seq(Symbols) /\ WordsTo(F, f)[i - 1] \subseteq Seq(Symbols)
  BY <1>1, WordsToSteps
<1>3. WordsTo(F, f)[i] = {w[1] \o w[2] : w \in WordsTo(F, f)[i - 1] \X FieldWords(F[f].fields[i])}
  BY WordsToSteps
<1> HIDE DEF WordsTo
<1>4. \A w : w \in WordsTo(F, f)[i] <=>
        \E u \in WordsTo(F, f)[i - 1], v \in FieldWords(F[f].fields[i]) : w = u \o v
  <2>1. ASSUME NEW w \in WordsTo(F, f)[i]
        PROVE  \E u \in WordsTo(F, f)[i - 1], v \in FieldWords(F[f].fields[i]) : w = u \o v
    <3>1. PICK p \in WordsTo(F, f)[i - 1] \X FieldWords(F[f].fields[i]) : w = p[1] \o p[2]
      BY <1>3
    <3> QED BY <3>1
  <2>2. ASSUME NEW u \in WordsTo(F, f)[i - 1], NEW v \in FieldWords(F[f].fields[i])
        PROVE  u \o v \in WordsTo(F, f)[i]
    <3>1. <<u, v>> \in WordsTo(F, f)[i - 1] \X FieldWords(F[f].fields[i])
      OBVIOUS
    <3>2. <<u, v>>[1] \o <<u, v>>[2] \in WordsTo(F, f)[i]
      BY <1>3, <3>1
    <3> QED BY <3>2
  <2> QED BY <2>1, <2>2
<1> QED BY <1>1, <1>2, <1>4

-----------------------------------------------------------------------------
(***************************************************************************)
(* What a word denotes: the NFA states it leads to.                        *)
(***************************************************************************)
\* The number of fields of a format.
FieldCount(F, f) == Len(F[f].fields)

\* w is a word of the fields before i, followed by c symbols of field i.
Through(F, f, i, c, w) ==
  \E u \in WordsTo(F, f)[i - 1] : \E v \in [1 .. c -> Letters(F, f, i)] : w = u \o v

\* w leads to the NFA state <<f, i, c>>; with c = 0 it is a word of the fields before i.
On(F, f, i, c, w) ==
  /\ i \in 1 .. FieldCount(F, f) + 1
  /\ c = 0 => w \in WordsTo(F, f)[i - 1]
  /\ c # 0 => /\ i <= FieldCount(F, f) /\ c \in 1 .. F[f].fields[i].max
              /\ Through(F, f, i, c, w)

\* The NFA states that w leads to, said without the NFA: what the subset construction must find.
Denote(F, w) == {q \in (DOMAIN F) \X Nat \X Nat : On(F, q[1], q[2], q[3], w)}

\* The fields after j up to k may be empty.
Skips(F, f, j, k) == \A i \in j + 1 .. k : F[f].fields[i].min = 0

\* The empty word is one of a field that may be empty.
LEMMA EmptyField ==
  ASSUME NEW F \in Seq(PlateFormat), NEW f \in DOMAIN F, NEW i \in 1 .. FieldCount(F, f),
         F[f].fields[i].min = 0
  PROVE  <<>> \in FieldWords(F[f].fields[i])
<1>1. <<>> \in [1 .. 0 -> Letters(F, f, i)]
  OBVIOUS
<1>2. 0 \in F[f].fields[i].min .. F[f].fields[i].max
  BY LettersAreSymbols DEF FieldCount
<1> QED BY <1>1, <1>2, FieldWordsAre DEF FieldCount

\* A field that may be empty takes no word away from the fields before it ...
LEMMA SkipOne ==
  ASSUME NEW F \in Seq(PlateFormat), NEW f \in DOMAIN F, NEW i \in 1 .. FieldCount(F, f),
         F[f].fields[i].min = 0, NEW w \in WordsTo(F, f)[i - 1]
  PROVE  w \in WordsTo(F, f)[i]
<1>1. <<>> \in FieldWords(F[f].fields[i])
  BY EmptyField
<1>2. w \in Seq(Symbols)
  BY WordsToAre DEF FieldCount
<1>3. w = w \o <<>>
  BY <1>2
<1> QED BY <1>1, <1>3, WordsToAre DEF FieldCount

\* ... nor do several.
LEMMA SkipFields ==
  ASSUME NEW F \in Seq(PlateFormat), NEW f \in DOMAIN F, NEW j \in Nat, NEW k \in Nat,
         j <= k, k <= FieldCount(F, f), NEW w \in WordsTo(F, f)[j], Skips(F, f, j, k)
  PROVE  w \in WordsTo(F, f)[k]
<1> DEFINE P(n) == (j <= n /\ n <= k) => w \in WordsTo(F, f)[n]
           T == {n \in Nat : P(n)}
<1>0. FieldCount(F, f) \in Nat
  BY WordsToSteps DEF FieldCount
<1>1. P(0)
  OBVIOUS
<1>2. ASSUME NEW n \in Nat, P(n) PROVE P(n + 1)
  <2> SUFFICES ASSUME j <= n + 1, n + 1 <= k PROVE w \in WordsTo(F, f)[n + 1]
    OBVIOUS
  <2>1. CASE j = n + 1
    BY <2>1
  <2>2. CASE j <= n
    <3>1. w \in WordsTo(F, f)[(n + 1) - 1]
      BY <1>2, <2>2
    <3>2. n + 1 \in 1 .. FieldCount(F, f) /\ F[f].fields[n + 1].min = 0
      BY <1>0, <2>2 DEF Skips
    <3> QED BY <3>1, <3>2, SkipOne
  <2> QED BY <2>1, <2>2
<1> HIDE DEF P
<1>3. T = Nat
  <2>1. T \in SUBSET Nat /\ 0 \in T /\ \A n \in T : n + 1 \in T
    BY <1>1, <1>2
  <2> QED BY <2>1, Induction
<1>4. P(k)
  BY <1>3
<1> QED BY <1>4 DEF P

\* One more symbol of field i is one more symbol of the word.
LEMMA ThroughAppend ==
  ASSUME NEW F \in Seq(PlateFormat), NEW f \in DOMAIN F, NEW i \in 1 .. FieldCount(F, f),
         NEW c \in Nat, NEW w \in Seq(Symbols), NEW a \in Symbols
  PROVE  Through(F, f, i, c + 1, Append(w, a)) <=> a \in Letters(F, f, i) /\ Through(F, f, i, c, w)
<1>1. WordsTo(F, f)[i - 1] \subseteq Seq(Symbols)
  BY WordsToAre DEF FieldCount
<1>2. Letters(F, f, i) \subseteq Symbols
  BY LettersAreSymbols DEF FieldCount
<1> HIDE DEF Letters, WordsTo
<1>3. ASSUME Through(F, f, i, c + 1, Append(w, a))
      PROVE  a \in Letters(F, f, i) /\ Through(F, f, i, c, w)
  <2>1. PICK u \in WordsTo(F, f)[i - 1] : \E v \in [1 .. c + 1 -> Letters(F, f, i)] : Append(w, a) = u \o v
    BY <1>3 DEF Through
  <2>2. PICK v \in [1 .. c + 1 -> Letters(F, f, i)] : Append(w, a) = u \o v
    BY <2>1
  <2>3. u \in Seq(Symbols) /\ v \in Seq(Symbols) /\ Len(v) = c + 1
    <3>1. v \in [1 .. c + 1 -> Symbols] /\ c + 1 \in Nat
      BY <1>2
    <3> QED BY <1>1, <3>1, WordIsSeq
  <2> DEFINE x == [k \in 1 .. c |-> v[k]]
  <2>4. x \in [1 .. c -> Letters(F, f, i)]
    OBVIOUS
  <2>5. x \in Seq(Symbols) /\ Len(x) = c
    <3>1. x \in [1 .. c -> Symbols]
      BY <2>4, <1>2
    <3> QED BY <3>1, WordIsSeq
  <2>10. \A k \in 1 .. c : x[k] = v[k]
    OBVIOUS
  <2> HIDE DEF x
  <2>6. Len(w) + 1 = Len(u) + c + 1
    BY <2>2, <2>3
  <2>7. a = v[c + 1]
    <3>1. Append(w, a)[Len(w) + 1] = a
      OBVIOUS
    <3>2. (u \o v)[Len(u) + (c + 1)] = v[c + 1]
      BY <2>3
    <3> QED BY <2>2, <2>3, <2>6, <3>1, <3>2
  <2>8. w = u \o x
    <3>1. u \o x \in Seq(Symbols) /\ Len(u \o x) = Len(u) + c
      BY <2>3, <2>5, ConcatProperties
    <3>2. Len(w) = Len(u \o x)
      BY <2>3, <2>6, <3>1
    <3>3. ASSUME NEW k \in 1 .. Len(w) PROVE w[k] = (u \o x)[k]
      <4>1. w[k] = (u \o v)[k]
        <5>1. w[k] = Append(w, a)[k]
          OBVIOUS
        <5> QED BY <5>1, <2>2
      <4>2. CASE k <= Len(u)
        <5>1. (u \o v)[k] = u[k] /\ (u \o x)[k] = u[k]
          BY <4>2, <2>3, <2>5
        <5> QED BY <4>1, <5>1
      <4>3. CASE k > Len(u)
        <5>1. k - Len(u) \in 1 .. c
          BY <4>3, <2>3, <2>6
        <5>2. (u \o v)[k] = v[k - Len(u)]
          BY <5>1, <4>3, <2>3, <2>6
        <5>3. (u \o x)[k] = x[k - Len(u)]
          BY <5>1, <4>3, <2>3, <2>5, <2>6
        <5> QED BY <4>1, <5>1, <5>2, <5>3, <2>10
      <4>4. k <= Len(u) \/ k > Len(u)
        BY <2>3
      <4> QED BY <4>2, <4>3, <4>4, Zenon
    <3> QED BY <3>1, <3>2, <3>3, SeqEqual
  <2>9. a \in Letters(F, f, i)
    BY <2>7
  <2> QED BY <2>4, <2>8, <2>9 DEF Through
<1>4. ASSUME a \in Letters(F, f, i), Through(F, f, i, c, w)
      PROVE  Through(F, f, i, c + 1, Append(w, a))
  <2>1. PICK u \in WordsTo(F, f)[i - 1] : \E v \in [1 .. c -> Letters(F, f, i)] : w = u \o v
    BY <1>4 DEF Through
  <2>2. PICK v \in [1 .. c -> Letters(F, f, i)] : w = u \o v
    BY <2>1
  <2>3. v \in Seq(Letters(F, f, i)) /\ Len(v) = c /\ u \in Seq(Symbols)
    BY <1>1, WordIsSeq
  <2>4. Append(v, a) \in Seq(Letters(F, f, i)) /\ Len(Append(v, a)) = c + 1
    BY <1>4, <2>3
  <2>5. Append(v, a) \in [1 .. c + 1 -> Letters(F, f, i)]
    BY <2>4, SeqIsWord
  <2>6. Append(w, a) = u \o Append(v, a)
    <3>1. v \in Seq(Symbols)
      BY <1>2, <2>3, SeqMonotonic
    <3>2. Append(u \o v, a) = u \o Append(v, a)
      <4>1. u \o v \in Seq(Symbols) /\ <<a>> \in Seq(Symbols)
        BY <2>3, <3>1
      <4>2. Append(u \o v, a) = (u \o v) \o <<a>> /\ Append(v, a) = v \o <<a>>
        BY <4>1, <3>1, AppendIsConcat
      <4>3. (u \o v) \o <<a>> = u \o (v \o <<a>>)
        BY <2>3, <3>1, <4>1, ConcatAssociative
      <4> QED BY <4>2, <4>3
    <3> QED BY <2>2, <3>2
  <2> QED BY <2>5, <2>6 DEF Through
<1> QED BY <1>3, <1>4

\* Words are sequences of symbols.
LEMMA WordsToAll ==
  ASSUME NEW F \in Seq(PlateFormat), NEW f \in DOMAIN F, NEW k \in 0 .. FieldCount(F, f)
  PROVE  FieldCount(F, f) \in Nat /\ WordsTo(F, f)[k] \subseteq Seq(Symbols)
<1>1. /\ Len(F[f].fields) \in Nat
      /\ WordsTo(F, f) \in [0 .. Len(F[f].fields) -> SUBSET Seq(Symbols)]
  BY WordsToSteps
<1>2. k \in 0 .. Len(F[f].fields)
  BY DEF FieldCount
<1>3. WordsTo(F, f)[k] \in SUBSET Seq(Symbols)
  BY <1>1, <1>2
<1> QED BY <1>1, <1>3 DEF FieldCount

\* WordsToAre, counted from 0, as inductions need it.
LEMMA WordsToNext ==
  ASSUME NEW F \in Seq(PlateFormat), NEW f \in DOMAIN F, NEW n \in Nat, n + 1 <= FieldCount(F, f)
  PROVE  /\ n + 1 \in 1 .. Len(F[f].fields) /\ n \in 0 .. Len(F[f].fields)
         /\ WordsTo(F, f)[n + 1] \subseteq Seq(Symbols) /\ WordsTo(F, f)[n] \subseteq Seq(Symbols)
         /\ \A w : w \in WordsTo(F, f)[n + 1] <=>
              \E u \in WordsTo(F, f)[n], v \in FieldWords(F[f].fields[n + 1]) : w = u \o v
<1>1. Len(F[f].fields) \in Nat
  BY WordsToSteps
<1>2. n + 1 \in 1 .. Len(F[f].fields) /\ (n + 1) - 1 = n /\ n \in 0 .. Len(F[f].fields)
  BY <1>1 DEF FieldCount
<1> DEFINE i == n + 1
<1>3. i \in 1 .. Len(F[f].fields) /\ i - 1 = n
  BY <1>2
<1> HIDE DEF i
<1>4. /\ WordsTo(F, f)[i] \subseteq Seq(Symbols) /\ WordsTo(F, f)[i - 1] \subseteq Seq(Symbols)
      /\ \A w : w \in WordsTo(F, f)[i] <=>
           \E u \in WordsTo(F, f)[i - 1], v \in FieldWords(F[f].fields[i]) : w = u \o v
  BY <1>3, WordsToAre, Zenon
<1> QED BY <1>2, <1>3, <1>4, Zenon DEF i

\* A format has a number of fields.
LEMMA SizeIsNat ==
  ASSUME NEW F \in Seq(PlateFormat), NEW f \in DOMAIN F
  PROVE  FieldCount(F, f) \in Nat
BY WordsToSteps DEF FieldCount

\* The last symbol of w, a word of k fields, is one of field i.
EndsIn(F, f, k, i, w) ==
  /\ Skips(F, f, i, k)
  /\ \E c \in F[f].fields[i].min .. F[f].fields[i].max : c > 0 /\ Through(F, f, i, c, w)

\* A word that is not empty has a last symbol, and the fields behind that symbol's may be empty.
LEMMA LastField ==
  ASSUME NEW F \in Seq(PlateFormat), NEW f \in DOMAIN F, NEW k \in 0 .. FieldCount(F, f),
         NEW w \in WordsTo(F, f)[k], w # <<>>
  PROVE  \E i \in 1 .. k : EndsIn(F, f, k, i, w)
<1> DEFINE P(n) == n <= FieldCount(F, f) /\ w \in WordsTo(F, f)[n] => \E i \in 1 .. n : EndsIn(F, f, n, i, w)
           T == {n \in Nat : P(n)}
<1>0. FieldCount(F, f) \in Nat
  BY WordsToAll
<1>1. P(0)
  <2>1. WordsTo(F, f)[0] = {<<>>}
    BY WordsToSteps
  <2> QED BY <2>1
<1>2. ASSUME NEW n \in Nat, P(n) PROVE P(n + 1)
  <2> SUFFICES ASSUME n + 1 <= FieldCount(F, f), w \in WordsTo(F, f)[n + 1]
               PROVE  \E i \in 1 .. n + 1 : EndsIn(F, f, n + 1, i, w)
    OBVIOUS
  <2>1. n + 1 \in 1 .. FieldCount(F, f) /\ (n + 1) - 1 = n
    BY <1>0
  <2>2. PICK u \in WordsTo(F, f)[n] : \E v \in FieldWords(F[f].fields[n + 1]) : w = u \o v
    <3>1. \A x : x \in WordsTo(F, f)[n + 1] <=>
            \E u \in WordsTo(F, f)[n], v \in FieldWords(F[f].fields[n + 1]) : x = u \o v
      BY WordsToNext
    <3> QED BY <3>1, Zenon
  <2>3. PICK v \in FieldWords(F[f].fields[n + 1]) : w = u \o v
    BY <2>2
  <2>4. PICK c \in F[f].fields[n + 1].min .. F[f].fields[n + 1].max :
              v \in [1 .. c -> Letters(F, f, n + 1)]
    BY <2>1, FieldWordsAre DEF FieldCount
  <2>5. F[f].fields[n + 1].min \in Nat /\ F[f].fields[n + 1].max \in Nat /\ c \in Nat
    BY <2>1, LettersAreSymbols DEF FieldCount
  <2>6. CASE c > 0
    <3>1. Through(F, f, n + 1, c, w)
      BY <2>1, <2>3, <2>4 DEF Through
    <3>2. Skips(F, f, n + 1, n + 1)
      BY DEF Skips
    <3> QED BY <2>1, <2>6, <3>1, <3>2 DEF EndsIn
  <2>7. CASE c = 0
    <3>1. v = <<>>
      BY <2>4, <2>7
    <3>2. u \in Seq(Symbols)
      BY <2>1, WordsToAre DEF FieldCount
    <3>3. w = u
      BY <2>3, <3>1, <3>2
    <3>4. PICK i \in 1 .. n : EndsIn(F, f, n, i, w)
      <4>1. n <= FieldCount(F, f)
        BY <1>0
      <4>2. w \in WordsTo(F, f)[n]
        BY <3>3
      <4>3. \E i \in 1 .. n : EndsIn(F, f, n, i, w)
        BY <1>2, <4>1, <4>2, Zenon
      <4> QED BY <4>3
    <3>5. F[f].fields[n + 1].min = 0
      BY <2>5, <2>7
    <3>6. EndsIn(F, f, n + 1, i, w)
      BY <3>4, <3>5 DEF EndsIn, Skips
    <3> QED BY <3>6
  <2> QED BY <2>5, <2>6, <2>7
<1> HIDE DEF P
<1>3. T = Nat
  <2>1. T \in SUBSET Nat /\ 0 \in T /\ \A n \in T : n + 1 \in T
    BY <1>1, <1>2
  <2> QED BY <2>1, Induction
<1>4. P(k)
  BY <1>0, <1>3
<1> QED BY <1>0, <1>4 DEF P

\* The empty word is a word of k fields only if all of them may be empty ...
LEMMA EmptySkips ==
  ASSUME NEW F \in Seq(PlateFormat), NEW f \in DOMAIN F, NEW k \in 0 .. FieldCount(F, f),
         <<>> \in WordsTo(F, f)[k]
  PROVE  Skips(F, f, 0, k)
<1> DEFINE P(n) == n <= FieldCount(F, f) /\ <<>> \in WordsTo(F, f)[n] => Skips(F, f, 0, n)
           T == {n \in Nat : P(n)}
<1>0. FieldCount(F, f) \in Nat
  BY WordsToAll
<1>1. P(0)
  BY DEF Skips
<1>2. ASSUME NEW n \in Nat, P(n) PROVE P(n + 1)
  <2> SUFFICES ASSUME n + 1 <= FieldCount(F, f), <<>> \in WordsTo(F, f)[n + 1]
               PROVE  Skips(F, f, 0, n + 1)
    OBVIOUS
  <2>1. n + 1 \in 1 .. FieldCount(F, f) /\ (n + 1) - 1 = n
    BY <1>0
  <2>2. PICK u \in WordsTo(F, f)[n] : \E v \in FieldWords(F[f].fields[n + 1]) : <<>> = u \o v
    <3>1. \A x : x \in WordsTo(F, f)[n + 1] <=>
            \E u \in WordsTo(F, f)[n], v \in FieldWords(F[f].fields[n + 1]) : x = u \o v
      BY WordsToNext
    <3> QED BY <3>1, Zenon
  <2>3. PICK v \in FieldWords(F[f].fields[n + 1]) : <<>> = u \o v
    BY <2>2
  <2>4. u \in Seq(Symbols) /\ v \in Seq(Symbols)
    BY <2>1, WordsToAre, FieldWordsAre DEF FieldCount
  <2>5. Len(u) = 0 /\ Len(v) = 0
    <3>1. Len(u \o v) = Len(u) + Len(v) /\ Len(u) \in Nat /\ Len(v) \in Nat
      BY <2>4, ConcatProperties, LenProperties
    <3>2. Len(u \o v) = 0
      BY <2>3
    <3> QED BY <3>1, <3>2
  <2>6. u = <<>> /\ v = <<>>
    BY <2>4, <2>5, EmptySeq
  <2>7. PICK c \in F[f].fields[n + 1].min .. F[f].fields[n + 1].max :
              v \in [1 .. c -> Letters(F, f, n + 1)]
    BY <2>1, FieldWordsAre DEF FieldCount
  <2>8. F[f].fields[n + 1].min \in Nat /\ F[f].fields[n + 1].max \in Nat /\ c \in Nat
    BY <2>1, LettersAreSymbols DEF FieldCount
  <2>9. c = 0
    BY <2>5, <2>7, <2>8, WordIsSeq
  <2>10. Skips(F, f, 0, n)
    <3>1. n <= FieldCount(F, f)
      BY <1>0
    <3>2. <<>> \in WordsTo(F, f)[n]
      BY <2>6
    <3> QED BY <1>2, <3>1, <3>2, Zenon
  <2>11. F[f].fields[n + 1].min = 0
    BY <2>8, <2>9
  <2> QED BY <2>10, <2>11 DEF Skips
<1> HIDE DEF P
<1>3. T = Nat
  <2>1. T \in SUBSET Nat /\ 0 \in T /\ \A n \in T : n + 1 \in T
    BY <1>1, <1>2
  <2> QED BY <2>1, Induction
<1>4. P(k)
  BY <1>0, <1>3
<1> QED BY <1>0, <1>4 DEF P

\* ... and then it is one.
LEMMA SkipsFromStart ==
  ASSUME NEW F \in Seq(PlateFormat), NEW f \in DOMAIN F, NEW k \in 0 .. FieldCount(F, f),
         Skips(F, f, 0, k)
  PROVE  <<>> \in WordsTo(F, f)[k]
<1>1. <<>> \in WordsTo(F, f)[0] /\ FieldCount(F, f) \in Nat
  BY WordsToSteps DEF FieldCount
<1>2. 0 <= k /\ k <= FieldCount(F, f) /\ k \in Nat
  BY <1>1
<1> QED BY <1>1, <1>2, SkipFields

-----------------------------------------------------------------------------
(***************************************************************************)
(* The moves of the NFA.                                                   *)
(***************************************************************************)
\* Inside a field, leading to a state and going through the field is the same.
LEMMA ThroughOn ==
  ASSUME NEW F \in Seq(PlateFormat), NEW f \in DOMAIN F, NEW i \in 1 .. FieldCount(F, f),
         NEW c \in 0 .. F[f].fields[i].max, NEW w \in Seq(Symbols)
  PROVE  On(F, f, i, c, w) <=> Through(F, f, i, c, w)
<1>1. FieldCount(F, f) \in Nat /\ i \in 1 .. FieldCount(F, f) + 1 /\ i <= FieldCount(F, f)
  BY SizeIsNat
<1>2. F[f].fields[i].max \in Nat
  BY LettersAreSymbols DEF FieldCount
<1>3. CASE c # 0
  BY <1>1, <1>2, <1>3 DEF On
<1>4. CASE c = 0
  <2>1. On(F, f, i, c, w) <=> w \in WordsTo(F, f)[i - 1]
    BY <1>1, <1>4 DEF On
  <2>2. WordsTo(F, f)[i - 1] \subseteq Seq(Symbols)
    BY WordsToAre DEF FieldCount
  <2>3. \A v : v \in [1 .. 0 -> Letters(F, f, i)] <=> v = <<>>
    <3>1. <<>> \in [1 .. 0 -> Letters(F, f, i)]
      OBVIOUS
    <3>2. ASSUME NEW v \in [1 .. 0 -> Letters(F, f, i)] PROVE v = <<>>
      BY WordIsSeq, EmptySeq
    <3> QED BY <3>1, <3>2
  <2>4. \A u \in Seq(Symbols) : u \o <<>> = u
    OBVIOUS
  <2>5. Through(F, f, i, 0, w) <=> w \in WordsTo(F, f)[i - 1]
    <3> HIDE DEF Letters
    <3>1. Through(F, f, i, 0, w) <=> \E u \in WordsTo(F, f)[i - 1] : w = u \o <<>>
      BY <2>3, Zenon DEF Through
    <3> QED BY <3>1, <2>2, <2>4
  <2> QED BY <1>4, <2>1, <2>5
<1> QED BY <1>3, <1>4

\* Enough symbols of a field complete it.
LEMMA ThroughWords ==
  ASSUME NEW F \in Seq(PlateFormat), NEW f \in DOMAIN F, NEW i \in 1 .. FieldCount(F, f),
         NEW c \in F[f].fields[i].min .. F[f].fields[i].max, NEW w, Through(F, f, i, c, w)
  PROVE  w \in WordsTo(F, f)[i]
<1>1. PICK u \in WordsTo(F, f)[i - 1] : \E v \in [1 .. c -> Letters(F, f, i)] : w = u \o v
  BY DEF Through
<1>2. PICK v \in [1 .. c -> Letters(F, f, i)] : w = u \o v
  BY <1>1
<1>3. v \in FieldWords(F[f].fields[i])
  BY FieldWordsAre DEF FieldCount
<1> QED BY <1>2, <1>3, WordsToAre DEF FieldCount

\* What Exits returns, state by state.
LEMMA ExitsAre ==
  ASSUME formats \in Seq(PlateFormat), NEW f \in DOMAIN formats,
         NEW i \in 1 .. FieldCount(formats, f) + 1, NEW c \in Nat, NEW q
  PROVE  q \in Exits(<<f, i, c>>) <=>
           \E k \in i + 1 .. FieldCount(formats, f) + 1 :
             /\ q = <<f, k, 0>> /\ c >= formats[f].fields[i].min
             /\ Skips(formats, f, i, k - 1)
BY DEF Exits, Fields, FieldCount, Skips

\* Epsilon moves do not leave what a word denotes.
LEMMA ExitsDenoted ==
  ASSUME formats \in Seq(PlateFormat), NEW f \in DOMAIN formats,
         NEW i \in 1 .. FieldCount(formats, f), NEW c \in 0 .. formats[f].fields[i].max,
         NEW w \in Seq(Symbols), On(formats, f, i, c, w), NEW q \in Exits(<<f, i, c>>)
  PROVE  q \in Denote(formats, w)
<1>0. FieldCount(formats, f) \in Nat
  BY SizeIsNat
<1>1. formats[f].fields[i].min \in Nat /\ formats[f].fields[i].max \in Nat /\ c \in Nat
  BY LettersAreSymbols DEF FieldCount
<1>2. PICK k \in i + 1 .. FieldCount(formats, f) + 1 :
             /\ q = <<f, k, 0>> /\ c >= formats[f].fields[i].min
             /\ Skips(formats, f, i, k - 1)
  BY <1>0, <1>1, ExitsAre
<1>3. w \in WordsTo(formats, f)[i]
  BY <1>1, <1>2, ThroughOn, ThroughWords
<1>4. w \in WordsTo(formats, f)[k - 1]
  BY <1>0, <1>2, <1>3, SkipFields
<1>5. On(formats, f, k, 0, w)
  BY <1>0, <1>4 DEF On
<1> QED BY <1>0, <1>2, <1>5 DEF Denote

\* The closure of the initial states is what the empty word denotes.
LEMMA StartDenote ==
  ASSUME formats \in Seq(PlateFormat)
  PROVE  Closure({<<f, 1, 0>> : f \in DOMAIN formats}) = Denote(formats, <<>>)
<1> DEFINE S == {<<f, 1, 0>> : f \in DOMAIN formats}
<1>1. ASSUME NEW f \in DOMAIN formats PROVE On(formats, f, 1, 0, <<>>)
  <2>1. FieldCount(formats, f) \in Nat /\ <<>> \in WordsTo(formats, f)[0]
    BY WordsToSteps DEF FieldCount
  <2> QED BY <2>1 DEF On
<1>2. ASSUME NEW q \in Closure(S) PROVE q \in Denote(formats, <<>>)
  <2>1. CASE q \in S
    BY <2>1, <1>1 DEF Denote
  <2>2. CASE q \notin S
    <3>1. PICK f \in DOMAIN formats : q \in Exits(<<f, 1, 0>>)
      BY <1>2, <2>2 DEF Closure
    <3>2. FieldCount(formats, f) \in Nat
      BY SizeIsNat
    <3>3. PICK k \in 2 .. FieldCount(formats, f) + 1 : q = <<f, k, 0>>
      BY <3>1, <3>2, ExitsAre
    <3>4. formats[f].fields[1].max \in Nat
      BY <3>2, <3>3, LettersAreSymbols DEF FieldCount
    <3>5. 1 \in 1 .. FieldCount(formats, f) /\ 0 \in 0 .. formats[f].fields[1].max
          /\ <<>> \in Seq(Symbols)
      BY <3>2, <3>3, <3>4
    <3> QED BY <3>1, <3>5, <1>1, ExitsDenoted
  <2> QED BY <2>1, <2>2
<1>3. ASSUME NEW q \in Denote(formats, <<>>) PROVE q \in Closure(S)
  <2>1. PICK f \in DOMAIN formats, k \in Nat, c \in Nat :
               q = <<f, k, c>> /\ On(formats, f, k, c, <<>>)
    BY <1>3 DEF Denote
  <2>2. FieldCount(formats, f) \in Nat /\ k \in 1 .. FieldCount(formats, f) + 1
    BY <2>1, SizeIsNat DEF On
  <2>3. c = 0
    <3> SUFFICES ASSUME c # 0 PROVE FALSE
      OBVIOUS
    <3>1. k \in 1 .. FieldCount(formats, f) /\ Through(formats, f, k, c, <<>>)
      BY <2>1, <2>2 DEF On
    <3>2. PICK u \in WordsTo(formats, f)[k - 1] :
                 \E v \in [1 .. c -> Letters(formats, f, k)] : <<>> = u \o v
      BY <3>1 DEF Through
    <3>3. PICK v \in [1 .. c -> Letters(formats, f, k)] : <<>> = u \o v
      BY <3>2
    <3>4. v \in [1 .. c -> Symbols] /\ u \in Seq(Symbols)
      BY <3>1, LettersAreSymbols, WordsToAre DEF FieldCount
    <3>5. v \in Seq(Symbols) /\ Len(v) = c
      BY <3>4, WordIsSeq
    <3>6. Len(u \o v) = Len(u) + c /\ Len(u) \in Nat
      BY <3>4, <3>5, ConcatProperties, LenProperties
    <3> QED BY <3>3, <3>6
  <2>4. Skips(formats, f, 0, k - 1)
    <3>1. k - 1 \in 0 .. FieldCount(formats, f) /\ <<>> \in WordsTo(formats, f)[k - 1]
      BY <2>1, <2>2, <2>3 DEF On
    <3> QED BY <3>1, EmptySkips
  <2>5. CASE k = 1
    BY <2>1, <2>3, <2>5 DEF Closure
  <2>6. CASE k # 1
    <3>1. k \in 1 + 1 .. FieldCount(formats, f) + 1 /\ 1 \in 1 .. FieldCount(formats, f) + 1 /\ 1 \in 0 + 1 .. k - 1
      BY <2>2, <2>6
    <3>2. formats[f].fields[1].min = 0
      BY <2>4, <3>1 DEF Skips
    <3>3. Skips(formats, f, 1, k - 1)
      BY <2>2, <2>4 DEF Skips
    <3>4. q \in Exits(<<f, 1, 0>>)
      BY <2>1, <2>3, <3>1, <3>2, <3>3, ExitsAre
    <3> QED BY <3>4 DEF Closure
  <2> QED BY <2>5, <2>6
<1> QED BY <1>2, <1>3

\* The state q is denoted by w and has a move with symbol a.
MovesOn(w, a, q) ==
  \E f \in DOMAIN formats : \E i \in 1 .. FieldCount(formats, f) : \E c \in Nat :
    /\ q = <<f, i, c>> /\ On(formats, f, i, c, w)
    /\ c < formats[f].fields[i].max /\ a \in Letters(formats, f, i)

\* The states that Move advances are those that move on.
LEMMA MoveAre ==
  ASSUME formats \in Seq(PlateFormat), NEW w \in Seq(Symbols), NEW a \in Symbols
  PROVE  Move(Denote(formats, w), a) =
           Closure({<<s[1], s[2], s[3] + 1>> : s \in {s \in Denote(formats, w) : MovesOn(w, a, s)}})
<1> DEFINE M == {s \in Denote(formats, w) : s[2] <= Len(Fields(s[1]))
                                /\ s[3] < Fields(s[1])[s[2]].max
                                /\ a \in Members[Fields(s[1])[s[2]].class]}
<1>1. ASSUME NEW s \in Denote(formats, w)
      PROVE  s \in M <=> MovesOn(w, a, s)
  <2>1. PICK f \in DOMAIN formats, k \in Nat, c \in Nat :
               s = <<f, k, c>> /\ On(formats, f, k, c, w)
    BY DEF Denote
  <2>2. FieldCount(formats, f) \in Nat /\ k \in 1 .. FieldCount(formats, f) + 1
    BY <2>1, SizeIsNat DEF On
  <2>3. s \in M <=> k <= FieldCount(formats, f) /\ c < formats[f].fields[k].max /\ a \in Letters(formats, f, k)
    BY <2>1 DEF Fields, Letters, FieldCount
  <2> HIDE DEF M
  <2>4. s \in M => MovesOn(w, a, s)
    <3> SUFFICES ASSUME s \in M PROVE MovesOn(w, a, s)
      OBVIOUS
    <3>1. k \in 1 .. FieldCount(formats, f)
      BY <2>2, <2>3
    <3> QED BY <2>1, <2>3, <3>1, Zenon DEF MovesOn
  <2>5. MovesOn(w, a, s) => s \in M
    BY <2>1, <2>2, <2>3 DEF MovesOn
  <2> QED BY <2>4, <2>5
<1>2. M = {s \in Denote(formats, w) : MovesOn(w, a, s)}
  <2> DEFINE G == {s \in Denote(formats, w) : MovesOn(w, a, s)}
  <2>1. \A s : s \in M => s \in Denote(formats, w)
    BY Zenon
  <2>2. \A s : s \in G <=> s \in Denote(formats, w) /\ MovesOn(w, a, s)
    BY Zenon
  <2> HIDE DEF M, G
  <2>3. M = G
    BY <1>1, <2>1, <2>2
  <2> QED BY <2>3 DEF G
<1> QED BY <1>2, Zenon DEF Move

\* A symbol of the field leads one position on.
LEMMA MovedDenoted ==
  ASSUME formats \in Seq(PlateFormat), NEW w \in Seq(Symbols), NEW a \in Symbols,
         NEW f \in DOMAIN formats, NEW i \in 1 .. FieldCount(formats, f), NEW c \in Nat,
         On(formats, f, i, c, w), c < formats[f].fields[i].max, a \in Letters(formats, f, i)
  PROVE  /\ On(formats, f, i, c + 1, Append(w, a)) /\ c + 1 \in 0 .. formats[f].fields[i].max
         /\ <<f, i, c + 1>> \in Denote(formats, Append(w, a))
<1>1. formats[f].fields[i].max \in Nat /\ Append(w, a) \in Seq(Symbols)
  BY LettersAreSymbols DEF FieldCount
<1>2. c \in 0 .. formats[f].fields[i].max /\ c + 1 \in 0 .. formats[f].fields[i].max
  BY <1>1
<1>3. Through(formats, f, i, c, w)
  BY <1>2, ThroughOn
<1>4. Through(formats, f, i, c + 1, Append(w, a))
  BY <1>3, ThroughAppend
<1>5. On(formats, f, i, c + 1, Append(w, a))
  BY <1>1, <1>2, <1>4, ThroughOn
<1>6. i \in Nat /\ c + 1 \in Nat
  OBVIOUS
<1> QED BY <1>2, <1>5, <1>6 DEF Denote

\* A state inside a field was reached from the one before it.
LEMMA BackOne ==
  ASSUME formats \in Seq(PlateFormat), NEW w \in Seq(Symbols), NEW a \in Symbols,
         NEW f \in DOMAIN formats, NEW i \in 1 .. FieldCount(formats, f),
         NEW c \in 1 .. formats[f].fields[i].max, Through(formats, f, i, c, Append(w, a))
  PROVE  /\ <<f, i, c - 1>> \in Denote(formats, w)
         /\ MovesOn(w, a, <<f, i, c - 1>>)
<1>1. formats[f].fields[i].max \in Nat
  BY LettersAreSymbols DEF FieldCount
<1>2. c - 1 \in Nat /\ c - 1 \in 0 .. formats[f].fields[i].max /\ (c - 1) + 1 = c
      /\ c - 1 < formats[f].fields[i].max /\ i \in Nat
  BY <1>1
<1>3. a \in Letters(formats, f, i) /\ Through(formats, f, i, c - 1, w)
  BY <1>2, ThroughAppend
<1>4. On(formats, f, i, c - 1, w)
  BY <1>2, <1>3, ThroughOn
<1>5. <<f, i, c - 1>> \in Denote(formats, w)
  BY <1>2, <1>4 DEF Denote
<1>6. MovesOn(w, a, <<f, i, c - 1>>)
  BY <1>2, <1>3, <1>4, Zenon DEF MovesOn
<1> QED BY <1>5, <1>6

\* One step of the subset construction: moving what w denotes with a symbol and closing it
\* gives exactly what the longer word denotes.  This is where Exits, Closure and Move of
\* grammar.py must be right about fields that may be empty.
LEMMA MoveDenote ==
  ASSUME formats \in Seq(PlateFormat), NEW w \in Seq(Symbols), NEW a \in Symbols
  PROVE  Move(Denote(formats, w), a) = Denote(formats, Append(w, a))
<1> DEFINE G == {s \in Denote(formats, w) : MovesOn(w, a, s)}
           S == {<<s[1], s[2], s[3] + 1>> : s \in G}
<1>1. \A q : q \in S <=> \E s \in Denote(formats, w) : MovesOn(w, a, s) /\ q = <<s[1], s[2], s[3] + 1>>
  BY Zenon
<1>0. Move(Denote(formats, w), a) = Closure(S)
  BY MoveAre
<1> HIDE DEF S
<1>2. \A q : q \in Closure(S) <=> q \in S \/ \E s \in S : q \in Exits(s)
  BY Zenon DEF Closure
<1>3. ASSUME NEW s \in S
      PROVE  \E f \in DOMAIN formats : \E i \in 1 .. FieldCount(formats, f) :
               \E c \in 0 .. formats[f].fields[i].max :
                 s = <<f, i, c>> /\ On(formats, f, i, c, Append(w, a)) /\ s \in Denote(formats, Append(w, a))
  <2>1. PICK r \in Denote(formats, w) : MovesOn(w, a, r) /\ s = <<r[1], r[2], r[3] + 1>>
    BY <1>1, Zenon
  <2>2. PICK f \in DOMAIN formats : \E i \in 1 .. FieldCount(formats, f) : \E c \in Nat :
    /\ r = <<f, i, c>> /\ On(formats, f, i, c, w)
    /\ c < formats[f].fields[i].max /\ a \in Letters(formats, f, i)
    BY <2>1, Zenon DEF MovesOn
  <2>3. PICK i \in 1 .. FieldCount(formats, f), c \in Nat :
    /\ r = <<f, i, c>> /\ On(formats, f, i, c, w)
    /\ c < formats[f].fields[i].max /\ a \in Letters(formats, f, i)
    BY <2>2, Zenon
  <2>4. s = <<f, i, c + 1>>
    BY <2>1, <2>3
  <2>5. /\ On(formats, f, i, c + 1, Append(w, a)) /\ c + 1 \in 0 .. formats[f].fields[i].max
        /\ <<f, i, c + 1>> \in Denote(formats, Append(w, a))
    BY <2>3, MovedDenoted
  <2> QED BY <2>4, <2>5, Zenon
<1>4. Append(w, a) \in Seq(Symbols) /\ Append(w, a) # <<>>
  OBVIOUS
<1>5. ASSUME NEW q \in Closure(S) PROVE q \in Denote(formats, Append(w, a))
  <2>1. CASE q \in S
    BY <2>1, <1>3, Zenon
  <2>2. CASE q \notin S
    <3>1. PICK s \in S : q \in Exits(s)
      BY <2>2, <1>2, Zenon
    <3>2. PICK f \in DOMAIN formats : \E i \in 1 .. FieldCount(formats, f) :
               \E c \in 0 .. formats[f].fields[i].max :
                 s = <<f, i, c>> /\ On(formats, f, i, c, Append(w, a))
      BY <1>3, Zenon
    <3>3. PICK i \in 1 .. FieldCount(formats, f) : \E c \in 0 .. formats[f].fields[i].max :
                 s = <<f, i, c>> /\ On(formats, f, i, c, Append(w, a))
      BY <3>2, Zenon
    <3>4. PICK c \in 0 .. formats[f].fields[i].max :
                 s = <<f, i, c>> /\ On(formats, f, i, c, Append(w, a))
      BY <3>3, Zenon
    <3> QED BY <1>4, <3>1, <3>4, ExitsDenoted
  <2> QED BY <2>1, <2>2
<1>6. ASSUME NEW q \in Denote(formats, Append(w, a)) PROVE q \in Closure(S)
  <2>1. PICK f \in DOMAIN formats, k \in Nat, c \in Nat :
               q = <<f, k, c>> /\ On(formats, f, k, c, Append(w, a))
    BY <1>6 DEF Denote
  <2>2. FieldCount(formats, f) \in Nat /\ k \in 1 .. FieldCount(formats, f) + 1
    BY <2>1, SizeIsNat DEF On
  <2>3. ASSUME NEW i \in 1 .. FieldCount(formats, f), NEW d \in 1 .. formats[f].fields[i].max,
               Through(formats, f, i, d, Append(w, a))
        PROVE  <<f, i, d>> \in S
    <3>1. <<f, i, d - 1>> \in Denote(formats, w) /\ MovesOn(w, a, <<f, i, d - 1>>)
      BY <2>3, BackOne
    <3>2. formats[f].fields[i].max \in Nat
      BY LettersAreSymbols DEF FieldCount
    <3>3. <<f, i, d>> = <<<<f, i, d - 1>>[1], <<f, i, d - 1>>[2], <<f, i, d - 1>>[3] + 1>>
      BY <3>2
    <3> QED BY <3>1, <3>3, <1>1, Zenon
  <2>4. CASE c # 0
    <3>1. k \in 1 .. FieldCount(formats, f) /\ c \in 1 .. formats[f].fields[k].max
          /\ Through(formats, f, k, c, Append(w, a))
      BY <2>1, <2>2, <2>4 DEF On
    <3> QED BY <2>1, <2>3, <3>1, <1>2
  <2>5. CASE c = 0
    <3>1. k - 1 \in 0 .. FieldCount(formats, f) /\ Append(w, a) \in WordsTo(formats, f)[k - 1]
      BY <2>1, <2>2, <2>5 DEF On
    <3>2. PICK i \in 1 .. k - 1 : EndsIn(formats, f, k - 1, i, Append(w, a))
      BY <1>4, <3>1, LastField
    <3>3. i \in 1 .. FieldCount(formats, f) /\ k \in i + 1 .. FieldCount(formats, f) + 1
          /\ i \in 1 .. FieldCount(formats, f) + 1
      BY <2>2
    <3>4. PICK d \in formats[f].fields[i].min .. formats[f].fields[i].max :
                 d > 0 /\ Through(formats, f, i, d, Append(w, a))
      BY <3>2 DEF EndsIn
    <3>5. formats[f].fields[i].min \in Nat /\ formats[f].fields[i].max \in Nat /\ d \in Nat
      BY <3>3, LettersAreSymbols DEF FieldCount
    <3>6. <<f, i, d>> \in S
      BY <2>3, <3>3, <3>4, <3>5
    <3>7. q \in Exits(<<f, i, d>>)
      BY <2>1, <2>5, <3>2, <3>3, <3>4, <3>5, ExitsAre DEF EndsIn
    <3> QED BY <1>2, <3>6, <3>7
  <2> QED BY <2>4, <2>5
<1>7. Closure(S) = Denote(formats, Append(w, a))
  BY <1>5, <1>6
<1> QED BY <1>0, <1>7

-----------------------------------------------------------------------------
(***************************************************************************)
(* Words and their beginnings.                                             *)
(***************************************************************************)
\* The words of a format are the words of all its fields.
LEMMA FormatWordsAre ==
  ASSUME formats \in Seq(PlateFormat), NEW f \in DOMAIN formats
  PROVE  /\ FormatWords(f) = WordsTo(formats, f)[FieldCount(formats, f)]
         /\ FormatWords(f) \subseteq Seq(Symbols)
<1>1. FormatWords(f) = WordsTo(formats, f)[FieldCount(formats, f)]
  BY Zenon DEF FormatWords, WordsTo, Fields, FieldCount
<1>2. FieldCount(formats, f) \in 0 .. FieldCount(formats, f)
  BY SizeIsNat
<1> QED BY <1>1, <1>2, WordsToAll

\* A word of n equal symbols.
LEMMA SomeWord ==
  ASSUME NEW S, NEW a \in S, NEW n \in Nat
  PROVE  [k \in 1 .. n |-> a] \in [1 .. n -> S]
OBVIOUS

\* The words of some fields can be continued to words of more fields.
LEMMA Extends ==
  ASSUME NEW F \in Seq(PlateFormat), NEW f \in DOMAIN F, NEW j \in Nat, NEW k \in Nat,
         j <= k, k <= FieldCount(F, f), NEW w \in WordsTo(F, f)[j]
  PROVE  \E x \in Seq(Symbols) : w \o x \in WordsTo(F, f)[k]
<1> DEFINE P(n) == (j <= n /\ n <= k) => \E x \in Seq(Symbols) : w \o x \in WordsTo(F, f)[n]
           T == {n \in Nat : P(n)}
<1>0. FieldCount(F, f) \in Nat
  BY SizeIsNat
<1>w. w \in Seq(Symbols)
  <2>1. j \in 0 .. FieldCount(F, f)
    BY <1>0
  <2> QED BY <2>1, WordsToAll
<1>1. P(0)
  <2> SUFFICES ASSUME j <= 0 PROVE \E x \in Seq(Symbols) : w \o x \in WordsTo(F, f)[0]
    OBVIOUS
  <2>1. j = 0 /\ w \o <<>> = w /\ <<>> \in Seq(Symbols)
    BY <1>w
  <2> QED BY <2>1
<1>2. ASSUME NEW n \in Nat, P(n) PROVE P(n + 1)
  <2> SUFFICES ASSUME j <= n + 1, n + 1 <= k
               PROVE  \E x \in Seq(Symbols) : w \o x \in WordsTo(F, f)[n + 1]
    OBVIOUS
  <2>1. CASE j = n + 1
    <3>1. w \o <<>> = w /\ <<>> \in Seq(Symbols)
      BY <1>w
    <3> QED BY <2>1, <3>1
  <2>2. CASE j <= n
    <3>1. PICK x \in Seq(Symbols) : w \o x \in WordsTo(F, f)[n]
      BY <1>2, <2>2
    <3>2. n + 1 \in 1 .. Len(F[f].fields) /\ n + 1 <= FieldCount(F, f)
      BY <1>0 DEF FieldCount
    <3>3. PICK a \in Letters(F, f, n + 1) : TRUE
      BY <3>2, LettersAreSymbols
    <3> DEFINE m == F[f].fields[n + 1].min
               v == [i \in 1 .. m |-> a]
    <3>4. m \in Nat /\ m \in F[f].fields[n + 1].min .. F[f].fields[n + 1].max
      BY <3>2, LettersAreSymbols
    <3>5. v \in [1 .. m -> Letters(F, f, n + 1)]
      BY <3>4, SomeWord
    <3> HIDE DEF m, v
    <3>6. v \in FieldWords(F[f].fields[n + 1]) /\ v \in Seq(Symbols)
      BY <3>2, <3>4, <3>5, FieldWordsAre
    <3>7. (w \o x) \o v \in WordsTo(F, f)[n + 1]
      <4>1. \A y : y \in WordsTo(F, f)[n + 1] <=>
              \E u \in WordsTo(F, f)[n], z \in FieldWords(F[f].fields[n + 1]) : y = u \o z
        BY <3>2, WordsToNext
      <4> QED BY <3>1, <3>6, <4>1, Zenon
    <3>8. (w \o x) \o v = w \o (x \o v) /\ x \o v \in Seq(Symbols)
      BY <1>w, <3>6, ConcatAssociative, ConcatProperties
    <3> QED BY <3>7, <3>8
  <2> QED BY <2>1, <2>2
<1> HIDE DEF P
<1>3. T = Nat
  <2>1. T \in SUBSET Nat /\ 0 \in T /\ \A n \in T : n + 1 \in T
    BY <1>1, <1>2
  <2> QED BY <2>1, Induction
<1>4. P(k)
  BY <1>3
<1> QED BY <1>4 DEF P

\* No state is a dead end: what leads to a state can be completed to a word of its format.
LEMMA Completable ==
  ASSUME NEW F \in Seq(PlateFormat), NEW w \in Seq(Symbols), NEW q \in Denote(F, w)
  PROVE  \E x \in Seq(Symbols) : w \o x \in WordsTo(F, q[1])[FieldCount(F, q[1])]
<1>1. PICK f \in DOMAIN F, i \in Nat, c \in Nat : q = <<f, i, c>> /\ On(F, f, i, c, w)
  BY DEF Denote
<1>2. FieldCount(F, f) \in Nat /\ i \in 1 .. FieldCount(F, f) + 1
  BY <1>1, SizeIsNat DEF On
<1>3. CASE c = 0
  <2>1. i - 1 \in Nat /\ i - 1 <= FieldCount(F, f) /\ w \in WordsTo(F, f)[i - 1]
    BY <1>1, <1>2, <1>3 DEF On
  <2>2. \E x \in Seq(Symbols) : w \o x \in WordsTo(F, f)[FieldCount(F, f)]
    BY <1>2, <2>1, Extends
  <2> QED BY <1>1, <2>2
<1>4. CASE c # 0
  <2>1. i \in 1 .. FieldCount(F, f) /\ c \in 1 .. F[f].fields[i].max /\ Through(F, f, i, c, w)
    BY <1>1, <1>2, <1>4 DEF On
  <2>2. PICK u \in WordsTo(F, f)[i - 1] : \E v \in [1 .. c -> Letters(F, f, i)] : w = u \o v
    BY <2>1 DEF Through
  <2>3. PICK v \in [1 .. c -> Letters(F, f, i)] : w = u \o v
    BY <2>2
  <2>4. Letters(F, f, i) \subseteq Symbols /\ Letters(F, f, i) # {}
        /\ F[f].fields[i].min \in Nat /\ F[f].fields[i].max \in Nat /\ c \in Nat
        /\ F[f].fields[i].min <= F[f].fields[i].max
    BY <2>1, LettersAreSymbols DEF FieldCount
  <2>5. PICK a \in Letters(F, f, i) : TRUE
    BY <2>4
  <2> DEFINE m == IF c >= F[f].fields[i].min THEN 0 ELSE F[f].fields[i].min - c
             y == [n \in 1 .. m |-> a]
  <2>6. m \in Nat /\ c + m \in F[f].fields[i].min .. F[f].fields[i].max
    BY <2>1, <2>4
  <2>7. y \in [1 .. m -> Letters(F, f, i)]
    BY <2>6, SomeWord
  <2> HIDE DEF m, y, Letters
  <2>8. y \in Seq(Letters(F, f, i)) /\ Len(y) = m /\ v \in Seq(Letters(F, f, i)) /\ Len(v) = c
        /\ y \in Seq(Symbols) /\ v \in Seq(Symbols)
    BY <2>4, <2>6, <2>7, WordIsSeq, SeqMonotonic
  <2>9. v \o y \in Seq(Letters(F, f, i)) /\ Len(v \o y) = c + m
    BY <2>8, ConcatProperties
  <2>10. v \o y \in [1 .. c + m -> Letters(F, f, i)]
    BY <2>9, SeqIsWord
  <2>11. u \in Seq(Symbols)
    BY <2>1, WordsToAre DEF FieldCount
  <2>12. w \o y = u \o (v \o y) /\ w \o y \in Seq(Symbols)
    BY <2>3, <2>8, <2>11, ConcatAssociative, ConcatProperties
  <2>13. Through(F, f, i, c + m, w \o y)
    BY <2>10, <2>12 DEF Through
  <2>14. w \o y \in WordsTo(F, f)[i]
    BY <2>1, <2>6, <2>13, ThroughWords
  <2>15. i \in Nat /\ i <= FieldCount(F, f) /\ FieldCount(F, f) \in Nat /\ FieldCount(F, f) <= FieldCount(F, f)
    BY <1>2, <2>1
  <2>16. PICK x \in Seq(Symbols) : (w \o y) \o x \in WordsTo(F, f)[FieldCount(F, f)]
    <3>1. FieldCount(F, f) \in 0 .. FieldCount(F, f) /\ w \o y \in WordsTo(F, f)[i]
      BY <2>14, <2>15
    <3>2. \E x \in Seq(Symbols) : (w \o y) \o x \in WordsTo(F, f)[FieldCount(F, f)]
      <4> DEFINE z == w \o y
      <4>1. z \in WordsTo(F, f)[i]
        BY <2>14
      <4> HIDE DEF z
      <4>2. \E x \in Seq(Symbols) : z \o x \in WordsTo(F, f)[FieldCount(F, f)]
        BY <2>15, <4>1, Extends
      <4> QED BY <4>2 DEF z
    <3> QED BY <3>2
  <2>17. (w \o y) \o x = w \o (y \o x) /\ y \o x \in Seq(Symbols)
    <3>1. y \in Seq(Symbols)
      BY <2>8
    <3>2. (w \o y) \o x = w \o (y \o x)
      BY <3>1, ConcatAssociative
    <3> QED BY <3>1, <3>2, ConcatProperties
  <2>18. \E z \in Seq(Symbols) : w \o z \in WordsTo(F, f)[FieldCount(F, f)]
    BY <2>16, <2>17
  <2> QED BY <1>1, <2>18
<1> QED BY <1>3, <1>4

\* What a longer word can become, the shorter one can become too.
LEMMA BackOn ==
  ASSUME formats \in Seq(PlateFormat), NEW w \in Seq(Symbols), NEW a \in Symbols,
         NEW q \in Denote(formats, Append(w, a))
  PROVE  \E r \in Denote(formats, w) : r[1] = q[1]
<1>1. PICK f \in DOMAIN formats, k \in Nat, c \in Nat :
             q = <<f, k, c>> /\ On(formats, f, k, c, Append(w, a))
  BY DEF Denote
<1>2. FieldCount(formats, f) \in Nat /\ k \in 1 .. FieldCount(formats, f) + 1
  BY <1>1, SizeIsNat DEF On
<1>3. ASSUME NEW i \in 1 .. FieldCount(formats, f), NEW d \in 1 .. formats[f].fields[i].max,
             Through(formats, f, i, d, Append(w, a))
      PROVE  \E r \in Denote(formats, w) : r[1] = q[1]
  <2>1. <<f, i, d - 1>> \in Denote(formats, w)
    BY <1>3, BackOne
  <2> QED BY <1>1, <2>1
<1>4. CASE c # 0
  <2>1. k \in 1 .. FieldCount(formats, f) /\ c \in 1 .. formats[f].fields[k].max
        /\ Through(formats, f, k, c, Append(w, a))
    BY <1>1, <1>2, <1>4 DEF On
  <2> QED BY <1>3, <2>1
<1>5. CASE c = 0
  <2>0. Append(w, a) # <<>>
    OBVIOUS
  <2>1. k - 1 \in 0 .. FieldCount(formats, f) /\ Append(w, a) \in WordsTo(formats, f)[k - 1]
    BY <1>1, <1>2, <1>5 DEF On
  <2>2. PICK i \in 1 .. k - 1 : EndsIn(formats, f, k - 1, i, Append(w, a))
    BY <2>0, <2>1, LastField
  <2>3. i \in 1 .. FieldCount(formats, f)
    BY <1>2
  <2>4. PICK d \in formats[f].fields[i].min .. formats[f].fields[i].max :
               d > 0 /\ Through(formats, f, i, d, Append(w, a))
    BY <2>2 DEF EndsIn
  <2>5. formats[f].fields[i].min \in Nat /\ formats[f].fields[i].max \in Nat /\ d \in Nat
    BY <2>3, LettersAreSymbols DEF FieldCount
  <2> QED BY <1>3, <2>3, <2>4, <2>5
<1> QED BY <1>4, <1>5

\* w leads to a state of format f.
Begins(F, f, w) == \E q \in Denote(F, w) : q[1] = f

\* Every beginning of a word of f leads to a state of f ...
LEMMA PrefixBegins ==
  ASSUME formats \in Seq(PlateFormat), NEW f \in DOMAIN formats, NEW w \in FormatWords(f),
         NEW n \in 0 .. Len(w)
  PROVE  Begins(formats, f, SubSeq(w, 1, n))
<1> DEFINE P(m) == m <= Len(w) => Begins(formats, f, SubSeq(w, 1, Len(w) - m))
           T == {m \in Nat : P(m)}
<1>0. w \in Seq(Symbols) /\ w \in WordsTo(formats, f)[FieldCount(formats, f)] /\ Len(w) \in Nat
      /\ FieldCount(formats, f) \in Nat
  BY FormatWordsAre, SizeIsNat
<1>1. P(0)
  <2>1. SubSeq(w, 1, Len(w) - 0) = w
    BY <1>0
  <2>2. On(formats, f, FieldCount(formats, f) + 1, 0, w)
    BY <1>0 DEF On
  <2>3. <<f, FieldCount(formats, f) + 1, 0>> \in Denote(formats, w)
    BY <1>0, <2>2 DEF Denote
  <2>4. Begins(formats, f, w)
    <3>1. <<f, FieldCount(formats, f) + 1, 0>>[1] = f
      OBVIOUS
    <3> QED BY <2>3, <3>1, Zenon DEF Begins
  <2> QED BY <2>1, <2>4, Zenon
<1>2. ASSUME NEW m \in Nat, P(m) PROVE P(m + 1)
  <2> SUFFICES ASSUME m + 1 <= Len(w) PROVE Begins(formats, f, SubSeq(w, 1, Len(w) - (m + 1)))
    OBVIOUS
  <2> DEFINE k == Len(w) - (m + 1)
             v == SubSeq(w, 1, k)
  <2>1. k \in Nat /\ k + 1 = Len(w) - m /\ k + 1 <= Len(w)
    BY <1>0
  <2>2. Begins(formats, f, SubSeq(w, 1, k + 1))
    BY <1>0, <1>2, <2>1
  <2> HIDE DEF k
  <2>3. v \in Seq(Symbols) /\ Len(v) = k
    BY <1>0, <2>1
  <2>4. w[k + 1] \in Symbols
    BY <1>0, <2>1
  <2>5. SubSeq(w, 1, k + 1) = Append(v, w[k + 1])
    BY <1>0, <2>1
  <2> HIDE DEF v
  <2>6. PICK q \in Denote(formats, Append(v, w[k + 1])) : q[1] = f
    BY <2>2, <2>5 DEF Begins
  <2>7. \E r \in Denote(formats, v) : r[1] = f
    BY <2>3, <2>4, <2>6, BackOn
  <2> QED BY <2>7 DEF Begins, v, k
<1> HIDE DEF P
<1>3. T = Nat
  <2>1. T \in SUBSET Nat /\ 0 \in T /\ \A m \in T : m + 1 \in T
    BY <1>1, <1>2
  <2> QED BY <2>1, Induction
<1>4. Len(w) - n \in Nat /\ Len(w) - n <= Len(w) /\ Len(w) - (Len(w) - n) = n
  BY <1>0
<1>5. P(Len(w) - n)
  BY <1>3, <1>4
<1> QED BY <1>4, <1>5 DEF P

\* ... and nothing else does: the states of f are there exactly for the beginnings of its words.
LEMMA BeginningsAre ==
  ASSUME formats \in Seq(PlateFormat), NEW f \in DOMAIN formats
  PROVE  \A v : v \in Beginnings(FormatWords(f)) <=> v \in Seq(Symbols) /\ Begins(formats, f, v)
<1>1. ASSUME NEW v \in Beginnings(FormatWords(f)) PROVE v \in Seq(Symbols) /\ Begins(formats, f, v)
  <2>1. PICK w \in FormatWords(f) : v \in {SubSeq(w, 1, n) : n \in 0 .. Len(w)}
    BY Zenon DEF Beginnings
  <2>2. PICK n \in 0 .. Len(w) : v = SubSeq(w, 1, n)
    BY <2>1
  <2>3. w \in Seq(Symbols)
    BY FormatWordsAre
  <2>4. v \in Seq(Symbols)
    BY <2>2, <2>3
  <2> QED BY <2>2, <2>4, PrefixBegins
<1>2. ASSUME NEW v \in Seq(Symbols), Begins(formats, f, v) PROVE v \in Beginnings(FormatWords(f))
  <2>1. PICK q \in Denote(formats, v) : q[1] = f
    BY <1>2 DEF Begins
  <2>2. PICK x \in Seq(Symbols) : v \o x \in FormatWords(f)
    BY <2>1, Completable, FormatWordsAre
  <2>3. Len(v) \in 0 .. Len(v \o x) /\ SubSeq(v \o x, 1, Len(v)) = v
    <3>1. Len(v \o x) = Len(v) + Len(x) /\ Len(v) \in Nat /\ Len(x) \in Nat /\ v \o x \in Seq(Symbols)
      BY ConcatProperties, LenProperties
    <3>2. Len(SubSeq(v \o x, 1, Len(v))) = Len(v) /\ SubSeq(v \o x, 1, Len(v)) \in Seq(Symbols)
      BY <3>1
    <3>3. ASSUME NEW k \in 1 .. Len(v) PROVE SubSeq(v \o x, 1, Len(v))[k] = v[k]
      <4>1. SubSeq(v \o x, 1, Len(v))[k] = (v \o x)[k]
        BY <3>1
      <4>2. (v \o x)[k] = v[k]
        BY <3>1
      <4> QED BY <4>1, <4>2
    <3> QED BY <3>1, <3>2, <3>3, SeqEqual
  <2>4. v \in {SubSeq(v \o x, 1, n) : n \in 0 .. Len(v \o x)}
    BY <2>3
  <2> QED BY <2>2, <2>4, Zenon DEF Beginnings
<1> QED BY <1>1, <1>2

-----------------------------------------------------------------------------
(***************************************************************************)
(* Splitting a word into its fields.                                       *)
(***************************************************************************)
\* The function inside Grammar!Offset.
Sums(ls) == CHOOSE before : before = [k \in 0 .. Len(ls) |-> IF k = 0 THEN 0 ELSE before[k - 1] + ls[k]]

\* Sums satisfies the equations it is defined by.
LEMMA SumsSteps ==
  ASSUME NEW ls \in Seq(Nat)
  PROVE  /\ Sums(ls) \in [0 .. Len(ls) -> Nat]
         /\ Sums(ls)[0] = 0
         /\ \A k \in 1 .. Len(ls) : Sums(ls)[k] = Sums(ls)[k - 1] + ls[k]
         /\ \A i : Offset(ls, i) = Sums(ls)[i - 1]
<1> DEFINE m == Len(ls)
           step == [k \in 1 .. m |-> [x \in Nat |-> x + ls[k]]]
<1>0. m \in Nat
  OBVIOUS
<1>1. ASSUME NEW k \in 1 .. m, NEW x \in Nat PROVE x + ls[k] \in Nat
  <2>1. ls[k] \in Nat
    OBVIOUS
  <2> QED BY <2>1
<1>2. step \in [1 .. m -> [Nat -> Nat]]
  BY <1>1
<1> HIDE DEF m
<1>4. PICK g \in [0 .. m -> Nat] : g[0] = 0 /\ \A k \in 1 .. m : g[k] = step[k][g[k - 1]]
  <2> HIDE DEF step
  <2>1. \E g : Recurs(g, m, Nat, 0, step)
    BY <1>0, <1>2, RecursionExists
  <2> QED BY <2>1 DEF Recurs
<1>5. ASSUME NEW k \in 1 .. m PROVE g[k] = g[k - 1] + ls[k]
  <2>1. g[k - 1] \in Nat
    BY <1>0
  <2> QED BY <2>1, <1>4
<1>6. g = [k \in 0 .. m |-> IF k = 0 THEN 0 ELSE g[k - 1] + ls[k]]
  BY <1>0, <1>4, <1>5
<1> DEFINE w0 == CHOOSE before : before = [k \in 0 .. m |-> IF k = 0 THEN 0 ELSE before[k - 1] + ls[k]]
<1>7. w0 = [k \in 0 .. m |-> IF k = 0 THEN 0 ELSE w0[k - 1] + ls[k]]
  <2> DEFINE Is(h) == h = [k \in 0 .. m |-> IF k = 0 THEN 0 ELSE h[k - 1] + ls[k]]
  <2>1. Is(g)
    BY <1>6
  <2> HIDE DEF Is
  <2>2. Is(CHOOSE h : Is(h))
    BY <2>1, Zenon
  <2> QED BY <2>2 DEF Is
<1>8. Sums(ls) = w0 /\ \A i : Offset(ls, i) = w0[i - 1]
  BY Zenon DEF Sums, Offset, m
<1> HIDE DEF w0
<1>9. w0[0] = 0 /\ \A k \in 1 .. m : w0[k] = w0[k - 1] + ls[k]
  <2>1. \A k \in 0 .. m : w0[k] = IF k = 0 THEN 0 ELSE w0[k - 1] + ls[k]
    BY <1>7
  <2> QED BY <1>0, <2>1
<1>10. \A k \in 0 .. m : w0[k] = g[k]
  <2>1. w0[0] = g[0]
    BY <1>4, <1>9
  <2>2. ASSUME NEW k \in 1 .. m, w0[k - 1] = g[k - 1] PROVE w0[k] = g[k]
    BY <2>2, <1>5, <1>9, Zenon
  <2> QED BY <1>0, <2>1, <2>2, RecursionUnique
<1>11. w0 \in [0 .. m -> Nat]
  BY <1>7, <1>10
<1> QED BY <1>8, <1>9, <1>11, Zenon DEF m

\* One more length is one more summand.
LEMMA SumsNext ==
  ASSUME NEW ls \in Seq(Nat), NEW n \in Nat, n + 1 <= Len(ls)
  PROVE  /\ Sums(ls)[n] \in Nat /\ Sums(ls)[n + 1] \in Nat /\ ls[n + 1] \in Nat
         /\ Sums(ls)[n + 1] = Sums(ls)[n] + ls[n + 1]
<1> DEFINE i == n + 1
           s == Sums(ls)
<1>1. i \in 1 .. Len(ls) /\ i - 1 = n /\ n \in 0 .. Len(ls) /\ i \in 0 .. Len(ls)
  OBVIOUS
<1> HIDE DEF i, s
<1>2. s \in [0 .. Len(ls) -> Nat] /\ s[i] = s[i - 1] + ls[i]
  BY <1>1, SumsSteps DEF s
<1>3. s[n] \in Nat /\ s[i] \in Nat /\ ls[i] \in Nat /\ s[i] = s[n] + ls[i]
  BY <1>1, <1>2
<1> QED BY <1>3 DEF i, s

\* Sums of lengths do not decrease.
LEMMA SumsGrow ==
  ASSUME NEW ls \in Seq(Nat), NEW j \in Nat, NEW k \in 0 .. Len(ls), j <= k
  PROVE  Sums(ls)[j] <= Sums(ls)[k] /\ Sums(ls)[j] \in Nat /\ Sums(ls)[k] \in Nat
<1> DEFINE s == Sums(ls)
           P(n) == (j <= n /\ n <= Len(ls)) => s[j] <= s[n]
           T == {n \in Nat : P(n)}
<1>0. /\ s \in [0 .. Len(ls) -> Nat]
      /\ \A n \in 1 .. Len(ls) : s[n] = s[n - 1] + ls[n]
  BY SumsSteps
<1> HIDE DEF s
<1>1. P(0)
  BY <1>0
<1>2. ASSUME NEW n \in Nat, P(n) PROVE P(n + 1)
  <2> SUFFICES ASSUME j <= n + 1, n + 1 <= Len(ls) PROVE s[j] <= s[n + 1]
    OBVIOUS
  <2>1. n + 1 \in 1 .. Len(ls) /\ (n + 1) - 1 = n /\ n \in 0 .. Len(ls) /\ j \in 0 .. Len(ls)
    OBVIOUS
  <2>2. s[n + 1] = s[n] + ls[n + 1] /\ ls[n + 1] \in Nat /\ s[n] \in Nat /\ s[j] \in Nat
    BY <1>0, <2>1, SumsNext DEF s
  <2>3. CASE j = n + 1
    BY <2>2, <2>3
  <2>4. CASE j # n + 1
    <3>1. s[j] <= s[n]
      BY <1>2, <2>1, <2>4
    <3> QED BY <2>2, <3>1
  <2> QED BY <2>3, <2>4
<1> HIDE DEF P
<1>3. T = Nat
  <2>1. T \in SUBSET Nat /\ 0 \in T /\ \A n \in T : n + 1 \in T
    BY <1>1, <1>2
  <2> QED BY <2>1, Induction
<1>4. P(k) /\ k \in Nat /\ j \in 0 .. Len(ls)
  BY <1>3
<1> QED BY <1>0, <1>4 DEF P, s

\* Another length does not change the sums before it.
LEMMA SumsOfAppend ==
  ASSUME NEW ls \in Seq(Nat), NEW n \in Nat
  PROVE  /\ Append(ls, n) \in Seq(Nat) /\ Len(Append(ls, n)) = Len(ls) + 1
         /\ \A k \in 0 .. Len(ls) : Sums(Append(ls, n))[k] = Sums(ls)[k]
         /\ Sums(Append(ls, n))[Len(ls) + 1] = Sums(ls)[Len(ls)] + n
<1> DEFINE m == Append(ls, n)
           g == Sums(ls)
           h == Sums(m)
<1>1. m \in Seq(Nat) /\ Len(m) = Len(ls) + 1 /\ m[Len(ls) + 1] = n
      /\ \A k \in 1 .. Len(ls) : m[k] = ls[k]
  OBVIOUS
<1> HIDE DEF m
<1>2. /\ g \in [0 .. Len(ls) -> Nat] /\ g[0] = 0
      /\ \A k \in 1 .. Len(ls) : g[k] = g[k - 1] + ls[k]
  BY SumsSteps
<1>3. h[0] = 0 /\ \A k \in 1 .. Len(ls) + 1 : h[k] = h[k - 1] + m[k]
  BY <1>1, SumsSteps
<1> HIDE DEF g, h
<1>4. \A k \in 0 .. Len(ls) : h[k] = g[k]
  <2>1. h[0] = g[0]
    BY <1>2, <1>3
  <2>2. ASSUME NEW k \in 1 .. Len(ls), h[k - 1] = g[k - 1] PROVE h[k] = g[k]
    <3>1. h[k] = h[k - 1] + m[k]
      BY <1>3
    <3>2. m[k] = ls[k] /\ g[k] = g[k - 1] + ls[k]
      BY <1>1, <1>2
    <3> QED BY <2>2, <3>1, <3>2, Zenon
  <2>3. Len(ls) \in Nat
    OBVIOUS
  <2> QED BY <1>2, <2>1, <2>2, <2>3, RecursionUnique
<1>5. h[Len(ls) + 1] = g[Len(ls)] + n
  <2>1. Len(ls) + 1 \in 1 .. Len(ls) + 1 /\ (Len(ls) + 1) - 1 = Len(ls) /\ Len(ls) \in 0 .. Len(ls)
    OBVIOUS
  <2>2. h[Len(ls) + 1] = h[Len(ls)] + m[Len(ls) + 1]
    BY <1>3, <2>1
  <2> QED BY <1>1, <1>4, <2>1, <2>2
<1> QED BY <1>1, <1>4, <1>5 DEF m, g, h

\* A sequence that starts as u and goes on as v is their concatenation.
LEMMA ConcatFrom ==
  ASSUME NEW S, NEW u \in Seq(S), NEW v \in Seq(S), NEW x \in Seq(S),
         Len(x) = Len(u) + Len(v), \A j \in 1 .. Len(u) : x[j] = u[j],
         \A j \in 1 .. Len(v) : x[Len(u) + j] = v[j]
  PROVE  x = u \o v
<1>1. u \o v \in Seq(S) /\ Len(u \o v) = Len(x)
  OBVIOUS
<1>2. ASSUME NEW j \in 1 .. Len(x) PROVE x[j] = (u \o v)[j]
  <2>1. CASE j <= Len(u)
    BY <2>1
  <2>2. CASE j > Len(u)
    <3>1. j - Len(u) \in 1 .. Len(v) /\ Len(u) + (j - Len(u)) = j
      BY <2>2
    <3>2. (u \o v)[j] = v[j - Len(u)]
      BY <2>2
    <3>3. x[Len(u) + (j - Len(u))] = v[j - Len(u)]
      BY <3>1
    <3> QED BY <3>1, <3>2, <3>3
  <2> QED BY <2>1, <2>2
<1> QED BY <1>1, <1>2, SeqEqual

\* A longer prefix is a shorter one and the symbols between.
LEMMA SubSeqSplit ==
  ASSUME NEW S, NEW w \in Seq(S), NEW a \in Nat, NEW b \in Nat, a + b <= Len(w)
  PROVE  /\ [j \in 1 .. b |-> w[a + j]] \in Seq(S)
         /\ SubSeq(w, 1, a + b) = SubSeq(w, 1, a) \o [j \in 1 .. b |-> w[a + j]]
<1> DEFINE v == [j \in 1 .. b |-> w[a + j]]
           u == SubSeq(w, 1, a)
           x == SubSeq(w, 1, a + b)
<1>1. v \in Seq(S) /\ Len(v) = b
  <2>1. v \in [1 .. b -> S]
    OBVIOUS
  <2> QED BY <2>1, WordIsSeq
<1>2. u \in Seq(S) /\ Len(u) = a /\ x \in Seq(S) /\ Len(x) = a + b
  OBVIOUS
<1>3. \A j \in 1 .. b : v[j] = w[a + j]
  OBVIOUS
<1>4. \A j \in 1 .. a : u[j] = w[j] /\ x[j] = w[j]
  OBVIOUS
<1>5. \A j \in 1 .. b : x[a + j] = w[a + j]
  OBVIOUS
<1> HIDE DEF u, v, x
<1>6. x = u \o v
  <2>1. Len(x) = Len(u) + Len(v)
    BY <1>1, <1>2
  <2>2. \A j \in 1 .. Len(u) : x[j] = u[j]
    BY <1>2, <1>4
  <2>3. \A j \in 1 .. Len(v) : x[Len(u) + j] = v[j]
    BY <1>1, <1>2, <1>3, <1>5
  <2>4. u \in Seq(S) /\ v \in Seq(S) /\ x \in Seq(S)
    BY <1>1, <1>2
  <2> QED BY <2>1, <2>2, <2>3, <2>4, ConcatFrom, Zenon
<1> QED BY <1>1, <1>6 DEF u, v, x

\* The lengths ls split w into words of the fields of f.
Splitting(F, f, ls, w) ==
  /\ Sums(ls)[Len(ls)] = Len(w)
  /\ \A i \in 1 .. Len(ls) :
       /\ ls[i] \in F[f].fields[i].min .. F[f].fields[i].max
       /\ \A k \in 1 .. ls[i] : w[Sums(ls)[i - 1] + k] \in Letters(F, f, i)

\* What splits into words of the fields is a word of the format ...
LEMMA SplitIsWord ==
  ASSUME NEW F \in Seq(PlateFormat), NEW f \in DOMAIN F, NEW ls \in Seq(Nat), Len(ls) = FieldCount(F, f),
         NEW w \in Seq(Symbols), Splitting(F, f, ls, w)
  PROVE  w \in WordsTo(F, f)[FieldCount(F, f)]
<1> DEFINE s == Sums(ls)
           P(n) == n <= FieldCount(F, f) => SubSeq(w, 1, s[n]) \in WordsTo(F, f)[n]
           T == {n \in Nat : P(n)}
<1>0. /\ s \in [0 .. Len(ls) -> Nat] /\ s[0] = 0 /\ FieldCount(F, f) \in Nat
      /\ \A n \in 1 .. Len(ls) : s[n] = s[n - 1] + ls[n]
  BY SumsSteps, SizeIsNat
<1>1. \A n \in 0 .. Len(ls) : s[n] <= Len(w)
  <2> SUFFICES ASSUME NEW n \in 0 .. Len(ls) PROVE s[n] <= Len(w)
    OBVIOUS
  <2>1. n \in Nat /\ Len(ls) \in 0 .. Len(ls) /\ n <= Len(ls)
    OBVIOUS
  <2>2. s[n] <= s[Len(ls)]
    BY <2>1, SumsGrow
  <2> QED BY <2>2 DEF Splitting
<1>2. P(0)
  <2>1. SubSeq(w, 1, 0) = <<>>
    OBVIOUS
  <2>2. WordsTo(F, f)[0] = {<<>>}
    BY WordsToSteps
  <2> QED BY <1>0, <2>1, <2>2
<1>3. ASSUME NEW n \in Nat, P(n) PROVE P(n + 1)
  <2> SUFFICES ASSUME n + 1 <= FieldCount(F, f) PROVE SubSeq(w, 1, s[n + 1]) \in WordsTo(F, f)[n + 1]
    OBVIOUS
  <2> DEFINE a == s[n]
             b == ls[n + 1]
             v == [j \in 1 .. b |-> w[a + j]]
  <2>1. n + 1 \in 1 .. Len(ls) /\ (n + 1) - 1 = n /\ n \in 0 .. Len(ls) /\ n + 1 \in 0 .. Len(ls)
    BY <1>0
  <2>2. a \in Nat /\ b \in Nat /\ s[n + 1] = a + b
    BY SumsNext
  <2>3. a + b <= Len(w)
    BY <1>1, <2>1, <2>2
  <2>4. SubSeq(w, 1, a) \in WordsTo(F, f)[n]
    BY <1>0, <1>3, <2>1
  <2>5. /\ b \in F[f].fields[n + 1].min .. F[f].fields[n + 1].max
        /\ \A k \in 1 .. b : w[a + k] \in Letters(F, f, n + 1)
    <3> DEFINE i == n + 1
    <3>1. i \in 1 .. Len(ls) /\ i - 1 = n
      BY <2>1
    <3> HIDE DEF i
    <3>2. /\ ls[i] \in F[f].fields[i].min .. F[f].fields[i].max
          /\ \A k \in 1 .. ls[i] : w[s[i - 1] + k] \in Letters(F, f, i)
      BY <3>1 DEF Splitting
    <3> QED BY <3>1, <3>2 DEF i
  <2>6. v \in [1 .. b -> Letters(F, f, n + 1)]
    BY <2>5
  <2>7. v \in FieldWords(F[f].fields[n + 1])
    <3>1. n + 1 \in 1 .. Len(F[f].fields)
      BY <2>1 DEF FieldCount
    <3> HIDE DEF v, b
    <3> QED BY <2>5, <2>6, <3>1, FieldWordsAre
  <2>8. SubSeq(w, 1, a + b) = SubSeq(w, 1, a) \o v
    <3> HIDE DEF a, b
    <3> QED BY <2>2, <2>3, SubSeqSplit
  <2>9. \A x : x \in WordsTo(F, f)[n + 1] <=>
          \E y \in WordsTo(F, f)[n], z \in FieldWords(F[f].fields[n + 1]) : x = y \o z
    BY WordsToNext
  <2> HIDE DEF v, a, b
  <2>10. SubSeq(w, 1, a + b) \in WordsTo(F, f)[n + 1]
    BY <2>4, <2>7, <2>8, <2>9, Zenon
  <2> QED BY <2>2, <2>10
<1> HIDE DEF P
<1>4. T = Nat
  <2>1. T \in SUBSET Nat /\ 0 \in T /\ \A n \in T : n + 1 \in T
    BY <1>2, <1>3
  <2> QED BY <2>1, Induction
<1>5. P(FieldCount(F, f)) /\ FieldCount(F, f) <= FieldCount(F, f)
  BY <1>0, <1>4
<1>6. SubSeq(w, 1, s[FieldCount(F, f)]) \in WordsTo(F, f)[FieldCount(F, f)]
  BY <1>5 DEF P
<1>7. s[FieldCount(F, f)] = Len(w) /\ SubSeq(w, 1, Len(w)) = w
  BY DEF Splitting
<1> QED BY <1>6, <1>7

\* w splits into words of the first k fields.
SplitsTo(F, f, k, w) == \E ls \in Seq(Nat) : Len(ls) = k /\ Splitting(F, f, ls, w)

\* ... and every word splits.
LEMMA WordSplits ==
  ASSUME NEW F \in Seq(PlateFormat), NEW f \in DOMAIN F, NEW w \in WordsTo(F, f)[FieldCount(F, f)]
  PROVE  SplitsTo(F, f, FieldCount(F, f), w)
<1> DEFINE P(n) == n <= FieldCount(F, f) => \A x \in WordsTo(F, f)[n] : SplitsTo(F, f, n, x)
           T == {n \in Nat : P(n)}
<1>0. FieldCount(F, f) \in Nat
  BY SizeIsNat
<1>1. P(0)
  <2>1. WordsTo(F, f)[0] = {<<>>}
    BY WordsToSteps
  <2>2. Splitting(F, f, <<>>, <<>>)
    <3>1. <<>> \in Seq(Nat) /\ Len(<<>>) = 0
      OBVIOUS
    <3>2. Sums(<<>>)[0] = 0
      BY <3>1, SumsSteps
    <3> QED BY <3>1, <3>2 DEF Splitting
  <2>3. <<>> \in Seq(Nat) /\ Len(<<>>) = 0
    OBVIOUS
  <2>4. SplitsTo(F, f, 0, <<>>)
    BY <2>2, <2>3, Zenon DEF SplitsTo
  <2> QED BY <2>1, <2>4
<1>2. ASSUME NEW n \in Nat, P(n) PROVE P(n + 1)
  <2> SUFFICES ASSUME n + 1 <= FieldCount(F, f), NEW x \in WordsTo(F, f)[n + 1]
               PROVE  SplitsTo(F, f, n + 1, x)
    OBVIOUS
  <2>1. /\ n + 1 \in 1 .. Len(F[f].fields) /\ n <= FieldCount(F, f)
        /\ WordsTo(F, f)[n] \subseteq Seq(Symbols)
        /\ \A y : y \in WordsTo(F, f)[n + 1] <=>
             \E u \in WordsTo(F, f)[n], v \in FieldWords(F[f].fields[n + 1]) : y = u \o v
    <3>1. n + 1 \in 1 .. Len(F[f].fields) /\ WordsTo(F, f)[n] \subseteq Seq(Symbols)
      BY WordsToNext
    <3>2. \A y : y \in WordsTo(F, f)[n + 1] <=>
             \E u \in WordsTo(F, f)[n], v \in FieldWords(F[f].fields[n + 1]) : y = u \o v
      BY WordsToNext
    <3>3. n <= FieldCount(F, f)
      BY <1>0
    <3> QED BY <3>1, <3>2, <3>3
  <2>2. PICK u \in WordsTo(F, f)[n] : \E v \in FieldWords(F[f].fields[n + 1]) : x = u \o v
    BY <2>1, Zenon
  <2>3. PICK v \in FieldWords(F[f].fields[n + 1]) : x = u \o v
    BY <2>2, Zenon
  <2>4. PICK b \in F[f].fields[n + 1].min .. F[f].fields[n + 1].max : v \in [1 .. b -> Letters(F, f, n + 1)]
    BY <2>1, FieldWordsAre
  <2>5. b \in Nat /\ v \in Seq(Symbols) /\ u \in Seq(Symbols)
    BY <2>1, <2>4, LettersAreSymbols, FieldWordsAre
  <2>6. Len(v) = b
    BY <2>4, <2>5, WordIsSeq
  <2>7. SplitsTo(F, f, n, u)
    BY <1>2, <2>1, Zenon
  <2>8. PICK ls \in Seq(Nat) : Len(ls) = n /\ Splitting(F, f, ls, u)
    BY <2>7 DEF SplitsTo
  <2> DEFINE m == Append(ls, b)
             s == Sums(ls)
             t == Sums(m)
  <2>9. /\ m \in Seq(Nat) /\ Len(m) = n + 1 /\ m[n + 1] = b /\ \A k \in 1 .. n : m[k] = ls[k]
    BY <2>5, <2>8
  <2>10. /\ \A k \in 0 .. n : t[k] = s[k]
         /\ t[n + 1] = s[n] + b
    BY <2>5, <2>8, SumsOfAppend
  <2>11. s[n] = Len(u) /\ Len(u) \in Nat
    BY <2>5, <2>8 DEF Splitting
  <2>12. Len(x) = Len(u) + b
    BY <2>3, <2>5, <2>6, ConcatProperties
  <2>13. /\ \A k \in 1 .. n : ls[k] \in F[f].fields[k].min .. F[f].fields[k].max
         /\ \A k \in 1 .. n : \A j \in 1 .. ls[k] : u[s[k - 1] + j] \in Letters(F, f, k)
    BY <2>8 DEF Splitting
  <2>14. \A k \in 1 .. n : s[k - 1] \in Nat /\ ls[k] \in Nat /\ s[k - 1] + ls[k] <= Len(u)
    <3> SUFFICES ASSUME NEW k \in 1 .. n
                 PROVE  s[k - 1] \in Nat /\ ls[k] \in Nat /\ s[k - 1] + ls[k] <= Len(u)
      OBVIOUS
    <3>1. /\ s[k - 1] \in Nat /\ s[k] = s[k - 1] + ls[k] /\ ls[k] \in Nat
      <4>1. s \in [0 .. n -> Nat]
        BY <2>8, SumsSteps
      <4>2. s[k] = s[k - 1] + ls[k]
        BY <2>8, SumsSteps
      <4>3. k - 1 \in 0 .. n /\ k \in 1 .. Len(ls)
        BY <2>8
      <4> HIDE DEF s
      <4> QED BY <4>1, <4>2, <4>3
    <3>2. k \in Nat /\ n \in 0 .. Len(ls) /\ k <= n
      BY <2>8
    <3>3. s[k] <= s[n]
      BY <3>2, SumsGrow
    <3> QED BY <2>11, <3>1, <3>3
  <2> HIDE DEF m, s, t
  <2>15. ASSUME NEW k \in 1 .. n + 1
         PROVE  /\ m[k] \in F[f].fields[k].min .. F[f].fields[k].max
                /\ \A j \in 1 .. m[k] : x[t[k - 1] + j] \in Letters(F, f, k)
    <3>1. CASE k = n + 1
      <4>1. m[k] = b /\ t[k - 1] = Len(u)
        <5>1. k - 1 = n /\ n \in 0 .. n
          BY <3>1
        <5> QED BY <2>9, <2>10, <2>11, <3>1, <5>1
      <4>2. ASSUME NEW j \in 1 .. b PROVE x[Len(u) + j] \in Letters(F, f, k)
        <5>1. (u \o v)[Len(u) + j] = v[j]
          BY <2>5, <2>6
        <5>2. v[j] \in Letters(F, f, n + 1)
          BY <2>4
        <5> QED BY <2>3, <3>1, <5>1, <5>2
      <4> QED BY <2>4, <3>1, <4>1, <4>2
    <3>2. CASE k # n + 1
      <4>1. k \in 1 .. n /\ k - 1 \in 0 .. n
        BY <3>2
      <4>2. m[k] = ls[k] /\ t[k - 1] = s[k - 1]
        BY <2>9, <2>10, <4>1
      <4>3. ASSUME NEW j \in 1 .. ls[k] PROVE x[s[k - 1] + j] = u[s[k - 1] + j]
        <5>1. s[k - 1] + j \in 1 .. Len(u)
          <6>1. s[k - 1] \in Nat /\ ls[k] \in Nat /\ s[k - 1] + ls[k] <= Len(u)
            BY <2>14, <4>1
          <6>2. Len(u) \in Nat
            BY <2>11
          <6> HIDE DEF s
          <6> QED BY <6>1, <6>2
        <5> HIDE DEF s
        <5>2. (u \o v)[s[k - 1] + j] = u[s[k - 1] + j]
          BY <2>5, <5>1
        <5> QED BY <2>3, <5>2
      <4> QED BY <2>13, <4>1, <4>2, <4>3
    <3> QED BY <3>1, <3>2
  <2>16. Splitting(F, f, m, x)
    BY <2>9, <2>10, <2>11, <2>12, <2>15 DEF Splitting, t
  <2> QED BY <2>9, <2>16, Zenon DEF SplitsTo
<1> HIDE DEF P
<1>3. T = Nat
  <2>1. T \in SUBSET Nat /\ 0 \in T /\ \A n \in T : n + 1 \in T
    BY <1>1, <1>2
  <2> QED BY <2>1, Induction
<1>4. P(FieldCount(F, f)) /\ FieldCount(F, f) <= FieldCount(F, f)
  BY <1>0, <1>3
<1> QED BY <1>4 DEF P

\* The largest of finitely many numbers bounds them all.
LEMMA MaxIs ==
  ASSUME NEW n \in Nat, n # 0, NEW g \in [1 .. n -> Nat]
  PROVE  /\ Max({g[k] : k \in 1 .. n}) \in Nat
         /\ \A i \in 1 .. n : g[i] <= Max({g[k] : k \in 1 .. n})
<1> DEFINE B(m) == \E j \in 1 .. m : \A i \in 1 .. m : g[i] <= g[j]
           P(m) == m # 0 /\ m <= n => B(m)
           T == {m \in Nat : P(m)}
<1>1. P(0)
  OBVIOUS
<1>2. ASSUME NEW m \in Nat, P(m) PROVE P(m + 1)
  <2> SUFFICES ASSUME m + 1 <= n PROVE B(m + 1)
    OBVIOUS
  <2>0. \A i \in 1 .. m + 1 : g[i] \in Nat
    OBVIOUS
  <2>1. CASE m = 0
    <3>1. 1 \in 1 .. m + 1 /\ \A i \in 1 .. m + 1 : g[i] <= g[1]
      BY <2>0, <2>1
    <3> QED BY <3>1
  <2>2. CASE m # 0
    <3>1. PICK j \in 1 .. m : \A i \in 1 .. m : g[i] <= g[j]
      BY <1>2, <2>2
    <3>2. m + 1 \in 1 .. m + 1 /\ j \in 1 .. m + 1 /\ g[j] \in Nat /\ g[m + 1] \in Nat
      BY <2>0
    <3>3. CASE g[m + 1] <= g[j]
      <4>1. \A i \in 1 .. m + 1 : g[i] <= g[j]
        <5>1. \A i \in 1 .. m + 1 : i = m + 1 \/ i \in 1 .. m
          OBVIOUS
        <5> QED BY <3>1, <3>3, <5>1
      <4> QED BY <3>2, <4>1
    <3>4. CASE g[j] <= g[m + 1]
      <4>1. \A i \in 1 .. m + 1 : g[i] <= g[m + 1]
        <5>1. \A i \in 1 .. m + 1 : i = m + 1 \/ i \in 1 .. m
          OBVIOUS
        <5> QED BY <2>0, <3>1, <3>2, <3>4, <5>1
      <4> QED BY <3>2, <4>1
    <3> QED BY <3>2, <3>3, <3>4
  <2> QED BY <2>1, <2>2
<1> HIDE DEF P
<1>3. T = Nat
  <2>1. T \in SUBSET Nat /\ 0 \in T /\ \A m \in T : m + 1 \in T
    BY <1>1, <1>2
  <2> QED BY <2>1, Induction
<1>4. PICK j \in 1 .. n : \A i \in 1 .. n : g[i] <= g[j]
  <2>1. P(n)
    BY <1>3
  <2> QED BY <2>1 DEF P
<1> DEFINE S == {g[k] : k \in 1 .. n}
<1>5. \E x \in S : \A y \in S : x >= y
  BY <1>4
<1>6. S \subseteq Nat /\ \A i \in 1 .. n : g[i] \in S
  OBVIOUS
<1> HIDE DEF S
<1>7. Max(S) \in S /\ \A y \in S : Max(S) >= y
  BY <1>5, Zenon DEF Max
<1>8. Max(S) \in Nat /\ \A i \in 1 .. n : g[i] <= Max(S)
  BY <1>6, <1>7
<1> QED BY <1>8 DEF S

\* Grammar!Fits is a splitting.
LEMMA FitsIs ==
  ASSUME formats \in Seq(PlateFormat), NEW f \in DOMAIN formats, NEW w \in Seq(Symbols),
         NEW ls \in Seq(Nat), Len(ls) = FieldCount(formats, f)
  PROVE  Fits(f, ls, w) <=> Splitting(formats, f, ls, w)
<1>1. \A i : Offset(ls, i) = Sums(ls)[i - 1]
  BY SumsSteps
<1>2. DOMAIN ls = 1 .. Len(ls) /\ (Len(ls) + 1) - 1 = Len(ls)
  OBVIOUS
<1>3. Offset(ls, Len(ls) + 1) = Sums(ls)[Len(ls)]
  BY <1>1, <1>2
<1> QED BY <1>1, <1>2, <1>3, Zenon DEF Fits, Splitting, Letters, Fields

\* segment finds lengths for exactly the words of a format: its bound on a length, the longest
\* field, cuts off no way to split.
LEMMA SplitsAre ==
  ASSUME formats \in Seq(PlateFormat), NEW f \in DOMAIN formats, NEW w \in Seq(Symbols)
  PROVE  Splits(f, w) # {} <=> w \in FormatWords(f)
<1> DEFINE n == FieldCount(formats, f)
           longest == Max({Fields(f)[i].max : i \in DOMAIN Fields(f)})
<1>0. n \in Nat /\ FormatWords(f) = WordsTo(formats, f)[FieldCount(formats, f)]
  BY SizeIsNat, FormatWordsAre
<1>1. Fields(f) = formats[f].fields /\ formats[f].fields \in Seq(Field) /\ DOMAIN Fields(f) = 1 .. n
  <2>1. formats[f] \in PlateFormat
    OBVIOUS
  <2>2. formats[f].fields \in Seq(Field)
    BY <2>1 DEF PlateFormat
  <2> QED BY <2>2 DEF Fields, FieldCount
<1>2. \A i \in 1 .. n : formats[f].fields[i].min \in Nat /\ formats[f].fields[i].max \in Nat
  BY LettersAreSymbols DEF FieldCount
<1>s. Splits(f, w) = {lengths \in [DOMAIN Fields(f) -> 0 .. longest] : Fits(f, lengths, w)}
  BY Zenon DEF Splits
<1> HIDE DEF longest
<1>3. ASSUME NEW ls \in Splits(f, w) PROVE w \in FormatWords(f)
  <2>1. Fits(f, ls, w) /\ ls \in [1 .. n -> 0 .. longest]
    BY <1>1, <1>s
  <2>2. \A i \in 1 .. n : ls[i] \in formats[f].fields[i].min .. formats[f].fields[i].max
    BY <1>1, <2>1 DEF Fits
  <2>3. \A i \in 1 .. n : ls[i] \in Nat
    BY <1>2, <2>2
  <2>4. ls \in [1 .. n -> Nat]
    BY <2>1, <2>3
  <2>5. ls \in Seq(Nat) /\ Len(ls) = n
    BY <1>0, <2>4, WordIsSeq
  <2>6. Splitting(formats, f, ls, w)
    BY <2>1, <2>5, FitsIs
  <2> QED BY <1>0, <2>5, <2>6, SplitIsWord
<1>4. ASSUME w \in FormatWords(f) PROVE Splits(f, w) # {}
  <2>1. PICK ls \in Seq(Nat) : Len(ls) = n /\ Splitting(formats, f, ls, w)
    BY <1>0, <1>4, WordSplits DEF SplitsTo
  <2>2. Fits(f, ls, w)
    BY <2>1, FitsIs
  <2>3. ls \in [1 .. n -> Nat]
    BY <2>1, SeqIsWord
  <2>4. \A i \in 1 .. n : ls[i] <= formats[f].fields[i].max
    BY <1>2, <2>1, <2>3 DEF Splitting
  <2>5. \A i \in 1 .. n : ls[i] \in 0 .. longest
    <3> DEFINE g == [i \in 1 .. n |-> formats[f].fields[i].max]
    <3>1. g \in [1 .. n -> Nat] /\ \A i \in 1 .. n : g[i] = formats[f].fields[i].max
      BY <1>2
    <3>2. {g[k] : k \in 1 .. n} = {Fields(f)[i].max : i \in DOMAIN Fields(f)}
      BY <1>1
    <3> HIDE DEF g
    <3>3. CASE n = 0
      BY <3>3
    <3>4. CASE n # 0
      <4>1. longest \in Nat /\ \A i \in 1 .. n : g[i] <= longest
        <5>1. longest = Max({g[k] : k \in 1 .. n})
          BY <3>2 DEF longest
        <5> QED BY <1>0, <3>1, <3>4, <5>1, MaxIs
      <4> SUFFICES ASSUME NEW i \in 1 .. n PROVE ls[i] \in 0 .. longest
        OBVIOUS
      <4>2. g[i] <= longest /\ g[i] \in Nat /\ ls[i] \in Nat /\ ls[i] <= g[i]
        BY <2>3, <2>4, <3>1, <4>1
      <4> QED BY <4>1, <4>2
    <3> QED BY <3>3, <3>4
  <2>6. ls \in [DOMAIN Fields(f) -> 0 .. longest]
    BY <1>1, <2>3, <2>5
  <2> QED BY <1>s, <2>2, <2>6
<1> QED BY <1>3, <1>4

\* segment names the first format the word belongs to, and none if there is none.
LEMMA SegmentIs ==
  ASSUME formats \in Seq(PlateFormat), NEW w \in Seq(Symbols)
  PROVE  LET whole == {formats[f].name : f \in {f \in DOMAIN formats : w \in FormatWords(f)}}
         IN  IF whole = {} THEN Segment(w) = NoSegment ELSE Segment(w).format \in whole
<1> DEFINE fitting == {f \in DOMAIN formats : w \in FormatWords(f)}
           whole == {formats[f].name : f \in fitting}
           S(f) == Splits(f, w)
<1>1. {f \in DOMAIN formats : S(f) # {}} = fitting
  BY SplitsAre
<1> DEFINE least == CHOOSE f \in fitting : \A g \in fitting : f <= g
<1>2. Segment(w) = IF fitting = {} THEN NoSegment
                   ELSE [format  |-> formats[least].name,
                         lengths |-> CHOOSE a \in S(least) : \A b \in S(least) : a = b \/ Later(a, b)]
  <2> DEFINE other == {f \in DOMAIN formats : S(f) # {}}
             first == CHOOSE f \in other : \A g \in other : f <= g
  <2>1. Segment(w) = IF other = {} THEN NoSegment
                   ELSE [format  |-> formats[first].name,
                         lengths |-> CHOOSE a \in S(first) : \A b \in S(first) : a = b \/ Later(a, b)]
    BY Zenon DEF Segment
  <2>2. other = fitting
    BY <1>1
  <2> HIDE DEF other, fitting
  <2> QED BY <2>1, <2>2, Zenon
<1>3. CASE fitting = {}
  BY <1>2, <1>3
<1>4. CASE fitting # {}
  <2>1. fitting \in SUBSET Nat
    OBVIOUS
  <2> HIDE DEF fitting
  <2>2. \E f \in fitting : \A g \in fitting : f <= g
    BY <1>4, <2>1, LeastOf
  <2>3. least \in fitting
    BY <2>2, Zenon
  <2> HIDE DEF least
  <2>4. Segment(w).format = formats[least].name
    BY <1>2, <1>4
  <2>5. formats[least].name \in whole
    BY <2>3
  <2>6. whole # {} /\ Segment(w).format \in whole
    BY <2>4, <2>5
  <2> HIDE DEF whole
  <2>7. IF whole = {} THEN Segment(w) = NoSegment ELSE Segment(w).format \in whole
    BY <2>6
  <2> QED BY <2>7 DEF whole, fitting
<1> QED BY <1>3, <1>4
=============================================================================
