---------------------------- MODULE ReaderProofs ----------------------------
(***************************************************************************)
(* compile of grammar.py is right for every declaration of formats.  The   *)
(* inductive invariant follows the code's phases: a set found by the       *)
(* subset construction is what some word denotes, a row leads where the    *)
(* longer word does; every such set is live; blocks agree on the formats   *)
(* accepted and possible, and, once stable, on where their members lead;   *)
(* the renumbered rows are those of the blocks' representatives.  A run of *)
(* the final automaton then keeps track of what the word denotes, and      *)
(* Languages says what that means for the declared formats.                *)
(* On the compiled automaton, the reader's invariant is that the beams of  *)
(* a photo keep to the masses of the forward algorithm (DecodeProofs) and  *)
(* that what is fused are distributions over words; when the read is over, *)
(* it is what fusion makes of them.  From it follow the properties of the  *)
(* run Reader, with what DecodeProofs says of fusion and review, and that  *)
(* what the evaluation measures is what is served.  Last come the boxes of *)
(* plates: letterbox and its way back, and one crop for a plate.           *)
(***************************************************************************)
EXTENDS DecodeProofs, MCReader

-----------------------------------------------------------------------------
(***************************************************************************)
(* The subset construction.                                                *)
(***************************************************************************)
\* The states of the NFA.
Node(F) == (DOMAIN F) \X Nat \X Nat

\* A set of NFA states that some word denotes.
Reachable(F, S) == S # {} /\ \E w \in Seq(Symbols) : S = Denote(F, w)

\* n is the number of target in a list of known sets, DEAD for the empty set.
Leads(known, target, n) ==
  IF target = {} THEN n = DEAD ELSE n \in 1 .. Len(known) /\ known[n] = target

\* Enlisting a target keeps all numbers and gives the target one.
LEMMA EnlistedIs ==
  ASSUME NEW V, NEW known \in Seq(V), NEW target \in V
  PROVE  LET list == Enlisted(known, target)
         IN  /\ list \in Seq(V) /\ Len(known) <= Len(list)
             /\ \A i \in 1 .. Len(known) : list[i] = known[i]
             /\ \A i \in 1 .. Len(list) : i \in 1 .. Len(known) \/ (list[i] = target /\ target # {})
             /\ Leads(list, target, Place(list, target))
             /\ Place(list, target) \in Nat
<1> DEFINE list == Enlisted(known, target)
<1>1. /\ list \in Seq(V) /\ Len(known) <= Len(list)
      /\ \A i \in 1 .. Len(known) : list[i] = known[i]
      /\ \A i \in 1 .. Len(list) : i \in 1 .. Len(known) \/ (list[i] = target /\ target # {})
  <2>1. CASE list = known
    BY <2>1
  <2>2. CASE list = Append(known, target) /\ target # {}
    <3>1. Len(list) = Len(known) + 1 /\ list[Len(known) + 1] = target
      BY <2>2
    <3>2. \A i \in 1 .. Len(known) : list[i] = known[i]
      BY <2>2
    <3>3. list \in Seq(V)
      BY <2>2
    <3> HIDE DEF list
    <3> QED BY <2>2, <3>1, <3>2, <3>3
  <2> QED BY <2>1, <2>2 DEF Enlisted
<1>2. target # {} => \E i \in 1 .. Len(list) : list[i] = target
  <2>1. CASE Listed(known, target)
    BY <2>1 DEF Enlisted, Listed
  <2>2. CASE ~Listed(known, target)
    <3> SUFFICES ASSUME target # {} PROVE \E i \in 1 .. Len(list) : list[i] = target
      OBVIOUS
    <3>1. list = Append(known, target)
      BY <2>2 DEF Enlisted
    <3>2. Len(known) + 1 \in 1 .. Len(list) /\ list[Len(known) + 1] = target
      BY <3>1
    <3> QED BY <3>2
  <2> QED BY <2>1, <2>2
<1> HIDE DEF list
<1>3. Leads(list, target, Place(list, target)) /\ Place(list, target) \in Nat
  <2>1. CASE target = {}
    BY <2>1 DEF Leads, Place, DEAD
  <2>2. CASE target # {}
    <3>1. Place(list, target) \in 1 .. Len(list) /\ list[Place(list, target)] = target
      BY <1>2, <2>2 DEF Place
    <3> QED BY <1>1, <2>2, <3>1 DEF Leads
  <2> QED BY <2>1, <2>2
<1> QED BY <1>1, <1>3 DEF list

\* A number keeps its meaning when the list grows ...
LEMMA LeadsStill ==
  ASSUME NEW V, NEW known \in Seq(V), NEW list \in Seq(V), Len(known) <= Len(list),
         \A i \in 1 .. Len(known) : list[i] = known[i], NEW target, NEW n,
         Leads(known, target, n)
  PROVE  Leads(list, target, n)
BY DEF Leads

\* A row of the automaton of S: with symbol c it leads to what the longer word denotes.
RowOf(F, known, S, row) ==
  /\ row \in Seq(Nat)
  /\ \A c \in 1 .. Len(row) : \A w \in Seq(Symbols) :
       S = Denote(F, w) => Leads(known, Denote(F, Append(w, c)), row[c])

\* ... and so does a row.
LEMMA RowStill ==
  ASSUME NEW V, NEW known \in Seq(V), NEW list \in Seq(V), Len(known) <= Len(list),
         \A i \in 1 .. Len(known) : list[i] = known[i], NEW F, NEW S, NEW row,
         RowOf(F, known, S, row)
  PROVE  RowOf(F, list, S, row)
<1>1. \A target, n : Leads(known, target, n) => Leads(list, target, n)
  BY LeadsStill
<1> QED BY <1>1, Zenon DEF RowOf

\* A row with one more right entry is right.
LEMMA RowGrows ==
  ASSUME NEW F, NEW known, NEW S, NEW row, RowOf(F, known, S, row), NEW n \in Nat,
         \A w \in Seq(Symbols) : S = Denote(F, w) => Leads(known, Denote(F, Append(w, Len(row) + 1)), n)
  PROVE  RowOf(F, known, S, Append(row, n)) /\ Len(Append(row, n)) = Len(row) + 1
<1>1. row \in Seq(Nat)
  BY DEF RowOf
<1>2. Append(row, n) \in Seq(Nat) /\ Len(Append(row, n)) = Len(row) + 1
  BY <1>1
<1>3. ASSUME NEW c \in 1 .. Len(row) + 1, NEW w \in Seq(Symbols), S = Denote(F, w)
      PROVE  Leads(known, Denote(F, Append(w, c)), Append(row, n)[c])
  <2>1. CASE c = Len(row) + 1
    <3>1. Append(row, n)[c] = n
      BY <1>1, <2>1
    <3> QED BY <1>3, <2>1, <3>1
  <2>2. CASE c # Len(row) + 1
    <3>1. c \in 1 .. Len(row) /\ Append(row, n)[c] = row[c]
      BY <1>1, <2>2
    <3> QED BY <1>3, <3>1 DEF RowOf
  <2> QED BY <2>1, <2>2
<1> QED BY <1>2, <1>3 DEF RowOf

\* What a word denotes is a set of NFA states.
LEMMA DenoteIsSet ==
  ASSUME NEW F, NEW w
  PROVE  Denote(F, w) \in SUBSET Node(F)
BY DEF Denote, Node

\* With a format there is a start state.
LEMMA StartIsReachable ==
  ASSUME formats \in Seq(PlateFormat), formats # <<>>
  PROVE  Reachable(formats, Denote(formats, <<>>))
<1>1. 1 \in DOMAIN formats
  BY EmptySeq
<1>2. <<1, 1, 0>> \in Denote(formats, <<>>)
  BY <1>1, StartDenote DEF Closure
<1>3. <<>> \in Seq(Symbols)
  OBVIOUS
<1> QED BY <1>2, <1>3 DEF Reachable

\* The target of a reachable set is reachable or dead.
LEMMA MoveIsReachable ==
  ASSUME formats \in Seq(PlateFormat), NEW S, Reachable(formats, S), NEW c \in Symbols
  PROVE  /\ Move(S, c) \in SUBSET Node(formats)
         /\ Move(S, c) # {} => Reachable(formats, Move(S, c))
         /\ \A w \in Seq(Symbols) : S = Denote(formats, w) => Denote(formats, Append(w, c)) = Move(S, c)
<1>1. \A w \in Seq(Symbols) : S = Denote(formats, w) => Denote(formats, Append(w, c)) = Move(S, c)
  BY MoveDenote
<1>2. PICK w \in Seq(Symbols) : S = Denote(formats, w)
  BY DEF Reachable
<1>3. Append(w, c) \in Seq(Symbols) /\ Move(S, c) = Denote(formats, Append(w, c))
  BY <1>1, <1>2
<1> QED BY <1>1, <1>3, DenoteIsSet DEF Reachable

\* The sets found so far are denoted by words, the first one by the empty word.
Found ==
  /\ order \in Seq(SUBSET Node(formats)) /\ 1 <= Len(order)
  /\ order[1] = Denote(formats, <<>>)
  /\ \A s \in 1 .. Len(order) : Reachable(formats, order[s])

\* The finished rows lead where they should.
Rows ==
  /\ delta \in Seq(Seq(Nat)) /\ Len(delta) <= Len(order)
  /\ \A s \in 1 .. Len(delta) :
       RowOf(formats, order, order[s], delta[s]) /\ Len(delta[s]) = Cardinality(Symbols)

\* And so do the entries of the row that is being filled.
Filling ==
  /\ filling \in Seq(Nat) /\ Len(filling) <= Cardinality(Symbols)
  /\ filling # <<>> => /\ Len(delta) < Len(order)
                       /\ RowOf(formats, order, order[Len(delta) + 1], filling)

\* Nothing has been renumbered yet.
Emptied == /\ automaton.delta = <<>> /\ automaton.accepting = <<>> /\ automaton.possible = <<>>

\* The invariant of the subset construction.
Determinising == Found /\ Rows /\ Filling /\ Emptied

\* It holds at the start of the worklist, ...
LEMMA StartDeterminises ==
  ASSUME formats \in Seq(PlateFormat), delta = <<>>, filling = <<>>, Emptied, Start
  PROVE  Determinising'
<1> USE DEF Start
<1>1. order' = <<Denote(formats, <<>>)>> /\ formats' = formats
  BY StartDenote
<1>2. Reachable(formats, Denote(formats, <<>>))
  BY StartIsReachable
<1>3. Denote(formats, <<>>) \in SUBSET Node(formats)
  BY DenoteIsSet
<1>4. Found'
  <2> DEFINE D == Denote(formats, <<>>)
             N == Node(formats)
  <2>1. D \in SUBSET N
    BY <1>3
  <2>2. Reachable(formats, D)
    BY <1>2
  <2>3. order' = <<D>>
    BY <1>1
  <2> HIDE DEF D, N
  <2>4. order' \in Seq(SUBSET N) /\ Len(order') = 1 /\ order'[1] = D
    <3> DEFINE Z == SUBSET N
    <3>1. D \in Z
      BY <2>1
    <3> HIDE DEF Z
    <3>2. <<D>> \in Seq(Z) /\ Len(<<D>>) = 1 /\ <<D>>[1] = D
      BY <3>1
    <3> QED BY <2>3, <3>2 DEF Z
  <2>5. \A s \in 1 .. Len(order') : Reachable(formats, order'[s])
    BY <2>2, <2>4
  <2> QED BY <1>1, <2>4, <2>5 DEF Found, D, N
<1>5. Rows'
  <2>1. Len(order') = 1
    BY <1>1
  <2>2. delta' = <<>>
    OBVIOUS
  <2> QED BY <2>1, <2>2 DEF Rows
<1>6. Filling'
  <2>1. filling' = <<>>
    OBVIOUS
  <2> QED BY <2>1, SymbolsAssumption DEF Filling
<1>7. Emptied'
  BY DEF Emptied
<1> QED BY <1>4, <1>5, <1>6, <1>7 DEF Determinising

\* ... an entry keeps it, ...
LEMMA DetermineKeeps ==
  ASSUME formats \in Seq(PlateFormat), Determinising, Determinise
  PROVE  Determinising'
<1> USE DEF Determinising
<1> DEFINE S == order[Len(delta) + 1]
           c == Len(filling) + 1
           target == Move(S, c)
           V == SUBSET Node(formats)
<1>1. /\ formats' = formats /\ delta' = delta /\ automaton' = automaton
      /\ order' = Enlisted(order, target) /\ filling' = Append(filling, Place(order', target))
      /\ Len(delta) < Len(order) /\ Len(filling) # Cardinality(Symbols)
  BY DEF Determinise, RowIsFull
<1>2. c \in Symbols /\ c <= Cardinality(Symbols)
  BY <1>1, SymbolsAssumption DEF Filling
<1>3. Len(delta) + 1 \in 1 .. Len(order) /\ order \in Seq(V)
  BY <1>1 DEF Rows, Found
<1>4. Reachable(formats, S)
  BY <1>3 DEF Found
<1>5. /\ target \in V /\ (target # {} => Reachable(formats, target))
      /\ \A w \in Seq(Symbols) : S = Denote(formats, w) => Denote(formats, Append(w, c)) = target
  BY <1>2, <1>4, MoveIsReachable
<1> HIDE DEF target, S, V
<1>6. /\ order' \in Seq(V) /\ Len(order) <= Len(order')
      /\ \A i \in 1 .. Len(order) : order'[i] = order[i]
      /\ \A i \in 1 .. Len(order') : i \in 1 .. Len(order) \/ (order'[i] = target /\ target # {})
      /\ Leads(order', target, Place(order', target)) /\ Place(order', target) \in Nat
  <2>1. LET list == Enlisted(order, target)
        IN  /\ list \in Seq(V) /\ Len(order) <= Len(list)
            /\ \A i \in 1 .. Len(order) : list[i] = order[i]
            /\ \A i \in 1 .. Len(list) : i \in 1 .. Len(order) \/ (list[i] = target /\ target # {})
            /\ Leads(list, target, Place(list, target))
            /\ Place(list, target) \in Nat
    BY <1>3, <1>5, EnlistedIs
  <2> QED BY <1>1, <2>1
<1>7. Found'
  <2>1. 1 <= Len(order') /\ order'[1] = Denote(formats, <<>>)
    BY <1>6, <1>3 DEF Found
  <2>2. ASSUME NEW s \in 1 .. Len(order') PROVE Reachable(formats, order'[s])
    <3>1. CASE s \in 1 .. Len(order)
      BY <3>1, <1>6 DEF Found
    <3>2. CASE order'[s] = target /\ target # {}
      BY <3>2, <1>5
    <3> QED BY <3>1, <3>2, <1>6
  <2> QED BY <1>1, <1>6, <2>1, <2>2 DEF Found, V
<1>8. \A T, row : RowOf(formats, order, T, row) => RowOf(formats, order', T, row)
  BY <1>3, <1>6, RowStill
<1>9. Rows'
  <2>1. delta' \in Seq(Seq(Nat)) /\ Len(delta') <= Len(order')
    BY <1>1, <1>3, <1>6 DEF Rows
  <2>2. ASSUME NEW s \in 1 .. Len(delta)
        PROVE  RowOf(formats, order', order'[s], delta[s]) /\ Len(delta[s]) = Cardinality(Symbols)
    <3>1. s \in 1 .. Len(order)
      BY <1>3 DEF Rows
    <3> QED BY <3>1, <1>6, <1>8 DEF Rows
  <2> QED BY <1>1, <2>1, <2>2 DEF Rows
<1>10. Filling'
  <2>1. filling \in Seq(Nat) /\ S = order'[Len(delta) + 1]
    BY <1>3, <1>6 DEF Filling, S
  <2>2. RowOf(formats, order', S, filling)
    <3>1. CASE filling = <<>>
      BY <3>1 DEF RowOf
    <3>2. CASE filling # <<>>
      BY <3>2, <1>8 DEF Filling, S
    <3> QED BY <3>1, <3>2
  <2>3. \A w \in Seq(Symbols) : S = Denote(formats, w) =>
          Leads(order', Denote(formats, Append(w, Len(filling) + 1)), Place(order', target))
    BY <1>5, <1>6
  <2>4. /\ RowOf(formats, order', S, filling')
        /\ Len(filling') = Len(filling) + 1
    BY <1>1, <1>6, <2>2, <2>3, RowGrows
  <2>5. filling' \in Seq(Nat)
    BY <2>4 DEF RowOf
  <2>6. Len(delta') < Len(order')
    BY <1>1, <1>3, <1>6 DEF Rows
  <2> QED BY <1>1, <1>2, <2>1, <2>4, <2>5, <2>6 DEF Filling
<1>11. Emptied'
  BY <1>1 DEF Emptied
<1> QED BY <1>7, <1>9, <1>10, <1>11

\* ... and the end of a row keeps it.
LEMMA EndRowKeeps ==
  ASSUME Determinising, EndRow
  PROVE  Determinising'
<1> USE DEF Determinising
<1>1. /\ formats' = formats /\ order' = order /\ automaton' = automaton
      /\ delta' = Append(delta, filling) /\ filling' = <<>> /\ Len(filling) = Cardinality(Symbols)
  BY DEF EndRow, RowIsFull
<1>2. filling \in Seq(Nat) /\ filling # <<>>
  BY <1>1, SymbolsAssumption DEF Filling
<1>3. Len(delta) < Len(order) /\ RowOf(formats, order, order[Len(delta) + 1], filling)
  BY <1>2 DEF Filling
<1>4. Found'
  BY <1>1 DEF Found
<1>5. Rows'
  <2>1. delta' \in Seq(Seq(Nat)) /\ Len(delta') = Len(delta) + 1 /\ Len(delta') <= Len(order)
    BY <1>1, <1>2, <1>3 DEF Rows, Found
  <2>2. ASSUME NEW s \in 1 .. Len(delta) + 1
        PROVE  RowOf(formats, order, order[s], delta'[s]) /\ Len(delta'[s]) = Cardinality(Symbols)
    <3>1. CASE s = Len(delta) + 1
      <4>1. delta'[s] = filling
        BY <3>1, <1>1 DEF Rows
      <4> QED BY <3>1, <4>1, <1>1, <1>3
    <3>2. CASE s # Len(delta) + 1
      <4>1. s \in 1 .. Len(delta) /\ delta'[s] = delta[s]
        BY <3>2, <1>1 DEF Rows
      <4> QED BY <4>1 DEF Rows
    <3> QED BY <3>1, <3>2
  <2> QED BY <1>1, <2>1, <2>2 DEF Rows
<1>6. Filling'
  BY <1>1, SymbolsAssumption DEF Filling
<1>7. Emptied'
  BY <1>1 DEF Emptied
<1> QED BY <1>4, <1>5, <1>6, <1>7

-----------------------------------------------------------------------------
(***************************************************************************)
(* Live states.                                                            *)
(***************************************************************************)
\* The formats complete in a set of NFA states.
AcceptedBy(F, S) == {F[q[1]].name : q \in {q \in S : q[2] = Len(F[q[1]].fields) + 1}}

\* The formats that the set has states of.
KnownBy(F, S) == {F[q[1]].name : q \in S}

\* One round of the search for live states.
Nearer(d, n, R) == R \cup {s \in 1 .. n : \E c \in Symbols : d[s][c] \in R}

\* The function inside Grammar!Live.
Reach(A, d, n) ==
  CHOOSE reach : reach = [k \in 0 .. n |-> IF k = 0 THEN A ELSE Nearer(d, n, reach[k - 1])]

\* Reach satisfies the equations it is defined by.
LEMMA ReachSteps ==
  ASSUME NEW n \in Nat, NEW d, NEW A \in SUBSET (1 .. n)
  PROVE  /\ Reach(A, d, n) \in [0 .. n -> SUBSET (1 .. n)]
         /\ Reach(A, d, n)[0] = A
         /\ \A k \in 1 .. n : Reach(A, d, n)[k] = Nearer(d, n, Reach(A, d, n)[k - 1])
<1> DEFINE V == SUBSET (1 .. n)
           step == [k \in 1 .. n |-> [R \in V |-> Nearer(d, n, R)]]
<1>1. ASSUME NEW R \in V PROVE Nearer(d, n, R) \in V
  BY DEF Nearer
<1>2. step \in [1 .. n -> [V -> V]]
  BY <1>1
<1>3. A \in V
  OBVIOUS
<1> HIDE DEF V
<1>4. PICK g \in [0 .. n -> V] : g[0] = A /\ \A k \in 1 .. n : g[k] = step[k][g[k - 1]]
  <2> HIDE DEF step
  <2>1. \E g : Recurs(g, n, V, A, step)
    BY <1>2, <1>3, RecursionExists
  <2> QED BY <2>1 DEF Recurs
<1>5. ASSUME NEW k \in 1 .. n PROVE g[k] = Nearer(d, n, g[k - 1])
  <2>1. g[k - 1] \in V
    OBVIOUS
  <2> QED BY <2>1, <1>4
<1>6. g = [k \in 0 .. n |-> IF k = 0 THEN A ELSE Nearer(d, n, g[k - 1])]
  BY <1>4, <1>5
<1> DEFINE w0 == CHOOSE reach : reach = [k \in 0 .. n |-> IF k = 0 THEN A ELSE Nearer(d, n, reach[k - 1])]
<1>7. w0 = [k \in 0 .. n |-> IF k = 0 THEN A ELSE Nearer(d, n, w0[k - 1])]
  <2> DEFINE Is(h) == h = [k \in 0 .. n |-> IF k = 0 THEN A ELSE Nearer(d, n, h[k - 1])]
  <2>1. Is(g)
    BY <1>6
  <2> HIDE DEF Is
  <2>2. Is(CHOOSE h : Is(h))
    BY <2>1, Zenon
  <2> QED BY <2>2 DEF Is
<1>8. Reach(A, d, n) = w0
  BY Zenon DEF Reach
<1> HIDE DEF w0
<1>9. w0[0] = A /\ \A k \in 1 .. n : w0[k] = Nearer(d, n, w0[k - 1])
  <2>1. \A k \in 0 .. n : w0[k] = IF k = 0 THEN A ELSE Nearer(d, n, w0[k - 1])
    BY <1>7
  <2> QED BY <2>1
<1>10. \A k \in 0 .. n : w0[k] = g[k]
  <2>1. w0[0] = g[0]
    BY <1>4, <1>9
  <2>2. ASSUME NEW k \in 1 .. n, w0[k - 1] = g[k - 1] PROVE w0[k] = g[k]
    BY <2>2, <1>5, <1>9, Zenon
  <2> QED BY <2>1, <2>2, RecursionUnique, ZenonT(60)
<1>11. w0 \in [0 .. n -> SUBSET (1 .. n)]
  <2>1. w0 \in [0 .. n -> V]
    BY <1>7, <1>10
  <2> QED BY <2>1 DEF V
<1> QED BY <1>8, <1>9, <1>11, Zenon

\* As many rounds as there are states are enough: a further one adds no state.
LEMMA ReachIsClosed ==
  ASSUME NEW n \in Nat, NEW d, NEW A \in SUBSET (1 .. n)
  PROVE  LET R == Reach(A, d, n)[n]
         IN  A \subseteq R /\ R \subseteq 1 .. n /\ Nearer(d, n, R) = R
<1> DEFINE g == Reach(A, d, n)
           Closed(k) == A \subseteq g[k] /\ Nearer(d, n, g[k]) = g[k]
           P(k) == k <= n => A \subseteq g[k] /\ (Cardinality(g[k]) >= k \/ Nearer(d, n, g[k]) = g[k])
           T == {k \in Nat : P(k)}
<1>1. /\ g \in [0 .. n -> SUBSET (1 .. n)] /\ g[0] = A
      /\ \A k \in 1 .. n : g[k] = Nearer(d, n, g[k - 1])
  BY ReachSteps
<1> HIDE DEF g
<1>2. ASSUME NEW k \in 0 .. n
      PROVE  g[k] \in SUBSET (1 .. n) /\ IsFiniteSet(g[k]) /\ Cardinality(g[k]) \in Nat
             /\ Cardinality(g[k]) <= n /\ (Cardinality(g[k]) = n => g[k] = 1 .. n)
  <2>1. g[k] \in SUBSET (1 .. n)
    BY <1>1
  <2>2. IsFiniteSet(1 .. n) /\ Cardinality(1 .. n) = n
    BY FS_Interval
  <2>3. IsFiniteSet(g[k]) /\ Cardinality(g[k]) <= n /\ (n = Cardinality(g[k]) => 1 .. n = g[k])
    BY <2>1, <2>2, FS_Subset
  <2>4. Cardinality(g[k]) \in Nat
    BY <2>3, FS_CardinalityType
  <2> QED BY <2>1, <2>3, <2>4
<1>3. P(0)
  BY <1>1, <1>2
<1>4. ASSUME NEW k \in Nat, P(k) PROVE P(k + 1)
  <2> SUFFICES ASSUME k + 1 <= n
               PROVE A \subseteq g[k + 1]
                     /\ (Cardinality(g[k + 1]) >= k + 1 \/ Nearer(d, n, g[k + 1]) = g[k + 1])
    OBVIOUS
  <2>1. g[k + 1] = Nearer(d, n, g[k])
    <3>1. k + 1 \in 1 .. n /\ (k + 1) - 1 = k
      OBVIOUS
    <3> QED BY <1>1, <3>1
  <2>2. k \in 0 .. n /\ k + 1 \in 0 .. n
    OBVIOUS
  <2>3. g[k] \subseteq g[k + 1]
    BY <2>1 DEF Nearer
  <2>4. A \subseteq g[k + 1]
    BY <1>4, <2>3
  <2>5. CASE g[k + 1] = g[k]
    BY <2>1, <2>4, <2>5
  <2>6. CASE g[k + 1] # g[k]
    <3>1. Cardinality(g[k]) >= k
      BY <1>4, <2>1, <2>6
    <3>2. IsFiniteSet(g[k + 1]) /\ Cardinality(g[k + 1]) \in Nat /\ Cardinality(g[k]) \in Nat
      BY <1>2, <2>2
    <3>3. g[k] \in SUBSET g[k + 1]
      BY <2>3
    <3>4. Cardinality(g[k]) <= Cardinality(g[k + 1])
          /\ Cardinality(g[k]) # Cardinality(g[k + 1])
      BY <3>2, <3>3, <2>6, FS_Subset
    <3> QED BY <2>4, <3>1, <3>2, <3>4
  <2> QED BY <2>5, <2>6
<1> HIDE DEF P
<1>5. T = Nat
  <2>1. T \in SUBSET Nat /\ 0 \in T /\ \A k \in T : k + 1 \in T
    BY <1>3, <1>4
  <2> QED BY <2>1, Induction
<1>6. P(n)
  BY <1>5
<1>7. A \subseteq g[n] /\ (Cardinality(g[n]) >= n \/ Nearer(d, n, g[n]) = g[n])
  BY <1>6 DEF P
<1>8. Nearer(d, n, g[n]) = g[n] /\ g[n] \subseteq 1 .. n
  <2>1. n \in 0 .. n
    OBVIOUS
  <2>2. CASE Cardinality(g[n]) >= n
    <3>1. g[n] = 1 .. n
      BY <1>2, <2>1, <2>2
    <3> QED BY <3>1 DEF Nearer
  <2> QED BY <1>2, <1>7, <2>1, <2>2
<1> QED BY <1>7, <1>8 DEF g

\* Every state is live, so that the code's filter of the live states drops none: each was reached
\* by the beginning of a word, which can be completed.
LEMMA LiveAll ==
  ASSUME formats \in Seq(PlateFormat), Found, Rows, Len(delta) = Len(order)
  PROVE  Live = 1 .. Len(delta)
<1> DEFINE n == Len(delta)
           A == {s \in 1 .. n : Accepting(s) # {}}
           R == Reach(A, delta, n)[n]
<1>1. n \in Nat
  BY DEF Rows
<1>2. Live = R
  BY Zenon DEF Live, Reach, Nearer
<1>3. A \in SUBSET (1 .. n)
  OBVIOUS
<1> HIDE DEF n
<1>4. A \subseteq R /\ R \subseteq 1 .. n /\ Nearer(delta, n, R) = R
  <2> HIDE DEF A, R
  <2>1. LET Q == Reach(A, delta, n)[n] IN A \subseteq Q /\ Q \subseteq 1 .. n /\ Nearer(delta, n, Q) = Q
    BY <1>1, <1>3, ReachIsClosed
  <2> QED BY <2>1 DEF R
<1> HIDE DEF R
<1>5. ASSUME NEW s \in 1 .. n, NEW c \in Symbols, delta[s][c] \in R PROVE s \in R
  BY <1>4, <1>5 DEF Nearer
<1>6. ASSUME NEW s \in 1 .. n, NEW w \in Seq(Symbols), order[s] = Denote(formats, w),
             NEW f \in DOMAIN formats, w \in WordsTo(formats, f)[FieldCount(formats, f)]
      PROVE  s \in R
  <2>1. FieldCount(formats, f) \in Nat
    BY SizeIsNat
  <2>2. On(formats, f, FieldCount(formats, f) + 1, 0, w)
    BY <1>6, <2>1 DEF On
  <2>3. <<f, FieldCount(formats, f) + 1, 0>> \in order[s]
    BY <1>6, <2>1, <2>2 DEF Denote
  <2>4. formats[f].name \in Accepting(s)
    BY <2>3 DEF Accepting, Fields, FieldCount
  <2> QED BY <1>4, <2>4
<1> DEFINE P(m) == \A s \in 1 .. n : \A w, x \in Seq(Symbols) : \A f \in DOMAIN formats :
                     order[s] = Denote(formats, w) /\ Len(x) = m
                     /\ w \o x \in WordsTo(formats, f)[FieldCount(formats, f)] => s \in R
           T == {m \in Nat : P(m)}
<1>7. P(0)
  <2> SUFFICES ASSUME NEW s \in 1 .. n, NEW w \in Seq(Symbols), NEW x \in Seq(Symbols),
                      NEW f \in DOMAIN formats, order[s] = Denote(formats, w), Len(x) = 0,
                      w \o x \in WordsTo(formats, f)[FieldCount(formats, f)]
               PROVE  s \in R
    OBVIOUS
  <2>1. x = <<>> /\ w \o x = w
    BY EmptySeq
  <2> QED BY <2>1, <1>6
<1>8. ASSUME NEW m \in Nat, P(m) PROVE P(m + 1)
  <2> SUFFICES ASSUME NEW s \in 1 .. n, NEW w \in Seq(Symbols), NEW x \in Seq(Symbols),
                      NEW f \in DOMAIN formats, order[s] = Denote(formats, w), Len(x) = m + 1,
                      w \o x \in WordsTo(formats, f)[FieldCount(formats, f)]
               PROVE  s \in R
    BY Zenon
  <2> DEFINE c == Head(x)
             y == Tail(x)
             v == Append(w, c)
  <2>1. c \in Symbols /\ y \in Seq(Symbols) /\ Len(y) = m /\ v \in Seq(Symbols)
    BY EmptySeq
  <2>2. v \o y = w \o x
    <3>1. x = <<c>> \o y
      BY HeadTailProperties
    <3>2. v = w \o <<c>> /\ <<c>> \in Seq(Symbols)
      BY <2>1, AppendIsConcat
    <3>3. (w \o <<c>>) \o y = w \o (<<c>> \o y)
      BY <2>1, <3>2, ConcatAssociative
    <3> QED BY <3>1, <3>2, <3>3
  <2> HIDE DEF c, y
  <2>3. RowOf(formats, order, order[s], delta[s]) /\ Len(delta[s]) = Cardinality(Symbols)
    BY DEF Rows, n
  <2>4. c \in 1 .. Len(delta[s])
    BY <2>1, <2>3, SymbolsAssumption
  <2>5. Leads(order, Denote(formats, v), delta[s][c])
    BY <2>3, <2>4 DEF RowOf
  <2> HIDE DEF v
  <2>6. Denote(formats, v) # {}
    <3>1. w \o x \in FormatWords(f)
      BY FormatWordsAre
    <3>2. Len(v) \in 0 .. Len(w \o x) /\ SubSeq(w \o x, 1, Len(v)) = v
      <4>1. Len(v) \in Nat /\ Len(y) \in Nat /\ Len(v \o y) = Len(v) + Len(y) /\ v \o y \in Seq(Symbols)
        BY <2>1, ConcatProperties, LenProperties
      <4>2. Len(SubSeq(v \o y, 1, Len(v))) = Len(v) /\ SubSeq(v \o y, 1, Len(v)) \in Seq(Symbols)
        BY <4>1
      <4>3. ASSUME NEW k \in 1 .. Len(v) PROVE SubSeq(v \o y, 1, Len(v))[k] = v[k]
        <5>1. SubSeq(v \o y, 1, Len(v))[k] = (v \o y)[k]
          BY <4>1
        <5>2. (v \o y)[k] = v[k]
          BY <2>1
        <5> QED BY <5>1, <5>2
      <4>4. SubSeq(v \o y, 1, Len(v)) = v
        BY <2>1, <4>2, <4>3, SeqEqual
      <4> QED BY <2>2, <4>1, <4>4
    <3>3. Begins(formats, f, v)
      BY <3>1, <3>2, PrefixBegins
    <3> QED BY <3>3 DEF Begins
  <2>7. delta[s][c] \in 1 .. n /\ order[delta[s][c]] = Denote(formats, v)
    BY <2>5, <2>6 DEF Leads, n
  <2>8. delta[s][c] \in R
    BY <1>8, <2>1, <2>2, <2>7
  <2> QED BY <1>5, <2>1, <2>8
<1> HIDE DEF P
<1>9. T = Nat
  <2>1. T \in SUBSET Nat /\ 0 \in T /\ \A k \in T : k + 1 \in T
    BY <1>7, <1>8
  <2> QED BY <2>1, Induction
<1>10. ASSUME NEW s \in 1 .. n PROVE s \in R
  <2>1. Reachable(formats, order[s])
    BY DEF Found, n
  <2>2. PICK w \in Seq(Symbols) : order[s] = Denote(formats, w)
    BY <2>1 DEF Reachable
  <2>3. PICK q \in Denote(formats, w) : TRUE
    BY <2>1, <2>2 DEF Reachable
  <2>4. q[1] \in DOMAIN formats
    BY <2>3 DEF Denote
  <2>5. PICK x \in Seq(Symbols) : w \o x \in WordsTo(formats, q[1])[FieldCount(formats, q[1])]
    BY <2>3, Completable
  <2>6. P(Len(x)) /\ Len(x) \in Nat
    BY <1>9
  <2> QED BY <2>2, <2>4, <2>5, <2>6 DEF P
<1> QED BY <1>2, <1>4, <1>10 DEF n

-----------------------------------------------------------------------------
(***************************************************************************)
(* The refinement of the partition.                                        *)
(***************************************************************************)
\* Grammar!Target as an operator of the rows and blocks.
TargetIn(d, B, s, c) == IF d[s][c] \in DOMAIN B THEN B[d[s][c]] ELSE {}

\* The blocks are a partition whose members accept and know the same formats.
Blocks ==
  /\ block \in [1 .. Len(order) -> SUBSET (1 .. Len(order))]
  /\ \A s \in 1 .. Len(order) : s \in block[s]
  /\ \A s \in 1 .. Len(order) : \A r \in block[s] :
       /\ block[r] = block[s]
       /\ AcceptedBy(formats, order[r]) = AcceptedBy(formats, order[s])
       /\ KnownBy(formats, order[r]) = KnownBy(formats, order[s])

\* The invariant of the refinement.
Settled == Found /\ Rows /\ Len(delta) = Len(order) /\ Blocks

\* Members of one block lead to the same blocks.
Stable == \A s \in 1 .. Len(order) : \A r \in block[s] : \A c \in Symbols :
            TargetIn(delta, block, r, c) = TargetIn(delta, block, s, c)

\* The names the model uses are those of the sets.
LEMMA NamesAre ==
  ASSUME NEW s
  PROVE  Accepting(s) = AcceptedBy(formats, order[s]) /\ Possible(s) = KnownBy(formats, order[s])
BY Zenon DEF Accepting, Possible, AcceptedBy, KnownBy, Fields

\* The first partition establishes the invariant of the refinement.
LEMMA PartitionSettles ==
  ASSUME formats \in Seq(PlateFormat), Determinising, Partition
  PROVE  Settled' /\ filling' = <<>> /\ Emptied'
<1>1. /\ formats' = formats /\ order' = order /\ delta' = delta /\ automaton' = automaton
      /\ filling' = <<>> /\ Len(delta) = Len(order)
  BY DEF Partition
<1>2. Live = 1 .. Len(order)
  BY <1>1, LiveAll DEF Determinising
<1>3. PICK odd \in Spellings :
        LET live == Live
        IN  block' = [s \in live |-> {r \in live : /\ Accepting(r) = Accepting(s)
                                                   /\ Possible(r) = Possible(s)
                                                   /\ (r \in odd) = (s \in odd)}]
  BY DEF Partition
<1> DEFINE live == 1 .. Len(order)
           A(s) == AcceptedBy(formats, order[s])
           K(s) == KnownBy(formats, order[s])
           O(s) == s \in odd
<1>4. block' = [s \in live |-> {r \in live : A(r) = A(s) /\ K(r) = K(s) /\ O(r) = O(s)}]
  BY <1>2, <1>3, NamesAre
<1> HIDE DEF live, A, K, O
<1>5. \A s \in live : block'[s] = {r \in live : A(r) = A(s) /\ K(r) = K(s) /\ O(r) = O(s)}
  BY <1>4
<1>6. ASSUME NEW s \in live, NEW r \in block'[s]
      PROVE  r \in live /\ block'[r] = block'[s] /\ A(r) = A(s) /\ K(r) = K(s)
  <2>1. r \in live /\ A(r) = A(s) /\ K(r) = K(s) /\ O(r) = O(s)
    BY <1>5
  <2> QED BY <2>1, <1>5
<1>7. block' \in [live -> SUBSET live]
  BY <1>4
<1>8. \A s \in live : s \in block'[s]
  BY <1>5
<1>9. Blocks'
  BY <1>1, <1>6, <1>7, <1>8 DEF Blocks, live, A, K
<1>10. Found' /\ Rows' /\ Emptied'
  BY <1>1 DEF Determinising, Found, Rows, Emptied
<1> QED BY <1>1, <1>9, <1>10 DEF Settled

\* A round splits blocks and never joins them.
LEMMA RefinedSplits ==
  ASSUME Blocks
  PROVE  /\ Refined \in [1 .. Len(order) -> SUBSET (1 .. Len(order))]
         /\ \A s \in 1 .. Len(order) : s \in Refined[s]
         /\ \A s \in 1 .. Len(order) : \A r \in Refined[s] :
              /\ r \in block[s] /\ Refined[r] = Refined[s]
              /\ \A c \in Symbols : TargetIn(delta, block, r, c) = TargetIn(delta, block, s, c)
<1> DEFINE live == 1 .. Len(order)
           T(r, c) == TargetIn(delta, block, r, c)
<1>1. DOMAIN block = live /\ block \in [live -> SUBSET live]
  BY DEF Blocks
<1>2. Refined = [s \in live |-> {r \in block[s] : \A c \in Symbols : T(r, c) = T(s, c)}]
  BY <1>1, Zenon DEF Refined, Target, TargetIn
<1> HIDE DEF T
<1>3. \A s \in live : Refined[s] = {r \in block[s] : \A c \in Symbols : T(r, c) = T(s, c)}
  BY <1>2
<1>4. ASSUME NEW s \in live, NEW r \in Refined[s]
      PROVE  r \in live /\ r \in block[s] /\ Refined[r] = Refined[s] /\ \A c \in Symbols : T(r, c) = T(s, c)
  <2>1. r \in block[s] /\ \A c \in Symbols : T(r, c) = T(s, c)
    BY <1>3
  <2>2. r \in live /\ block[r] = block[s]
    BY <1>1, <2>1 DEF Blocks
  <2>3. \A q : q \in Refined[r] <=> q \in block[r] /\ \A c \in Symbols : T(q, c) = T(r, c)
    BY <1>3, <2>2
  <2>4. \A q : q \in Refined[s] <=> q \in block[s] /\ \A c \in Symbols : T(q, c) = T(s, c)
    BY <1>3
  <2>5. \A q : q \in Refined[r] <=> q \in Refined[s]
    BY <2>1, <2>2, <2>3, <2>4
  <2>6. Refined[r] \subseteq live /\ Refined[s] \subseteq live
    BY <1>1, <2>2, <2>3, <2>4
  <2>7. Refined[r] = Refined[s]
    <3> DEFINE A == Refined[r]
               B == Refined[s]
    <3>1. \A q : q \in A <=> q \in B
      BY <2>5
    <3> HIDE DEF A, B
    <3>2. A = B
      BY <3>1
    <3> QED BY <3>2 DEF A, B
  <2> QED BY <2>1, <2>2, <2>7
<1>5. Refined \in [live -> SUBSET live]
  BY <1>1, <1>2
<1>6. \A s \in live : s \in Refined[s]
  BY <1>3 DEF Blocks
<1> QED BY <1>4, <1>5, <1>6 DEF T

\* A round that leaves the number of blocks alone splits none: the loop's test, which counts
\* blocks, detects stability.
LEMMA StableAtFixedPoint ==
  ASSUME Blocks, Len(order) \in Nat, Cardinality(Range(Refined)) = Cardinality(Range(block))
  PROVE  Stable
<1> DEFINE live == 1 .. Len(order)
           S == Range(Refined)
           T == Range(block)
           h == [B \in S |-> block[CHOOSE s \in B : TRUE]]
           g == [s \in live |-> Refined[s]]
<1>1. /\ Refined \in [live -> SUBSET live]
      /\ \A s \in live : s \in Refined[s]
      /\ \A s \in live : \A r \in Refined[s] :
              /\ r \in block[s] /\ Refined[r] = Refined[s]
              /\ \A c \in Symbols : TargetIn(delta, block, r, c) = TargetIn(delta, block, s, c)
  BY RefinedSplits
<1>2. /\ block \in [live -> SUBSET live] /\ \A s \in live : s \in block[s]
      /\ \A s \in live : \A r \in block[s] : r \in live /\ block[r] = block[s]
  BY DEF Blocks
<1>3. S = {Refined[s] : s \in live} /\ T = {block[s] : s \in live}
  BY <1>1, <1>2 DEF Range
<1> HIDE DEF S, T
<1>4. IsFiniteSet(S)
  <2>1. g \in Surjection(live, S)
    BY <1>3 DEF Surjection
  <2>2. IsFiniteSet(live)
    BY FS_Interval
  <2> HIDE DEF g
  <2> QED BY <2>1, <2>2, FS_Surjection
<1>5. ASSUME NEW s \in live PROVE Refined[s] \in S /\ h[Refined[s]] = block[s]
  <2>1. Refined[s] \in S
    BY <1>3
  <2>2. h[Refined[s]] = block[CHOOSE r \in Refined[s] : TRUE]
    BY <2>1
  <2>3. (CHOOSE r \in Refined[s] : TRUE) \in Refined[s]
    BY <1>1
  <2> QED BY <1>1, <1>2, <2>1, <2>2, <2>3
<1>6. h \in Surjection(S, T)
  <2>1. ASSUME NEW B \in S PROVE h[B] \in T
    <3>1. PICK s \in live : B = Refined[s]
      BY <1>3
    <3>2. block[s] \in T
      BY <1>3
    <3> HIDE DEF h
    <3> QED BY <1>5, <3>1, <3>2
  <2>2. h \in [S -> T]
    BY <2>1
  <2>3. \A b \in T : \E B \in S : h[B] = b
    <3> HIDE DEF h
    <3> QED BY <1>3, <1>5
  <2> HIDE DEF h
  <2> QED BY <2>2, <2>3 DEF Surjection
<1> HIDE DEF h
<1>7. h \in Injection(S, T)
  <2>1. Cardinality(T) = Cardinality(S)
    BY DEF S, T
  <2> QED BY <1>4, <1>6, <2>1, FS_Surjection
<1>8. ASSUME NEW s \in live, NEW r \in block[s], NEW c \in Symbols
      PROVE  TargetIn(delta, block, r, c) = TargetIn(delta, block, s, c)
  <2>1. r \in live /\ block[r] = block[s]
    BY <1>2
  <2>2. h[Refined[r]] = h[Refined[s]] /\ Refined[r] \in S /\ Refined[s] \in S
    BY <1>5, <2>1
  <2>3. Refined[r] = Refined[s]
    BY <1>7, <2>2 DEF Injection, IsInjective
  <2>4. r \in Refined[s]
    BY <1>1, <2>1, <2>3
  <2> QED BY <1>1, <2>4
<1> QED BY <1>8 DEF Stable

\* The numbered blocks are blocks, the first one that of the start state.
Numbered ==
  /\ numbered \in Seq(SUBSET (1 .. Len(order))) /\ 1 <= Len(numbered) /\ numbered[1] = block[1]
  /\ \A i \in 1 .. Len(numbered) : \E s \in 1 .. Len(order) : numbered[i] = block[s]

\* A row of the minimal automaton: where the representative of b goes.
BlockRow(list, d, B, b, row) ==
  /\ row \in Seq(Nat)
  /\ \A c \in 1 .. Len(row) : Leads(list, TargetIn(d, B, Representative(b), c), row[c])

\* The rows and names of the numbered blocks are those of their representatives.
Transitions ==
  /\ automaton.delta \in Seq(Seq(Nat)) /\ Len(automaton.delta) <= Len(numbered)
  /\ automaton.accepting \in Seq(SUBSET Nat) /\ Len(automaton.accepting) = Len(automaton.delta)
  /\ automaton.possible \in Seq(SUBSET Nat) /\ Len(automaton.possible) = Len(automaton.delta)
  /\ \A i \in 1 .. Len(automaton.delta) :
       /\ BlockRow(numbered, delta, block, numbered[i], automaton.delta[i])
       /\ Len(automaton.delta[i]) = Cardinality(Symbols)
       /\ automaton.accepting[i] = AcceptedBy(formats, order[Representative(numbered[i])])
       /\ automaton.possible[i] = KnownBy(formats, order[Representative(numbered[i])])

\* And so are the entries of the row that is being filled.
FillingBlock ==
  /\ filling \in Seq(Nat) /\ Len(filling) <= Cardinality(Symbols)
  /\ filling # <<>> => /\ Len(automaton.delta) < Len(numbered)
                       /\ BlockRow(numbered, delta, block, numbered[Len(automaton.delta) + 1], filling)

\* The invariant of the renumbering.
Minimised == Settled /\ Stable /\ Numbered /\ Transitions

\* A round keeps the invariant of the refinement; the last one establishes that of the renumbering.
LEMMA RefineKeeps ==
  ASSUME Settled, filling = <<>>, Emptied, Refine
  PROVE  /\ pc' = "refine" => Settled' /\ filling' = <<>> /\ Emptied'
         /\ pc' # "refine" => pc' = "renumber" /\ Minimised' /\ FillingBlock'
<1>1. /\ formats' = formats /\ order' = order /\ delta' = delta /\ automaton' = automaton
      /\ filling' = filling /\ pc = "refine"
  BY DEF Refine
<1>2. Emptied' /\ filling' = <<>> /\ Found' /\ Rows' /\ Len(delta') = Len(order')
  BY <1>1 DEF Emptied, Settled, Found, Rows
<1>3. CASE Cardinality(Range(Refined)) = Cardinality(Range(block))
  <2>1. pc' = "renumber" /\ numbered' = <<block[1]>> /\ block' = block
    BY <1>3 DEF Refine
  <2>2. Len(order) \in Nat /\ 1 \in 1 .. Len(order)
    BY DEF Settled, Found
  <2>3. Stable
    BY <1>3, <2>2, StableAtFixedPoint DEF Settled
  <2>4. Settled' /\ Stable'
    BY <1>1, <1>2, <2>1, <2>3 DEF Settled, Stable, Blocks
  <2>5. Numbered'
    <3> DEFINE V == SUBSET (1 .. Len(order))
               b == block[1]
    <3>1. b \in V
      BY <2>2 DEF Settled, Blocks
    <3>2. numbered' = <<b>>
      BY <2>1
    <3> HIDE DEF V, b
    <3>3. numbered' \in Seq(V) /\ Len(numbered') = 1 /\ numbered'[1] = b
      BY <3>1, <3>2
    <3>4. \A i \in 1 .. Len(numbered') : \E s \in 1 .. Len(order) : numbered'[i] = block[s]
      BY <2>2, <3>3 DEF b
    <3> QED BY <1>1, <2>1, <3>3, <3>4 DEF Numbered, V, b
  <2>6. Transitions'
    <3>1. Len(automaton'.delta) = 0 /\ Len(automaton'.accepting) = 0 /\ Len(automaton'.possible) = 0
      BY <1>2 DEF Emptied
    <3>2. automaton'.delta \in Seq(Seq(Nat)) /\ automaton'.accepting \in Seq(SUBSET Nat)
          /\ automaton'.possible \in Seq(SUBSET Nat)
      BY <1>2 DEF Emptied
    <3>3. 1 <= Len(numbered')
      BY <2>5 DEF Numbered
    <3> QED BY <3>1, <3>2, <3>3, <2>5 DEF Transitions, Numbered
  <2>7. FillingBlock'
    <3>1. filling' = <<>>
      BY <1>2
    <3> QED BY <3>1, SymbolsAssumption DEF FillingBlock
  <2> QED BY <2>1, <2>4, <2>5, <2>6, <2>7 DEF Minimised
<1>4. CASE Cardinality(Range(Refined)) # Cardinality(Range(block))
  <2>1. block' = Refined /\ pc' = pc
    BY <1>4 DEF Refine
  <2>2. /\ Refined \in [1 .. Len(order) -> SUBSET (1 .. Len(order))]
        /\ \A s \in 1 .. Len(order) : s \in Refined[s]
        /\ \A s \in 1 .. Len(order) : \A r \in Refined[s] :
              r \in block[s] /\ Refined[r] = Refined[s]
    BY RefinedSplits DEF Settled
  <2> DEFINE N == Refined
  <2>3. \A s \in 1 .. Len(order) : \A r \in N[s] :
              /\ N[r] = N[s]
              /\ AcceptedBy(formats, order[r]) = AcceptedBy(formats, order[s])
              /\ KnownBy(formats, order[r]) = KnownBy(formats, order[s])
    BY <2>2 DEF Settled, Blocks
  <2>4. block' = N
    BY <2>1
  <2> HIDE DEF N
  <2>5. Blocks'
    BY <1>1, <2>2, <2>3, <2>4 DEF Blocks, N
  <2> QED BY <1>1, <1>2, <2>1, <2>5 DEF Settled
<1> QED BY <1>3, <1>4

-----------------------------------------------------------------------------
(***************************************************************************)
(* The renumbering of the blocks.                                          *)
(***************************************************************************)
\* A block has a representative.
LEMMA RepresentativeIs ==
  ASSUME Settled, NEW s \in 1 .. Len(order)
  PROVE  Representative(block[s]) \in block[s]
<1>1. block[s] \in SUBSET Nat /\ s \in block[s]
  BY DEF Settled, Blocks
<1>2. \E n \in block[s] : \A m \in block[s] : n <= m
  BY <1>1, LeastOf
<1> QED BY <1>2, Zenon DEF Representative

\* Grammar!Target is TargetIn of the current rows and blocks.
LEMMA TargetIs ==
  ASSUME NEW s, NEW c
  PROVE  Target(s, c) = TargetIn(delta, block, s, c)
BY Zenon DEF Target, TargetIn

\* A target is a block, or empty.
LEMMA TargetIsBlock ==
  ASSUME Settled, NEW s, NEW c
  PROVE  /\ TargetIn(delta, block, s, c) \in SUBSET (1 .. Len(order))
         /\ TargetIn(delta, block, s, c) # {} =>
              \E r \in 1 .. Len(order) : TargetIn(delta, block, s, c) = block[r]
BY DEF Settled, Blocks, TargetIn

\* Names are numbers.
LEMMA NamedAre ==
  ASSUME formats \in Seq(PlateFormat), NEW S \in SUBSET Node(formats)
  PROVE  AcceptedBy(formats, S) \in SUBSET Nat /\ KnownBy(formats, S) \in SUBSET Nat
<1>1. ASSUME NEW q \in S PROVE formats[q[1]].name \in Nat
  <2>1. q[1] \in DOMAIN formats
    BY DEF Node
  <2>2. formats[q[1]] \in PlateFormat
    BY <2>1
  <2> QED BY <2>2 DEF PlateFormat
<1> QED BY <1>1 DEF AcceptedBy, KnownBy

\* A row keeps its meaning when further blocks are numbered.
LEMMA BlockRowStill ==
  ASSUME NEW V, NEW known \in Seq(V), NEW list \in Seq(V), Len(known) <= Len(list),
         \A i \in 1 .. Len(known) : list[i] = known[i], NEW d, NEW B, NEW b, NEW row,
         BlockRow(known, d, B, b, row)
  PROVE  BlockRow(list, d, B, b, row)
<1>1. \A target, n : Leads(known, target, n) => Leads(list, target, n)
  BY LeadsStill
<1> QED BY <1>1, Zenon DEF BlockRow

\* An entry keeps the invariant of the renumbering, ...
LEMMA RenumberKeeps ==
  ASSUME Minimised, FillingBlock, Renumber
  PROVE  Minimised' /\ FillingBlock'
<1> DEFINE i == Len(automaton.delta) + 1
           rep == Representative(numbered[i])
           c == Len(filling) + 1
           target == TargetIn(delta, block, rep, c)
           V == SUBSET (1 .. Len(order))
<1>1. /\ formats' = formats /\ order' = order /\ delta' = delta /\ block' = block
      /\ automaton' = automaton
      /\ Len(automaton.delta) < Len(numbered) /\ Len(filling) # Cardinality(Symbols)
      /\ numbered' = Enlisted(numbered, target)
      /\ filling' = Append(filling, Place(numbered', target))
  BY TargetIs DEF Renumber, RowIsFull
<1>2. target \in V /\ (target # {} => \E r \in 1 .. Len(order) : target = block[r])
  BY TargetIsBlock DEF Minimised
<1>3. numbered \in Seq(V)
  BY DEF Minimised, Numbered
<1>4. i \in 1 .. Len(numbered)
  BY <1>1, <1>3 DEF Minimised, Transitions
<1> HIDE DEF target, V
<1>5. /\ numbered' \in Seq(V) /\ Len(numbered) <= Len(numbered')
      /\ \A k \in 1 .. Len(numbered) : numbered'[k] = numbered[k]
      /\ \A k \in 1 .. Len(numbered') : k \in 1 .. Len(numbered) \/ (numbered'[k] = target /\ target # {})
      /\ Leads(numbered', target, Place(numbered', target)) /\ Place(numbered', target) \in Nat
  <2>1. LET list == Enlisted(numbered, target)
        IN  /\ list \in Seq(V) /\ Len(numbered) <= Len(list)
            /\ \A k \in 1 .. Len(numbered) : list[k] = numbered[k]
            /\ \A k \in 1 .. Len(list) : k \in 1 .. Len(numbered) \/ (list[k] = target /\ target # {})
            /\ Leads(list, target, Place(list, target))
            /\ Place(list, target) \in Nat
    BY <1>2, <1>3, EnlistedIs
  <2> QED BY <1>1, <2>1
<1>6. Settled' /\ Stable'
  BY <1>1 DEF Minimised, Settled, Stable, Found, Rows, Blocks
<1>7. Numbered'
  <2>1. 1 <= Len(numbered') /\ numbered'[1] = block[1]
    BY <1>3, <1>5 DEF Minimised, Numbered
  <2>2. ASSUME NEW k \in 1 .. Len(numbered') PROVE \E s \in 1 .. Len(order) : numbered'[k] = block[s]
    <3>1. CASE k \in 1 .. Len(numbered)
      BY <3>1, <1>5 DEF Minimised, Numbered
    <3>2. CASE numbered'[k] = target /\ target # {}
      BY <3>2, <1>2
    <3> QED BY <3>1, <3>2, <1>5
  <2> QED BY <1>1, <1>5, <2>1, <2>2 DEF Numbered, V
<1>8. \A b, row : BlockRow(numbered, delta, block, b, row) => BlockRow(numbered', delta, block, b, row)
  BY <1>3, <1>5, BlockRowStill
<1>9. Transitions'
  <2>1. /\ automaton.delta \in Seq(Seq(Nat)) /\ Len(automaton.delta) <= Len(numbered')
        /\ automaton.accepting \in Seq(SUBSET Nat) /\ Len(automaton.accepting) = Len(automaton.delta)
        /\ automaton.possible \in Seq(SUBSET Nat) /\ Len(automaton.possible) = Len(automaton.delta)
    BY <1>3, <1>5 DEF Minimised, Transitions
  <2>2. ASSUME NEW k \in 1 .. Len(automaton.delta)
        PROVE  /\ BlockRow(numbered', delta, block, numbered'[k], automaton.delta[k])
               /\ Len(automaton.delta[k]) = Cardinality(Symbols)
               /\ automaton.accepting[k] = AcceptedBy(formats, order[Representative(numbered'[k])])
               /\ automaton.possible[k] = KnownBy(formats, order[Representative(numbered'[k])])
    <3>1. k \in 1 .. Len(numbered)
      BY <1>3, <1>4
    <3>2. numbered'[k] = numbered[k]
      BY <1>5, <3>1
    <3> QED BY <3>2, <1>8 DEF Minimised, Transitions
  <2> QED BY <1>1, <2>1, <2>2 DEF Transitions
<1>10. FillingBlock'
  <2>1. filling \in Seq(Nat) /\ Len(filling) < Cardinality(Symbols)
    BY <1>1, SymbolsAssumption DEF FillingBlock
  <2>2. BlockRow(numbered', delta, block, numbered[i], filling)
    <3>1. CASE filling = <<>>
      BY <3>1 DEF BlockRow
    <3>2. CASE filling # <<>>
      BY <3>2, <1>8 DEF FillingBlock
    <3> QED BY <3>1, <3>2
  <2>3. filling' \in Seq(Nat) /\ Len(filling') = Len(filling) + 1 /\ filling' # <<>>
    BY <1>1, <1>5, <2>1
  <2>4. ASSUME NEW k \in 1 .. Len(filling')
        PROVE  Leads(numbered', TargetIn(delta, block, rep, k), filling'[k])
    <3>1. CASE k = Len(filling) + 1
      <4>1. filling'[k] = Place(numbered', target)
        BY <1>1, <2>1, <3>1
      <4> QED BY <1>5, <3>1, <4>1 DEF target
    <3>2. CASE k # Len(filling) + 1
      <4>1. k \in 1 .. Len(filling) /\ filling'[k] = filling[k]
        BY <1>1, <2>1, <2>3, <3>2
      <4> QED BY <2>2, <4>1 DEF BlockRow
    <3> QED BY <3>1, <3>2
  <2>5. numbered'[i] = numbered[i]
    BY <1>4, <1>5
  <2>6. BlockRow(numbered', delta, block, numbered'[i], filling')
    BY <2>3, <2>4, <2>5 DEF BlockRow
  <2>7. Len(automaton.delta) < Len(numbered')
    BY <1>3, <1>4, <1>5
  <2> QED BY <1>1, <2>1, <2>3, <2>6, <2>7, SymbolsAssumption DEF FillingBlock
<1> QED BY <1>6, <1>7, <1>9, <1>10 DEF Minimised

\* ... and the end of a row keeps it.
LEMMA EndBlockKeeps ==
  ASSUME formats \in Seq(PlateFormat), Minimised, FillingBlock, EndBlock
  PROVE  Minimised' /\ FillingBlock'
<1> DEFINE n == Len(automaton.delta)
           rep == Representative(numbered[n + 1])
           A == AcceptedBy(formats, order[rep])
           K == KnownBy(formats, order[rep])
<1>1. /\ formats' = formats /\ order' = order /\ delta' = delta /\ block' = block
      /\ numbered' = numbered /\ filling' = <<>> /\ Len(filling) = Cardinality(Symbols)
  BY DEF EndBlock, RowIsFull
<1>2. /\ automaton'.delta = Append(automaton.delta, filling)
      /\ automaton'.accepting = Append(automaton.accepting, A)
      /\ automaton'.possible = Append(automaton.possible, K)
  BY NamesAre DEF EndBlock
<1>3. filling \in Seq(Nat) /\ filling # <<>>
  BY <1>1, SymbolsAssumption DEF FillingBlock
<1>4. n < Len(numbered) /\ BlockRow(numbered, delta, block, numbered[n + 1], filling)
  BY <1>3 DEF FillingBlock
<1>5. n \in Nat /\ n + 1 \in 1 .. Len(numbered)
  BY <1>4 DEF Minimised, Transitions, Numbered
<1>6. A \in SUBSET Nat /\ K \in SUBSET Nat
  <2>1. PICK s \in 1 .. Len(order) : numbered[n + 1] = block[s]
    BY <1>5 DEF Minimised, Numbered
  <2>2. rep \in block[s]
    BY <2>1, RepresentativeIs DEF Minimised
  <2>3. rep \in 1 .. Len(order)
    BY <2>2 DEF Minimised, Settled, Blocks
  <2>4. order[rep] \in SUBSET Node(formats)
    BY <2>3 DEF Minimised, Settled, Found
  <2> QED BY <2>4, NamedAre
<1> HIDE DEF A, K, rep
<1>7. Settled' /\ Stable' /\ Numbered'
  <2>1. Found' /\ Rows' /\ Blocks'
    BY <1>1 DEF Minimised, Settled, Found, Rows, Blocks
  <2>2. Settled'
    BY <1>1, <2>1 DEF Minimised, Settled
  <2>3. Stable'
    BY <1>1 DEF Minimised, Stable
  <2>4. Numbered'
    BY <1>1 DEF Minimised, Numbered
  <2>. QED  BY <2>2, <2>3, <2>4
<1>8. Transitions'
  <2> DEFINE W == SUBSET Nat
  <2>0. A \in W /\ K \in W
    BY <1>6
  <2>1. automaton.delta \in Seq(Seq(Nat)) /\ automaton.accepting \in Seq(W)
        /\ automaton.possible \in Seq(W) /\ Len(automaton.accepting) = n /\ Len(automaton.possible) = n
    BY DEF Minimised, Transitions
  <2> HIDE DEF W
  <2>2. /\ automaton'.delta \in Seq(Seq(Nat)) /\ Len(automaton'.delta) = n + 1
        /\ automaton'.accepting \in Seq(W) /\ Len(automaton'.accepting) = n + 1
        /\ automaton'.possible \in Seq(W) /\ Len(automaton'.possible) = n + 1
    <3> HIDE DEF n
    <3>1. /\ automaton'.delta \in Seq(Seq(Nat)) /\ Len(automaton'.delta) = Len(automaton.delta) + 1
      <4> DEFINE Z == Seq(Nat)
      <4>1. filling \in Z /\ automaton.delta \in Seq(Z)
        BY <1>3, <2>1
      <4> HIDE DEF Z
      <4>2. automaton'.delta \in Seq(Z) /\ Len(automaton'.delta) = Len(automaton.delta) + 1
        BY <1>2, <4>1
      <4> QED BY <4>2 DEF Z
    <3>2. /\ automaton'.accepting \in Seq(W) /\ Len(automaton'.accepting) = n + 1
      BY <1>2, <2>0, <2>1
    <3>3. /\ automaton'.possible \in Seq(W) /\ Len(automaton'.possible) = n + 1
      BY <1>2, <2>0, <2>1
    <3> QED BY <3>1, <3>2, <3>3 DEF n
  <2>3. n + 1 <= Len(numbered)
    BY <1>5
  <2>4. ASSUME NEW k \in 1 .. n + 1
        PROVE  /\ BlockRow(numbered, delta, block, numbered[k], automaton'.delta[k])
               /\ Len(automaton'.delta[k]) = Cardinality(Symbols)
               /\ automaton'.accepting[k] = AcceptedBy(formats, order[Representative(numbered[k])])
               /\ automaton'.possible[k] = KnownBy(formats, order[Representative(numbered[k])])
    <3>1. CASE k = n + 1
      <4>1. automaton'.delta[k] = filling /\ automaton'.accepting[k] = A /\ automaton'.possible[k] = K
        BY <1>2, <1>5, <2>1, <3>1
      <4> QED BY <1>1, <1>4, <3>1, <4>1 DEF A, K, rep
    <3>2. CASE k # n + 1
      <4>1. k \in 1 .. n /\ automaton'.delta[k] = automaton.delta[k]
            /\ automaton'.accepting[k] = automaton.accepting[k]
            /\ automaton'.possible[k] = automaton.possible[k]
        BY <1>2, <1>5, <2>1, <3>2
      <4> QED BY <4>1 DEF Minimised, Transitions
    <3> QED BY <3>1, <3>2
  <2> HIDE DEF n
  <2>5. \A k \in 1 .. Len(automaton'.delta) :
               /\ BlockRow(numbered, delta, block, numbered[k], automaton'.delta[k])
               /\ Len(automaton'.delta[k]) = Cardinality(Symbols)
               /\ automaton'.accepting[k] = AcceptedBy(formats, order[Representative(numbered[k])])
               /\ automaton'.possible[k] = KnownBy(formats, order[Representative(numbered[k])])
    BY <2>2, <2>4
  <2>6. /\ automaton'.accepting \in Seq(SUBSET Nat) /\ automaton'.possible \in Seq(SUBSET Nat)
    BY <2>2 DEF W
  <2>7. Len(automaton'.delta) <= Len(numbered) /\ Len(automaton'.accepting) = Len(automaton'.delta)
        /\ Len(automaton'.possible) = Len(automaton'.delta)
    BY <2>2, <2>3
  <2> QED BY <1>1, <2>2, <2>5, <2>6, <2>7 DEF Transitions
<1>9. FillingBlock'
  BY <1>1, SymbolsAssumption DEF FillingBlock
<1> QED BY <1>7, <1>8, <1>9 DEF Minimised

-----------------------------------------------------------------------------
(***************************************************************************)
(* The whole construction.                                                 *)
(***************************************************************************)
\* The inductive invariant of compile, phase by phase.
CompileInv ==
  /\ formats \in Seq(PlateFormat)
  /\ pc \in {"check", "rejected", "determinise", "refine", "renumber", "compiled"}
  /\ pc = "check" => delta = <<>> /\ filling = <<>> /\ Emptied
  /\ pc = "determinise" => Determinising
  /\ pc = "refine" => Settled /\ filling = <<>> /\ Emptied
  /\ pc = "renumber" => Minimised /\ FillingBlock
  /\ pc = "compiled" => Minimised /\ Len(automaton.delta) = Len(numbered)

\* It holds at the beginning ...
LEMMA CompileInitInv ==
  ASSUME CompileInit
  PROVE  CompileInv
BY DeclarationsAssumption DEF CompileInit, CompileInv, Emptied

\* ... and every step keeps it.
LEMMA CompileNextInv ==
  ASSUME CompileInv, [CompileNext]_compileVars
  PROVE  CompileInv'
<1>0. formats \in Seq(PlateFormat)
  BY DEF CompileInv
<1>1. CASE Reject
  BY <1>1 DEF Reject, CompileInv
<1>2. CASE Start
  <2>1. delta = <<>> /\ filling = <<>> /\ Emptied /\ formats' = formats /\ pc' = "determinise"
    BY <1>2 DEF Start, CompileInv
  <2>2. Determinising'
    BY <1>0, <1>2, <2>1, StartDeterminises
  <2> QED BY <1>0, <2>1, <2>2 DEF CompileInv
<1>3. CASE Determinise
  <2>1. pc = "determinise" /\ pc' = pc /\ formats' = formats
    BY <1>3 DEF Determinise
  <2>2. Determinising'
    BY <1>0, <1>3, <2>1, DetermineKeeps DEF CompileInv
  <2> QED BY <1>0, <2>1, <2>2 DEF CompileInv
<1>4. CASE EndRow
  <2>1. pc = "determinise" /\ pc' = pc /\ formats' = formats
    BY <1>4 DEF EndRow
  <2>2. Determinising'
    BY <1>4, <2>1, EndRowKeeps DEF CompileInv
  <2> QED BY <1>0, <2>1, <2>2 DEF CompileInv
<1>5. CASE Partition
  <2>1. pc = "determinise" /\ pc' = "refine" /\ formats' = formats
    BY <1>5 DEF Partition
  <2>2. Settled' /\ filling' = <<>> /\ Emptied'
    BY <1>0, <1>5, <2>1, PartitionSettles DEF CompileInv
  <2> QED BY <1>0, <2>1, <2>2 DEF CompileInv
<1>6. CASE Refine
  <2>1. pc = "refine" /\ pc' \in {"refine", "renumber"} /\ formats' = formats
    BY <1>6 DEF Refine
  <2>2. Settled /\ filling = <<>> /\ Emptied
    BY <2>1 DEF CompileInv
  <2>3. /\ pc' = "refine" => Settled' /\ filling' = <<>> /\ Emptied'
        /\ pc' # "refine" => pc' = "renumber" /\ Minimised' /\ FillingBlock'
    BY <1>6, <2>2, RefineKeeps
  <2> QED BY <1>0, <2>1, <2>3 DEF CompileInv
<1>7. CASE Renumber
  <2>1. pc = "renumber" /\ pc' = pc /\ formats' = formats
    BY <1>7 DEF Renumber
  <2>2. Minimised' /\ FillingBlock'
    BY <1>7, <2>1, RenumberKeeps DEF CompileInv
  <2> QED BY <1>0, <2>1, <2>2 DEF CompileInv
<1>8. CASE EndBlock
  <2>1. pc = "renumber" /\ pc' = pc /\ formats' = formats
    BY <1>8 DEF EndBlock
  <2>2. Minimised' /\ FillingBlock'
    BY <1>0, <1>8, <2>1, EndBlockKeeps DEF CompileInv
  <2> QED BY <1>0, <2>1, <2>2 DEF CompileInv
<1>9. CASE Finish
  <2>1. /\ pc = "renumber" /\ pc' = "compiled" /\ formats' = formats /\ order' = order /\ delta' = delta
        /\ block' = block /\ numbered' = numbered /\ automaton' = automaton
        /\ Len(automaton.delta) = Len(numbered)
    BY <1>9 DEF Finish
  <2>2. Minimised
    BY <2>1 DEF CompileInv
  <2>3. Minimised'
    BY <2>1, <2>2 DEF Minimised, Settled, Stable, Found, Rows, Blocks, Numbered, Transitions
  <2> QED BY <1>0, <2>1, <2>3 DEF CompileInv
<1>10. CASE UNCHANGED compileVars
  <2>1. /\ formats' = formats /\ pc' = pc /\ order' = order /\ delta' = delta /\ filling' = filling
        /\ block' = block /\ numbered' = numbered /\ automaton' = automaton
    BY <1>10 DEF compileVars
  <2>2. (Found => Found') /\ (Rows => Rows') /\ (Filling => Filling') /\ (Emptied => Emptied')
    BY <2>1 DEF Found, Rows, Filling, Emptied
  <2>3. (Blocks => Blocks') /\ (Stable => Stable') /\ (Numbered => Numbered')
    BY <2>1 DEF Blocks, Stable, Numbered
  <2>4. (Transitions => Transitions') /\ (FillingBlock => FillingBlock')
    BY <2>1 DEF Transitions, FillingBlock
  <2>5. (Determinising => Determinising') /\ (Settled => Settled')
    BY <2>1, <2>2, <2>3 DEF Determinising, Settled
  <2>6. Minimised => Minimised'
    BY <2>3, <2>4, <2>5 DEF Minimised
  <2> QED BY <2>1, <2>2, <2>4, <2>5, <2>6 DEF CompileInv
<1> QED BY <1>1, <1>2, <1>3, <1>4, <1>5, <1>6, <1>7, <1>8, <1>9, <1>10 DEF CompileNext

\* The invariant holds of the whole construction.
THEOREM CompileIsSound == Compile => []CompileInv
<1>1. CompileInit => CompileInv
  BY CompileInitInv
<1>2. CompileInv /\ [CompileNext]_compileVars => CompileInv'
  BY CompileNextInv
<1> QED BY <1>1, <1>2, PTL DEF Compile

-----------------------------------------------------------------------------
(***************************************************************************)
(* Runs of the compiled automaton.                                         *)
(***************************************************************************)
\* The construction is over.
Ready == CompileInv /\ pc = "compiled"

\* step leads from a state to a state or to DEAD.
LEMMA StepKeepsState ==
  ASSUME Ready, NEW n \in 0 .. Len(automaton.delta), NEW c \in Symbols
  PROVE  StepTo(n, c) \in 0 .. Len(automaton.delta)
<1>1. CASE n = DEAD
  BY <1>1 DEF StepTo, DEAD, Ready, CompileInv, Minimised, Transitions
<1>2. CASE n # DEAD
  <2>1. n \in 1 .. Len(automaton.delta)
    BY <1>2 DEF DEAD
  <2>2. /\ BlockRow(numbered, delta, block, numbered[n], automaton.delta[n])
        /\ Len(automaton.delta[n]) = Cardinality(Symbols) /\ Len(automaton.delta) = Len(numbered)
    BY <2>1 DEF Ready, CompileInv, Minimised, Transitions
  <2>3. c \in 1 .. Len(automaton.delta[n])
    BY <2>2, SymbolsAssumption
  <2>4. PICK target : Leads(numbered, target, automaton.delta[n][c])
    BY <2>2, <2>3 DEF BlockRow
  <2>5. automaton.delta[n][c] \in 0 .. Len(automaton.delta)
    BY <2>2, <2>4 DEF Leads, DEAD, Ready, CompileInv, Minimised, Numbered
  <2> QED BY <1>2, <2>5 DEF StepTo
<1> QED BY <1>1, <1>2

\* The function inside Grammar!RunFrom.
Runs(n, w) == CHOOSE run : run = [i \in 0 .. Len(w) |-> IF i = 0 THEN n ELSE StepTo(run[i - 1], w[i])]

\* Runs satisfies the equations it is defined by.
LEMMA RunSteps ==
  ASSUME Ready, NEW n \in 0 .. Len(automaton.delta), NEW w \in Seq(Symbols)
  PROVE  /\ Runs(n, w) \in [0 .. Len(w) -> 0 .. Len(automaton.delta)]
         /\ Runs(n, w)[0] = n
         /\ \A i \in 1 .. Len(w) : Runs(n, w)[i] = StepTo(Runs(n, w)[i - 1], w[i])
         /\ RunFrom(n, w) = Runs(n, w)[Len(w)]
<1> DEFINE V == 0 .. Len(automaton.delta)
           m == Len(w)
           step == [i \in 1 .. m |-> [x \in V |-> StepTo(x, w[i])]]
<1>0. m \in Nat
  OBVIOUS
<1>1. ASSUME NEW i \in 1 .. m, NEW x \in V PROVE StepTo(x, w[i]) \in V
  <2>1. w[i] \in Symbols
    OBVIOUS
  <2> QED BY <2>1, StepKeepsState
<1>2. step \in [1 .. m -> [V -> V]]
  BY <1>1
<1>3. n \in V
  OBVIOUS
<1> HIDE DEF V, m
<1>4. PICK g \in [0 .. m -> V] : g[0] = n /\ \A i \in 1 .. m : g[i] = step[i][g[i - 1]]
  <2> HIDE DEF step
  <2>1. \E g : Recurs(g, m, V, n, step)
    BY <1>0, <1>2, <1>3, RecursionExists
  <2> QED BY <2>1 DEF Recurs
<1>5. ASSUME NEW i \in 1 .. m PROVE g[i] = StepTo(g[i - 1], w[i])
  <2>1. g[i - 1] \in V
    BY <1>0
  <2> QED BY <2>1, <1>4
<1>6. g = [i \in 0 .. m |-> IF i = 0 THEN n ELSE StepTo(g[i - 1], w[i])]
  BY <1>0, <1>4, <1>5
<1> DEFINE w0 == CHOOSE run : run = [i \in 0 .. m |-> IF i = 0 THEN n ELSE StepTo(run[i - 1], w[i])]
<1>7. w0 = [i \in 0 .. m |-> IF i = 0 THEN n ELSE StepTo(w0[i - 1], w[i])]
  <2> DEFINE Is(h) == h = [i \in 0 .. m |-> IF i = 0 THEN n ELSE StepTo(h[i - 1], w[i])]
  <2>1. Is(g)
    BY <1>6
  <2> HIDE DEF Is
  <2>2. Is(CHOOSE h : Is(h))
    BY <2>1, Zenon
  <2> QED BY <2>2 DEF Is
<1>8. Runs(n, w) = w0 /\ RunFrom(n, w) = w0[Len(w)]
  BY Zenon DEF Runs, RunFrom, m
<1> HIDE DEF w0
<1>9. w0[0] = n /\ \A i \in 1 .. m : w0[i] = StepTo(w0[i - 1], w[i])
  <2>1. \A i \in 0 .. m : w0[i] = IF i = 0 THEN n ELSE StepTo(w0[i - 1], w[i])
    BY <1>7
  <2> QED BY <1>0, <2>1
<1>10. \A i \in 0 .. m : w0[i] = g[i]
  <2>1. w0[0] = g[0]
    BY <1>4, <1>9
  <2>2. ASSUME NEW i \in 1 .. m, w0[i - 1] = g[i - 1] PROVE w0[i] = g[i]
    BY <2>2, <1>5, <1>9, Zenon
  <2> QED BY <1>0, <2>1, <2>2, RecursionUnique
<1>11. w0 \in [0 .. m -> V]
  BY <1>7, <1>10
<1> QED BY <1>8, <1>9, <1>11, Zenon DEF V, m

\* State n stands for the set S of NFA states.
Tracks(n, S) ==
  IF S = {} THEN n = DEAD
  ELSE n \in 1 .. Len(numbered)
       /\ \E s \in 1 .. Len(order) : order[s] = S /\ numbered[n] = block[s]

\* The start state stands for what the empty word denotes.
LEMMA TrackStart ==
  ASSUME Ready
  PROVE  Tracks(1, Denote(formats, <<>>))
<1>1. /\ order[1] = Denote(formats, <<>>) /\ 1 \in 1 .. Len(order) /\ Reachable(formats, order[1])
      /\ numbered[1] = block[1] /\ 1 \in 1 .. Len(numbered)
  BY DEF Ready, CompileInv, Minimised, Settled, Found, Numbered
<1> QED BY <1>1 DEF Tracks, Reachable

\* A step from the state of a block leads to the state of the block its members lead to.
LEMMA NumberStep ==
  ASSUME Ready, NEW n \in 1 .. Len(numbered), NEW s \in 1 .. Len(order), numbered[n] = block[s],
         NEW c \in Symbols
  PROVE  Leads(numbered, TargetIn(delta, block, s, c), StepTo(n, c))
<1>0. Minimised /\ Len(automaton.delta) = Len(numbered) /\ Settled /\ Stable
  BY DEF Ready, CompileInv, Minimised
<1> DEFINE rep == Representative(block[s])
<1>1. /\ BlockRow(numbered, delta, block, numbered[n], automaton.delta[n])
      /\ Len(automaton.delta[n]) = Cardinality(Symbols)
  BY <1>0 DEF Transitions, Minimised
<1>2. c \in 1 .. Len(automaton.delta[n])
  BY <1>1, SymbolsAssumption
<1>3. StepTo(n, c) = automaton.delta[n][c]
  BY DEF StepTo, DEAD
<1>4. Leads(numbered, TargetIn(delta, block, rep, c), StepTo(n, c))
  BY <1>1, <1>2, <1>3 DEF BlockRow
<1>5. rep \in block[s]
  BY <1>0, RepresentativeIs
<1>6. TargetIn(delta, block, rep, c) = TargetIn(delta, block, s, c)
  BY <1>0, <1>5 DEF Stable
<1> QED BY <1>4, <1>6

\* A step keeps track of what the word denotes ...
LEMMA TrackStep ==
  ASSUME Ready, NEW w \in Seq(Symbols), NEW c \in Symbols, NEW n, Tracks(n, Denote(formats, w))
  PROVE  Tracks(StepTo(n, c), Denote(formats, Append(w, c)))
<1>0. formats \in Seq(PlateFormat) /\ Minimised /\ Len(automaton.delta) = Len(numbered)
      /\ Settled /\ Len(delta) = Len(order) /\ Stable
  BY DEF Ready, CompileInv, Minimised, Settled
<1>1. CASE Denote(formats, w) = {}
  <2>1. Denote(formats, Append(w, c)) = {}
    BY <1>0, <1>1, BackOn
  <2> QED BY <1>1, <2>1 DEF Tracks, StepTo
<1>2. CASE Denote(formats, w) # {}
  <2>1. n \in 1 .. Len(numbered)
    BY <1>2 DEF Tracks
  <2>2. PICK s \in 1 .. Len(order) : order[s] = Denote(formats, w) /\ numbered[n] = block[s]
    BY <1>2 DEF Tracks
  <2> DEFINE t == delta[s][c]
             D == Denote(formats, Append(w, c))
             m == StepTo(n, c)
  <2>3. Leads(numbered, TargetIn(delta, block, s, c), m)
    BY <2>1, <2>2, NumberStep
  <2>5. Leads(order, D, t)
    <3>1. RowOf(formats, order, order[s], delta[s]) /\ Len(delta[s]) = Cardinality(Symbols)
      BY <1>0 DEF Settled, Rows
    <3>2. c \in 1 .. Len(delta[s])
      BY <3>1, SymbolsAssumption
    <3> QED BY <2>2, <3>1, <3>2 DEF RowOf
  <2>6. DOMAIN block = 1 .. Len(order) /\ \A r \in 1 .. Len(order) : r \in block[r]
    BY <1>0 DEF Settled, Blocks
  <2> HIDE DEF m, D
  <2>7. CASE D = {}
    <3>1. t \notin 1 .. Len(order)
      BY <2>5, <2>7 DEF Leads, DEAD
    <3>2. TargetIn(delta, block, s, c) = {}
      BY <2>6, <3>1 DEF TargetIn
    <3> QED BY <2>3, <2>7, <3>2 DEF Leads, Tracks, D, m
  <2>8. CASE D # {}
    <3>1. t \in 1 .. Len(order) /\ order[t] = D
      BY <2>5, <2>8 DEF Leads
    <3>2. TargetIn(delta, block, s, c) = block[t] /\ block[t] # {}
      BY <2>6, <3>1 DEF TargetIn
    <3>3. m \in 1 .. Len(numbered) /\ numbered[m] = block[t]
      BY <2>3, <3>2 DEF Leads
    <3> QED BY <2>8, <3>1, <3>3 DEF Tracks, D, m
  <2> QED BY <2>7, <2>8
<1> QED BY <1>1, <1>2

\* ... and so does a run from any state ...
LEMMA TrackOn ==
  ASSUME Ready, NEW u \in Seq(Symbols), NEW n \in 0 .. Len(automaton.delta),
         Tracks(n, Denote(formats, u)), NEW w \in Seq(Symbols)
  PROVE  Tracks(RunFrom(n, w), Denote(formats, u \o w))
<1> DEFINE g == Runs(n, w)
           P(i) == i <= Len(w) => Tracks(g[i], Denote(formats, u \o SubSeq(w, 1, i)))
           T == {i \in Nat : P(i)}
<1>1. /\ g[0] = n /\ \A i \in 1 .. Len(w) : g[i] = StepTo(g[i - 1], w[i])
      /\ RunFrom(n, w) = g[Len(w)]
  BY RunSteps
<1> HIDE DEF g
<1>2. P(0)
  <2>1. u \o SubSeq(w, 1, 0) = u
    OBVIOUS
  <2> QED BY <1>1, <2>1
<1>3. ASSUME NEW i \in Nat, P(i) PROVE P(i + 1)
  <2> SUFFICES ASSUME i + 1 <= Len(w) PROVE Tracks(g[i + 1], Denote(formats, u \o SubSeq(w, 1, i + 1)))
    OBVIOUS
  <2> DEFINE v == SubSeq(w, 1, i)
  <2>1. i + 1 \in 1 .. Len(w) /\ (i + 1) - 1 = i /\ i <= Len(w)
    OBVIOUS
  <2>2. v \in Seq(Symbols) /\ w[i + 1] \in Symbols /\ SubSeq(w, 1, i + 1) = Append(v, w[i + 1])
    BY <2>1
  <2>3. Tracks(g[i], Denote(formats, u \o v))
    BY <1>3, <2>1
  <2>4. g[i + 1] = StepTo(g[i], w[i + 1])
    BY <1>1, <2>1
  <2> HIDE DEF v
  <2>5. u \o v \in Seq(Symbols) /\ u \o Append(v, w[i + 1]) = Append(u \o v, w[i + 1])
    BY <2>2
  <2>6. Tracks(StepTo(g[i], w[i + 1]), Denote(formats, Append(u \o v, w[i + 1])))
    BY <2>2, <2>3, <2>5, TrackStep
  <2> QED BY <2>2, <2>4, <2>5, <2>6
<1> HIDE DEF P
<1>4. T = Nat
  <2>1. T \in SUBSET Nat /\ 0 \in T /\ \A i \in T : i + 1 \in T
    BY <1>2, <1>3
  <2> QED BY <2>1, Induction
<1>5. P(Len(w)) /\ SubSeq(w, 1, Len(w)) = w
  BY <1>4
<1>6. Len(w) <= Len(w)
  OBVIOUS
<1>7. Tracks(g[Len(w)], Denote(formats, u \o SubSeq(w, 1, Len(w))))
  BY <1>5, <1>6 DEF P
<1> QED BY <1>1, <1>5, <1>7, Zenon

\* ... or from the start.
LEMMA TrackRun ==
  ASSUME Ready, NEW w \in Seq(Symbols)
  PROVE  Tracks(RunOf(w), Denote(formats, w))
<1>1. 1 \in 0 .. Len(automaton.delta)
  BY DEF Ready, CompileInv, Minimised, Numbered
<1>2. <<>> \in Seq(Symbols) /\ <<>> \o w = w
  OBVIOUS
<1>3. Tracks(RunFrom(1, w), Denote(formats, <<>> \o w))
  BY <1>1, <1>2, TrackStart, TrackOn
<1> QED BY <1>2, <1>3 DEF RunOf

\* A state accepts and knows what the set it stands for accepts and knows.
LEMMA TrackNames ==
  ASSUME Ready, NEW S, NEW n, Tracks(n, S)
  PROVE  AcceptingFormats(n) = AcceptedBy(formats, S) /\ PossibleFormats(n) = KnownBy(formats, S)
<1>0. Minimised /\ Len(automaton.delta) = Len(numbered) /\ Settled
  BY DEF Ready, CompileInv, Minimised
<1>1. CASE S = {}
  BY <1>1 DEF Tracks, AcceptingFormats, PossibleFormats, AcceptedBy, KnownBy
<1>2. CASE S # {}
  <2>1. n \in 1 .. Len(numbered) /\ n # DEAD
    BY <1>2 DEF Tracks, DEAD
  <2>2. PICK s \in 1 .. Len(order) : order[s] = S /\ numbered[n] = block[s]
    BY <1>2 DEF Tracks
  <2> DEFINE rep == Representative(block[s])
  <2>3. /\ automaton.accepting[n] = AcceptedBy(formats, order[rep])
        /\ automaton.possible[n] = KnownBy(formats, order[rep])
    BY <1>0, <2>1, <2>2 DEF Minimised, Transitions
  <2>4. rep \in block[s]
    BY <1>0, RepresentativeIs
  <2>5. /\ AcceptedBy(formats, order[rep]) = AcceptedBy(formats, order[s])
        /\ KnownBy(formats, order[rep]) = KnownBy(formats, order[s])
    BY <1>0, <2>4 DEF Settled, Blocks
  <2> QED BY <2>1, <2>2, <2>3, <2>5 DEF AcceptingFormats, PossibleFormats
<1> QED BY <1>1, <1>2

\* After any word the automaton accepts the formats it belongs to, knows those it can become, and
\* allows the symbols that continue it.
LEMMA RunRecognises ==
  ASSUME Ready, NEW w \in Seq(Symbols)
  PROVE  /\ AcceptingFormats(RunOf(w)) = {formats[f].name : f \in {f \in DOMAIN formats : w \in FormatWords(f)}}
         /\ PossibleFormats(RunOf(w)) =
              {formats[f].name : f \in {f \in DOMAIN formats : w \in Beginnings(FormatWords(f))}}
         /\ \A c \in Symbols : StepTo(RunOf(w), c) # DEAD <=>
              \E f \in DOMAIN formats : Append(w, c) \in Beginnings(FormatWords(f))
<1> DEFINE S == Denote(formats, w)
<1>0. formats \in Seq(PlateFormat) /\ Tracks(RunOf(w), S)
  BY TrackRun DEF Ready, CompileInv
<1>1. AcceptingFormats(RunOf(w)) = AcceptedBy(formats, S) /\ PossibleFormats(RunOf(w)) = KnownBy(formats, S)
  BY <1>0, TrackNames
<1>2. ASSUME NEW f \in DOMAIN formats
      PROVE  w \in FormatWords(f) <=> \E q \in S : q[1] = f /\ q[2] = Len(formats[f].fields) + 1
  <2>1. FieldCount(formats, f) \in Nat /\ FormatWords(f) = WordsTo(formats, f)[FieldCount(formats, f)]
    BY <1>0, SizeIsNat, FormatWordsAre
  <2>2. ASSUME w \in FormatWords(f)
        PROVE  \E q \in S : q[1] = f /\ q[2] = Len(formats[f].fields) + 1
    <3>1. On(formats, f, FieldCount(formats, f) + 1, 0, w)
      BY <2>1, <2>2 DEF On
    <3>2. <<f, FieldCount(formats, f) + 1, 0>> \in S
      BY <2>1, <3>1 DEF Denote
    <3> QED BY <3>2 DEF FieldCount
  <2>3. ASSUME NEW q \in S, q[1] = f, q[2] = Len(formats[f].fields) + 1
        PROVE  w \in FormatWords(f)
    <3>1. On(formats, f, FieldCount(formats, f) + 1, q[3], w) /\ q[3] \in Nat
      BY <2>3 DEF Denote, FieldCount
    <3>2. q[3] = 0
      BY <2>1, <3>1 DEF On
    <3> QED BY <2>1, <3>1, <3>2 DEF On
  <2> QED BY <2>2, <2>3
<1>3. ASSUME NEW f \in DOMAIN formats
      PROVE  w \in Beginnings(FormatWords(f)) <=> \E q \in S : q[1] = f
  BY <1>0, BeginningsAre DEF Begins
<1>4. \A q \in S : q[1] \in DOMAIN formats
  BY DEF Denote
<1> HIDE DEF S
<1>5. AcceptedBy(formats, S) = {formats[f].name : f \in {f \in DOMAIN formats : w \in FormatWords(f)}}
  <2>1. \A x : x \in AcceptedBy(formats, S) <=>
               \E q \in S : q[2] = Len(formats[q[1]].fields) + 1 /\ x = formats[q[1]].name
    BY Zenon DEF AcceptedBy
  <2>2. \A x : (\E q \in S : q[2] = Len(formats[q[1]].fields) + 1 /\ x = formats[q[1]].name) <=>
               \E f \in DOMAIN formats : w \in FormatWords(f) /\ x = formats[f].name
    BY <1>2, <1>4
  <2> QED BY <2>1, <2>2
<1>6. KnownBy(formats, S) =
        {formats[f].name : f \in {f \in DOMAIN formats : w \in Beginnings(FormatWords(f))}}
  <2>1. \A x : x \in KnownBy(formats, S) <=> \E q \in S : x = formats[q[1]].name
    BY Zenon DEF KnownBy
  <2>2. \A x : (\E q \in S : x = formats[q[1]].name) <=>
               \E f \in DOMAIN formats : w \in Beginnings(FormatWords(f)) /\ x = formats[f].name
    BY <1>3, <1>4
  <2> QED BY <2>1, <2>2
<1>7. ASSUME NEW c \in Symbols
      PROVE  StepTo(RunOf(w), c) # DEAD <=> \E f \in DOMAIN formats : Append(w, c) \in Beginnings(FormatWords(f))
  <2> DEFINE D == Denote(formats, Append(w, c))
  <2>1. Tracks(StepTo(RunOf(w), c), D)
    BY <1>0, TrackStep DEF S
  <2>2. Append(w, c) \in Seq(Symbols)
    OBVIOUS
  <2>3. \A f \in DOMAIN formats :
          Append(w, c) \in Beginnings(FormatWords(f)) <=> \E q \in D : q[1] = f
    BY <1>0, <2>2, BeginningsAre DEF Begins
  <2>4. \A q \in D : q[1] \in DOMAIN formats
    BY DEF Denote
  <2> HIDE DEF D
  <2>5. StepTo(RunOf(w), c) # DEAD <=> D # {}
    BY <2>1 DEF Tracks, DEAD
  <2> QED BY <2>3, <2>4, <2>5
<1> QED BY <1>1, <1>5, <1>6, <1>7

-----------------------------------------------------------------------------
(***************************************************************************)
(* The compiled automaton recognises the formats.                          *)
(***************************************************************************)
\* The invariant gives the property.
LEMMA ReadyRecognises ==
  ASSUME CompileInv
  PROVE  RecognisesTheFormats
<1> SUFFICES ASSUME pc = "compiled" PROVE RecognisesTheFormats
  BY DEF RecognisesTheFormats
<1>0. Ready /\ formats \in Seq(PlateFormat)
  BY DEF Ready, CompileInv
<1> DEFINE words   == [f \in DOMAIN formats |-> FormatWords(f)]
           begun   == [f \in DOMAIN formats |-> Beginnings(words[f])]
           viable  == UNION Range(begun)
           named(F) == {formats[f].name : f \in F}
<1>1. \A f \in DOMAIN formats : words[f] = FormatWords(f) /\ begun[f] = Beginnings(FormatWords(f))
  OBVIOUS
<1>2. DOMAIN begun = DOMAIN formats
  OBVIOUS
<1> HIDE DEF words, begun
<1>3. \A w : w \in viable <=> \E f \in DOMAIN formats : w \in Beginnings(FormatWords(f))
  <2>1. \A w : w \in viable <=> \E x \in DOMAIN begun : w \in begun[x]
    BY Zenon DEF Range
  <2> QED BY <1>1, <1>2, <2>1
<1> HIDE DEF viable
<1>4. ASSUME NEW w \in viable
      PROVE  LET state == RunOf(w)
                 whole == named({f \in DOMAIN formats : w \in words[f]})
             IN  /\ AcceptingFormats(state) = whole
                 /\ PossibleFormats(state) = named({f \in DOMAIN formats : w \in begun[f]})
                 /\ Allowed(state) = {c \in Symbols : Append(w, c) \in viable}
                 /\ IF whole = {} THEN Segment(w) = NoSegment ELSE Segment(w).format \in whole
  <2>1. w \in Seq(Symbols)
    BY <1>0, <1>3, BeginningsAre
  <2>2. {f \in DOMAIN formats : w \in words[f]} = {f \in DOMAIN formats : w \in FormatWords(f)}
    BY <1>1
  <2>3. {f \in DOMAIN formats : w \in begun[f]} = {f \in DOMAIN formats : w \in Beginnings(FormatWords(f))}
    BY <1>1
  <2> DEFINE A == {f \in DOMAIN formats : w \in FormatWords(f)}
             B == {f \in DOMAIN formats : w \in Beginnings(FormatWords(f))}
  <2>4. /\ AcceptingFormats(RunOf(w)) = {formats[f].name : f \in A}
        /\ PossibleFormats(RunOf(w)) = {formats[f].name : f \in B}
        /\ \A c \in Symbols : StepTo(RunOf(w), c) # DEAD <=>
              \E f \in DOMAIN formats : Append(w, c) \in Beginnings(FormatWords(f))
    BY <1>0, <2>1, RunRecognises
  <2>5. Allowed(RunOf(w)) = {c \in Symbols : Append(w, c) \in viable}
    BY <1>3, <2>4 DEF Allowed
  <2>6. LET whole == {formats[f].name : f \in A}
        IN  IF whole = {} THEN Segment(w) = NoSegment ELSE Segment(w).format \in whole
    BY <1>0, <2>1, SegmentIs
  <2> HIDE DEF A, B
  <2> QED BY <2>2, <2>3, <2>4, <2>5, <2>6, Zenon DEF A, B
<1> QED BY <1>4, Zenon DEF RecognisesTheFormats, viable, begun, words

\* Whatever formats are declared, over whatever alphabet and classes, and however states are
\* spelled: a compiled automaton accepts, after every beginning of a word, exactly the formats that
\* the word belongs to, knows exactly those it can become, allows exactly the symbols that continue
\* it, and segment agrees with it (compile, _minimise, step, accepting_formats, possible_formats,
\* allowed and segment of grammar.py).
THEOREM CompiledIsRight == Compile => []RecognisesTheFormats
<1>1. Compile => []CompileInv
  BY CompileIsSound
<1>2. CompileInv => RecognisesTheFormats
  BY ReadyRecognises
<1> QED BY <1>1, <1>2, PTL

-----------------------------------------------------------------------------
(***************************************************************************)
(* The compiled automaton is minimal.                                      *)
(***************************************************************************)
\* E relates states that cannot be told apart, in which one and the same format is possible: a
\* bisimulation.
Alike(E) ==
  \A p, q \in 1 .. Len(order) : <<p, q>> \in E =>
    /\ AcceptedBy(formats, order[p]) = AcceptedBy(formats, order[q])
    /\ KnownBy(formats, order[p]) = KnownBy(formats, order[q])
    /\ Cardinality(KnownBy(formats, order[p])) = 1
    /\ \A c \in Symbols :
         \/ delta[p][c] = DEAD /\ delta[q][c] = DEAD
         \/ /\ delta[p][c] \in 1 .. Len(order) /\ delta[q][c] \in 1 .. Len(order)
            /\ <<delta[p][c], delta[q][c]>> \in E

\* Pairs of states of the subset construction.
Pairs == (1 .. Len(order)) \X (1 .. Len(order))

\* No round has separated states that cannot be told apart.
Together ==
  \A E \in SUBSET Pairs : Alike(E) =>
    \A p, q \in 1 .. Len(order) : <<p, q>> \in E => q \in block[p]

\* No block has two numbers.
Distinct == \A i, j \in 1 .. Len(numbered) : numbered[i] = numbered[j] => i = j

\* What minimality needs of the construction, besides CompileInv.
MinimalInv ==
  /\ pc \in {"refine", "renumber", "compiled"} => Together
  /\ pc \in {"renumber", "compiled"} => Distinct

\* The first partition separates none of them: the spelling of a state matters only where several
\* formats are possible.
LEMMA PartitionTogether ==
  ASSUME formats \in Seq(PlateFormat), Determinising, Partition
  PROVE  Together'
<1>1. formats' = formats /\ order' = order /\ delta' = delta /\ Len(delta) = Len(order)
  BY DEF Partition
<1>2. Live = 1 .. Len(order)
  BY <1>1, LiveAll DEF Determinising
<1>3. PICK odd \in Spellings :
        LET live == Live
        IN  block' = [s \in live |-> {r \in live : /\ Accepting(r) = Accepting(s)
                                                   /\ Possible(r) = Possible(s)
                                                   /\ (r \in odd) = (s \in odd)}]
  BY DEF Partition
<1> DEFINE live == 1 .. Len(order)
           A(s) == AcceptedBy(formats, order[s])
           K(s) == KnownBy(formats, order[s])
           O(s) == s \in odd
<1>4. block' = [s \in live |-> {r \in live : A(r) = A(s) /\ K(r) = K(s) /\ O(r) = O(s)}]
  BY <1>2, <1>3, NamesAre
<1>5. \A s \in odd : Cardinality(K(s)) > 1
  BY NamesAre DEF Spellings
<1> HIDE DEF live, A, K
<1>6. \A s \in live : block'[s] = {r \in live : A(r) = A(s) /\ K(r) = K(s) /\ O(r) = O(s)}
  BY <1>4
<1>7. ASSUME NEW E \in SUBSET Pairs, Alike(E), NEW p \in live, NEW q \in live, <<p, q>> \in E
      PROVE  q \in block'[p]
  <2>1. A(p) = A(q) /\ K(p) = K(q) /\ Cardinality(K(p)) = 1
    BY <1>7 DEF Alike, A, K, live
  <2>2. ~O(p) /\ ~O(q)
    <3>1. ~(Cardinality(K(p)) > 1) /\ ~(Cardinality(K(q)) > 1)
      BY <2>1
    <3> QED BY <1>5, <3>1
  <2>3. O(p) = O(q)
    BY <2>2 DEF O
  <2> HIDE DEF O
  <2> QED BY <1>6, <2>1, <2>3
<1>8. Pairs' = Pairs /\ live' = live /\ \A E : Alike(E)' <=> Alike(E)
  BY <1>1 DEF Pairs, Alike, live
<1> QED BY <1>7, <1>8 DEF Together, live

\* A round separates none of them.
LEMMA RefineTogether ==
  ASSUME Settled, Together, Refine
  PROVE  Together'
<1>1. formats' = formats /\ order' = order /\ delta' = delta
  BY DEF Refine
<1>2. DOMAIN block = 1 .. Len(order) /\ \A s \in 1 .. Len(order) : \A r \in block[s] : block[r] = block[s]
  BY DEF Settled, Blocks
<1>3. ASSUME NEW E \in SUBSET Pairs, Alike(E), NEW p \in 1 .. Len(order), NEW q \in 1 .. Len(order),
             <<p, q>> \in E
      PROVE  q \in block'[p]
  <2>1. q \in block[p]
    BY <1>3 DEF Together
  <2>2. CASE block' = block
    BY <2>1, <2>2
  <2>3. CASE block' = Refined
    <3>1. ASSUME NEW c \in Symbols PROVE Target(q, c) = Target(p, c)
      <4>1. CASE delta[p][c] = DEAD /\ delta[q][c] = DEAD
        BY <4>1 DEF Target
      <4>2. CASE /\ delta[p][c] \in 1 .. Len(order) /\ delta[q][c] \in 1 .. Len(order)
                 /\ <<delta[p][c], delta[q][c]>> \in E
        <5>1. delta[q][c] \in block[delta[p][c]]
          BY <1>3, <4>2 DEF Together
        <5> QED BY <1>2, <4>2, <5>1 DEF Target
      <4> QED BY <1>3, <4>1, <4>2 DEF Alike
    <3>2. block'[p] = {r \in block[p] : \A c \in Symbols : Target(r, c) = Target(p, c)}
      BY <1>2, <2>3 DEF Refined
    <3> QED BY <2>1, <3>1, <3>2
  <2> QED BY <2>2, <2>3 DEF Refine
<1>4. Pairs' = Pairs /\ \A E : Alike(E)' <=> Alike(E)
  BY <1>1 DEF Pairs, Alike
<1> QED BY <1>1, <1>3, <1>4 DEF Together

\* Together depends on the rows and the blocks only.
LEMMA TogetherStays ==
  ASSUME Together, UNCHANGED <<formats, order, delta, block>>
  PROVE  Together'
<1>1. formats' = formats /\ order' = order /\ delta' = delta /\ block' = block
  OBVIOUS
<1>2. Pairs' = Pairs /\ \A E : Alike(E)' <=> Alike(E)
  BY <1>1 DEF Pairs, Alike
<1> QED BY <1>1, <1>2 DEF Together

\* A block that has a number gets no second one.
LEMMA RenumberDistinct ==
  ASSUME Minimised, Distinct, Renumber
  PROVE  Distinct'
<1> DEFINE rep    == Representative(numbered[Len(automaton.delta) + 1])
           target == Target(rep, Len(filling) + 1)
<1>1. numbered' = Enlisted(numbered, target)
  BY DEF Renumber
<1> HIDE DEF target
<1>2. CASE numbered' = numbered
  BY <1>2 DEF Distinct
<1>3. CASE numbered' = Append(numbered, target) /\ ~Listed(numbered, target)
  <2>1. numbered \in Seq(SUBSET (1 .. Len(order)))
    BY DEF Minimised, Numbered
  <2>2. Len(numbered') = Len(numbered) + 1 /\ numbered'[Len(numbered) + 1] = target
        /\ \A i \in 1 .. Len(numbered) : numbered'[i] = numbered[i]
    BY <1>3, <2>1
  <2>3. \A i \in 1 .. Len(numbered) : numbered[i] # target
    BY <1>3 DEF Listed
  <2> QED BY <2>1, <2>2, <2>3 DEF Distinct
<1> QED BY <1>1, <1>2, <1>3 DEF Enlisted

\* Every step keeps MinimalInv.
LEMMA MinimalNextInv ==
  ASSUME CompileInv, MinimalInv, [CompileNext]_compileVars
  PROVE  MinimalInv'
<1>0. formats \in Seq(PlateFormat)
  BY DEF CompileInv
<1>1. ASSUME pc' \notin {"refine", "renumber", "compiled"} PROVE MinimalInv'
  BY <1>1 DEF MinimalInv
<1>2. CASE Reject \/ Start \/ Determinise \/ EndRow
  BY <1>1, <1>2 DEF Reject, Start, Determinise, EndRow
<1>3. CASE Partition
  <2>1. pc = "determinise" /\ pc' = "refine"
    BY <1>3 DEF Partition
  <2>2. Together'
    BY <1>0, <1>3, <2>1, PartitionTogether DEF CompileInv
  <2> QED BY <2>1, <2>2 DEF MinimalInv
<1>4. CASE Refine
  <2>1. pc = "refine"
    BY <1>4 DEF Refine
  <2>2. Together'
    BY <1>4, <2>1, RefineTogether DEF CompileInv, MinimalInv
  <2>3. pc' = "refine" \/ (pc' = "renumber" /\ numbered' = <<block[1]>>)
    BY <1>4, <2>1 DEF Refine
  <2>4. numbered' = <<block[1]>> => Distinct'
    BY DEF Distinct
  <2> QED BY <2>2, <2>3, <2>4 DEF MinimalInv
<1>5. CASE Renumber
  <2>1. pc = "renumber" /\ pc' = pc /\ UNCHANGED <<formats, order, delta, block>>
    BY <1>5 DEF Renumber
  <2>2. Together'
    BY <2>1, TogetherStays DEF MinimalInv
  <2>3. Distinct'
    BY <1>5, <2>1, RenumberDistinct DEF CompileInv, MinimalInv
  <2> QED BY <2>2, <2>3 DEF MinimalInv
<1>6. CASE EndBlock \/ Finish
  <2>1. pc = "renumber" /\ UNCHANGED <<formats, order, delta, block, numbered>>
    BY <1>6 DEF EndBlock, Finish
  <2>2. Together'
    BY <2>1, TogetherStays DEF MinimalInv
  <2>3. Distinct'
    BY <2>1 DEF Distinct, MinimalInv
  <2> QED BY <2>2, <2>3 DEF MinimalInv
<1>7. CASE UNCHANGED compileVars
  <2>1. pc' = pc /\ numbered' = numbered /\ UNCHANGED <<formats, order, delta, block>>
    BY <1>7 DEF compileVars
  <2>2. Together => Together'
    BY <2>1, TogetherStays
  <2>3. Distinct => Distinct'
    BY <2>1 DEF Distinct
  <2> QED BY <2>1, <2>2, <2>3 DEF MinimalInv
<1> QED BY <1>2, <1>3, <1>4, <1>5, <1>6, <1>7 DEF CompileNext

\* A run over the empty word stays where it is.
LEMMA RunNothing ==
  ASSUME Ready, NEW n \in 0 .. Len(automaton.delta)
  PROVE  RunFrom(n, <<>>) = n
<1> DEFINE w == <<>>
<1>1. w \in Seq(Symbols) /\ Len(w) = 0
  OBVIOUS
<1> HIDE DEF w
<1>2. Runs(n, w)[0] = n /\ RunFrom(n, w) = Runs(n, w)[Len(w)]
  BY <1>1, RunSteps
<1> QED BY <1>1, <1>2 DEF w

\* A run over a longer word is a step and a run.
LEMMA RunOn ==
  ASSUME Ready, NEW n \in 0 .. Len(automaton.delta), NEW c \in Symbols, NEW w \in Seq(Symbols)
  PROVE  RunFrom(n, <<c>> \o w) = RunFrom(StepTo(n, c), w)
<1> DEFINE m == StepTo(n, c)
           v == <<c>> \o w
           g == Runs(n, v)
           h == Runs(m, w)
           P(i) == i <= Len(w) => g[i + 1] = h[i]
           T == {i \in Nat : P(i)}
<1>0. v \in Seq(Symbols) /\ Len(v) = Len(w) + 1 /\ v[1] = c /\ \A i \in 1 .. Len(w) : v[i + 1] = w[i]
  OBVIOUS
<1>1. m \in 0 .. Len(automaton.delta)
  BY StepKeepsState
<1> HIDE DEF m, v
<1>2. /\ g[0] = n /\ \A i \in 1 .. Len(v) : g[i] = StepTo(g[i - 1], v[i])
      /\ RunFrom(n, v) = g[Len(v)]
  BY <1>0, RunSteps
<1>3. /\ h[0] = m /\ \A i \in 1 .. Len(w) : h[i] = StepTo(h[i - 1], w[i])
      /\ RunFrom(m, w) = h[Len(w)]
  BY <1>1, RunSteps
<1> HIDE DEF g, h
<1>4. P(0)
  <2>1. 1 \in 1 .. Len(v)
    BY <1>0
  <2>2. g[1] = StepTo(n, c)
    BY <1>0, <1>2, <2>1
  <2> QED BY <1>3, <2>2 DEF m
<1>5. ASSUME NEW i \in Nat, P(i) PROVE P(i + 1)
  <2> SUFFICES ASSUME i + 1 <= Len(w) PROVE g[(i + 1) + 1] = h[i + 1]
    OBVIOUS
  <2>1. i + 1 \in 1 .. Len(w) /\ (i + 1) + 1 \in 1 .. Len(v)
    BY <1>0
  <2>2. g[i + 1] = h[i]
    BY <1>5
  <2>3. g[(i + 1) + 1] = StepTo(g[i + 1], w[i + 1])
    BY <1>0, <1>2, <2>1
  <2>4. h[i + 1] = StepTo(h[i], w[i + 1])
    BY <1>3, <2>1
  <2> QED BY <2>2, <2>3, <2>4
<1> HIDE DEF P
<1>6. T = Nat
  <2>1. T \in SUBSET Nat /\ 0 \in T /\ \A i \in T : i + 1 \in T
    BY <1>4, <1>5
  <2> QED BY <2>1, Induction
<1>7. P(Len(w)) /\ Len(w) \in Nat
  BY <1>6
<1>8. g[Len(w) + 1] = h[Len(w)]
  BY <1>7 DEF P
<1> QED BY <1>0, <1>2, <1>3, <1>8 DEF m, v

\* What a word denotes accepts exactly when the word belongs to a format.
LEMMA AcceptedIsWord ==
  ASSUME formats \in Seq(PlateFormat), NEW w \in Seq(Symbols)
  PROVE  AcceptedBy(formats, Denote(formats, w)) # {} <=> \E f \in DOMAIN formats : w \in FormatWords(f)
<1>0. AcceptedBy(formats, Denote(formats, w)) # {} <=>
        \E q \in Denote(formats, w) : q[2] = Len(formats[q[1]].fields) + 1
  BY DEF AcceptedBy
<1>1. ASSUME NEW f \in DOMAIN formats
      PROVE  FieldCount(formats, f) \in Nat /\ FormatWords(f) = WordsTo(formats, f)[FieldCount(formats, f)]
  BY SizeIsNat, FormatWordsAre
<1>2. ASSUME NEW f \in DOMAIN formats, w \in FormatWords(f)
      PROVE  AcceptedBy(formats, Denote(formats, w)) # {}
  <2>1. On(formats, f, FieldCount(formats, f) + 1, 0, w)
    BY <1>1, <1>2 DEF On
  <2>2. <<f, FieldCount(formats, f) + 1, 0>> \in Denote(formats, w)
    BY <1>1, <2>1 DEF Denote
  <2> DEFINE q == <<f, FieldCount(formats, f) + 1, 0>>
  <2>3. q[1] = f /\ q[2] = Len(formats[f].fields) + 1
    BY DEF FieldCount
  <2>4. q \in Denote(formats, w)
    BY <2>2
  <2> HIDE DEF q
  <2> QED BY <1>0, <2>3, <2>4
<1>3. ASSUME NEW q \in Denote(formats, w), q[2] = Len(formats[q[1]].fields) + 1
      PROVE  q[1] \in DOMAIN formats /\ w \in FormatWords(q[1])
  <2>1. q[1] \in DOMAIN formats /\ On(formats, q[1], FieldCount(formats, q[1]) + 1, q[3], w)
    BY <1>3 DEF Denote, FieldCount
  <2>2. FieldCount(formats, q[1]) \in Nat
    BY <1>1, <2>1
  <2>3. w \in WordsTo(formats, q[1])[FieldCount(formats, q[1])]
    BY <2>1, <2>2 DEF On
  <2> QED BY <1>1, <2>1, <2>3
<1> QED BY <1>0, <1>2, <1>3

\* A state is not dead exactly when a word leads from it to acceptance.
LEMMA AliveIff ==
  ASSUME Ready, NEW u \in Seq(Symbols), NEW n \in 0 .. Len(automaton.delta), Tracks(n, Denote(formats, u))
  PROVE  Denote(formats, u) # {} <=> \E y \in Seq(Symbols) : AcceptingFormats(RunFrom(n, y)) # {}
<1>0. formats \in Seq(PlateFormat)
  BY DEF Ready, CompileInv
<1>1. ASSUME NEW y \in Seq(Symbols)
      PROVE  AcceptingFormats(RunFrom(n, y)) # {} <=> \E f \in DOMAIN formats : u \o y \in FormatWords(f)
  <2>1. u \o y \in Seq(Symbols)
    OBVIOUS
  <2>2. AcceptingFormats(RunFrom(n, y)) = AcceptedBy(formats, Denote(formats, u \o y))
    BY TrackOn, TrackNames
  <2> QED BY <1>0, <2>1, <2>2, AcceptedIsWord
<1>2. ASSUME NEW q \in Denote(formats, u)
      PROVE  \E y \in Seq(Symbols) : AcceptingFormats(RunFrom(n, y)) # {}
  <2>1. q[1] \in DOMAIN formats
    BY DEF Denote
  <2>2. PICK y \in Seq(Symbols) : u \o y \in WordsTo(formats, q[1])[FieldCount(formats, q[1])]
    BY <1>0, Completable
  <2>3. u \o y \in FormatWords(q[1])
    BY <1>0, <2>1, <2>2, FormatWordsAre
  <2> QED BY <1>1, <2>1, <2>3
<1>3. ASSUME NEW y \in Seq(Symbols), AcceptingFormats(RunFrom(n, y)) # {}
      PROVE  Denote(formats, u) # {}
  <2>1. PICK f \in DOMAIN formats : u \o y \in FormatWords(f)
    BY <1>1, <1>3
  <2>2. Len(u) \in 0 .. Len(u \o y) /\ SubSeq(u \o y, 1, Len(u)) = u
    OBVIOUS
  <2>3. Begins(formats, f, SubSeq(u \o y, 1, Len(u)))
    BY <1>0, <2>1, <2>2, PrefixBegins
  <2> QED BY <2>2, <2>3 DEF Begins
<1> QED BY <1>2, <1>3

\* The same words are accepted from n and from m.
SameWords(n, m) == \A w \in Seq(Symbols) : AcceptingFormats(RunFrom(n, w)) = AcceptingFormats(RunFrom(m, w))

\* Then the same words are accepted after any further symbol.
LEMMA SameWordsStep ==
  ASSUME Ready, NEW n \in 0 .. Len(automaton.delta), NEW m \in 0 .. Len(automaton.delta),
         NEW c \in Symbols, SameWords(n, m)
  PROVE  SameWords(StepTo(n, c), StepTo(m, c))
<1> SUFFICES ASSUME NEW w \in Seq(Symbols)
             PROVE  AcceptingFormats(RunFrom(StepTo(n, c), w)) = AcceptingFormats(RunFrom(StepTo(m, c), w))
  BY DEF SameWords
<1>1. <<c>> \o w \in Seq(Symbols)
  OBVIOUS
<1>2. AcceptingFormats(RunFrom(n, <<c>> \o w)) = AcceptingFormats(RunFrom(m, <<c>> \o w))
  BY <1>1 DEF SameWords
<1> QED BY <1>2, RunOn

\* Every state of the automaton stands for what some word denotes.
LEMMA StateTracks ==
  ASSUME Ready, NEW n \in 1 .. Len(automaton.delta)
  PROVE  \E u \in Seq(Symbols) : \E s \in 1 .. Len(order) :
           /\ order[s] = Denote(formats, u) /\ order[s] # {} /\ numbered[n] = block[s]
           /\ Tracks(n, Denote(formats, u))
<1>1. n \in 1 .. Len(numbered) /\ Numbered /\ Found
  BY DEF Ready, CompileInv, Minimised, Settled
<1>2. PICK s \in 1 .. Len(order) : numbered[n] = block[s]
  BY <1>1 DEF Numbered
<1>3. order[s] # {} /\ \E u \in Seq(Symbols) : order[s] = Denote(formats, u)
  BY <1>1 DEF Found, Reachable
<1>4. PICK u \in Seq(Symbols) : order[s] = Denote(formats, u)
  BY <1>3
<1>5. Tracks(n, Denote(formats, u))
  BY <1>1, <1>2, <1>3, <1>4 DEF Tracks
<1> QED BY <1>2, <1>3, <1>4, <1>5

\* The endings of words, the set inside Grammar!SameFuture.
Futures ==
  UNION {{SubSeq(w, n, Len(w)) : n \in 1 .. Len(w) + 1} :
            w \in UNION {FormatWords(f) : f \in DOMAIN formats}}

\* What is accepted from a state is an ending of a word.
LEMMA FuturesAre ==
  ASSUME Ready, NEW n \in 1 .. Len(automaton.delta), NEW w \in Seq(Symbols),
         AcceptingFormats(RunFrom(n, w)) # {}
  PROVE  w \in Futures /\ <<>> \in Futures
<1>0. formats \in Seq(PlateFormat)
  BY DEF Ready, CompileInv
<1>1. PICK u \in Seq(Symbols) : Tracks(n, Denote(formats, u))
  BY StateTracks
<1>2. u \o w \in Seq(Symbols) /\ n \in 0 .. Len(automaton.delta)
  OBVIOUS
<1>3. AcceptingFormats(RunFrom(n, w)) = AcceptedBy(formats, Denote(formats, u \o w))
  BY <1>1, <1>2, TrackOn, TrackNames
<1>4. PICK f \in DOMAIN formats : u \o w \in FormatWords(f)
  BY <1>0, <1>2, <1>3, AcceptedIsWord
<1>5. /\ SubSeq(u \o w, Len(u) + 1, Len(u \o w)) = w /\ Len(u) + 1 \in 1 .. Len(u \o w) + 1
      /\ SubSeq(u \o w, Len(u \o w) + 1, Len(u \o w)) = <<>> /\ Len(u \o w) + 1 \in 1 .. Len(u \o w) + 1
  OBVIOUS
<1>6. ASSUME NEW x \in UNION {FormatWords(g) : g \in DOMAIN formats}, NEW k \in 1 .. Len(x) + 1
      PROVE  SubSeq(x, k, Len(x)) \in Futures
  BY DEF Futures
<1>7. u \o w \in UNION {FormatWords(g) : g \in DOMAIN formats}
  BY <1>4
<1> QED BY <1>5, <1>6, <1>7

\* So two states with the same future accept the same words, not only the same endings.
LEMMA SameFutureIs ==
  ASSUME Ready, NEW n \in 1 .. Len(automaton.delta), NEW m \in 1 .. Len(automaton.delta), SameFuture(n, m)
  PROVE  SameWords(n, m) /\ PossibleFormats(n) = PossibleFormats(m)
<1>1. \A w \in Futures : /\ AcceptingFormats(RunFrom(n, w)) = AcceptingFormats(RunFrom(m, w))
                         /\ PossibleFormats(RunFrom(n, w)) = PossibleFormats(RunFrom(m, w))
  BY Zenon DEF SameFuture, Futures
<1>2. SameWords(n, m)
  <2> SUFFICES ASSUME NEW w \in Seq(Symbols)
               PROVE  AcceptingFormats(RunFrom(n, w)) = AcceptingFormats(RunFrom(m, w))
    BY DEF SameWords
  <2>1. CASE w \in Futures
    BY <1>1, <2>1
  <2>2. CASE w \notin Futures
    BY <2>2, FuturesAre
  <2> QED BY <2>1, <2>2
<1>3. <<>> \in Futures
  <2>1. PICK u \in Seq(Symbols) : Denote(formats, u) # {} /\ Tracks(n, Denote(formats, u))
    BY StateTracks
  <2>2. n \in 0 .. Len(automaton.delta)
    OBVIOUS
  <2>3. PICK y \in Seq(Symbols) : AcceptingFormats(RunFrom(n, y)) # {}
    BY <2>1, <2>2, AliveIff
  <2> QED BY <2>3, FuturesAre
<1>4. RunFrom(n, <<>>) = n /\ RunFrom(m, <<>>) = m
  BY RunNothing
<1> QED BY <1>1, <1>2, <1>3, <1>4

\* Where one format is possible, a further symbol leaves it possible or leads to DEAD.
LEMMA OneName ==
  ASSUME formats \in Seq(PlateFormat), NEW u \in Seq(Symbols), NEW c \in Symbols,
         Cardinality(KnownBy(formats, Denote(formats, u))) = 1,
         Denote(formats, Append(u, c)) # {}
  PROVE  KnownBy(formats, Denote(formats, Append(u, c))) = KnownBy(formats, Denote(formats, u))
<1> DEFINE names == [f \in DOMAIN formats |-> formats[f].name]
           N == {formats[f].name : f \in DOMAIN formats}
           K == KnownBy(formats, Denote(formats, u))
           D == KnownBy(formats, Denote(formats, Append(u, c)))
<1>1. IsFiniteSet(N)
  <2>1. IsFiniteSet(DOMAIN formats)
    BY FS_Interval
  <2>2. names \in Surjection(DOMAIN formats, N)
    BY DEF Surjection
  <2> HIDE DEF names, N
  <2> QED BY <2>1, <2>2, FS_Surjection
<1>2. \A q \in Denote(formats, u) : q[1] \in DOMAIN formats
  BY DEF Denote
<1>3. K \subseteq N
  BY <1>2 DEF KnownBy
<1>4. IsFiniteSet(K)
  <2> HIDE DEF K, N
  <2> QED BY <1>1, <1>3, FS_Subset
<1>5. PICK x : K = {x}
  <2>1. Cardinality(K) = 1
    OBVIOUS
  <2> HIDE DEF K
  <2> QED BY <1>4, <2>1, FS_Singleton
<1>6. D \subseteq K
  <2>1. \A q \in Denote(formats, Append(u, c)) : \E r \in Denote(formats, u) : r[1] = q[1]
    BY BackOn
  <2> QED BY <2>1 DEF KnownBy
<1>7. D # {}
  BY DEF KnownBy
<1> HIDE DEF D, K
<1>8. D = K
  BY <1>5, <1>6, <1>7
<1> QED BY <1>8 DEF D, K

\* The states of the subset construction whose blocks accept the same words of one format.
Related ==
  {e \in Pairs : \E n, m \in 1 .. Len(automaton.delta) :
     /\ numbered[n] = block[e[1]] /\ numbered[m] = block[e[2]]
     /\ SameWords(n, m)
     /\ PossibleFormats(n) = PossibleFormats(m) /\ Cardinality(PossibleFormats(n)) = 1}

\* The step from n, which stands for the block of p, goes where p goes.
GoesOn(n, p, c, w) ==
  /\ Tracks(StepTo(n, c), Denote(formats, w))
  /\ Denote(formats, w) = {} => delta[p][c] = DEAD
  /\ Denote(formats, w) # {} =>
       /\ delta[p][c] \in 1 .. Len(order)
       /\ StepTo(n, c) \in 1 .. Len(automaton.delta)
       /\ numbered[StepTo(n, c)] = block[delta[p][c]]

\* It does, whatever word p was found with.
LEMMA StateGoesOn ==
  ASSUME Ready, NEW n \in 1 .. Len(automaton.delta), NEW p \in 1 .. Len(order), numbered[n] = block[p],
         NEW u \in Seq(Symbols), order[p] = Denote(formats, u), NEW c \in Symbols
  PROVE  GoesOn(n, p, c, Append(u, c))
<1>0. /\ Minimised /\ Len(automaton.delta) = Len(numbered) /\ Settled /\ Found /\ Rows
      /\ Len(delta) = Len(order) /\ DOMAIN block = 1 .. Len(order) /\ \A r \in 1 .. Len(order) : r \in block[r]
  BY DEF Ready, CompileInv, Minimised, Settled, Blocks
<1> DEFINE D == Denote(formats, Append(u, c))
           t == delta[p][c]
           m == StepTo(n, c)
<1>1. Tracks(n, order[p])
  <2>1. order[p] # {}
    BY <1>0 DEF Found, Reachable
  <2> QED BY <1>0, <2>1 DEF Tracks
<1>2. Tracks(m, D)
  BY <1>1, TrackStep
<1>3. Leads(order, D, t)
  <2>1. RowOf(formats, order, order[p], delta[p]) /\ Len(delta[p]) = Cardinality(Symbols)
    BY <1>0 DEF Rows
  <2>2. c \in 1 .. Len(delta[p])
    BY <2>1, SymbolsAssumption
  <2> QED BY <2>1, <2>2 DEF RowOf
<1>4. Leads(numbered, TargetIn(delta, block, p, c), m)
  BY <1>0, NumberStep
<1> HIDE DEF D, m
<1>5. CASE D = {}
  BY <1>1, <1>2, <1>3, <1>5 DEF Leads, D, m, GoesOn
<1>6. CASE D # {}
  <2>1. t \in 1 .. Len(order) /\ order[t] = D
    BY <1>3, <1>6 DEF Leads
  <2>2. TargetIn(delta, block, p, c) = block[t] /\ block[t] # {}
    BY <1>0, <2>1 DEF TargetIn
  <2>3. m \in 1 .. Len(numbered) /\ numbered[m] = block[t]
    BY <1>4, <2>2 DEF Leads
  <2> QED BY <1>0, <1>1, <1>2, <1>6, <2>1, <2>3 DEF D, m, GoesOn
<1> QED BY <1>5, <1>6

\* Accepting the same words is a bisimulation.
LEMMA RelatedAlike ==
  ASSUME Ready
  PROVE  Alike(Related)
<1>0. formats \in Seq(PlateFormat) /\ Found
  BY DEF Ready, CompileInv, Minimised, Settled
<1> SUFFICES ASSUME NEW p \in 1 .. Len(order), NEW q \in 1 .. Len(order), <<p, q>> \in Related
             PROVE  /\ AcceptedBy(formats, order[p]) = AcceptedBy(formats, order[q])
                    /\ KnownBy(formats, order[p]) = KnownBy(formats, order[q])
                    /\ Cardinality(KnownBy(formats, order[p])) = 1
                    /\ \A c \in Symbols :
                         \/ delta[p][c] = DEAD /\ delta[q][c] = DEAD
                         \/ /\ delta[p][c] \in 1 .. Len(order) /\ delta[q][c] \in 1 .. Len(order)
                            /\ <<delta[p][c], delta[q][c]>> \in Related
  BY DEF Alike
<1>1. PICK n \in 1 .. Len(automaton.delta) : \E m \in 1 .. Len(automaton.delta) :
             /\ numbered[n] = block[p] /\ numbered[m] = block[q]
             /\ SameWords(n, m)
             /\ PossibleFormats(n) = PossibleFormats(m) /\ Cardinality(PossibleFormats(n)) = 1
  BY DEF Related
<1>2. PICK m \in 1 .. Len(automaton.delta) :
             /\ numbered[n] = block[p] /\ numbered[m] = block[q]
             /\ SameWords(n, m)
             /\ PossibleFormats(n) = PossibleFormats(m) /\ Cardinality(PossibleFormats(n)) = 1
  BY <1>1
<1>3. n \in 0 .. Len(automaton.delta) /\ m \in 0 .. Len(automaton.delta)
  OBVIOUS
<1>4. (\E u \in Seq(Symbols) : order[p] = Denote(formats, u)) /\ \E u \in Seq(Symbols) : order[q] = Denote(formats, u)
  BY <1>0 DEF Found, Reachable
<1>5. PICK u \in Seq(Symbols) : order[p] = Denote(formats, u)
  BY <1>4
<1>6. PICK v \in Seq(Symbols) : order[q] = Denote(formats, v)
  BY <1>4
<1>7. Tracks(n, order[p]) /\ Tracks(m, order[q])
  <2>1. order[p] # {} /\ order[q] # {}
    BY <1>0 DEF Found, Reachable
  <2>2. Len(automaton.delta) = Len(numbered)
    BY DEF Ready, CompileInv
  <2> QED BY <1>2, <2>1, <2>2 DEF Tracks
<1>8. /\ AcceptingFormats(n) = AcceptedBy(formats, order[p]) /\ PossibleFormats(n) = KnownBy(formats, order[p])
      /\ AcceptingFormats(m) = AcceptedBy(formats, order[q]) /\ PossibleFormats(m) = KnownBy(formats, order[q])
  BY <1>7, TrackNames
<1>9. AcceptingFormats(n) = AcceptingFormats(m)
  <2>1. <<>> \in Seq(Symbols)
    OBVIOUS
  <2>2. AcceptingFormats(RunFrom(n, <<>>)) = AcceptingFormats(RunFrom(m, <<>>))
    BY <1>2, <2>1 DEF SameWords
  <2> QED BY <1>3, <2>2, RunNothing
<1>10. ASSUME NEW c \in Symbols
       PROVE  \/ delta[p][c] = DEAD /\ delta[q][c] = DEAD
              \/ /\ delta[p][c] \in 1 .. Len(order) /\ delta[q][c] \in 1 .. Len(order)
                 /\ <<delta[p][c], delta[q][c]>> \in Related
  <2> DEFINE a == Append(u, c)
             b == Append(v, c)
             i == StepTo(n, c)
             j == StepTo(m, c)
  <2>1. GoesOn(n, p, c, a)
    BY <1>2, <1>5, StateGoesOn
  <2>2. GoesOn(m, q, c, b)
    BY <1>2, <1>6, StateGoesOn
  <2>3. SameWords(i, j)
    BY <1>2, <1>3, SameWordsStep
  <2>4. i \in 0 .. Len(automaton.delta) /\ j \in 0 .. Len(automaton.delta)
    BY <1>3, StepKeepsState
  <2>5. a \in Seq(Symbols) /\ b \in Seq(Symbols)
    OBVIOUS
  <2>6. Denote(formats, a) # {} => KnownBy(formats, Denote(formats, a)) = KnownBy(formats, order[p])
    BY <1>0, <1>2, <1>5, <1>8, OneName
  <2>7. Denote(formats, b) # {} => KnownBy(formats, Denote(formats, b)) = KnownBy(formats, order[q])
    BY <1>0, <1>2, <1>6, <1>8, OneName
  <2> HIDE DEF a, b, i, j
  <2>8. Denote(formats, a) # {} <=> Denote(formats, b) # {}
    <3>1. Denote(formats, a) # {} <=> \E y \in Seq(Symbols) : AcceptingFormats(RunFrom(i, y)) # {}
      BY <2>1, <2>4, <2>5, AliveIff DEF GoesOn, i
    <3>2. Denote(formats, b) # {} <=> \E y \in Seq(Symbols) : AcceptingFormats(RunFrom(j, y)) # {}
      BY <2>2, <2>4, <2>5, AliveIff DEF GoesOn, j
    <3> QED BY <2>3, <3>1, <3>2 DEF SameWords
  <2>9. PossibleFormats(i) = KnownBy(formats, Denote(formats, a))
        /\ PossibleFormats(j) = KnownBy(formats, Denote(formats, b))
    BY <2>1, <2>2, TrackNames DEF GoesOn, i, j
  <2>10. CASE Denote(formats, a) = {}
    BY <2>1, <2>2, <2>8, <2>10 DEF GoesOn
  <2>11. CASE Denote(formats, a) # {}
    <3>1. PossibleFormats(i) = PossibleFormats(n) /\ PossibleFormats(j) = PossibleFormats(m)
      BY <1>8, <2>6, <2>7, <2>8, <2>9, <2>11
    <3>2. /\ i \in 1 .. Len(automaton.delta) /\ numbered[i] = block[delta[p][c]]
          /\ j \in 1 .. Len(automaton.delta) /\ numbered[j] = block[delta[q][c]]
          /\ delta[p][c] \in 1 .. Len(order) /\ delta[q][c] \in 1 .. Len(order)
      BY <2>1, <2>2, <2>8, <2>11 DEF GoesOn, i, j
    <3>3. <<delta[p][c], delta[q][c]>> \in Related
      BY <1>2, <2>3, <3>1, <3>2 DEF Related, Pairs
    <3> QED BY <3>2, <3>3
  <2> QED BY <2>10, <2>11
<1> QED BY <1>2, <1>8, <1>9, <1>10

\* So such states are in one block, and a block has one number.
LEMMA ReadyMinimal ==
  ASSUME CompileInv, MinimalInv
  PROVE  MinimalUnlessShared
<1> SUFFICES ASSUME pc = "compiled", NEW n \in States, NEW m \in States,
                    Cardinality(PossibleFormats(n)) = 1, SameFuture(n, m)
             PROVE  n = m
  BY DEF MinimalUnlessShared
<1>0. Ready /\ Together /\ Distinct /\ Numbered /\ Settled /\ Len(automaton.delta) = Len(numbered)
  BY DEF Ready, CompileInv, MinimalInv, Minimised
<1>1. n \in 1 .. Len(automaton.delta) /\ m \in 1 .. Len(automaton.delta)
  BY DEF States
<1>2. SameWords(n, m) /\ PossibleFormats(n) = PossibleFormats(m)
  BY <1>0, <1>1, SameFutureIs
<1>3. (\E p \in 1 .. Len(order) : numbered[n] = block[p]) /\ \E q \in 1 .. Len(order) : numbered[m] = block[q]
  BY <1>0, <1>1 DEF Numbered
<1>4. PICK p \in 1 .. Len(order) : numbered[n] = block[p]
  BY <1>3
<1>5. PICK q \in 1 .. Len(order) : numbered[m] = block[q]
  BY <1>3
<1>6. <<p, q>> \in Related
  BY <1>1, <1>2, <1>4, <1>5 DEF Related, Pairs
<1>7. Related \in SUBSET Pairs
  BY DEF Related
<1>8. q \in block[p]
  BY <1>0, <1>6, <1>7, RelatedAlike DEF Together
<1>9. block[q] = block[p]
  BY <1>0, <1>8 DEF Settled, Blocks
<1> QED BY <1>0, <1>1, <1>4, <1>5, <1>9 DEF Distinct

\* Whatever formats are declared, two states of the compiled automaton in which one format is
\* possible have different futures: the minimisation of grammar.py merges all that it may.
THEOREM CompiledIsMinimal == Compile => []MinimalUnlessShared
<1>1. CompileInit => CompileInv /\ MinimalInv
  BY CompileInitInv DEF CompileInit, MinimalInv
<1>2. CompileInv /\ MinimalInv /\ [CompileNext]_compileVars => (CompileInv /\ MinimalInv)'
  BY CompileNextInv, MinimalNextInv
<1>3. CompileInv /\ MinimalInv => MinimalUnlessShared
  BY ReadyMinimal
<1> QED BY <1>1, <1>2, <1>3, PTL DEF Compile

-----------------------------------------------------------------------------
(***************************************************************************)
(* The service.                                                            *)
(***************************************************************************)
\* A step of the service compiles, or leaves the grammar alone.
LEMMA ReadsLeaveTheGrammar ==
  ASSUME [Next]_vars
  PROVE  [CompileNext]_compileVars
<1>1. CASE CompileNext
  BY <1>1
<1>2. CASE Configure \/ Undetected \/ Detect \/ DecodeFrame \/ Recognise \/ Fuse
  BY <1>2 DEF Configure, Undetected, Detect, DecodeFrame, Recognise, Fuse
<1>3. CASE UNCHANGED vars
  BY <1>3 DEF vars
<1> QED BY <1>1, <1>2, <1>3 DEF Next

\* The service only ever reads with an automaton that was compiled.
THEOREM ReaderCompiles == Spec => Compile
<1>1. Init => CompileInit
  BY DEF Init
<1>2. [Next]_vars => [CompileNext]_compileVars
  BY ReadsLeaveTheGrammar
<1> QED BY <1>1, <1>2, PTL DEF Spec, Compile

\* While photos are read, decoded and fused, the automaton they are decoded with recognises the
\* declared formats and is minimal.
THEOREM AutomatonStaysRight == Spec => []AutomatonIsRight
<1>1. RecognisesTheFormats /\ MinimalUnlessShared => AutomatonIsRight
  BY DEF AutomatonIsRight
<1> QED BY <1>1, ReaderCompiles, CompiledIsRight, CompiledIsMinimal, PTL

\* The property that the run Reader checks.
THEOREM ServiceGrammarIsRight == Spec => []GrammarIsRight
<1>1. AutomatonIsRight => GrammarIsRight
  BY DEF GrammarIsRight
<1> QED BY <1>1, AutomatonStaysRight, PTL

-----------------------------------------------------------------------------
(***************************************************************************)
(* Reading: the inductive invariant of the whole specification.           *)
(***************************************************************************)
\* A run over one more symbol takes one more step.
LEMMA RunAppend ==
  ASSUME Ready, NEW w \in Seq(Symbols), NEW c \in Symbols
  PROVE  RunOf(Append(w, c)) = StepTo(RunOf(w), c)
<1>. DEFINE v == Append(w, c)
            N == 0 .. Len(automaton.delta)
<1>1. 1 \in N
  BY DEF Ready, CompileInv, Minimised, Numbered
<1>2. v \in Seq(Symbols) /\ Len(v) = Len(w) + 1 /\ Len(w) \in Nat /\ v[Len(w) + 1] = c
      /\ \A i \in 1 .. Len(w) : v[i] = w[i]
  OBVIOUS
<1>. HIDE DEF v
<1>3. /\ Runs(1, w) \in [0 .. Len(w) -> N] /\ Runs(1, w)[0] = 1
      /\ \A i \in 1 .. Len(w) : Runs(1, w)[i] = StepTo(Runs(1, w)[i - 1], w[i])
      /\ RunOf(w) = Runs(1, w)[Len(w)]
  BY <1>1, RunSteps DEF RunOf
<1>4. /\ Runs(1, v)[0] = 1
      /\ \A i \in 1 .. Len(v) : Runs(1, v)[i] = StepTo(Runs(1, v)[i - 1], v[i])
      /\ RunOf(v) = Runs(1, v)[Len(v)]
  BY <1>1, <1>2, RunSteps DEF RunOf
<1>. HIDE DEF N
<1>5. \A i \in 1 .. Len(w) : Runs(1, v)[i - 1] = Runs(1, w)[i - 1] => Runs(1, v)[i] = Runs(1, w)[i]
  <2>1. \A i \in 1 .. Len(w) : i \in 1 .. Len(v)
    BY <1>2
  <2>. QED  BY <1>2, <1>3, <1>4, <2>1
<1>6. \A i \in 0 .. Len(w) : Runs(1, v)[i] = Runs(1, w)[i]
  <2>1. \A i \in 1 .. Len(w) : Runs(1, v)[i - 1] = Runs(1, w)[i - 1] => Runs(1, v)[i] = Runs(1, w)[i]
    BY <1>5
  <2>2. Runs(1, v)[0] = Runs(1, w)[0]
    BY <1>3, <1>4
  <2>3. Len(w) \in Nat /\ Runs(1, w) \in [0 .. Len(w) -> N]
    BY <1>2, <1>3
  <2>. DEFINE n == Len(w)
              g == Runs(1, w)
              f == Runs(1, v)
  <2>. HIDE DEF n, g, f
  <2>4. n \in Nat /\ g \in [0 .. n -> N]
    BY <2>3 DEF n, g
  <2>5. f[0] = g[0] /\ \A i \in 1 .. n : f[i - 1] = g[i - 1] => f[i] = g[i]
    BY <2>1, <2>2 DEF n, g, f
  <2>6. \A i \in 0 .. n : f[i] = g[i]
    BY <2>4, <2>5, RecursionUnique
  <2>. QED  BY <2>6 DEF n, g, f
<1>7. Runs(1, v)[Len(w) + 1] = StepTo(Runs(1, v)[Len(w)], c)
  <2>1. Len(w) + 1 \in 1 .. Len(v) /\ (Len(w) + 1) - 1 = Len(w)
    BY <1>2
  <2>. QED  BY <1>2, <1>4, <2>1
<1>8. Len(w) \in 0 .. Len(w)
  BY <1>2
<1>. QED  BY <1>2, <1>3, <1>4, <1>6, <1>7, <1>8 DEF v

\* DEAD and the states of the compiled automaton, and the state of a beam after a prefix.
Stands == 0 .. Len(automaton.delta)

\* The state of a beam after a prefix: the automaton's with the constrained search.
Follows == [p \in Seq(Symbols) |-> IF Constrained THEN RunOf(p) ELSE 1]

\* It is steered by the automaton.
LEMMA FollowsIs ==
  ASSUME Ready
  PROVE  1 \in Stands /\ Steered(Stands, Follows, Constrained) /\ Follows[<<>>] = 1
<1>1. 1 \in Stands
  BY DEF Ready, CompileInv, Minimised, Numbered, Stands
<1>2. RunOf(<<>>) = 1
  BY <1>1, RunNothing DEF RunOf, Stands
<1>3. \A p \in Seq(Symbols) : RunOf(p) \in Stands
  <2>. TAKE p \in Seq(Symbols)
  <2>1. Runs(1, p) \in [0 .. Len(p) -> Stands] /\ RunOf(p) = Runs(1, p)[Len(p)]
    BY <1>1, RunSteps DEF RunOf, Stands
  <2>. QED  BY <2>1
<1>4. Follows \in [Seq(Symbols) -> Stands]
  BY <1>1, <1>3 DEF Follows
<1>5. ASSUME NEW p \in Seq(Symbols), NEW c \in Symbols
      PROVE  Follows[Append(p, c)] = IF Constrained THEN StepTo(Follows[p], c) ELSE Follows[p]
  <2>1. Append(p, c) \in Seq(Symbols)
    OBVIOUS
  <2>2. RunOf(Append(p, c)) = StepTo(RunOf(p), c)
    BY RunAppend
  <2>. QED  BY <2>1, <2>2 DEF Follows
<1>6. <<>> \in Seq(Symbols)
  OBVIOUS
<1>. QED  BY <1>1, <1>2, <1>4, <1>5, <1>6 DEF Steered, Follows

\* What a view holds.
ReadView == [read : BOOLEAN, hypotheses : Seq(Hypothesis), of : Nat, weight : Nat, prediction : Seq(Symbols)]

\* The recogniser is configured, on a compiled grammar.
Configured == settings \in Settings /\ pc = "compiled"

\* The photo that is being read: its beams are those of the frames so far.
Underway ==
  /\ Configured /\ reason = "none"
  /\ photo \in Photos /\ frame \in 0 .. Len(photo)
  /\ Decoded(Stands, Follows, photo, frame, beams, Sharp)

\* The read is over: it is what fusion makes of the views, and certain if nobody reviews it.
Over ==
  /\ Configured /\ photo = NoPhoto /\ UnreviewedIsCertain
  /\ fused = ProbabilisticFusion(Readable, Threshold)

\* The inductive invariant of reading.
ReaderInv ==
  /\ settings = NoSettings \/ Configured
  /\ photo = NoPhoto \/ Underway
  /\ views \in Seq(ReadView)
  /\ reason = "none" \/ Over

\* The network's rows are positive, those of a photo make a sequence of rows.
LEMMA PhotoIs ==
  ASSUME NEW p \in Photos
  PROVE  /\ p \in Seq([Classes -> Nat \ {0}]) /\ p \in Seq(FrameRows) /\ p # NoPhoto
         /\ Len(p) \in Nat
<1>1. p \in Seq([Classes -> Nat \ {0}]) /\ p # NoPhoto
  BY PhotosAssumption
<1>. DEFINE Positive == [Classes -> Nat \ {0}]
<1>2. Positive \subseteq FrameRows /\ p \in Seq(Positive)
  BY <1>1 DEF FrameRows
<1>3. p \in Seq(FrameRows) /\ Len(p) \in Nat
  <2>. HIDE DEF Positive
  <2>. QED  BY <1>2
<1>. QED  BY <1>1, <1>3

\* All the mass of a photo is a number.
LEMMA EverythingIs ==
  ASSUME photo \in Seq(FrameRows)
  PROVE  Everything \in Nat
<1>. DEFINE row(t) == photo[t][BLANK] + Sum([c \in Symbols |-> photo[t][c]])
            w == [t \in DOMAIN photo |-> row(t)]
<1>1. DOMAIN photo = 1 .. Len(photo) /\ Len(photo) \in Nat /\ \A t \in DOMAIN photo : photo[t] \in FrameRows
  OBVIOUS
<1>2. Symbols = 1 .. Cardinality(Symbols) /\ Cardinality(Symbols) \in Nat
  BY SymbolsAssumption
<1>3. ASSUME NEW t \in DOMAIN photo PROVE row(t) \in Nat
  <2>1. photo[t] \in FrameRows
    BY <1>1
  <2>2. photo[t][BLANK] \in Nat /\ \A c \in Symbols : photo[t][c] \in Nat
    BY <2>1 DEF FrameRows, Classes
  <2>. DEFINE v == [c \in Symbols |-> photo[t][c]]
              n == Cardinality(Symbols)
  <2>3. v \in [1 .. n -> Nat] /\ n \in Nat
    BY <1>2, <2>2
  <2>. HIDE DEF v, n
  <2>4. v \in Seq(Nat)
    BY <2>3
  <2>5. Sum(v) \in Nat
    BY <2>4, SumIsNat
  <2>. QED  BY <2>2, <2>5 DEF v
<1>4. w \in [1 .. Len(photo) -> Nat]
  BY <1>1, <1>3
<1>. DEFINE n == Len(photo)
<1>5. n \in Nat /\ w \in [1 .. n -> Nat]
  BY <1>1, <1>4
<1>6. Everything = Product(w)
  BY DEF Everything
<1>. HIDE DEF w, n
<1>7. w \in Seq(Nat)
  BY <1>5
<1>. QED  BY <1>6, <1>7, ProductIs

\* A view that is read has hypotheses of words and masses.
LEMMA ViewIs ==
  ASSUME Underway, NEW weight \in settings.weights
  PROVE  View(weight) \in ReadView
<1>. DEFINE found  == Hypotheses(beams, Constrained)
            path   == Greedy(photo)
            massive == Picked(found, {i \in DOMAIN found : found[i].mass > 0})
<1>1. photo \in Seq(FrameRows) /\ weight \in Nat
  BY PhotoIs, SettingsAssumption DEF Underway, Configured
<1>2. beams \in Seq(BeamRecord(Stands))
  BY DEF Underway, Decoded, Search
<1>3. found \in Seq(Hypothesis)
  BY <1>2, HypothesesAre
<1>4. path \in Hypothesis
  BY <1>1, GreedyIs
<1>5. MassOf(found) \in Nat /\ Everything \in Nat
  BY <1>1, <1>3, MassOfIsNat, EverythingIs
<1>6. View(weight) =
        [read |-> TRUE,
         hypotheses |-> IF Constrained THEN massive
                        ELSE Plates(IF settings.decoder = "greedy" THEN <<path>> ELSE found),
         of |-> IF Constrained THEN MassOf(found) ELSE Everything,
         weight |-> weight,
         prediction |-> IF settings.decoder = "greedy" THEN path.tokens
                        ELSE IF found = <<>> THEN None ELSE found[1].tokens]
  BY DEF View
<1>. HIDE DEF found, path
<1>7. massive \in Seq(Hypothesis)
  <2>. DEFINE I == {i \in DOMAIN found : found[i].mass > 0}
  <2>1. I \in SUBSET DOMAIN found
    OBVIOUS
  <2>. HIDE DEF I
  <2>2. Picked(found, I) \in Seq(Hypothesis)
    BY <1>3, <2>1, PickedIs
  <2>. QED  BY <2>2 DEF I
<1>8. ASSUME NEW h \in Seq(Hypothesis) PROVE Plates(h) \in Seq(Hypothesis)
  <2>. DEFINE I == {i \in DOMAIN h : Accepts(h[i].tokens)}
  <2>1. I \in SUBSET DOMAIN h /\ Plates(h) = Picked(h, I)
    BY DEF Plates
  <2>. HIDE DEF I
  <2>2. Picked(h, I) \in Seq(Hypothesis)
    BY <2>1, PickedIs
  <2>. QED  BY <2>1, <2>2
<1>9. Plates(IF settings.decoder = "greedy" THEN <<path>> ELSE found) \in Seq(Hypothesis)
  <2>1. <<path>> \in Seq(Hypothesis)
    BY <1>4
  <2>2. (IF settings.decoder = "greedy" THEN <<path>> ELSE found) \in Seq(Hypothesis)
    BY <1>3, <2>1
  <2>. QED  BY <1>8, <2>2
<1>10. path.tokens \in Seq(Symbols) /\ None \in Seq(Symbols)
       /\ (found # <<>> => found[1].tokens \in Seq(Symbols))
  <2>1. found # <<>> => found[1] \in Hypothesis
    BY <1>3
  <2>2. path.tokens \in Seq(Symbols) /\ None \in Seq(Symbols)
    BY <1>4 DEF Hypothesis, None
  <2>. QED  BY <2>1, <2>2 DEF Hypothesis
<1>. HIDE DEF massive
<1>. QED  BY <1>1, <1>5, <1>6, <1>7, <1>9, <1>10 DEF ReadView

-----------------------------------------------------------------------------
(***************************************************************************)
(* Every action preserves it.                                             *)
(***************************************************************************)
\* The views that are fused.
LEMMA ReadableIs ==
  ASSUME views \in Seq(ReadView)
  PROVE  Readable \in Seq(ReadView)
<1>. DEFINE I == {i \in DOMAIN views : views[i].read}
<1>1. I \in SUBSET DOMAIN views /\ Readable = Picked(views, I)
  BY DEF Readable
<1>. HIDE DEF I
<1>. QED  BY <1>1, PickedIs

\* The threshold of a configuration.
LEMMA ReadThreshold ==
  ASSUME Configured, views \in Seq(ReadView)
  PROVE  Threshold \in (Nat \X Nat) \cup {None}
<1>1. settings \in Settings
  BY DEF Configured
<1>2. Proposing \in Nat
  <2>. DEFINE I == {i \in DOMAIN Readable : Readable[i].hypotheses # <<>>}
  <2>1. I \in SUBSET DOMAIN Readable /\ DOMAIN Readable = 1 .. Len(Readable) /\ Len(Readable) \in Nat
    BY ReadableIs
  <2>2. IsFiniteSet(DOMAIN Readable)
    BY <2>1, FS_Interval
  <2>. HIDE DEF I
  <2>3. Cardinality(I) \in Nat
    BY <2>1, <2>2, FS_Subset, FS_CardinalityType
  <2>. QED  BY <2>3 DEF Proposing, I
<1>3. /\ settings.calibration.single \in Fractions
      /\ DOMAIN settings.calibration.fused \subseteq Nat
      /\ \A k \in DOMAIN settings.calibration.fused : settings.calibration.fused[k] \in Fractions
  BY <1>1, SettingsAssumption DEF Fraction, Fractions
<1>4. ThresholdFor(settings.calibration, Proposing) \in Fractions
  BY <1>2, <1>3, ThresholdIs
<1>. QED  BY <1>4 DEF Threshold, Fractions

\* It holds at the beginning ...
LEMMA InitReads ==
  ASSUME Init
  PROVE  ReaderInv
BY DEF Init, ReaderInv

\* ... while the grammar is compiled, when nothing is read yet ...
LEMMA CompileReads ==
  ASSUME ReaderInv, CompileNext, UNCHANGED readVars
  PROVE  ReaderInv'
<1>1. pc # "compiled"
  BY DEF CompileNext, Reject, Start, Determinise, EndRow, Partition, Refine, Renumber, EndBlock, Finish
<1>2. settings = NoSettings /\ photo = NoPhoto /\ reason = "none" /\ views \in Seq(ReadView)
  BY <1>1 DEF ReaderInv, Underway, Configured, Over
<1>. QED  BY <1>2 DEF ReaderInv, readVars, ReadView

\* ... when the service is configured ...
LEMMA ConfigureReads ==
  ASSUME ReaderInv, Configure
  PROVE  ReaderInv'
<1>1. settings \notin Settings
  BY SettingsAssumption DEF Configure, NoSettings
<1>2. photo = NoPhoto /\ reason = "none" /\ views \in Seq(ReadView)
  BY <1>1 DEF ReaderInv, Underway, Configured, Over
<1>. QED  BY <1>2 DEF ReaderInv, Configure, Configured, compileVars, ReadView

\* ... when a photo has no plate ...
LEMMA UndetectedReads ==
  ASSUME ReaderInv, Undetected
  PROVE  ReaderInv'
<1>1. NoDetection \in ReadView
  BY DEF NoDetection, ReadView, None
<1>2. views' \in Seq(ReadView)
  BY <1>1 DEF ReaderInv, Undetected
<1>3. Configured'
  BY DEF ReaderInv, Undetected, Idle, Reading, Configured, compileVars
<1>. QED  BY <1>2, <1>3 DEF ReaderInv, Undetected, Idle, Reading, ReadView

\* ... when the beams become a view ...
LEMMA RecogniseReads ==
  ASSUME ReaderInv, Recognise
  PROVE  ReaderInv'
<1>1. Underway
  BY DEF ReaderInv, Recognise
<1>2. views' \in Seq(ReadView)
  BY <1>1, ViewIs DEF ReaderInv, Recognise
<1>3. Configured' /\ reason' = "none"
  BY <1>1 DEF Recognise, Underway, Configured, compileVars
<1>. QED  BY <1>2, <1>3 DEF ReaderInv, Recognise, ReadView

\* A step that leaves the automaton and the settings leaves what is defined from them.
LEMMA FollowsStays ==
  ASSUME automaton' = automaton, settings' = settings
  PROVE  /\ Stands' = Stands /\ Follows' = Follows /\ Sharp' = Sharp
         /\ \A s : Accepts(s)' <=> Accepts(s)
<1>1. \A p : RunOf(p)' = RunOf(p)
  BY DEF RunOf, RunFrom, StepTo
<1>2. \A s : Accepts(s)' <=> Accepts(s)
  BY DEF Accepts, AcceptingFormats, RunOf, RunFrom, StepTo
<1>. QED  BY <1>1, <1>2 DEF Stands, Follows, Sharp, Constrained

\* Nor does it change what fusion returns.
LEMMA FusionStays ==
  ASSUME automaton' = automaton, settings' = settings
  PROVE  \A list, threshold : ProbabilisticFusion(list, threshold)' = ProbabilisticFusion(list, threshold)
<1>1. \A s : Accepts(s)' <=> Accepts(s)
  BY FollowsStays
<1>2. ASSUME NEW view
      PROVE  Proposed(view)' = Proposed(view) /\ \A s : Mass(view, s)' = Mass(view, s)
  <2>1. Proposed(view)' = Proposed(view)
    BY <1>1 DEF Proposed
  <2>2. ASSUME NEW s PROVE Mass(view, s)' = Mass(view, s)
    <3>1. \A i \in DOMAIN view.hypotheses :
            (IF view.hypotheses[i].tokens = s /\ Accepts(s)' THEN view.hypotheses[i].mass ELSE 0)
            = (IF view.hypotheses[i].tokens = s /\ Accepts(s) THEN view.hypotheses[i].mass ELSE 0)
      BY <1>1
    <3>. QED  BY <1>1, Zenon DEF Mass
  <2>. QED  BY <2>1, <2>2
<1>3. ASSUME NEW view
      PROVE  /\ \A s : Raw(view, s)' = Raw(view, s)
             /\ Choice(view)' = Choice(view)
  <2>1. \A s : Mass(view, s)' = Mass(view, s)
    BY <1>2
  <2>2. Proposed(view)' = Proposed(view)
    BY <1>2
  <2>3. \A s : Raw(view, s)' = Raw(view, s)
    BY <2>1, Zenon DEF Raw
  <2>4. Choice(view)' = Choice(view)
    BY <2>1, <2>2 DEF Choice
  <2>. QED  BY <2>3, <2>4
<1>4. ASSUME NEW view, NEW cands PROVE Norm(view, cands)' = Norm(view, cands)
  <2>. DEFINE one(S) == CHOOSE x \in S : TRUE
              later(k) == [S \in SUBSET cands |-> IF S = {} THEN 0 ELSE Raw(view, one(S))' + k[S \ {one(S)}]]
              now(k) == [S \in SUBSET cands |-> IF S = {} THEN 0 ELSE Raw(view, one(S)) + k[S \ {one(S)}]]
              all == MapThenSumSet(LAMBDA s : Raw(view, s), cands)
  <2>1. all' = (CHOOSE k : k = later(k))[cands] /\ all = (CHOOSE k : k = now(k))[cands]
    BY Zenon DEF MapThenSumSet, MapThenFoldSet
  <2>2. ASSUME NEW k PROVE later(k) = now(k)
    <3>1. \A s : Raw(view, s)' = Raw(view, s)
      BY <1>3
    <3>2. ASSUME NEW S \in SUBSET cands
          PROVE  (IF S = {} THEN 0 ELSE Raw(view, one(S))' + k[S \ {one(S)}])
                 = (IF S = {} THEN 0 ELSE Raw(view, one(S)) + k[S \ {one(S)}])
      <4>. HIDE DEF one
      <4>. QED  BY <3>1, Zenon
    <3>. HIDE DEF one
    <3>. QED  BY <3>2, Zenon
  <2>. HIDE DEF later, now
  <2>3. (CHOOSE k : k = later(k)) = CHOOSE k : k = now(k)
    BY <2>2, Zenon
  <2>4. all' = all
    BY <2>1, <2>3, Zenon
  <2>5. Proposed(view)' = Proposed(view)
    BY <1>2
  <2>6. Norm(view, cands)' = (IF Proposed(view)' = {} THEN 1 ELSE all') /\ Norm(view, cands) = (IF Proposed(view) = {} THEN 1 ELSE all)
    BY DEF Norm
  <2>. HIDE DEF all
  <2>. QED  BY <2>4, <2>5, <2>6
<1>5. ASSUME NEW list, NEW s PROVE Score(list, s)' = Score(list, s)
  <2>. DEFINE later == [i \in DOMAIN list |->
                         IF Proposed(list[i])' = {} THEN 1 ELSE Power(Raw(list[i], s)', list[i].weight)]
              now == [i \in DOMAIN list |->
                       IF Proposed(list[i]) = {} THEN 1 ELSE Power(Raw(list[i], s), list[i].weight)]
  <2>1. Score(list, s)' = Product(later) /\ Score(list, s) = Product(now)
    BY DEF Score
  <2>2. later = now
    <3>1. \A v : Proposed(v)' = Proposed(v) /\ Raw(v, s)' = Raw(v, s)
      BY <1>2, <1>3
    <3>. QED  BY <3>1, Zenon
  <2>. HIDE DEF later, now
  <2>. QED  BY <2>1, <2>2, Zenon
<1>6. ASSUME NEW list, NEW cands, NEW i, NEW s PROVE Vote(list, cands, i, s)' = Vote(list, cands, i, s)
  BY <1>3, <1>4, Zenon DEF Vote
<1>7. ASSUME NEW list PROVE Candidates(list)' = Candidates(list)
  BY <1>2 DEF Candidates
<1>8. ASSUME NEW list PROVE Posterior(list)' = Posterior(list)
  BY <1>5, <1>7, Zenon DEF Posterior
<1>9. ASSUME NEW list, NEW winner PROVE Agreeing(list, winner)' = Agreeing(list, winner)
  BY <1>2, <1>3 DEF Agreeing
<1>10. ASSUME NEW list, NEW winner PROVE Positions(list, winner)' = Positions(list, winner)
  <2>1. ASSUME NEW cands, NEW P PROVE Tally(list, cands, P)' = Tally(list, cands, P)
    <3>. DEFINE one(S) == CHOOSE x \in S : TRUE
                later(k) == [S \in SUBSET P |-> IF S = {} THEN 0
                               ELSE Vote(list, cands, one(S)[1], one(S)[2])' + k[S \ {one(S)}]]
                now(k) == [S \in SUBSET P |-> IF S = {} THEN 0
                             ELSE Vote(list, cands, one(S)[1], one(S)[2]) + k[S \ {one(S)}]]
    <3>1. Tally(list, cands, P)' = (CHOOSE k : k = later(k))[P] /\ Tally(list, cands, P) = (CHOOSE k : k = now(k))[P]
      BY Zenon DEF Tally, MapThenSumSet, MapThenFoldSet
    <3>2. ASSUME NEW k PROVE later(k) = now(k)
      <4>1. \A i, s : Vote(list, cands, i, s)' = Vote(list, cands, i, s)
        BY <1>6
      <4>2. ASSUME NEW S \in SUBSET P
            PROVE  (IF S = {} THEN 0 ELSE Vote(list, cands, one(S)[1], one(S)[2])' + k[S \ {one(S)}])
                   = (IF S = {} THEN 0 ELSE Vote(list, cands, one(S)[1], one(S)[2]) + k[S \ {one(S)}])
        <5>. HIDE DEF one
        <5>. QED  BY <4>1, Zenon
      <4>. HIDE DEF one
      <4>. QED  BY <4>2, Zenon
    <3>. HIDE DEF later, now
    <3>3. (CHOOSE k : k = later(k)) = CHOOSE k : k = now(k)
      BY <3>2, Zenon
    <3>. QED  BY <3>1, <3>3, Zenon
  <2>. DEFINE V == {i \in DOMAIN list : Proposed(list[i]) # {}}
              C == Candidates(list)
              P(m, x, K, D) == {v \in K \X D : Aligned(winner, v[2], m) = x}
              later(m, x) == Tally(list, C, P(m, x, V, C))'
              now(m, x) == Tally(list, C, P(m, x, V, C))
              from(total(_, _)) ==
                [m \in DOMAIN winner |->
                   LET voted == {x \in Symbols \cup {GAP} : total(m, x) > 0}
                   IN  IF voted = {} THEN winner[m] :> 1 ELSE [x \in voted |-> total(m, x)]]
  <2>2. Positions(list, winner) = from(now)
    BY Zenon DEF Positions, Tally
  <2>3. Positions(list, winner)' = from(later)
    BY Zenon DEF Positions, Tally
  <2>4. V' = V /\ C' = C
    BY <1>2, <1>7
  <2>5. ASSUME NEW m, NEW x PROVE later(m, x) = now(m, x)
    <3>. HIDE DEF V, C, P
    <3>. QED  BY <2>1, <2>4, Zenon
  <2>. HIDE DEF later, now
  <2>6. from(later) = from(now)
    BY <2>5, Zenon
  <2>. QED  BY <2>2, <2>3, <2>6, Zenon
<1>. QED  BY <1>7, <1>8, <1>9, <1>10, Zenon DEF ProbabilisticFusion

\* ... when a photo is begun ...
LEMMA DetectReads ==
  ASSUME CompileInv, ReaderInv, Detect
  PROVE  ReaderInv'
<1>1. Configured /\ Configured' /\ reason' = "none"
  BY DEF ReaderInv, Detect, Idle, Reading, Configured, compileVars
<1>2. Ready
  BY <1>1 DEF Ready, Configured
<1>3. automaton' = automaton /\ settings' = settings
  BY DEF Detect, compileVars
<1>4. photo' \in Photos /\ frame' = 0 /\ beams' = FirstBeams
  BY DEF Detect
<1>5. 0 \in 0 .. Len(photo')
  BY <1>4, PhotoIs
<1>6. Decoded(Stands, Follows, photo', 0, FirstBeams, Sharp)
  BY <1>2, FollowsIs, FirstDecoded
<1>7. Underway'
  BY <1>1, <1>3, <1>4, <1>5, <1>6, FollowsStays DEF Underway
<1>. QED  BY <1>1, <1>7 DEF ReaderInv, Detect, ReadView

\* ... after one more frame, by the recurrence of the masses ...
LEMMA DecodeFrameReads ==
  ASSUME CompileInv, ReaderInv, DecodeFrame
  PROVE  ReaderInv'
<1>1. Underway
  BY DEF ReaderInv, DecodeFrame
<1>2. Configured /\ Configured' /\ reason' = "none" /\ Ready
  BY <1>1 DEF Underway, Ready, Configured, DecodeFrame, compileVars
<1>3. automaton' = automaton /\ settings' = settings /\ photo' = photo
  BY DEF DecodeFrame, compileVars
<1>4. /\ photo \in Photos /\ photo \in Seq([Classes -> Nat \ {0}]) /\ Len(photo) \in Nat
      /\ frame \in 0 .. Len(photo)
  BY <1>1, PhotoIs DEF Underway
<1>5. frame < Len(photo) /\ frame' = frame + 1
      /\ beams' = NextBeams(beams, photo[frame + 1], Constrained, settings.width, settings.prune)
  BY DEF DecodeFrame
<1>6. frame \in Nat /\ frame + 1 <= Len(photo) /\ frame + 1 \in 0 .. Len(photo)
  BY <1>4, <1>5
<1>7. settings.width \in Nat /\ settings.prune \in Nat
  BY <1>2, SettingsAssumption DEF Configured
<1>8. Constrained \in BOOLEAN /\ Sharp \in BOOLEAN
  BY DEF Constrained, Sharp
<1>9. Sharp => settings.prune = 0 /\ Cardinality(WordsUpTo(Len(photo))) <= settings.width
  <2>1. Cardinality(WordsUpTo(Len(photo))) <= Wide
    BY <1>4, WideAssumption DEF WordsUpTo
  <2>. QED  BY <2>1 DEF Sharp
<1>10. Steered(Stands, Follows, Constrained) /\ Decoded(Stands, Follows, photo, frame, beams, Sharp)
  BY <1>1, <1>2, FollowsIs DEF Underway
<1>. DEFINE after == NextBeams(beams, photo[frame + 1], Constrained, settings.width, settings.prune)
<1>11. Decoded(Stands, Follows, photo, frame + 1, after, Sharp)
  BY <1>4, <1>6, <1>7, <1>8, <1>9, <1>10, NextDecoded, SMTT(30)
<1>. HIDE DEF after
<1>12. beams' = after
  BY <1>5 DEF after
<1>13. Underway'
  BY <1>2, <1>3, <1>4, <1>5, <1>6, <1>11, <1>12, FollowsStays DEF Underway
<1>. QED  BY <1>2, <1>13 DEF ReaderInv, DecodeFrame, ReadView

\* ... when the views are fused and the policy decides ...
LEMMA FuseReads ==
  ASSUME ReaderInv, Fuse
  PROVE  ReaderInv'
<1>1. Configured /\ Configured' /\ views \in Seq(ReadView) /\ photo' = NoPhoto
  BY DEF ReaderInv, Fuse, Reading, Configured, compileVars
<1>2. automaton' = automaton /\ settings' = settings /\ views' = views
  BY DEF Fuse, compileVars
<1>3. Readable' = Readable /\ Threshold' = Threshold
  BY <1>2 DEF Readable, Threshold, Constrained, Proposing
<1>4. /\ fused' = ProbabilisticFusion(Readable, Threshold)
      /\ reason' = ReviewReason(fused', settings.level, Readable # <<>>, settings.reviewEmptySets)
  BY DEF Fuse
<1>5. Readable \in Seq(ReadView) /\ \A v \in ReadView : IsView(v)
  BY <1>1, ReadableIs DEF ReadView, IsView
<1>6. Threshold \in (Nat \X Nat) \cup {None} /\ settings.reviewEmptySets \in BOOLEAN
  BY <1>1, ReadThreshold, SettingsAssumption DEF Configured
<1>7. ASSUME reason' = "", Readable # <<>>
      PROVE  /\ Accepts(fused'.prediction)
             /\ AtMost(settings.level, Confidence(fused'))
             /\ Threshold # None => \/ fused'.set = <<fused'.prediction>>
                                    \/ fused'.set = <<>> /\ ~settings.reviewEmptySets
  <2>1. ReviewReason(fused', settings.level, TRUE, settings.reviewEmptySets) = ""
    BY <1>4, <1>7
  <2>. QED  BY <1>4, <1>5, <1>6, <1>7, <2>1, LetThrough
<1>8. UnreviewedIsCertain'
  BY <1>2, <1>3, <1>7, FollowsStays DEF UnreviewedIsCertain, Confidence
<1>9. (fused = ProbabilisticFusion(Readable, Threshold))'
  BY <1>2, <1>3, <1>4, FusionStays
<1>. QED  BY <1>1, <1>2, <1>8, <1>9 DEF ReaderInv, Over, ReadView

\* ... and when nothing happens.
LEMMA StayReads ==
  ASSUME ReaderInv, UNCHANGED vars
  PROVE  ReaderInv'
<1>1. automaton' = automaton /\ settings' = settings /\ UNCHANGED <<pc, photo, frame, beams, views, fused, reason>>
  BY DEF vars, compileVars, readVars
<1>2. Configured' <=> Configured
  BY <1>1 DEF Configured
<1>3. Underway' <=> Underway
  BY <1>1, <1>2, FollowsStays DEF Underway
<1>4. Readable' = Readable /\ Threshold' = Threshold
  BY <1>1 DEF Readable, Threshold, Constrained, Proposing
<1>5. UnreviewedIsCertain' <=> UnreviewedIsCertain
  BY <1>1, <1>4, FollowsStays DEF UnreviewedIsCertain, Confidence
<1>6. (fused = ProbabilisticFusion(Readable, Threshold))' <=> fused = ProbabilisticFusion(Readable, Threshold)
  BY <1>1, <1>4, FusionStays
<1>. QED  BY <1>1, <1>2, <1>3, <1>5, <1>6 DEF ReaderInv, Over, ReadView

\* Every step of the reader preserves it.
LEMMA ReaderNext ==
  ASSUME CompileInv, ReaderInv, [Next]_vars
  PROVE  ReaderInv'
<1>1. CASE CompileNext /\ UNCHANGED readVars
  BY <1>1, CompileReads
<1>2. CASE Configure
  BY <1>2, ConfigureReads
<1>3. CASE Undetected
  BY <1>3, UndetectedReads
<1>4. CASE Detect
  BY <1>4, DetectReads
<1>5. CASE DecodeFrame
  BY <1>5, DecodeFrameReads
<1>6. CASE Recognise
  BY <1>6, RecogniseReads
<1>7. CASE Fuse
  BY <1>7, FuseReads
<1>8. CASE UNCHANGED vars
  BY <1>8, StayReads
<1>. QED  BY <1>1, <1>2, <1>3, <1>4, <1>5, <1>6, <1>7, <1>8 DEF Next

\* While a photo is decoded, the beams hold at most the masses that the forward algorithm gives
\* their prefixes, and exactly these when nothing is cut; the views are distributions over words.
THEOREM ReadingIsSound == Spec => []ReaderInv
<1>1. Init => ReaderInv
  BY InitReads
<1>2. CompileInv /\ ReaderInv /\ [Next]_vars => ReaderInv'
  BY ReaderNext
<1>3. Spec => []CompileInv
  BY ReaderCompiles, CompileIsSound, PTL
<1>. QED  BY <1>1, <1>2, <1>3, PTL DEF Spec

\* What Engine does not send to review is a plate, at least as probable as the level asks, and the
\* only one in its conformal set: the property UnreviewedIsCertain of the run Reader, for every
\* grammar, every network and every configuration.
THEOREM UnreviewedStaysCertain == Spec => []UnreviewedIsCertain
<1>1. ReaderInv => UnreviewedIsCertain
  BY DEF ReaderInv, Over, UnreviewedIsCertain
<1>. QED  BY <1>1, ReadingIsSound, PTL

\* The read does not depend on the order in which the photos were given: the property
\* OrderOfViewsIsIrrelevant of the run Reader, for any number of photos and every network.
THEOREM OrderNeverMatters == Spec => []OrderOfViewsIsIrrelevant
<1>1. ReaderInv => OrderOfViewsIsIrrelevant
  <2>. SUFFICES ASSUME ReaderInv, reason # "none", NEW p \in Permutations1(Len(Readable))
                PROVE  ProbabilisticFusion([i \in DOMAIN p |-> Readable[p[i]]], Threshold) = fused
    BY Zenon DEF OrderOfViewsIsIrrelevant
  <2>1. fused = ProbabilisticFusion(Readable, Threshold)
    BY DEF ReaderInv, Over
  <2>2. Readable \in Seq(ReadView) /\ \A v \in ReadView : IsView(v)
    BY ReadableIs DEF ReaderInv, ReadView, IsView
  <2>3. p \in Shuffles(Len(Readable)) /\ DOMAIN p = 1 .. Len(Readable)
    BY DEF Permutations1, Shuffles, IsInjective
  <2>4. [i \in DOMAIN p |-> Readable[p[i]]] = Reordered(Readable, p)
    BY <2>3 DEF Reordered
  <2>5. ProbabilisticFusion(Reordered(Readable, p), Threshold) = ProbabilisticFusion(Readable, Threshold)
    BY <2>2, <2>3, FusionShuffled
  <2>. QED  BY <2>1, <2>4, <2>5, Zenon
<1>. QED  BY <1>1, ReadingIsSound, PTL

\* The invariant implies the property of the beams.
LEMMA UnderwayExact ==
  ASSUME CompileInv, Underway, frame > 0
  PROVE  BeamsAreExact
<1>1. Ready /\ photo \in Seq(FrameRows) /\ frame \in Nat \ {0} /\ frame <= Len(photo) /\ Len(photo) \in Nat
  BY PhotoIs DEF Underway, Configured, Ready
<1>2. Decoded(Stands, Follows, photo, frame, beams, Sharp)
  BY DEF Underway
<1>3. ASSUME NEW i \in DOMAIN beams
      PROVE  LET b     == beams[i]
                 exact == Likelihood(SubSeq(photo, 1, frame), b.prefix)
             IN  /\ Total(b) <= exact /\ (Sharp => Total(b) = exact)
                 /\ Constrained => b.state = RunOf(b.prefix) /\ b.state # DEAD
                 /\ \A k \in DOMAIN beams : beams[k].prefix = b.prefix => k = i
  <2>. DEFINE b == beams[i]
              B == BlankMass(photo, frame, b.prefix)
              S == SymbolMass(photo, frame, b.prefix)
  <2>1. b \in BeamRecord(Stands) /\ ABeam(Stands, Follows, b)
    BY <1>2 DEF Decoded, Search
  <2>2. b.prefix \in Seq(Symbols) /\ b.blank \in Nat /\ b.symbol \in Nat
    BY <2>1 DEF BeamRecord
  <2>3. B \in Nat /\ S \in Nat
    BY <1>1, <2>2, MassesAre
  <2>4. Likelihood(SubSeq(photo, 1, frame), b.prefix) = B + S
    BY <1>1, <2>2, LikelihoodIs
  <2>5. b.blank <= B /\ b.symbol <= S /\ (Sharp => b.blank = B /\ b.symbol = S) /\ b.state # DEAD
    BY <1>2 DEF Decoded
  <2>6. Constrained => b.state = RunOf(b.prefix)
    BY <2>1, <2>2 DEF ABeam, Follows
  <2>7. \A k \in DOMAIN beams : beams[k].prefix = b.prefix => k = i
    BY <1>2 DEF Decoded, Search, OneSlotEach
  <2>. HIDE DEF b, B, S
  <2>8. Total(b) <= B + S /\ (Sharp => Total(b) = B + S)
    BY <2>2, <2>3, <2>5 DEF Total
  <2>. QED  BY <2>4, <2>5, <2>6, <2>7, <2>8 DEF b
<1>. QED  BY <1>3 DEF BeamsAreExact

\* The prefix beam search is exact: the property BeamsAreExact of the run Reader, for every
\* grammar, every network, every beam width and pruning.
THEOREM BeamsStayExact == Spec => []BeamsAreExact
<1>1. CompileInv /\ ReaderInv => BeamsAreExact
  BY UnderwayExact DEF ReaderInv, BeamsAreExact, Decoding
<1>2. Spec => []CompileInv
  BY ReaderCompiles, CompileIsSound, PTL
<1>. QED  BY <1>1, <1>2, ReadingIsSound, PTL

-----------------------------------------------------------------------------
(***************************************************************************)
(* The search as a whole.                                                  *)
(***************************************************************************)
\* A beam of a plate is returned.
LEMMA HypothesesHold ==
  ASSUME NEW Q, NEW found \in Seq(BeamRecord(Q)), NEW constrained, NEW i \in DOMAIN found,
         found[i].prefix # <<>>, constrained => AcceptingFormats(found[i].state) # {}
  PROVE  \E k \in DOMAIN Hypotheses(found, constrained) :
           Hypotheses(found, constrained)[k] = [tokens |-> found[i].prefix, mass |-> Total(found[i])]
<1>. DEFINE chosen == {b \in Range(found) : b.prefix # <<>> /\ (constrained => AcceptingFormats(b.state) # {})}
            S == {[tokens |-> b.prefix, mass |-> Total(b)] : b \in chosen}
            made == [b \in chosen |-> [tokens |-> b.prefix, mass |-> Total(b)]]
            h == [tokens |-> found[i].prefix, mass |-> Total(found[i])]
<1>1. IsFiniteSet(Range(found)) /\ Range(found) \in SUBSET BeamRecord(Q)
  BY RangeIs
<1>2. Hypotheses(found, constrained) = InOrder(S, ByMass)
  BY DEF Hypotheses
<1>3. h \in S
  <2>1. found[i] \in chosen
    BY DEF Range
  <2>. HIDE DEF chosen
  <2>. QED  BY <2>1
<1>4. IsFiniteSet(chosen) /\ chosen \in SUBSET BeamRecord(Q)
  <2>1. chosen \in SUBSET Range(found)
    OBVIOUS
  <2>. HIDE DEF chosen
  <2>. QED  BY <1>1, <2>1, FS_Subset
<1>. HIDE DEF chosen, h
<1>5. S \in SUBSET Hypothesis
  <2>1. ASSUME NEW b \in chosen PROVE [tokens |-> b.prefix, mass |-> Total(b)] \in Hypothesis
    <3>1. b \in BeamRecord(Q)
      BY <1>4
    <3>2. b.prefix \in Seq(Symbols) /\ b.blank \in Nat /\ b.symbol \in Nat
      BY <3>1 DEF BeamRecord
    <3>. QED  BY <3>2 DEF Hypothesis, Total
  <2>. QED  BY <2>1
<1>6. made \in Surjection(chosen, S)
  BY DEF Surjection
<1>. HIDE DEF S, made
<1>7. IsFiniteSet(S)
  BY <1>4, <1>6, FS_Surjection
<1>8. /\ InOrder(S, ByMass) \in [1 .. Cardinality(S) -> S]
      /\ \E n \in 1 .. Cardinality(S) : InOrder(S, ByMass)[n] = h
  BY <1>3, <1>5, <1>7, ByMassRanks
<1>. QED  BY <1>2, <1>8 DEF h

\* After a plate the automaton is in an accepting state.
LEMMA PlateIsAccepted ==
  ASSUME Ready, NEW f \in DOMAIN formats, NEW w \in FormatWords(f)
  PROVE  w \in Seq(Symbols) /\ RunOf(w) # DEAD /\ AcceptingFormats(RunOf(w)) # {}
<1>. DEFINE words == [g \in DOMAIN formats |-> FormatWords(g)]
            begun == [g \in DOMAIN formats |-> Beginnings(words[g])]
            viable == UNION Range(begun)
            whole(v) == {g \in DOMAIN formats : v \in words[g]}
            named(F) == {formats[g].name : g \in F}
<1>1. formats \in Seq(PlateFormat)
  BY DEF Ready, CompileInv
<1>2. w \in Seq(Symbols)
  BY <1>1, FormatWordsAre
<1>3. w \in Beginnings(FormatWords(f))
  <2>1. Len(w) \in 0 .. Len(w) /\ SubSeq(w, 1, Len(w)) = w
    BY <1>2, WholeOf
  <2>2. w \in {SubSeq(w, 1, n) : n \in 0 .. Len(w)}
    <3>1. \E n \in 0 .. Len(w) : w = SubSeq(w, 1, n)
      BY <2>1
    <3>. QED  BY <3>1
  <2>. QED  BY <2>2 DEF Beginnings
<1>4. w \in viable
  BY <1>3 DEF Range
<1>5. f \in whole(w)
  OBVIOUS
<1>6. \A v \in viable : AcceptingFormats(RunOf(v)) = named(whole(v))
  BY ReadyRecognises DEF Ready, RecognisesTheFormats
<1>. HIDE DEF viable, whole
<1>7. AcceptingFormats(RunOf(w)) # {}
  BY <1>4, <1>5, <1>6
<1>. QED  BY <1>2, <1>7 DEF AcceptingFormats

\* The invariant implies the property of the whole search.
LEMMA UnderwayComplete ==
  ASSUME CompileInv, Underway
  PROVE  SearchIsComplete
<1>1. Ready /\ photo \in Seq(FrameRows) /\ photo # <<>> /\ Len(photo) \in Nat
  BY PhotoIs DEF Underway, Configured, Ready, NoPhoto
<1>. SUFFICES ASSUME Decoding, frame = Len(photo)
              PROVE  LET plates == {w \in UNION {FormatWords(f) : f \in DOMAIN formats} : Len(w) <= frame}
                         masses == [w \in plates |-> Likelihood(photo, w)]
                     IN  /\ \A w \in plates : masses[w] = AlignedMass(photo, w)
                         /\ Sharp => LET found == Hypotheses(beams, Constrained)
                                     IN  \A w \in plates \ {<<>>} : masses[w] > 0 =>
                                           \E i \in DOMAIN found : found[i] = [tokens |-> w, mass |-> masses[w]]
  BY DEF SearchIsComplete
<1>. DEFINE plates == {w \in UNION {FormatWords(f) : f \in DOMAIN formats} : Len(w) <= frame}
            found == Hypotheses(beams, Constrained)
<1>2. \A w \in plates : w \in Seq(Symbols) /\ RunOf(w) # DEAD /\ AcceptingFormats(RunOf(w)) # {}
  BY <1>1, PlateIsAccepted
<1>3. \A w \in plates : Likelihood(photo, w) = AlignedMass(photo, w)
  BY <1>1, <1>2, ForwardIsExact
<1>4. Decoded(Stands, Follows, photo, frame, beams, Sharp)
  BY DEF Underway
<1>5. ASSUME Sharp, NEW w \in plates \ {<<>>}, Likelihood(photo, w) > 0
      PROVE  \E i \in DOMAIN found : found[i] = [tokens |-> w, mass |-> Likelihood(photo, w)]
  <2>1. w \in Seq(Symbols) /\ RunOf(w) # DEAD /\ AcceptingFormats(RunOf(w)) # {} /\ w # <<>>
    BY <1>2
  <2>2. BlankMass(photo, frame, w) \in Nat /\ SymbolMass(photo, frame, w) \in Nat
    BY <1>1, <2>1, MassesAre
  <2>3. Likelihood(photo, w) = BlankMass(photo, frame, w) + SymbolMass(photo, frame, w)
    <3>1. frame \in Nat \ {0} /\ SubSeq(photo, 1, frame) = photo
      BY <1>1, WholeOf DEF Decoding
    <3>2. Likelihood(SubSeq(photo, 1, frame), w) = BlankMass(photo, frame, w) + SymbolMass(photo, frame, w)
      BY <3>1, LikelihoodIs
    <3>. QED  BY <3>1, <3>2
  <2>4. Follows[w] # DEAD
    BY <2>1 DEF Follows, DEAD
  <2>5. HasSlot(beams, w)
    BY <1>4, <1>5, <2>1, <2>2, <2>3, <2>4 DEF Decoded
  <2>6. PICK i \in DOMAIN beams : beams[i].prefix = w
    BY <2>5 DEF HasSlot
  <2>7. beams \in Seq(BeamRecord(Stands)) /\ ABeam(Stands, Follows, beams[i])
    BY <1>4 DEF Decoded, Search
  <2>8. Constrained => beams[i].state = RunOf(w)
    BY <2>1, <2>6, <2>7 DEF ABeam, Follows
  <2>9. beams[i].blank = BlankMass(photo, frame, w) /\ beams[i].symbol = SymbolMass(photo, frame, w)
    BY <1>4, <1>5, <2>6 DEF Decoded
  <2>10. Total(beams[i]) = Likelihood(photo, w)
    BY <2>3, <2>9 DEF Total
  <2>11. beams[i].prefix # <<>> /\ (Constrained => AcceptingFormats(beams[i].state) # {})
    BY <2>1, <2>6, <2>8
  <2>12. \E k \in DOMAIN Hypotheses(beams, Constrained) :
           Hypotheses(beams, Constrained)[k] = [tokens |-> beams[i].prefix, mass |-> Total(beams[i])]
    BY <2>7, <2>11, HypothesesHold
  <2>. QED  BY <2>6, <2>10, <2>12
<1>. HIDE DEF found
<1>. QED  BY <1>3, <1>5 DEF found

\* The forward algorithm is exact and the search complete: the property SearchIsComplete of the
\* run Reader, for every grammar and every network.
THEOREM SearchStaysComplete == Spec => []SearchIsComplete
<1>1. CompileInv /\ ReaderInv => SearchIsComplete
  BY UnderwayComplete DEF ReaderInv, SearchIsComplete, Decoding
<1>2. Spec => []CompileInv
  BY ReaderCompiles, CompileIsSound, PTL
<1>. QED  BY <1>1, <1>2, ReadingIsSound, PTL

-----------------------------------------------------------------------------
\* Split conformal prediction holds what it promises: the property ThresholdsCover of the run
\* Reader, which is an instance of QuantileCovers.
THEOREM ThresholdsAlwaysCover == Spec => []ThresholdsCover
<1>1. ASSUME NEW n \in 0 .. 4, NEW scores \in [1 .. n + 1 -> 0 .. 3],
             NEW alpha \in {<<1, 10>>, <<1, 4>>, <<1, 2>>}
      PROVE  LET covered == {i \in 1 .. n + 1 : scores[i] <= Quantile(RemoveAt(scores, i), 3, alpha)}
             IN  Cardinality(covered) * alpha[2] >= (n + 1) * (alpha[2] - alpha[1])
  <2>1. n \in Nat /\ 3 \in Nat /\ alpha \in Nat \X Nat /\ 0 < alpha[1] /\ alpha[1] < alpha[2]
    OBVIOUS
  <2>2. Cardinality(Covered(scores, 3, alpha)) * alpha[2] >= (n + 1) * (alpha[2] - alpha[1])
    BY <2>1, QuantileCovers
  <2>3. Covered(scores, 3, alpha) = {i \in 1 .. n + 1 : scores[i] <= Quantile(RemoveAt(scores, i), 3, alpha)}
    BY DEF Covered
  <2>. QED  BY <2>2, <2>3, Zenon
<1>2. ThresholdsCover
  BY <1>1, Zenon DEF ThresholdsCover
<1>. QED  BY <1>2, PTL

-----------------------------------------------------------------------------
\* Alignments of the words of the formats are minimal, and the distance is one: the property
\* AlignmentsAreMinimal of the run Reader, for every grammar.
THEOREM AlignmentsStayMinimal == Spec => []AlignmentsAreMinimal
<1>1. ASSUME CompileInv, Compiled PROVE formats \in Seq(PlateFormat)
  BY <1>1 DEF CompileInv
<1>2. ASSUME formats \in Seq(PlateFormat) PROVE AlignmentsAreMinimal
  <2>. DEFINE words == UNION {FormatWords(f) : f \in DOMAIN formats}
  <2>1. words \subseteq Seq(Symbols)
    BY <1>2, FormatWordsAre
  <2>. HIDE DEF words
  <2>2. ASSUME NEW v \in words, NEW w \in words
        PROVE  LET columns  == Align(v, w)
                   distance == Levenshtein(v, w)
                   indices(side) == Picked([i \in DOMAIN columns |-> columns[i][side]],
                                           {i \in DOMAIN columns : columns[i][side] # 0})
                   changes  == {i \in DOMAIN columns :
                                  \/ columns[i][1] = 0 \/ columns[i][2] = 0
                                  \/ v[columns[i][1]] # w[columns[i][2]]}
                   edited(i) == {RemoveAt(w, i)} \cup {ReplaceAt(w, i, c) : c \in Symbols}
               IN  /\ indices(1) = [i \in DOMAIN v |-> i] /\ indices(2) = [i \in DOMAIN w |-> i]
                   /\ Cardinality(changes) = distance
                   /\ v = w => distance = 0
                   /\ \A i \in DOMAIN w : \A u \in edited(i) : Levenshtein(v, u) - distance \in -1 .. 1
    <3>1. v \in Seq(Symbols) /\ w \in Seq(Symbols)
      BY <2>1
    <3>2. /\ IndicesOn(Align(v, w), 1) = [i \in DOMAIN v |-> i] /\ IndicesOn(Align(v, w), 2) = [i \in DOMAIN w |-> i]
          /\ Cardinality(Changing(v, w, Align(v, w))) = Levenshtein(v, w)
          /\ v = w => Levenshtein(v, w) = 0
      BY <3>1, AlignmentOf
    <3>3. \A i \in DOMAIN w : /\ Levenshtein(v, RemoveAt(w, i)) - Levenshtein(v, w) \in -1 .. 1
                              /\ \A c \in Symbols :
                                   Levenshtein(v, ReplaceAt(w, i, c)) - Levenshtein(v, w) \in -1 .. 1
      <4>. TAKE i \in DOMAIN w
      <4>1. \E c : c \in Symbols
        BY <3>1
      <4>. QED  BY <3>1, <4>1, OneEdit
    <3>4. \A i \in DOMAIN w : \A u \in {RemoveAt(w, i)} \cup {ReplaceAt(w, i, c) : c \in Symbols} :
            Levenshtein(v, u) - Levenshtein(v, w) \in -1 .. 1
      BY <3>3, Zenon
    <3>. QED  BY <3>2, <3>4, Zenon DEF IndicesOn, Changing, Changes
  <2>. QED  BY <2>2, Zenon DEF AlignmentsAreMinimal, words
<1>3. CompileInv => AlignmentsAreMinimal
  BY <1>1, <1>2 DEF AlignmentsAreMinimal
<1>4. Spec => []CompileInv
  BY ReaderCompiles, CompileIsSound, PTL
<1>. QED  BY <1>3, <1>4, PTL
-----------------------------------------------------------------------------
(***************************************************************************)
(* What is evaluated is what is served.                                    *)
(***************************************************************************)
\* The mass of nothing and the sum of one number.
LEMMA SumOfFew ==
  ASSUME NEW x \in Nat
  PROVE  MassOf(<<>>) = 0 /\ Sum([i \in 1 .. 1 |-> x]) = x
<1>1. ASSUME NEW w, NEW m \in {0, 1}, Len(w) = m, m = 1 => w[1] = x
      PROVE  Sum(w) = IF m = 0 THEN 0 ELSE x
  <2>. DEFINE Is(h) == h = [k \in 0 .. m |-> IF k = 0 THEN 0 ELSE h[k - 1] + w[k]]
              g == [k \in 0 .. m |-> IF k = 0 THEN 0 ELSE x]
              h0 == CHOOSE h : Is(h)
  <2>1. Is(g)
    <3>1. ASSUME NEW k \in 0 .. m PROVE g[k] = IF k = 0 THEN 0 ELSE g[k - 1] + w[k]
      <4>1. CASE k = 0
        BY <4>1
      <4>2. CASE k = 1
        <5>1. m = 1 /\ w[1] = x /\ 0 \in 0 .. m /\ 1 - 1 = 0
          BY <1>1, <4>2
        <5>. QED  BY <4>2, <5>1
      <4>. QED  BY <4>1, <4>2
    <3>. QED  BY <3>1
  <2>. HIDE DEF Is
  <2>2. Is(h0)
    BY <2>1, Zenon
  <2>3. Sum(w) = h0[m]
    BY <1>1, Zenon DEF Sum, Is
  <2>. HIDE DEF h0
  <2>4. h0 = [k \in 0 .. m |-> IF k = 0 THEN 0 ELSE h0[k - 1] + w[k]]
    BY <2>2 DEF Is
  <2>5. 0 \in 0 .. m /\ m \in 0 .. m
    OBVIOUS
  <2>6. h0[0] = 0
    BY <2>4, <2>5
  <2>7. m = 1 => h0[1] = h0[0] + w[1]
    BY <2>4, <2>5
  <2>. QED  BY <1>1, <2>3, <2>6, <2>7
<1>2. Len(<<>>) = 0
  OBVIOUS
<1>. DEFINE one == [i \in 1 .. 1 |-> x]
<1>3. Len(one) = 1 /\ one[1] = x
  OBVIOUS
<1>. HIDE DEF one
<1>4. MassOf(<<>>) = 0
  <2>1. [i \in DOMAIN <<>> |-> <<>>[i].mass] = <<>>
    OBVIOUS
  <2>2. Sum(<<>>) = 0
    BY <1>1, <1>2
  <2>. QED  BY <2>1, <2>2, Zenon DEF MassOf
<1>5. Sum(one) = x
  BY <1>1, <1>3
<1>. QED  BY <1>4, <1>5 DEF one

\* The share of a split of one photo.
LEMMA ShareOfOne ==
  ASSUME NEW holds \in BOOLEAN
  PROVE  Cardinality({i \in 1 .. 1 : holds}) = AsNumber(holds)
<1>1. CASE holds
  <2>1. {i \in 1 .. 1 : holds} = {1}
    BY <1>1
  <2>. QED  BY <1>1, <2>1, FS_Singleton DEF AsNumber
<1>2. CASE ~holds
  <2>1. {i \in 1 .. 1 : holds} = {}
    BY <1>2
  <2>. QED  BY <1>2, <2>1, FS_EmptySet DEF AsNumber
<1>. QED  BY <1>1, <1>2

\* Among the hypotheses of a table of beams every word, none of them empty, has one place.
LEMMA HypothesesApart ==
  ASSUME NEW Q, NEW table \in Seq(BeamRecord(Q)), OneSlotEach(table), NEW constrained,
         NEW found, found = Hypotheses(table, constrained)
  PROVE  /\ found \in Seq(Hypothesis)
         /\ \A i \in DOMAIN found : found[i].tokens # <<>>
         /\ \A i, j \in DOMAIN found : found[i].tokens = found[j].tokens => i = j
<1>. DEFINE chosen == {b \in Range(table) : b.prefix # <<>> /\ (constrained => AcceptingFormats(b.state) # {})}
            named(b) == [tokens |-> b.prefix, mass |-> Total(b)]
            S == {named(b) : b \in chosen}
            made == [b \in chosen |-> named(b)]
            n == Cardinality(S)
<1>1. found \in Seq(Hypothesis)
  BY HypothesesAre
<1>2. found = InOrder(S, ByMass)
  BY DEF Hypotheses
<1>3. chosen \in SUBSET Range(table) /\ IsFiniteSet(Range(table))
  BY RangeIs
<1>4. \A b \in chosen : b \in BeamRecord(Q) /\ b.prefix # <<>> /\ \E k \in DOMAIN table : b = table[k]
  BY DEF Range
<1>5. S \in SUBSET Hypothesis
  <2>. HIDE DEF chosen
  <2>1. ASSUME NEW b \in chosen PROVE named(b) \in Hypothesis
    <3>1. b.prefix \in Seq(Symbols) /\ b.blank \in Nat /\ b.symbol \in Nat
      BY <1>4 DEF BeamRecord
    <3>. QED  BY <3>1 DEF Hypothesis, Total
  <2>. QED  BY <2>1
<1>6. IsFiniteSet(S)
  <2>. HIDE DEF chosen
  <2>1. IsFiniteSet(chosen)
    BY <1>3, FS_Subset
  <2>2. made \in Surjection(chosen, S)
    BY DEF Surjection
  <2>. HIDE DEF made, S
  <2>. QED  BY <2>1, <2>2, FS_Surjection
<1>7. \A x, y \in S : x.tokens # <<>> /\ (x.tokens = y.tokens => x = y)
  <2>. HIDE DEF chosen
  <2>. SUFFICES ASSUME NEW b \in chosen, NEW c \in chosen
                PROVE  b.prefix # <<>> /\ (b.prefix = c.prefix => b = c)
    OBVIOUS
  <2>. QED  BY <1>4 DEF OneSlotEach
<1>. HIDE DEF S
<1>8. /\ found \in [1 .. n -> S] /\ n \in Nat
      /\ \A x \in S : \E i \in 1 .. n : found[i] = x
  BY <1>2, <1>5, <1>6, ByMassRanks
<1>. HIDE DEF n
<1>9. \A i, j \in 1 .. n : found[i] = found[j] => i = j
  <2>1. found \in Surjection(1 .. n, S)
    BY <1>8 DEF Surjection
  <2>2. IsFiniteSet(1 .. n) /\ Cardinality(1 .. n) = n
    BY <1>8, FS_Interval
  <2>3. found \in Injection(1 .. n, S)
    BY <2>1, <2>2, FS_SurjSameCardinalityImpliesInj DEF n
  <2>. QED  BY <2>3 DEF Injection, IsInjective
<1>10. DOMAIN found = 1 .. n /\ \A i \in 1 .. n : found[i] \in S
  BY <1>8
<1>. QED  BY <1>1, <1>7, <1>9, <1>10

\* What is measured of a photo is what is made of it: a truth is covered if the set names it.
LEMMA PhotoMeasured ==
  ASSUME NEW found \in Seq(Hypothesis), MassOf(found) > 0,
         \A i \in DOMAIN found : found[i].tokens # <<>>,
         \A i, j \in DOMAIN found : found[i].tokens = found[j].tokens => i = j,
         View(1).prediction = found[1].tokens,
         NEW truth, NEW threshold \in Nat \X Nat
  PROVE  AsMeasured(found, truth, threshold, BeamRead(found, threshold))
<1>. DEFINE all == MassOf(found)
            rivals(i) == <<all - found[i].mass, all>>
            everything == threshold[1] >= threshold[2]
            members == {i \in DOMAIN found : everything \/ AtMost(rivals(i), threshold)}
            words == [i \in DOMAIN found |-> found[i].tokens]
            set == Picked(words, members)
            read == BeamRead(found, threshold)
            score == Score1(truth, read)
            covered == truth \in Range(set)
            part == Coverage(found, truth, threshold)
            measured == EvaluateCoverage(<<[beam |-> found, truth |-> truth]>>, threshold)
            report == CalibrationScore(found, truth)
<1>1. all \in Nat /\ threshold[1] \in Nat /\ threshold[2] \in Nat
  BY MassOfIsNat
<1>2. DOMAIN found = 1 .. Len(found) /\ Len(found) \in Nat /\ \A i \in DOMAIN found : found[i] \in Hypothesis
  OBVIOUS
<1>3. found # <<>> /\ 1 \in DOMAIN found
  <2>1. found # <<>>
    BY SumOfFew
  <2>. QED  BY <1>2, <2>1
<1>4. \A i \in DOMAIN found : found[i].tokens \in Seq(Symbols) /\ found[i].mass \in Nat
  BY <1>2 DEF Hypothesis
<1>5. threshold # None
  <2>1. \E m, n \in Nat : threshold = <<m, n>>
    OBVIOUS
  <2>2. \A m, n : <<m, n>> # <<>>
    OBVIOUS
  <2>. QED  BY <2>1, <2>2 DEF None
<1>6. /\ read.prediction = found[1].tokens /\ read.confidence = <<found[1].mass, all>>
      /\ read.certified = threshold /\ read.set = set
  <2>1. SetOf(found, threshold) = set
    <3>1. Summable(found)
      BY DEF Summable
    <3>2. SetOf(found, threshold) =
            Picked(words, {i \in DOMAIN found : everything \/ (Summable(found) /\ AtMost(rivals(i), threshold))})
      BY Zenon DEF SetOf
    <3>3. {i \in DOMAIN found : everything \/ (Summable(found) /\ AtMost(rivals(i), threshold))} = members
      BY <3>1, Zenon
    <3>. QED  BY <3>2, <3>3, Zenon
  <2>. QED  BY <1>3, <1>5, <2>1, Zenon DEF BeamRead
<1>7. words \in Seq(Seq(Symbols)) /\ DOMAIN words = DOMAIN found /\ \A i \in DOMAIN found : words[i] = found[i].tokens
  BY <1>2, <1>4
<1>8. members \in SUBSET DOMAIN found
  OBVIOUS
<1>. HIDE DEF words
<1>9. /\ set \in Seq({words[i] : i \in members}) /\ set \in Seq(Seq(Symbols))
      /\ Len(set) = Cardinality(members)
      /\ \A i \in members : \E n \in DOMAIN set : set[n] = words[i]
  <2>. HIDE DEF members
  <2>1. members \in SUBSET DOMAIN words
    BY <1>7, <1>8
  <2>. DEFINE W == Seq(Symbols)
  <2>2. words \in Seq(W)
    BY <1>7
  <2>. HIDE DEF W
  <2>3. Picked(words, members) \in Seq({words[i] : i \in members})
    BY <2>1, <2>2, PickedIs
  <2>4. Picked(words, members) \in Seq(W) /\ Len(Picked(words, members)) = Cardinality(members)
    BY <2>1, <2>2, PickedIs, Zenon
  <2>5. \A i \in members : \E n \in DOMAIN Picked(words, members) : Picked(words, members)[n] = words[i]
    BY <2>1, <2>2, PickedIs
  <2>. QED  BY <2>3, <2>4, <2>5 DEF W
<1>10. covered <=> \E i \in members : found[i].tokens = truth
  <2>1. ASSUME NEW i \in members, found[i].tokens = truth PROVE covered
    <3>1. PICK n \in DOMAIN set : set[n] = words[i]
      BY <1>9
    <3>2. words[i] = truth
      BY <1>7, <1>8, <2>1
    <3>. QED  BY <3>1, <3>2 DEF Range
  <2>2. ASSUME covered PROVE \E i \in members : found[i].tokens = truth
    <3>1. PICK n \in DOMAIN set : set[n] = truth
      BY <2>2 DEF Range
    <3>2. truth \in {words[i] : i \in members}
      <4>. HIDE DEF set, members
      <4>1. set[n] \in {words[i] : i \in members}
        BY <1>9, <3>1
      <4>. QED  BY <3>1, <4>1
    <3>. HIDE DEF members
    <3>. QED  BY <1>7, <1>8, <3>2
  <2>. QED  BY <2>1, <2>2
<1>11. members = DOMAIN found \/ ~everything
  OBVIOUS
<1>12. /\ score.covered = AsNumber(covered) /\ score.setSize = Len(set)
       /\ score.confidence = read.confidence /\ score.exact = AsNumber(found[1].tokens = truth)
  <2>1. read.prediction # None /\ read.confidence # None /\ read.certified # None
    BY <1>3, <1>5, <1>6 DEF None
  <2>. HIDE DEF set, read
  <2>. QED  BY <1>6, <2>1 DEF Score1, ScoreOf
<1>13. part.covered = (everything \/ covered)
  <2>1. part.covered = (everything \/ AtMost(Nonconformity(found, truth), threshold))
    BY DEF Coverage
  <2>2. ASSUME ~everything PROVE AtMost(Nonconformity(found, truth), threshold) = covered
    <3>. DEFINE at == {i \in DOMAIN found : found[i].tokens = truth}
    <3>1. Nonconformity(found, truth) =
            IF at = {} THEN <<1, 1>> ELSE <<all - found[Min(at)].mass, all>>
      BY Zenon DEF Nonconformity
    <3>2. CASE at = {}
      <4>1. ~covered
        BY <1>8, <1>10, <3>2
      <4>2. ~AtMost(<<1, 1>>, threshold)
        BY <1>1, <2>2 DEF AtMost
      <4>3. Nonconformity(found, truth) = <<1, 1>>
        BY <3>1, <3>2
      <4>4. covered \in BOOLEAN /\ AtMost(<<1, 1>>, threshold) \in BOOLEAN
        BY DEF AtMost
      <4>. HIDE DEF covered
      <4>. QED  BY <4>1, <4>2, <4>3, <4>4
    <3>3. ASSUME NEW i \in at PROVE AtMost(Nonconformity(found, truth), threshold) = covered
      <4>1. at = {i} /\ i \in Nat /\ i \in DOMAIN found
        BY <1>2, <3>3
      <4>2. Min(at) = i
        <5>. HIDE DEF at
        <5>. QED  BY <4>1 DEF Min
      <4>3. Nonconformity(found, truth) = rivals(i)
        BY <3>1, <4>1, <4>2
      <4>4. covered <=> i \in members
        BY <1>8, <1>10, <4>1
      <4>5. i \in members <=> AtMost(rivals(i), threshold)
        BY <2>2, <4>1
      <4>. HIDE DEF members, set, rivals
      <4>6. covered \in BOOLEAN /\ AtMost(rivals(i), threshold) \in BOOLEAN
        BY DEF AtMost
      <4>. QED  BY <4>3, <4>4, <4>5, <4>6, Zenon
    <3>. QED  BY <3>2, <3>3
  <2>. QED  BY <2>1, <2>2
<1>14. part.size = Len(set)
  <2>1. part.size = IF everything THEN Len(found)
                    ELSE Cardinality({i \in DOMAIN found : AtMost(rivals(i), threshold)})
    BY DEF Coverage
  <2>2. CASE everything
    <3>1. Cardinality(members) = Len(found)
      <4>1. members = 1 .. Len(found)
        BY <1>2, <2>2
      <4>2. \A m \in Nat : Cardinality(1 .. m) = m
        BY FS_Interval
      <4>. HIDE DEF members
      <4>. QED  BY <1>2, <4>1, <4>2
    <3>. HIDE DEF set, members
    <3>. QED  BY <1>9, <2>1, <2>2, <3>1
  <2>3. CASE ~everything
    <3>1. members = {i \in DOMAIN found : AtMost(rivals(i), threshold)}
      BY <2>3
    <3>. QED  BY <1>9, <2>1, <2>3, <3>1
  <2>. QED  BY <2>2, <2>3
<1>15. Len(set) \in Nat /\ (set = <<>> <=> Len(set) = 0)
  <2>. HIDE DEF set
  <2>. QED  BY <1>9
<1>. HIDE DEF set, read, score, covered, members, rivals, all
<1>16. /\ measured.coverage = <<AsNumber(part.covered), 1>> /\ measured.setSize = <<part.size, 1>>
       /\ measured.singletons = <<AsNumber(part.size = 1), 1>>
       /\ measured.empties = <<AsNumber(part.size = 0), 1>> /\ measured.everything = everything
  <2>. DEFINE units == <<[beam |-> found, truth |-> truth]>>
              split == [i \in DOMAIN units |-> Coverage(units[i].beam, units[i].truth, threshold)]
  <2>1. DOMAIN split = 1 .. 1 /\ Len(split) = 1 /\ split[1] = part
    OBVIOUS
  <2>2. measured = CoverageReport(split, threshold)
    BY Zenon DEF EvaluateCoverage
  <2>. HIDE DEF split, part
  <2>3. /\ {i \in DOMAIN split : split[i].covered} = {i \in 1 .. 1 : part.covered}
        /\ {i \in DOMAIN split : split[i].size = 1} = {i \in 1 .. 1 : part.size = 1}
        /\ {i \in DOMAIN split : split[i].size = 0} = {i \in 1 .. 1 : part.size = 0}
        /\ [i \in DOMAIN split |-> split[i].size] = [i \in 1 .. 1 |-> part.size]
    BY <2>1
  <2>4. /\ Cardinality({i \in 1 .. 1 : part.covered}) = AsNumber(part.covered)
        /\ Cardinality({i \in 1 .. 1 : part.size = 1}) = AsNumber(part.size = 1)
        /\ Cardinality({i \in 1 .. 1 : part.size = 0}) = AsNumber(part.size = 0)
    <3>1. part.covered \in BOOLEAN /\ (part.size = 1) \in BOOLEAN /\ (part.size = 0) \in BOOLEAN
      BY <1>13
    <3>. QED  BY <3>1, ShareOfOne
  <2>5. Sum([i \in 1 .. 1 |-> part.size]) = part.size
    BY <1>14, <1>15, SumOfFew
  <2>6. measured = [coverage   |-> <<Cardinality({i \in DOMAIN split : split[i].covered}), 1>>,
                    setSize    |-> <<Sum([i \in DOMAIN split |-> split[i].size]), 1>>,
                    singletons |-> <<Cardinality({i \in DOMAIN split : split[i].size = 1}), 1>>,
                    empties    |-> <<Cardinality({i \in DOMAIN split : split[i].size = 0}), 1>>,
                    everything |-> everything]
    BY <2>1, <2>2, Zenon DEF CoverageReport
  <2>. HIDE DEF measured
  <2>. QED  BY <2>3, <2>4, <2>5, <2>6
<1>17. report = [confidence |-> score.confidence, exact |-> score.exact]
  <2>1. report = [confidence |-> <<found[1].mass, all>>, exact |-> AsNumber(found # <<>> /\ found[1].tokens = truth)]
    BY <1>3, Zenon DEF CalibrationScore, all
  <2>2. (found # <<>> /\ found[1].tokens = truth) = (found[1].tokens = truth)
    BY <1>3
  <2>. QED  BY <1>6, <1>12, <2>1, <2>2
<1>. HIDE DEF measured, report, part, everything
<1>18. AsMeasured(found, truth, threshold, read) = Measured(truth, threshold, read, score, measured, report)
  BY Zenon DEF AsMeasured, score, measured, report
<1>19. Measured(truth, threshold, read, score, measured, report)
  <2>1. (everything \/ covered) = TRUE \/ ~everything
    OBVIOUS
  <2>2. /\ ~everything => measured.coverage = <<score.covered, 1>>
        /\ everything => measured.coverage = <<1, 1>>
    BY <1>12, <1>13, <1>16 DEF AsNumber
  <2>3. /\ measured.singletons[1] = 1 <=> score.setSize = 1
        /\ measured.empties[1] = 1 <=> read.set = <<>>
    BY <1>6, <1>12, <1>14, <1>15, <1>16 DEF AsNumber
  <2>4. measured.setSize = <<score.setSize, 1>> /\ read.prediction = View(1).prediction
    BY <1>6, <1>12, <1>14, <1>16
  <2>. QED  BY <1>16, <1>17, <2>2, <2>3, <2>4 DEF Measured
<1>. QED  BY <1>18, <1>19 DEF read

\* The items of a group come in the order of their views: wherever the views are among the items,
\* what is fused are the views in their order.
LEMMA ViewsInOrder ==
  ASSUME NEW V, NEW readable \in Seq(V), readable # <<>>, NEW p \in Shuffles(Len(readable)),
         NEW items, items = ItemsOf(p, readable), NEW members, members = MembersOf(items, 1, Len(readable))
  PROVE  /\ 1 \in {items[q].group : q \in DOMAIN items}
         /\ [i \in DOMAIN members |-> items[members[i]].read] = readable
<1>. DEFINE n == Len(readable)
            G == {q \in DOMAIN items : items[q].group = 1}
            first(q, r) == \/ items[q].view < items[r].view
                           \/ items[q].view = items[r].view /\ q < r
            list == InOrder(G, first)
            before(x) == {y \in G : first(y, x)}
            at == [k \in 1 .. n |-> 2 * k - 1]
<1>1. n \in Nat /\ n >= 1 /\ DOMAIN readable = 1 .. n
  OBVIOUS
<1>2. /\ p \in [1 .. n -> 1 .. n] /\ Len(p) = n
      /\ \A a, b \in 1 .. n : p[a] = p[b] => a = b
      /\ \A k \in 1 .. n : \E i \in 1 .. n : p[i] = k
  <2>1. p \in [1 .. n -> 1 .. n] /\ \A a, b \in 1 .. n : p[a] = p[b] => a = b
    BY DEF Shuffles
  <2>2. Len(p) = n
    BY <1>1, <2>1
  <2>3. \A k \in 1 .. n : \E i \in 1 .. n : p[i] = k
    BY <1>1, ShuffleReaches
  <2>. QED  BY <2>1, <2>2, <2>3
<1>. HIDE DEF n
<1>3. DOMAIN items = 1 .. 2 * n
  BY <1>2 DEF ItemsOf
<1>4. ASSUME NEW k \in 1 .. n
      PROVE  /\ 2 * k - 1 \in 1 .. 2 * n /\ items[2 * k - 1].group = 1
             /\ items[2 * k - 1].view = p[k] /\ items[2 * k - 1].read = readable[p[k]]
  <2>1. 2 * k - 1 \in 1 .. 2 * n /\ (2 * k - 1) % 2 = 1 /\ ((2 * k - 1) + 1) \div 2 = k
    BY <1>1
  <2>2. items[2 * k - 1] = [group |-> 1, view |-> p[((2 * k - 1) + 1) \div 2], truth |-> None,
                            read |-> readable[p[((2 * k - 1) + 1) \div 2]]]
    BY <1>2, <2>1 DEF ItemsOf
  <2>. QED  BY <2>1, <2>2
<1>5. \A q \in G : \E k \in 1 .. n : q = 2 * k - 1
  <2>. SUFFICES ASSUME NEW q \in 1 .. 2 * n, items[q].group = 1 PROVE \E k \in 1 .. n : q = 2 * k - 1
    BY <1>3
  <2>1. CASE q % 2 = 1
    <3>1. \E k \in 1 .. n : q = 2 * k - 1
      <4>1. (q + 1) \div 2 \in 1 .. n /\ q = 2 * ((q + 1) \div 2) - 1
        BY <1>1, <2>1
      <4>. QED  BY <4>1
    <3>. QED  BY <3>1
  <2>2. CASE q % 2 # 1
    <3>1. items[q] = [group |-> 2, view |-> q, truth |-> None, read |-> readable[1]]
      BY <1>2, <2>2 DEF ItemsOf
    <3>. QED  BY <3>1
  <2>. QED  BY <2>1, <2>2
<1>6. \A k \in 1 .. n : 2 * k - 1 \in G
  BY <1>3, <1>4
<1>7. at \in Bijection(1 .. n, G)
  <2>1. at \in [1 .. n -> G]
    BY <1>6
  <2>2. \A a, b \in 1 .. n : at[a] = at[b] => a = b
    BY <1>1
  <2>3. \A q \in G : \E k \in 1 .. n : at[k] = q
    BY <1>5
  <2>. HIDE DEF at, G
  <2>. QED  BY <2>1, <2>2, <2>3 DEF Bijection, Injection, Surjection, IsInjective
<1>8. Cardinality(G) = n /\ IsFiniteSet(G)
  <2>1. IsFiniteSet(1 .. n) /\ Cardinality(1 .. n) = n
    BY <1>1, FS_Interval
  <2>2. ExistsBijection(1 .. n, G)
    BY <1>7 DEF ExistsBijection
  <2>. HIDE DEF G
  <2>. QED  BY <2>1, <2>2, FS_Bijection
\* As many are ahead of a view as there are smaller numbers.
<1>9. ASSUME NEW k \in 1 .. n PROVE Cardinality(before(2 * k - 1)) = p[k] - 1
  <2>. DEFINE B == before(2 * k - 1)
              viewed == [q \in B |-> items[q].view]
              m == p[k] - 1
  <2>1. m \in Nat /\ p[k] \in 1 .. n /\ m + 1 = p[k]
    <3>1. p[k] \in 1 .. n
      BY <1>2
    <3>. QED  BY <1>1, <3>1
  <2>2. ASSUME NEW q \in G PROVE q \in B <=> items[q].view \in 1 .. m
    <3>1. PICK j \in 1 .. n : q = 2 * j - 1
      BY <1>5
    <3>2. items[q].view = p[j] /\ items[2 * k - 1].view = p[k] /\ p[j] \in 1 .. n /\ p[k] \in 1 .. n
      BY <1>2, <1>4, <3>1
    <3>3. p[j] = p[k] => j = k
      BY <1>2
    <3>4. first(q, 2 * k - 1) <=> p[j] < p[k]
      BY <1>1, <3>1, <3>2, <3>3
    <3>. QED  BY <1>1, <3>2, <3>4
  <2>3. viewed \in Bijection(B, 1 .. m)
    <3>1. viewed \in [B -> 1 .. m]
      BY <2>2
    <3>2. ASSUME NEW q \in B, NEW r \in B, viewed[q] = viewed[r] PROVE q = r
      <4>1. PICK i, j \in 1 .. n : q = 2 * i - 1 /\ r = 2 * j - 1
        BY <1>5
      <4>2. p[i] = p[j]
        BY <1>4, <3>2, <4>1
      <4>. QED  BY <1>2, <4>1, <4>2
    <3>3. ASSUME NEW v \in 1 .. m PROVE \E q \in B : viewed[q] = v
      <4>1. v \in 1 .. n
        BY <1>1, <2>1
      <4>2. PICK j \in 1 .. n : p[j] = v
        BY <1>2, <4>1
      <4>3. 2 * j - 1 \in G /\ items[2 * j - 1].view = v
        BY <1>4, <1>6, <4>2
      <4>4. 2 * j - 1 \in B
        BY <2>2, <4>3
      <4>. QED  BY <4>3, <4>4
    <3>. HIDE DEF viewed, B, m
    <3>. QED  BY <3>1, <3>2, <3>3 DEF Bijection, Injection, Surjection, IsInjective
  <2>4. B \in SUBSET G
    OBVIOUS
  <2>. HIDE DEF viewed, B, G, m
  <2>5. IsFiniteSet(B)
    BY <1>8, <2>4, FS_Subset
  <2>6. Cardinality(1 .. m) = Cardinality(B)
    BY <2>3, <2>5, FS_Bijection DEF ExistsBijection
  <2>7. Cardinality(1 .. m) = m
    BY <2>1, FS_Interval
  <2>. QED  BY <2>6, <2>7 DEF B, m
<1>10. list = [i \in 1 .. n |-> CHOOSE x \in G : Cardinality(before(x)) = i - 1]
  BY <1>8, Zenon DEF InOrder
<1>11. ASSUME NEW i \in 1 .. n PROVE \E k \in 1 .. n : list[i] = 2 * k - 1 /\ p[k] = i
  <2>. HIDE DEF G, before, list
  <2>1. PICK j \in 1 .. n : p[j] = i
    BY <1>2
  <2>2. 2 * j - 1 \in G /\ Cardinality(before(2 * j - 1)) = i - 1
    BY <1>6, <1>9, <2>1
  <2>3. list[i] \in G /\ Cardinality(before(list[i])) = i - 1
    BY <1>10, <2>2
  <2>4. PICK k \in 1 .. n : list[i] = 2 * k - 1
    BY <1>5, <2>3
  <2>5. Cardinality(before(2 * k - 1)) = p[k] - 1 /\ p[k] \in 1 .. n
    BY <1>2, <1>9
  <2>6. p[k] = i
    BY <1>1, <2>3, <2>4, <2>5
  <2>. QED  BY <2>4, <2>6
<1>12. members = list
  <2>1. list \in [1 .. n -> Int]
    <3>. HIDE DEF list
    <3>1. DOMAIN list = 1 .. n
      BY <1>10
    <3>2. list = [i \in 1 .. n |-> list[i]]
      <4>. DEFINE choice(i) == CHOOSE x \in G : Cardinality(before(x)) = i - 1
      <4>1. list = [i \in 1 .. n |-> choice(i)]
        BY <1>10
      <4>. HIDE DEF choice
      <4>. QED  BY <4>1
    <3>3. ASSUME NEW i \in 1 .. n PROVE list[i] \in Int
      <4>1. PICK k \in 1 .. n : list[i] = 2 * k - 1
        BY <1>11
      <4>2. k \in Int
        BY <1>1
      <4>. QED  BY <4>1, <4>2
    <3>. QED  BY <3>2, <3>3
  <2>2. members = First(list, n)
    BY Zenon DEF MembersOf, n
  <2>. HIDE DEF list
  <2>3. Len(list) = n /\ list \in Seq(Int)
    BY <1>1, <2>1
  <2>4. Min({n, Len(list)}) = n
    <3>1. \A x \in {n, Len(list)} : x = n
      BY <2>3
    <3>2. n <= n
      BY <1>1
    <3>. QED  BY <3>1, <3>2 DEF Min
  <2>5. SubSeq(list, 1, n) = list
    BY <1>1, <2>3, WholeOf
  <2>. QED  BY <2>2, <2>4, <2>5 DEF First
<1>13. [i \in DOMAIN members |-> items[members[i]].read] = readable
  <2>1. DOMAIN list = 1 .. n
    BY <1>10
  <2>. HIDE DEF list, G
  <2>2. ASSUME NEW i \in 1 .. n PROVE items[list[i]].read = readable[i]
    <3>1. PICK k \in 1 .. n : list[i] = 2 * k - 1 /\ p[k] = i
      BY <1>11
    <3>. QED  BY <1>4, <3>1
  <2>3. readable = [i \in 1 .. n |-> readable[i]]
    BY <1>1 DEF n
  <2>. QED  BY <1>12, <2>1, <2>2, <2>3
<1>14. 1 \in {items[q].group : q \in DOMAIN items}
  <2>1. 1 \in 1 .. n /\ 2 * 1 - 1 = 1
    BY <1>1
  <2>2. 1 \in DOMAIN items /\ items[1].group = 1
    BY <1>3, <1>4, <2>1
  <2>. QED  BY <2>2
<1>. QED  BY <1>13, <1>14

\* The invariant implies both parts of the property: of a photo that is decoded ...
LEMMA PhotosMeasured ==
  ASSUME ReaderInv
  PROVE  PhotosAreEvaluated
<1>. SUFFICES ASSUME Decoding, Constrained, MassOf(Hypotheses(beams, TRUE)) > 0
              PROVE  \A truth : \A threshold \in Levels :
                       AsMeasured(Hypotheses(beams, TRUE), truth, threshold,
                                  BeamRead(Hypotheses(beams, TRUE), threshold))
  BY Zenon DEF PhotosAreEvaluated, PhotoIsEvaluated
<1>. DEFINE found == Hypotheses(beams, TRUE)
<1>1. Underway
  BY DEF ReaderInv, Decoding
<1>2. beams \in Seq(BeamRecord(Stands)) /\ OneSlotEach(beams)
  BY <1>1 DEF Underway, Decoded, Search
<1>3. /\ found \in Seq(Hypothesis)
      /\ \A i \in DOMAIN found : found[i].tokens # <<>>
      /\ \A i, j \in DOMAIN found : found[i].tokens = found[j].tokens => i = j
  BY <1>2, HypothesesApart
<1>4. found # <<>>
  <2>1. MassOf(found) > 0
    OBVIOUS
  <2>. HIDE DEF found
  <2>. QED  BY <2>1, SumOfFew
<1>5. View(1).prediction = found[1].tokens
  <2>1. Constrained = TRUE /\ settings.decoder # "greedy"
    BY DEF Constrained
  <2>2. Hypotheses(beams, Constrained) = found
    BY <2>1
  <2>3. View(1).prediction = IF settings.decoder = "greedy" THEN Greedy(photo).tokens
                             ELSE IF Hypotheses(beams, Constrained) = <<>> THEN None
                             ELSE Hypotheses(beams, Constrained)[1].tokens
    BY DEF View
  <2>. HIDE DEF found
  <2>. QED  BY <1>4, <2>1, <2>2, <2>3
<1>6. Levels \subseteq Nat \X Nat
  <2>1. settings.calibration.single \in (Nat \X Nat) \cup {None}
    BY <1>1, SettingsAssumption DEF Underway, Configured, Fraction
  <2>. QED  BY <2>1 DEF Levels
<1>. HIDE DEF found
<1>7. MassOf(found) > 0
  BY DEF found
<1>8. ASSUME NEW truth, NEW threshold \in Levels
      PROVE  AsMeasured(found, truth, threshold, BeamRead(found, threshold))
  <2>1. threshold \in Nat \X Nat
    BY <1>6
  <2>. QED  BY <1>3, <1>5, <1>7, <2>1, PhotoMeasured
<1>. QED  BY <1>8, Zenon DEF found

\* ... and of the views that are fused.
LEMMA FusionMeasured ==
  ASSUME ReaderInv
  PROVE  FusionIsEvaluated
<1>. SUFFICES ASSUME reason # "none", Constrained, Readable # <<>>, NEW p \in Permutations1(Len(Readable))
              PROVE  EvaluateFusion(ItemsOf(p, Readable), Len(p), settings.calibration)[1].read = AsRead(fused)
  BY Zenon DEF FusionIsEvaluated, AnyOrderFuses
<1>. DEFINE n == Len(Readable)
            items == ItemsOf(p, Readable)
            members == MembersOf(items, 1, n)
            groups == {items[q].group : q \in DOMAIN items}
            reads == [i \in DOMAIN members |-> items[members[i]].read]
<1>1. Readable \in Seq(ReadView)
  BY ReadableIs DEF ReaderInv
<1>2. p \in Shuffles(n) /\ Len(p) = n
  <2>1. n \in Nat
    BY <1>1
  <2>. HIDE DEF n
  <2>. QED  BY <2>1 DEF Permutations1, Shuffles, IsInjective, n
<1>3. 1 \in groups /\ reads = Readable
  <2>. HIDE DEF items, members
  <2>1. items = ItemsOf(p, Readable) /\ members = MembersOf(items, 1, Len(Readable))
    BY DEF items, members
  <2>. QED  BY <1>1, <1>2, <2>1, ViewsInOrder
<1>4. fused = ProbabilisticFusion(Readable, Threshold)
  BY DEF ReaderInv, Over
<1>5. FusedGroup(Readable, settings.calibration) = fused
  BY <1>4 DEF FusedGroup, Threshold, Proposing
<1>6. EvaluateFusion(items, n, settings.calibration)[1] = FusedUnit(items, members, settings.calibration)
  <2>. HIDE DEF items
  <2>. QED  BY <1>3, Zenon DEF EvaluateFusion
<1>7. FusedUnit(items, members, settings.calibration).read = AsRead(FusedGroup(reads, settings.calibration))
  BY DEF FusedUnit
<1>. HIDE DEF items, members, reads, n
<1>8. EvaluateFusion(items, n, settings.calibration)[1].read = AsRead(fused)
  BY <1>3, <1>5, <1>6, <1>7
<1>. QED  BY <1>2, <1>8 DEF items

\* What the evaluation and the calibration measure is what the service serves: the property
\* EvaluationIsServed of the run Reader, for every grammar, network, calibration, truth and order
\* of the items.
THEOREM EvaluationStaysServed == Spec => []EvaluationIsServed
<1>1. ReaderInv => EvaluationIsServed
  BY PhotosMeasured, FusionMeasured DEF EvaluationIsServed
<1>. QED  BY <1>1, ReadingIsSound, PTL

-----------------------------------------------------------------------------
(***************************************************************************)
(* The boxes of plates: letterbox and its way back, and one crop for a     *)
(* plate.                                                                  *)
(***************************************************************************)
\* Division leaves a rest.
LEMMA RestOfDivision ==
  ASSUME NEW n \in Int, NEW d \in Nat \ {0}
  PROVE  n % d \in 0 .. d - 1 /\ n = ((n \div d) * d) + (n % d)
OBVIOUS

\* Rounding is to the nearest integer.
LEMMA RoundedIs ==
  ASSUME NEW n \in Int, NEW d \in Nat \ {0}
  PROVE  /\ Rounded(n, d) \in Int /\ Rounded(n, d) * d \in Int
         /\ 2 * (Rounded(n, d) * d) - 2 * n \in -d .. d
<1>. DEFINE down == n \div d
            rest == n % d
            part == down * d
<1>1. down \in Int /\ part \in Int /\ rest \in 0 .. d - 1 /\ n = part + rest
  BY DivisionIs, RestOfDivision
<1>2. (down + 1) * d = part + d
  BY <1>1
<1>3. Rounded(n, d) = IF 2 * rest < d \/ (2 * rest = d /\ down % 2 = 0) THEN down ELSE down + 1
  BY DEF Rounded
<1>. HIDE DEF down, rest
<1>4. CASE Rounded(n, d) = down /\ 2 * rest <= d
  <2>1. Rounded(n, d) * d = part
    BY <1>4
  <2>. HIDE DEF part
  <2>. QED  BY <1>1, <1>4, <2>1
<1>5. CASE Rounded(n, d) = down + 1 /\ 2 * rest >= d
  <2>1. Rounded(n, d) * d = part + d
    BY <1>2, <1>5
  <2>. HIDE DEF part
  <2>. QED  BY <1>1, <1>5, <2>1
<1>6. (Rounded(n, d) = down /\ 2 * rest <= d) \/ (Rounded(n, d) = down + 1 /\ 2 * rest >= d)
  <2>. HIDE DEF part
  <2>1. rest \in Int /\ d \in Int
    BY <1>1
  <2>. QED  BY <1>3, <2>1
<1>. QED  BY <1>4, <1>5, <1>6

\* What is no part of k wholes or more rounds to none or to k at the most.
LEMMA RoundedWithin ==
  ASSUME NEW d \in Nat \ {0}, NEW k \in Nat, NEW n \in Nat, n <= k * d
  PROVE  Rounded(n, d) \in 0 .. k
<1>. DEFINE r == Rounded(n, d)
<1>0. r \in Int /\ r * d \in Int /\ 2 * (r * d) - 2 * n \in -d .. d
  BY RoundedIs
<1>. HIDE DEF r
<1>1. r \in Int /\ r * d \in Int /\ 2 * n - d <= 2 * (r * d) /\ 2 * (r * d) <= 2 * n + d
  BY <1>0
<1>2. k * d \in Int
  OBVIOUS
<1>3. ~(r <= -1)
  <2>1. SUFFICES ASSUME r <= -1 PROVE FALSE
    OBVIOUS
  <2>2. r * d <= (-1) * d
    BY <1>1, <2>1, Multiplied
  <2>3. r * d <= -d
    BY <1>1, <2>2
  <2>. QED  BY <1>1, <2>3
<1>4. ~(k + 1 <= r)
  <2>1. SUFFICES ASSUME k + 1 <= r PROVE FALSE
    OBVIOUS
  <2>2. (k + 1) * d <= r * d
    BY <1>1, <2>1, Multiplied
  <2>3. (k + 1) * d = k * d + d
    OBVIOUS
  <2>. QED  BY <1>1, <1>2, <2>2, <2>3
<1>5. r \in 0 .. k
  BY <1>1, <1>3, <1>4
<1>. QED  BY <1>5 DEF r

\* An odd padding has its larger half at the end.
LEMMA HalvesRound ==
  ASSUME NEW pad \in Nat
  PROVE  LET before == Rounded(5 * pad - 1, 10)
             after  == Rounded(5 * pad + 1, 10)
         IN  before \in Nat /\ after \in Nat /\ after - before \in {0, 1} /\ before + after = pad
<1>. DEFINE before == Rounded(5 * pad - 1, 10)
            after == Rounded(5 * pad + 1, 10)
<1>1. before \in Int /\ 2 * (before * 10) - 2 * (5 * pad - 1) \in -10 .. 10
  <2>1. 5 * pad - 1 \in Int /\ 10 \in Nat \ {0}
    OBVIOUS
  <2>. QED  BY <2>1, RoundedIs
<1>2. after \in Int /\ 2 * (after * 10) - 2 * (5 * pad + 1) \in -10 .. 10
  <2>1. 5 * pad + 1 \in Int /\ 10 \in Nat \ {0}
    OBVIOUS
  <2>. QED  BY <2>1, RoundedIs
<1>. HIDE DEF before, after
<1>. QED  BY <1>1, <1>2 DEF before, after

\* The greater and the less of two numbers.
LEMMA GreaterOfTwo ==
  ASSUME NEW a \in Int, NEW b \in Int
  PROVE  Max({a, b}) = IF a >= b THEN a ELSE b
<1>. DEFINE S == {a, b}
<1>1. \E x \in S : \A y \in S : x >= y
  OBVIOUS
<1>2. \A x \in S : x = a \/ x = b
  OBVIOUS
<1>3. a \in S /\ b \in S
  OBVIOUS
<1>. HIDE DEF S
<1>4. Max(S) \in S /\ \A y \in S : Max(S) >= y
  BY <1>1, Zenon DEF Max
<1>5. (Max(S) = a \/ Max(S) = b) /\ Max(S) >= a /\ Max(S) >= b
  BY <1>2, <1>3, <1>4
<1>6. Max(S) = IF a >= b THEN a ELSE b
  BY <1>5
<1>. QED  BY <1>6 DEF S

LEMMA LessOfTwo ==
  ASSUME NEW a \in Int, NEW b \in Int
  PROVE  Min({a, b}) = IF a <= b THEN a ELSE b
<1>. DEFINE S == {a, b}
<1>1. \E x \in S : \A y \in S : x <= y
  OBVIOUS
<1>2. \A x \in S : x = a \/ x = b
  OBVIOUS
<1>3. a \in S /\ b \in S
  OBVIOUS
<1>. HIDE DEF S
<1>4. Min(S) \in S /\ \A y \in S : Min(S) <= y
  BY <1>1, Zenon DEF Min
<1>5. (Min(S) = a \/ Min(S) = b) /\ Min(S) <= a /\ Min(S) <= b
  BY <1>2, <1>3, <1>4
<1>6. Min(S) = IF a <= b THEN a ELSE b
  BY <1>5
<1>. QED  BY <1>6 DEF S

\* What is d times a number leaves no rest.
LEMMA NoRest ==
  ASSUME NEW k \in Int, NEW d \in Nat \ {0}
  PROVE  (k * d) % d = 0
<1>. DEFINE q == (k * d) \div d
            rest == (k * d) % d
<1>1. k * d \in Int
  OBVIOUS
<1>2. q \in Int /\ rest \in 0 .. d - 1 /\ k * d = (q * d) + rest
  BY <1>1, DivisionIs, RestOfDivision
<1>. HIDE DEF q, rest
<1>3. (k - q) * d = rest
  <2>1. (k - q) * d = k * d - q * d
    BY <1>2
  <2>. QED  BY <1>2, <2>1
<1>4. ~(k - q >= 1)
  <2>1. SUFFICES ASSUME 1 <= k - q PROVE FALSE
    BY <1>2
  <2>2. 1 * d <= (k - q) * d
    BY <1>2, <2>1, Multiplied
  <2>. QED  BY <1>2, <1>3, <2>2
<1>5. ~(k - q <= -1)
  <2>1. SUFFICES ASSUME k - q <= -1 PROVE FALSE
    OBVIOUS
  <2>2. (k - q) * d <= (-1) * d
    BY <1>2, <2>1, Multiplied
  <2>. QED  BY <1>2, <1>3, <2>2
<1>6. k - q = 0
  BY <1>2, <1>4, <1>5
<1>7. rest = 0
  BY <1>3, <1>6
<1>. QED  BY <1>7 DEF rest

\* One side of letterbox has the length the network takes.
LEMMA SideIs ==
  ASSUME NEW long \in Nat \ {0}, NEW n \in Nat, n <= long, NEW auto \in BOOLEAN
  PROVE  LET side == Side(n, long, auto)
         IN  /\ side.before \in Nat /\ side.after - side.before \in {0, 1}
             /\ IF auto THEN Extent(side) % Stride = 0 /\ Extent(side) <= Size ELSE Extent(side) = Size
<1>. DEFINE new == Rounded(n * Size, long)
            pad == IF auto THEN (Size - new) % Stride ELSE Size - new
            before == Rounded(5 * pad - 1, 10)
            after == Rounded(5 * pad + 1, 10)
            side == Side(n, long, auto)
<1>0. Size \in Nat \ {0} /\ Stride \in Nat \ {0} /\ Size % Stride = 0
  BY DetectorAssumption
<1>1. new \in 0 .. Size
  <2>1. n * Size \in Nat
    BY <1>0
  <2>2. n * Size <= long * Size
    BY <1>0, Multiplied
  <2>3. long * Size = Size * long
    BY <1>0
  <2>4. n * Size <= Size * long
    BY <2>2, <2>3
  <2>. QED  BY <1>0, <2>1, <2>4, RoundedWithin
<1>2. side = [new |-> new, before |-> before, after |-> after]
  BY DEF Side
<1>. HIDE DEF new
<1>3. Size - new \in Nat /\ Size - new \in Int
  BY <1>0, <1>1
<1>10. /\ (Size - new) \div Stride \in Int /\ (Size - new) % Stride \in 0 .. Stride - 1
       /\ Size - new = (((Size - new) \div Stride) * Stride) + ((Size - new) % Stride)
  BY <1>0, <1>3, DivisionIs, RestOfDivision, Zenon
<1>4. pad \in Nat
  <2>1. CASE auto
    <3>1. pad = (Size - new) % Stride
      BY <2>1
    <3>. HIDE DEF pad
    <3>. QED  BY <1>0, <1>10, <3>1
  <2>2. CASE ~auto
    BY <1>3, <2>2
  <2>. QED  BY <2>1, <2>2
<1>. HIDE DEF pad
<1>5. before \in Nat /\ after \in Nat /\ after - before \in {0, 1} /\ before + after = pad
  BY <1>4, HalvesRound
<1>. HIDE DEF before, after, side
<1>6. Extent(side) = new + pad
  <2>1. Extent(side) = before + new + after
    BY <1>2 DEF Extent
  <2>. QED  BY <1>1, <1>5, <2>1
<1>7. side.before \in Nat /\ side.after - side.before \in {0, 1}
  BY <1>2, <1>5
<1>8. CASE ~auto
  <2>1. pad = Size - new
    BY <1>8 DEF pad
  <2>2. Extent(side) = Size
    BY <1>0, <1>1, <1>6, <2>1
  <2>. QED  BY <1>7, <1>8, <2>2 DEF side
<1>9. CASE auto
  <2>. DEFINE q == (Size - new) \div Stride
              s == Size \div Stride
  <2>1. q \in Int /\ q * Stride \in Int /\ Size - new = (q * Stride) + pad /\ pad < Stride
    <3>1. pad = (Size - new) % Stride
      BY <1>9 DEF pad
    <3>2. q \in Int /\ pad \in 0 .. Stride - 1 /\ Size - new = (q * Stride) + pad
      BY <1>10, <3>1, Zenon DEF q
    <3>. HIDE DEF q
    <3>. QED  BY <1>0, <3>2
  <2>2. s \in Int /\ Size = s * Stride
    <3>1. Size \in Int
      BY <1>0
    <3>2. s \in Int /\ Size = (s * Stride) + (Size % Stride)
      BY <1>0, <3>1, DivisionIs, RestOfDivision
    <3>. HIDE DEF s
    <3>. QED  BY <1>0, <3>2
  <2>. HIDE DEF q, s
  <2>3. 0 <= q
    <3>1. SUFFICES ASSUME q <= -1 PROVE FALSE
      BY <2>1
    <3>2. q * Stride <= (-1) * Stride
      BY <1>0, <2>1, <3>1, Multiplied
    <3>. QED  BY <1>0, <1>3, <1>4, <2>1, <3>2
  <2>4. 0 * Stride <= q * Stride
    BY <1>0, <2>1, <2>3, Multiplied
  <2>5. Extent(side) = Size - (q * Stride)
    BY <1>0, <1>1, <1>4, <1>6, <2>1
  <2>6. (s - q) * Stride = (s * Stride) - (q * Stride)
    BY <1>0, <2>1, <2>2
  <2>7. Extent(side) = (s - q) * Stride
    BY <2>2, <2>5, <2>6
  <2>8. s - q \in Int
    BY <2>1, <2>2
  <2>9. Extent(side) % Stride = 0
    BY <1>0, <2>7, <2>8, NoRest
  <2>10. Extent(side) <= Size
    BY <1>0, <2>1, <2>4, <2>5
  <2>. QED  BY <1>7, <1>9, <2>9, <2>10 DEF side
<1>. QED  BY <1>8, <1>9

\* Clipping is to the nearest point of the photo.
LEMMA ClippedIs ==
  ASSUME NEW v \in Int, NEW high \in Nat
  PROVE  Clipped(v, high) = IF v < 0 THEN 0 ELSE IF v <= high THEN v ELSE high
<1>1. Min({v, high}) = IF v <= high THEN v ELSE high
  BY LessOfTwo
<1>2. Min({v, high}) \in Int
  BY <1>1
<1>3. Max({0, Min({v, high})}) = IF 0 >= Min({v, high}) THEN 0 ELSE Min({v, high})
  BY <1>2, GreaterOfTwo
<1>. QED  BY <1>1, <1>2, <1>3 DEF Clipped

\* A point of the photo comes back within half a pixel of the network's input.
LEMMA PointComesBack ==
  ASSUME NEW long \in Nat \ {0}, NEW n \in Nat, NEW p \in 0 .. n, NEW before \in Nat
  PROVE  LET v    == before + Rounded(p * Size, long)
             back == Clipped((v - before) * long, n * Size)
         IN  2 * (back - p * Size) \in -long .. long
<1>. DEFINE r == Rounded(p * Size, long)
            a == r * long
            b == p * Size
            c == n * Size
<1>0. Size \in Nat \ {0}
  BY DetectorAssumption
<1>1. b \in Int /\ c \in Nat /\ 0 <= b /\ b <= c
  BY <1>0, Multiplied
<1>2. r \in Int /\ a \in Int /\ 2 * a - 2 * b \in -long .. long
  BY <1>1, RoundedIs
<1>3. ((before + r) - before) * long = a
  <2>. HIDE DEF r
  <2>1. (before + r) - before = r
    BY <1>2
  <2>. QED  BY <2>1
<1>. HIDE DEF a, b, c, r
<1>4. 2 * (Clipped(a, c) - b) \in -long .. long
  <2>1. Clipped(a, c) = IF a < 0 THEN 0 ELSE IF a <= c THEN a ELSE c
    BY <1>1, <1>2, ClippedIs
  <2>. QED  BY <1>1, <1>2, <2>1
<1>. QED  BY <1>3, <1>4 DEF b, c, r

\* The network's input: letterbox fits every photo that can be resized, and its boxes come back.
THEOREM LetterboxAlwaysFits ==
  ASSUME NEW photos \in SUBSET [width : Nat \ {0}, height : Nat \ {0}]
  PROVE  LetterboxFits(photos)
<1>. SUFFICES ASSUME NEW image \in photos, NEW auto \in BOOLEAN
     PROVE  LET input == Letterbox(image, auto)
                fits(side, n) ==
                  /\ side.before >= 0 /\ side.after - side.before \in {0, 1}
                  /\ IF auto THEN Extent(side) % Stride = 0 /\ Extent(side) <= Size ELSE Extent(side) = Size
                  /\ \A p \in 0 .. n :
                       LET v    == side.before + Rounded(p * Size, Long(image))
                           back == Clipped((v - side.before) * Long(image), n * Size)
                       IN  2 * (back - p * Size) \in -Long(image) .. Long(image)
            IN  fits(input.x, image.width) /\ fits(input.y, image.height)
  BY DEF LetterboxFits
<1>1. image.width \in Nat \ {0} /\ image.height \in Nat \ {0}
  OBVIOUS
<1>2. Long(image) \in Nat \ {0} /\ image.width <= Long(image) /\ image.height <= Long(image)
  BY <1>1, GreaterOfTwo DEF Long
<1>3. Letterbox(image, auto) = [x |-> Side(image.width, Long(image), auto),
                                y |-> Side(image.height, Long(image), auto)]
  BY DEF Letterbox
<1>. DEFINE fits(side, n) ==
                  /\ side.before >= 0 /\ side.after - side.before \in {0, 1}
                  /\ IF auto THEN Extent(side) % Stride = 0 /\ Extent(side) <= Size ELSE Extent(side) = Size
                  /\ \A p \in 0 .. n :
                       LET v    == side.before + Rounded(p * Size, Long(image))
                           back == Clipped((v - side.before) * Long(image), n * Size)
                       IN  2 * (back - p * Size) \in -Long(image) .. Long(image)
<1>4. ASSUME NEW n \in Nat, n <= Long(image) PROVE fits(Side(n, Long(image), auto), n)
  <2>. DEFINE side == Side(n, Long(image), auto)
  <2>1. /\ side.before \in Nat /\ side.after - side.before \in {0, 1}
        /\ IF auto THEN Extent(side) % Stride = 0 /\ Extent(side) <= Size ELSE Extent(side) = Size
    BY <1>2, <1>4, SideIs
  <2>. HIDE DEF side
  <2>2. side.before >= 0
    BY <2>1
  <2>3. \A p \in 0 .. n :
           LET v    == side.before + Rounded(p * Size, Long(image))
               back == Clipped((v - side.before) * Long(image), n * Size)
           IN  2 * (back - p * Size) \in -Long(image) .. Long(image)
    BY <1>2, <2>1, PointComesBack
  <2>. QED  BY <2>1, <2>2, <2>3 DEF side
<1>. HIDE DEF fits
<1>5. fits(Letterbox(image, auto).x, image.width) /\ fits(Letterbox(image, auto).y, image.height)
  BY <1>1, <1>2, <1>3, <1>4
<1>. QED  BY <1>5 DEF fits

\* A row of the network's answer, and a crop of a photo.
AnsweredRow == [score : Nat, box : Int \X Int \X Int \X Int]

Pictured(box, image) ==
  /\ 0 <= box[1] /\ box[1] < box[3] /\ box[3] <= image.width
  /\ 0 <= box[2] /\ box[2] < box[4] /\ box[4] <= image.height

CropOf(image) == {d \in AnsweredRow : Pictured(d.box, image)}

\* What is truncated is an integer.
LEMMA TruncatedIs ==
  ASSUME NEW n \in Int, NEW d \in Nat \ {0}
  PROVE  Truncated(n, d) \in Int
<1>1. -n \in Int
  OBVIOUS
<1>2. n \div d \in Int
  BY DivisionIs
<1>3. (-n) \div d \in Int
  BY <1>1, DivisionIs
<1>. DEFINE q == (-n) \div d
<1>. HIDE DEF q
<1>4. -q \in Int
  BY <1>3 DEF q
<1>5. Truncated(n, d) = IF n >= 0 THEN n \div d ELSE -q
  BY DEF Truncated, q
<1>. QED  BY <1>2, <1>4, <1>5

\* The answer's confident rows are brought back as such.
LEMMA RawBoxesAre ==
  ASSUME NEW image \in [width : Nat \ {0}, height : Nat \ {0}], NEW auto \in BOOLEAN,
         NEW rows \in Seq(AnsweredRow)
  PROVE  RawBoxes(image, auto, rows) \in Seq(AnsweredRow)
<1>. DEFINE input == Letterbox(image, auto)
            back(v, side, n) == Clipped((v - side.before) * Long(image), n * Size)
            sureOnes == {i \in DOMAIN rows : rows[i].score >= Conf}
            sure == Picked(rows, sureOnes)
            x(v) == back(v, input.x, image.width)
            y(v) == back(v, input.y, image.height)
            brought(i) == [score |-> sure[i].score,
                           box |-> <<x(sure[i].box[1]), y(sure[i].box[2]), x(sure[i].box[3]), y(sure[i].box[4])>>]
<1>1. image.width \in Nat \ {0} /\ image.height \in Nat \ {0}
  OBVIOUS
<1>2. Long(image) \in Nat \ {0} /\ image.width <= Long(image) /\ image.height <= Long(image)
  BY <1>1, GreaterOfTwo DEF Long
<1>3. input.x = Side(image.width, Long(image), auto) /\ input.y = Side(image.height, Long(image), auto)
  BY DEF Letterbox
<1>4. input.x.before \in Nat /\ input.y.before \in Nat
  BY <1>1, <1>2, <1>3, SideIs
<1>5. image.width * Size \in Nat /\ image.height * Size \in Nat
  BY <1>1, DetectorAssumption
<1>. HIDE DEF input
<1>6. ASSUME NEW v \in Int PROVE x(v) \in Int /\ y(v) \in Int
  <2>. DEFINE a == (v - input.x.before) * Long(image)
              b == (v - input.y.before) * Long(image)
  <2>1. a \in Int /\ b \in Int
    BY <1>2, <1>4
  <2>. HIDE DEF a, b
  <2>2. Clipped(a, image.width * Size) \in Int /\ Clipped(b, image.height * Size) \in Int
    BY <1>5, <2>1, ClippedIs
  <2>. QED  BY <2>2 DEF a, b
<1>7. sure \in Seq(AnsweredRow)
  <2>1. sureOnes \in SUBSET DOMAIN rows
    OBVIOUS
  <2>. HIDE DEF sureOnes
  <2>. QED  BY <2>1, PickedIs
<1>8. RawBoxes(image, auto, rows) = [i \in DOMAIN sure |-> brought(i)]
  BY DEF RawBoxes, input
<1>. HIDE DEF sure, x, y
<1>9. ASSUME NEW i \in DOMAIN sure PROVE brought(i) \in AnsweredRow
  <2>1. sure[i] \in AnsweredRow
    BY <1>7
  <2>2. /\ sure[i].score \in Nat /\ sure[i].box[1] \in Int /\ sure[i].box[2] \in Int
        /\ sure[i].box[3] \in Int /\ sure[i].box[4] \in Int
    BY <2>1 DEF AnsweredRow
  <2>3. <<x(sure[i].box[1]), y(sure[i].box[2]), x(sure[i].box[3]), y(sure[i].box[4])>> \in Int \X Int \X Int \X Int
    BY <1>6, <2>2
  <2>. QED  BY <2>2, <2>3 DEF AnsweredRow
<1>. HIDE DEF brought
<1>10. DOMAIN sure = 1 .. Len(sure) /\ Len(sure) \in Nat
  BY <1>7
<1>. QED  BY <1>8, <1>9, <1>10

\* What is padded is clipped to the photo.
LEMMA PadBoxIs ==
  ASSUME NEW image \in [width : Nat \ {0}, height : Nat \ {0}], NEW box \in Int \X Int \X Int \X Int
  PROVE  LET padded == PadBox(box, image)
         IN  /\ padded \in Int \X Int \X Int \X Int
             /\ 0 <= padded[1] /\ 0 <= padded[2] /\ padded[3] <= image.width /\ padded[4] <= image.height
<1>. DEFINE low(a, b)     == Max({0, Truncated(100 * a - 8 * (b - a), 100 * Size)})
            high(a, b, n) == Min({n, Truncated(100 * b + 8 * (b - a), 100 * Size)})
<1>1. image.width \in Nat \ {0} /\ image.height \in Nat \ {0}
  OBVIOUS
<1>2. 100 * Size \in Nat \ {0}
  BY DetectorAssumption
<1>3. ASSUME NEW a \in Int, NEW b \in Int, NEW n \in Nat
      PROVE  low(a, b) \in Int /\ 0 <= low(a, b) /\ high(a, b, n) \in Int /\ high(a, b, n) <= n
  <2>. DEFINE p == Truncated(100 * a - 8 * (b - a), 100 * Size)
              q == Truncated(100 * b + 8 * (b - a), 100 * Size)
  <2>1. 100 * a - 8 * (b - a) \in Int /\ 100 * b + 8 * (b - a) \in Int
    OBVIOUS
  <2>2. p \in Int /\ q \in Int
    BY <1>2, <2>1, TruncatedIs
  <2>. HIDE DEF p, q
  <2>3. Max({0, p}) = IF 0 >= p THEN 0 ELSE p
    BY <2>2, GreaterOfTwo
  <2>4. Min({n, q}) = IF n <= q THEN n ELSE q
    BY <2>2, LessOfTwo
  <2>5. Max({0, p}) \in Int /\ 0 <= Max({0, p}) /\ Min({n, q}) \in Int /\ Min({n, q}) <= n
    BY <2>2, <2>3, <2>4
  <2>. QED  BY <2>5 DEF p, q
<1>4. PadBox(box, image) = <<low(box[1], box[3]), low(box[2], box[4]),
                             high(box[1], box[3], image.width), high(box[2], box[4], image.height)>>
  BY DEF PadBox
<1>5. box[1] \in Int /\ box[2] \in Int /\ box[3] \in Int /\ box[4] \in Int
  OBVIOUS
<1>. DEFINE left == low(box[1], box[3])
            top == low(box[2], box[4])
            right == high(box[1], box[3], image.width)
            bottom == high(box[2], box[4], image.height)
<1>. HIDE DEF low, high
<1>6. /\ left \in Int /\ 0 <= left /\ right \in Int /\ right <= image.width
      /\ top \in Int /\ 0 <= top /\ bottom \in Int /\ bottom <= image.height
  BY <1>1, <1>3, <1>5
<1>7. PadBox(box, image) = <<left, top, right, bottom>>
  BY <1>4
<1>. HIDE DEF left, top, right, bottom
<1>. QED  BY <1>6, <1>7

\* What Padded leaves are crops of the photo.
LEMMA PaddedAre ==
  ASSUME NEW image \in [width : Nat \ {0}, height : Nat \ {0}], NEW raw \in Seq(AnsweredRow)
  PROVE  Padded(image, raw) \in Seq(CropOf(image))
<1>. DEFINE padded == [i \in DOMAIN raw |-> [score |-> raw[i].score, box |-> PadBox(raw[i].box, image)]]
            shows(d) == d.box[1] < d.box[3] /\ d.box[2] < d.box[4]
            I == {i \in DOMAIN padded : shows(padded[i])}
            E == {padded[i] : i \in I}
<1>1. Padded(image, raw) = Picked(padded, I)
  BY DEF Padded
<1>2. ASSUME NEW i \in DOMAIN raw
      PROVE  /\ padded[i] \in AnsweredRow
             /\ 0 <= padded[i].box[1] /\ 0 <= padded[i].box[2]
             /\ padded[i].box[3] <= image.width /\ padded[i].box[4] <= image.height
  <2>1. raw[i].score \in Nat /\ raw[i].box \in Int \X Int \X Int \X Int
    <3>1. raw[i] \in AnsweredRow
      OBVIOUS
    <3>. QED  BY <3>1 DEF AnsweredRow
  <2>. DEFINE box == PadBox(raw[i].box, image)
  <2>2. /\ box \in Int \X Int \X Int \X Int
        /\ 0 <= box[1] /\ 0 <= box[2] /\ box[3] <= image.width /\ box[4] <= image.height
    BY <2>1, PadBoxIs
  <2>3. padded[i] = [score |-> raw[i].score, box |-> box]
    OBVIOUS
  <2>. HIDE DEF box, padded
  <2>. QED  BY <2>1, <2>2, <2>3 DEF AnsweredRow
<1>3. padded \in Seq(AnsweredRow)
  <2>1. DOMAIN raw = 1 .. Len(raw) /\ Len(raw) \in Nat /\ padded = [i \in DOMAIN raw |-> padded[i]]
    OBVIOUS
  <2>. HIDE DEF padded
  <2>. QED  BY <1>2, <2>1
<1>4. DOMAIN padded = DOMAIN raw
  OBVIOUS
<1>. HIDE DEF padded
<1>5. ASSUME NEW i \in I PROVE padded[i] \in CropOf(image)
  BY <1>2, <1>4 DEF CropOf, Pictured
<1>6. E \subseteq CropOf(image)
  BY <1>5
<1>7. I \in SUBSET DOMAIN padded
  OBVIOUS
<1>. HIDE DEF I
<1>8. Picked(padded, I) \in Seq(E)
  BY <1>3, <1>7, PickedIs
<1>. HIDE DEF E
<1>. QED  BY <1>1, <1>6, <1>8

\* A crop has its area in the photo.
LEMMA CropIsInside ==
  ASSUME NEW image \in [width : Nat \ {0}, height : Nat \ {0}], NEW d \in CropOf(image)
  PROVE  Overlap(d.box, <<0, 0, image.width, image.height>>) = Area(d.box)
<1>. DEFINE b == d.box
            w == image.width
            h == image.height
            whole == <<0, 0, w, h>>
<1>1. b \in Int \X Int \X Int \X Int /\ Pictured(b, image) /\ w \in Nat /\ h \in Nat
  BY DEF CropOf, AnsweredRow
<1>2. /\ b[1] \in Int /\ b[2] \in Int /\ b[3] \in Int /\ b[4] \in Int
      /\ 0 <= b[1] /\ b[1] < b[3] /\ b[3] <= w /\ 0 <= b[2] /\ b[2] < b[4] /\ b[4] <= h
  BY <1>1 DEF Pictured
<1>. DEFINE shared(i) == Max({0, Min({b[i + 2], whole[i + 2]}) - Max({b[i], whole[i]})})
<1>3. shared(1) = b[3] - b[1]
  <2>1. shared(1) = Max({0, Min({b[3], w}) - Max({b[1], 0})})
    OBVIOUS
  <2>. HIDE DEF b, w, shared
  <2>2. Min({b[3], w}) = b[3] /\ Max({b[1], 0}) = b[1]
    BY <1>1, <1>2, LessOfTwo, GreaterOfTwo
  <2>3. b[3] - b[1] \in Int /\ ~(0 >= b[3] - b[1])
    BY <1>2
  <2>4. Max({0, b[3] - b[1]}) = b[3] - b[1]
    BY <2>3, GreaterOfTwo
  <2>. QED  BY <2>1, <2>2, <2>4
<1>4. shared(2) = b[4] - b[2]
  <2>1. shared(2) = Max({0, Min({b[4], h}) - Max({b[2], 0})})
    OBVIOUS
  <2>. HIDE DEF b, h, shared
  <2>2. Min({b[4], h}) = b[4] /\ Max({b[2], 0}) = b[2]
    BY <1>1, <1>2, LessOfTwo, GreaterOfTwo
  <2>3. b[4] - b[2] \in Int /\ ~(0 >= b[4] - b[2])
    BY <1>2
  <2>4. Max({0, b[4] - b[2]}) = b[4] - b[2]
    BY <2>3, GreaterOfTwo
  <2>. QED  BY <2>1, <2>2, <2>4
<1>5. Overlap(b, whole) = shared(1) * shared(2)
  BY DEF Overlap
<1>. HIDE DEF shared
<1>. QED  BY <1>3, <1>4, <1>5 DEF Area

\* Two boxes are apart in either order.
LEMMA ApartBothWays ==
  ASSUME NEW a \in Int \X Int \X Int \X Int, NEW b \in Int \X Int \X Int \X Int
  PROVE  Apart(a, b) <=> Apart(b, a)
<1>1. Overlap(a, b) = Overlap(b, a)
  <2>. DEFINE s(i) == Max({0, Min({a[i + 2], b[i + 2]}) - Max({a[i], b[i]})})
              t(i) == Max({0, Min({b[i + 2], a[i + 2]}) - Max({b[i], a[i]})})
  <2>1. \A u, v : {u, v} = {v, u}
    OBVIOUS
  <2>2. ASSUME NEW i PROVE s(i) = t(i)
    <3>1. {a[i + 2], b[i + 2]} = {b[i + 2], a[i + 2]} /\ {a[i], b[i]} = {b[i], a[i]}
      BY <2>1, Zenon
    <3>. QED  BY <3>1, Zenon
  <2>3. Overlap(a, b) = s(1) * s(2) /\ Overlap(b, a) = t(1) * t(2)
    BY Zenon DEF Overlap
  <2>. HIDE DEF s, t
  <2>. QED  BY <2>2, <2>3, Zenon
<1>2. Area(a) \in Int /\ Area(b) \in Int
  BY DEF Area
<1>3. Overlap(a, b) \in Int
  <2>. DEFINE s(i) == Max({0, Min({a[i + 2], b[i + 2]}) - Max({a[i], b[i]})})
  <2>1. ASSUME NEW i \in {1, 2} PROVE s(i) \in Int
    <3>. DEFINE m == Min({a[i + 2], b[i + 2]})
                n == Max({a[i], b[i]})
    <3>1. a[i] \in Int /\ b[i] \in Int /\ a[i + 2] \in Int /\ b[i + 2] \in Int
      OBVIOUS
    <3>2. m \in Int /\ n \in Int
      BY <3>1, GreaterOfTwo, LessOfTwo
    <3>. HIDE DEF m, n
    <3>3. m - n \in Int
      BY <3>2
    <3>4. Max({0, m - n}) \in Int
      BY <3>3, GreaterOfTwo
    <3>. QED  BY <3>4 DEF m, n
  <2>2. Overlap(a, b) = s(1) * s(2)
    BY Zenon DEF Overlap
  <2>. HIDE DEF s
  <2>. QED  BY <2>1, <2>2
<1>. DEFINE inter == Overlap(a, b)
            p == Area(a)
            q == Area(b)
<1>4. /\ Apart(a, b) <=> (inter = 0 \/ 10 * inter < 6 * (p + q - inter))
      /\ Apart(b, a) <=> (inter = 0 \/ 10 * inter < 6 * (q + p - inter))
  BY <1>1, Zenon DEF Apart
<1>. HIDE DEF inter, p, q
<1>5. p + q - inter = q + p - inter
  BY <1>2, <1>3 DEF inter, p, q
<1>. QED  BY <1>4, <1>5, Zenon

\* Detections are sorted: all of them, the most confident first.
LEMMA ByScoreIs ==
  ASSUME NEW V \in SUBSET AnsweredRow, NEW found \in Seq(V)
  PROVE  LET sorted == ByScore(found)
         IN  /\ sorted \in Seq(V) /\ Len(sorted) = Len(found)
             /\ \A i \in DOMAIN found : \E n \in DOMAIN sorted : sorted[n] = found[i]
             /\ \A m, n \in DOMAIN sorted : m < n => sorted[n].score <= sorted[m].score
<1>. DEFINE I == DOMAIN found
            K == Cardinality(I)
            ahead(i, j) == \/ found[i].score > found[j].score
                           \/ found[i].score = found[j].score /\ i < j
            first == {p \in I \X I : ahead(p[1], p[2])}
            above(i) == {j \in I : ahead(j, i)}
            at == InOrder(I, ahead)
            sorted == ByScore(found)
<1>1. I = 1 .. Len(found) /\ Len(found) \in Nat
  OBVIOUS
<1>2. IsFiniteSet(I) /\ K = Len(found)
  BY <1>1, FS_Interval
<1>3. \A i \in I : found[i] \in V /\ found[i].score \in Nat
  <2>1. \A i \in I : found[i] \in V
    OBVIOUS
  <2>. QED  BY <2>1 DEF AnsweredRow
<1>4. I \in SUBSET Nat
  BY <1>1
<1>. HIDE DEF I
<1>5. Orders(first, I)
  <2>1. \A i, j \in I : <<i, j>> \in first <=> ahead(i, j)
    OBVIOUS
  <2>. HIDE DEF first
  <2>2. \A i \in I : <<i, i>> \notin first
    BY <1>3, <1>4, <2>1
  <2>3. \A i, j, k \in I : <<i, j>> \in first /\ <<j, k>> \in first => <<i, k>> \in first
    BY <1>3, <1>4, <2>1
  <2>4. ASSUME NEW i \in I, NEW j \in I PROVE i = j \/ <<i, j>> \in first \/ <<j, i>> \in first
    <3>1. i \in Nat /\ j \in Nat /\ found[i].score \in Nat /\ found[j].score \in Nat
      BY <1>3, <1>4
    <3>2. i = j \/ ahead(i, j) \/ ahead(j, i)
      BY <3>1
    <3>. QED  BY <2>1, <3>2
  <2>. QED  BY <2>2, <2>3, <2>4 DEF Orders
<1>6. \A i \in I : AheadOf(first, I, i) = above(i)
  BY DEF AheadOf
<1>7. ASSUME NEW i \in I, NEW j \in I, ahead(i, j) PROVE <<i, j>> \in first
  BY <1>7
<1>8. at = [n \in 1 .. K |-> CHOOSE i \in I : Cardinality(above(i)) = n - 1]
  BY DEF InOrder
<1>9. sorted = [n \in DOMAIN at |-> found[at[n]]]
  BY DEF ByScore, I
<1>. HIDE DEF first, above, at, sorted, K
<1>10. /\ \A i \in I : Cardinality(above(i)) + 1 \in 1 .. K
       /\ \A n \in 1 .. K : \E i \in I : Cardinality(above(i)) = n - 1
       /\ \A i, j \in I : Cardinality(above(i)) = Cardinality(above(j)) => i = j
       /\ \A i, j \in I : <<i, j>> \in first => Cardinality(above(i)) < Cardinality(above(j))
  <2>1. Ranking(first, I)
    BY <1>2, <1>5, Ranks
  <2>. QED  BY <1>6, <2>1 DEF Ranking, K
<1>11. \A i \in I : Cardinality(above(i)) \in Nat
  <2>1. \A i \in I : above(i) \in SUBSET I
    BY DEF above
  <2>2. \A i \in I : IsFiniteSet(above(i))
    BY <1>2, <2>1, FS_Subset
  <2>. QED  BY <2>2, FS_CardinalityType
<1>12. DOMAIN at = 1 .. K /\ K \in Nat
  BY <1>1, <1>2, <1>8
<1>13. ASSUME NEW n \in 1 .. K PROVE at[n] \in I /\ Cardinality(above(at[n])) = n - 1
  <2>1. \E i \in I : Cardinality(above(i)) = n - 1
    BY <1>10
  <2>. QED  BY <1>8, <2>1
<1>14. sorted \in Seq(V) /\ Len(sorted) = Len(found)
  <2>1. \A n \in 1 .. K : found[at[n]] \in V
    BY <1>3, <1>13
  <2>2. sorted = [n \in 1 .. K |-> found[at[n]]]
    BY <1>9, <1>12
  <2>. QED  BY <1>2, <1>12, <2>1, <2>2
<1>15. ASSUME NEW i \in I PROVE \E n \in DOMAIN sorted : sorted[n] = found[i]
  <2>. DEFINE n == Cardinality(above(i)) + 1
  <2>1. n \in 1 .. K /\ n - 1 = Cardinality(above(i))
    BY <1>10, <1>11
  <2>. HIDE DEF n
  <2>2. at[n] = i
    BY <1>10, <1>13, <2>1
  <2>. QED  BY <1>9, <1>12, <2>1, <2>2
<1>16. ASSUME NEW m \in DOMAIN sorted, NEW n \in DOMAIN sorted, m < n
       PROVE  sorted[n].score <= sorted[m].score
  <2>1. m \in 1 .. K /\ n \in 1 .. K
    BY <1>9, <1>12
  <2>. DEFINE i == at[m]
              j == at[n]
  <2>2. i \in I /\ j \in I /\ Cardinality(above(i)) = m - 1 /\ Cardinality(above(j)) = n - 1
    BY <1>13, <2>1
  <2>3. sorted[m] = found[i] /\ sorted[n] = found[j]
    BY <1>9, <1>12, <2>1
  <2>. HIDE DEF i, j
  <2>4. ~(found[j].score > found[i].score)
    <3>1. SUFFICES ASSUME found[j].score > found[i].score PROVE FALSE
      OBVIOUS
    <3>2. <<j, i>> \in first
      BY <1>7, <2>2, <3>1
    <3>3. Cardinality(above(j)) < Cardinality(above(i))
      BY <1>10, <2>2, <3>2
    <3>. QED  BY <1>12, <1>16, <2>1, <2>2, <3>3
  <2>. QED  BY <1>3, <2>2, <2>3, <2>4
<1>. QED  BY <1>14, <1>15, <1>16 DEF sorted, I

\* The loop of deduplicate: what is kept after each of the sorted detections.
Deduplicates(g, sorted, V) ==
  /\ g \in [0 .. Len(sorted) -> Seq(V)] /\ g[0] = <<>>
  /\ \A n \in 1 .. Len(sorted) :
       g[n] = IF IsNew(g[n - 1], sorted[n]) THEN Append(g[n - 1], sorted[n]) ELSE g[n - 1]

LEMMA DeduplicateRuns ==
  ASSUME NEW V, NEW found, ByScore(found) \in Seq(V)
  PROVE  \E g : Deduplicates(g, ByScore(found), V) /\ Deduplicate(found) = g[Len(ByScore(found))]
<1>. DEFINE sorted == ByScore(found)
            m == Len(sorted)
            L == Seq(V)
            next(kept, n) == IF IsNew(kept, sorted[n]) THEN Append(kept, sorted[n]) ELSE kept
            step == [n \in 1 .. m |-> [kept \in L |-> next(kept, n)]]
<1>. DEFINE w0 == CHOOSE h : h = [n \in 0 .. m |-> IF n = 0 THEN <<>>
                    ELSE IF IsNew(h[n - 1], sorted[n]) THEN Append(h[n - 1], sorted[n]) ELSE h[n - 1]]
<1>0. Deduplicate(found) = w0[m]
  BY Zenon DEF Deduplicate
<1>1. m \in Nat /\ sorted \in Seq(V) /\ <<>> \in L
  OBVIOUS
<1>. HIDE DEF sorted, m
<1>2. ASSUME NEW n \in 1 .. m, NEW kept \in L PROVE next(kept, n) \in L
  <2>1. sorted[n] \in V
    BY <1>1 DEF m
  <2>. QED  BY <2>1
<1>. HIDE DEF L, next, w0
<1>3. step \in [1 .. m -> [L -> L]]
  BY <1>2
<1>4. PICK g \in [0 .. m -> L] : g[0] = <<>> /\ \A n \in 1 .. m : g[n] = step[n][g[n - 1]]
  <2>. HIDE DEF step
  <2>1. \E g : Recurs(g, m, L, <<>>, step)
    BY <1>1, <1>3, RecursionExists
  <2>. QED  BY <2>1 DEF Recurs
<1>5. ASSUME NEW n \in 1 .. m PROVE g[n] = next(g[n - 1], n)
  <2>1. g[n - 1] \in L
    BY <1>1
  <2>. QED  BY <2>1, <1>4
<1>6. g = [n \in 0 .. m |-> IF n = 0 THEN <<>> ELSE next(g[n - 1], n)]
  BY <1>1, <1>4, <1>5
<1>7. w0 = [n \in 0 .. m |-> IF n = 0 THEN <<>> ELSE next(w0[n - 1], n)]
  <2>. DEFINE Is(h) == h = [n \in 0 .. m |-> IF n = 0 THEN <<>>
                    ELSE IF IsNew(h[n - 1], sorted[n]) THEN Append(h[n - 1], sorted[n]) ELSE h[n - 1]]
  <2>1. Is(g)
    BY <1>6 DEF next
  <2>. HIDE DEF Is
  <2>2. Is(CHOOSE h : Is(h))
    BY <2>1, Zenon
  <2>. QED  BY <2>2 DEF Is, next, w0
<1>8. w0[0] = <<>> /\ \A n \in 1 .. m : w0[n] = next(w0[n - 1], n)
  <2>1. \A n \in 0 .. m : w0[n] = IF n = 0 THEN <<>> ELSE next(w0[n - 1], n)
    BY <1>7
  <2>. QED  BY <1>1, <2>1
<1>9. \A n \in 0 .. m : w0[n] = g[n]
  <2>1. w0[0] = g[0]
    BY <1>4, <1>8
  <2>2. ASSUME NEW n \in 1 .. m, w0[n - 1] = g[n - 1] PROVE w0[n] = g[n]
    BY <2>2, <1>5, <1>8, Zenon
  <2>. QED  BY <1>1, <2>1, <2>2, RecursionUnique
<1>10. Deduplicates(g, sorted, V)
  BY <1>4, <1>5 DEF Deduplicates, m, L, next
<1>11. Deduplicate(found) = g[m]
  BY <1>0, <1>1, <1>9
<1>. QED  BY <1>10, <1>11 DEF m, sorted

\* What is kept of the first n: of these, the more confident before the less, all apart, and for each
\* of these itself or one as confident that is not apart from it.
KeptOf(kept, sorted, n) ==
  /\ \A i \in DOMAIN kept : \E j \in 1 .. n : kept[i] = sorted[j]
  /\ \A i \in DOMAIN kept : \A k \in 1 .. i - 1 :
       kept[k].score >= kept[i].score /\ Apart(kept[k].box, kept[i].box)
  /\ \A j \in 1 .. n : \E i \in DOMAIN kept :
       kept[i] = sorted[j] \/ (kept[i].score >= sorted[j].score /\ ~Apart(kept[i].box, sorted[j].box))

LEMMA DeduplicateIs ==
  ASSUME NEW V \in SUBSET AnsweredRow, NEW found \in Seq(V)
  PROVE  /\ Deduplicate(found) \in Seq(V)
         /\ KeptOf(Deduplicate(found), ByScore(found), Len(ByScore(found)))
<1>. DEFINE sorted == ByScore(found)
            m == Len(sorted)
<1>1. /\ sorted \in Seq(V) /\ m \in Nat
      /\ \A j, n \in DOMAIN sorted : j < n => sorted[n].score <= sorted[j].score
  <2>1. /\ sorted \in Seq(V)
        /\ \A j, n \in DOMAIN sorted : j < n => sorted[n].score <= sorted[j].score
    BY ByScoreIs
  <2>. HIDE DEF sorted
  <2>. QED  BY <2>1
<1>2. PICK g : Deduplicates(g, sorted, V) /\ Deduplicate(found) = g[m]
  BY <1>1, DeduplicateRuns
<1>. HIDE DEF sorted
<1>3. DOMAIN sorted = 1 .. m /\ \A j \in 1 .. m : sorted[j] \in V /\ sorted[j].score \in Nat
                                /\ sorted[j].box \in Int \X Int \X Int \X Int
  <2>1. DOMAIN sorted = 1 .. m /\ \A j \in 1 .. m : sorted[j] \in V
    BY <1>1
  <2>2. \A j \in 1 .. m : sorted[j] \in AnsweredRow
    BY <2>1
  <2>. QED  BY <2>1, <2>2 DEF AnsweredRow
<1>. HIDE DEF m
<1>4. /\ g \in [0 .. m -> Seq(V)] /\ g[0] = <<>>
      /\ \A n \in 1 .. m : g[n] = IF IsNew(g[n - 1], sorted[n]) THEN Append(g[n - 1], sorted[n]) ELSE g[n - 1]
  BY <1>2 DEF Deduplicates, m
<1>. DEFINE P(n) == n <= m => KeptOf(g[n], sorted, n)
            T == {n \in Nat : P(n)}
<1>5. P(0)
  BY <1>4 DEF KeptOf
<1>6. ASSUME NEW n \in Nat, P(n) PROVE P(n + 1)
  <2>. SUFFICES ASSUME n + 1 <= m PROVE KeptOf(g[n + 1], sorted, n + 1)
    OBVIOUS
  <2>. DEFINE kept == g[n]
              d == sorted[n + 1]
              after == g[n + 1]
  <2>1. n + 1 \in 1 .. m /\ n \in 0 .. m /\ (n + 1) - 1 = n /\ KeptOf(kept, sorted, n)
    BY <1>1, <1>6
  <2>2. after = IF IsNew(kept, d) THEN Append(kept, d) ELSE kept
    <3>1. after = IF IsNew(g[(n + 1) - 1], d) THEN Append(g[(n + 1) - 1], d) ELSE g[(n + 1) - 1]
      BY <1>4, <2>1, Zenon
    <3>. QED  BY <2>1, <3>1, Zenon
  <2>3. kept \in Seq(V) /\ d \in V /\ d.score \in Nat /\ d.box \in Int \X Int \X Int \X Int
    BY <1>3, <1>4, <2>1
  <2>. HIDE DEF kept, d, after
  <2>4. ASSUME NEW i \in DOMAIN kept
        PROVE  /\ \E j \in 1 .. n : kept[i] = sorted[j]
               /\ kept[i].score \in Nat /\ kept[i].box \in Int \X Int \X Int \X Int
               /\ kept[i].score >= d.score
    <3>1. PICK j \in 1 .. n : kept[i] = sorted[j]
      BY <2>1 DEF KeptOf
    <3>2. j \in 1 .. m /\ j < n + 1
      BY <1>1, <2>1
    <3>3. sorted[n + 1].score <= sorted[j].score
      BY <1>1, <1>3, <2>1, <3>2
    <3>. QED  BY <1>3, <2>3, <3>1, <3>2, <3>3 DEF d
  <2>5. CASE IsNew(kept, d)
    <3>. DEFINE l == Len(kept)
    <3>1. /\ after = Append(kept, d) /\ l \in Nat /\ DOMAIN kept = 1 .. l /\ DOMAIN after = 1 .. l + 1
          /\ after[l + 1] = d /\ \A i \in 1 .. l : after[i] = kept[i]
      BY <2>2, <2>3, <2>5
    <3>. HIDE DEF l
    <3>2. \A i \in DOMAIN after : \E j \in 1 .. n + 1 : after[i] = sorted[j]
      <4>. TAKE i \in DOMAIN after
      <4>1. CASE i \in 1 .. l
        <5>1. PICK j \in 1 .. n : kept[i] = sorted[j]
          BY <2>4, <3>1, <4>1
        <5>2. j \in 1 .. n + 1
          OBVIOUS
        <5>. QED  BY <3>1, <4>1, <5>1, <5>2
      <4>2. CASE i = l + 1
        <5>1. n + 1 \in 1 .. n + 1
          OBVIOUS
        <5>. QED  BY <3>1, <4>2, <5>1 DEF d
      <4>. QED  BY <3>1, <4>1, <4>2
    <3>3. ASSUME NEW i \in DOMAIN after, NEW k \in 1 .. i - 1
          PROVE  after[k].score >= after[i].score /\ Apart(after[k].box, after[i].box)
      <4>1. CASE i \in 1 .. l
        <5>1. k \in 1 .. l
          BY <3>1, <4>1
        <5>2. kept[k].score >= kept[i].score /\ Apart(kept[k].box, kept[i].box)
          BY <2>1, <3>1, <4>1 DEF KeptOf
        <5>. QED  BY <3>1, <4>1, <5>1, <5>2
      <4>2. CASE i = l + 1
        <5>1. k \in 1 .. l /\ k \in DOMAIN kept
          BY <3>1, <4>2
        <5>2. Apart(d.box, kept[k].box)
          BY <2>5, <5>1 DEF IsNew
        <5>3. Apart(kept[k].box, d.box)
          BY <2>3, <2>4, <5>1, <5>2, ApartBothWays
        <5>. QED  BY <2>4, <3>1, <4>2, <5>1, <5>3
      <4>. QED  BY <3>1, <4>1, <4>2
    <3>4. ASSUME NEW j \in 1 .. n + 1
          PROVE  \E i \in DOMAIN after :
                   after[i] = sorted[j] \/ (after[i].score >= sorted[j].score /\ ~Apart(after[i].box, sorted[j].box))
      <4>1. CASE j \in 1 .. n
        <5>1. PICK i \in DOMAIN kept :
                 kept[i] = sorted[j] \/ (kept[i].score >= sorted[j].score /\ ~Apart(kept[i].box, sorted[j].box))
          BY <2>1, <4>1 DEF KeptOf
        <5>2. i \in DOMAIN after /\ after[i] = kept[i]
          BY <3>1
        <5>. QED  BY <5>1, <5>2
      <4>2. CASE j = n + 1
        <5>1. l + 1 \in DOMAIN after
          BY <3>1
        <5>. QED  BY <3>1, <4>2, <5>1 DEF d
      <4>. QED  BY <4>1, <4>2
    <3>. QED  BY <3>2, <3>3, <3>4 DEF KeptOf, after
  <2>6. CASE ~IsNew(kept, d)
    <3>1. after = kept
      BY <2>2, <2>6
    <3>2. PICK i \in DOMAIN kept : ~Apart(d.box, kept[i].box)
      BY <2>6 DEF IsNew
    <3>3. ~Apart(kept[i].box, d.box) /\ kept[i].score >= d.score
      BY <2>3, <2>4, <3>2, ApartBothWays
    <3>4. \A k \in DOMAIN kept : \E j \in 1 .. n + 1 : kept[k] = sorted[j]
      <4>. TAKE k \in DOMAIN kept
      <4>1. PICK j \in 1 .. n : kept[k] = sorted[j]
        BY <2>4
      <4>2. j \in 1 .. n + 1
        OBVIOUS
      <4>. QED  BY <4>1, <4>2
    <3>5. ASSUME NEW j \in 1 .. n + 1
          PROVE  \E k \in DOMAIN kept :
                   kept[k] = sorted[j] \/ (kept[k].score >= sorted[j].score /\ ~Apart(kept[k].box, sorted[j].box))
      <4>1. CASE j \in 1 .. n
        BY <2>1, <4>1 DEF KeptOf
      <4>2. CASE j = n + 1
        BY <3>2, <3>3, <4>2 DEF d
      <4>. QED  BY <4>1, <4>2
    <3>6. KeptOf(kept, sorted, n + 1)
      BY <2>1, <3>4, <3>5 DEF KeptOf
    <3>. QED  BY <3>1, <3>6 DEF after
  <2>. QED  BY <2>5, <2>6
<1>. HIDE DEF P
<1>7. T \in SUBSET Nat /\ 0 \in T /\ \A n \in T : n + 1 \in T
  BY <1>5, <1>6
<1>. HIDE DEF T
<1>8. T = Nat
  BY <1>7, Induction
<1>9. KeptOf(g[m], sorted, m) /\ g[m] \in Seq(V)
  BY <1>1, <1>4, <1>8 DEF T, P
<1>. QED  BY <1>2, <1>9 DEF m, sorted

\* One crop for a plate, whatever the network answers about whatever photo.
THEOREM PlatesAreCroppedOnce ==
  ASSUME NEW image \in [width : Nat \ {0}, height : Nat \ {0}], NEW answers \in SUBSET Seq(AnsweredRow)
  PROVE  OneCropForAPlate(image, answers)
<1>. SUFFICES ASSUME NEW rows \in answers, NEW auto \in BOOLEAN
     PROVE  LET padded == Padded(image, RawBoxes(image, auto, rows))
                kept   == Deduplicate(padded)
            IN  /\ \A i \in DOMAIN kept :
                     /\ Overlap(kept[i].box, <<0, 0, image.width, image.height>>) = Area(kept[i].box)
                     /\ \A k \in 1 .. i - 1 : kept[k].score >= kept[i].score /\ Apart(kept[k].box, kept[i].box)
                /\ \A d \in Range(padded) : \E i \in DOMAIN kept :
                     kept[i] = d \/ (kept[i].score >= d.score /\ ~Apart(kept[i].box, d.box))
  BY Zenon DEF OneCropForAPlate
<1>. DEFINE padded == Padded(image, RawBoxes(image, auto, rows))
            kept == Deduplicate(padded)
            sorted == ByScore(padded)
            V == CropOf(image)
<1>1. padded \in Seq(V) /\ V \in SUBSET AnsweredRow
  <2>1. rows \in Seq(AnsweredRow)
    OBVIOUS
  <2>2. RawBoxes(image, auto, rows) \in Seq(AnsweredRow)
    BY <2>1, RawBoxesAre
  <2>. QED  BY <2>2, PaddedAre DEF CropOf
<1>. HIDE DEF padded, V
<1>2. kept \in Seq(V) /\ KeptOf(kept, sorted, Len(sorted))
  BY <1>1, DeduplicateIs
<1>3. sorted \in Seq(V) /\ \A i \in DOMAIN padded : \E n \in DOMAIN sorted : sorted[n] = padded[i]
  BY <1>1, ByScoreIs
<1>. HIDE DEF kept, sorted
<1>4. ASSUME NEW i \in DOMAIN kept
      PROVE  Overlap(kept[i].box, <<0, 0, image.width, image.height>>) = Area(kept[i].box)
  <2>1. kept[i] \in CropOf(image)
    BY <1>2 DEF V
  <2>. QED  BY <2>1, CropIsInside
<1>5. \A i \in DOMAIN kept : \A k \in 1 .. i - 1 :
        kept[k].score >= kept[i].score /\ Apart(kept[k].box, kept[i].box)
  BY <1>2 DEF KeptOf
<1>6. ASSUME NEW d \in Range(padded)
      PROVE  \E i \in DOMAIN kept : kept[i] = d \/ (kept[i].score >= d.score /\ ~Apart(kept[i].box, d.box))
  <2>1. PICK i \in DOMAIN padded : padded[i] = d
    BY DEF Range
  <2>2. PICK n \in DOMAIN sorted : sorted[n] = d
    BY <1>3, <2>1
  <2>3. n \in 1 .. Len(sorted)
    BY <1>3
  <2>. QED  BY <1>2, <2>2, <2>3 DEF KeptOf
<1>. QED  BY <1>4, <1>5, <1>6 DEF padded, kept

\* The photos and answers of the run are such ones.
THEOREM BoxesAlwaysComeBack == Spec => []MCBoxesComeBack
<1>1. LetterboxFits(MCSizes)
  <2>1. MCSizes \in SUBSET [width : Nat \ {0}, height : Nat \ {0}]
    BY DEF MCSizes
  <2>. QED  BY <2>1, LetterboxAlwaysFits
<1>2. OneCropForAPlate([width |-> 9, height |-> 6], MCAnswers)
  <2>1. MCRow \in SUBSET AnsweredRow
    BY DEF MCRow, AnsweredRow
  <2>2. ASSUME NEW n \in 0 .. 3, NEW rows \in [1 .. n -> MCRow] PROVE rows \in Seq(AnsweredRow)
    <3>1. rows \in [1 .. n -> AnsweredRow] /\ n \in Nat
      BY <2>1
    <3>. QED  BY <3>1
  <2>3. MCAnswers \in SUBSET Seq(AnsweredRow)
    BY <2>2 DEF MCAnswers
  <2>4. [width |-> 9, height |-> 6] \in [width : Nat \ {0}, height : Nat \ {0}]
    OBVIOUS
  <2>. QED  BY <2>3, <2>4, PlatesAreCroppedOnce
<1>3. MCBoxesComeBack
  BY <1>1, <1>2 DEF MCBoxesComeBack
<1>. QED  BY <1>3, PTL
=============================================================================
