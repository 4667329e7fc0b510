------------------------------- MODULE Fusion -------------------------------
(***************************************************************************)
(* Combining the views of one plate: alignment (plate_reader/strings.py),  *)
(* probabilistic fusion (fusion.py), conformal thresholds                  *)
(* (crnn/conformal.py) and the review policy (services/api/engine.py).     *)
(* A view has a distribution: masses out of view.of.  A probability, a     *)
(* threshold and an error level are fractions <<numerator, denominator>>.  *)
(***************************************************************************)
EXTENDS Decode

CONSTANT Floor  \* 1 / Floor is given to a candidate a view did not propose

ASSUME FloorAssumption == Floor \in Nat \ {0}

None == <<>>

AtMost(p, q) == p[1] * q[2] <= q[1] * p[2]

-----------------------------------------------------------------------------
(***************************************************************************)
(* Edit distance and alignment.  A column pairs an index of a with one of  *)
(* b; 0 is a gap.                                                          *)
(***************************************************************************)
Cost(x, y) == IF x = y THEN 0 ELSE 1

\* The table of distances between beginnings, row by row; row and column 1 are
\* those of the empty beginnings.
NextRow(above, x, b) ==
  LET row[j \in 0 .. Len(b)] ==
        IF j = 0 THEN <<above[1] + 1>>
        ELSE LET left == row[j - 1]
             IN  Append(left, Min({above[j + 1] + 1, left[j] + 1, above[j] + Cost(x, b[j])}))
  IN  row[Len(b)]

Table(a, b) ==
  LET rows[i \in 0 .. Len(a)] ==
        IF i = 0 THEN <<[j \in 1 .. Len(b) + 1 |-> j - 1]>>
        ELSE LET above == rows[i - 1] IN Append(above, NextRow(above[i], a[i], b))
  IN  rows[Len(a)]

Levenshtein(a, b) == Table(a, b)[Len(a) + 1][Len(b) + 1]

\* Mutant: what is no substitution is a deletion, whatever the table says.
ColumnAt_Greedy(a, b, table, i, j) ==
  IF i > 0 /\ j > 0 /\ table[i + 1][j + 1] = table[i][j] + Cost(a[i], b[j]) THEN <<i, j>>
  ELSE IF i > 0 THEN <<i, 0>> ELSE <<0, j>>

\* The column that an alignment of the first i and j ends with: substitution first, then
\* deletion, then insertion.
ColumnAt(a, b, table, i, j) ==
  IF i > 0 /\ j > 0 /\ table[i + 1][j + 1] = table[i][j] + Cost(a[i], b[j]) THEN <<i, j>>
  ELSE IF i > 0 /\ table[i + 1][j + 1] = table[i][j + 1] + 1 THEN <<i, 0>> ELSE <<0, j>>

\* Where that column leaves off.
Earlier(at, column) == [side \in 1 .. 2 |-> IF column[side] = 0 THEN at[side] ELSE at[side] - 1]

\* Walked back from the end.
Align(a, b) ==
  LET table == Table(a, b)
      columns[at \in (0 .. Len(a)) \X (0 .. Len(b))] ==
        IF at = <<0, 0>> THEN <<>>
        ELSE LET column == ColumnAt(a, b, table, at[1], at[2])
             IN  Append(columns[Earlier(at, column)], column)
  IN  columns[<<Len(a), Len(b)>>]

-----------------------------------------------------------------------------
(***************************************************************************)
(* Probabilistic fusion of views [hypotheses, of, weight].                 *)
(***************************************************************************)
Proposed(view) == {h.tokens : h \in {h \in Range(view.hypotheses) : Accepts(h.tokens)}}

Mass(view, tokens) ==
  Sum([i \in DOMAIN view.hypotheses |->
    IF view.hypotheses[i].tokens = tokens /\ Accepts(tokens) THEN view.hypotheses[i].mass ELSE 0])

\* Mutant: the first view that can be read proposes the candidates.
Candidates_FirstView(views) == IF views = <<>> THEN {} ELSE Proposed(views[1])

Candidates(views) == UNION {Proposed(v) : v \in Range(views)}

\* max(p, floor), scaled by the view's Floor * of.
Raw(view, tokens) == Max({Floor * Mass(view, tokens), view.of})

Power(x, n) == Product([k \in 1 .. n |-> x])

\* A view with no hypothesis abstains; a weight is an exponent on the evidence.
Score(views, tokens) ==
  Product([i \in DOMAIN views |->
    IF Proposed(views[i]) = {} THEN 1 ELSE Power(Raw(views[i], tokens), views[i].weight)])

Posterior(views) ==
  InOrder({[tokens |-> s, mass |-> Score(views, s)] : s \in Candidates(views)}, ByMass)

MassOf(dist) == Sum([i \in DOMAIN dist |-> dist[i].mass])

\* The view's own choice: ties go to the greater string here.
Choice(view) ==
  CHOOSE s \in Proposed(view) : \A r \in Proposed(view) \ {s} :
    Mass(view, r) <= Mass(view, s) /\ (Mass(view, r) = Mass(view, s) => Before(r, s))

Agreeing(views, winner) ==
  Cardinality({i \in DOMAIN views : Proposed(views[i]) # {} /\ Choice(views[i]) = winner})

GAP == 0

\* What a view gives all candidates together: raw.values() summed, 1 for a view that abstains.
Norm(view, cands) ==
  IF Proposed(view) = {} THEN 1 ELSE MapThenSumSet(LAMBDA s : Raw(view, s), cands)

\* The normalised vote of a view for a candidate, brought to one denominator: the product of
\* the views' normalisers.
Vote(views, cands, i, s) ==
  views[i].weight * Raw(views[i], s)
    * Product([k \in DOMAIN views |-> IF k = i THEN 1 ELSE Norm(views[k], cands)])

\* What aligns to a position of the winner.
Aligned(winner, s, n) ==
  LET column == CHOOSE c \in Range(Align(winner, s)) : c[1] = n
  IN  IF column[2] = 0 THEN GAP ELSE s[column[2]]

\* The votes of every view for what aligns to each position of the winner.
Positions(views, winner) ==
  LET cands  == Candidates(views)
      voting == {i \in DOMAIN views : Proposed(views[i]) # {}}
      total(n, x) == MapThenSumSet(LAMBDA v : Vote(views, cands, v[1], v[2]),
                                   {v \in voting \X cands : Aligned(winner, v[2], n) = x})
  IN  [n \in DOMAIN winner |->
        LET voted == {x \in Symbols \cup {GAP} : total(n, x) > 0}
        IN  IF voted = {} THEN winner[n] :> 1 ELSE [x \in voted |-> total(n, x)]]

-----------------------------------------------------------------------------
(***************************************************************************)
(* Conformal sets.                                                         *)
(***************************************************************************)
Sorted(scores) ==
  LET ahead(i, j) == scores[i] < scores[j] \/ (scores[i] = scores[j] /\ i < j)
      ranks == InOrder(DOMAIN scores, ahead)
  IN  [n \in DOMAIN ranks |-> scores[ranks[n]]]

\* Mutant: the rank among the n scores instead of n + 1.
Quantile_OfN(scores, of, alpha) ==
  LET n    == Len(scores)
      rank == -((-n * (alpha[2] - alpha[1])) \div alpha[2])
  IN  IF n = 0 \/ rank > n THEN of ELSE Sorted(scores)[rank]

\* The threshold at level alpha from calibration scores, which are numerators
\* over the denominator of; of itself stands for 1.0, "every string".
Quantile(scores, of, alpha) ==
  LET n    == Len(scores)
      rank == -((-(n + 1) * (alpha[2] - alpha[1])) \div alpha[2])
  IN  IF n = 0 \/ rank > n THEN of ELSE Sorted(scores)[rank]

\* Mutant: a string's own mass is compared, not that of its rivals.
SetOf_OwnMass(posterior, threshold) ==
  LET all     == MassOf(posterior)
      members == {i \in DOMAIN posterior : \/ threshold[1] >= threshold[2]
                                           \/ AtMost(<<posterior[i].mass, all>>, threshold)}
  IN  Picked([i \in DOMAIN posterior |-> posterior[i].tokens], members)

\* A posterior without mass is NaN, and so are sums of it, which are under no threshold;
\* the sum of no rivals is 0.
Summable(posterior) == MassOf(posterior) > 0 \/ Len(posterior) = 1

\* Everything, from the threshold 1.0 on; else the strings whose rivals' mass
\* is under the threshold.
SetOf(posterior, threshold) ==
  LET all     == MassOf(posterior)
      members == {i \in DOMAIN posterior : \/ threshold[1] >= threshold[2]
                                           \/ /\ Summable(posterior)
                                              /\ AtMost(<<all - posterior[i].mass, all>>, threshold)}
  IN  Picked([i \in DOMAIN posterior |-> posterior[i].tokens], members)

\* The threshold calibrated for the most views not above these, else the single one,
\* which is also used when these views were calibrated for other levels only.
ThresholdFor(calibration, views) ==
  LET counts == {k \in DOMAIN calibration.fused : k <= Max({1, views})}
      table  == IF counts = {} THEN None ELSE calibration.fused[Max(counts)]
  IN  IF table = None THEN calibration.single ELSE table

NoFused == [prediction |-> None, posterior |-> <<>>, positions |-> <<>>, agreeing |-> 0,
            certified |-> None, set |-> <<>>]

ProbabilisticFusion(views, threshold) ==
  LET posterior == Posterior(views)
      winner    == posterior[1].tokens
  IN  IF Candidates(views) = {} THEN NoFused
      ELSE [prediction |-> winner,
            posterior  |-> posterior,
            positions  |-> Positions(views, winner),
            agreeing   |-> Agreeing(views, winner),
            certified  |-> threshold,
            set        |-> IF threshold = None THEN <<>> ELSE SetOf(posterior, threshold)]

Confidence(fused) == <<fused.posterior[1].mass, MassOf(fused.posterior)>>

-----------------------------------------------------------------------------
\* review_reason: why a read goes to the queue, "" when it does not.
ReviewReason(fused, level, anyView, reviewEmptySets) ==
  IF fused.prediction = None
  THEN IF anyView THEN "unreadable" ELSE ""
  ELSE IF fused.certified # None /\ Len(fused.set) > 1 THEN "set_size"
  ELSE IF fused.certified # None /\ fused.set = <<>> /\ reviewEmptySets THEN "empty_set"
  ELSE IF ~AtMost(level, Confidence(fused)) THEN "low_confidence"
  ELSE ""
=============================================================================
