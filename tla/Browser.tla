------------------------------- MODULE Browser -------------------------------
(***************************************************************************)
(* A read that never leaves the browser (apps/dashboard/src/inference):    *)
(* the automaton that `plate export web` wrote (grammar.ts), the beam      *)
(* search (decode.ts), the recogniser's answer (crnn.ts), the fusion of    *)
(* the views (fusion.ts) and the review rule (pipeline.ts).  They were     *)
(* ported by hand from plate_reader, and are translated here from the      *)
(* TypeScript alone.  Masses are weights, as in Decode.                    *)
(***************************************************************************)
EXTENDS Integers, Sequences, Functions, SequencesExt

CONSTANTS
  BLANK, DEAD, GAP,  \* class 0, the rejecting state, the empty position
  Code,              \* the code unit of a symbol
  Floor,             \* 1 / FLOOR
  Separator, Space,  \* the hyphen of tokens, what temporary plates show instead
  Temporary          \* the name of the temporary format

VARIABLES
  transitions,  \* GRAMMAR.transitions: a row for every state
  accepting     \* GRAMMAR.accepting: the sorted names of every state

-----------------------------------------------------------------------------
(***************************************************************************)
(* grammar.ts                                                              *)
(***************************************************************************)
Step(state, c) ==
  IF state = DEAD \/ c \notin DOMAIN transitions[state] THEN DEAD ELSE transitions[state][c]

Run(tokens) == FoldLeft(Step, 1, tokens)

IsAccepting(state) == state # DEAD /\ accepting[state] # <<>>

Accepts(tokens) == IsAccepting(Run(tokens))

NoFormat == -1

FormatOf(tokens) ==
  IF Accepts(tokens) THEN SortSeq(accepting[Run(tokens)], <)[1] ELSE NoFormat

Parts(tokens) ==
  FoldLeft(LAMBDA parts, c : IF c = Separator THEN Append(parts, <<>>)
                             ELSE [parts EXCEPT ![Len(parts)] = Append(@, c)],
           <<<<>>>>, tokens)

\* Digits, letter and region; a temporary plate has only the first.
FieldsOf(tokens) ==
  LET parts == Parts(tokens)
  IN  CASE FormatOf(tokens) = NoFormat  -> <<>>
        [] FormatOf(tokens) = Temporary -> <<parts[1]>>
        [] OTHER -> SubSeq(parts, 1, IF Len(parts) < 3 THEN Len(parts) ELSE 3)

\* The first hyphen of a temporary plate is the one before its marks.
ToDisplay(tokens) ==
  IF FormatOf(tokens) = Temporary THEN ReplaceFirstSubSeq(<<Space>>, <<Separator>>, tokens) ELSE tokens

-----------------------------------------------------------------------------
(***************************************************************************)
(* decode.ts.  A Map is a sequence of entries in the order of insertion.   *)
(***************************************************************************)
Compare(a, b) ==
  \/ IsStrictPrefix(a, b)
  \/ \E i \in DOMAIN a \cap DOMAIN b :
       Code[a[i]] < Code[b[i]] /\ SubSeq(a, 1, i - 1) = SubSeq(b, 1, i - 1)

Entry(prefix, state, blank, symbol) ==
  [prefix |-> prefix, state |-> state, blank |-> blank, symbol |-> symbol]

\* slot(prefix, state), and what is added to its two masses.
Add(map, entry) ==
  IF \E i \in DOMAIN map : map[i].prefix = entry.prefix
  THEN [i \in DOMAIN map |->
         IF map[i].prefix # entry.prefix THEN map[i]
         ELSE [map[i] EXCEPT !.blank = @ + entry.blank, !.symbol = @ + entry.symbol]]
  ELSE Append(map, entry)

Total(beam) == beam.blank + beam.symbol

\* What a beam puts in the next map: itself, then every extension that lives.
Spread(next, beam, row, prune) ==
  LET repeats(c) == beam.prefix # <<>> /\ Last(beam.prefix) = c
      stay   == Entry(beam.prefix, beam.state, Total(beam) * row[BLANK],
                      IF beam.prefix = <<>> THEN 0 ELSE beam.symbol * row[Last(beam.prefix)])
      extend(map, c) ==
        IF row[c] <= prune \/ Step(beam.state, c) = DEAD THEN map
        ELSE Add(map, Entry(Append(beam.prefix, c), Step(beam.state, c), 0,
                            row[c] * (IF repeats(c) THEN beam.blank ELSE Total(beam))))
  IN  FoldLeft(extend, Add(next, stay), [c \in DOMAIN transitions[1] |-> c])

\* Array.sort is stable: an entry goes behind those that are at least as heavy.
Insert(ranked, beam) ==
  LET heavier == SelectSeq(ranked, LAMBDA b : Total(b) >= Total(beam))
  IN  Append(heavier, beam) \o SubSeq(ranked, Len(heavier) + 1, Len(ranked))

Turn(beams, row, width, prune) ==
  LET next   == FoldLeft(LAMBDA map, beam : Spread(map, beam, row, prune), <<>>, beams)
      ranked == FoldLeft(Insert, <<>>, next)
  IN  SubSeq(ranked, 1, IF Len(ranked) < width THEN Len(ranked) ELSE width)

ByMass(a, b) == a.mass > b.mass \/ (a.mass = b.mass /\ Compare(a.tokens, b.tokens))

ConstrainedBeamSearch(photo, width, prune) ==
  LET beams    == FoldLeft(LAMBDA b, row : Turn(b, row, width, prune), <<Entry(<<>>, 1, 1, 0)>>, photo)
      returned == SelectSeq(beams, LAMBDA b : b.prefix # <<>> /\ IsAccepting(b.state))
  IN  SortSeq([i \in DOMAIN returned |->
                 [tokens |-> returned[i].prefix, mass |-> Total(returned[i])]], ByMass)

MassOf(hypotheses) == FoldLeft(LAMBDA sum, h : sum + h.mass, 0, hypotheses)

\* posterior, scoresOf and predictionSet, and fusedPredictionSet, which is the
\* same on a posterior: the rivals of a member have at most the threshold.
\* 0 / 0 is NaN and compares to nothing, unless a lone string has no rivals.
PredictionSet(hypotheses, threshold) ==
  LET all     == MassOf(hypotheses)
      members == SelectSeq(hypotheses, LAMBDA h :
                   \/ threshold[1] >= threshold[2]
                   \/ /\ all # 0 \/ Tail(hypotheses) = <<>>
                      /\ (all - h.mass) * threshold[2] <= threshold[1] * all)
  IN  [i \in DOMAIN members |-> members[i].tokens]

-----------------------------------------------------------------------------
(***************************************************************************)
(* crnn.ts.  metadata is the configuration of the recogniser.              *)
(***************************************************************************)
\* decodeBeam: strings without mass are in the posterior, not among the hypotheses.
DecodeBeam(photo, metadata) ==
  LET beam == ConstrainedBeamSearch(photo, metadata.width, metadata.prune)
      single == metadata.calibration.single
  IN  [hypotheses |-> SelectSeq(beam, LAMBDA h : h.mass > 0), of |-> MassOf(beam),
       prediction |-> IF beam = <<>> THEN <<>> ELSE beam[1].tokens,
       set        |-> IF single = <<>> THEN <<>> ELSE PredictionSet(beam, single)]

\* thresholdFor: the counts are walked upwards, the last that is not above wins.
ThresholdFor(calibration, views) ==
  LET atMost  == IF views > 1 THEN views ELSE 1
      counts  == SelectSeq([k \in 1 .. atMost |-> k], LAMBDA k : k \in DOMAIN calibration.fused)
      largest == IF counts = <<>> THEN <<>> ELSE calibration.fused[Last(counts)]
  IN  IF largest = <<>> THEN calibration.single ELSE largest

-----------------------------------------------------------------------------
(***************************************************************************)
(* fusion.ts.  A view is [hypotheses, of]; its distribution has a          *)
(* numerator for each of its plates over the denominator of.               *)
(***************************************************************************)
Product(numbers) == FoldLeft(LAMBDA a, b : a * b, 1, numbers)

ViewDistribution(view) ==
  FoldLeft(LAMBDA map, h :
             IF Accepts(h.tokens) THEN Add(map, Entry(h.tokens, DEAD, h.mass, 0)) ELSE map,
           <<>>, view.hypotheses)

Of(dist, tokens) ==
  LET found == SelectSeq(dist, LAMBDA e : e.prefix = tokens)
  IN  IF found = <<>> THEN 0 ELSE found[1].blank

\* Every candidate once, in the order of compare.
CandidatesOf(dists) ==
  LET all == FoldLeft(LAMBDA found, dist :
               FoldLeft(LAMBDA s, e : IF Contains(s, e.prefix) THEN s ELSE Append(s, e.prefix),
                        found, dist), <<>>, dists)
  IN  SortSeq(all, Compare)

\* max(p, floor) over the denominator Floor * of.
Floored(dist, of, tokens) ==
  LET p == Floor * Of(dist, tokens) IN IF p > of THEN p ELSE of

\* Mutant: the first string of those with the greatest mass.
BestOf_First(dist) ==
  FoldLeft(LAMBDA best, e : IF e.blank > best.blank THEN e ELSE best,
           Entry(<<>>, DEAD, -1, 0), dist).prefix

\* The greatest mass of a view, the later string of equal ones.
BestOf(dist) ==
  FoldLeft(LAMBDA best, e :
             IF \/ e.blank > best.blank
                \/ e.blank = best.blank /\ Compare(best.prefix, e.prefix) THEN e ELSE best,
           Entry(<<>>, DEAD, -1, 0), dist).prefix

\* align: the table of distances, and the way back through it.
Distances(a, b) ==
  LET d[i \in 0 .. Len(a), j \in 0 .. Len(b)] ==
        IF i = 0 THEN j ELSE IF j = 0 THEN i
        ELSE LET cost == IF a[i] = b[j] THEN 0 ELSE 1
                 x == d[i - 1, j] + 1
                 y == d[i, j - 1] + 1
                 z == d[i - 1, j - 1] + cost
             IN  IF x <= y /\ x <= z THEN x ELSE IF y <= z THEN y ELSE z
  IN  d

\* The symbol of b that stands against each position of a, GAP if none does.
Aligned(a, b) ==
  LET d == Distances(a, b)
      back[i \in 0 .. Len(a), j \in 0 .. Len(b)] ==
        CASE i = 0 -> <<>>
          [] i > 0 /\ j > 0 /\ d[i, j] = d[i - 1, j - 1] + (IF a[i] = b[j] THEN 0 ELSE 1) ->
               Append(back[i - 1, j - 1], b[j])
          [] i > 0 /\ ~(j > 0 /\ d[i, j] = d[i - 1, j - 1] + (IF a[i] = b[j] THEN 0 ELSE 1))
                   /\ d[i, j] = d[i - 1, j] + 1 -> Append(back[i - 1, j], GAP)
          [] OTHER -> back[i, j - 1]
  IN  back[Len(a), Len(b)]

\* perPositionPosterior, with the votes of the views at one denominator and
\* without its last sort.
PerPositionPosterior(winner, cands, dists, ofs) ==
  LET norm   == [v \in DOMAIN dists |->
                  IF dists[v] = <<>> THEN 1
                  ELSE FoldLeft(LAMBDA sum, s : sum + Floored(dists[v], ofs[v], s), 0, cands)]
      rows   == [k \in DOMAIN cands |-> Aligned(winner, cands[k])]
      mass   == [k \in DOMAIN cands |->
                  FoldLeft(LAMBDA sum, v :
                             IF dists[v] = <<>> THEN sum
                             ELSE sum + Floored(dists[v], ofs[v], cands[k])
                                        * Product([u \in DOMAIN dists |-> IF u = v THEN 1 ELSE norm[u]]),
                           0, [v \in DOMAIN dists |-> v])]
  IN  [n \in DOMAIN winner |->
        [x \in {rows[k][n] : k \in DOMAIN cands} |->
          FoldLeft(LAMBDA sum, k : IF rows[k][n] = x THEN sum + mass[k] ELSE sum,
                   0, [k \in DOMAIN cands |-> k])]]

NoFused == [prediction |-> <<>>, posterior |-> <<>>, positions |-> <<>>, agreeing |-> 0,
            certified |-> <<>>, set |-> <<>>]

\* probabilisticFusion with the weights of the page, which are 1.
ProbabilisticFusion(views, threshold) ==
  LET dists     == [v \in DOMAIN views |-> ViewDistribution(views[v])]
      ofs       == [v \in DOMAIN views |-> views[v].of]
      cands     == CandidatesOf(dists)
      score(s)  == Product([v \in DOMAIN dists |->
                     IF dists[v] = <<>> THEN 1 ELSE Floored(dists[v], ofs[v], s)])
      posterior == SortSeq([k \in DOMAIN cands |-> [tokens |-> cands[k], mass |-> score(cands[k])]],
                           ByMass)
      winner    == posterior[1].tokens
  IN  IF cands = <<>> THEN NoFused
      ELSE [prediction |-> winner,
            posterior  |-> posterior,
            positions  |-> PerPositionPosterior(winner, cands, dists, ofs),
            agreeing   |-> Len(SelectSeq(dists, LAMBDA d : d # <<>> /\ BestOf(d) = winner)),
            certified  |-> threshold,
            set        |-> IF threshold = <<>> THEN <<>> ELSE PredictionSet(posterior, threshold)]

-----------------------------------------------------------------------------
(***************************************************************************)
(* pipeline.ts                                                             *)
(***************************************************************************)
ReviewReason(fused, level, anyView, reviewEmptySets) ==
  LET certified == fused.certified # <<>>
      mass      == fused.posterior[1].mass
  IN  CASE fused.prediction = <<>> -> IF anyView THEN "unreadable" ELSE ""
        [] fused.prediction # <<>> /\ certified /\ Len(fused.set) > 1 -> "set_size"
        [] fused.prediction # <<>> /\ certified /\ fused.set = <<>> /\ reviewEmptySets -> "empty_set"
        [] OTHER -> IF mass * level[2] < level[1] * MassOf(fused.posterior)
                    THEN "low_confidence" ELSE ""

Reported(fused, level, anyView, reviewEmptySets) ==
  [fused  |-> fused,
   reason |-> ReviewReason(fused, level, anyView, reviewEmptySets),
   plate  |-> ToDisplay(fused.prediction),
   format |-> FormatOf(fused.prediction),
   fields |-> FieldsOf(fused.prediction)]

\* readImages, from what decodeBeam gave for each photo; a photo without a
\* plate is <<>>.
ReadImages(views, metadata) ==
  LET readable  == SelectSeq(views, LAMBDA v : v # <<>>)
      proposing == Len(SelectSeq(readable, LAMBDA v : v.hypotheses # <<>>))
  IN  Reported(ProbabilisticFusion(readable, ThresholdFor(metadata.calibration, proposing)),
               metadata.level, readable # <<>>, metadata.reviewEmptySets)
=============================================================================
