----------------------------- MODULE Evaluation -----------------------------
(***************************************************************************)
(* How reads are scored: the score of a read against the truth and what a  *)
(* population's scores add up to (plate_reader/eval/metrics.py,            *)
(* bootstrap.py), the coverage of conformal sets (crnn/conformal.py), the  *)
(* report of a calibration (training/calibrate_crnn.py) and the fusion of  *)
(* a set's first views (eval/harness.py).  A unit is a truth and a read    *)
(* [prediction, confidence, certified, set]; a confidence is a fraction    *)
(* and None without a prediction, set counts if certified is a threshold.  *)
(* A fraction over 0 is no number.  Latencies and resampling are left out: *)
(* what is modelled are the point estimates.                               *)
(***************************************************************************)
EXTENDS Reader, Spelling

\* Neither a score nor a difference of scores.
NaN == -2

AsNumber(holds) == IF holds THEN 1 ELSE 0

-----------------------------------------------------------------------------
(***************************************************************************)
(* score_reads.                                                            *)
(***************************************************************************)
\* Of the fields of a plate: the digits are the first, the letter the second and the region the
\* third; None where there is none.
FieldAt(fields, n) == IF n \in DOMAIN fields THEN fields[n] ELSE None

\* glyphs: the printed characters.
Printed(tokens) == SelectSeq(tokens, LAMBDA c : c # Hyphen)

\* No prediction costs the whole truth.
Edits(truth, prediction) ==
  IF prediction = None THEN Len(Printed(truth))
  ELSE Levenshtein(Printed(prediction), Printed(truth))

ScoreOf(truth, tFields, read, pred, pFields) ==
  LET same(n) == AsNumber(FieldAt(pFields, n) = FieldAt(tFields, n))
      onlyWhere(n) == IF FieldAt(tFields, n) = None THEN NaN ELSE same(n)
  IN  [exact      |-> AsNumber(pred = truth),
       read       |-> AsNumber(pred # None),
       digits     |-> same(1),
       letter     |-> onlyWhere(2),
       region     |-> onlyWhere(3),
       format     |-> AsNumber(pred # None /\ Accepts(pred) /\ FormatOf(pred) = FormatOf(truth)),
       glyphs     |-> Len(Printed(truth)),
       edits      |-> Edits(truth, pred),
       confidence |-> IF pred # None /\ read.confidence # None THEN read.confidence ELSE <<0, 1>>,
       covered    |-> IF read.certified = None THEN NaN ELSE AsNumber(truth \in Range(read.set)),
       setSize    |-> IF read.certified = None THEN NaN ELSE Len(read.set)]

Score1(truth, read) ==
  ScoreOf(truth, FieldsOfPlate(truth), read, read.prediction, FieldsOfPlate(read.prediction))

ScoreReads(units) ==
  FoldLeft(LAMBDA scores, unit : Append(scores, Score1(unit.truth, unit.read)), <<>>, units)

-----------------------------------------------------------------------------
(***************************************************************************)
(* Estimates over a population: Bootstrap.mean and ratio, the calibration  *)
(* error and the reliability diagram.  Estimates are fractions.            *)
(***************************************************************************)
\* Of the units that the metric applies to.
MeanOf(values, valid) == [value |-> <<Sum(Picked(values, valid)), Cardinality(valid)>>,
                          n     |-> Cardinality(valid)]

Mean(values) == MeanOf(values, {i \in DOMAIN values : values[i] # NaN})

Ratio(numerators, denominators) == <<Sum(numerators), Sum(denominators)>>

Bins == 10

\* Mutant: full confidence is in a bin of its own, the eleventh.
BinOf_Open(confidence) == (confidence[1] * Bins) \div confidence[2]

\* Full confidence belongs to the last bin.
BinOf(confidence) == Min({(confidence[1] * Bins) \div confidence[2], Bins - 1})

\* Confidences out of one total.
Whole(confidence) == Product([i \in DOMAIN confidence |-> confidence[i][2]])
Part(confidence, i) == confidence[i][1] * (Whole(confidence) \div confidence[i][2])

\* The units of every bin: how many, how many of them right, their confidence in all.
Binned(confidence, correct) ==
  LET in(mask) == [n     |-> Cardinality(mask),
                   right |-> Sum(Picked(correct, mask)),
                   sure  |-> Sum(Picked([i \in DOMAIN confidence |-> Part(confidence, i)], mask))]
  IN  [b \in 1 .. Bins |-> in({i \in DOMAIN confidence : BinOf(confidence[i]) = b - 1})]

Distance(x, y) == IF x < y THEN y - x ELSE x - y

Ece(bins, n, whole) ==
  <<Sum([b \in 1 .. Bins |-> Distance(bins[b].right * whole, bins[b].sure)]), n * whole>>

\* Rows of the diagram; without units a bin has no means.
Reliability(bins, whole) ==
  [b \in 1 .. Bins |->
    [n          |-> bins[b].n,
     accuracy   |-> IF bins[b].n = 0 THEN None ELSE <<bins[b].right, bins[b].n>>,
     confidence |-> IF bins[b].n = 0 THEN None ELSE <<bins[b].sure, bins[b].n * whole>>]]

\* letter_confusion: letters against predicted letters, None for another format or none.
ConfusionOf(letters, pairs) ==
  [pair \in letters \X (letters \cup {None}) |-> Cardinality({i \in DOMAIN pairs : pairs[i] = pair})]

LetterConfusion(units) ==
  LET letter(tokens) == FieldAt(FieldsOfPlate(tokens), 2)
  IN  ConfusionOf({<<c>> : c \in Members["letter"]},
                  [i \in DOMAIN units |-> <<letter(units[i].truth), letter(units[i].read.prediction)>>])

\* What a table of the metrics of units adds up to; confidences are parts of whole.
Estimates(of, bins, n, whole, confusion) ==
  [means       |-> [metric \in {"exact", "read", "digits", "letter", "region", "format",
                                "covered", "setSize"} |-> Mean(of[metric])],
   cer         |-> Ratio(of["edits"], of["glyphs"]),
   ece         |-> Ece(bins, n, whole),
   confidence  |-> <<Sum([i \in 1 .. n |-> Part(of["confidence"], i)]), n * whole>>,
   reliability |-> Reliability(bins, whole),
   confusion   |-> confusion]

Columns(scores) == [metric \in DOMAIN scores[1] |-> [i \in DOMAIN scores |-> scores[i][metric]]]

FromColumns(of, confusion) ==
  Estimates(of, Binned(of["confidence"], of["exact"]), Len(of["exact"]), Whole(of["confidence"]), confusion)

Summarise(units) == FromColumns(Columns(ScoreReads(units)), LetterConfusion(units))

\* evaluate_recognizers: the summaries of all, and how much more of the same truths each of the
\* others reads right than the first.
ExactOf(truths, reads) == [i \in DOMAIN truths |-> Score1(truths[i], reads[i]).exact]

Compared(exact) ==
  [r \in 2 .. Len(exact) |-> Mean([i \in DOMAIN exact[1] |-> exact[r][i] - exact[1][i]])]

EvaluateRecognizers(truths, reads) ==
  [recognizers |-> [r \in DOMAIN reads |->
                     Summarise([i \in DOMAIN truths |-> [truth |-> truths[i], read |-> reads[r][i]]])],
   comparisons |-> Compared([r \in DOMAIN reads |-> ExactOf(truths, reads[r])])]

\* compare_crnn on one set, with the reads of two networks: who alone is right.  The decision rests
\* on the resampled interval of the difference.
CompareExact(old, new) ==
  [old |-> Mean(old), new |-> Mean(new),
   difference   |-> Mean([i \in DOMAIN old |-> new[i] - old[i]]),
   onlyOldRight |-> Cardinality({i \in DOMAIN old : old[i] = 1 /\ new[i] = 0}),
   onlyNewRight |-> Cardinality({i \in DOMAIN old : old[i] = 0 /\ new[i] = 1})]

CompareCrnn(truths, old, new) == CompareExact(ExactOf(truths, old), ExactOf(truths, new))

-----------------------------------------------------------------------------
(***************************************************************************)
(* Conformal sets and calibration on the beams of a photo.                 *)
(***************************************************************************)
\* CRNNRuntime.decode with the constrained decoder.
BeamRead(found, threshold) ==
  [prediction |-> IF found = <<>> THEN None ELSE found[1].tokens,
   confidence |-> IF found = <<>> THEN None ELSE <<found[1].mass, MassOf(found)>>,
   certified  |-> threshold,
   set        |-> IF threshold = None THEN <<>> ELSE SetOf(found, threshold)]

\* The mass of the truth's rivals, 1 outside the beam.
Nonconformity(found, truth) ==
  LET at == {i \in DOMAIN found : found[i].tokens = truth}
  IN  IF at = {} THEN <<1, 1>>
      ELSE <<MassOf(found) - found[Min(at)].mass, MassOf(found)>>

\* Of one beam with mass: is the truth covered, and how large is the set.
Coverage(found, truth, threshold) ==
  LET everything == threshold[1] >= threshold[2]
  IN  [covered |-> everything \/ AtMost(Nonconformity(found, truth), threshold),
       size    |-> IF everything THEN Len(found)
                   ELSE Cardinality({i \in DOMAIN found :
                          AtMost(<<MassOf(found) - found[i].mass, MassOf(found)>>, threshold)})]

CoverageReport(split, threshold) ==
  LET share(indices) == <<Cardinality(indices), Len(split)>>
  IN  [coverage   |-> share({i \in DOMAIN split : split[i].covered}),
       setSize    |-> <<Sum([i \in DOMAIN split |-> split[i].size]), Len(split)>>,
       singletons |-> share({i \in DOMAIN split : split[i].size = 1}),
       empties    |-> share({i \in DOMAIN split : split[i].size = 0}),
       everything |-> threshold[1] >= threshold[2]]

\* evaluate_coverage at the threshold of the calibration split.
EvaluateCoverage(split, threshold) ==
  CoverageReport([i \in DOMAIN split |-> Coverage(split[i].beam, split[i].truth, threshold)], threshold)

\* _calibration_metrics for one beam.
CalibrationScore(found, truth) ==
  [confidence |-> IF found = <<>> THEN <<0, 1>> ELSE <<found[1].mass, MassOf(found)>>,
   exact      |-> AsNumber(found # <<>> /\ found[1].tokens = truth)]

-----------------------------------------------------------------------------
(***************************************************************************)
(* evaluate_fusion with the fuser that is served.  An item of the set of   *)
(* views is [group, view, truth, read]; the items of a group may be        *)
(* anywhere in the set.                                                    *)
(***************************************************************************)
First(sequence, k) == SubSeq(sequence, 1, Min({k, Len(sequence)}))

MembersOf(items, group, k) ==
  LET first(p, q) == \/ items[p].view < items[q].view
                     \/ items[p].view = items[q].view /\ p < q
  IN  First(InOrder({p \in DOMAIN items : items[p].group = group}, first), k)

\* Mutant: the threshold for the number of views.
FusedGroup_AllViews(reads, calibration) ==
  ProbabilisticFusion(reads, ThresholdFor(calibration, Len(reads)))

\* The threshold is for the number of views that proposed a plate.
FusedGroup(reads, calibration) ==
  ProbabilisticFusion(reads,
    ThresholdFor(calibration, Cardinality({i \in DOMAIN reads : reads[i].hypotheses # <<>>})))

AsRead(result) ==
  [prediction |-> result.prediction,
   confidence |-> IF result.prediction = None THEN None ELSE Confidence(result),
   certified  |-> result.certified,
   set        |-> result.set]

FusedUnit(items, members, calibration) ==
  [truth |-> items[members[1]].truth,
   read  |-> AsRead(FusedGroup([i \in DOMAIN members |-> items[members[i]].read], calibration))]

EvaluateFusion(items, k, calibration) ==
  [group \in {items[p].group : p \in DOMAIN items} |->
    FusedUnit(items, MembersOf(items, group, k), calibration)]

-----------------------------------------------------------------------------
(***************************************************************************)
(* Properties.                                                             *)
(***************************************************************************)
\* The scores of one read agree with each other: the whole plate is right exactly if its format
\* and every field that it has are right, and exactly if it has the format and not one edit is
\* needed; where nothing is read the whole truth is to be written and the confidence is 0; never
\* are more edits needed than the longer of both has characters.
Agrees(score, longest) ==
  /\ score.exact = 1 <=> score.format = 1 /\ 0 \notin {score.digits, score.letter, score.region}
  /\ score.exact = 1 <=> score.format = 1 /\ score.edits = 0
  /\ score.letter = NaN <=> score.region = NaN
  /\ score.read = 0 => score.edits = score.glyphs /\ score.confidence = <<0, 1>>
  /\ score.edits <= longest

ScoresAgree(truths, predictions) ==
  \A truth \in truths, pred \in predictions :
    Agrees(Score1(truth, [prediction |-> pred, confidence |-> <<1, 2>>, certified |-> None, set |-> <<>>]),
           Max({Len(Printed(truth)), Len(Printed(pred))}))

\* A summary adds up: every unit is in one row of the reliability diagram, the one its confidence
\* lies in (full confidence too); the rows' weighted gaps are the calibration error, which is not
\* below the gap of the whole population; the letters of the confusion matrix are those that are
\* scored; what is exact is read, has its format and digits, and needs no edits.
AddsUp(summary, rows, n, whole) ==
  LET rate(metric) == summary.means[metric].value
      gap(row) == IF row.n = 0 THEN 0
                  ELSE Distance(row.accuracy[1] * (whole \div n),
                                row.confidence[1] * ((whole \div n) \div (row.confidence[2] \div row.n)))
      confused(pairs) == Sum([i \in 1 .. Cardinality(pairs) |->
                               summary.confusion[InOrder(pairs, LAMBDA p, q : Before(p[1] \o p[2], q[1] \o q[2]))[i]]])
      pairs == DOMAIN summary.confusion
  IN  /\ Sum([b \in 1 .. Bins |-> rows[b].n]) = n
      /\ \A b \in 1 .. Bins : rows[b].n > 0 =>
           /\ AtMost(<<b - 1, Bins>>, rows[b].confidence)
           /\ AtMost(rows[b].confidence, <<b, Bins>>)
      /\ Sum([b \in 1 .. Bins |-> gap(rows[b])]) = summary.ece[1]
      /\ AtMost(<<Distance(rate("exact")[1] * (whole \div n), summary.confidence[1]), whole>>,
                summary.ece)
      /\ confused(pairs) = summary.means["letter"].n
      /\ confused({p \in pairs : p[1] = p[2]}) = rate("letter")[1]
      /\ \A metric \in {"read", "format", "digits"} : AtMost(rate("exact"), rate(metric))
      /\ rate("exact") = <<n, n>> => summary.cer[1] = 0

OfSummary(summary, n) == AddsUp(summary, summary.reliability, n, summary.ece[2])

\* What is compared is the difference of what is summarised, and the surplus of those who alone
\* are right.
ComparesSummaries(evaluation, comparison, n) ==
  LET exact(r) == evaluation.recognizers[r].means["exact"].value[1]
  IN  /\ DOMAIN evaluation.comparisons = {2}
      /\ evaluation.comparisons[2] = [value |-> <<exact(2) - exact(1), n>>, n |-> n]
      /\ comparison.difference = evaluation.comparisons[2]
      /\ comparison.difference.value[1] = comparison.onlyNewRight - comparison.onlyOldRight
      /\ comparison.old.value[1] + comparison.onlyNewRight
           = comparison.new.value[1] + comparison.onlyOldRight

Compares(truths, old, new) ==
  ComparesSummaries(EvaluateRecognizers(truths, <<old, new>>), CompareCrnn(truths, old, new), Len(truths))

\* The population adds up, and so does the comparison with what reads all alike.
SummaryAddsUp(units) ==
  /\ OfSummary(Summarise(units), Len(units))
  /\ Compares([i \in DOMAIN units |-> units[i].truth], [i \in DOMAIN units |-> units[i].read],
              [i \in DOMAIN units |-> units[1].read])

Levels == {<<1, 4>>, <<1, 1>>, settings.calibration.single} \ {None}

\* What calibration and evaluation measure of a photo is what the service makes of it: below the
\* threshold 1 a truth counts as covered exactly if the photo's set names it, the size is the
\* set's size, and the calibration report scores the plate that is read, with its confidence.
Measured(truth, threshold, read, score, measured, report) ==
  /\ ~measured.everything => measured.coverage = <<score.covered, 1>>
  /\ measured.everything => measured.coverage = <<1, 1>>
  /\ measured.setSize = <<score.setSize, 1>>
  /\ measured.singletons[1] = 1 <=> score.setSize = 1
  /\ measured.empties[1] = 1 <=> read.set = <<>>
  /\ report = [confidence |-> score.confidence, exact |-> score.exact]
  /\ read.prediction = View(1).prediction

AsMeasured(found, truth, threshold, read) ==
  Measured(truth, threshold, read, Score1(truth, read),
           EvaluateCoverage(<<[beam |-> found, truth |-> truth]>>, threshold),
           CalibrationScore(found, truth))

PhotoIsEvaluated(found) ==
  MassOf(found) > 0 =>
    \A truth \in {found[i].tokens : i \in DOMAIN found} \cup UNION {FormatWords(f) : f \in DOMAIN formats} :
      \A threshold \in Levels : AsMeasured(found, truth, threshold, BeamRead(found, threshold))

PhotosAreEvaluated ==
  Decoding /\ frame = Len(photo) /\ Constrained => PhotoIsEvaluated(Hypotheses(beams, TRUE))

\* The views of the read as items of a set, in any order and with another group between them.
ItemsOf(p, readable) ==
  [i \in 1 .. 2 * Len(p) |->
    IF i % 2 = 1 THEN [group |-> 1, view |-> p[(i + 1) \div 2], truth |-> None,
                       read |-> readable[p[(i + 1) \div 2]]]
    ELSE [group |-> 2, view |-> i, truth |-> None, read |-> readable[1]]]

\* The fused reads that the evaluation scores are the reads that the service serves: wherever the
\* views of a plate are in the set, they are fused in their order and with the threshold that is
\* served for as many views with a plate.
AnyOrderFuses(readable) ==
  readable # <<>> =>
    \A p \in Permutations1(Len(readable)) :
      EvaluateFusion(ItemsOf(p, readable), Len(p), settings.calibration)[1].read = AsRead(fused)

FusionIsEvaluated == reason # "none" /\ Constrained => AnyOrderFuses(Readable)

\* What is measured is what is served.
EvaluationIsServed == PhotosAreEvaluated /\ FusionIsEvaluated
=============================================================================
