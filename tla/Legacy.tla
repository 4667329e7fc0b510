------------------------------- MODULE Legacy -------------------------------
(***************************************************************************)
(* The first reader, which the old HTTP API (api.py), the command line and *)
(* the desktop program still use: an OCR engine reads variants of a crop,  *)
(* by field or as one line, and the reads of all photos are put to a vote  *)
(* (plate_reader/pipeline.py).  legacy_vote (fusion.py) holds the same     *)
(* vote on views, as the baseline of the evaluation.                       *)
(*                                                                         *)
(* A detection is what the engine says of its crop: [confidence, fields,   *)
(* whole].  fields has the readings of the three fields, and is <<>> when  *)
(* the crop cannot be segmented.  A reading is [text, confidence]; the     *)
(* confidences are whole numbers, of a unit that makes Least of 0.01.      *)
(***************************************************************************)
EXTENDS Spelling

CONSTANTS Least, MaxMainDigits, MaxRegionDigits

Vote(key, weight) == [key |-> key, weight |-> weight]

Support(reading) == Max({reading.confidence, Least})

\* A dict of sums, in the order in which its keys were first seen.
Tally(votes) ==
  FoldLeft(LAMBDA tally, v :
             IF \E i \in DOMAIN tally : tally[i].key = v.key
             THEN [i \in DOMAIN tally |->
                    IF tally[i].key = v.key THEN Vote(v.key, tally[i].weight + v.weight) ELSE tally[i]]
             ELSE Append(tally, v),
           <<>>, votes)

WeightOf(tally) == FoldLeft(LAMBDA sum, v : sum + v.weight, 0, tally)

NoVote == Vote(<<>>, 0)

\* max by weight keeps the first of equal keys.
Argmax(tally) ==
  FoldLeft(LAMBDA best, v : IF best = NoVote \/ v.weight > best.weight THEN v ELSE best, NoVote, tally)

VotesOf(tally, key) == WeightOf(SelectSeq(tally, LAMBDA v : v.key = key))

-----------------------------------------------------------------------------
(***************************************************************************)
(* Reading one detection.                                                  *)
(***************************************************************************)
\* What is left of an engine's answer: no reading without a text.  An engine that raises has no
\* answer at all.
Collected(entries) == SelectSeq(entries, LAMBDA e : ~(Range(e.text) \subseteq {Space}))

Ballot(readings) ==
  [i \in DOMAIN readings |-> Vote(NormalizeText(readings[i].text), Support(readings[i]))]

VoteDigits(readings, longest) ==
  Argmax(Tally(SelectSeq(Ballot(readings),
    LAMBDA v : Len(v.key) \in 1 .. longest /\ Range(v.key) \subseteq Members["digit"])))

\* A vote for every character: the engine often adds stray marks.
VoteLetter(readings) ==
  LET letters(v) == SelectSeq(v.key, LAMBDA c : c \in Members["letter"])
      single(v)  == FoldLeft(LAMBDA votes, c : Append(votes, Vote(<<c>>, v.weight)), <<>>, letters(v))
  IN  Argmax(Tally(FoldLeft(LAMBDA all, v : all \o single(v), <<>>, Ballot(readings))))

NoReading == [plate |-> <<>>, votes |-> <<>>]

Spelled(tokens, weight) ==
  IF Accepts(tokens) THEN [plate |-> tokens, votes |-> <<Vote(Display(tokens), weight)>>]
  ELSE NoReading

OfFields(digits, letter, region) ==
  IF NoVote \in {digits, letter, region} THEN NoReading
  ELSE Spelled(digits.key \o <<Hyphen>> \o letter.key \o <<Hyphen>> \o region.key,
               digits.weight + letter.weight + region.weight)

ReadSegmented(fields) ==
  OfFields(VoteDigits(Collected(fields.digits), MaxMainDigits), VoteLetter(Collected(fields.letter)),
           VoteDigits(Collected(fields.region), MaxRegionDigits))

OfVotes(votes) ==
  IF votes = <<>> THEN NoReading ELSE [plate |-> ParsePlate(Argmax(votes).key), votes |-> votes]

\* normalize gives None, here <<>>, for a line that is not a plate.
ReadWhole(lines) ==
  LET said == Collected(lines)
  IN  OfVotes(Tally(SelectSeq([i \in DOMAIN said |-> Vote(Normalize(said[i].text), Support(said[i]))],
                              LAMBDA v : v.key # <<>>)))

\* read_detection: by fields if that gives a plate; the detector's confidence weighs the votes.
Weighed(reading, confidence) ==
  [reading EXCEPT !.votes = [i \in DOMAIN @ |-> Vote(@[i].key, @[i].weight * confidence)]]

OrWhole(segmented, lines) == IF segmented.plate = <<>> THEN ReadWhole(lines) ELSE segmented

ReadDetection(detection) ==
  Weighed(OrWhole(IF detection.fields = <<>> THEN NoReading ELSE ReadSegmented(detection.fields),
                  detection.whole),
          detection.confidence)

-----------------------------------------------------------------------------
(***************************************************************************)
(* read_images, with the fusion "auto": the engine's vote shares are not   *)
(* calibrated, so every result with a vote in it is the vote's.            *)
(***************************************************************************)
Flat(sequences) == FoldLeft(LAMBDA all, s : all \o s, <<>>, sequences)

Readings(image) == [k \in DOMAIN image |-> ReadDetection(image[k])]

VotesOfAll(readings) == Tally(Flat([n \in DOMAIN readings |-> readings[n].votes]))

Named(votes) == IF votes = <<>> THEN <<>> ELSE ParsePlate(Argmax(votes).key)

Combined(read) ==
  LET votes == VotesOfAll(Flat(read)) IN [images |-> read, votes |-> votes, plate |-> Named(votes)]

ReadImages(images) == Combined([i \in DOMAIN images |-> Readings(images[i])])

Score(reading) == LET text == Display(reading.plate) IN VotesOf(reading.votes, text)

\* ImageResult.best: the readable detection with the most votes, then the surest, then the first.
BestOfImage(readings, image) ==
  LET better(i, k) == \/ Score(readings[i]) > Score(readings[k])
                      \/ Score(readings[i]) = Score(readings[k])
                         /\ image[i].confidence > image[k].confidence
      readable == SelectSeq([k \in DOMAIN readings |-> k], LAMBDA k : readings[k].plate # <<>>)
  IN  FoldLeft(LAMBDA best, k : IF best = 0 \/ better(k, best) THEN k ELSE best, 0, readable)

\* RunResult.agreement: the photos whose best detection is the winner.
Agreement(result, images) ==
  Cardinality({i \in DOMAIN images :
    LET best == BestOfImage(result.images[i], images[i])
    IN  best # 0 /\ result.plate # <<>> /\ result.images[i][best].plate = result.plate})

\* read_plates: the answer of the old API; its confidence is a share, <<votes, all votes>>.
Answer(result, images) ==
  [plate      |-> result.plate,
   fields     |-> FieldsOfPlate(result.plate),
   confidence |-> IF result.plate = <<>> THEN <<0, 1>>
                  ELSE <<VotesOf(result.votes, Display(result.plate)), WeightOf(result.votes)>>,
   agreeing   |-> Agreement(result, images),
   processed  |-> Len(result.images)]

ReadPlates(images) == Answer(ReadImages(images), images)

\* The names of the files of save_crops, for photos that share a stem: the places of the photo and
\* of the plate in it.
SaveCrops(result) ==
  FoldLeft(LAMBDA names, i : names \o [n \in DOMAIN result.images[i] |-> <<i, n>>],
           <<>>, [i \in DOMAIN result.images |-> i])

AsDict(result, images) ==
  [plate    |-> Display(result.plate),
   found    |-> result.plate # <<>>,
   agreeing |-> Agreement(result, images),
   plates   |-> [i \in DOMAIN images |->
                  [n \in DOMAIN images[i] |->
                    [text       |-> Display(result.images[i][n].plate),
                     confidence |-> images[i][n].confidence,
                     score      |-> Score(result.images[i][n]),
                     fields     |-> FieldsOfPlate(result.images[i][n].plate)]]]]

\* `plate read --json --save-crops`: the exit status, what is printed and the crops.  Nothing is
\* read unless all photos are there, and the weights of the detector.
Exit(status, printed, crops) == [status |-> status, printed |-> printed, crops |-> crops]

Finished(result, images) ==
  Exit(IF result.plate = <<>> THEN 1 ELSE 0, AsDict(result, images), SaveCrops(result))

CommandLine(images, present) ==
  IF present THEN Finished(ReadImages(images), images) ELSE Exit(2, <<>>, <<>>)

-----------------------------------------------------------------------------
(***************************************************************************)
(* The same votes as views.                                                *)
(***************************************************************************)
\* Mutant: a view has one vote, for its prediction.
ReadingView_OneVote(reading) ==
  [prediction |-> reading.plate,
   votes      |-> SelectSeq(reading.votes, LAMBDA v : v.key = Display(reading.plate))]

\* reading_view, without the hypotheses, which no vote looks at.
ReadingView(reading) == [prediction |-> reading.plate, votes |-> reading.votes]

\* EasyOCRRecognizer.read: the votes of a crop that the detector is sure of as a view; its
\* hypotheses are the plates that were voted for with their votes, its confidence is the share of
\* its prediction, <<votes, all votes for plates>>.
ViewOf(reading, hypotheses) ==
  [prediction |-> reading.plate,
   hypotheses |-> hypotheses,
   confidence |-> <<VotesOf(hypotheses, reading.plate), WeightOf(hypotheses)>>,
   votes      |-> reading.votes]

PlateVotes(votes) ==
  Tally(SelectSeq([i \in DOMAIN votes |-> Vote(ParsePlate(votes[i].key), votes[i].weight)],
                  LAMBDA v : v.key # <<>>))

OfReading(reading) == ViewOf(reading, PlateVotes(reading.votes))

RecognizerRead(detection) == OfReading(ReadDetection([detection EXCEPT !.confidence = 1]))

LegacyVote(views, weights) ==
  LET ballot(i)  == [k \in DOMAIN views[i].votes |->
                      Vote(views[i].votes[k].key, views[i].votes[k].weight * weights[i])]
      tally      == Tally(Flat([i \in DOMAIN views |-> ballot(i)]))
      winner     == Argmax(tally)
      prediction == ParsePlate(winner.key)
      heavier    == SortSeq(tally, LAMBDA v, w : v.weight > w.weight)
  IN  IF tally = <<>>
      THEN [prediction |-> <<>>, confidence |-> <<0, 1>>, posterior |-> <<>>, agreeing |-> 0]
      ELSE [prediction |-> prediction,
            confidence |-> <<winner.weight, WeightOf(tally)>>,
            posterior  |-> [k \in DOMAIN heavier |->
                             <<ParsePlate(heavier[k].key), heavier[k].weight>>],
            agreeing   |-> Len(SelectSeq(views, LAMBDA v : v.prediction = prediction))]

-----------------------------------------------------------------------------
\* What the baseline of the evaluation makes of the reads of a result.
Baseline(result) ==
  LET readings == Flat(result.images)
  IN  LegacyVote([n \in DOMAIN readings |-> ReadingView(readings[n])], [n \in DOMAIN readings |-> 1])

\* The view of a crop alone names a heaviest of its hypotheses, and the vote of this view is its
\* read, with the same share.
SameRead(view, alone) ==
  /\ alone.prediction = view.prediction
  /\ view.prediction = <<>> <=> view.hypotheses = <<>>
  /\ view.prediction # <<>> =>
       /\ alone.confidence = view.confidence
       /\ Argmax(view.hypotheses).weight = view.confidence[1]

SameAlone(view) == SameRead(view, LegacyVote(<<view>>, <<1>>))

\* The vote of a result, its answer and the baseline; reversed is the plate of the photos in
\* reverse order.
SameVote(result, answer, fused, reversed) ==
  LET share == answer.confidence
      ties  == \E v \in Range(result.votes) : v.key # Display(answer.plate) /\ v.weight = share[1]
  IN  /\ fused.prediction = answer.plate /\ fused.confidence = share
      /\ answer.plate = <<>> <=> \A i \in DOMAIN result.images : \A n \in DOMAIN result.images[i] :
                                   result.images[i][n].plate = <<>>
      /\ answer.plate # <<>> =>
           /\ Accepts(answer.plate)
           /\ 0 < share[1] /\ share[1] <= share[2]
           /\ \A v \in Range(result.votes) : v.weight <= share[1]
           /\ fused.posterior[1] = <<answer.plate, share[1]>> \/ ties
      /\ answer.agreeing <= answer.processed
      /\ ties \/ reversed = answer.plate

\* What is printed is the answer, the status says whether there is one (if and only if a detection
\* has votes for its own plate), and no crop overwrites another.
SamePrint(exit, answer, images) ==
  /\ exit.printed.plate = Display(answer.plate) /\ exit.printed.agreeing = answer.agreeing
  /\ exit.printed.found <=> exit.status = 0
  /\ exit.status = 0 <=> \E i \in DOMAIN images : \E n \in DOMAIN images[i] :
                           exit.printed.plates[i][n].score > 0 /\ exit.printed.plates[i][n].fields # <<>>
  /\ Len(exit.crops) = Len(Flat(images)) /\ IsInjective(exit.crops)

Reproduced(images, result, answer) ==
  /\ SameVote(result, answer, Baseline(result), ReadImages(Reverse(images)).plate)
  /\ SamePrint(CommandLine(images, TRUE), answer, images)
  /\ CommandLine(images, FALSE).status \notin {0, 1}
  /\ \A detection \in Range(Flat(images)) : SameAlone(RecognizerRead(detection))

\* The old API names the plate that most votes support over all photos, whatever their order unless
\* votes are equal; it always comes with a share of its own, at most everything.  The baseline of
\* the evaluation holds the same vote on the views of the same reads (fusion.py says that it
\* "reproduces pipeline.read_images' original vote"): without further weights it names the same
\* plate with the same share; the same holds of a crop alone and its view in the evaluation.  The
\* command line prints what the old API says, and exits with a status of its own without a file.
VoteIsReproduced(runs) ==
  \A images \in runs : Reproduced(images, ReadImages(images), ReadPlates(images))
=============================================================================
