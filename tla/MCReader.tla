------------------------------ MODULE MCReader ------------------------------
\* Small instances of Reader for TLC: two digits, and one symbol of each other class.
EXTENDS Parity, Detector, Evaluation

Legacy == INSTANCE Legacy WITH Least <- 1, MaxMainDigits <- 2, MaxRegionDigits <- 2

MCSymbols == 1 .. 5
MCMembers == [digit |-> {1, 2}, letter |-> {3}, mark |-> {4}, sep |-> {5}]
\* The code points of 1, 2, an Arabic letter, W and the hyphen.
MCCode == <<49, 50, 1576, 87, 45>>

Of(class, min, max) == [class |-> class, min |-> min, max |-> max]
Format(name, fields) == [name |-> name, fields |-> fields]

\* The formats of the repository with shorter fields.
Standard == Format(1, <<Of("digit", 1, 2), Of("sep", 1, 1), Of("letter", 1, 1), Of("sep", 1, 1),
                        Of("digit", 1, 2)>>)
Temporary == Format(2, <<Of("digit", 1, 3), Of("sep", 1, 1), Of("mark", 2, 2)>>)
\* The format that test_grammar.py adds.
Diplomatic == Format(0, <<Of("digit", 1, 3), Of("mark", 1, 1)>>)
\* Fields that may be empty: words that split in several ways, states that merge.
Loose == Format(4, <<Of("mark", 0, 2), Of("mark", 0, 1), Of("digit", 0, 1), Of("mark", 0, 2)>>)
\* States that merge only after those they lead to have merged.
Chained == Format(6, <<Of("mark", 0, 1), Of("digit", 0, 1), Of("mark", 1, 1), Of("mark", 0, 2)>>)
\* Another name for the same words.
Alias == Format(5, Loose.fields)
Overlapping == Format(3, <<Of("digit", 1, 2), Of("mark", 0, 2)>>)
\* What is served: three frames are enough to read these.
Lettered == Format(1, <<Of("digit", 1, 2), Of("letter", 1, 1)>>)
Marked == Format(2, <<Of("digit", 1, 2), Of("mark", 2, 2)>>)

MCServed == <<Lettered, Marked>>
MCDeclarations ==
  {MCServed, <<Standard, Temporary>>, <<Standard, Temporary, Diplomatic>>, <<Chained>>,
   <<Loose, Alias>>, <<Loose, Overlapping>>, <<Overlapping, Diplomatic>>, <<>>, <<Standard, Standard>>}

Peak(c) == [d \in 0 .. 5 |-> IF d = c THEN 3 ELSE 1]
Both(b, c) == [d \in 0 .. 5 |-> IF d \in {b, c} THEN 2 ELSE 1]

MCPhotos ==
  {<<a, b, c>> : a \in {Peak(1), Both(1, 2)}, b \in {Peak(0), Both(2, 3), Peak(4)},
                 c \in {Peak(3), Both(3, 4)}}
  \cup {<<Peak(2), Peak(4), Peak(0), Peak(4)>>, <<Peak(1), Peak(4), Peak(4)>>}

\* The characters of raw texts: an Arabic digit 1, an O read for a 2, a diacritic and a letter that
\* no plate has.
MCHyphen == 5
MCSpace == 6
MCRemoved == 0
MCFolding == (7 :> 1) @@ (9 :> MCRemoved)
MCLookalikes == 8 :> 2
MCSpaced == {2}
MCRegistered == <<Standard, Temporary>>
MCTexts == UNION {[1 .. n -> {1, 3, 4, 5, 6, 8, 9, 10}] : n \in 0 .. 4}

\* Grammar!LanguageIsListed for every declaration, Spelling!TextsDenote for these texts on the
\* automaton of the registered formats: what is listed is the language, what is typed is read in it.
MCTextsDenote ==
  Compiled => LanguageIsListed /\ (formats = Registered => TextsDenote(MCTexts))

\* A side of 17 pixels leaves nothing of one that has a single pixel.
MCSizes == [width : (1 .. 13) \cup {17}, height : (1 .. 13) \cup {17}]
MCRow == [score : 1 .. 3, box : {<<0, 0, 3, 3>>, <<1, 0, 4, 3>>, <<1, 1, 5, 3>>, <<5, 2, 8, 6>>, <<3, 3, 3, 4>>}]
MCAnswers == UNION {[1 .. n -> MCRow] : n \in 0 .. 3}

\* Detector!LetterboxFits and OneCropForAPlate for photos and answers of these sizes.
MCBoxesComeBack ==
  Compiled /\ formats = Registered =>
    /\ LetterboxFits(MCSizes)
    /\ OneCropForAPlate([width |-> 9, height |-> 6], MCAnswers)

\* What an OCR engine says of a crop: readings of the fields, or lines.
Said(text, confidence) == [text |-> text, confidence |-> confidence]
MCFields ==
  {<<>>} \cup
  {[digits |-> <<Said(d, 2), Said(<<1, 2, 1>>, 9)>>, letter |-> <<Said(<<9, 3>>, 1)>>,
    region |-> <<Said(<<1>>, 0)>>] : d \in {<<1>>, <<1, 6, 1>>}}
MCLines == {<<>>, <<Said(<<1, 3, 1>>, 0), Said(<<1, 4, 4>>, 3)>>,
            <<Said(<<1, 4, 4>>, 1), Said(<<1, 3>>, 9), Said(<<1, 5, 3, 5, 2>>, 1)>>}
MCDetections == {d \in [confidence : {1, 2}, fields : MCFields, whole : MCLines] :
                   d.confidence = 2 => d.whole # <<>> /\ (d.fields # <<>> <=> Len(d.whole) = 3)}
MCSure == {d \in MCDetections : d.confidence = 2}
MCImages == {<<>>} \cup {<<d>> : d \in MCDetections}
MCRuns == {<<i>> : i \in MCImages} \cup {<<i, j>> : i \in MCImages, j \in {<<>>} \cup {<<e>> : e \in MCSure}}
          \cup {<<<<d, e>>, <<e>>>> : d \in MCDetections, e \in MCSure}

\* Legacy!VoteIsReproduced for these photos, on the automaton of the registered formats.
MCVoteIsReproduced == Compiled /\ formats = Registered => Legacy!VoteIsReproduced(MCRuns)

\* Plates of both formats, and besides them none and the plates without their separators.
MCTruths == {w \in Words : Len(w) <= 5 \/ 1 \notin Range(w)}
MCPredictions == MCTruths \cup {None} \cup {Printed(w) : w \in MCTruths}

\* Right and wrong reads of plates of both formats, with confidences at the borders of bins.
Unit(truth, prediction, confidence) ==
  [truth |-> truth, read |-> [prediction |-> prediction, confidence |-> confidence,
                              certified |-> None, set |-> <<>>]]
MCUnits ==
  LET plate == <<1, 5, 3, 5, 2>>
      other == <<1, 2, 5, 4, 4>>
  IN  {Unit(plate, plate, <<1, 1>>), Unit(plate, <<1, 5, 3, 5, 1>>, <<1, 10>>),
       Unit(plate, other, <<19, 20>>), Unit(plate, <<1, 3, 2>>, <<1, 3>>), Unit(plate, None, None),
       Unit(other, other, <<1, 10>>), Unit(other, plate, <<1, 1>>), Unit(other, None, None)}
MCPopulations == UNION {[1 .. n -> MCUnits] : n \in 1 .. 2}

\* Evaluation!ScoresAgree for all plates and SummaryAddsUp for these populations, on the automaton
\* of the registered formats: the scores of a read agree, and a population's add up.
MCScoresAddUp ==
  Compiled /\ formats = Registered =>
    /\ ScoresAgree(MCTruths, MCPredictions)
    /\ \A units \in MCPopulations : SummaryAddsUp(units)

MCWide == 1000
Settings1 == [decoder |-> "beam", width |-> MCWide, prune |-> 0, weights |-> {1},
              calibration |-> [single |-> <<3, 4>>, fused |-> [k \in {2} |-> <<1, 2>>]],
              level |-> <<1, 3>>, reviewEmptySets |-> TRUE]
NoCalibration == [single |-> None, fused |-> [k \in {2} |-> None]]
MCSettings ==
  {Settings1,
   [Settings1 EXCEPT !.width = 3, !.weights = {0, 1}, !.reviewEmptySets = FALSE],
   [Settings1 EXCEPT !.width = 2, !.prune = 1, !.calibration = NoCalibration],
   [Settings1 EXCEPT !.calibration.single = <<1, 1>>, !.prune = 1, !.level = <<0, 1>>],
   [Settings1 EXCEPT !.decoder = "unconstrained", !.width = 6],
   [Settings1 EXCEPT !.decoder = "greedy", !.weights = {0, 1}]}
=============================================================================
