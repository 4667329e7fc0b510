------------------------------- MODULE Parity -------------------------------
(***************************************************************************)
(* The browser's read against the service's.  The browser is given the     *)
(* automaton that PlateGrammar.as_dict exports (`plate export web`); what  *)
(* the network says of a photo is the same for both.  parity.ts makes the  *)
(* same comparison on the fixtures that `plate export fixtures` records.   *)
(***************************************************************************)
EXTENDS Reader, Spelling

CONSTANT Registered  \* FORMATS with all their separators

AsDict == [transitions |-> automaton.delta,
           accepting   |-> [s \in States |-> InOrder(automaton.accepting[s], LAMBDA m, n : m < n)]]

Browser == INSTANCE Browser WITH
  transitions <- AsDict.transitions, accepting <- AsDict.accepting,
  Separator <- Hyphen, Temporary <- CHOOSE name \in Spaced : TRUE

Words == UNION {FormatWords(f) : f \in DOMAIN formats}

\* What a fixture records of a crop: the hypotheses with their masses, the plate and its set.
CropFixture ==
  LET found  == Hypotheses(beams, TRUE)
      view   == View(1)
      single == settings.calibration.single
  IN  [hypotheses |-> view.hypotheses, of |-> view.of, prediction |-> view.prediction,
       set        |-> IF single = None THEN <<>> ELSE SetOf(found, single)]

FusedFixture(result) ==
  [f \in {"prediction", "posterior", "positions", "set"} |-> result[f]]

\* What a fixture records of the photos of a scene: their views, how many of them propose a plate,
\* the threshold for as many, and the fused read.  One is written of a scene with a plate in every
\* photo; the comparison below includes the others.
SceneFixture ==
  [views     |-> [i \in DOMAIN views |->
                   IF views[i].read
                   THEN [f \in {"weight", "hypotheses", "of", "prediction"} |-> views[i][f]] ELSE <<>>],
   proposing |-> Proposing,
   threshold |-> Threshold,
   fused     |-> FusedFixture(fused)]

SameRead(read, fixture) ==
  /\ FusedFixture(read.fused) = fixture.fused
  /\ read.fused.prediction # <<>> => read.fused.certified = fixture.threshold
  /\ Browser!ThresholdFor(settings.calibration, fixture.proposing) = fixture.threshold
  /\ read.fused.agreeing = fused.agreeing /\ read.reason = reason

SameScene(fixture) == SameRead(Browser!ReadImages(fixture.views, settings), fixture)

\* Wherever a photo is read, the outcome is the same (ADR 0003): the browser decodes every photo to
\* the hypotheses, masses and set of the service, fuses the views to the same plate, posterior,
\* positions, agreement and set, sends the same reads to review for the same reason, and splits
\* and spells the plate as the service does.
BrowserAgrees ==
  /\ photo # NoPhoto /\ frame = Len(photo) /\ Constrained =>
       Browser!DecodeBeam(photo, settings) = CropFixture
  /\ reason # "none" /\ Constrained /\ (\A i \in DOMAIN Readable : Readable[i].weight = 1) =>
       SameScene(SceneFixture)
  /\ Compiled /\ formats = Registered =>
       \A w \in Words : /\ Browser!FieldsOf(w) = FieldsOfPlate(w)
                        /\ Browser!FormatOf(w) = FormatOf(w)
                        /\ Browser!ToDisplay(w) = Display(w)
=============================================================================
