------------------------------- MODULE Reader -------------------------------
(***************************************************************************)
(* From photos to a read: the grammar is compiled, a recogniser is         *)
(* configured (plate_reader/crnn/runtime.py), every photo is decoded frame *)
(* by frame into a view, the views are fused (PlatePipeline in             *)
(* plate_reader/pipeline.py) and the review policy decides whether a       *)
(* person looks at the result (Engine in services/api/engine.py).          *)
(***************************************************************************)
EXTENDS Fusion

CONSTANTS
  Served,      \* FORMATS, the declaration that GRAMMAR is compiled from
  Photos,      \* what the network may say of a photo: a sequence of rows
  Settings,    \* configurations of the recogniser, the fusion and the policy
  MaxPhotos,   \* photos of one read
  Wide         \* a beam width that cuts nothing

NoPhoto == <<>>

ASSUME PhotosAssumption ==
  /\ Served \in Declarations
  /\ \A photo \in Photos : photo \in Seq([Classes -> Nat \ {0}]) /\ photo # NoPhoto

\* The words that the frames of a photo are enough for.
ASSUME WideAssumption ==
  /\ Wide \in Nat
  /\ \A photo \in Photos : Cardinality(UNION {[1 .. n -> Symbols] : n \in 0 .. Len(photo)}) <= Wide

Fraction == Nat \X Nat

ASSUME SettingsAssumption ==
  \A s \in Settings :
    /\ s.decoder \in {"greedy", "unconstrained", "beam"}
    /\ s.width \in Nat /\ s.prune \in Nat /\ s.weights \subseteq Nat
    /\ s.reviewEmptySets \in BOOLEAN
    /\ s.calibration.single \in Fraction \cup {None}
    /\ DOMAIN s.calibration.fused \subseteq Nat
    /\ \A k \in DOMAIN s.calibration.fused : s.calibration.fused[k] \in Fraction \cup {None}

VARIABLES
  settings,  \* the configuration, NoSettings before there is one
  photo,     \* the rows of the photo that is being decoded
  frame,     \* its frames decoded so far
  beams,     \* the beams after them
  views,     \* the views read so far
  fused,     \* the fused read
  reason     \* why it is reviewed, "" if it is not, "none" before the end

readVars == <<settings, photo, frame, beams, views, fused, reason>>
vars == <<compileVars, readVars>>

NoSettings == [decoder |-> "none"]

Constrained == settings.decoder = "beam"

-----------------------------------------------------------------------------
Init ==
  /\ CompileInit
  /\ settings = NoSettings
  /\ photo = NoPhoto /\ frame = 0 /\ beams = <<>>
  /\ views = <<>> /\ fused = NoFused /\ reason = "none"

\* The service is built on the compiled GRAMMAR.
Configure ==
  /\ pc = "compiled" /\ formats = Served /\ settings = NoSettings
  /\ settings' \in Settings
  /\ UNCHANGED <<compileVars, photo, frame, beams, views, fused, reason>>

Reading == settings # NoSettings /\ reason = "none"

Idle == Reading /\ photo = NoPhoto /\ Len(views) < MaxPhotos

\* A photo without a plate is a view without a read: it is reported, not fused.
NoDetection == [read |-> FALSE, hypotheses |-> <<>>, of |-> 1, weight |-> 0, prediction |-> None]

Undetected ==
  /\ Idle
  /\ views' = Append(views, NoDetection)
  /\ UNCHANGED <<compileVars, settings, photo, frame, beams, fused, reason>>

Detect ==
  /\ Idle
  /\ photo' \in Photos
  /\ frame' = 0 /\ beams' = FirstBeams
  /\ UNCHANGED <<compileVars, settings, views, fused, reason>>

\* One turn of the loop of prefix_beam_search.
DecodeFrame ==
  /\ photo # NoPhoto /\ settings.decoder # "greedy" /\ frame < Len(photo)
  /\ frame' = frame + 1
  /\ beams' = NextBeams(beams, photo[frame'], Constrained, settings.width, settings.prune)
  /\ UNCHANGED <<compileVars, settings, photo, views, fused, reason>>

\* All the mass of a photo.
Everything ==
  Product([t \in DOMAIN photo |-> photo[t][BLANK] + Sum([c \in Symbols |-> photo[t][c]])])

Plates(hypotheses) ==
  Picked(hypotheses, {i \in DOMAIN hypotheses : Accepts(hypotheses[i].tokens)})

\* CRNNRuntime.decode: the path of the greedy decoder, the plates among the
\* prefixes of the unconstrained one, the constrained beam made a distribution.
View(weight) ==
  LET found  == Hypotheses(beams, Constrained)
      path   == Greedy(photo)
      greedy == settings.decoder = "greedy"
  IN  [read       |-> TRUE,
       hypotheses |-> IF Constrained THEN Picked(found, {i \in DOMAIN found : found[i].mass > 0})
                      ELSE Plates(IF greedy THEN <<path>> ELSE found),
       of         |-> IF Constrained THEN MassOf(found) ELSE Everything,
       weight     |-> weight,
       prediction |-> IF greedy THEN path.tokens
                      ELSE IF found = <<>> THEN None ELSE found[1].tokens]

Recognise ==
  /\ photo # NoPhoto /\ (settings.decoder = "greedy" \/ frame = Len(photo))
  /\ \E weight \in settings.weights : views' = Append(views, View(weight))
  /\ photo' = NoPhoto /\ frame' = 0 /\ beams' = <<>>
  /\ UNCHANGED <<compileVars, settings, fused, reason>>

Readable == Picked(views, {i \in DOMAIN views : views[i].read})

\* Only the views that proposed a plate count for the threshold.
Proposing == Cardinality({i \in DOMAIN Readable : Readable[i].hypotheses # <<>>})

Threshold == IF Constrained THEN ThresholdFor(settings.calibration, Proposing) ELSE None

Fuse ==
  /\ Reading /\ photo = NoPhoto /\ views # <<>>
  /\ fused' = ProbabilisticFusion(Readable, Threshold)
  /\ reason' = ReviewReason(fused', settings.level, Readable # <<>>, settings.reviewEmptySets)
  /\ UNCHANGED <<compileVars, settings, photo, frame, beams, views>>

Next ==
  \/ CompileNext /\ UNCHANGED readVars
  \/ Configure \/ Undetected \/ Detect \/ DecodeFrame \/ Recognise \/ Fuse

Spec == Init /\ [][Next]_vars

-----------------------------------------------------------------------------
(***************************************************************************)
(* Properties.                                                             *)
(***************************************************************************)
Compiled == pc = "compiled" /\ settings = NoSettings

\* What is compiled for the service is right: it recognises the declared formats and is minimal.
\* Reading does not change what was compiled, so it is evaluated once.
GrammarIsRight == Compiled => AutomatonIsRight

Decoding == photo # NoPhoto /\ frame > 0

Sharp == settings.prune = 0 /\ settings.width = Wide

\* A prefix's mass never exceeds what the forward algorithm gives it on the frames so far, and is
\* equal to it when nothing is cut; every prefix is in one beam, whose state is the automaton's
\* state after it (masses that were split, counted twice or given to the wrong prefix).
BeamsAreExact ==
  Decoding => \A i \in DOMAIN beams :
    LET b     == beams[i]
        exact == Likelihood(SubSeq(photo, 1, frame), b.prefix)
    IN  /\ Total(b) <= exact /\ (Sharp => Total(b) = exact)
        /\ Constrained => b.state = RunOf(b.prefix) /\ b.state # DEAD
        /\ \A k \in DOMAIN beams : beams[k].prefix = b.prefix => k = i

\* The forward algorithm is exact: it gives any tokens the mass of all paths that collapse to them.
\* The constrained search finds every plate when nothing is cut: pruning by the automaton never
\* loses a prefix that could still become one (only nothing itself is never returned).
SearchIsComplete ==
  Decoding /\ frame = Len(photo) =>
    LET plates == {w \in UNION {FormatWords(f) : f \in DOMAIN formats} : Len(w) <= frame}
        masses == [w \in plates |-> Likelihood(photo, w)]
    IN  /\ \A w \in plates : masses[w] = AlignedMass(photo, w)
        /\ Sharp => LET found == Hypotheses(beams, Constrained)
                    IN  \A w \in plates \ {<<>>} : masses[w] > 0 =>
                          \E i \in DOMAIN found : found[i] = [tokens |-> w, mass |-> masses[w]]

Permutations1(n) == {p \in [1 .. n -> 1 .. n] : IsInjective(p)}

\* The fused read does not depend on the order of the photos: neither the plate, nor the posterior,
\* the positions and the agreement (ties and repeated candidates included).
OrderOfViewsIsIrrelevant ==
  reason # "none" =>
    \A p \in Permutations1(Len(Readable)) :
      ProbabilisticFusion([i \in DOMAIN p |-> Readable[p[i]]], Threshold) = fused

\* What nobody reviews is certain: it is a plate, at least as probable as the level asks; if there
\* is a threshold its set holds this plate and no other (unless empty sets are let through).
UnreviewedIsCertain ==
  reason = "" /\ Readable # <<>> =>
    /\ Accepts(fused.prediction)
    /\ AtMost(settings.level, Confidence(fused))
    /\ Threshold # None => \/ fused.set = <<fused.prediction>>
                           \/ fused.set = <<>> /\ ~settings.reviewEmptySets

\* An alignment names every index of both words once, in order, and costs the edit distance;
\* the distance is the least number of edits: it is 0 for equal words and one edit of a word
\* changes it by at most one.
AlignmentsAreMinimal ==
  Compiled =>
    \A v, w \in UNION {FormatWords(f) : f \in DOMAIN formats} :
      LET columns  == Align(v, w)
          distance == Levenshtein(v, w)
          indices(side) == Picked([i \in DOMAIN columns |-> columns[i][side]],
                                  {i \in DOMAIN columns : columns[i][side] # 0})
          changes  == {i \in DOMAIN columns :
                         \/ columns[i][1] = 0 \/ columns[i][2] = 0
                         \/ v[columns[i][1]] # w[columns[i][2]]}
          edited(i) == {RemoveAt(w, i)} \cup {ReplaceAt(w, i, c) : c \in Symbols}
      IN  /\ indices(1) = [i \in DOMAIN v |-> i] /\ indices(2) = [i \in DOMAIN w |-> i]
          /\ Cardinality(changes) = distance
          /\ v = w => distance = 0
          /\ \A i \in DOMAIN w : \A u \in edited(i) : Levenshtein(v, u) - distance \in -1 .. 1

\* Split conformal prediction: of n + 1 exchangeable scores, the threshold from the n others holds
\* the left-out one in at least a share 1 - alpha of the cases.
ThresholdsCover ==
  Compiled =>
    \A n \in 0 .. 4 : \A scores \in [1 .. n + 1 -> 0 .. 3] : \A alpha \in {<<1, 10>>, <<1, 4>>, <<1, 2>>} :
      LET covered == {i \in 1 .. n + 1 : scores[i] <= Quantile(RemoveAt(scores, i), 3, alpha)}
      IN  Cardinality(covered) * alpha[2] >= (n + 1) * (alpha[2] - alpha[1])

\* The statement of crnn/calibrate.py that what is reported is a distribution over the beam's
\* plates: a photo whose plate is named has a hypothesis with mass.
NamedPlateHasMass ==
  \A i \in DOMAIN views :
    views[i].read /\ Constrained /\ views[i].prediction # None => views[i].hypotheses # <<>>
=============================================================================
