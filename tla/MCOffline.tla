----------------------------- MODULE MCOffline -----------------------------
(***************************************************************************)
(* Five parts that run without a client and share no state: the tracker    *)
(* (Tracker), the files of the models (ModelFiles), a training (Training), *)
(* a set of crops with the evaluations that read it (CropSets) and a       *)
(* folder in the layout of data/ (DataFolder).  One instance checks them   *)
(* side by side: the one that `part` names moves, the others stay as they  *)
(* began.                                                                  *)
(***************************************************************************)
EXTENDS Tracker, TLC

CONSTANTS
  Commands, MaxStarts, MaxLabels,                        \* ModelFiles
  Jobs, Epochs, EpochSize, TuneEpochs, Scores, Trials,   \* Training
  Seeds, Size, Versions, Evaluations, MaxRuns, None,     \* CropSets
  Plated, RowLists, Broken, Damaged, PillowRejects, OpenCvRejects   \* DataFolder

VARIABLES
  part,
  weights, onnx, meta, results, registry, labels, learnt, command, started, clean,
  job, phase, trial, network, history, best, kept, checkpoint, drawn, trials,
  crops, labelRows, manifest, generator, cache, torn, evaluation, reports, starts, finished,
  photos, boxes, config, rows, setManifest, writer, meter, measurements, runs, complete

ModelFiles == INSTANCE ModelFiles
Training == INSTANCE Training
CropSets == INSTANCE CropSets
DataFolder == INSTANCE DataFolder

\* None is neither a set nor a manifest.
Rows == [CropSets!Indices -> CropSets!Samples \cup {None}]
Manifest == [set : CropSets!Set, digest : Rows \X Rows]

ASSUME SetsAssumption ==
  /\ Size \in Nat
  /\ None \notin CropSets!Set \cup Manifest

\* A missing, broken or damaged file is neither a scene nor a set of rows.
ASSUME FolderAssumption ==
  /\ None \notin Damaged \cup {Broken}
  /\ ({None, Broken} \cup Damaged) \cap DataFolder!Scenes = {}
  /\ PillowRejects \subseteq Damaged /\ OpenCvRejects \subseteq Damaged
  /\ \A set \in DataFolder!Sets : DataFolder!RowsOf(set) \notin {None, Broken}

\* A score is a count of crops that were read right.
ASSUME TrainingAssumption ==
  /\ Epochs \in Nat /\ EpochSize \in Nat /\ TuneEpochs \in Nat
  /\ Scores \subseteq Nat

trackerVars == vars
fileVars == <<weights, onnx, meta, results, registry, labels, learnt, command, started, clean>>
trainingVars == <<job, phase, trial, network, history, best, kept, checkpoint, drawn, trials>>
cropVars == <<crops, labelRows, manifest, generator, cache, torn, evaluation, reports, starts, finished>>
dataVars == <<photos, boxes, config, rows, setManifest, writer, meter, measurements, runs, complete>>

MCInit ==
  /\ part \in {"tracker", "files", "training", "crops", "data"}
  /\ Init /\ ModelFiles!Init /\ Training!Init /\ CropSets!Init
  /\ DataFolder!Init
  \* Only the part that moves is tried in all its initial states.
  /\ part # "training" => job = CHOOSE j \in Jobs : TRUE

MCNext ==
  /\ UNCHANGED part
  /\ \/ part = "tracker" /\ Next /\ UNCHANGED <<fileVars, trainingVars, cropVars, dataVars>>
     \/ part = "files" /\ ModelFiles!Next /\ UNCHANGED <<trackerVars, trainingVars, cropVars, dataVars>>
     \/ part = "training" /\ Training!Next /\ UNCHANGED <<trackerVars, fileVars, cropVars, dataVars>>
     \/ part = "crops" /\ CropSets!Next /\ UNCHANGED <<trackerVars, fileVars, trainingVars, dataVars>>
     \/ part = "data" /\ DataFolder!Next
        /\ UNCHANGED <<trackerVars, fileVars, trainingVars, cropVars>>

MCSpec == MCInit /\ [][MCNext]_<<part, trackerVars, fileVars, trainingVars, cropVars, dataVars>>

\* Processes are alike.
MCSymmetry == Permutations(Commands) \cup Permutations(Evaluations)

\* Boxes of width 3 along a line: neighbours overlap by 2, the next by 1.
MCBoxes == 0 .. 2
MCOverlap == [p \in MCBoxes \X MCBoxes |->
  LET apart == IF p[1] > p[2] THEN p[1] - p[2] ELSE p[2] - p[1]
  IN  IF apart > 3 THEN 0 ELSE 3 - apart]

\* Two seeds, two scenes each; the second scene of the first seed shows no plate.
MCPlated == {[seed |-> 1, index |-> 1], [seed |-> 2, index |-> 1], [seed |-> 2, index |-> 2]}
MCRows == [split : {"train", "val"}, index : {1}, plate : {[seed |-> 1, index |-> 1], Broken},
           box : {"whole", "none", "some", "words", "outside"}]
MCRowLists == {None, Broken, {}} \cup {{row} : row \in MCRows}
-----------------------------------------------------------------------------
\* A disturbed model directory is repaired by a training, and the registry stays
\* consistent: stated in ModelFiles.
TrainingRepairs == ModelFiles!TrainingRepairs
RegistryIsConsistent == ModelFiles!RegistryIsConsistent
ModelsAgree == ModelFiles!ModelsAgree

\* train() returns the best of its epochs: stated in Training.
ReturnsTheBest == Training!ReturnsTheBest

\* Sets of crops are what they say and results can be reproduced: stated in CropSets.
FinishedSetFits == CropSets!FinishedSetFits
ResultsAreReproducible == CropSets!ResultsAreReproducible

\* A set of scenes stands in for data/, what validates can be evaluated, a measurement says
\* what it measured: stated in DataFolder.
ScenesStandIn == DataFolder!ScenesStandIn
ValidIsUsable == DataFolder!ValidIsUsable
FolderIsUsable == DataFolder!FolderIsUsable
MeasurementsAreNamed == DataFolder!MeasurementsAreNamed
=============================================================================
