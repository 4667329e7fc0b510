----------------------------- MODULE ModelFiles -----------------------------
(***************************************************************************)
(* The files of models/ and results/ that the commands of plate share:     *)
(* crnn.pt, crnn.onnx, its metadata crnn.json, the results and the model   *)
(* registry.  A command is a process: it reads and writes one file at a    *)
(* time, others run meanwhile, and it may be killed between two steps.     *)
(* A model is a number, which stands for its bytes and for their hash.     *)
(***************************************************************************)
EXTENDS Naturals, FiniteSets

CONSTANTS
  Commands,     \* processes at once (a bound)
  MaxStarts,    \* commands started in all (a bound)
  MaxLabels     \* growths of data/ocr/train/labels.csv (a bound)

VARIABLES
  weights, onnx,  \* the models in crnn.pt and crnn.onnx, 0 for no file
  meta,           \* crnn.json
  results,        \* results/*.json
  registry,       \* registry.json: its entries and the active version
  labels,         \* how often labels.csv has grown, 0 for no labels
  learnt,         \* the labels that each model so far was fine-tuned on
  command,        \* where each process is, and what it has in memory
  started,        \* commands started so far
  clean           \* history: has no command been killed or overlapped since the
                  \* start, or since a training that calibrates ran undisturbed

files == <<weights, onnx, meta, results, registry, labels, learnt>>
vars == <<files, command, started, clean>>

Models == DOMAIN learnt

\* cal: the model whose logits the temperature and thresholds were fitted on;
\* fused: the same for the thresholds of fused reads.  0: not calibrated.
Metadata == [version : Nat, cal : Nat, fused : Nat]
Fresh(version) == [version |-> version, cal |-> 0, fused |-> 0]
NoFile == [version |-> 0, cal |-> 0, fused |-> 0]

\* A results file names the version its metadata had, and has the numbers of the
\* model that was run.
Results == {"eval", "calibration"}
NoResult == [version |-> 0, of |-> 0]

Idle == [pc |-> "idle", job |-> "none", model |-> 0, meta |-> NoFile,
         registry |-> [entries |-> {}, active |-> 0], alone |-> FALSE]

Init ==
  /\ weights = 0 /\ onnx = 0
  /\ meta = NoFile
  /\ results = [f \in Results |-> NoResult]
  /\ registry = [entries |-> {}, active |-> 0]
  /\ labels = 0
  /\ learnt = <<>>
  /\ command = [p \in Commands |-> Idle]
  /\ started = 0
  /\ clean = TRUE

Running == {p \in Commands : command[p] # Idle}

Goto(p, pc) == command' = [command EXCEPT ![p].pc = pc]

\* A command starts; one that finds another running disturbs both.
Start(p, job, pc) ==
  /\ command[p] = Idle
  /\ started < MaxStarts
  /\ started' = started + 1
  /\ command' = [q \in Commands |->
       IF q = p THEN [Idle EXCEPT !.pc = pc, !.job = job, !.alone = (Running = {})]
       ELSE IF command[q] = Idle THEN Idle ELSE [command[q] EXCEPT !.alone = FALSE]]
  /\ clean' = (clean /\ Running = {})
  /\ UNCHANGED files

TrainCrnn(p) == Start(p, "train", "train")
Calibrate(p) == onnx # 0 /\ Start(p, "calibrate", "load:calibrate")
CalibrateFused(p) == onnx # 0 /\ Start(p, "fused", "load:fused")
Evaluate(p) == onnx # 0 /\ Start(p, "evaluate", "load:evaluate")
ExportOnnx(p) == weights # 0 /\ Start(p, "export", "load:weights")
Promote(p) == onnx # 0 /\ Start(p, "promote", "find")

End(p) == command' = [command EXCEPT ![p] = Idle] /\ UNCHANGED clean

\* A killed command leaves its files as they are.
Kill(p) ==
  /\ command[p] # Idle
  /\ command' = [command EXCEPT ![p] = Idle]
  /\ clean' = FALSE
  /\ UNCHANGED <<files, started>>
-----------------------------------------------------------------------------
\* train() makes another model, fine-tuned on the labels if there are any.  No two
\* trainings give the same weights here (they would have one version).
Train(p) ==
  /\ command[p].pc = "train"
  /\ learnt' = [m \in 1 .. Cardinality(Models) + 1 |->
                  IF m \in Models THEN learnt[m] ELSE labels]
  /\ command' = [command EXCEPT ![p].pc = "save", ![p].model = Cardinality(Models) + 1]
  /\ UNCHANGED <<weights, onnx, meta, results, registry, labels, started, clean>>

SaveWeights(p) ==
  /\ command[p].pc = "save"
  /\ weights' = command[p].model
  /\ Goto(p, "export")
  /\ UNCHANGED <<onnx, meta, results, registry, labels, learnt, started, clean>>

LoadWeights(p) ==
  /\ command[p].pc = "load:weights"
  /\ command' = [command EXCEPT ![p].pc = "export", ![p].model = weights]
  /\ UNCHANGED <<files, started, clean>>

WriteOnnx(p) ==
  /\ command[p].pc = "export"
  /\ onnx' = command[p].model
  /\ Goto(p, "metadata")
  /\ UNCHANGED <<weights, meta, results, registry, labels, learnt, started, clean>>

\* Mutant: a training keeps the metadata of the model before.
NewMetadata_Keep(p) == [meta EXCEPT !.version = onnx]

\* write_metadata: a training begins fresh metadata, an export keeps what there
\* is; the version is always that of the file as it is now.
NewMetadata(p) ==
  IF command[p].job = "train" \/ meta = NoFile THEN Fresh(onnx)
  ELSE [meta EXCEPT !.version = onnx]

\* A training goes on to train_crnn.json and, unless it is told not to, to
\* calibrate; an export is done.
WriteMetadata(p) ==
  /\ command[p].pc = "metadata"
  /\ meta' = NewMetadata(p)
  /\ \/ command[p].job = "train" /\ Goto(p, "load:calibrate") /\ UNCHANGED clean
     \/ End(p)
  /\ UNCHANGED <<weights, onnx, results, registry, labels, learnt, started>>
-----------------------------------------------------------------------------
Loads == {"load:calibrate", "load:fused", "load:evaluate"}
Opens == [x \in Loads |-> CASE x = "load:calibrate" -> "open:calibrate"
                            [] x = "load:fused" -> "open:fused"
                            [] OTHER -> "open:evaluate"]
Uses == [x \in {Opens[y] : y \in Loads} |-> CASE x = "open:calibrate" -> "calibrated"
                                              [] x = "open:fused" -> "fused"
                                              [] OTHER -> "evaluated"]

\* CRNNRuntime: first the metadata, which nothing compares with the file,
LoadMetadata(p) ==
  /\ command[p].pc \in Loads
  /\ command' = [command EXCEPT ![p].pc = Opens[@], ![p].meta = IF meta = NoFile THEN Fresh(onnx) ELSE meta]
  /\ UNCHANGED <<files, started, clean>>

\* then the session, from the file as it is by then.
OpenSession(p) ==
  /\ command[p].pc \in DOMAIN Uses
  /\ command' = [command EXCEPT ![p].pc = Uses[@], ![p].model = onnx]
  /\ UNCHANGED <<files, started, clean>>

\* calibrate: what was loaded is written back with the new temperature and
\* thresholds, and with the version of the file as it is now.
WriteCalibration(p) ==
  /\ command[p].pc = "calibrated"
  /\ meta' = [command[p].meta EXCEPT !.cal = command[p].model, !.version = onnx]
  /\ command' = [command EXCEPT ![p].pc = "calibration", ![p].meta.version = onnx]
  /\ UNCHANGED <<weights, onnx, results, registry, labels, learnt, started, clean>>

CalibrationResult(p) ==
  /\ command[p].pc = "calibration"
  /\ results' = [results EXCEPT !["calibration"] =
                   [version |-> command[p].meta.version, of |-> command[p].model]]
  /\ IF command[p].job = "train" THEN Goto(p, "load:fused") /\ UNCHANGED clean ELSE End(p)
  /\ UNCHANGED <<weights, onnx, meta, registry, labels, learnt, started>>

\* calibrate_fused writes its thresholds likewise.  Its results file has nothing
\* that the registry reads.  A training that ran alone has made all files anew.
WriteFused(p) ==
  /\ command[p].pc = "fused"
  /\ meta' = [command[p].meta EXCEPT !.fused = command[p].model, !.version = onnx]
  /\ command' = [command EXCEPT ![p] = Idle]
  /\ clean' = (clean \/ (command[p].job = "train" /\ command[p].alone))
  /\ UNCHANGED <<weights, onnx, results, registry, labels, learnt, started>>

\* evaluate: the version is the metadata's, the numbers are the session's.
WriteResult(p) ==
  /\ command[p].pc = "evaluated"
  /\ results' = [results EXCEPT !["eval"] =
                   [version |-> command[p].meta.version, of |-> command[p].model]]
  /\ End(p)
  /\ UNCHANGED <<weights, onnx, meta, registry, labels, learnt, started>>
-----------------------------------------------------------------------------
\* promote: find_model hashes the file, then the registry is read, extended in
\* memory and written back.
FindModel(p) ==
  /\ command[p].pc = "find"
  /\ command' = [command EXCEPT ![p].pc = "registry", ![p].model = onnx]
  /\ UNCHANGED <<files, started, clean>>

LoadRegistry(p) ==
  /\ command[p].pc = "registry"
  /\ command' = [command EXCEPT ![p].pc = "promote", ![p].registry = registry]
  /\ UNCHANGED <<files, started, clean>>

\* The results that name this version, and the labels as they are now.
MetricsFor(version) == {f \in Results : results[f].version = version}

Entry(version) ==
  [version |-> version, fingerprint |-> labels,
   metrics |-> {[file |-> f, of |-> results[f].of] : f \in MetricsFor(version)}]

\* Mutant: an entry of the same version stays beside the new one.
Listed_Twice(entries, entry) == entries \cup {entry}

Listed(entries, entry) == {e \in entries : e.version # entry.version} \cup {entry}

WriteRegistry(p) ==
  /\ command[p].pc = "promote"
  /\ LET version == command[p].model IN
     registry' = [entries |-> Listed(command[p].registry.entries, Entry(version)),
                  active |-> version]
  /\ End(p)
  /\ UNCHANGED <<weights, onnx, meta, results, labels, learnt, started>>

\* The service exports corrections (ReviewStore).
GrowLabels ==
  /\ labels < MaxLabels
  /\ labels' = labels + 1
  /\ UNCHANGED <<weights, onnx, meta, results, registry, learnt, command, started, clean>>

Step(p) ==
  \/ Train(p) \/ SaveWeights(p) \/ LoadWeights(p) \/ WriteOnnx(p) \/ WriteMetadata(p)
  \/ LoadMetadata(p) \/ OpenSession(p)
  \/ WriteCalibration(p) \/ CalibrationResult(p) \/ WriteFused(p) \/ WriteResult(p)
  \/ FindModel(p) \/ LoadRegistry(p) \/ WriteRegistry(p)

Next ==
  \/ \E p \in Commands :
       \/ TrainCrnn(p) \/ Calibrate(p) \/ CalibrateFused(p) \/ Evaluate(p) \/ ExportOnnx(p)
       \/ Promote(p) \/ Step(p) \/ Kill(p)
  \/ GrowLabels

Spec == Init /\ [][Next]_vars
-----------------------------------------------------------------------------
\* Commands that are killed or overlap leave files of different models side by
\* side; a training that runs undisturbed, to its calibration, repairs them all:
\* from then on, between commands, the metadata, the calibration, the results and
\* the registry's metrics of the served version are those of the served model.
TrainingRepairs ==
  clean /\ Running = {} =>
    /\ weights = onnx
    /\ meta.version = onnx
    /\ meta.cal \in {0, onnx} /\ meta.fused \in {0, onnx}
    /\ \A f \in Results : results[f].version = onnx => results[f].of = onnx
    /\ \A e \in registry.entries : e.version = onnx => \A m \in e.metrics : m.of = onnx

\* Promotions that overlap may lose an entry, but never list a version twice or
\* leave a version active that is not listed.
RegistryIsConsistent ==
  /\ \A e, d \in registry.entries : e.version = d.version => e = d
  /\ registry.active # 0 => \E e \in registry.entries : e.version = registry.active

\* Commands without a lock, killed and overlapping as they may be, never spoil the registry, and
\* whatever else they spoil the next training repairs.
ModelsAgree == TrainingRepairs /\ RegistryIsConsistent

\* What the registry's module says: a version is recorded with the fingerprint of
\* the data it was trained on.  Labels that grow between training and promotion
\* break it: the fingerprint is of the labels of that moment.
FingerprintOfTraining == \A e \in registry.entries : e.fingerprint = learnt[e.version]
=============================================================================
