--------------------------- MODULE OfflineProofs ---------------------------
(***************************************************************************)
(* What is proved of the commands that make a model: of the files they     *)
(* share (ModelFiles), for any number of commands that overlap and are     *)
(* killed, of a training (Training), whatever its epochs are, and of the   *)
(* sets of crops with the evaluations that read them (CropSets), for sets  *)
(* of any size, any number of evaluations and any models; of the tracking  *)
(* of plates in a video (Tracker); and of a folder in the layout of data/  *)
(* (DataFolder), for sets of any size.                                     *)
(* A variable of MCOffline is the component's, and the theorems are about  *)
(* the component's own specification.                                      *)
(***************************************************************************)
EXTENDS MCOffline, Integers, SequenceTheorems, FiniteSetTheorems, TLAPS

Count == Cardinality(ModelFiles!Models)

ResultFile == [version : Nat, of : Nat]
RegistryEntry == [version : Nat, fingerprint : Nat,
                  metrics : SUBSET [file : ModelFiles!Results, of : Nat]]
Registry == [entries : SUBSET RegistryEntry, active : Nat]
Steps == {"idle", "train", "save", "load:weights", "export", "metadata", "load:calibrate",
          "load:fused", "load:evaluate", "open:calibrate", "open:fused", "open:evaluate",
          "calibrated", "fused", "evaluated", "calibration", "find", "registry", "promote"}
Command == [pc : Steps, job : {"none", "train", "calibrate", "fused", "evaluate", "export", "promote"},
            model : Nat, meta : ModelFiles!Metadata, registry : Registry, alone : BOOLEAN]

FileTypes ==
  /\ weights \in Nat /\ onnx \in Nat /\ labels \in Nat /\ clean \in BOOLEAN
  /\ meta \in ModelFiles!Metadata
  /\ results \in [ModelFiles!Results -> ResultFile]
  /\ registry \in Registry
  /\ command \in [Commands -> Command]
  /\ Count \in Nat /\ ModelFiles!Models = 1 .. Count

\* No file and no command knows a model that was not made yet.
Below(r, n) == \A e \in r.entries : e.version <= n
Known ==
  /\ weights <= Count /\ onnx <= Count /\ meta.version <= Count
  /\ \A f \in ModelFiles!Results : results[f].version <= Count
  /\ Below(registry, Count)
  /\ \A p \in Commands : /\ command[p].model <= Count /\ command[p].meta.version <= Count
                         /\ Below(command[p].registry, Count)

ListedOnce(r) ==
  /\ \A e, d \in r.entries : e.version = d.version => e = d
  /\ r.active # 0 => \E e \in r.entries : e.version = r.active
Registries == ListedOnce(registry) /\ \A p \in Commands : ListedOnce(command[p].registry)

\* Who runs alone, and that everyone does while nothing has been disturbed.
Alone ==
  /\ \A p \in Commands : command[p].alone => command[p].pc # "idle" /\ ModelFiles!Running = {p}
  /\ clean => \A p \in ModelFiles!Running : command[p].alone

MetaFits(m) == m.version = onnx /\ m.cal \in {0, onnx} /\ m.fused \in {0, onnx}
ResultsFit ==
  /\ \A f \in ModelFiles!Results : results[f].version = onnx => results[f].of = onnx
  /\ \A e \in registry.entries : e.version = onnx => \A m \in e.metrics : m.of = onnx
Repaired == weights = onnx /\ MetaFits(meta) /\ ResultsFit

\* No results and no entry are of this model.
Unnamed(model) ==
  /\ \A f \in ModelFiles!Results : results[f].version # model
  /\ \A e \in registry.entries : e.version # model

\* What a command that runs alone has done so far, if it can be relied on.
Making == {"train", "save", "export", "metadata"}
InStep(r) ==
  /\ r.pc \in {"train", "save"} => r.job = "train"
  /\ r.pc \in {"export", "metadata"} => r.job \in {"train", "export"}
  /\ r.pc = "load:weights" => r.job = "export"
  /\ r.job = "train" /\ r.pc \in Making \ {"train"} =>
       /\ Unnamed(r.model)
       /\ r.pc \in {"export", "metadata"} => weights = r.model
       /\ r.pc = "metadata" => onnx = r.model
  /\ r.job # "train" \/ r.pc \notin Making => Repaired
  /\ r.job = "export" /\ r.pc = "export" => r.model = weights
  /\ r.pc \in {"open:calibrate", "open:fused", "open:evaluate", "calibrated", "fused", "evaluated"} => MetaFits(r.meta)
  /\ r.pc \in {"calibrated", "fused", "evaluated", "calibration", "registry", "promote"} => r.model = onnx
  /\ r.pc = "calibration" => r.meta.version = onnx
  /\ r.pc = "promote" => r.registry = registry

Trusted ==
  /\ clean /\ ModelFiles!Running = {} => Repaired
  /\ \A p \in Commands : command[p].alone /\ (clean \/ command[p].job = "train") => InStep(command[p])

FInv == FileTypes /\ Known /\ Registries /\ Alone /\ Trusted
-----------------------------------------------------------------------------
\* The names that the steps of a command are given by.
LEMMA Names ==
  /\ ModelFiles!Opens["load:calibrate"] = "open:calibrate"
  /\ ModelFiles!Opens["load:fused"] = "open:fused"
  /\ ModelFiles!Opens["load:evaluate"] = "open:evaluate"
  /\ DOMAIN ModelFiles!Uses = {"open:calibrate", "open:fused", "open:evaluate"}
  /\ ModelFiles!Uses["open:calibrate"] = "calibrated"
  /\ ModelFiles!Uses["open:fused"] = "fused"
  /\ ModelFiles!Uses["open:evaluate"] = "evaluated"
<1>1. /\ ModelFiles!Opens["load:calibrate"] = "open:calibrate"
      /\ ModelFiles!Opens["load:fused"] = "open:fused"
      /\ ModelFiles!Opens["load:evaluate"] = "open:evaluate"
  BY DEF ModelFiles!Opens, ModelFiles!Loads
<1>2. {ModelFiles!Opens[y] : y \in ModelFiles!Loads} = {"open:calibrate", "open:fused", "open:evaluate"}
  BY <1>1 DEF ModelFiles!Loads
<1>. QED  BY <1>1, <1>2 DEF ModelFiles!Uses

LEMMA IdleCommand ==
  /\ ModelFiles!Idle \in Command
  /\ ModelFiles!Idle.pc = "idle" /\ ModelFiles!Idle.job = "none" /\ ModelFiles!Idle.model = 0
  /\ ModelFiles!Idle.meta = ModelFiles!NoFile /\ ModelFiles!Idle.alone = FALSE
  /\ ModelFiles!Idle.registry = [entries |-> {}, active |-> 0]
BY DEF ModelFiles!Idle, Command, Steps, Registry, ModelFiles!Metadata, ModelFiles!NoFile

\* A command that has got somewhere is running; one that runs alone is the only one.
LEMMA OnlyItself ==
  ASSUME FInv, NEW p \in Commands, command[p].pc # "idle"
  PROVE  /\ p \in ModelFiles!Running
         /\ \A q \in Commands : command[q].alone => q = p
         /\ clean => command[p].alone
         /\ command[p].alone => ModelFiles!Running = {p}
<1>1. p \in ModelFiles!Running
  BY IdleCommand DEF ModelFiles!Running
<1>. QED  BY <1>1 DEF FInv, Alone

\* A command goes on to another step: what is left to show is that it can still be
\* relied on.
LEMMA GoesOn ==
  ASSUME FInv, NEW p \in Commands, command[p].pc # "idle",
         command' \in [Commands -> Command],
         \A q \in Commands \ {p} : command'[q] = command[q],
         command'[p].pc # "idle", command'[p].alone = command[p].alone,
         command'[p].job = command[p].job, clean' = clean,
         command[p].alone /\ (clean \/ command[p].job = "train") => InStep(command[p])'
  PROVE  Alone' /\ Trusted'
<1>1. /\ p \in ModelFiles!Running
      /\ \A q \in Commands : command[q].alone => q = p
      /\ clean => command[p].alone
      /\ command[p].alone => ModelFiles!Running = {p}
  BY OnlyItself
<1>2. p \in ModelFiles!Running'
  BY IdleCommand DEF ModelFiles!Running
<1>3. \A q \in Commands \ {p} : q \in ModelFiles!Running' <=> q \in ModelFiles!Running
  BY DEF ModelFiles!Running
<1>4. ModelFiles!Running' = ModelFiles!Running
  BY <1>1, <1>2, <1>3 DEF ModelFiles!Running
<1>5. \A q \in Commands : command'[q].alone => q = p
  BY <1>1
<1>6. Alone'
  BY <1>1, <1>4, <1>5 DEF Alone
<1>7. Trusted'
  BY <1>2, <1>5 DEF Trusted
<1>. QED  BY <1>6, <1>7

\* A command ends, or is killed.
LEMMA Ends ==
  ASSUME FInv, NEW p \in Commands, p \in ModelFiles!Running,
         command' = [command EXCEPT ![p] = ModelFiles!Idle],
         clean' => clean \/ command[p].alone,
         clean' => Repaired'
  PROVE  Alone' /\ Trusted'
<1>1. /\ command'[p] = ModelFiles!Idle
      /\ \A q \in Commands \ {p} : command'[q] = command[q]
  BY DEF FInv, FileTypes
<1>2. \A q \in Commands : command[q].alone => q = p
  BY DEF FInv, Alone
<1>3. \A q \in Commands : ~command'[q].alone
  BY <1>1, <1>2, IdleCommand
<1>4. clean' => ModelFiles!Running = {p}
  BY DEF FInv, Alone
<1>5. clean' => ModelFiles!Running' = {}
  BY <1>1, <1>4 DEF ModelFiles!Running
<1>6. Alone'
  BY <1>3, <1>5 DEF Alone
<1>7. Trusted'
  BY <1>3 DEF Trusted
<1>. QED  BY <1>6, <1>7

\* The model, the metadata and the registry that a command has in memory.
LEMMA InMemoryTyped ==
  ASSUME FInv, NEW p \in Commands
  PROVE  /\ command[p] \in Command /\ command[p].model \in Nat /\ command[p].model <= Count
         /\ command[p].meta \in ModelFiles!Metadata /\ command[p].meta.version <= Count
         /\ command[p].registry \in Registry /\ Below(command[p].registry, Count)
         /\ ListedOnce(command[p].registry)
BY DEF FInv, FileTypes, Known, Registries, Command

LEMMA SameCardinality == \A S : ModelFiles!Cardinality(S) = Cardinality(S)
BY DEF ModelFiles!Cardinality, Cardinality

LEMMA TrainHolds ==
  ASSUME FInv, NEW p \in Commands, ModelFiles!Train(p)
  PROVE  FInv'
<1>. DEFINE n == Count + 1
            r == [command[p] EXCEPT !.pc = "save", !.model = n]
<1>0. Count \in Nat /\ n \in Nat
  BY DEF FInv, FileTypes
<1>1. /\ command[p].pc = "train"
      /\ weights' = weights /\ onnx' = onnx /\ meta' = meta /\ results' = results
      /\ registry' = registry /\ labels' = labels /\ clean' = clean
      /\ ModelFiles!Models' = 1 .. n /\ command' = [command EXCEPT ![p] = r]
  <2>1. ModelFiles!Models' = 1 .. n
    BY SameCardinality DEF ModelFiles!Train, Count, ModelFiles!Models
  <2>2. command' = [command EXCEPT ![p] = r]
    BY SameCardinality DEF ModelFiles!Train, Count, FInv, FileTypes
  <2>. QED  BY <2>1, <2>2 DEF ModelFiles!Train
<1>2. Count' = n
  BY <1>0, <1>1, FS_Interval DEF Count
<1>. HIDE DEF n
<1>3. /\ r \in Command /\ r.pc = "save" /\ r.job = command[p].job /\ r.alone = command[p].alone
      /\ r.model = n /\ r.meta = command[p].meta /\ r.registry = command[p].registry
  BY InMemoryTyped, <1>0 DEF Command, Steps
<1>. HIDE DEF r
<1>4. /\ command' \in [Commands -> Command] /\ command'[p] = r
      /\ \A q \in Commands \ {p} : command'[q] = command[q]
  BY <1>1, <1>3 DEF FInv, FileTypes
<1>5. FileTypes'
  BY <1>0, <1>1, <1>2, <1>4 DEF FInv, FileTypes
<1>6. Known'
  <2>1. \A k \in Nat : k <= Count => k <= n
    BY <1>0 DEF n
  <2>2. \A g \in Registry : Below(g, Count) => Below(g, n)
    BY <2>1 DEF Below, Registry, RegistryEntry
  <2>3. /\ registry \in Registry /\ weights \in Nat /\ onnx \in Nat /\ meta.version \in Nat
        /\ \A f \in ModelFiles!Results : results[f].version \in Nat
    BY DEF FInv, FileTypes, ResultFile, ModelFiles!Metadata
  <2>4. weights' <= Count' /\ onnx' <= Count' /\ meta'.version <= Count' /\ Below(registry', Count')
        /\ \A f \in ModelFiles!Results : results'[f].version <= Count'
    BY <1>1, <1>2, <2>1, <2>2, <2>3 DEF FInv, Known
  <2>5. ASSUME NEW q \in Commands
        PROVE  command'[q].model <= Count' /\ command'[q].meta.version <= Count' /\ Below(command'[q].registry, Count')
    <3>1. /\ command[q].meta.version <= n /\ Below(command[q].registry, n)
          /\ command[q].model <= n
      BY InMemoryTyped, <2>1, <2>2 DEF ModelFiles!Metadata
    <3>2. CASE q = p
      BY <1>2, <1>3, <1>4, <3>1, <3>2, <1>0
    <3>3. CASE q # p
      BY <1>2, <1>4, <3>1, <3>3
    <3>. QED  BY <3>2, <3>3
  <2>. QED  BY <2>4, <2>5 DEF Known
<1>7. Registries'
  BY <1>1, <1>3, <1>4 DEF FInv, Registries
<1>8. ASSUME command[p].alone /\ (clean \/ command[p].job = "train")
      PROVE  InStep(command[p])'
  <2>1. command[p].job = "train"
    BY <1>1, <1>8 DEF FInv, Trusted, InStep
  <2>2. \A k \in Nat : k <= Count => k # n
    BY <1>0 DEF n
  <2>3. /\ \A f \in ModelFiles!Results : results'[f].version # n
        /\ \A e \in registry'.entries : e.version # n
    BY <1>1, <2>2 DEF FInv, FileTypes, Known, Below, ResultFile, Registry, RegistryEntry
  <2>4. /\ command'[p].pc = "save" /\ command'[p].job = "train" /\ command'[p].model = n
    BY <1>3, <1>4, <2>1
  <2>. QED  BY <2>3, <2>4 DEF InStep, Making, Unnamed
<1>9. Alone' /\ Trusted'
  BY GoesOn, <1>1, <1>3, <1>4, <1>8
<1>. QED  BY <1>5, <1>6, <1>7, <1>9 DEF FInv

LEMMA SaveWeightsHolds ==
  ASSUME FInv, NEW p \in Commands, ModelFiles!SaveWeights(p)
  PROVE  FInv'
<1>. DEFINE r == [command[p] EXCEPT !.pc = "export"]
<1>1. /\ command[p].pc = "save" /\ command' = [command EXCEPT ![p] = r]
      /\ weights' = command[p].model /\ onnx' = onnx /\ meta' = meta /\ results' = results
      /\ registry' = registry /\ labels' = labels /\ clean' = clean /\ learnt' = learnt
  BY DEF ModelFiles!SaveWeights, ModelFiles!Goto
<1>2. ModelFiles!Models' = ModelFiles!Models /\ Count' = Count
  BY <1>1 DEF Count, ModelFiles!Models
<1>3. /\ r \in Command /\ r.pc = "export" /\ r.job = command[p].job /\ r.alone = command[p].alone
      /\ r.model = command[p].model /\ r.meta = command[p].meta /\ r.registry = command[p].registry
  BY InMemoryTyped DEF Command, Steps
<1>. HIDE DEF r
<1>4. /\ command' \in [Commands -> Command] /\ command'[p] = r
      /\ \A q \in Commands \ {p} : command'[q] = command[q]
  BY <1>1, <1>3 DEF FInv, FileTypes
<1>5. FileTypes'
  BY <1>1, <1>2, <1>4, InMemoryTyped DEF FInv, FileTypes
<1>6. Known'
  BY <1>1, <1>2, <1>3, <1>4, InMemoryTyped DEF FInv, Known
<1>7. Registries'
  BY <1>1, <1>3, <1>4 DEF FInv, Registries
<1>8. ASSUME command[p].alone /\ (clean \/ command[p].job = "train")
      PROVE  InStep(command[p])'
  BY <1>1, <1>3, <1>4, <1>8 DEF FInv, Trusted, InStep, Making, Unnamed
<1>9. Alone' /\ Trusted'
  BY GoesOn, <1>1, <1>3, <1>4, <1>8
<1>. QED  BY <1>5, <1>6, <1>7, <1>9 DEF FInv

LEMMA LoadWeightsHolds ==
  ASSUME FInv, NEW p \in Commands, ModelFiles!LoadWeights(p)
  PROVE  FInv'
<1>. DEFINE r == [command[p] EXCEPT !.pc = "export", !.model = weights]
<1>1. /\ command[p].pc = "load:weights"
      /\ command' = [command EXCEPT ![p] = r]
      /\ weights' = weights /\ onnx' = onnx /\ meta' = meta /\ results' = results
      /\ registry' = registry /\ labels' = labels /\ learnt' = learnt /\ clean' = clean
  <2>1. command \in [Commands -> Command]
    BY DEF FInv, FileTypes
  <2>2. command' = [command EXCEPT ![p] = r]
    BY <2>1 DEF ModelFiles!LoadWeights
  <2>. QED  BY <2>2 DEF ModelFiles!LoadWeights, ModelFiles!files
<1>2. ModelFiles!Models' = ModelFiles!Models /\ Count' = Count
  BY <1>1 DEF Count, ModelFiles!Models
<1>3. /\ r \in Command /\ r.job = command[p].job /\ r.alone = command[p].alone
      /\ r.pc = "export" /\ r.model = weights /\ r.meta = command[p].meta
      /\ r.registry = command[p].registry
  BY InMemoryTyped, <1>1 DEF Command, Steps, FInv, FileTypes
<1>. HIDE DEF r
<1>4. /\ command' \in [Commands -> Command] /\ command'[p] = r
      /\ \A q \in Commands \ {p} : command'[q] = command[q]
  BY <1>1, <1>3 DEF FInv, FileTypes
<1>5. FileTypes'
  BY <1>1, <1>2, <1>4, InMemoryTyped DEF FInv, FileTypes
<1>6. Known'
  BY <1>1, <1>2, <1>3, <1>4, InMemoryTyped DEF FInv, Known
<1>7. Registries'
  BY <1>1, <1>3, <1>4 DEF FInv, Registries
<1>8. ASSUME command[p].alone /\ (clean \/ command[p].job = "train")
      PROVE  InStep(command[p])'
  BY <1>1, <1>3, <1>4, <1>8 DEF FInv, Trusted, InStep, Making, Repaired, ResultsFit, MetaFits
<1>9. Alone' /\ Trusted'
  BY GoesOn, <1>1, <1>3, <1>4, <1>8
<1>. QED  BY <1>5, <1>6, <1>7, <1>9 DEF FInv

LEMMA WriteOnnxHolds ==
  ASSUME FInv, NEW p \in Commands, ModelFiles!WriteOnnx(p)
  PROVE  FInv'
<1>. DEFINE r == [command[p] EXCEPT !.pc = "metadata"]
<1>1. /\ command[p].pc = "export"
      /\ command' = [command EXCEPT ![p] = r]
      /\ weights' = weights /\ meta' = meta /\ results' = results /\ registry' = registry
      /\ labels' = labels /\ learnt' = learnt /\ clean' = clean /\ onnx' = command[p].model
  <2>1. command \in [Commands -> Command]
    BY DEF FInv, FileTypes
  <2>2. command' = [command EXCEPT ![p] = r]
    BY <2>1 DEF ModelFiles!WriteOnnx, ModelFiles!Goto
  <2>. QED  BY <2>2 DEF ModelFiles!WriteOnnx, ModelFiles!Goto, ModelFiles!files
<1>2. ModelFiles!Models' = ModelFiles!Models /\ Count' = Count
  BY <1>1 DEF Count, ModelFiles!Models
<1>3. /\ r \in Command /\ r.job = command[p].job /\ r.alone = command[p].alone
      /\ r.pc = "metadata" /\ r.model = command[p].model /\ r.meta = command[p].meta
      /\ r.registry = command[p].registry
  BY InMemoryTyped, <1>1 DEF Command, Steps, FInv, FileTypes
<1>. HIDE DEF r
<1>4. /\ command' \in [Commands -> Command] /\ command'[p] = r
      /\ \A q \in Commands \ {p} : command'[q] = command[q]
  BY <1>1, <1>3 DEF FInv, FileTypes
<1>5. FileTypes'
  BY <1>1, <1>2, <1>4, InMemoryTyped DEF FInv, FileTypes
<1>6. Known'
  BY <1>1, <1>2, <1>3, <1>4, InMemoryTyped DEF FInv, Known
<1>7. Registries'
  BY <1>1, <1>3, <1>4 DEF FInv, Registries
<1>8. ASSUME command[p].alone /\ (clean \/ command[p].job = "train")
      PROVE  InStep(command[p])'
  <2>1. command'[p].pc = "metadata" /\ command'[p].job = command[p].job /\ command'[p].model = command[p].model
    BY <1>3, <1>4
  <2>2. InStep(command[p])
    BY <1>8 DEF FInv, Trusted
  <2>3. CASE command[p].job = "train"
    BY <1>1, <2>1, <2>2, <2>3 DEF InStep, Making, Unnamed
  <2>4. CASE command[p].job # "train"
    <3>1. command[p].job = "export" /\ Repaired /\ command[p].model = weights
      BY <1>1, <2>2, <2>4 DEF InStep
    <3>2. onnx' = onnx
      BY <1>1, <3>1 DEF Repaired
    <3>. QED  BY <1>1, <2>1, <3>1, <3>2 DEF InStep, Making, Repaired, ResultsFit, MetaFits
  <2>. QED  BY <2>3, <2>4
<1>9. Alone' /\ Trusted'
  BY GoesOn, <1>1, <1>3, <1>4, <1>8
<1>. QED  BY <1>5, <1>6, <1>7, <1>9 DEF FInv

LEMMA FindModelHolds ==
  ASSUME FInv, NEW p \in Commands, ModelFiles!FindModel(p)
  PROVE  FInv'
<1>. DEFINE r == [command[p] EXCEPT !.pc = "registry", !.model = onnx]
<1>1. /\ command[p].pc = "find"
      /\ command' = [command EXCEPT ![p] = r]
      /\ weights' = weights /\ onnx' = onnx /\ meta' = meta /\ results' = results
      /\ registry' = registry /\ labels' = labels /\ learnt' = learnt /\ clean' = clean
  <2>1. command \in [Commands -> Command]
    BY DEF FInv, FileTypes
  <2>2. command' = [command EXCEPT ![p] = r]
    BY <2>1 DEF ModelFiles!FindModel
  <2>. QED  BY <2>2 DEF ModelFiles!FindModel, ModelFiles!files
<1>2. ModelFiles!Models' = ModelFiles!Models /\ Count' = Count
  BY <1>1 DEF Count, ModelFiles!Models
<1>3. /\ r \in Command /\ r.job = command[p].job /\ r.alone = command[p].alone
      /\ r.pc = "registry" /\ r.model = onnx /\ r.meta = command[p].meta
      /\ r.registry = command[p].registry
  BY InMemoryTyped, <1>1 DEF Command, Steps, FInv, FileTypes
<1>. HIDE DEF r
<1>4. /\ command' \in [Commands -> Command] /\ command'[p] = r
      /\ \A q \in Commands \ {p} : command'[q] = command[q]
  BY <1>1, <1>3 DEF FInv, FileTypes
<1>5. FileTypes'
  BY <1>1, <1>2, <1>4, InMemoryTyped DEF FInv, FileTypes
<1>6. Known'
  BY <1>1, <1>2, <1>3, <1>4, InMemoryTyped DEF FInv, Known
<1>7. Registries'
  BY <1>1, <1>3, <1>4 DEF FInv, Registries
<1>8. ASSUME command[p].alone /\ (clean \/ command[p].job = "train")
      PROVE  InStep(command[p])'
  BY <1>1, <1>3, <1>4, <1>8 DEF FInv, Trusted, InStep, Making, Repaired, ResultsFit, MetaFits
<1>9. Alone' /\ Trusted'
  BY GoesOn, <1>1, <1>3, <1>4, <1>8
<1>. QED  BY <1>5, <1>6, <1>7, <1>9 DEF FInv

LEMMA LoadRegistryHolds ==
  ASSUME FInv, NEW p \in Commands, ModelFiles!LoadRegistry(p)
  PROVE  FInv'
<1>. DEFINE r == [command[p] EXCEPT !.pc = "promote", !.registry = registry]
<1>1. /\ command[p].pc = "registry"
      /\ command' = [command EXCEPT ![p] = r]
      /\ weights' = weights /\ onnx' = onnx /\ meta' = meta /\ results' = results
      /\ registry' = registry /\ labels' = labels /\ learnt' = learnt /\ clean' = clean
  <2>1. command \in [Commands -> Command]
    BY DEF FInv, FileTypes
  <2>2. command' = [command EXCEPT ![p] = r]
    BY <2>1 DEF ModelFiles!LoadRegistry
  <2>. QED  BY <2>2 DEF ModelFiles!LoadRegistry, ModelFiles!files
<1>2. ModelFiles!Models' = ModelFiles!Models /\ Count' = Count
  BY <1>1 DEF Count, ModelFiles!Models
<1>3. /\ r \in Command /\ r.job = command[p].job /\ r.alone = command[p].alone
      /\ r.pc = "promote" /\ r.registry = registry /\ r.model = command[p].model
      /\ r.meta = command[p].meta
  BY InMemoryTyped, <1>1 DEF Command, Steps, FInv, FileTypes
<1>. HIDE DEF r
<1>4. /\ command' \in [Commands -> Command] /\ command'[p] = r
      /\ \A q \in Commands \ {p} : command'[q] = command[q]
  BY <1>1, <1>3 DEF FInv, FileTypes
<1>5. FileTypes'
  BY <1>1, <1>2, <1>4, InMemoryTyped DEF FInv, FileTypes
<1>6. Known'
  BY <1>1, <1>2, <1>3, <1>4, InMemoryTyped DEF FInv, Known
<1>7. Registries'
  BY <1>1, <1>3, <1>4 DEF FInv, Registries
<1>8. ASSUME command[p].alone /\ (clean \/ command[p].job = "train")
      PROVE  InStep(command[p])'
  BY <1>1, <1>3, <1>4, <1>8 DEF FInv, Trusted, InStep, Making, Repaired, ResultsFit, MetaFits
<1>9. Alone' /\ Trusted'
  BY GoesOn, <1>1, <1>3, <1>4, <1>8
<1>. QED  BY <1>5, <1>6, <1>7, <1>9 DEF FInv

LEMMA OpenSessionHolds ==
  ASSUME FInv, NEW p \in Commands, ModelFiles!OpenSession(p)
  PROVE  FInv'
<1>. DEFINE r == [command[p] EXCEPT !.pc = ModelFiles!Uses[@], !.model = onnx]
<1>1. /\ command[p].pc \in {"open:calibrate", "open:fused", "open:evaluate"}
      /\ command' = [command EXCEPT ![p] = r]
      /\ weights' = weights /\ onnx' = onnx /\ meta' = meta /\ results' = results
      /\ registry' = registry /\ labels' = labels /\ learnt' = learnt /\ clean' = clean
  <2>1. command \in [Commands -> Command]
    BY DEF FInv, FileTypes
  <2>2. command' = [command EXCEPT ![p] = r]
    BY <2>1, Names DEF ModelFiles!OpenSession
  <2>. QED  BY <2>2, Names DEF ModelFiles!OpenSession, ModelFiles!files
<1>2. ModelFiles!Models' = ModelFiles!Models /\ Count' = Count
  BY <1>1 DEF Count, ModelFiles!Models
<1>3. /\ r \in Command /\ r.job = command[p].job /\ r.alone = command[p].alone
      /\ r.pc \in {"calibrated", "fused", "evaluated"} /\ r.model = onnx
      /\ r.meta = command[p].meta /\ r.registry = command[p].registry
  BY InMemoryTyped, Names, <1>1 DEF Command, Steps, FInv, FileTypes
<1>. HIDE DEF r
<1>4. /\ command' \in [Commands -> Command] /\ command'[p] = r
      /\ \A q \in Commands \ {p} : command'[q] = command[q]
  BY <1>1, <1>3 DEF FInv, FileTypes
<1>5. FileTypes'
  BY <1>1, <1>2, <1>4, InMemoryTyped DEF FInv, FileTypes
<1>6. Known'
  BY <1>1, <1>2, <1>3, <1>4, InMemoryTyped DEF FInv, Known
<1>7. Registries'
  BY <1>1, <1>3, <1>4 DEF FInv, Registries
<1>8. ASSUME command[p].alone /\ (clean \/ command[p].job = "train")
      PROVE  InStep(command[p])'
  BY <1>1, <1>3, <1>4, <1>8 DEF FInv, Trusted, InStep, Making, Repaired, ResultsFit, MetaFits
<1>9. Alone' /\ Trusted'
  BY GoesOn, <1>1, <1>3, <1>4, <1>8
<1>. QED  BY <1>5, <1>6, <1>7, <1>9 DEF FInv

LEMMA LoadMetadataHolds ==
  ASSUME FInv, NEW p \in Commands, ModelFiles!LoadMetadata(p)
  PROVE  FInv'
<1>. DEFINE r == [command[p] EXCEPT !.pc = ModelFiles!Opens[@], !.meta = IF meta = ModelFiles!NoFile THEN ModelFiles!Fresh(onnx) ELSE meta]
<1>1. /\ command[p].pc \in {"load:calibrate", "load:fused", "load:evaluate"}
      /\ command' = [command EXCEPT ![p] = r]
      /\ weights' = weights /\ onnx' = onnx /\ meta' = meta /\ results' = results
      /\ registry' = registry /\ labels' = labels /\ learnt' = learnt /\ clean' = clean
  <2>1. command \in [Commands -> Command]
    BY DEF FInv, FileTypes
  <2>2. command' = [command EXCEPT ![p] = r]
    BY <2>1, Names DEF ModelFiles!LoadMetadata, ModelFiles!Loads
  <2>. QED  BY <2>2, Names DEF ModelFiles!LoadMetadata, ModelFiles!Loads, ModelFiles!files
<1>2. ModelFiles!Models' = ModelFiles!Models /\ Count' = Count
  BY <1>1 DEF Count, ModelFiles!Models
<1>3. /\ r \in Command /\ r.job = command[p].job /\ r.alone = command[p].alone
      /\ r.pc \in {"open:calibrate", "open:fused", "open:evaluate"}
      /\ r.meta \in {meta, ModelFiles!Fresh(onnx)} /\ r.model = command[p].model
      /\ r.registry = command[p].registry
  BY InMemoryTyped, Names, <1>1 DEF Command, Steps, FInv, FileTypes, ModelFiles!Metadata, ModelFiles!Fresh
<1>. HIDE DEF r
<1>4. /\ command' \in [Commands -> Command] /\ command'[p] = r
      /\ \A q \in Commands \ {p} : command'[q] = command[q]
  BY <1>1, <1>3 DEF FInv, FileTypes
<1>5. FileTypes'
  BY <1>1, <1>2, <1>4, InMemoryTyped DEF FInv, FileTypes
<1>6. Known'
  BY <1>1, <1>2, <1>3, <1>4, InMemoryTyped DEF ModelFiles!Fresh, FInv, Known
<1>7. Registries'
  BY <1>1, <1>3, <1>4 DEF FInv, Registries
<1>8. ASSUME command[p].alone /\ (clean \/ command[p].job = "train")
      PROVE  InStep(command[p])'
  <2>1. MetaFits(meta) /\ MetaFits(ModelFiles!Fresh(onnx)) /\ Repaired
    BY <1>1, <1>8 DEF FInv, Trusted, InStep, Making, Repaired, MetaFits, ModelFiles!Fresh
  <2>2. MetaFits(r.meta)
    BY <1>3, <2>1
  <2>. QED  BY <1>1, <1>3, <1>4, <2>1, <2>2 DEF InStep, Making, Repaired, ResultsFit, MetaFits
<1>9. Alone' /\ Trusted'
  BY GoesOn, <1>1, <1>3, <1>4, <1>8
<1>. QED  BY <1>5, <1>6, <1>7, <1>9 DEF FInv

LEMMA WriteCalibrationHolds ==
  ASSUME FInv, NEW p \in Commands, ModelFiles!WriteCalibration(p)
  PROVE  FInv'
<1>. DEFINE r == [command[p] EXCEPT !.pc = "calibration", !.meta = [@ EXCEPT !.version = onnx]]
<1>1. /\ command[p].pc = "calibrated"
      /\ command' = [command EXCEPT ![p] = r]
      /\ weights' = weights /\ onnx' = onnx /\ results' = results /\ registry' = registry
      /\ labels' = labels /\ learnt' = learnt /\ clean' = clean
      /\ meta' = [command[p].meta EXCEPT !.cal = command[p].model, !.version = onnx]
  <2>1. command \in [Commands -> Command]
    BY DEF FInv, FileTypes
  <2>2. command' = [command EXCEPT ![p] = r]
    BY <2>1 DEF ModelFiles!WriteCalibration
  <2>. QED  BY <2>2 DEF ModelFiles!WriteCalibration, ModelFiles!files
<1>2. ModelFiles!Models' = ModelFiles!Models /\ Count' = Count
  BY <1>1 DEF Count, ModelFiles!Models
<1>3. /\ r \in Command /\ r.job = command[p].job /\ r.alone = command[p].alone
      /\ r.pc = "calibration" /\ r.meta \in ModelFiles!Metadata /\ r.meta.version = onnx
      /\ r.model = command[p].model /\ r.registry = command[p].registry
  BY InMemoryTyped, <1>1 DEF Command, Steps, FInv, FileTypes, ModelFiles!Metadata
<1>. HIDE DEF r
<1>4. /\ command' \in [Commands -> Command] /\ command'[p] = r
      /\ \A q \in Commands \ {p} : command'[q] = command[q]
  BY <1>1, <1>3 DEF FInv, FileTypes
<1>5. FileTypes'
  BY <1>1, <1>2, <1>4, InMemoryTyped DEF FInv, FileTypes, ModelFiles!Metadata
<1>6. Known'
  BY <1>1, <1>2, <1>3, <1>4, InMemoryTyped DEF ModelFiles!Metadata, FInv, Known
<1>7. Registries'
  BY <1>1, <1>3, <1>4 DEF FInv, Registries
<1>8. ASSUME command[p].alone /\ (clean \/ command[p].job = "train")
      PROVE  InStep(command[p])'
  <2>1. InStep(command[p])
    BY <1>8 DEF FInv, Trusted
  <2>2. meta'.version = onnx /\ meta'.cal = command[p].model /\ meta'.fused = command[p].meta.fused
    BY <1>1, InMemoryTyped DEF ModelFiles!Metadata
  <2>. QED  BY <1>1, <1>3, <1>4, <2>1, <2>2 DEF InStep, Making, Repaired, ResultsFit, MetaFits
<1>9. Alone' /\ Trusted'
  BY GoesOn, <1>1, <1>3, <1>4, <1>8
<1>. QED  BY <1>5, <1>6, <1>7, <1>9 DEF FInv

LEMMA WriteFusedHolds ==
  ASSUME FInv, NEW p \in Commands, ModelFiles!WriteFused(p)
  PROVE  FInv'
<1>1. /\ command[p].pc = "fused"
      /\ command' = [command EXCEPT ![p] = ModelFiles!Idle]
      /\ weights' = weights /\ onnx' = onnx /\ results' = results /\ registry' = registry
      /\ labels' = labels /\ learnt' = learnt
      /\ meta' = [command[p].meta EXCEPT !.fused = command[p].model, !.version = onnx]
      /\ clean' = (clean \/ (command[p].job = "train" /\ command[p].alone))
  BY DEF ModelFiles!WriteFused, ModelFiles!End, ModelFiles!files
<1>2. ModelFiles!Models' = ModelFiles!Models /\ Count' = Count
  BY <1>1 DEF Count, ModelFiles!Models
<1>3. /\ command' \in [Commands -> Command] /\ command'[p] = ModelFiles!Idle
      /\ \A q \in Commands \ {p} : command'[q] = command[q]
  BY <1>1, IdleCommand DEF FInv, FileTypes
<1>4. /\ p \in ModelFiles!Running
      /\ clean => command[p].alone
      /\ clean \/ (command[p].job = "train" /\ command[p].alone) => InStep(command[p])
  BY <1>1, OnlyItself DEF FInv, Trusted
<1>5. FileTypes'
  BY <1>1, <1>2, <1>3, InMemoryTyped DEF ModelFiles!Metadata, FInv, FileTypes
<1>6. Known'
  <2>1. /\ ModelFiles!Idle.model <= Count /\ ModelFiles!Idle.meta.version <= Count
        /\ Below(ModelFiles!Idle.registry, Count)
    BY IdleCommand DEF FInv, FileTypes, Below, ModelFiles!NoFile
  <2>2. meta'.version = onnx
    BY <1>1, InMemoryTyped DEF ModelFiles!Metadata
  <2>. QED  BY <1>1, <1>2, <1>3, <2>1, <2>2, InMemoryTyped DEF FInv, Known
<1>7. Registries'
  <2>1. ListedOnce(ModelFiles!Idle.registry)
    BY IdleCommand DEF ListedOnce
  <2>. QED  BY <1>1, <1>3, <2>1 DEF FInv, Registries
<1>8. clean' => Repaired'
  <2>1. ASSUME clean' PROVE InStep(command[p])
    BY <1>1, <1>4, <2>1
  <2>2. meta'.version = onnx /\ meta'.fused = command[p].model /\ meta'.cal = command[p].meta.cal
    BY <1>1, InMemoryTyped DEF ModelFiles!Metadata
  <2>. QED  BY <1>1, <2>1, <2>2 DEF InStep, Making, Repaired, ResultsFit, MetaFits
<1>9. Alone' /\ Trusted'
  BY Ends, <1>1, <1>4, <1>8
<1>. QED  BY <1>5, <1>6, <1>7, <1>9 DEF FInv

LEMMA WriteResultHolds ==
  ASSUME FInv, NEW p \in Commands, ModelFiles!WriteResult(p)
  PROVE  FInv'
<1>1. /\ command[p].pc = "evaluated"
      /\ command' = [command EXCEPT ![p] = ModelFiles!Idle]
      /\ weights' = weights /\ onnx' = onnx /\ meta' = meta /\ registry' = registry
      /\ labels' = labels /\ learnt' = learnt
      /\ results' = [results EXCEPT !["eval"] = [version |-> command[p].meta.version, of |-> command[p].model]]
      /\ clean' = clean
  BY DEF ModelFiles!WriteResult, ModelFiles!End, ModelFiles!files
<1>2. ModelFiles!Models' = ModelFiles!Models /\ Count' = Count
  BY <1>1 DEF Count, ModelFiles!Models
<1>3. /\ command' \in [Commands -> Command] /\ command'[p] = ModelFiles!Idle
      /\ \A q \in Commands \ {p} : command'[q] = command[q]
  BY <1>1, IdleCommand DEF FInv, FileTypes
<1>4. /\ p \in ModelFiles!Running
      /\ clean => command[p].alone
      /\ clean \/ (command[p].job = "train" /\ command[p].alone) => InStep(command[p])
  BY <1>1, OnlyItself DEF FInv, Trusted
<1>5. FileTypes'
  BY <1>1, <1>2, <1>3, InMemoryTyped DEF ResultFile, ModelFiles!Results, ModelFiles!Metadata, FInv, FileTypes
<1>6. Known'
  <2>1. /\ ModelFiles!Idle.model <= Count /\ ModelFiles!Idle.meta.version <= Count
        /\ Below(ModelFiles!Idle.registry, Count)
    BY IdleCommand DEF FInv, FileTypes, Below, ModelFiles!NoFile
  <2>. QED  BY <1>1, <1>2, <1>3, <2>1, InMemoryTyped DEF FInv, Known
<1>7. Registries'
  <2>1. ListedOnce(ModelFiles!Idle.registry)
    BY IdleCommand DEF ListedOnce
  <2>. QED  BY <1>1, <1>3, <2>1 DEF FInv, Registries
<1>8. clean' => Repaired'
  BY <1>1, <1>4 DEF InStep, Making, Repaired, ResultsFit, MetaFits
<1>9. Alone' /\ Trusted'
  BY Ends, <1>1, <1>4, <1>8
<1>. QED  BY <1>5, <1>6, <1>7, <1>9 DEF FInv

LEMMA CalibrationResultGoesOn ==
  ASSUME FInv, NEW p \in Commands, ModelFiles!CalibrationResult(p),
         command[p].job = "train"
  PROVE  FInv'
<1>. DEFINE r == [command[p] EXCEPT !.pc = "load:fused"]
<1>1. /\ command[p].pc = "calibration"
      /\ command' = [command EXCEPT ![p] = r]
      /\ weights' = weights /\ onnx' = onnx /\ meta' = meta /\ registry' = registry
      /\ labels' = labels /\ learnt' = learnt /\ clean' = clean
      /\ results' = [results EXCEPT !["calibration"] = [version |-> command[p].meta.version, of |-> command[p].model]]
  <2>1. command \in [Commands -> Command]
    BY DEF FInv, FileTypes
  <2>2. command' = [command EXCEPT ![p] = r]
    BY <2>1 DEF ModelFiles!CalibrationResult, ModelFiles!Goto
  <2>. QED  BY <2>2 DEF ModelFiles!CalibrationResult, ModelFiles!Goto, ModelFiles!files
<1>2. ModelFiles!Models' = ModelFiles!Models /\ Count' = Count
  BY <1>1 DEF Count, ModelFiles!Models
<1>3. /\ r \in Command /\ r.job = command[p].job /\ r.alone = command[p].alone
      /\ r.pc = "load:fused" /\ r.model = command[p].model /\ r.meta = command[p].meta
      /\ r.registry = command[p].registry
  BY InMemoryTyped, <1>1 DEF Command, Steps, FInv, FileTypes
<1>. HIDE DEF r
<1>4. /\ command' \in [Commands -> Command] /\ command'[p] = r
      /\ \A q \in Commands \ {p} : command'[q] = command[q]
  BY <1>1, <1>3 DEF FInv, FileTypes
<1>5. FileTypes'
  BY <1>1, <1>2, <1>4, InMemoryTyped DEF ResultFile, ModelFiles!Results, ModelFiles!Metadata, FInv, FileTypes
<1>6. Known'
  BY <1>1, <1>2, <1>3, <1>4, InMemoryTyped DEF FInv, Known
<1>7. Registries'
  BY <1>1, <1>3, <1>4 DEF FInv, Registries
<1>8. ASSUME command[p].alone /\ (clean \/ command[p].job = "train")
      PROVE  InStep(command[p])'
  BY <1>1, <1>3, <1>4, <1>8 DEF FInv, Trusted, InStep, Making, Repaired, ResultsFit, MetaFits
<1>9. Alone' /\ Trusted'
  BY GoesOn, <1>1, <1>3, <1>4, <1>8
<1>. QED  BY <1>5, <1>6, <1>7, <1>9 DEF FInv

LEMMA CalibrationResultEnds ==
  ASSUME FInv, NEW p \in Commands, ModelFiles!CalibrationResult(p),
         command[p].job # "train"
  PROVE  FInv'
<1>1. /\ command[p].pc = "calibration"
      /\ command' = [command EXCEPT ![p] = ModelFiles!Idle]
      /\ weights' = weights /\ onnx' = onnx /\ meta' = meta /\ registry' = registry
      /\ labels' = labels /\ learnt' = learnt
      /\ results' = [results EXCEPT !["calibration"] = [version |-> command[p].meta.version, of |-> command[p].model]]
      /\ clean' = clean
  BY DEF ModelFiles!CalibrationResult, ModelFiles!End, ModelFiles!files
<1>2. ModelFiles!Models' = ModelFiles!Models /\ Count' = Count
  BY <1>1 DEF Count, ModelFiles!Models
<1>3. /\ command' \in [Commands -> Command] /\ command'[p] = ModelFiles!Idle
      /\ \A q \in Commands \ {p} : command'[q] = command[q]
  BY <1>1, IdleCommand DEF FInv, FileTypes
<1>4. /\ p \in ModelFiles!Running
      /\ clean => command[p].alone
      /\ clean \/ (command[p].job = "train" /\ command[p].alone) => InStep(command[p])
  BY <1>1, OnlyItself DEF FInv, Trusted
<1>5. FileTypes'
  BY <1>1, <1>2, <1>3, InMemoryTyped DEF ResultFile, ModelFiles!Results, ModelFiles!Metadata, FInv, FileTypes
<1>6. Known'
  <2>1. /\ ModelFiles!Idle.model <= Count /\ ModelFiles!Idle.meta.version <= Count
        /\ Below(ModelFiles!Idle.registry, Count)
    BY IdleCommand DEF FInv, FileTypes, Below, ModelFiles!NoFile
  <2>. QED  BY <1>1, <1>2, <1>3, <2>1, InMemoryTyped DEF FInv, Known
<1>7. Registries'
  <2>1. ListedOnce(ModelFiles!Idle.registry)
    BY IdleCommand DEF ListedOnce
  <2>. QED  BY <1>1, <1>3, <2>1 DEF FInv, Registries
<1>8. clean' => Repaired'
  BY <1>1, <1>4 DEF InStep, Making, Repaired, ResultsFit, MetaFits
<1>9. Alone' /\ Trusted'
  BY Ends, <1>1, <1>4, <1>8
<1>. QED  BY <1>5, <1>6, <1>7, <1>9 DEF FInv

LEMMA WriteMetadataEnds ==
  ASSUME FInv, NEW p \in Commands, ModelFiles!WriteMetadata(p),
         ModelFiles!End(p)
  PROVE  FInv'
<1>0. /\ meta' \in ModelFiles!Metadata /\ meta'.version = onnx
      /\ meta'.cal \in {0, meta.cal} /\ meta'.fused \in {0, meta.fused}
      /\ command[p].job = "train" => meta'.cal = 0 /\ meta'.fused = 0
  BY DEF FInv, FileTypes, ModelFiles!WriteMetadata, ModelFiles!NewMetadata, ModelFiles!Fresh, ModelFiles!Metadata
<1>1. /\ command[p].pc = "metadata"
      /\ command' = [command EXCEPT ![p] = ModelFiles!Idle]
      /\ weights' = weights /\ onnx' = onnx /\ results' = results /\ registry' = registry
      /\ labels' = labels /\ learnt' = learnt /\ clean' = clean
  BY DEF ModelFiles!WriteMetadata, ModelFiles!End, ModelFiles!files
<1>2. ModelFiles!Models' = ModelFiles!Models /\ Count' = Count
  BY <1>1 DEF Count, ModelFiles!Models
<1>3. /\ command' \in [Commands -> Command] /\ command'[p] = ModelFiles!Idle
      /\ \A q \in Commands \ {p} : command'[q] = command[q]
  BY <1>1, IdleCommand DEF FInv, FileTypes
<1>4. /\ p \in ModelFiles!Running
      /\ clean => command[p].alone
      /\ clean \/ (command[p].job = "train" /\ command[p].alone) => InStep(command[p])
  BY <1>1, OnlyItself DEF FInv, Trusted
<1>5. FileTypes'
  BY <1>1, <1>2, <1>3, InMemoryTyped, <1>0 DEF FInv, FileTypes
<1>6. Known'
  <2>1. /\ ModelFiles!Idle.model <= Count /\ ModelFiles!Idle.meta.version <= Count
        /\ Below(ModelFiles!Idle.registry, Count)
    BY IdleCommand DEF FInv, FileTypes, Below, ModelFiles!NoFile
  <2>. QED  BY <1>0, <1>1, <1>2, <1>3, <2>1, InMemoryTyped DEF FInv, Known
<1>7. Registries'
  <2>1. ListedOnce(ModelFiles!Idle.registry)
    BY IdleCommand DEF ListedOnce
  <2>. QED  BY <1>1, <1>3, <2>1 DEF FInv, Registries
<1>8. clean' => Repaired'
  <2>. SUFFICES ASSUME clean' PROVE Repaired'
    OBVIOUS
  <2>1. onnx \in Nat /\ InStep(command[p])
    BY <1>1, <1>4 DEF FInv, FileTypes, Trusted
  <2>2. command[p].job \in {"train", "export"}
    BY <1>1, <2>1 DEF InStep
  <2>3. CASE command[p].job = "train"
    <3>1. command[p].model = onnx /\ weights = onnx /\ Unnamed(onnx)
      BY <1>1, <2>1, <2>3 DEF InStep, Making
    <3>2. ResultsFit'
      BY <1>1, <3>1 DEF Unnamed, ResultsFit
    <3>. QED  BY <1>0, <1>1, <3>1, <3>2, <2>3 DEF Repaired, MetaFits
  <2>4. CASE command[p].job = "export"
    BY <1>0, <1>1, <2>1, <2>4 DEF InStep, Repaired, ResultsFit, MetaFits
  <2>. QED  BY <2>2, <2>3, <2>4
<1>9. Alone' /\ Trusted'
  BY Ends, <1>1, <1>4, <1>8
<1>. QED  BY <1>5, <1>6, <1>7, <1>9 DEF FInv

LEMMA WriteMetadataGoesOn ==
  ASSUME FInv, NEW p \in Commands, ModelFiles!WriteMetadata(p),
         command[p].job = "train", ModelFiles!Goto(p, "load:calibrate"), UNCHANGED clean
  PROVE  FInv'
<1>0. /\ meta' \in ModelFiles!Metadata /\ meta'.version = onnx
      /\ meta'.cal \in {0, meta.cal} /\ meta'.fused \in {0, meta.fused}
      /\ command[p].job = "train" => meta'.cal = 0 /\ meta'.fused = 0
  BY DEF FInv, FileTypes, ModelFiles!WriteMetadata, ModelFiles!NewMetadata, ModelFiles!Fresh, ModelFiles!Metadata
<1>. DEFINE r == [command[p] EXCEPT !.pc = "load:calibrate"]
<1>1. /\ command[p].pc = "metadata"
      /\ command' = [command EXCEPT ![p] = r]
      /\ weights' = weights /\ onnx' = onnx /\ results' = results /\ registry' = registry
      /\ labels' = labels /\ learnt' = learnt /\ clean' = clean
  <2>1. command \in [Commands -> Command]
    BY DEF FInv, FileTypes
  <2>2. command' = [command EXCEPT ![p] = r]
    BY <2>1 DEF ModelFiles!WriteMetadata, ModelFiles!Goto
  <2>. QED  BY <2>2 DEF ModelFiles!WriteMetadata, ModelFiles!Goto, ModelFiles!files
<1>2. ModelFiles!Models' = ModelFiles!Models /\ Count' = Count
  BY <1>1 DEF Count, ModelFiles!Models
<1>3. /\ r \in Command /\ r.job = command[p].job /\ r.alone = command[p].alone
      /\ r.pc = "load:calibrate" /\ r.model = command[p].model /\ r.meta = command[p].meta
      /\ r.registry = command[p].registry
  BY InMemoryTyped, <1>1 DEF Command, Steps, FInv, FileTypes
<1>. HIDE DEF r
<1>4. /\ command' \in [Commands -> Command] /\ command'[p] = r
      /\ \A q \in Commands \ {p} : command'[q] = command[q]
  BY <1>1, <1>3 DEF FInv, FileTypes
<1>5. FileTypes'
  BY <1>1, <1>2, <1>4, InMemoryTyped, <1>0 DEF FInv, FileTypes
<1>6. Known'
  BY <1>1, <1>2, <1>3, <1>4, InMemoryTyped, <1>0 DEF FInv, Known
<1>7. Registries'
  BY <1>1, <1>3, <1>4 DEF FInv, Registries
<1>8. ASSUME command[p].alone /\ (clean \/ command[p].job = "train")
      PROVE  InStep(command[p])'
  <2>1. InStep(command[p]) /\ onnx \in Nat
    BY <1>8 DEF FInv, FileTypes, Trusted
  <2>2. command[p].model = onnx /\ weights = onnx /\ Unnamed(onnx)
    BY <1>1, <2>1 DEF InStep, Making
  <2>3. ResultsFit'
    BY <1>1, <2>2 DEF Unnamed, ResultsFit
  <2>4. Repaired'
    BY <1>0, <1>1, <2>1, <2>2, <2>3 DEF Repaired, MetaFits
  <2>. QED  BY <1>3, <1>4, <2>4 DEF InStep, Making
<1>9. Alone' /\ Trusted'
  BY GoesOn, <1>1, <1>3, <1>4, <1>8
<1>. QED  BY <1>5, <1>6, <1>7, <1>9 DEF FInv

LEMMA KillHolds ==
  ASSUME FInv, NEW p \in Commands, ModelFiles!Kill(p)
  PROVE  FInv'
<1>1. /\ command[p] # ModelFiles!Idle
      /\ command' = [command EXCEPT ![p] = ModelFiles!Idle]
      /\ weights' = weights /\ onnx' = onnx /\ meta' = meta /\ results' = results
      /\ registry' = registry /\ labels' = labels /\ learnt' = learnt /\ clean' = FALSE
  BY DEF ModelFiles!Kill, ModelFiles!End, ModelFiles!files
<1>2. ModelFiles!Models' = ModelFiles!Models /\ Count' = Count
  BY <1>1 DEF Count, ModelFiles!Models
<1>3. /\ command' \in [Commands -> Command] /\ command'[p] = ModelFiles!Idle
      /\ \A q \in Commands \ {p} : command'[q] = command[q]
  BY <1>1, IdleCommand DEF FInv, FileTypes
<1>4. /\ p \in ModelFiles!Running
      /\ clean => command[p].alone
      /\ clean \/ (command[p].job = "train" /\ command[p].alone) => InStep(command[p])
  BY <1>1 DEF FInv, Alone, Trusted, ModelFiles!Running
<1>5. FileTypes'
  BY <1>1, <1>2, <1>3, InMemoryTyped DEF FInv, FileTypes
<1>6. Known'
  <2>1. /\ ModelFiles!Idle.model <= Count /\ ModelFiles!Idle.meta.version <= Count
        /\ Below(ModelFiles!Idle.registry, Count)
    BY IdleCommand DEF FInv, FileTypes, Below, ModelFiles!NoFile
  <2>. QED  BY <1>1, <1>2, <1>3, <2>1, InMemoryTyped DEF FInv, Known
<1>7. Registries'
  <2>1. ListedOnce(ModelFiles!Idle.registry)
    BY IdleCommand DEF ListedOnce
  <2>. QED  BY <1>1, <1>3, <2>1 DEF FInv, Registries
<1>8. clean' => Repaired'
  BY <1>1
<1>9. Alone' /\ Trusted'
  BY Ends, <1>1, <1>4, <1>8
<1>. QED  BY <1>5, <1>6, <1>7, <1>9 DEF FInv

\* An entry has the version it is made for, and the numbers of the results that name it.
LEMMA EntryFits ==
  ASSUME FileTypes, NEW v \in Nat
  PROVE  /\ ModelFiles!Entry(v) \in RegistryEntry
         /\ ModelFiles!Entry(v).version = v
         /\ \A m \in ModelFiles!Entry(v).metrics :
              \E f \in ModelFiles!Results : results[f].version = v /\ m.of = results[f].of
<1>. DEFINE metrics == {[file |-> f, of |-> results[f].of] : f \in ModelFiles!MetricsFor(v)}
<1>1. \A f \in ModelFiles!MetricsFor(v) : f \in ModelFiles!Results /\ results[f].version = v /\ results[f].of \in Nat
  BY DEF FileTypes, ResultFile, ModelFiles!MetricsFor
<1>2. metrics \in SUBSET [file : ModelFiles!Results, of : Nat]
  BY <1>1
<1>3. \A m \in metrics : \E f \in ModelFiles!Results : results[f].version = v /\ m.of = results[f].of
  BY <1>1
<1>4. ModelFiles!Entry(v) = [version |-> v, fingerprint |-> labels, metrics |-> metrics]
  BY DEF ModelFiles!Entry
<1>. HIDE DEF metrics
<1>. QED  BY <1>2, <1>3, <1>4 DEF RegistryEntry, FileTypes

LEMMA WriteRegistryHolds ==
  ASSUME FInv, NEW p \in Commands, ModelFiles!WriteRegistry(p)
  PROVE  FInv'
<1>. DEFINE v == command[p].model
            new == ModelFiles!Entry(v)
            old == command[p].registry
<1>0. /\ v \in Nat /\ v <= Count /\ old \in Registry /\ Below(old, Count) /\ ListedOnce(old)
      /\ FileTypes
  BY InMemoryTyped DEF FInv
<1>. HIDE DEF v
<1>a. /\ new \in RegistryEntry /\ new.version = v
      /\ \A m \in new.metrics : \E f \in ModelFiles!Results : results[f].version = v /\ m.of = results[f].of
  BY <1>0, EntryFits
<1>1. /\ command[p].pc = "promote"
      /\ command' = [command EXCEPT ![p] = ModelFiles!Idle]
      /\ weights' = weights /\ onnx' = onnx /\ meta' = meta /\ results' = results
      /\ labels' = labels /\ learnt' = learnt /\ clean' = clean
      /\ registry' = [entries |-> {e \in old.entries : e.version # new.version} \cup {new}, active |-> v]
  BY DEF ModelFiles!WriteRegistry, ModelFiles!End, ModelFiles!Listed, v, ModelFiles!Entry
<1>. HIDE DEF new, old
<1>2. ModelFiles!Models' = ModelFiles!Models /\ Count' = Count
  BY <1>1 DEF Count, ModelFiles!Models
<1>3. /\ command' \in [Commands -> Command] /\ command'[p] = ModelFiles!Idle
      /\ \A q \in Commands \ {p} : command'[q] = command[q]
  BY <1>1, IdleCommand DEF FInv, FileTypes
<1>4. /\ p \in ModelFiles!Running
      /\ clean => command[p].alone
      /\ clean \/ (command[p].job = "train" /\ command[p].alone) => InStep(command[p])
  BY <1>1, OnlyItself DEF FInv, Trusted
<1>b. registry' \in Registry /\ Below(registry', Count) /\ ListedOnce(registry')
  <2>1. registry' \in Registry
    BY <1>0, <1>1, <1>a DEF Registry
  <2>2. Below(registry', Count)
    BY <1>0, <1>1, <1>a DEF Below
  <2>3. ListedOnce(registry')
    BY <1>0, <1>1, <1>a DEF ListedOnce
  <2>. QED  BY <2>1, <2>2, <2>3
<1>5. FileTypes'
  BY <1>1, <1>2, <1>3, <1>b DEF FInv, FileTypes
<1>6. Known'
  <2>1. /\ ModelFiles!Idle.model <= Count /\ ModelFiles!Idle.meta.version <= Count
        /\ Below(ModelFiles!Idle.registry, Count)
    BY IdleCommand DEF FInv, FileTypes, Below, ModelFiles!NoFile
  <2>. QED  BY <1>1, <1>2, <1>3, <1>b, <2>1, InMemoryTyped DEF FInv, Known
<1>7. Registries'
  <2>1. ListedOnce(ModelFiles!Idle.registry)
    BY IdleCommand DEF ListedOnce
  <2>. QED  BY <1>1, <1>3, <1>b, <2>1 DEF FInv, Registries
<1>8. clean' => Repaired'
  <2>. SUFFICES ASSUME clean' PROVE Repaired'
    OBVIOUS
  <2>1. Repaired /\ v = onnx /\ old = registry
    BY <1>1, <1>4 DEF InStep, Making, v, old
  <2>2. \A m \in new.metrics : m.of = onnx
    BY <1>a, <2>1 DEF Repaired, ResultsFit
  <2>3. \A e \in registry'.entries : e.version = onnx => \A m \in e.metrics : m.of = onnx
    BY <1>1, <1>a, <2>1, <2>2
  <2>. QED  BY <1>1, <2>1, <2>3 DEF Repaired, ResultsFit, MetaFits
<1>9. Alone' /\ Trusted'
  BY Ends, <1>1, <1>4, <1>8
<1>. QED  BY <1>5, <1>6, <1>7, <1>9 DEF FInv

\* A command that starts disturbs whoever runs; if nobody does, it runs alone.
LEMMA StartHolds ==
  ASSUME FInv, NEW p \in Commands, NEW doing, NEW step, ModelFiles!Start(p, doing, step),
         <<doing, step>> \in {<<"train", "train">>, <<"calibrate", "load:calibrate">>,
                            <<"fused", "load:fused">>, <<"evaluate", "load:evaluate">>,
                            <<"export", "load:weights">>, <<"promote", "find">>}
  PROVE  FInv'
<1>. DEFINE first == (ModelFiles!Running = {})
            r == [ModelFiles!Idle EXCEPT !.pc = step, !.job = doing, !.alone = first]
<1>1. /\ command[p] = ModelFiles!Idle
      /\ command' = [q \in Commands |->
           IF q = p THEN r
           ELSE IF command[q] = ModelFiles!Idle THEN ModelFiles!Idle ELSE [command[q] EXCEPT !.alone = FALSE]]
      /\ clean' = (clean /\ first)
      /\ weights' = weights /\ onnx' = onnx /\ meta' = meta /\ results' = results
      /\ registry' = registry /\ labels' = labels /\ learnt' = learnt
  BY DEF ModelFiles!Start, ModelFiles!files
<1>2. ModelFiles!Models' = ModelFiles!Models /\ Count' = Count
  BY <1>1 DEF Count, ModelFiles!Models
<1>3. /\ r \in Command /\ r.pc = step /\ r.job = doing /\ r.alone = first /\ r.pc # "idle"
      /\ r.model = 0 /\ r.meta = ModelFiles!NoFile /\ r.registry = [entries |-> {}, active |-> 0]
  <2>1. first \in BOOLEAN
    OBVIOUS
  <2>2. step \in Steps /\ doing \in {"train", "calibrate", "fused", "evaluate", "export", "promote"} /\ step # "idle"
    BY DEF Steps
  <2>. HIDE DEF first
  <2>. QED  BY <2>1, <2>2, IdleCommand DEF Command
<1>. HIDE DEF r
<1>4. ASSUME NEW q \in Commands, q # p
      PROVE  /\ command'[q] \in Command /\ command'[q].model = command[q].model /\ command'[q].meta = command[q].meta
             /\ command'[q].registry = command[q].registry /\ ~command'[q].alone
             /\ command'[q] = ModelFiles!Idle <=> command[q] = ModelFiles!Idle
  <2>1. CASE command[q] = ModelFiles!Idle
    BY <1>1, <1>4, <2>1, IdleCommand
  <2>2. CASE command[q] # ModelFiles!Idle
    <3>1. command'[q] = [command[q] EXCEPT !.alone = FALSE]
      BY <1>1, <1>4, <2>2
    <3>2. /\ command'[q] \in Command /\ command'[q].pc = command[q].pc /\ command'[q].model = command[q].model
          /\ command'[q].meta = command[q].meta /\ command'[q].registry = command[q].registry
          /\ ~command'[q].alone
      BY <3>1, InMemoryTyped DEF Command
    <3>3. CASE command[q].alone
      BY <2>2, <3>2, <3>3, IdleCommand DEF FInv, Alone
    <3>4. CASE ~command[q].alone
      <4>1. command'[q] = command[q]
        BY <3>1, <3>4, InMemoryTyped DEF Command
      <4>. QED  BY <2>2, <3>2, <4>1
    <3>. QED  BY <3>2, <3>3, <3>4
  <2>. QED  BY <2>1, <2>2
<1>5. command' \in [Commands -> Command] /\ command'[p] = r
  <2>1. command'[p] = r
    BY <1>1
  <2>. QED  BY <1>1, <1>3, <1>4, <2>1
<1>6. FileTypes'
  <2>1. clean' \in BOOLEAN
    BY <1>1 DEF FInv, FileTypes
  <2>. QED  BY <1>1, <1>2, <1>5, <2>1 DEF FInv, FileTypes
<1>7. Known'
  <2>1. r.model <= Count /\ r.meta.version <= Count /\ Below(r.registry, Count)
    BY <1>3 DEF FInv, FileTypes, Below, ModelFiles!NoFile
  <2>2. \A q \in Commands : /\ command'[q].model <= Count /\ command'[q].meta.version <= Count
                            /\ Below(command'[q].registry, Count)
    BY <1>4, <1>5, <2>1, InMemoryTyped
  <2>. QED  BY <1>1, <1>2, <2>2 DEF FInv, Known
<1>8. Registries'
  <2>1. ListedOnce(r.registry)
    BY <1>3 DEF ListedOnce
  <2>. QED  BY <1>1, <1>4, <1>5, <2>1 DEF FInv, Registries
<1>9. first => ModelFiles!Running' = {p}
  <2>. HIDE DEF r
  <2>1. p \in ModelFiles!Running'
    BY <1>3, <1>5, IdleCommand DEF ModelFiles!Running
  <2>2. ASSUME first, NEW q \in Commands, q # p PROVE q \notin ModelFiles!Running'
    BY <1>1, <2>2 DEF ModelFiles!Running
  <2>. QED  BY <2>1, <2>2 DEF ModelFiles!Running
<1>10. \A q \in Commands : command'[q].alone => q = p /\ first
  BY <1>3, <1>4, <1>5
<1>11. Alone'
  <2>1. \A q \in Commands : command'[q].alone => command'[q].pc # "idle" /\ ModelFiles!Running' = {q}
    BY <1>3, <1>5, <1>9, <1>10
  <2>2. clean' => \A q \in ModelFiles!Running' : command'[q].alone
    BY <1>1, <1>3, <1>5, <1>9
  <2>. QED  BY <2>1, <2>2 DEF Alone
<1>12. Trusted'
  <2>1. clean' => ModelFiles!Running' # {}
    BY <1>1, <1>9
  <2>2. ASSUME first, clean' \/ doing = "train" PROVE InStep(command[p])'
    <3>1. clean => Repaired
      BY <2>2 DEF FInv, Trusted
    <3>2. /\ command'[p].pc = step /\ command'[p].job = doing
      BY <1>3, <1>5
    <3>3. CASE doing = "train"
      BY <3>2, <3>3 DEF InStep, Making
    <3>4. CASE doing # "train"
      <4>1. Repaired'
        BY <1>1, <2>2, <3>1, <3>4 DEF Repaired, ResultsFit, MetaFits
      <4>. QED  BY <3>2, <3>4, <4>1 DEF InStep, Making
    <3>. QED  BY <3>3, <3>4
  <2>3. command'[p].job = doing
    BY <1>3, <1>5
  <2>. QED  BY <1>10, <2>1, <2>2, <2>3 DEF Trusted
<1>. QED  BY <1>6, <1>7, <1>8, <1>11, <1>12 DEF FInv

LEMMA GrowLabelsHolds ==
  ASSUME FInv, ModelFiles!GrowLabels \/ UNCHANGED ModelFiles!vars
  PROVE  FInv'
<1>1. /\ weights' = weights /\ onnx' = onnx /\ meta' = meta /\ results' = results /\ labels' \in Nat
      /\ registry' = registry /\ learnt' = learnt /\ command' = command /\ clean' = clean
  BY DEF ModelFiles!GrowLabels, ModelFiles!vars, ModelFiles!files, FInv, FileTypes
<1>2. ModelFiles!Models' = ModelFiles!Models /\ Count' = Count /\ ModelFiles!Running' = ModelFiles!Running
  BY <1>1 DEF Count, ModelFiles!Models, ModelFiles!Running
<1>3. FileTypes' /\ Known'
  BY <1>1, <1>2 DEF FInv, FileTypes, Known
<1>4. Registries' /\ Alone'
  BY <1>1, <1>2 DEF FInv, Registries, Alone
<1>5. Trusted'
  <2>1. Repaired' <=> Repaired
    BY <1>1 DEF Repaired, ResultsFit, MetaFits
  <2>2. \A q \in Commands : InStep(command[q]) => InStep(command[q])'
    BY <1>1, <2>1 DEF InStep, Making, MetaFits, Unnamed
  <2>. QED  BY <1>1, <1>2, <2>1, <2>2 DEF FInv, Trusted
<1>. QED  BY <1>3, <1>4, <1>5 DEF FInv

LEMMA FilesInit == ModelFiles!Init => FInv
<1>. SUFFICES ASSUME ModelFiles!Init PROVE FInv
  OBVIOUS
<1>. USE DEF ModelFiles!Init
<1>1. Count = 0 /\ ModelFiles!Models = 1 .. 0
  <2>1. ModelFiles!Models = {}
    BY DEF ModelFiles!Models
  <2>. QED  BY <2>1, FS_EmptySet DEF Count
<1>2. FileTypes
  BY <1>1, IdleCommand DEF FileTypes, ModelFiles!Metadata, ModelFiles!NoFile, ResultFile, ModelFiles!NoResult, Registry
<1>3. Known /\ Registries
  BY <1>1, IdleCommand DEF Known, Registries, Below, ListedOnce, ModelFiles!NoFile, ModelFiles!NoResult
<1>4. Alone
  BY IdleCommand DEF Alone, ModelFiles!Running
<1>5. Trusted
  BY IdleCommand DEF Trusted, Repaired, MetaFits, ResultsFit, ModelFiles!NoFile, ModelFiles!NoResult
<1>. QED  BY <1>2, <1>3, <1>4, <1>5 DEF FInv

LEMMA FilesNext == FInv /\ [ModelFiles!Next]_ModelFiles!vars => FInv'
<1>. SUFFICES ASSUME FInv, [ModelFiles!Next]_ModelFiles!vars PROVE FInv'
  OBVIOUS
<1>1. ASSUME NEW p \in Commands, ModelFiles!Step(p)
      PROVE  FInv'
  <2>1. ASSUME ModelFiles!WriteMetadata(p) PROVE FInv'
    <3>1. \/ command[p].job = "train" /\ ModelFiles!Goto(p, "load:calibrate") /\ UNCHANGED clean
          \/ ModelFiles!End(p)
      BY <2>1 DEF ModelFiles!WriteMetadata
    <3>. QED  BY <2>1, <3>1, WriteMetadataGoesOn, WriteMetadataEnds
  <2>. QED
    BY <1>1, <2>1, TrainHolds, SaveWeightsHolds, LoadWeightsHolds, WriteOnnxHolds, LoadMetadataHolds,
       OpenSessionHolds, WriteCalibrationHolds, CalibrationResultGoesOn, CalibrationResultEnds,
       WriteFusedHolds, WriteResultHolds, FindModelHolds, LoadRegistryHolds, WriteRegistryHolds
       DEF ModelFiles!Step
<1>2. ASSUME NEW p \in Commands,
             \/ ModelFiles!TrainCrnn(p) \/ ModelFiles!Calibrate(p) \/ ModelFiles!CalibrateFused(p)
             \/ ModelFiles!Evaluate(p) \/ ModelFiles!ExportOnnx(p) \/ ModelFiles!Promote(p)
      PROVE  FInv'
  BY <1>2, StartHolds
     DEF ModelFiles!TrainCrnn, ModelFiles!Calibrate, ModelFiles!CalibrateFused, ModelFiles!Evaluate,
         ModelFiles!ExportOnnx, ModelFiles!Promote
<1>. QED  BY <1>1, <1>2, KillHolds, GrowLabelsHolds DEF ModelFiles!Next

LEMMA FilesInvariant == ModelFiles!Spec => []FInv
BY FilesInit, FilesNext, PTL DEF ModelFiles!Spec

\* However commands overlap and wherever they are killed, for any number of them:
\* no version is ever listed twice, and the active version is listed.
THEOREM RegistryStaysConsistent == ModelFiles!Spec => []RegistryIsConsistent
<1>1. FInv => RegistryIsConsistent
  BY DEF FInv, Registries, ListedOnce, RegistryIsConsistent, ModelFiles!RegistryIsConsistent
<1>. QED  BY <1>1, FilesInvariant, PTL

\* Whatever killed and overlapping commands have left behind, once a training has run
\* undisturbed the served model, its metadata, its calibration, the results that name
\* it and the registry's metrics of it agree, and they go on to agree until commands
\* overlap or are killed again.
THEOREM TrainingAlwaysRepairs == ModelFiles!Spec => []TrainingRepairs
<1>1. FInv => TrainingRepairs
  BY DEF FInv, Trusted, Repaired, MetaFits, ResultsFit, TrainingRepairs, ModelFiles!TrainingRepairs
<1>. QED  BY <1>1, FilesInvariant, PTL

\* Commands that overlap and are killed never spoil the registry, and what else they
\* spoil a training repairs (training/registry.py, cli/train.py).
THEOREM ModelsAlwaysAgree == ModelFiles!Spec => []ModelsAgree
<1>1. TrainingRepairs /\ RegistryIsConsistent => ModelsAgree
  BY DEF ModelsAgree, ModelFiles!ModelsAgree, TrainingRepairs, RegistryIsConsistent
<1>. QED  BY <1>1, TrainingAlwaysRepairs, RegistryStaysConsistent, PTL
-----------------------------------------------------------------------------
\* A training: the phases of a run, and what is in memory.
Phases == {"epochs", "tune", "trained", "next", "done"}
State == [trial : Nat, synthetic : Nat, tuned : Nat]
Validated == [val : Scores, strength : Int]

RunTypes ==
  /\ phase \in Phases /\ trial \in Nat
  /\ history \in Seq(Validated) /\ Len(history) <= Epochs
  /\ drawn \in [Training!Stream -> Nat]
  /\ network \in State /\ network.trial = trial

\* Every epoch so far has drawn its slice once, at its strength.
Drawn ==
  /\ \A i \in Training!Stream : drawn[i] = IF i < Len(history) * EpochSize THEN 1 ELSE 0
  /\ \A e \in 1 .. Len(history) : history[e].strength = Training!Upper(e - 1)

\* The best of the epochs so far.
BestSoFar ==
  IF history = <<>> THEN best = Training!NoBest /\ kept = Training!NoState
  ELSE /\ best.epoch \in 0 .. Len(history) - 1
       /\ \A e \in 1 .. Len(history) : e - 1 # best.epoch =>
            history[e].val <= best.val /\ (history[e].val = best.val => best.epoch < e - 1)
       /\ history[best.epoch + 1].val = best.val
       /\ kept = [trial |-> trial, synthetic |-> best.epoch + 1, tuned |-> 0]
       /\ checkpoint = kept

\* What the network was trained with.
TrainedAs ==
  /\ phase = "epochs" => network = [trial |-> trial, synthetic |-> Len(history), tuned |-> 0]
  /\ phase # "epochs" =>
       /\ Len(history) = Epochs
       /\ Epochs > 0 => [network EXCEPT !.tuned = 0] = kept
       /\ phase = "tune" => network.tuned < TuneEpochs
       /\ phase # "tune" => network.tuned \in {0, TuneEpochs}

RInv == RunTypes /\ Drawn /\ BestSoFar /\ TrainedAs
-----------------------------------------------------------------------------
\* A crop belongs to the epoch that its index divided by the epoch's size says.
LEMMA EpochOf ==
  ASSUME NEW n \in Nat, NEW size \in Nat, NEW i \in Nat, i < n * size
  PROVE  i \div size \in 0 .. n - 1
<1>1. size > 0
  OBVIOUS
<1>2. i \div size \in Nat /\ (i \div size) * size <= i
  BY <1>1
<1>3. ASSUME i \div size >= n PROVE FALSE
  BY <1>1, <1>2, <1>3
<1>. QED  BY <1>2, <1>3

LEMMA NextSlice ==
  ASSUME NEW e \in Nat, NEW i \in Nat
  PROVE  /\ i < (e + 1) * EpochSize <=> i < e * EpochSize \/ i \in Training!Slice(e)
         /\ i \in Training!Slice(e) => ~ i < e * EpochSize
BY TrainingAssumption DEF Training!Slice

LEMMA RunBegins ==
  ASSUME NEW n \in Nat
  PROVE  /\ Training!Untrained(n) \in State
         /\ Training!NothingDrawn \in [Training!Stream -> Nat]
         /\ \A i \in Training!Stream : i \in Nat /\ i < Epochs * EpochSize
         /\ \A i \in Training!Stream : Training!NothingDrawn[i] = 0 /\ ~ i < 0 * EpochSize
BY TrainingAssumption DEF Training!Untrained, State, Training!NothingDrawn, Training!Stream

LEMMA UpperIsInt == \A e \in Nat : Training!Upper(e) \in Int
BY TrainingAssumption DEF Training!Upper, Training!Ramp

LEMMA TrainingInit == Training!Init => RInv
BY RunBegins, TrainingAssumption DEF Training!Init, RInv, RunTypes, Drawn, BestSoFar, TrainedAs, Phases,
   Training!Untrained, Training!NoState, Training!NoBest

LEMMA NextTrialHolds == RInv /\ Training!NextTrial => RInv'
<1>. SUFFICES ASSUME RInv, Training!NextTrial PROVE RInv'
  OBVIOUS
<1>1. trial \in Nat /\ trial + 1 \in Nat
  BY DEF RInv, RunTypes
<1>2. /\ phase' = "epochs" /\ trial' = trial + 1 /\ history' = <<>> /\ best' = Training!NoBest
      /\ kept' = Training!NoState /\ network' = Training!Untrained(trial + 1) /\ drawn' = Training!NothingDrawn
  BY DEF Training!NextTrial
<1>3. RunTypes'
  BY <1>1, <1>2, RunBegins, TrainingAssumption DEF RunTypes, Phases, Training!Untrained
<1>4. Drawn'
  BY <1>1, <1>2, RunBegins DEF Drawn
<1>5. BestSoFar'
  BY <1>2 DEF BestSoFar
<1>6. TrainedAs'
  BY <1>2 DEF TrainedAs, Training!Untrained
<1>. QED  BY <1>3, <1>4, <1>5, <1>6 DEF RInv

LEMMA OtherStepsHold ==
  ASSUME RInv,
         \/ Training!Restore \/ Training!FineTune \/ (\E score \in Scores : Training!Score(score))
         \/ UNCHANGED Training!vars
  PROVE  RInv'
<1>1. /\ trial' = trial /\ history' = history /\ best' = best /\ kept' = kept /\ checkpoint' = checkpoint
      /\ drawn' = drawn
  BY DEF Training!Restore, Training!FineTune, Training!Score, Training!vars, Training!run
<1>2. Drawn' /\ BestSoFar'
  BY <1>1 DEF RInv, Drawn, BestSoFar
<1>3. CASE Training!Restore
  <2>1. /\ network' = IF kept = Training!NoState THEN network ELSE kept
        /\ phase = "epochs" /\ Len(history) = Epochs
        /\ phase' = "trained" \/ (phase' = "tune" /\ TuneEpochs > 0)
    BY <1>3 DEF Training!Restore
  <2>2. network = [trial |-> trial, synthetic |-> Len(history), tuned |-> 0] /\ trial \in Nat
    BY <2>1 DEF RInv, RunTypes, TrainedAs
  <2>3. CASE history = <<>>
    <3>1. network' = network /\ Epochs = 0
      BY <2>1, <2>3 DEF RInv, BestSoFar
    <3>. QED  BY <1>1, <1>2, <2>1, <2>2, <3>1 DEF RInv, RunTypes, TrainedAs, Phases
  <2>4. CASE history # <<>>
    <3>1. kept = [trial |-> trial, synthetic |-> best.epoch + 1, tuned |-> 0] /\ best.epoch + 1 \in Nat
      BY <2>4 DEF RInv, RunTypes, BestSoFar
    <3>2. kept # Training!NoState
      BY <2>2, <3>1 DEF Training!NoState
    <3>3. network' = kept /\ network' \in State /\ network'.trial = trial /\ network'.tuned = 0
      BY <2>1, <2>2, <3>1, <3>2 DEF State
    <3>4. [network' EXCEPT !.tuned = 0] = kept
      BY <3>1, <3>3
    <3>. QED  BY <1>1, <1>2, <2>1, <3>3, <3>4 DEF RInv, RunTypes, TrainedAs, Phases
  <2>. QED  BY <2>3, <2>4
<1>4. CASE Training!FineTune
  <2>1. /\ network' = [network EXCEPT !.tuned = @ + 1] /\ phase = "tune"
        /\ phase' = IF network.tuned + 1 = TuneEpochs THEN "trained" ELSE "tune"
    BY <1>4 DEF Training!FineTune
  <2>2. network \in State /\ network.tuned \in Nat /\ network.trial = trial /\ network.tuned < TuneEpochs
    BY <2>1 DEF RInv, RunTypes, State, TrainedAs
  <2>3. network' \in State /\ network'.trial = trial /\ network'.tuned = network.tuned + 1
    BY <2>1, <2>2 DEF State
  <2>4. [network' EXCEPT !.tuned = 0] = [network EXCEPT !.tuned = 0]
    BY <2>1, <2>2 DEF State
  <2>5. TrainedAs'
    BY <1>1, <2>1, <2>2, <2>3, <2>4, TrainingAssumption DEF RInv, TrainedAs
  <2>6. RunTypes'
    BY <1>1, <2>1, <2>3 DEF RInv, RunTypes, Phases
  <2>. QED  BY <1>2, <2>5, <2>6 DEF RInv
<1>5. CASE (\E score \in Scores : Training!Score(score)) \/ UNCHANGED Training!vars
  <2>1. network' = network /\ (phase' = phase \/ (phase = "trained" /\ phase' \in {"next", "done"}))
    BY <1>5 DEF Training!Score, Training!vars, Training!run
  <2>. QED  BY <1>1, <1>2, <2>1 DEF RInv, RunTypes, TrainedAs, Phases
<1>. QED  BY <1>3, <1>4, <1>5

LEMMA Appended ==
  ASSUME NEW S, NEW s \in Seq(S), NEW x \in S
  PROVE  /\ Append(s, x) \in Seq(S) /\ Len(Append(s, x)) = Len(s) + 1
         /\ Append(s, x)[Len(s) + 1] = x
         /\ \A i \in 1 .. Len(s) : Append(s, x)[i] = s[i]
OBVIOUS

LEMMA EpochHolds ==
  ASSUME RInv, NEW val \in Scores, Training!Epoch(val)
  PROVE  RInv'
<1>. DEFINE epoch == Len(history)
            row == [val |-> val, strength |-> Training!Upper(epoch)]
            trained == [trial |-> trial, synthetic |-> epoch + 1, tuned |-> 0]
<1>1. /\ phase = "epochs" /\ epoch < Epochs /\ epoch \in Nat /\ trial \in Nat
      /\ history \in Seq(Validated) /\ val \in Nat /\ val \in Scores
      /\ network = [trial |-> trial, synthetic |-> epoch, tuned |-> 0]
      /\ drawn \in [Training!Stream -> Nat]
  BY TrainingAssumption DEF RInv, RunTypes, TrainedAs, Training!Epoch
<1>2. /\ drawn' = [i \in Training!Stream |-> drawn[i] + (IF i \in Training!Slice(epoch) THEN 1 ELSE 0)]
      /\ history' = Append(history, row) /\ phase' = phase /\ trial' = trial
      /\ IF val > best.val
         THEN best' = [val |-> val, epoch |-> epoch] /\ kept' = trained /\ checkpoint' = trained
         ELSE best' = best /\ kept' = kept /\ checkpoint' = checkpoint
  BY <1>1 DEF Training!Epoch, Training!Better
<1>3. network' = trained
  BY <1>1 DEF Training!Epoch
<1>4. row \in Validated /\ row.val = val /\ row.strength = Training!Upper(epoch)
  BY <1>1, UpperIsInt DEF Validated
<1>. HIDE DEF row
<1>5. /\ history' \in Seq(Validated) /\ Len(history') = epoch + 1
      /\ history' # <<>> /\ history'[epoch + 1] = row
      /\ \A e \in 1 .. epoch : history'[e] = history[e]
      /\ \A e \in 1 .. epoch : history[e].val \in Nat
  <2>1. /\ history' \in Seq(Validated) /\ Len(history') = epoch + 1 /\ history'[epoch + 1] = row
        /\ \A e \in 1 .. epoch : history'[e] = history[e]
    BY <1>1, <1>2, <1>4, Appended
  <2>2. \A e \in 1 .. epoch : history[e] \in Validated
    BY <1>1
  <2>3. \A v \in Validated : v.val \in Nat
    BY TrainingAssumption DEF Validated
  <2>. QED  BY <1>1, <2>1, <2>2, <2>3
<1>6. trained \in State /\ trained.trial = trial
  BY <1>1 DEF State
<1>7. RunTypes'
  <2>1. drawn' \in [Training!Stream -> Nat]
    BY <1>1, <1>2
  <2>. QED  BY <1>1, <1>2, <1>3, <1>5, <1>6, <2>1, TrainingAssumption DEF RunTypes, Phases
<1>8. Drawn'
  <2>1. ASSUME NEW i \in Training!Stream
        PROVE  drawn'[i] = IF i < Len(history') * EpochSize THEN 1 ELSE 0
    <3>1. i \in Nat
      BY RunBegins
    <3>2. /\ i < (epoch + 1) * EpochSize <=> i < epoch * EpochSize \/ i \in Training!Slice(epoch)
          /\ i \in Training!Slice(epoch) => ~ i < epoch * EpochSize
      BY <1>1, <3>1, NextSlice
    <3>3. drawn[i] = IF i < epoch * EpochSize THEN 1 ELSE 0
      BY DEF RInv, Drawn
    <3>4. drawn'[i] = drawn[i] + (IF i \in Training!Slice(epoch) THEN 1 ELSE 0)
      BY <1>2
    <3>. QED  BY <1>5, <3>2, <3>3, <3>4
  <2>2. \A e \in 1 .. epoch + 1 : history'[e].strength = Training!Upper(e - 1)
    BY <1>1, <1>4, <1>5 DEF RInv, Drawn
  <2>. QED  BY <1>5, <2>1, <2>2 DEF Drawn
<1>9. BestSoFar'
  <2>1. CASE history = <<>>
    <3>1. epoch = 0 /\ best.val = -1
      BY <2>1 DEF RInv, BestSoFar, Training!NoBest
    <3>2. best' = [val |-> val, epoch |-> 0] /\ kept' = trained /\ checkpoint' = trained
      BY <1>1, <1>2, <3>1
    <3>. QED  BY <1>1, <1>2, <1>4, <1>5, <3>1, <3>2 DEF BestSoFar
  <2>2. CASE history # <<>>
    <3>1. /\ best.epoch \in 0 .. epoch - 1
          /\ \A e \in 1 .. epoch : e - 1 # best.epoch =>
               history[e].val <= best.val /\ (history[e].val = best.val => best.epoch < e - 1)
          /\ history[best.epoch + 1].val = best.val
          /\ kept = [trial |-> trial, synthetic |-> best.epoch + 1, tuned |-> 0] /\ checkpoint = kept
      BY <2>2 DEF RInv, BestSoFar
    <3>2. best.val \in Nat /\ \A e \in 1 .. epoch : history[e].val <= best.val
      BY <1>1, <1>5, <3>1
    <3>3. CASE val > best.val
      <4>1. best'.val = val /\ best'.epoch = epoch /\ kept' = trained /\ checkpoint' = trained
        BY <1>2, <3>3
      <4>2. ASSUME NEW e \in 1 .. epoch PROVE history'[e].val < val
        <5>1. history'[e] = history[e] /\ history[e].val \in Nat /\ history[e].val <= best.val
          BY <1>5, <3>2
        <5>. QED  BY <1>1, <3>2, <3>3, <5>1
      <4>3. \A e \in 1 .. epoch + 1 : e - 1 # epoch => e \in 1 .. epoch
        BY <1>1
      <4>4. \A e \in 1 .. Len(history') : e - 1 # epoch =>
              history'[e].val <= val /\ (history'[e].val = val => epoch < e - 1)
        BY <1>1, <1>5, <4>2, <4>3
      <4>. QED  BY <1>1, <1>2, <1>4, <1>5, <4>1, <4>4 DEF BestSoFar
    <3>4. CASE ~ val > best.val
      <4>1. best' = best /\ kept' = kept /\ checkpoint' = checkpoint
        BY <1>2, <3>4
      <4>2. ASSUME NEW e \in 1 .. epoch + 1, e - 1 # best.epoch
            PROVE  history'[e].val <= best.val /\ (history'[e].val = best.val => best.epoch < e - 1)
        <5>1. CASE e = epoch + 1
          BY <1>1, <1>4, <1>5, <3>1, <3>2, <3>4, <5>1
        <5>2. CASE e # epoch + 1
          <6>1. e \in 1 .. epoch
            BY <1>1, <5>2
          <6>. QED  BY <1>5, <3>1, <4>2, <6>1
        <5>. QED  BY <5>1, <5>2
      <4>3. best.epoch + 1 \in 1 .. epoch /\ best.epoch \in 0 .. epoch
        BY <1>1, <3>1
      <4>4. history'[best.epoch + 1].val = best.val
        BY <1>5, <3>1, <4>3
      <4>. QED  BY <1>1, <1>2, <1>5, <3>1, <4>1, <4>2, <4>3, <4>4 DEF BestSoFar
    <3>. QED  BY <3>3, <3>4
  <2>. QED  BY <2>1, <2>2
<1>10. TrainedAs'
  BY <1>1, <1>2, <1>3, <1>5 DEF TrainedAs
<1>. QED  BY <1>7, <1>8, <1>9, <1>10 DEF RInv

LEMMA TrainingInvariant == Training!Spec => []RInv
<1>1. RInv /\ [Training!Next]_Training!vars => RInv'
  BY EpochHolds, NextTrialHolds, OtherStepsHold DEF Training!Next
<1>. QED  BY <1>1, TrainingInit, PTL DEF Training!Spec

\* For every number and size of epochs, validations and trials: what a training returns
\* is the state after its earliest best epoch, which is also in its checkpoint, and
\* every crop of its stream was drawn once, at the strength of the crop's epoch.
THEOREM TrainingReturnsTheBest == Training!Spec => []ReturnsTheBest
<1>1. ASSUME RInv PROVE ReturnsTheBest
  <2>. SUFFICES ASSUME phase \in {"trained", "next", "done"}, Epochs > 0
       PROVE  /\ \A e \in 1 .. Epochs : e - 1 # best.epoch =>
                   history[e].val <= best.val /\ (history[e].val = best.val => best.epoch < e - 1)
              /\ history[best.epoch + 1].val = best.val
              /\ checkpoint = [trial |-> trial, synthetic |-> best.epoch + 1, tuned |-> 0]
              /\ [network EXCEPT !.tuned = 0] = checkpoint
              /\ network.tuned \in {0, TuneEpochs}
              /\ \A i \in Training!Stream : drawn[i] = 1 /\ Training!Strength(i) = history[i \div EpochSize + 1].strength
    BY DEF ReturnsTheBest, Training!ReturnsTheBest
  <2>1. Len(history) = Epochs /\ history # <<>>
    BY <1>1 DEF RInv, TrainedAs
  <2>2. ASSUME NEW i \in Training!Stream
        PROVE  drawn[i] = 1 /\ Training!Strength(i) = history[i \div EpochSize + 1].strength
    <3>1. i \in Nat /\ i < Epochs * EpochSize
      BY RunBegins
    <3>2. i \div EpochSize \in 0 .. Epochs - 1
      BY <3>1, EpochOf, TrainingAssumption
    <3>3. i \div EpochSize + 1 \in 1 .. Epochs /\ (i \div EpochSize + 1) - 1 = i \div EpochSize
      BY <3>2, TrainingAssumption
    <3>. QED  BY <1>1, <2>1, <3>1, <3>3 DEF RInv, Drawn, Training!Strength
  <2>. QED  BY <1>1, <2>1, <2>2 DEF RInv, BestSoFar, TrainedAs
<1>. QED  BY <1>1, TrainingInvariant, PTL

-----------------------------------------------------------------------------
(***************************************************************************)
(* The sets of crops and the evaluations that read them.                   *)
(***************************************************************************)
MaybeSample == CropSets!Samples \cup {None}
Item == [image : MaybeSample, truth : MaybeSample]
Read == [version : Versions \cup {None}, image : MaybeSample]
Evaluation ==
  [pc : {"idle", "load", "kind", "read", "put"}, version : Versions \cup {None}, rows : Rows,
   items : Seq(Item), kind : {"data", "synthetic", "pseudo_real"}, reads : Seq(Read),
   of : CropSets!Set \cup {None}]

SetTypes ==
  /\ crops \in Rows /\ labelRows \in Rows
  /\ generator \in [pc : {"idle", "crops", "labels", "manifest"}, set : CropSets!Set \cup {None}, next : Nat]
  /\ generator.pc # "idle" => generator.set \in CropSets!Set /\ generator.next > 0
  /\ finished \in CropSets!Set \cup {None}

\* What a generation has written so far is of its set, and nothing is finished meanwhile.
Written ==
  /\ generator.pc # "idle" => finished = None
  /\ \A i \in CropSets!Indices :
       generator.pc \in {"labels", "manifest"} \/ (generator.pc = "crops" /\ i < generator.next) =>
         crops[i] = CropSets!Sample(generator.set, i)
  /\ generator.pc = "manifest" =>
       \A i \in CropSets!Indices : labelRows[i] = CropSets!Sample(generator.set, i)

KindOf(set) == IF set.kind = "crop" THEN "synthetic" ELSE "pseudo_real"

\* What an evaluation has in memory.
Sound(r) ==
  /\ r \in Evaluation
  /\ r.pc = "load" => Len(r.items) < Size
  /\ r.pc \in {"kind", "read", "put"} => Len(r.items) = Size
  /\ r.pc \in {"idle", "load", "kind"} => r.reads = <<>>
  /\ Len(r.reads) <= Size /\ (r.pc = "put" => Len(r.reads) < Size)
  /\ \A i \in 1 .. Len(r.reads) : r.reads[i] = CropSets!Reading(r.version, r.items[i].image)
  /\ r.of # None =>
       /\ \A i \in CropSets!Indices : r.rows[i] = CropSets!Sample(r.of, i)
       /\ \A i \in 1 .. Len(r.items) : /\ r.items[i].image = CropSets!Sample(r.of, i)
                                       /\ r.items[i].truth = CropSets!Sample(r.of, i)
       /\ r.pc \in {"read", "put"} => r.kind = KindOf(r.of)

InMemory == /\ DOMAIN evaluation = Evaluations
            /\ \A e \in Evaluations : Sound(evaluation[e])

CacheIsTrue == \A c \in cache : c.read = CropSets!Reading(c.key.version, c.key.image)

SInv == SetTypes /\ Written /\ CropSets!FinishedSetFits /\ InMemory /\ CacheIsTrue
        /\ CropSets!ResultsAreReproducible
-----------------------------------------------------------------------------
LEMMA IdleIsSound == Sound(CropSets!Idle)
BY SetsAssumption DEF Sound, CropSets!Idle, Evaluation, Rows, CropSets!NoSet, Item, Read

LEMMA SetsInit == CropSets!Init => SInv
<1>. SUFFICES ASSUME CropSets!Init PROVE SInv
  OBVIOUS
<1>. USE DEF CropSets!Init
<1>1. SetTypes /\ Written
  BY DEF SetTypes, Written, Rows, CropSets!NoSet, CropSets!Resting
<1>2. CropSets!FinishedSetFits /\ CacheIsTrue /\ CropSets!ResultsAreReproducible
  BY DEF CropSets!FinishedSetFits, CacheIsTrue, CropSets!ResultsAreReproducible
<1>3. InMemory
  BY IdleIsSound DEF InMemory
<1>. QED  BY <1>1, <1>2, <1>3 DEF SInv

LEMMA GenerateHolds ==
  ASSUME SInv, NEW set \in CropSets!Set, CropSets!Generate(set)
  PROVE  SInv'
<1>. USE DEF CropSets!Generate, CropSets!folder
<1>1. SetTypes'
  BY DEF SInv, SetTypes
<1>2. Written'
  BY DEF Written, CropSets!Indices
<1>3. CropSets!FinishedSetFits' /\ InMemory' /\ CacheIsTrue' /\ CropSets!ResultsAreReproducible'
  BY DEF SInv, CropSets!FinishedSetFits, InMemory, CacheIsTrue, CropSets!ResultsAreReproducible
<1>. QED  BY <1>1, <1>2, <1>3 DEF SInv

LEMMA SaveCropHolds ==
  ASSUME SInv, CropSets!SaveCrop
  PROVE  SInv'
<1>. DEFINE next == generator.next
            set == generator.set
<1>1. /\ generator.pc = "crops" /\ set \in CropSets!Set /\ next \in Nat /\ next > 0 /\ finished = None
      /\ crops \in Rows
  BY DEF SInv, SetTypes, Written, CropSets!SaveCrop
<1>2. crops' = [crops EXCEPT ![next] = CropSets!Sample(set, next)]
  BY DEF CropSets!SaveCrop, CropSets!Saved
<1>3. generator' = IF next = Size THEN [generator EXCEPT !.pc = "labels"]
                   ELSE [generator EXCEPT !.next = next + 1]
  BY DEF CropSets!SaveCrop
<1>4. finished' = finished /\ labelRows' = labelRows /\ manifest' = manifest /\ evaluation' = evaluation
      /\ cache' = cache /\ reports' = reports
  BY DEF CropSets!SaveCrop
<1>5. crops' \in Rows
  <2>1. next \in CropSets!Indices => CropSets!Sample(set, next) \in CropSets!Samples
    BY <1>1 DEF CropSets!Samples
  <2>. QED  BY <1>1, <1>2, <2>1 DEF Rows
<1>6. SetTypes'
  BY <1>1, <1>3, <1>4, <1>5 DEF SInv, SetTypes
<1>7. \A i \in CropSets!Indices : i < next \/ i = next => crops'[i] = CropSets!Sample(set, i)
  BY <1>1, <1>2 DEF SInv, Written, Rows
<1>8. Written'
  <2>1. generator'.set = set /\ generator'.pc \in {"crops", "labels"}
    BY <1>1, <1>3 DEF SInv, SetTypes
  <2>2. ASSUME NEW i \in CropSets!Indices,
               generator'.pc = "labels" \/ (generator'.pc = "crops" /\ i < generator'.next)
        PROVE  i < next \/ i = next
    <3>1. i \in Nat /\ i <= Size /\ Size \in Nat
      BY SetsAssumption DEF CropSets!Indices
    <3>2. CASE next = Size
      BY <1>1, <3>1, <3>2
    <3>3. CASE next # Size
      <4>1. generator'.pc = "crops" /\ generator'.next = next + 1
        BY <1>1, <1>3, <3>3 DEF SInv, SetTypes
      <4>. QED  BY <1>1, <2>2, <3>1, <4>1
    <3>. QED  BY <3>2, <3>3
  <2>. QED  BY <1>1, <1>4, <1>7, <2>1, <2>2 DEF Written
<1>9. CropSets!FinishedSetFits' /\ InMemory' /\ CacheIsTrue' /\ CropSets!ResultsAreReproducible'
  BY <1>1, <1>4 DEF SInv, CropSets!FinishedSetFits, InMemory, CacheIsTrue, CropSets!ResultsAreReproducible
<1>. QED  BY <1>6, <1>8, <1>9 DEF SInv

LEMMA WriteLabelsHolds ==
  ASSUME SInv, CropSets!WriteLabels
  PROVE  SInv'
<1>1. /\ generator.pc = "labels" /\ generator.set \in CropSets!Set /\ finished = None
      /\ generator' = [generator EXCEPT !.pc = "manifest"]
      /\ labelRows' = [i \in CropSets!Indices |-> CropSets!Sample(generator.set, i)]
      /\ UNCHANGED <<crops, manifest, cache, evaluation, reports, finished>>
  BY DEF SInv, SetTypes, Written, CropSets!WriteLabels
<1>2. generator'.pc = "manifest" /\ generator'.set = generator.set /\ generator'.next = generator.next
  BY <1>1 DEF SInv, SetTypes
<1>3. labelRows' \in Rows
  BY <1>1 DEF Rows, CropSets!Samples
<1>4. SetTypes'
  BY <1>1, <1>2, <1>3 DEF SInv, SetTypes
<1>5. Written'
  BY <1>1, <1>2 DEF SInv, Written
<1>6. CropSets!FinishedSetFits' /\ InMemory' /\ CacheIsTrue' /\ CropSets!ResultsAreReproducible'
  BY <1>1 DEF SInv, CropSets!FinishedSetFits, InMemory, CacheIsTrue, CropSets!ResultsAreReproducible
<1>. QED  BY <1>4, <1>5, <1>6 DEF SInv

LEMMA WriteManifestHolds ==
  ASSUME SInv, CropSets!WriteManifest
  PROVE  SInv'
<1>1. /\ generator.pc = "manifest" /\ generator.set \in CropSets!Set
      /\ generator' = CropSets!Resting /\ finished' = generator.set
      /\ manifest' = [set |-> generator.set, digest |-> <<crops, labelRows>>]
      /\ UNCHANGED <<crops, labelRows, cache, evaluation, reports>>
  BY DEF SInv, SetTypes, CropSets!WriteManifest
<1>2. SetTypes' /\ Written'
  BY <1>1 DEF SInv, SetTypes, Written, CropSets!Resting
<1>3. CropSets!FinishedSetFits'
  BY <1>1 DEF SInv, Written, CropSets!FinishedSetFits
<1>4. InMemory' /\ CacheIsTrue' /\ CropSets!ResultsAreReproducible'
  BY <1>1 DEF SInv, InMemory, CacheIsTrue, CropSets!ResultsAreReproducible
<1>. QED  BY <1>2, <1>3, <1>4 DEF SInv

LEMMA KillGeneratorHolds ==
  ASSUME SInv, CropSets!KillGenerator
  PROVE  SInv'
<1>1. generator' = CropSets!Resting /\ UNCHANGED <<crops, labelRows, manifest, cache, evaluation, reports, finished>>
  BY DEF CropSets!KillGenerator, CropSets!folder
<1>2. SetTypes' /\ Written'
  BY <1>1 DEF SInv, SetTypes, Written, CropSets!Resting
<1>3. CropSets!FinishedSetFits' /\ InMemory' /\ CacheIsTrue' /\ CropSets!ResultsAreReproducible'
  BY <1>1 DEF SInv, CropSets!FinishedSetFits, InMemory, CacheIsTrue, CropSets!ResultsAreReproducible
<1>. QED  BY <1>2, <1>3 DEF SInv

-----------------------------------------------------------------------------
\* What is kept when one evaluation goes on and the folder stays.
LEMMA OneGoesOn ==
  ASSUME SInv, NEW e \in Evaluations, NEW r, Sound(r),
         evaluation' = [evaluation EXCEPT ![e] = r],
         UNCHANGED <<crops, labelRows, manifest, generator, finished>>
  PROVE  SetTypes' /\ Written' /\ CropSets!FinishedSetFits' /\ InMemory'
<1>1. SetTypes' /\ Written' /\ CropSets!FinishedSetFits'
  BY DEF SInv, SetTypes, Written, CropSets!FinishedSetFits
<1>2. InMemory'
  BY DEF SInv, InMemory
<1>. QED  BY <1>1, <1>2

\* The reports and the cache when neither is touched.
LEMMA NothingSaid ==
  ASSUME SInv, UNCHANGED <<cache, reports>>
  PROVE  CacheIsTrue' /\ CropSets!ResultsAreReproducible'
BY DEF SInv, CacheIsTrue, CropSets!ResultsAreReproducible

LEMMA EvaluateHolds ==
  ASSUME SInv, NEW e \in Evaluations, NEW version \in Versions, CropSets!Evaluate(e, version)
  PROVE  SInv'
<1>. DEFINE r == [CropSets!Idle EXCEPT !.pc = "load", !.version = version, !.rows = labelRows, !.of = finished]
<1>1. /\ evaluation' = [evaluation EXCEPT ![e] = r] /\ labelRows # CropSets!NoSet
      /\ UNCHANGED <<crops, labelRows, manifest, generator, finished, cache, reports>>
  BY DEF CropSets!Evaluate, CropSets!folder
<1>2. /\ r.pc = "load" /\ r.version = version /\ r.rows = labelRows /\ r.items = <<>> /\ r.kind = "data"
      /\ r.reads = <<>> /\ r.of = finished
  BY DEF CropSets!Idle
<1>3. labelRows \in Rows /\ finished \in CropSets!Set \cup {None}
  BY DEF SInv, SetTypes
<1>4. Size \in Nat /\ 0 < Size
  <2>1. CropSets!Indices # {}
    BY <1>1, <1>3 DEF Rows, CropSets!NoSet
  <2>. QED  BY <2>1, SetsAssumption DEF CropSets!Indices
<1>5. finished # None => \A i \in CropSets!Indices : labelRows[i] = CropSets!Sample(finished, i)
  BY DEF SInv, CropSets!FinishedSetFits
<1>6. r \in Evaluation
  <2>. DEFINE idle == CropSets!Idle
  <2>1. idle \in Evaluation
    BY IdleIsSound DEF Sound
  <2>. HIDE DEF idle
  <2>2. [idle EXCEPT !.pc = "load", !.version = version, !.rows = labelRows, !.of = finished] \in Evaluation
    BY <1>3, <2>1 DEF Evaluation
  <2>. QED  BY <2>2 DEF idle
<1>. HIDE DEF r
<1>7. Sound(r)
  BY <1>2, <1>4, <1>5, <1>6 DEF Sound
<1>8. SetTypes' /\ Written' /\ CropSets!FinishedSetFits' /\ InMemory'
  BY <1>1, <1>7, OneGoesOn
<1>. QED  BY <1>1, <1>8, NothingSaid DEF SInv

LEMMA ItemAppended ==
  ASSUME NEW S, NEW s \in Seq(S), NEW x \in S
  PROVE  /\ Append(s, x) \in Seq(S) /\ Len(s) \in Nat /\ Len(Append(s, x)) = Len(s) + 1
         /\ Append(s, x)[Len(s) + 1] = x /\ \A i \in 1 .. Len(s) : Append(s, x)[i] = s[i]
         /\ \A i \in 1 .. Len(s) : s[i] \in S
         /\ \A i \in 1 .. Len(s) + 1 : i \in 1 .. Len(s) \/ i = Len(s) + 1
OBVIOUS

LEMMA LoadItemHolds ==
  ASSUME SInv, NEW e \in Evaluations, CropSets!LoadItem(e)
  PROVE  SInv'
<1>. DEFINE old == evaluation[e]
            n == Len(old.items) + 1
            item == [image |-> crops[n], truth |-> old.rows[n]]
            items == Append(old.items, item)
            step == IF n = Size THEN "kind" ELSE "load"
            of == CropSets!StillOf(e)
            r == [old EXCEPT !.items = items, !.pc = step, !.of = of]
<1>1. Sound(old) /\ old.pc = "load" /\ DOMAIN evaluation = Evaluations
  BY DEF SInv, InMemory, CropSets!LoadItem
<1>2. old \in Evaluation
  BY <1>1 DEF Sound
<1>3. /\ evaluation' = [evaluation EXCEPT ![e] = r]
      /\ UNCHANGED <<crops, labelRows, manifest, generator, finished, cache, reports>>
  BY <1>1 DEF CropSets!LoadItem, CropSets!folder
<1>4. /\ old.items \in Seq(Item) /\ Len(old.items) \in Nat /\ Len(old.items) < Size /\ Size \in Nat
      /\ old.rows \in Rows /\ old.reads = <<>> /\ crops \in Rows
      /\ finished \in CropSets!Set \cup {None}
  BY <1>1, <1>2, SetsAssumption DEF Evaluation, Sound, SInv, SetTypes
<1>5. n \in CropSets!Indices /\ n \in Nat /\ n <= Size
  BY <1>4 DEF CropSets!Indices
<1>6. item \in Item
  BY <1>4, <1>5 DEF Item, Rows, MaybeSample
<1>7. of # None => of = finished /\ of = old.of
  BY DEF CropSets!StillOf
<1>8. of \in CropSets!Set \cup {None}
  BY <1>4, <1>7
<1>9. of # None => /\ \A i \in CropSets!Indices : old.rows[i] = CropSets!Sample(of, i)
                   /\ \A i \in 1 .. Len(old.items) : /\ old.items[i].image = CropSets!Sample(of, i)
                                                     /\ old.items[i].truth = CropSets!Sample(of, i)
                   /\ crops[n] = CropSets!Sample(of, n)
  BY <1>1, <1>5, <1>7 DEF Sound, SInv, CropSets!FinishedSetFits
<1>. HIDE DEF old, item, of
<1>10. /\ items \in Seq(Item) /\ Len(items) = n /\ items[n] = item
       /\ \A i \in 1 .. Len(old.items) : items[i] = old.items[i]
       /\ \A i \in 1 .. n : i \in 1 .. Len(old.items) \/ i = n
  BY <1>4, <1>6, ItemAppended
<1>. HIDE DEF items, n
<1>11. Sound(r)
  <2>0. /\ r.pc = step /\ r.version = old.version /\ r.rows = old.rows /\ r.items = items
        /\ r.reads = old.reads /\ r.of = of
    BY <1>2 DEF Evaluation
  <2>1. r \in Evaluation
    BY <1>2, <1>8, <1>10 DEF Evaluation
  <2>2. of # None => \A i \in 1 .. Len(items) : /\ items[i].image = CropSets!Sample(of, i)
                                                /\ items[i].truth = CropSets!Sample(of, i)
    BY <1>5, <1>9, <1>10 DEF item
  <2>3. step = "load" => Len(items) < Size
    BY <1>4, <1>5, <1>10
  <2>4. step = "kind" => Len(items) = Size
    BY <1>10
  <2>. HIDE DEF r
  <2>. QED  BY <1>4, <1>9, <2>0, <2>1, <2>2, <2>3, <2>4 DEF Sound
<1>. HIDE DEF r
<1>12. SetTypes' /\ Written' /\ CropSets!FinishedSetFits' /\ InMemory'
  BY <1>3, <1>11, OneGoesOn
<1>. QED  BY <1>3, <1>12, NothingSaid DEF SInv

LEMMA LoadKindHolds ==
  ASSUME SInv, NEW e \in Evaluations, CropSets!LoadKind(e)
  PROVE  SInv'
<1>. DEFINE old == evaluation[e]
            kind == CropSets!FolderKind
            of == CropSets!StillOf(e)
            r == [old EXCEPT !.kind = kind, !.pc = "read", !.of = of]
<1>1. Sound(old) /\ old.pc = "kind" /\ DOMAIN evaluation = Evaluations /\ old \in Evaluation
  BY DEF SInv, InMemory, CropSets!LoadKind, Sound
<1>2. /\ evaluation' = [evaluation EXCEPT ![e] = r]
      /\ UNCHANGED <<crops, labelRows, manifest, generator, finished, cache, reports>>
  BY <1>1 DEF CropSets!LoadKind, CropSets!folder
<1>3. of # None => of = finished /\ of = old.of /\ finished \in CropSets!Set
  BY DEF CropSets!StillOf, SInv, SetTypes
<1>4. kind \in {"data", "synthetic", "pseudo_real"} /\ of \in CropSets!Set \cup {None}
  BY <1>3 DEF CropSets!FolderKind
<1>5. of # None => kind = KindOf(of)
  <2>. SUFFICES ASSUME of # None PROVE kind = KindOf(of)
    OBVIOUS
  <2>1. of \in CropSets!Set /\ manifest = [set |-> of, digest |-> <<crops, labelRows>>]
    BY <1>3 DEF SInv, CropSets!FinishedSetFits
  <2>2. manifest \in Manifest
    BY <2>1 DEF Manifest, SInv, SetTypes
  <2>3. manifest # None /\ manifest.set = of
    BY <2>1, <2>2, SetsAssumption
  <2>4. of.kind \in {"crop", "pseudo_real"}
    BY <2>1 DEF CropSets!Set, CropSets!Kinds
  <2>. QED  BY <2>3, <2>4 DEF KindOf, CropSets!FolderKind
<1>. HIDE DEF kind, of, old
<1>6. /\ r.pc = "read" /\ r.kind = kind /\ r.of = of /\ r.items = old.items /\ r.reads = old.reads
      /\ r.rows = old.rows /\ r.version = old.version /\ r \in Evaluation
  BY <1>1, <1>4 DEF Evaluation
<1>. HIDE DEF r
<1>7. Sound(r)
  BY <1>1, <1>3, <1>5, <1>6, SetsAssumption DEF Sound
<1>8. SetTypes' /\ Written' /\ CropSets!FinishedSetFits' /\ InMemory'
  BY <1>2, <1>7, OneGoesOn
<1>. QED  BY <1>2, <1>8, NothingSaid DEF SInv

\* One more read, from the cache or not.
LEMMA GotHolds ==
  ASSUME SInv, NEW e \in Evaluations, NEW read, evaluation[e].pc \in {"read", "put"},
         Len(evaluation[e].reads) < Size,
         read = CropSets!Reading(evaluation[e].version, CropSets!NextImage(e)),
         evaluation' = CropSets!Got(e, read),
         UNCHANGED <<crops, labelRows, manifest, generator, finished>>
  PROVE  SetTypes' /\ Written' /\ CropSets!FinishedSetFits' /\ InMemory'
<1>. DEFINE old == evaluation[e]
            n == Len(old.reads) + 1
            reads == Append(old.reads, read)
            r == [old EXCEPT !.reads = reads, !.pc = "read"]
<1>1. /\ Sound(old) /\ old.pc \in {"read", "put"} /\ DOMAIN evaluation = Evaluations /\ old \in Evaluation
      /\ Len(old.reads) < Size
  BY DEF SInv, InMemory, Sound
<1>2. evaluation' = [evaluation EXCEPT ![e] = r]
  BY <1>1 DEF CropSets!Got
<1>3. /\ old.reads \in Seq(Read) /\ old.items \in Seq(Item) /\ Len(old.items) = Size /\ Size \in Nat
      /\ old.version \in Versions \cup {None}
  BY <1>1, SetsAssumption DEF Sound, Evaluation
<1>4. n \in 1 .. Len(old.items) /\ n <= Size
  BY <1>1, <1>3
<1>5. read = CropSets!Reading(old.version, old.items[n].image)
  BY DEF CropSets!NextImage
<1>6. read \in Read
  <2>1. old.items[n] \in Item
    BY <1>3, <1>4
  <2>. QED  BY <1>3, <1>5, <2>1 DEF Item, Read, CropSets!Reading
<1>. HIDE DEF old
<1>7. /\ reads \in Seq(Read) /\ Len(reads) = n /\ reads[n] = read
      /\ \A i \in 1 .. Len(old.reads) : reads[i] = old.reads[i]
      /\ \A i \in 1 .. n : i \in 1 .. Len(old.reads) \/ i = n
  BY <1>3, <1>6, ItemAppended
<1>. HIDE DEF reads, n
<1>8. /\ r.pc = "read" /\ r.kind = old.kind /\ r.of = old.of /\ r.items = old.items /\ r.reads = reads
      /\ r.rows = old.rows /\ r.version = old.version /\ r \in Evaluation
  BY <1>1, <1>7 DEF Evaluation
<1>. HIDE DEF r
<1>9. \A i \in 1 .. Len(reads) : reads[i] = CropSets!Reading(old.version, old.items[i].image)
  BY <1>1, <1>5, <1>7 DEF Sound
<1>10. Sound(r)
  BY <1>1, <1>3, <1>4, <1>7, <1>8, <1>9 DEF Sound
<1>. QED  BY <1>2, <1>10, OneGoesOn

LEMMA HitHolds ==
  ASSUME SInv, NEW e \in Evaluations, CropSets!Hit(e)
  PROVE  SInv'
<1>1. PICK c \in cache : c.key = CropSets!NextKey(e) /\ evaluation' = CropSets!Got(e, c.read)
  BY DEF CropSets!Hit
<1>2. /\ evaluation[e].pc = "read" /\ Len(evaluation[e].reads) < Size
      /\ UNCHANGED <<crops, labelRows, manifest, generator, finished, cache, reports>>
  BY DEF CropSets!Hit, CropSets!Reads, CropSets!folder
<1>3. c.read = CropSets!Reading(evaluation[e].version, CropSets!NextImage(e))
  BY <1>1 DEF SInv, CacheIsTrue, CropSets!NextKey, CropSets!KeyOf
<1>4. SetTypes' /\ Written' /\ CropSets!FinishedSetFits' /\ InMemory'
  BY <1>1, <1>2, <1>3, GotHolds
<1>. QED  BY <1>2, <1>4, NothingSaid DEF SInv

LEMMA MissHolds ==
  ASSUME SInv, NEW e \in Evaluations, CropSets!Miss(e)
  PROVE  SInv'
<1>. DEFINE old == evaluation[e]
            r == [old EXCEPT !.pc = "put"]
<1>1. /\ Sound(old) /\ old.pc = "read" /\ DOMAIN evaluation = Evaluations /\ old \in Evaluation
      /\ Len(old.reads) < Size
  BY DEF SInv, InMemory, Sound, CropSets!Miss, CropSets!Reads
<1>2. /\ evaluation' = [evaluation EXCEPT ![e] = r]
      /\ UNCHANGED <<crops, labelRows, manifest, generator, finished, cache, reports>>
  BY <1>1 DEF CropSets!Miss, CropSets!folder
<1>. HIDE DEF old
<1>3. /\ r.pc = "put" /\ r.kind = old.kind /\ r.of = old.of /\ r.items = old.items /\ r.reads = old.reads
      /\ r.rows = old.rows /\ r.version = old.version /\ r \in Evaluation
  BY <1>1 DEF Evaluation
<1>. HIDE DEF r
<1>4. Sound(r)
  BY <1>1, <1>3 DEF Sound
<1>5. SetTypes' /\ Written' /\ CropSets!FinishedSetFits' /\ InMemory'
  BY <1>2, <1>4, OneGoesOn
<1>. QED  BY <1>2, <1>5, NothingSaid DEF SInv

LEMMA PutHolds ==
  ASSUME SInv, NEW e \in Evaluations, CropSets!Put(e)
  PROVE  SInv'
<1>. DEFINE key == CropSets!NextKey(e)
            read == CropSets!Reading(evaluation[e].version, CropSets!NextImage(e))
<1>1. /\ evaluation[e].pc = "put" /\ evaluation' = CropSets!Got(e, read)
      /\ cache' = {c \in cache : c.key # key} \cup {[key |-> key, read |-> read]}
      /\ UNCHANGED <<crops, labelRows, manifest, generator, finished, reports>>
  BY DEF CropSets!Put, CropSets!folder
<1>2. Len(evaluation[e].reads) < Size
  BY <1>1 DEF SInv, InMemory, Sound
<1>3. SetTypes' /\ Written' /\ CropSets!FinishedSetFits' /\ InMemory'
  BY <1>1, <1>2, GotHolds
<1>4. key.version = evaluation[e].version /\ key.image = CropSets!NextImage(e)
  BY DEF CropSets!NextKey, CropSets!KeyOf
<1>5. CacheIsTrue'
  <2>1. read = CropSets!Reading(key.version, key.image)
    BY <1>4
  <2>. HIDE DEF key, read
  <2>. QED  BY <1>1, <2>1 DEF SInv, CacheIsTrue
<1>6. CropSets!ResultsAreReproducible'
  BY <1>1 DEF SInv, CropSets!ResultsAreReproducible
<1>. QED  BY <1>3, <1>5, <1>6 DEF SInv

\* An evaluation that ends leaves nothing in memory.
LEMMA EndHolds ==
  ASSUME SInv, NEW e \in Evaluations, evaluation' = [evaluation EXCEPT ![e] = CropSets!Idle],
         UNCHANGED <<crops, labelRows, manifest, generator, finished, cache>>
  PROVE  SetTypes' /\ Written' /\ CropSets!FinishedSetFits' /\ InMemory' /\ CacheIsTrue'
<1>1. SetTypes' /\ Written' /\ CropSets!FinishedSetFits' /\ InMemory'
  BY IdleIsSound, OneGoesOn
<1>. QED  BY <1>1 DEF SInv, CacheIsTrue

LEMMA WriteReportHolds ==
  ASSUME SInv, NEW e \in Evaluations, CropSets!WriteResult(e)
  PROVE  SInv'
<1>. DEFINE old == evaluation[e]
            report == [kind |-> old.kind, labelled |-> old.kind # "data",
                       version |-> old.version, of |-> old.of,
                       pairs |-> [i \in CropSets!Indices |-> [read |-> old.reads[i], item |-> old.items[i]]]]
<1>1. Sound(old) /\ old.pc = "read" /\ Len(old.reads) = Size /\ Len(old.items) = Size
  BY DEF SInv, InMemory, Sound, CropSets!WriteResult
<1>2. /\ evaluation' = [evaluation EXCEPT ![e] = CropSets!Idle] /\ reports' = reports \cup {report}
      /\ UNCHANGED <<crops, labelRows, manifest, generator, finished, cache>>
  BY DEF CropSets!WriteResult, CropSets!folder
<1>3. SetTypes' /\ Written' /\ CropSets!FinishedSetFits' /\ InMemory' /\ CacheIsTrue'
  BY <1>2, EndHolds
<1>. HIDE DEF old
<1>4. /\ report.kind = old.kind /\ report.labelled = (old.kind # "data") /\ report.version = old.version
      /\ report.of = old.of
      /\ \A i \in CropSets!Indices : report.pairs[i].read = old.reads[i] /\ report.pairs[i].item = old.items[i]
  OBVIOUS
<1>. HIDE DEF report
<1>5. \A i \in CropSets!Indices : i \in 1 .. Len(old.reads) /\ i \in 1 .. Len(old.items)
  BY <1>1 DEF CropSets!Indices
<1>6. \A i \in CropSets!Indices :
        report.pairs[i].read = CropSets!Reading(report.version, report.pairs[i].item.image)
  BY <1>1, <1>4, <1>5 DEF Sound
<1>7. report.of # None =>
        /\ report.labelled /\ report.kind = KindOf(report.of)
        /\ \A i \in CropSets!Indices : report.pairs[i].item.truth = report.pairs[i].item.image
  <2>1. old.of # None => old.kind = KindOf(old.of)
    BY <1>1 DEF Sound
  <2>2. old.of # None => old.kind # "data"
    BY <2>1 DEF KindOf
  <2>3. old.of # None => \A i \in CropSets!Indices : old.items[i].truth = old.items[i].image
    BY <1>1, <1>5 DEF Sound
  <2>. QED  BY <1>4, <2>1, <2>2, <2>3
<1>8. CropSets!ResultsAreReproducible'
  BY <1>2, <1>6, <1>7 DEF SInv, CropSets!ResultsAreReproducible, KindOf
<1>. QED  BY <1>3, <1>8 DEF SInv

LEMMA StopHolds ==
  ASSUME SInv, NEW e \in Evaluations, CropSets!Stop(e)
  PROVE  SInv'
<1>1. /\ evaluation' = [evaluation EXCEPT ![e] = CropSets!Idle]
      /\ UNCHANGED <<crops, labelRows, manifest, generator, finished, cache, reports>>
  BY DEF CropSets!Stop, CropSets!folder
<1>2. SetTypes' /\ Written' /\ CropSets!FinishedSetFits' /\ InMemory' /\ CacheIsTrue'
  BY <1>1, EndHolds
<1>. QED  BY <1>1, <1>2, NothingSaid DEF SInv

LEMMA SetsStep == SInv /\ [CropSets!Next]_CropSets!vars => SInv'
<1>. SUFFICES ASSUME SInv, [CropSets!Next]_CropSets!vars PROVE SInv'
  OBVIOUS
<1>1. ASSUME NEW set \in CropSets!Set, CropSets!Generate(set) PROVE SInv'
  BY <1>1, GenerateHolds
<1>2. ASSUME CropSets!SaveCrop \/ CropSets!WriteLabels \/ CropSets!WriteManifest \/ CropSets!KillGenerator
      PROVE SInv'
  BY <1>2, SaveCropHolds, WriteLabelsHolds, WriteManifestHolds, KillGeneratorHolds
<1>3. ASSUME NEW e \in Evaluations, NEW version \in Versions, CropSets!Evaluate(e, version) PROVE SInv'
  BY <1>3, EvaluateHolds
<1>4. ASSUME NEW e \in Evaluations, CropSets!Work(e) PROVE SInv'
  BY <1>4, LoadItemHolds, LoadKindHolds, HitHolds, MissHolds, PutHolds, WriteReportHolds DEF CropSets!Work
<1>5. ASSUME NEW e \in Evaluations, CropSets!Stop(e) PROVE SInv'
  BY <1>5, StopHolds
<1>6. CASE UNCHANGED CropSets!vars
  BY <1>6 DEF CropSets!vars, CropSets!folder, SInv, SetTypes, Written, CropSets!FinishedSetFits, InMemory,
              CacheIsTrue, CropSets!ResultsAreReproducible
<1>. QED  BY <1>1, <1>2, <1>3, <1>4, <1>5, <1>6 DEF CropSets!Next

\* A folder of crops whose last generation ran to its end is what its manifest
\* says, whatever earlier or killed generations and running evaluations did, for
\* sets of any size (synthetic/writer.py).
THEOREM FinishedSetsFit == CropSets!Spec => []FinishedSetFits
<1>1. SInv => FinishedSetFits
  BY DEF SInv, FinishedSetFits
<1>. QED  BY <1>1, SetsInit, SetsStep, PTL DEF CropSets!Spec

\* Results can be reproduced and those of a finished set are rightly labelled,
\* for any number of evaluations that share the cache (eval/harness.py, cache.py).
THEOREM ResultsCanBeReproduced == CropSets!Spec => []ResultsAreReproducible
<1>1. SInv => ResultsAreReproducible
  BY DEF SInv, ResultsAreReproducible
<1>. QED  BY <1>1, SetsInit, SetsStep, PTL DEF CropSets!Spec

-----------------------------------------------------------------------------
(***************************************************************************)
(* The tracks of Tracker partition what the detector found, for any boxes, *)
(* overlaps, thresholds and videos.  In the middle of a frame the argument *)
(* needs to know which tracks have seen the frame: those in matched, with  *)
(* the detections that matched names.  Also: a track is closed after one   *)
(* missed frame more than max_misses, and taking the best pairs first      *)
(* leaves no pair that both sides would rather have.                       *)
(***************************************************************************)
\* Numbering the detections that are left over: by how many of them come before.
LEMMA Ranking ==
  ASSUME NEW left \in SUBSET Nat, IsFiniteSet(left)
  PROVE  /\ \A d \in left : Cardinality({e \in left : e < d}) + 1 \in 1 .. Cardinality(left)
         /\ \A c, d \in left : Cardinality({e \in left : e < c}) = Cardinality({e \in left : e < d})
                               => c = d
         /\ \A n \in 1 .. Cardinality(left) :
              \E d \in left : Cardinality({e \in left : e < d}) = n - 1
<1>. DEFINE below(d) == {e \in left : e < d}
            size == Cardinality(left)
            rank == [d \in left |-> Cardinality(below(d)) + 1]
<1>1. size \in Nat
  BY FS_CardinalityType
<1>2. ASSUME NEW d \in left
      PROVE  IsFiniteSet(below(d)) /\ Cardinality(below(d)) \in Nat /\ Cardinality(below(d)) < size
  <2>1. below(d) \in SUBSET left /\ d \notin below(d)
    OBVIOUS
  <2>2. IsFiniteSet(below(d)) /\ Cardinality(below(d)) <= size /\ (size = Cardinality(below(d)) => left = below(d))
    BY <2>1, FS_Subset
  <2>3. Cardinality(below(d)) \in Nat
    BY <2>2, FS_CardinalityType
  <2>4. Cardinality(below(d)) # size
    BY <2>1, <2>2
  <2>. QED  BY <1>1, <2>2, <2>3, <2>4
<1>3. ASSUME NEW c \in left, NEW d \in left, c < d
      PROVE  Cardinality(below(c)) < Cardinality(below(d))
  <2>0. ASSUME NEW e \in left, e < c PROVE e < d
    <3>1. e \in Nat /\ c \in Nat /\ d \in Nat
      OBVIOUS
    <3>. QED  BY <1>3, <2>0, <3>1
  <2>1. below(c) \in SUBSET below(d) /\ c \in below(d) /\ c \notin below(c)
    <3>1. below(c) \in SUBSET below(d)
      BY <2>0
    <3>2. c \in Nat /\ ~(c < c)
      OBVIOUS
    <3>. QED  BY <1>3, <3>1, <3>2
  <2>2. /\ Cardinality(below(c)) <= Cardinality(below(d))
        /\ Cardinality(below(d)) = Cardinality(below(c)) => below(d) = below(c)
    BY <1>2, <2>1, FS_Subset
  <2>3. Cardinality(below(c)) # Cardinality(below(d))
    BY <2>1, <2>2
  <2>. QED  BY <1>2, <2>2, <2>3
<1>4. \A c, d \in left : Cardinality(below(c)) = Cardinality(below(d)) => c = d
  <2>. TAKE c, d \in left
  <2>1. c < d \/ d < c \/ c = d
    OBVIOUS
  <2>2. Cardinality(below(c)) \in Nat /\ Cardinality(below(d)) \in Nat
    BY <1>2
  <2>. QED  BY <1>3, <2>1, <2>2
<1>5. rank \in [left -> 1 .. size]
  BY <1>1, <1>2
<1>6. rank \in Injection(left, 1 .. size)
  <2>1. \A c, d \in left : rank[c] = rank[d] => c = d
    BY <1>2, <1>4
  <2>. QED  BY <1>5, <2>1 DEF Injection, IsInjective
<1>7. IsFiniteSet(1 .. size) /\ Cardinality(1 .. size) = size
  BY <1>1, FS_Interval
<1>8. rank \in Surjection(left, 1 .. size)
  <2>. HIDE DEF rank
  <2>. QED  BY <1>6, <1>7, FS_Injection
<1>9. \A n \in 1 .. size : \E d \in left : Cardinality(below(d)) = n - 1
  <2>. TAKE n \in 1 .. size
  <2>1. PICK d \in left : rank[d] = n
    BY <1>8 DEF Surjection
  <2>2. rank[d] = Cardinality(below(d)) + 1 /\ Cardinality(below(d)) \in Nat
    BY <1>2
  <2>. HIDE DEF rank
  <2>3. Cardinality(below(d)) = n - 1
    BY <2>1, <2>2
  <2>. QED  BY <2>3
<1>10. \A d \in left : Cardinality(below(d)) + 1 \in 1 .. size
  BY <1>1, <1>2
<1>. HIDE DEF size
<1>11. \A d \in left : Cardinality({e \in left : e < d}) + 1 \in 1 .. size
  BY <1>10
<1>12. \A c, d \in left : Cardinality({e \in left : e < c}) = Cardinality({e \in left : e < d}) => c = d
  BY <1>4
<1>13. \A n \in 1 .. size : \E d \in left : Cardinality({e \in left : e < d}) = n - 1
  BY <1>9
<1>. QED  BY <1>11, <1>12, <1>13 DEF size

LEMMA Longer ==
  ASSUME NEW S, NEW s \in Seq(S), NEW e \in S
  PROVE  /\ Len(s) \in Nat /\ DOMAIN s = 1 .. Len(s) /\ DOMAIN Append(s, e) = 1 .. Len(s) + 1
         /\ Append(s, e)[Len(s) + 1] = e /\ \A k \in 1 .. Len(s) : Append(s, e)[k] = s[k]
  OBVIOUS

LEMMA Single ==
  ASSUME NEW e
  PROVE  DOMAIN <<e>> = {1} /\ <<e>>[1] = e /\ <<e>> # <<>>
  OBVIOUS

LEMMA FunctionIsSeq ==
  ASSUME NEW S, NEW n \in Nat, NEW f \in [1 .. n -> S]
  PROVE  f \in Seq(S) /\ Len(f) = n /\ DOMAIN f = 1 .. n
  OBVIOUS

-----------------------------------------------------------------------------
LEMMA Basics ==
  ASSUME TypeOK
  PROVE  /\ Len(tracks) \in Nat /\ DOMAIN tracks = 1 .. Len(tracks)
         /\ \A t \in DOMAIN tracks :
              /\ tracks[t] \in Track
              /\ tracks[t].observations \in Seq(Observation)
              /\ Observed(t) \subseteq Observation
         /\ frame \in Nat /\ DOMAIN dets = 1 .. frame
         /\ \A f \in 1 .. frame : dets[f] \in Seq(Boxes)
<1>1. tracks \in Seq(Track) /\ dets \in Seq(Seq(Boxes)) /\ Len(dets) = frame /\ frame \in Nat
  BY DEF TypeOK
<1>2. \A t \in DOMAIN tracks : tracks[t] \in Track
  BY <1>1
<1>3. \A t \in DOMAIN tracks : tracks[t].observations \in Seq(Observation)
  BY <1>2 DEF Track
<1>4. \A t \in DOMAIN tracks : Observed(t) \subseteq Observation
  BY <1>3 DEF Observed
<1>. QED  BY <1>1, <1>2, <1>3, <1>4

\* In the middle of a frame.
Working == pc = "match" => frame \in DOMAIN dets

LEMMA InFrame ==
  ASSUME TypeOK, Working, pc = "match"
  PROVE  /\ frame \in 1 .. frame /\ Found = dets[frame] /\ Found \in Seq(Boxes)
         /\ DOMAIN Found = 1 .. Len(Found) /\ Len(Found) \in Nat
         /\ \A d \in DOMAIN Found : Observe(d) \in Observation
<1>1. frame \in 1 .. frame /\ Found = dets[frame]
  BY Basics DEF Working, Found, LastOf, TypeOK
<1>2. Found \in Seq(Boxes)
  BY <1>1, Basics
<1>3. \A d \in DOMAIN Found : d \in Nat /\ Found[d] \in Boxes
  BY <1>2
<1>. QED  BY <1>1, <1>2, <1>3, Basics DEF Observe, Observation

\* One track is opened for every detection that is left over.
LEMMA OneForEach ==
  ASSUME TypeOK, Working, pc = "match"
  PROVE  /\ Cardinality(Left) \in Nat
         /\ NewTracks \in Seq({Opened(d) : d \in Left})
         /\ DOMAIN NewTracks = 1 .. Cardinality(Left) /\ Len(NewTracks) = Cardinality(Left)
         /\ \A n \in DOMAIN NewTracks : NthLeft(n) \in Left /\ NewTracks[n] = Opened(NthLeft(n))
         /\ \A d \in Left : \E n \in DOMAIN NewTracks : NthLeft(n) = d
         /\ \A n, m \in DOMAIN NewTracks : NthLeft(n) = NthLeft(m) => n = m
<1>. DEFINE size == Cardinality(Left)
            below(d) == {e \in Left : e < d}
<1>1. DOMAIN Found = 1 .. Len(Found) /\ Len(Found) \in Nat
  BY InFrame
<1>2. Left \in SUBSET Nat /\ IsFiniteSet(Left)
  <2>. DEFINE places == 1 .. Len(Found)
  <2>1. IsFiniteSet(places)
    BY <1>1, FS_Interval
  <2>2. Left \in SUBSET places /\ places \in SUBSET Nat
    BY <1>1 DEF Left
  <2>. HIDE DEF places
  <2>3. IsFiniteSet(Left)
    BY <2>1, <2>2, FS_Subset
  <2>. QED  BY <2>2, <2>3
<1>3. size \in Nat
  BY <1>2, FS_CardinalityType
<1>4. /\ \A d \in Left : Cardinality(below(d)) + 1 \in 1 .. size
      /\ \A c, d \in Left : Cardinality(below(c)) = Cardinality(below(d)) => c = d
      /\ \A n \in 1 .. size : \E d \in Left : Cardinality(below(d)) = n - 1
  BY <1>2, Ranking
<1>5. \A d \in Left : Cardinality(below(d)) \in Nat
  <2>. TAKE d \in Left
  <2>1. IsFiniteSet(below(d))
    BY <1>2, FS_Subset
  <2>. QED  BY <2>1, FS_CardinalityType
<1>6. \A n : NthLeft(n) = CHOOSE d \in Left : Cardinality(below(d)) = n - 1
  BY DEF NthLeft
<1>. HIDE DEF size, below
<1>7. \A n \in 1 .. size : NthLeft(n) \in Left /\ Cardinality(below(NthLeft(n))) = n - 1
  BY <1>4, <1>6
<1>8. \A d \in Left : \E n \in 1 .. size : NthLeft(n) = d
  <2>. TAKE d \in Left
  <2>. DEFINE n == Cardinality(below(d)) + 1
  <2>1. n \in 1 .. size /\ n - 1 = Cardinality(below(d))
    BY <1>4, <1>5
  <2>. HIDE DEF n
  <2>2. NthLeft(n) = d
    BY <1>4, <1>7, <2>1
  <2>. QED  BY <2>1, <2>2
<1>9. \A n, m \in 1 .. size : NthLeft(n) = NthLeft(m) => n = m
  BY <1>3, <1>7
<1>10. NewTracks = [n \in 1 .. size |-> Opened(NthLeft(n))]
  BY DEF NewTracks, size
<1>11. NewTracks \in [1 .. size -> {Opened(d) : d \in Left}]
  BY <1>7, <1>10
<1>12. /\ NewTracks \in Seq({Opened(d) : d \in Left}) /\ Len(NewTracks) = size
       /\ DOMAIN NewTracks = 1 .. size
  BY <1>3, <1>11, FunctionIsSeq
<1>13. size = Cardinality(Left)
  BY DEF size
<1>. QED  BY <1>3, <1>7, <1>8, <1>9, <1>10, <1>12, <1>13

-----------------------------------------------------------------------------
Seen(t, f, d) == \E o \in Observed(t) : o.frame = f /\ o.det = d

\* An observation is what the detector found at that place of that frame.
Faithful ==
  \A t \in DOMAIN tracks : \A o \in Observed(t) :
    o.frame \in DOMAIN dets /\ o.det \in DOMAIN dets[o.frame] /\ o.box = dets[o.frame][o.det]

Unshared ==
  \A t, u \in DOMAIN tracks : \A o \in Observed(t), q \in Observed(u) :
    o.frame = q.frame /\ o.det = q.det => t = u

MatchedIsSeen ==
  pc = "match" => \A p \in matched : p[2] \in DOMAIN Found /\ Seen(p[1], frame, p[2])

SeenIsMatched ==
  pc = "match" => \A t \in DOMAIN tracks : \A o \in Observed(t) :
                    o.frame = frame => <<t, o.det>> \in matched

Covered ==
  \A f \in DOMAIN dets :
    \/ pc = "match" /\ f = frame
    \/ \A d \in DOMAIN dets[f] : \E t \in DOMAIN tracks : Seen(t, f, d)

TInv ==
  TypeOK /\ FramesIncrease /\ Faithful /\ Unshared /\ Working /\ MatchedIsSeen /\ SeenIsMatched /\ Covered

LEMMA TInvIsEnough == TInv => TracksPartition
<1>. SUFFICES ASSUME TInv PROVE TracksPartition
  OBVIOUS
<1>1. FramesIncrease
  BY DEF TInv
<1>2. NeverShared
  BY DEF TInv, Faithful, Unshared, NeverShared
<1>3. NoneLost
  BY DEF TInv, Covered, Seen, NoneLost
<1>. QED  BY <1>1, <1>2, <1>3 DEF TracksPartition

LEMMA InitHolds == Init => TInv
<1>. SUFFICES ASSUME Init PROVE TInv
  OBVIOUS
<1>1. DOMAIN tracks = {} /\ DOMAIN dets = {} /\ Len(dets) = 0
  BY DEF Init
<1>2. TypeOK
  BY <1>1 DEF Init, TypeOK
<1>. QED  BY <1>1, <1>2 DEF Init, TInv, FramesIncrease, Faithful, Unshared, Working,
                            MatchedIsSeen, SeenIsMatched, Covered

-----------------------------------------------------------------------------
\* A new frame.
LEMMA NewFrameHolds ==
  ASSUME TInv, NEW n \in 0 .. MaxDets, NEW placed \in [1 .. n -> Boxes], NewFrame(placed)
  PROVE  TInv'
<1>0. TypeOK /\ pc = "ready" /\ pc' = "match" /\ tracks' = tracks /\ matched' = {}
      /\ frame' = frame + 1 /\ dets' = Append(dets, placed) /\ candidates' = OpenTracks
  BY DEF TInv, NewFrame
<1>1. placed \in Seq(Boxes)
  <2>1. n \in Nat
    BY TrackerAssumption
  <2>. QED  BY <2>1, FunctionIsSeq
<1>2. DOMAIN dets = 1 .. frame /\ frame \in Nat /\ dets \in Seq(Seq(Boxes)) /\ Len(dets) = frame
  BY <1>0, Basics DEF TypeOK
<1>3. /\ dets' \in Seq(Seq(Boxes)) /\ Len(dets') = frame' /\ DOMAIN dets' = 1 .. frame + 1
      /\ \A f \in 1 .. frame : dets'[f] = dets[f]
  BY <1>0, <1>1, <1>2
<1>4. TypeOK'
  <2>1. candidates' \subseteq DOMAIN tracks
    BY <1>0 DEF OpenTracks
  <2>. QED  BY <1>0, <1>2, <1>3, <2>1 DEF TypeOK
<1>5. \A t : Observed(t)' = Observed(t)
  BY <1>0 DEF Observed
<1>6. FramesIncrease'
  BY <1>0 DEF TInv, FramesIncrease
<1>7. Faithful'
  <2>. SUFFICES ASSUME NEW t \in DOMAIN tracks, NEW o \in Observed(t)
       PROVE  o.frame \in DOMAIN dets' /\ o.det \in DOMAIN dets'[o.frame] /\ o.box = dets'[o.frame][o.det]
    BY <1>0, <1>5 DEF Faithful
  <2>1. o.frame \in 1 .. frame /\ o.det \in DOMAIN dets[o.frame] /\ o.box = dets[o.frame][o.det]
    BY <1>2 DEF TInv, Faithful
  <2>. QED  BY <1>2, <1>3, <2>1
<1>8. Unshared'
  BY <1>0, <1>5 DEF TInv, Unshared
<1>9. Working'
  BY <1>0, <1>2, <1>3 DEF Working
<1>10. MatchedIsSeen'
  BY <1>0 DEF MatchedIsSeen
<1>11. SeenIsMatched'
  <2>1. ASSUME NEW t \in DOMAIN tracks, NEW o \in Observed(t) PROVE o.frame # frame + 1
    <3>1. o.frame \in 1 .. frame
      BY <1>2 DEF TInv, Faithful
    <3>. QED  BY <1>2, <3>1
  <2>. QED  BY <1>0, <1>5, <2>1 DEF SeenIsMatched
<1>12. Covered'
  <2>1. ASSUME NEW f \in DOMAIN dets', f # frame'
        PROVE  f \in DOMAIN dets /\ dets'[f] = dets[f]
    BY <1>0, <1>2, <1>3, <2>1
  <2>. QED  BY <1>0, <1>5, <2>1 DEF TInv, Covered, Seen
<1>. QED  BY <1>4, <1>6, <1>7, <1>8, <1>9, <1>10, <1>11, <1>12 DEF TInv

\* The order of the frames is that of the observations alone.
LEMMA FramesStay ==
  ASSUME FramesIncrease, DOMAIN tracks' = DOMAIN tracks,
         \A t \in DOMAIN tracks : tracks'[t].observations = tracks[t].observations
  PROVE  FramesIncrease'
  BY DEF FramesIncrease

-----------------------------------------------------------------------------
\* One more pair.
LEMMA MatchSees ==
  ASSUME TInv, pc = "match", NEW p, Match(p)
  PROVE  /\ p[1] \in candidates /\ p[1] \in DOMAIN tracks /\ p[1] \notin UsedTracks
         /\ p[2] \in DOMAIN Found /\ p[2] \notin UsedDets /\ p = <<p[1], p[2]>>
         /\ Observe(p[2]) \in Observation
         /\ tracks' \in Seq(Track) /\ DOMAIN tracks' = DOMAIN tracks
         /\ \A t \in DOMAIN tracks :
              tracks'[t].observations = IF t = p[1] THEN Append(tracks[t].observations, Observe(p[2]))
                                                    ELSE tracks[t].observations
         /\ \A t \in DOMAIN tracks :
              Observed(t)' = IF t = p[1] THEN Observed(t) \cup {Observe(p[2])} ELSE Observed(t)
<1>0. TypeOK /\ Working
  BY DEF TInv
<1>1. p \in Pairs
  BY DEF Match
<1>2. /\ p[1] \in candidates /\ p[1] \notin UsedTracks /\ p[2] \in DOMAIN Found
      /\ p[2] \notin UsedDets /\ p = <<p[1], p[2]>>
  BY <1>1 DEF Pairs
<1>3. p[1] \in DOMAIN tracks
  BY <1>0, <1>2 DEF TypeOK
<1>4. Observe(p[2]) \in Observation
  BY <1>0, <1>2, InFrame
<1>. DEFINE new == Observe(p[2])
            old == tracks[p[1]].observations
            track == [observations |-> Append(old, new), misses |-> 0, closed |-> tracks[p[1]].closed]
<1>5. tracks' = [tracks EXCEPT ![p[1]] = track]
  BY DEF Match
<1>6. old \in Seq(Observation) /\ tracks[p[1]].closed \in BOOLEAN
  BY <1>0, <1>3, Basics DEF Track
<1>. HIDE DEF new, old
<1>7. Append(old, new) \in Seq(Observation)
  BY <1>4, <1>6 DEF new
<1>8. track \in Track
  BY <1>6, <1>7 DEF Track
<1>9. tracks \in Seq(Track) /\ p[1] \in 1 .. Len(tracks) /\ DOMAIN tracks = 1 .. Len(tracks)
  BY <1>0, <1>3, Basics DEF TypeOK
<1>10. /\ tracks' \in Seq(Track) /\ DOMAIN tracks' = DOMAIN tracks
       /\ \A t \in DOMAIN tracks : tracks'[t] = IF t = p[1] THEN track ELSE tracks[t]
  <2>. HIDE DEF track
  <2>1. [tracks EXCEPT ![p[1]] = track] \in Seq(Track)
    BY <1>8, <1>9, ExceptSeq
  <2>. QED  BY <1>5, <1>9, <2>1
<1>11. \A t \in DOMAIN tracks :
         tracks'[t].observations = IF t = p[1] THEN Append(old, new) ELSE tracks[t].observations
  <2>1. track.observations = Append(old, new)
    OBVIOUS
  <2>. HIDE DEF track
  <2>. QED  BY <1>10, <2>1
<1>12. \A t \in DOMAIN tracks :
         Observed(t)' = IF t = p[1] THEN Observed(t) \cup {new} ELSE Observed(t)
  <2>. SUFFICES ASSUME NEW t \in DOMAIN tracks
       PROVE  Observed(t)' = IF t = p[1] THEN Observed(t) \cup {new} ELSE Observed(t)
    OBVIOUS
  <2>1. CASE t # p[1]
    BY <1>11, <2>1 DEF Observed
  <2>2. CASE t = p[1]
    <3>. DEFINE longer == Append(old, new)
    <3>1. /\ Len(old) \in Nat /\ DOMAIN old = 1 .. Len(old) /\ DOMAIN longer = 1 .. Len(old) + 1
          /\ longer[Len(old) + 1] = new /\ \A k \in 1 .. Len(old) : longer[k] = old[k]
      BY <1>4, <1>6 DEF new
    <3>. HIDE DEF longer
    <3>2. {longer[k] : k \in DOMAIN longer} = {old[k] : k \in DOMAIN old} \cup {new}
      BY <3>1
    <3>3. Observed(t)' = {longer[k] : k \in DOMAIN longer} /\ Observed(t) = {old[k] : k \in DOMAIN old}
      BY <1>11, <2>2 DEF Observed, longer, old
    <3>. QED  BY <2>2, <3>2, <3>3
  <2>. QED  BY <2>1, <2>2
<1>. QED  BY <1>2, <1>3, <1>4, <1>10, <1>11, <1>12 DEF new, old

LEMMA MatchHolds ==
  ASSUME TInv, pc = "match", NEW p, Match(p)
  PROVE  TInv'
<1>0. TypeOK /\ Working /\ Faithful /\ Unshared /\ MatchedIsSeen /\ SeenIsMatched
  BY DEF TInv
<1>1. /\ pc' = pc /\ frame' = frame /\ dets' = dets /\ candidates' = candidates
      /\ matched' = matched \cup {p} /\ Found' = Found
  BY DEF Match, Found
<1>2. /\ p[1] \in candidates /\ p[1] \in DOMAIN tracks /\ p[1] \notin UsedTracks
      /\ p[2] \in DOMAIN Found /\ p[2] \notin UsedDets /\ p = <<p[1], p[2]>>
      /\ Observe(p[2]) \in Observation
      /\ tracks' \in Seq(Track) /\ DOMAIN tracks' = DOMAIN tracks
  BY MatchSees
<1>3. \A t \in DOMAIN tracks :
        tracks'[t].observations = IF t = p[1] THEN Append(tracks[t].observations, Observe(p[2]))
                                              ELSE tracks[t].observations
  BY MatchSees
<1>4. \A t \in DOMAIN tracks :
        Observed(t)' = IF t = p[1] THEN Observed(t) \cup {Observe(p[2])} ELSE Observed(t)
  BY MatchSees
<1>5. /\ frame \in DOMAIN dets /\ Found = dets[frame] /\ DOMAIN dets = 1 .. frame /\ frame \in Nat
      /\ DOMAIN Found = 1 .. Len(Found) /\ Len(Found) \in Nat
  BY <1>0, Basics, InFrame DEF Working
<1>. DEFINE new == Observe(p[2])
<1>6. new.frame = frame /\ new.det = p[2] /\ new.box = Found[p[2]]
  BY DEF Observe
\* The track has no observation of this frame, the detection is in no track.
<1>7. \A o \in Observed(p[1]) : o.frame # frame
  <2>. SUFFICES ASSUME NEW o \in Observed(p[1]), o.frame = frame PROVE FALSE
    OBVIOUS
  <2>1. <<p[1], o.det>> \in matched
    BY <1>0, <1>2 DEF SeenIsMatched
  <2>2. <<p[1], o.det>>[1] \in UsedTracks
    BY <2>1 DEF UsedTracks
  <2>. QED  BY <1>2, <2>2
<1>8. \A t \in DOMAIN tracks : \A o \in Observed(t) : ~(o.frame = frame /\ o.det = p[2])
  <2>. SUFFICES ASSUME NEW t \in DOMAIN tracks, NEW o \in Observed(t), o.frame = frame, o.det = p[2]
       PROVE  FALSE
    OBVIOUS
  <2>1. <<t, p[2]>> \in matched
    BY <1>0 DEF SeenIsMatched
  <2>2. <<t, p[2]>>[2] \in UsedDets
    BY <2>1 DEF UsedDets
  <2>. QED  BY <1>2, <2>2
<1>. HIDE DEF new
<1>9. TypeOK'
  <2>1. \A t \in DOMAIN tracks : tracks[t].observations # <<>>
    BY <1>0 DEF TypeOK
  <2>2. \A t \in DOMAIN tracks : tracks'[t].observations # <<>>
    <3>. TAKE t \in DOMAIN tracks
    <3>1. tracks[t].observations \in Seq(Observation)
      BY <1>0, Basics
    <3>. DEFINE s == tracks[t].observations
    <3>2. s \in Seq(Observation) /\ new \in Observation
      BY <1>2, <3>1 DEF new
    <3>3. tracks'[t].observations = IF t = p[1] THEN Append(s, new) ELSE s
      BY <1>3 DEF new
    <3>4. s # <<>>
      BY <2>1
    <3>. HIDE DEF s
    <3>5. Append(s, new) # <<>>
      BY <3>2
    <3>. QED  BY <3>3, <3>4, <3>5
  <2>3. matched' \subseteq candidates \X Nat
    BY <1>0, <1>1, <1>2, <1>5 DEF TypeOK
  <2>. QED  BY <1>0, <1>1, <1>2, <2>2, <2>3 DEF TypeOK
<1>10. FramesIncrease'
  <2>. SUFFICES ASSUME NEW t \in DOMAIN tracks, NEW i \in DOMAIN tracks'[t].observations,
                       NEW j \in DOMAIN tracks'[t].observations, i < j
       PROVE  tracks'[t].observations[i].frame < tracks'[t].observations[j].frame
    BY <1>2 DEF FramesIncrease
  <2>1. CASE t # p[1]
    BY <1>3, <2>1 DEF TInv, FramesIncrease
  <2>2. CASE t = p[1]
    <3>. DEFINE s == tracks[t].observations
                longer == Append(s, new)
    <3>1. s \in Seq(Observation) /\ new \in Observation
      BY <1>0, <1>2, Basics DEF new
    <3>2. tracks'[t].observations = longer
      BY <1>3, <2>2 DEF new
    <3>3. \A k \in DOMAIN s : s[k].frame \in 1 .. frame /\ s[k].frame # frame
      <4>. TAKE k \in DOMAIN s
      <4>1. s[k] \in Observed(t)
        BY DEF Observed
      <4>. QED  BY <1>0, <1>5, <1>7, <2>2, <4>1 DEF Faithful
    <3>4. \A k, l \in DOMAIN s : k < l => s[k].frame < s[l].frame
      BY DEF TInv, FramesIncrease
    <3>. HIDE DEF s
    <3>5. /\ Len(s) \in Nat /\ DOMAIN s = 1 .. Len(s) /\ DOMAIN longer = 1 .. Len(s) + 1
          /\ longer[Len(s) + 1] = new /\ \A k \in 1 .. Len(s) : longer[k] = s[k]
      BY <3>1, Longer
    <3>. HIDE DEF longer
    <3>6. i \in 1 .. Len(s) + 1 /\ j \in 1 .. Len(s) + 1
      BY <3>2, <3>5
    <3>7. i \in 1 .. Len(s)
      BY <3>5, <3>6
    <3>8. CASE j \in 1 .. Len(s)
      BY <3>2, <3>4, <3>5, <3>7, <3>8
    <3>9. CASE j = Len(s) + 1
      <4>1. longer[i].frame \in 1 .. frame /\ longer[i].frame # frame /\ longer[j].frame = frame
        BY <1>6, <3>3, <3>5, <3>7, <3>9
      <4>. QED  BY <1>5, <3>2, <4>1
    <3>. QED  BY <3>5, <3>6, <3>8, <3>9
  <2>. QED  BY <2>1, <2>2
<1>11. Faithful'
  BY <1>0, <1>1, <1>2, <1>4, <1>5, <1>6 DEF Faithful, new
<1>12. Unshared'
  <2>. SUFFICES ASSUME NEW t \in DOMAIN tracks, NEW u \in DOMAIN tracks,
                       NEW o \in Observed(t)', NEW q \in Observed(u)',
                       o.frame = q.frame, o.det = q.det
       PROVE  t = u
    BY <1>2 DEF Unshared
  <2>1. o \in Observed(t) \/ (t = p[1] /\ o = new)
    BY <1>4 DEF new
  <2>2. q \in Observed(u) \/ (u = p[1] /\ q = new)
    BY <1>4 DEF new
  <2>3. CASE o \in Observed(t) /\ q \in Observed(u)
    BY <1>0, <2>3 DEF Unshared
  <2>4. CASE o \in Observed(t) /\ q = new
    BY <1>6, <1>8, <2>4
  <2>5. CASE o = new /\ q \in Observed(u)
    BY <1>6, <1>8, <2>5
  <2>. QED  BY <2>1, <2>2, <2>3, <2>4, <2>5
<1>13. Working'
  BY <1>1, <1>5 DEF Working
<1>14. MatchedIsSeen'
  <2>. SUFFICES ASSUME NEW m \in matched'
       PROVE  m[2] \in DOMAIN Found /\ \E o \in Observed(m[1])' : o.frame = frame /\ o.det = m[2]
    BY <1>1 DEF MatchedIsSeen, Seen
  <2>1. CASE m = p
    BY <1>2, <1>4, <1>6, <2>1 DEF new
  <2>2. CASE m \in matched
    <3>1. m[1] \in DOMAIN tracks
      BY <1>0, <2>2 DEF TypeOK
    <3>2. m[2] \in DOMAIN Found /\ \E o \in Observed(m[1]) : o.frame = frame /\ o.det = m[2]
      BY <1>0, <2>2 DEF MatchedIsSeen, Seen
    <3>. QED  BY <1>4, <3>1, <3>2
  <2>. QED  BY <1>1, <2>1, <2>2
<1>15. SeenIsMatched'
  <2>. SUFFICES ASSUME NEW t \in DOMAIN tracks, NEW o \in Observed(t)', o.frame = frame
       PROVE  <<t, o.det>> \in matched \cup {p}
    BY <1>1, <1>2 DEF SeenIsMatched
  <2>1. CASE o \in Observed(t)
    BY <1>0, <2>1 DEF SeenIsMatched
  <2>2. CASE t = p[1] /\ o = new
    BY <1>2, <1>6, <2>2
  <2>. QED  BY <1>4, <2>1, <2>2 DEF new
<1>16. Covered'
  <2>. SUFFICES ASSUME NEW f \in DOMAIN dets, f # frame, NEW d \in DOMAIN dets[f]
       PROVE  \E t \in DOMAIN tracks : \E o \in Observed(t)' : o.frame = f /\ o.det = d
    BY <1>1, <1>2 DEF Covered, Seen
  <2>1. PICK t \in DOMAIN tracks : \E o \in Observed(t) : o.frame = f /\ o.det = d
    BY DEF TInv, Covered, Seen
  <2>. QED  BY <1>4, <2>1
<1>. QED  BY <1>9, <1>10, <1>11, <1>12, <1>13, <1>14, <1>15, <1>16 DEF TInv

-----------------------------------------------------------------------------
\* The end of a frame: the old tracks keep what they have seen, and the new ones
\* have seen one detection each, none of them matched.
LEMMA SettleSees ==
  ASSUME TInv, Settle
  PROVE  /\ tracks' \in Seq(Track) /\ Len(tracks) \in Nat /\ DOMAIN tracks = 1 .. Len(tracks)
         /\ Cardinality(Left) \in Nat
         /\ DOMAIN tracks' = 1 .. Len(tracks) + Cardinality(Left)
         /\ \A t \in DOMAIN tracks : tracks'[t].observations = tracks[t].observations
         /\ \A n \in 1 .. Cardinality(Left) :
              tracks'[Len(tracks) + n].observations = <<Observe(NthLeft(n))>>
         /\ \A t \in DOMAIN tracks :
              tracks'[t] = IF t \in candidates \ UsedTracks THEN Missed(tracks[t]) ELSE tracks[t]
         /\ \A n \in 1 .. Cardinality(Left) : tracks'[Len(tracks) + n] = Opened(NthLeft(n))
<1>. DEFINE carried == [t \in DOMAIN tracks |-> IF t \in candidates \ UsedTracks
                                             THEN Missed(tracks[t]) ELSE tracks[t]]
            size == Cardinality(Left)
<1>0. TypeOK /\ Working /\ pc = "match" /\ tracks' = carried \o NewTracks
  BY DEF TInv, Settle
<1>1. /\ Len(tracks) \in Nat /\ DOMAIN tracks = 1 .. Len(tracks)
      /\ \A t \in DOMAIN tracks : tracks[t] \in Track
  BY <1>0, Basics
<1>2. \A t \in DOMAIN tracks : carried[t] \in Track /\ carried[t].observations = tracks[t].observations
  <2>. TAKE t \in DOMAIN tracks
  <2>1. tracks[t] \in Track
    BY <1>1
  <2>2. Missed(tracks[t]) \in Track /\ Missed(tracks[t]).observations = tracks[t].observations
    BY <2>1, TrackerAssumption DEF Missed, Track
  <2>. QED  BY <2>1, <2>2
<1>3. carried \in [1 .. Len(tracks) -> Track]
  BY <1>1, <1>2
<1>. HIDE DEF carried
<1>4. carried \in Seq(Track) /\ Len(carried) = Len(tracks)
  BY <1>1, <1>3, FunctionIsSeq
<1>5. /\ size \in Nat /\ NewTracks \in Seq({Opened(d) : d \in Left}) /\ Len(NewTracks) = size
      /\ DOMAIN NewTracks = 1 .. size
      /\ \A n \in 1 .. size : NthLeft(n) \in Left /\ NewTracks[n] = Opened(NthLeft(n))
  BY <1>0, OneForEach
<1>6. \A d \in Left : Opened(d) \in Track /\ Opened(d).observations = <<Observe(d)>>
  <2>. TAKE d \in Left
  <2>1. Observe(d) \in Observation
    BY <1>0, InFrame DEF Left
  <2>. QED  BY <2>1 DEF Opened, Track
<1>. HIDE DEF size
<1>7. NewTracks \in [1 .. size -> Track]
  <2>1. \A n \in 1 .. size : NewTracks[n] \in Track
    BY <1>5, <1>6
  <2>2. NewTracks = [n \in 1 .. size |-> NewTracks[n]]
    BY <1>5
  <2>. QED  BY <2>1, <2>2
<1>8. NewTracks \in Seq(Track)
  BY <1>5, <1>7, FunctionIsSeq
<1>9. /\ carried \o NewTracks \in Seq(Track) /\ Len(carried \o NewTracks) = Len(tracks) + size
      /\ \A t \in 1 .. Len(tracks) : (carried \o NewTracks)[t] = carried[t]
      /\ \A n \in 1 .. size : (carried \o NewTracks)[Len(tracks) + n] = NewTracks[n]
  <2>. DEFINE S == Track
              extra == NewTracks
  <2>1. carried \in Seq(S) /\ extra \in Seq(S) /\ Len(carried) = Len(tracks) /\ Len(extra) = size
    BY <1>4, <1>5, <1>8
  <2>. HIDE DEF S, extra
  <2>2. /\ carried \o extra \in Seq(S) /\ Len(carried \o extra) = Len(carried) + Len(extra)
        /\ \A k \in 1 .. Len(carried) : (carried \o extra)[k] = carried[k]
        /\ \A n \in 1 .. Len(extra) : (carried \o extra)[Len(carried) + n] = extra[n]
    BY <2>1
  <2>3. /\ carried \o extra \in Seq(S) /\ Len(carried \o extra) = Len(tracks) + size
        /\ \A t \in 1 .. Len(tracks) : (carried \o extra)[t] = carried[t]
        /\ \A n \in 1 .. size : (carried \o extra)[Len(tracks) + n] = extra[n]
    BY <2>1, <2>2
  <2>. QED  BY <2>3 DEF S, extra
<1>10. tracks' \in Seq(Track) /\ DOMAIN tracks' = 1 .. Len(tracks) + size
  <2>1. DOMAIN tracks' = 1 .. Len(tracks')
    BY <1>0, <1>9
  <2>. QED  BY <1>0, <1>9, <2>1
<1>11. \A t \in DOMAIN tracks : tracks'[t].observations = tracks[t].observations
  BY <1>0, <1>1, <1>2, <1>9
<1>12. \A n \in 1 .. size : tracks'[Len(tracks) + n].observations = <<Observe(NthLeft(n))>>
  BY <1>0, <1>5, <1>6, <1>9
<1>13. \A n \in 1 .. size : tracks'[Len(tracks) + n] = Opened(NthLeft(n))
  BY <1>0, <1>5, <1>9
<1>14. \A t \in DOMAIN tracks :
         tracks'[t] = IF t \in candidates \ UsedTracks THEN Missed(tracks[t]) ELSE tracks[t]
  BY <1>0, <1>1, <1>9 DEF carried
<1>. QED  BY <1>1, <1>5, <1>10, <1>11, <1>12, <1>13, <1>14 DEF size

LEMMA SettleHolds ==
  ASSUME TInv, Settle
  PROVE  TInv'
<1>. DEFINE old == Len(tracks)
            size == Cardinality(Left)
<1>0. /\ TypeOK /\ Working /\ Faithful /\ Unshared /\ MatchedIsSeen /\ SeenIsMatched
      /\ pc = "match" /\ pc' = "ready" /\ frame' = frame /\ dets' = dets
      /\ candidates' = candidates /\ matched' = matched
  BY DEF TInv, Settle
<1>1. /\ tracks' \in Seq(Track) /\ old \in Nat /\ DOMAIN tracks = 1 .. old /\ size \in Nat
      /\ DOMAIN tracks' = 1 .. old + size
      /\ \A t \in 1 .. old : tracks'[t].observations = tracks[t].observations
      /\ \A n \in 1 .. size : tracks'[old + n].observations = <<Observe(NthLeft(n))>>
  BY SettleSees
<1>2. /\ \A n \in 1 .. size : NthLeft(n) \in Left
      /\ \A d \in Left : \E n \in 1 .. size : NthLeft(n) = d
      /\ \A n, m \in 1 .. size : NthLeft(n) = NthLeft(m) => n = m
  BY <1>0, OneForEach
<1>3. /\ frame \in DOMAIN dets /\ Found = dets[frame] /\ DOMAIN dets = 1 .. frame /\ frame \in Nat
      /\ DOMAIN Found = 1 .. Len(Found) /\ Len(Found) \in Nat
  BY <1>0, Basics, InFrame DEF Working
<1>. HIDE DEF old, size
<1>4. \A t \in 1 .. old + size : t \in 1 .. old \/ \E n \in 1 .. size : t = old + n
  <2>. TAKE t \in 1 .. old + size
  <2>1. CASE t <= old
    BY <1>1, <2>1
  <2>2. CASE t > old
    <3>1. t - old \in 1 .. size /\ t = old + (t - old)
      BY <1>1, <2>2
    <3>. QED  BY <3>1
  <2>. QED  BY <1>1, <2>1, <2>2
<1>5. /\ \A n \in 1 .. size : old + n \in 1 .. old + size
      /\ \A t \in 1 .. old : t \in 1 .. old + size
  BY <1>1
<1>6. \A t \in 1 .. old : Observed(t)' = Observed(t)
  BY <1>1 DEF Observed
<1>7. \A n \in 1 .. size : \A t \in 1 .. old + size :
        t = old + n => /\ tracks'[t].observations # <<>>
                       /\ DOMAIN tracks'[t].observations = {1}
                       /\ Observed(t)' = {Observe(NthLeft(n))}
  <2>. SUFFICES ASSUME NEW n \in 1 .. size, NEW t \in 1 .. old + size, t = old + n
       PROVE  /\ tracks'[t].observations # <<>>
              /\ DOMAIN tracks'[t].observations = {1}
              /\ Observed(t)' = {Observe(NthLeft(n))}
    OBVIOUS
  <2>. DEFINE e == Observe(NthLeft(n))
              s == tracks'[t].observations
  <2>1. s = <<e>>
    BY <1>1
  <2>. HIDE DEF e
  <2>2. DOMAIN s = {1} /\ s[1] = e /\ s # <<>>
    BY <2>1, Single
  <2>3. Observed(t)' = {s[i] : i \in DOMAIN s}
    BY DEF Observed
  <2>. HIDE DEF s
  <2>4. Observed(t)' = {e}
    BY <2>2, <2>3
  <2>. QED  BY <2>2, <2>4 DEF s, e
<1>8. \A d : Observe(d).frame = frame /\ Observe(d).det = d /\ Observe(d).box = Found[d]
  BY DEF Observe
<1>9. TypeOK'
  <2>1. \A t \in DOMAIN tracks' : tracks'[t].observations # <<>>
    <3>1. \A t \in 1 .. old : tracks'[t].observations # <<>>
      BY <1>0, <1>1 DEF TypeOK
    <3>2. \A t \in 1 .. old + size :
            (\E n \in 1 .. size : t = old + n) => tracks'[t].observations # <<>>
      BY <1>7
    <3>. QED  BY <1>1, <1>4, <3>1, <3>2
  <2>2. candidates' \subseteq DOMAIN tracks'
    BY <1>0, <1>1, <1>5 DEF TypeOK
  <2>. QED  BY <1>0, <1>1, <2>1, <2>2 DEF TypeOK
<1>10. FramesIncrease'
  <2>. SUFFICES ASSUME NEW t \in 1 .. old + size, NEW i \in DOMAIN tracks'[t].observations,
                       NEW j \in DOMAIN tracks'[t].observations, i < j
       PROVE  tracks'[t].observations[i].frame < tracks'[t].observations[j].frame
    BY <1>1 DEF FramesIncrease
  <2>1. CASE t \in 1 .. old
    BY <1>1, <2>1 DEF TInv, FramesIncrease
  <2>2. ASSUME NEW n \in 1 .. size, t = old + n PROVE FALSE
    <3>1. DOMAIN tracks'[t].observations = {1}
      BY <1>7, <2>2
    <3>. QED  BY <3>1
  <2>. QED  BY <1>4, <2>1, <2>2
<1>11. Faithful'
  <2>. SUFFICES ASSUME NEW t \in 1 .. old + size, NEW o \in Observed(t)'
       PROVE  o.frame \in DOMAIN dets /\ o.det \in DOMAIN dets[o.frame] /\ o.box = dets[o.frame][o.det]
    BY <1>0, <1>1 DEF Faithful
  <2>1. CASE t \in 1 .. old
    BY <1>0, <1>1, <1>6, <2>1 DEF Faithful
  <2>2. ASSUME NEW n \in 1 .. size, t = old + n
        PROVE  o.frame \in DOMAIN dets /\ o.det \in DOMAIN dets[o.frame] /\ o.box = dets[o.frame][o.det]
    <3>1. o = Observe(NthLeft(n)) /\ NthLeft(n) \in DOMAIN Found
      BY <1>2, <1>7, <2>2 DEF Left
    <3>. QED  BY <1>3, <1>8, <3>1
  <2>. QED  BY <1>4, <2>1, <2>2
\* What a new track has seen, no old one has: it would have been matched.
<1>12. \A n \in 1 .. size : \A t \in 1 .. old : \A o \in Observed(t) :
         ~(o.frame = frame /\ o.det = NthLeft(n))
  <2>. SUFFICES ASSUME NEW n \in 1 .. size, NEW t \in 1 .. old, NEW o \in Observed(t),
                       o.frame = frame, o.det = NthLeft(n)
       PROVE  FALSE
    OBVIOUS
  <2>1. <<t, NthLeft(n)>> \in matched
    BY <1>0, <1>1 DEF SeenIsMatched
  <2>2. <<t, NthLeft(n)>>[2] \in UsedDets
    BY <2>1 DEF UsedDets
  <2>. QED  BY <1>2, <2>2 DEF Left
<1>13. Unshared'
  <2>. SUFFICES ASSUME NEW t \in 1 .. old + size, NEW u \in 1 .. old + size,
                       NEW o \in Observed(t)', NEW q \in Observed(u)',
                       o.frame = q.frame, o.det = q.det
       PROVE  t = u
    BY <1>1 DEF Unshared
  <2>1. CASE t \in 1 .. old /\ u \in 1 .. old
    BY <1>0, <1>1, <1>6, <2>1 DEF Unshared
  <2>2. ASSUME NEW n \in 1 .. size, t = old + n, u \in 1 .. old PROVE t = u
    <3>1. o = Observe(NthLeft(n)) /\ q \in Observed(u)
      BY <1>6, <1>7, <2>2
    <3>. QED  BY <1>8, <1>12, <2>2, <3>1
  <2>3. ASSUME NEW m \in 1 .. size, u = old + m, t \in 1 .. old PROVE t = u
    <3>1. q = Observe(NthLeft(m)) /\ o \in Observed(t)
      BY <1>6, <1>7, <2>3
    <3>. QED  BY <1>8, <1>12, <2>3, <3>1
  <2>4. ASSUME NEW n \in 1 .. size, NEW m \in 1 .. size, t = old + n, u = old + m PROVE t = u
    <3>1. o = Observe(NthLeft(n)) /\ q = Observe(NthLeft(m))
      BY <1>7, <2>4
    <3>2. NthLeft(n) = NthLeft(m)
      BY <1>8, <3>1
    <3>. QED  BY <1>2, <2>4, <3>2
  <2>. QED  BY <1>4, <2>1, <2>2, <2>3, <2>4
<1>14. Working' /\ MatchedIsSeen' /\ SeenIsMatched'
  BY <1>0 DEF Working, MatchedIsSeen, SeenIsMatched
<1>15. Covered'
  <2>. SUFFICES ASSUME NEW f \in DOMAIN dets, NEW d \in DOMAIN dets[f]
       PROVE  \E t \in 1 .. old + size : \E o \in Observed(t)' : o.frame = f /\ o.det = d
    BY <1>0, <1>1 DEF Covered, Seen
  <2>1. ASSUME NEW t \in 1 .. old, \E o \in Observed(t) : o.frame = f /\ o.det = d
        PROVE  \E u \in 1 .. old + size : \E o \in Observed(u)' : o.frame = f /\ o.det = d
    BY <1>5, <1>6, <2>1
  <2>2. CASE f # frame
    <3>1. \E t \in 1 .. old : \E o \in Observed(t) : o.frame = f /\ o.det = d
      BY <1>1, <2>2 DEF TInv, Covered, Seen
    <3>. QED  BY <2>1, <3>1
  <2>3. CASE f = frame /\ d \in UsedDets
    <3>1. PICK p \in matched : p[2] = d
      BY <2>3 DEF UsedDets
    <3>2. p[1] \in 1 .. old
      BY <1>0, <1>1 DEF TypeOK
    <3>3. \E o \in Observed(p[1]) : o.frame = f /\ o.det = d
      BY <1>0, <2>3, <3>1 DEF MatchedIsSeen, Seen
    <3>. QED  BY <2>1, <3>2, <3>3
  <2>4. CASE f = frame /\ d \notin UsedDets
    <3>1. d \in Left
      BY <1>3, <2>4 DEF Left
    <3>2. PICK n \in 1 .. size : NthLeft(n) = d
      BY <1>2, <3>1
    <3>3. PICK t \in 1 .. old + size : t = old + n
      BY <1>5
    <3>4. Observe(d) \in Observed(t)'
      BY <1>7, <3>2, <3>3
    <3>. QED  BY <1>8, <2>4, <3>4
  <2>. QED  BY <2>2, <2>3, <2>4
<1>. QED  BY <1>9, <1>10, <1>11, <1>13, <1>14, <1>15 DEF TInv

LEMMA FinishHolds ==
  ASSUME TInv, Finish
  PROVE  TInv'
<1>0. /\ TypeOK /\ pc = "ready" /\ pc' = "finished" /\ frame' = frame /\ dets' = dets
      /\ candidates' = candidates /\ matched' = matched
      /\ tracks' = [t \in DOMAIN tracks |-> [tracks[t] EXCEPT !.closed = TRUE]]
  BY DEF TInv, Finish
<1>1. /\ Len(tracks) \in Nat /\ DOMAIN tracks = 1 .. Len(tracks)
      /\ \A t \in DOMAIN tracks : tracks[t] \in Track
  BY <1>0, Basics
<1>2. DOMAIN tracks' = DOMAIN tracks
  BY <1>0
<1>3. \A t \in DOMAIN tracks : /\ tracks'[t] \in Track
                               /\ tracks'[t].observations = tracks[t].observations
  BY <1>0, <1>1 DEF Track
<1>4. tracks' \in Seq(Track)
  <2>1. tracks' \in [1 .. Len(tracks) -> Track]
    BY <1>0, <1>1, <1>3
  <2>. QED  BY <1>1, <2>1, FunctionIsSeq
<1>5. \A t \in DOMAIN tracks : Observed(t)' = Observed(t)
  BY <1>3 DEF Observed
<1>6. TypeOK'
  BY <1>0, <1>2, <1>3, <1>4 DEF TypeOK
<1>7. FramesIncrease'
  BY <1>2, <1>3, FramesStay DEF TInv
<1>8. Faithful' /\ Unshared'
  BY <1>0, <1>2, <1>5 DEF TInv, Faithful, Unshared
<1>9. Working' /\ MatchedIsSeen' /\ SeenIsMatched'
  BY <1>0 DEF Working, MatchedIsSeen, SeenIsMatched
<1>10. Covered'
  BY <1>0, <1>2, <1>5 DEF TInv, Covered, Seen
<1>. QED  BY <1>6, <1>7, <1>8, <1>9, <1>10 DEF TInv

LEMMA TrackerInvariant == Spec => []TInv
<1>1. TInv /\ [Next]_vars => TInv'
  <2>. SUFFICES ASSUME TInv, [Next]_vars PROVE TInv'
    OBVIOUS
  <2>1. ASSUME NEW n \in 0 .. MaxDets, NEW placed \in [1 .. n -> Boxes], NewFrame(placed)
        PROVE  TInv'
    BY <2>1, NewFrameHolds
  <2>2. ASSUME pc = "match", NEW p \in Pairs, Match(p) PROVE TInv'
    BY <2>2, MatchHolds
  <2>3. CASE Settle
    BY <2>3, SettleHolds
  <2>4. CASE Finish
    BY <2>4, FinishHolds
  <2>5. CASE UNCHANGED vars
    BY <2>5 DEF vars, TInv, TypeOK, FramesIncrease, Faithful, Unshared, Working, MatchedIsSeen,
                SeenIsMatched, Covered, Seen, Observed, Found
  <2>. QED  BY <2>1, <2>2, <2>3, <2>4, <2>5 DEF Next
<1>. QED  BY InitHolds, <1>1, PTL DEF Spec

\* Whatever the detector finds and however boxes overlap, the tracks that
\* IoUTracker.update and finish leave partition the detections: a track sees a
\* frame at most once and frames in order, no two tracks share a detection, and
\* between frames every detection is in a track.
THEOREM TracksAlwaysPartition == Spec => []TracksPartition
BY TrackerInvariant, TInvIsEnough, PTL

-----------------------------------------------------------------------------
\* How long a track was not seen, in the middle of a frame too.
SeenAt(t) == LastOf(tracks[t].observations).frame

Misses ==
  /\ ClosedAfterMisses
  /\ pc = "match" =>
       /\ candidates = OpenTracks
       /\ \A t \in OpenTracks :
            IF t \in UsedTracks THEN tracks[t].misses = 0 /\ SeenAt(t) = frame
            ELSE tracks[t].misses <= MaxMisses /\ SeenAt(t) + tracks[t].misses + 1 = frame

LEMMA LastSeen ==
  ASSUME TInv, NEW t \in DOMAIN tracks
  PROVE  /\ tracks[t].observations \in Seq(Observation) /\ Len(tracks[t].observations) \in Nat \ {0}
         /\ LastOf(tracks[t].observations) \in Observed(t)
         /\ LastBox(t) \in Boxes
         /\ SeenAt(t) \in 1 .. frame /\ frame \in Nat
         /\ tracks[t].misses \in Nat /\ tracks[t].closed \in BOOLEAN
<1>. DEFINE s == tracks[t].observations
<1>1. s \in Seq(Observation) /\ s # <<>> /\ frame \in Nat /\ DOMAIN dets = 1 .. frame
  BY Basics DEF TInv, TypeOK
<1>2. Observed(t) = {s[i] : i \in DOMAIN s}
  BY DEF Observed
<1>3. /\ tracks[t].misses \in Nat /\ tracks[t].closed \in BOOLEAN
  BY Basics DEF TInv, Track
<1>. HIDE DEF s
<1>4. Len(s) \in Nat \ {0} /\ LastOf(s) \in Observed(t) /\ LastOf(s) \in Observation
  BY <1>1, <1>2 DEF LastOf
<1>5. LastOf(s).frame \in 1 .. frame
  BY <1>1, <1>4 DEF TInv, Faithful
<1>. QED  BY <1>1, <1>3, <1>4, <1>5 DEF s, SeenAt, LastBox, Observation

LEMMA NewFrameCounts ==
  ASSUME TInv, Misses, NEW placed, NewFrame(placed)
  PROVE  Misses'
<1>1. /\ pc = "ready" /\ pc' = "match" /\ frame' = frame + 1 /\ tracks' = tracks /\ matched' = {}
      /\ candidates' = OpenTracks
  BY DEF NewFrame
<1>2. OpenTracks' = OpenTracks /\ UsedTracks' = {} /\ OpenTracks \subseteq DOMAIN tracks
  BY <1>1 DEF OpenTracks, UsedTracks
<1>3. \A t \in DOMAIN tracks : SeenAt(t)' = SeenAt(t)
  BY <1>1 DEF SeenAt
<1>4. ASSUME NEW t \in OpenTracks PROVE tracks[t].misses <= MaxMisses /\ SeenAt(t) + tracks[t].misses + 1 = frame + 1
  <2>1. tracks[t].misses = frame - SeenAt(t) /\ tracks[t].misses <= MaxMisses
    BY <1>1 DEF Misses, ClosedAfterMisses, SeenAt
  <2>. QED  BY <1>2, <2>1, LastSeen
<1>5. ASSUME NEW t \in DOMAIN tracks \ OpenTracks
      PROVE  tracks[t].misses = MaxMisses + 1 /\ SeenAt(t) + MaxMisses + 1 <= frame + 1
  <2>1. tracks[t].misses = MaxMisses + 1 /\ SeenAt(t) + MaxMisses + 1 <= frame
    BY <1>1 DEF Misses, ClosedAfterMisses, SeenAt
  <2>. QED  BY <2>1, LastSeen, TrackerAssumption
<1>. QED  BY <1>1, <1>2, <1>3, <1>4, <1>5 DEF Misses, ClosedAfterMisses, SeenAt

LEMMA MatchCounts ==
  ASSUME TInv, Misses, pc = "match", NEW p, Match(p)
  PROVE  Misses'
<1>1. /\ pc' = pc /\ frame' = frame /\ candidates' = candidates /\ matched' = matched \cup {p}
  BY DEF Match
<1>2. /\ p[1] \in DOMAIN tracks /\ DOMAIN tracks' = DOMAIN tracks /\ p[1] \in candidates
      /\ Observe(p[2]) \in Observation
      /\ \A t \in DOMAIN tracks :
           tracks'[t].observations = IF t = p[1] THEN Append(tracks[t].observations, Observe(p[2]))
                                                 ELSE tracks[t].observations
  BY MatchSees
<1>3. tracks \in Seq(Track)
  BY DEF TInv, TypeOK
<1>4. /\ \A t \in DOMAIN tracks \ {p[1]} : tracks'[t] = tracks[t]
      /\ tracks'[p[1]].misses = 0 /\ tracks'[p[1]].closed = tracks[p[1]].closed
  BY <1>2, <1>3 DEF Match
<1>5. OpenTracks' = OpenTracks /\ UsedTracks' = UsedTracks \cup {p[1]} /\ OpenTracks \subseteq DOMAIN tracks
      /\ p[1] \in OpenTracks
  <2>1. \A t \in DOMAIN tracks : tracks'[t].closed = tracks[t].closed
    BY <1>4
  <2>. QED  BY <1>1, <1>2, <2>1 DEF OpenTracks, UsedTracks, Misses
<1>6. \A t \in DOMAIN tracks \ {p[1]} : SeenAt(t)' = SeenAt(t)
  BY <1>4 DEF SeenAt
<1>7. SeenAt(p[1])' = frame
  <2>. DEFINE s == tracks[p[1]].observations
              o == Observe(p[2])
  <2>1. s \in Seq(Observation) /\ o \in Observation /\ o.frame = frame
    BY <1>2, LastSeen DEF Observe
  <2>2. tracks'[p[1]].observations = Append(s, o)
    BY <1>2
  <2>. HIDE DEF s, o
  <2>3. LastOf(Append(s, o)) = o
    BY <2>1 DEF LastOf
  <2>. QED  BY <2>1, <2>2, <2>3 DEF SeenAt
<1>8. \A t \in DOMAIN tracks \ OpenTracks : tracks[t].misses = MaxMisses + 1 /\ SeenAt(t) + MaxMisses + 1 <= frame
  BY DEF Misses, ClosedAfterMisses, SeenAt
<1>9. ClosedAfterMisses'
  BY <1>1, <1>2, <1>4, <1>5, <1>6, <1>8 DEF ClosedAfterMisses, SeenAt
<1>10. \A t \in OpenTracks :
         IF t \in UsedTracks' THEN tracks'[t].misses = 0 /\ SeenAt(t)' = frame
         ELSE tracks'[t].misses <= MaxMisses /\ SeenAt(t)' + tracks'[t].misses + 1 = frame
  BY <1>4, <1>5, <1>6, <1>7 DEF Misses
<1>. QED  BY <1>1, <1>5, <1>9, <1>10 DEF Misses

LEMMA SettleCounts ==
  ASSUME TInv, Misses, Settle
  PROVE  Misses'
<1>. DEFINE old == Len(tracks)
            size == Cardinality(Left)
<1>1. pc = "match" /\ pc' = "ready" /\ frame' = frame
  BY DEF Settle
<1>2. /\ old \in Nat /\ DOMAIN tracks = 1 .. old /\ size \in Nat /\ DOMAIN tracks' = 1 .. old + size
      /\ \A t \in 1 .. old : tracks'[t].observations = tracks[t].observations
      /\ \A t \in 1 .. old : tracks'[t] = IF t \in candidates \ UsedTracks THEN Missed(tracks[t]) ELSE tracks[t]
      /\ \A n \in 1 .. size : tracks'[old + n] = Opened(NthLeft(n))
  BY SettleSees
<1>. HIDE DEF old, size
<1>3. \A t \in 1 .. old : SeenAt(t)' = SeenAt(t)
  BY <1>2 DEF SeenAt
<1>4. candidates = OpenTracks
  BY <1>1 DEF Misses
<1>. DEFINE Right(t) == IF tracks'[t].closed
                        THEN tracks'[t].misses = MaxMisses + 1 /\ SeenAt(t)' + MaxMisses + 1 <= frame
                        ELSE tracks'[t].misses = frame - SeenAt(t)' /\ tracks'[t].misses <= MaxMisses
<1>5. ASSUME NEW t \in 1 .. old PROVE Right(t)
  <2>0. /\ SeenAt(t) \in 1 .. frame /\ frame \in Nat /\ tracks[t].misses \in Nat /\ MaxMisses \in Nat
        /\ t \in DOMAIN tracks
    BY <1>2, LastSeen, TrackerAssumption
  <2>1. CASE tracks[t].closed
    <3>1. t \in DOMAIN tracks \ OpenTracks
      BY <2>0, <2>1 DEF OpenTracks
    <3>2. tracks'[t] = tracks[t]
      BY <1>2, <1>4, <3>1
    <3>3. tracks[t].misses = MaxMisses + 1 /\ SeenAt(t) + MaxMisses + 1 <= frame
      BY <1>1, <3>1 DEF Misses, ClosedAfterMisses, SeenAt
    <3>. QED  BY <1>3, <2>1, <3>2, <3>3
  <2>2. CASE ~tracks[t].closed /\ t \in UsedTracks
    <3>1. t \in OpenTracks /\ tracks'[t] = tracks[t]
      BY <1>2, <2>0, <2>2 DEF OpenTracks
    <3>2. tracks[t].misses = 0 /\ SeenAt(t) = frame
      BY <1>1, <2>2, <3>1 DEF Misses
    <3>. QED  BY <1>3, <2>0, <2>2, <3>1, <3>2
  <2>3. CASE ~tracks[t].closed /\ t \notin UsedTracks
    <3>1. t \in OpenTracks
      BY <2>0, <2>3 DEF OpenTracks
    <3>2. tracks'[t] = Missed(tracks[t])
      BY <1>2, <1>4, <2>3, <3>1
    <3>3. /\ tracks'[t].misses = tracks[t].misses + 1
          /\ tracks'[t].closed <=> tracks[t].misses + 1 > MaxMisses
      <4>1. tracks'[t].closed = (tracks[t].closed \/ tracks[t].misses + 1 > MaxMisses)
        BY <3>2 DEF Missed
      <4>2. tracks'[t].misses = tracks[t].misses + 1
        BY <3>2 DEF Missed
      <4>. QED  BY <2>3, <4>1, <4>2
    <3>4. tracks[t].misses <= MaxMisses /\ SeenAt(t) + tracks[t].misses + 1 = frame
      BY <1>1, <2>3, <3>1 DEF Misses
    <3>5. CASE tracks'[t].closed
      BY <1>3, <2>0, <3>3, <3>4, <3>5
    <3>6. CASE ~tracks'[t].closed
      BY <1>3, <2>0, <3>3, <3>4, <3>6
    <3>. QED  BY <3>5, <3>6
  <2>. QED  BY <2>1, <2>2, <2>3
<1>6. ASSUME NEW n \in 1 .. size, NEW t \in 1 .. old + size, t = old + n PROVE Right(t)
  <2>0. frame \in Nat /\ MaxMisses \in Nat
    BY Basics, TrackerAssumption DEF TInv
  <2>1. tracks'[t] = Opened(NthLeft(n))
    BY <1>2, <1>6
  <2>. DEFINE o == Observe(NthLeft(n))
  <2>2. tracks'[t].observations = <<o>> /\ tracks'[t].misses = 0 /\ tracks'[t].closed = FALSE
    BY <2>1 DEF Opened
  <2>3. o.frame = frame
    BY DEF Observe
  <2>. HIDE DEF o
  <2>4. SeenAt(t)' = frame
    BY <2>2, <2>3 DEF SeenAt, LastOf
  <2>. QED  BY <2>0, <2>2, <2>4
<1>7. \A t \in 1 .. old + size : t \in 1 .. old \/ \E n \in 1 .. size : t = old + n
  <2>. TAKE t \in 1 .. old + size
  <2>1. CASE t <= old
    BY <1>2, <2>1
  <2>2. CASE t > old
    <3>1. t - old \in 1 .. size /\ t = old + (t - old)
      BY <1>2, <2>2
    <3>. QED  BY <3>1
  <2>. QED  BY <1>2, <2>1, <2>2
<1>8. \A t \in DOMAIN tracks' : Right(t)
  BY <1>2, <1>5, <1>6, <1>7
<1>. QED  BY <1>1, <1>8 DEF Misses, ClosedAfterMisses, OpenTracks, SeenAt

LEMMA MissesInvariant == Spec => [](TInv /\ Misses)
<1>1. Init => Misses
  BY DEF Init, Misses, ClosedAfterMisses, OpenTracks
<1>2. TInv /\ Misses /\ [Next]_vars => Misses'
  <2>. SUFFICES ASSUME TInv, Misses, [Next]_vars PROVE Misses'
    OBVIOUS
  <2>1. CASE Finish
    BY <2>1 DEF Finish, Misses, ClosedAfterMisses
  <2>2. CASE UNCHANGED vars
    BY <2>2 DEF vars, Misses, ClosedAfterMisses, OpenTracks, UsedTracks, SeenAt
  <2>. QED  BY <2>1, <2>2, NewFrameCounts, MatchCounts, SettleCounts DEF Next
<1>. QED  BY <1>1, <1>2, TrackerInvariant, PTL DEF Spec

\* For any max_misses: update closes a track when it has missed one frame more, and
\* an open track has missed exactly the frames since it was last seen.
THEOREM TracksCloseAfterMisses == Spec => []ClosedAfterMisses
<1>1. Misses => ClosedAfterMisses
  BY DEF Misses
<1>. QED  BY <1>1, MissesInvariant, PTL

\* A track is one plate that passes (IoUTracker, tracking.py): its detections are its own,
\* one for a frame, and it goes on for exactly as long as it is not missed too often.
THEOREM TracksStayKept == Spec => []TracksAreKept
<1>1. TracksPartition /\ ClosedAfterMisses => TracksAreKept
  BY DEF TracksAreKept
<1>. QED  BY <1>1, TracksAlwaysPartition, TracksCloseAfterMisses, PTL

-----------------------------------------------------------------------------
\* The overlap of a candidate, where it was when the frame came, with a detection.
Overlaps(t, d) == Overlap[BoxBefore(t), Found[d]]

Preferred(t, d) == \E p \in matched : (p[1] = t \/ p[2] = d) /\ Overlaps(p[1], p[2]) >= Overlaps(t, d)

\* A pair that overlaps enough is still to come, or one side is better off.
Settled ==
  pc \in {"match", "ready"} /\ frame > 0 => \A t \in candidates : \A d \in DOMAIN Found :
    Overlaps(t, d) >= Threshold => (pc = "match" /\ <<t, d>> \in Pairs) \/ Preferred(t, d)

\* A candidate that is not matched yet is where it was.
LEMMA Unmoved ==
  ASSUME TInv, pc = "match", NEW t \in candidates, t \notin UsedTracks
  PROVE  /\ t \in DOMAIN tracks /\ BoxBefore(t) = LastBox(t) /\ SeenAt(t) < frame
         /\ \A d : Rank(<<t, d>>) = Overlaps(t, d)
         /\ \A d \in DOMAIN Found : Overlaps(t, d) \in Nat
<1>1. t \in DOMAIN tracks
  BY DEF TInv, TypeOK
<1>2. SeenAt(t) # frame
  <2>. SUFFICES ASSUME SeenAt(t) = frame PROVE FALSE
    OBVIOUS
  <2>. DEFINE o == LastOf(tracks[t].observations)
  <2>1. o \in Observed(t) /\ o.frame = frame
    BY <1>1, LastSeen DEF SeenAt
  <2>. HIDE DEF o
  <2>2. <<t, o.det>> \in matched
    BY <1>1, <2>1 DEF TInv, SeenIsMatched
  <2>3. <<t, o.det>>[1] \in UsedTracks
    BY <2>2 DEF UsedTracks
  <2>. QED  BY <2>3
<1>3. SeenAt(t) < frame
  BY <1>1, <1>2, LastSeen
<1>4. BoxBefore(t) = LastBox(t)
  BY <1>3 DEF BoxBefore, LastBox, SeenAt
<1>5. \A d : Rank(<<t, d>>) = Overlaps(t, d)
  BY <1>4 DEF Rank, Overlaps
<1>6. \A d \in DOMAIN Found : Found[d] \in Boxes
  BY InFrame DEF TInv
<1>7. \A d \in DOMAIN Found : Overlaps(t, d) \in Nat
  BY <1>1, <1>4, <1>6, LastSeen, TrackerAssumption DEF Overlaps
<1>. QED  BY <1>1, <1>3, <1>4, <1>5, <1>7

LEMMA NewFrameSettles ==
  ASSUME TInv, NEW n \in 0 .. MaxDets, NEW placed \in [1 .. n -> Boxes], NewFrame(placed)
  PROVE  Settled'
<1>1. TInv' /\ pc' = "match" /\ matched' = {} /\ pc = "ready"
  BY NewFrameHolds DEF NewFrame
<1>2. UsedTracks' = {} /\ UsedDets' = {}
  BY <1>1 DEF UsedTracks, UsedDets
<1>3. ASSUME NEW t \in candidates', NEW d \in DOMAIN Found', Overlaps(t, d)' >= Threshold
      PROVE  <<t, d>> \in Pairs'
  <2>1. BoxBefore(t)' = LastBox(t)'
    <3>1. t \in DOMAIN tracks /\ tracks' = tracks /\ frame' = frame + 1
      BY DEF NewFrame, OpenTracks
    <3>2. SeenAt(t)' < frame'
      BY <3>1, LastSeen DEF SeenAt
    <3>. QED  BY <3>2 DEF BoxBefore, LastBox, SeenAt
  <2>. QED  BY <1>2, <1>3, <2>1 DEF Pairs, Rank, Overlaps
<1>. QED  BY <1>1, <1>3 DEF Settled

LEMMA MatchSettles ==
  ASSUME TInv, Settled, pc = "match", NEW p \in Pairs, Match(p)
  PROVE  Settled'
<1>1. /\ pc' = pc /\ frame' = frame /\ candidates' = candidates /\ matched' = matched \cup {p} /\ Found' = Found
  BY DEF Match, Found
<1>2. /\ p[1] \in candidates /\ p[1] \in DOMAIN tracks /\ p[1] \notin UsedTracks
      /\ p[2] \in DOMAIN Found /\ p = <<p[1], p[2]>> /\ Observe(p[2]) \in Observation
      /\ \A t \in DOMAIN tracks :
           tracks'[t].observations = IF t = p[1] THEN Append(tracks[t].observations, Observe(p[2]))
                                                 ELSE tracks[t].observations
  BY MatchSees
<1>3. UsedTracks' = UsedTracks \cup {p[1]} /\ UsedDets' = UsedDets \cup {p[2]}
  BY <1>1 DEF UsedTracks, UsedDets
<1>4. candidates \subseteq DOMAIN tracks /\ \A m \in matched : m[1] \in candidates
  BY DEF TInv, TypeOK
<1>5. \A t \in DOMAIN tracks : t # p[1] => BoxBefore(t)' = BoxBefore(t) /\ LastBox(t)' = LastBox(t)
  BY <1>1, <1>2 DEF BoxBefore, LastBox
<1>6. BoxBefore(p[1])' = BoxBefore(p[1])
  <2>. DEFINE s == tracks[p[1]].observations
              o == Observe(p[2])
              longer == Append(s, o)
  <2>1. /\ s \in Seq(Observation) /\ Len(s) \in Nat \ {0} /\ o \in Observation /\ o.frame = frame
        /\ LastOf(s).box = LastBox(p[1]) /\ frame \in Nat
    BY <1>2, LastSeen DEF Observe, LastBox
  <2>2. tracks'[p[1]].observations = longer
    BY <1>2
  <2>3. BoxBefore(p[1]) = LastBox(p[1])
    BY <1>2, Unmoved
  <2>. HIDE DEF s, o
  <2>4. Len(longer) = Len(s) + 1 /\ longer[Len(s) + 1] = o /\ longer[Len(s)] = s[Len(s)]
    BY <2>1
  <2>. HIDE DEF longer
  <2>5. LastOf(longer).frame = frame /\ longer[Len(longer) - 1].box = LastOf(s).box
    BY <2>1, <2>4 DEF LastOf
  <2>6. ~(LastOf(longer).frame < frame)
    BY <2>1, <2>5
  <2>. QED  BY <1>1, <2>1, <2>2, <2>3, <2>5, <2>6 DEF BoxBefore
<1>7. \A t \in candidates : \A d : Overlaps(t, d)' = Overlaps(t, d)
  BY <1>1, <1>4, <1>5, <1>6 DEF Overlaps
<1>8. ASSUME NEW t \in candidates, NEW d \in DOMAIN Found, Overlaps(t, d) >= Threshold
      PROVE  <<t, d>> \in Pairs' \/ Preferred(t, d)'
  <2>1. <<t, d>> \in Pairs \/ Preferred(t, d)
    <3>1. frame > 0
      BY InFrame DEF TInv
    <3>. QED  BY <1>8, <3>1 DEF Settled
  <2>2. CASE Preferred(t, d)
    <3>1. PICK m \in matched : (m[1] = t \/ m[2] = d) /\ Overlaps(m[1], m[2]) >= Overlaps(t, d)
      BY <2>2 DEF Preferred
    <3>2. Overlaps(m[1], m[2])' >= Overlaps(t, d)' /\ m \in matched'
      BY <1>1, <1>4, <1>7, <3>1
    <3>. QED  BY <3>1, <3>2 DEF Preferred
  <2>3. CASE <<t, d>> \in Pairs /\ (t = p[1] \/ d = p[2])
    <3>1. t \notin UsedTracks
      BY <2>3 DEF Pairs
    <3>2. /\ Rank(<<t, d>>) = Overlaps(t, d) /\ Rank(p) = Overlaps(p[1], p[2])
          /\ Overlaps(t, d) \in Nat /\ Overlaps(p[1], p[2]) \in Nat
      BY <1>2, <3>1, Unmoved
    <3>3. <<t, d>> # p => Before(p, <<t, d>>)
      BY <2>3 DEF Match
    <3>4. Overlaps(p[1], p[2]) >= Overlaps(t, d)
      BY <1>2, <3>2, <3>3 DEF Before
    <3>5. Overlaps(p[1], p[2])' >= Overlaps(t, d)' /\ p \in matched'
      BY <1>1, <1>2, <1>7, <3>4
    <3>. QED  BY <2>3, <3>5 DEF Preferred
  <2>4. CASE <<t, d>> \in Pairs /\ t # p[1] /\ d # p[2]
    <3>1. t \in candidates' \ UsedTracks' /\ d \in DOMAIN Found' \ UsedDets' /\ Rank(<<t, d>>) >= Threshold
      BY <1>1, <1>3, <2>4 DEF Pairs
    <3>2. LastBox(t)' = LastBox(t)
      BY <1>4, <1>5, <2>4
    <3>3. Overlap[LastBox(t), Found[d]] >= Threshold
      BY <3>1 DEF Rank
    <3>4. Overlap[LastBox(t)', Found'[d]] >= Threshold
      BY <1>1, <3>2, <3>3
    <3>. QED  BY <3>1, <3>4 DEF Pairs, Rank
  <2>. QED  BY <2>1, <2>2, <2>3, <2>4
<1>. QED  BY <1>1, <1>7, <1>8 DEF Settled

LEMMA SettleSettles ==
  ASSUME TInv, Settled, Settle
  PROVE  Settled'
<1>1. /\ pc = "match" /\ pc' = "ready" /\ frame' = frame /\ candidates' = candidates /\ matched' = matched
      /\ Found' = Found /\ Pairs = {}
  BY DEF Settle, Found
<1>2. \A t \in DOMAIN tracks : tracks'[t].observations = tracks[t].observations
  BY SettleSees
<1>3. candidates \subseteq DOMAIN tracks /\ \A m \in matched : m[1] \in candidates
  BY DEF TInv, TypeOK
<1>4. \A t \in candidates : BoxBefore(t)' = BoxBefore(t)
  BY <1>1, <1>2, <1>3 DEF BoxBefore
<1>5. \A t \in candidates : \A d : Overlaps(t, d)' = Overlaps(t, d)
  BY <1>1, <1>4 DEF Overlaps
<1>6. \A t \in candidates : \A d : Preferred(t, d) => Preferred(t, d)'
  BY <1>1, <1>3, <1>5 DEF Preferred
<1>. QED  BY <1>1, <1>5, <1>6 DEF Settled

\* For any boxes and overlaps: taking the best pairs first leaves no pair of a
\* candidate and a detection that both would rather have than what they got.
THEOREM TracksTakeTheBestPairs == Spec => []NoPairPassedOver
<1>1. Init => Settled
  BY DEF Init, Settled
<1>2. TInv /\ Settled /\ [Next]_vars => Settled'
  <2>. SUFFICES ASSUME TInv, Settled, [Next]_vars PROVE Settled'
    OBVIOUS
  <2>1. CASE Finish
    BY <2>1 DEF Finish, Settled
  <2>2. CASE UNCHANGED vars
    <3>1. /\ pc' = pc /\ frame' = frame /\ candidates' = candidates /\ matched' = matched /\ Found' = Found
          /\ \A t : tracks'[t] = tracks[t]
      BY <2>2 DEF vars, Found
    <3>2. Pairs' = Pairs
      BY <3>1 DEF Pairs, Rank, LastBox, UsedTracks, UsedDets
    <3>3. \A t, d : Overlaps(t, d)' = Overlaps(t, d)
      BY <3>1 DEF Overlaps, BoxBefore
    <3>4. \A t, d : Preferred(t, d)' <=> Preferred(t, d)
      BY <3>1, <3>3 DEF Preferred
    <3>. QED  BY <3>1, <3>2, <3>3, <3>4 DEF Settled
  <2>. QED  BY <2>1, <2>2, NewFrameSettles, MatchSettles, SettleSettles DEF Next
<1>3. Settled => NoPairPassedOver
  BY DEF Settled, Preferred, Overlaps, NoPairPassedOver
<1>. QED  BY <1>1, <1>2, <1>3, TrackerInvariant, PTL DEF Spec
-----------------------------------------------------------------------------
(***************************************************************************)
(* A folder in the layout of data/.                                        *)
(***************************************************************************)
Content == DataFolder!Scenes \cup {None, Broken} \cup Damaged
Files == [DataFolder!Splits -> [DataFolder!Indices -> Content]]
Written3 == {"config", "rows", "manifest"}

\* Types, as far as the proofs need them.
FolderTypes ==
  /\ photos \in Files /\ boxes \in Files
  /\ writer \in [pc : {"idle", "photo", "pixels", "boxes"} \cup Written3,
                 set : DataFolder!Sets \cup {DataFolder!NoSet}, next : Nat]
  /\ writer.pc # "idle" => writer.set \in DataFolder!Sets /\ writer.next \in 1 .. writer.set.n
  /\ runs \in Nat
  /\ complete # None => complete \in [set : DataFolder!Sets, run : Nat] /\ complete.run <= runs

PhotoIs(set, i) == photos[DataFolder!SplitOf(set, i)][i] = DataFolder!Scene(set.seed, i)
BoxesAre(set, i) == boxes[DataFolder!SplitOf(set, i)][i] = DataFolder!Scene(set.seed, i)

\* What a generation has written so far is of its set, and nothing is complete meanwhile.
ScenesWritten ==
  /\ writer.pc # "idle" =>
       /\ complete = None
       /\ \A i \in 1 .. writer.set.n :
            /\ i < writer.next \/ (i = writer.next /\ writer.pc \in {"boxes"} \cup Written3) => PhotoIs(writer.set, i)
            /\ i < writer.next \/ (i = writer.next /\ writer.pc \in Written3) => BoxesAre(writer.set, i)
  /\ writer.pc \in Written3 => writer.next = writer.set.n
  /\ writer.pc \in {"rows", "manifest"} => config = "LP"
  /\ writer.pc = "manifest" => rows = DataFolder!RowsOf(writer.set)

Whole ==
  complete # None =>
    /\ \A i \in 1 .. complete.set.n : PhotoIs(complete.set, i) /\ BoxesAre(complete.set, i)
    /\ config = "LP" /\ rows = DataFolder!RowsOf(complete.set)
    /\ setManifest = [set |-> complete.set, digest |-> DataFolder!DigestOf(complete.set)]

\* A measurement under way: of a complete set while the folder holds it.
Metered ==
  /\ meter = [pc |-> meter.pc, split |-> meter.split, synthetic |-> meter.synthetic, read |-> meter.read,
              of |-> meter.of]
  /\ meter.split \in DataFolder!Splits
  /\ meter.of # None =>
       /\ meter.of \in [set : DataFolder!Sets, run : Nat] /\ meter.of.run <= runs
       /\ meter.of # complete => meter.of.run < runs
       /\ meter.synthetic
       /\ meter.pc = "report" =>
            /\ \A i \in DataFolder!Share(meter.of.set, meter.split) :
                 meter.read[i] = DataFolder!Scene(meter.of.set.seed, i)
            /\ meter.of = complete => meter.read = photos[meter.split]

DInv == FolderTypes /\ ScenesWritten /\ Whole /\ Metered /\ DataFolder!MeasurementsAreNamed
-----------------------------------------------------------------------------
\* A scene set: its numbers, and where its scenes lie.
LEMMA SetsAre ==
  ASSUME NEW set \in DataFolder!Sets
  PROVE  /\ set.seed \in Seeds /\ set.n \in Nat /\ set.n >= 1 /\ set.n <= Size /\ set # DataFolder!NoSet
         /\ \A i \in 1 .. set.n : /\ i \in DataFolder!Indices /\ i \in Nat
                                  /\ DataFolder!SplitOf(set, i) \in DataFolder!Splits
                                  /\ DataFolder!Scene(set.seed, i) \in DataFolder!Scenes
<1>1. set.seed \in Seeds /\ set.n \in DataFolder!Indices
  BY DEF DataFolder!Sets
<1>2. set.n \in Nat /\ set.n >= 1 /\ set.n <= Size /\ Size \in Nat
  BY <1>1, SetsAssumption DEF DataFolder!Indices
<1>3. ASSUME NEW i \in 1 .. set.n
      PROVE  /\ i \in DataFolder!Indices /\ i \in Nat
             /\ DataFolder!SplitOf(set, i) \in DataFolder!Splits
             /\ DataFolder!Scene(set.seed, i) \in DataFolder!Scenes
  <2>1. i \in DataFolder!Indices /\ i \in Nat
    BY <1>2, <1>3 DEF DataFolder!Indices
  <2>. QED  BY <1>1, <2>1 DEF DataFolder!SplitOf, DataFolder!Splits, DataFolder!Scenes
<1>4. set # DataFolder!NoSet
  BY <1>2 DEF DataFolder!NoSet
<1>. QED  BY <1>1, <1>2, <1>3, <1>4

\* A complete set stands in for data/.
LEMMA WholeStandsIn == FolderTypes /\ Whole => DataFolder!ScenesStandIn
<1>. SUFFICES ASSUME FolderTypes, Whole, complete # None
              PROVE  LET set == complete.set IN
    /\ \A i \in 1 .. set.n :
         LET split == DataFolder!SplitOf(set, i)
         IN  /\ photos[split][i] = DataFolder!Scene(set.seed, i) /\ boxes[split][i] = photos[split][i]
             /\ <<split, i>> \notin DataFolder!FileErrors
    /\ setManifest = [set |-> set, digest |-> DataFolder!DigestOf(set)]
    /\ ~DataFolder!ConfigError /\ DataFolder!RowErrors = {} /\ ~DataFolder!Raises
    /\ DataFolder!Items({}) = rows /\ \A row \in rows : DataFolder!ItemOf(row).photo = DataFolder!ItemOf(row).truth
    /\ {row.plate : row \in rows} = {DataFolder!Scene(set.seed, i) : i \in 1 .. set.n} \cap Plated
    /\ \A r1, r2 \in rows : r1.plate = r2.plate => r1 = r2
  BY DEF DataFolder!ScenesStandIn
<1>. DEFINE set == complete.set
<1>1. set \in DataFolder!Sets
  BY DEF FolderTypes
<1>2. /\ \A i \in 1 .. set.n : PhotoIs(set, i) /\ BoxesAre(set, i)
      /\ config = "LP" /\ rows = DataFolder!RowsOf(set)
      /\ setManifest = [set |-> set, digest |-> DataFolder!DigestOf(set)]
  BY DEF Whole
<1>. HIDE DEF set
<1>3. \A i \in 1 .. set.n : DataFolder!Scene(set.seed, i) \in DataFolder!Scenes
                            /\ DataFolder!Scene(set.seed, i) \notin {None, Broken} \cup Damaged
  BY <1>1, SetsAre, FolderAssumption
<1>4. ASSUME NEW i \in 1 .. set.n, NEW split, split = DataFolder!SplitOf(set, i)
      PROVE  /\ photos[split][i] = DataFolder!Scene(set.seed, i) /\ boxes[split][i] = photos[split][i]
             /\ <<split, i>> \notin DataFolder!FileErrors
  <2>1. photos[split][i] = DataFolder!Scene(set.seed, i) /\ boxes[split][i] = DataFolder!Scene(set.seed, i)
    BY <1>2, <1>4 DEF PhotoIs, BoxesAre
  <2>2. photos[split][i] \notin {None} \cup Damaged /\ boxes[split][i] \notin {None, Broken}
    BY <1>3, <1>4, <2>1
  <2>. QED  BY <2>1, <2>2, FolderAssumption DEF DataFolder!FileErrors, DataFolder!NoSize
<1>5. ~DataFolder!ConfigError
  BY <1>2 DEF DataFolder!ConfigError
<1>6. rows \notin {None, Broken}
  BY <1>1, <1>2, FolderAssumption
<1>7. ASSUME NEW row \in rows
      PROVE  \E i \in 1 .. set.n :
               /\ DataFolder!Scene(set.seed, i) \in Plated
               /\ row = DataFolder!RowOf(set, i)
               /\ DataFolder!PhotoOf(row) = DataFolder!Scene(set.seed, i)
               /\ row.plate = DataFolder!Scene(set.seed, i) /\ row.box = "whole"
               /\ DataFolder!PhotoOf(row) \notin {None} \cup Damaged /\ row.plate # Broken
  <2>1. PICK i \in 1 .. set.n : DataFolder!Scene(set.seed, i) \in Plated /\ row = DataFolder!RowOf(set, i)
    BY <1>2, <1>7 DEF DataFolder!RowsOf
  <2>2. /\ row.split = DataFolder!SplitOf(set, i) /\ row.index = i
        /\ row.plate = DataFolder!Scene(set.seed, i) /\ row.box = "whole"
    BY <2>1 DEF DataFolder!RowOf
  <2>3. DataFolder!PhotoOf(row) = DataFolder!Scene(set.seed, i)
    BY <1>2, <2>1, <2>2 DEF DataFolder!PhotoOf, PhotoIs
  <2>. QED  BY <1>3, <2>1, <2>2, <2>3
<1>8. DataFolder!RowErrors = {}
  BY <1>7, FolderAssumption DEF DataFolder!RowErrors, DataFolder!NoSize
<1>9. ~DataFolder!Raises
  BY <1>6, <1>7, FolderAssumption DEF DataFolder!Raises, DataFolder!Unreadable, DataFolder!NoImage
<1>10. DataFolder!Items({}) = rows
  BY <1>7 DEF DataFolder!Items, DataFolder!ByLabel
<1>11. \A row \in rows : DataFolder!ItemOf(row).photo = DataFolder!ItemOf(row).truth
  BY <1>7 DEF DataFolder!ItemOf
<1>12. {row.plate : row \in rows} = {DataFolder!Scene(set.seed, i) : i \in 1 .. set.n} \cap Plated
  <2>1. ASSUME NEW i \in 1 .. set.n, DataFolder!Scene(set.seed, i) \in Plated
        PROVE  \E row \in rows : row.plate = DataFolder!Scene(set.seed, i)
    <3>1. DataFolder!RowOf(set, i) \in rows
      BY <1>2, <2>1 DEF DataFolder!RowsOf
    <3>. QED  BY <3>1 DEF DataFolder!RowOf
  <2>. QED  BY <1>7, <2>1
<1>13. \A r1, r2 \in rows : r1.plate = r2.plate => r1 = r2
  <2>. SUFFICES ASSUME NEW r1 \in rows, NEW r2 \in rows, r1.plate = r2.plate PROVE r1 = r2
    OBVIOUS
  <2>1. PICK i \in 1 .. set.n : r1 = DataFolder!RowOf(set, i) /\ r1.plate = DataFolder!Scene(set.seed, i)
    BY <1>7
  <2>2. PICK j \in 1 .. set.n : r2 = DataFolder!RowOf(set, j) /\ r2.plate = DataFolder!Scene(set.seed, j)
    BY <1>7
  <2>3. i = j
    BY <2>1, <2>2 DEF DataFolder!Scene
  <2>. QED  BY <2>1, <2>2, <2>3
<1>. QED  BY <1>2, <1>4, <1>5, <1>8, <1>9, <1>10, <1>11, <1>12, <1>13 DEF set

\* The invariant holds of an empty folder,
LEMMA FolderInit == DataFolder!Init => DInv
<1>. SUFFICES ASSUME DataFolder!Init PROVE DInv
  OBVIOUS
<1>1. photos \in Files /\ boxes \in Files
  BY DEF DataFolder!Init, DataFolder!NoFiles, Files, Content
<1>2. FolderTypes
  BY <1>1 DEF DataFolder!Init, FolderTypes, DataFolder!Resting, Written3
<1>3. ScenesWritten /\ Whole
  BY DEF DataFolder!Init, ScenesWritten, Whole, DataFolder!Resting, Written3
<1>4. Metered /\ DataFolder!MeasurementsAreNamed
  BY DEF DataFolder!Init, Metered, DataFolder!Off, DataFolder!Splits, DataFolder!MeasurementsAreNamed
<1>. QED  BY <1>2, <1>3, <1>4 DEF DInv

\* What a step of the writer keeps, which moves while nothing is complete.
LEMMA NothingComplete ==
  ASSUME DInv, complete = None, complete' = None, UNCHANGED <<meter, measurements, runs>>
  PROVE  Whole' /\ Metered' /\ DataFolder!MeasurementsAreNamed'
<1>1. Metered'
  BY DEF DInv, Metered, DataFolder!Share
<1>. QED  BY <1>1 DEF DInv, Whole, DataFolder!MeasurementsAreNamed

\* What the writer starts with is lost, whatever was complete.
LEMMA NoLongerComplete ==
  ASSUME DInv, complete' = None, runs' = runs + 1, UNCHANGED <<meter, measurements>>
  PROVE  Whole' /\ Metered' /\ DataFolder!MeasurementsAreNamed'
<1>1. Metered'
  <2>1. ASSUME meter.of # None
        PROVE  /\ meter.of.run < runs' /\ meter.of # complete'
               /\ meter.of \in [set : DataFolder!Sets, run : Nat] /\ meter.of.run <= runs'
               /\ meter.synthetic
    BY <2>1 DEF DInv, Metered, FolderTypes
  <2>. QED  BY <2>1 DEF DInv, Metered, DataFolder!Share
<1>. QED  BY <1>1 DEF DInv, Whole, DataFolder!MeasurementsAreNamed

\* and every step keeps it.
LEMMA WriteScenesHolds ==
  ASSUME DInv, NEW set \in DataFolder!Sets, DataFolder!WriteScenes(set)
  PROVE  DInv'
<1>1. /\ writer' = [pc |-> "photo", set |-> set, next |-> 1] /\ runs' = runs + 1 /\ complete' = None
      /\ UNCHANGED <<photos, boxes, config, rows, setManifest, meter, measurements>>
  BY DEF DataFolder!WriteScenes, DataFolder!folder
<1>2. set.n \in Nat /\ set.n >= 1
  BY SetsAre
<1>3. FolderTypes'
  BY <1>1, <1>2 DEF DInv, FolderTypes
<1>4. ScenesWritten'
  BY <1>1, <1>2 DEF ScenesWritten, Written3
<1>. QED  BY <1>1, <1>3, <1>4, NoLongerComplete DEF DInv

\* One file of a scene is written: the others stay.
LEMMA OneFile ==
  ASSUME NEW set \in DataFolder!Sets, NEW k \in 1 .. set.n, NEW files \in Files, NEW c \in Content,
         NEW at, at = DataFolder!SplitOf(set, k)
  PROVE  LET files2 == [files EXCEPT ![at][k] = c]
         IN  /\ files2 \in Files
             /\ files2[DataFolder!SplitOf(set, k)][k] = c
             /\ \A i \in 1 .. set.n : i # k =>
                  files2[DataFolder!SplitOf(set, i)][i] = files[DataFolder!SplitOf(set, i)][i]
<1>. DEFINE files2 == [files EXCEPT ![at][k] = c]
<1>1. at \in DataFolder!Splits /\ k \in DataFolder!Indices
  BY SetsAre
<1>3. ASSUME NEW i \in 1 .. set.n
      PROVE  DataFolder!SplitOf(set, i) \in DataFolder!Splits /\ i \in DataFolder!Indices
  BY SetsAre
<1>4. files2 \in Files /\ files2[at][k] = c
  <2>1. files[at] \in [DataFolder!Indices -> Content]
    BY <1>1 DEF Files
  <2>2. files2[at] = [files[at] EXCEPT ![k] = c]
    BY <1>1 DEF Files
  <2>3. [files[at] EXCEPT ![k] = c] \in [DataFolder!Indices -> Content]
    BY <1>1, <2>1
  <2>4. DOMAIN files2 = DataFolder!Splits /\ \A s \in DataFolder!Splits : s # at => files2[s] = files[s]
    BY <1>1 DEF Files
  <2>5. files2 = [s \in DataFolder!Splits |-> files2[s]]
    BY DEF Files
  <2>6. \A s \in DataFolder!Splits : files2[s] \in [DataFolder!Indices -> Content]
    BY <2>2, <2>3, <2>4 DEF Files
  <2>. HIDE DEF files2
  <2>7. files2 \in Files
    BY <2>5, <2>6 DEF Files
  <2>8. files2[at][k] = c
    BY <1>1, <2>1, <2>2
  <2>. QED  BY <2>7, <2>8
<1>5. ASSUME NEW s \in DataFolder!Splits, NEW i \in DataFolder!Indices, i # k
      PROVE  files2[s][i] = files[s][i]
  BY <1>1, <1>5 DEF Files
<1>. HIDE DEF files2
<1>6. files2[DataFolder!SplitOf(set, k)][k] = c
  BY <1>4
<1>7. \A i \in 1 .. set.n : i # k =>
        files2[DataFolder!SplitOf(set, i)][i] = files[DataFolder!SplitOf(set, i)][i]
  BY <1>3, <1>5
<1>. QED  BY <1>4, <1>6, <1>7 DEF files2

\* What is known while scenes are written.
LEMMA Scenes ==
  ASSUME DInv, writer.pc # "idle"
  PROVE  /\ writer.set \in DataFolder!Sets /\ writer.next \in 1 .. writer.set.n
         /\ writer.set.n \in Nat /\ writer.next \in Nat /\ complete = None
         /\ DataFolder!Current = DataFolder!Scene(writer.set.seed, writer.next)
         /\ DataFolder!Current \in Content
         /\ DataFolder!Here = DataFolder!SplitOf(writer.set, writer.next)
<1>1. /\ writer.set \in DataFolder!Sets /\ writer.next \in 1 .. writer.set.n /\ complete = None
  BY DEF DInv, FolderTypes, ScenesWritten
<1>. QED  BY <1>1, SetsAre DEF DataFolder!Current, DataFolder!Here, Content

LEMMA OpenPhotoHolds ==
  ASSUME DInv, DataFolder!OpenPhoto
  PROVE  DInv'
<1>. SUFFICES ASSUME NEW set, set = writer.set, NEW next, next = writer.next, NEW at, at = DataFolder!Here
              PROVE  DInv'
  OBVIOUS
<1>1. PICK content \in Damaged :
        /\ writer.pc = "photo" /\ photos' = [photos EXCEPT ![at][next] = content]
        /\ writer' = [writer EXCEPT !.pc = "pixels"]
        /\ UNCHANGED <<boxes, config, rows, setManifest, meter, measurements, runs, complete>>
  BY DEF DataFolder!OpenPhoto
<1>2. /\ set \in DataFolder!Sets /\ next \in 1 .. set.n /\ set.n \in Nat /\ next \in Nat /\ complete = None
      /\ at = DataFolder!SplitOf(set, next) /\ photos \in Files
  BY <1>1, Scenes DEF DInv, FolderTypes
<1>3. /\ photos' \in Files
      /\ \A i \in 1 .. set.n : i # next =>
           photos'[DataFolder!SplitOf(set, i)][i] = photos[DataFolder!SplitOf(set, i)][i]
  <2>1. content \in Content
    BY <1>1 DEF Content
  <2>2. LET files2 == [photos EXCEPT ![at][next] = content]
        IN  /\ files2 \in Files
            /\ \A i \in 1 .. set.n : i # next =>
                 files2[DataFolder!SplitOf(set, i)][i] = photos[DataFolder!SplitOf(set, i)][i]
    BY <1>2, <2>1, OneFile
  <2>. QED  BY <1>1, <2>2
<1>4. writer'.pc = "pixels" /\ writer'.set = set /\ writer'.next = next
  BY <1>1 DEF DInv, FolderTypes
<1>5. FolderTypes'
  BY <1>1, <1>2, <1>3, <1>4 DEF DInv, FolderTypes
<1>6. ScenesWritten'
  BY <1>1, <1>2, <1>3, <1>4 DEF DInv, ScenesWritten, PhotoIs, BoxesAre, Written3
<1>. QED  BY <1>1, <1>2, <1>5, <1>6, NothingComplete DEF DInv

LEMMA SavePhotoHolds ==
  ASSUME DInv, DataFolder!SavePhoto
  PROVE  DInv'
<1>. SUFFICES ASSUME NEW set, set = writer.set, NEW next, next = writer.next, NEW at, at = DataFolder!Here
              PROVE  DInv'
  OBVIOUS
<1>1. /\ writer.pc = "pixels" /\ photos' = [photos EXCEPT ![at][next] = DataFolder!Current]
      /\ writer' = [writer EXCEPT !.pc = "boxes"]
      /\ UNCHANGED <<boxes, config, rows, setManifest, meter, measurements, runs, complete>>
  BY DEF DataFolder!SavePhoto
<1>2. /\ set \in DataFolder!Sets /\ next \in 1 .. set.n /\ set.n \in Nat /\ next \in Nat /\ complete = None
      /\ at = DataFolder!SplitOf(set, next) /\ photos \in Files
      /\ DataFolder!Current = DataFolder!Scene(set.seed, next) /\ DataFolder!Current \in Content
  BY <1>1, Scenes DEF DInv, FolderTypes
<1>3. /\ photos' \in Files
      /\ photos'[DataFolder!SplitOf(set, next)][next] = DataFolder!Scene(set.seed, next)
      /\ \A i \in 1 .. set.n : i # next =>
           photos'[DataFolder!SplitOf(set, i)][i] = photos[DataFolder!SplitOf(set, i)][i]
  <2>1. LET files2 == [photos EXCEPT ![at][next] = DataFolder!Current]
        IN  /\ files2 \in Files
            /\ files2[DataFolder!SplitOf(set, next)][next] = DataFolder!Current
            /\ \A i \in 1 .. set.n : i # next =>
                 files2[DataFolder!SplitOf(set, i)][i] = photos[DataFolder!SplitOf(set, i)][i]
    BY <1>2, OneFile
  <2>. QED  BY <1>1, <1>2, <2>1
<1>4. writer'.pc = "boxes" /\ writer'.set = set /\ writer'.next = next
  BY <1>1 DEF DInv, FolderTypes
<1>5. FolderTypes'
  BY <1>1, <1>2, <1>3, <1>4 DEF DInv, FolderTypes
<1>6. ScenesWritten'
  BY <1>1, <1>2, <1>3, <1>4 DEF DInv, ScenesWritten, PhotoIs, BoxesAre, Written3
<1>. QED  BY <1>1, <1>2, <1>5, <1>6, NothingComplete DEF DInv

LEMMA SaveBoxesHolds ==
  ASSUME DInv, DataFolder!SaveBoxes
  PROVE  DInv'
<1>. SUFFICES ASSUME NEW set, set = writer.set, NEW next, next = writer.next, NEW at, at = DataFolder!Here
              PROVE  DInv'
  OBVIOUS
<1>1. /\ writer.pc = "boxes" /\ boxes' = [boxes EXCEPT ![at][next] = DataFolder!Current]
      /\ writer' = IF next = set.n THEN [writer EXCEPT !.pc = "config"]
                   ELSE [writer EXCEPT !.pc = "photo", !.next = next + 1]
      /\ UNCHANGED <<photos, config, rows, setManifest, meter, measurements, runs, complete>>
  BY DEF DataFolder!SaveBoxes
<1>2. /\ set \in DataFolder!Sets /\ next \in 1 .. set.n /\ set.n \in Nat /\ next \in Nat /\ complete = None
      /\ at = DataFolder!SplitOf(set, next) /\ boxes \in Files
      /\ DataFolder!Current = DataFolder!Scene(set.seed, next) /\ DataFolder!Current \in Content
  BY <1>1, Scenes DEF DInv, FolderTypes
<1>3. /\ boxes' \in Files
      /\ boxes'[DataFolder!SplitOf(set, next)][next] = DataFolder!Scene(set.seed, next)
      /\ \A i \in 1 .. set.n : i # next =>
           boxes'[DataFolder!SplitOf(set, i)][i] = boxes[DataFolder!SplitOf(set, i)][i]
  <2>1. LET files2 == [boxes EXCEPT ![at][next] = DataFolder!Current]
        IN  /\ files2 \in Files
            /\ files2[DataFolder!SplitOf(set, next)][next] = DataFolder!Current
            /\ \A i \in 1 .. set.n : i # next =>
                 files2[DataFolder!SplitOf(set, i)][i] = boxes[DataFolder!SplitOf(set, i)][i]
    BY <1>2, OneFile
  <2>. QED  BY <1>1, <1>2, <2>1
<1>4. /\ next = set.n => writer'.pc = "config" /\ writer'.next = next
      /\ next # set.n => writer'.pc = "photo" /\ writer'.next = next + 1
      /\ writer'.set = set
      /\ writer' \in [pc : {"idle", "photo", "pixels", "boxes"} \cup Written3,
                      set : DataFolder!Sets \cup {DataFolder!NoSet}, next : Nat]
  <2>1. CASE next = set.n
    BY <1>1, <1>2, <2>1 DEF DInv, FolderTypes, Written3
  <2>2. CASE next # set.n
    <3>1. writer' = [pc |-> "photo", set |-> set, next |-> next + 1]
      BY <1>1, <1>2, <2>2 DEF DInv, FolderTypes
    <3>. QED  BY <1>2, <2>2, <3>1
  <2>. QED  BY <2>1, <2>2
<1>5. FolderTypes'
  <2>1. writer'.next \in 1 .. set.n
    BY <1>2, <1>4
  <2>. QED  BY <1>1, <1>2, <1>3, <1>4, <2>1 DEF DInv, FolderTypes
<1>6. ScenesWritten'
  <2>1. \A i \in 1 .. set.n : i < next \/ i = next => PhotoIs(set, i)' /\ BoxesAre(set, i)'
    BY <1>1, <1>2, <1>3 DEF DInv, ScenesWritten, PhotoIs, BoxesAre, Written3
  <2>2. CASE next = set.n
    BY <1>1, <1>2, <1>4, <2>1, <2>2 DEF DInv, ScenesWritten, Written3, PhotoIs, BoxesAre
  <2>3. CASE next # set.n
    BY <1>1, <1>2, <1>4, <2>1, <2>3 DEF DInv, ScenesWritten, Written3, PhotoIs, BoxesAre
  <2>. QED  BY <2>2, <2>3
<1>. QED  BY <1>1, <1>2, <1>5, <1>6, NothingComplete DEF DInv

LEMMA WriteConfigHolds ==
  ASSUME DInv, DataFolder!WriteConfig
  PROVE  DInv'
<1>1. /\ writer.pc = "config" /\ config' = "LP" /\ writer' = [writer EXCEPT !.pc = "rows"]
      /\ UNCHANGED <<photos, boxes, rows, setManifest, meter, measurements, runs, complete>>
  BY DEF DataFolder!WriteConfig
<1>2. complete = None
  BY <1>1, Scenes
<1>3. writer'.pc = "rows" /\ writer'.set = writer.set /\ writer'.next = writer.next
  BY <1>1 DEF DInv, FolderTypes
<1>4. FolderTypes'
  BY <1>1, <1>3 DEF DInv, FolderTypes, Written3
<1>5. ScenesWritten'
  BY <1>1, <1>3 DEF DInv, ScenesWritten, PhotoIs, BoxesAre, Written3
<1>. QED  BY <1>1, <1>2, <1>4, <1>5, NothingComplete DEF DInv

LEMMA WriteRowsHolds ==
  ASSUME DInv, DataFolder!WriteRows
  PROVE  DInv'
<1>1. /\ writer.pc = "rows" /\ rows' = DataFolder!RowsOf(writer.set) /\ writer' = [writer EXCEPT !.pc = "manifest"]
      /\ UNCHANGED <<photos, boxes, config, setManifest, meter, measurements, runs, complete>>
  BY DEF DataFolder!WriteRows
<1>2. complete = None
  BY <1>1, Scenes
<1>3. writer'.pc = "manifest" /\ writer'.set = writer.set /\ writer'.next = writer.next
  BY <1>1 DEF DInv, FolderTypes
<1>4. FolderTypes'
  BY <1>1, <1>3 DEF DInv, FolderTypes, Written3
<1>5. ScenesWritten'
  BY <1>1, <1>3 DEF DInv, ScenesWritten, PhotoIs, BoxesAre, Written3
<1>. QED  BY <1>1, <1>2, <1>4, <1>5, NothingComplete DEF DInv

LEMMA FinishScenesHolds ==
  ASSUME DInv, DataFolder!FinishScenes
  PROVE  DInv'
<1>. SUFFICES ASSUME NEW set, set = writer.set PROVE DInv'
  OBVIOUS
<1>1. /\ writer.pc = "manifest" /\ setManifest' = [set |-> set, digest |-> DataFolder!DigestOf(set)]
      /\ writer' = DataFolder!Resting /\ complete' = [set |-> set, run |-> runs]
      /\ UNCHANGED <<photos, boxes, config, rows, meter, measurements, runs>>
  BY DEF DataFolder!FinishScenes
<1>2. /\ set \in DataFolder!Sets /\ writer.next = set.n /\ set.n \in Nat /\ complete = None /\ runs \in Nat
  BY <1>1, Scenes DEF DInv, ScenesWritten, FolderTypes, Written3
<1>3. FolderTypes'
  BY <1>1, <1>2 DEF DInv, FolderTypes, DataFolder!Resting
<1>4. ScenesWritten'
  BY <1>1 DEF ScenesWritten, DataFolder!Resting, Written3
<1>5. Whole'
  <2>1. \A i \in 1 .. set.n : PhotoIs(set, i) /\ BoxesAre(set, i)
    BY <1>1, <1>2 DEF DInv, ScenesWritten, Written3
  <2>2. config = "LP" /\ rows = DataFolder!RowsOf(set)
    BY <1>1 DEF DInv, ScenesWritten
  <2>3. complete'.set = set
    BY <1>1
  <2>5. DataFolder!DigestOf(set)' = DataFolder!DigestOf(set)
    BY <1>1 DEF DataFolder!DigestOf
  <2>. QED  BY <1>1, <2>1, <2>2, <2>3, <2>5 DEF Whole, PhotoIs, BoxesAre, DataFolder!DigestOf
<1>6. Metered'
  <2>1. ASSUME meter.of # None
        PROVE  meter.of # complete' /\ meter.of.run < runs
    BY <1>1, <1>2, <2>1 DEF DInv, Metered
  <2>. QED  BY <1>1, <2>1 DEF DInv, Metered, DataFolder!Share
<1>7. DataFolder!MeasurementsAreNamed'
  BY <1>1 DEF DInv, DataFolder!MeasurementsAreNamed
<1>. QED  BY <1>3, <1>4, <1>5, <1>6, <1>7 DEF DInv

LEMMA KillWriterHolds ==
  ASSUME DInv, DataFolder!KillWriter
  PROVE  DInv'
<1>1. /\ writer.pc # "idle" /\ writer' = DataFolder!Resting
      /\ UNCHANGED <<photos, boxes, config, rows, setManifest, meter, measurements, runs, complete>>
  BY DEF DataFolder!KillWriter, DataFolder!folder
<1>2. complete = None
  BY <1>1, Scenes
<1>3. FolderTypes'
  BY <1>1, <1>2 DEF DInv, FolderTypes, DataFolder!Resting
<1>4. ScenesWritten'
  BY <1>1 DEF ScenesWritten, DataFolder!Resting, Written3
<1>. QED  BY <1>1, <1>2, <1>3, <1>4, NothingComplete DEF DInv

\* Whatever a person edits.
LEMMA EditHolds ==
  ASSUME DInv, DataFolder!Edited, photos' \in Files, boxes' \in Files
  PROVE  DInv'
<1>1. /\ writer.pc = "idle" /\ runs' = runs + 1 /\ complete' = None
      /\ UNCHANGED <<setManifest, writer, meter, measurements>>
  BY DEF DataFolder!Edited
<1>2. FolderTypes'
  BY <1>1 DEF DInv, FolderTypes
<1>3. ScenesWritten'
  BY <1>1 DEF ScenesWritten, Written3
<1>. QED  BY <1>1, <1>2, <1>3, NoLongerComplete DEF DInv

LEMMA EditsHold ==
  ASSUME DInv,
         \/ \E split \in DataFolder!Splits, i \in DataFolder!Indices :
              DataFolder!EditPhoto(split, i) \/ DataFolder!EditBoxes(split, i)
         \/ DataFolder!EditConfig \/ DataFolder!EditRows
  PROVE  DInv'
<1>1. photos \in Files /\ boxes \in Files
  BY DEF DInv, FolderTypes
<1>2. /\ \A i \in DataFolder!Indices : DataFolder!ScenesAt(i) \subseteq Content
      /\ {None, Broken} \cup Damaged \subseteq Content
  BY DEF DataFolder!ScenesAt, Content, DataFolder!Scenes
<1>3. ASSUME NEW files \in Files, NEW split \in DataFolder!Splits, NEW i \in DataFolder!Indices,
             NEW c \in Content
      PROVE  [files EXCEPT ![split][i] = c] \in Files
  BY DEF Files
<1>4. DataFolder!Edited /\ photos' \in Files /\ boxes' \in Files
  BY <1>1, <1>2, <1>3 DEF DataFolder!EditPhoto, DataFolder!EditBoxes, DataFolder!EditConfig, DataFolder!EditRows
<1>. QED  BY <1>4, EditHolds

LEMMA MeasureHolds ==
  ASSUME DInv, NEW split \in DataFolder!Splits, DataFolder!Measure(split)
  PROVE  DInv'
<1>1. /\ meter' = [DataFolder!Off EXCEPT !.pc = "val", !.split = split,
                     !.synthetic = (setManifest # DataFolder!NoManifest), !.of = complete]
      /\ runs' = runs + 1
      /\ UNCHANGED <<photos, boxes, config, rows, setManifest, writer, measurements, complete>>
  BY DEF DataFolder!Measure, DataFolder!folder
<1>2. /\ meter'.pc = "val" /\ meter'.split = split /\ meter'.of = complete
      /\ meter'.synthetic = (setManifest # DataFolder!NoManifest)
      /\ meter' = [pc |-> meter'.pc, split |-> meter'.split, synthetic |-> meter'.synthetic,
                   read |-> meter'.read, of |-> meter'.of]
  BY <1>1 DEF DataFolder!Off
<1>3. FolderTypes'
  BY <1>1 DEF DInv, FolderTypes
<1>4. ScenesWritten'
  BY <1>1 DEF DInv, ScenesWritten, PhotoIs, BoxesAre
<1>5. Whole'
  BY <1>1 DEF DInv, Whole, PhotoIs, BoxesAre, DataFolder!DigestOf
<1>6. Metered'
  <2>1. ASSUME complete # None
        PROVE  /\ complete \in [set : DataFolder!Sets, run : Nat] /\ complete.run <= runs'
               /\ setManifest # DataFolder!NoManifest
    <3>1. complete \in [set : DataFolder!Sets, run : Nat] /\ complete.run <= runs' /\ setManifest.set = complete.set
      BY <1>1, <2>1 DEF DInv, FolderTypes, Whole
    <3>2. complete.set # DataFolder!NoSet
      BY <3>1, SetsAre
    <3>. QED  BY <3>1, <3>2 DEF DataFolder!NoManifest
  <2>. QED  BY <1>1, <1>2, <2>1 DEF Metered
<1>7. DataFolder!MeasurementsAreNamed'
  BY <1>1 DEF DInv, DataFolder!MeasurementsAreNamed
<1>. QED  BY <1>3, <1>4, <1>5, <1>6, <1>7 DEF DInv

LEMMA ValidationHolds ==
  ASSUME DInv, DataFolder!Validation
  PROVE  DInv'
<1>1. /\ meter.pc = "val"
      /\ meter' = [meter EXCEPT !.pc = "report", !.read = photos[meter.split], !.of = DataFolder!StillComplete]
      /\ UNCHANGED <<photos, boxes, config, rows, setManifest, writer, measurements, runs, complete>>
  BY DEF DataFolder!Validation, DataFolder!folder
<1>2. /\ meter'.pc = "report" /\ meter'.split = meter.split /\ meter'.read = photos[meter.split]
      /\ meter'.synthetic = meter.synthetic /\ meter'.of = DataFolder!StillComplete
      /\ meter' = [pc |-> meter'.pc, split |-> meter'.split, synthetic |-> meter'.synthetic,
                   read |-> meter'.read, of |-> meter'.of]
  BY <1>1 DEF DInv, Metered
<1>3. FolderTypes' /\ ScenesWritten'
  BY <1>1 DEF DInv, FolderTypes, ScenesWritten, PhotoIs, BoxesAre
<1>4. Whole'
  BY <1>1 DEF DInv, Whole, PhotoIs, BoxesAre, DataFolder!DigestOf
<1>5. Metered'
  <2>1. ASSUME meter'.of # None
        PROVE  /\ meter'.of = complete /\ meter.of = complete /\ complete # None
    BY <1>2, <2>1 DEF DataFolder!StillComplete
  <2>2. ASSUME meter'.of # None, NEW i \in DataFolder!Share(meter'.of.set, meter'.split)
        PROVE  meter'.read[i] = DataFolder!Scene(meter'.of.set.seed, i)
    <3>1. i \in 1 .. complete.set.n /\ DataFolder!SplitOf(complete.set, i) = meter.split
      BY <1>2, <2>1, <2>2 DEF DataFolder!Share
    <3>. QED  BY <1>2, <2>1, <2>2, <3>1 DEF DInv, Whole, PhotoIs
  <2>. QED  BY <1>1, <1>2, <2>1, <2>2 DEF DInv, Metered
<1>6. DataFolder!MeasurementsAreNamed'
  BY <1>1 DEF DInv, DataFolder!MeasurementsAreNamed
<1>. QED  BY <1>3, <1>4, <1>5, <1>6 DEF DInv

LEMMA ReportHolds ==
  ASSUME DInv, DataFolder!Report
  PROVE  DInv'
<1>. SUFFICES ASSUME NEW m, m = [split |-> meter.split, synthetic |-> meter.synthetic, read |-> meter.read,
         provenance |-> setManifest, images |-> DataFolder!SplitImages(meter.split), of |-> DataFolder!StillComplete]
              PROVE  DInv'
  OBVIOUS
<1>1. /\ meter.pc = "report" /\ measurements' = measurements \cup {m} /\ meter' = DataFolder!Off
      /\ UNCHANGED <<photos, boxes, config, rows, setManifest, writer, runs, complete>>
  BY DEF DataFolder!Report, DataFolder!folder
<1>2. FolderTypes' /\ ScenesWritten'
  BY <1>1 DEF DInv, FolderTypes, ScenesWritten, PhotoIs, BoxesAre
<1>3. Whole'
  BY <1>1 DEF DInv, Whole, PhotoIs, BoxesAre, DataFolder!DigestOf
<1>4. Metered'
  BY <1>1 DEF Metered, DataFolder!Off, DataFolder!Splits
<1>5. ASSUME m.of # None
      PROVE  /\ m.synthetic /\ m.provenance.set = m.of.set
             /\ \A i \in DataFolder!Share(m.of.set, m.split) : m.read[i] = DataFolder!Scene(m.of.set.seed, i)
             /\ m.images = DataFolder!Cardinality({i \in DataFolder!Indices : m.read[i] # None})
  <2>1. m.of = complete /\ meter.of = complete /\ complete # None
    BY <1>5 DEF DataFolder!StillComplete
  <2>2. m.provenance.set = m.of.set
    BY <2>1 DEF DInv, Whole
  <2>3. m.read = photos[m.split]
    BY <1>1, <2>1 DEF DInv, Metered
  <2>4. m.images = DataFolder!Cardinality({i \in DataFolder!Indices : m.read[i] # None})
    BY <2>3 DEF DataFolder!SplitImages
  <2>. QED  BY <1>1, <2>1, <2>2, <2>4 DEF DInv, Metered
<1>6. DataFolder!MeasurementsAreNamed'
  <2>1. \A m2 \in measurements' : m2 \in measurements \/ m2 = m
    BY <1>1
  <2>. QED  BY <1>5, <2>1 DEF DInv, DataFolder!MeasurementsAreNamed
<1>. QED  BY <1>2, <1>3, <1>4, <1>6 DEF DInv

LEMMA StopMeterHolds ==
  ASSUME DInv, DataFolder!StopMeter
  PROVE  DInv'
<1>1. /\ meter' = DataFolder!Off
      /\ UNCHANGED <<photos, boxes, config, rows, setManifest, writer, measurements, runs, complete>>
  BY DEF DataFolder!StopMeter, DataFolder!folder
<1>2. FolderTypes' /\ ScenesWritten'
  BY <1>1 DEF DInv, FolderTypes, ScenesWritten, PhotoIs, BoxesAre
<1>3. Whole'
  BY <1>1 DEF DInv, Whole, PhotoIs, BoxesAre, DataFolder!DigestOf
<1>4. Metered' /\ DataFolder!MeasurementsAreNamed'
  BY <1>1 DEF DInv, Metered, DataFolder!Off, DataFolder!Splits, DataFolder!MeasurementsAreNamed
<1>. QED  BY <1>2, <1>3, <1>4 DEF DInv

LEMMA FolderStep == DInv /\ [DataFolder!Next]_DataFolder!vars => DInv'
<1>. SUFFICES ASSUME DInv, [DataFolder!Next]_DataFolder!vars PROVE DInv'
  OBVIOUS
<1>1. CASE UNCHANGED DataFolder!vars
  <2>. USE <1>1 DEF DataFolder!vars, DataFolder!folder
  <2>1. FolderTypes' /\ ScenesWritten'
    BY DEF DInv, FolderTypes, ScenesWritten, PhotoIs, BoxesAre
  <2>2. Whole'
    BY DEF DInv, Whole, PhotoIs, BoxesAre, DataFolder!DigestOf
  <2>3. Metered' /\ DataFolder!MeasurementsAreNamed'
    BY DEF DInv, Metered, DataFolder!MeasurementsAreNamed
  <2>. QED  BY <2>1, <2>2, <2>3 DEF DInv
<1>2. CASE DataFolder!Next
  BY <1>2, WriteScenesHolds, OpenPhotoHolds, SavePhotoHolds, SaveBoxesHolds, WriteConfigHolds,
     WriteRowsHolds, FinishScenesHolds, KillWriterHolds, EditsHold, MeasureHolds, ValidationHolds,
     ReportHolds, StopMeterHolds DEF DataFolder!Next
<1>. QED  BY <1>1, <1>2

LEMMA FolderInvariant == DataFolder!Spec => []DInv
BY FolderInit, FolderStep, PTL DEF DataFolder!Spec

\* A set of scenes whose generation ran to its end stands in for data/ (write_scenes,
\* synthetic/writer.py), whatever was in the folder and however many scenes the set has.
THEOREM ScenesAlwaysStandIn == DataFolder!Spec => []ScenesStandIn
<1>1. DInv => ScenesStandIn
  BY WholeStandsIn DEF DInv, ScenesStandIn
<1>. QED  BY <1>1, FolderInvariant, PTL

\* A measurement on a complete set names it and has read all of its scenes (evaluate_detector,
\* eval/detector.py), whatever is written meanwhile.
THEOREM MeasurementsStayNamed == DataFolder!Spec => []MeasurementsAreNamed
<1>1. DInv => MeasurementsAreNamed
  BY DEF DInv, MeasurementsAreNamed
<1>. QED  BY <1>1, FolderInvariant, PTL

\* A folder that `plate synth scenes` has finished stands in for data/, whatever was done to it
\* before; in one that `plate data validate` has passed, an evaluation (data_set, eval/sets.py)
\* raises only at a photo that Pillow accepts and OpenCV rejects.
THEOREM FolderStaysUsable == DataFolder!Spec => []FolderIsUsable
<1>1. ValidIsUsable
  <2>. SUFFICES ASSUME DataFolder!Valid, rows # None
                PROVE  /\ rows # Broken
                       /\ \A row \in rows :
                            /\ DataFolder!Unreadable(row) =>
                                 DataFolder!PhotoOf(row) \in OpenCvRejects \ PillowRejects
                            /\ row.box = IF DataFolder!ByLabel(row) THEN "whole" ELSE "none"
    BY DEF ValidIsUsable, DataFolder!ValidIsUsable
  <2>1. rows \notin {None, Broken} /\ DataFolder!RowErrors = {}
    BY DEF DataFolder!Valid
  <2>2. ASSUME NEW row \in rows
        PROVE  /\ DataFolder!PhotoOf(row) \notin {None} \cup PillowRejects
               /\ row.plate # Broken /\ row.box \in {"none", "whole"}
    BY <2>1, <2>2 DEF DataFolder!RowErrors, DataFolder!NoSize
  <2>. QED  BY <2>1, <2>2 DEF DataFolder!Unreadable, DataFolder!NoImage, DataFolder!ByLabel
<1>2. ScenesStandIn /\ ValidIsUsable => FolderIsUsable
  BY DEF FolderIsUsable, DataFolder!FolderIsUsable, ScenesStandIn, ValidIsUsable
<1>. QED  BY <1>1, <1>2, ScenesAlwaysStandIn, PTL
=============================================================================
