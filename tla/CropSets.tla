------------------------------ MODULE CropSets ------------------------------
(***************************************************************************)
(* A folder of labelled crops that `plate synth` writes                    *)
(* (plate_reader/synthetic/writer.py) and `plate eval --crops` reads       *)
(* (eval/sets.py, harness.py, cache.py), with the cache of reads that      *)
(* evaluations share.  A command runs a file at a time beside others and   *)
(* may be killed between two steps.  A crop is known by what its generator *)
(* is seeded with; its label is the plate of that sample.                  *)
(***************************************************************************)
EXTENDS Naturals, Sequences

CONSTANTS
  Seeds, Size,  \* seeds and the number of crops of a set
  Versions,     \* versions of a cacheable recogniser
  Evaluations,  \* evaluations at once (a bound)
  MaxRuns,    \* commands started in all (a bound)
  None

VARIABLES
  crops, labelRows, manifest,  \* the folder
  generator,    \* plate synth: where it is and what it writes
  cache, torn,  \* reads by key; the keys whose file is not complete
  evaluation,   \* where each evaluation is and what it has in memory
  reports,      \* the results written
  starts,
  finished      \* history: what the folder holds since a generation that ran to
                \* its end, None from the start of one on

folder == <<crops, labelRows, manifest>>
vars == <<folder, generator, cache, torn, evaluation, reports, starts, finished>>

Kinds == {"crop", "pseudo_real"}
Indices == 1 .. Size
Set == [kind : Kinds, seed : Seeds]

\* make_crop and make_pseudo_real: all randomness comes from these.
Sample(set, index) == [kind |-> set.kind, seed |-> set.seed, index |-> index]
Samples == {Sample(set, i) : set \in Set, i \in Indices}

NoSet == [i \in Indices |-> None]
Resting == [pc |-> "idle", set |-> None, next |-> 1]
Idle == [pc |-> "idle", version |-> None, rows |-> NoSet, items |-> <<>>, kind |-> "data",
         reads |-> <<>>, of |-> None]

Init ==
  /\ crops = NoSet /\ labelRows = NoSet /\ manifest = None
  /\ generator = Resting
  /\ cache = {} /\ torn = {}
  /\ evaluation = [e \in Evaluations |-> Idle]
  /\ reports = {}
  /\ starts = 0
  /\ finished = None

-----------------------------------------------------------------------------
\* write_crops: every crop, then labels.csv, then the manifest.
Generate(set) ==
  /\ generator.pc = "idle" /\ starts < MaxRuns
  /\ generator' = [pc |-> "crops", set |-> set, next |-> 1]
  /\ starts' = starts + 1
  /\ finished' = None
  /\ UNCHANGED <<folder, cache, torn, evaluation, reports>>

\* Mutant: a crop that is already in the folder is not written again.
Saved_Missing(i) == IF crops[i] = None THEN Sample(generator.set, i) ELSE crops[i]

Saved(i) == Sample(generator.set, i)

SaveCrop ==
  /\ generator.pc = "crops"
  /\ crops' = [crops EXCEPT ![generator.next] = Saved(generator.next)]
  /\ generator' = IF generator.next = Size THEN [generator EXCEPT !.pc = "labels"]
                  ELSE [generator EXCEPT !.next = @ + 1]
  /\ UNCHANGED <<labelRows, manifest, cache, torn, evaluation, reports, starts, finished>>

WriteLabels ==
  /\ generator.pc = "labels"
  /\ labelRows' = [i \in Indices |-> Sample(generator.set, i)]
  /\ generator' = [generator EXCEPT !.pc = "manifest"]
  /\ UNCHANGED <<crops, manifest, cache, torn, evaluation, reports, starts, finished>>

\* The digest is of the files as they are read back.
WriteManifest ==
  /\ generator.pc = "manifest"
  /\ manifest' = [set |-> generator.set, digest |-> <<crops, labelRows>>]
  /\ generator' = Resting
  /\ finished' = generator.set
  /\ UNCHANGED <<crops, labelRows, cache, torn, evaluation, reports, starts>>

KillGenerator ==
  /\ generator.pc # "idle"
  /\ generator' = Resting
  /\ UNCHANGED <<folder, cache, torn, evaluation, reports, starts, finished>>

-----------------------------------------------------------------------------
\* plate eval: the recogniser is built, then labels.csv is opened.
Evaluate(e, version) ==
  /\ evaluation[e] = Idle /\ starts < MaxRuns
  /\ labelRows # NoSet
  /\ evaluation' = [evaluation EXCEPT ![e] =
       [Idle EXCEPT !.pc = "load", !.version = version, !.rows = labelRows, !.of = finished]]
  /\ starts' = starts + 1
  /\ UNCHANGED <<folder, generator, cache, torn, reports, finished>>

\* History: an evaluation is of a set while the folder holds it.
StillOf(e) == IF finished = evaluation[e].of THEN finished ELSE None

\* crops_folder_set: the image of the next row.
LoadItem(e) ==
  /\ evaluation[e].pc = "load"
  /\ LET i == Len(evaluation[e].items) + 1 IN
     evaluation' = [evaluation EXCEPT
       ![e].items = Append(@, [image |-> crops[i], truth |-> evaluation[e].rows[i]]),
       ![e].pc = IF i = Size THEN "kind" ELSE "load",
       ![e].of = StillOf(e)]
  /\ UNCHANGED <<folder, generator, cache, torn, reports, starts, finished>>

\* _folder_kind: a folder without a manifest is real data.
FolderKind ==
  IF manifest = None THEN "data"
  ELSE IF manifest.set.kind = "pseudo_real" THEN "pseudo_real" ELSE "synthetic"

LoadKind(e) ==
  /\ evaluation[e].pc = "kind"
  /\ evaluation' = [evaluation EXCEPT ![e].kind = FolderKind, ![e].pc = "read", ![e].of = StillOf(e)]
  /\ UNCHANGED <<folder, generator, cache, torn, reports, starts, finished>>

\* Mutant: the key forgets the recogniser's version.
KeyOf_Image(version, image) == [image |-> image]

KeyOf(version, image) == [version |-> version, image |-> image]

NextImage(e) == evaluation[e].items[Len(evaluation[e].reads) + 1].image
NextKey(e) == KeyOf(evaluation[e].version, NextImage(e))
Reads(e) == evaluation[e].pc = "read" /\ Len(evaluation[e].reads) < Size

\* What a recogniser reads depends on its version and on the image only.
Reading(version, image) == [version |-> version, image |-> image]

Got(e, read) == [evaluation EXCEPT ![e].reads = Append(@, read), ![e].pc = "read"]

\* read_all: a read in the cache is taken from there,
Hit(e) ==
  /\ Reads(e) /\ NextKey(e) \notin torn
  /\ \E c \in cache : c.key = NextKey(e) /\ evaluation' = Got(e, c.read)
  /\ UNCHANGED <<folder, generator, cache, torn, reports, starts, finished>>

\* any other is made and put there: the file exists before it is complete.
Miss(e) ==
  /\ Reads(e) /\ NextKey(e) \notin torn
  /\ \A c \in cache : c.key # NextKey(e)
  /\ torn' = torn \cup {NextKey(e)}
  /\ evaluation' = [evaluation EXCEPT ![e].pc = "put"]
  /\ UNCHANGED <<folder, generator, cache, reports, starts, finished>>

Put(e) ==
  /\ evaluation[e].pc = "put"
  /\ LET read == Reading(evaluation[e].version, NextImage(e)) IN
     /\ cache' = {c \in cache : c.key # NextKey(e)} \cup {[key |-> NextKey(e), read |-> read]}
     /\ evaluation' = Got(e, read)
  /\ torn' = torn \ {NextKey(e)}
  /\ UNCHANGED <<folder, generator, reports, starts, finished>>

\* build_payload and write_payload.
WriteResult(e) ==
  /\ evaluation[e].pc = "read" /\ Len(evaluation[e].reads) = Size
  /\ reports' = reports \cup
       {[kind |-> evaluation[e].kind, labelled |-> evaluation[e].kind # "data",
         version |-> evaluation[e].version, of |-> evaluation[e].of,
         pairs |-> [i \in Indices |-> [read |-> evaluation[e].reads[i],
                                       item |-> evaluation[e].items[i]]]]}
  /\ evaluation' = [evaluation EXCEPT ![e] = Idle]
  /\ UNCHANGED <<folder, generator, cache, torn, starts, finished>>

\* An unreadable crop or cache file raises; any command can be killed.
Stop(e) ==
  /\ evaluation[e] # Idle
  /\ evaluation' = [evaluation EXCEPT ![e] = Idle]
  /\ UNCHANGED <<folder, generator, cache, torn, reports, starts, finished>>

Work(e) == LoadItem(e) \/ LoadKind(e) \/ Hit(e) \/ Miss(e) \/ Put(e) \/ WriteResult(e)

Next ==
  \/ \E set \in Set : Generate(set)
  \/ SaveCrop \/ WriteLabels \/ WriteManifest \/ KillGenerator
  \/ \E e \in Evaluations : (\E version \in Versions : Evaluate(e, version)) \/ Work(e) \/ Stop(e)

Spec == Init /\ [][Next]_vars
-----------------------------------------------------------------------------
\* A folder whose last generation ran to its end is what its manifest says,
\* whatever earlier ones left there: every crop is its sample, every label is its
\* crop's, and the digest is of these files.
FinishedSetFits ==
  finished # None =>
    /\ \A i \in Indices : crops[i] = Sample(finished, i) /\ labelRows[i] = crops[i]
    /\ manifest = [set |-> finished, digest |-> <<crops, labelRows>>]

\* Results can be reproduced: each read is what the recogniser of the reported
\* version makes of that item, cached or not, by whichever evaluation; and a result
\* of a finished set compares it with the plate of that very crop and is labelled
\* with the kind of the set.
ResultsAreReproducible ==
  \A r \in reports :
    /\ \A i \in Indices : r.pairs[i].read = Reading(r.version, r.pairs[i].item.image)
    /\ r.of # None =>
         /\ r.labelled /\ r.kind = (IF r.of.kind = "crop" THEN "synthetic" ELSE "pseudo_real")
         /\ \A i \in Indices : r.pairs[i].item.truth = r.pairs[i].item.image

\* What eval/sets.py says: the kind travels with the set, so a result can never be
\* mislabelled.  A generation that is killed or still runs breaks it: there are
\* labels and no manifest, and generated crops are taken for real data.
NeverMislabelled == \A r \in reports : r.labelled
=============================================================================
