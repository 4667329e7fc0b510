----------------------------- MODULE DataFolder -----------------------------
(***************************************************************************)
(* A folder in the layout of data/ (plate_reader/data/layout.py): photos   *)
(* and YOLO boxes in two splits, detector.yaml and eval/labels.csv.        *)
(* `plate synth scenes` writes one (synthetic/writer.py), a person fills   *)
(* another by hand, `plate data validate` checks it (data/validate.py),    *)
(* `plate eval-detector` measures on it (eval/detector.py) and             *)
(* `plate eval --set data` reads it (eval/sets.py).  A photo, its boxes    *)
(* and its plate are known by the scene they are of.                       *)
(***************************************************************************)
EXTENDS Naturals, FiniteSets

CONSTANTS
  Seeds, Size,  \* seeds and the greatest number of scenes of a set
  Plated,       \* the scenes that show a plate
  RowLists,     \* what a person may write in eval/labels.csv: sets of rows
  MaxRuns,      \* commands and edits in all (a bound)
  Broken,       \* a text (boxes, a plate, labels.csv) that its readers reject
  Damaged,      \* the contents of a photo that is no scene: cut off, or no image at all
  PillowRejects, OpenCvRejects,  \* the damaged photos that the validator's and the
                                 \* evaluation's library rejects; they need not agree
  None

Splits == {"train", "val"}
Indices == 1 .. Size

\* make_scene: all randomness comes from these.
Scene(seed, index) == [seed |-> seed, index |-> index]
Scenes == {Scene(seed, i) : seed \in Seeds, i \in Indices}

VARIABLES
  photos, boxes,    \* detector/images and detector/labels, by split and index
  config,           \* the class names of detector.yaml: "none" without the file
  rows,             \* eval/labels.csv
  setManifest,      \* manifest.json: NoManifest without the file
  writer,           \* plate synth scenes: where it is and what it writes
  meter,            \* plate eval-detector: where it is and what it has in memory
  measurements,     \* the results written
  runs,
  complete          \* history: the set that the folder holds and the number of the last
                    \* run, since a generation ended; None from the next change on

folder == <<photos, boxes, config, rows, setManifest>>
vars == <<folder, writer, meter, measurements, runs, complete>>

NoFiles == [split \in Splits |-> [i \in Indices |-> None]]
NoSet == [seed |-> None, n |-> 0, val |-> 0]
NoManifest == [set |-> NoSet, digest |-> <<>>]
Resting == [pc |-> "idle", set |-> NoSet, next |-> 1]
Off == [pc |-> "idle", split |-> "val", synthetic |-> FALSE, read |-> [i \in Indices |-> None],
        of |-> None]

Init ==
  /\ photos = NoFiles /\ boxes = NoFiles /\ config = "none" /\ rows = None
  /\ setManifest = NoManifest
  /\ writer = Resting /\ meter = Off
  /\ measurements = {} /\ runs = 0 /\ complete = None

-----------------------------------------------------------------------------
(***************************************************************************)
(* write_scenes: photo by photo with its boxes, then detector.yaml, the    *)
(* rows and the manifest.  A photo exists before all of it is written.     *)
(***************************************************************************)
WriteScenes(set) ==
  /\ writer.pc = "idle" /\ runs < MaxRuns
  /\ writer' = [pc |-> "photo", set |-> set, next |-> 1]
  /\ runs' = runs + 1
  /\ complete' = None
  /\ UNCHANGED <<folder, meter, measurements>>

\* The first scenes are for validation.
SplitOf(set, index) == IF index <= set.val THEN "val" ELSE "train"

Here == SplitOf(writer.set, writer.next)
Current == Scene(writer.set.seed, writer.next)

OpenPhoto ==
  /\ writer.pc = "photo"
  /\ \E content \in Damaged : photos' = [photos EXCEPT ![Here][writer.next] = content]
  /\ writer' = [writer EXCEPT !.pc = "pixels"]
  /\ UNCHANGED <<boxes, config, rows, setManifest, meter, measurements, runs, complete>>

SavePhoto ==
  /\ writer.pc = "pixels"
  /\ photos' = [photos EXCEPT ![Here][writer.next] = Current]
  /\ writer' = [writer EXCEPT !.pc = "boxes"]
  /\ UNCHANGED <<boxes, config, rows, setManifest, meter, measurements, runs, complete>>

SaveBoxes ==
  /\ writer.pc = "boxes"
  /\ boxes' = [boxes EXCEPT ![Here][writer.next] = Current]
  /\ writer' = IF writer.next = writer.set.n THEN [writer EXCEPT !.pc = "config"]
               ELSE [writer EXCEPT !.pc = "photo", !.next = @ + 1]
  /\ UNCHANGED <<photos, config, rows, setManifest, meter, measurements, runs, complete>>

WriteConfig ==
  /\ writer.pc = "config"
  /\ config' = "LP"
  /\ writer' = [writer EXCEPT !.pc = "rows"]
  /\ UNCHANGED <<photos, boxes, rows, setManifest, meter, measurements, runs, complete>>

\* Mutant: every row names the photo in the split for training.
RowOf_Train(set, index) ==
  [split |-> "train", index |-> index, plate |-> Scene(set.seed, index), box |-> "whole"]

\* A row: the photo, the plate and its box, with all four numbers right.
RowOf(set, index) ==
  [split |-> SplitOf(set, index), index |-> index, plate |-> Scene(set.seed, index), box |-> "whole"]

RowsOf(set) == {RowOf(set, i) : i \in {i \in 1 .. set.n : Scene(set.seed, i) \in Plated}}

WriteRows ==
  /\ writer.pc = "rows"
  /\ rows' = RowsOf(writer.set)
  /\ writer' = [writer EXCEPT !.pc = "manifest"]
  /\ UNCHANGED <<photos, boxes, config, setManifest, meter, measurements, runs, complete>>

\* The digest is of the files that this generation wrote, as they are read back.
DigestOf(set) ==
  <<[i \in 1 .. set.n |-> <<photos[SplitOf(set, i)][i], boxes[SplitOf(set, i)][i]>>], config, rows>>

FinishScenes ==
  /\ writer.pc = "manifest"
  /\ setManifest' = [set |-> writer.set, digest |-> DigestOf(writer.set)]
  /\ writer' = Resting
  /\ complete' = [set |-> writer.set, run |-> runs]
  /\ UNCHANGED <<photos, boxes, config, rows, meter, measurements, runs>>

KillWriter ==
  /\ writer.pc # "idle"
  /\ writer' = Resting
  /\ UNCHANGED <<folder, meter, measurements, runs, complete>>

-----------------------------------------------------------------------------
(***************************************************************************)
(* A person puts data in, one file at a time.                              *)
(***************************************************************************)
Edited ==
  /\ writer.pc = "idle" /\ runs < MaxRuns
  /\ runs' = runs + 1
  /\ complete' = None
  /\ UNCHANGED <<setManifest, writer, meter, measurements>>

ScenesAt(i) == {Scene(seed, i) : seed \in Seeds}

EditPhoto(split, i) ==
  /\ Edited
  /\ \E content \in {None} \cup Damaged \cup ScenesAt(i) :
       photos' = [photos EXCEPT ![split][i] = content]
  /\ UNCHANGED <<boxes, config, rows>>

EditBoxes(split, i) ==
  /\ Edited
  /\ \E content \in {None, Broken} \cup ScenesAt(i) : boxes' = [boxes EXCEPT ![split][i] = content]
  /\ UNCHANGED <<photos, config, rows>>

EditConfig ==
  /\ Edited
  /\ config' \in {"none", "LP", "other"}
  /\ UNCHANGED <<photos, boxes, rows>>

EditRows ==
  /\ Edited
  /\ rows' \in RowLists
  /\ UNCHANGED <<photos, boxes, config>>

-----------------------------------------------------------------------------
(***************************************************************************)
(* validate_data: where the errors are.                                    *)
(***************************************************************************)
\* Mutant: the photo is looked up and not opened.
NoSize_Missing(photo) == photo = None

\* _image_size: Pillow opens the photo, verifies it (of a JPEG no more than the head) and asks
\* for its size; this fails without a file.
NoSize(photo) == photo \in {None} \cup PillowRejects

\* _validate_detector: boxes without a photo, a photo that cannot be decoded, a
\* line that is no box.  A photo without boxes is not opened: it is background.
FileErrors ==
  {at \in Splits \X Indices :
     /\ boxes[at[1]][at[2]] # None
     /\ NoSize(photos[at[1]][at[2]]) \/ boxes[at[1]][at[2]] = Broken}

ConfigError ==
  \/ config = "other"
  \/ config = "none" /\ \E at \in Splits \X Indices : photos[at[1]][at[2]] # None

PhotoOf(row) == photos[row.split][row.index]

\* Mutant: a box with some of its numbers passes for a photo without a box.
RowErrors_AnyBox ==
  IF rows \in {None, Broken} THEN {}
  ELSE {row \in rows : \/ NoSize(PhotoOf(row))
                       \/ row.plate = Broken
                       \/ row.box \in {"words", "outside"}}

\* validate_eval_csv: every row, if the header is right.
RowErrors ==
  IF rows \in {None, Broken} THEN {}
  ELSE {row \in rows : \/ NoSize(PhotoOf(row))
                       \/ row.plate = Broken
                       \/ row.box \notin {"none", "whole"}}

Valid == FileErrors = {} /\ ~ConfigError /\ rows # Broken /\ RowErrors = {}

-----------------------------------------------------------------------------
(***************************************************************************)
(* data_set: the crops that `plate eval --set data` reads, row by row.     *)
(***************************************************************************)
\* cv2.imread answers None for a missing photo and for one that OpenCV rejects.
NoImage(photo) == photo \in {None} \cup OpenCvRejects

\* A row without an image or a plate, or with a box that is no number, raises.
Unreadable(row) == NoImage(PhotoOf(row)) \/ row.plate = Broken \/ row.box = "words"

Raises == rows \in {None, Broken} \/ \E row \in rows : Unreadable(row)

\* A box with all its numbers is cut as it is; else the detector is asked, if there is
\* one and it finds a plate; else the row is skipped.
ByLabel(row) == row.box \in {"whole", "outside"}

Items(found) == {row \in rows : ByLabel(row) \/ PhotoOf(row) \in found}

ItemOf(row) == [photo |-> PhotoOf(row), truth |-> row.plate]

-----------------------------------------------------------------------------
(***************************************************************************)
(* plate eval-detector: the manifest says whether the set is synthetic,    *)
(* the photos of the split are read, then the manifest is read again and   *)
(* the photos are counted.                                                 *)
(***************************************************************************)
StillComplete == IF complete = meter.of THEN complete ELSE None

Measure(split) ==
  /\ meter.pc = "idle" /\ runs < MaxRuns /\ config # "none"
  /\ meter' = [Off EXCEPT !.pc = "val", !.split = split, !.synthetic = setManifest # NoManifest,
                          !.of = complete]
  /\ runs' = runs + 1
  /\ UNCHANGED <<folder, writer, measurements, complete>>

\* The network's validation pass, which needs photos.  What its library makes of a damaged one
\* is not modelled.
Validation ==
  /\ meter.pc = "val"
  /\ \E i \in Indices : photos[meter.split][i] # None
  /\ meter' = [meter EXCEPT !.pc = "report", !.read = photos[meter.split], !.of = StillComplete]
  /\ UNCHANGED <<folder, writer, measurements, runs, complete>>

\* Mutant: the files of boxes are counted.
SplitImages_Boxes(split) == Cardinality({i \in Indices : boxes[split][i] # None})

SplitImages(split) == Cardinality({i \in Indices : photos[split][i] # None})

Report ==
  /\ meter.pc = "report"
  /\ measurements' = measurements \cup
       {[split |-> meter.split, synthetic |-> meter.synthetic, read |-> meter.read,
         provenance |-> setManifest, images |-> SplitImages(meter.split), of |-> StillComplete]}
  /\ meter' = Off
  /\ UNCHANGED <<folder, writer, runs, complete>>

StopMeter ==
  /\ meter.pc # "idle"
  /\ meter' = Off
  /\ UNCHANGED <<folder, writer, measurements, runs, complete>>

-----------------------------------------------------------------------------
Sets == {set \in [seed : Seeds, n : Indices, val : 0 .. Size] : set.val <= set.n}

Next ==
  \/ \E set \in Sets : WriteScenes(set)
  \/ OpenPhoto \/ SavePhoto \/ SaveBoxes \/ WriteConfig \/ WriteRows \/ FinishScenes \/ KillWriter
  \/ \E split \in Splits, i \in Indices : EditPhoto(split, i) \/ EditBoxes(split, i)
  \/ EditConfig \/ EditRows
  \/ \E split \in Splits : Measure(split)
  \/ Validation \/ Report \/ StopMeter

Spec == Init /\ [][Next]_vars
-----------------------------------------------------------------------------
\* The scenes of a split.
Share(set, split) == {i \in 1 .. set.n : SplitOf(set, i) = split}

\* A set of scenes is a complete stand-in for data/ (writer.py), whatever earlier sets, killed
\* commands and hands left in the folder: every photo and its boxes are the scene's, the manifest
\* is of these files, the validator finds nothing wrong with them, and an evaluation reads one crop
\* for each plate, with this plate as its truth, without a detector.
ScenesStandIn ==
  complete # None =>
    LET set == complete.set IN
    /\ \A i \in 1 .. set.n :
         LET split == SplitOf(set, i)
         IN  /\ photos[split][i] = Scene(set.seed, i) /\ boxes[split][i] = photos[split][i]
             /\ <<split, i>> \notin FileErrors
    /\ setManifest = [set |-> set, digest |-> DigestOf(set)]
    /\ ~ConfigError /\ RowErrors = {} /\ ~Raises
    /\ Items({}) = rows /\ \A row \in rows : ItemOf(row).photo = ItemOf(row).truth
    /\ {row.plate : row \in rows} = {Scene(set.seed, i) : i \in 1 .. set.n} \cap Plated
    /\ \A r1, r2 \in rows : r1.plate = r2.plate => r1 = r2

\* What the validator lets pass can be evaluated ("run plate data validate", eval/sets.py), up to
\* the photos: labels.csv can be read, every labelled box lies in its photo (in the size that
\* Pillow gives: OpenCV turns a photo as its EXIF data say, Pillow's size does not), only a row
\* without a box is left to the detector, and a row that still raises is one whose photo Pillow
\* accepts and OpenCV does not.  The validator does not find such a photo.
ValidIsUsable ==
  Valid /\ rows # None =>
    /\ rows # Broken
    /\ \A row \in rows :
         /\ Unreadable(row) => PhotoOf(row) \in OpenCvRejects \ PillowRejects
         /\ row.box = IF ByLabel(row) THEN "whole" ELSE "none"

\* A folder that a command has finished or the validator has passed can be evaluated on.
FolderIsUsable == ScenesStandIn /\ ValidIsUsable

\* A measurement on a complete set says so: it is labelled synthetic, names this set and its
\* digest, has found every scene of the split, and counts the photos that it found.
MeasurementsAreNamed ==
  \A m \in measurements : m.of # None =>
    /\ m.synthetic /\ m.provenance.set = m.of.set
    /\ \A i \in Share(m.of.set, m.split) : m.read[i] = Scene(m.of.set.seed, i)
    /\ m.images = Cardinality({i \in Indices : m.read[i] # None})

\* What eval/detector.py says: the metrics come with the set's provenance.  Photos that an older
\* set left in the split are measured too, and no provenance names them.
ProvenanceIsMeasured ==
  \A m \in measurements : m.of # None => m.images = Cardinality(Share(m.of.set, m.split))
=============================================================================
