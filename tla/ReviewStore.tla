---------------------------- MODULE ReviewStore ----------------------------
(***************************************************************************)
(* services/api/store.py: reads, the review queue and the export of        *)
(* corrections as labelled training crops.                                 *)
(*                                                                         *)
(* Three stores change together and share no transaction: the database     *)
(* (reads, read_views, review_items), the crop files under storage/crops,  *)
(* and the export folder (crop copies and labels.csv).  The endpoints are  *)
(* synchronous functions that FastAPI runs in a thread pool, so requests   *)
(* interleave between their database and file steps; each database session *)
(* (db.py) reads committed rows, commits at its end and rolls back on an   *)
(* exception.  A request that raises or dies leaves its file effects.      *)
(***************************************************************************)
EXTENDS Naturals, Sequences, FiniteSets

CONSTANTS
  Reads,      \* ids of the reads that may be stored
  Views,      \* view indexes of a read
  Plates,     \* plates under the grammar
  NoPlate,    \* NULL in read.text and review_items.corrected_plate
  NoRead,     \* no read
  Confirm,    \* the decision {"confirm": true}
  Requests,   \* threads that serve requests (and run job steps)
  Faults,     \* may a request raise or its process die between two steps
  DiskFull,   \* may cv2.imwrite fail (it returns False, which is ignored)
  MaxChunks   \* bound: no export starts once labels.csv holds that many appends

ASSUME ConstantsAssumption ==
  /\ NoPlate \notin Plates
  /\ Confirm \notin Plates
  /\ NoRead \notin Reads
  /\ Faults \in BOOLEAN
  /\ DiskFull \in BOOLEAN
  /\ MaxChunks \in Nat

VARIABLES
  row,        \* the read, its views and its review item, as committed
  crops,      \* crop files present under storage/crops
  files,      \* crop copies present in the export folder
  csvExists,  \* does labels.csv exist
  csv,        \* labels.csv: what each append wrote, in order
  pc,         \* where each request is
  draft,      \* the ORM objects of a save or a decision: loaded and changed
  batch,      \* what an export holds in memory
  decided,    \* history: every plate a committed decision gave a read
  redecided   \* history: reads given another plate after an export loaded or marked them

vars == <<row, crops, files, csvExists, csv, pc, draft, batch, decided, redecided>>

MaybePlate == Plates \cup {NoPlate}

(***************************************************************************)
(* One record for the rows of a read: Read.status and Read.text, the views *)
(* whose crop_path is not NULL, and the review item's status,              *)
(* corrected_plate and "exported_at IS NOT NULL".                          *)
(***************************************************************************)
DbRow == [status   : {"absent", "accepted", "queued", "reviewed"},
          text     : MaybePlate,
          views    : SUBSET Views,
          review   : {"none", "pending", "corrected", "confirmed"},
          plate    : MaybePlate,
          exported : BOOLEAN]

Absent == [status |-> "absent", text |-> NoPlate, views |-> {},
           review |-> "none", plate |-> NoPlate, exported |-> FALSE]

\* A line of labels.csv; its crop_path is crops/review_<item>_<view>.png.
Label == [read : Reads, view : Views, plate : Plates]

\* What one append writes: the column names, when the file was new, and rows.
Chunk == [header : BOOLEAN, rows : SUBSET Label]

Draft == [read : Reads \cup {NoRead}, old : DbRow, new : DbRow]
NoDraft == [read |-> NoRead, old |-> Absent, new |-> Absent]

\* picked: the items a session selected, with the corrected_plate it loaded.
Batch == [newFile : BOOLEAN, picked : [Reads -> MaybePlate], rows : SUBSET Label]
NoBatch == [newFile |-> FALSE, picked |-> [r \in Reads |-> NoPlate], rows |-> {}]

SavePcs   == {"save"}
DecidePcs == {"decide"}
ExportPcs == {"select", "copy", "open", "append", "commit"}

TypeOK ==
  /\ row \in [Reads -> DbRow]
  /\ crops \in SUBSET (Reads \X Views)
  /\ files \in SUBSET (Reads \X Views)
  /\ csvExists \in BOOLEAN
  /\ csv \in Seq(Chunk)
  /\ pc \in [Requests -> {"idle"} \cup SavePcs \cup DecidePcs \cup ExportPcs]
  /\ draft \in [Requests -> Draft]
  /\ batch \in [Requests -> Batch]
  /\ decided \in [Reads -> SUBSET MaybePlate]
  /\ redecided \in SUBSET Reads

\* Nothing stored yet: migrated tables, an empty storage and export folder.
Init ==
  /\ row = [r \in Reads |-> Absent]
  /\ crops = {}
  /\ files = {}
  /\ csvExists = FALSE
  /\ csv = <<>>
  /\ pc = [t \in Requests |-> "idle"]
  /\ draft = [t \in Requests |-> NoDraft]
  /\ batch = [t \in Requests |-> NoBatch]
  /\ decided = [r \in Reads |-> {}]
  /\ redecided = {}

GoTo(t, label) == pc' = [pc EXCEPT ![t] = label]

(***************************************************************************)
(* save_read.  The read's id is a fresh uuid, so no other request meets it *)
(* before the commit; crop files are written while the transaction is      *)
(* open, one per view with a detection (V), and reach the disk for W.      *)
(***************************************************************************)
\* Mutant: a crop_path for every view, with or without a detection.
NewRow_EveryView(text, queued, V) ==
  [status |-> IF queued THEN "queued" ELSE "accepted",
   text |-> text, views |-> Views,
   review |-> IF queued THEN "pending" ELSE "none",
   plate |-> NoPlate, exported |-> FALSE]

NewRow(text, queued, V) ==
  [status |-> IF queued THEN "queued" ELSE "accepted",
   text |-> text, views |-> V,
   review |-> IF queued THEN "pending" ELSE "none",
   plate |-> NoPlate, exported |-> FALSE]

SaveCrops(t, r, text, queued, V, W) ==
  /\ pc[t] = "idle"
  /\ row[r].status = "absent"
  /\ ~ \E v \in Views : <<r, v>> \in crops
  /\ \A u \in Requests : draft[u].read # r
  /\ W \subseteq V
  /\ ~DiskFull => W = V
  /\ crops' = crops \cup {<<r, v>> : v \in W}
  /\ draft' = [draft EXCEPT ![t] =
       [read |-> r, old |-> Absent,
        new |-> NewRow(text, queued, V)]]
  /\ GoTo(t, "save")
  /\ UNCHANGED <<row, files, csvExists, csv, batch, decided, redecided>>

SaveCommit(t) ==
  /\ pc[t] = "save"
  /\ row' = [row EXCEPT ![draft[t].read] = draft[t].new]
  /\ draft' = [draft EXCEPT ![t] = NoDraft]
  /\ GoTo(t, "idle")
  /\ UNCHANGED <<crops, files, csvExists, csv, batch, decided, redecided>>

(***************************************************************************)
(* decide.  The item is loaded whatever its status is: a decided or an     *)
(* exported item can be decided again.  Confirming a read without a plate  *)
(* raises before anything is written, as does an empty decision; a plate   *)
(* reaches decide only when ReviewDecision parsed it.                      *)
(***************************************************************************)
\* Mutant: the read's own status is left alone.
Decision_ItemOnly(old, decision) ==
  [old EXCEPT !.review = IF decision = Confirm THEN "confirmed" ELSE "corrected",
              !.plate  = IF decision = Confirm THEN old.text ELSE decision]

\* The loaded rows after the assignments of decide.
Decision(old, decision) ==
  [status   |-> "reviewed",
   text     |-> old.text,
   views    |-> old.views,
   review   |-> IF decision = Confirm THEN "confirmed" ELSE "corrected",
   plate    |-> IF decision = Confirm THEN old.text ELSE decision,
   exported |-> old.exported]

DecideLoad(t, r, decision) ==
  LET old == row[r] IN
  /\ pc[t] = "idle"
  /\ old.review # "none"
  /\ decision = Confirm => old.text # NoPlate
  /\ draft' = [draft EXCEPT ![t] =
       [read |-> r, old |-> old, new |-> Decision(old, decision)]]
  /\ GoTo(t, "decide")
  /\ UNCHANGED <<row, crops, files, csvExists, csv, batch, decided, redecided>>

\* The unit of work's UPDATE names only the columns whose value changed since
\* the load, so two overlapping decisions can each contribute a column.
Flushed(current, old, new) ==
  LET Column(now, was, is) == IF is = was THEN now ELSE is IN
  [status   |-> Column(current.status, old.status, new.status),
   text     |-> current.text,
   views    |-> current.views,
   review   |-> Column(current.review, old.review, new.review),
   plate    |-> Column(current.plate, old.plate, new.plate),
   exported |-> current.exported]

\* The items a request has picked for export, and the reads an export has loaded or marked.
Picked(t) == {r \in Reads : batch[t].picked[r] # NoPlate}
Exporting(r) == row[r].exported \/ \E t \in Requests : r \in Picked(t)

DecideCommit(t) ==
  LET d == draft[t] IN
  /\ pc[t] = "decide"
  /\ row' = [row EXCEPT ![d.read] = Flushed(@, d.old, d.new)]
  /\ decided' = [decided EXCEPT ![d.read] = @ \cup {d.new.plate}]
  /\ draft' = [draft EXCEPT ![t] = NoDraft]
  /\ GoTo(t, "idle")
  /\ redecided' = redecided \cup {r \in Reads : row'[r].plate # row[r].plate /\ Exporting(r)}
  /\ UNCHANGED <<crops, files, csvExists, csv, batch>>
-----------------------------------------------------------------------------
(***************************************************************************)
(* export.  Whether labels.csv is new is decided before the session opens. *)
(***************************************************************************)
ExportStart(t) ==
  /\ pc[t] = "idle"
  /\ Len(csv) < MaxChunks
  /\ batch' = [batch EXCEPT ![t] = [NoBatch EXCEPT !.newFile = ~csvExists]]
  /\ GoTo(t, "select")
  /\ UNCHANGED <<row, crops, files, csvExists, csv, draft, decided, redecided>>

\* Mutant: exported items are selected again.
Ready_Again(r) == row[r].review \in {"corrected", "confirmed"}

Ready(r) == row[r].review \in {"corrected", "confirmed"} /\ ~row[r].exported

\* Mutant: the label is the model's reading.
LabelOf_Reading(r) == row[r].text

\* parse_plate of the loaded corrected_plate; None (NoPlate) for NULL.
LabelOf(r) == row[r].plate

\* A selected item whose corrected plate does not parse is skipped, as if it
\* had not been selected.
ExportSelect(t) ==
  /\ pc[t] = "select"
  /\ batch' = [batch EXCEPT ![t].picked =
       [r \in Reads |-> IF Ready(r) THEN LabelOf(r) ELSE NoPlate]]
  /\ GoTo(t, "copy")
  /\ redecided' = {r \in redecided : Exporting(r)}
  /\ UNCHANGED <<row, crops, files, csvExists, csv, draft, decided>>

\* The views of the picked items whose crop_path is set and exists on disk.
\* Views never change once stored, so the loaded ones are the stored ones.
CropsToCopy(t) == {c \in crops : c[1] \in Picked(t) /\ c[2] \in row[c[1]].views}

\* Mutant: the first view of an item is copied, every view is labelled.
ExportCopy_FirstView(t) ==
  /\ pc[t] = "copy"
  /\ files' = files \cup {c \in CropsToCopy(t) : c[2] = CHOOSE v \in Views : TRUE}
  /\ batch' = [batch EXCEPT ![t].rows =
       {[read |-> c[1], view |-> c[2], plate |-> batch[t].picked[c[1]]] :
          c \in CropsToCopy(t)}]
  /\ GoTo(t, "open")
  /\ UNCHANGED <<row, crops, csvExists, csv, draft, decided, redecided>>

\* The picked items' crops are copied under names made of the item and the
\* view (a second copy overwrites the first) and their rows kept for later.
ExportCopy(t) ==
  /\ pc[t] = "copy"
  /\ files' = files \cup CropsToCopy(t)
  /\ batch' = [batch EXCEPT ![t].rows =
       {[read |-> c[1], view |-> c[2], plate |-> batch[t].picked[c[1]]] :
          c \in CropsToCopy(t)}]
  /\ GoTo(t, "open")
  /\ UNCHANGED <<row, crops, csvExists, csv, draft, decided, redecided>>

\* labels.open("a") creates the file; its content is buffered until close.
ExportOpen(t) ==
  /\ pc[t] = "open"
  /\ csvExists' = TRUE
  /\ GoTo(t, "append")
  /\ UNCHANGED <<row, crops, files, csv, draft, batch, decided, redecided>>

\* Mutant: either the column names or the rows.
Appended_HeaderOrRows(header, rows) ==
  IF header THEN Append(csv, [header |-> TRUE, rows |-> {}])
  ELSE IF rows = {} THEN csv ELSE Append(csv, [header |-> FALSE, rows |-> rows])

\* Mutant: the file is opened for writing, not for appending.
Appended_Truncate(header, rows) == <<[header |-> header, rows |-> rows]>>

\* An append that writes nothing leaves the file as it is.
Appended(header, rows) ==
  IF ~header /\ rows = {} THEN csv ELSE Append(csv, [header |-> header, rows |-> rows])

ExportAppend(t) ==
  /\ pc[t] = "append"
  /\ csv' = Appended(batch[t].newFile, batch[t].rows)
  /\ GoTo(t, "commit")
  /\ UNCHANGED <<row, crops, files, csvExists, draft, batch, decided, redecided>>

\* Every picked item is marked, also one none of whose crops was found.
ExportCommit(t) ==
  /\ pc[t] = "commit"
  /\ row' = [r \in Reads |-> IF r \in Picked(t) THEN [row[r] EXCEPT !.exported = TRUE]
                                               ELSE row[r]]
  /\ batch' = [batch EXCEPT ![t] = NoBatch]
  /\ GoTo(t, "idle")
  /\ UNCHANGED <<crops, files, csvExists, csv, draft, decided, redecided>>

(***************************************************************************)
(* An exception (a failing disk or database, a lost connection) or the end *)
(* of the process: the open transaction is rolled back, files stay.  Some  *)
(* crops may have been copied, some buffered rows may have reached the csv. *)
(***************************************************************************)
Abort(t) ==
  /\ Faults
  /\ pc[t] # "idle"
  /\ \/ UNCHANGED <<files, csv>>
     \/ /\ pc[t] = "copy"
        /\ \E some \in SUBSET CropsToCopy(t) : files' = files \cup some
        /\ UNCHANGED csv
     \/ /\ pc[t] = "append"
        /\ \E rows \in SUBSET batch[t].rows : csv' = Appended(batch[t].newFile, rows)
        /\ UNCHANGED files
  /\ draft' = [draft EXCEPT ![t] = NoDraft]
  /\ batch' = [batch EXCEPT ![t] = NoBatch]
  /\ GoTo(t, "idle")
  /\ UNCHANGED <<row, crops, csvExists, decided, redecided>>

Save(t) ==
  \/ \E r \in Reads, text \in MaybePlate, queued \in BOOLEAN,
        V \in SUBSET Views, W \in SUBSET Views : SaveCrops(t, r, text, queued, V, W)
  \/ SaveCommit(t)

Decide(t) ==
  \/ \E r \in Reads, decision \in Plates \cup {Confirm} : DecideLoad(t, r, decision)
  \/ DecideCommit(t)

Export(t) ==
  \/ ExportStart(t)
  \/ ExportSelect(t)
  \/ ExportCopy(t)
  \/ ExportOpen(t)
  \/ ExportAppend(t)
  \/ ExportCommit(t)

Next == \E t \in Requests : Save(t) \/ Decide(t) \/ Export(t) \/ Abort(t)

Spec == Init /\ [][Next]_vars
-----------------------------------------------------------------------------
(***************************************************************************)
(* What the GET endpoints answer: each query is a session of its own, on   *)
(* committed rows (in whole lists; limit, offset and order are left out).  *)
(***************************************************************************)
ListReads(statuses) == {r \in Reads : row[r].status \in statuses}

ReviewQueue == {r \in Reads : row[r].review = "pending"}

\* The crops that the answers about a read link.
CropLinks(r) == {<<r, v>> : v \in row[r].views}

\* The crop endpoint: 404 without a path and without a file.
CropIsServed(r, v) == v \in row[r].views /\ <<r, v>> \in crops

(***************************************************************************)
(* labels.csv, and what the validator of training data reports of it.      *)
(***************************************************************************)
Labels == UNION {csv[i].rows : i \in DOMAIN csv}

\* The column names are the first line and no other (export writes them to a new file).
HeaderIsFirst ==
  \A i \in DOMAIN csv : csv[i].header <=> i = 1

\* No crop_path appears twice: no export repeats the rows of an earlier one.
EachCropOnce ==
  \A i, j \in DOMAIN csv : i # j =>
    ~ \E a \in csv[i].rows, b \in csv[j].rows : a.read = b.read /\ a.view = b.view

\* _check_plate: a text that is no plate.
PlateErrors == {l \in Labels : l.plate \notin Plates}

\* validate_ocr_csv: without its header the file is not read; a second header
\* is a row of a crop that does not exist.
OcrErrors ==
  IF csv = <<>> \/ ~csv[1].header THEN {"header"}
  ELSE {error \in {"duplicate", "missing", "plate"} :
         \/ error = "duplicate" /\ ~EachCropOnce
         \/ error = "missing" /\ \E l \in Labels : <<l.read, l.view>> \notin files
         \/ error = "plate" /\ PlateErrors # {}
         \/ error # "duplicate" /\ ~HeaderIsFirst}
-----------------------------------------------------------------------------

(***************************************************************************)
(* A review item marked as exported has a label for every crop of its read *)
(* that is on disk, and it carries the item's plate unless the item was    *)
(* given another one after an export loaded or marked it: whatever fails   *)
(* and overlaps, that is the only way in which a correction that left the  *)
(* queue of exports is not in labels.csv (export appends before it         *)
(* commits, and a decision leaves exported_at alone).                      *)
(***************************************************************************)
ExportedHasLabels ==
  \A r \in Reads : row[r].exported =>
    \A v \in row[r].views : <<r, v>> \in crops =>
      \E l \in Labels : /\ l.read = r /\ l.view = v
                        /\ r \notin redecided => l.plate = row[r].plate

\* Every row of labels.csv names a crop that is in the export folder, at every
\* moment and after any failure (export copies crops before it appends rows).
LabelsHaveFiles == \A l \in Labels : <<l.read, l.view>> \in files

\* Every row of labels.csv carries a plate that a reviewer gave that read (never
\* the model's own reading of an undecided read).
LabelsWereDecided == \A l \in Labels : l.plate \in decided[l.read]

\* A row of labels.csv can be trained on, whatever requests overlap or fail: its crop is there and
\* its plate is what a person said.
LabelsAreTrue == LabelsHaveFiles /\ LabelsWereDecided

(***************************************************************************)
(* The three tables agree whatever requests overlap: a read is queued      *)
(* exactly while its item is pending and reviewed exactly when the item is *)
(* decided; a decided item has a plate (export's parse never fails on it)  *)
(* and only a decided item is marked as exported.                          *)
(***************************************************************************)
TablesAgree ==
  \A r \in Reads : LET x == row[r] IN
    /\ x.status = "queued"   <=> x.review = "pending"
    /\ x.status = "reviewed" <=> x.review \in {"corrected", "confirmed"}
    /\ x.status = "reviewed" <=> x.plate # NoPlate
    /\ x.exported => x.status = "reviewed"

\* A reviewer can see what the model saw: every read that the list calls queued
\* is in the review queue, and every crop that an answer links is served.
\* save_read commits after it wrote the crops, and no crash can separate the
\* two; it takes a disk that accepts the writes.
StoredViewsHaveCrops ==
  /\ ListReads({"queued"}) = ReviewQueue
  /\ \A r \in ListReads({"accepted", "queued", "reviewed"}) :
       \A link \in CropLinks(r) : CropIsServed(link[1], link[2])

\* No step takes a label back, reopens a decided item or unmarks an exported one.
NothingTakenBack ==
  [][/\ Len(csv) <= Len(csv') /\ SubSeq(csv', 1, Len(csv)) = csv
     /\ \A r \in Reads :
          /\ row[r].exported => row'[r].exported
          /\ row[r].status = "reviewed" => row'[r].status = "reviewed"]_<<csv, row>>

\* Whenever no request is between creating labels.csv and filling it, the file
\* passes the validator that the export is documented to feed.
Validates ==
  (\A t \in Requests : pc[t] # "append") /\ csvExists =>
    OcrErrors = {}
-----------------------------------------------------------------------------
(***************************************************************************)
(* The inductive invariant.  ExportedHasLabels, LabelsHaveFiles and        *)
(* LabelsWereDecided speak of committed rows and of the file; they are     *)
(* kept by what the requests in between hold in memory.                    *)
(***************************************************************************)
\* The rows a draft commits agree: a save inserts an item nobody has met, a
\* decision was loaded from an item that still exists.
DraftsAgree ==
  \A t \in Requests : LET d == draft[t] IN
    /\ pc[t] = "save" =>
         /\ d.read \in Reads
         /\ row[d.read].status = "absent"
         /\ \A u \in Requests : u # t => draft[u].read # d.read
         /\ ~d.new.exported
         /\ d.new.plate = NoPlate
         /\ \/ d.new.status = "queued" /\ d.new.review = "pending"
            \/ d.new.status = "accepted" /\ d.new.review = "none"
    /\ pc[t] = "decide" =>
         /\ d.read \in Reads
         /\ d.new.status = "reviewed"
         /\ d.new.review \in {"corrected", "confirmed"}
         /\ d.new.plate \in Plates
         /\ row[d.read].status \in {"queued", "reviewed"}
         /\ (\/ d.old.status = "reviewed"
             \/ d.old.review \in {"corrected", "confirmed"}
             \/ d.old.plate # NoPlate) => row[d.read].status = "reviewed"
    /\ pc[t] \notin {"save", "decide"} => d = NoDraft

\* What an export holds: items that stay reviewed, plates they were given, theirs still
\* but for the items decided again, and one row for every crop on disk, whose copy has
\* been made.
BatchesAgree ==
  \A t \in Requests :
    /\ pc[t] \in {"copy", "open", "append", "commit"} =>
         \A r \in Picked(t) :
           /\ row[r].status = "reviewed" /\ batch[t].picked[r] \in decided[r]
           /\ r \notin redecided => batch[t].picked[r] = row[r].plate
    /\ pc[t] \in {"open", "append", "commit"} =>
         /\ \A r \in Picked(t) : \A v \in row[r].views : <<r, v>> \in crops =>
              \E l \in batch[t].rows :
                l.read = r /\ l.view = v /\ l.plate = batch[t].picked[r]
         /\ \A l \in batch[t].rows :
              <<l.read, l.view>> \in files /\ l.plate \in decided[l.read]
    /\ pc[t] = "commit" => batch[t].rows \subseteq Labels
    /\ pc[t] \notin ExportPcs => batch[t] = NoBatch

PlatesWereDecided ==
  \A r \in Reads : row[r].plate # NoPlate => row[r].plate \in decided[r]

\* Every conjunct is preserved by every step, given all of them before it.
StoreInv ==
  /\ TypeOK
  /\ TablesAgree
  /\ DraftsAgree
  /\ PlatesWereDecided
  /\ BatchesAgree
  /\ ExportedHasLabels
  /\ LabelsHaveFiles
  /\ LabelsWereDecided
=============================================================================
