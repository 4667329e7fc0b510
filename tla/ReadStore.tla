----------------------------- MODULE ReadStore -----------------------------
(***************************************************************************)
(* apps/dashboard/src/stores/read.ts: the photos of the Read page and the  *)
(* last read.  The page runs in one thread: what happens between two       *)
(* awaits is one step, and everything else may happen at an await.  While  *)
(* a read is on its way the tray is disabled (ReadPage.vue, PhotoTray.vue),*)
(* but a drag that has begun can be dropped, all photos can be removed and *)
(* the mode can be switched, and then another read can be started.         *)
(***************************************************************************)
EXTENDS Naturals, Sequences, FiniteSets

CONSTANTS
  Files,      \* the photos a viewer may add
  Requests,   \* reads that may be on their way at once (a bound)
  MaxPhotos,  \* MAX_PHOTOS
  NoView      \* null in Photo.view

ASSUME ReadStoreAssumption ==
  /\ MaxPhotos \in Nat
  /\ NoView \notin Nat

VARIABLES
  photos,     \* the tray
  dragged,    \* the slot of the photo being dragged, 0 for none
  mode,       \* "server" or "browser"
  status,
  error,      \* is there an error message
  result,     \* the last read, {} for null
  crops,      \* whose crops browserCrops holds, {} for none
  request     \* where each call of read() is

vars == <<photos, dragged, mode, status, error, result, crops, request>>

Modes == {"server", "browser"}

Photo == [file : Files, view : Nat \cup {NoView}]

\* A read is known by where it was made and by the files it was made of: their
\* order is the order of its views.
ReadOut == [mode : Modes, files : Seq(Files)]

Request == [pc : {"idle", "import", "wait"}, mode : Modes, files : Seq(Files)]
NoRequest == [pc |-> "idle", mode |-> "server", files |-> <<>>]

FilesOf(s) == [i \in DOMAIN s |-> s[i].file]

TypeOK ==
  /\ photos \in Seq(Photo)
  /\ Len(photos) <= MaxPhotos
  /\ dragged \in Nat
  /\ mode \in Modes
  /\ status \in {"idle", "reading", "done", "error"}
  /\ error \in BOOLEAN
  /\ result \subseteq ReadOut /\ Cardinality(result) <= 1
  /\ crops \subseteq ReadOut /\ Cardinality(crops) <= 1
  /\ request \in [Requests -> Request]

Init ==
  /\ photos = <<>>
  /\ dragged = 0
  /\ mode \in Modes
  /\ status = "idle"
  /\ error = FALSE
  /\ result = {}
  /\ crops = {}
  /\ request = [r \in Requests |-> NoRequest]

Reading == status = "reading"

\* add: a file that is no image or comes when the tray is full is skipped, and
\* either way a result is dropped.
Add(f) ==
  /\ ~Reading
  /\ f \notin {photos[i].file : i \in DOMAIN photos}
  /\ \/ Len(photos) < MaxPhotos /\ photos' = Append(photos, [file |-> f, view |-> NoView])
     \/ UNCHANGED photos
  /\ result' = {}
  /\ status' = IF result # {} THEN "idle" ELSE status
  /\ UNCHANGED <<dragged, mode, error, crops, request>>

Without(s, i) == SubSeq(s, 1, i - 1) \o SubSeq(s, i + 1, Len(s))

Remove(i) ==
  /\ ~Reading
  /\ photos' = Without(photos, i)
  /\ result' = {}
  /\ status' = "idle"
  /\ UNCHANGED <<dragged, mode, error, crops, request>>

\* "Remove all photos" is offered during a read as well.
Clear ==
  /\ photos # <<>>
  /\ photos' = <<>>
  /\ result' = {}
  /\ error' = FALSE
  /\ status' = "idle"
  /\ UNCHANGED <<dragged, mode, crops, request>>

\* Mutant: the result of the other mode stays.
SetMode_KeepResult(next) ==
  /\ mode' = next
  /\ status' = "idle"
  /\ UNCHANGED <<photos, dragged, error, result, crops, request>>

SetMode(next) ==
  /\ mode' = next
  /\ result' = {}
  /\ status' = "idle"
  /\ UNCHANGED <<photos, dragged, error, crops, request>>

\* A drag begins on an enabled tray (onPointerDown).
Lift(i) ==
  /\ ~Reading
  /\ dragged = 0
  /\ dragged' = i
  /\ UNCHANGED <<photos, mode, status, error, result, crops, request>>

Insert(s, i, x) == SubSeq(s, 1, i - 1) \o <<x>> \o SubSeq(s, i, Len(s))

\* moveItem: a slot that is gone moves nothing, a target is clamped.
Moved(s, from, to) ==
  IF from > Len(s) THEN s
  ELSE LET rest == Without(s, from)
       IN  Insert(rest, IF to > Len(rest) + 1 THEN Len(rest) + 1 ELSE to, s[from])

\* The drop moves the photo, a cancelled drag does not; both end the drag.
Drop(to) ==
  /\ dragged # 0
  /\ photos' = Moved(photos, dragged, to)
  /\ dragged' = 0
  /\ UNCHANGED <<mode, status, error, result, crops, request>>

Cancel ==
  /\ dragged # 0
  /\ dragged' = 0
  /\ UNCHANGED <<photos, mode, status, error, result, crops, request>>
-----------------------------------------------------------------------------
(***************************************************************************)
(* read.  In the browser mode the code is imported first: the photos are   *)
(* those the tray holds when the import is done.                           *)
(***************************************************************************)
Read(r) ==
  /\ request[r].pc = "idle"
  /\ photos # <<>> /\ ~Reading
  /\ status' = "reading"
  /\ error' = FALSE
  /\ \/ /\ mode = "browser"
        /\ request' = [request EXCEPT ![r] =
             [pc |-> "import", mode |-> "browser", files |-> <<>>]]
        /\ UNCHANGED crops
     \/ /\ mode = "server"
        /\ request' = [request EXCEPT ![r] =
             [pc |-> "wait", mode |-> "server", files |-> FilesOf(photos)]]
        /\ crops' = {}
  /\ UNCHANGED <<photos, dragged, mode, result>>

Imported(r) ==
  /\ request[r].pc = "import"
  /\ request' = [request EXCEPT ![r].pc = "wait", ![r].files = FilesOf(photos)]
  /\ UNCHANGED <<photos, dragged, mode, status, error, result, crops>>

OutOf(r) == [mode |-> request[r].mode, files |-> request[r].files]

\* The answer: every photo of the tray gets its position as its view.
Answer(r) ==
  /\ request[r].pc = "wait"
  /\ result' = {OutOf(r)}
  /\ crops' = IF request[r].mode = "browser" THEN {OutOf(r)} ELSE crops
  /\ photos' = [i \in DOMAIN photos |-> [photos[i] EXCEPT !.view = i - 1]]
  /\ status' = "done"
  /\ request' = [request EXCEPT ![r] = NoRequest]
  /\ UNCHANGED <<dragged, mode, error>>

\* Mutant: a failed read is shown and not ended.
Fail_StillReading(r) ==
  /\ request[r].pc # "idle"
  /\ error' = TRUE
  /\ result' = {}
  /\ request' = [request EXCEPT ![r] = NoRequest]
  /\ UNCHANGED <<photos, dragged, mode, status, crops>>

Fail(r) ==
  /\ request[r].pc # "idle"
  /\ error' = TRUE
  /\ result' = {}
  /\ status' = "error"
  /\ request' = [request EXCEPT ![r] = NoRequest]
  /\ UNCHANGED <<photos, dragged, mode, crops>>

Viewer ==
  \/ \E f \in Files : Add(f)
  \/ \E i \in DOMAIN photos : Remove(i) \/ Lift(i) \/ Drop(i)
  \/ Clear
  \/ Cancel
  \/ \E next \in Modes : SetMode(next)
  \/ \E r \in Requests : Read(r)

Settle(r) == Imported(r) \/ Answer(r) \/ Fail(r)

Next == Viewer \/ \E r \in Requests : Settle(r)

\* An import and a fetch end: with an answer or with an error.  Nothing makes
\* a viewer do anything.
Spec == Init /\ [][Next]_vars /\ \A r \in Requests : WF_vars(Settle(r))
-----------------------------------------------------------------------------
\* However old answers meet new reads, the page is done exactly when it has a
\* result to show, or an earlier one while it reads, and an error has a message.
StatusAndResult ==
  /\ status = "done" => result # {}
  /\ result # {} => status \in {"done", "reading"}
  /\ status = "error" => error

\* The crops kept for an in-browser read are the crops of the read that is
\* shown, also when an answer overtakes another.
CropsOfTheResult ==
  ~Reading => \A out \in result : out.mode = "browser" => crops = {out}

\* However reads, answers, clears and switches of the mode interleave, what the
\* page shows belongs together: its status, its result and the crops it keeps.
PageIsConsistent == TypeOK /\ StatusAndResult /\ CropsOfTheResult

\* The page does not stay in the reading state: the read that put it there ends.
ReadingEnds == Reading ~> ~Reading

\* What the comment on Photo.view says: it is the photo's position when it was
\* read, so each view that is shown belongs to the photo it is shown with.
ViewIsThePhoto ==
  status = "done" => \A out \in result : \A i \in DOMAIN photos :
    photos[i].view # NoView =>
      /\ photos[i].view + 1 \in DOMAIN out.files
      /\ out.files[photos[i].view + 1] = photos[i].file
=============================================================================
