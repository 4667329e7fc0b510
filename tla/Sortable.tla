------------------------------ MODULE Sortable ------------------------------
(***************************************************************************)
(* Reordering the photos by hand: motion/sortable.ts and the arithmetic of *)
(* motion/gesture.ts, in a row of slots.  The list is the store's, which   *)
(* other handlers change while a photo is held.  Where a photo is shown is *)
(* its place in the list and an offset, in slots; springs are at their     *)
(* ends.  The pointer is between the slots: slot i has its centre at 2 * i.*)
(***************************************************************************)
EXTENDS Integers, Sequences, FiniteSets

CONSTANTS Photos, None

VARIABLES
  photos,     \* the photos, in their order
  offset,     \* how far each is shown from its place
  drag,       \* what is held, None before the first press and after the last release
  disturbed   \* the list was changed by another handler since the press (history)

vars == <<photos, offset, drag, disturbed>>

Held == 99  \* the offset of a photo that follows the pointer

Listed == {photos[i] : i \in DOMAIN photos}

PlaceOf(photo) == CHOOSE i \in DOMAIN photos : photos[i] = photo

\* A press, and the drag that it may become.
Drag == [photo : Photos, index : Nat \ {0}, target : Nat \ {0}, slots : Nat,
         started : BOOLEAN, touch : BOOLEAN]

TypeOK ==
  /\ photos \in UNION {[1 .. n -> Photos] : n \in 0 .. Cardinality(Photos)}
  /\ \A i, k \in DOMAIN photos : photos[i] = photos[k] => i = k
  /\ offset \in [Photos -> -Cardinality(Photos) .. Cardinality(Photos) \cup {Held}]
  /\ drag = None \/ drag \in Drag
  /\ disturbed \in BOOLEAN

Init ==
  /\ photos \in {s \in UNION {[1 .. n -> Photos] : n \in 1 .. Cardinality(Photos)} :
                   \A i, k \in DOMAIN s : s[i] = s[k] => i = k}
  /\ offset = [p \in Photos |-> 0]
  /\ drag = None /\ disturbed = FALSE

-----------------------------------------------------------------------------
(***************************************************************************)
(* gesture.ts                                                              *)
(***************************************************************************)
\* The first of the slots whose centre is nearest.
NearestSlot(slots, point) ==
  LET far(i) == IF 2 * i > point THEN 2 * i - point ELSE point - 2 * i
  IN  CHOOSE i \in 1 .. slots : \A k \in 1 .. slots : far(i) < far(k) \/ (far(i) = far(k) /\ i <= k)

Without(list, i) == SubSeq(list, 1, i - 1) \o SubSeq(list, i + 1, Len(list))

\* splice twice; the second splice ends at the end of the list.
MoveItem(list, from, to) ==
  LET rest == Without(list, from)
      cut  == IF to - 1 > Len(rest) THEN Len(rest) ELSE to - 1
  IN  IF from = to \/ from \notin DOMAIN list THEN list
      ELSE SubSeq(rest, 1, cut) \o <<list[from]>> \o SubSeq(rest, cut + 1, Len(rest))

\* Mutant: the photo in the slot that is taken does not make room.
SlotAfterMove_Exclusive(index, from, to) ==
  CASE index = from -> to
    [] from < index /\ index < to -> index - 1
    [] to < index /\ index < from -> index + 1
    [] OTHER -> index

\* The slot a photo should show in while another is held over a slot.
SlotAfterMove(index, from, to) ==
  CASE index = from -> to
    [] from < index /\ index <= to -> index - 1
    [] to <= index /\ index < from -> index + 1
    [] OTHER -> index

-----------------------------------------------------------------------------
(***************************************************************************)
(* sortable.ts.  begin picks the photo up; end drops the drag with its     *)
(* timer and its listeners.                                                *)
(***************************************************************************)
Begun == [drag EXCEPT !.started = TRUE, !.slots = Len(photos)]

\* onPointerDown on a photo: nothing moves yet.
PointerDown(i, touch) ==
  /\ drag = None
  /\ drag' = [photo |-> photos[i], index |-> i, target |-> i, slots |-> 0,
              started |-> FALSE, touch |-> touch]
  /\ disturbed' = FALSE
  /\ UNCHANGED <<photos, offset>>

\* The timer of a press on a touch screen.
LongPress ==
  /\ drag # None /\ drag.touch /\ ~drag.started
  /\ drag' = Begun
  /\ UNCHANGED <<photos, offset, disturbed>>

\* A touch that moves before it is a press is a scroll.
Scroll ==
  /\ drag # None /\ drag.touch /\ ~drag.started
  /\ drag' = None
  /\ UNCHANGED <<photos, offset, disturbed>>

\* slideSiblings, as far as the slots of the beginning go.
Slid(held, next) ==
  [p \in Photos |->
    IF p = held.photo THEN Held
    ELSE IF p \notin Listed \/ PlaceOf(p) = held.index THEN offset[p]
    ELSE LET i  == PlaceOf(p)
             to == SlotAfterMove(i, held.index, next)
         IN  IF i \in 1 .. held.slots /\ to \in 1 .. held.slots THEN to - i ELSE offset[p]]

\* onPointerMove: a mouse that went far enough picks the photo up first.
PointerMove(point) ==
  /\ drag # None /\ (drag.touch => drag.started)
  /\ LET held == IF drag.started THEN drag ELSE Begun
         next == NearestSlot(held.slots, point)
     IN  IF held.index \notin 1 .. held.slots
         THEN drag' = held /\ UNCHANGED offset
         ELSE /\ drag' = [held EXCEPT !.target = next]
              /\ offset' = IF next = held.target THEN [offset EXCEPT ![held.photo] = Held]
                           ELSE Slid(held, next)
  /\ UNCHANGED <<photos, disturbed>>

AtRest(list) == [p \in Photos |-> IF \E i \in DOMAIN list : list[i] = p THEN 0 ELSE offset[p]]

\* settle: the store moves the photo, the page is redrawn before another event
\* is handled, and every photo springs to its place.
Settle(from, to) ==
  /\ photos' = MoveItem(photos, from, to)
  /\ offset' = AtRest(photos')

PointerUp ==
  /\ drag # None
  /\ drag' = None
  /\ IF drag.started THEN Settle(drag.index, drag.target) ELSE UNCHANGED <<photos, offset>>
  /\ UNCHANGED disturbed

\* onPointerCancel, and Escape while a photo is held.
Cancel ==
  /\ drag # None
  /\ drag' = None
  /\ offset' = IF drag.started THEN AtRest(photos) ELSE offset
  /\ UNCHANGED <<photos, disturbed>>

-----------------------------------------------------------------------------
(***************************************************************************)
(* The other handlers of the list (PhotoTray.vue, stores/read.ts).         *)
(***************************************************************************)
Disturb == disturbed' = (drag # None)

\* moveBy, by an arrow key on a photo.
MoveBy(from, to) ==
  /\ from # to
  /\ Settle(from, to)
  /\ Disturb
  /\ UNCHANGED drag

AddPhoto(p) ==
  /\ p \notin Listed
  /\ photos' = Append(photos, p)
  /\ offset' = [offset EXCEPT ![p] = 0]
  /\ Disturb
  /\ UNCHANGED drag

RemovePhoto(i) ==
  /\ photos' = Without(photos, i)
  /\ Disturb
  /\ UNCHANGED <<offset, drag>>

Next ==
  \/ \E i \in DOMAIN photos, touch \in BOOLEAN : PointerDown(i, touch)
  \/ LongPress \/ Scroll
  \/ \E point \in 1 .. 2 * Cardinality(Photos) + 1 : PointerMove(point)
  \/ PointerUp \/ Cancel
  \/ \E from, to \in DOMAIN photos : MoveBy(from, to)
  \/ \E p \in Photos : AddPhoto(p)
  \/ \E i \in DOMAIN photos : RemovePhoto(i)

Spec == Init /\ [][Next]_vars
-----------------------------------------------------------------------------
\* The preview is true: when nothing is held every photo is shown where the list has it, whatever
\* was added, removed or moved during the drag; and as long as nothing was, each photo is shown in
\* the place that it has after the drop, so no neighbour jumps when the photo is let go
\* (slotAfterMove, which the drag draws, agrees with moveItem, which the drop commits).
PreviewIsTrue ==
  /\ drag = None => \A p \in Listed : offset[p] = 0
  /\ drag # None /\ ~disturbed =>
       LET dropped == MoveItem(photos, drag.index, drag.target)
       IN  /\ dropped[drag.target] = drag.photo
           /\ \A p \in Listed \ {drag.photo} : dropped[PlaceOf(p) + offset[p]] = p

\* What the head of sortable.ts says: the photo that was picked up settles into its slot.  An arrow
\* key or a removal during the drag moves another photo into its place, and the drop moves that one.
HeldPhotoLands ==
  [][drag # None /\ drag.started /\ drag' = None /\ photos' # photos
       => photos'[drag.target] = drag.photo]_vars
=============================================================================
