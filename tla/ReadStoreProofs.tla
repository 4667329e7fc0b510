--------------------------- MODULE ReadStoreProofs ---------------------------
(***************************************************************************)
(* PageIsConsistent of ReadStore, for any photos, any limit of the tray    *)
(* and any number of reads on their way.  It is inductive: each of its     *)
(* parts is what the others need at the awaits of read().                  *)
(***************************************************************************)
EXTENDS ReadStore, SequenceTheorems, FiniteSetTheorems, TLAPS

\* A photo is taken out of the tray, and put back elsewhere.
LEMMA WithoutOne ==
  ASSUME NEW S, NEW s \in Seq(S), NEW i \in DOMAIN s
  PROVE  Without(s, i) \in Seq(S) /\ Len(Without(s, i)) = Len(s) - 1
<1>. DEFINE before == SubSeq(s, 1, i - 1)
            after  == SubSeq(s, i + 1, Len(s))
<1>1. i \in 1 .. Len(s) /\ Len(s) \in Nat
  OBVIOUS
<1>2. before \in Seq(S) /\ Len(before) = i - 1
  BY <1>1, SubSeqProperties
<1>3. after \in Seq(S) /\ Len(after) = Len(s) - i
  BY <1>1, SubSeqProperties
<1>4. Without(s, i) = before \o after
  BY DEF Without
<1>. HIDE DEF before, after
<1>5. before \o after \in Seq(S) /\ Len(before \o after) = Len(before) + Len(after)
  BY <1>2, <1>3, ConcatProperties
<1>. QED  BY <1>1, <1>2, <1>3, <1>4, <1>5

LEMMA WithOne ==
  ASSUME NEW S, NEW s \in Seq(S), NEW i \in 1 .. Len(s) + 1, NEW x \in S
  PROVE  Insert(s, i, x) \in Seq(S) /\ Len(Insert(s, i, x)) = Len(s) + 1
<1>. DEFINE before == SubSeq(s, 1, i - 1)
            one    == <<x>>
            head   == before \o one
            after  == SubSeq(s, i, Len(s))
<1>1. i \in 1 .. Len(s) + 1 /\ Len(s) \in Nat
  OBVIOUS
<1>2. before \in Seq(S) /\ Len(before) = i - 1
  BY <1>1, SubSeqProperties
<1>3. after \in Seq(S) /\ Len(after) = Len(s) - i + 1
  BY <1>1, SubSeqProperties
<1>4. one \in Seq(S) /\ Len(one) = 1
  OBVIOUS
<1>5. Insert(s, i, x) = head \o after
  BY DEF Insert
<1>. HIDE DEF before, one, after
<1>6. head \in Seq(S) /\ Len(head) = Len(before) + Len(one)
  BY <1>2, <1>4, ConcatProperties
<1>. HIDE DEF head
<1>7. head \o after \in Seq(S) /\ Len(head \o after) = Len(head) + Len(after)
  BY <1>3, <1>6, ConcatProperties
<1>. QED  BY <1>1, <1>2, <1>3, <1>4, <1>5, <1>6, <1>7

LEMMA MovedTypes ==
  ASSUME NEW S, NEW s \in Seq(S), NEW from \in Nat \ {0}, NEW to \in Nat \ {0}
  PROVE  Moved(s, from, to) \in Seq(S) /\ Len(Moved(s, from, to)) = Len(s)
<1>. DEFINE rest == Without(s, from)
            slot == IF to > Len(rest) + 1 THEN Len(rest) + 1 ELSE to
<1>1. CASE from > Len(s)
  BY <1>1 DEF Moved
<1>2. CASE ~(from > Len(s))
  <2>1. from \in DOMAIN s /\ s[from] \in S
    BY <1>2
  <2>2. rest \in Seq(S) /\ Len(rest) = Len(s) - 1
    BY <2>1, WithoutOne
  <2>3. slot \in 1 .. Len(rest) + 1
    BY <2>1, <2>2
  <2>4. Moved(s, from, to) = Insert(rest, slot, s[from])
    BY <1>2 DEF Moved
  <2>. HIDE DEF rest, slot
  <2>5. Insert(rest, slot, s[from]) \in Seq(S) /\ Len(Insert(rest, slot, s[from])) = Len(rest) + 1
    BY <2>1, <2>2, <2>3, WithOne
  <2>6. Len(s) \in Nat
    OBVIOUS
  <2>. QED  BY <2>2, <2>4, <2>5, <2>6
<1>. QED  BY <1>1, <1>2

\* One read at most is shown, or none.
LEMMA OneOut ==
  ASSUME NEW out \in ReadOut
  PROVE  {out} \subseteq ReadOut /\ Cardinality({out}) <= 1
<1>1. Cardinality({out}) = 1
  BY FS_Singleton
<1>. QED  BY <1>1

LEMMA NoOut == {} \subseteq ReadOut /\ Cardinality({}) <= 1
<1>1. Cardinality({}) = 0
  BY FS_EmptySet
<1>. QED  BY <1>1

LEMMA FilesOfTypes == ASSUME NEW s \in Seq(Photo) PROVE FilesOf(s) \in Seq(Files)
<1>1. Len(s) \in Nat /\ DOMAIN s = 1 .. Len(s)
  OBVIOUS
<1>2. \A i \in 1 .. Len(s) : s[i] \in Photo
  OBVIOUS
<1>3. FilesOf(s) \in [1 .. Len(s) -> Files]
  BY <1>1, <1>2 DEF FilesOf, Photo
<1>. QED  BY <1>1, <1>3
-----------------------------------------------------------------------------
Tray == photos \in Seq(Photo) /\ Len(photos) <= MaxPhotos /\ dragged \in Nat

Kept ==
  /\ result \subseteq ReadOut /\ Cardinality(result) <= 1
  /\ crops \subseteq ReadOut /\ Cardinality(crops) <= 1
  /\ request \in [Requests -> Request]

Shown == mode \in Modes /\ status \in {"idle", "reading", "done", "error"} /\ error \in BOOLEAN

LEMMA TypesAre == TypeOK <=> Tray /\ Kept /\ Shown
  BY DEF TypeOK, Tray, Kept, Shown

LEMMA ViewerKeepsTray ==
  ASSUME TypeOK, Viewer
  PROVE  Tray'
<1>0. photos \in Seq(Photo) /\ Len(photos) <= MaxPhotos /\ dragged \in Nat /\ MaxPhotos \in Nat
  BY ReadStoreAssumption DEF TypeOK
<1>1. ASSUME NEW f \in Files, Add(f) PROVE Tray'
  <2>1. [file |-> f, view |-> NoView] \in Photo
    BY DEF Photo
  <2>2. /\ Append(photos, [file |-> f, view |-> NoView]) \in Seq(Photo)
        /\ Len(Append(photos, [file |-> f, view |-> NoView])) = Len(photos) + 1
    BY <1>0, <2>1, AppendProperties
  <2>3. Len(photos) \in Nat
    BY <1>0
  <2>. QED  BY <1>0, <1>1, <2>2, <2>3 DEF Add, Tray
<1>2. ASSUME NEW i \in DOMAIN photos, Remove(i) PROVE Tray'
  <2>1. Len(photos) \in Nat
    BY <1>0
  <2>. QED  BY <1>0, <1>2, <2>1, WithoutOne DEF Remove, Tray
<1>3. ASSUME NEW i \in DOMAIN photos, Lift(i) PROVE Tray'
  BY <1>0, <1>3 DEF Lift, Tray
<1>4. ASSUME NEW i \in DOMAIN photos, Drop(i) PROVE Tray'
  <2>1. dragged \in Nat \ {0} /\ i \in Nat \ {0}
    BY <1>0, <1>4 DEF Drop
  <2>. QED  BY <1>0, <1>4, <2>1, MovedTypes DEF Drop, Tray
<1>5. CASE Clear
  BY <1>0, <1>5 DEF Clear, Tray
<1>6. CASE Cancel
  BY <1>0, <1>6 DEF Cancel, Tray
<1>7. CASE \E next \in Modes : SetMode(next)
  BY <1>0, <1>7 DEF SetMode, Tray
<1>8. CASE \E r \in Requests : Read(r)
  BY <1>0, <1>8 DEF Read, Tray
<1>. QED  BY <1>1, <1>2, <1>3, <1>4, <1>5, <1>6, <1>7, <1>8 DEF Viewer

LEMMA ViewerKeepsKept ==
  ASSUME TypeOK, Viewer
  PROVE  Kept' /\ Shown'
<1>0. Kept /\ Shown /\ photos \in Seq(Photo)
  BY DEF TypeOK, Kept, Shown
<1>. USE <1>0, NoOut DEF Kept, Shown
<1>1. CASE \E f \in Files : Add(f)
  BY <1>1 DEF Add
<1>2. CASE \E i \in DOMAIN photos : Remove(i) \/ Lift(i) \/ Drop(i)
  BY <1>2 DEF Remove, Lift, Drop
<1>3. CASE Clear \/ Cancel \/ \E next \in Modes : SetMode(next)
  BY <1>3 DEF Clear, Cancel, SetMode
<1>4. ASSUME NEW r \in Requests, Read(r) PROVE Kept' /\ Shown'
  <2>1. FilesOf(photos) \in Seq(Files) /\ <<>> \in Seq(Files)
    BY FilesOfTypes
  <2>2. request' \in [Requests -> Request]
    <3>1. /\ [pc |-> "import", mode |-> "browser", files |-> <<>>] \in Request
          /\ [pc |-> "wait", mode |-> "server", files |-> FilesOf(photos)] \in Request
      BY <2>1 DEF Request, Modes
    <3>2. \E q \in Request : request' = [request EXCEPT ![r] = q]
      BY <1>4, <3>1 DEF Read
    <3>. QED  BY <3>2
  <2>. QED  BY <1>4, <2>2 DEF Read
<1>. QED  BY <1>1, <1>2, <1>3, <1>4 DEF Viewer

LEMMA SettleKeepsTypes ==
  ASSUME TypeOK, NEW r \in Requests, Settle(r)
  PROVE  Tray' /\ Kept' /\ Shown'
<1>0. /\ photos \in Seq(Photo) /\ Len(photos) <= MaxPhotos /\ dragged \in Nat
      /\ Kept /\ Shown
  BY DEF TypeOK, Kept, Shown
<1>1. NoRequest \in Request
  BY DEF NoRequest, Request, Modes
<1>2. CASE Imported(r)
  <2>1. FilesOf(photos) \in Seq(Files)
    BY <1>0, FilesOfTypes
  <2>2. request' \in [Requests -> Request]
    BY <1>0, <1>2, <2>1 DEF Imported, Request, Kept
  <2>. QED  BY <1>0, <1>2, <2>2 DEF Imported, Tray, Kept, Shown
<1>3. CASE Answer(r)
  <2>1. OutOf(r) \in ReadOut
    BY <1>0 DEF OutOf, ReadOut, Request, Kept
  <2>2. photos' \in Seq(Photo) /\ Len(photos') = Len(photos)
    <3>1. Len(photos) \in Nat /\ DOMAIN photos = 1 .. Len(photos)
      BY <1>0
    <3>2. \A i \in 1 .. Len(photos) : [photos[i] EXCEPT !.view = i - 1] \in Photo
      <4>. TAKE i \in 1 .. Len(photos)
      <4>1. photos[i] \in Photo /\ i - 1 \in Nat
        BY <1>0, <3>1
      <4>. QED  BY <4>1 DEF Photo
    <3>3. photos' = [i \in 1 .. Len(photos) |-> [photos[i] EXCEPT !.view = i - 1]]
      BY <3>1, <1>3 DEF Answer
    <3>4. photos' \in [1 .. Len(photos) -> Photo]
      BY <3>2, <3>3
    <3>. QED  BY <3>1, <3>4
  <2>3. request' \in [Requests -> Request]
    BY <1>0, <1>1, <1>3 DEF Answer, Kept
  <2>4. /\ result' \subseteq ReadOut /\ Cardinality(result') <= 1
        /\ crops' \subseteq ReadOut /\ Cardinality(crops') <= 1
    BY <1>0, <1>3, <2>1, OneOut DEF Answer, Kept
  <2>. QED  BY <1>0, <1>3, <2>2, <2>3, <2>4 DEF Answer, Tray, Kept, Shown
<1>4. CASE Fail(r)
  <2>1. request' \in [Requests -> Request]
    BY <1>0, <1>1, <1>4 DEF Fail, Kept
  <2>. QED  BY <1>0, <1>4, <2>1, NoOut DEF Fail, Tray, Kept, Shown
<1>. QED  BY <1>2, <1>3, <1>4 DEF Settle

LEMMA TypesKept == TypeOK /\ [Next]_vars => TypeOK'
<1>. SUFFICES ASSUME TypeOK, [Next]_vars PROVE Tray' /\ Kept' /\ Shown'
  BY DEF TypeOK, Tray, Kept, Shown
<1>1. CASE Viewer
  BY <1>1, ViewerKeepsTray, ViewerKeepsKept
<1>2. CASE \E r \in Requests : Settle(r)
  BY <1>2, SettleKeepsTypes
<1>3. CASE UNCHANGED vars
  BY <1>3 DEF vars, TypeOK, Tray, Kept, Shown
<1>. QED  BY <1>1, <1>2, <1>3 DEF Next
-----------------------------------------------------------------------------
\* Whatever the viewer does while reads are on their way, and in whichever order
\* they are answered or fail: the page shows one result with its crops, or reads,
\* or says that it could not.
THEOREM PageStaysConsistent == Spec => []PageIsConsistent
<1>1. Init => PageIsConsistent
  <2>. SUFFICES ASSUME Init PROVE PageIsConsistent
    OBVIOUS
  <2>1. photos \in Seq(Photo) /\ Len(photos) <= MaxPhotos
    BY ReadStoreAssumption DEF Init
  <2>2. request \in [Requests -> Request]
    BY DEF Init, NoRequest, Request, Modes
  <2>3. TypeOK
    BY <2>1, <2>2, NoOut DEF Init, TypeOK
  <2>. QED  BY <2>3 DEF Init, PageIsConsistent, StatusAndResult, CropsOfTheResult
<1>2. PageIsConsistent /\ [Next]_vars => PageIsConsistent'
  <2>. SUFFICES ASSUME PageIsConsistent, [Next]_vars
                PROVE  StatusAndResult' /\ CropsOfTheResult'
    BY TypesKept DEF PageIsConsistent
  <2>. USE DEF PageIsConsistent, StatusAndResult, CropsOfTheResult, Reading
  <2>1. CASE \E f \in Files : Add(f)
    BY <2>1 DEF Add
  <2>2. CASE \E i \in DOMAIN photos : Remove(i) \/ Lift(i) \/ Drop(i)
    BY <2>2 DEF Remove, Lift, Drop
  <2>3. CASE Clear \/ Cancel \/ \E next \in Modes : SetMode(next)
    BY <2>3 DEF Clear, Cancel, SetMode
  <2>4. CASE \E r \in Requests : Read(r)
    BY <2>4 DEF Read
  <2>5. ASSUME NEW r \in Requests, Imported(r) \/ Fail(r)
        PROVE  StatusAndResult' /\ CropsOfTheResult'
    BY <2>5 DEF Imported, Fail
  <2>6. ASSUME NEW r \in Requests, Answer(r)
        PROVE  StatusAndResult' /\ CropsOfTheResult'
    <3>1. result' = {OutOf(r)} /\ status' = "done"
      BY <2>6 DEF Answer
    <3>2. OutOf(r).mode = "browser" => crops' = {OutOf(r)}
      BY <2>6 DEF Answer, OutOf
    <3>. QED  BY <3>1, <3>2
  <2>7. CASE UNCHANGED vars
    BY <2>7 DEF vars
  <2>. QED  BY <2>1, <2>2, <2>3, <2>4, <2>5, <2>6, <2>7 DEF Next, Viewer, Settle
<1>. QED  BY <1>1, <1>2, PTL DEF Spec
=============================================================================
