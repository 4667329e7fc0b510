------------------------ MODULE ReviewStoreProofs --------------------------
(***************************************************************************)
(* ReviewStore's invariants for any sets of reads, views, plates and       *)
(* requests, any bound on the file and with or without faults; and that    *)
(* requests that come one at a time leave a labels.csv that validates.     *)
(***************************************************************************)
EXTENDS ReviewStore, TLAPS

\* Appending to labels.csv adds exactly the appended rows to its labels: none
\* is lost, and an append that leaves the file as it is had no rows.
LEMMA AppendedLabels ==
  ASSUME csv \in Seq(Chunk),
         NEW header \in BOOLEAN, NEW rows \in SUBSET Label,
         csv' = Appended(header, rows)
  PROVE  csv' \in Seq(Chunk) /\ Labels' = Labels \cup rows
<1>1. CASE ~header /\ rows = {}
  BY <1>1 DEF Appended, Labels
<1>2. CASE ~(~header /\ rows = {})
  <2>. DEFINE c == [header |-> header, rows |-> rows]
  <2>1. c \in Chunk /\ c.rows = rows
    BY DEF Chunk
  <2>2. csv' = Append(csv, c)
    BY <1>2 DEF Appended
  <2>. HIDE DEF c
  <2>3. /\ csv' \in Seq(Chunk)
        /\ Len(csv') = Len(csv) + 1
        /\ DOMAIN csv' = 1 .. Len(csv) + 1
        /\ DOMAIN csv = 1 .. Len(csv)
        /\ \A i \in 1 .. Len(csv) : csv'[i] = csv[i]
        /\ csv'[Len(csv) + 1] = c
        /\ Len(csv) \in Nat
    BY <2>1, <2>2
  <2>4. Labels' \subseteq Labels \cup rows
    BY <2>1, <2>3 DEF Labels
  <2>5. Labels \cup rows \subseteq Labels'
    BY <2>1, <2>3 DEF Labels
  <2>. QED  BY <2>3, <2>4, <2>5
<1>. QED  BY <1>1, <1>2

\* The labels in the file have their type.
LEMMA LabelsAreTyped ==
  ASSUME csv \in Seq(Chunk)
  PROVE  Labels \subseteq Label
<1>. SUFFICES ASSUME NEW i \in DOMAIN csv, NEW l \in csv[i].rows PROVE l \in Label
  BY DEF Labels
<1>1. csv[i] \in Chunk
  OBVIOUS
<1>. QED  BY <1>1 DEF Chunk

\* The records the model starts from and resets to have their types.
LEMMA Defaults ==
  /\ Absent \in DbRow
  /\ NoDraft \in Draft
  /\ NoBatch \in Batch
BY DEF Absent, DbRow, NoDraft, Draft, NoBatch, Batch, MaybePlate

-----------------------------------------------------------------------------
\* The empty store is well typed.
LEMMA InitTypeOK == Init => TypeOK
<1>. SUFFICES ASSUME Init PROVE TypeOK
  OBVIOUS
<1>1. csv \in Seq(Chunk)
  BY DEF Init
<1>2. crops \subseteq Reads \X Views /\ files \subseteq Reads \X Views
  BY DEF Init
<1>3. row \in [Reads -> DbRow] /\ decided \in [Reads -> SUBSET MaybePlate]
  BY Defaults DEF Init
<1>4. /\ pc \in [Requests -> {"idle"} \cup SavePcs \cup DecidePcs \cup ExportPcs]
      /\ draft \in [Requests -> Draft] /\ batch \in [Requests -> Batch]
  BY Defaults DEF Init
<1>. QED  BY <1>1, <1>2, <1>3, <1>4 DEF Init, TypeOK

\* Type correctness: every row, file and in-memory object keeps its type over
\* every step of a save, a decision or an export, and when one is given up.
THEOREM TypeCorrect == Spec => []TypeOK
<1>1. Init => TypeOK
  BY InitTypeOK
<1>2. TypeOK /\ [Next]_vars => TypeOK'
  <2>. SUFFICES ASSUME TypeOK, [Next]_vars PROVE TypeOK'
    OBVIOUS
  <2>. USE DEF TypeOK
  <2>1. ASSUME NEW t \in Requests, NEW r \in Reads, NEW text \in MaybePlate,
               NEW queued \in BOOLEAN, NEW V \in SUBSET Views, NEW W \in SUBSET Views,
               SaveCrops(t, r, text, queued, V, W)
        PROVE  TypeOK'
    <3>1. crops' \in SUBSET (Reads \X Views)
      BY <2>1 DEF SaveCrops
    <3>2. draft' \in [Requests -> Draft]
      BY <2>1, Defaults DEF SaveCrops, NewRow, Draft, DbRow, MaybePlate
    <3>. QED  BY <2>1, <3>1, <3>2 DEF SaveCrops, GoTo, SavePcs
  <2>2. ASSUME NEW t \in Requests, SaveCommit(t)
        PROVE  TypeOK'
    <3>1. row' \in [Reads -> DbRow]
      BY <2>2 DEF SaveCommit, Draft
    <3>. QED  BY <2>2, <3>1, Defaults DEF SaveCommit, GoTo
  <2>3. ASSUME NEW t \in Requests, NEW r \in Reads, NEW decision \in Plates \cup {Confirm},
               DecideLoad(t, r, decision)
        PROVE  TypeOK'
    <3>1. Decision(row[r], decision) \in DbRow
      BY <2>3 DEF DecideLoad, Decision, DbRow, MaybePlate
    <3>2. draft' \in [Requests -> Draft]
      BY <2>3, <3>1 DEF DecideLoad, Draft
    <3>. QED  BY <2>3, <3>2 DEF DecideLoad, GoTo, DecidePcs
  <2>4. ASSUME NEW t \in Requests, DecideCommit(t)
        PROVE  TypeOK'
    <3>. DEFINE d == draft[t]
    <3>1. d \in Draft
      OBVIOUS
    <3>2. ASSUME NEW r \in Reads PROVE Flushed(row[r], d.old, d.new) \in DbRow
      BY <3>1 DEF Flushed, Draft, DbRow
    <3>3. row' \in [Reads -> DbRow]
      BY <2>4, <3>2 DEF DecideCommit
    <3>4. decided' \in [Reads -> SUBSET MaybePlate]
      BY <2>4, <3>1 DEF DecideCommit, Draft, DbRow
    <3>5. redecided' \in SUBSET Reads
      BY <2>4 DEF DecideCommit
    <3>. QED  BY <2>4, <3>3, <3>4, <3>5, Defaults DEF DecideCommit, GoTo
  <2>5. ASSUME NEW t \in Requests, ExportStart(t)
        PROVE  TypeOK'
    BY <2>5, Defaults DEF ExportStart, GoTo, ExportPcs, Batch
  <2>6. ASSUME NEW t \in Requests, ExportSelect(t)
        PROVE  TypeOK'
    <3>1. [r \in Reads |-> IF Ready(r) THEN LabelOf(r) ELSE NoPlate] \in [Reads -> MaybePlate]
      BY DEF LabelOf, DbRow, MaybePlate
    <3>2. batch' \in [Requests -> Batch]
      BY <2>6, <3>1 DEF ExportSelect, Batch
    <3>3. redecided' \in SUBSET Reads
      BY <2>6 DEF ExportSelect
    <3>. QED  BY <2>6, <3>2, <3>3 DEF ExportSelect, GoTo, ExportPcs
  <2>7. ASSUME NEW t \in Requests, ExportCopy(t)
        PROVE  TypeOK'
    <3>1. {[read |-> c[1], view |-> c[2], plate |-> batch[t].picked[c[1]]] :
             c \in CropsToCopy(t)} \in SUBSET Label
      BY DEF CropsToCopy, Picked, Label, Batch, MaybePlate
    <3>2. batch' \in [Requests -> Batch]
      BY <2>7, <3>1 DEF ExportCopy, Batch
    <3>3. files' \in SUBSET (Reads \X Views)
      BY <2>7 DEF ExportCopy, CropsToCopy
    <3>. QED  BY <2>7, <3>2, <3>3 DEF ExportCopy, GoTo, ExportPcs
  <2>8. ASSUME NEW t \in Requests, ExportOpen(t)
        PROVE  TypeOK'
    BY <2>8 DEF ExportOpen, GoTo, ExportPcs
  <2>9. ASSUME NEW t \in Requests, ExportAppend(t)
        PROVE  TypeOK'
    BY <2>9, AppendedLabels DEF ExportAppend, GoTo, ExportPcs, Batch
  <2>10. ASSUME NEW t \in Requests, ExportCommit(t)
        PROVE  TypeOK'
    <3>1. row' \in [Reads -> DbRow]
      BY <2>10 DEF ExportCommit, DbRow
    <3>. QED  BY <2>10, <3>1, Defaults DEF ExportCommit, GoTo
  <2>11. ASSUME NEW t \in Requests, Abort(t)
        PROVE  TypeOK'
    <3>1. files' \in SUBSET (Reads \X Views)
      BY <2>11 DEF Abort, CropsToCopy
    <3>2. csv' \in Seq(Chunk)
      <4>1. CASE UNCHANGED csv
        BY <4>1
      <4>2. ASSUME NEW rows \in SUBSET batch[t].rows,
                   csv' = Appended(batch[t].newFile, rows)
            PROVE  csv' \in Seq(Chunk)
        BY <4>2, AppendedLabels DEF Batch
      <4>. QED  BY <2>11, <4>1, <4>2 DEF Abort
    <3>. QED  BY <2>11, <3>1, <3>2, Defaults DEF Abort, GoTo
  <2>12. CASE UNCHANGED vars
    BY <2>12 DEF vars
  <2>. HIDE DEF TypeOK
  <2>. QED
    BY <2>1, <2>2, <2>3, <2>4, <2>5, <2>6, <2>7, <2>8, <2>9, <2>10, <2>11, <2>12
    DEF Next, Save, Decide, Export
<1>. QED  BY <1>1, <1>2, PTL DEF Spec
-----------------------------------------------------------------------------
(***************************************************************************)
(* StoreInv is inductive: one lemma per action, one step per conjunct.     *)
(***************************************************************************)

\* A step that takes no label back and marks no item leaves ExportedHasLabels, when a marked
\* item that is given another plate is recorded as decided again.
LEMMA LabelsSuffice ==
  ASSUME ExportedHasLabels, Labels \subseteq Labels',
         \A q \in Reads : row'[q].exported =>
           /\ row[q].exported /\ row'[q].views = row[q].views
           /\ \A v \in row[q].views : <<q, v>> \in crops' => <<q, v>> \in crops
           /\ q \notin redecided' => q \notin redecided /\ row'[q].plate = row[q].plate
  PROVE  ExportedHasLabels'
<1>. SUFFICES ASSUME NEW q \in Reads, row'[q].exported, NEW v \in row'[q].views,
                     <<q, v>> \in crops'
              PROVE  \E l \in Labels' : /\ l.read = q /\ l.view = v
                                        /\ q \notin redecided' => l.plate = row'[q].plate
  BY DEF ExportedHasLabels
<1>0. /\ row[q].exported /\ v \in row[q].views /\ <<q, v>> \in crops
      /\ q \notin redecided' => q \notin redecided /\ row'[q].plate = row[q].plate
  OBVIOUS
<1>1. PICK l \in Labels : /\ l.read = q /\ l.view = v
                          /\ q \notin redecided => l.plate = row[q].plate
  BY <1>0 DEF ExportedHasLabels
<1>2. l \in Labels'
  OBVIOUS
<1>. QED  BY <1>0, <1>1, <1>2

\* While save_read writes the crops of a new read, no row of that read exists:
\* no item is exported or held by an export whose crops could grow.
LEMMA SaveCropsKeeps ==
  ASSUME StoreInv, TypeOK', NEW t \in Requests, NEW r \in Reads, NEW text \in MaybePlate,
         NEW queued \in BOOLEAN, NEW V \in SUBSET Views, NEW W \in SUBSET Views,
         SaveCrops(t, r, text, queued, V, W)
  PROVE  StoreInv'
<1>. USE DEF StoreInv, SaveCrops, GoTo
<1>1. TablesAgree' /\ PlatesWereDecided'
  BY DEF TablesAgree, PlatesWereDecided
<1>2. DraftsAgree'
  <2>. SUFFICES ASSUME NEW u \in Requests
                PROVE  DraftsAgree!(u)'
    BY DEF DraftsAgree
  <2>. QED  BY DEF DraftsAgree, TypeOK, NoDraft, NewRow
<1>3. \A q \in Reads, v \in Views :
        row[q].status # "absent" => (<<q, v>> \in crops' <=> <<q, v>> \in crops)
  OBVIOUS
<1>4. BatchesAgree'
  BY <1>3 DEF BatchesAgree, TypeOK, Picked, Labels, DbRow, ExportPcs
<1>5. ExportedHasLabels'
  <2>. SUFFICES ASSUME NEW q \in Reads, row[q].exported,
                       NEW v \in row[q].views, <<q, v>> \in crops'
                PROVE  \E l \in Labels : /\ l.read = q /\ l.view = v
                                         /\ q \notin redecided => l.plate = row[q].plate
    BY DEF ExportedHasLabels, Labels
  <2>1. row[q].status = "reviewed"
    BY DEF TablesAgree
  <2>2. row[q].views \subseteq Views
    BY DEF TypeOK, DbRow
  <2>. QED  BY <1>3, <2>1, <2>2 DEF ExportedHasLabels
<1>6. LabelsHaveFiles' /\ LabelsWereDecided'
  BY DEF LabelsHaveFiles, LabelsWereDecided, Labels
<1>. QED  BY <1>1, <1>2, <1>4, <1>5, <1>6

\* The committed read is new: its item was not selected by any export and it
\* is not exported, and no other draft is about it.
LEMMA SaveCommitKeeps ==
  ASSUME StoreInv, TypeOK', NEW t \in Requests, SaveCommit(t)
  PROVE  StoreInv'
<1>. USE DEF StoreInv, SaveCommit, GoTo
<1>. DEFINE d == draft[t]
<1>1. /\ d.read \in Reads /\ row[d.read].status = "absent"
      /\ \A u \in Requests : u # t => draft[u].read # d.read
      /\ ~d.new.exported /\ d.new.plate = NoPlate
      /\ \/ d.new.status = "queued" /\ d.new.review = "pending"
         \/ d.new.status = "accepted" /\ d.new.review = "none"
  BY DEF DraftsAgree
<1>2. \A q \in Reads : row'[q] = IF q = d.read THEN d.new ELSE row[q]
  BY DEF TypeOK
<1>. HIDE DEF d
<1>3. TablesAgree' /\ PlatesWereDecided'
  BY <1>1, <1>2 DEF TablesAgree, PlatesWereDecided
<1>4. DraftsAgree'
  <2>. SUFFICES ASSUME NEW u \in Requests
                PROVE  DraftsAgree!(u)'
    BY DEF DraftsAgree
  <2>1. CASE u = t
    BY <2>1 DEF DraftsAgree, TypeOK
  <2>2. CASE u # t
    <3>1. draft'[u] = draft[u] /\ pc'[u] = pc[u]
      BY <2>2 DEF TypeOK
    <3>2. \A w \in Requests : draft'[w] = draft[w] \/ draft'[w].read = NoRead
      BY DEF TypeOK, NoDraft
    <3>3. pc[u] \in {"save", "decide"} => draft[u].read \in Reads /\ draft[u].read # NoRead
      BY ConstantsAssumption DEF DraftsAgree
    <3>4. ASSUME pc[u] = "save" PROVE DraftsAgree!(u)'
      BY <1>1, <1>2, <2>2, <3>1, <3>2, <3>3, <3>4 DEF DraftsAgree
    <3>5. ASSUME pc[u] # "save" PROVE DraftsAgree!(u)'
      BY <1>1, <1>2, <2>2, <3>1, <3>3, <3>5 DEF DraftsAgree
    <3>. QED  BY <3>4, <3>5
  <2>. QED  BY <2>1, <2>2
<1>5. BatchesAgree'
  BY <1>1, <1>2 DEF BatchesAgree, TypeOK, Picked, Labels, ExportPcs
<1>6. ExportedHasLabels'
  <2>1. Labels' = Labels
    BY DEF Labels
  <2>. QED  BY <1>1, <1>2, <2>1, LabelsSuffice
<1>7. LabelsHaveFiles' /\ LabelsWereDecided'
  BY DEF LabelsHaveFiles, LabelsWereDecided, Labels
<1>. QED  BY <1>3, <1>4, <1>5, <1>6, <1>7

\* A decision is loaded from an item that has its row, whatever its status.
LEMMA DecideLoadKeeps ==
  ASSUME StoreInv, TypeOK', NEW t \in Requests, NEW r \in Reads,
         NEW decision \in Plates \cup {Confirm}, DecideLoad(t, r, decision)
  PROVE  StoreInv'
<1>. USE DEF StoreInv, DecideLoad, GoTo
<1>1. TablesAgree' /\ PlatesWereDecided'
  BY DEF TablesAgree, PlatesWereDecided
<1>2. row[r].status \in {"queued", "reviewed"}
  BY DEF TablesAgree, TypeOK, DbRow
<1>3. Decision(row[r], decision).plate \in Plates
  BY DEF Decision, TypeOK, DbRow, MaybePlate
<1>4. DraftsAgree'
  <2>. SUFFICES ASSUME NEW u \in Requests
                PROVE  DraftsAgree!(u)'
    BY DEF DraftsAgree
  <2>1. CASE u = t
    <3>1. /\ draft'[t].read = r /\ draft'[t].old = row[r]
          /\ draft'[t].new = Decision(row[r], decision) /\ pc'[t] = "decide"
      BY DEF TypeOK
    <3>. QED  BY <2>1, <3>1, <1>2, <1>3 DEF TablesAgree, Decision
  <2>2. CASE u # t
    <3>1. draft'[u] = draft[u] /\ pc'[u] = pc[u]
      BY <2>2 DEF TypeOK
    <3>2. pc[u] = "save" => draft[u].read # r
      BY <1>2 DEF DraftsAgree
    <3>3. ASSUME pc[u] = "save", NEW w \in Requests, w # u
          PROVE  draft'[w].read # draft[u].read
      BY <3>2, <3>3 DEF DraftsAgree, TypeOK
    <3>. QED  BY <3>1, <3>3 DEF DraftsAgree
  <2>. QED  BY <2>1, <2>2
<1>5. BatchesAgree'
  BY DEF BatchesAgree, TypeOK, Picked, Labels, ExportPcs
<1>6. ExportedHasLabels' /\ LabelsHaveFiles' /\ LabelsWereDecided'
  BY DEF ExportedHasLabels, LabelsHaveFiles, LabelsWereDecided, Labels
<1>. QED  BY <1>1, <1>4, <1>5, <1>6

\* The columns a decision does not write keep the committed row decided: they
\* were equal in the loaded row, and a decided item never goes back.
LEMMA DecideCommitKeeps ==
  ASSUME StoreInv, TypeOK', NEW t \in Requests, DecideCommit(t)
  PROVE  StoreInv'
<1>. USE DEF StoreInv, GoTo
<1>. DEFINE d == draft[t]
            x == row[d.read]
            y == Flushed(x, d.old, d.new)
<1>1. /\ d.read \in Reads
      /\ d.new.status = "reviewed" /\ d.new.review \in {"corrected", "confirmed"}
      /\ d.new.plate \in Plates /\ d.new.plate # NoPlate
      /\ x.status \in {"queued", "reviewed"}
      /\ (\/ d.old.status = "reviewed"
          \/ d.old.review \in {"corrected", "confirmed"}
          \/ d.old.plate # NoPlate) => x.status = "reviewed"
  BY ConstantsAssumption DEF DecideCommit, DraftsAgree
<1>2. \A q \in Reads : /\ row'[q] = IF q = d.read THEN y ELSE row[q]
                       /\ decided'[q] = IF q = d.read THEN decided[q] \cup {d.new.plate}
                                                      ELSE decided[q]
  BY <1>1 DEF DecideCommit, TypeOK
<1>3. /\ x.status = "reviewed" <=> x.review \in {"corrected", "confirmed"}
      /\ x.status = "reviewed" <=> x.plate # NoPlate
      /\ x.exported => x.status = "reviewed"
      /\ x.plate # NoPlate => x.plate \in decided[d.read]
  BY <1>1 DEF TablesAgree, PlatesWereDecided
<1>4. /\ y.status = "reviewed" /\ y.review \in {"corrected", "confirmed"}
      /\ y.plate # NoPlate /\ y.plate \in decided[d.read] \cup {d.new.plate}
      /\ y.exported = x.exported /\ y.views = x.views
  BY <1>1, <1>3 DEF Flushed
<1>5. UNCHANGED <<crops, files, csv, batch>> /\ Labels' = Labels
  BY DEF DecideCommit, Labels
<1>6. draft' = [draft EXCEPT ![t] = NoDraft] /\ pc' = [pc EXCEPT ![t] = "idle"]
  BY DEF DecideCommit
<1>7. pc[t] = "decide"
  BY DEF DecideCommit
<1>. HIDE DEF d, x, y
<1>8. TablesAgree' /\ PlatesWereDecided'
  <2>1. ASSUME NEW q \in Reads, q = d.read PROVE TablesAgree!(q)' /\ PlatesWereDecided!(q)'
    BY <2>1, <1>2, <1>4
  <2>2. ASSUME NEW q \in Reads, q # d.read PROVE TablesAgree!(q)' /\ PlatesWereDecided!(q)'
    BY <2>2, <1>2 DEF TablesAgree, PlatesWereDecided
  <2>. QED  BY <2>1, <2>2 DEF TablesAgree, PlatesWereDecided
<1>9. DraftsAgree'
  <2>. SUFFICES ASSUME NEW u \in Requests
                PROVE  DraftsAgree!(u)'
    BY DEF DraftsAgree
  <2>1. CASE u = t
    BY <2>1, <1>6 DEF TypeOK
  <2>2. CASE u # t
    <3>1. draft'[u] = draft[u] /\ pc'[u] = pc[u]
      BY <2>2, <1>6 DEF TypeOK
    <3>2. \A w \in Requests : draft'[w] = draft[w] \/ draft'[w].read = NoRead
      BY <1>6 DEF TypeOK, NoDraft
    <3>3. pc[u] \in {"save", "decide"} => draft[u].read \in Reads /\ draft[u].read # NoRead
      BY ConstantsAssumption DEF DraftsAgree
    <3>4. ASSUME pc[u] = "save" PROVE DraftsAgree!(u)'
      <4>1. draft[u].read # d.read
        BY <2>2, <3>4 DEF DraftsAgree, d
      <4>2. row'[draft[u].read] = row[draft[u].read]
        BY <1>2, <3>3, <3>4, <4>1
      <4>3. \A w \in Requests : w # u => draft'[w].read # draft[u].read
        BY <3>2, <3>3, <3>4 DEF DraftsAgree
      <4>. QED  BY <3>1, <3>4, <4>2, <4>3 DEF DraftsAgree
    <3>5. ASSUME pc[u] = "decide" PROVE DraftsAgree!(u)'
      <4>1. /\ row'[draft[u].read].status \in {"queued", "reviewed"}
            /\ row[draft[u].read].status = "reviewed"
                 => row'[draft[u].read].status = "reviewed"
        BY <1>2, <1>4, <3>3, <3>5 DEF DraftsAgree
      <4>. QED  BY <3>1, <3>5, <4>1 DEF DraftsAgree
    <3>6. ASSUME pc[u] \notin {"save", "decide"} PROVE DraftsAgree!(u)'
      BY <3>1, <3>6 DEF DraftsAgree
    <3>. QED  BY <3>4, <3>5, <3>6
  <2>. QED  BY <2>1, <2>2
<1>10. \A q \in Reads : /\ row'[q].views = row[q].views
                        /\ row[q].status = "reviewed" => row'[q].status = "reviewed"
                        /\ row'[q].exported => row[q].exported
                        /\ decided[q] \subseteq decided'[q]
  BY <1>2, <1>4 DEF x
<1>d. \A q \in Reads : q \notin redecided' =>
        q \notin redecided /\ (Exporting(q) => row'[q].plate = row[q].plate)
  BY DEF DecideCommit
<1>11. BatchesAgree'
  <2>1. \A u \in Requests : pc'[u] # "idle" => pc'[u] = pc[u]
    BY <1>6 DEF TypeOK
  <2>2. \A u \in Requests : pc'[u] = pc[u] \/ (u = t /\ pc[u] \notin ExportPcs)
    BY <1>6, <1>7 DEF TypeOK, ExportPcs
  <2>3. \A u \in Requests : Picked(u)' = Picked(u)
    BY <1>5 DEF Picked
  <2>4. \A l \in Label : l.read \in Reads
    BY DEF Label
  <2>5. \A u \in Requests : batch[u].rows \subseteq Label
    BY DEF TypeOK, Batch
  <2>6. \A u \in Requests : \A r \in Picked(u) : r \in Reads /\ Exporting(r)
    BY DEF Picked, Exporting
  <2>. SUFFICES ASSUME NEW u \in Requests PROVE BatchesAgree!(u)'
    BY DEF BatchesAgree
  <2>7. BatchesAgree!(u)
    BY DEF BatchesAgree
  <2>8. pc'[u] \in {"copy", "open", "append", "commit"} =>
          \A r \in Picked(u)' :
            /\ row'[r].status = "reviewed" /\ batch'[u].picked[r] \in decided'[r]
            /\ r \notin redecided' => batch'[u].picked[r] = row'[r].plate
    BY <1>5, <1>10, <1>d, <2>1, <2>3, <2>6, <2>7
  <2>. QED  BY <1>5, <1>10, <2>1, <2>2, <2>3, <2>4, <2>5, <2>6, <2>7, <2>8
<1>12. ExportedHasLabels' /\ LabelsHaveFiles'
  <2>1. ExportedHasLabels'
    BY <1>5, <1>10, <1>d, LabelsSuffice DEF Exporting
  <2>. QED  BY <1>5, <2>1 DEF LabelsHaveFiles
<1>13. LabelsWereDecided'
  BY <1>5, <1>10, LabelsAreTyped DEF LabelsWereDecided, Label, TypeOK
<1>. QED  BY <1>8, <1>9, <1>11, <1>12, <1>13

\* Before it copies, an export changes nothing that the invariant reads but
\* its own batch.
LEMMA ExportStartKeeps ==
  ASSUME StoreInv, TypeOK', NEW t \in Requests, ExportStart(t)
  PROVE  StoreInv'
<1>. USE DEF StoreInv, ExportStart, GoTo
<1>1. TablesAgree' /\ PlatesWereDecided'
  BY DEF TablesAgree, PlatesWereDecided
<1>2. DraftsAgree'
  BY DEF DraftsAgree, TypeOK
<1>3. BatchesAgree'
  BY DEF BatchesAgree, TypeOK, Picked, Labels, ExportPcs
<1>4. ExportedHasLabels' /\ LabelsHaveFiles' /\ LabelsWereDecided'
  BY DEF ExportedHasLabels, LabelsHaveFiles, LabelsWereDecided, Labels
<1>. QED  BY <1>1, <1>2, <1>3, <1>4

\* What an export selects is decided, with the plate of the committed row.
LEMMA ExportSelectKeeps ==
  ASSUME StoreInv, TypeOK', NEW t \in Requests, ExportSelect(t)
  PROVE  StoreInv'
<1>. USE DEF StoreInv, ExportSelect, GoTo
<1>1. TablesAgree' /\ PlatesWereDecided'
  BY DEF TablesAgree, PlatesWereDecided
<1>2. DraftsAgree'
  BY DEF DraftsAgree, TypeOK
<1>3. BatchesAgree'
  <2>1. \A r \in Reads : batch'[t].picked[r] = IF Ready(r) THEN row[r].plate ELSE NoPlate
    BY DEF LabelOf, TypeOK, Batch
  <2>2. \A r \in Picked(t)' : /\ row[r].status = "reviewed" /\ batch'[t].picked[r] \in decided[r]
                              /\ batch'[t].picked[r] = row[r].plate
    BY <2>1 DEF Picked, Ready, TablesAgree, PlatesWereDecided
  <2>3. \A u \in Requests : u # t => batch'[u] = batch[u] /\ pc'[u] = pc[u]
    BY DEF TypeOK
  <2>4. pc'[t] = "copy"
    BY DEF TypeOK
  <2>5. ASSUME NEW u \in Requests, u # t, NEW r \in Picked(u), r \notin redecided'
        PROVE  r \notin redecided
    BY <2>5 DEF Exporting, Picked
  <2>. SUFFICES ASSUME NEW u \in Requests PROVE BatchesAgree!(u)'
    BY DEF BatchesAgree
  <2>6. CASE u = t
    BY <2>2, <2>4, <2>6 DEF ExportPcs
  <2>7. CASE u # t
    <3>1. batch'[u] = batch[u] /\ pc'[u] = pc[u] /\ Picked(u)' = Picked(u)
      BY <2>3, <2>7 DEF Picked
    <3>. QED  BY <2>5, <2>7, <3>1 DEF BatchesAgree, Labels
  <2>. QED  BY <2>6, <2>7
<1>4. ExportedHasLabels' /\ LabelsHaveFiles' /\ LabelsWereDecided'
  <2>1. ExportedHasLabels'
    <3>1. Labels' = Labels
      BY DEF Labels
    <3>2. \A q \in Reads : row[q].exported /\ q \notin redecided' => q \notin redecided
      BY DEF Exporting
    <3>. QED  BY <3>1, <3>2, LabelsSuffice
  <2>. QED  BY <2>1 DEF LabelsHaveFiles, LabelsWereDecided, Labels
<1>. QED  BY <1>1, <1>2, <1>3, <1>4

\* The copies made cover every crop on disk of every picked item, and the rows
\* kept for the file name exactly those copies.
LEMMA ExportCopyKeeps ==
  ASSUME StoreInv, TypeOK', NEW t \in Requests, ExportCopy(t)
  PROVE  StoreInv'
<1>. USE DEF StoreInv, GoTo
<1>. DEFINE line(c) == [read |-> c[1], view |-> c[2], plate |-> batch[t].picked[c[1]]]
<1>1. /\ UNCHANGED <<row, crops, csv, draft, decided, redecided>>
      /\ files' = files \cup CropsToCopy(t)
      /\ pc[t] = "copy" /\ pc' = [pc EXCEPT ![t] = "open"]
  BY DEF ExportCopy
<1>2. TablesAgree' /\ PlatesWereDecided'
  BY <1>1 DEF TablesAgree, PlatesWereDecided
<1>3. DraftsAgree'
  BY <1>1 DEF DraftsAgree, TypeOK
<1>4. batch'[t].rows = {line(c) : c \in CropsToCopy(t)} /\ batch'[t].picked = batch[t].picked
  BY DEF ExportCopy, TypeOK, Batch
<1>5. \A u \in Requests : u # t => batch'[u] = batch[u] /\ pc'[u] = pc[u]
  BY <1>1 DEF ExportCopy, TypeOK
<1>6. pc'[t] = "open" /\ Picked(t)' = Picked(t)
  BY <1>1, <1>4 DEF TypeOK, Picked
<1>7. \A r \in Picked(t) : /\ row[r].status = "reviewed" /\ batch[t].picked[r] \in decided[r]
                           /\ r \notin redecided => batch[t].picked[r] = row[r].plate
  BY <1>1 DEF BatchesAgree
<1>8. ASSUME NEW r \in Picked(t), NEW v \in row[r].views, <<r, v>> \in crops
      PROVE  \E l \in batch'[t].rows :
               l.read = r /\ l.view = v /\ l.plate = batch'[t].picked[r]
  <2>1. <<r, v>> \in CropsToCopy(t)
    BY <1>8 DEF CropsToCopy
  <2>2. line(<<r, v>>) \in batch'[t].rows
    BY <2>1, <1>4
  <2>3. /\ line(<<r, v>>).read = r /\ line(<<r, v>>).view = v
        /\ line(<<r, v>>).plate = batch[t].picked[r]
    OBVIOUS
  <2>. QED  BY <2>2, <2>3, <1>4
<1>9. ASSUME NEW l \in batch'[t].rows
      PROVE  <<l.read, l.view>> \in files' /\ l.plate \in decided[l.read]
  <2>1. PICK c \in CropsToCopy(t) : l = line(c)
    BY <1>4
  <2>2. c \in Reads \X Views /\ c[1] \in Picked(t) /\ c = <<c[1], c[2]>>
    BY DEF CropsToCopy, TypeOK
  <2>3. l.read = c[1] /\ l.view = c[2] /\ l.plate = batch[t].picked[c[1]]
    BY <2>1
  <2>4. c \in files'
    BY <1>1
  <2>5. batch[t].picked[c[1]] \in decided[c[1]]
    BY <2>2, <1>7
  <2>. QED  BY <2>2, <2>3, <2>4, <2>5
<1>10. BatchesAgree'
  <2>. SUFFICES ASSUME NEW u \in Requests PROVE BatchesAgree!(u)'
    BY DEF BatchesAgree
  <2>1. CASE u = t
    BY <2>1, <1>1, <1>4, <1>6, <1>7, <1>8, <1>9 DEF ExportPcs
  <2>2. CASE u # t
    <3>1. /\ batch'[u] = batch[u] /\ pc'[u] = pc[u] /\ Picked(u)' = Picked(u)
          /\ Labels' = Labels /\ files \subseteq files'
      BY <2>2, <1>1, <1>5 DEF Picked, Labels
    <3>2. BatchesAgree!(u)
      BY DEF BatchesAgree
    <3>. QED  BY <3>1, <3>2, <1>1
  <2>. QED  BY <2>1, <2>2
<1>11. ExportedHasLabels' /\ LabelsHaveFiles' /\ LabelsWereDecided'
  BY <1>1 DEF ExportedHasLabels, LabelsHaveFiles, LabelsWereDecided, Labels
<1>. QED  BY <1>2, <1>3, <1>10, <1>11

\* Creating labels.csv adds no label.
LEMMA ExportOpenKeeps ==
  ASSUME StoreInv, TypeOK', NEW t \in Requests, ExportOpen(t)
  PROVE  StoreInv'
<1>. USE DEF StoreInv, ExportOpen, GoTo
<1>1. TablesAgree' /\ PlatesWereDecided'
  BY DEF TablesAgree, PlatesWereDecided
<1>2. DraftsAgree'
  BY DEF DraftsAgree, TypeOK
<1>3. BatchesAgree'
  BY DEF BatchesAgree, TypeOK, Picked, Labels, ExportPcs
<1>4. ExportedHasLabels' /\ LabelsHaveFiles' /\ LabelsWereDecided'
  BY DEF ExportedHasLabels, LabelsHaveFiles, LabelsWereDecided, Labels
<1>. QED  BY <1>1, <1>2, <1>3, <1>4

\* Rows of a batch that reach the file, all of them or some: they name copied
\* crops and decided plates, so the file's properties hold of the longer file.
LEMMA LabelsGrow ==
  ASSUME StoreInv, NEW t \in Requests, pc[t] = "append",
         NEW rows \in SUBSET batch[t].rows, csv' = Appended(batch[t].newFile, rows),
         UNCHANGED <<row, crops, files, decided, redecided>>
  PROVE  /\ Labels' = Labels \cup rows
         /\ ExportedHasLabels' /\ LabelsHaveFiles' /\ LabelsWereDecided'
<1>. USE DEF StoreInv
<1>1. Labels' = Labels \cup rows
  BY AppendedLabels DEF TypeOK, Batch
<1>2. \A l \in rows : <<l.read, l.view>> \in files /\ l.plate \in decided[l.read]
  BY DEF BatchesAgree
<1>3. ExportedHasLabels'
  BY <1>1, LabelsSuffice
<1>4. LabelsHaveFiles' /\ LabelsWereDecided'
  BY <1>1, <1>2 DEF LabelsHaveFiles, LabelsWereDecided
<1>. QED  BY <1>1, <1>3, <1>4

\* After the append every row the commit will answer for is in the file.
LEMMA ExportAppendKeeps ==
  ASSUME StoreInv, TypeOK', NEW t \in Requests, ExportAppend(t)
  PROVE  StoreInv'
<1>. USE DEF StoreInv, ExportAppend, GoTo
<1>1. TablesAgree' /\ PlatesWereDecided'
  BY DEF TablesAgree, PlatesWereDecided
<1>2. DraftsAgree'
  BY DEF DraftsAgree, TypeOK
<1>3. /\ Labels' = Labels \cup batch[t].rows
      /\ ExportedHasLabels' /\ LabelsHaveFiles' /\ LabelsWereDecided'
  BY LabelsGrow
<1>4. BatchesAgree'
  <2>1. \A u \in Requests : u # t => pc'[u] = pc[u]
    BY DEF TypeOK
  <2>2. pc'[t] = "commit"
    BY DEF TypeOK
  <2>. QED  BY <1>3, <2>1, <2>2 DEF BatchesAgree, Picked, ExportPcs
<1>. QED  BY <1>1, <1>2, <1>3, <1>4

\* The items a commit marks are reviewed and each crop of theirs has its row in
\* the file since the append.
LEMMA ExportCommitKeeps ==
  ASSUME StoreInv, TypeOK', NEW t \in Requests, ExportCommit(t)
  PROVE  StoreInv'
<1>. USE DEF StoreInv, GoTo
<1>1. /\ UNCHANGED <<crops, files, csv, draft, decided, redecided>>
      /\ pc[t] = "commit" /\ pc' = [pc EXCEPT ![t] = "idle"]
      /\ batch' = [batch EXCEPT ![t] = NoBatch]
  BY DEF ExportCommit
<1>2. \A r \in Reads :
        /\ row'[r].status = row[r].status /\ row'[r].review = row[r].review
        /\ row'[r].plate = row[r].plate /\ row'[r].views = row[r].views
        /\ row'[r].exported => row[r].exported \/ r \in Picked(t)
  BY DEF ExportCommit, TypeOK, DbRow
<1>3. \A r \in Picked(t) :
        /\ row[r].status = "reviewed"
        /\ \A v \in row[r].views : <<r, v>> \in crops =>
             \E l \in Labels : /\ l.read = r /\ l.view = v
                               /\ r \notin redecided => l.plate = row[r].plate
  BY <1>1 DEF BatchesAgree
<1>4. TablesAgree' /\ PlatesWereDecided'
  BY <1>1, <1>2, <1>3 DEF TablesAgree, PlatesWereDecided
<1>5. DraftsAgree'
  BY <1>1, <1>2 DEF DraftsAgree, TypeOK
<1>6. BatchesAgree'
  <2>. SUFFICES ASSUME NEW u \in Requests PROVE BatchesAgree!(u)'
    BY DEF BatchesAgree
  <2>1. CASE u = t
    BY <2>1, <1>1 DEF TypeOK
  <2>2. CASE u # t
    <3>1. batch'[u] = batch[u] /\ pc'[u] = pc[u]
      BY <2>2, <1>1 DEF TypeOK
    <3>. QED  BY <3>1, <1>1, <1>2 DEF BatchesAgree, Picked, Labels
  <2>. QED  BY <2>1, <2>2
<1>7. ExportedHasLabels'
  <2>. SUFFICES ASSUME NEW q \in Reads, row'[q].exported, NEW v \in row'[q].views,
                       <<q, v>> \in crops'
                PROVE  \E l \in Labels' : /\ l.read = q /\ l.view = v
                                          /\ q \notin redecided' => l.plate = row'[q].plate
    BY DEF ExportedHasLabels
  <2>1. Labels' = Labels /\ UNCHANGED <<crops, redecided>>
    BY <1>1 DEF Labels
  <2>2. row'[q].views = row[q].views /\ row'[q].plate = row[q].plate
    BY <1>2
  <2>3. CASE row[q].exported
    BY <2>1, <2>2, <2>3 DEF ExportedHasLabels
  <2>4. CASE q \in Picked(t)
    BY <1>3, <2>1, <2>2, <2>4
  <2>. QED  BY <1>2, <2>3, <2>4
<1>8. LabelsHaveFiles' /\ LabelsWereDecided'
  BY <1>1 DEF LabelsHaveFiles, LabelsWereDecided, Labels
<1>. QED  BY <1>4, <1>5, <1>6, <1>7, <1>8

\* Giving up forgets the draft and the batch; what was copied or appended stays
\* and is allowed to.
LEMMA AbortKeeps ==
  ASSUME StoreInv, TypeOK', NEW t \in Requests, Abort(t)
  PROVE  StoreInv'
<1>. USE DEF StoreInv, GoTo
<1>1. /\ UNCHANGED <<row, crops, decided, redecided>>
      /\ draft' = [draft EXCEPT ![t] = NoDraft]
      /\ batch' = [batch EXCEPT ![t] = NoBatch]
      /\ pc' = [pc EXCEPT ![t] = "idle"]
  BY DEF Abort
<1>2. /\ files \subseteq files' /\ Labels \subseteq Labels'
      /\ ExportedHasLabels' /\ LabelsHaveFiles' /\ LabelsWereDecided'
  <2>1. CASE UNCHANGED csv /\ files \subseteq files'
    BY <2>1, <1>1 DEF ExportedHasLabels, LabelsHaveFiles, LabelsWereDecided, Labels
  <2>2. ASSUME pc[t] = "append", UNCHANGED files, NEW rows \in SUBSET batch[t].rows,
               csv' = Appended(batch[t].newFile, rows)
        PROVE  <1>2
    BY <2>2, <1>1, LabelsGrow
  <2>. QED  BY <2>1, <2>2 DEF Abort
<1>3. TablesAgree' /\ PlatesWereDecided'
  BY <1>1 DEF TablesAgree, PlatesWereDecided
<1>4. DraftsAgree'
  <2>. SUFFICES ASSUME NEW u \in Requests PROVE DraftsAgree!(u)'
    BY DEF DraftsAgree
  <2>1. CASE u = t
    BY <2>1, <1>1 DEF TypeOK
  <2>2. CASE u # t
    <3>1. draft'[u] = draft[u] /\ pc'[u] = pc[u]
      BY <2>2, <1>1 DEF TypeOK
    <3>2. \A w \in Requests : draft'[w] = draft[w] \/ draft'[w].read = NoRead
      BY <1>1 DEF TypeOK, NoDraft
    <3>3. pc[u] = "save" => draft[u].read # NoRead
      BY ConstantsAssumption DEF DraftsAgree
    <3>. QED  BY <1>1, <3>1, <3>2, <3>3 DEF DraftsAgree
  <2>. QED  BY <2>1, <2>2
<1>5. BatchesAgree'
  <2>. SUFFICES ASSUME NEW u \in Requests PROVE BatchesAgree!(u)'
    BY DEF BatchesAgree
  <2>1. CASE u = t
    BY <2>1, <1>1 DEF TypeOK
  <2>2. CASE u # t
    <3>1. batch'[u] = batch[u] /\ pc'[u] = pc[u]
      BY <2>2, <1>1 DEF TypeOK
    <3>. QED  BY <3>1, <1>1, <1>2 DEF BatchesAgree, Picked
  <2>. QED  BY <2>1, <2>2
<1>. QED  BY <1>2, <1>3, <1>4, <1>5
-----------------------------------------------------------------------------
\* StoreInv holds in the empty store and every step of every request keeps it.
THEOREM StoreInvariant == Spec => []StoreInv
<1>1. Init => StoreInv
  <2>. SUFFICES ASSUME Init PROVE StoreInv
    OBVIOUS
  <2>1. TypeOK
    BY InitTypeOK
  <2>2. Labels = {}
    BY DEF Init, Labels
  <2>3. TablesAgree /\ PlatesWereDecided /\ ExportedHasLabels
    BY DEF Init, TablesAgree, PlatesWereDecided, ExportedHasLabels, Absent
  <2>4. LabelsHaveFiles /\ LabelsWereDecided
    BY <2>2 DEF LabelsHaveFiles, LabelsWereDecided
  <2>5. DraftsAgree /\ BatchesAgree
    BY DEF Init, DraftsAgree, BatchesAgree, ExportPcs
  <2>. QED  BY <2>1, <2>3, <2>4, <2>5 DEF StoreInv
<1>2. StoreInv /\ TypeOK' /\ [Next]_vars => StoreInv'
  <2>. SUFFICES ASSUME StoreInv, TypeOK', [Next]_vars PROVE StoreInv'
    OBVIOUS
  <2>1. CASE UNCHANGED vars
    BY <2>1 DEF vars, StoreInv, TypeOK, TablesAgree, DraftsAgree, PlatesWereDecided,
                BatchesAgree, ExportedHasLabels, LabelsHaveFiles, LabelsWereDecided,
                Labels, Picked
  <2>2. ASSUME NEW t \in Requests, Save(t) PROVE StoreInv'
    BY <2>2, SaveCropsKeeps, SaveCommitKeeps DEF Save
  <2>3. ASSUME NEW t \in Requests, Decide(t) PROVE StoreInv'
    BY <2>3, DecideLoadKeeps, DecideCommitKeeps DEF Decide
  <2>4. ASSUME NEW t \in Requests, Export(t) PROVE StoreInv'
    BY <2>4, ExportStartKeeps, ExportSelectKeeps, ExportCopyKeeps, ExportOpenKeeps,
       ExportAppendKeeps, ExportCommitKeeps DEF Export
  <2>5. ASSUME NEW t \in Requests, Abort(t) PROVE StoreInv'
    BY <2>5, AbortKeeps
  <2>. QED  BY <2>1, <2>2, <2>3, <2>4, <2>5 DEF Next
<1>. QED  BY <1>1, <1>2, TypeCorrect, PTL DEF Spec

\* At-least-once export: whatever fails and however exports and decisions
\* overlap, an item marked as exported has a row for every crop on disk.
THEOREM ExportIsNotLost == Spec => []ExportedHasLabels
<1>1. StoreInv => ExportedHasLabels
  BY DEF StoreInv
<1>. QED  BY <1>1, StoreInvariant, PTL

\* No row of labels.csv dangles, at any moment and after any failure: an export
\* copies a crop before it appends its row, and copies are never taken away.
THEOREM LabelsNeverDangle == Spec => []LabelsHaveFiles
<1>1. StoreInv => LabelsHaveFiles
  BY DEF StoreInv
<1>. QED  BY <1>1, StoreInvariant, PTL

\* No row of labels.csv carries a plate that no reviewer gave: what an export
\* holds was decided, even when the item is decided again before it appends.
THEOREM LabelsComeFromDecisions == Spec => []LabelsWereDecided
<1>1. StoreInv => LabelsWereDecided
  BY DEF StoreInv
<1>. QED  BY <1>1, StoreInvariant, PTL

\* What an export has written can be trained on, at any moment and after any failure.
THEOREM LabelsStayTrue == Spec => []LabelsAreTrue
<1>1. LabelsHaveFiles /\ LabelsWereDecided => LabelsAreTrue
  BY DEF LabelsAreTrue
<1>. QED  BY <1>1, LabelsNeverDangle, LabelsComeFromDecisions, PTL

\* The reads table and the review queue agree under every interleaving.
THEOREM TablesAlwaysAgree == Spec => []TablesAgree
<1>1. StoreInv => TablesAgree
  BY DEF StoreInv
<1>. QED  BY <1>1, StoreInvariant, PTL
-----------------------------------------------------------------------------
(***************************************************************************)
(* A disk that accepts the writes: the crops of a read are there before    *)
(* its row is, so StoreInv is strengthened by the crops of the drafts.     *)
(***************************************************************************)
CropsOfDrafts ==
  \A t \in Requests : pc[t] = "save" =>
    \A v \in draft[t].new.views : <<draft[t].read, v>> \in crops

CropsOfRows == \A r \in Reads : \A v \in row[r].views : <<r, v>> \in crops

\* A step that writes no row and starts no save leaves both as they are: crops
\* are never taken away.
LEMMA CropsStay ==
  ASSUME CropsOfDrafts, CropsOfRows, crops \subseteq crops',
         \A r \in Reads : row'[r].views = row[r].views,
         \A t \in Requests : pc'[t] = "save" =>
           pc[t] = "save" /\ draft'[t].new = draft[t].new /\ draft'[t].read = draft[t].read
  PROVE  CropsOfDrafts' /\ CropsOfRows'
<1>1. CropsOfDrafts'
  BY DEF CropsOfDrafts
<1>2. CropsOfRows'
  BY DEF CropsOfRows
<1>. QED  BY <1>1, <1>2

\* Whatever fails and overlaps, as long as the disk takes what is written: the
\* queue is what the list calls queued, and every crop that is linked is served.
THEOREM CropsAreServed == ~DiskFull => (Spec => []StoredViewsHaveCrops)
<1>. DEFINE CInv == CropsOfDrafts /\ CropsOfRows
<1>1. Init => CInv
  BY DEF Init, CropsOfDrafts, CropsOfRows, Absent
<1>2. ASSUME ~DiskFull, CInv, StoreInv, [Next]_vars
      PROVE  CInv'
  <2>. USE DEF StoreInv, TypeOK, GoTo
  <2>1. ASSUME NEW t \in Requests, NEW r \in Reads, NEW text \in MaybePlate,
               NEW queued \in BOOLEAN, NEW V \in SUBSET Views, NEW W \in SUBSET Views,
               SaveCrops(t, r, text, queued, V, W)
        PROVE  CInv'
    <3>1. /\ W = V /\ crops' = crops \cup {<<r, v>> : v \in W} /\ row' = row
          /\ draft'[t].read = r /\ draft'[t].new.views = V
          /\ \A u \in Requests : u # t => draft'[u] = draft[u] /\ pc'[u] = pc[u]
      BY <1>2, <2>1 DEF SaveCrops, NewRow
    <3>2. CropsOfDrafts'
      BY <1>2, <3>1 DEF CropsOfDrafts
    <3>3. CropsOfRows'
      BY <1>2, <3>1 DEF CropsOfRows
    <3>. QED  BY <3>2, <3>3
  <2>2. ASSUME NEW t \in Requests, SaveCommit(t)
        PROVE  CInv'
    <3>1. /\ crops' = crops /\ draft[t].read \in Reads
          /\ \A q \in Reads : row'[q] = IF q = draft[t].read THEN draft[t].new ELSE row[q]
          /\ \A v \in draft[t].new.views : <<draft[t].read, v>> \in crops
      BY <1>2, <2>2 DEF SaveCommit, CropsOfDrafts, DraftsAgree
    <3>2. \A u \in Requests : pc'[u] = "save" => pc[u] = "save" /\ draft'[u] = draft[u]
      BY <1>2, <2>2 DEF SaveCommit
    <3>3. CropsOfDrafts'
      BY <1>2, <3>1, <3>2 DEF CropsOfDrafts
    <3>4. CropsOfRows'
      BY <1>2, <3>1 DEF CropsOfRows
    <3>. QED  BY <3>3, <3>4
  <2>3. ASSUME NEW t \in Requests, Decide(t)
        PROVE  CInv'
    <3>1. \A u \in Requests : pc'[u] = "save" => pc[u] = "save" /\ draft'[u] = draft[u]
      BY <1>2, <2>3 DEF Decide, DecideLoad, DecideCommit
    <3>2. crops' = crops /\ \A r \in Reads : row'[r].views = row[r].views
      BY <1>2, <2>3 DEF Decide, DecideLoad, DecideCommit, Flushed
    <3>. QED  BY <1>2, <3>1, <3>2, CropsStay
  <2>4. ASSUME NEW t \in Requests, Export(t)
        PROVE  CInv'
    <3>1. \A u \in Requests : pc'[u] = "save" => pc[u] = "save" /\ draft'[u] = draft[u]
      BY <1>2, <2>4 DEF Export, ExportStart, ExportSelect, ExportCopy, ExportOpen, ExportAppend,
                        ExportCommit
    <3>2. crops' = crops
      BY <2>4 DEF Export, ExportStart, ExportSelect, ExportCopy, ExportOpen, ExportAppend, ExportCommit
    <3>3. \A r \in Reads : row'[r].views = row[r].views
      <4>1. CASE ExportCommit(t)
        BY <1>2, <4>1 DEF ExportCommit, DbRow
      <4>2. CASE ~ExportCommit(t)
        BY <2>4, <4>2 DEF Export, ExportStart, ExportSelect, ExportCopy, ExportOpen, ExportAppend
      <4>. QED  BY <4>1, <4>2
    <3>. QED  BY <1>2, <3>1, <3>2, <3>3, CropsStay
  <2>5. ASSUME NEW t \in Requests, Abort(t)
        PROVE  CInv'
    <3>1. \A u \in Requests : pc'[u] = "save" => pc[u] = "save" /\ draft'[u] = draft[u]
      BY <1>2, <2>5 DEF Abort
    <3>2. crops' = crops /\ row' = row
      BY <2>5 DEF Abort
    <3>. QED  BY <1>2, <3>1, <3>2, CropsStay
  <2>6. CASE UNCHANGED vars
    BY <1>2, <2>6, CropsStay DEF vars
  <2>. QED  BY <1>2, <2>1, <2>2, <2>3, <2>4, <2>5, <2>6 DEF Next, Save
<1>3. StoreInv /\ CInv => StoredViewsHaveCrops
  <2>. SUFFICES ASSUME StoreInv, CInv PROVE StoredViewsHaveCrops
    OBVIOUS
  <2>1. ListReads({"queued"}) = ReviewQueue
    BY DEF ListReads, ReviewQueue, StoreInv, TablesAgree
  <2>. QED  BY <2>1 DEF CropsOfRows, StoredViewsHaveCrops, ListReads, CropLinks, CropIsServed
<1>. SUFFICES ASSUME ~DiskFull PROVE Spec => []StoredViewsHaveCrops
  OBVIOUS
<1>4. StoreInv /\ CInv /\ [Next]_vars => CInv'
  BY <1>2
<1>. HIDE DEF CInv
<1>. QED  BY <1>1, <1>3, <1>4, StoreInvariant, PTL DEF Spec

-----------------------------------------------------------------------------
\* An append leaves what labels.csv had at its beginning.
LEMMA AppendedPrefix ==
  ASSUME csv \in Seq(Chunk), NEW header \in BOOLEAN, NEW rows \in SUBSET Label,
         csv' = Appended(header, rows)
  PROVE  Len(csv) <= Len(csv') /\ SubSeq(csv', 1, Len(csv)) = csv
<1>1. CASE csv' = csv
  BY <1>1
<1>2. CASE csv' # csv
  <2>. DEFINE c == [header |-> header, rows |-> rows]
  <2>1. csv' = Append(csv, c)
    BY <1>2 DEF Appended
  <2>2. c \in Chunk
    BY DEF Chunk
  <2>. HIDE DEF c
  <2>. QED  BY <2>1, <2>2
<1>. QED  BY <1>1, <1>2

\* Nothing is taken back by any step of any request, nor when one is given up: a
\* save is of a read that has no row, a decision of one that stays decided.
THEOREM NothingIsTakenBack == Spec => NothingTakenBack
<1>. DEFINE Grows == Len(csv) <= Len(csv') /\ SubSeq(csv', 1, Len(csv)) = csv
            Keeps == \A r \in Reads :
                       /\ row[r].exported => row'[r].exported
                       /\ row[r].status = "reviewed" => row'[r].status = "reviewed"
<1>1. ASSUME StoreInv, UNCHANGED csv PROVE Grows
  BY <1>1 DEF StoreInv, TypeOK
<1>2. ASSUME StoreInv, [Next]_vars PROVE Grows
  <2>1. ASSUME NEW t \in Requests, ExportAppend(t) PROVE Grows
    <3>1. batch[t].newFile \in BOOLEAN /\ batch[t].rows \in SUBSET Label
      BY <1>2 DEF StoreInv, TypeOK, Batch
    <3>. QED  BY <1>2, <2>1, <3>1, AppendedPrefix DEF ExportAppend, StoreInv, TypeOK
  <2>2. ASSUME NEW t \in Requests, Abort(t) PROVE Grows
    <3>1. batch[t].newFile \in BOOLEAN /\ batch[t].rows \in SUBSET Label
      BY <1>2 DEF StoreInv, TypeOK, Batch
    <3>2. CASE UNCHANGED csv
      BY <1>1, <1>2, <3>2
    <3>3. ASSUME NEW rows \in SUBSET batch[t].rows, csv' = Appended(batch[t].newFile, rows)
          PROVE  Grows
      BY <1>2, <3>1, <3>3, AppendedPrefix DEF StoreInv, TypeOK
    <3>. QED  BY <2>2, <3>2, <3>3 DEF Abort
  <2>3. CASE UNCHANGED csv
    BY <1>1, <1>2, <2>3
  <2>. QED  BY <1>2, <2>1, <2>2, <2>3
       DEF Next, Save, SaveCrops, SaveCommit, Decide, DecideLoad, DecideCommit, Export, ExportStart,
           ExportSelect, ExportCopy, ExportOpen, ExportCommit, vars
<1>3. ASSUME StoreInv, [Next]_vars PROVE Keeps
  <2>. SUFFICES ASSUME NEW r \in Reads
                PROVE  /\ row[r].exported => row'[r].exported
                       /\ row[r].status = "reviewed" => row'[r].status = "reviewed"
    OBVIOUS
  <2>1. ASSUME NEW t \in Requests, SaveCommit(t), r = draft[t].read
        PROVE  ~row[r].exported /\ row[r].status # "reviewed"
    BY <1>3, <2>1 DEF SaveCommit, StoreInv, DraftsAgree, TablesAgree
  <2>2. ASSUME NEW t \in Requests, SaveCommit(t), r # draft[t].read
        PROVE  row'[r] = row[r]
    BY <1>3, <2>2 DEF SaveCommit, StoreInv, TypeOK
  <2>3. ASSUME NEW t \in Requests, DecideCommit(t)
        PROVE  row'[r].exported = row[r].exported
               /\ (row[r].status = "reviewed" => row'[r].status = "reviewed")
    <3>1. draft[t].new.status = "reviewed"
      BY <1>3, <2>3 DEF DecideCommit, StoreInv, DraftsAgree
    <3>. QED  BY <1>3, <2>3, <3>1 DEF DecideCommit, Flushed, StoreInv, TypeOK
  <2>4. ASSUME NEW t \in Requests, ExportCommit(t)
        PROVE  row'[r].status = row[r].status /\ (row[r].exported => row'[r].exported)
    BY <1>3, <2>4 DEF ExportCommit, StoreInv, TypeOK, DbRow
  <2>5. CASE UNCHANGED row
    BY <2>5
  <2>. QED  BY <1>3, <2>1, <2>2, <2>3, <2>4, <2>5
       DEF Next, Save, SaveCrops, Decide, DecideLoad, Export, ExportStart, ExportSelect, ExportCopy,
           ExportOpen, ExportAppend, Abort, vars
<1>4. StoreInv /\ [Next]_vars => [Grows /\ Keeps]_<<csv, row>>
  BY <1>2, <1>3
<1>. QED  BY <1>4, StoreInvariant, PTL DEF Spec, NothingTakenBack
-----------------------------------------------------------------------------
(***************************************************************************)
(* The file feeds the validator when requests come one at a time and none  *)
(* fails.  An export then appends the rows of items that no earlier export *)
(* has answered for, and knows whether the file it fills is new.  An       *)
(* export that is repeated after a failure, or overlaps another, does not  *)
(* (ReviewStore_retry, and README).                                        *)
(***************************************************************************)
OneAtATime == \A t, u \in Requests : t = u

\* labels.csv is empty only before an export has filled it, and an export that
\* has not yet appended knows which of the two it is.
FileMatches ==
  /\ (\A t \in Requests : pc[t] # "append") => (csvExists <=> csv # <<>>)
  /\ \A t \in Requests : pc[t] \in {"select", "copy", "open", "append"} =>
       (batch[t].newFile <=> csv = <<>>)
  /\ \A t \in Requests : pc[t] = "append" => csvExists

\* A label's item is exported or about to be; what an export is about to append
\* is about items that are not.
LabelsAnswered ==
  /\ \A l \in Labels : \/ row[l.read].exported
                       \/ \E t \in Requests : pc[t] = "commit" /\ l.read \in Picked(t)
  /\ \A t \in Requests : pc[t] \in {"copy", "open", "append"} =>
       \A r \in Picked(t) : ~row[r].exported
  /\ \A t \in Requests : pc[t] \in {"open", "append"} =>
       \A l \in batch[t].rows : l.read \in Picked(t)

PlatesGiven == \A r \in Reads : decided[r] \subseteq Plates

FileInv == HeaderIsFirst /\ EachCropOnce /\ FileMatches /\ LabelsAnswered /\ PlatesGiven

\* A step that leaves the file, the batch and the exports alone.
LEMMA FileIsLeftAlone ==
  ASSUME OneAtATime, FileInv, StoreInv, NEW t \in Requests,
         UNCHANGED <<csv, csvExists, batch>>,
         pc[t] \notin ExportPcs, pc'[t] \notin ExportPcs,
         \A l \in Labels : row[l.read].exported => row'[l.read].exported,
         PlatesGiven'
  PROVE  FileInv'
<1>0. \A u \in Requests : u = t
  BY DEF OneAtATime
<1>1. Labels' = Labels /\ HeaderIsFirst' /\ EachCropOnce'
  BY DEF Labels, FileInv, HeaderIsFirst, EachCropOnce
<1>2. FileMatches'
  BY <1>0 DEF FileInv, FileMatches, ExportPcs
<1>3. LabelsAnswered'
  BY <1>0, <1>1 DEF FileInv, LabelsAnswered, ExportPcs
<1>. QED  BY <1>1, <1>2, <1>3 DEF FileInv

\* The append puts the column names first and repeats no crop.
LEMMA AppendKeepsFile ==
  ASSUME OneAtATime, FileInv, StoreInv, NEW t \in Requests, ExportAppend(t)
  PROVE  FileInv'
<1>. DEFINE h == batch[t].newFile
            rows == batch[t].rows
<1>0. /\ \A u \in Requests : u = t
      /\ pc[t] = "append" /\ pc'[t] = "commit" /\ UNCHANGED <<row, batch, decided, csvExists>>
      /\ csv' = Appended(h, rows) /\ csv \in Seq(Chunk) /\ Len(csv) \in Nat
      /\ h \in BOOLEAN /\ rows \in SUBSET Label
  BY DEF OneAtATime, ExportAppend, GoTo, StoreInv, TypeOK, Batch
<1>1. /\ h <=> csv = <<>>
      /\ \A l \in rows : l.read \in Picked(t) /\ ~row[l.read].exported
      /\ \A l \in Labels : row[l.read].exported
  BY <1>0 DEF FileInv, FileMatches, LabelsAnswered
<1>. HIDE DEF h, rows
<1>2. Labels' = Labels \cup rows
  BY <1>0, AppendedLabels
<1>3. csv' # <<>> /\ HeaderIsFirst' /\ EachCropOnce'
  <2>1. CASE ~h /\ rows = {}
    <3>1. csv' = csv
      BY <1>0, <2>1 DEF Appended
    <3>. QED  BY <1>1, <2>1, <3>1 DEF FileInv, HeaderIsFirst, EachCropOnce
  <2>2. CASE ~(~h /\ rows = {})
    <3>. DEFINE c == [header |-> h, rows |-> rows]
                n == Len(csv) + 1
    <3>1. c \in Chunk /\ c.rows = rows /\ c.header = h
      BY <1>0 DEF Chunk
    <3>2. csv' = Append(csv, c)
      BY <1>0, <2>2 DEF Appended
    <3>. HIDE DEF c
    <3>3. /\ DOMAIN csv = 1 .. Len(csv) /\ DOMAIN csv' = 1 .. n
          /\ \A i \in 1 .. Len(csv) : csv'[i] = csv[i]
          /\ csv'[n] = c /\ Len(csv') = n
      BY <1>0, <3>1, <3>2
    <3>4. csv' # <<>>
      BY <1>0, <3>1, <3>2
    <3>5. csv = <<>> <=> n = 1
      BY <1>0
    <3>6. \A i \in 1 .. n : i \in 1 .. Len(csv) \/ i = n
      BY <1>0
    <3>. HIDE DEF n
    <3>7. HeaderIsFirst'
      <4>1. ASSUME NEW i \in 1 .. n PROVE csv'[i].header <=> i = 1
        <5>1. CASE i = n
          BY <1>1, <3>1, <3>3, <3>5, <5>1
        <5>2. CASE i \in 1 .. Len(csv)
          BY <3>3, <5>2 DEF FileInv, HeaderIsFirst
        <5>. QED  BY <3>6, <5>1, <5>2
      <4>. QED  BY <3>3, <4>1 DEF HeaderIsFirst
    <3>8. EachCropOnce'
      <4>1. ASSUME NEW i \in 1 .. Len(csv), NEW a \in csv[i].rows, NEW b \in rows
            PROVE  a.read # b.read
        <5>1. a \in Labels
          BY <3>3 DEF Labels
        <5>. QED  BY <1>1, <5>1
      <4>2. ASSUME NEW i \in 1 .. n, NEW j \in 1 .. n, i # j,
                   NEW a \in csv'[i].rows, NEW b \in csv'[j].rows,
                   a.read = b.read, a.view = b.view
            PROVE  FALSE
        <5>1. CASE i = n
          <6>1. j \in 1 .. Len(csv) /\ b \in csv[j].rows /\ a \in rows
            BY <3>1, <3>3, <3>6, <4>2, <5>1
          <6>. QED  BY <4>1, <4>2, <6>1
        <5>2. CASE j = n
          <6>1. i \in 1 .. Len(csv) /\ a \in csv[i].rows /\ b \in rows
            BY <3>1, <3>3, <3>6, <4>2, <5>2
          <6>. QED  BY <4>1, <4>2, <6>1
        <5>3. CASE i # n /\ j # n
          BY <3>3, <3>6, <4>2, <5>3 DEF FileInv, EachCropOnce
        <5>. QED  BY <5>1, <5>2, <5>3
      <4>. QED  BY <3>3, <4>2 DEF EachCropOnce
    <3>. QED  BY <3>4, <3>7, <3>8
  <2>. QED  BY <2>1, <2>2
<1>4. csvExists
  BY <1>0 DEF FileInv, FileMatches
<1>5. FileMatches'
  BY <1>0, <1>3, <1>4 DEF FileMatches
<1>6. LabelsAnswered'
  <2>1. \A r : r \in Picked(t)' <=> r \in Picked(t)
    BY <1>0 DEF Picked
  <2>. QED  BY <1>0, <1>1, <1>2, <2>1 DEF LabelsAnswered
<1>. QED  BY <1>0, <1>3, <1>5, <1>6 DEF FileInv, PlatesGiven

\* The steps of an export before and after its append.
LEMMA ExportKeepsFile ==
  ASSUME OneAtATime, FileInv, StoreInv, NEW t \in Requests, Export(t)
  PROVE  FileInv'
<1>0. /\ \A u \in Requests : u = t
      /\ row \in [Reads -> DbRow] /\ csv \in Seq(Chunk)
      /\ pc' = [pc EXCEPT ![t] = pc'[t]] /\ DOMAIN pc = Requests
      /\ batch \in [Requests -> Batch] /\ UNCHANGED decided
  BY DEF OneAtATime, StoreInv, TypeOK, Export, ExportStart, ExportSelect, ExportCopy, ExportOpen,
         ExportAppend, ExportCommit, GoTo
<1>p. PlatesGiven'
  BY <1>0 DEF FileInv, PlatesGiven
<1>c. UNCHANGED csv => Labels' = Labels /\ HeaderIsFirst' /\ EachCropOnce'
  BY DEF Labels, FileInv, HeaderIsFirst, EachCropOnce
<1>r. \A l \in Labels : l.read \in Reads
  BY <1>0, LabelsAreTyped DEF Label
<1>1. CASE ExportStart(t)
  <2>1. /\ pc[t] = "idle" /\ pc'[t] = "select" /\ UNCHANGED <<row, csv, csvExists>>
        /\ batch'[t].newFile = ~csvExists
    <3>. DEFINE b == [NoBatch EXCEPT !.newFile = ~csvExists]
    <3>1. b.newFile = ~csvExists
      BY DEF NoBatch
    <3>2. batch' = [batch EXCEPT ![t] = b]
      BY <1>1 DEF ExportStart
    <3>. HIDE DEF b
    <3>3. batch'[t] = b
      BY <1>0, <3>2
    <3>. QED  BY <1>0, <1>1, <3>1, <3>3 DEF ExportStart, GoTo
  <2>2. FileMatches'
    BY <1>0, <2>1 DEF FileInv, FileMatches
  <2>3. LabelsAnswered'
    BY <1>0, <1>c, <2>1 DEF FileInv, LabelsAnswered
  <2>. QED  BY <1>c, <1>p, <2>1, <2>2, <2>3 DEF FileInv
<1>2. CASE ExportSelect(t)
  <2>1. /\ pc[t] = "select" /\ pc'[t] = "copy" /\ UNCHANGED <<row, csv, csvExists>>
        /\ batch'[t].newFile = batch[t].newFile
        /\ \A r \in Reads : batch'[t].picked[r] = IF Ready(r) THEN row[r].plate ELSE NoPlate
    BY <1>0, <1>2 DEF ExportSelect, GoTo, Batch, LabelOf
  <2>2. FileMatches'
    BY <1>0, <2>1 DEF FileInv, FileMatches
  <2>3. \A r \in Picked(t)' : ~row[r].exported
    BY <2>1 DEF Picked, Ready
  <2>4. LabelsAnswered'
    BY <1>0, <1>c, <2>1, <2>3 DEF FileInv, LabelsAnswered
  <2>. QED  BY <1>c, <1>p, <2>1, <2>2, <2>4 DEF FileInv
<1>3. CASE ExportCopy(t)
  <2>1. /\ pc[t] = "copy" /\ pc'[t] = "open" /\ UNCHANGED <<row, csv, csvExists>>
        /\ batch'[t].newFile = batch[t].newFile /\ batch'[t].picked = batch[t].picked
        /\ batch'[t].rows = {[read |-> c[1], view |-> c[2], plate |-> batch[t].picked[c[1]]] :
                               c \in CropsToCopy(t)}
    BY <1>0, <1>3 DEF ExportCopy, GoTo, Batch
  <2>2. FileMatches'
    BY <1>0, <2>1 DEF FileInv, FileMatches
  <2>3. Picked(t)' = Picked(t)
    BY <2>1 DEF Picked
  <2>4. \A l \in batch'[t].rows : l.read \in Picked(t)
    BY <2>1 DEF CropsToCopy
  <2>5. LabelsAnswered'
    BY <1>0, <1>c, <2>1, <2>3, <2>4 DEF FileInv, LabelsAnswered
  <2>. QED  BY <1>c, <1>p, <2>1, <2>2, <2>5 DEF FileInv
<1>4. CASE ExportOpen(t)
  <2>1. /\ pc[t] = "open" /\ pc'[t] = "append" /\ UNCHANGED <<row, csv, batch>> /\ csvExists'
    BY <1>0, <1>4 DEF ExportOpen, GoTo
  <2>2. FileMatches'
    BY <1>0, <2>1 DEF FileInv, FileMatches
  <2>3. Picked(t)' = Picked(t)
    BY <2>1 DEF Picked
  <2>4. LabelsAnswered'
    BY <1>0, <1>c, <2>1, <2>3 DEF FileInv, LabelsAnswered
  <2>. QED  BY <1>c, <1>p, <2>1, <2>2, <2>4 DEF FileInv
<1>5. CASE ExportCommit(t)
  <2>1. /\ pc[t] = "commit" /\ pc'[t] = "idle" /\ UNCHANGED <<csv, csvExists>>
    BY <1>0, <1>5 DEF ExportCommit, GoTo
  <2>2. ASSUME NEW r \in Reads, row[r].exported \/ r \in Picked(t) PROVE row'[r].exported
    BY <1>0, <1>5, <2>2 DEF ExportCommit, DbRow
  <2>3. FileMatches'
    BY <1>0, <2>1 DEF FileInv, FileMatches
  <2>4. LabelsAnswered'
    BY <1>0, <1>c, <1>r, <2>1, <2>2 DEF FileInv, LabelsAnswered
  <2>. QED  BY <1>c, <1>p, <2>1, <2>3, <2>4 DEF FileInv
<1>. QED  BY <1>1, <1>2, <1>3, <1>4, <1>5, AppendKeepsFile DEF Export

LEMMA FileInvStep ==
  ASSUME OneAtATime, ~Faults, FileInv, StoreInv, [Next]_vars
  PROVE  FileInv'
<1>0. /\ row \in [Reads -> DbRow] /\ DOMAIN pc = Requests /\ DOMAIN decided = Reads
      /\ \A l \in Labels : l.read \in Reads
      /\ PlatesGiven
  BY LabelsAreTyped DEF StoreInv, TypeOK, FileInv, Label
<1>1. ASSUME NEW t \in Requests, Save(t) PROVE FileInv'
  <2>1. UNCHANGED <<csv, csvExists, batch, decided>>
    BY <1>1 DEF Save, SaveCrops, SaveCommit
  <2>2. pc[t] \notin ExportPcs /\ pc'[t] \notin ExportPcs
    BY <1>0, <1>1 DEF Save, SaveCrops, SaveCommit, GoTo, ExportPcs
  <2>3. ASSUME NEW r \in Reads, row[r].exported PROVE row'[r].exported
    <3>1. CASE UNCHANGED row
      BY <2>3, <3>1
    <3>2. CASE SaveCommit(t)
      <4>1. row[draft[t].read].status = "absent" /\ draft[t].read \in Reads
        BY <3>2 DEF SaveCommit, StoreInv, DraftsAgree
      <4>2. draft[t].read # r
        BY <2>3, <4>1 DEF StoreInv, TablesAgree
      <4>. QED  BY <1>0, <2>3, <3>2, <4>2 DEF SaveCommit
    <3>. QED  BY <1>1, <3>1, <3>2 DEF Save, SaveCrops
  <2>4. PlatesGiven'
    BY <1>0, <2>1 DEF PlatesGiven
  <2>. QED  BY <1>0, <2>1, <2>2, <2>3, <2>4, FileIsLeftAlone
<1>2. ASSUME NEW t \in Requests, Decide(t) PROVE FileInv'
  <2>1. UNCHANGED <<csv, csvExists, batch>>
    BY <1>2 DEF Decide, DecideLoad, DecideCommit
  <2>2. pc[t] \notin ExportPcs /\ pc'[t] \notin ExportPcs
    BY <1>0, <1>2 DEF Decide, DecideLoad, DecideCommit, GoTo, ExportPcs
  <2>3. CASE DecideCommit(t)
    <3>1. draft[t].read \in Reads /\ draft[t].new.plate \in Plates
      BY <2>3 DEF DecideCommit, StoreInv, DraftsAgree
    <3>2. ASSUME NEW r \in Reads, row[r].exported PROVE row'[r].exported
      BY <1>0, <2>3, <3>1, <3>2 DEF DecideCommit, Flushed
    <3>3. PlatesGiven'
      BY <1>0, <2>3, <3>1 DEF DecideCommit, PlatesGiven
    <3>. QED  BY <1>0, <2>1, <2>2, <3>2, <3>3, FileIsLeftAlone
  <2>4. CASE UNCHANGED <<row, decided>>
    <3>1. PlatesGiven'
      BY <1>0, <2>4 DEF PlatesGiven
    <3>. QED  BY <1>0, <2>1, <2>2, <2>4, <3>1, FileIsLeftAlone
  <2>. QED  BY <1>2, <2>3, <2>4 DEF Decide, DecideLoad
<1>3. CASE UNCHANGED vars
  <2>1. Labels' = Labels /\ HeaderIsFirst' /\ EachCropOnce' /\ PlatesGiven' /\ FileMatches'
    BY <1>3 DEF vars, Labels, FileInv, HeaderIsFirst, EachCropOnce, PlatesGiven, FileMatches
  <2>2. LabelsAnswered'
    BY <1>3, <2>1 DEF vars, FileInv, LabelsAnswered, Picked
  <2>. QED  BY <2>1, <2>2 DEF FileInv
<1>. QED  BY <1>1, <1>2, <1>3, ExportKeepsFile DEF Next, Abort

\* For any reads, views, plates and length of the file: requests that come one at
\* a time and do not fail leave a labels.csv that the validator accepts (export,
\* validate_ocr_csv).
THEOREM FileValidates == OneAtATime /\ ~Faults => (Spec => []Validates)
<1>. SUFFICES ASSUME OneAtATime, ~Faults PROVE Spec => []Validates
  OBVIOUS
<1>1. Init => FileInv
  <2>. SUFFICES ASSUME Init PROVE FileInv
    OBVIOUS
  <2>1. csv = <<>> /\ DOMAIN csv = {} /\ Labels = {}
    BY DEF Init, Labels
  <2>2. HeaderIsFirst /\ EachCropOnce
    BY <2>1 DEF HeaderIsFirst, EachCropOnce
  <2>3. FileMatches /\ LabelsAnswered /\ PlatesGiven
    BY <2>1 DEF Init, FileMatches, LabelsAnswered, PlatesGiven
  <2>. QED  BY <2>2, <2>3 DEF FileInv
<1>2. StoreInv /\ FileInv /\ [Next]_vars => FileInv'
  BY FileInvStep
<1>3. StoreInv /\ FileInv => Validates
  <2>. SUFFICES ASSUME StoreInv, FileInv, \A t \in Requests : pc[t] # "append", csvExists
       PROVE  OcrErrors = {}
    BY DEF Validates
  <2>1. csv # <<>> /\ csv \in Seq(Chunk)
    BY DEF FileInv, FileMatches, StoreInv, TypeOK
  <2>2. 1 \in DOMAIN csv
    BY <2>1
  <2>3. csv[1].header
    BY <2>2 DEF FileInv, HeaderIsFirst
  <2>4. \A l \in Labels : l.read \in Reads
    BY <2>1, LabelsAreTyped DEF Label
  <2>5. \A l \in Labels : <<l.read, l.view>> \in files /\ l.plate \in Plates
    BY <2>4 DEF StoreInv, LabelsHaveFiles, LabelsWereDecided, FileInv, PlatesGiven
  <2>6. PlateErrors = {}
    BY <2>5 DEF PlateErrors
  <2>. QED  BY <2>1, <2>3, <2>5, <2>6 DEF OcrErrors, FileInv
<1>. QED  BY <1>1, <1>2, <1>3, StoreInvariant, PTL DEF Spec
=============================================================================
