----------------------------- MODULE ClientsProofs -----------------------------
(***************************************************************************)
(* Proofs about the four clients: the window has one run at a time, the    *)
(* Jobs page never shows its job going back, the preview of a drag is what *)
(* the drop does, and a quiet session of the browser has settled, for any  *)
(* numbers of threads, jobs, requests, photos and calls.                   *)
(***************************************************************************)
EXTENDS MCClients, Integers, Sequences, TLAPS

(***************************************************************************)
(* The window.  OneRunAtATime is not inductive: a thread that is about to  *)
(* answer must know that no other answer waits, and that the selection has *)
(* not changed since it began to read.  GInv says so; what keeps it is     *)
(* that both buttons are off from the start of a run until its outcome is  *)
(* handled.                                                                *)
(***************************************************************************)
Running == {w \in Workers : worker[w] # Gui!NoThread}

OneThread == \A w, v \in Running : w = v

OneOutcome == \A i, k \in Gui!Unhandled : i = k

\* A thread says how its run ended once, and ends.
EndsOnce == Running = {} \/ Gui!Unhandled = {}

Busy == Running # {} \/ Gui!Unhandled # {} => buttons = {}

ReadsTheSelection ==
  /\ \A w \in Workers : worker[w].pc = "reading" => worker[w].files = selection
  /\ \A i \in Gui!Unhandled : messages[i].kind = "result" => messages[i].files = selection

GInv == Gui!TypeOK /\ OneThread /\ OneOutcome /\ EndsOnce /\ Busy /\ ReadsTheSelection

-----------------------------------------------------------------------------
Message == [kind : {"log", "result", "error"}, files : Selections \cup {Nothing}]

\* What the queue holds, as it grows and shrinks.
LEMMA QueueTypes ==
  ASSUME messages \in Seq(Message)
  PROVE  /\ \A m \in Message : Append(messages, m) \in Seq(Message)
         /\ messages # <<>> => Head(messages) \in Message /\ Tail(messages) \in Seq(Message)
  OBVIOUS

LEMMA TypesKept == Gui!TypeOK /\ [Gui!Next]_Gui!vars => Gui!TypeOK'
<1>. SUFFICES ASSUME Gui!TypeOK, [Gui!Next]_Gui!vars PROVE Gui!TypeOK'
  OBVIOUS
<1>0. messages \in Seq(Message)
  BY DEF Gui!TypeOK, Message
<1>. USE DEF Gui!TypeOK, Gui!Buttons, Gui!NoThread
<1>1. CASE \E files \in Selections : Gui!ChooseFiles(files)
  BY <1>1 DEF Gui!ChooseFiles
<1>2. CASE \E w \in Workers : Gui!StartRun(w)
  BY <1>2 DEF Gui!StartRun, Gui!SetBusy
<1>3. ASSUME NEW w \in Workers, Gui!Run(w) PROVE Gui!TypeOK'
  <2>0. ASSUME NEW engine \in {"detector", "backend"}, NEW next \in {"backend", "read"},
               Gui!Load(w, engine, next)
        PROVE  Gui!TypeOK'
    <3>1. [kind |-> "log", files |-> Nothing] \in Message
      BY DEF Message
    <3>2. messages' \in Seq(Message)
      BY <2>0, <3>1, <1>0, QueueTypes DEF Gui!Load, Gui!Put
    <3>3. engines' \subseteq {"detector", "backend"}
      BY <2>0 DEF Gui!Load
    <3>4. worker' \in [Workers -> [pc : {"none", "detector", "backend", "read", "reading"},
                                   files : Selections \cup {Nothing}]]
      BY <2>0 DEF Gui!Load
    <3>. QED  BY <2>0, <3>2, <3>3, <3>4 DEF Gui!Load, Message
  <2>1. CASE Gui!Load(w, "detector", "backend")
    BY <2>1, <2>0
  <2>2. CASE Gui!Load(w, "backend", "read")
    BY <2>2, <2>0
  <2>3. CASE Gui!ReadImages(w)
    BY <2>3 DEF Gui!ReadImages
  <2>4. CASE Gui!Result(w)
    <3>1. [kind |-> "result", files |-> worker[w].files] \in Message
      BY DEF Message
    <3>2. messages' \in Seq(Message)
      BY <2>4, <3>1, <1>0, QueueTypes DEF Gui!Result, Gui!Put
    <3>. QED  BY <2>4, <3>2 DEF Gui!Result, Message
  <2>5. CASE Gui!Error(w)
    <3>1. [kind |-> "error", files |-> Nothing] \in Message
      BY DEF Message
    <3>2. messages' \in Seq(Message)
      BY <2>5, <3>1, <1>0, QueueTypes DEF Gui!Error, Gui!Put
    <3>. QED  BY <2>5, <3>2 DEF Gui!Error, Message
  <2>. QED  BY <1>3, <2>1, <2>2, <2>3, <2>4, <2>5 DEF Gui!Run
<1>4. CASE Gui!Window
  <2>1. CASE Gui!DrainQueue
    BY <2>1 DEF Gui!DrainQueue
  <2>2. CASE Gui!Handle
    <3>1. messages' \in Seq(Message) /\ Head(messages) \in Message
      BY <2>2, <1>0, QueueTypes DEF Gui!Handle
    <3>2. /\ buttons' \subseteq Gui!Buttons
          /\ shown' \in Selections \cup {Nothing}
      BY <2>2, <3>1 DEF Gui!Handle, Gui!SetBusy, Message
    <3>. QED  BY <2>2, <3>1, <3>2 DEF Gui!Handle, Message
  <2>3. CASE Gui!Drained
    BY <2>3 DEF Gui!Drained
  <2>. QED  BY <1>4, <2>1, <2>2, <2>3 DEF Gui!Window
<1>5. CASE UNCHANGED Gui!vars
  BY <1>5 DEF Gui!vars
<1>. QED  BY <1>1, <1>2, <1>3, <1>4, <1>5 DEF Gui!Next

\* What a message that is no outcome, or none, leaves as it was.
LEMMA QueueGrows ==
  ASSUME Gui!TypeOK, NEW m \in Message, messages' = Append(messages, m)
  PROVE  /\ m.kind \in Gui!Ends => Gui!Unhandled' = Gui!Unhandled \cup {Len(messages) + 1}
         /\ m.kind \notin Gui!Ends => Gui!Unhandled' = Gui!Unhandled
         /\ messages'[Len(messages) + 1] = m
<1>1. messages \in Seq(Message)
  BY DEF Gui!TypeOK, Message
<1>2. /\ DOMAIN messages' = DOMAIN messages \cup {Len(messages) + 1}
      /\ Len(messages) + 1 \notin DOMAIN messages
      /\ \A i \in DOMAIN messages : messages'[i] = messages[i]
      /\ messages'[Len(messages) + 1] = m
  BY <1>1
<1>. QED  BY <1>2 DEF Gui!Unhandled

LEMMA QueueShrinks ==
  ASSUME Gui!TypeOK, messages # <<>>, messages' = Tail(messages)
  PROVE  /\ \A i \in Gui!Unhandled' : i + 1 \in Gui!Unhandled /\ messages'[i] = messages[i + 1]
              /\ i \in Nat \ {0}
         /\ Head(messages).kind \in Gui!Ends =>
              1 \in Gui!Unhandled /\ Head(messages) = messages[1]
<1>1. messages \in Seq(Message)
  BY DEF Gui!TypeOK, Message
<1>2. /\ \A i \in DOMAIN Tail(messages) :
           i \in Nat \ {0} /\ i + 1 \in DOMAIN messages /\ Tail(messages)[i] = messages[i + 1]
      /\ 1 \in DOMAIN messages /\ Head(messages) = messages[1]
  BY <1>1
<1>. QED  BY <1>2 DEF Gui!Unhandled

LEMMA StartKeeps ==
  ASSUME GInv, NEW w \in Workers, Gui!StartRun(w)
  PROVE  OneThread' /\ OneOutcome' /\ EndsOnce' /\ Busy' /\ ReadsTheSelection'
<1>1. buttons # {} /\ Running = {} /\ Gui!Unhandled = {} /\ Gui!Unhandled' = {}
  BY DEF GInv, Busy, Gui!StartRun, Gui!Unhandled
<1>2. Running' \subseteq {w}
  BY <1>1 DEF Gui!StartRun, Running, GInv, Gui!TypeOK, Gui!NoThread
<1>3. buttons' = {}
  BY DEF Gui!StartRun, Gui!SetBusy
<1>4. \A v \in Workers : worker'[v].pc # "reading"
  BY <1>1 DEF Gui!StartRun, Running, GInv, Gui!TypeOK, Gui!NoThread
<1>. QED  BY <1>1, <1>2, <1>3, <1>4 DEF OneThread, OneOutcome, EndsOnce, Busy, ReadsTheSelection

LEMMA RunKeeps ==
  ASSUME GInv, NEW w \in Workers, Gui!Run(w)
  PROVE  OneThread' /\ OneOutcome' /\ EndsOnce' /\ Busy' /\ ReadsTheSelection'
<1>1. /\ worker[w].pc # "none" /\ w \in Running /\ Gui!Unhandled = {} /\ buttons = {}
      /\ Running = {w} /\ UNCHANGED <<buttons, selection>>
      /\ \A v \in Workers : v # w => worker'[v] = worker[v] /\ worker[v] = Gui!NoThread
  <2>1. worker[w].pc # "none" /\ UNCHANGED <<buttons, selection>>
    BY DEF Gui!Run, Gui!Load, Gui!ReadImages, Gui!Result, Gui!Error
  <2>2. w \in Running
    BY <2>1 DEF Running, Gui!NoThread
  <2>3. Gui!Unhandled = {} /\ buttons = {} /\ Running = {w}
    BY <2>2 DEF GInv, OneThread, EndsOnce, Busy
  <2>4. \A v \in Workers : v # w => worker'[v] = worker[v]
    BY DEF Gui!Run, Gui!Load, Gui!ReadImages, Gui!Result, Gui!Error, GInv, Gui!TypeOK
  <2>5. \A v \in Workers : v # w => worker[v] = Gui!NoThread
    BY <2>3 DEF Running
  <2>. QED  BY <2>1, <2>2, <2>3, <2>4, <2>5
<1>2. Running' \subseteq {w}
  BY <1>1 DEF Running
<1>3. \A v \in Workers : v # w => worker'[v].pc # "reading"
  BY <1>1 DEF Gui!NoThread
<1>4. CASE Gui!Load(w, "detector", "backend") \/ Gui!Load(w, "backend", "read")
  <2>1. worker'[w].pc # "reading"
    BY <1>4 DEF Gui!Load, GInv, Gui!TypeOK
  <2>2. Gui!Unhandled' = {}
    <3>1. CASE UNCHANGED messages
      BY <3>1, <1>1 DEF Gui!Unhandled
    <3>2. CASE Gui!Put("log", Nothing)
      <4>1. [kind |-> "log", files |-> Nothing] \in Message
        BY DEF Message
      <4>. QED  BY <3>2, <4>1, <1>1, QueueGrows DEF GInv, Gui!Ends, Gui!Put
    <3>. QED  BY <3>1, <3>2, <1>4 DEF Gui!Load
  <2>. QED  BY <1>1, <1>2, <1>3, <2>1, <2>2 DEF OneThread, OneOutcome, EndsOnce, Busy, ReadsTheSelection
<1>5. CASE Gui!ReadImages(w)
  <2>1. worker'[w].files = selection
    BY <1>5 DEF Gui!ReadImages, GInv, Gui!TypeOK
  <2>2. Gui!Unhandled' = {}
    BY <1>5, <1>1 DEF Gui!ReadImages, Gui!Unhandled
  <2>. QED  BY <1>1, <1>2, <1>3, <2>1, <2>2 DEF OneThread, OneOutcome, EndsOnce, Busy, ReadsTheSelection
<1>6. CASE Gui!Result(w)
  <2>1. worker'[w] = Gui!NoThread /\ Gui!Put("result", worker[w].files)
    BY <1>6 DEF Gui!Result, GInv, Gui!TypeOK
  <2>2. Running' = {}
    BY <1>2, <2>1 DEF Running
  <2>3. worker[w].files = selection /\ worker[w].files \in Selections \cup {Nothing}
    BY <1>6 DEF Gui!Result, GInv, ReadsTheSelection, Gui!TypeOK
  <2>4. /\ Gui!Unhandled' = {Len(messages) + 1}
        /\ messages'[Len(messages) + 1].files = selection
    <3>1. [kind |-> "result", files |-> worker[w].files] \in Message
      BY <2>3 DEF Message
    <3>. QED  BY <1>1, <2>1, <2>3, <3>1, QueueGrows DEF GInv, Gui!Ends, Gui!Put
  <2>5. worker'[w].pc # "reading"
    BY <2>1 DEF Gui!NoThread
  <2>. QED  BY <1>1, <1>3, <2>2, <2>4, <2>5 DEF OneThread, OneOutcome, EndsOnce, Busy, ReadsTheSelection
<1>7. CASE Gui!Error(w)
  <2>1. worker'[w] = Gui!NoThread /\ Gui!Put("error", Nothing)
    BY <1>7 DEF Gui!Error, GInv, Gui!TypeOK
  <2>2. Running' = {}
    BY <1>2, <2>1 DEF Running
  <2>3. /\ Gui!Unhandled' = {Len(messages) + 1}
        /\ messages'[Len(messages) + 1].kind = "error"
    <3>1. [kind |-> "error", files |-> Nothing] \in Message
      BY DEF Message
    <3>. QED  BY <1>1, <2>1, <3>1, QueueGrows DEF GInv, Gui!Ends, Gui!Put
  <2>4. worker'[w].pc # "reading"
    BY <2>1 DEF Gui!NoThread
  <2>. QED  BY <1>1, <1>3, <2>2, <2>3, <2>4 DEF OneThread, OneOutcome, EndsOnce, Busy, ReadsTheSelection
<1>. QED  BY <1>4, <1>5, <1>6, <1>7 DEF Gui!Run

LEMMA HandleKeeps ==
  ASSUME GInv, Gui!Handle
  PROVE  OneThread' /\ OneOutcome' /\ EndsOnce' /\ Busy' /\ ReadsTheSelection'
<1>1. /\ messages # <<>> /\ messages' = Tail(messages)
      /\ UNCHANGED <<selection, worker>> /\ Gui!TypeOK
  BY DEF Gui!Handle, GInv
<1>2. Running' = Running /\ OneThread' /\ \A w \in Workers : worker'[w] = worker[w]
  BY <1>1 DEF Running, GInv, OneThread
<1>3. \A i \in Gui!Unhandled' : i + 1 \in Gui!Unhandled /\ messages'[i] = messages[i + 1] /\ i \in Nat \ {0}
  BY <1>1, QueueShrinks
<1>4. OneOutcome'
  BY <1>3 DEF OneOutcome, GInv, Gui!Unhandled
<1>5. EndsOnce'
  BY <1>2, <1>3 DEF EndsOnce, GInv
<1>6. ReadsTheSelection'
  BY <1>1, <1>2, <1>3 DEF ReadsTheSelection, GInv
<1>7. Busy'
  <2>1. CASE Head(messages).kind = "log"
    <3>1. buttons' = buttons
      BY <2>1 DEF Gui!Handle
    <3>. QED  BY <3>1, <1>2, <1>3 DEF Busy, GInv
  <2>2. CASE Head(messages).kind # "log"
    <3>1. Head(messages) \in Message
      BY <1>1, QueueTypes DEF Gui!TypeOK, Message
    <3>2. 1 \in Gui!Unhandled
      BY <1>1, <2>2, <3>1, QueueShrinks DEF Gui!Ends, Message
    <3>3. Running' = {}
      BY <1>2, <3>2 DEF GInv, EndsOnce
    <3>4. Gui!Unhandled' = {}
      <4>1. \A i \in Gui!Unhandled' : FALSE
        BY <1>3, <3>2 DEF GInv, OneOutcome
      <4>. QED  BY <4>1
    <3>. QED  BY <3>3, <3>4 DEF Busy
  <2>. QED  BY <2>1, <2>2
<1>. QED  BY <1>2, <1>4, <1>5, <1>6, <1>7

\* The steps of the window that touch neither a thread nor a message.
LEMMA OthersKeep ==
  ASSUME GInv,
         UNCHANGED <<worker, messages>>,
         Running # {} \/ Gui!Unhandled # {} => UNCHANGED <<selection, buttons>>
  PROVE  OneThread' /\ OneOutcome' /\ EndsOnce' /\ Busy' /\ ReadsTheSelection'
<1>1. Running' = Running /\ Gui!Unhandled' = Gui!Unhandled
  BY DEF Running, Gui!Unhandled
<1>2. \A w \in Workers : worker[w].pc = "reading" => w \in Running
  BY DEF Running, Gui!NoThread
<1>. QED  BY <1>1, <1>2 DEF GInv, OneThread, OneOutcome, EndsOnce, Busy, ReadsTheSelection

\* One run at a time, whatever is pressed, loaded or raised, and what is shown
\* next was read from the files that are selected.
THEOREM OneRunOnly == Gui!Spec => []OneRunAtATime
<1>1. Gui!Init => GInv
  <2>. SUFFICES ASSUME Gui!Init PROVE GInv
    OBVIOUS
  <2>1. Gui!TypeOK
    <3>1. messages \in Seq(Message)
      BY DEF Gui!Init
    <3>. QED  BY <3>1 DEF Gui!Init, Gui!TypeOK, Gui!Buttons, Gui!NoThread, Message
  <2>2. Running = {} /\ Gui!Unhandled = {}
    BY DEF Gui!Init, Running, Gui!Unhandled
  <2>. QED  BY <2>1, <2>2 DEF Gui!Init, GInv, OneThread, OneOutcome, EndsOnce, Busy, ReadsTheSelection, Gui!NoThread
<1>2. GInv /\ [Gui!Next]_Gui!vars => GInv'
  <2>. SUFFICES ASSUME GInv, [Gui!Next]_Gui!vars
                PROVE  OneThread' /\ OneOutcome' /\ EndsOnce' /\ Busy' /\ ReadsTheSelection'
    BY TypesKept DEF GInv
  <2>1. CASE \E files \in Selections : Gui!ChooseFiles(files)
    <3>1. buttons # {} /\ UNCHANGED <<worker, messages>>
      BY <2>1 DEF Gui!ChooseFiles
    <3>2. Running = {} /\ Gui!Unhandled = {}
      BY <3>1 DEF GInv, Busy
    <3>. QED  BY <3>1, <3>2, OthersKeep
  <2>2. CASE \E w \in Workers : Gui!StartRun(w)
    BY <2>2, StartKeeps
  <2>3. CASE \E w \in Workers : Gui!Run(w)
    BY <2>3, RunKeeps
  <2>4. CASE Gui!Handle
    BY <2>4, HandleKeeps
  <2>5. CASE Gui!DrainQueue \/ Gui!Drained \/ UNCHANGED Gui!vars
    BY <2>5, OthersKeep DEF Gui!DrainQueue, Gui!Drained, Gui!vars
  <2>. QED  BY <2>1, <2>2, <2>3, <2>4, <2>5 DEF Gui!Next, Gui!Window
<1>3. GInv => OneRunAtATime
  BY DEF GInv, OneThread, Busy, ReadsTheSelection, OneRunAtATime, Gui!OneRunAtATime, Running
<1>. QED  BY <1>1, <1>2, <1>3, PTL DEF Gui!Spec
-----------------------------------------------------------------------------
(***************************************************************************)
(* The Jobs page: what is shown of a followed job never goes back.  Lists  *)
(* and events travel as long as they like, so the argument is about age:   *)
(* everything on the page or on its way is behind the row of the service,  *)
(* whose rows only go forward (JobLifecycle), and the events of the stream *)
(* that is open are not behind what is shown.                              *)
(***************************************************************************)
Statuses == {"none", "queued", "running", "finished", "failed"}
RowState == [status : Statuses, progress : Nat]
Event == [event : {"progress", "done"}, row : RowState]
Request == [pc : {"idle", "list", "listed", "post", "created", "posted"},
            job : Jobs \cup {JobsPage!Nobody}, row : RowState, rows : [Jobs -> RowState]]

RowsTyped == jobStatus \in [Jobs -> Statuses] /\ progress \in [Jobs -> 0 .. Complete]

PageTyped ==
  /\ list \in [Jobs -> RowState]
  /\ selected \in [job : Jobs \cup {JobsPage!Nobody}, row : RowState]
  /\ source \in Jobs \cup {JobsPage!Nobody}
  /\ stream \in [last : RowState, wire : Seq(Event)]

RequestsTyped == pending \in [Requests -> Request]

\* One state of a job is behind another, or the same.
Behind(a, b) == JobsPage!Stage(a) <= JobsPage!Stage(b) /\ a.progress <= b.progress

ListIsOld == \A j \in Jobs : Behind(list[j], JobsPage!Row(j))

\* And a request that creates a job knows which.
RequestIsOld(q) ==
  /\ q.pc \in {"post", "created", "posted"} => q.job \in Jobs
  /\ \A j \in Jobs : Behind(q.rows[j], JobsPage!Row(j))
  /\ \A j \in Jobs : q.job = j => Behind(q.row, JobsPage!Row(j))

RequestsAreOld == \A r \in Requests : RequestIsOld(pending[r])

\* The events under way come from one look at the row.
Follows(j) ==
  /\ selected.job = j /\ Behind(selected.row, JobsPage!Row(j))
  /\ \A i \in DOMAIN stream.wire :
       /\ Behind(selected.row, stream.wire[i].row)
       /\ Behind(stream.wire[i].row, JobsPage!Row(j))
       /\ \A k \in DOMAIN stream.wire : stream.wire[k].row = stream.wire[i].row

FollowsOne ==
  /\ source = JobsPage!Nobody => stream.wire = <<>>
  /\ \A j \in Jobs : source = j /\ j # JobsPage!Nobody => Follows(j)

PageInv ==
  /\ RowsTyped /\ PageTyped /\ RequestsTyped
  /\ ListIsOld /\ RequestsAreOld /\ FollowsOne

LEMMA BehindItself == ASSUME NEW a \in RowState PROVE Behind(a, a)
BY DEF Behind, JobsPage!Stage, RowState

LEMMA BehindBoth ==
  ASSUME NEW a \in RowState, NEW b \in RowState, NEW c \in RowState, Behind(a, b), Behind(b, c)
  PROVE  Behind(a, c)
<1>1. JobsPage!Stage(a) \in 0 .. 3 /\ JobsPage!Stage(b) \in 0 .. 3 /\ JobsPage!Stage(c) \in 0 .. 3
  BY DEF JobsPage!Stage
<1>2. a.progress \in Nat /\ b.progress \in Nat /\ c.progress \in Nat
  BY DEF RowState
<1>. HIDE DEF RowState
<1>. QED  BY <1>1, <1>2 DEF Behind

LEMMA AbsentIsOld ==
  /\ JobsPage!Absent \in RowState
  /\ \A b \in RowState : Behind(JobsPage!Absent, b)
<1>1. JobsPage!Absent \in RowState
  BY DEF JobsPage!Absent, RowState, Statuses
<1>2. ASSUME NEW b \in RowState PROVE Behind(JobsPage!Absent, b)
  <2>1. JobsPage!Stage(b) \in 0 .. 3 /\ b.progress \in Nat
    BY DEF JobsPage!Stage, RowState
  <2>2. JobsPage!Stage(JobsPage!Absent) = 0 /\ JobsPage!Absent.progress = 0
    BY DEF JobsPage!Stage, JobsPage!Absent
  <2>. QED  BY <2>1, <2>2 DEF Behind
<1>. QED  BY <1>1, <1>2

LEMMA RowIsTyped ==
  ASSUME RowsTyped, NEW j \in Jobs
  PROVE  JobsPage!Row(j) \in RowState
BY CompleteAssumption DEF RowsTyped, JobsPage!Row, RowState

\* A request that asks for nothing, or for the list, carries nothing newer.
LEMMA NothingIsOld ==
  ASSUME RowsTyped, NEW q \in Request,
         q.pc \in {"post", "created", "posted"} => q.job \in Jobs,
         q.rows = [j \in Jobs |-> JobsPage!Absent],
         \A j \in Jobs : q.job = j => Behind(q.row, JobsPage!Row(j))
  PROVE  RequestIsOld(q)
<1>1. \A j \in Jobs : Behind(q.rows[j], JobsPage!Row(j))
  BY RowIsTyped, AbsentIsOld
<1>. QED  BY <1>1 DEF RequestIsOld

\* The rows of the service go forward.
LEMMA RowsGoForward ==
  ASSUME RowsTyped, JobsPage!Service!Next
  PROVE  RowsTyped' /\ \A j \in Jobs : Behind(JobsPage!Row(j), JobsPage!Row(j)')
<1>. USE CompleteAssumption
<1>1. PICK i \in Jobs :
        \/ JobsPage!Service!Create(i) \/ JobsPage!Service!Start(i) \/ JobsPage!Service!Advance(i)
        \/ JobsPage!Service!Finish(i) \/ JobsPage!Service!Fail(i)
  BY DEF JobsPage!Service!Next
<1>2. /\ RowsTyped'
      /\ \A j \in Jobs : j # i => jobStatus'[j] = jobStatus[j] /\ progress'[j] = progress[j]
      /\ progress[i] \in Nat /\ progress'[i] \in Nat /\ progress[i] <= progress'[i]
      /\ \/ jobStatus[i] = "none" /\ jobStatus'[i] = "queued"
         \/ jobStatus[i] = "queued" /\ jobStatus'[i] = "running"
         \/ jobStatus[i] = "running" /\ jobStatus'[i] \in {"running", "finished"}
         \/ jobStatus[i] \in {"queued", "running"} /\ jobStatus'[i] = "failed"
  <2>1. CASE JobsPage!Service!Create(i) \/ JobsPage!Service!Start(i) \/ JobsPage!Service!Fail(i)
    BY <2>1 DEF JobsPage!Service!Create, JobsPage!Service!Start, JobsPage!Service!Fail,
                JobsPage!Service!Becomes, RowsTyped, Statuses
  <2>2. CASE JobsPage!Service!Advance(i)
    BY <2>2 DEF JobsPage!Service!Advance, JobsPage!Service!Becomes, RowsTyped, Statuses
  <2>3. CASE JobsPage!Service!Finish(i)
    BY <2>3 DEF JobsPage!Service!Finish, JobsPage!Service!Becomes, RowsTyped, Statuses
  <2>. QED  BY <1>1, <2>1, <2>2, <2>3
<1>3. ASSUME NEW j \in Jobs PROVE Behind(JobsPage!Row(j), JobsPage!Row(j)')
  <2>1. CASE j = i
    BY <1>2, <2>1 DEF Behind, JobsPage!Stage, JobsPage!Row
  <2>2. CASE j # i
    <3>1. JobsPage!Row(j)' = JobsPage!Row(j)
      BY <1>2, <2>2 DEF JobsPage!Row
    <3>. QED  BY <3>1, RowIsTyped, BehindItself
  <2>. QED  BY <2>1, <2>2
<1>. QED  BY <1>2, <1>3

RowsForward == \A j \in Jobs : Behind(JobsPage!Row(j), JobsPage!Row(j)')

LEMMA RowsStay ==
  ASSUME RowsTyped, UNCHANGED <<jobStatus, progress>>
  PROVE  RowsTyped' /\ RowsForward
<1>1. \A j \in Jobs : JobsPage!Row(j)' = JobsPage!Row(j)
  BY DEF JobsPage!Row
<1>. QED  BY <1>1, RowIsTyped, BehindItself DEF RowsForward, RowsTyped

\* What was behind a row stays behind it.
LEMMA OlderStill ==
  ASSUME RowsTyped, RowsTyped', RowsForward, NEW j \in Jobs, NEW a \in RowState,
         Behind(a, JobsPage!Row(j))
  PROVE  Behind(a, JobsPage!Row(j)')
<1>1. JobsPage!Row(j) \in RowState /\ Behind(JobsPage!Row(j), JobsPage!Row(j)')
  BY RowIsTyped DEF RowsForward
<1>2. JobsPage!Row(j)' \in RowState
  BY CompleteAssumption DEF RowsTyped, JobsPage!Row, RowState
<1>. QED  BY <1>1, <1>2, BehindBoth

LEMMA ListKept ==
  ASSUME PageInv, RowsTyped', RowsForward, UNCHANGED list
  PROVE  ListIsOld'
<1>. SUFFICES ASSUME NEW j \in Jobs PROVE Behind(list[j], JobsPage!Row(j)')
  BY DEF ListIsOld
<1>1. list[j] \in RowState /\ Behind(list[j], JobsPage!Row(j)) /\ RowsTyped
  BY DEF PageInv, PageTyped, ListIsOld
<1>. QED  BY <1>1, OlderStill

LEMMA FollowKept ==
  ASSUME PageInv, RowsTyped', RowsForward, UNCHANGED <<selected, source, stream>>
  PROVE  FollowsOne'
<1>1. source = JobsPage!Nobody => stream.wire = <<>>
  BY DEF PageInv, FollowsOne
<1>2. ASSUME NEW j \in Jobs, source = j, j # JobsPage!Nobody PROVE Follows(j)'
  <2>1. Follows(j) /\ RowsTyped
    BY <1>2 DEF PageInv, FollowsOne
  <2>2. selected.row \in RowState /\ stream.wire \in Seq(Event)
    BY DEF PageInv, PageTyped
  <2>3. Behind(selected.row, JobsPage!Row(j)')
    BY <2>1, <2>2, OlderStill DEF Follows
  <2>4. ASSUME NEW i \in DOMAIN stream.wire
        PROVE  Behind(stream.wire[i].row, JobsPage!Row(j)')
    <3>1. stream.wire[i] \in Event
      BY <2>2
    <3>2. stream.wire[i].row \in RowState
      BY <3>1 DEF Event
    <3>. QED  BY <2>1, <3>2, OlderStill DEF Follows
  <2>. QED  BY <2>1, <2>3, <2>4 DEF Follows
<1>. QED  BY <1>1, <1>2 DEF FollowsOne

\* One request gets a new content, nothing newer than the rows.
LEMMA Answering ==
  ASSUME PageInv, UNCHANGED <<jobStatus, progress>>, NEW r \in Requests, NEW q \in Request,
         RequestIsOld(q), pending' = [pending EXCEPT ![r] = q]
  PROVE  RequestsTyped' /\ RequestsAreOld'
<1>1. RequestsTyped'
  BY DEF PageInv, RequestsTyped
<1>2. ASSUME NEW s \in Requests PROVE RequestIsOld(pending'[s])
  <2>1. CASE s = r
    BY <2>1 DEF PageInv, RequestsTyped
  <2>2. CASE s # r
    BY <2>2 DEF PageInv, RequestsTyped, RequestsAreOld
  <2>. QED  BY <2>1, <2>2
<1>3. \A j \in Jobs : JobsPage!Row(j)' = JobsPage!Row(j)
  BY DEF JobsPage!Row
<1>. QED  BY <1>1, <1>2, <1>3 DEF RequestsAreOld, RequestIsOld

\* No request is under way.
LEMMA IdleRecord ==
  /\ JobsPage!Idle \in Request /\ JobsPage!Idle.pc = "idle"
  /\ JobsPage!Idle.job = JobsPage!Nobody /\ JobsPage!Idle.row = JobsPage!Absent
  /\ JobsPage!Idle.rows = [j \in Jobs |-> JobsPage!Absent]
<1>1. [j \in Jobs |-> JobsPage!Absent] \in [Jobs -> RowState] /\ JobsPage!Absent \in RowState
  BY AbsentIsOld
<1>. QED  BY <1>1 DEF JobsPage!Idle, Request

LEMMA IdleIsOld ==
  ASSUME PageInv
  PROVE  JobsPage!Idle \in Request /\ RequestIsOld(JobsPage!Idle)
<1>1. /\ JobsPage!Absent \in RowState
      /\ \A j \in Jobs : Behind(JobsPage!Absent, JobsPage!Row(j))
  BY AbsentIsOld, RowIsTyped DEF PageInv
<1>. QED  BY <1>1, IdleRecord, NothingIsOld DEF PageInv

\* refresh() and submit() ask for the list.
LEMMA AskingForTheList ==
  ASSUME PageInv, UNCHANGED <<jobStatus, progress>>, NEW r \in Requests,
         NEW job \in Jobs \cup {JobsPage!Nobody}, NEW row \in RowState,
         \A j \in Jobs : job = j => Behind(row, JobsPage!Row(j)),
         JobsPage!Ask(r, job, row)
  PROVE  RequestsTyped' /\ RequestsAreOld'
<1>. DEFINE q == [JobsPage!Idle EXCEPT !.pc = "list", !.job = job, !.row = row]
<1>1. /\ q \in Request /\ q.pc = "list" /\ q.job = job /\ q.row = row
      /\ q.rows = [j \in Jobs |-> JobsPage!Absent]
  BY IdleRecord DEF Request
<1>2. pending' = [pending EXCEPT ![r] = q]
  BY DEF JobsPage!Ask
<1>. HIDE DEF q
<1>3. RequestIsOld(q)
  BY <1>1, NothingIsOld DEF PageInv
<1>. QED  BY <1>1, <1>2, <1>3, Answering

LEMMA AskingForNobody ==
  ASSUME PageInv, UNCHANGED <<jobStatus, progress>>, NEW r \in Requests,
         JobsPage!Ask(r, JobsPage!Nobody, JobsPage!Absent)
  PROVE  RequestsTyped' /\ RequestsAreOld'
<1>1. /\ JobsPage!Absent \in RowState
      /\ \A j \in Jobs : Behind(JobsPage!Absent, JobsPage!Row(j))
  BY AbsentIsOld, RowIsTyped DEF PageInv
<1>. QED  BY <1>1, AskingForTheList

\* A job is shown, and its events are awaited unless it ended.
LEMMA FollowingAnew ==
  ASSUME PageInv, UNCHANGED <<jobStatus, progress>>, NEW job \in Jobs, NEW row \in RowState,
         Behind(row, JobsPage!Row(job)), JobsPage!Followed(job, row)
  PROVE  /\ selected' \in [job : Jobs \cup {JobsPage!Nobody}, row : RowState]
         /\ source' \in Jobs \cup {JobsPage!Nobody}
         /\ stream' \in [last : RowState, wire : Seq(Event)]
         /\ FollowsOne'
<1>1. stream' = [last |-> JobsPage!Absent, wire |-> <<>>]
  BY DEF JobsPage!Followed, JobsPage!NoStream
<1>2. stream' \in [last : RowState, wire : Seq(Event)] /\ stream'.wire = <<>>
  BY <1>1, AbsentIsOld
<1>3. selected' = [job |-> job, row |-> row] /\ source' \in {JobsPage!Nobody, job}
  BY DEF JobsPage!Followed
<1>4. selected'.job = job /\ selected'.row = row
  BY <1>3
<1>5. JobsPage!Row(job)' = JobsPage!Row(job)
  BY DEF JobsPage!Row
<1>6. Follows(job)'
  BY <1>2, <1>4, <1>5 DEF Follows
<1>. QED  BY <1>2, <1>3, <1>6 DEF FollowsOne

\* The stream is closed.
LEMMA Stopping ==
  ASSUME PageInv, JobsPage!Stopped
  PROVE  /\ source' \in Jobs \cup {JobsPage!Nobody}
         /\ stream' \in [last : RowState, wire : Seq(Event)]
         /\ FollowsOne'
<1>1. stream' = [last |-> JobsPage!Absent, wire |-> <<>>] /\ source' = JobsPage!Nobody
  BY DEF JobsPage!Stopped, JobsPage!NoStream
<1>2. stream' \in [last : RowState, wire : Seq(Event)] /\ stream'.wire = <<>>
  BY <1>1, AbsentIsOld
<1>. QED  BY <1>1, <1>2 DEF FollowsOne

-----------------------------------------------------------------------------
\* The service's own steps, and the one that creates a job for a request.
LEMMA ServiceKeeps ==
  ASSUME PageInv, JobsPage!ServiceStep \/ \E r \in Requests : JobsPage!ServeCreate(r)
  PROVE  PageInv'
<1>0. /\ RowsTyped /\ RequestsTyped /\ PageTyped
      /\ \A r \in Requests : pending[r] \in Request /\ RequestIsOld(pending[r])
  BY DEF PageInv, RequestsTyped, RequestsAreOld
<1>1. JobsPage!Service!Next /\ UNCHANGED <<list, selected, source, stream>>
  <2>1. CASE JobsPage!ServiceStep
    BY <2>1 DEF JobsPage!ServiceStep, JobsPage!page
  <2>2. ASSUME NEW r \in Requests, JobsPage!ServeCreate(r)
        PROVE  JobsPage!Service!Next /\ UNCHANGED <<list, selected, source, stream>>
    <3>1. JobsPage!Service!Create(pending[r].job) /\ pending[r].pc = "post"
      BY <2>2 DEF JobsPage!ServeCreate
    <3>2. pending[r].job \in Jobs
      BY <1>0, <2>2, <3>1 DEF RequestIsOld
    <3>. QED  BY <2>2, <3>1, <3>2 DEF JobsPage!ServeCreate, JobsPage!page, JobsPage!Service!Next
  <2>. QED  BY <2>1, <2>2
<1>2. RowsTyped' /\ RowsForward
  BY <1>0, <1>1, RowsGoForward DEF RowsForward
<1>3. /\ pending' \in [Requests -> Request]
      /\ \A r \in Requests : /\ pending'[r].rows = pending[r].rows
                             /\ pending'[r].job = pending[r].job
                             /\ pending'[r].row = pending[r].row
                             /\ \/ pending'[r].pc = pending[r].pc
                                \/ pending[r].pc = "post"
  <2>1. CASE UNCHANGED pending
    BY <1>0, <2>1 DEF RequestsTyped
  <2>2. ASSUME NEW r \in Requests, JobsPage!ServeCreate(r) PROVE <1>3
    <3>1. pending' = [pending EXCEPT ![r].pc = "created"] /\ pending[r].pc = "post"
      BY <2>2 DEF JobsPage!ServeCreate
    <3>. QED  BY <1>0, <3>1 DEF RequestsTyped, Request
  <2>. QED  BY <2>1, <2>2 DEF JobsPage!ServiceStep
<1>4. ASSUME NEW r \in Requests PROVE RequestIsOld(pending[r])'
  <2>1. pending[r] \in Request /\ RequestIsOld(pending[r])
    BY <1>0
  <2>2. \A j \in Jobs : pending[r].rows[j] \in RowState /\ pending[r].row \in RowState
    BY <2>1 DEF Request
  <2>3. \A j \in Jobs : Behind(pending[r].rows[j], JobsPage!Row(j)')
    BY <1>0, <1>2, <2>1, <2>2, OlderStill DEF RequestIsOld
  <2>4. \A j \in Jobs : pending[r].job = j => Behind(pending[r].row, JobsPage!Row(j)')
    BY <1>0, <1>2, <2>1, <2>2, OlderStill DEF RequestIsOld
  <2>. QED  BY <1>3, <2>1, <2>3, <2>4 DEF RequestIsOld
<1>5. ListIsOld' /\ FollowsOne'
  BY <1>1, <1>2, ListKept, FollowKept
<1>6. PageTyped'
  BY <1>0, <1>1 DEF PageTyped
<1>. QED  BY <1>2, <1>3, <1>4, <1>5, <1>6 DEF PageInv, RequestsTyped, RequestsAreOld

\* The other steps of requests that leave the page as it is.
LEMMA RequestsKeep ==
  ASSUME PageInv, NEW r \in Requests,
         \/ JobsPage!Refresh(r) \/ JobsPage!ServeList(r) \/ JobsPage!ServeCreated(r)
         \/ JobsPage!Posted(r) \/ JobsPage!PostFails(r)
         \/ \E j \in Jobs : JobsPage!Submit(r, j)
  PROVE  PageInv'
<1>0. /\ RowsTyped /\ PageTyped /\ pending \in [Requests -> Request]
      /\ pending[r] \in Request /\ RequestIsOld(pending[r])
      /\ UNCHANGED <<jobStatus, progress, list, selected, source, stream>>
  BY DEF PageInv, RequestsTyped, RequestsAreOld, JobsPage!Refresh, JobsPage!ServeList,
         JobsPage!ServeCreated, JobsPage!Posted, JobsPage!PostFails, JobsPage!Submit, JobsPage!page
<1>1. RowsTyped' /\ RowsForward
  BY <1>0, RowsStay
<1>2. PageTyped' /\ ListIsOld' /\ FollowsOne'
  BY <1>0, <1>1, ListKept, FollowKept DEF PageTyped
<1>3. CASE JobsPage!Refresh(r)
  BY <1>0, <1>1, <1>2, <1>3, AskingForNobody DEF JobsPage!Refresh, PageInv
<1>4. CASE JobsPage!ServeList(r)
  <2>. DEFINE now == [j \in Jobs |-> JobsPage!Row(j)]
              q == [pending[r] EXCEPT !.pc = "listed", !.rows = now]
  <2>1. now \in [Jobs -> RowState] /\ \A j \in Jobs : Behind(now[j], JobsPage!Row(j))
    BY <1>0, RowIsTyped, BehindItself
  <2>2. pending' = [pending EXCEPT ![r] = q]
    BY <1>0, <1>4 DEF JobsPage!ServeList
  <2>. HIDE DEF now
  <2>3. q \in Request /\ q.pc = "listed" /\ q.rows = now /\ q.job = pending[r].job
        /\ q.row = pending[r].row
    BY <1>0, <2>1 DEF Request
  <2>. HIDE DEF q
  <2>4. RequestIsOld(q)
    BY <1>0, <2>1, <2>3 DEF RequestIsOld
  <2>. QED  BY <1>0, <1>1, <1>2, <2>2, <2>3, <2>4, Answering DEF PageInv
<1>5. CASE JobsPage!ServeCreated(r)
  <2>. DEFINE now == JobsPage!Row(pending[r].job)
              q == [pending[r] EXCEPT !.pc = "posted", !.row = now]
  <2>0. pending[r].job \in Jobs
    BY <1>0, <1>5 DEF JobsPage!ServeCreated, RequestIsOld
  <2>1. now \in RowState /\ Behind(now, JobsPage!Row(pending[r].job))
    BY <1>0, <2>0, RowIsTyped, BehindItself
  <2>2. pending' = [pending EXCEPT ![r] = q]
    BY <1>0, <1>5 DEF JobsPage!ServeCreated
  <2>. HIDE DEF now
  <2>3. q \in Request /\ q.pc = "posted" /\ q.rows = pending[r].rows /\ q.job = pending[r].job
        /\ q.row = now
    BY <1>0, <2>1 DEF Request
  <2>. HIDE DEF q
  <2>4. RequestIsOld(q)
    BY <1>0, <2>0, <2>1, <2>3 DEF RequestIsOld
  <2>. QED  BY <1>0, <1>1, <1>2, <2>2, <2>3, <2>4, Answering DEF PageInv
<1>6. CASE JobsPage!Posted(r)
  <2>1. JobsPage!Ask(r, pending[r].job, pending[r].row)
    BY <1>6 DEF JobsPage!Posted
  <2>2. pending[r].job \in Jobs \cup {JobsPage!Nobody} /\ pending[r].row \in RowState
    BY <1>0 DEF Request
  <2>3. RequestsTyped' /\ RequestsAreOld'
    BY <1>0, <2>1, <2>2, AskingForTheList DEF RequestIsOld
  <2>. QED  BY <1>1, <1>2, <2>3 DEF PageInv
<1>7. CASE JobsPage!PostFails(r)
  <2>1. RequestsTyped' /\ RequestsAreOld'
    BY <1>0, <1>7, IdleIsOld, Answering DEF JobsPage!PostFails
  <2>. QED  BY <1>1, <1>2, <2>1 DEF PageInv
<1>8. ASSUME NEW j \in Jobs, JobsPage!Submit(r, j) PROVE PageInv'
  <2>. DEFINE q == [JobsPage!Idle EXCEPT !.pc = "post", !.job = j]
  <2>1. /\ q \in Request /\ q.pc = "post" /\ q.job = j /\ q.row = JobsPage!Absent
        /\ q.rows = [i \in Jobs |-> JobsPage!Absent]
    BY IdleRecord DEF Request
  <2>2. pending' = [pending EXCEPT ![r] = q]
    BY <1>8 DEF JobsPage!Submit
  <2>. HIDE DEF q
  <2>3. /\ JobsPage!Absent \in RowState
        /\ \A i \in Jobs : Behind(JobsPage!Absent, JobsPage!Row(i))
    BY <1>0, AbsentIsOld, RowIsTyped
  <2>4. RequestIsOld(q)
    BY <1>0, <2>1, <2>3, NothingIsOld
  <2>5. RequestsTyped' /\ RequestsAreOld'
    BY <1>0, <2>1, <2>2, <2>4, Answering
  <2>. QED  BY <1>1, <1>2, <2>5 DEF PageInv
<1>. QED  BY <1>3, <1>4, <1>5, <1>6, <1>7, <1>8

\* A list arrives, or does not: the page takes its rows, and goes on to follow.
LEMMA ListingKeeps ==
  ASSUME PageInv, NEW r \in Requests, JobsPage!Listed(r) \/ JobsPage!ListFails(r)
  PROVE  PageInv'
<1>. DEFINE q == pending[r]
<1>0. /\ RowsTyped /\ PageTyped /\ pending \in [Requests -> Request]
      /\ q \in Request /\ RequestIsOld(q)
      /\ UNCHANGED <<jobStatus, progress>>
      /\ pending' = [pending EXCEPT ![r] = JobsPage!Idle]
  BY DEF PageInv, RequestsTyped, RequestsAreOld, JobsPage!Listed, JobsPage!ListFails
<1>1. RowsTyped' /\ RowsForward /\ \A j \in Jobs : JobsPage!Row(j)' = JobsPage!Row(j)
  BY <1>0, RowsStay DEF JobsPage!Row
<1>2. RequestsTyped' /\ RequestsAreOld'
  BY <1>0, IdleIsOld, Answering
<1>3. list' \in [Jobs -> RowState] /\ ListIsOld'
  <2>1. CASE UNCHANGED list
    BY <1>0, <1>1, <2>1, ListKept DEF PageTyped
  <2>2. CASE list' = q.rows
    BY <1>0, <1>1, <2>2 DEF Request, RequestIsOld, ListIsOld
  <2>. QED  BY <2>1, <2>2 DEF JobsPage!Listed, JobsPage!ListFails
<1>4. CASE q.job # JobsPage!Nobody
  <2>1. q.job \in Jobs /\ q.row \in RowState /\ Behind(q.row, JobsPage!Row(q.job))
    BY <1>0, <1>4 DEF Request, RequestIsOld
  <2>2. JobsPage!Followed(q.job, q.row)
    BY <1>4 DEF JobsPage!Listed, JobsPage!ListFails
  <2>. HIDE DEF q
  <2>3. /\ selected' \in [job : Jobs \cup {JobsPage!Nobody}, row : RowState]
        /\ source' \in Jobs \cup {JobsPage!Nobody}
        /\ stream' \in [last : RowState, wire : Seq(Event)]
        /\ FollowsOne'
    BY <1>0, <2>1, <2>2, FollowingAnew
  <2>. QED  BY <1>1, <1>2, <1>3, <2>3 DEF PageInv, PageTyped
<1>5. CASE q.job = JobsPage!Nobody
  <2>1. UNCHANGED <<source, stream>>
    BY <1>5 DEF JobsPage!Listed, JobsPage!ListFails
  <2>2. CASE UNCHANGED selected
    <3>1. FollowsOne'
      BY <1>1, <2>1, <2>2, FollowKept
    <3>. QED  BY <1>0, <1>1, <1>2, <1>3, <2>1, <2>2, <3>1 DEF PageInv, PageTyped
  <2>3. CASE selected' # selected
    <3>1. /\ selected' = [selected EXCEPT !.row = q.rows[selected.job]]
          /\ selected.job \in Jobs /\ source = JobsPage!Nobody
      BY <1>5, <2>3 DEF JobsPage!Listed, JobsPage!ListFails, JobsPage!Fresh
    <3>2. selected' \in [job : Jobs \cup {JobsPage!Nobody}, row : RowState]
      BY <1>0, <3>1 DEF PageTyped, Request
    <3>3. FollowsOne'
      BY <2>1, <3>1 DEF PageInv, FollowsOne
    <3>. QED  BY <1>0, <1>1, <1>2, <1>3, <2>1, <3>2, <3>3 DEF PageInv, PageTyped
  <2>. QED  BY <2>2, <2>3
<1>. QED  BY <1>4, <1>5

\* A job of the list is opened, or the page is left.
LEMMA OpeningKeeps ==
  ASSUME PageInv, JobsPage!Unmount \/ \E j \in Jobs : JobsPage!Follow(j)
  PROVE  PageInv'
<1>0. /\ RowsTyped /\ PageTyped /\ RequestsTyped /\ RequestsAreOld /\ ListIsOld
      /\ UNCHANGED <<jobStatus, progress, list, pending>>
  BY DEF PageInv, JobsPage!Unmount, JobsPage!Follow
<1>1. RowsTyped' /\ RowsForward /\ \A j \in Jobs : JobsPage!Row(j)' = JobsPage!Row(j)
  BY <1>0, RowsStay DEF JobsPage!Row
<1>2. RequestsTyped' /\ RequestsAreOld' /\ ListIsOld'
  BY <1>0, <1>1 DEF RequestsTyped, RequestsAreOld, RequestIsOld, ListIsOld
<1>3. CASE JobsPage!Unmount
  <2>1. /\ source' \in Jobs \cup {JobsPage!Nobody}
        /\ stream' \in [last : RowState, wire : Seq(Event)]
        /\ FollowsOne'
    BY <1>3, Stopping DEF JobsPage!Unmount
  <2>. QED  BY <1>0, <1>1, <1>2, <1>3, <2>1 DEF PageInv, PageTyped, JobsPage!Unmount
<1>4. ASSUME NEW j \in Jobs, JobsPage!Follow(j) PROVE PageInv'
  <2>1. list[j] \in RowState /\ Behind(list[j], JobsPage!Row(j))
    BY <1>0 DEF PageTyped, ListIsOld
  <2>2. /\ selected' \in [job : Jobs \cup {JobsPage!Nobody}, row : RowState]
        /\ source' \in Jobs \cup {JobsPage!Nobody}
        /\ stream' \in [last : RowState, wire : Seq(Event)]
        /\ FollowsOne'
    BY <1>0, <1>4, <2>1, FollowingAnew DEF JobsPage!Follow
  <2>. QED  BY <1>0, <1>1, <1>2, <2>2 DEF PageInv, PageTyped
<1>. QED  BY <1>3, <1>4

\* The generator looks at the row of the job that is followed.
LEMMA PollKeeps ==
  ASSUME PageInv, JobsPage!Poll
  PROVE  PageInv'
<1>. DEFINE row == JobsPage!Row(source)
            p == [event |-> "progress", row |-> row]
            d == [event |-> "done", row |-> row]
<1>0. /\ RowsTyped /\ PageTyped /\ RequestsTyped /\ RequestsAreOld /\ ListIsOld
      /\ UNCHANGED <<jobStatus, progress, list, selected, source, pending>>
      /\ source \in Jobs /\ source # JobsPage!Nobody /\ Follows(source)
  BY DEF PageInv, PageTyped, FollowsOne, JobsPage!Poll
<1>1. RowsTyped' /\ RowsForward /\ \A j \in Jobs : JobsPage!Row(j)' = JobsPage!Row(j)
  BY <1>0, RowsStay DEF JobsPage!Row
<1>2. RequestsTyped' /\ RequestsAreOld' /\ ListIsOld'
  BY <1>0, <1>1 DEF RequestsTyped, RequestsAreOld, RequestIsOld, ListIsOld
<1>3. row \in RowState /\ Behind(row, row) /\ Behind(selected.row, row)
  BY <1>0, RowIsTyped, BehindItself DEF Follows
<1>4. PICK c \in {<<>>, <<p>>}, e \in {<<>>, <<d>>} : stream' = [last |-> row, wire |-> c \o e]
  BY Zenon DEF JobsPage!Poll
<1>. HIDE DEF row
<1>5. p \in Event /\ d \in Event /\ p.row = row /\ d.row = row
  BY <1>3 DEF Event
<1>. HIDE DEF p, d
<1>6. stream'.wire \in Seq(Event) /\ \A i \in DOMAIN stream'.wire : stream'.wire[i].row = row
  <2>1. stream'.wire = c \o e
    BY <1>4
  <2>3. c \in Seq(Event) /\ e \in Seq(Event)
    <3>1. <<>> \in Seq(Event) /\ <<p>> \in Seq(Event) /\ <<d>> \in Seq(Event)
      BY <1>5
    <3>. QED  BY <3>1
  <2>2. /\ \A i \in DOMAIN c : c[i].row = row
        /\ \A i \in DOMAIN e : e[i].row = row
    BY <1>5
  <2>. QED  BY <2>1, <2>2, <2>3
<1>7. stream' \in [last : RowState, wire : Seq(Event)]
  BY <1>3, <1>4, <1>6
<1>8. JobsPage!Row(source)' = row
  BY <1>0, <1>1 DEF row
<1>9. FollowsOne'
  BY <1>0, <1>3, <1>6, <1>8 DEF FollowsOne, Follows
<1>. QED  BY <1>0, <1>1, <1>2, <1>7, <1>9 DEF PageInv, PageTyped

\* The event that arrives is between what is shown and the row.
LEMMA NextEvent ==
  ASSUME PageInv, stream.wire # <<>>
  PROVE  /\ source \in Jobs /\ source # JobsPage!Nobody /\ Follows(source)
         /\ Head(stream.wire).row \in RowState
         /\ Behind(selected.row, Head(stream.wire).row)
         /\ Behind(Head(stream.wire).row, JobsPage!Row(source))
<1>1. source \in Jobs /\ source # JobsPage!Nobody /\ Follows(source)
  BY DEF PageInv, PageTyped, FollowsOne
<1>2. stream.wire \in Seq(Event)
  BY DEF PageInv, PageTyped
<1>3. 1 \in DOMAIN stream.wire /\ Head(stream.wire) = stream.wire[1] /\ stream.wire[1] \in Event
  BY <1>2
<1>. QED  BY <1>1, <1>3 DEF Follows, Event

LEMMA ProgressKeeps ==
  ASSUME PageInv, JobsPage!Progress
  PROVE  PageInv'
<1>. DEFINE row == Head(stream.wire).row
<1>0. /\ RowsTyped /\ PageTyped /\ RequestsTyped /\ RequestsAreOld /\ ListIsOld
      /\ UNCHANGED <<jobStatus, progress, source, pending>> /\ stream.wire # <<>>
  BY DEF PageInv, JobsPage!Progress
<1>1. RowsTyped' /\ RowsForward /\ \A j \in Jobs : JobsPage!Row(j)' = JobsPage!Row(j)
  BY <1>0, RowsStay DEF JobsPage!Row
<1>2. RequestsTyped' /\ RequestsAreOld'
  BY <1>0, <1>1 DEF RequestsTyped, RequestsAreOld, RequestIsOld
<1>3. /\ source \in Jobs /\ source # JobsPage!Nobody /\ Follows(source)
      /\ row \in RowState /\ Behind(row, row) /\ Behind(row, JobsPage!Row(source))
  BY <1>0, NextEvent, BehindItself
<1>4. /\ stream.wire \in Seq(Event) /\ Tail(stream.wire) \in Seq(Event)
      /\ stream' \in [last : RowState, wire : Seq(Event)] /\ stream'.wire = Tail(stream.wire)
  <2>1. stream \in [last : RowState, wire : Seq(Event)]
        /\ stream' = [stream EXCEPT !.wire = Tail(stream.wire)]
    BY <1>0 DEF PageTyped, JobsPage!Progress
  <2>2. stream.wire \in Seq(Event)
    BY <2>1
  <2>3. Tail(stream.wire) \in Seq(Event)
    BY <1>0, <2>2
  <2>. DEFINE rest == Tail(stream.wire)
  <2>. HIDE DEF rest
  <2>4. stream' = [stream EXCEPT !.wire = rest] /\ rest \in Seq(Event)
    BY <2>1, <2>3 DEF rest
  <2>5. stream' \in [last : RowState, wire : Seq(Event)] /\ stream'.wire = rest
    BY <2>1, <2>4
  <2>. QED  BY <2>2, <2>3, <2>5 DEF rest
<1>5. \A i \in DOMAIN stream'.wire : stream'.wire[i].row = row
  <2>1. ASSUME NEW i \in DOMAIN Tail(stream.wire)
        PROVE  1 \in DOMAIN stream.wire /\ i + 1 \in DOMAIN stream.wire
               /\ Tail(stream.wire)[i] = stream.wire[i + 1] /\ Head(stream.wire) = stream.wire[1]
    BY <1>0, <1>4
  <2>. QED  BY <1>3, <1>4, <2>1 DEF Follows
<1>6. selected' = [selected EXCEPT !.row = row]
  BY <1>3 DEF JobsPage!Progress, JobsPage!Shown, Follows
<1>7. list' = [list EXCEPT ![source] = IF @ = JobsPage!Absent THEN JobsPage!Absent ELSE row]
  BY DEF JobsPage!Progress
<1>. HIDE DEF row
<1>8. /\ selected' \in [job : Jobs \cup {JobsPage!Nobody}, row : RowState]
      /\ selected'.job = source /\ selected'.row = row
  BY <1>0, <1>3, <1>6 DEF PageTyped, Follows
<1>9. FollowsOne'
  BY <1>0, <1>1, <1>3, <1>5, <1>8 DEF FollowsOne, Follows
<1>10. list' \in [Jobs -> RowState] /\ ListIsOld'
  <2>1. list' \in [Jobs -> RowState]
    BY <1>0, <1>3, <1>7, AbsentIsOld DEF PageTyped
  <2>2. ASSUME NEW j \in Jobs PROVE Behind(list'[j], JobsPage!Row(j))
    <3>1. list'[j] \in {list[j], row} /\ (j # source => list'[j] = list[j])
      BY <1>0, <1>7 DEF PageTyped
    <3>. QED  BY <1>0, <1>3, <3>1 DEF ListIsOld
  <2>. QED  BY <1>1, <2>1, <2>2 DEF ListIsOld
<1>. QED  BY <1>0, <1>1, <1>2, <1>4, <1>8, <1>9, <1>10 DEF PageInv, PageTyped

\* The stream ends, or breaks, and the list is asked for.
LEMMA StreamEndKeeps ==
  ASSUME PageInv, NEW r \in Requests, JobsPage!Done(r) \/ JobsPage!StreamFails(r)
  PROVE  PageInv'
<1>0. /\ RowsTyped /\ PageTyped /\ RequestsTyped /\ RequestsAreOld /\ ListIsOld
      /\ UNCHANGED <<jobStatus, progress, list>> /\ JobsPage!Stopped
      /\ JobsPage!Ask(r, JobsPage!Nobody, JobsPage!Absent)
  BY DEF PageInv, JobsPage!Done, JobsPage!StreamFails
<1>1. RowsTyped' /\ RowsForward
  BY <1>0, RowsStay
<1>2. RequestsTyped' /\ RequestsAreOld' /\ ListIsOld'
  BY <1>0, <1>1, AskingForNobody, ListKept
<1>3. /\ source' \in Jobs \cup {JobsPage!Nobody}
      /\ stream' \in [last : RowState, wire : Seq(Event)]
      /\ FollowsOne'
  BY <1>0, Stopping
<1>4. selected' \in [job : Jobs \cup {JobsPage!Nobody}, row : RowState]
  <2>1. CASE JobsPage!Done(r)
    <3>1. Head(stream.wire).row \in RowState
      BY <2>1, NextEvent DEF JobsPage!Done
    <3>. QED  BY <1>0, <2>1, <3>1 DEF PageTyped, JobsPage!Done, JobsPage!Shown
  <2>2. CASE JobsPage!StreamFails(r)
    BY <1>0, <2>2 DEF PageTyped, JobsPage!StreamFails
  <2>. QED  BY <2>1, <2>2
<1>. QED  BY <1>0, <1>1, <1>2, <1>3, <1>4 DEF PageInv, PageTyped

\* The step itself: what the page shows of the job goes forward.
LEMMA ShownGoesForward ==
  ASSUME PageInv, source # JobsPage!Nobody,
         JobsPage!Progress \/ \E r \in Requests : pending[r].job = JobsPage!Nobody /\ JobsPage!Listed(r)
  PROVE  /\ selected.job = source /\ selected'.job = source
         /\ JobsPage!Stage(selected.row) <= JobsPage!Stage(selected'.row)
         /\ selected.row.progress <= selected'.row.progress
<1>0. /\ source \in Jobs /\ selected \in [job : Jobs \cup {JobsPage!Nobody}, row : RowState]
      /\ selected.job = source /\ selected.row \in RowState
  BY DEF PageInv, PageTyped, FollowsOne, Follows
<1>1. CASE JobsPage!Progress
  <2>. DEFINE row == Head(stream.wire).row
  <2>1. Behind(selected.row, row)
    BY <1>1, NextEvent DEF JobsPage!Progress
  <2>2. selected' = [selected EXCEPT !.row = row]
    BY <1>0, <1>1 DEF JobsPage!Progress, JobsPage!Shown
  <2>. HIDE DEF row
  <2>3. selected'.job = source /\ selected'.row = row
    BY <1>0, <2>2
  <2>. QED  BY <1>0, <2>1, <2>3 DEF Behind
<1>2. CASE \E r \in Requests : pending[r].job = JobsPage!Nobody /\ JobsPage!Listed(r)
  <2>1. selected' = selected
    BY <1>2 DEF JobsPage!Listed, JobsPage!Fresh
  <2>2. Behind(selected.row, selected.row)
    BY <1>0, BehindItself
  <2>. QED  BY <1>0, <2>1, <2>2 DEF Behind
<1>. QED  BY <1>1, <1>2

\* However lists and events overtake each other, what the page shows of the job
\* that it follows never goes back: not its stage, and not its progress.
THEOREM ThePageGoesForward == JobsPage!Spec => FollowedGoesForward
<1>1. JobsPage!Init => PageInv
  <2>. SUFFICES ASSUME JobsPage!Init PROVE PageInv
    OBVIOUS
  <2>1. RowsTyped
    BY CompleteAssumption DEF JobsPage!Init, JobsPage!Kept, JobsPage!Absent, RowsTyped, Statuses
  <2>2. PageTyped /\ source = JobsPage!Nobody /\ stream.wire = <<>>
    BY AbsentIsOld DEF JobsPage!Init, PageTyped, JobsPage!NoStream
  <2>3. ListIsOld
    BY <2>1, AbsentIsOld, RowIsTyped DEF JobsPage!Init, ListIsOld
  <2>. DEFINE asked == [JobsPage!Idle EXCEPT !.pc = "list"]
  <2>4. PICK first \in Requests :
          pending = [r \in Requests |-> IF r = first THEN asked ELSE JobsPage!Idle]
    BY DEF JobsPage!Init
  <2>5. /\ asked \in Request /\ asked.pc = "list" /\ asked.job = JobsPage!Nobody
        /\ asked.row = JobsPage!Absent /\ asked.rows = [j \in Jobs |-> JobsPage!Absent]
    BY IdleRecord DEF Request
  <2>. HIDE DEF asked
  <2>6. \A j \in Jobs : Behind(JobsPage!Absent, JobsPage!Row(j))
    BY <2>1, AbsentIsOld, RowIsTyped
  <2>7. RequestIsOld(asked) /\ RequestIsOld(JobsPage!Idle)
    BY <2>1, <2>5, <2>6, IdleRecord, NothingIsOld
  <2>8. RequestsTyped /\ RequestsAreOld
    BY <2>4, <2>5, <2>7, IdleRecord DEF RequestsTyped, RequestsAreOld
  <2>. QED  BY <2>1, <2>2, <2>3, <2>8 DEF PageInv, FollowsOne
<1>2. PageInv /\ [JobsPage!Next]_JobsPage!vars => PageInv'
  <2>. SUFFICES ASSUME PageInv, [JobsPage!Next]_JobsPage!vars PROVE PageInv'
    OBVIOUS
  <2>1. CASE JobsPage!ServiceStep
    BY <2>1, ServiceKeeps
  <2>2. ASSUME NEW r \in Requests, JobsPage!Refresh(r) \/ JobsPage!Answered(r) PROVE PageInv'
    BY <2>2, ServiceKeeps, RequestsKeep, ListingKeeps DEF JobsPage!Answered
  <2>3. CASE \E r \in Requests, j \in Jobs : JobsPage!Submit(r, j)
    BY <2>3, RequestsKeep
  <2>4. CASE JobsPage!Unmount \/ \E j \in Jobs : JobsPage!Follow(j)
    BY <2>4, OpeningKeeps
  <2>5. CASE JobsPage!Poll \/ JobsPage!Arrives \/ \E r \in Requests : JobsPage!StreamFails(r)
    BY <2>5, PollKeeps, ProgressKeeps, StreamEndKeeps DEF JobsPage!Arrives
  <2>6. CASE UNCHANGED JobsPage!vars
    <3>1. /\ UNCHANGED <<jobStatus, progress, list, selected, source, stream, pending>>
          /\ RowsTyped /\ PageTyped /\ RequestsTyped /\ RequestsAreOld
      BY <2>6 DEF JobsPage!vars, JobsPage!page, PageInv
    <3>2. RowsTyped' /\ RowsForward /\ \A j \in Jobs : JobsPage!Row(j)' = JobsPage!Row(j)
      BY <3>1, RowsStay DEF JobsPage!Row
    <3>3. ListIsOld' /\ FollowsOne'
      BY <3>1, <3>2, ListKept, FollowKept
    <3>4. PageTyped' /\ RequestsTyped' /\ RequestsAreOld'
      BY <3>1, <3>2 DEF PageTyped, RequestsTyped, RequestsAreOld, RequestIsOld
    <3>. QED  BY <3>2, <3>3, <3>4 DEF PageInv
  <2>. QED  BY <2>1, <2>2, <2>3, <2>4, <2>5, <2>6 DEF JobsPage!Next
<1>3. PageInv /\ [JobsPage!Next]_JobsPage!vars =>
        [source # JobsPage!Nobody
          /\ (JobsPage!Progress
               \/ \E r \in Requests : pending[r].job = JobsPage!Nobody /\ JobsPage!Listed(r)) =>
           /\ selected.job = source /\ selected'.job = source
           /\ JobsPage!Stage(selected.row) <= JobsPage!Stage(selected'.row)
           /\ selected.row.progress <= selected'.row.progress]_JobsPage!vars
  BY ShownGoesForward
<1>. QED  BY <1>1, <1>2, <1>3, PTL DEF JobsPage!Spec, FollowedGoesForward, JobsPage!FollowedGoesForward
-----------------------------------------------------------------------------
(***************************************************************************)
(* The tray of photos.  PreviewIsTrue is not inductive: before a drag      *)
(* starts its target must be its own slot and every photo at home, and     *)
(* from then on as many slots must be drawn as there are photos.  Two      *)
(* pieces of arithmetic meet here: moveItem, which the drop commits, is    *)
(* read slot by slot (From), and slotAfterMove is its inverse.             *)
(***************************************************************************)
\* One list after another.
LEMMA Joined ==
  ASSUME NEW S, NEW s \in Seq(S), NEW t \in Seq(S)
  PROVE  /\ s \o t \in Seq(S) /\ Len(s \o t) = Len(s) + Len(t)
         /\ \A k \in 1 .. Len(s) : (s \o t)[k] = s[k]
         /\ \A k \in 1 .. Len(t) : (s \o t)[Len(s) + k] = t[k]
OBVIOUS

\* What is left when a photo is taken out.
LEMMA TakenOut ==
  ASSUME NEW S, NEW items \in Seq(S), NEW from \in DOMAIN items
  PROVE  /\ Sortable!Without(items, from) \in Seq(S)
         /\ Len(Sortable!Without(items, from)) = Len(items) - 1
         /\ \A k \in 1 .. Len(items) - 1 :
              Sortable!Without(items, from)[k] = IF k < from THEN items[k] ELSE items[k + 1]
<1>. DEFINE rest == Sortable!Without(items, from)
            a == SubSeq(items, 1, from - 1)
            b == SubSeq(items, from + 1, Len(items))
<1>1. from \in 1 .. Len(items) /\ Len(items) \in Nat
  OBVIOUS
<1>2. /\ a \in Seq(S) /\ Len(a) = from - 1
      /\ \A k \in 1 .. from - 1 : a[k] = items[k]
  BY <1>1
<1>3. /\ b \in Seq(S) /\ Len(b) = Len(items) - from
      /\ \A k \in 1 .. Len(items) - from : b[k] = items[from + k]
  BY <1>1
<1>4. rest = a \o b
  BY DEF Sortable!Without
<1>. HIDE DEF a, b, rest
<1>5. rest \in Seq(S) /\ Len(rest) = Len(items) - 1
  BY <1>1, <1>2, <1>3, <1>4
<1>6. ASSUME NEW k \in 1 .. Len(items) - 1
      PROVE  rest[k] = IF k < from THEN items[k] ELSE items[k + 1]
  <2>1. CASE k < from
    <3>1. rest[k] = a[k]
      BY <1>1, <1>2, <1>3, <1>4, <2>1
    <3>. QED  BY <1>1, <1>2, <2>1, <3>1
  <2>2. CASE k >= from
    <3>1. rest[k] = b[k - Len(a)]
      BY <1>1, <1>2, <1>3, <1>4, <2>2
    <3>2. k - Len(a) \in 1 .. Len(items) - from /\ from + (k - Len(a)) = k + 1
      BY <1>1, <1>2, <2>2
    <3>. QED  BY <1>1, <1>3, <2>2, <3>1, <3>2
  <2>. QED  BY <1>1, <2>1, <2>2
<1>. QED  BY <1>5, <1>6 DEF rest

\* Where the photo comes from that a slot has after one moved to another.
From(k, from, to) ==
  IF k = to THEN from
  ELSE IF k < to THEN (IF k < from THEN k ELSE k + 1)
  ELSE (IF k - 1 < from THEN k - 1 ELSE k)

\* moveItem, slot by slot: a slot beyond the end is the last one.
LEMMA Moved ==
  ASSUME NEW S, NEW items \in Seq(S), NEW from \in DOMAIN items, NEW to \in Nat \ {0}
  PROVE  \E slot \in DOMAIN items :
           /\ to \in DOMAIN items => slot = to
           /\ Sortable!MoveItem(items, from, to) \in Seq(S)
           /\ Len(Sortable!MoveItem(items, from, to)) = Len(items)
           /\ \A k \in DOMAIN items :
                Sortable!MoveItem(items, from, to)[k] = items[From(k, from, slot)]
<1>. DEFINE rest == Sortable!Without(items, from)
            cut == IF to - 1 > Len(rest) THEN Len(rest) ELSE to - 1
            new == Sortable!MoveItem(items, from, to)
<1>1. from \in 1 .. Len(items) /\ Len(items) \in Nat /\ DOMAIN items = 1 .. Len(items)
  OBVIOUS
<1>2. CASE from = to
  <2>1. new = items
    BY <1>2 DEF Sortable!MoveItem
  <2>2. \A k \in DOMAIN items : From(k, from, from) = k
    BY <1>1 DEF From
  <2>. HIDE DEF new
  <2>3. new \in Seq(S) /\ Len(new) = Len(items) /\ \A k \in DOMAIN items : new[k] = items[From(k, from, from)]
    BY <2>1, <2>2
  <2>. QED  BY <1>2, <2>3 DEF new
<1>3. CASE from # to
  <2>. DEFINE a == SubSeq(rest, 1, cut)
              b == <<items[from]>>
              c == SubSeq(rest, cut + 1, Len(rest))
  <2>1. new = a \o b \o c
    BY <1>3 DEF Sortable!MoveItem
  <2>2. /\ rest \in Seq(S) /\ Len(rest) = Len(items) - 1
        /\ \A k \in 1 .. Len(items) - 1 : rest[k] = IF k < from THEN items[k] ELSE items[k + 1]
    BY TakenOut
  <2>. HIDE DEF rest, new
  <2>3. cut \in 0 .. Len(items) - 1 /\ (to \in DOMAIN items => cut = to - 1)
    <3>1. Len(rest) = Len(items) - 1 /\ to \in Nat /\ to >= 1
      BY <2>2
    <3>2. CASE to - 1 > Len(rest)
      <4>1. cut = Len(rest)
        BY <3>2
      <4>2. to \notin DOMAIN items
        BY <1>1, <3>1, <3>2
      <4>3. Len(items) - 1 \in 0 .. Len(items) - 1
        BY <1>1
      <4>4. cut = Len(items) - 1
        BY <3>1, <4>1
      <4>. HIDE DEF cut
      <4>. QED  BY <4>2, <4>3, <4>4
    <3>3. CASE ~(to - 1 > Len(rest))
      <4>1. cut = to - 1
        BY <3>3
      <4>. QED  BY <1>1, <3>1, <3>3, <4>1
    <3>. QED  BY <3>2, <3>3
  <2>. HIDE DEF cut
  <2>4. /\ a \in Seq(S) /\ Len(a) = cut
        /\ \A k \in 1 .. cut : a[k] = rest[k]
    BY <1>1, <2>2, <2>3
  <2>5. b \in Seq(S) /\ Len(b) = 1 /\ b[1] = items[from]
    BY <1>1
  <2>6. /\ c \in Seq(S) /\ Len(c) = Len(items) - 1 - cut
        /\ \A k \in 1 .. Len(items) - 1 - cut : c[k] = rest[cut + k]
    <3>. DEFINE n == Len(items) - 1
    <3>1. rest \in Seq(S) /\ Len(rest) = n /\ n \in Nat /\ cut \in 0 .. n
      BY <1>1, <2>2, <2>3
    <3>. HIDE DEF n
    <3>2. /\ c \in Seq(S) /\ Len(c) = n - cut
          /\ \A k \in 1 .. n - cut : c[k] = rest[cut + k]
      BY <3>1
    <3>. QED  BY <3>2 DEF n
  <2>. HIDE DEF a, b, c
  <2>. DEFINE ab == a \o b
  <2>7. /\ ab \in Seq(S) /\ Len(ab) = cut + 1
        /\ \A k \in 1 .. cut : ab[k] = a[k]
        /\ ab[cut + 1] = items[from]
    <3>1. ab \in Seq(S) /\ Len(ab) = Len(a) + Len(b)
          /\ (\A k \in 1 .. Len(a) : ab[k] = a[k])
          /\ (\A k \in 1 .. Len(b) : ab[Len(a) + k] = b[k])
      <4>1. a \in Seq(S) /\ b \in Seq(S)
        BY <2>4, <2>5
      <4>. HIDE DEF ab
      <4>2. ab = a \o b
        BY DEF ab
      <4>. QED  BY <4>1, <4>2, Joined
    <3>. HIDE DEF ab
    <3>. QED  BY <2>3, <2>4, <2>5, <3>1
  <2>8. new = ab \o c
    BY <2>1
  <2>. HIDE DEF ab
  <2>12. /\ new \in Seq(S) /\ Len(new) = Len(ab) + Len(c)
         /\ \A k \in 1 .. Len(ab) : new[k] = ab[k]
         /\ \A k \in 1 .. Len(c) : new[Len(ab) + k] = c[k]
    <3>1. /\ ab \in Seq(S) /\ c \in Seq(S)
      BY <2>6, <2>7
    <3>2. /\ ab \o c \in Seq(S) /\ Len(ab \o c) = Len(ab) + Len(c)
          /\ \A k \in 1 .. Len(ab) : (ab \o c)[k] = ab[k]
          /\ \A k \in 1 .. Len(c) : (ab \o c)[Len(ab) + k] = c[k]
      BY <3>1, Joined
    <3>. QED  BY <2>8, <3>2
  <2>9. new \in Seq(S) /\ Len(new) = Len(items)
    BY <1>1, <2>3, <2>6, <2>7, <2>12
  <2>10. cut + 1 \in DOMAIN items
    BY <1>1, <2>3
  <2>11. ASSUME NEW k \in DOMAIN items PROVE new[k] = items[From(k, from, cut + 1)]
    <3>1. CASE k <= cut
      <4>1. new[k] = ab[k]
        BY <1>1, <2>3, <2>7, <2>12, <3>1
      <4>2. k \in 1 .. cut /\ k \in 1 .. Len(items) - 1
        BY <1>1, <2>3, <3>1
      <4>3. new[k] = rest[k]
        BY <2>4, <2>7, <4>1, <4>2
      <4>. QED  BY <1>1, <2>2, <2>3, <4>2, <4>3 DEF From
    <3>2. CASE k = cut + 1
      <4>1. new[k] = ab[k]
        BY <1>1, <2>3, <2>7, <2>12, <3>2
      <4>. QED  BY <2>7, <3>2, <4>1 DEF From
    <3>3. CASE k > cut + 1
      <4>2. k - (cut + 1) \in 1 .. Len(items) - 1 - cut /\ cut + (k - (cut + 1)) = k - 1
            /\ (cut + 1) + (k - (cut + 1)) = k
        BY <1>1, <2>3, <3>3
      <4>1. new[k] = c[k - (cut + 1)]
        BY <2>6, <2>7, <2>12, <4>2
      <4>3. new[k] = rest[k - 1] /\ k - 1 \in 1 .. Len(items) - 1
        BY <1>1, <2>3, <2>6, <3>3, <4>1, <4>2
      <4>4. (k - 1) + 1 = k
        BY <1>1
      <4>. QED  BY <1>1, <2>2, <2>3, <3>3, <4>3, <4>4 DEF From
    <3>. QED  BY <1>1, <2>3, <3>1, <3>2, <3>3
  <2>. QED  BY <2>3, <2>9, <2>10, <2>11 DEF new
<1>. QED  BY <1>2, <1>3

\* The slot that the preview gives a photo is the one that it has after the drop.
LEMMA PreviewedSlot ==
  ASSUME NEW n \in Nat, NEW from \in 1 .. n, NEW to \in 1 .. n, NEW i \in 1 .. n, i # from
  PROVE  /\ Sortable!SlotAfterMove(i, from, to) \in 1 .. n
         /\ From(Sortable!SlotAfterMove(i, from, to), from, to) = i
BY DEF Sortable!SlotAfterMove, From

LEMMA NearestIsASlot ==
  ASSUME NEW slots \in Nat \ {0}, NEW point \in Int
  PROVE  Sortable!NearestSlot(slots, point) \in 1 .. slots
<1>. DEFINE far(i) == IF 2 * i > point THEN 2 * i - point ELSE point - 2 * i
            Nearest(i) == \A k \in 1 .. slots : far(i) < far(k) \/ (far(i) = far(k) /\ i <= k)
<1>1. PICK h \in Int : point = 2 * h \/ point = 2 * h + 1
  <2>1. point \div 2 \in Int
    OBVIOUS
  <2>2. point = 2 * (point \div 2) \/ point = 2 * (point \div 2) + 1
    OBVIOUS
  <2>. QED  BY <2>1, <2>2
<1>2. \E i \in 1 .. slots : Nearest(i)
  <2>1. CASE h < 1
    <3>1. Nearest(1)
      BY <1>1, <2>1
    <3>. QED  BY <3>1
  <2>2. CASE h > slots
    <3>1. Nearest(slots)
      BY <1>1, <2>2
    <3>. QED  BY <3>1
  <2>3. CASE h \in 1 .. slots
    <3>1. Nearest(h)
      BY <1>1, <2>3
    <3>. QED  BY <2>3, <3>1
  <2>. QED  BY <2>1, <2>2, <2>3
<1>3. Sortable!NearestSlot(slots, point) = CHOOSE i \in 1 .. slots : Nearest(i)
  BY DEF Sortable!NearestSlot
<1>. HIDE DEF Nearest
<1>. QED  BY <1>2, <1>3

-----------------------------------------------------------------------------
Once(items) == \A i, k \in DOMAIN items : items[i] = items[k] => i = k

TrayTyped ==
  /\ photos \in Seq(Photos) /\ Once(photos)
  /\ offset \in [Photos -> Int]
  /\ drag # None => drag \in Sortable!Drag

AtHome == \A i \in DOMAIN photos : offset[photos[i]] = 0

\* What a drag draws as long as no other handler has changed the list.
Previewed ==
  /\ drag.index \in DOMAIN photos /\ photos[drag.index] = drag.photo
  /\ drag.target \in DOMAIN photos
  /\ drag.started => drag.slots = Len(photos)
  /\ ~drag.started => drag.target = drag.index
  /\ \A i \in DOMAIN photos : i # drag.index =>
       offset[photos[i]] = Sortable!SlotAfterMove(i, drag.index, drag.target) - i

TrayInv ==
  /\ TrayTyped
  /\ (drag # None => ~drag.started) => AtHome
  /\ drag # None /\ ~disturbed => Previewed

LEMMA MovedOnce ==
  ASSUME NEW items \in Seq(Photos), Once(items), NEW from \in DOMAIN items, NEW to \in Nat \ {0}
  PROVE  /\ Sortable!MoveItem(items, from, to) \in Seq(Photos)
         /\ Once(Sortable!MoveItem(items, from, to))
<1>. DEFINE new == Sortable!MoveItem(items, from, to)
<1>1. PICK slot \in DOMAIN items :
        /\ new \in Seq(Photos) /\ Len(new) = Len(items)
        /\ \A k \in DOMAIN items : new[k] = items[From(k, from, slot)]
  BY Moved
<1>. HIDE DEF new
<1>2. DOMAIN items = 1 .. Len(items) /\ DOMAIN new = 1 .. Len(items) /\ Len(items) \in Nat
  BY <1>1
<1>3. \A k \in DOMAIN items : From(k, from, slot) \in DOMAIN items
  BY <1>2 DEF From
<1>4. \A i, k \in DOMAIN items : From(i, from, slot) = From(k, from, slot) => i = k
  BY <1>2 DEF From
<1>5. Once(new)
  BY <1>1, <1>2, <1>3, <1>4 DEF Once
<1>. QED  BY <1>1, <1>5 DEF new

\* Every photo springs to its place when one is dropped or moved by a key.
LEMMA Settled ==
  ASSUME TrayTyped, NEW from \in Nat \ {0}, NEW to \in Nat \ {0}, Sortable!Settle(from, to)
  PROVE  /\ photos' \in Seq(Photos) /\ Once(photos')
         /\ offset' \in [Photos -> Int] /\ AtHome'
<1>1. photos' = Sortable!MoveItem(photos, from, to) /\ offset' = Sortable!AtRest(photos')
  BY DEF Sortable!Settle
<1>2. photos' \in Seq(Photos) /\ Once(photos')
  <2>1. CASE from \in DOMAIN photos
    BY <1>1, <2>1, MovedOnce DEF TrayTyped
  <2>2. CASE from \notin DOMAIN photos
    BY <1>1, <2>2 DEF TrayTyped, Sortable!MoveItem
  <2>. QED  BY <2>1, <2>2
<1>3. offset' \in [Photos -> Int]
  BY <1>1 DEF TrayTyped, Sortable!AtRest
<1>4. AtHome'
  <2>1. \A i \in DOMAIN photos' : photos'[i] \in Photos
    BY <1>2
  <2>. QED  BY <1>1, <2>1 DEF AtHome, Sortable!AtRest
<1>. QED  BY <1>2, <1>3, <1>4

\* Pressing, waiting and letting go before the press is a drag.
LEMMA PressKeeps ==
  ASSUME TrayInv,
         \/ \E i \in DOMAIN photos, touch \in BOOLEAN : Sortable!PointerDown(i, touch)
         \/ Sortable!LongPress \/ Sortable!Scroll
  PROVE  TrayInv'
<1>1. TrayTyped /\ UNCHANGED <<photos, offset>>
  BY DEF TrayInv, Sortable!PointerDown, Sortable!LongPress, Sortable!Scroll
<1>2. (AtHome => AtHome') /\ (drag' = None \/ drag' \in Sortable!Drag => TrayTyped')
  BY <1>1 DEF AtHome, TrayTyped, Once
<1>3. ASSUME NEW i \in DOMAIN photos, NEW touch \in BOOLEAN, Sortable!PointerDown(i, touch)
      PROVE  TrayInv'
  <2>1. AtHome
    BY <1>3 DEF TrayInv, Sortable!PointerDown
  <2>2. /\ drag' = [photo |-> photos[i], index |-> i, target |-> i, slots |-> 0,
                    started |-> FALSE, touch |-> touch]
        /\ photos[i] \in Photos /\ i \in Nat \ {0}
    BY <1>1, <1>3 DEF TrayTyped, Sortable!PointerDown
  <2>3. /\ drag' \in Sortable!Drag /\ drag'.index = i /\ drag'.target = i
        /\ drag'.photo = photos[i] /\ ~drag'.started
    BY <2>2 DEF Sortable!Drag
  <2>4. \A k \in DOMAIN photos : offset[photos[k]] = Sortable!SlotAfterMove(k, i, i) - k
    BY <1>1, <2>1, <2>2 DEF AtHome, Sortable!SlotAfterMove, TrayTyped
  <2>5. Previewed'
    BY <1>1, <2>3, <2>4 DEF Previewed
  <2>. QED  BY <1>2, <2>1, <2>3, <2>5 DEF TrayInv
<1>4. CASE Sortable!LongPress
  <2>1. drag \in Sortable!Drag /\ ~drag.started /\ drag' = [drag EXCEPT !.started = TRUE, !.slots = Len(photos)]
    BY <1>1, <1>4 DEF TrayTyped, Sortable!LongPress, Sortable!Begun
  <2>2. Len(photos) \in Nat
    BY <1>1 DEF TrayTyped
  <2>3. /\ drag' \in Sortable!Drag /\ drag'.index = drag.index /\ drag'.target = drag.target
        /\ drag'.photo = drag.photo /\ drag'.started /\ drag'.slots = Len(photos)
    BY <2>1, <2>2 DEF Sortable!Drag
  <2>4. Previewed => Previewed'
    BY <1>1, <2>3 DEF Previewed
  <2>. QED  BY <1>2, <1>4, <2>3, <2>4, NoneAssumption DEF TrayInv, Sortable!LongPress
<1>5. CASE Sortable!Scroll
  BY <1>2, <1>5 DEF TrayInv, Sortable!Scroll
<1>. QED  BY <1>3, <1>4, <1>5

\* The pointer moves over the slots, and the others make room.
LEMMA MoveKeeps ==
  ASSUME TrayInv, NEW point \in Int, Sortable!PointerMove(point)
  PROVE  TrayInv'
<1>. DEFINE held == IF drag.started THEN drag ELSE Sortable!Begun
            next == Sortable!NearestSlot(held.slots, point)
            over == [held EXCEPT !.target = next]
<1>1. /\ photos \in Seq(Photos) /\ Once(photos) /\ offset \in [Photos -> Int]
      /\ drag # None /\ drag \in Sortable!Drag
      /\ UNCHANGED <<photos, disturbed>>
  BY DEF TrayInv, TrayTyped, Sortable!PointerMove
<1>2. DOMAIN photos = 1 .. Len(photos) /\ Len(photos) \in Nat /\ \A i \in DOMAIN photos : photos[i] \in Photos
  BY <1>1
<1>3. /\ held \in Sortable!Drag /\ held.started /\ held.photo = drag.photo
      /\ held.index = drag.index /\ held.target = drag.target
      /\ drag.started => held.slots = drag.slots
      /\ ~drag.started => held.slots = Len(photos)
  <2>1. CASE drag.started
    <3>1. held = drag
      BY <2>1
    <3>. HIDE DEF held
    <3>2. held \in Sortable!Drag /\ held.photo = drag.photo /\ held.index = drag.index
          /\ held.target = drag.target /\ held.slots = drag.slots
      BY <1>1, <3>1
    <3>3. held.started
      BY <2>1, <3>1, Zenon
    <3>. QED  BY <2>1, <3>2, <3>3
  <2>2. CASE ~drag.started
    BY <1>1, <1>2, <2>2 DEF Sortable!Begun, Sortable!Drag
  <2>. QED  BY <2>1, <2>2
<1>4. /\ ~disturbed => Previewed
      /\ ~disturbed => held.slots = Len(photos)
  BY <1>1, <1>3 DEF TrayInv, Previewed
<1>5. \/ held.index \notin 1 .. held.slots /\ drag' = held /\ UNCHANGED offset
      \/ /\ held.index \in 1 .. held.slots /\ drag' = over
         /\ offset' = IF next = held.target THEN [offset EXCEPT ![held.photo] = Sortable!Held]
                      ELSE Sortable!Slid(held, next)
  BY DEF Sortable!PointerMove
<1>. HIDE DEF held
<1>6. CASE held.index \notin 1 .. held.slots
  <2>1. drag' = held /\ UNCHANGED offset
    BY <1>5, <1>6
  <2>2. disturbed
    BY <1>2, <1>3, <1>4, <1>6 DEF Previewed
  <2>3. drag' # None /\ drag'.started
    BY <1>3, <2>1, NoneAssumption
  <2>4. TrayTyped'
    BY <1>1, <1>3, <2>1 DEF TrayTyped, Once
  <2>. QED  BY <1>1, <2>2, <2>3, <2>4 DEF TrayInv
<1>7. CASE held.index \in 1 .. held.slots
  <2>1. held.slots \in Nat \ {0} /\ held.index \in Nat /\ held.target \in Nat /\ held.photo \in Photos
    BY <1>3, <1>7 DEF Sortable!Drag
  <2>2. next \in 1 .. held.slots
    BY <2>1, NearestIsASlot
  <2>. HIDE DEF next
  <2>3. /\ over \in Sortable!Drag /\ over.started /\ over.photo = drag.photo
        /\ over.index = drag.index /\ over.target = next /\ over.slots = held.slots
    BY <1>3, <2>1, <2>2 DEF Sortable!Drag
  <2>. HIDE DEF over
  <2>4. drag' = over
    BY <1>5, <1>7
  <2>5. offset' \in [Photos -> Int]
    <3>1. CASE next = held.target
      BY <1>1, <1>5, <1>7, <3>1 DEF Sortable!Held
    <3>2. CASE next # held.target
      <4>1. offset' = Sortable!Slid(held, next)
        BY <1>5, <1>7, <3>2
      <4>2. ASSUME NEW p \in Photos PROVE Sortable!Slid(held, next)[p] \in Int
        <5>. DEFINE i == Sortable!PlaceOf(p)
                    to == Sortable!SlotAfterMove(i, held.index, next)
        <5>1. \/ Sortable!Slid(held, next)[p] \in {Sortable!Held, offset[p]}
              \/ i \in 1 .. held.slots /\ to \in 1 .. held.slots /\ Sortable!Slid(held, next)[p] = to - i
          BY DEF Sortable!Slid
        <5>. HIDE DEF i, to
        <5>. QED  BY <1>1, <5>1 DEF Sortable!Held
      <4>3. DOMAIN Sortable!Slid(held, next) = Photos
            /\ Sortable!Slid(held, next) = [p \in Photos |-> Sortable!Slid(held, next)[p]]
        BY DEF Sortable!Slid
      <4>. QED  BY <4>1, <4>2, <4>3
    <3>. QED  BY <3>1, <3>2
  <2>6. ASSUME ~disturbed PROVE Previewed'
    <3>1. Previewed /\ held.slots = Len(photos) /\ drag.index \in 1 .. Len(photos)
      BY <1>2, <1>4, <2>6 DEF Previewed
    <3>2. ASSUME NEW i \in DOMAIN photos, i # drag.index
          PROVE  offset'[photos[i]] = Sortable!SlotAfterMove(i, drag.index, next) - i
      <4>1. photos[i] # drag.photo /\ photos[i] \in Photos
        BY <1>1, <1>2, <3>1, <3>2 DEF Previewed, Once
      <4>2. CASE next = held.target
        <5>1. offset'[photos[i]] = offset[photos[i]]
          BY <1>1, <1>3, <1>5, <1>7, <4>1, <4>2
        <5>. QED  BY <1>3, <3>1, <3>2, <4>2, <5>1 DEF Previewed
      <4>3. CASE next # held.target
        <5>. DEFINE to == Sortable!SlotAfterMove(i, drag.index, next)
        <5>1. offset' = Sortable!Slid(held, next)
          BY <1>5, <1>7, <4>3
        <5>2. Sortable!PlaceOf(photos[i]) = i /\ photos[i] \in Sortable!Listed
          BY <1>1, <3>2 DEF Once, Sortable!PlaceOf, Sortable!Listed
        <5>3. i \in 1 .. held.slots /\ to \in 1 .. held.slots
          BY <1>2, <2>2, <3>1, <3>2, PreviewedSlot
        <5>. QED  BY <1>3, <3>2, <4>1, <5>1, <5>2, <5>3 DEF Sortable!Slid
      <4>. QED  BY <4>2, <4>3
    <3>. QED  BY <1>1, <1>2, <2>2, <2>3, <2>4, <3>1, <3>2 DEF Previewed
  <2>7. drag' # None /\ drag'.started
    BY <2>3, <2>4, NoneAssumption
  <2>8. TrayTyped'
    BY <1>1, <2>3, <2>4, <2>5 DEF TrayTyped, Once
  <2>. QED  BY <1>1, <2>6, <2>7, <2>8 DEF TrayInv
<1>. QED  BY <1>6, <1>7

\* The drop, and its cancelling.
LEMMA DropKeeps ==
  ASSUME TrayInv, Sortable!PointerUp \/ Sortable!Cancel
  PROVE  TrayInv'
<1>1. TrayTyped /\ drag # None /\ drag \in Sortable!Drag /\ drag' = None
  BY DEF TrayInv, TrayTyped, Sortable!PointerUp, Sortable!Cancel
<1>2. SUFFICES TrayTyped' /\ AtHome'
  BY <1>1 DEF TrayInv
<1>3. CASE Sortable!PointerUp /\ drag.started
  <2>1. drag.index \in Nat \ {0} /\ drag.target \in Nat \ {0}
    BY <1>1 DEF Sortable!Drag
  <2>. QED  BY <1>1, <1>3, <2>1, Settled DEF Sortable!PointerUp, TrayTyped
<1>4. CASE Sortable!Cancel /\ drag.started
  <2>1. offset' = Sortable!AtRest(photos) /\ photos' = photos
    BY <1>4 DEF Sortable!Cancel
  <2>2. offset' \in [Photos -> Int]
    BY <1>1, <2>1 DEF TrayTyped, Sortable!AtRest
  <2>3. \A i \in DOMAIN photos : photos[i] \in Photos
    BY <1>1 DEF TrayTyped
  <2>4. AtHome'
    BY <2>1, <2>3 DEF AtHome, Sortable!AtRest
  <2>. QED  BY <1>1, <2>1, <2>2, <2>4 DEF TrayTyped, Once
<1>5. CASE ~drag.started
  <2>1. AtHome /\ UNCHANGED <<photos, offset>>
    BY <1>5 DEF TrayInv, Sortable!PointerUp, Sortable!Cancel
  <2>. QED  BY <1>1, <2>1 DEF AtHome, TrayTyped, Once
<1>. QED  BY <1>3, <1>4, <1>5

\* The other handlers of the list.
LEMMA HandlersKeep ==
  ASSUME TrayInv,
         \/ \E from, to \in DOMAIN photos : Sortable!MoveBy(from, to)
         \/ \E p \in Photos : Sortable!AddPhoto(p)
         \/ \E i \in DOMAIN photos : Sortable!RemovePhoto(i)
  PROVE  TrayInv'
<1>1. TrayTyped /\ drag' = drag /\ disturbed' = (drag # None)
  BY DEF TrayInv, Sortable!MoveBy, Sortable!AddPhoto, Sortable!RemovePhoto, Sortable!Disturb
<1>2. SUFFICES photos' \in Seq(Photos) /\ Once(photos') /\ offset' \in [Photos -> Int] /\ (AtHome => AtHome')
  BY <1>1 DEF TrayInv, TrayTyped
<1>3. ASSUME NEW from \in DOMAIN photos, NEW to \in DOMAIN photos, Sortable!MoveBy(from, to)
      PROVE  photos' \in Seq(Photos) /\ Once(photos') /\ offset' \in [Photos -> Int] /\ (AtHome => AtHome')
  <2>1. from \in Nat \ {0} /\ to \in Nat \ {0}
    BY <1>1 DEF TrayTyped
  <2>. QED  BY <1>1, <1>3, <2>1, Settled DEF Sortable!MoveBy
<1>4. ASSUME NEW p \in Photos, Sortable!AddPhoto(p)
      PROVE  photos' \in Seq(Photos) /\ Once(photos') /\ offset' \in [Photos -> Int] /\ (AtHome => AtHome')
  <2>1. /\ photos' = Append(photos, p) /\ offset' = [offset EXCEPT ![p] = 0]
        /\ \A i \in DOMAIN photos : photos[i] # p
    BY <1>4 DEF Sortable!AddPhoto, Sortable!Listed
  <2>2. /\ photos \in Seq(Photos) /\ Once(photos) /\ offset \in [Photos -> Int]
    BY <1>1 DEF TrayTyped
  <2>3. /\ photos' \in Seq(Photos) /\ Len(photos') = Len(photos) + 1
        /\ photos'[Len(photos) + 1] = p
        /\ \A i \in DOMAIN photos : photos'[i] = photos[i] /\ photos[i] \in Photos
        /\ \A i \in DOMAIN photos' : i \in DOMAIN photos \/ i = Len(photos) + 1
    BY <2>1, <2>2
  <2>4. Once(photos')
    BY <2>1, <2>2, <2>3 DEF Once
  <2>5. offset' \in [Photos -> Int] /\ AtHome => AtHome'
    BY <2>1, <2>2, <2>3 DEF AtHome
  <2>6. offset' \in [Photos -> Int]
    BY <2>1, <2>2
  <2>. QED  BY <2>3, <2>4, <2>5, <2>6
<1>5. ASSUME NEW i \in DOMAIN photos, Sortable!RemovePhoto(i)
      PROVE  photos' \in Seq(Photos) /\ Once(photos') /\ offset' \in [Photos -> Int] /\ (AtHome => AtHome')
  <2>1. photos' = Sortable!Without(photos, i) /\ offset' = offset
    BY <1>5 DEF Sortable!RemovePhoto
  <2>2. photos \in Seq(Photos) /\ Once(photos) /\ offset \in [Photos -> Int]
    BY <1>1 DEF TrayTyped
  <2>3. DOMAIN photos = 1 .. Len(photos) /\ Len(photos) \in Nat
    BY <2>2
  <2>. DEFINE Old(k) == IF k < i THEN k ELSE k + 1
  <2>4. /\ photos' \in Seq(Photos) /\ DOMAIN photos' = 1 .. Len(photos) - 1
        /\ \A k \in 1 .. Len(photos) - 1 : photos'[k] = photos[Old(k)]
    <3>1. /\ photos' \in Seq(Photos) /\ Len(photos') = Len(photos) - 1
          /\ \A k \in 1 .. Len(photos) - 1 : photos'[k] = IF k < i THEN photos[k] ELSE photos[k + 1]
      BY <2>1, <2>2, TakenOut
    <3>. QED  BY <3>1
  <2>5. /\ \A k \in 1 .. Len(photos) - 1 : Old(k) \in DOMAIN photos
        /\ \A k, m \in 1 .. Len(photos) - 1 : Old(k) = Old(m) => k = m
    BY <2>3
  <2>. HIDE DEF Old
  <2>6. Once(photos')
    <3>1. ASSUME NEW k \in 1 .. Len(photos) - 1, NEW m \in 1 .. Len(photos) - 1,
                 photos[Old(k)] = photos[Old(m)]
          PROVE  k = m
      <4>1. Old(k) = Old(m)
        BY <2>2, <2>5, <3>1 DEF Once
      <4>. QED  BY <2>5, <4>1
    <3>. QED  BY <2>4, <3>1 DEF Once
  <2>7. AtHome => AtHome'
    BY <2>1, <2>4, <2>5 DEF AtHome
  <2>. QED  BY <2>1, <2>2, <2>4, <2>6, <2>7
<1>. QED  BY <1>3, <1>4, <1>5

\* What is drawn is what the list has, or will have after the drop, whatever is
\* pressed, moved and dropped in whichever order and however many photos there are.
THEOREM ThePreviewIsTrue == Sortable!Spec => []PreviewIsTrue
<1>1. Sortable!Init => TrayInv
  <2>. SUFFICES ASSUME Sortable!Init PROVE TrayInv
    OBVIOUS
  <2>1. PICK n \in 1 .. Sortable!Cardinality(Photos) : photos \in [1 .. n -> Photos]
    BY DEF Sortable!Init
  <2>2. photos \in Seq(Photos) /\ Once(photos)
    BY <2>1 DEF Sortable!Init, Once
  <2>. QED  BY <2>2 DEF Sortable!Init, TrayInv, TrayTyped, AtHome
<1>2. TrayInv /\ [Sortable!Next]_Sortable!vars => TrayInv'
  <2>. SUFFICES ASSUME TrayInv, [Sortable!Next]_Sortable!vars PROVE TrayInv'
    OBVIOUS
  <2>1. CASE \/ \E i \in DOMAIN photos, touch \in BOOLEAN : Sortable!PointerDown(i, touch)
             \/ Sortable!LongPress \/ Sortable!Scroll
    BY <2>1, PressKeeps
  <2>2. CASE \E point \in 1 .. 2 * Sortable!Cardinality(Photos) + 1 : Sortable!PointerMove(point)
    BY <2>2, MoveKeeps
  <2>3. CASE Sortable!PointerUp \/ Sortable!Cancel
    BY <2>3, DropKeeps
  <2>4. CASE \/ \E from, to \in DOMAIN photos : Sortable!MoveBy(from, to)
             \/ \E p \in Photos : Sortable!AddPhoto(p)
             \/ \E i \in DOMAIN photos : Sortable!RemovePhoto(i)
    BY <2>4, HandlersKeep
  <2>5. CASE UNCHANGED Sortable!vars
    BY <2>5 DEF Sortable!vars, TrayInv, TrayTyped, AtHome, Previewed, Once
  <2>. QED  BY <2>1, <2>2, <2>3, <2>4, <2>5 DEF Sortable!Next
<1>3. TrayInv => PreviewIsTrue
  <2>. SUFFICES ASSUME TrayInv PROVE Sortable!PreviewIsTrue
    BY DEF PreviewIsTrue
  <2>0. photos \in Seq(Photos) /\ Once(photos)
    BY DEF TrayInv, TrayTyped
  <2>1. ASSUME drag = None, NEW p \in Sortable!Listed PROVE offset[p] = 0
    BY <2>1 DEF TrayInv, AtHome, Sortable!Listed
  <2>2. ASSUME drag # None, ~disturbed
        PROVE  /\ Sortable!MoveItem(photos, drag.index, drag.target)[drag.target] = drag.photo
               /\ \A p \in Sortable!Listed \ {drag.photo} :
                    Sortable!MoveItem(photos, drag.index, drag.target)[Sortable!PlaceOf(p) + offset[p]] = p
    <3>. DEFINE dropped == Sortable!MoveItem(photos, drag.index, drag.target)
    <3>1. Previewed
      BY <2>2 DEF TrayInv
    <3>2. DOMAIN photos = 1 .. Len(photos) /\ Len(photos) \in Nat
      BY <2>0
    <3>3. drag.index \in DOMAIN photos /\ drag.target \in DOMAIN photos /\ drag.target \in Nat \ {0}
      BY <3>1, <3>2 DEF Previewed
    <3>4. \A k \in DOMAIN photos : dropped[k] = photos[From(k, drag.index, drag.target)]
      BY <2>0, <3>3, Moved
    <3>. HIDE DEF dropped
    <3>5. dropped[drag.target] = drag.photo
      BY <3>1, <3>3, <3>4 DEF From, Previewed
    <3>6. ASSUME NEW p \in Sortable!Listed \ {drag.photo}
          PROVE  dropped[Sortable!PlaceOf(p) + offset[p]] = p
      <4>1. PICK i \in DOMAIN photos : photos[i] = p
        BY DEF Sortable!Listed
      <4>2. Sortable!PlaceOf(p) = i /\ i # drag.index
        BY <2>0, <3>1, <4>1 DEF Once, Sortable!PlaceOf, Previewed
      <4>. DEFINE to == Sortable!SlotAfterMove(i, drag.index, drag.target)
      <4>6. /\ drag.index \in 1 .. Len(photos) /\ drag.target \in 1 .. Len(photos)
            /\ i \in 1 .. Len(photos) /\ i # drag.index
        BY <3>2, <3>3, <4>2
      <4>3. to \in 1 .. Len(photos) /\ From(to, drag.index, drag.target) = i
        BY <3>2, <4>6, PreviewedSlot
      <4>4. offset[p] = to - i
        BY <3>1, <4>1, <4>2 DEF Previewed
      <4>. HIDE DEF to
      <4>5. Sortable!PlaceOf(p) + offset[p] = to
        BY <3>2, <4>2, <4>3, <4>4
      <4>. QED  BY <3>2, <3>4, <4>1, <4>3, <4>5
    <3>. QED  BY <3>5, <3>6 DEF dropped
  <2>. QED  BY <2>1, <2>2 DEF Sortable!PreviewIsTrue
<1>. QED  BY <1>1, <1>2, <1>3, PTL DEF Sortable!Spec

-----------------------------------------------------------------------------
(***************************************************************************)
(* The models in the browser.  What a quiet session shows rests on who is  *)
(* still under way: each spinner has a call that will stop it, a prepared  *)
(* session has a call, a report or an error, and a call that compares has  *)
(* its models.                                                             *)
(***************************************************************************)
Loads == {"choosing", "loading"}
Checks == {"adapter", "fixtures", "models", "comparing"}

Typed ==
  /\ backend \in Backends \cup {None}
  /\ parity \in Report \cup {None}
  /\ models \in [Backends -> {"absent", "pending", "loaded"}]
  /\ call \in [Calls -> [pc : Waits, chosen : Backends \cup {None}]]

\* A call that knows its backend chose one.
Chosen ==
  \A c \in Calls : call[c].pc \in {"loading", "fixtures", "models", "comparing"} =>
                     call[c].chosen \in Backends

HasModels ==
  /\ \A c \in Calls : call[c].pc = "comparing" => models[call[c].chosen] = "loaded"
  /\ parity # None => models[parity.backend] = "loaded"

LoadingHasACall == loading => \E c \in Calls : call[c].pc \in Loads
CheckingHasACall == checking => \E c \in Calls : call[c].pc \in Checks

PreparedIsKnown ==
  preparing => parity # None \/ parityError \/ \E c \in Calls : call[c].pc # "idle"

MayRetry == loadError => ~preparing

Spinners == LoadingHasACall /\ CheckingHasACall /\ PreparedIsKnown /\ MayRetry

BInv == Typed /\ Chosen /\ HasModels /\ Spinners

-----------------------------------------------------------------------------
\* A cached promise that was kept is never asked for again.
LEMMA LoadedStays ==
  ASSUME Typed, [Next]_vars
  PROVE  \A b \in Backends : models[b] = "loaded" => models'[b] = "loaded"
<1>. USE DEF Typed
<1>1. ASSUME NEW d \in Backends \cup {None}, models' = Wanted(d)
      PROVE  \A b \in Backends : models[b] = "loaded" => models'[b] = "loaded"
  BY <1>1 DEF Wanted
<1>2. ASSUME NEW c \in Calls, Prepare(c) \/ Check(c) \/ Settle(c)
      PROVE  \A b \in Backends : models[b] = "loaded" => models'[b] = "loaded"
  <2>1. CASE Fixtures(c)
    BY <2>1, <1>1 DEF Fixtures
  <2>2. CASE Prepare(c)
    BY <2>2, <1>1 DEF Prepare
  <2>3. ASSUME NEW d \in Backends, Choose(c, d)
        PROVE  \A b \in Backends : models[b] = "loaded" => models'[b] = "loaded"
    BY <2>3, <1>1 DEF Choose
  <2>. QED  BY <1>2, <2>1, <2>2, <2>3 DEF Check, Settle, GoOn, ImportFails, CheckFails, Compared
<1>3. ASSUME NEW d \in Backends, UseBackend(d) \/ Fetched(d)
      PROVE  \A b \in Backends : models[b] = "loaded" => models'[b] = "loaded"
  BY <1>3 DEF UseBackend, Fetched, Loaded, LoadFails
<1>. QED  BY <1>2, <1>3 DEF Next, vars

LEMMA WantedTypes ==
  ASSUME Typed, NEW b \in Backends
  PROVE  Wanted(b) \in [Backends -> {"absent", "pending", "loaded"}]
  BY DEF Typed, Wanted

\* Where one step takes its call.
LEMMA OnePlace ==
  ASSUME BInv, NEW c \in Calls, Prepare(c) \/ Check(c) \/ Settle(c)
  PROVE  /\ call'[c] \in [pc : Waits, chosen : Backends \cup {None}]
         /\ call' = [call EXCEPT ![c] = call'[c]]
         /\ call'[c].pc \in {"loading", "fixtures", "models", "comparing"} => call'[c].chosen \in Backends
         /\ call'[c].pc = "comparing" => models[call'[c].chosen] = "loaded"
<1>0. Typed /\ Chosen
  BY DEF BInv
<1>. USE <1>0 DEF Typed, Chosen, Waits, At, Idle
<1>1. CASE Prepare(c)
  BY <1>1 DEF Prepare
<1>2. CASE Check(c)
  BY <1>2 DEF Check, CheckFrom
<1>3. CASE \E b \in Backends : Choose(c, b)
  BY <1>3 DEF Choose
<1>4. CASE Fixtures(c)
  BY <1>4 DEF Fixtures
<1>5. CASE GoOn(c)
  BY <1>5 DEF GoOn, CheckFrom
<1>6. CASE ImportFails(c)
  BY <1>6 DEF ImportFails
<1>7. CASE CheckFails(c)
  BY <1>7 DEF CheckFails
<1>8. CASE \E passed \in BOOLEAN : Compared(c, passed)
  BY <1>8 DEF Compared
<1>. QED  BY <1>1, <1>2, <1>3, <1>4, <1>5, <1>6, <1>7, <1>8 DEF Settle

\* What one step does to the backend, its models and the report.
LEMMA OneResult ==
  ASSUME BInv, NEW c \in Calls, Prepare(c) \/ Check(c) \/ Settle(c)
  PROVE  /\ backend' \in Backends \cup {None}
         /\ models' \in [Backends -> {"absent", "pending", "loaded"}]
         /\ parity' = parity \/ (parity' \in Report /\ models[parity'.backend] = "loaded")
<1>0. Typed /\ Chosen /\ HasModels
  BY DEF BInv
<1>1. CASE Prepare(c)
  BY <1>0, <1>1, WantedTypes DEF Prepare, Typed
<1>2. CASE Check(c)
  BY <1>0, <1>2 DEF Check, Typed
<1>3. ASSUME NEW b \in Backends, Choose(c, b)
      PROVE  backend' = b /\ parity' = parity /\ models' \in [Backends -> {"absent", "pending", "loaded"}]
  BY <1>0, <1>3, WantedTypes DEF Choose, Typed
<1>4. CASE Fixtures(c)
  <2>1. call[c].chosen \in Backends
    BY <1>0, <1>4 DEF Fixtures, Chosen
  <2>2. models' \in [Backends -> {"absent", "pending", "loaded"}]
    BY <1>0, <1>4, <2>1, WantedTypes DEF Fixtures
  <2>. QED  BY <1>0, <1>4, <2>2 DEF Fixtures, Typed
<1>5. CASE GoOn(c)
  BY <1>0, <1>5 DEF GoOn, Typed
<1>6. CASE ImportFails(c)
  BY <1>0, <1>6 DEF ImportFails, Typed
<1>7. CASE CheckFails(c)
  BY <1>0, <1>7 DEF CheckFails, Typed
<1>8. ASSUME NEW passed \in BOOLEAN, Compared(c, passed)
      PROVE  /\ UNCHANGED <<backend, models>>
             /\ parity' \in Report /\ models[parity'.backend] = "loaded"
  BY <1>0, <1>8 DEF Compared, Chosen, HasModels, Report
<1>. QED  BY <1>0, <1>1, <1>2, <1>3, <1>4, <1>5, <1>6, <1>7, <1>8 DEF Settle, Typed

\* A spinner that stays on has this call, or another that this step did not stop.
LEMMA OneFlag ==
  ASSUME BInv, None \notin Report, NEW c \in Calls, Prepare(c) \/ Check(c) \/ Settle(c)
  PROVE  /\ loading' => call'[c].pc \in Loads \/ (loading /\ call[c].pc \notin Loads)
         /\ checking' => call'[c].pc \in Checks \/ (checking /\ call[c].pc \notin Checks)
         /\ preparing' => parity' # None \/ parityError' \/ call'[c].pc # "idle"
         /\ loadError' => ~preparing'
<1>0. Typed /\ Chosen /\ MayRetry
  BY DEF BInv, Spinners
<1>. USE <1>0 DEF Typed, MayRetry, At, Idle, Loads, Checks
<1>1. CASE Prepare(c)
  BY <1>1 DEF Prepare
<1>2. CASE Check(c)
  BY <1>2 DEF Check, CheckFrom
<1>3. CASE \E b \in Backends : Choose(c, b)
  <2>1. PICK b \in Backends : Choose(c, b)
    BY <1>3
  <2>2. \/ call'[c] = At("loading", b) /\ call[c].pc = "choosing"
        \/ call'[c] = At("fixtures", b) /\ call[c].pc = "adapter"
    BY <2>1 DEF Choose
  <2>. QED  BY <2>1, <2>2 DEF Choose
<1>4. CASE Fixtures(c)
  <2>1. call[c].pc = "fixtures" /\ call'[c].pc = "models"
    BY <1>4 DEF Fixtures
  <2>. QED  BY <1>4, <2>1 DEF Fixtures
<1>5. CASE GoOn(c)
  <2>1. CASE call[c].pc = "loading"
    BY <1>5, <2>1 DEF GoOn, CheckFrom
  <2>2. CASE call[c].pc = "models"
    <3>1. call'[c].pc = "comparing"
      BY <1>5, <2>2 DEF GoOn
    <3>. QED  BY <1>5, <2>2, <3>1 DEF GoOn
  <2>. QED  BY <1>5, <2>1, <2>2 DEF GoOn
<1>6. CASE ImportFails(c)
  BY <1>6 DEF ImportFails
<1>7. CASE CheckFails(c)
  BY <1>7 DEF CheckFails
<1>8. CASE \E passed \in BOOLEAN : Compared(c, passed)
  BY <1>8 DEF Compared, Report, Chosen
<1>. QED  BY <1>1, <1>2, <1>3, <1>4, <1>5, <1>6, <1>7, <1>8 DEF Settle

LEMMA CallStep ==
  ASSUME BInv, None \notin Report, NEW c \in Calls, Prepare(c) \/ Check(c) \/ Settle(c)
  PROVE  BInv'
<1>1. /\ Typed /\ Chosen /\ HasModels /\ Spinners
      /\ [Next]_vars
  BY DEF BInv, Next
<1>2. \A b \in Backends : models[b] = "loaded" => models'[b] = "loaded"
  BY <1>1, LoadedStays
<1>3. \A d \in Calls : d # c => call'[d] = call[d]
  BY <1>1, OnePlace DEF Typed
<1>4. Typed'
  BY <1>1, OnePlace, OneResult DEF Typed
<1>5. Chosen'
  BY <1>1, <1>3, OnePlace DEF Chosen
<1>6. HasModels'
  <2>1. \A d \in Calls : call'[d].pc = "comparing" =>
          call'[d].chosen \in Backends /\ models[call'[d].chosen] = "loaded"
    BY <1>1, <1>3, OnePlace DEF HasModels, Chosen
  <2>2. parity' # None => parity' \in Report /\ models[parity'.backend] = "loaded"
    BY <1>1, OneResult DEF HasModels, Typed
  <2>. QED  BY <1>2, <2>1, <2>2 DEF HasModels, Report
<1>7. LoadingHasACall'
  BY <1>1, <1>3, OneFlag DEF Spinners, LoadingHasACall
<1>8. CheckingHasACall'
  BY <1>1, <1>3, OneFlag DEF Spinners, CheckingHasACall
<1>9. PreparedIsKnown'
  BY OneFlag DEF PreparedIsKnown
<1>10. MayRetry'
  BY OneFlag DEF MayRetry
<1>. QED  BY <1>4, <1>5, <1>6, <1>7, <1>8, <1>9, <1>10 DEF BInv, Spinners

LEMMA OtherStep ==
  ASSUME BInv, NEW b \in Backends, UseBackend(b) \/ Fetched(b)
  PROVE  BInv'
<1>1. Typed /\ Chosen /\ HasModels /\ Spinners
  BY DEF BInv
<1>2. CASE UseBackend(b)
  <2>1. Typed' /\ Chosen' /\ HasModels'
    BY <1>1, <1>2 DEF UseBackend, Typed, Chosen, HasModels
  <2>2. Spinners'
    BY <1>1, <1>2 DEF UseBackend, Spinners, LoadingHasACall, CheckingHasACall, PreparedIsKnown, MayRetry
  <2>. QED  BY <2>1, <2>2 DEF BInv
<1>3. CASE Loaded(b)
  <2>1. Typed' /\ Chosen'
    BY <1>1, <1>3 DEF Loaded, Typed, Chosen
  <2>2. HasModels'
    BY <1>1, <1>3 DEF Loaded, Typed, Chosen, HasModels, Report
  <2>3. Spinners'
    BY <1>1, <1>3 DEF Loaded, Spinners, LoadingHasACall, CheckingHasACall, PreparedIsKnown, MayRetry
  <2>. QED  BY <2>1, <2>2, <2>3 DEF BInv
<1>4. CASE LoadFails(b)
  <2>. DEFINE loads == Waiting(b, "loading")
              checks == Waiting(b, "models")
  <2>1. /\ models' = [models EXCEPT ![b] = "absent"] /\ models[b] = "pending"
        /\ call' = [c \in Calls |-> IF c \in loads \cup checks THEN Idle ELSE call[c]]
        /\ UNCHANGED <<backend, parity>>
    BY <1>4 DEF LoadFails
  <2>2. /\ loading' => loading /\ loads = {}
        /\ checking' => checking /\ checks = {}
        /\ preparing' => preparing /\ loads = {}
        /\ loadError' => loadError \/ loads # {}
        /\ parityError \/ checks # {} => parityError'
    BY <1>4 DEF LoadFails
  <2>3. /\ \A c \in loads : c \in Calls /\ call[c].pc = "loading"
        /\ \A c \in checks : c \in Calls /\ call[c].pc = "models"
    BY DEF Waiting, At
  <2>. HIDE DEF loads, checks
  <2>4. Typed' /\ Chosen'
    BY <1>1, <2>1 DEF Typed, Chosen, Idle, Waits
  <2>5. HasModels'
    <3>1. \A c \in Calls : call'[c].pc = "comparing" =>
            call'[c].chosen # b /\ call'[c].chosen \in Backends /\ models[call'[c].chosen] = "loaded"
      BY <1>1, <2>1 DEF HasModels, Chosen, Idle
    <3>. QED  BY <1>1, <2>1, <3>1 DEF HasModels, Typed, Report
  <2>6. LoadingHasACall'
    BY <1>1, <2>1, <2>2, <2>3 DEF Spinners, LoadingHasACall, Loads
  <2>7. CheckingHasACall'
    BY <1>1, <2>1, <2>2, <2>3 DEF Spinners, CheckingHasACall, Checks
  <2>8. PreparedIsKnown'
    BY <1>1, <2>1, <2>2, <2>3 DEF Spinners, PreparedIsKnown
  <2>9. MayRetry'
    BY <1>1, <2>2 DEF Spinners, MayRetry
  <2>. QED  BY <2>4, <2>5, <2>6, <2>7, <2>8, <2>9 DEF BInv, Spinners
<1>. QED  BY <1>2, <1>3, <1>4 DEF Fetched

\* However calls of prepare and check, switches and failures overlap: a failed
\* load can be tried again, a report is of models that were loaded, and a quiet
\* session has no spinner left and knows its outcome.
THEOREM SessionSettles == None \notin Report => (Spec => []SettledSession)
<1>. SUFFICES ASSUME None \notin Report PROVE Spec => []SettledSession
  OBVIOUS
<1>1. Init => BInv
  BY DEF Init, BInv, Typed, Chosen, HasModels, Spinners, LoadingHasACall, CheckingHasACall,
         PreparedIsKnown, MayRetry, Idle, Waits
<1>2. BInv /\ [Next]_vars => BInv'
  <2>. SUFFICES ASSUME BInv, [Next]_vars PROVE BInv'
    OBVIOUS
  <2>1. CASE \E c \in Calls : Prepare(c) \/ Check(c) \/ Settle(c)
    BY <2>1, CallStep
  <2>2. CASE \E b \in Backends : UseBackend(b) \/ Fetched(b)
    BY <2>2, OtherStep
  <2>3. CASE UNCHANGED vars
    BY <2>3 DEF vars, BInv, Typed, Chosen, HasModels, Spinners, LoadingHasACall, CheckingHasACall,
                PreparedIsKnown, MayRetry
  <2>. QED  BY <2>1, <2>2, <2>3 DEF Next
<1>3. BInv => SettledSession
  BY DEF BInv, Typed, HasModels, Spinners, LoadingHasACall, CheckingHasACall,
         PreparedIsKnown, MayRetry, SettledSession, Idle, Loads, Checks
<1>. QED  BY <1>1, <1>2, <1>3, PTL DEF Spec
=============================================================================
