----------------------------- MODULE JobsProofs -----------------------------
(***************************************************************************)
(* Proofs about Jobs.  Under any faults: its types, that reported work is  *)
(* stored, and that a stream never goes back.  As long as enqueue never    *)
(* fails for a job that Redis queued and RQ raises no timeout after a      *)
(* job's last update (Orderly): that the rows implement JobLifecycle, and  *)
(* that a done event is the last word on its job.                          *)
(***************************************************************************)
EXTENDS Jobs, TLAPS

(***************************************************************************)
(* Arithmetic of progress.                                                 *)
(***************************************************************************)
\* Division is monotone, and bounded by a factor of the dividend's bound.
LEMMA DivMono ==
  ASSUME NEW a \in Nat, NEW b \in Nat, NEW d \in Nat \ {0}, a <= b
  PROVE  a \div d <= b \div d
BY SMT

LEMMA DivBound ==
  ASSUME NEW a \in Nat, NEW c \in Nat, NEW d \in Nat \ {0}, a <= c * d
  PROVE  a \div d \in 0 .. c
BY SMT

\* Progress stays within 0 .. 100 (frames within 0 .. 80) for the counts that
\* a job reports: at most as many photos or tracks as there are.
LEMMA ProgressInRange ==
  ASSUME NEW phase \in {"photo", "frame", "track"}, NEW n \in Nat, NEW of \in Nat,
         phase = "frame" => of >= 1,
         phase # "frame" => n <= of
  PROVE  /\ ProgressOf(phase, n, of) \in 0 .. Complete
         /\ phase = "frame" => ProgressOf(phase, n, of) <= 80
         /\ phase = "track" => ProgressOf(phase, n, of) >= 80
<1>1. AtLeastOne(of) \in Nat \ {0} /\ of <= AtLeastOne(of)
  BY DEF AtLeastOne
<1>2. CASE phase = "photo"
  <2>1. 100 * n \in Nat /\ 100 * n <= 100 * AtLeastOne(of)
    BY <1>1, <1>2
  <2>2. (100 * n) \div AtLeastOne(of) \in 0 .. 100
    <3>. DEFINE a == 100 * n
                d == AtLeastOne(of)
    <3>1. a \in Nat /\ d \in Nat \ {0} /\ 100 \in Nat /\ a <= 100 * d
      BY <1>1, <2>1
    <3>. HIDE DEF a, d
    <3>2. a \div d \in 0 .. 100
      BY <3>1, DivBound
    <3>. QED  BY <3>2 DEF a, d
  <2>. QED  BY <1>2, <2>2 DEF ProgressOf, Complete
<1>3. CASE phase = "frame"
  <2>1. Least(n, of) \in Nat /\ 80 * Least(n, of) <= 80 * of /\ of \in Nat \ {0}
    BY <1>3 DEF Least
  <2>2. (80 * Least(n, of)) \div of \in 0 .. 80
    <3>. DEFINE a == 80 * Least(n, of)
    <3>1. a \in Nat /\ 80 \in Nat /\ a <= 80 * of
      BY <2>1
    <3>. HIDE DEF a
    <3>2. a \div of \in 0 .. 80
      BY <2>1, <3>1, DivBound
    <3>. QED  BY <3>2 DEF a
  <2>. QED  BY <1>3, <2>2 DEF ProgressOf, Complete
<1>4. CASE phase = "track"
  <2>1. 20 * n <= 20 * AtLeastOne(of)
    BY <1>1, <1>4
  <2>2. (20 * n) \div AtLeastOne(of) \in 0 .. 20
    BY <1>1, <2>1, DivBound
  <2>. QED  BY <1>4, <2>2 DEF ProgressOf, Complete
<1>. QED  BY <1>2, <1>3, <1>4

\* The order of two reports passes through any value between them.
LEMMA PassesThrough ==
  ASSUME NEW a \in Nat, NEW b \in Nat, NEW c \in Nat, a <= b, b <= c
  PROVE  a <= c
OBVIOUS

LEMMA ProgressAtZero ==
  ASSUME NEW phase \in {"photo", "frame", "track"}, NEW of \in Nat,
         phase = "frame" => of >= 1
  PROVE  /\ ProgressOf(phase, 0, of) \in 0 .. Complete
         /\ phase = "track" => ProgressOf(phase, 0, of) >= 80
<1>1. 0 \in Nat /\ 0 <= of
  OBVIOUS
<1>. QED  BY <1>1, ProgressInRange

\* Counting one more item never lowers the progress.
LEMMA ProgressGrows ==
  ASSUME NEW phase \in {"photo", "frame", "track"}, NEW n \in Nat, NEW of \in Nat,
         phase = "frame" => of >= 1
  PROVE  ProgressOf(phase, n, of) <= ProgressOf(phase, n + 1, of)
<1>1. AtLeastOne(of) \in Nat \ {0}
  BY DEF AtLeastOne
<1>2. CASE phase = "photo"
  <2>1. (100 * n) \div AtLeastOne(of) <= (100 * (n + 1)) \div AtLeastOne(of)
    BY <1>1, DivMono
  <2>. QED  BY <1>2, <2>1 DEF ProgressOf
<1>3. CASE phase = "frame"
  <2>1. /\ 80 * Least(n, of) \in Nat /\ 80 * Least(n + 1, of) \in Nat
        /\ 80 * Least(n, of) <= 80 * Least(n + 1, of)
        /\ of \in Nat \ {0}
    BY <1>3 DEF Least
  <2>2. (80 * Least(n, of)) \div of <= (80 * Least(n + 1, of)) \div of
    BY <2>1, DivMono
  <2>. QED  BY <1>3, <2>2 DEF ProgressOf
<1>4. CASE phase = "track"
  <2>1. (20 * n) \div AtLeastOne(of) <= (20 * (n + 1)) \div AtLeastOne(of)
    BY <1>1, DivMono
  <2>2. (20 * n) \div AtLeastOne(of) \in Nat /\ (20 * (n + 1)) \div AtLeastOne(of) \in Nat
    BY <1>1
  <2>. QED  BY <1>4, <2>1, <2>2 DEF ProgressOf
<1>. QED  BY <1>2, <1>3, <1>4
-----------------------------------------------------------------------------
(***************************************************************************)
(* Types.  A report is in range because of what a worker counts: that is   *)
(* the inductive part.                                                     *)
(***************************************************************************)
Items(k) == k.phase \in {"photo", "track"} /\ k.n <= k.of

Counts(k) ==
  /\ k.pc = "idle" <=> k.job = NoJob
  /\ k.pc = "frame" => k.phase = "frame" /\ k.of >= 1
  /\ k.pc = "item" => Items(k)
  /\ k.pc = "report" => Items(k) /\ k.n < k.of

Counted == \A w \in Workers : Counts(worker[w])

\* An open stream follows a job.
Followed == \A s \in Streams : stream[s].open => stream[s].job \in Jobs

TInv == TypeOK /\ Counted /\ Followed

\* Writing a typed row of one job leaves all rows typed.
LEMMA UpdateTyped ==
  ASSUME TypeOK, NEW j \in Jobs, NEW status \in Status, NEW progress \in 0 .. Complete,
         NEW message \in Message, NEW result \in SUBSET Nat, NEW error \in BOOLEAN,
         \A a, b \in result : a = b,
         Update(j, status, progress, message, result, error)
  PROVE  /\ row' \in [Jobs -> JobRow]
         /\ \A i \in Jobs : \A a, b \in row'[i].result : a = b
<1>. DEFINE r == [status |-> status, kind |-> row[j].kind, progress |-> progress,
                  message |-> message, result |-> result, error |-> error]
<1>1. r \in JobRow
  <2>1. row[j].kind \in {"folder", "video"}
    BY DEF TypeOK, JobRow
  <2>. QED  BY <2>1 DEF JobRow
<1>2. r.result = result
  OBVIOUS
<1>3. row' = [row EXCEPT ![j] = r] /\ row \in [Jobs -> JobRow]
  BY DEF Update, TypeOK
<1>. HIDE DEF r
<1>4. row' \in [Jobs -> JobRow] /\ row'[j] = r /\ \A i \in Jobs : i # j => row'[i] = row[i]
  BY <1>1, <1>3
<1>5. ASSUME NEW i \in Jobs PROVE \A a, b \in row'[i].result : a = b
  BY <1>2, <1>4 DEF TypeOK
<1>. QED  BY <1>4, <1>5

\* Giving one worker a typed step leaves all workers typed and counted.
LEMMA GoOnTyped ==
  ASSUME TInv, NEW w \in Workers, NEW k \in Worker, Counts(k),
         worker' = [worker EXCEPT ![w] = k]
  PROVE  worker' \in [Workers -> Worker] /\ Counted'
<1>1. worker \in [Workers -> Worker] /\ \A v \in Workers : Counts(worker[v])
  BY DEF TInv, TypeOK, Counted
<1>2. worker' \in [Workers -> Worker] /\ worker'[w] = k
      /\ \A v \in Workers : v # w => worker'[v] = worker[v]
  BY <1>1
<1>3. \A v \in Workers : Counts(worker'[v])
  BY <1>1, <1>2
<1>. QED  BY <1>2, <1>3 DEF Counted, Counts, Items

\* A report of n items is a typed update of the row.
LEMMA ReportTyped ==
  ASSUME TypeOK, NEW w \in Workers, worker[w].job \in Jobs, NEW n \in Nat,
         worker[w].phase = "frame" => worker[w].of >= 1,
         worker[w].phase # "frame" => n <= worker[w].of,
         Reported(w, n)
  PROVE  /\ row' \in [Jobs -> JobRow]
         /\ \A i \in Jobs : \A a, b \in row'[i].result : a = b
<1>. DEFINE k == worker[w]
            j == worker[w].job
            p == ProgressOf(k.phase, n, k.of)
            m == <<k.phase, n>>
<1>1. k.phase \in {"photo", "frame", "track"} /\ k.of \in Nat
  BY DEF TypeOK, Worker
<1>2. p \in 0 .. Complete
  BY <1>1, ProgressInRange
<1>3. m \in Message
  BY <1>1 DEF Message
<1>4. row[j] \in JobRow /\ \A a, b \in row[j].result : a = b
  BY DEF TypeOK
<1>5. /\ row[j].status \in Status /\ row[j].result \in SUBSET Nat
      /\ row[j].error \in BOOLEAN
  BY <1>4 DEF JobRow
<1>6. Update(j, row[j].status, p, m, row[j].result, row[j].error)
  BY DEF Reported
<1>. HIDE DEF p, m
<1>. QED  BY <1>2, <1>3, <1>4, <1>5, <1>6, UpdateTyped

\* What a worker holds, column by column, and the state of a job as sent.
LEMMA WorkerTyped ==
  ASSUME TInv, NEW w \in Workers
  PROVE  /\ worker[w].job \in Jobs \cup {NoJob}
         /\ worker[w].pc # "idle" => worker[w].job \in Jobs
         /\ worker[w].phase \in {"photo", "frame", "track"}
         /\ worker[w].of \in Nat /\ worker[w].n \in Nat /\ worker[w].listed \in Nat
         /\ Counts(worker[w])
<1>1. worker[w] \in Worker /\ Counts(worker[w])
  BY DEF TInv, TypeOK, Counted
<1>. QED  BY <1>1 DEF Worker, Counts

LEMMA RowTyped ==
  ASSUME TypeOK, NEW j \in Jobs
  PROVE  /\ row[j].status \in Status /\ row[j].progress \in 0 .. Complete
         /\ row[j].message \in Message /\ row[j].result \in SUBSET Nat
         /\ row[j].error \in BOOLEAN /\ row[j].kind \in {"folder", "video"}
         /\ \A a, b \in row[j].result : a = b
         /\ StateOf(j) \in State
<1>1. row[j] \in JobRow /\ \A a, b \in row[j].result : a = b
  BY DEF TypeOK
<1>. QED  BY <1>1 DEF JobRow, StateOf, State

\* The worker's next step with the counts it has; only the steps that change
\* them or enter a loop say more.
LEMMA GoOnSteps ==
  ASSUME TInv, NEW w \in Workers, worker[w].pc # "idle",
         NEW pc \in {"start", "source", "frame", "item", "report", "return", "fail",
                 "overdue"},
         NEW phase \in {"photo", "frame", "track"}, NEW of \in Nat, NEW n \in Nat,
         NEW listed \in Nat,
         pc = "frame" => phase = "frame" /\ of >= 1,
         pc = "item" => phase # "frame" /\ n <= of,
         pc = "report" => phase # "frame" /\ n < of,
         GoOn(w, pc, phase, of, n, listed)
  PROVE  worker' \in [Workers -> Worker] /\ Counted'
<1>. DEFINE k == [pc |-> pc, job |-> worker[w].job, phase |-> phase, of |-> of, n |-> n,
                  listed |-> listed]
<1>1. worker[w].job \in Jobs
  BY WorkerTyped
<1>2. k \in Worker
  BY <1>1 DEF Worker
<1>3. k.pc = pc /\ k.job = worker[w].job /\ k.phase = phase /\ k.of = of /\ k.n = n
  OBVIOUS
<1>4. worker' = [worker EXCEPT ![w] = k]
  BY DEF GoOn
<1>. HIDE DEF k
<1>5. Counts(k)
  BY <1>1, <1>3, JobsAssumption DEF Counts, Items
<1>. QED  BY <1>2, <1>4, <1>5, GoOnTyped

LEMMA IdleTyped ==
  ASSUME TInv, NEW w \in Workers, worker' = [worker EXCEPT ![w] = Idle]
  PROVE  worker' \in [Workers -> Worker] /\ Counted'
<1>1. Idle \in Worker /\ Counts(Idle)
  BY DEF Idle, Worker, Counts
<1>. QED  BY <1>1, GoOnTyped
\* A change of status and error alone is a typed update of the row.
LEMMA StatusTyped ==
  ASSUME TypeOK, NEW j \in Jobs, NEW status \in Status, NEW error \in BOOLEAN,
         Update(j, status, row[j].progress, row[j].message, row[j].result, error)
  PROVE  /\ row' \in [Jobs -> JobRow]
         /\ \A i \in Jobs : \A a, b \in row'[i].result : a = b
<1>1. /\ row[j].progress \in 0 .. Complete /\ row[j].message \in Message
      /\ row[j].result \in SUBSET Nat /\ \A a, b \in row[j].result : a = b
  BY RowTyped
<1>. QED  BY <1>1, UpdateTyped

\* Every step leaves the types and the counts of the workers intact.
LEMMA TInvStep == TInv /\ [Next]_vars => TInv'
<1>. SUFFICES ASSUME TInv, [Next]_vars PROVE TInv'
  OBVIOUS
<1>0. /\ TypeOK /\ Counted /\ Followed
      /\ row \in [Jobs -> JobRow] /\ queue \in Seq(Jobs)
      /\ request \in [Jobs -> {"none", "enqueue", "refuse", "reply",
                               "accepted", "unavailable", "dead"}]
      /\ worker \in [Workers -> Worker] /\ saved \in [Jobs -> Nat]
      /\ stream \in [Streams -> Stream]
      /\ \A j \in Jobs : \A a, b \in row[j].result : a = b
      /\ \A s \in Streams : \A a, b \in stream[s].last : a = b
  BY DEF TInv, TypeOK
<1>l. lost' \in SUBSET Jobs
  <2>1. lost \in SUBSET Jobs
    BY DEF TInv, TypeOK
  <2>2. ASSUME NEW w \in Workers, worker[w].pc # "idle", Abandon(w) PROVE lost' \in SUBSET Jobs
    BY <2>1, <2>2, WorkerTyped DEF Abandon
  <2>3. UNCHANGED lost \/ \E w \in Workers : worker[w].pc # "idle" /\ Abandon(w)
    BY DEF Next, vars, Create, Serve, Enqueue, Refuse, Reply, ApiCrash, Take, Work, Begin,
       OpenSource, SampleFrame, EndOfVideo, SaveItem, ReportItem, Finish, Return,
       RecordFailure, Raise, Escape, Kill, Open, Poll, Disconnect
  <2>. QED  BY <2>1, <2>2, <2>3
<1>. DEFINE RowOK == /\ row' \in [Jobs -> JobRow]
                     /\ \A j \in Jobs : \A a, b \in row'[j].result : a = b
            WorkerOK == worker' \in [Workers -> Worker] /\ Counted'
            StreamOK == /\ stream' \in [Streams -> Stream]
                        /\ \A s \in Streams : \A a, b \in stream'[s].last : a = b
                        /\ Followed'
            RestOK == /\ queue' \in Seq(Jobs) /\ saved' \in [Jobs -> Nat]
                      /\ request' \in [Jobs -> {"none", "enqueue", "refuse", "reply",
                                                "accepted", "unavailable", "dead"}]
<1>q. RowOK /\ WorkerOK /\ StreamOK /\ RestOK => TInv'
  BY <1>l DEF TInv, TypeOK
<1>r. UNCHANGED row => RowOK
  BY <1>0
<1>w. UNCHANGED worker => WorkerOK
  BY <1>0 DEF Counted
<1>s. UNCHANGED stream => StreamOK
  BY <1>0 DEF Followed
<1>t. UNCHANGED <<queue, saved, request>> => RestOK
  BY <1>0
<1>. HIDE DEF RowOK, WorkerOK, StreamOK, RestOK
<1>1. ASSUME NEW j \in Jobs, NEW kind \in {"folder", "video"}, Create(j, kind) PROVE TInv'
  <2>. DEFINE r == [status |-> "queued", kind |-> kind, progress |-> 0,
                    message |-> <<"queued", 0>>, result |-> {}, error |-> FALSE]
  <2>1. r \in JobRow /\ r.result = {}
    BY DEF JobRow, Status, Complete, Message
  <2>2. row' = [row EXCEPT ![j] = r]
    BY <1>1 DEF Create
  <2>. HIDE DEF r
  <2>3. RowOK
    BY <1>0, <2>1, <2>2 DEF RowOK
  <2>4. RestOK
    BY <1>0, <1>1 DEF RestOK, Create
  <2>. QED  BY <1>1, <2>3, <2>4, <1>q, <1>w, <1>s DEF Create
<1>2. ASSUME NEW j \in Jobs, Enqueue(j) PROVE TInv'
  <2>1. RestOK
    <3>1. Append(queue, j) \in Seq(Jobs)
      BY <1>0
    <3>2. queue' \in Seq(Jobs)
      BY <1>0, <1>2, <3>1 DEF Enqueue
    <3>. QED  BY <1>0, <1>2, <3>2 DEF RestOK, Enqueue
  <2>. QED  BY <1>2, <2>1, <1>q, <1>r, <1>w, <1>s DEF Enqueue
<1>3. ASSUME NEW j \in Jobs, Refuse(j) PROVE TInv'
  <2>1. RowOK
    <3>1. "failed" \in Status /\ TRUE \in BOOLEAN
      BY DEF Status
    <3>2. Update(j, "failed", row[j].progress, row[j].message, row[j].result, TRUE)
      BY <1>3 DEF Refuse
    <3>. QED  BY <1>0, <3>1, <3>2, RowTyped, UpdateTyped DEF RowOK
  <2>2. RestOK
    BY <1>0, <1>3 DEF RestOK, Refuse
  <2>. QED  BY <1>3, <2>1, <2>2, <1>q, <1>w, <1>s DEF Refuse
<1>4. ASSUME NEW j \in Jobs, Reply(j) \/ ApiCrash(j) PROVE TInv'
  <2>1. RestOK
    BY <1>0, <1>4 DEF RestOK, Reply, ApiCrash
  <2>. QED  BY <1>4, <2>1, <1>q, <1>r, <1>w, <1>s DEF Reply, ApiCrash
<1>5. ASSUME NEW w \in Workers, Take(w) PROVE TInv'
  <2>. DEFINE k == [pc |-> "start", job |-> Head(queue), phase |-> "photo", of |-> 0,
                    n |-> 0, listed |-> 0]
  <2>1. Head(queue) \in Jobs /\ Tail(queue) \in Seq(Jobs)
    BY <1>0, <1>5 DEF Take
  <2>2. k \in Worker /\ Counts(k)
    BY <2>1, JobsAssumption DEF Worker, Counts
  <2>3. worker' = [worker EXCEPT ![w] = k]
    BY <1>5 DEF Take
  <2>. HIDE DEF k
  <2>4. WorkerOK
    BY <2>2, <2>3, GoOnTyped DEF WorkerOK
  <2>5. RestOK
    BY <1>0, <1>5, <2>1 DEF RestOK, Take
  <2>. QED  BY <1>5, <2>4, <2>5, <1>q, <1>r, <1>s DEF Take
<1>6. ASSUME NEW w \in Workers, Work(w) \/ Raise(w) \/ Escape(w) \/ Kill(w) PROVE TInv'
  <2>0. /\ worker[w].job \in Jobs \cup {NoJob}
        /\ worker[w].pc # "idle" => worker[w].job \in Jobs
        /\ worker[w].phase \in {"photo", "frame", "track"}
        /\ worker[w].of \in Nat /\ worker[w].n \in Nat /\ worker[w].listed \in Nat
        /\ Counts(worker[w])
    BY WorkerTyped
  <2>i. worker' = [worker EXCEPT ![w] = Idle] => WorkerOK
    BY IdleTyped DEF WorkerOK
  <2>j. worker[w].pc # "idle" =>
          /\ row[worker[w].job].status \in Status
          /\ row[worker[w].job].progress \in 0 .. Complete
          /\ row[worker[w].job].message \in Message
          /\ row[worker[w].job].result \in SUBSET Nat
          /\ row[worker[w].job].error \in BOOLEAN
          /\ \A a, b \in row[worker[w].job].result : a = b
    BY <1>0, <2>0, RowTyped
  <2>1. CASE Begin(w)
    <3>1. RowOK
      <4>1. /\ Update(worker[w].job, "running", row[worker[w].job].progress,
                      row[worker[w].job].message, row[worker[w].job].result,
                      row[worker[w].job].error)
            /\ worker[w].job \in Jobs /\ worker[w].pc # "idle" /\ "running" \in Status
        BY <2>0, <2>1 DEF Begin, Status
      <4>2. row[worker[w].job].error \in BOOLEAN
        BY <2>j, <4>1
      <4>. QED  BY <1>0, <4>1, <4>2, StatusTyped DEF RowOK
    <3>2. WorkerOK
      <4>1. /\ GoOn(w, "source", worker[w].phase, worker[w].of, worker[w].n,
                    worker[w].listed)
            /\ worker[w].pc # "idle"
        BY <2>1 DEF Begin, GoTo
      <4>. QED  BY <2>0, <4>1, GoOnSteps DEF WorkerOK
    <3>. QED  BY <2>1, <3>1, <3>2, <1>q, <1>s, <1>t DEF Begin
  <2>2. CASE OpenSource(w)
    <3>1. WorkerOK
      <4>1. CASE \E photos \in 0 .. MaxWork : GoOn(w, "item", "photo", photos, 0, 0)
        BY <2>2, <4>1, GoOnSteps DEF WorkerOK, OpenSource
      <4>2. CASE \E total \in 1 .. MaxWork : GoOn(w, "frame", "frame", total, 0, 0)
        BY <2>2, <4>2, GoOnSteps DEF WorkerOK, OpenSource
      <4>. QED  BY <2>2, <4>1, <4>2 DEF OpenSource
    <3>. QED  BY <2>2, <3>1, <1>q, <1>r, <1>s, <1>t DEF OpenSource
  <2>3. CASE SampleFrame(w)
    <3>1. RowOK
      BY <1>0, <2>0, <2>3, ReportTyped DEF RowOK, SampleFrame, Counts
    <3>2. WorkerOK
      <4>1. /\ GoOn(w, "frame", worker[w].phase, worker[w].of, worker[w].n + 1, 0)
            /\ worker[w].pc = "frame" /\ worker[w].phase = "frame" /\ worker[w].of >= 1
        BY <2>0, <2>3 DEF SampleFrame, Counts
      <4>. QED  BY <2>0, <4>1, GoOnSteps DEF WorkerOK
    <3>. QED  BY <2>3, <3>1, <3>2, <1>q, <1>s, <1>t DEF SampleFrame
  <2>4. CASE EndOfVideo(w)
    <3>1. WorkerOK
      <4>1. PICK tracks \in 0 .. MaxWork : GoOn(w, "item", "track", tracks, 0, 0)
        BY <2>4 DEF EndOfVideo
      <4>2. tracks \in Nat /\ 0 <= tracks /\ worker[w].pc # "idle"
        BY <2>4 DEF EndOfVideo
      <4>. QED  BY <4>1, <4>2, GoOnSteps DEF WorkerOK
    <3>. QED  BY <2>4, <3>1, <1>q, <1>r, <1>s, <1>t DEF EndOfVideo
  <2>5. CASE SaveItem(w)
    <3>1. /\ worker[w].pc # "idle" /\ worker[w].job \in Jobs
          /\ worker[w].phase # "frame" /\ worker[w].n < worker[w].of
      BY <2>0, <2>5 DEF SaveItem, Counts, Items
    <3>2. WorkerOK
      BY <2>0, <2>5, <3>1, GoOnSteps DEF WorkerOK, SaveItem, GoTo
    <3>3. RestOK
      BY <1>0, <2>5, <3>1 DEF RestOK, SaveItem
    <3>. QED  BY <2>5, <3>2, <3>3, <1>q, <1>r, <1>s DEF SaveItem
  <2>6. CASE ReportItem(w)
    <3>1. /\ worker[w].pc # "idle" /\ worker[w].job \in Jobs
          /\ worker[w].phase # "frame" /\ worker[w].n + 1 \in Nat
          /\ worker[w].n + 1 <= worker[w].of
      BY <2>0, <2>6 DEF ReportItem, Counts, Items
    <3>2. RowOK
      BY <1>0, <2>0, <2>6, <3>1, ReportTyped DEF RowOK, ReportItem
    <3>3. WorkerOK
      <4>1. GoOn(w, "item", worker[w].phase, worker[w].of, worker[w].n + 1, worker[w].listed)
        BY <2>6 DEF ReportItem
      <4>. QED  BY <2>0, <3>1, <4>1, GoOnSteps DEF WorkerOK
    <3>. QED  BY <2>6, <3>2, <3>3, <1>q, <1>s, <1>t DEF ReportItem
  <2>7. CASE Finish(w)
    <3>1. RowOK
      <4>. DEFINE m == <<"done", 0>>
                  l == {worker[w].listed}
                  j == worker[w].job
                  e == row[worker[w].job].error
      <4>1. Update(j, "finished", Complete, m, l, e) /\ j \in Jobs /\ e \in BOOLEAN
        BY <2>0, <2>j, <2>7 DEF Finish
      <4>2. "finished" \in Status /\ Complete \in 0 .. Complete
        BY DEF Status, Complete
      <4>3. m \in Message /\ l \in SUBSET Nat /\ \A a, b \in l : a = b
        BY <2>0 DEF Message
      <4>4. TypeOK
        BY <1>0
      <4>. HIDE DEF m, l, j, e
      <4>. QED  BY <4>1, <4>2, <4>3, <4>4, UpdateTyped DEF RowOK
    <3>2. WorkerOK
      <4>1. /\ GoOn(w, "return", worker[w].phase, worker[w].of, worker[w].n,
                    worker[w].listed)
            /\ worker[w].pc # "idle"
        BY <2>7 DEF Finish, GoTo
      <4>. QED  BY <2>0, <4>1, GoOnSteps DEF WorkerOK
    <3>. QED  BY <2>7, <3>1, <3>2, <1>q, <1>s, <1>t DEF Finish
  <2>8. CASE Return(w) \/ Escape(w) \/ Kill(w)
    BY <2>8, <2>i, <1>q, <1>r, <1>s, <1>t DEF Return, Escape, Abandon, Kill
  <2>9. CASE RecordFailure(w)
    <3>1. RowOK
      <4>1. /\ Update(worker[w].job, "failed", row[worker[w].job].progress,
                      row[worker[w].job].message, row[worker[w].job].result, TRUE)
            /\ worker[w].job \in Jobs /\ worker[w].pc # "idle"
            /\ "failed" \in Status /\ TRUE \in BOOLEAN
        BY <2>0, <2>9 DEF RecordFailure, Status
      <4>. QED  BY <1>0, <4>1, StatusTyped DEF RowOK
    <3>. QED  BY <2>9, <2>i, <3>1, <1>q, <1>s, <1>t DEF RecordFailure
  <2>10. CASE Raise(w)
    <3>1. /\ \/ GoOn(w, "fail", worker[w].phase, worker[w].of, worker[w].n, worker[w].listed)
             \/ GoOn(w, "overdue", worker[w].phase, worker[w].of, worker[w].n,
                     worker[w].listed)
          /\ worker[w].pc # "idle"
      BY <2>10 DEF Raise, GoTo
    <3>2. WorkerOK
      BY <2>0, <3>1, GoOnSteps DEF WorkerOK
    <3>. QED  BY <2>10, <3>2, <1>q, <1>r, <1>s, <1>t DEF Raise
  <2>. QED  BY <1>6, <2>1, <2>2, <2>3, <2>4, <2>5, <2>6, <2>7, <2>8, <2>9, <2>10 DEF Work
<1>7. ASSUME NEW s \in Streams, NEW j \in Jobs, Open(s, j) PROVE TInv'
  <2>. DEFINE n == [job |-> j, open |-> TRUE, last |-> {}]
  <2>1. n \in Stream /\ n.last = {}
    BY DEF Stream
  <2>2a. n.job \in Jobs
    OBVIOUS
  <2>2. stream' = [stream EXCEPT ![s] = n]
    BY <1>7 DEF Open
  <2>. HIDE DEF n
  <2>3. StreamOK
    BY <1>0, <2>1, <2>2, <2>2a DEF StreamOK, Followed
  <2>. QED  BY <1>7, <2>3, <1>q, <1>r, <1>w, <1>t DEF Open
<1>8. ASSUME NEW s \in Streams, Poll(s) PROVE TInv'
  <2>. DEFINE j == stream[s].job
              n == [job |-> j, open |-> row[j].status \notin Ended, last |-> {StateOf(j)}]
              o == row[j].status \notin Ended
  <2>1. j \in Jobs
    BY <1>0, <1>8 DEF Poll, Followed
  <2>2. StateOf(j) \in State
    BY <1>0, <2>1, RowTyped
  <2>3. stream' = [stream EXCEPT ![s] = n]
    BY <1>8 DEF Poll
  <2>4. n \in Stream
    <3>1. o \in BOOLEAN
      OBVIOUS
    <3>2. n = [job |-> j, open |-> o, last |-> {StateOf(j)}]
      OBVIOUS
    <3>. HIDE DEF n, o, j
    <3>. QED  BY <2>1, <2>2, <3>1, <3>2 DEF Stream
  <2>5. n.job = j /\ n.last = {StateOf(j)}
    OBVIOUS
  <2>. HIDE DEF n, j, o
  <2>6. StreamOK
    BY <1>0, <2>1, <2>3, <2>4, <2>5 DEF StreamOK, Followed
  <2>. QED  BY <1>8, <2>6, <1>q, <1>r, <1>w, <1>t DEF Poll
<1>9. ASSUME NEW s \in Streams, Disconnect(s) PROVE TInv'
  <2>. DEFINE n == [job |-> NoJob, open |-> FALSE, last |-> {}]
  <2>1. n \in Stream /\ n.last = {}
    BY DEF Stream
  <2>2a. ~n.open
    OBVIOUS
  <2>2. stream' = [stream EXCEPT ![s] = n]
    BY <1>9 DEF Disconnect
  <2>. HIDE DEF n
  <2>3. StreamOK
    BY <1>0, <2>1, <2>2, <2>2a DEF StreamOK, Followed
  <2>. QED  BY <1>9, <2>3, <1>q, <1>r, <1>w, <1>t DEF Disconnect
<1>10. CASE UNCHANGED vars
  BY <1>10, <1>q, <1>r, <1>w, <1>s, <1>t DEF vars
<1>. QED
  BY <1>1, <1>2, <1>3, <1>4, <1>5, <1>6, <1>7, <1>8, <1>9, <1>10 DEF Next, Serve

\* Initially nothing is created and everybody is idle.
LEMMA TInvInit == Init => TInv
<1>. SUFFICES ASSUME Init PROVE TInv
  OBVIOUS
<1>1. NoRow \in JobRow /\ NoRow.result = {}
  BY DEF NoRow, JobRow, Status, Complete, Message
<1>2. Idle \in Worker /\ Counts(Idle)
  BY DEF Idle, Worker, Counts
<1>. DEFINE c == [job |-> NoJob, open |-> FALSE, last |-> {}]
<1>3. c \in Stream /\ c.last = {} /\ ~c.open
  BY DEF Stream
<1>4. stream = [s \in Streams |-> c]
  BY DEF Init
<1>. HIDE DEF c
<1>5. row \in [Jobs -> JobRow] /\ \A j \in Jobs : row[j].result = {}
  BY <1>1 DEF Init
<1>6. worker \in [Workers -> Worker] /\ Counted
  BY <1>2 DEF Init, Counted
<1>7. stream \in [Streams -> Stream] /\ \A s \in Streams : stream[s].last = {} /\ ~stream[s].open
  BY <1>3, <1>4
<1>8. queue \in Seq(Jobs) /\ saved \in [Jobs -> Nat] /\ lost \in SUBSET Jobs
      /\ request \in [Jobs -> {"none", "enqueue", "refuse", "reply",
                               "accepted", "unavailable", "dead"}]
  BY DEF Init
<1>. QED  BY <1>5, <1>6, <1>7, <1>8 DEF TInv, TypeOK, Followed

LEMMA Typed == Spec => []TInv
<1>1. Init => TInv
  BY TInvInit
<1>2. TInv /\ [Next]_vars => TInv'
  BY TInvStep
<1>. QED  BY <1>1, <1>2, PTL DEF Spec

\* Type correctness, whatever fails: what jobs.py writes to a row keeps its type;
\* in particular the progress of a job never leaves 0 .. 100, however long a
\* video is against what its header says.
THEOREM TypeCorrect == Spec => []TypeOK
<1>1. TInv => TypeOK
  BY DEF TInv
<1>. QED  BY <1>1, Typed, PTL
-----------------------------------------------------------------------------
(***************************************************************************)
(* The rows implement JobLifecycle.  A worker's update writes its columns  *)
(* whatever they hold, so the argument is that nobody else writes the row: *)
(* a job is with its request, in the queue, with one worker, or over.      *)
(***************************************************************************)
\* Not yet queued.
Early == {"none", "enqueue", "refuse"}

Requested ==
  \A j \in Jobs :
    /\ request[j] = "none" => row[j].status = "none" /\ row[j].progress = 0
    /\ request[j] \in {"enqueue", "refuse"} => row[j].status = "queued"

Queued ==
  \A i \in 1 .. Len(queue) :
    /\ row[queue[i]].status = "queued"
    /\ request[queue[i]] \notin Early
    /\ \A h \in 1 .. Len(queue) : queue[h] = queue[i] => h = i

Held ==
  \A w \in Workers : worker[w].job # NoJob =>
    /\ request[worker[w].job] \notin Early
    /\ \A i \in 1 .. Len(queue) : queue[i] # worker[w].job
    /\ \A v \in Workers : worker[v].job = worker[w].job => v = w

Unstarted == \A j \in Jobs : row[j].status = "queued" => row[j].progress = 0

\* What a worker that is at some step knows of its job's row.
NotAhead(k) == row[k.job].progress <= ProgressOf(k.phase, k.n, k.of)

AtStep(k) ==
  /\ k.pc = "start" => row[k.job].status = "queued"
  /\ k.pc \in {"source", "frame", "item", "report"} => row[k.job].status = "running"
  /\ k.pc \in {"fail", "overdue"} => row[k.job].status \in {"queued", "running"}
  /\ k.pc = "source" => row[k.job].progress = 0
  /\ k.pc \in {"frame", "item", "report"} => NotAhead(k)

Working == \A w \in Workers : worker[w].pc # "idle" => AtStep(worker[w])

OneOwner == Requested /\ Queued /\ Held /\ Unstarted /\ Working

\* What an update does to the rows.
LEMMA UpdateSplit ==
  ASSUME TypeOK, NEW j \in Jobs, NEW status, NEW progress, NEW message, NEW result,
         NEW error, Update(j, status, progress, message, result, error)
  PROVE  /\ row'[j].status = status /\ row'[j].progress = progress
         /\ \A i \in Jobs : i # j => row'[i] = row[i]
BY DEF Update, TypeOK

\* A step of the worker that holds a job leaves one owner to every job: only the
\* row of its own job can change.
LEMMA WorkerStep ==
  ASSUME TInv, OneOwner, NEW w \in Workers, worker[w].pc # "idle",
         \A i \in Jobs : i # worker[w].job => row'[i] = row[i],
         \A v \in Workers : v # w => worker'[v] = worker[v],
         worker'[w].job \in {worker[w].job, NoJob},
         worker'[w].pc # "idle" => AtStep(worker[w])',
         row'[worker[w].job].status = "queued" => row'[worker[w].job].progress = 0,
         UNCHANGED <<queue, request>>
  PROVE  OneOwner'
<1>. DEFINE j == worker[w].job
<1>1. j \in Jobs /\ j # NoJob
  BY WorkerTyped, JobsAssumption
<1>2. /\ request[j] \notin Early
      /\ \A i \in 1 .. Len(queue) : queue[i] # j
      /\ \A v \in Workers : v # w => worker[v].job # j
  BY <1>1 DEF OneOwner, Held
<1>3. /\ queue \in Seq(Jobs)
      /\ \A i \in 1 .. Len(queue) : queue[i] \in Jobs
  BY DEF TInv, TypeOK
<1>4. Requested'
  BY <1>1, <1>2 DEF OneOwner, Requested, Early
<1>5. Queued'
  BY <1>1, <1>2, <1>3 DEF OneOwner, Queued
<1>6. Held'
  BY <1>1, <1>2 DEF OneOwner, Held
<1>7. Unstarted'
  BY <1>1 DEF OneOwner, Unstarted
<1>8. Working'
  <2>. SUFFICES ASSUME NEW v \in Workers, worker'[v].pc # "idle" PROVE AtStep(worker[v])'
    BY DEF Working
  <2>1. CASE v = w
    BY <2>1
  <2>2. CASE v # w
    <3>1. worker'[v] = worker[v] /\ worker[v].job \in Jobs /\ worker[v].job # j
      BY <1>2, <2>2, WorkerTyped
    <3>2. AtStep(worker[v])
      BY <3>1 DEF OneOwner, Working
    <3>. QED  BY <3>1, <3>2 DEF AtStep, NotAhead
  <2>. QED  BY <2>1, <2>2
<1>. QED  BY <1>4, <1>5, <1>6, <1>7, <1>8 DEF OneOwner

\* The faults under which a row has one owner: the API learns whether a job was
\* queued, and RQ does not interrupt a job that is finished.
Orderly == {"lost_reply", "timeout"} \cap Faults = {}

LEMMA OneOwnerStep ==
  ASSUME Orderly, TInv, TInv', OneOwner, [Next]_vars
  PROVE  OneOwner'
<1>0. /\ TypeOK /\ row \in [Jobs -> JobRow] /\ worker \in [Workers -> Worker]
      /\ queue \in Seq(Jobs) /\ \A i \in 1 .. Len(queue) : queue[i] \in Jobs
      /\ DOMAIN request = Jobs
      /\ Requested /\ Queued /\ Held /\ Unstarted /\ Working
  BY DEF TInv, TypeOK, OneOwner
<1>s. UNCHANGED <<row, queue, request, worker>> => OneOwner'
  BY DEF OneOwner, Requested, Queued, Held, Unstarted, Working, AtStep, NotAhead
<1>h. \A w \in Workers : worker[w].pc # "idle" => worker[w].job \in Jobs \ {NoJob}
  BY WorkerTyped, JobsAssumption
<1>1. ASSUME NEW j \in Jobs, request[j] \in Early, request'[j] # "none",
             \A i \in Jobs : i # j => row'[i] = row[i] /\ request'[i] = request[i],
             request'[j] \in {"enqueue", "refuse"} => row'[j].status = "queued",
             row'[j].status = "queued" => row'[j].progress = 0,
             UNCHANGED <<queue, worker>>
      PROVE  OneOwner'
  <2>1. /\ \A i \in 1 .. Len(queue) : queue[i] # j
        /\ \A w \in Workers : worker[w].job # j
    BY <1>0, <1>1, JobsAssumption DEF Queued, Held
  <2>2. Requested' /\ Unstarted'
    BY <1>0, <1>1 DEF Requested, Unstarted
  <2>3. Queued'
    BY <1>0, <1>1, <2>1 DEF Queued
  <2>4. Held'
    <3>1. \A w \in Workers : worker[w].job # NoJob => worker[w].job \in Jobs
      BY WorkerTyped
    <3>. QED  BY <1>0, <1>1, <2>1, <3>1 DEF Held
  <2>5. Working'
    <3>. SUFFICES ASSUME NEW w \in Workers, worker[w].pc # "idle" PROVE AtStep(worker[w])'
      BY <1>1 DEF Working
    <3>1. AtStep(worker[w]) /\ row'[worker[w].job] = row[worker[w].job]
      BY <1>0, <1>1, <1>h, <2>1 DEF Working
    <3>. QED  BY <1>1, <3>1 DEF AtStep, NotAhead
  <2>. QED  BY <2>2, <2>3, <2>4, <2>5 DEF OneOwner
<1>2. ASSUME NEW j \in Jobs, NEW kind \in {"folder", "video"}, Create(j, kind) PROVE OneOwner'
  <2>1. row'[j].status = "queued" /\ row'[j].progress = 0
    BY <1>0, <1>2 DEF Create
  <2>. QED  BY <1>0, <1>1, <1>2, <2>1 DEF Create, Early
<1>3. ASSUME NEW j \in Jobs, Enqueue(j) PROVE OneOwner'
  <2>1. CASE request' = [request EXCEPT ![j] = "refuse"] /\ UNCHANGED queue
    <3>1. row[j].status = "queued" /\ row[j].progress = 0
      BY <1>0, <1>3 DEF Requested, Unstarted, Enqueue
    <3>. QED  BY <1>0, <1>1, <1>3, <2>1, <3>1 DEF Enqueue, Early
  <2>2. CASE queue' = Append(queue, j) /\ request' = [request EXCEPT ![j] = "reply"]
    <3>1. request[j] = "enqueue" /\ UNCHANGED <<row, worker>>
      BY <1>3 DEF Enqueue
    <3>2. /\ row[j].status = "queued"
          /\ \A i \in 1 .. Len(queue) : queue[i] # j
          /\ \A w \in Workers : worker[w].job # j
      BY <1>0, <3>1, JobsAssumption DEF Requested, Queued, Held, Early
    <3>3. /\ Len(queue') = Len(queue) + 1 /\ Len(queue) \in Nat
          /\ \A i \in 1 .. Len(queue) : queue'[i] = queue[i]
          /\ queue'[Len(queue) + 1] = j
      BY <1>0, <2>2
    <3>4. Requested' /\ Unstarted' /\ Working'
      BY <1>0, <2>2, <3>1 DEF Requested, Unstarted, Working, AtStep, NotAhead
    <3>5. Queued'
      BY <1>0, <2>2, <3>1, <3>2, <3>3 DEF Queued, Early
    <3>6. Held'
      <4>1. \A w \in Workers : worker[w].job # NoJob => worker[w].job \in Jobs
        BY WorkerTyped
      <4>. QED  BY <1>0, <2>2, <3>1, <3>2, <3>3, <4>1 DEF Held
    <3>. QED  BY <3>4, <3>5, <3>6 DEF OneOwner
  <2>. QED  BY <1>3, <2>1, <2>2 DEF Enqueue, Orderly
<1>4. ASSUME NEW j \in Jobs, Refuse(j) PROVE OneOwner'
  <2>1. row'[j].status = "failed" /\ \A i \in Jobs : i # j => row'[i] = row[i]
    BY <1>0, <1>4, UpdateSplit DEF Refuse
  <2>. QED  BY <1>0, <1>1, <1>4, <2>1 DEF Refuse, Early
<1>5. ASSUME NEW j \in Jobs, Reply(j) \/ ApiCrash(j) PROVE OneOwner'
  <2>1. /\ UNCHANGED <<row, queue, worker>>
        /\ request'[j] \in {"accepted", "dead"}
        /\ \A i \in Jobs : i # j => request'[i] = request[i]
    BY <1>0, <1>5 DEF Reply, ApiCrash
  <2>2. Requested' /\ Unstarted' /\ Working'
    BY <1>0, <2>1 DEF Requested, Unstarted, Working, AtStep, NotAhead
  <2>3. Queued'
    BY <1>0, <2>1 DEF Queued, Early
  <2>4. Held'
    <3>1. \A w \in Workers : worker[w].job # NoJob => worker[w].job \in Jobs
      BY WorkerTyped
    <3>. QED  BY <1>0, <2>1, <3>1 DEF Held, Early
  <2>. QED  BY <2>2, <2>3, <2>4 DEF OneOwner
<1>6. ASSUME NEW w \in Workers, Take(w) PROVE OneOwner'
  <2>. DEFINE j == Head(queue)
  <2>1. /\ Len(queue) \in Nat \ {0} /\ j = queue[1] /\ j \in Jobs
        /\ queue' = Tail(queue) /\ Len(queue') = Len(queue) - 1
        /\ \A i \in 1 .. Len(queue') : queue'[i] = queue[i + 1]
    BY <1>0, <1>6 DEF Take
  <2>2. /\ UNCHANGED <<row, request>> /\ worker[w].pc = "idle"
        /\ worker'[w].job = j /\ worker'[w].pc = "start"
        /\ \A v \in Workers : v # w => worker'[v] = worker[v]
    BY <1>0, <1>6 DEF Take
  <2>3. /\ row[j].status = "queued" /\ request[j] \notin Early
        /\ \A i \in 1 .. Len(queue') : queue'[i] # j
    BY <1>0, <2>1 DEF Queued
  <2>4. \A v \in Workers : worker[v].job # j
    BY <1>0, <2>1, JobsAssumption DEF Held
  <2>. HIDE DEF j
  <2>5. Requested' /\ Unstarted'
    BY <1>0, <2>2 DEF Requested, Unstarted
  <2>6. Queued'
    BY <1>0, <2>1, <2>2 DEF Queued
  <2>7. Held'
    BY <1>0, <2>1, <2>2, <2>3, <2>4 DEF Held
  <2>8. Working'
    BY <1>0, <2>2, <2>3 DEF Working, AtStep, NotAhead
  <2>. QED  BY <2>5, <2>6, <2>7, <2>8 DEF OneOwner
<1>7. ASSUME NEW w \in Workers, Work(w) \/ Raise(w) \/ Escape(w) \/ Kill(w) PROVE OneOwner'
  <2>. DEFINE k == worker[w]
              j == worker[w].job
  <2>1. /\ k.pc # "idle"
        /\ UNCHANGED <<queue, request>>
        /\ \A v \in Workers : v # w => worker'[v] = worker[v]
        /\ worker'[w].job \in {j, NoJob}
        /\ \A i \in Jobs : i # j => row'[i] = row[i]
    <3>1. k.pc # "idle" /\ UNCHANGED <<queue, request>>
      BY <1>7 DEF Work, Begin, OpenSource, SampleFrame, EndOfVideo, SaveItem, ReportItem,
                  Finish, Return, RecordFailure, Raise, Escape, Abandon, Kill
    <3>2. /\ \A v \in Workers : v # w => worker'[v] = worker[v]
          /\ worker'[w].job \in {j, NoJob}
      <4>1. CASE worker' = [worker EXCEPT ![w] = Idle]
        BY <1>0, <4>1 DEF Idle
      <4>2. CASE \E pc, phase, of, n, listed : GoOn(w, pc, phase, of, n, listed)
        BY <1>0, <4>2 DEF GoOn
      <4>3. ASSUME NEW pc, GoTo(w, pc)
            PROVE  \E p, phase, of, n, listed : GoOn(w, p, phase, of, n, listed)
        BY <4>3 DEF GoTo
      <4>. QED
        BY <1>7, <4>1, <4>2, <4>3 DEF Work, Begin, OpenSource, SampleFrame, EndOfVideo,
                  SaveItem, ReportItem, Finish, Return, RecordFailure, Raise,
                  Escape, Abandon, Kill
    <3>3. \A i \in Jobs : i # j => row'[i] = row[i]
      BY <1>0, <1>7 DEF Work, Begin, OpenSource, SampleFrame, EndOfVideo, SaveItem,
                  ReportItem, Finish, Return, RecordFailure, Raise, Escape, Abandon, Kill,
                  Reported, Update
    <3>. QED  BY <3>1, <3>2, <3>3
  <2>2. /\ j \in Jobs /\ AtStep(k) /\ Counts(k)
        /\ k.phase \in {"photo", "frame", "track"} /\ k.n \in Nat /\ k.of \in Nat
        /\ row[j].progress \in 0 .. Complete
    BY <1>0, <1>h, <2>1, WorkerTyped, RowTyped DEF Working
  <2>3. (worker'[w].pc # "idle" => AtStep(worker[w])')
        /\ (row'[j].status = "queued" => row'[j].progress = 0) => OneOwner'
    BY <2>1, WorkerStep
  <2>u. row[j].status = "queued" => row[j].progress = 0
    BY <1>0, <2>2 DEF Unstarted
  <2>4. CASE Begin(w)
    <3>1. row'[j].status = "running" /\ row'[j].progress = row[j].progress
      BY <1>0, <2>2, <2>4, UpdateSplit DEF Begin
    <3>2. worker'[w].pc = "source" /\ worker'[w].job = j
      BY <1>0, <2>4 DEF Begin, GoTo, GoOn
    <3>3. row[j].progress = 0
      BY <2>2, <2>4, <2>u DEF Begin, AtStep
    <3>. QED  BY <2>3, <3>1, <3>2, <3>3 DEF AtStep
  <2>5. CASE OpenSource(w)
    <3>1. /\ worker'[w].job = j /\ worker'[w].n = 0 /\ worker'[w].of \in Nat
          /\ \/ worker'[w].pc = "item" /\ worker'[w].phase = "photo"
             \/ worker'[w].pc = "frame" /\ worker'[w].phase = "frame" /\ worker'[w].of >= 1
      BY <1>0, <2>5 DEF OpenSource, GoOn
    <3>2. UNCHANGED row /\ row[j].status = "running" /\ row[j].progress = 0
      BY <2>2, <2>5 DEF OpenSource, AtStep
    <3>3. ProgressOf(worker'[w].phase, 0, worker'[w].of) >= 0
      <4>1. ProgressOf(worker'[w].phase, 0, worker'[w].of) \in 0 .. Complete
        BY <3>1, ProgressAtZero
      <4>. QED  BY <4>1 DEF Complete
    <3>. QED  BY <2>3, <3>1, <3>2, <3>3 DEF AtStep, NotAhead
  <2>6. CASE SampleFrame(w)
    <3>1. /\ k.pc = "frame" /\ k.phase = "frame" /\ k.of >= 1
          /\ row[j].status = "running"
      BY <2>2, <2>6 DEF SampleFrame, Counts, AtStep
    <3>2. /\ worker'[w].job = j /\ worker'[w].pc = "frame" /\ worker'[w].phase = k.phase
          /\ worker'[w].of = k.of /\ worker'[w].n = k.n + 1
      BY <1>0, <2>6 DEF SampleFrame, GoOn
    <3>3. row'[j].status = "running" /\ row'[j].progress = ProgressOf(k.phase, k.n, k.of)
      BY <1>0, <2>2, <2>6, <3>1, UpdateSplit DEF SampleFrame, Reported
    <3>4. ProgressOf(k.phase, k.n, k.of) <= ProgressOf(k.phase, k.n + 1, k.of)
      BY <2>2, <3>1, ProgressGrows
    <3>. QED  BY <2>3, <3>2, <3>3, <3>4 DEF AtStep, NotAhead
  <2>7. CASE EndOfVideo(w)
    <3>1. /\ k.pc = "frame" /\ k.phase = "frame" /\ k.of >= 1
          /\ row[j].status = "running" /\ UNCHANGED row
          /\ row[j].progress <= ProgressOf(k.phase, k.n, k.of)
      BY <2>2, <2>7 DEF EndOfVideo, Counts, AtStep, NotAhead
    <3>2. /\ worker'[w].job = j /\ worker'[w].pc = "item" /\ worker'[w].phase = "track"
          /\ worker'[w].of \in Nat /\ worker'[w].n = 0
      BY <1>0, <2>7 DEF EndOfVideo, GoOn
    <3>3. /\ ProgressOf(k.phase, k.n, k.of) \in 0 .. Complete
          /\ ProgressOf(k.phase, k.n, k.of) <= 80
      BY <2>2, <3>1, ProgressInRange
    <3>4. /\ ProgressOf("track", 0, worker'[w].of) \in 0 .. Complete
          /\ ProgressOf("track", 0, worker'[w].of) >= 80
      BY <3>2, ProgressAtZero
    <3>5. row[j].progress <= ProgressOf("track", 0, worker'[w].of)
      <4>1. row[j].progress \in Nat /\ ProgressOf(k.phase, k.n, k.of) \in Nat
        BY <2>2, <3>3 DEF Complete
      <4>2. row[j].progress <= 80 /\ 80 \in Nat
        BY <3>1, <3>3, <4>1, PassesThrough
      <4>3. ProgressOf("track", 0, worker'[w].of) \in Nat
        BY <3>4 DEF Complete
      <4>. QED  BY <3>4, <4>1, <4>2, <4>3, PassesThrough
    <3>. QED  BY <2>3, <3>1, <3>2, <3>5 DEF AtStep, NotAhead
  <2>8. CASE SaveItem(w)
    <3>1. /\ k.pc = "item" /\ UNCHANGED row /\ row[j].status = "running"
          /\ row[j].progress <= ProgressOf(k.phase, k.n, k.of)
      BY <2>2, <2>8 DEF SaveItem, AtStep, NotAhead
    <3>2. /\ worker'[w].job = j /\ worker'[w].pc = "report" /\ worker'[w].phase = k.phase
          /\ worker'[w].of = k.of /\ worker'[w].n = k.n
      BY <1>0, <2>8 DEF SaveItem, GoTo, GoOn
    <3>. QED  BY <2>3, <3>1, <3>2 DEF AtStep, NotAhead
  <2>9. CASE ReportItem(w)
    <3>1. k.pc = "report" /\ row[j].status = "running"
      BY <2>2, <2>9 DEF ReportItem, AtStep
    <3>2. /\ worker'[w].job = j /\ worker'[w].pc = "item" /\ worker'[w].phase = k.phase
          /\ worker'[w].of = k.of /\ worker'[w].n = k.n + 1
      BY <1>0, <2>9 DEF ReportItem, GoOn
    <3>3. /\ row'[j].status = "running"
          /\ row'[j].progress = ProgressOf(k.phase, k.n + 1, k.of)
      BY <1>0, <2>2, <2>9, <3>1, UpdateSplit DEF ReportItem, Reported
    <3>4. /\ k.phase # "frame" /\ k.n + 1 \in Nat /\ k.n + 1 <= k.of
      BY <2>2, <3>1 DEF Counts, Items
    <3>5. ProgressOf(k.phase, k.n + 1, k.of) \in 0 .. Complete
      BY <2>2, <3>4, ProgressInRange
    <3>. QED  BY <2>3, <3>2, <3>3, <3>5 DEF AtStep, NotAhead
  <2>10. CASE Finish(w)
    <3>1. row'[j].status = "finished"
      BY <1>0, <2>2, <2>10, UpdateSplit DEF Finish
    <3>2. worker'[w].pc = "return"
      BY <1>0, <2>10 DEF Finish, GoTo, GoOn
    <3>. QED  BY <2>3, <3>1, <3>2 DEF AtStep
  <2>11. CASE Return(w) \/ Escape(w) \/ Kill(w)
    <3>1. worker'[w].pc = "idle" /\ UNCHANGED row
      BY <1>0, <2>11 DEF Return, Escape, Abandon, Kill, Idle
    <3>. QED  BY <2>3, <2>u, <3>1
  <2>12. CASE RecordFailure(w)
    <3>1. row'[j].status = "failed"
      BY <1>0, <2>2, <2>12, UpdateSplit DEF RecordFailure
    <3>2. worker'[w].pc = "idle"
      BY <1>0, <2>12 DEF RecordFailure, Idle
    <3>. QED  BY <2>3, <3>1, <3>2
  <2>13. CASE Raise(w)
    <3>1. k.pc \in {"start", "source", "frame", "item", "report"} /\ UNCHANGED row
      BY <2>13 DEF Raise, Orderly
    <3>2. row[j].status \in {"queued", "running"}
      BY <2>2, <3>1 DEF AtStep
    <3>3. worker'[w].pc = "fail" /\ worker'[w].job = j
      BY <1>0, <2>13 DEF Raise, GoTo, GoOn, Orderly
    <3>. QED  BY <2>3, <2>u, <3>1, <3>2, <3>3 DEF AtStep
  <2>. QED
    BY <1>7, <2>4, <2>5, <2>6, <2>7, <2>8, <2>9, <2>10, <2>11, <2>12, <2>13 DEF Work
<1>8. ASSUME NEW s \in Streams, NEW j \in Jobs, Open(s, j) PROVE OneOwner'
  BY <1>8, <1>s DEF Open
<1>9. ASSUME NEW s \in Streams, Poll(s) \/ Disconnect(s) PROVE OneOwner'
  BY <1>9, <1>s DEF Poll, Disconnect
<1>10. CASE UNCHANGED vars
  BY <1>10, <1>s DEF vars
<1>. QED
  BY <1>2, <1>3, <1>4, <1>5, <1>6, <1>7, <1>8, <1>9, <1>10 DEF Next, Serve

LEMMA OneOwnerInit == Init => OneOwner
BY DEF Init, OneOwner, Requested, Queued, Held, Unstarted, Working, NoRow, Idle

\* A step that changes at most one row is what JobLifecycle calls Becomes.
LEMMA OneRowBecomes ==
  ASSUME TypeOK, TypeOK', NEW j \in Jobs, \A i \in Jobs : i # j => row'[i] = row[i]
  PROVE  Lifecycle!Becomes(j, row'[j].status, row'[j].progress)
<1>1. row \in [Jobs -> JobRow] /\ row' \in [Jobs -> JobRow]
  BY DEF TypeOK
<1>2. [i \in Jobs |-> row'[i].status]
        = [[i \in Jobs |-> row[i].status] EXCEPT ![j] = row'[j].status]
  OBVIOUS
<1>3. [i \in Jobs |-> row'[i].progress]
        = [[i \in Jobs |-> row[i].progress] EXCEPT ![j] = row'[j].progress]
  OBVIOUS
<1>. QED  BY <1>2, <1>3 DEF Lifecycle!Becomes

\* Every step creates, starts, advances, finishes or fails one job, or leaves
\* status and progress of all jobs alone.
LEMMA LifecycleStep ==
  ASSUME Orderly, TInv, TInv', OneOwner, [Next]_vars
  PROVE  [Lifecycle!Next]_Lifecycle!vars
<1>0. /\ TypeOK /\ TypeOK' /\ row \in [Jobs -> JobRow]
      /\ Requested /\ Queued /\ Held /\ Unstarted /\ Working
  BY DEF TInv, TypeOK, OneOwner
<1>r. \A j \in Jobs : row[j].progress \in 0 .. Complete /\ row'[j].progress \in 0 .. Complete
  <2>1. row' \in [Jobs -> JobRow]
    BY <1>0 DEF TypeOK
  <2>. QED  BY <1>0, <2>1 DEF JobRow
<1>s. UNCHANGED row => UNCHANGED Lifecycle!vars
  BY DEF Lifecycle!vars
<1>1. ASSUME NEW j \in Jobs, \A i \in Jobs : i # j => row'[i] = row[i],
             \/ row[j].status = "none" /\ row'[j].status = "queued"
                /\ row'[j].progress = row[j].progress
             \/ row[j].status = "queued" /\ row'[j].status = "running"
                /\ row'[j].progress = row[j].progress
             \/ row[j].status = "running" /\ row'[j].status = "running"
                /\ row'[j].progress >= row[j].progress
             \/ row[j].status = "running" /\ row'[j].status = "finished"
                /\ row'[j].progress = Complete
             \/ row[j].status \in {"queued", "running"} /\ row'[j].status = "failed"
                /\ row'[j].progress = row[j].progress
      PROVE  Lifecycle!Next
  <2>1. Lifecycle!Becomes(j, row'[j].status, row'[j].progress)
    BY <1>0, <1>1, OneRowBecomes
  <2>2. row'[j].progress >= row[j].progress =>
          row'[j].progress \in row[j].progress .. Complete
    BY <1>r DEF Complete
  <2>. QED
    <3>. DEFINE s == [i \in Jobs |-> row[i].status]
                p == [i \in Jobs |-> row[i].progress]
    <3>1. s[j] = row[j].status /\ p[j] = row[j].progress
      OBVIOUS
    <3>2. CASE row[j].status = "none" /\ row'[j].status = "queued"
               /\ row'[j].progress = row[j].progress
      <4>1. Lifecycle!Create(j)
        BY <2>1, <3>1, <3>2 DEF Lifecycle!Create, Lifecycle!Becomes
      <4>. QED  BY <4>1 DEF Lifecycle!Next
    <3>3. CASE row[j].status = "queued" /\ row'[j].status = "running"
               /\ row'[j].progress = row[j].progress
      <4>1. Lifecycle!Start(j)
        BY <2>1, <3>1, <3>3 DEF Lifecycle!Start, Lifecycle!Becomes
      <4>. QED  BY <4>1 DEF Lifecycle!Next
    <3>4. CASE row[j].status = "running" /\ row'[j].status = "running"
               /\ row'[j].progress >= row[j].progress
      <4>1. Lifecycle!Advance(j)
        BY <2>1, <2>2, <3>1, <3>4 DEF Lifecycle!Advance, Lifecycle!Becomes
      <4>. QED  BY <4>1 DEF Lifecycle!Next
    <3>5. CASE row[j].status = "running" /\ row'[j].status = "finished"
               /\ row'[j].progress = Complete
      <4>1. Lifecycle!Finish(j)
        BY <2>1, <3>1, <3>5 DEF Lifecycle!Finish, Lifecycle!Becomes
      <4>. QED  BY <4>1 DEF Lifecycle!Next
    <3>6. CASE row[j].status \in {"queued", "running"} /\ row'[j].status = "failed"
               /\ row'[j].progress = row[j].progress
      <4>1. Lifecycle!Fail(j)
        BY <2>1, <3>1, <3>6 DEF Lifecycle!Fail, Lifecycle!Becomes
      <4>. QED  BY <4>1 DEF Lifecycle!Next
    <3>. QED  BY <1>1, <3>2, <3>3, <3>4, <3>5, <3>6
<1>2. ASSUME NEW j \in Jobs, NEW kind \in {"folder", "video"}, Create(j, kind)
      PROVE  Lifecycle!Next
  <2>1. row[j].status = "none" /\ row[j].progress = 0
    BY <1>0, <1>2 DEF Create, Requested
  <2>2. /\ row'[j].status = "queued" /\ row'[j].progress = 0
        /\ \A i \in Jobs : i # j => row'[i] = row[i]
    BY <1>0, <1>2 DEF Create
  <2>. QED  BY <1>1, <2>1, <2>2
<1>3. ASSUME NEW j \in Jobs, Refuse(j) PROVE Lifecycle!Next
  <2>1. row[j].status = "queued"
    BY <1>0, <1>3 DEF Refuse, Requested
  <2>2. /\ row'[j].status = "failed" /\ row'[j].progress = row[j].progress
        /\ \A i \in Jobs : i # j => row'[i] = row[i]
    BY <1>0, <1>3, UpdateSplit DEF Refuse
  <2>. QED  BY <1>1, <2>1, <2>2
<1>4. ASSUME NEW j \in Jobs, Enqueue(j) \/ Reply(j) \/ ApiCrash(j)
      PROVE  UNCHANGED Lifecycle!vars
  BY <1>4, <1>s DEF Enqueue, Reply, ApiCrash
<1>5. ASSUME NEW w \in Workers, Take(w) PROVE UNCHANGED Lifecycle!vars
  BY <1>5, <1>s DEF Take
<1>6. ASSUME NEW w \in Workers, Work(w) \/ Raise(w) \/ Escape(w) \/ Kill(w)
      PROVE  Lifecycle!Next \/ UNCHANGED Lifecycle!vars
  <2>. DEFINE k == worker[w]
              j == worker[w].job
  <2>1. k.pc # "idle" => j \in Jobs /\ AtStep(k)
    BY <1>0, WorkerTyped DEF Working
  <2>2. CASE Begin(w)
    <3>1. j \in Jobs /\ row[j].status = "queued"
      BY <2>1, <2>2 DEF Begin, AtStep
    <3>2. /\ row'[j].status = "running" /\ row'[j].progress = row[j].progress
          /\ \A i \in Jobs : i # j => row'[i] = row[i]
      BY <1>0, <2>2, <3>1, UpdateSplit DEF Begin
    <3>. QED  BY <1>1, <3>1, <3>2
  <2>3. CASE SampleFrame(w)
    <3>1. /\ j \in Jobs /\ row[j].status = "running"
          /\ row[j].progress <= ProgressOf(k.phase, k.n, k.of)
      BY <2>1, <2>3 DEF SampleFrame, AtStep, NotAhead
    <3>2. /\ row'[j].status = row[j].status
          /\ row'[j].progress = ProgressOf(k.phase, k.n, k.of)
          /\ \A i \in Jobs : i # j => row'[i] = row[i]
      BY <1>0, <2>3, <3>1, UpdateSplit DEF SampleFrame, Reported
    <3>3. row'[j].progress >= row[j].progress
      BY <1>r, <3>1, <3>2 DEF Complete
    <3>. QED  BY <1>1, <3>1, <3>2, <3>3
  <2>4. CASE ReportItem(w)
    <3>1. /\ j \in Jobs /\ row[j].status = "running"
          /\ row[j].progress <= ProgressOf(k.phase, k.n, k.of)
      BY <2>1, <2>4 DEF ReportItem, AtStep, NotAhead
    <3>2. /\ row'[j].status = row[j].status
          /\ row'[j].progress = ProgressOf(k.phase, k.n + 1, k.of)
          /\ \A i \in Jobs : i # j => row'[i] = row[i]
      BY <1>0, <2>4, <3>1, UpdateSplit DEF ReportItem, Reported
    <3>3. /\ ProgressOf(k.phase, k.n, k.of) <= ProgressOf(k.phase, k.n + 1, k.of)
          /\ ProgressOf(k.phase, k.n, k.of) \in Nat
      <4>1. /\ k.phase \in {"photo", "track"} /\ k.n \in Nat /\ k.of \in Nat
            /\ k.n <= k.of
        BY <2>4, WorkerTyped DEF ReportItem, Counts, Items
      <4>2. ProgressOf(k.phase, k.n, k.of) <= ProgressOf(k.phase, k.n + 1, k.of)
        BY <4>1, ProgressGrows
      <4>3. ProgressOf(k.phase, k.n, k.of) \in 0 .. Complete
        BY <4>1, ProgressInRange
      <4>. QED  BY <4>2, <4>3 DEF Complete
    <3>4. row'[j].progress >= row[j].progress
      <4>. DEFINE a == ProgressOf(k.phase, k.n, k.of)
                  b == ProgressOf(k.phase, k.n + 1, k.of)
                  old == row[j].progress
                  new == row'[j].progress
      <4>1. old \in Nat /\ new \in Nat /\ old <= a /\ new = b /\ a <= b /\ a \in Nat
        BY <1>r, <3>1, <3>2, <3>3 DEF Complete
      <4>. HIDE DEF a, b, old, new
      <4>2. new >= old
        BY <4>1
      <4>. QED  BY <4>2 DEF old, new
    <3>. QED  BY <1>1, <3>1, <3>2, <3>4
  <2>5. CASE Finish(w)
    <3>1. j \in Jobs /\ row[j].status = "running"
      BY <2>1, <2>5 DEF Finish, AtStep
    <3>2. /\ row'[j].status = "finished" /\ row'[j].progress = Complete
          /\ \A i \in Jobs : i # j => row'[i] = row[i]
      BY <1>0, <2>5, <3>1, UpdateSplit DEF Finish
    <3>. QED  BY <1>1, <3>1, <3>2
  <2>6. CASE RecordFailure(w)
    <3>1. j \in Jobs /\ row[j].status \in {"queued", "running"}
      BY <2>1, <2>6 DEF RecordFailure, AtStep
    <3>2. /\ row'[j].status = "failed" /\ row'[j].progress = row[j].progress
          /\ \A i \in Jobs : i # j => row'[i] = row[i]
      BY <1>0, <2>6, <3>1, UpdateSplit DEF RecordFailure
    <3>. QED  BY <1>1, <3>1, <3>2
  <2>7. CASE UNCHANGED row
    BY <2>7, <1>s
  <2>. QED
    BY <1>6, <2>2, <2>3, <2>4, <2>5, <2>6, <2>7 DEF Work, OpenSource, EndOfVideo,
       SaveItem, Return, Raise, Escape, Abandon, Kill
<1>7. ASSUME NEW s \in Streams, (\E j \in Jobs : Open(s, j)) \/ Poll(s) \/ Disconnect(s)
      PROVE  UNCHANGED Lifecycle!vars
  BY <1>7, <1>s DEF Open, Poll, Disconnect
<1>8. CASE UNCHANGED vars
  BY <1>8, <1>s DEF vars
<1>. QED
  BY <1>2, <1>3, <1>4, <1>5, <1>6, <1>7, <1>8 DEF Next, Serve

\* For any jobs, workers, streams and lengths of folders and videos, and with
\* jobs that fail, workers that are killed, a Redis or an API that goes down: a
\* job's row is queued, runs and ends once, and its progress only grows (_enqueue
\* and run_job).  Jobs_lost_reply shows why the two other faults are left out.
THEOREM RowsImplementLifecycle == Orderly => (Spec => ImplementsLifecycle)
<1>. SUFFICES ASSUME Orderly PROVE Spec => ImplementsLifecycle
  OBVIOUS
<1>1. Init => OneOwner /\ Lifecycle!Init
  <2>1. Init => Lifecycle!Init
    BY DEF Init, Lifecycle!Init, NoRow
  <2>. QED  BY <2>1, OneOwnerInit
<1>2. TInv /\ TInv' /\ OneOwner /\ [Next]_vars => OneOwner'
  BY OneOwnerStep
<1>3. TInv /\ TInv' /\ OneOwner /\ [Next]_vars => [Lifecycle!Next]_Lifecycle!vars
  BY LifecycleStep
<1>. QED  BY <1>1, <1>2, <1>3, Typed, PTL DEF Spec, ImplementsLifecycle, Lifecycle!Spec
-----------------------------------------------------------------------------
(***************************************************************************)
(* What is reported is stored, under any faults.  A job that was queued    *)
(* although its request failed may run while its row says "failed"; still  *)
(* one worker at most runs it, and only that worker stores its reads.      *)
(***************************************************************************)
Unsent == {"none", "enqueue"}

QueuedOnce ==
  \A i \in 1 .. Len(queue) :
    /\ request[queue[i]] \notin Unsent
    /\ \A h \in 1 .. Len(queue) : queue[h] = queue[i] => h = i

HeldOnce ==
  \A w \in Workers : worker[w].job # NoJob =>
    /\ request[worker[w].job] \notin Unsent
    /\ \A i \in 1 .. Len(queue) : queue[i] # worker[w].job
    /\ \A v \in Workers : worker[v].job = worker[w].job => v = w

OnePlace == QueuedOnce /\ HeldOnce

Fresh(j) == saved[j] = 0 /\ row[j].message[1] # "track" /\ row[j].result = {}

\* What a worker that is at some step knows of the reads its job has stored.
Listed(k) ==
  /\ k.pc \in {"start", "source", "frame"} => Fresh(k.job)
  /\ k.pc \in {"item", "report"} => row[k.job].result = {} /\ k.listed = saved[k.job]
  /\ k.pc = "item" /\ k.phase = "track" => k.n <= saved[k.job]
  /\ k.pc = "report" /\ k.phase = "track" => k.n + 1 <= saved[k.job]

Told(j) ==
  /\ row[j].message[1] = "track" => saved[j] >= row[j].message[2]
  /\ \A listed \in row[j].result : listed = saved[j]

SInv ==
  /\ OnePlace
  /\ \A j \in Jobs : Told(j) /\ (request[j] \in Unsent => Fresh(j))
  /\ \A i \in 1 .. Len(queue) : Fresh(queue[i])
  /\ \A w \in Workers : worker[w].pc # "idle" => Listed(worker[w])

\* A step of the worker that holds a job leaves all other jobs alone.
LEMMA StoringStep ==
  ASSUME TInv, SInv, NEW w \in Workers, worker[w].pc # "idle",
         NEW j \in Jobs, worker[w].job = j,
         \A i \in Jobs : i # j => row'[i] = row[i] /\ saved'[i] = saved[i],
         \A v \in Workers : v # w => worker'[v] = worker[v],
         worker'[w].job \in {j, NoJob},
         worker'[w].pc # "idle" => Listed(worker[w])',
         Told(j)',
         UNCHANGED <<queue, request>>
  PROVE  SInv'
<1>1. j \in Jobs /\ j # NoJob
  BY JobsAssumption
<1>2. /\ request[j] \notin Unsent
      /\ \A i \in 1 .. Len(queue) : queue[i] # j
      /\ \A v \in Workers : v # w => worker[v].job # j
  BY <1>1 DEF SInv, OnePlace, QueuedOnce, HeldOnce
<1>3. \A i \in 1 .. Len(queue) : queue[i] \in Jobs
  BY DEF TInv, TypeOK
<1>4. OnePlace'
  BY <1>1, <1>2 DEF SInv, OnePlace, QueuedOnce, HeldOnce
<1>5. ASSUME NEW i \in Jobs PROVE Told(i)' /\ (request'[i] \in Unsent => Fresh(i)')
  BY <1>2, <1>5 DEF SInv, Told, Fresh
<1>6. ASSUME NEW i \in 1 .. Len(queue) PROVE Fresh(queue[i])'
  BY <1>2, <1>3, <1>6 DEF SInv, Fresh
<1>7. ASSUME NEW v \in Workers, worker'[v].pc # "idle" PROVE Listed(worker[v])'
  <2>1. CASE v = w
    BY <1>7, <2>1
  <2>2. CASE v # w
    <3>1. worker'[v] = worker[v] /\ worker[v].job \in Jobs /\ worker[v].job # j
      BY <1>2, <1>7, <2>2, WorkerTyped
    <3>2. Listed(worker[v])
      BY <1>7, <3>1 DEF SInv
    <3>. QED  BY <3>1, <3>2 DEF Listed, Fresh
  <2>. QED  BY <2>1, <2>2
<1>. QED  BY <1>4, <1>5, <1>6, <1>7 DEF SInv

LEMMA UpdateTells ==
  ASSUME TypeOK, NEW j \in Jobs, NEW status, NEW progress, NEW message, NEW result,
         NEW error, Update(j, status, progress, message, result, error)
  PROVE  /\ row'[j].message = message /\ row'[j].result = result
         /\ \A i \in Jobs : i # j => row'[i] = row[i]
BY DEF Update, TypeOK

LEMMA SInvStep ==
  ASSUME TInv, TInv', SInv, [Next]_vars
  PROVE  SInv'
<1>0. /\ TypeOK /\ row \in [Jobs -> JobRow] /\ worker \in [Workers -> Worker]
      /\ queue \in Seq(Jobs) /\ \A i \in 1 .. Len(queue) : queue[i] \in Jobs
      /\ DOMAIN request = Jobs /\ saved \in [Jobs -> Nat]
      /\ OnePlace /\ \A j \in Jobs : Told(j) /\ (request[j] \in Unsent => Fresh(j))
      /\ \A i \in 1 .. Len(queue) : Fresh(queue[i])
      /\ \A w \in Workers : worker[w].pc # "idle" => Listed(worker[w])
  BY DEF TInv, TypeOK, SInv
<1>h. \A w \in Workers : worker[w].pc # "idle" => worker[w].job \in Jobs \ {NoJob}
  BY WorkerTyped, JobsAssumption
<1>s. UNCHANGED <<row, queue, request, worker, saved>> => SInv'
  <2>. SUFFICES ASSUME UNCHANGED <<row, queue, request, worker, saved>> PROVE SInv'
    OBVIOUS
  <2>1. OnePlace'
    BY <1>0 DEF OnePlace, QueuedOnce, HeldOnce
  <2>2. \A i \in Jobs : Told(i)' /\ (request'[i] \in Unsent => Fresh(i)')
    BY <1>0 DEF Told, Fresh
  <2>3. \A i \in 1 .. Len(queue') : Fresh(queue[i])'
    BY <1>0 DEF Fresh
  <2>4. \A w \in Workers : worker'[w].pc # "idle" => Listed(worker[w])'
    BY <1>0 DEF Listed, Fresh
  <2>. QED  BY <2>1, <2>2, <2>3, <2>4 DEF SInv
\* Steps of the API change nothing that is stored or listed.
<1>1. ASSUME NEW j \in Jobs,
             \A i \in Jobs : row'[i].message[1] = row[i].message[1]
                             /\ row'[i].message = row[i].message
                             /\ row'[i].result = row[i].result,
             \A i \in Jobs : i # j => request'[i] = request[i],
             request'[j] \in Unsent => request[j] \in Unsent,
             UNCHANGED <<queue, worker, saved>>
      PROVE  SInv'
  <2>1. OnePlace'
    <3>1. \A w \in Workers : worker[w].job # NoJob => worker[w].job \in Jobs
      BY WorkerTyped
    <3>. QED  BY <1>0, <1>1, <3>1 DEF OnePlace, QueuedOnce, HeldOnce
  <2>2. \A i \in Jobs : Told(i)' /\ (request'[i] \in Unsent => Fresh(i)')
    BY <1>0, <1>1 DEF Told, Fresh
  <2>3. \A i \in 1 .. Len(queue) : Fresh(queue[i])'
    BY <1>0, <1>1 DEF Fresh
  <2>4. ASSUME NEW w \in Workers, worker[w].pc # "idle" PROVE Listed(worker[w])'
    <3>1. Listed(worker[w]) /\ worker[w].job \in Jobs
      BY <1>0, <1>h, <2>4
    <3>. QED  BY <1>1, <3>1 DEF Listed, Fresh
  <2>. QED  BY <1>1, <2>1, <2>2, <2>3, <2>4 DEF SInv
<1>2. ASSUME NEW j \in Jobs, NEW kind \in {"folder", "video"}, Create(j, kind) PROVE SInv'
  <2>1. /\ Fresh(j) /\ request[j] \in Unsent /\ UNCHANGED <<queue, worker, saved>>
        /\ \A i \in Jobs : i # j => row'[i] = row[i] /\ request'[i] = request[i]
        /\ request'[j] = "enqueue" /\ row'[j].message = <<"queued", 0>>
        /\ row'[j].result = {}
    BY <1>0, <1>2 DEF Create, Unsent
  <2>2. /\ \A i \in 1 .. Len(queue) : queue[i] # j
        /\ \A w \in Workers : worker[w].job # j
    BY <1>0, <2>1, JobsAssumption DEF OnePlace, QueuedOnce, HeldOnce
  <2>3. Told(j)' /\ Fresh(j)'
    BY <2>1 DEF Told, Fresh
  <2>4. \A i \in Jobs : Told(i)' /\ (request'[i] \in Unsent => Fresh(i)')
    BY <1>0, <2>1, <2>3 DEF Told, Fresh
  <2>5. \A i \in 1 .. Len(queue) : Fresh(queue[i])'
    BY <1>0, <2>1, <2>2 DEF Fresh
  <2>6. OnePlace'
    <3>1. \A w \in Workers : worker[w].job # NoJob => worker[w].job \in Jobs
      BY WorkerTyped
    <3>. QED  BY <1>0, <2>1, <2>2, <3>1 DEF OnePlace, QueuedOnce, HeldOnce
  <2>7. ASSUME NEW w \in Workers, worker[w].pc # "idle" PROVE Listed(worker[w])'
    <3>1. Listed(worker[w]) /\ worker[w].job \in Jobs /\ worker[w].job # j
      BY <1>0, <1>h, <2>2, <2>7
    <3>. QED  BY <2>1, <3>1 DEF Listed, Fresh
  <2>. QED  BY <2>1, <2>4, <2>5, <2>6, <2>7 DEF SInv
<1>3. ASSUME NEW j \in Jobs, Enqueue(j) PROVE SInv'
  <2>1. CASE UNCHANGED queue
    BY <1>0, <1>1, <1>3, <2>1 DEF Enqueue, Unsent
  <2>2. CASE queue' = Append(queue, j)
    <3>1. /\ request[j] = "enqueue" /\ request'[j] \in {"reply", "refuse"}
          /\ \A i \in Jobs : i # j => request'[i] = request[i]
          /\ UNCHANGED <<row, worker, saved>>
      BY <1>0, <1>3 DEF Enqueue
    <3>2. /\ Fresh(j)
          /\ \A i \in 1 .. Len(queue) : queue[i] # j
          /\ \A w \in Workers : worker[w].job # j
      BY <1>0, <3>1, JobsAssumption DEF OnePlace, QueuedOnce, HeldOnce, Unsent
    <3>3. /\ Len(queue') = Len(queue) + 1 /\ Len(queue) \in Nat
          /\ \A i \in 1 .. Len(queue) : queue'[i] = queue[i]
          /\ queue'[Len(queue) + 1] = j
      BY <1>0, <2>2
    <3>4. OnePlace'
      <4>1. \A w \in Workers : worker[w].job # NoJob => worker[w].job \in Jobs
        BY WorkerTyped
      <4>2. QueuedOnce'
        BY <1>0, <3>1, <3>2, <3>3 DEF OnePlace, QueuedOnce, Unsent
      <4>3. HeldOnce'
        <5>. SUFFICES ASSUME NEW w \in Workers, worker[w].job # NoJob
                      PROVE  /\ request'[worker[w].job] \notin Unsent
                             /\ \A i \in 1 .. Len(queue') : queue'[i] # worker[w].job
                             /\ \A v \in Workers : worker[v].job = worker[w].job => v = w
          BY <3>1 DEF HeldOnce
        <5>1. /\ worker[w].job \in Jobs /\ worker[w].job # j
              /\ request[worker[w].job] \notin Unsent
              /\ \A i \in 1 .. Len(queue) : queue[i] # worker[w].job
              /\ \A v \in Workers : worker[v].job = worker[w].job => v = w
          BY <1>0, <3>2, <4>1 DEF OnePlace, HeldOnce
        <5>2. request'[worker[w].job] = request[worker[w].job]
          BY <3>1, <5>1
        <5>3. \A i \in 1 .. Len(queue') : i \in 1 .. Len(queue) \/ i = Len(queue) + 1
          BY <3>3
        <5>. QED  BY <3>3, <5>1, <5>2, <5>3
      <4>. QED  BY <4>2, <4>3 DEF OnePlace
    <3>5. \A i \in Jobs : Told(i)' /\ (request'[i] \in Unsent => Fresh(i)')
      BY <1>0, <3>1 DEF Told, Fresh, Unsent
    <3>6. \A i \in 1 .. Len(queue') : Fresh(queue[i])'
      <4>1. ASSUME NEW i \in 1 .. Len(queue') PROVE Fresh(queue'[i])
        <5>1. i \in 1 .. Len(queue) \/ i = Len(queue) + 1
          BY <3>3
        <5>. QED  BY <1>0, <3>2, <3>3, <5>1
      <4>. QED  BY <3>1, <4>1 DEF Fresh
    <3>7. \A w \in Workers : worker'[w].pc # "idle" => Listed(worker[w])'
      BY <1>0, <3>1 DEF Listed, Fresh
    <3>. QED  BY <3>4, <3>5, <3>6, <3>7 DEF SInv
  <2>. QED  BY <1>3, <2>1, <2>2 DEF Enqueue
<1>4. ASSUME NEW j \in Jobs, Refuse(j) PROVE SInv'
  <2>1. \A i \in Jobs : row'[i].message = row[i].message /\ row'[i].result = row[i].result
    <3>1. Update(j, "failed", row[j].progress, row[j].message, row[j].result, TRUE)
      BY <1>4 DEF Refuse
    <3>2. /\ row'[j].message = row[j].message /\ row'[j].result = row[j].result
          /\ \A i \in Jobs : i # j => row'[i] = row[i]
      BY <1>0, <3>1, UpdateTells
    <3>. QED  BY <3>2
  <2>. QED  BY <1>0, <1>1, <1>4, <2>1 DEF Refuse, Unsent
<1>5. ASSUME NEW j \in Jobs, Reply(j) \/ ApiCrash(j) PROVE SInv'
  BY <1>0, <1>1, <1>5 DEF Reply, ApiCrash, Unsent
<1>6. ASSUME NEW w \in Workers, Take(w) PROVE SInv'
  <2>. DEFINE j == Head(queue)
  <2>1. /\ Len(queue) \in Nat \ {0} /\ j = queue[1] /\ j \in Jobs
        /\ queue' = Tail(queue) /\ Len(queue') = Len(queue) - 1
        /\ \A i \in 1 .. Len(queue') : queue'[i] = queue[i + 1]
    BY <1>0, <1>6 DEF Take
  <2>2. /\ UNCHANGED <<row, request, saved>> /\ worker[w].pc = "idle"
        /\ worker'[w].job = j /\ worker'[w].pc = "start"
        /\ \A v \in Workers : v # w => worker'[v] = worker[v]
    BY <1>0, <1>6 DEF Take
  <2>3. /\ Fresh(j) /\ request[j] \notin Unsent
        /\ \A i \in 1 .. Len(queue') : queue'[i] # j
    <3>1. 1 \in 1 .. Len(queue)
      BY <2>1
    <3>2. Fresh(j) /\ request[j] \notin Unsent
      BY <1>0, <2>1, <3>1 DEF OnePlace, QueuedOnce
    <3>3. ASSUME NEW i \in 1 .. Len(queue') PROVE queue'[i] # j
      <4>1. i + 1 \in 1 .. Len(queue) /\ i + 1 # 1 /\ queue'[i] = queue[i + 1]
        BY <2>1
      <4>. QED  BY <1>0, <2>1, <3>1, <4>1 DEF OnePlace, QueuedOnce
    <3>. QED  BY <3>2, <3>3
  <2>4. \A v \in Workers : worker[v].job # j
    <3>1. 1 \in 1 .. Len(queue) /\ j # NoJob
      BY <2>1, JobsAssumption
    <3>. QED  BY <1>0, <2>1, <3>1 DEF OnePlace, HeldOnce
  <2>. HIDE DEF j
  <2>5. OnePlace'
    <3>1. \A i \in 1 .. Len(queue') : /\ request'[queue'[i]] \notin Unsent
                                      /\ \A h \in 1 .. Len(queue') : queue'[h] = queue'[i] => h = i
      BY <1>0, <2>1, <2>2 DEF OnePlace, QueuedOnce, HeldOnce
    <3>2. ASSUME NEW v \in Workers, worker'[v].job # NoJob
          PROVE  /\ request'[worker'[v].job] \notin Unsent
                 /\ \A i \in 1 .. Len(queue') : queue'[i] # worker'[v].job
                 /\ \A u \in Workers : worker'[u].job = worker'[v].job => u = v
      BY <1>0, <2>1, <2>2, <2>3, <2>4, <3>2 DEF OnePlace, QueuedOnce, HeldOnce
    <3>. QED  BY <3>1, <3>2 DEF OnePlace, QueuedOnce, HeldOnce
  <2>6. \A i \in Jobs : Told(i)' /\ (request'[i] \in Unsent => Fresh(i)')
    BY <1>0, <2>2 DEF Told, Fresh
  <2>7. ASSUME NEW i \in 1 .. Len(queue') PROVE Fresh(queue[i])'
    <3>1. i + 1 \in 1 .. Len(queue) /\ queue'[i] = queue[i + 1]
      BY <2>1
    <3>2. Fresh(queue[i + 1])
      BY <1>0, <3>1
    <3>. QED  BY <2>2, <3>1, <3>2 DEF Fresh
  <2>8. ASSUME NEW v \in Workers, worker'[v].pc # "idle" PROVE Listed(worker[v])'
    <3>1. CASE v = w
      BY <2>2, <2>3, <3>1 DEF Listed, Fresh
    <3>2. CASE v # w
      <4>1. worker'[v] = worker[v] /\ Listed(worker[v])
        BY <1>0, <2>2, <2>8, <3>2
      <4>. QED  BY <2>2, <4>1 DEF Listed, Fresh
    <3>. QED  BY <3>1, <3>2
  <2>. QED  BY <2>5, <2>6, <2>7, <2>8 DEF SInv
<1>7. ASSUME NEW w \in Workers, Work(w) \/ Raise(w) \/ Escape(w) \/ Kill(w) PROVE SInv'
  <2>. DEFINE k == worker[w]
  <2>0. PICK j \in Jobs : worker[w].job = j /\ k.pc # "idle"
    <3>1. k.pc # "idle"
      BY <1>7 DEF Work, Begin, OpenSource, SampleFrame, EndOfVideo, SaveItem, ReportItem,
                  Finish, Return, RecordFailure, Raise, Escape, Abandon, Kill
    <3>. QED  BY <3>1, <1>h
  <2>1. /\ UNCHANGED <<queue, request>>
        /\ \A v \in Workers : v # w => worker'[v] = worker[v]
        /\ worker'[w].job \in {j, NoJob}
        /\ \A i \in Jobs : i # j => row'[i] = row[i] /\ saved'[i] = saved[i]
    <3>1. UNCHANGED <<queue, request>>
      BY <1>7 DEF Work, Begin, OpenSource, SampleFrame, EndOfVideo, SaveItem, ReportItem,
                  Finish, Return, RecordFailure, Raise, Escape, Abandon, Kill
    <3>2. /\ \A v \in Workers : v # w => worker'[v] = worker[v]
          /\ worker'[w].job \in {j, NoJob}
      <4>1. CASE worker' = [worker EXCEPT ![w] = Idle]
        BY <1>0, <4>1 DEF Idle
      <4>2. CASE \E pc, phase, of, n, listed : GoOn(w, pc, phase, of, n, listed)
        BY <1>0, <2>0, <4>2 DEF GoOn
      <4>3. ASSUME NEW pc, GoTo(w, pc)
            PROVE  \E p, phase, of, n, listed : GoOn(w, p, phase, of, n, listed)
        BY <4>3 DEF GoTo
      <4>. QED
        BY <1>7, <4>1, <4>2, <4>3 DEF Work, Begin, OpenSource, SampleFrame, EndOfVideo,
                  SaveItem, ReportItem, Finish, Return, RecordFailure, Raise,
                  Escape, Abandon, Kill
    <3>3. \A i \in Jobs : i # j => row'[i] = row[i]
      BY <1>0, <1>7, <2>0 DEF Work, Begin, OpenSource, SampleFrame, EndOfVideo, SaveItem,
                  ReportItem, Finish, Return, RecordFailure, Raise, Escape, Abandon, Kill,
                  Reported, Update
    <3>4. \A i \in Jobs : i # j => saved'[i] = saved[i]
      BY <1>0, <1>7, <2>0 DEF Work, Begin, OpenSource, SampleFrame, EndOfVideo, SaveItem,
                  ReportItem, Finish, Return, RecordFailure, Raise, Escape, Abandon, Kill
    <3>. QED  BY <3>1, <3>2, <3>3, <3>4
  <2>2. /\ Listed(k) /\ Told(j) /\ saved[j] \in Nat
        /\ k.phase \in {"photo", "frame", "track"} /\ k.n \in Nat /\ k.of \in Nat
        /\ k.listed \in Nat /\ Counts(k)
    BY <1>0, <2>0, WorkerTyped
  <2>3. (worker'[w].pc # "idle" => Listed(worker[w])') /\ Told(j)' => SInv'
    BY <2>0, <2>1, StoringStep
  <2>i. worker' = [worker EXCEPT ![w] = Idle] => worker'[w].pc = "idle"
    BY <1>0 DEF Idle
  <2>t. UNCHANGED saved /\ row'[j].message = row[j].message /\ row'[j].result = row[j].result
          => Told(j)'
    BY <2>2 DEF Told
  <2>4. CASE Begin(w)
    <3>1. /\ row'[j].message = row[j].message /\ row'[j].result = row[j].result
          /\ UNCHANGED saved
      <4>1. Update(j, "running", row[j].progress, row[j].message, row[j].result,
                   row[j].error)
        BY <2>0, <2>4 DEF Begin
      <4>. QED  BY <1>0, <2>4, <4>1, UpdateTells DEF Begin
    <3>2. worker'[w].pc = "source" /\ worker'[w].job = j
      BY <1>0, <2>0, <2>4 DEF Begin, GoTo, GoOn
    <3>3. Fresh(j)
      BY <2>0, <2>2, <2>4 DEF Begin, Listed
    <3>. QED  BY <2>3, <2>t, <3>1, <3>2, <3>3 DEF Listed, Fresh
  <2>5. CASE OpenSource(w)
    <3>1. /\ worker'[w].job = j /\ worker'[w].n = 0 /\ worker'[w].listed = 0
          /\ \/ worker'[w].pc = "item" /\ worker'[w].phase = "photo"
             \/ worker'[w].pc = "frame"
      BY <1>0, <2>0, <2>5 DEF OpenSource, GoOn
    <3>2. UNCHANGED <<row, saved>> /\ Fresh(j)
      BY <2>0, <2>2, <2>5 DEF OpenSource, Listed
    <3>. QED  BY <2>3, <2>t, <3>1, <3>2 DEF Listed, Fresh
  <2>6. CASE SampleFrame(w)
    <3>1. k.pc = "frame" /\ k.phase = "frame" /\ Fresh(j) /\ UNCHANGED saved
      BY <2>0, <2>2, <2>6 DEF SampleFrame, Counts, Listed
    <3>2. worker'[w].job = j /\ worker'[w].pc = "frame"
      BY <1>0, <2>0, <2>6 DEF SampleFrame, GoOn
    <3>3. row'[j].message = <<k.phase, k.n>> /\ row'[j].result = row[j].result
      BY <1>0, <2>0, <2>6, UpdateTells DEF SampleFrame, Reported
    <3>4. Fresh(j)' /\ Told(j)'
      BY <2>2, <3>1, <3>3 DEF Fresh, Told
    <3>. QED  BY <2>3, <3>2, <3>4 DEF Listed
  <2>7. CASE EndOfVideo(w)
    <3>1. Fresh(j) /\ UNCHANGED <<row, saved>>
      BY <2>0, <2>2, <2>7 DEF EndOfVideo, Listed
    <3>2. /\ worker'[w].job = j /\ worker'[w].pc = "item" /\ worker'[w].n = 0
          /\ worker'[w].listed = 0
      BY <1>0, <2>0, <2>7 DEF EndOfVideo, GoOn
    <3>. QED  BY <2>3, <2>t, <3>1, <3>2 DEF Listed, Fresh
  <2>8. CASE SaveItem(w)
    <3>1. /\ k.pc = "item" /\ UNCHANGED row /\ row[j].result = {} /\ k.listed = saved[j]
          /\ k.phase = "track" => k.n <= saved[j]
      BY <2>0, <2>2, <2>8 DEF SaveItem, Listed
    <3>2. CASE saved' = [saved EXCEPT ![k.job] = @ + 1]
               /\ GoOn(w, "report", k.phase, k.of, k.n, k.listed + 1)
      <4>1. saved'[j] = saved[j] + 1
        BY <1>0, <2>0, <3>2
      <4>2. /\ worker'[w].job = j /\ worker'[w].pc = "report" /\ worker'[w].phase = k.phase
            /\ worker'[w].n = k.n /\ worker'[w].listed = k.listed + 1
        BY <1>0, <2>0, <3>2 DEF GoOn
      <4>3. Told(j)'
        <5>. SUFFICES ASSUME row[j].message[1] = "track" PROVE saved'[j] >= row[j].message[2]
          BY <3>1 DEF Told
        <5>1. row[j].message \in Message
          BY <1>0, RowTyped
        <5>. QED  BY <2>2, <4>1, <5>1 DEF Told, Message
      <4>4. Listed(worker[w])'
        BY <2>2, <3>1, <4>1, <4>2 DEF Listed
      <4>. QED  BY <2>3, <4>3, <4>4
    <3>3. CASE k.phase = "photo" /\ GoTo(w, "report") /\ UNCHANGED saved
      <4>1. /\ worker'[w].job = j /\ worker'[w].pc = "report" /\ worker'[w].phase = k.phase
            /\ worker'[w].n = k.n /\ worker'[w].listed = k.listed
        BY <1>0, <2>0, <3>3 DEF GoTo, GoOn
      <4>. QED  BY <2>3, <2>t, <3>1, <3>3, <4>1 DEF Listed
    <3>. QED  BY <2>8, <3>2, <3>3 DEF SaveItem
  <2>9. CASE ReportItem(w)
    <3>1. /\ k.pc = "report" /\ UNCHANGED saved /\ row[j].result = {}
          /\ k.listed = saved[j] /\ (k.phase = "track" => k.n + 1 <= saved[j])
      BY <2>0, <2>2, <2>9 DEF ReportItem, Listed
    <3>2. /\ worker'[w].job = j /\ worker'[w].pc = "item" /\ worker'[w].phase = k.phase
          /\ worker'[w].n = k.n + 1 /\ worker'[w].listed = k.listed
      BY <1>0, <2>0, <2>9 DEF ReportItem, GoOn
    <3>3. row'[j].message = <<k.phase, k.n + 1>> /\ row'[j].result = row[j].result
      BY <1>0, <2>0, <2>9, UpdateTells DEF ReportItem, Reported
    <3>4. Told(j)'
      BY <2>2, <3>1, <3>3 DEF Told
    <3>. QED  BY <2>3, <3>1, <3>2, <3>3, <3>4 DEF Listed
  <2>10. CASE Finish(w)
    <3>1. k.pc = "item" /\ UNCHANGED saved /\ k.listed = saved[j]
      BY <2>0, <2>2, <2>10 DEF Finish, Listed
    <3>2. worker'[w].pc = "return"
      BY <1>0, <2>10 DEF Finish, GoTo, GoOn
    <3>3. row'[j].message = <<"done", 0>> /\ row'[j].result = {k.listed}
      <4>. DEFINE m == <<"done", 0>>
                  l == {k.listed}
      <4>1. Update(j, "finished", Complete, m, l, row[j].error)
        BY <2>0, <2>10 DEF Finish
      <4>. HIDE DEF m, l
      <4>2. row'[j].message = m /\ row'[j].result = l
        BY <1>0, <4>1, UpdateTells
      <4>. QED  BY <4>2 DEF m, l
    <3>4. Told(j)'
      BY <3>1, <3>3 DEF Told
    <3>. QED  BY <2>3, <3>2, <3>4 DEF Listed
  <2>11. CASE Return(w) \/ Escape(w) \/ Kill(w)
    BY <2>3, <2>i, <2>t, <2>11 DEF Return, Escape, Abandon, Kill
  <2>12. CASE RecordFailure(w)
    <3>1. /\ row'[j].message = row[j].message /\ row'[j].result = row[j].result
          /\ UNCHANGED saved
      <4>. DEFINE p == row[j].progress
                  m == row[j].message
                  l == row[j].result
                  e == TRUE
      <4>1. Update(j, "failed", p, m, l, e) /\ UNCHANGED saved
        BY <2>0, <2>12 DEF RecordFailure
      <4>. HIDE DEF p, m, l, e
      <4>2. row'[j].message = m /\ row'[j].result = l
        BY <1>0, <2>0, <4>1, UpdateTells
      <4>. QED  BY <4>1, <4>2 DEF m, l
    <3>. QED  BY <2>3, <2>i, <2>t, <2>12, <3>1 DEF RecordFailure
  <2>13. CASE Raise(w)
    <3>1. worker'[w].pc \in {"fail", "overdue"} /\ UNCHANGED <<row, saved>>
      BY <1>0, <2>13 DEF Raise, GoTo, GoOn
    <3>. QED  BY <2>3, <2>t, <3>1 DEF Listed
  <2>. QED
    BY <1>7, <2>4, <2>5, <2>6, <2>7, <2>8, <2>9, <2>10, <2>11, <2>12, <2>13 DEF Work
<1>8. ASSUME NEW s \in Streams, (\E j \in Jobs : Open(s, j)) \/ Poll(s) \/ Disconnect(s)
      PROVE  SInv'
  BY <1>8, <1>s DEF Open, Poll, Disconnect
<1>9. CASE UNCHANGED vars
  BY <1>9, <1>s DEF vars
<1>. QED
  BY <1>2, <1>3, <1>4, <1>5, <1>6, <1>7, <1>8, <1>9 DEF Next, Serve

LEMMA StoringInvariant == Spec => []SInv
<1>1. Init => SInv
  <2>. SUFFICES ASSUME Init PROVE SInv
    OBVIOUS
  <2>1. queue = <<>> /\ \A w \in Workers : worker[w].pc = "idle" /\ worker[w].job = NoJob
    BY DEF Init, Idle
  <2>2. \A j \in Jobs : Fresh(j) /\ Told(j)
    BY DEF Init, NoRow, Fresh, Told
  <2>. QED  BY <2>1, <2>2 DEF SInv, OnePlace, QueuedOnce, HeldOnce
<1>2. TInv /\ TInv' /\ SInv /\ [Next]_vars => SInv'
  BY SInvStep
<1>. QED  BY <1>1, <1>2, Typed, PTL DEF Spec

\* What a job reports or lists is stored at that moment, whatever fails: track n
\* is reported when n reads are committed, and a result lists the reads that are
\* in the store, no more and no fewer (_run_folder, _run_video and run_job).
THEOREM ReportedIsStored == Spec => []StoredBeforeReported
<1>1. SInv => StoredBeforeReported
  BY DEF SInv, Told, StoredBeforeReported
<1>. QED  BY <1>1, StoringInvariant, PTL
-----------------------------------------------------------------------------
(***************************************************************************)
(* A stream's last event stays true of an ended job: under the faults of   *)
(* RowsImplementLifecycle nobody writes the row of a job that ended.       *)
(***************************************************************************)
LEMMA EndedStays ==
  ASSUME Orderly, TInv, OneOwner, [Next]_vars, NEW i \in Jobs, row[i].status \in Ended
  PROVE  row'[i] = row[i]
<1>0. TypeOK /\ row \in [Jobs -> JobRow] /\ Requested /\ Working
  BY DEF TInv, TypeOK, OneOwner
<1>1. ASSUME NEW j \in Jobs, NEW kind \in {"folder", "video"}, Create(j, kind) PROVE row'[i] = row[i]
  BY <1>0, <1>1 DEF Create, Requested, Ended
<1>2. ASSUME NEW j \in Jobs, Refuse(j) PROVE row'[i] = row[i]
  <2>1. row[j].status = "queued"
    BY <1>0, <1>2 DEF Refuse, Requested
  <2>. QED  BY <1>0, <1>2, <2>1, UpdateSplit DEF Refuse, Ended
<1>3. ASSUME NEW w \in Workers, Work(w) \/ Raise(w) \/ Escape(w) \/ Kill(w), row'[i] # row[i] PROVE FALSE
  <2>. DEFINE k == worker[w]
  <2>1. k.pc \in {"start", "frame", "report", "item", "fail", "overdue"}
    BY <1>3 DEF Work, Begin, OpenSource, SampleFrame, EndOfVideo, SaveItem, ReportItem, Finish, Return,
                RecordFailure, Raise, Escape, Abandon, Kill
  <2>2. i = k.job
    BY <1>0, <1>3 DEF Work, Begin, OpenSource, SampleFrame, EndOfVideo, SaveItem, ReportItem, Finish,
                Return, RecordFailure, Raise, Escape, Abandon, Kill, Reported, Update
  <2>3. AtStep(k)
    BY <1>0, <2>1 DEF Working
  <2>. QED  BY <2>1, <2>2, <2>3 DEF AtStep, Ended
<1>. QED  BY <1>1, <1>2, <1>3 DEF Next, Serve, Enqueue, Reply, ApiCrash, Take, Open, Poll, Disconnect, vars

SaidTheEnd ==
  \A s \in Streams : stream[s].job # NoJob /\ ~stream[s].open =>
    /\ stream[s].job \in Jobs /\ row[stream[s].job].status \in Ended
    /\ stream[s].last = {StateOf(stream[s].job)}

LEMMA SaidTheEndStep ==
  ASSUME Orderly, TInv, OneOwner, SaidTheEnd, [Next]_vars
  PROVE  SaidTheEnd'
<1>0. stream \in [Streams -> Stream] /\ Followed
  BY DEF TInv, TypeOK
<1>. SUFFICES ASSUME NEW s \in Streams, stream'[s].job # NoJob, ~stream'[s].open
     PROVE  /\ stream'[s].job \in Jobs /\ row'[stream'[s].job].status \in Ended
            /\ stream'[s].last = {[status |-> row'[stream'[s].job].status,
                                   progress |-> row'[stream'[s].job].progress,
                                   message |-> row'[stream'[s].job].message]}
  <2>1. SaidTheEnd' <=>
          \A s_1 \in Streams : stream'[s_1].job # NoJob /\ ~stream'[s_1].open =>
            /\ stream'[s_1].job \in Jobs /\ row'[stream'[s_1].job].status \in Ended
            /\ stream'[s_1].last = {[status |-> row'[stream'[s_1].job].status,
                                     progress |-> row'[stream'[s_1].job].progress,
                                     message |-> row'[stream'[s_1].job].message]}
    BY DEF SaidTheEnd, StateOf
  <2>. QED  BY <2>1
<1>1. CASE stream'[s] = stream[s]
  <2>. DEFINE j == stream[s].job
  <2>1. j # NoJob /\ ~stream[s].open
    BY <1>1
  <2>2. j \in Jobs /\ row[j].status \in Ended /\ stream[s].last = {StateOf(j)}
    BY <2>1 DEF SaidTheEnd
  <2>3. row'[j] = row[j]
    BY <2>2, EndedStays
  <2>4. stream'[s].job = j
    BY <1>1
  <2>. HIDE DEF j
  <2>. QED  BY <1>1, <2>2, <2>3, <2>4 DEF StateOf
<1>2. CASE Poll(s)
  <2>. DEFINE j == stream[s].job
              closed == row[j].status \in Ended
              r == [job |-> j, open |-> ~closed, last |-> {StateOf(j)}]
  <2>1. stream[s].open /\ UNCHANGED row /\ stream' = [stream EXCEPT ![s] = r]
    BY <1>2 DEF Poll
  <2>2. j \in Jobs
    BY <1>0, <2>1 DEF Followed
  <2>3. r.job = j /\ r.open = ~closed /\ r.last = {StateOf(j)}
    OBVIOUS
  <2>. HIDE DEF j, r, closed
  <2>4. stream'[s] = r
    BY <1>0, <2>1
  <2>5. stream'[s].job = j /\ stream'[s].open = ~closed /\ stream'[s].last = {StateOf(j)}
    BY <2>3, <2>4
  <2>6. closed
    BY <2>5
  <2>7. row[j].status \in Ended
    BY <2>6 DEF closed
  <2>. QED  BY <2>1, <2>2, <2>5, <2>7 DEF StateOf
<1>3. CASE (\E j \in Jobs : Open(s, j)) \/ Disconnect(s)
  BY <1>0, <1>3 DEF Open, Disconnect
<1>4. \/ stream'[s] = stream[s] \/ Poll(s) \/ (\E j \in Jobs : Open(s, j)) \/ Disconnect(s)
  BY <1>0 DEF Next, vars, Create, Serve, Enqueue, Refuse, Reply, ApiCrash, Take, Work, Begin, OpenSource,
     SampleFrame, EndOfVideo, SaveItem, ReportItem, Finish, Return, RecordFailure, Raise, Escape, Abandon, Kill,
     Open, Poll, Disconnect
<1>. QED  BY <1>1, <1>2, <1>3, <1>4

\* With the faults of RowsImplementLifecycle, for any number of jobs, workers and
\* clients: a stream that has sent its done event has sent the state that its job
\* keeps for ever (job_events).
THEOREM DoneStaysLast == Orderly => (Spec => []DoneIsLast)
<1>. SUFFICES ASSUME Orderly PROVE Spec => []DoneIsLast
  OBVIOUS
<1>1. Init => OneOwner /\ SaidTheEnd
  BY OneOwnerInit DEF Init, SaidTheEnd
<1>2. TInv /\ TInv' /\ OneOwner /\ [Next]_vars => OneOwner'
  BY OneOwnerStep
<1>3. TInv /\ OneOwner /\ SaidTheEnd /\ [Next]_vars => SaidTheEnd'
  BY SaidTheEndStep
<1>4. SaidTheEnd => DoneIsLast
  BY DEF SaidTheEnd, DoneIsLast
<1>. QED  BY <1>1, <1>2, <1>3, <1>4, Typed, PTL DEF Spec
-----------------------------------------------------------------------------
(***************************************************************************)
(* A stream goes forward, whatever fails: progress on a row only grows,    *)
(* because a row that no worker has begun is at 0 and a worker never       *)
(* writes less than what its counts already stand for.  Statuses play no   *)
(* part, so neither a refused job that runs after all nor a failure        *)
(* recorded for a finished job lowers what a client sees.                  *)
(***************************************************************************)
AtZero(j) == row[j].progress = 0

Pace(k) ==
  /\ k.pc \in {"start", "source"} => AtZero(k.job)
  /\ k.pc \in {"frame", "item", "report"} => NotAhead(k)

Rising ==
  /\ \A j \in Jobs : request[j] \in Unsent => AtZero(j)
  /\ \A i \in 1 .. Len(queue) : AtZero(queue[i])
  /\ \A w \in Workers : worker[w].pc # "idle" => Pace(worker[w])

\* What a stream has sent is not ahead of its job.
Sent ==
  \A s \in Streams : stream[s].job \in Jobs =>
    \A old \in stream[s].last : old.progress <= row[stream[s].job].progress

NeverLess == \A j \in Jobs : row'[j].progress >= row[j].progress

\* A worker's step on its job keeps the pace, and lowers no progress.
LEMMA RisingWorker ==
  ASSUME TInv, OnePlace, Rising, NEW w \in Workers, worker[w].pc # "idle",
         NEW j \in Jobs, worker[w].job = j,
         \A i \in Jobs : i # j => row'[i] = row[i],
         \A v \in Workers : v # w => worker'[v] = worker[v],
         worker'[w].pc # "idle" => Pace(worker[w])',
         row'[j].progress >= row[j].progress,
         UNCHANGED <<queue, request>>
  PROVE  Rising' /\ NeverLess
<1>1. j # NoJob
  BY JobsAssumption
<1>2. /\ request[j] \notin Unsent
      /\ \A i \in 1 .. Len(queue) : queue[i] # j /\ queue[i] \in Jobs
      /\ \A v \in Workers : v # w => worker[v].job # j
  BY <1>1 DEF OnePlace, QueuedOnce, HeldOnce, TInv, TypeOK
<1>3. \A i \in Jobs : request'[i] \in Unsent => AtZero(i)'
  BY <1>2 DEF Rising, AtZero
<1>4. \A i \in 1 .. Len(queue) : AtZero(queue[i])'
  BY <1>2 DEF Rising, AtZero
<1>5. ASSUME NEW v \in Workers, worker'[v].pc # "idle" PROVE Pace(worker[v])'
  <2>1. CASE v = w
    BY <1>5, <2>1
  <2>2. CASE v # w
    <3>1. worker'[v] = worker[v] /\ worker[v].job \in Jobs /\ worker[v].job # j
      BY <1>2, <1>5, <2>2, WorkerTyped
    <3>2. Pace(worker[v])
      BY <1>5, <3>1 DEF Rising
    <3>. QED  BY <3>1, <3>2 DEF Pace, AtZero, NotAhead
  <2>. QED  BY <2>1, <2>2
<1>6. NeverLess
  <2>1. \A i \in Jobs : row[i].progress >= row[i].progress
    BY RowTyped DEF TInv, Complete
  <2>. QED  BY <2>1 DEF NeverLess
<1>. QED  BY <1>3, <1>4, <1>5, <1>6 DEF Rising

LEMMA RisingStep ==
  ASSUME TInv, OnePlace, Rising, [Next]_vars
  PROVE  Rising' /\ NeverLess
<1>0. /\ TypeOK /\ row \in [Jobs -> JobRow] /\ worker \in [Workers -> Worker]
      /\ queue \in Seq(Jobs) /\ \A i \in 1 .. Len(queue) : queue[i] \in Jobs
      /\ DOMAIN request = Jobs /\ QueuedOnce /\ HeldOnce
  BY DEF TInv, TypeOK, OnePlace
<1>h. \A w \in Workers : worker[w].pc # "idle" => worker[w].job \in Jobs \ {NoJob}
  BY WorkerTyped, JobsAssumption
<1>p. \A j \in Jobs : row[j].progress \in 0 .. Complete
  BY <1>0, RowTyped
<1>n. (\A j \in Jobs : row'[j].progress = row[j].progress) => NeverLess
  BY <1>p DEF NeverLess, Complete
<1>1. ASSUME UNCHANGED worker, UNCHANGED queue,
             \A j \in Jobs : /\ row'[j].progress = row[j].progress
                             /\ request'[j] \in Unsent => request[j] \in Unsent
      PROVE  Rising' /\ NeverLess
  <2>1. \A j \in Jobs : request'[j] \in Unsent => AtZero(j)'
    BY <1>1 DEF Rising, AtZero
  <2>2. \A i \in 1 .. Len(queue) : AtZero(queue[i])'
    BY <1>0, <1>1 DEF Rising, AtZero
  <2>3. ASSUME NEW w \in Workers, worker[w].pc # "idle" PROVE Pace(worker[w])'
    <3>1. worker[w].job \in Jobs /\ Pace(worker[w])
      BY <1>h, <2>3 DEF Rising
    <3>. QED  BY <1>1, <3>1 DEF Pace, AtZero, NotAhead
  <2>. QED  BY <1>1, <1>n, <2>1, <2>2, <2>3 DEF Rising
<1>2. ASSUME NEW j \in Jobs, NEW kind \in {"folder", "video"}, Create(j, kind)
      PROVE  Rising' /\ NeverLess
  <2>1. row[j].progress = 0
    BY <1>2 DEF Create, Rising, AtZero, Unsent
  <2>2. /\ row'[j].progress = 0
        /\ \A i \in Jobs : i # j => row'[i] = row[i] /\ request'[i] = request[i]
        /\ request[j] = "none" /\ UNCHANGED <<queue, worker>>
    BY <1>0, <1>2 DEF Create
  <2>. QED  BY <1>1, <2>1, <2>2 DEF Unsent
<1>3. ASSUME NEW j \in Jobs, Enqueue(j) PROVE Rising' /\ NeverLess
  <2>1. CASE UNCHANGED queue
    BY <1>0, <1>1, <1>3, <2>1 DEF Enqueue, Unsent
  <2>2. CASE queue' = Append(queue, j)
    <3>1. /\ request[j] = "enqueue" /\ request'[j] \in {"reply", "refuse"}
          /\ \A i \in Jobs : i # j => request'[i] = request[i]
          /\ UNCHANGED <<row, worker>>
      BY <1>0, <1>3 DEF Enqueue
    <3>2. row[j].progress = 0
      BY <3>1 DEF Rising, AtZero, Unsent
    <3>3. /\ Len(queue') = Len(queue) + 1 /\ Len(queue) \in Nat
          /\ \A i \in 1 .. Len(queue) : queue'[i] = queue[i]
          /\ queue'[Len(queue) + 1] = j
      BY <1>0, <2>2
    <3>4. \A i \in Jobs : request'[i] \in Unsent => AtZero(i)'
      BY <3>1 DEF Rising, AtZero, Unsent
    <3>5. ASSUME NEW i \in 1 .. Len(queue') PROVE AtZero(queue[i])'
      <4>1. i \in 1 .. Len(queue) \/ i = Len(queue) + 1
        BY <3>3
      <4>. QED  BY <3>1, <3>2, <3>3, <4>1 DEF Rising, AtZero
    <3>6. \A w \in Workers : worker'[w].pc # "idle" => Pace(worker[w])'
      BY <3>1 DEF Rising, Pace, AtZero, NotAhead
    <3>. QED  BY <1>n, <3>1, <3>4, <3>5, <3>6 DEF Rising
  <2>. QED  BY <1>3, <2>1, <2>2 DEF Enqueue
<1>4. ASSUME NEW j \in Jobs, Refuse(j) PROVE Rising' /\ NeverLess
  <2>1. /\ row'[j].progress = row[j].progress
        /\ \A i \in Jobs : i # j => row'[i] = row[i]
    BY <1>0, <1>4, UpdateSplit DEF Refuse
  <2>. QED  BY <1>0, <1>1, <1>4, <2>1 DEF Refuse, Unsent
<1>5. ASSUME NEW j \in Jobs, Reply(j) \/ ApiCrash(j) PROVE Rising' /\ NeverLess
  BY <1>0, <1>1, <1>5 DEF Reply, ApiCrash, Unsent
<1>6. ASSUME NEW w \in Workers, Take(w) PROVE Rising' /\ NeverLess
  <2>1. /\ Len(queue) \in Nat \ {0} /\ Head(queue) = queue[1]
        /\ Len(queue') = Len(queue) - 1
        /\ \A i \in 1 .. Len(queue') : queue'[i] = queue[i + 1]
    BY <1>0, <1>6 DEF Take
  <2>2. /\ UNCHANGED <<row, request>>
        /\ worker'[w].job = queue[1] /\ worker'[w].pc = "start"
        /\ \A v \in Workers : v # w => worker'[v] = worker[v]
    BY <1>0, <1>6, <2>1 DEF Take
  <2>3. \A i \in 1 .. Len(queue) : AtZero(queue[i])
    BY DEF Rising
  <2>4. ASSUME NEW i \in 1 .. Len(queue') PROVE AtZero(queue[i])'
    <3>1. i + 1 \in 1 .. Len(queue) /\ queue'[i] = queue[i + 1]
      BY <2>1
    <3>2. AtZero(queue[i + 1])
      BY <2>3, <3>1
    <3>. QED  BY <2>2, <3>1, <3>2 DEF AtZero
  <2>5. ASSUME NEW v \in Workers, worker'[v].pc # "idle" PROVE Pace(worker[v])'
    <3>1. CASE v = w
      <4>1. AtZero(queue[1])
        BY <2>1, <2>3
      <4>. QED  BY <2>2, <3>1, <4>1 DEF Pace, AtZero
    <3>2. CASE v # w
      <4>1. worker'[v] = worker[v] /\ Pace(worker[v])
        BY <2>2, <2>5, <3>2 DEF Rising
      <4>. QED  BY <2>2, <4>1 DEF Pace, AtZero, NotAhead
    <3>. QED  BY <3>1, <3>2
  <2>6. \A j \in Jobs : request'[j] \in Unsent => AtZero(j)'
    BY <2>2 DEF Rising, AtZero
  <2>. QED  BY <1>n, <2>2, <2>4, <2>5, <2>6 DEF Rising
<1>7. ASSUME NEW w \in Workers, Work(w) \/ Raise(w) \/ Escape(w) \/ Kill(w) PROVE Rising' /\ NeverLess
  <2>. DEFINE k == worker[w]
  <2>0. PICK j \in Jobs : worker[w].job = j /\ k.pc # "idle"
    <3>1. k.pc # "idle"
      BY <1>7 DEF Work, Begin, OpenSource, SampleFrame, EndOfVideo, SaveItem, ReportItem,
                  Finish, Return, RecordFailure, Raise, Escape, Abandon, Kill
    <3>. QED  BY <3>1, <1>h
  <2>1. /\ UNCHANGED <<queue, request>>
        /\ \A v \in Workers : v # w => worker'[v] = worker[v]
        /\ \A i \in Jobs : i # j => row'[i] = row[i]
    <3>1. UNCHANGED <<queue, request>>
      BY <1>7 DEF Work, Begin, OpenSource, SampleFrame, EndOfVideo, SaveItem, ReportItem,
                  Finish, Return, RecordFailure, Raise, Escape, Abandon, Kill
    <3>2. \A v \in Workers : v # w => worker'[v] = worker[v]
      BY <1>0, <1>7 DEF Work, Begin, OpenSource, SampleFrame, EndOfVideo, SaveItem,
                  ReportItem, Finish, Return, RecordFailure, Raise, Escape, Abandon, Kill,
                  GoTo, GoOn
    <3>3. \A i \in Jobs : i # j => row'[i] = row[i]
      BY <1>0, <1>7, <2>0 DEF Work, Begin, OpenSource, SampleFrame, EndOfVideo, SaveItem,
                  ReportItem, Finish, Return, RecordFailure, Raise, Escape, Abandon, Kill,
                  Reported, Update
    <3>. QED  BY <3>1, <3>2, <3>3
  <2>2. /\ Pace(k) /\ Counts(k) /\ row[j].progress \in 0 .. Complete
        /\ k.phase \in {"photo", "frame", "track"} /\ k.n \in Nat /\ k.of \in Nat
    BY <1>p, <2>0, WorkerTyped DEF Rising
  <2>3. (worker'[w].pc # "idle" => Pace(worker[w])')
        /\ row'[j].progress >= row[j].progress => Rising' /\ NeverLess
    BY <2>0, <2>1, RisingWorker
  <2>s. row'[j].progress = row[j].progress => row'[j].progress >= row[j].progress
    BY <2>2 DEF Complete
  <2>4. CASE Begin(w)
    <3>1. row'[j].progress = row[j].progress
      BY <1>0, <2>0, <2>4, UpdateSplit DEF Begin
    <3>2. worker'[w].pc = "source" /\ worker'[w].job = j
      BY <1>0, <2>0, <2>4 DEF Begin, GoTo, GoOn
    <3>3. row[j].progress = 0
      BY <2>0, <2>2, <2>4 DEF Begin, Pace, AtZero
    <3>. QED  BY <2>3, <2>s, <3>1, <3>2, <3>3 DEF Pace, AtZero
  <2>5. CASE OpenSource(w)
    <3>1. /\ worker'[w].job = j /\ worker'[w].n = 0 /\ worker'[w].of \in Nat
          /\ \/ worker'[w].pc = "item" /\ worker'[w].phase = "photo"
             \/ worker'[w].pc = "frame" /\ worker'[w].phase = "frame" /\ worker'[w].of >= 1
      BY <1>0, <2>0, <2>5 DEF OpenSource, GoOn
    <3>2. UNCHANGED row /\ row[j].progress = 0
      BY <2>0, <2>2, <2>5 DEF OpenSource, Pace, AtZero
    <3>3. ProgressOf(worker'[w].phase, 0, worker'[w].of) >= 0
      <4>1. ProgressOf(worker'[w].phase, 0, worker'[w].of) \in 0 .. Complete
        BY <3>1, ProgressAtZero
      <4>. QED  BY <4>1 DEF Complete
    <3>. QED  BY <2>3, <2>s, <3>1, <3>2, <3>3 DEF Pace, AtZero, NotAhead
  <2>6. CASE SampleFrame(w)
    <3>1. k.pc = "frame" /\ k.phase = "frame" /\ k.of >= 1
      BY <2>2, <2>6 DEF SampleFrame, Counts
    <3>2. /\ worker'[w].job = j /\ worker'[w].pc = "frame" /\ worker'[w].phase = k.phase
          /\ worker'[w].of = k.of /\ worker'[w].n = k.n + 1
      BY <1>0, <2>0, <2>6 DEF SampleFrame, GoOn
    <3>3. row'[j].progress = ProgressOf(k.phase, k.n, k.of)
      BY <1>0, <2>0, <2>6, UpdateSplit DEF SampleFrame, Reported
    <3>4. ProgressOf(k.phase, k.n, k.of) <= ProgressOf(k.phase, k.n + 1, k.of)
      BY <2>2, <3>1, ProgressGrows
    <3>5. /\ row[j].progress <= ProgressOf(k.phase, k.n, k.of)
          /\ ProgressOf(k.phase, k.n, k.of) \in 0 .. Complete
      BY <2>0, <2>2, <3>1, ProgressInRange DEF Pace, NotAhead
    <3>6. row'[j].progress >= row[j].progress
      <4>. DEFINE a == ProgressOf(k.phase, k.n, k.of)
      <4>1. row[j].progress <= a /\ row'[j].progress = a /\ a \in Nat
        BY <3>3, <3>5 DEF Complete
      <4>. HIDE DEF a
      <4>. QED  BY <2>2, <4>1 DEF Complete
    <3>. QED  BY <2>3, <3>2, <3>3, <3>4, <3>6 DEF Pace, AtZero, NotAhead
  <2>7. CASE EndOfVideo(w)
    <3>1. /\ k.pc = "frame" /\ k.phase = "frame" /\ k.of >= 1 /\ UNCHANGED row
          /\ row[j].progress <= ProgressOf(k.phase, k.n, k.of)
      BY <2>0, <2>2, <2>7 DEF EndOfVideo, Counts, Pace, NotAhead
    <3>2. /\ worker'[w].job = j /\ worker'[w].pc = "item" /\ worker'[w].phase = "track"
          /\ worker'[w].of \in Nat /\ worker'[w].n = 0
      BY <1>0, <2>0, <2>7 DEF EndOfVideo, GoOn
    <3>3. /\ ProgressOf(k.phase, k.n, k.of) \in 0 .. Complete
          /\ ProgressOf(k.phase, k.n, k.of) <= 80
      BY <2>2, <3>1, ProgressInRange
    <3>4. /\ ProgressOf("track", 0, worker'[w].of) \in 0 .. Complete
          /\ ProgressOf("track", 0, worker'[w].of) >= 80
      BY <3>2, ProgressAtZero
    <3>5. row[j].progress <= ProgressOf("track", 0, worker'[w].of)
      <4>1. row[j].progress \in Nat /\ ProgressOf(k.phase, k.n, k.of) \in Nat
        BY <2>2, <3>3 DEF Complete
      <4>2. row[j].progress <= 80 /\ 80 \in Nat
        BY <3>1, <3>3, <4>1, PassesThrough
      <4>3. ProgressOf("track", 0, worker'[w].of) \in Nat
        BY <3>4 DEF Complete
      <4>. QED  BY <3>4, <4>1, <4>2, <4>3, PassesThrough
    <3>. QED  BY <2>3, <2>s, <3>1, <3>2, <3>5 DEF Pace, AtZero, NotAhead
  <2>8. CASE SaveItem(w)
    <3>1. /\ UNCHANGED row
          /\ row[j].progress <= ProgressOf(k.phase, k.n, k.of)
      BY <2>0, <2>2, <2>8 DEF SaveItem, Pace, NotAhead
    <3>2. /\ worker'[w].job = j /\ worker'[w].pc = "report" /\ worker'[w].phase = k.phase
          /\ worker'[w].of = k.of /\ worker'[w].n = k.n
      BY <1>0, <2>0, <2>8 DEF SaveItem, GoTo, GoOn
    <3>. QED  BY <2>3, <2>s, <3>1, <3>2 DEF Pace, AtZero, NotAhead
  <2>9. CASE ReportItem(w)
    <3>1. /\ k.phase # "frame" /\ k.n + 1 \in Nat /\ k.n + 1 <= k.of /\ k.n <= k.of
          /\ row[j].progress <= ProgressOf(k.phase, k.n, k.of)
      BY <2>0, <2>2, <2>9 DEF ReportItem, Counts, Items, Pace, NotAhead
    <3>2. /\ worker'[w].job = j /\ worker'[w].pc = "item" /\ worker'[w].phase = k.phase
          /\ worker'[w].of = k.of /\ worker'[w].n = k.n + 1
      BY <1>0, <2>0, <2>9 DEF ReportItem, GoOn
    <3>3. row'[j].progress = ProgressOf(k.phase, k.n + 1, k.of)
      BY <1>0, <2>0, <2>9, UpdateSplit DEF ReportItem, Reported
    <3>4. /\ ProgressOf(k.phase, k.n, k.of) <= ProgressOf(k.phase, k.n + 1, k.of)
          /\ ProgressOf(k.phase, k.n, k.of) \in 0 .. Complete
          /\ ProgressOf(k.phase, k.n + 1, k.of) \in 0 .. Complete
      BY <2>2, <3>1, ProgressGrows, ProgressInRange
    <3>5. /\ row'[j].progress >= row[j].progress
          /\ row'[j].progress <= ProgressOf(k.phase, k.n + 1, k.of)
      <4>. DEFINE a == ProgressOf(k.phase, k.n, k.of)
                  b == ProgressOf(k.phase, k.n + 1, k.of)
      <4>1. row[j].progress <= a /\ row'[j].progress = b /\ a <= b /\ a \in Nat /\ b \in Nat
        BY <3>1, <3>3, <3>4 DEF Complete
      <4>. HIDE DEF a, b
      <4>2. row'[j].progress >= row[j].progress /\ row'[j].progress <= b
        BY <2>2, <4>1 DEF Complete
      <4>. QED  BY <4>2 DEF b
    <3>. QED  BY <2>3, <3>2, <3>5 DEF Pace, AtZero, NotAhead
  <2>10. CASE Finish(w)
    <3>1. row'[j].progress = Complete
      BY <1>0, <2>0, <2>10, UpdateSplit DEF Finish
    <3>2. worker'[w].pc = "return"
      BY <1>0, <2>10 DEF Finish, GoTo, GoOn
    <3>. QED  BY <2>2, <2>3, <3>1, <3>2 DEF Pace, Complete
  <2>11. CASE Return(w) \/ Escape(w) \/ Kill(w)
    <3>1. worker'[w].pc = "idle" /\ UNCHANGED row
      BY <1>0, <2>11 DEF Return, Escape, Abandon, Kill, Idle
    <3>. QED  BY <2>3, <2>s, <3>1
  <2>12. CASE RecordFailure(w)
    <3>1. row'[j].progress = row[j].progress
      <4>. DEFINE p == row[j].progress
                  m == row[j].message
                  l == row[j].result
                  e == TRUE
      <4>1. Update(j, "failed", p, m, l, e)
        BY <2>0, <2>12 DEF RecordFailure
      <4>. HIDE DEF p, m, l, e
      <4>2. row'[j].progress = p
        BY <1>0, <2>0, <4>1, UpdateSplit
      <4>. QED  BY <4>2 DEF p
    <3>2. worker'[w].pc = "idle"
      BY <1>0, <2>12 DEF RecordFailure, Idle
    <3>. QED  BY <2>3, <2>s, <3>1, <3>2
  <2>13. CASE Raise(w)
    <3>1. worker'[w].pc \in {"fail", "overdue"} /\ UNCHANGED row
      BY <1>0, <2>13 DEF Raise, GoTo, GoOn
    <3>. QED  BY <2>3, <2>s, <3>1 DEF Pace
  <2>. QED
    BY <1>7, <2>4, <2>5, <2>6, <2>7, <2>8, <2>9, <2>10, <2>11, <2>12, <2>13 DEF Work
<1>8. ASSUME NEW s \in Streams, (\E j \in Jobs : Open(s, j)) \/ Poll(s) \/ Disconnect(s)
      PROVE  Rising' /\ NeverLess
  BY <1>1, <1>8 DEF Open, Poll, Disconnect
<1>9. CASE UNCHANGED vars
  BY <1>1, <1>9 DEF vars
<1>. QED
  BY <1>2, <1>3, <1>4, <1>5, <1>6, <1>7, <1>8, <1>9 DEF Next, Serve

\* How a step changes a stream: only opening, polling or closing does.
LEMMA StreamSteps ==
  ASSUME TInv, [Next]_vars, NEW s \in Streams
  PROVE  \/ stream'[s] = stream[s]
         \/ (\E j \in Jobs : Open(s, j)) \/ Poll(s) \/ Disconnect(s)
<1>1. stream \in [Streams -> Stream]
  BY DEF TInv, TypeOK
<1>. QED
  BY <1>1 DEF Next, vars, Create, Serve, Enqueue, Refuse, Reply, ApiCrash, Take, Work, Begin,
     OpenSource, SampleFrame, EndOfVideo, SaveItem, ReportItem, Finish, Return,
     RecordFailure, Raise, Escape, Abandon, Kill, Open, Poll, Disconnect

\* What a poll sends is the row as it is.
LEMMA PollSends ==
  ASSUME TInv, NEW s \in Streams, Poll(s)
  PROVE  /\ stream[s].job \in Jobs /\ stream'[s].job = stream[s].job /\ UNCHANGED row
         /\ \A new \in stream'[s].last : new.progress = row[stream[s].job].progress
<1>. DEFINE j == stream[s].job
            r == [job |-> j, open |-> row[j].status \notin Ended, last |-> {StateOf(j)}]
<1>1. stream \in [Streams -> Stream] /\ Followed
  BY DEF TInv, TypeOK
<1>2. stream[s].open /\ UNCHANGED row /\ stream' = [stream EXCEPT ![s] = r]
  BY DEF Poll
<1>3. j \in Jobs
  BY <1>1, <1>2 DEF Followed
<1>4. r.job = j /\ \A new \in r.last : new.progress = row[j].progress
  BY DEF StateOf
<1>. HIDE DEF r
<1>5. stream'[s] = r
  BY <1>1, <1>2
<1>. QED  BY <1>2, <1>3, <1>4, <1>5

LEMMA SentStep ==
  ASSUME TInv, TInv', Sent, NeverLess, [Next]_vars
  PROVE  Sent'
<1>0. /\ stream \in [Streams -> Stream]
      /\ \A j \in Jobs : row[j].progress \in Nat /\ row'[j].progress \in Nat
  <2>1. row \in [Jobs -> JobRow] /\ row' \in [Jobs -> JobRow] /\ stream \in [Streams -> Stream]
    BY DEF TInv, TypeOK
  <2>. QED  BY <2>1 DEF JobRow, Complete
<1>. SUFFICES ASSUME NEW s \in Streams, stream'[s].job \in Jobs, NEW old \in stream'[s].last
     PROVE  old.progress <= row'[stream'[s].job].progress
  BY DEF Sent
<1>1. CASE stream'[s] = stream[s]
  <2>. DEFINE j == stream[s].job
              p == old.progress
  <2>1. j \in Jobs /\ old \in stream[s].last
    BY <1>1
  <2>2. p <= row[j].progress /\ p \in Nat
    BY <1>0, <2>1 DEF Sent, Stream, State, Complete
  <2>3. row[j].progress <= row'[j].progress
    BY <1>0, <2>1 DEF NeverLess
  <2>4. row[j].progress \in Nat /\ row'[j].progress \in Nat
    BY <1>0, <2>1
  <2>. HIDE DEF p
  <2>5. p <= row'[j].progress
    BY <2>2, <2>3, <2>4
  <2>. QED  BY <1>1, <2>5 DEF p
<1>2. CASE Poll(s)
  <2>1. stream[s].job \in Jobs /\ stream'[s].job = stream[s].job /\ UNCHANGED row
        /\ old.progress = row[stream[s].job].progress
    BY <1>2, PollSends
  <2>. QED  BY <1>0, <2>1
<1>3. CASE (\E j \in Jobs : Open(s, j)) \/ Disconnect(s)
  BY <1>0, <1>3 DEF Open, Disconnect
<1>. QED  BY <1>1, <1>2, <1>3, StreamSteps

LEMMA ForwardStep ==
  ASSUME TInv, Sent, [Next]_vars, NEW s \in Streams,
         stream[s].open, stream'[s].job = stream[s].job,
         NEW old \in stream[s].last, NEW new \in stream'[s].last
  PROVE  new.progress >= old.progress
<1>0. stream \in [Streams -> Stream] /\ row \in [Jobs -> JobRow]
  BY DEF TInv, TypeOK
<1>1. CASE stream'[s] = stream[s]
  <2>1. new = old
    BY <1>1 DEF TInv, TypeOK
  <2>2. old.progress \in Nat
    BY <1>0 DEF Stream, State, Complete
  <2>. QED  BY <2>1, <2>2
<1>2. CASE Poll(s)
  <2>1. stream[s].job \in Jobs /\ new.progress = row[stream[s].job].progress
    BY <1>2, PollSends
  <2>2. old.progress <= row[stream[s].job].progress
    BY <2>1 DEF Sent
  <2>3. old.progress \in Nat /\ row[stream[s].job].progress \in Nat
    BY <1>0, <2>1 DEF Stream, State, Complete, JobRow
  <2>. QED  BY <2>1, <2>2, <2>3
<1>3. CASE \E j \in Jobs : Open(s, j)
  BY <1>3 DEF Open
<1>4. CASE Disconnect(s)
  BY <1>0, <1>4 DEF Disconnect
<1>. QED  BY <1>1, <1>2, <1>3, <1>4, StreamSteps

\* For any faults, any number of jobs, workers and clients and any length of
\* folders and videos: an open stream never shows less progress than it has
\* shown (job_events, over what run_job and _enqueue write).
THEOREM StreamsGoForward == Spec => StreamForward
<1>1. Init => Rising /\ Sent
  BY DEF Init, Rising, Sent, Pace, AtZero, NoRow, Idle
<1>2. TInv /\ SInv /\ Rising /\ [Next]_vars => Rising' /\ NeverLess
  BY RisingStep DEF SInv
<1>3. TInv /\ TInv' /\ Sent /\ NeverLess /\ [Next]_vars => Sent'
  BY SentStep
<1>4. TInv /\ Sent /\ [Next]_vars =>
        [\A s \in Streams : stream[s].open /\ stream'[s].job = stream[s].job =>
           \A old \in stream[s].last, new \in stream'[s].last : new.progress >= old.progress
        ]_stream
  BY ForwardStep
<1>. QED  BY <1>1, <1>2, <1>3, <1>4, Typed, StoringInvariant, PTL DEF Spec, StreamForward
=============================================================================
