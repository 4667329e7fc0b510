-------------------------------- MODULE Jobs --------------------------------
(***************************************************************************)
(* services/api: background jobs.  The API commits a job row and enqueues  *)
(* it (main.py _enqueue); a worker takes it and reports progress on the    *)
(* row (jobs.py run_job); the API streams the row to clients as            *)
(* Server-Sent Events by polling it (main.py job_events).  The three meet  *)
(* only in the row and in the Redis list of RQ.                            *)
(***************************************************************************)
EXTENDS Naturals, Sequences

CONSTANTS
  Jobs,      \* ids of the jobs that may be created
  Workers,   \* worker processes
  Streams,   \* open connections to /jobs/{id}/events
  NoJob,     \* no job
  Faults,    \* which failures may happen, of AllFaults
  MaxWork    \* bound: photos of a folder, sampled frames and tracks of a video

AllFaults == {
  "error",       \* a step of a job raises: no detector, an unreadable video, ...
  "timeout",     \* RQ raises JobTimeoutException, once, at any point of run_job
  "database",    \* the update that records a failure raises itself
  "kill",        \* the worker's process ends
  "redis_down",  \* enqueue raises and the job is not queued
  "lost_reply",  \* enqueue raises although Redis queued the job
  "api_crash",   \* the API's process ends while it serves a request
  "disconnect"}  \* a client, or the API's end, closes a stream

ASSUME JobsAssumption ==
  /\ NoJob \notin Jobs
  /\ Faults \subseteq AllFaults
  /\ MaxWork \in Nat \ {0}

VARIABLES
  row,      \* the row of each job, as committed
  queue,    \* the Redis list of RQ
  request,  \* the request that creates a job: where _enqueue is
  worker,   \* what each worker is doing
  saved,    \* how many reads with this job_id are stored
  stream,   \* what each stream follows and has sent
  lost      \* history: jobs whose worker died or whose exception left run_job

vars == <<row, queue, request, worker, saved, stream, lost>>

Status == {"none", "queued", "running", "finished", "failed"}
Ended  == {"finished", "failed"}

\* Progress in percent: 0.0 .. 1.0 in the row.
Complete == 100

\* What a message counts: photos, frames or tracks; "queued" and "done" are texts.
Message == ({"photo", "frame", "track"} \X Nat) \cup {<<"queued", 0>>, <<"done", 0>>}

\* Result: how many reads the result lists, once there is a result.
JobRow == [status   : Status,
           kind     : {"folder", "video"},
           progress : 0 .. Complete,
           message  : Message,
           result   : SUBSET Nat,
           error    : BOOLEAN]

NoRow == [status |-> "none", kind |-> "folder", progress |-> 0,
          message |-> <<"queued", 0>>, result |-> {}, error |-> FALSE]

\* of: items in all (the reported length for frames); n: items done;
\* listed: reads that the result lists so far.
\* In the except clause after an error ("fail"), when RQ's timer still runs, or after
\* its timeout ("overdue").
Worker == [pc     : {"idle", "start", "source", "frame", "item", "report", "return", "fail",
                     "overdue"},
           job    : Jobs \cup {NoJob},
           phase  : {"photo", "frame", "track"},
           of     : Nat,
           n      : Nat,
           listed : Nat]

Idle == [pc |-> "idle", job |-> NoJob, phase |-> "photo", of |-> 0, n |-> 0, listed |-> 0]

\* The state a progress event carries; a stream that has sent none has sent {}.
State == [status : Status, progress : 0 .. Complete, message : Message]

Stream == [job : Jobs \cup {NoJob}, open : BOOLEAN, last : SUBSET State]

TypeOK ==
  /\ row \in [Jobs -> JobRow]
  /\ queue \in Seq(Jobs)
  /\ request \in [Jobs -> {"none", "enqueue", "refuse", "reply",
                           "accepted", "unavailable", "dead"}]
  /\ worker \in [Workers -> Worker]
  /\ saved \in [Jobs -> Nat]
  /\ stream \in [Streams -> Stream]
  /\ lost \in SUBSET Jobs
  /\ \A j \in Jobs : \A a, b \in row[j].result : a = b
  /\ \A s \in Streams : \A a, b \in stream[s].last : a = b

Init ==
  /\ row = [j \in Jobs |-> NoRow]
  /\ queue = <<>>
  /\ request = [j \in Jobs |-> "none"]
  /\ worker = [w \in Workers |-> Idle]
  /\ saved = [j \in Jobs |-> 0]
  /\ stream = [s \in Streams |-> [job |-> NoJob, open |-> FALSE, last |-> {}]]
  /\ lost = {}

\* A committed update of a job's row, and a worker's next step in its job.
Update(j, status, progress, message, result, error) ==
  row' = [row EXCEPT ![j] =
    [status |-> status, kind |-> row[j].kind, progress |-> progress,
     message |-> message, result |-> result, error |-> error]]

GoOn(w, pc, phase, of, n, listed) ==
  worker' = [worker EXCEPT ![w] =
    [pc |-> pc, job |-> worker[w].job, phase |-> phase, of |-> of, n |-> n,
     listed |-> listed]]

GoTo(w, pc) ==
  LET k == worker[w] IN GoOn(w, pc, k.phase, k.of, k.n, k.listed)
-----------------------------------------------------------------------------
(***************************************************************************)
(* _enqueue: the row is committed before the job is queued, so a worker    *)
(* always finds it; whatever enqueue raises, the row becomes "failed".     *)
(***************************************************************************)
Create(j, kind) ==
  /\ request[j] = "none"
  /\ row' = [row EXCEPT ![j] =
       [status |-> "queued", kind |-> kind, progress |-> 0,
        message |-> <<"queued", 0>>, result |-> {}, error |-> FALSE]]
  /\ request' = [request EXCEPT ![j] = "enqueue"]
  /\ UNCHANGED <<queue, worker, saved, stream, lost>>

Enqueue(j) ==
  /\ request[j] = "enqueue"
  /\ \/ /\ queue' = Append(queue, j)
        /\ request' = [request EXCEPT ![j] = "reply"]
     \/ /\ "redis_down" \in Faults
        /\ request' = [request EXCEPT ![j] = "refuse"]
        /\ UNCHANGED queue
     \/ /\ "lost_reply" \in Faults
        /\ queue' = Append(queue, j)
        /\ request' = [request EXCEPT ![j] = "refuse"]
  /\ UNCHANGED <<row, worker, saved, stream, lost>>

\* Whatever the row says by now, it says "failed" afterwards (and 503 is sent).
Refuse(j) ==
  /\ request[j] = "refuse"
  /\ Update(j, "failed", row[j].progress, row[j].message, row[j].result, TRUE)
  /\ request' = [request EXCEPT ![j] = "unavailable"]
  /\ UNCHANGED <<queue, worker, saved, stream, lost>>

Reply(j) ==
  /\ request[j] = "reply"
  /\ request' = [request EXCEPT ![j] = "accepted"]
  /\ UNCHANGED <<row, queue, worker, saved, stream, lost>>

\* The API's process ends between the commits of a request, or the update that
\* refuses the job raises.
ApiCrash(j) ==
  /\ "api_crash" \in Faults
  /\ request[j] \in {"enqueue", "refuse", "reply"}
  /\ request' = [request EXCEPT ![j] = "dead"]
  /\ UNCHANGED <<row, queue, worker, saved, stream, lost>>
-----------------------------------------------------------------------------
(***************************************************************************)
(* run_job.  Each _update is a session of its own that writes the named    *)
(* columns whatever they hold.                                             *)
(***************************************************************************)
Take(w) ==
  /\ worker[w].pc = "idle"
  /\ queue # <<>>
  /\ worker' = [worker EXCEPT ![w] =
       [pc |-> "start", job |-> Head(queue), phase |-> "photo", of |-> 0, n |-> 0,
        listed |-> 0]]
  /\ queue' = Tail(queue)
  /\ UNCHANGED <<row, request, saved, stream, lost>>

Begin(w) ==
  LET j == worker[w].job IN
  /\ worker[w].pc = "start"
  /\ Update(j, "running", row[j].progress, row[j].message, row[j].result, row[j].error)
  /\ GoTo(w, "source")
  /\ UNCHANGED <<queue, request, saved, stream, lost>>

\* The folder is listed once; a video's reported length is at least 1 (0 counts as 1; that
\* OpenCV may report a negative one, which the code would keep, is left out).
OpenSource(w) ==
  LET k == worker[w] IN
  /\ k.pc = "source"
  /\ \/ /\ row[k.job].kind = "folder"
        /\ \E photos \in 0 .. MaxWork : GoOn(w, "item", "photo", photos, 0, 0)
     \/ /\ row[k.job].kind = "video"
        /\ \E total \in 1 .. MaxWork : GoOn(w, "frame", "frame", total, 0, 0)
  /\ UNCHANGED <<row, queue, request, saved, stream, lost>>

Least(a, b) == IF a < b THEN a ELSE b
AtLeastOne(n) == IF n = 0 THEN 1 ELSE n

\* Mutant: a video that is longer than it reports is not cut off at 80 %.
ProgressOf_NoMin(phase, n, of) ==
  CASE phase = "photo" -> (100 * n) \div AtLeastOne(of)
    [] phase = "frame" -> Least(100, (80 * n) \div of)
    [] phase = "track" -> 80 + (20 * n) \div AtLeastOne(of)

\* The progress that goes with n of so many photos, frames or tracks.
ProgressOf(phase, n, of) ==
  CASE phase = "photo" -> (100 * n) \div AtLeastOne(of)
    [] phase = "frame" -> (80 * Least(n, of)) \div of
    [] phase = "track" -> 80 + (20 * n) \div AtLeastOne(of)

Reported(w, n) ==
  LET k == worker[w]
      j == k.job
  IN  Update(j, row[j].status, ProgressOf(k.phase, n, k.of), <<k.phase, n>>,
             row[j].result, row[j].error)

\* A sampled frame: the tracker is updated, then the row.  Frames are counted
\* in strides; a video may be longer or shorter than it reports.
SampleFrame(w) ==
  LET k == worker[w] IN
  /\ k.pc = "frame"
  /\ k.n <= MaxWork
  /\ Reported(w, k.n)
  /\ GoOn(w, "frame", k.phase, k.of, k.n + 1, 0)
  /\ UNCHANGED <<queue, request, saved, stream, lost>>

EndOfVideo(w) ==
  /\ worker[w].pc = "frame"
  /\ \E tracks \in 0 .. MaxWork :
       /\ worker[w].n = 0 => tracks = 0
       /\ GoOn(w, "item", "track", tracks, 0, 0)
  /\ UNCHANGED <<row, queue, request, saved, stream, lost>>

\* Mutant: the result does not list the read of the item.
SaveItem_Unlisted(w) ==
  LET k == worker[w] IN
  /\ k.pc = "item"
  /\ k.n < k.of
  /\ \/ /\ saved' = [saved EXCEPT ![k.job] = @ + 1]
        /\ GoTo(w, "report")
     \/ /\ k.phase = "photo"
        /\ GoTo(w, "report")
        /\ UNCHANGED saved
  /\ UNCHANGED <<row, queue, request, stream, lost>>

\* The next photo or track is read and its read is stored (save_read commits);
\* a photo that cannot be decoded is listed as an error instead.
SaveItem(w) ==
  LET k == worker[w] IN
  /\ k.pc = "item"
  /\ k.n < k.of
  /\ \/ /\ saved' = [saved EXCEPT ![k.job] = @ + 1]
        /\ GoOn(w, "report", k.phase, k.of, k.n, k.listed + 1)
     \/ /\ k.phase = "photo"
        /\ GoTo(w, "report")
        /\ UNCHANGED saved
  /\ UNCHANGED <<row, queue, request, stream, lost>>

ReportItem(w) ==
  LET k == worker[w] IN
  /\ k.pc = "report"
  /\ Reported(w, k.n + 1)
  /\ GoOn(w, "item", k.phase, k.of, k.n + 1, k.listed)
  /\ UNCHANGED <<queue, request, saved, stream, lost>>

\* Mutant: a source without photos or tracks is not finished.
Finish_NotEmpty(w) ==
  LET k == worker[w] IN
  /\ k.pc = "item"
  /\ k.n = k.of /\ k.of > 0
  /\ Update(k.job, "finished", Complete, <<"done", 0>>, {k.listed}, row[k.job].error)
  /\ GoTo(w, "return")
  /\ UNCHANGED <<queue, request, saved, stream, lost>>

Finish(w) ==
  LET k == worker[w] IN
  /\ k.pc = "item"
  /\ k.n = k.of
  /\ Update(k.job, "finished", Complete, <<"done", 0>>, {k.listed}, row[k.job].error)
  /\ GoTo(w, "return")
  /\ UNCHANGED <<queue, request, saved, stream, lost>>

Return(w) ==
  /\ worker[w].pc = "return"
  /\ worker' = [worker EXCEPT ![w] = Idle]
  /\ UNCHANGED <<row, queue, request, saved, stream, lost>>

\* An exception inside the try block.  Only RQ's timeout can come after the
\* last update; it is an Exception, so it is caught like any other.
Raise(w) ==
  /\ \/ /\ "error" \in Faults
        /\ worker[w].pc \in {"start", "source", "frame", "item", "report"}
        /\ GoTo(w, "fail")
     \/ /\ "timeout" \in Faults
        /\ worker[w].pc \notin {"idle", "fail", "overdue"}
        /\ GoTo(w, "overdue")
  /\ UNCHANGED <<row, queue, request, saved, stream, lost>>

RecordFailure(w) ==
  LET j == worker[w].job IN
  /\ worker[w].pc \in {"fail", "overdue"}
  /\ Update(j, "failed", row[j].progress, row[j].message, row[j].result, TRUE)
  /\ worker' = [worker EXCEPT ![w] = Idle]
  /\ UNCHANGED <<queue, request, saved, stream, lost>>

Abandon(w) ==
  /\ worker' = [worker EXCEPT ![w] = Idle]
  /\ lost' = lost \cup {j \in {worker[w].job} : row[j].status \notin Ended}
  /\ UNCHANGED <<row, queue, request, saved, stream>>

\* An exception that leaves run_job, so RQ drops the job and its row stays as it is:
\* before the try block (settings, engine of the database, folders of the store), or
\* in the except clause, where the update raises or the timeout of a job that failed strikes.
Escape(w) ==
  /\ \/ worker[w].pc = "start" /\ {"error", "timeout"} \cap Faults # {}
     \/ worker[w].pc = "fail" /\ {"database", "timeout"} \cap Faults # {}
     \/ worker[w].pc = "overdue" /\ "database" \in Faults
  /\ Abandon(w)

\* RQ gives a job to a worker once: a killed worker's job is not queued again.
Kill(w) ==
  /\ "kill" \in Faults
  /\ worker[w].pc # "idle"
  /\ Abandon(w)
-----------------------------------------------------------------------------
(***************************************************************************)
(* job_events: each poll loads the row once and sends what that state says.*)
(***************************************************************************)
Open(s, j) ==
  /\ ~stream[s].open
  /\ row[j].status # "none"
  /\ stream' = [stream EXCEPT ![s] = [job |-> j, open |-> TRUE, last |-> {}]]
  /\ UNCHANGED <<row, queue, request, worker, saved, lost>>

StateOf(j) == [status |-> row[j].status, progress |-> row[j].progress,
               message |-> row[j].message]

\* Mutant: the stream ends when the job is at 100 %.
Poll_Complete(s) ==
  LET j == stream[s].job IN
  /\ stream[s].open
  /\ stream[s].last # {StateOf(j)} \/ row[j].progress = Complete
  /\ stream' = [stream EXCEPT ![s] =
       [job |-> j, open |-> row[j].progress # Complete, last |-> {StateOf(j)}]]
  /\ UNCHANGED <<row, queue, request, worker, saved, lost>>

\* Mutant: the stream does not end for a failed job.
Poll_Finished(s) ==
  LET j == stream[s].job IN
  /\ stream[s].open
  /\ stream[s].last # {StateOf(j)} \/ row[j].status = "finished"
  /\ stream' = [stream EXCEPT ![s] =
       [job |-> j, open |-> row[j].status # "finished", last |-> {StateOf(j)}]]
  /\ UNCHANGED <<row, queue, request, worker, saved, lost>>

\* A progress event when the state differs from the last one sent, then, for a
\* job that ended, the done event and the end of the stream.
Poll(s) ==
  LET j == stream[s].job IN
  /\ stream[s].open
  /\ stream[s].last # {StateOf(j)} \/ row[j].status \in Ended
  /\ stream' = [stream EXCEPT ![s] =
       [job |-> j, open |-> row[j].status \notin Ended, last |-> {StateOf(j)}]]
  /\ UNCHANGED <<row, queue, request, worker, saved, lost>>

Disconnect(s) ==
  /\ "disconnect" \in Faults
  /\ stream[s].open
  /\ stream' = [stream EXCEPT ![s] = [job |-> NoJob, open |-> FALSE, last |-> {}]]
  /\ UNCHANGED <<row, queue, request, worker, saved, lost>>
-----------------------------------------------------------------------------
Serve(j) == Enqueue(j) \/ Refuse(j) \/ Reply(j)

Work(w) ==
  \/ Begin(w) \/ OpenSource(w) \/ SampleFrame(w) \/ EndOfVideo(w) \/ SaveItem(w)
  \/ ReportItem(w) \/ Finish(w) \/ Return(w) \/ RecordFailure(w)

Next ==
  \/ \E j \in Jobs : (\E kind \in {"folder", "video"} : Create(j, kind))
                     \/ Serve(j) \/ ApiCrash(j)
  \/ \E w \in Workers : Take(w) \/ Work(w) \/ Raise(w) \/ Escape(w) \/ Kill(w)
  \/ \E s \in Streams : (\E j \in Jobs : Open(s, j)) \/ Poll(s) \/ Disconnect(s)

Spec == Init /\ [][Next]_vars

(***************************************************************************)
(* The API serves what it accepted, a worker that is alive takes jobs and  *)
(* goes on with the one it has, and a stream's timer fires.  Nothing makes *)
(* a client create a job or open a stream, and no failure is fair.         *)
(***************************************************************************)
Fairness ==
  /\ \A j \in Jobs : WF_vars(Serve(j))
  /\ \A w \in Workers : WF_vars(Take(w)) /\ WF_vars(Work(w))
  /\ \A s \in Streams : WF_vars(Poll(s))

FairSpec == Spec /\ Fairness
-----------------------------------------------------------------------------
(***************************************************************************)
(* Properties.                                                             *)
(***************************************************************************)
\* What is reported is stored, at every moment and after any failure: a job
\* that says "track n/m" has stored n reads, a result lists every stored read
\* (_run_folder and _run_video store before they report).
StoredBeforeReported ==
  \A j \in Jobs :
    /\ row[j].message[1] = "track" => saved[j] >= row[j].message[2]
    /\ \A listed \in row[j].result : listed = saved[j]

\* After its done event a stream's job does not change any more ("done at the
\* end"): a closed stream has sent the last state the job will have.
DoneIsLast ==
  \A s \in Streams : stream[s].job # NoJob /\ ~stream[s].open =>
    stream[s].last = {StateOf(stream[s].job)}

\* A stream never shows a client less progress than before, whatever workers,
\* requests and failures do to the row it polls.
StreamForward ==
  [][\A s \in Streams : stream[s].open /\ stream'[s].job = stream[s].job =>
       \A old \in stream[s].last, new \in stream'[s].last : new.progress >= old.progress
    ]_stream

\* The rows behave as JobLifecycle says.
Lifecycle == INSTANCE JobLifecycle
  WITH status <- [j \in Jobs |-> row[j].status],
       progress <- [j \in Jobs |-> row[j].progress]
ImplementsLifecycle == Lifecycle!Spec

\* Every job that the API accepted ends, and so does every stream, unless the job is lost.
JobsEnd == \A j \in Jobs : request[j] = "accepted" ~> row[j].status \in Ended \/ j \in lost
StreamsEnd == \A s \in Streams : stream[s].open ~> ~stream[s].open \/ stream[s].job \in lost

\* Nobody waits for ever, neither for a job, however it fails, nor on a stream that follows one,
\* but for what run_job cannot record: its worker died, or an exception left it.
JobsAndStreamsEnd == JobsEnd /\ StreamsEnd
=============================================================================
