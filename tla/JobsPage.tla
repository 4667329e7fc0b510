------------------------------ MODULE JobsPage ------------------------------
(***************************************************************************)
(* apps/dashboard/src/pages/JobsPage.vue over api/client.ts, as a client   *)
(* of the jobs API: what it may rely on there is JobLifecycle.  Answers    *)
(* carry the rows of the moment they were made, travel as long as they     *)
(* like and overtake each other; the events of one stream keep their order.*)
(***************************************************************************)
EXTENDS Naturals, Sequences

CONSTANTS
  Jobs, Complete,   \* as in JobLifecycle
  Requests,         \* HTTP requests of the page under way at once (a bound)
  MaxFailures       \* requests and streams that may break (a bound)

VARIABLES
  jobStatus, progress, \* the rows of the service
  list,             \* jobs: the rows shown
  selected,         \* the job shown in detail and its row
  source,           \* the job whose events are followed, or Nobody
  stream,           \* the state its generator sent last, and the events on the way
  pending,
  mounted,
  failures

page == <<list, selected, source, stream, mounted>>
vars == <<jobStatus, progress, page, pending, failures>>

Service == INSTANCE JobLifecycle WITH status <- jobStatus

Absent == [status |-> "none", progress |-> 0]
Nobody == "nobody"
NoStream == [last |-> Absent, wire |-> <<>>]
Idle == [pc |-> "idle", job |-> Nobody, row |-> Absent, rows |-> [j \in Jobs |-> Absent]]

Row(j) == [status |-> jobStatus[j], progress |-> progress[j]]
Ended(row) == row.status \in {"finished", "failed"}

\* A row as the service keeps it: the page is opened at any time of the jobs.
Kept == {Absent, [status |-> "queued", progress |-> 0], [status |-> "finished", progress |-> Complete]}
          \cup [status : {"running", "failed"}, progress : 0 .. Complete]

Init ==
  /\ \E kept \in [Jobs -> Kept] : /\ jobStatus = [j \in Jobs |-> kept[j].status]
                                  /\ progress = [j \in Jobs |-> kept[j].progress]
  /\ list = [j \in Jobs |-> Absent]
  /\ selected = [job |-> Nobody, row |-> Absent]
  /\ source = Nobody
  /\ stream = NoStream
  /\ pending \in {[r \in Requests |-> IF r = first THEN [Idle EXCEPT !.pc = "list"] ELSE Idle] :
                    first \in Requests}
  /\ mounted = TRUE
  /\ failures = 0

\* The API and its workers change the rows; jobs of others are created too, each under an
\* id of its own.
ServiceStep ==
  /\ Service!Next
  /\ \A r \in Requests : pending[r].pc = "post" => jobStatus'[pending[r].job] = "none"
  /\ UNCHANGED <<page, pending, failures>>

\* Mutant: a queued job is not polled for.
Active_Running == \E j \in Jobs : list[j].status = "running"

Active == \E j \in Jobs : list[j].status \in {"queued", "running"}

\* refresh() sends GET /jobs; job and row are what submit() follows afterwards.
Ask(r, job, row) ==
  pending' = [pending EXCEPT ![r] = [Idle EXCEPT !.pc = "list", !.job = job, !.row = row]]

Refresh(r) ==
  /\ mounted
  /\ pending[r].pc = "idle"
  /\ Ask(r, Nobody, Absent)
  /\ UNCHANGED <<jobStatus, progress, page, failures>>

\* The timer of onMounted polls only while a shown job is active and not followed.
Timer(r) == Active /\ source = Nobody /\ Refresh(r)

\* The service answers with the rows of now.
ServeList(r) ==
  /\ pending[r].pc = "list"
  /\ pending' = [pending EXCEPT ![r].pc = "listed", ![r].rows = [j \in Jobs |-> Row(j)]]
  /\ UNCHANGED <<jobStatus, progress, page, failures>>

\* follow: a job that ended is shown, any other opens a stream of its own.
Followed(job, row) ==
  /\ selected' = [job |-> job, row |-> row]
  /\ source' = IF Ended(row) THEN Nobody ELSE job
  /\ stream' = NoStream

\* Mutant: a list replaces the selected job although its stream is open.
Fresh_Always(rows) == selected.job \in Jobs /\ rows[selected.job] # Absent

\* The selected row is replaced by the one listed, unless its stream is open.
Fresh(rows) == selected.job \in Jobs /\ rows[selected.job] # Absent /\ source = Nobody

\* The answer of GET /jobs: the list is replaced, then submit() goes on to follow.
Listed(r) ==
  /\ pending[r].pc = "listed"
  /\ list' = pending[r].rows
  /\ IF pending[r].job # Nobody
     THEN Followed(pending[r].job, pending[r].row)
     ELSE /\ selected' = IF Fresh(pending[r].rows)
                         THEN [selected EXCEPT !.row = pending[r].rows[selected.job]]
                         ELSE selected
          /\ UNCHANGED <<source, stream>>
  /\ pending' = [pending EXCEPT ![r] = Idle]
  /\ UNCHANGED <<jobStatus, progress, mounted, failures>>

\* refresh() swallows its error, and submit() follows its job all the same.
ListFails(r) ==
  /\ failures < MaxFailures
  /\ pending[r].pc \in {"list", "listed"}
  /\ IF pending[r].job # Nobody
     THEN Followed(pending[r].job, pending[r].row)
     ELSE UNCHANGED <<selected, source, stream>>
  /\ pending' = [pending EXCEPT ![r] = Idle]
  /\ failures' = failures + 1
  /\ UNCHANGED <<jobStatus, progress, list, mounted>>

\* submit and upload: POST, then the list, then follow.
Submit(r, j) ==
  /\ mounted
  /\ pending[r].pc = "idle"
  /\ jobStatus[j] = "none" /\ \A q \in Requests : pending[q].job # j
  /\ pending' = [pending EXCEPT ![r] = [Idle EXCEPT !.pc = "post", !.job = j]]
  /\ UNCHANGED <<jobStatus, progress, page, failures>>

ServeCreate(r) ==
  /\ pending[r].pc = "post"
  /\ Service!Create(pending[r].job)
  /\ pending' = [pending EXCEPT ![r].pc = "created"]
  /\ UNCHANGED <<page, failures>>

\* The row is read again for the answer, when the job is in the queue.
ServeCreated(r) ==
  /\ pending[r].pc = "created"
  /\ pending' = [pending EXCEPT ![r].pc = "posted", ![r].row = Row(pending[r].job)]
  /\ UNCHANGED <<jobStatus, progress, page, failures>>

Posted(r) ==
  /\ pending[r].pc = "posted"
  /\ Ask(r, pending[r].job, pending[r].row)
  /\ UNCHANGED <<jobStatus, progress, page, failures>>

\* The service refuses or cannot be reached, or its answer is lost.
PostFails(r) ==
  /\ failures < MaxFailures
  /\ pending[r].pc \in {"post", "created", "posted"}
  /\ pending' = [pending EXCEPT ![r] = Idle]
  /\ failures' = failures + 1
  /\ UNCHANGED <<jobStatus, progress, page>>

Follow(j) ==
  /\ mounted
  /\ list[j] # Absent
  /\ Followed(j, list[j])
  /\ UNCHANGED <<jobStatus, progress, list, pending, mounted, failures>>
-----------------------------------------------------------------------------
\* job_events looks at the row: it sends a state that is new, and "done" at the end.
Poll ==
  /\ source # Nobody
  /\ stream.wire = <<>>
  /\ LET row == Row(source)
         change == IF row = stream.last THEN <<>> ELSE <<[event |-> "progress", row |-> row]>>
         done == IF Ended(row) THEN <<[event |-> "done", row |-> row]>> ELSE <<>>
     IN  stream' = [last |-> row, wire |-> change \o done]
  /\ UNCHANGED <<jobStatus, progress, list, selected, source, pending, mounted, failures>>

Shown(row) == IF selected.job = source THEN [selected EXCEPT !.row = row] ELSE selected

Progress ==
  /\ stream.wire # <<>> /\ Head(stream.wire).event = "progress"
  /\ selected' = Shown(Head(stream.wire).row)
  /\ list' = [list EXCEPT ![source] = IF @ = Absent THEN Absent ELSE Head(stream.wire).row]
  /\ stream' = [stream EXCEPT !.wire = Tail(@)]
  /\ UNCHANGED <<jobStatus, progress, source, pending, mounted, failures>>

Stopped == source' = Nobody /\ stream' = NoStream

\* "done": the list row is left to the refresh that follows.
Done(r) ==
  /\ stream.wire # <<>> /\ Head(stream.wire).event = "done"
  /\ pending[r].pc = "idle"
  /\ selected' = Shown(Head(stream.wire).row)
  /\ Stopped
  /\ Ask(r, Nobody, Absent)
  /\ UNCHANGED <<jobStatus, progress, list, mounted, failures>>

StreamFails(r) ==
  /\ failures < MaxFailures
  /\ source # Nobody
  /\ pending[r].pc = "idle"
  /\ Stopped
  /\ Ask(r, Nobody, Absent)
  /\ failures' = failures + 1
  /\ UNCHANGED <<jobStatus, progress, list, selected, mounted>>

Unmount ==
  /\ mounted
  /\ mounted' = FALSE
  /\ Stopped
  /\ UNCHANGED <<jobStatus, progress, list, selected, pending, failures>>

Answered(r) ==
  \/ ServeList(r) \/ Listed(r) \/ ListFails(r)
  \/ ServeCreate(r) \/ ServeCreated(r) \/ Posted(r) \/ PostFails(r)

Arrives == Progress \/ \E r \in Requests : Done(r)

Next ==
  \/ ServiceStep
  \/ \E r \in Requests : Refresh(r) \/ Answered(r)
  \/ \E r \in Requests, j \in Jobs : Submit(r, j)
  \/ \E j \in Jobs : Follow(j)
  \/ Poll
  \/ Arrives
  \/ \E r \in Requests : StreamFails(r)
  \/ Unmount

\* Requests are answered or fail, the generator polls, and the timer fires.  A viewer
\* who opens streams again and again is not always faster than their events, and does
\* not have one open at every tick.  Nobody has to press anything, no job has to end,
\* and no stream to fail.
Fairness ==
  /\ \A r \in Requests : WF_vars(Answered(r))
  /\ WF_vars(Poll) /\ SF_vars(Arrives)
  /\ SF_vars(\E r \in Requests : Timer(r))

Spec == Init /\ [][Next]_vars /\ Fairness
-----------------------------------------------------------------------------
Rows == {Absent} \cup [status : {"queued", "running", "finished", "failed"}, progress : 0 .. Complete]

TypeOK ==
  /\ list \in [Jobs -> Rows]
  /\ selected \in [job : Jobs \cup {Nobody}, row : Rows]
  /\ source \in Jobs \cup {Nobody}
  /\ stream.last \in Rows /\ stream.wire \in Seq([event : {"progress", "done"}, row : Rows])
  /\ pending \in [Requests -> [pc : {"idle", "list", "listed", "post", "created", "posted"},
                               job : Jobs \cup {Nobody}, row : Rows, rows : [Jobs -> Rows]]]
  /\ mounted \in BOOLEAN
  /\ failures \in 0 .. MaxFailures

Stage(row) ==
  CASE row.status = "none" -> 0 [] row.status = "queued" -> 1
    [] row.status = "running" -> 2 [] OTHER -> 3

\* Lists and events that arrive while a job is followed never move what is shown
\* of it back, however old they are.  (Following it anew may: its row is old.)
FollowedGoesForward ==
  [][source # Nobody /\ (Progress \/ \E r \in Requests : pending[r].job = Nobody /\ Listed(r)) =>
       /\ selected.job = source /\ selected'.job = source
       /\ Stage(selected.row) <= Stage(selected'.row)
       /\ selected.row.progress <= selected'.row.progress]_vars

\* While a stream is open the timer does not poll, and a stream is open until its job ends.
FollowsActive == source # Nobody /\ ~Ended(Row(source))

\* However old the lists are that arrive last, a page that lists a job as active
\* does not do so for ever when the job has ended, unless it follows a job that has not.
ListCatchesUp ==
  \A j \in Jobs :
    mounted /\ list[j].status \in {"queued", "running"} /\ Ended(Row(j))
      ~> ~mounted \/ list[j] \in {Absent, Row(j)} \/ FollowsActive
=============================================================================
