---------------------------- MODULE JobLifecycle ----------------------------
(***************************************************************************)
(* What a client of the jobs API may rely on: a job is queued, it may run, *)
(* and it ends once, finished or failed.  Its progress only grows, and it  *)
(* is complete when the job finished.  services/api implements it (Jobs).  *)
(***************************************************************************)
EXTENDS Naturals

CONSTANTS Jobs, Complete    \* Complete: the progress of a finished job

VARIABLES status, progress  \* what the row of each job says

vars == <<status, progress>>

Init ==
  /\ status = [j \in Jobs |-> "none"]
  /\ progress = [j \in Jobs |-> 0]

\* A job's row changes and no other's does.
Becomes(j, s, p) ==
  /\ status' = [status EXCEPT ![j] = s]
  /\ progress' = [progress EXCEPT ![j] = p]

Create(j) == status[j] = "none" /\ Becomes(j, "queued", progress[j])

Start(j) == status[j] = "queued" /\ Becomes(j, "running", progress[j])

Advance(j) ==
  /\ status[j] = "running"
  /\ \E p \in progress[j] .. Complete : Becomes(j, "running", p)

Finish(j) == status[j] = "running" /\ Becomes(j, "finished", Complete)

Fail(j) == status[j] \in {"queued", "running"} /\ Becomes(j, "failed", progress[j])

Next == \E j \in Jobs : Create(j) \/ Start(j) \/ Advance(j) \/ Finish(j) \/ Fail(j)

Spec == Init /\ [][Next]_vars
=============================================================================
