----------------------------- MODULE MCClients -----------------------------
(***************************************************************************)
(* Four clients that share no state: the models in the browser             *)
(* (BrowserStore), the Jobs page, the tray of photos (Sortable) and the    *)
(* desktop window.  One instance checks them side by side: the one that    *)
(* `client` names moves, the others stay as they began.                    *)
(***************************************************************************)
EXTENDS BrowserStore, Naturals

CONSTANTS
  Jobs, Complete, Requests, MaxFailures,    \* JobsPage
  Others,                                   \* jobs queued elsewhere (see Short, a bound)
  Photos,                                   \* Sortable
  Selections, Workers, Nothing              \* Gui

ASSUME CompleteAssumption == Complete \in Nat

VARIABLES
  client,
  jobStatus, progress, list, selected, source, stream, pending, mounted, failures,
  photos, offset, drag, disturbed,
  selection, buttons, shown, engines, messages, draining, worker

JobsPage == INSTANCE JobsPage
Sortable == INSTANCE Sortable
Gui == INSTANCE Gui

ASSUME NoneAssumption == None \notin Sortable!Drag

browserVars == vars
jobsVars == <<jobStatus, progress, list, selected, source, stream, mounted, pending, failures>>
trayVars == <<photos, offset, drag, disturbed>>
guiVars == <<selection, buttons, shown, engines, messages, draining, worker>>

MCInit ==
  /\ client \in {"browser", "jobs", "tray", "window"}
  /\ Init /\ JobsPage!Init /\ Sortable!Init /\ Gui!Init
  \* Only the client that moves is tried in all its initial states.
  /\ client # "jobs" => pending[CHOOSE r \in Requests : TRUE].pc = "list"
  /\ \A j \in Jobs : /\ jobStatus[j] \in {"none"} \cup {"running" : i \in {j} \cap Others}
                     /\ progress[j] = 0
  /\ client # "jobs" => \A j \in Jobs : jobStatus[j] = "none"
  /\ client # "tray" => photos = <<CHOOSE p \in Photos : TRUE>>

\* Bound: either no job of Others is there, or it runs when the page opens and finishes, and
\* then no job reports progress before its end.
Short ==
  \A j \in Others :
    /\ jobStatus[j] = "none" => jobStatus'[j] = "none"
    /\ jobStatus'[j] # "failed"
    /\ jobStatus[j] # "none" =>
         \A i \in Jobs : progress'[i] # progress[i] => jobStatus'[i] = "finished"

MCNext ==
  /\ UNCHANGED client
  /\ \/ client = "browser" /\ Next /\ UNCHANGED <<jobsVars, trayVars, guiVars>>
     \/ client = "jobs" /\ JobsPage!Next /\ Short /\ UNCHANGED <<browserVars, trayVars, guiVars>>
     \/ client = "tray" /\ Sortable!Next /\ UNCHANGED <<browserVars, jobsVars, guiVars>>
     \/ client = "window" /\ Gui!Next /\ UNCHANGED <<browserVars, jobsVars, trayVars>>

\* The fairness that each module states of its own actions.
MCFairness ==
  /\ \A c \in Calls : WF_browserVars(client = "browser" /\ Settle(c))
  /\ \A b \in Backends : WF_browserVars(client = "browser" /\ Fetched(b))
  /\ \A r \in Requests : WF_jobsVars(client = "jobs" /\ JobsPage!Answered(r))
  /\ WF_jobsVars(client = "jobs" /\ JobsPage!Poll)
  /\ SF_jobsVars(client = "jobs" /\ JobsPage!Arrives)
  /\ SF_jobsVars(client = "jobs" /\ \E r \in Requests : JobsPage!Timer(r))
  /\ WF_guiVars(client = "window" /\ Gui!Window)
  /\ \A w \in Workers : WF_guiVars(client = "window" /\ Gui!Run(w))

MCSpec == MCInit /\ [][MCNext]_<<client, browserVars, jobsVars, trayVars, guiVars>> /\ MCFairness
-----------------------------------------------------------------------------
\* JobsPage.vue follows its job and catches up: stated in JobsPage.
FollowedGoesForward == JobsPage!FollowedGoesForward
ListCatchesUp == JobsPage!ListCatchesUp

\* motion/sortable.ts draws what the drop commits: stated in Sortable.
PreviewIsTrue == Sortable!PreviewIsTrue

\* gui.py has one run at a time and gives the buttons back: stated in Gui.
OneRunAtATime == Gui!OneRunAtATime
ButtonsReturn == Gui!ButtonsReturn
=============================================================================
