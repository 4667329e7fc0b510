---------------------------- MODULE BrowserStore ----------------------------
(***************************************************************************)
(* apps/dashboard/src/stores/browser.ts with loadModels and runParity of   *)
(* inference/: the backend of the in-browser reader, its models and the    *)
(* parity check.  Calls of prepare and check run until their next await;   *)
(* the mode toggle, the parity page and other calls run in between.  The   *)
(* models of a backend are one promise that all its callers share.         *)
(***************************************************************************)
CONSTANTS
  Calls,      \* prepare() and check() calls that may be under way (a bound)
  None        \* null

VARIABLES
  backend, loading, loadError, checking, parity, parityError,
  preparing,  \* is the promise of prepare() kept
  models,     \* loadModels' cache: "absent", "pending" or "loaded" by backend
  call        \* where each call is, and the backend it chose

vars == <<backend, loading, loadError, checking, parity, parityError, preparing, models, call>>

Backends == {"webgpu", "wasm"}

Report == [backend : Backends, passed : BOOLEAN]

\* "choosing" and "loading" are awaits of prepare, the others of check.
Waits == {"idle", "choosing", "loading", "adapter", "fixtures", "models", "comparing"}

Idle == [pc |-> "idle", chosen |-> None]
At(where, chosen) == [pc |-> where, chosen |-> chosen]

TypeOK ==
  /\ backend \in Backends \cup {None}
  /\ {loading, loadError, checking, parityError, preparing} \subseteq BOOLEAN
  /\ parity \in Report \cup {None}
  /\ models \in [Backends -> {"absent", "pending", "loaded"}]
  /\ call \in [Calls -> [pc : Waits, chosen : Backends \cup {None}]]

Init ==
  /\ backend = None
  /\ loading = FALSE /\ loadError = FALSE
  /\ checking = FALSE /\ parityError = FALSE
  /\ parity = None
  /\ preparing = FALSE
  /\ models = [b \in Backends |-> "absent"]
  /\ call = [c \in Calls |-> Idle]

\* The calls that wait for the models of b.
Waiting(b, where) == {c \in Calls : call[c] = At(where, b)}

\* loadModels: the first caller starts the fetch, later ones share its promise.
Wanted(b) == [models EXCEPT ![b] = IF @ = "absent" THEN "pending" ELSE @]

\* prepare: the caller of a prepared session gets the promise it kept.  A backend
\* that is known was chosen with the runtime imported, so nothing is awaited.
Prepare(c) ==
  /\ call[c] = Idle
  /\ ~preparing
  /\ preparing' = TRUE
  /\ loading' = TRUE
  /\ loadError' = FALSE
  /\ \/ backend = None /\ call' = [call EXCEPT ![c] = At("choosing", None)] /\ UNCHANGED models
     \/ /\ backend # None
        /\ call' = [call EXCEPT ![c] = At("loading", backend)]
        /\ models' = Wanted(backend)
  /\ UNCHANGED <<backend, checking, parity, parityError>>

\* How check begins: the backend is the one chosen now.
CheckFrom == IF backend = None THEN At("adapter", None) ELSE At("fixtures", backend)

Check(c) ==
  /\ call[c] = Idle
  /\ checking' = TRUE
  /\ parityError' = FALSE
  /\ call' = [call EXCEPT ![c] = CheckFrom]
  /\ UNCHANGED <<backend, loading, loadError, parity, preparing, models>>

\* chooseBackend: the adapter's answer replaces what was chosen in the meantime.
Choose(c, b) ==
  /\ call[c].pc \in {"choosing", "adapter"}
  /\ backend' = b
  /\ \/ /\ call[c].pc = "choosing"
        /\ call' = [call EXCEPT ![c] = At("loading", b)]
        /\ models' = Wanted(b)
     \/ /\ call[c].pc = "adapter"
        /\ call' = [call EXCEPT ![c] = At("fixtures", b)]
        /\ UNCHANGED models
  /\ UNCHANGED <<loading, loadError, checking, parity, parityError, preparing>>

Fixtures(c) ==
  /\ call[c].pc = "fixtures"
  /\ call' = [call EXCEPT ![c].pc = "models"]
  /\ models' = Wanted(call[c].chosen)
  /\ UNCHANGED <<backend, loading, loadError, checking, parity, parityError, preparing>>

\* The models of b are there: every prepare that waits goes on to check, with
\* the backend of that moment, and every check that waits goes on to compare.
Loaded(b) ==
  /\ models[b] = "pending"
  /\ models' = [models EXCEPT ![b] = "loaded"]
  /\ UNCHANGED <<backend, loading, loadError, checking, parity, parityError, preparing, call>>

GoOn(c) ==
  /\ call[c].pc \in {"loading", "models"}
  /\ models[call[c].chosen] = "loaded"
  /\ \/ /\ call[c].pc = "loading"
        /\ loading' = FALSE
        /\ checking' = TRUE
        /\ parityError' = FALSE
        /\ call' = [call EXCEPT ![c] = CheckFrom]
     \/ /\ call[c].pc = "models"
        /\ call' = [call EXCEPT ![c].pc = "comparing"]
        /\ UNCHANGED <<loading, checking, parityError>>
  /\ UNCHANGED <<backend, loadError, parity, preparing, models>>

\* Mutant: prepare keeps the promise of a load that failed.
LoadFails_KeepPromise(b) ==
  /\ models[b] = "pending"
  /\ models' = [models EXCEPT ![b] = "absent"]
  /\ LET loads == Waiting(b, "loading")
         checks == Waiting(b, "models")
     IN  /\ call' = [c \in Calls |-> IF c \in loads \cup checks THEN Idle ELSE call[c]]
         /\ loading' = (loading /\ loads = {})
         /\ loadError' = (loadError \/ loads # {})
         /\ checking' = (checking /\ checks = {})
         /\ parityError' = (parityError \/ checks # {})
  /\ UNCHANGED <<backend, parity, preparing>>

\* Loading failed: the cache forgets the promise, prepare forgets its own and
\* says so, and a check says that it failed.
LoadFails(b) ==
  /\ models[b] = "pending"
  /\ models' = [models EXCEPT ![b] = "absent"]
  /\ LET loads == Waiting(b, "loading")
         checks == Waiting(b, "models")
     IN  /\ call' = [c \in Calls |-> IF c \in loads \cup checks THEN Idle ELSE call[c]]
         /\ loading' = (loading /\ loads = {})
         /\ loadError' = (loadError \/ loads # {})
         /\ preparing' = (preparing /\ loads = {})
         /\ checking' = (checking /\ checks = {})
         /\ parityError' = (parityError \/ checks # {})
  /\ UNCHANGED <<backend, parity>>

\* An import of prepare fails before the models are asked for.
ImportFails(c) ==
  /\ call[c].pc = "choosing"
  /\ call' = [call EXCEPT ![c] = Idle]
  /\ loading' = FALSE
  /\ loadError' = TRUE
  /\ preparing' = FALSE
  /\ UNCHANGED <<backend, checking, parity, parityError, models>>

\* The import, the fixtures or an image of them cannot be had.
CheckFails(c) ==
  /\ call[c].pc \in {"adapter", "fixtures", "comparing"}
  /\ call' = [call EXCEPT ![c] = Idle]
  /\ checking' = FALSE
  /\ parityError' = TRUE
  /\ UNCHANGED <<backend, loading, loadError, parity, preparing, models>>

\* runParity compares every fixture and reports for the backend it was given.
Compared(c, passed) ==
  /\ call[c].pc = "comparing"
  /\ parity' = [backend |-> call[c].chosen, passed |-> passed]
  /\ checking' = FALSE
  /\ call' = [call EXCEPT ![c] = Idle]
  /\ UNCHANGED <<backend, loading, loadError, parityError, preparing, models>>

UseBackend(b) ==
  /\ backend' = b
  /\ parity' = None
  /\ preparing' = FALSE
  /\ UNCHANGED <<loading, loadError, checking, parityError, models, call>>

Settle(c) ==
  \/ \E b \in Backends : Choose(c, b)
  \/ Fixtures(c) \/ GoOn(c) \/ ImportFails(c) \/ CheckFails(c)
  \/ \E passed \in BOOLEAN : Compared(c, passed)

Fetched(b) == Loaded(b) \/ LoadFails(b)

Next ==
  \/ \E c \in Calls : Prepare(c) \/ Check(c) \/ Settle(c)
  \/ \E b \in Backends : UseBackend(b) \/ Fetched(b)

\* What was fetched or imported arrives or fails; a user need do nothing.
Fairness ==
  /\ \A c \in Calls : WF_vars(Settle(c))
  /\ \A b \in Backends : WF_vars(Fetched(b))

Spec == Init /\ [][Next]_vars /\ Fairness
-----------------------------------------------------------------------------
\* However calls and switches overlap: a failed load can be tried again, a
\* report is of models that were loaded, and when no call is under way no
\* spinner is left and a prepared session was checked or says why not.
SettledSession ==
  /\ loadError => ~preparing
  /\ parity # None => models[parity.backend] = "loaded"
  /\ (\A c \in Calls : call[c] = Idle) =>
       /\ ~loading /\ ~checking
       /\ preparing => parity # None \/ parityError

\* What ModeToggle shows as the outcome for "this browser": once everything is
\* quiet the report is of the backend in use.  Two overlapping checks break it.
ReportOfTheBackend ==
  (\A c \in Calls : call[c] = Idle) /\ parity # None => parity.backend = backend
=============================================================================
