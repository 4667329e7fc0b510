-------------------------------- MODULE Gui --------------------------------
(***************************************************************************)
(* src/gui.py: the window (the Tk thread) and the worker threads that read *)
(* plates.  They share the selection, the loaded models and a queue that   *)
(* the window empties every 100 ms; between two events of the window a     *)
(* worker may do anything.  Dialogs are modal: one event of the window.    *)
(***************************************************************************)
EXTENDS Naturals, Sequences

CONSTANTS
  Selections,   \* what a viewer may choose
  Workers,      \* threads that may exist at once (a bound)
  Nothing

VARIABLES
  selection,
  buttons,      \* which of the two buttons are enabled
  shown,        \* what result says: the files it was read from, or Nothing
  engines,      \* which models are loaded: "detector", "backend"
  messages,
  draining,     \* is the window in _drain_queue
  worker        \* where each thread is, and the files it reads

vars == <<selection, buttons, shown, engines, messages, draining, worker>>

Buttons == {"choose", "run"}
NoThread == [pc |-> "none", files |-> Nothing]

TypeOK ==
  /\ selection \in Selections \cup {Nothing}
  /\ buttons \subseteq Buttons
  /\ shown \in Selections \cup {Nothing}
  /\ engines \subseteq {"detector", "backend"}
  /\ messages \in Seq([kind : {"log", "result", "error"}, files : Selections \cup {Nothing}])
  /\ draining \in BOOLEAN
  /\ worker \in [Workers -> [pc : {"none", "detector", "backend", "read", "reading"},
                             files : Selections \cup {Nothing}]]

Init ==
  /\ selection = Nothing
  /\ buttons = {"choose"}
  /\ shown = Nothing
  /\ engines = {}
  /\ messages = <<>>
  /\ draining = FALSE
  /\ worker = [w \in Workers |-> NoThread]

\* Mutant: only the run button is disabled while a run is busy.
SetBusy_RunOnly(busy) == buttons' = IF busy THEN buttons \ {"run"} ELSE Buttons

SetBusy(busy) == buttons' = IF busy THEN {} ELSE Buttons

\* choose_files enables the run button, whatever the window does.
ChooseFiles(files) ==
  /\ ~draining /\ "choose" \in buttons
  /\ selection' = files
  /\ buttons' = buttons \cup {"run"}
  /\ UNCHANGED <<shown, engines, messages, draining, worker>>

StartRun(w) ==
  /\ ~draining /\ "run" \in buttons
  /\ selection # Nothing
  /\ worker[w] = NoThread
  /\ SetBusy(TRUE)
  /\ shown' = Nothing
  /\ worker' = [worker EXCEPT ![w].pc = "detector"]
  /\ UNCHANGED <<selection, engines, messages, draining>>

Put(kind, files) == messages' = Append(messages, [kind |-> kind, files |-> files])

\* _worker loads what is missing, and says so first.
Load(w, engine, next) ==
  /\ worker[w].pc = engine
  /\ worker' = [worker EXCEPT ![w].pc = next]
  /\ \/ engine \in engines /\ UNCHANGED <<engines, messages>>
     \/ /\ engine \notin engines
        /\ Put("log", Nothing)
        /\ engines' = engines \cup {engine}
  /\ UNCHANGED <<selection, buttons, shown, draining>>

\* read_images is called with the selection of now.
ReadImages(w) ==
  /\ worker[w].pc = "read"
  /\ worker' = [worker EXCEPT ![w] = [pc |-> "reading", files |-> selection]]
  /\ UNCHANGED <<selection, buttons, shown, engines, messages, draining>>

Result(w) ==
  /\ worker[w].pc = "reading"
  /\ Put("result", worker[w].files)
  /\ worker' = [worker EXCEPT ![w] = NoThread]
  /\ UNCHANGED <<selection, buttons, shown, engines, draining>>

\* Mutant: an error of the models ends the thread without a word.
Error_Silent(w) ==
  /\ worker[w].pc # "none"
  /\ IF worker[w].pc = "reading" THEN Put("error", Nothing) ELSE UNCHANGED messages
  /\ worker' = [worker EXCEPT ![w] = NoThread]
  /\ UNCHANGED <<selection, buttons, shown, engines, draining>>

\* Loading or reading raises.
Error(w) ==
  /\ worker[w].pc # "none"
  /\ Put("error", Nothing)
  /\ worker' = [worker EXCEPT ![w] = NoThread]
  /\ UNCHANGED <<selection, buttons, shown, engines, draining>>

\* The timer calls _drain_queue, which handles messages until there are none.
DrainQueue ==
  /\ ~draining
  /\ draining' = TRUE
  /\ UNCHANGED <<selection, buttons, shown, engines, messages, worker>>

\* Showing a result or an error succeeds: an exception here would end the callback
\* before it asks for the next one, and is not modelled.
Handle ==
  /\ draining /\ messages # <<>>
  /\ messages' = Tail(messages)
  /\ CASE Head(messages).kind = "log" -> UNCHANGED <<buttons, shown>>
       [] Head(messages).kind = "result" -> SetBusy(FALSE) /\ shown' = Head(messages).files
       [] OTHER -> SetBusy(FALSE) /\ UNCHANGED shown
  /\ UNCHANGED <<selection, engines, draining, worker>>

Drained ==
  /\ draining /\ messages = <<>>
  /\ draining' = FALSE
  /\ UNCHANGED <<selection, buttons, shown, engines, messages, worker>>

Run(w) ==
  \/ Load(w, "detector", "backend")
  \/ Load(w, "backend", "read")
  \/ ReadImages(w) \/ Result(w) \/ Error(w)

Window == DrainQueue \/ Handle \/ Drained

Next ==
  \/ \E files \in Selections : ChooseFiles(files)
  \/ \E w \in Workers : StartRun(w) \/ Run(w)
  \/ Window

\* Models load and reads end, or raise; the timer goes on.
Fairness == WF_vars(Window) /\ \A w \in Workers : WF_vars(Run(w))

Spec == Init /\ [][Next]_vars /\ Fairness
-----------------------------------------------------------------------------
Ends == {"result", "error"}
Unhandled == {i \in DOMAIN messages : messages[i].kind \in Ends}

\* The mutable models serve one run at a time, although nothing locks them, and
\* what is shown next was read from the files that are selection: while a run or
\* its outcome is under way both buttons are off.
OneRunAtATime ==
  /\ \A w, v \in Workers : worker[w] # NoThread /\ worker[v] # NoThread => w = v
  /\ (\E w \in Workers : worker[w] # NoThread) \/ Unhandled # {} => buttons = {}
  /\ \A i \in Unhandled : messages[i].kind = "result" => messages[i].files = selection

\* The window never stays busy: the buttons come back after every run.
ButtonsReturn == buttons = {} ~> buttons # {}
=============================================================================
