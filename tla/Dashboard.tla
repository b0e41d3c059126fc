------------------------------ MODULE Dashboard ------------------------------
(***************************************************************************)
(* examples/dashboard.rs: the dashboard as one Application.  Its messages  *)
(* name no task: each acts on the one selected where it lands, so that two *)
(* keys pressed against one state act on what the first of them left.      *)
(*                                                                         *)
(* A task is an instance, told from the others by a number.  The panel's   *)
(* text is abstracted to whose task it was read from and whether it has    *)
(* been edited away from that task's notes.  Check boxes, the section      *)
(* list, the log and the status line are left out.                         *)
(***************************************************************************)
EXTENDS Host

CONSTANTS
  Listed,     \* how many tasks the program starts with
  MaxList,    \* bound: tasks in the list when one is added
  MaxKeys     \* bound: keys in flight when one more is pressed

ASSUME DashboardAssumption == Listed \in Nat

VARIABLE app     \* App: focus, tasks, selected (from 1), details

appVars == <<app, runs, ended>>

Nobody == 0

(* TaskListState::selected_task: none where the list is empty.             *)
SelectedTask(a) == IF a.selected \in DOMAIN a.tasks THEN a.tasks[a.selected] ELSE Nobody

(* DetailState::from_task.                                                 *)
FromTask(task) == [of |-> task, edited |-> FALSE]

FocusAfter(focus) ==
  CASE focus = "Navigation" -> "Tasks"
    [] focus = "Tasks" -> "Details"
    [] focus = "Details" -> "Activity"
    [] focus = "Activity" -> "Navigation"

(* The least number that no task has, nor the panel.                       *)
NewTask(a) ==
  LET told == ToSet(a.tasks) \cup {a.details.of}
  IN  CHOOSE n \in 1..(Cardinality(told) + 1) :
        n \notin told /\ \A m \in 1..(n - 1) : m \in told

LeastOf(m, n) == IF m < n THEN m ELSE n

(* An index saturates at the list's start, an empty list's too.            *)
Clamped(index, tasks) == IF index < 1 \/ tasks = <<>> THEN 1 ELSE LeastOf(index, Len(tasks))

(* TaskListState::update.                                                  *)
UpdatedList(a, name) ==
  CASE name = "Up"     -> [a EXCEPT !.selected = Clamped(@ - 1, a.tasks)]
    [] name = "Down"   -> [a EXCEPT !.selected = Clamped(@ + 1, a.tasks)]
    [] name = "Toggle" -> a
    [] name = "Add"    -> [a EXCEPT !.tasks = Append(@, NewTask(a)), !.selected = Len(a.tasks) + 1]
    [] name = "Delete" ->
         IF a.tasks = <<>> THEN a
         ELSE LET left == RemoveAt(a.tasks, a.selected)
              IN  [a EXCEPT !.tasks = left, !.selected = Clamped(@, left)]

WhenMoved(a, b) == a.selected # b.selected         \* mutant: the count is not compared
AtEveryKey(a, b) == TRUE                           \* mutant: the text is always read again

(* Rereading the panel loses an edit, so only where the task can be another. *)
Rereads(a, b) == a.selected # b.selected \/ Len(a.tasks) # Len(b.tasks)

UpdateTasks(a, name) ==
  LET b == UpdatedList(a, name)
  IN  IF Rereads(a, b) THEN [b EXCEPT !.details = FromTask(SelectedTask(b))] ELSE b

(* Input and Backspace may bring the task's notes back; a save needs a task. *)
UpdateDetails(a, name, same) ==
  CASE name = "Edit"  -> [a EXCEPT !.details.edited = ~same]
    [] name = "Save"  -> IF SelectedTask(a) = Nobody THEN a ELSE [a EXCEPT !.details.edited = FALSE]
    [] name = "Reset" -> [a EXCEPT !.details = FromTask(SelectedTask(a))]

ListMessages  == {"Up", "Down", "Toggle", "Add", "Delete"}
PanelMessages == {"Edit", "Save", "Reset"}

(* App::update, for what a key asks for.                                   *)
Updated(a, name, same) ==
  CASE name = "FocusNext" -> [a EXCEPT !.focus = FocusAfter(@)]
    [] name \in ListMessages -> UpdateTasks(a, name)
    [] name \in PanelMessages -> UpdateDetails(a, name, same)
    [] name = "Quit" -> a

-----------------------------------------------------------------------------
(* App::new.                                                               *)
NewApp ==
  [focus |-> "Navigation", tasks |-> [i \in 1..Listed |-> i], selected |-> 1,
   details |-> FromTask(IF Listed = 0 THEN Nobody ELSE 1)]

AppInit ==
  /\ app = NewApp
  /\ runs = EmptyBag
  /\ ended = FALSE

(* handle_key_event: what the keys ask for under a focus.                  *)
Keys(focus) ==
  {"Quit", "FocusNext"} \cup (IF focus = "Tasks" THEN ListMessages ELSE {})
                        \cup (IF focus = "Details" THEN PanelMessages ELSE {})

AddsInFlight == BagCardinality(Keep(runs, LAMBDA run : run.payload = <<"Add">>))

(* A key press, or its repeat.                                             *)
Key(name) ==
  /\ ~ended
  /\ BagCardinality(runs) < MaxKeys
  /\ name = "Add" => Len(app.tasks) + AddsInFlight < MaxList
  /\ runs' = Dispatched(runs, Deliver(name))
  /\ UNCHANGED <<app, ended>>

InputFails ==
  /\ ~ended
  /\ ended' = TRUE
  /\ UNCHANGED <<app, runs>>

Handle(run, same) ==
  /\ ~ended
  /\ runs' = After(runs, run)
  /\ app' = Updated(app, run.payload[1], same)
  /\ ended' = (run.payload[1] = "Quit")

AppNext ==
  \/ \E name \in Keys(app.focus) : Key(name)
  \/ InputFails
  \/ \E run \in DOMAIN runs, same \in BOOLEAN : Handle(run, same)

AppSpec == AppInit /\ [][AppNext]_appVars

-----------------------------------------------------------------------------
LandsOnPanel ==
  \E run \in DOMAIN runs : run.payload[1] \in PanelMessages /\ runs' = After(runs, run)

PanelCurrent(a) ==
  IF a.tasks = <<>> THEN a.selected = 1 /\ a.details.of = Nobody
  ELSE a.selected \in DOMAIN a.tasks /\ a.details.of = a.tasks[a.selected]

(* Whichever keys move the selection, or take the task from under it, the  *)
(* panel shows the selected task; and what was typed is not read over      *)
(* before another task is selected, by a key that asked for something else *)
(* least of all: update_tasks must know when to read, and when not to.     *)
PanelFollowsSelection ==
  [][/\ PanelCurrent(app')
     /\ app.details.edited /\ ~app'.details.edited =>
          app'.details.of # app.details.of \/ LandsOnPanel]_appVars
=============================================================================
