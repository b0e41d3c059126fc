-------------------------- MODULE DashboardComposed --------------------------
(***************************************************************************)
(* examples/dashboard_composed.rs: a task list of one reducer per row, a   *)
(* details pane that comes and goes, and a root that owns both, over the   *)
(* boundaries                                                              *)
(*                                                                         *)
(*   Root.for_each(Task).presented(Details, "details")                     *)
(*                                                                         *)
(* A key press is a message of its own run, so it lands after others that  *)
(* were decided against the same state.  Every row and pane that is built  *)
(* is an instance: a number tells it from the others something is held     *)
(* for.  Texts are abstracted to what decisions read: whether the pane's   *)
(* notes differ from the row's, and whether the status line says that      *)
(* notes were discarded.  The section list, the activity log's entries and *)
(* the tick counters are left out.                                         *)
(***************************************************************************)
EXTENDS Host

CONSTANTS
  Seeds,       \* how many tasks the program is started with
  MaxTasks,    \* bound: tasks ever added
  MaxRuns      \* bound: runs in flight when a key is pressed

ASSUME ComposedAssumption == Seeds \in Nat \ {0}

VARIABLES
  board,      \* App: focus, rows, pane, status, selected, next
  cleanups    \* armed hooks

boardVars == <<board, runs, cleanups, ended>>

NoTask == 0
NoPane == [task |-> NoTask]

Segment(id) == <<"task", id>>
DetailsSegment == <<"details", 0>>

Msg(name, id) == [name |-> name, id |-> id, who |-> 0]

RootMsg(name) == Msg(name, NoTask)

(* What a child's own messages are before a boundary wraps them.           *)
Inner(name, who) == [name |-> name, who |-> who]

SYNC == NewId("sync")

-----------------------------------------------------------------------------
(* The state and its instances.                                            *)

Ids(b) == [i \in DOMAIN b.rows |-> b.rows[i].id]

IsRow(b, id) == \E i \in DOMAIN b.rows : b.rows[i].id = id

Position(b, id) == CHOOSE i \in DOMAIN b.rows : b.rows[i].id = id

Row(b, id) == b.rows[Position(b, id)]

IsOpen(b) == b.pane # NoPane

(* A number for a new instance: the first that nothing is held for.        *)
Mint(b) ==
  LET told == {b.rows[i].who : i \in DOMAIN b.rows}
                \cup (IF IsOpen(b) THEN {b.pane.who, b.pane.of} ELSE {})
                \cup {hook.payload : hook \in DOMAIN cleanups}
                \cup {run.payload[1].who : run \in DOMAIN runs}
  IN  CHOOSE n \in 1..(Cardinality(told) + 1) :
        n \notin told /\ \A m \in 1..(n - 1) : m \in told

TaskState(b, id) == [id |-> id, who |-> Mint(b), watched |-> FALSE, syncing |-> FALSE]

DetailsState(b, id) ==
  [task |-> id, of |-> Row(b, id).who, who |-> Mint(b), edited |-> FALSE,
   opened |-> FALSE, loading |-> TRUE]

Say(b, discarding) == [b EXCEPT !.status = IF discarding THEN "Discarding" ELSE "Other"]

NextFocus(focus) ==
  CASE focus = "Navigation" -> "Tasks"
    [] focus = "Tasks" -> "Details"
    [] focus = "Details" -> "Activity"
    [] focus = "Activity" -> "Navigation"

-----------------------------------------------------------------------------
(* What a reducer returns: its state, its command, and the segments of the *)
(* instances it removed (the journals of Keyed and Slot).                  *)

Result(b, command, removed) == [board |-> b, command |-> command, removed |-> removed]

CloseDetails(b) ==
  [b EXCEPT !.pane = NoPane, !.focus = IF @ = "Details" THEN "Tasks" ELSE @]

Dismissal(b) == IF IsOpen(b) THEN <<DetailsSegment>> ELSE <<>>

OpenedOn(b, id) == IsOpen(b) /\ b.pane.task = id

KeepPane(b, id) == b               \* mutant: a pane outlives its row's instance

CloseDetailsOpenedOn(b, id) == IF OpenedOn(b, id) THEN CloseDetails(b) ELSE b

DismissalOn(b, id) == IF OpenedOn(b, id) THEN Dismissal(b) ELSE <<>>

AnyPane(b) == IsOpen(b)            \* mutant: a saved or untouched pane is mourned

UnsavedNotes(b) == IsOpen(b) /\ IsRow(b, b.pane.task) /\ b.pane.edited

AddTask(b) ==
  LET id == b.next IN
  Result(Say([b EXCEPT !.rows = Append(@, TaskState(b, id)), !.selected = id,
                       !.next = @ + 1], FALSE),
         Deliver(Msg("Watch", id)), <<>>)

(* A replacement keeps the row's place and is a removal.                   *)
ReloadTask(b, id) ==
  IF ~IsRow(b, id) THEN Result(Say(b, FALSE), None, <<>>)
  ELSE LET replaced == [b EXCEPT !.rows[Position(b, id)] = TaskState(b, id)]
       IN  Result(Say(CloseDetailsOpenedOn(replaced, id), FALSE),
                  Deliver(Msg("Watch", id)),
                  <<Segment(id)>> \o DismissalOn(replaced, id))

(* The selection stays at its position, or goes to the new last row.       *)
SelectedAfter(rows, position) ==
  IF rows = <<>> THEN NoTask
  ELSE rows[IF position <= Len(rows) THEN position ELSE Len(rows)].id

KeepSelected(b, rows, id) == b.selected   \* mutant: the selection is not moved

MoveSelected(b, rows, id) ==
  IF b.selected = id THEN SelectedAfter(rows, Position(b, id)) ELSE b.selected

DeleteTask(b, id) ==
  IF ~IsRow(b, id) THEN Result(Say(b, FALSE), None, <<>>)
  ELSE LET rows    == RemoveAt(b.rows, Position(b, id))
           removed == [CloseDetailsOpenedOn(b, id) EXCEPT !.rows = rows,
                                                          !.selected = MoveSelected(b, rows, id)]
       IN  Result(Say(removed, FALSE), None, <<Segment(id)>> \o DismissalOn(b, id))

NeverUnsaved(b) == FALSE           \* mutant: a replaced pane's edit is not looked at

UnsavedReplaced(b) == UnsavedNotes(b)

OpenDetails(b, id) ==
  IF ~IsRow(b, id) THEN Result(Say(b, FALSE), None, <<>>)
  ELSE Result(Say([b EXCEPT !.pane = DetailsState(b, id), !.focus = "Details"],
                  UnsavedReplaced(b)),
              Deliver(RootMsg("Open")), Dismissal(b))

(* The branch for a row that has gone is the code's, and unreachable.      *)
SaveNotes(b) ==
  IF ~IsOpen(b) THEN Result(Say(b, FALSE), None, <<>>)
  ELSE IF ~IsRow(b, b.pane.task) THEN Result(b, None, <<>>)
  ELSE Result(Say([b EXCEPT !.pane.edited = FALSE], FALSE),
              Deliver(Msg("Sync", b.pane.task)), <<>>)

(* select: one step, clamped; from no selection, to the end it came from.  *)
Neighbour(b, forward) ==
  LET last == Len(b.rows)
      next == CASE IsRow(b, b.selected) /\ forward  -> Position(b, b.selected) + 1
                [] IsRow(b, b.selected) /\ ~forward -> Position(b, b.selected) - 1
                [] ~IsRow(b, b.selected) /\ forward -> 1
                [] OTHER -> last
  IN  b.rows[IF next < 1 THEN 1 ELSE IF next > last THEN last ELSE next].id

Select(b, forward) ==
  IF b.rows = <<>> THEN b ELSE [b EXCEPT !.selected = Neighbour(b, forward)]

(* Root.reduce.                                                            *)
Root(b, m) ==
  CASE m.name = "Quit" -> Result(b, ImmediateQuit, <<>>)
    [] m.name = "NoTaskSelected" -> Result(Say(b, FALSE), None, <<>>)
    [] m.name = "FocusNext" -> Result(Say([b EXCEPT !.focus = NextFocus(@)], FALSE), None, <<>>)
    [] m.name \in {"SelectPrev", "SelectNext"} ->
         Result(Say(Select(b, m.name = "SelectNext"), FALSE), None, <<>>)
    [] m.name = "AddTask" -> AddTask(b)
    [] m.name = "ReloadTask" -> ReloadTask(b, m.id)
    [] m.name = "DeleteTask" -> DeleteTask(b, m.id)
    [] m.name = "OpenDetails" -> OpenDetails(b, m.id)
    [] m.name = "CloseDetails" ->
         Result(Say(CloseDetails(b), UnsavedNotes(b)), None, Dismissal(b))
    [] m.name = "SaveNotes" -> SaveNotes(b)

-----------------------------------------------------------------------------
(* The children.  A child sees its own state only.                         *)

ChildResult(s, command) == [state |-> s, command |-> command]

Request(name, who) == Cancellable(Deliver(Inner(name, who)), SYNC)

WatchAgain(row) == FALSE           \* mutant: a second Watch is not inert

Watched(row) == row.watched

Task(row, name) ==
  CASE name = "Watch" ->
         IF Watched(row) THEN ChildResult(row, None)
         ELSE ChildResult([row EXCEPT !.watched = TRUE],
                          Batch(<<OnTeardown(row.who), Deliver(Inner("Sync", 0))>>))
    [] name = "Toggle" -> ChildResult(row, Deliver(Inner("Sync", 0)))
    [] name = "Sync" -> ChildResult([row EXCEPT !.syncing = TRUE], Request("Synced", row.who))
    [] name = "Synced" -> ChildResult([row EXCEPT !.syncing = FALSE], None)

(* Whether a typed or erased character brings the row's text back is open. *)
Details(pane, name, same) ==
  CASE name = "Open" ->
         IF pane.opened THEN ChildResult(pane, None)
         ELSE ChildResult([pane EXCEPT !.opened = TRUE],
                          Batch(<<OnTeardown(pane.who), Request("Loaded", pane.who)>>))
    [] name = "Loaded" -> ChildResult([pane EXCEPT !.loading = FALSE], None)
    [] name = "Input" -> ChildResult([pane EXCEPT !.edited = ~same], None)

TaskMessages    == {"Watch", "Toggle", "Sync", "Synced"}
DetailsMessages == {"Open", "Loaded", "Input"}

(* The wrapping of a child's messages by its boundary.                     *)
Wrapped(command, id) ==
  Map(command, [payload \in Payloads(command) |->
     [i \in DOMAIN payload |-> [name |-> payload[i].name, id |-> id, who |-> payload[i].who]]])

Unqualified(command, segment) == command         \* mutant: no boundary

Qualified(command, segment) == Scoped(command, segment)

RowReduced(b, id, r) ==
  Result([b EXCEPT !.rows[Position(b, id)] = r.state],
         Qualified(Wrapped(r.command, id), Segment(id)), <<>>)

(* for_each.  A row that is not there discards its message.                *)
RowsReduce(b, m) ==
  IF m.name \notin TaskMessages THEN Root(b, m)
  ELSE IF ~IsRow(b, m.id) THEN Result(b, None, <<>>)
  ELSE RowReduced(b, m.id, Task(Row(b, m.id), m.name))

PaneReduced(b, r) ==
  Result([b EXCEPT !.pane = r.state],
         Qualified(Wrapped(r.command, NoTask), DetailsSegment), <<>>)

(* presented.                                                              *)
PaneReduce(b, m, same) ==
  IF m.name \notin DetailsMessages THEN RowsReduce(b, m)
  ELSE IF ~IsOpen(b) THEN Result(b, None, <<>>)
  ELSE PaneReduced(b, Details(b.pane, m.name, same))

(* The teardowns that removals owe are merged into the command.            *)
Owed(r) == [board |-> r.board, command |-> MergingTeardowns(r.command, Teardowns(r.removed))]

Reduce(b, m, same) == Owed(PaneReduce(b, m, same))

-----------------------------------------------------------------------------
NewBoard ==
  [focus |-> "Navigation", rows |-> <<>>, pane |-> NoPane, status |-> "Other",
   selected |-> NoTask, next |-> 1]

(* seed: the first tasks are added by messages too.                        *)
BoardInit ==
  /\ board = NewBoard
  /\ runs = Dispatched(EmptyBag, Stream([i \in 1..Seeds |-> RootMsg("AddTask")]))
  /\ cleanups = EmptyBag
  /\ ended = FALSE

EditingNotes(b) == b.focus = "Details" /\ IsOpen(b)

OnSelected(b, name) ==
  IF b.selected = NoTask THEN RootMsg("NoTaskSelected") ELSE Msg(name, b.selected)

(* key_message: what the keys ask for where they are read.                 *)
KeyMessages(b) ==
  {RootMsg("Quit"), RootMsg("FocusNext")}
    \cup (IF b.focus = "Tasks"
          THEN {RootMsg("SelectPrev"), RootMsg("SelectNext"), RootMsg("AddTask")}
                 \cup {OnSelected(b, name) :
                         name \in {"Toggle", "DeleteTask", "ReloadTask", "OpenDetails"}}
          ELSE {})
    \cup (IF b.focus = "Details" THEN {RootMsg("CloseDetails")} ELSE {})
    \cup (IF EditingNotes(b) THEN {RootMsg("SaveNotes"), RootMsg("Input")} ELSE {})

Adding(m) == m.name = "AddTask"

(* Tasks added and on their way.                                           *)
Added(m) ==
  board.next - 1 + BagCardinality(Keep(runs, LAMBDA run : Adding(run.payload[1])))

(* A key press, or its repeat.  child_status is its status line.           *)
Press(m) ==
  /\ ~ended
  /\ BagCardinality(runs) < MaxRuns
  /\ Adding(m) => Added(m) < MaxTasks
  /\ runs' = Dispatched(runs, Deliver(m))
  /\ board' = IF m.name \in {"Toggle", "Input"} THEN Say(board, FALSE) ELSE board
  /\ UNCHANGED <<cleanups, ended>>

TerminalError ==
  /\ ~ended
  /\ ended' = TRUE
  /\ UNCHANGED <<board, runs, cleanups>>

Landed(r, left) ==
  /\ board' = r.board
  /\ runs' = Dispatched(left, r.command)
  /\ cleanups' = Armed(cleanups, r.command)
  /\ ended' = QuitsNow(r.command)

(* The next message of some run lands.                                     *)
Land(run, same) ==
  /\ ~ended
  /\ Landed(Reduce(board, run.payload[1], same), After(runs, run))

BoardNext ==
  \/ \E m \in KeyMessages(board) : Press(m)
  \/ TerminalError
  \/ \E run \in DOMAIN runs, same \in BOOLEAN : Land(run, same)

BoardSpec == BoardInit /\ [][BoardNext]_boardVars
=============================================================================
