------------------------- MODULE DashboardProperties -------------------------
(***************************************************************************)
(* What the composed dashboard says of itself, in the comments of          *)
(* examples/dashboard_composed.rs, whatever order its messages land in.    *)
(***************************************************************************)
EXTENDS DashboardComposed

(* Where an instance is, and which one it is.                              *)
Place(segment, who) == [segment |-> segment, who |-> who]

RowPlace(row) == Place(Segment(row.id), row.who)

PanePlace(b) == Place(DetailsSegment, b.pane.who)

(* The live instances that were set up, those that were not, and those     *)
(* that wait for an answer.                                                *)
Ready(b) ==
  {RowPlace(row) : row \in {r \in ToSet(b.rows) : r.watched}}
    \cup (IF IsOpen(b) /\ b.pane.opened THEN {PanePlace(b)} ELSE {})

Bare(b) ==
  {RowPlace(row) : row \in {r \in ToSet(b.rows) : ~r.watched}}
    \cup (IF IsOpen(b) /\ ~b.pane.opened THEN {PanePlace(b)} ELSE {})

Busy(b) ==
  {RowPlace(row) : row \in {r \in ToSet(b.rows) : r.syncing}}
    \cup (IF IsOpen(b) /\ b.pane.opened /\ b.pane.loading THEN {PanePlace(b)} ELSE {})

(* The hook of an instance, the answer that it waits for, and the run that *)
(* will deliver it.                                                        *)
HookOf(place) == [scope |-> <<place.segment>>, payload |-> place.who]

AnswerTo(place) ==
  IF place.segment = DetailsSegment THEN [name |-> "Loaded", id |-> NoTask, who |-> place.who]
  ELSE [name |-> "Synced", id |-> place.segment[2], who |-> place.who]

RequestOf(place) ==
  [kind |-> "Effect", key |-> IdScoped(place.segment, SYNC), scope |-> <<place.segment>>,
   payload |-> <<AnswerTo(place)>>]

(* The message that sets an instance up.                                   *)
SetsUp(m, place) ==
  IF place.segment = DetailsSegment THEN m.name = "Open"
  ELSE m.name = "Watch" /\ m.id = place.segment[2]

Coming(run, place) == \E i \in DOMAIN run.payload : SetsUp(run.payload[i], place)

IsKeyed(run) == run.key # NoKey

(* A row or a pane that was set up has one hook, one that waits has one    *)
(* request, both at its own boundary and for itself, and one that was not  *)
(* set up has its setup on the way; nothing else is armed or requested,    *)
(* for an instance that has gone least of all.  Deletions, reloads,        *)
(* replacements and a second Watch of key presses that crossed all pass    *)
(* here.                                                                   *)
InstancesAccounted ==
  /\ cleanups = SetToBag({HookOf(place) : place \in Ready(board)})
  /\ Keep(runs, IsKeyed) = SetToBag({RequestOf(place) : place \in Busy(board)})
  /\ \A place \in Bare(board) : \E run \in DOMAIN runs : Coming(run, place)

(* A pane is open on the very instance it was opened for, so that a save   *)
(* cannot write over a reload; one row is selected whenever there is one;  *)
(* and no two rows share a key.                                            *)
BoardCoherent ==
  /\ IsInjective(Ids(board))
  /\ IsOpen(board) => /\ IsRow(board, board.pane.task)
                      /\ Row(board, board.pane.task).who = board.pane.of
  /\ IF board.rows = <<>> THEN board.selected = NoTask ELSE IsRow(board, board.selected)

PaneGone == IsOpen(board) /\ (IsOpen(board') => board'.pane.who # board.pane.who)

RowStays == \E row \in ToSet(board'.rows) : row.who = board.pane.of

(* The status that follows a pane's leaving says it was lost exactly when  *)
(* the pane held an edit and its row stays, so that a save would have kept *)
(* it: not when it was untouched or just saved, nor when a reload or a     *)
(* deletion took the row.  No other step turns a status into that report.  *)
LossReported ==
  [][/\ PaneGone => (board'.status = "Discarding" <=> board.pane.edited /\ RowStays)
     /\ board'.status = "Discarding" /\ board.status = "Other" => PaneGone]_boardVars
=============================================================================
