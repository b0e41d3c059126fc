----------------------------- MODULE GaugeFeed -----------------------------
(***************************************************************************)
(* What the gauges promise a subscriber (docs/rfcs/0006, section 4.4).     *)
(* Snapshots are numbered in the order of the changes and leave in that    *)
(* order, one at a time.  A change goes without an event of its own only   *)
(* when none is outstanding; a handler that panics loses those that are.   *)
(***************************************************************************)
EXTENDS Integers, Sequences

CONSTANT Counts      \* the values the gauges take together

VARIABLES
  counts,
  seq,
  feed               \* the snapshots captured and not yet handed out

vars == <<counts, seq, feed>>

Snapshot == [seq : Nat, counts : Counts]

Init ==
  /\ counts \in Counts
  /\ seq = 0
  /\ feed = <<>>

Change == counts' \in Counts \ {counts}

Record ==
  /\ Change
  /\ seq' = seq + 1
  /\ feed' = Append(feed, [seq |-> seq + 1, counts |-> counts'])

PassOver ==
  /\ feed = <<>>
  /\ Change
  /\ UNCHANGED <<seq, feed>>

HandOut ==
  /\ feed # <<>>
  /\ feed' = Tail(feed)
  /\ UNCHANGED <<counts, seq>>

Abandon ==
  /\ feed' = <<>>
  /\ UNCHANGED <<counts, seq>>

Next == Record \/ PassOver \/ HandOut \/ Abandon

Spec == Init /\ [][Next]_vars
=============================================================================
