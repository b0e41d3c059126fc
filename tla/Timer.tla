-------------------------------- MODULE Timer --------------------------------
(***************************************************************************)
(* The stream of a timer subscription (subscription/time.rs, cadence.rs):  *)
(* it anchors itself when it is first polled, and whoever polls it may     *)
(* stall for any time, as a forwarding task does before a full lane.       *)
(* Declared again, a timer of the same interval is a new stream.           *)
(***************************************************************************)
EXTENDS Integers, Sequences, SequencesExt

CONSTANTS
  Interval,     \* time units between two ticks
  Horizon       \* bound: the time a behaviour ends at

ASSUME TimerAssumption == Interval \in Nat \ {0} /\ Horizon \in Nat

VARIABLES
  clock,        \* Instant::now() of the polling runtime
  state,        \* the unfold state: None, or the anchor and the deadline
  ticks         \* history: when this stream ticked

timer == <<clock, state, ticks>>

Unpolled == [anchor |-> -1, deadline |-> -1]        \* None

TimerInit == clock = 0 /\ state = Unpolled /\ ticks = <<>>

Drifting(anchor, now) == now + Interval           \* mutant: counts from the late tick

CatchingUp(anchor, now) == state.deadline + Interval  \* mutant: replays missed ticks

(* The first boundary of the anchor's phase after now.                     *)
next_anchor_phase_deadline(anchor, now) ==
  LET elapsed_intervals == (now - anchor) \div Interval
  IN  anchor + Interval * (elapsed_intervals + 1)

(* A poll: the first one anchors and, as every later one that comes before *)
(* the deadline, finds the sleep pending; from the deadline on it takes a  *)
(* tick and sets the next deadline from the time of that poll.             *)
Anchored == IF state = Unpolled THEN [anchor |-> clock, deadline |-> clock + Interval] ELSE state

PollTimer ==
  /\ IF clock < Anchored.deadline
     THEN state' = Anchored /\ UNCHANGED ticks
     ELSE /\ state' = [state EXCEPT !.deadline = next_anchor_phase_deadline(state.anchor, clock)]
          /\ ticks' = Append(ticks, clock)
  /\ UNCHANGED clock

(* Time passes, whether or not anybody polls.                              *)
Wait == clock < Horizon /\ clock' = clock + 1 /\ UNCHANGED <<state, ticks>>

(* The subscription is stopped and declared again: stream().               *)
Restart == state # Unpolled /\ state' = Unpolled /\ ticks' = <<>> /\ UNCHANGED clock

TimerNext == PollTimer \/ Wait \/ Restart

TimerSpec == TimerInit /\ [][TimerNext]_timer

(* Interval boundaries that have passed at time t, from the anchor on.     *)
Passed(t) == (t - state.anchor) \div Interval

(* RFC 0009 INV-C3: a tick is deliverable just when a boundary has passed  *)
(* since the last one, or since the anchor, however many have and however  *)
(* late that one was; so no two ticks fall between the same boundaries:    *)
(* never a burst, never a drift.                                           *)
CadenceKept ==
  state # Unpolled =>
    /\ clock >= state.deadline <=> Passed(clock) > (IF ticks = <<>> THEN 0 ELSE Passed(Last(ticks)))
    /\ \A i, j \in DOMAIN ticks : Passed(ticks[i]) >= 1 /\ (i < j => Passed(ticks[i]) < Passed(ticks[j]))
=============================================================================
