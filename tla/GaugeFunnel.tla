---------------------------- MODULE GaugeFunnel ----------------------------
(***************************************************************************)
(* The producer gauges of one runtime (runtime/load.rs).                   *)
(*                                                                         *)
(* Every producer thread changes the gauges under one lock and numbers the *)
(* change there.  The numbered snapshots leave outside the lock, through a *)
(* single drainer: the first caller of emit that finds no drainer takes    *)
(* the role, and every other caller only queues its snapshot.  While a     *)
(* tracing subscriber handles a gauge event it may change a gauge itself,  *)
(* on the same thread, and it may panic.                                   *)
(*                                                                         *)
(* A call of emit is at a site: a thread and a depth.  The call at depth   *)
(* d + 1 is made by the subscriber that the call at depth d is telling.    *)
(* Each action is what a call does between two points where other threads  *)
(* can step in; the lock is held within one action only.                   *)
(***************************************************************************)
EXTENDS Integers, Sequences, FiniteSets

CONSTANTS
  Thread,      \* the threads that run producers, the kernel's among them
  Depth,       \* how deep calls of emit may nest on one thread
  KernelThread,
  Field,       \* the gauges that a GaugeGuard raises and lowers
  MaxSeq,      \* bound: gauge changes that are numbered
  MaxGuards,   \* bound: guards alive of one gauge
  MaxKeyed     \* bound: keyed entries

Keyed == "keyed_commands"

ASSUME FunnelAssumption ==
  /\ IsFiniteSet(Thread)
  /\ Depth \in Nat \ {0}
  /\ KernelThread \in Thread
  /\ Keyed \notin Field
  /\ MaxSeq \in Nat /\ MaxGuards \in Nat /\ MaxKeyed \in Nat

VARIABLES
  counts,      \* Gauges: the counters
  seq,         \* Gauges.seq
  pending,     \* Gauges.pending, the snapshots that wait for the drainer
  draining,    \* Gauges.draining
  call,        \* the call of emit at each site
  guards,      \* how many GaugeGuards of a gauge exist
  stranded,    \* history: raises whose guard a panic kept from existing
  listening    \* whether a subscriber takes load events at DEBUG

vars == <<counts, seq, pending, draining, call, guards, stranded, listening>>

Gauge == Field \cup {Keyed}
Counts == [Gauge -> Nat]
Zero == [g \in Gauge |-> 0]

Snapshot == [seq : Nat, counts : Counts]

Change == [op : {"Enter", "Leave"}, gauge : Field, to : {0}]
            \cup [op : {"Set"}, gauge : {Keyed}, to : 0..MaxKeyed]

Site == Thread \X (1..Depth)
Points == {"Idle", "Checked", "Claimed", "Hearing", "Popping", "Unwinding"}
Call == [at : Points, change : Change, enabled : BOOLEAN, snap : Snapshot]

NoCall == [at      |-> "Idle",
           change  |-> [op |-> "Set", gauge |-> Keyed, to |-> 0],
           enabled |-> FALSE,
           snap    |-> [seq |-> 0, counts |-> Zero]]

Init ==
  /\ counts = Zero
  /\ seq = 0
  /\ pending = <<>>
  /\ draining = FALSE
  /\ call = [s \in Site |-> NoCall]
  /\ guards = [f \in Field |-> 0]
  /\ stranded = [f \in Field |-> 0]
  /\ listening \in BOOLEAN

At(s, point) == call[s].at = point

(* The calls that hold the drainer role.                                   *)
Drainer(s) == call[s].at \in {"Claimed", "Hearing", "Popping", "Unwinding"}

Quiet == \A s \in Site : At(s, "Idle")

-----------------------------------------------------------------------------
(* The changes.  wrapping_add_signed never wraps: GuardsCounted.           *)

Reached(c) ==
  CASE c.op = "Enter" -> [counts EXCEPT ![c.gauge] = @ + 1]
    [] c.op = "Leave" -> [counts EXCEPT ![c.gauge] = @ - 1]
    [] c.op = "Set"   -> [counts EXCEPT ![c.gauge] = c.to]

CaptureEarly(c) ==                \* mutant: captured before the change
  [seq |-> seq + 1, counts |-> counts]

(* capture: the next number and the counts reached.                        *)
Capture(c) == [seq |-> seq + 1, counts |-> Reached(c)]

(* A call that ends; that of enter creates the guard.                      *)
Return(s) ==
  /\ call' = [call EXCEPT ![s] = NoCall]
  /\ guards' = IF call[s].change.op = "Enter"
                 THEN [guards EXCEPT ![call[s].change.gauge] = @ + 1]
                 ELSE guards

-----------------------------------------------------------------------------
(* emit.                                                                   *)

(* A thread may call when it runs its own code or the subscriber's.        *)
Callable(s) ==
  /\ At(s, "Idle")
  /\ s[2] > 1 => At(<<s[1], s[2] - 1>>, "Hearing")

(* The registry's count is set by the kernel's own thread; a guard that is *)
(* dropped no longer exists.                                               *)
Permitted(s, c) ==
  CASE c.op = "Enter" -> guards[c.gauge] < MaxGuards
    [] c.op = "Leave" -> guards[c.gauge] > 0
    [] c.op = "Set"   -> s = <<KernelThread, 1>>

(* event_enabled!, before the lock.  Inside a subscriber it is unreliable. *)
Enabled(s) == IF s[2] = 1 THEN {listening} ELSE BOOLEAN

Begin(s, c) ==
  /\ Callable(s)
  /\ Permitted(s, c)
  /\ seq < MaxSeq
  /\ \E e \in Enabled(s) :
       call' = [call EXCEPT ![s] = [NoCall EXCEPT !.at = "Checked", !.change = c,
                                                  !.enabled = e]]
  /\ guards' = IF c.op = "Leave" THEN [guards EXCEPT ![c.gauge] = @ - 1] ELSE guards
  /\ UNCHANGED <<counts, seq, pending, draining, stranded, listening>>

(* set_keyed_entries of the count it already has.                          *)
ChangeNothing(s) ==
  /\ At(s, "Checked")
  /\ Reached(call[s].change) = counts
  /\ Return(s)
  /\ UNCHANGED <<counts, seq, pending, draining, stranded, listening>>

Mutate(s) ==
  /\ At(s, "Checked")
  /\ Reached(call[s].change) # counts
  /\ counts' = Reached(call[s].change)

EnqueueEnabled(s) ==              \* mutant: enabled decides while a drainer runs
  /\ Mutate(s)
  /\ draining
  /\ IF call[s].enabled
       THEN seq' = seq + 1 /\ pending' = Append(pending, Capture(call[s].change))
       ELSE UNCHANGED <<seq, pending>>
  /\ Return(s)
  /\ UNCHANGED <<draining, stranded, listening>>

(* A drainer runs: whatever enabled says, it will deliver.                 *)
Enqueue(s) ==
  /\ Mutate(s)
  /\ draining
  /\ seq' = seq + 1
  /\ pending' = Append(pending, Capture(call[s].change))
  /\ Return(s)
  /\ UNCHANGED <<draining, stranded, listening>>

UnheardUncounted(s) ==            \* mutant: no listener, no change
  /\ At(s, "Checked")
  /\ ~draining /\ ~call[s].enabled
  /\ Return(s)
  /\ UNCHANGED <<counts, seq, pending, draining, stranded, listening>>

Unheard(s) ==
  /\ Mutate(s)
  /\ ~draining /\ ~call[s].enabled
  /\ Return(s)
  /\ UNCHANGED <<seq, pending, draining, stranded, listening>>

Claim(s) ==
  /\ Mutate(s)
  /\ ~draining /\ call[s].enabled
  /\ seq' = seq + 1
  /\ draining' = TRUE
  /\ call' = [call EXCEPT ![s].at = "Claimed", ![s].snap = Capture(call[s].change)]
  /\ UNCHANGED <<pending, guards, stranded, listening>>

(* The event goes to the subscriber, if there still is one.                *)
Dispatch(s) ==
  /\ At(s, "Claimed")
  /\ call' = [call EXCEPT ![s].at = IF listening THEN "Hearing" ELSE "Popping"]
  /\ UNCHANGED <<counts, seq, pending, draining, guards, stranded, listening>>

(* The subscriber is done once the calls it made are.                      *)
Heard(s, outcome) ==
  /\ At(s, "Hearing")
  /\ s[2] < Depth => At(<<s[1], s[2] + 1>>, "Idle")
  /\ call' = [call EXCEPT ![s].at = outcome]
  /\ UNCHANGED <<counts, seq, pending, draining, guards, stranded, listening>>

HandlerReturns(s) == Heard(s, "Popping")
HandlerPanics(s) == Heard(s, "Unwinding")

TakeNext(s) ==
  /\ At(s, "Popping")
  /\ pending # <<>>
  /\ pending' = Tail(pending)
  /\ call' = [call EXCEPT ![s].at = "Claimed", ![s].snap = Head(pending)]
  /\ UNCHANGED <<counts, seq, draining, guards, stranded, listening>>

RelinquishLate(s) ==              \* mutant: the queue was looked at under an earlier lock
  /\ At(s, "Popping")
  /\ draining' = FALSE
  /\ Return(s)
  /\ UNCHANGED <<counts, seq, pending, stranded, listening>>

Relinquish(s) ==
  /\ At(s, "Popping")
  /\ pending = <<>>
  /\ draining' = FALSE
  /\ Return(s)
  /\ UNCHANGED <<counts, seq, pending, stranded, listening>>

UnwindHolding(s) ==               \* mutant: the role is not given back
  /\ At(s, "Unwinding")
  /\ pending' = <<>>
  /\ call' = [call EXCEPT ![s] = NoCall]
  /\ stranded' = IF call[s].change.op = "Enter"
                   THEN [stranded EXCEPT ![call[s].change.gauge] = @ + 1]
                   ELSE stranded
  /\ UNCHANGED <<counts, seq, draining, guards, listening>>

(* DrainGuard.  The panic goes on through enter, which has no guard yet.   *)
Unwind(s) ==
  /\ At(s, "Unwinding")
  /\ draining' = FALSE
  /\ pending' = <<>>
  /\ call' = [call EXCEPT ![s] = NoCall]
  /\ stranded' = IF call[s].change.op = "Enter"
                   THEN [stranded EXCEPT ![call[s].change.gauge] = @ + 1]
                   ELSE stranded
  /\ UNCHANGED <<counts, seq, guards, listening>>

(* A subscriber is installed or removed.                                   *)
Reconfigure ==
  /\ listening' = ~listening
  /\ UNCHANGED <<counts, seq, pending, draining, call, guards, stranded>>

-----------------------------------------------------------------------------
(* What a call does on its own, the subscriber's code excepted.            *)
Advance(s) ==
  \/ ChangeNothing(s) \/ Enqueue(s) \/ Unheard(s) \/ Claim(s)
  \/ Dispatch(s) \/ TakeNext(s) \/ Relinquish(s) \/ Unwind(s)

Next ==
  \/ \E s \in Site :
       \/ \E c \in Change : Begin(s, c)
       \/ Advance(s)
       \/ HandlerReturns(s)
       \/ HandlerPanics(s)
  \/ Reconfigure

(* Threads run and the lock is free in the end; a subscriber's handler     *)
(* ends.  Strong fairness: calls of its own suspend it, any number of      *)
(* times.                                                                  *)
Fairness ==
  \A s \in Site : WF_vars(Advance(s)) /\ SF_vars(HandlerReturns(s) \/ HandlerPanics(s))

Spec == Init /\ [][Next]_vars /\ Fairness
=============================================================================
