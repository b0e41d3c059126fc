------------------------------ MODULE SendGate ------------------------------
(***************************************************************************)
(* The scripted send gate and the one send path of every producer          *)
(* (kernel/lane.rs).  A producer records that it wants to send, waits at   *)
(* the gate for a grant that names its run, reserves, sends on its lane,   *)
(* records the acceptance, and reports the end of the released send to the *)
(* gate: Accepted, or Reclaimed when it never got into the lane.           *)
(*                                                                         *)
(* The producers run beside the driver on any number of worker threads     *)
(* (TestDriver::on_worker_threads); a current-thread executor gives some   *)
(* of these behaviours.  The gate's lock is held within one action.        *)
(*                                                                         *)
(* A producer is                                                           *)
(*   Unstarted                                                             *)
(*   Live        polling its stream                                        *)
(*   AtGate      about to look at the gate                                 *)
(*   Missed      found no grant of its own, not registered yet             *)
(*   Registered  registered for a notification, to look again              *)
(*   Parked      waiting for the notification                              *)
(*   Released    took the grant, no reservation yet                        *)
(*   Reserved    holds a reservation, about to send                        *)
(*   Waiting     the data lane is full                                     *)
(*   InLane      sent, the acceptance not recorded yet                     *)
(*   Recorded    acceptance recorded, not reported to the gate yet         *)
(*   Failed      the send ended without getting in, reservation still held *)
(*   Unreserved  reservation released, not reported to the gate yet        *)
(*   Gone        its task has ended                                        *)
(***************************************************************************)
EXTENDS Integers, Sequences, FiniteSets

CONSTANTS
  Run,        \* the run tokens
  NoRun,      \* no run
  Capacity,   \* of the data lane
  MaxIntents  \* bound: sends that each run begins

ASSUME GateAssumption ==
  /\ NoRun \notin Run
  /\ Capacity \in Nat \ {0}
  /\ MaxIntents \in [Run -> Nat]

VARIABLES
  nextSequence,  \* GateState.next_sequence
  outstanding,   \* GateState.outstanding
  pc,            \* where each run's task is
  lane,          \* the lane of its current send
  woken,         \* the runs whose registration has been notified
  aborted,       \* the runs whose abort has been requested
  intents,       \* the intent ledger, as a count for each run
  accepted,      \* the acceptance ledger, with the grant of each entry
  lanes,         \* the runs whose envelopes are in each lane, oldest first
  open,          \* whether the kernel still has the receivers
  pending,       \* each run's pending counter
  under          \* history: the sequence of the grant a run took last

gateVars == <<nextSequence, outstanding>>
laneVars == <<accepted, lanes, open, pending>>
sendVars == <<pc, lane, woken, aborted, intents, under>>

Lane == {"Data", "Control"}

Confirmed == {"Accepted", "Reclaimed"}

Grant == [sequence : Nat, origin : Run \cup {NoRun}, taken : BOOLEAN,
          outcome  : Confirmed \cup {"None"}]

NoGrant == [sequence |-> 0, origin |-> NoRun, taken |-> FALSE, outcome |-> "None"]

(* A released send that has not reached its end.                           *)
InFlight == {"Released", "Reserved", "Waiting", "InLane", "Recorded",
             "Failed", "Unreserved"}

(* Of these, the ones with an unreleased reservation of their own.         *)
Reserving == {"Reserved", "Waiting", "Failed"}

AtTheGate == {"AtGate", "Missed", "Registered", "Parked"}

PCs == {"Unstarted", "Live", "Gone"} \cup AtTheGate \cup InFlight

GateInit ==
  /\ nextSequence = 0
  /\ outstanding = NoGrant
  /\ pc = [r \in Run |-> "Unstarted"]
  /\ lane = [r \in Run |-> "Data"]
  /\ woken = {}
  /\ aborted = {}
  /\ intents = [r \in Run |-> 0]
  /\ accepted = <<>>
  /\ lanes = [l \in Lane |-> <<>>]
  /\ open = TRUE
  /\ pending = [r \in Run |-> 0]
  /\ under = [r \in Run |-> 0]

Goto(r, p) == pc' = [pc EXCEPT ![r] = p]

-----------------------------------------------------------------------------
(* The driver's side of the gate.                                          *)

Outstanding == outstanding # NoGrant

(* issue_grant, under the lock.                                            *)
IssueGrant(r) ==
  /\ ~Outstanding
  /\ nextSequence' = nextSequence + 1
  /\ outstanding' = [NoGrant EXCEPT !.sequence = nextSequence + 1, !.origin = r]

(* notify_waiters reaches those that have registered, and no other.        *)
NotifyWaiters == woken' = woken \cup {r \in Run : pc[r] \in {"Registered", "Parked"}}

ClearGrant ==
  /\ outstanding' = NoGrant
  /\ UNCHANGED nextSequence

-----------------------------------------------------------------------------
(* The producer's side: acquire.                                           *)

(* The stream yields: the intent is recorded before the gate.              *)
Intend(r, l) ==
  /\ pc[r] = "Live"
  /\ intents[r] < MaxIntents[r]
  /\ intents' = [intents EXCEPT ![r] = @ + 1]
  /\ lane' = [lane EXCEPT ![r] = l]
  /\ Goto(r, "AtGate")
  /\ UNCHANGED <<gateVars, laneVars, woken, aborted, under>>

ReleasesAgain(r) == outstanding.origin = r              \* mutant: taken is not looked at

(* take_release's condition.                                               *)
Releases(r) == outstanding.origin = r /\ ~outstanding.taken

TakeRelease(r) ==
  /\ pc[r] \in {"AtGate", "Registered"}
  /\ Releases(r)
  /\ outstanding' = [outstanding EXCEPT !.taken = TRUE]
  /\ under' = [under EXCEPT ![r] = outstanding.sequence]
  /\ woken' = woken \ {r}
  /\ Goto(r, "Released")
  /\ UNCHANGED <<nextSequence, laneVars, lane, aborted, intents>>

Miss(r) ==
  /\ pc[r] = "AtGate"
  /\ ~Releases(r)
  /\ Goto(r, "Missed")
  /\ UNCHANGED <<gateVars, laneVars, lane, woken, aborted, intents, under>>

RegisterAndPark(r) ==             \* mutant: no second look before parking
  /\ pc[r] = "Missed"
  /\ Goto(r, "Parked")
  /\ UNCHANGED <<gateVars, laneVars, lane, woken, aborted, intents, under>>

(* notified and enable.                                                    *)
Register(r) ==
  /\ pc[r] = "Missed"
  /\ Goto(r, "Registered")
  /\ UNCHANGED <<gateVars, laneVars, lane, woken, aborted, intents, under>>

ParkAtGate(r) ==
  /\ pc[r] = "Registered"
  /\ ~Releases(r)
  /\ Goto(r, "Parked")
  /\ UNCHANGED <<gateVars, laneVars, lane, woken, aborted, intents, under>>

(* A task whose abort came first is dropped when it is next polled.        *)
Wake(r) ==
  /\ pc[r] = "Parked"
  /\ r \in woken \ aborted
  /\ woken' = woken \ {r}
  /\ Goto(r, "AtGate")
  /\ UNCHANGED <<gateVars, laneVars, lane, aborted, intents, under>>

-----------------------------------------------------------------------------
(* send_payload past the gate.                                             *)

Reserve(r) ==
  /\ pc[r] = "Released"
  /\ pending' = [pending EXCEPT ![r] = @ + 1]
  /\ Goto(r, "Reserved")
  /\ UNCHANGED <<gateVars, accepted, lanes, open, lane, woken, aborted, intents, under>>

HasRoom(l) == l = "Data" => Len(lanes["Data"]) < Capacity

(* The lane takes the envelope.                                            *)
Enter(r) ==
  /\ pc[r] \in {"Reserved", "Waiting"}
  /\ pc[r] = "Waiting" => r \notin aborted
  /\ open
  /\ HasRoom(lane[r])
  /\ lanes' = [lanes EXCEPT ![lane[r]] = Append(@, r)]
  /\ Goto(r, "InLane")
  /\ UNCHANGED <<gateVars, accepted, open, pending, lane, woken, aborted, intents, under>>

Wait(r) ==
  /\ pc[r] = "Reserved"
  /\ open
  /\ ~HasRoom(lane[r])
  /\ Goto(r, "Waiting")
  /\ UNCHANGED <<gateVars, laneVars, lane, woken, aborted, intents, under>>

(* The receiver is gone.                                                   *)
Refuse(r) ==
  /\ pc[r] \in {"Reserved", "Waiting"}
  /\ ~open
  /\ Goto(r, "Failed")
  /\ UNCHANGED <<gateVars, laneVars, lane, woken, aborted, intents, under>>

(* An abort takes effect where the task awaits.  The drop of a waiting     *)
(* send goes through its two guards; at the gate there is none yet.        *)
Abort(r) ==
  /\ r \in aborted
  /\ \/ pc[r] \in {"Live", "Parked"} /\ Goto(r, "Gone")
     \/ pc[r] = "Waiting" /\ Goto(r, "Failed")
  /\ UNCHANGED <<gateVars, laneVars, lane, woken, aborted, intents, under>>

Entry(r) == [origin |-> r, lane |-> lane[r], grant |-> under[r]]

RecordNothing(r) ==               \* mutant: committed without a record
  /\ pc[r] = "InLane"
  /\ Goto(r, "Recorded")
  /\ UNCHANGED <<gateVars, laneVars, lane, woken, aborted, intents, under>>

(* commit, then the acceptance ledger: the counter is the dequeue's now.   *)
Record(r) ==
  /\ pc[r] = "InLane"
  /\ accepted' = Append(accepted, Entry(r))
  /\ Goto(r, "Recorded")
  /\ UNCHANGED <<gateVars, lanes, open, pending, lane, woken, aborted, intents, under>>

(* resolve: what its three assertions require is ReleaseOwned.             *)
Resolve(outcome) ==
  /\ outstanding' = [outstanding EXCEPT !.outcome = outcome]
  /\ UNCHANGED nextSequence

ResolveAccepted(r) ==
  /\ pc[r] = "Recorded"
  /\ Resolve("Accepted")
  /\ Goto(r, "Live")
  /\ UNCHANGED <<laneVars, lane, woken, aborted, intents, under>>

KeepReservation(r) == pending' = pending      \* mutant: the reservation leaks

Unreserve(r) == pending' = [pending EXCEPT ![r] = @ - 1]

(* The reservation drops first ...                                         *)
DropReservation(r) ==
  /\ pc[r] = "Failed"
  /\ Unreserve(r)
  /\ Goto(r, "Unreserved")
  /\ UNCHANGED <<gateVars, accepted, lanes, open, lane, woken, aborted, intents, under>>

(* ... and then ReleasedSend.  A failed send ends the run.                 *)
DropReleased(r) ==
  /\ pc[r] = "Unreserved"
  /\ Resolve("Reclaimed")
  /\ Goto(r, "Gone")
  /\ UNCHANGED <<laneVars, lane, woken, aborted, intents, under>>

(* The stream ends.                                                        *)
Finish(r) ==
  /\ pc[r] = "Live"
  /\ Goto(r, "Gone")
  /\ UNCHANGED <<gateVars, laneVars, lane, woken, aborted, intents, under>>

-----------------------------------------------------------------------------
(* What the executor runs without waiting for the run's stream.            *)
Advance(r) ==
  \/ TakeRelease(r) \/ Miss(r) \/ Register(r) \/ ParkAtGate(r) \/ Wake(r)
  \/ Reserve(r) \/ Enter(r) \/ Wait(r) \/ Refuse(r) \/ Abort(r)
  \/ Record(r) \/ ResolveAccepted(r) \/ DropReservation(r) \/ DropReleased(r)

ProducerStep(r) ==
  \/ \E l \in Lane : Intend(r, l)
  \/ Advance(r)
  \/ Finish(r)
=============================================================================
