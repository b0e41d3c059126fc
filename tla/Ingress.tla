------------------------------- MODULE Ingress -------------------------------
(***************************************************************************)
(* The producers and the two delivery lanes (src/kernel/producer.rs,       *)
(* lane.rs, accounting.rs and runtime/channel.rs): one task per run, each  *)
(* driving its stream and sending what it yields, a message on the data    *)
(* lane or a quit on the control lane.  The tasks run concurrently with    *)
(* the kernel and with each other.                                         *)
(*                                                                         *)
(* A task is                                                               *)
(*   None         not started                                              *)
(*   Live         polling its stream (or its finalizer)                    *)
(*   SendData, SendControl   holding a reservation, about to send          *)
(*   Blocked      parked on a full data lane, still holding it             *)
(*   Done         finished or cancelled, its exit not joined yet           *)
(*   Joined       its exit taken out of the join set                       *)
(*                                                                         *)
(* The send gate is open here, as in production (GateMode::Immediate).     *)
(***************************************************************************)
EXTENDS Registry

CONSTANTS
  DataCapacity,   \* the data lane's capacity
  MaxSends        \* bound: how many sends one behaviour may begin

ASSUME IngressAssumption ==
  /\ DataCapacity \in Nat \ {0}
  /\ MaxSends \in Nat

VARIABLES
  task,     \* the state of each run's task
  queue,    \* per lane, the envelopes sent and not yet dequeued, oldest first
  held,     \* per lane, how many of them park already moved to a kernel buffer
  open,     \* the kernel still holds the receivers
  intents,  \* sends begun so far, against the bound MaxSends
  sent,     \* per lane and run, the envelopes accepted so far
  taken     \* history: per lane and run, the number of the last one dequeued

ingressVars == <<task, queue, held, open, intents, sent, taken>>

Lane == {"data", "control"}

(* An envelope, with its number among its run's envelopes in that lane.    *)
Envelope == [origin : Token, n : Nat]

TaskState ==
  {"None", "Live", "SendData", "SendControl", "Blocked", "Done", "Joined"}

(* The states of a task that holds a reservation on its run's counter.     *)
Reserving == {"SendData", "SendControl", "Blocked"}

IngressInit ==
  /\ task = [t \in Token |-> "None"]
  /\ queue = [l \in Lane |-> <<>>]
  /\ held = [l \in Lane |-> 0]
  /\ open = TRUE
  /\ intents = 0
  /\ sent = [l \in Lane |-> [t \in Token |-> 0]]
  /\ taken = [l \in Lane |-> [t \in Token |-> 0]]

-----------------------------------------------------------------------------

(* The lanes a run's body sends on: a cleanup run has no sender, and a     *)
(* subscription yields messages only.                                      *)
Senders(l) ==
  IF l = "data" THEN {"Keyed", "Anon", "Sub"} ELSE {"Keyed", "Anon"}

LaneOf(t) == IF task[t] = "SendControl" THEN "control" ELSE "data"

(* The envelopes in the channel itself: the kernel's buffer is not counted *)
(* against the capacity.                                                   *)
HasCapacity == Len(queue["data"]) - held["data"] < DataCapacity

(* The stream yielded an item: send_payload reserves before it sends.      *)
BeginSend(t, l) ==
  /\ task[t] = "Live"
  /\ entry[t].kind \in Senders(l)
  /\ intents < MaxSends
  /\ intents' = intents + 1
  /\ pending' = [pending EXCEPT ![t] = Reserve(@)]
  /\ task' = [task EXCEPT ![t] = IF l = "data" THEN "SendData" ELSE "SendControl"]
  /\ UNCHANGED <<registry, entry, keyed, aborted, queue, held, open, sent, taken>>

(* The lane accepts the envelope, and the reservation is committed.        *)
CompleteSend(t) ==
  /\ task[t] \in Reserving
  /\ open
  /\ LaneOf(t) = "data" => HasCapacity
  /\ LET l == LaneOf(t) IN
     /\ sent' = [sent EXCEPT ![l][t] = @ + 1]
     /\ queue' = [queue EXCEPT ![l] = Append(@, [origin |-> t, n |-> sent'[l][t]])]
  /\ task' = [task EXCEPT ![t] = "Live"]
  /\ UNCHANGED <<registryVars, held, open, intents, taken>>

(* A bounded lane is full: the send parks, which makes it cancellable.     *)
BlockSend(t) ==
  /\ task[t] = "SendData"
  /\ open
  /\ ~HasCapacity
  /\ task' = [task EXCEPT ![t] = "Blocked"]
  /\ UNCHANGED <<registryVars, queue, held, open, intents, sent, taken>>

(* The receiver is gone: the reservation is released and the body ends.    *)
FailSend(t) ==
  /\ task[t] \in Reserving
  /\ ~open
  /\ pending' = [pending EXCEPT ![t] = Decrement(@)]
  /\ task' = [task EXCEPT ![t] = "Done"]
  /\ UNCHANGED <<registry, entry, keyed, aborted, queue, held, open, intents, sent, taken>>

(* The stream ended, or it panicked: contained, an exit like any other.    *)
Finish(t) ==
  /\ task[t] = "Live"
  /\ task' = [task EXCEPT ![t] = "Done"]
  /\ UNCHANGED <<registryVars, queue, held, open, intents, sent, taken>>

LeakyRelease(t) == pending' = pending      \* mutant: the guard does not release

(* Dropping the task's future drops the reservation it holds, if any.      *)
ReleaseOnDrop(t) ==
  pending' = IF task[t] \in Reserving THEN [pending EXCEPT ![t] = Decrement(@)]
                                      ELSE pending

(* An abort takes effect at an await point: in the stream or on a full lane. *)
Cancel(t) ==
  /\ t \in aborted
  /\ task[t] \in {"Live", "Blocked"}
  /\ ReleaseOnDrop(t)
  /\ task' = [task EXCEPT ![t] = "Done"]
  /\ UNCHANGED <<registry, entry, keyed, aborted, queue, held, open, intents, sent, taken>>

-----------------------------------------------------------------------------
(* The receiving side, used by the kernel.                                 *)

(* next_data, next_control: the kernel's buffer first, then the lane.      *)
NextEnvelope(l) == Head(queue[l])

Take(l) ==
  taken' = [taken EXCEPT ![l][NextEnvelope(l).origin] = NextEnvelope(l).n]

Dequeue(l) ==
  /\ queue' = [queue EXCEPT ![l] = Tail(@)]
  /\ held' = [held EXCEPT ![l] = IF @ = 0 THEN 0 ELSE @ - 1]
  /\ Take(l)
=============================================================================
