--------------------------- MODULE PendingCounter ---------------------------
(***************************************************************************)
(* The pending counter of a run (src/kernel/accounting.rs) as threads      *)
(* operate on it: a load, and a compare-exchange that is tried again with  *)
(* what it observed.  Module Registry takes each operation as one step.    *)
(*                                                                         *)
(* A reservation is made before a send.  A send that succeeds hands it to  *)
(* the dequeue side with its envelope, and one that fails, or is dropped,  *)
(* releases it.                                                            *)
(***************************************************************************)
EXTENDS Naturals, FiniteSets

CONSTANTS
  Worker,       \* the threads that send, drop and dequeue
  Top,          \* POISONED
  MaxReserved   \* bound: reservations not given back

ASSUME CounterAssumption == IsFiniteSet(Worker) /\ Top \in Nat \ {0} /\ MaxReserved \in Nat

VARIABLES
  value,   \* PendingCounter.count
  loop,    \* the operation each thread is in, and what it last read
  unsent,  \* PendingReservations that are alive
  inLane   \* envelopes sent and not dequeued

counter == <<value, loop, unsent, inLane>>

NoLoop == [op |-> "None", current |-> 0]

Start(w, op) == loop' = [loop EXCEPT ![w] = [op |-> op, current |-> value]]

Leave(w) == loop' = [loop EXCEPT ![w] = NoLoop]

In(op) == {w \in Worker : loop[w].op = op}

Reserved == unsent + inLane + Cardinality(In("Reserve")) + Cardinality(In("Decrement"))

CounterInit ==
  /\ value = 0
  /\ loop = [w \in Worker |-> NoLoop]
  /\ unsent = 0
  /\ inLane = 0

(* PendingReservation::new.  An operation begins with its load.            *)
Reserve(w) ==
  /\ loop[w] = NoLoop
  /\ Reserved < MaxReserved
  /\ Start(w, "Reserve")
  /\ UNCHANGED <<value, unsent, inLane>>

(* The send succeeded, and commit forgets the reservation.                 *)
Commit ==
  /\ unsent > 0
  /\ unsent' = unsent - 1
  /\ inLane' = inLane + 1
  /\ UNCHANGED <<value, loop>>

(* An uncommitted reservation is dropped.                                  *)
DropReservation(w) ==
  /\ loop[w] = NoLoop
  /\ unsent > 0
  /\ unsent' = unsent - 1
  /\ Start(w, "Decrement")
  /\ UNCHANGED <<value, inLane>>

DequeueEnvelope(w) ==
  /\ loop[w] = NoLoop
  /\ inLane > 0
  /\ inLane' = inLane - 1
  /\ Start(w, "Decrement")
  /\ UNCHANGED <<value, unsent>>

(* A reservation exists once its reserve has returned.                     *)
Returned(w) ==
  /\ Leave(w)
  /\ unsent' = IF loop[w].op = "Reserve" THEN unsent + 1 ELSE unsent

Target(w) == IF loop[w].op = "Reserve" THEN loop[w].current + 1 ELSE loop[w].current - 1

Stored(w) == value' = Target(w) /\ Returned(w)      \* mutant: a store, for an exchange

(* compare_exchange: published, or tried again with what was observed.     *)
Exchanged(w) ==
  IF value = loop[w].current
  THEN value' = Target(w) /\ Returned(w)
  ELSE Start(w, loop[w].op) /\ UNCHANGED <<value, unsent>>

NeverFrozen(w) == FALSE                            \* mutant: a poisoned counter moves

Frozen(w) == loop[w].current = Top

Attempt(w) ==
  /\ loop[w] # NoLoop
  /\ \/ Frozen(w) /\ Returned(w) /\ UNCHANGED value
     \/ ~Frozen(w) /\ Exchanged(w)
  /\ UNCHANGED inLane

CounterNext ==
  \/ \E w \in Worker : Reserve(w) \/ DropReservation(w) \/ DequeueEnvelope(w) \/ Attempt(w)
  \/ Commit

CounterSpec == CounterInit /\ [][CounterNext]_counter

-----------------------------------------------------------------------------
(* The assertion of decrement: what it is about to lower is not zero.      *)
NoUnderflow == \A w \in In("Decrement") : loop[w].current > 0

(* A decrement gives back when it returns.                                 *)
Counted == INSTANCE Tally WITH
  count <- value,
  owed  <- unsent + inLane + Cardinality(In("Decrement"))

(* However the threads' loads and exchanges interleave, the counter goes   *)
(* through what it would if each operation were one step: no reservation   *)
(* is lost or counted twice, none steps past the ceiling, a decrement that *)
(* raced the poisoning does not thaw it, and none finds zero.              *)
OperationsAtomic == Counted!TallySpec /\ []NoUnderflow
=============================================================================
