-------------------------------- MODULE Host --------------------------------
(***************************************************************************)
(* The runtime as an application sees it: what module Kernel promises, one *)
(* step for a dispatch and one for a delivery.                             *)
(*                                                                         *)
(* Every leaf of a command is a run of its own, a task that delivers its   *)
(* messages in order; tasks deliver in any order.  A run that was          *)
(* cancelled, replaced or torn down delivers nothing more.  Runs and armed *)
(* hooks are bags: nothing tells two alike apart.  payload is what a run   *)
(* has left to deliver.                                                    *)
(***************************************************************************)
EXTENDS CommandLayer, Bags, FiniteSets

VARIABLES
  runs,    \* runs in flight
  ended    \* the program has quit

(* Command::stream, and message and perform: what is delivered.            *)
Stream(messages) == EffectCommand(messages)

Deliver(message) == EffectCommand(<<message>>)

ImmediateQuit == [EffectCommand(<<>>) EXCEPT !.leaves[1].kind = "ImmediateQuit"]

Keep(bag, Kept(_)) == [x \in {y \in DOMAIN bag : Kept(y)} |-> bag[x]]

Torn(command, scope) == \E i \in DOMAIN command.teardowns : Under(scope, command.teardowns[i])

Cancelled(command, run) == \E i \in DOMAIN command.cancels : run.key = command.cancels[i]

(* Two leaves, or a leaf and a run, that contend for one slot.             *)
SameSlot(a, b) == a.key # NoKey /\ a.key = b.key

(* The leaves that are running after their command's dispatch: a keyed     *)
(* spawn takes its slot over, from an earlier leaf as well.                *)
Started(command) ==
  LET effects == {i \in DOMAIN command.leaves : command.leaves[i].kind = "Effect"}
  IN  {i \in effects :
         \A j \in effects : SameSlot(command.leaves[i], command.leaves[j]) => j <= i}

(* Cancels and teardowns come before every spawn of their command.         *)
Dispatched(bag, command) ==
  LET kept  == Keep(bag, LAMBDA run :
                 /\ ~Cancelled(command, run)
                 /\ ~Torn(command, run.scope)
                 /\ \A i \in Started(command) : ~SameSlot(run, command.leaves[i]))
      spawned == [leaf \in {command.leaves[i] : i \in Started(command)} |->
                    Cardinality({i \in Started(command) : command.leaves[i] = leaf})]
  IN  kept (+) spawned

(* And before its registrations.                                           *)
Armed(hooks, command) ==
  Keep(hooks, LAMBDA hook : ~Torn(command, hook.scope)) (+) ToBag(command.cleanups)

(* The runs left when one has delivered its first message.                 *)
After(bag, run) ==
  LET others == bag (-) SetToBag({run})
  IN  IF Len(run.payload) = 1 THEN others
      ELSE others (+) SetToBag({[run EXCEPT !.payload = Tail(@)]})
=============================================================================
