-------------------------------- MODULE Tally --------------------------------
(***************************************************************************)
(* What one pending counter counts, an operation at a time (the rules of   *)
(* src/kernel/accounting.rs): every reservation, until its one release or  *)
(* dequeue, unless it has ever been at its ceiling, where it stays.        *)
(***************************************************************************)
EXTENDS Naturals

CONSTANT Top

VARIABLES
  count,   \* the counter
  owed     \* the reservations that nothing has given back

TallyInit == count = 0 /\ owed = 0

ReserveOne ==
  /\ owed' = owed + 1
  /\ count' = IF count = Top THEN Top ELSE count + 1

GiveBack ==
  /\ owed > 0
  /\ owed' = owed - 1
  /\ count' = IF count = Top THEN Top ELSE count - 1

TallySpec == TallyInit /\ [][ReserveOne \/ GiveBack]_<<count, owed>>

(* So a counter below its ceiling is exact, and none is ever thawed.       *)
Exact == count \in {owed, Top}
=============================================================================
