--------------------------- MODULE MCApplications ---------------------------
(***************************************************************************)
(* Applications for TLC, one in each behaviour: a small one under test, or *)
(* one of the two dashboards.  The others stand still.                     *)
(***************************************************************************)
EXTENDS MCStore, DashboardProperties, Dashboard

VARIABLE shown     \* the application this behaviour is about

ApplicationsInit ==
  /\ shown \in {"Test", "Composed", "Flat"}
  /\ Init /\ (shown # "Test" => program = QuitProgram)
  /\ board = NewBoard /\ cleanups = EmptyBag /\ app = NewApp
  /\ IF shown = "Composed" THEN BoardInit ELSE AppInit

OnlyTest     == shown = "Test"     /\ UNCHANGED <<boardVars, app>>
OnlyComposed == shown = "Composed" /\ UNCHANGED <<vars, app>>
OnlyFlat     == shown = "Flat"     /\ UNCHANGED <<vars, board, cleanups>>

ApplicationsNext ==
  /\ \/ OnlyTest /\ Next
     \/ OnlyComposed /\ BoardNext
     \/ OnlyFlat /\ AppNext
  /\ UNCHANGED shown

ApplicationsSpec == ApplicationsInit /\ [][ApplicationsNext]_<<vars, boardVars, app, shown>>
=============================================================================
