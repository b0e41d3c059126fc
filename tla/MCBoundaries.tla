---------------------------- MODULE MCBoundaries ----------------------------
(* Two rows, their dialogs and the modal, for TLC.                         *)
EXTENDS BoundaryProperties

CONSTANTS k1, k2

Keys == {k1, k2}

(* The rows are treated alike, and no liveness is checked.                 *)
KeySymmetry == Permutations(Keys)
=============================================================================
