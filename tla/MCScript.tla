------------------------------ MODULE MCScript ------------------------------
(* Two runs, one of which sends twice.                                     *)
EXTENDS ScriptProperties

CONSTANT Eager

MCIntents == [r \in Run |-> IF r = Eager THEN 2 ELSE 1]
=============================================================================
