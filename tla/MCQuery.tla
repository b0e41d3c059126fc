------------------------------- MODULE MCQuery -------------------------------
(* Two or three streams of one query for TLC.                              *)
EXTENDS QueryProperties
=============================================================================
