------------------------------ MODULE MCFunnel ------------------------------
(* One thread that is told of gauge events and may panic.                  *)
EXTENDS FunnelProperties
=============================================================================
