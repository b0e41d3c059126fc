------------------------------- MODULE MCParts -------------------------------
(***************************************************************************)
(* The parts whose state no pass of the kernel owns, for TLC, one in each  *)
(* behaviour: the gauges with two threads and a subscriber that changes    *)
(* gauges itself, a pending counter, a WebSocket with its application, or  *)
(* a timer.                                                                *)
(* The others stand still.                                                 *)
(***************************************************************************)
EXTENDS FunnelProperties, PendingCounter, WebSocket, Timer

VARIABLE part     \* the part this behaviour is about

PartsInit ==
  /\ part \in {"Funnel", "Counter", "WebSocket", "Timer"}
  /\ Init /\ CounterInit /\ SocketInit /\ TimerInit
  /\ part # "Funnel" => ~listening
  /\ part # "WebSocket" => ~keeps

(* The last connection is over, and all it said was handled.               *)
SocketIdle ==
  /\ at = "Ended" /\ number = MaxConnections /\ lane = <<>>
  /\ UNCHANGED <<socket, keeps>>

OnlyFunnel  == part = "Funnel"    /\ UNCHANGED <<counter, socket, keeps, timer>>
OnlyCounter == part = "Counter"   /\ UNCHANGED <<vars, socket, keeps, timer>>
OnlySocket  == part = "WebSocket" /\ UNCHANGED <<vars, counter, timer>>
OnlyTimer   == part = "Timer"     /\ UNCHANGED <<vars, counter, socket, keeps>>

PartsNext ==
  /\ \/ OnlyFunnel /\ Next
     \/ OnlyCounter /\ CounterNext
     \/ OnlySocket /\ (SocketNext \/ SocketIdle)
     \/ OnlyTimer /\ TimerNext
  /\ UNCHANGED part

PartsSpec ==
  /\ PartsInit
  /\ [][PartsNext]_<<vars, counter, socket, keeps, timer, part>>
  /\ Fairness
  /\ SocketFairness
=============================================================================
