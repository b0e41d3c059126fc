------------------------------ MODULE WebSocket ------------------------------
(***************************************************************************)
(* src/subscription/websocket.rs: the stream of a WebSocket subscription,  *)
(* one connection after another, with the application of                   *)
(* examples/websocket.rs at its other end (one that may also ask for a     *)
(* close).                                                                 *)
(*                                                                         *)
(* One action is what the stream does from one await to the next.  What it *)
(* has yielded waits in out until the lane has room, and the stream is not *)
(* polled meanwhile.  Frames and texts are not told apart.  The server and *)
(* the network do as they please, and a write may take for ever.           *)
(***************************************************************************)
EXTENDS Naturals, Sequences, SequencesExt

CONSTANTS
  MaxConnections,   \* bound: connections ever attempted
  MaxFrames,        \* bound: frames that arrived and were not read
  MaxCommands,      \* bound: commands queued
  LaneCapacity      \* messages the data lane holds

ASSUME SocketAssumption ==
  MaxConnections \in Nat /\ MaxFrames \in Nat /\ MaxCommands \in Nat /\ LaneCapacity \in Nat \ {0}

VARIABLES
  number,     \* the connection the subscription's run is for; 0 before the first
  at,         \* where its stream stands
  inbound,    \* what arrived and was not read
  commands,   \* the channel of commands
  out,        \* what the stream has yielded and the run has not sent
  lane,       \* the data lane
  sender,     \* EchoChat.ws_sender: the connection it belongs to, or 0
  keeps       \* whether the application is EchoChat, which keeps its sender

socket == <<number, at, inbound, commands, out, lane, sender>>

NoMessage == [number |-> 0, what |-> "NoMessage"]

Yield(what) == [number |-> number, what |-> what]

(* By the application, or by the message that brings it there.             *)
SenderHeld == sender = number \/ Yield("Connected") \in ToSet(lane) \cup {out}

(* The receiver goes with the stream's state Running.                      *)
ReceiverAlive == at \in {"Running", "Writing", "ClosingNormally", "ClosingOnError"}

Polled(point) == at = point /\ out = NoMessage

-----------------------------------------------------------------------------
SocketInit ==
  /\ number = 0
  /\ at = "Ended"
  /\ inbound = <<>> /\ commands = <<>> /\ lane = <<>>
  /\ out = NoMessage
  /\ sender = 0
  /\ keeps \in BOOLEAN

(* The run of the subscription has exited, and the kernel, which reflects  *)
(* the declaration after each message, starts another.                     *)
Connect ==
  /\ at = "Ended"
  /\ number < MaxConnections
  /\ number' = number + 1
  /\ at' = "Connecting"
  /\ inbound' = <<>> /\ commands' = <<>>
  /\ UNCHANGED <<out, lane, sender>>

Connected ==
  /\ Polled("Connecting")
  /\ \/ out' = Yield("Connected") /\ at' = "Running"
     \/ out' = Yield("Error") /\ at' = "Done"
  /\ UNCHANGED <<number, inbound, commands, lane, sender>>

(* select!: a frame.  The end of the stream needs no close of its own.     *)
ReadNext ==
  /\ Polled("Running")
  /\ inbound # <<>>
  /\ inbound' = Tail(inbound)
  /\ CASE Head(inbound) = "Frame" -> out' = Yield("Received") /\ at' = at
       [] Head(inbound) = "Close" -> at' = "ClosingNormally" /\ out' = out
       [] Head(inbound) = "Error" -> at' = "ClosingOnError" /\ out' = out
       [] Head(inbound) = "End"   -> out' = Yield("Disconnected") /\ at' = "Done"
  /\ UNCHANGED <<number, commands, lane, sender>>

ReadFirst == commands # <<>> /\ inbound = <<>>     \* mutant: a biased select

CommandReady == commands # <<>>

(* select!: a command, or the end of the channel.                          *)
TakeCommand ==
  /\ Polled("Running")
  /\ \/ /\ CommandReady
        /\ at' = IF Head(commands) = "Close" THEN "ClosingNormally" ELSE "Writing"
        /\ commands' = Tail(commands)
     \/ /\ commands = <<>> /\ ~SenderHeld
        /\ at' = "ClosingNormally"
        /\ UNCHANGED commands
  /\ UNCHANGED <<number, inbound, out, lane, sender>>

(* A write is awaited where it was taken, and nothing is read meanwhile.   *)
(* One that fails is reported, and the connection goes on: the reads may   *)
(* still have something.                                                   *)
Written ==
  /\ at = "Writing"
  /\ at' = "Running"
  /\ out' \in {NoMessage, Yield("Error")}
  /\ UNCHANGED <<number, inbound, commands, lane, sender>>

StaysRunning(what) == out' = Yield(what) /\ at' = "Running"   \* mutant: not Done

ToDone(what) == out' = Yield(what) /\ at' = "Done"

(* The close frame and the flush are awaited too, and may fail.            *)
Closed ==
  /\ \/ at = "ClosingNormally" /\ ToDone("Disconnected")
     \/ at = "ClosingOnError" /\ ToDone("Error")
  /\ UNCHANGED <<number, inbound, commands, lane, sender>>

(* The run sends what its stream yielded, when there is room.              *)
Send ==
  /\ out # NoMessage
  /\ Len(lane) < LaneCapacity
  /\ lane' = Append(lane, out)
  /\ out' = NoMessage
  /\ UNCHANGED <<number, at, inbound, commands, sender>>

(* The stream ends, and the run exits.                                     *)
Finish ==
  /\ Polled("Done")
  /\ at' = "Ended"
  /\ UNCHANGED <<number, inbound, commands, out, lane, sender>>

(* External: a frame arrives; after a close, an error or the end, none.    *)
Arrive ==
  /\ at \in {"Running", "Writing", "ClosingNormally", "ClosingOnError"}
  /\ Len(inbound) < MaxFrames
  /\ \A i \in DOMAIN inbound : inbound[i] = "Frame"
  /\ \E item \in {"Frame", "Close", "Error", "End"} : inbound' = Append(inbound, item)
  /\ UNCHANGED <<number, at, commands, out, lane, sender>>

-----------------------------------------------------------------------------
(* EchoChat.                                                               *)

(* update, of Msg::WebSocket: an error leaves the sender where it is.      *)
Handle ==
  /\ lane # <<>>
  /\ lane' = Tail(lane)
  /\ sender' = CASE Head(lane).what = "Connected"    -> Head(lane).number
                 [] Head(lane).what = "Disconnected" -> 0
                 [] OTHER                            -> sender
  /\ UNCHANGED <<number, at, inbound, commands, out>>

(* submit_message, or a close: what a receiver that has gone refuses, and  *)
(* what is submitted without a sender, goes nowhere.                       *)
Submit(command) ==
  /\ sender = number /\ ReceiverAlive
  /\ Len(commands) < MaxCommands
  /\ commands' = Append(commands, command)
  /\ UNCHANGED <<number, at, inbound, out, lane, sender>>

(* Of another application: one that has heard enough.                      *)
LetGo ==
  /\ ~keeps
  /\ sender # 0
  /\ sender' = 0
  /\ UNCHANGED <<number, at, inbound, commands, out, lane>>

SocketNext ==
  /\ \/ Connect \/ Connected \/ ReadNext \/ TakeCommand \/ Written \/ Closed \/ Send \/ Finish
     \/ Arrive
     \/ Handle
     \/ \E command \in {"Send", "Close"} : Submit(command)
     \/ LetGo
  /\ UNCHANGED keeps

SocketSpec == SocketInit /\ [][SocketNext]_<<socket, keeps>>

(* The kernel takes messages and the run sends its own; select! picks a    *)
(* branch at random, so that frames that keep coming do not starve a       *)
(* command.  Nothing else need ever end, a write and a close least of all. *)
SocketFairness == WF_socket(Send) /\ WF_socket(Handle) /\ SF_socket(TakeCommand)

-----------------------------------------------------------------------------
(* What the application has yet to see.                                    *)
Coming == IF out = NoMessage THEN lane ELSE Append(lane, out)

(* EchoChat has the sender of a connection that runs, or it is on its way; *)
(* and nothing that would clear it comes after it.  The end of an earlier  *)
(* connection never takes the sender of its successor, so that none is     *)
(* given up for a sender that was dropped by mistake.                      *)
SenderReachesChat ==
  LET Clears(i) == Coming[i].what = "Disconnected"
  IN  keeps /\ at \in {"Running", "Writing"} =>
        \/ sender = number /\ \A i \in DOMAIN Coming : ~Clears(i)
        \/ \E i \in DOMAIN Coming :
             Coming[i] = Yield("Connected") /\ \A j \in i..Len(Coming) : ~Clears(j)

(* A close that was asked for is not starved by frames that keep coming:   *)
(* it stays queued only behind a write, or in a close, that never ends.    *)
CloseHeeded == <>[](at = "Running" => "Close" \notin ToSet(commands))
=============================================================================
