--------------------------- MODULE ScriptedDriver ---------------------------
(***************************************************************************)
(* The test driver (testing/driver.rs) over a kernel with a scripted gate. *)
(* A test calls boot, step_pass, grant, confirm and settle, in any order   *)
(* the driver's state table admits; call says where the driver is in the   *)
(* call it has been given.                                                 *)
(*                                                                         *)
(* A pass has the kernel's stages (kernel/pass.rs), one action for each    *)
(* exit and envelope.  What the program makes of a message is its          *)
(* environment: it starts any runs, stops any, or quits.                   *)
(***************************************************************************)
EXTENDS SendGate

CONSTANTS
  BatchCap,  \* data envelopes of one pass
  MaxGrants  \* bound: grants issued

ASSUME DriverAssumption ==
  /\ BatchCap \in Nat \ {0}
  /\ MaxGrants \in Nat

VARIABLES
  state,    \* DriverState
  call,     \* where the call in progress is, or Script between calls
  pulled,   \* data envelopes of the pass so far
  held,     \* the runs in the kernel's bookkeeping whose exit is not reflected
  started,  \* the runs started since the driver last took them
  names,    \* the runs the driver has named
  armed,    \* history: the run of each grant
  fate      \* history: what confirm reported of each grant

kernelVars == <<pulled, held, started>>
scriptVars == <<state, names, armed, fate>>

vars == <<gateVars, laneVars, sendVars, call, kernelVars, scriptVars>>

DriverState == {"Constructed", "Running", "Terminated"}

PassStages == {"Exits", "Control", "Batch", "Frame", "Naming", "Draining"}

Calls == {"Script", "Notifying", "Confirming", "Unresolved", "Settling", "Panicked"}
           \cup PassStages

Init ==
  /\ GateInit
  /\ state = "Constructed"
  /\ call = "Script"
  /\ pulled = 0
  /\ held = {}
  /\ started = {}
  /\ names = {}
  /\ armed = <<>>
  /\ fate = <<>>

(* The calls that a test makes: only boot before it, none after the end.   *)
MayCall == state = "Running" /\ call = "Script"

-----------------------------------------------------------------------------
(* The kernel.                                                             *)

Unstarted == {r \in Run : pc[r] = "Unstarted"}

(* Runs start: a dispatched command's or a re-evaluation's.                *)
Start(S) ==
  /\ S \subseteq Unstarted
  /\ pc' = [r \in Run |-> IF r \in S THEN "Live" ELSE pc[r]]
  /\ held' = held \cup S
  /\ started' = started \cup S

(* A run whose exit is reflected keeps its entry for envelopes in a lane.  *)
Entries == held \cup {r \in Run : pending[r] > 0}

(* And others are stopped, which revokes and aborts them.                  *)
Stop(A) ==
  /\ A \subseteq Entries
  /\ aborted' = aborted \cup A

StopAll == aborted' = aborted \cup held'

(* apply_quit and immediate_postcondition: the receivers and the buffers   *)
(* go, and every run is told to end.                                       *)
Terminate ==
  /\ open' = FALSE
  /\ lanes' = [l \in Lane |-> <<>>]
  /\ StopAll
  /\ call' = "Draining"

Exited == {r \in held : pc[r] = "Gone"}

(* A stop has revoked the run whose envelope is next.                      *)
Revoked(l) == Head(lanes[l]) \in aborted

(* on_dequeue.                                                             *)
OnDequeue(l) == pending' = [pending EXCEPT ![Head(lanes[l])] = @ - 1]

Dequeue(l) ==
  /\ OnDequeue(l)
  /\ lanes' = [lanes EXCEPT ![l] = Tail(@)]

ReflectExit(r) ==
  /\ call = "Exits"
  /\ r \in Exited
  /\ held' = held \ {r}
  /\ UNCHANGED <<gateVars, laneVars, sendVars, call, pulled, started, scriptVars>>

EndExits ==
  /\ call = "Exits"
  /\ Exited = {}
  /\ call' = "Control"
  /\ UNCHANGED <<gateVars, laneVars, sendVars, kernelVars, scriptVars>>

Drain == call = "Control" /\ lanes["Control"] # <<>>

DrainRevoked ==
  /\ Drain
  /\ Revoked("Control")
  /\ Dequeue("Control")
  /\ UNCHANGED <<gateVars, accepted, open, sendVars, call, kernelVars, scriptVars>>

DrainQuit ==
  /\ Drain
  /\ ~Revoked("Control")
  /\ OnDequeue("Control")
  /\ UNCHANGED held
  /\ Terminate
  /\ UNCHANGED <<gateVars, accepted, pc, lane, woken, intents, under, pulled, started,
                 scriptVars>>

EndControl ==
  /\ call = "Control"
  /\ lanes["Control"] = <<>>
  /\ call' = "Batch"
  /\ UNCHANGED <<gateVars, laneVars, sendVars, kernelVars, scriptVars>>

Pull ==
  /\ call = "Batch"
  /\ pulled < BatchCap
  /\ lanes["Data"] # <<>>
  /\ pulled' = pulled + 1

Discard ==
  /\ Pull
  /\ Revoked("Data")
  /\ Dequeue("Data")
  /\ UNCHANGED <<gateVars, accepted, open, sendVars, call, held, started, scriptVars>>

(* reduce, and the dispatch of the command it returns.                     *)
Reduce(S, A) ==
  /\ Pull
  /\ ~Revoked("Data")
  /\ Dequeue("Data")
  /\ Start(S)
  /\ Stop(A)
  /\ UNCHANGED <<gateVars, accepted, open, lane, woken, intents, under, call, scriptVars>>

(* The same, of a command that quits.                                      *)
ReduceQuit(S) ==
  /\ Pull
  /\ ~Revoked("Data")
  /\ OnDequeue("Data")
  /\ Start(S)
  /\ Terminate
  /\ UNCHANGED <<gateVars, accepted, lane, woken, intents, under, scriptVars>>

EndBatch ==
  /\ call = "Batch"
  /\ pulled = BatchCap \/ lanes["Data"] = <<>>
  /\ pulled' = 0
  /\ call' = "Frame"
  /\ UNCHANGED <<gateVars, laneVars, sendVars, held, started, scriptVars>>

(* The re-evaluation of the subscriptions, if there is one.                *)
Frame(S, A) ==
  /\ call = "Frame"
  /\ Start(S)
  /\ Stop(A)
  /\ call' = "Naming"
  /\ UNCHANGED <<gateVars, laneVars, lane, woken, intents, under, pulled, scriptVars>>

RenderError ==
  /\ call = "Frame"
  /\ UNCHANGED held
  /\ Terminate
  /\ UNCHANGED <<gateVars, accepted, pending, pc, lane, woken, intents, under, pulled,
                 started, scriptVars>>

-----------------------------------------------------------------------------
(* boot and step_pass.                                                     *)

(* The init command and the first reconcile; the first pass follows.       *)
Boot(S) ==
  /\ state = "Constructed"
  /\ call = "Script"
  /\ Start(S)
  /\ call' = "Exits"
  /\ UNCHANGED <<gateVars, laneVars, lane, woken, aborted, intents, under, pulled, scriptVars>>

(* An init command that quits.                                             *)
BootQuit(S) ==
  /\ state = "Constructed"
  /\ call = "Script"
  /\ Start(S)
  /\ Terminate
  /\ UNCHANGED <<gateVars, accepted, pending, lane, woken, intents, under, pulled,
                 scriptVars>>

(* wake_source_ready, of one of the three sources.                         *)
Ready == (\E l \in Lane : lanes[l] # <<>>) \/ Exited # {}

StepPass ==
  /\ MayCall
  /\ Ready
  /\ call' = "Exits"
  /\ UNCHANGED <<gateVars, laneVars, sendVars, kernelVars, scriptVars>>

(* mint, of every run the step started.                                    *)
Mint == names \cup started

(* finish_step.                                                            *)
FinishStep ==
  /\ call = "Naming"
  /\ names' = Mint
  /\ started' = {}
  /\ state' = "Running"
  /\ call' = "Script"
  /\ UNCHANGED <<gateVars, laneVars, sendVars, pulled, held, armed, fate>>

(* finish_step after a termination: settle_kernel has joined every task.   *)
FinishTerminated ==
  /\ call = "Draining"
  /\ \A r \in held : pc[r] = "Gone"
  /\ names' = Mint
  /\ started' = {}
  /\ held' = {}
  /\ state' = "Terminated"
  /\ call' = "Script"
  /\ UNCHANGED <<gateVars, laneVars, sendVars, pulled, armed, fate>>

-----------------------------------------------------------------------------
(* grant, confirm and settle.                                              *)

(* grant of a run that the bookkeeping holds: any other is misuse.         *)
GrantRun(r) ==
  /\ MayCall
  /\ r \in names \cap held
  /\ nextSequence < MaxGrants
  /\ IssueGrant(r)
  /\ armed' = Append(armed, r)
  /\ call' = "Notifying"
  /\ UNCHANGED <<laneVars, sendVars, kernelVars, state, names, fate>>

Notify ==
  /\ call = "Notifying"
  /\ NotifyWaiters
  /\ call' = "Script"
  /\ UNCHANGED <<gateVars, laneVars, pc, lane, aborted, intents, under, kernelVars, scriptVars>>

(* confirm, with the token of the outstanding grant.                       *)
Confirm ==
  /\ MayCall
  /\ Outstanding
  /\ call' = "Confirming"
  /\ UNCHANGED <<gateVars, laneVars, sendVars, kernelVars, scriptVars>>

Resolved(outcome) ==
  /\ ClearGrant
  /\ fate' = Append(fate, outcome)
  /\ call' = "Script"
  /\ UNCHANGED <<laneVars, sendVars, kernelVars, state, names, armed>>

TakeResolution ==
  /\ call = "Confirming"
  /\ outstanding.outcome # "None"
  /\ Resolved(outstanding.outcome)

NoResolution ==
  /\ call = "Confirming"
  /\ outstanding.outcome = "None"
  /\ call' = "Unresolved"
  /\ UNCHANGED <<gateVars, laneVars, sendVars, kernelVars, scriptVars>>

ReclaimStopped ==                      \* mutant: a stopped run is taken for one gone
  outstanding.origin \in aborted

(* The run is gone, and no producer took its release.                      *)
Reclaimable == outstanding.origin \notin held /\ ~outstanding.taken

ReclaimUntaken ==
  /\ call = "Unresolved"
  /\ Reclaimable
  /\ Resolved("Reclaimed")

(* The budget has a turn left ...                                          *)
Turn ==
  /\ call = "Unresolved"
  /\ ~Reclaimable
  /\ call' = "Confirming"
  /\ UNCHANGED <<gateVars, laneVars, sendVars, kernelVars, scriptVars>>

(* ... or is spent: the test fails, and its executor goes with it.         *)
Exhausted ==
  /\ call = "Unresolved"
  /\ ~Reclaimable
  /\ call' = "Panicked"
  /\ UNCHANGED <<gateVars, laneVars, sendVars, kernelVars, scriptVars>>

(* settle is misuse while a grant is outstanding.                          *)
Settle ==
  /\ MayCall
  /\ ~Outstanding
  /\ call' = "Settling"
  /\ UNCHANGED <<gateVars, laneVars, sendVars, kernelVars, scriptVars>>

(* The test's condition holds, after some turns, or the budget is spent.   *)
EndSettle ==
  /\ call = "Settling"
  /\ call' \in {"Script", "Panicked"}
  /\ UNCHANGED <<gateVars, laneVars, sendVars, kernelVars, scriptVars>>

-----------------------------------------------------------------------------

(* What the driver does within a call, whatever the program and the test.  *)
DriverAdvance ==
  \/ \E r \in Run : ReflectExit(r)
  \/ EndExits \/ DrainRevoked \/ DrainQuit \/ EndControl \/ Discard \/ EndBatch
  \/ FinishStep \/ FinishTerminated \/ Notify

ProgramStep ==
  \/ RenderError
  \/ \E S \in SUBSET Run :
       \/ ReduceQuit(S)
       \/ \E A \in SUBSET Run : Reduce(S, A) \/ Frame(S, A)

TestStep ==
  \/ \E S \in SUBSET Run : Boot(S) \/ BootQuit(S)
  \/ StepPass
  \/ \E r \in Run : GrantRun(r)
  \/ Confirm \/ TakeResolution \/ NoResolution \/ ReclaimUntaken \/ Turn \/ Exhausted
  \/ Settle \/ EndSettle

(* A panic drops the executor, and with it every task.                     *)
Producers ==
  /\ call # "Panicked"
  /\ \E r \in Run : ProducerStep(r)
  /\ UNCHANGED <<call, kernelVars, scriptVars>>

RunTask(r) ==
  /\ call # "Panicked"
  /\ Advance(r)
  /\ UNCHANGED <<call, kernelVars, scriptVars>>

Next == DriverAdvance \/ ProgramStep \/ TestStep \/ Producers

(* A call goes on, and the worker threads run every task that can run.     *)
(* Nothing is assumed of the test, the program or the streams.             *)
Fairness == WF_vars(DriverAdvance) /\ \A r \in Run : WF_vars(RunTask(r))

Spec == Init /\ [][Next]_vars /\ Fairness
=============================================================================
