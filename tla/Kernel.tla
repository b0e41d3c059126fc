------------------------------- MODULE Kernel -------------------------------
(***************************************************************************)
(* The execution kernel of the runtime (src/kernel.rs, kernel/pass.rs,     *)
(* teardown.rs, lowering.rs, cleanup.rs): bootstrap, the fixed-stage pass, *)
(* the dispatch of a returned command, parking, termination and settling,  *)
(* composed with the registry (Registry) and the producers (Ingress).      *)
(*                                                                         *)
(* The kernel is one sequential program; stage is its program counter and  *)
(* todo the steps of the loop it is in.  One action is one iteration, so   *)
(* that the producers interleave between any two of them.  The program     *)
(* the kernel hosts is its environment, chosen at the start: init and      *)
(* reduce return any of its commands and leave any of its declarations.    *)
(***************************************************************************)
EXTENDS Ingress

CONSTANTS
  BatchCap,      \* data-lane dequeues of one input batch
  SubScope,      \* the scope part of each subscription id
  Programs       \* the programs it may host: what init and reduce may return
                 \* (commands) and what they may leave declared (declarations)

(* One step of a dispatch plan or of the admission loop.  An unused field  *)
(* holds NoId, the root scope or "None".                                   *)
Step == [op     : {"Cancel", "Teardown", "Finalize", "Spawn", "Register",
                   "Quit", "Admit"},
         id     : Ids,
         scope  : Scopes,
         policy : {"None", "CancelInFlight", "KeepInFlight"}]

Steps(op) == Seq({s \in Step : s.op = op})

(* A lowered command: what dispatch_plan orders.                           *)
Command == [redraw    : BOOLEAN,
            cancels   : Steps("Cancel"),
            teardowns : Steps("Teardown"),
            spawns    : Steps("Spawn"),
            cleanups  : Steps("Register"),
            quit      : BOOLEAN]

ASSUME KernelAssumption ==
  /\ BatchCap \in Nat \ {0}
  /\ SubScope \in [SubIds -> Scopes]
  /\ \A p \in Programs : /\ p.commands \subseteq Command
                         /\ p.declarations \subseteq Seq(SubIds)

VARIABLES
  phase,       \* KernelPhase
  reason,      \* ExitReason, once terminating
  stage,       \* where the kernel's code is
  todo,        \* the steps left in the dispatch or the admission loop
  nextToken,   \* the next run token
  redraw,      \* redraw_pending
  dirty,       \* subscriptions need re-evaluation
  pulled,      \* dequeues of the current input batch
  updated,     \* the current input batch called reduce
  exitBuf,     \* exits taken out of the join set, not reflected yet
  ledger,      \* anchors of the unfired cleanup registrations
  declared,    \* what subscriptions returns in the program's state
  reduced,     \* history: number of the last message of each run reduced
  hooks,       \* history: registrations made at each anchor
  program      \* the hosted program

kernelVars == <<phase, reason, stage, todo, nextToken, redraw, dirty, pulled,
                updated, exitBuf, ledger, declared, reduced, hooks, program>>

vars == <<registryVars, ingressVars, kernelVars>>

Phases == {"Boot", "Steady", "Terminating", "Settled"}

Stages == {"boot", "bootDispatch", "bootAdmit", "loop", "parked", "exits",
           "control", "batch", "dispatch", "frame", "admit", "settle", "settled", "dropped"}

Init ==
  /\ RegistryInit
  /\ IngressInit
  /\ phase = "Boot"
  /\ reason = "None"
  /\ stage = "boot"
  /\ todo = <<>>
  /\ nextToken = 1
  /\ redraw = FALSE
  /\ dirty = FALSE
  /\ pulled = 0
  /\ updated = FALSE
  /\ exitBuf = <<>>
  /\ ledger = <<>>
  /\ declared = <<>>
  /\ reduced = [t \in Token |-> 0]
  /\ hooks = [s \in Scopes |-> 0]
  /\ program \in Programs

Terminating == phase \in {"Terminating", "Settled"}

-----------------------------------------------------------------------------
(* Starting runs.                                                          *)

(* Mints the next token for a run of this kind, stopping S first.          *)
StartRun(S, kind, id, scope) ==
  /\ nextToken \in Token
  /\ StopAndInsert(S, nextToken, kind, id, scope)
  /\ task' = [task EXCEPT ![nextToken] = "Live"]
  /\ nextToken' = nextToken + 1
  /\ UNCHANGED <<pending, queue, held, open, intents, sent, taken>>

NoStart == UNCHANGED <<registryVars, ingressVars, nextToken>>

-----------------------------------------------------------------------------
(* Dispatch (kernel.rs dispatch, lowering.rs).                             *)

QuitNow(cmd) ==
  IF cmd.quit THEN <<[op |-> "Quit", id |-> NoId, scope |-> <<>>, policy |-> "None"]>>
              ELSE <<>>

QuitFirstPlan(cmd) ==      \* mutant: the quit does not wait for its siblings
  QuitNow(cmd) \o cmd.cancels \o cmd.teardowns \o cmd.spawns \o cmd.cleanups

(* dispatch_plan: the cancel phase, then the spawn phase, the quit last.   *)
DispatchPlan(cmd) ==
  cmd.cancels \o cmd.teardowns \o cmd.spawns \o cmd.cleanups \o QuitNow(cmd)

Dispatching == stage \in {"bootDispatch", "dispatch"} /\ todo # <<>>

NextStep(op) == Dispatching /\ Head(todo).op = op

(* The termination postcondition: lanes and buffers dropped, hooks         *)
(* discarded, every run of live revoked and its task aborted.              *)
ApplyQuit(why, live) ==
  /\ phase' = "Terminating"
  /\ reason' = why
  /\ open' = FALSE
  /\ queue' = [l \in Lane |-> <<>>]
  /\ held' = [l \in Lane |-> 0]
  /\ ledger' = <<>>
  /\ StopRequest(live)

CancelStep ==
  /\ NextStep("Cancel")
  /\ StopRequest(KeyedOccupants(Head(todo).id))
  /\ todo' = Tail(todo)
  /\ UNCHANGED <<registry, keyed, pending, ingressVars, phase, reason, stage, nextToken,
                 redraw, dirty, pulled, updated, exitBuf, ledger, declared, reduced, hooks, program>>

(* apply_teardown, its first loop: the selection is read whole, then       *)
(* stopped; the second loop follows as a Finalize step.                    *)
TeardownStep ==
  /\ NextStep("Teardown")
  /\ StopRequest(SelectPrefix(Head(todo).scope))
  /\ todo' = <<[Head(todo) EXCEPT !.op = "Finalize"]>> \o Tail(todo)
  /\ UNCHANGED <<registry, keyed, pending, ingressVars, phase, reason, stage, nextToken,
                 redraw, dirty, pulled, updated, exitBuf, ledger, declared, reduced, hooks, program>>

(* The registrations a teardown of this prefix takes, by position.         *)
ArmedUnder(prefix) == {i \in DOMAIN ledger : IsPrefix(prefix, ledger[i])}

(* The first of them, in registration order.                               *)
FirstArmed(prefix) ==
  {i \in ArmedUnder(prefix) : \A j \in ArmedUnder(prefix) : i <= j}

KeptLedger(i) == ledger                       \* mutant: a hook is not consumed

LedgerWithout(i) == RemoveAt(ledger, i)

(* take_under and start_cleanup, one registration at a time: nothing reads *)
(* the ledger in between.                                                  *)
FinalizeStep ==
  /\ NextStep("Finalize")
  /\ LET prefix == Head(todo).scope IN
     IF ArmedUnder(prefix) = {}
     THEN /\ NoStart
          /\ todo' = Tail(todo)
          /\ UNCHANGED ledger
     ELSE \E i \in FirstArmed(prefix) :
          /\ StartRun({}, "Cleanup", NoId, ledger[i])
          /\ ledger' = LedgerWithout(i)
          /\ UNCHANGED todo
  /\ UNCHANGED <<phase, reason, stage, redraw, dirty, pulled, updated, exitBuf,
                 declared, reduced, hooks, program>>

IgnoredSlot(id, policy) == "Start"            \* mutant: the slot is not consulted

(* keyed_slot_decision; an anonymous run contends for no slot.             *)
SpawnDecision(id, policy) ==
  IF id = NoId \/ KeyedOccupants(id) = {} THEN "Start"
  ELSE IF policy = "CancelInFlight" THEN "Replace" ELSE "Suppress"

SpawnStep ==
  /\ NextStep("Spawn")
  /\ LET s == Head(todo)
         decision == SpawnDecision(s.id, s.policy)
     IN IF decision = "Suppress"
        THEN NoStart
        ELSE StartRun(IF decision = "Replace" THEN KeyedOccupants(s.id) ELSE {},
                      IF s.id = NoId THEN "Anon" ELSE "Keyed", s.id, s.scope)
  /\ todo' = Tail(todo)
  /\ UNCHANGED <<phase, reason, stage, redraw, dirty, pulled, updated, exitBuf,
                 ledger, declared, reduced, hooks, program>>

RegisterStep ==
  /\ NextStep("Register")
  /\ ledger' = Append(ledger, Head(todo).scope)
  /\ hooks' = [hooks EXCEPT ![Head(todo).scope] = @ + 1]
  /\ todo' = Tail(todo)
  /\ UNCHANGED <<registryVars, ingressVars, phase, reason, stage, nextToken, redraw,
                 dirty, pulled, updated, exitBuf, declared, reduced, program>>

QuitStep ==
  /\ NextStep("Quit")
  /\ ApplyQuit("Quit", registry)
  /\ todo' = Tail(todo)
  /\ UNCHANGED <<registry, keyed, pending, task, intents, sent, taken, stage, nextToken,
                 redraw, dirty, pulled, updated, exitBuf, declared, reduced, hooks, program>>

ForgetUpdates == dirty                  \* mutant: a reduce does not mark dirt

(* A batch that called reduce marks subscriptions for re-evaluation.       *)
BatchDirt == dirty \/ updated

(* A dispatched reduce is over: the batch goes on.                         *)
EndDispatch ==
  /\ stage = "dispatch"
  /\ todo = <<>>
  /\ ~Terminating
  /\ stage' = "batch"
  /\ UNCHANGED <<registryVars, ingressVars, phase, reason, todo, nextToken, redraw,
                 dirty, pulled, updated, exitBuf, ledger, declared, reduced, hooks, program>>

(* Or it quit, which ends the batch, the pass and the driving loop.        *)
EndDispatchQuit ==
  /\ stage = "dispatch"
  /\ todo = <<>>
  /\ Terminating
  /\ dirty' = BatchDirt
  /\ pulled' = 0
  /\ updated' = FALSE
  /\ stage' = "settle"
  /\ UNCHANGED <<registryVars, ingressVars, phase, reason, todo, nextToken, redraw,
                 exitBuf, ledger, declared, reduced, hooks, program>>

DispatchNext ==
  \/ CancelStep \/ TeardownStep \/ FinalizeStep \/ SpawnStep \/ RegisterStep
  \/ QuitStep \/ EndDispatch \/ EndDispatchQuit

-----------------------------------------------------------------------------
(* Subscription re-evaluation (pass.rs reconcile).                         *)

IsDeclared(id) == \E i \in DOMAIN declared : declared[i] = id

(* The running subscription runs that are no longer declared.              *)
Undeclared ==
  {t \in registry : /\ entry[t].phase = "Running"
                    /\ entry[t].kind = "Sub"
                    /\ ~IsDeclared(entry[t].id)}

IgnoreQuiescing == Undeclared # {}      \* mutant: only this pass's own stops defer

NeverDefer == FALSE                     \* mutant: no barrier at all

(* The admission barrier: a stop issued now, or one still quiescing.       *)
DeferAdmission == Undeclared # {} \/ AnyStoppingSub

(* Stops first; then, unless the pass is deferred, the declarations are    *)
(* left in todo for the admission loop.                                    *)
Reconcile ==
  /\ StopRequest(Undeclared)
  /\ todo' = IF DeferAdmission THEN <<>>
             ELSE [i \in DOMAIN declared |->
                     [op |-> "Admit", id |-> declared[i],
                      scope |-> SubScope[declared[i]], policy |-> "None"]]

AdmitStep ==
  /\ stage \in {"bootAdmit", "admit"}
  /\ todo # <<>>
  /\ LET s == Head(todo) IN
     IF SubRunning(s.id) THEN NoStart ELSE StartRun({}, "Sub", s.id, s.scope)
  /\ todo' = Tail(todo)
  /\ UNCHANGED <<phase, reason, stage, redraw, dirty, pulled, updated, exitBuf,
                 ledger, declared, reduced, hooks, program>>

-----------------------------------------------------------------------------
(* Bootstrap (kernel.rs boot).                                             *)

Boot(cmd, decl) ==
  /\ stage = "boot"
  /\ declared' = decl
  /\ redraw' = cmd.redraw
  /\ todo' = DispatchPlan(cmd)
  /\ stage' = "bootDispatch"
  /\ UNCHANGED <<registryVars, ingressVars, phase, reason, nextToken, dirty, pulled,
                 updated, exitBuf, ledger, reduced, hooks, program>>

(* The init command is applied: reconcile, unless it quit.                 *)
BootReconcile ==
  /\ stage = "bootDispatch"
  /\ todo = <<>>
  /\ ~Terminating
  /\ Reconcile
  /\ stage' = "bootAdmit"
  /\ UNCHANGED <<registry, keyed, pending, ingressVars, phase, reason, nextToken, redraw,
                 dirty, pulled, updated, exitBuf, ledger, declared, reduced, hooks, program>>

(* The first frame is unconditional; boot runs the first pass itself.      *)
BootEnd ==
  /\ \/ stage = "bootDispatch" /\ Terminating
     \/ stage = "bootAdmit"
  /\ todo = <<>>
  /\ redraw' = TRUE
  /\ phase' = IF Terminating THEN phase ELSE "Steady"
  /\ stage' = IF Terminating THEN "settle" ELSE "exits"
  /\ UNCHANGED <<registryVars, ingressVars, reason, todo, nextToken, dirty, pulled,
                 updated, exitBuf, ledger, declared, reduced, hooks, program>>

-----------------------------------------------------------------------------
(* The driving loop (kernel.rs drive; pass.rs pass_work_ready, park).      *)

FinishedTasks == {t \in Token : task[t] = "Done"}

LaneBlindWork == redraw \/ dirty \/ exitBuf # <<>>   \* mutant: lanes not asked

(* Work that pass_work_ready sees without polling for an exit.             *)
WorkBuffered ==
  \/ redraw \/ dirty
  \/ \E l \in Lane : queue[l] # <<>>
  \/ exitBuf # <<>>

(* buffer_exit: an exit leaves the join set for the kernel's buffer.       *)
BufferExit(t) ==
  /\ task[t] = "Done"
  /\ task' = [task EXCEPT ![t] = "Joined"]
  /\ exitBuf' = Append(exitBuf, t)
  /\ UNCHANGED <<registryVars, queue, held, open, intents, sent, taken>>

BeginPass ==
  /\ stage = "loop"
  /\ WorkBuffered
  /\ stage' = "exits"
  /\ UNCHANGED <<registryVars, ingressVars, phase, reason, todo, nextToken, redraw, dirty,
                 pulled, updated, exitBuf, ledger, declared, reduced, hooks, program>>

(* Readiness asked of the join set buffers the exit it finds.              *)
BeginPassOnExit(t) ==
  /\ stage = "loop"
  /\ ~WorkBuffered
  /\ BufferExit(t)
  /\ stage' = "exits"
  /\ UNCHANGED <<phase, reason, todo, nextToken, redraw, dirty, pulled, updated,
                 ledger, declared, reduced, hooks, program>>

Park ==
  /\ stage = "loop"
  /\ ~WorkBuffered
  /\ FinishedTasks = {}
  /\ stage' = "parked"
  /\ UNCHANGED <<registryVars, ingressVars, phase, reason, todo, nextToken, redraw, dirty,
                 pulled, updated, exitBuf, ledger, declared, reduced, hooks, program>>

(* A parked kernel wakes on a lane, and keeps the envelope it received.    *)
WakeOnLane(l) ==
  /\ stage = "parked"
  /\ queue[l] # <<>>
  /\ held' = [held EXCEPT ![l] = 1]
  /\ stage' = "loop"
  /\ UNCHANGED <<registryVars, task, queue, open, intents, sent, taken, phase, reason, todo,
                 nextToken, redraw, dirty, pulled, updated, exitBuf, ledger, declared,
                 reduced, hooks, program>>

WakeOnExit(t) ==
  /\ stage = "parked"
  /\ BufferExit(t)
  /\ stage' = "loop"
  /\ UNCHANGED <<phase, reason, todo, nextToken, redraw, dirty, pulled, updated,
                 ledger, declared, reduced, hooks, program>>

LoopNext ==
  \/ BeginPass \/ Park
  \/ \E t \in Token : BeginPassOnExit(t) \/ WakeOnExit(t)
  \/ \E l \in Lane : WakeOnLane(l)

-----------------------------------------------------------------------------
(* The pass (pass.rs pass_cycle).                                          *)

NoExitDirt(e) == FALSE                  \* mutant: quiescence marks no dirt

(* Dirt is the quiescence of a stop-requested subscription run.            *)
QuiescenceDirt(e) == e.revoked /\ e.kind = "Sub"

(* reflect_one_exit, of a buffered exit or else of one just polled.        *)
ReflectExit(t) ==
  /\ stage = "exits"
  /\ IF exitBuf # <<>>
     THEN /\ t = Head(exitBuf)
          /\ exitBuf' = Tail(exitBuf)
          /\ UNCHANGED task
     ELSE /\ t \in FinishedTasks
          /\ task' = [task EXCEPT ![t] = "Joined"]
          /\ UNCHANGED exitBuf
  /\ OnExit(t)
  /\ dirty' = (dirty \/ (t \in registry /\ QuiescenceDirt(entry[t]) /\ ~Terminating))
  /\ UNCHANGED <<aborted, pending, queue, held, open, intents, sent, taken, phase, reason, stage,
                 todo, nextToken, redraw, pulled, updated, ledger, declared, reduced, hooks, program>>

InputBeforeControl ==                   \* mutant: the batch precedes the drain
  /\ stage = "exits"
  /\ exitBuf = <<>>
  /\ FinishedTasks = {}
  /\ stage' = "batch"
  /\ UNCHANGED <<registryVars, ingressVars, phase, reason, todo, nextToken, redraw, dirty,
                 pulled, updated, exitBuf, ledger, declared, reduced, hooks, program>>

EndExits ==
  /\ stage = "exits"
  /\ exitBuf = <<>>
  /\ FinishedTasks = {}
  /\ stage' = "control"
  /\ UNCHANGED <<registryVars, ingressVars, phase, reason, todo, nextToken, redraw, dirty,
                 pulled, updated, exitBuf, ledger, declared, reduced, hooks, program>>

(* The delivery decision: what on_dequeue reports of the origin.           *)
Revoked(t) == entry[t].revoked

(* control_drain, one envelope: a revoked quit is discarded.               *)
DrainRevokedQuit ==
  /\ stage = "control"
  /\ queue["control"] # <<>>
  /\ Revoked(NextEnvelope("control").origin)
  /\ OnDequeue(NextEnvelope("control").origin)
  /\ Dequeue("control")
  /\ UNCHANGED <<entry, aborted, task, open, intents, sent, kernelVars>>

(* A quit of a live origin terminates; the dequeue's own effect on the     *)
(* registry comes first, and the run it retired is not stopped.            *)
DrainQuit ==
  /\ stage = "control"
  /\ queue["control"] # <<>>
  /\ ~Revoked(NextEnvelope("control").origin)
  /\ OnDequeue(NextEnvelope("control").origin)
  /\ Take("control")
  /\ ApplyQuit("Quit", registry')
  /\ stage' = "settle"
  /\ UNCHANGED <<task, intents, sent, todo, nextToken, redraw, dirty, pulled, updated,
                 exitBuf, declared, reduced, hooks, program>>

EndControl ==
  /\ stage = "control"
  /\ queue["control"] = <<>>
  /\ stage' = "batch"
  /\ UNCHANGED <<registryVars, ingressVars, phase, reason, todo, nextToken, redraw, dirty,
                 pulled, updated, exitBuf, ledger, declared, reduced, hooks, program>>

(* input_batch: the next dequeue of the batch.                             *)
BatchDequeue ==
  /\ stage = "batch"
  /\ pulled < BatchCap
  /\ queue["data"] # <<>>
  /\ pulled' = pulled + 1
  /\ OnDequeue(NextEnvelope("data").origin)
  /\ Dequeue("data")

InputDiscard ==
  /\ BatchDequeue
  /\ Revoked(NextEnvelope("data").origin)
  /\ UNCHANGED <<entry, aborted, task, open, intents, sent, phase, reason, stage, todo,
                 nextToken, redraw, dirty, updated, exitBuf, ledger, declared, reduced, hooks, program>>

InputReduce(cmd, decl) ==
  /\ BatchDequeue
  /\ LET e == NextEnvelope("data") IN
     /\ ~Revoked(e.origin)
     /\ reduced' = [reduced EXCEPT ![e.origin] = e.n]
  /\ declared' = decl
  /\ updated' = TRUE
  /\ redraw' = (redraw \/ cmd.redraw)
  /\ todo' = DispatchPlan(cmd)
  /\ stage' = "dispatch"
  /\ UNCHANGED <<entry, aborted, task, open, intents, sent, phase, reason, nextToken, dirty,
                 exitBuf, ledger, hooks, program>>

EndBatch ==
  /\ stage = "batch"
  /\ pulled = BatchCap \/ queue["data"] = <<>>
  /\ dirty' = BatchDirt
  /\ pulled' = 0
  /\ updated' = FALSE
  /\ stage' = "frame"
  /\ UNCHANGED <<registryVars, ingressVars, phase, reason, todo, nextToken, redraw,
                 exitBuf, ledger, declared, reduced, hooks, program>>

(* frame_step: a pending redraw is rendered first.                         *)
Render ==
  /\ stage = "frame"
  /\ redraw
  /\ redraw' = FALSE
  /\ UNCHANGED <<registryVars, ingressVars, phase, reason, stage, todo, nextToken, dirty,
                 pulled, updated, exitBuf, ledger, declared, reduced, hooks, program>>

RenderError ==
  /\ stage = "frame"
  /\ redraw
  /\ redraw' = FALSE
  /\ ApplyQuit("RenderError", registry)
  /\ stage' = "settle"
  /\ UNCHANGED <<registry, keyed, pending, task, intents, sent, taken, todo, nextToken, dirty,
                 pulled, updated, exitBuf, declared, reduced, hooks, program>>

FrameReconcile ==
  /\ stage = "frame"
  /\ ~redraw
  /\ dirty
  /\ dirty' = FALSE
  /\ Reconcile
  /\ stage' = "admit"
  /\ UNCHANGED <<registry, keyed, pending, ingressVars, phase, reason, nextToken, redraw,
                 pulled, updated, exitBuf, ledger, declared, reduced, hooks, program>>

EndPass ==
  /\ \/ stage = "frame" /\ ~redraw /\ ~dirty
     \/ stage = "admit" /\ todo = <<>>
  /\ stage' = "loop"
  /\ UNCHANGED <<registryVars, ingressVars, phase, reason, todo, nextToken, redraw, dirty,
                 pulled, updated, exitBuf, ledger, declared, reduced, hooks, program>>

PassNext ==
  \/ \E t \in Token : ReflectExit(t)
  \/ EndExits \/ DrainRevokedQuit \/ DrainQuit \/ EndControl
  \/ InputDiscard
  \/ \E cmd \in program.commands, decl \in program.declarations : InputReduce(cmd, decl)
  \/ EndBatch \/ Render \/ RenderError \/ FrameReconcile \/ EndPass

-----------------------------------------------------------------------------
(* Settling (kernel.rs settle).                                            *)

(* settle joins every task; a buffered exit is counted and dropped.        *)
JoinExit(t) ==
  /\ stage = "settle"
  /\ task[t] = "Done"
  /\ task' = [task EXCEPT ![t] = "Joined"]
  /\ exitBuf' = <<>>
  /\ UNCHANGED <<registryVars, queue, held, open, intents, sent, taken, phase, reason, stage,
                 todo, nextToken, redraw, dirty, pulled, updated, ledger, declared, reduced, hooks, program>>

Settle ==
  /\ stage = "settle"
  /\ \A t \in Token : task[t] \in {"None", "Joined"}
  /\ Clear
  /\ exitBuf' = <<>>
  /\ phase' = "Settled"
  /\ stage' = "settled"
  /\ UNCHANGED <<entry, aborted, pending, ingressVars, reason, todo, nextToken, redraw,
                 dirty, pulled, updated, ledger, declared, reduced, hooks, program>>

NoAbort == UNCHANGED <<entry, aborted>>      \* mutant: a dropped kernel aborts nothing

(* abort_all: every run is revoked and its task told to stop.              *)
AbortAll == StopRequest(registry)

(* Drop for Kernel: the future of run is dropped at one of its two awaits, *)
(* the park and the join of settle.  Lanes, buffers and hooks go with it;  *)
(* its tasks are aborted, and nobody is left to join them.                 *)
DropKernel ==
  /\ stage \in {"parked", "settle"}
  /\ AbortAll
  /\ phase' = "Terminating"
  /\ open' = FALSE
  /\ queue' = [l \in Lane |-> <<>>]
  /\ held' = [l \in Lane |-> 0]
  /\ ledger' = <<>>
  /\ stage' = "dropped"
  /\ UNCHANGED <<registry, keyed, pending, task, intents, sent, taken, reason, todo,
                 nextToken, redraw, dirty, pulled, updated, exitBuf, declared, reduced,
                 hooks, program>>

-----------------------------------------------------------------------------

KernelNext ==
  \/ \E cmd \in program.commands, decl \in program.declarations : Boot(cmd, decl)
  \/ BootReconcile \/ BootEnd \/ AdmitStep
  \/ DispatchNext \/ LoopNext \/ PassNext
  \/ Settle
  \/ \E t \in Token : JoinExit(t)

SendStep(t) == CompleteSend(t) \/ BlockSend(t) \/ FailSend(t)

ProducerNext ==
  \E t \in Token :
    \/ \E l \in Lane : BeginSend(t, l) /\ UNCHANGED kernelVars
    \/ SendStep(t) /\ UNCHANGED kernelVars
    \/ Finish(t) /\ UNCHANGED kernelVars
    \/ Cancel(t) /\ UNCHANGED kernelVars

(* Nothing is left to happen: the program settled, its kernel was dropped, *)
(* or a live kernel is parked with no task of its own until that happens.  *)
Idle ==
  /\ \/ stage \in {"settled", "dropped"}
     \/ /\ stage = "parked"
        /\ \A t \in Token : task[t] \in {"None", "Joined"}
        /\ \A l \in Lane : queue[l] = <<>>
  /\ UNCHANGED vars

Next == KernelNext \/ DropKernel \/ ProducerNext \/ Idle

(* The kernel's task and every send in progress keep running, and an       *)
(* aborted task reaches its next await point.  No stream has to yield,     *)
(* and none has to end.                                                    *)
Fairness ==
  /\ WF_vars(KernelNext)
  /\ \A t \in Token : /\ WF_vars(SendStep(t) /\ UNCHANGED kernelVars)
                      /\ WF_vars(Cancel(t) /\ UNCHANGED kernelVars)

Spec == Init /\ [][Next]_vars /\ Fairness
=============================================================================
