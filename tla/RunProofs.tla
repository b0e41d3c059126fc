------------------------------ MODULE RunProofs ------------------------------
(***************************************************************************)
(* Which runs exist, which are told to stop and when, in every reachable   *)
(* state of every instance: Spec => []RunInv, over the accounting          *)
(* invariant of KernelProofs.  Hence the exclusion of keyed slots and      *)
(* subscription ids, the admission barrier, the retraction of a teardown,  *)
(* the count of cleanup runs, and what a quit and a termination leave.     *)
(*                                                                         *)
(* A step does one of four things to the runs: it launches one, it stops   *)
(* some, it reflects an exit, or it leaves every entry as it is.           *)
(***************************************************************************)
EXTENDS KernelProofs, FunctionTheorems

(* A run is launched, by a spawn, a finalizer or an admission.             *)
Launch(S, kind, id, scope) ==
  /\ kind \in {"Keyed", "Anon", "Sub", "Cleanup"}
  /\ id \in Ids
  /\ scope \in Scopes
  /\ StartRun(S, kind, id, scope)
  /\ S = IF kind = "Keyed" THEN KeyedOccupants(id) ELSE {}
  /\ kind = "Sub" => /\ stage \in {"bootAdmit", "admit"}
                     /\ ~SubRunning(id)
                     /\ id = Head(todo).id
  /\ stage \in {"bootDispatch", "dispatch", "bootAdmit", "admit"}
  /\ kind # "Sub" => stage \in {"bootDispatch", "dispatch"}
  /\ todo # <<>>
  /\ todo' \in {todo, Tail(todo)}
  /\ kind # "Cleanup" => todo' = Tail(todo)
  /\ IF kind = "Cleanup"
     THEN \E i \in DOMAIN ledger : scope = ledger[i] /\ ledger' = LedgerWithout(i)
     ELSE ledger' = ledger
  /\ UNCHANGED <<phase, reason, stage, redraw, dirty, pulled, updated, exitBuf, declared,
                 reduced, hooks, program>>

Launching == \E S, kind, id, scope : Launch(S, kind, id, scope)

(* Runs are told to stop; a cleanup run only by termination.               *)
Stop(S) ==
  /\ StopRequest(S)
  /\ registry' \subseteq registry
  /\ Terminating' \/ \A t \in S \cap registry : entry[t].kind # "Cleanup"
  /\ UNCHANGED <<task, nextToken, sent, reduced>>

Stopping == \E S : Stop(S)

(* The tasks move on by themselves, or are joined.                         *)
TasksMove ==
  \A t \in Token :
    \/ task'[t] = task[t]
    \/ /\ task[t] \notin {"None", "Joined"}
       /\ task'[t] # "None"
       /\ task[t] = "Done" => task'[t] = "Joined"
       /\ task'[t] \in Reserving => task[t] \in Reserving \/ entry[t].kind # "Cleanup"

NoMark ==
  /\ UNCHANGED <<entry, aborted, nextToken>>
  /\ registry' \subseteq registry
  /\ TasksMove

Exiting == \E t \in Token : ReflectExit(t)

-----------------------------------------------------------------------------
(* The four kinds of step.                                                 *)

(* The steps of a dispatch plan and of the admission loop.                 *)
LEMMA LaunchKinds ==
  ASSUME Inv, FinalizeStep \/ SpawnStep \/ AdmitStep
  PROVE  Launching \/ NoStart
<1>1. CASE FinalizeStep /\ ~NoStart
  <2>1. PICK i \in FirstArmed(Head(todo).scope) :
          /\ StartRun({}, "Cleanup", NoId, ledger[i])
          /\ ledger' = LedgerWithout(i)
          /\ UNCHANGED todo
    BY <1>1 DEF FinalizeStep
  <2>2. i \in DOMAIN ledger /\ ledger[i] \in Scopes /\ NoId \in Ids
    BY <2>1 DEF FirstArmed, ArmedUnder, Inv, Shape, KernelShape, Ids
  <2>3. Launch({}, "Cleanup", NoId, ledger[i])
    BY <1>1, <2>1, <2>2 DEF Launch, FinalizeStep, NextStep, Dispatching
  <2> QED  BY <2>3 DEF Launching
<1>2. CASE SpawnStep /\ ~NoStart
  <2> DEFINE s == Head(todo)
             kind == IF s.id = NoId THEN "Anon" ELSE "Keyed"
             S == IF SpawnDecision(s.id, s.policy) = "Replace" THEN KeyedOccupants(s.id) ELSE {}
  <2>1. s \in Step
    BY <1>2 DEF SpawnStep, NextStep, Dispatching, Inv, Shape, KernelShape
  <2>2. s.id \in Ids /\ s.scope \in Scopes
    BY <2>1 DEF Step
  <2>3. /\ StartRun(S, kind, s.id, s.scope)
        /\ SpawnDecision(s.id, s.policy) # "Suppress"
    BY <1>2 DEF SpawnStep
  <2>4. S = IF kind = "Keyed" THEN KeyedOccupants(s.id) ELSE {}
    BY <2>3 DEF SpawnDecision
  <2>5. kind \in {"Keyed", "Anon"}
    OBVIOUS
  <2> HIDE DEF s, kind, S
  <2>6. Launch(S, kind, s.id, s.scope)
    BY <1>2, <2>2, <2>3, <2>4, <2>5 DEF Launch, SpawnStep, NextStep, Dispatching
  <2> QED  BY <2>6 DEF Launching
<1>3. CASE AdmitStep /\ ~NoStart
  <2>1. Head(todo) \in Step
    BY <1>3 DEF AdmitStep, Inv, Shape, KernelShape
  <2>2. Head(todo).id \in Ids /\ Head(todo).scope \in Scopes
    BY <2>1 DEF Step
  <2>3. Launch({}, "Sub", Head(todo).id, Head(todo).scope)
    BY <1>3, <2>2 DEF Launch, AdmitStep
  <2> QED  BY <2>3 DEF Launching
<1> QED  BY <1>1, <1>2, <1>3

(* What stays when nothing is started.                                     *)
LEMMA NoStartNoMark ==
  ASSUME NoStart
  PROVE  NoMark
BY DEF NoStart, NoMark, TasksMove, registryVars, ingressVars

(* No command and no re-evaluation stops a cleanup run.                    *)
LEMMA StopsSpareCleanup ==
  ASSUME CancelStep \/ TeardownStep \/ BootReconcile \/ FrameReconcile
  PROVE  Stopping
<1>1. CASE CancelStep
  <2>1. Stop(KeyedOccupants(Head(todo).id))
    BY <1>1 DEF CancelStep, Stop, KeyedOccupants, OccupiesKeyedSlot, ingressVars
  <2> QED  BY <2>1 DEF Stopping
<1>2. CASE TeardownStep
  <2>1. Stop(SelectPrefix(Head(todo).scope))
    BY <1>2 DEF TeardownStep, Stop, SelectPrefix, SelectableByTeardown, ingressVars
  <2> QED  BY <2>1 DEF Stopping
<1>3. CASE BootReconcile \/ FrameReconcile
  <2>1. Stop(Undeclared)
    BY <1>3 DEF BootReconcile, FrameReconcile, Reconcile, Stop, Undeclared, ingressVars
  <2> QED  BY <2>1 DEF Stopping
<1> QED  BY <1>1, <1>2, <1>3

(* A termination stops every run left.                                     *)
LEMMA TerminationStops ==
  ASSUME QuitStep \/ DrainQuit \/ RenderError \/ DropKernel
  PROVE  Stopping /\ Terminating'
<1>1. CASE QuitStep \/ RenderError
  <2>1. Stop(registry) /\ Terminating'
    BY <1>1 DEF QuitStep, RenderError, ApplyQuit, Stop, Terminating
  <2> QED  BY <2>1 DEF Stopping
<1>2. CASE DrainQuit
  <2>1. registry' \subseteq registry
    BY <1>2 DEF DrainQuit, OnDequeue, Retire
  <2>2. Stop(registry') /\ Terminating'
    BY <1>2, <2>1 DEF DrainQuit, ApplyQuit, Stop, Terminating
  <2> QED  BY <2>2 DEF Stopping
<1>3. CASE DropKernel
  <2>1. Stop(registry) /\ Terminating'
    BY <1>3 DEF DropKernel, AbortAll, Stop, Terminating
  <2> QED  BY <2>1 DEF Stopping
<1> QED  BY <1>1, <1>2, <1>3

(* The producers and the joins leave every entry.                          *)
LEMMA TasksNoMark ==
  ASSUME Inv
  PROVE  /\ ProducerNext => NoMark
         /\ \A t \in Token : JoinExit(t) \/ BeginPassOnExit(t) \/ WakeOnExit(t) => NoMark
<1>1. ASSUME NEW t \in Token, NEW s \in TaskState \ {"None"},
             task[t] \notin {"None", "Joined"}, task' = [task EXCEPT ![t] = s],
             task[t] = "Done" => s = "Joined",
             s \in Reserving => task[t] \in Reserving \/ entry[t].kind # "Cleanup"
      PROVE  TasksMove
  BY <1>1 DEF TasksMove, Inv, Shape, IngressShape
<1>2. CASE ProducerNext
  <2>1. PICK t \in Token :
          /\ \/ \E l \in Lane : BeginSend(t, l)
             \/ SendStep(t) \/ Finish(t) \/ Cancel(t)
          /\ UNCHANGED kernelVars
    BY <1>2 DEF ProducerNext
  <2>2. CASE \E l \in Lane : BeginSend(t, l)
    <3>1. PICK l \in Lane : BeginSend(t, l)
      BY <2>2
    <3>2. entry[t].kind # "Cleanup" /\ task[t] = "Live"
      BY <3>1 DEF BeginSend, Senders
    <3>3. TasksMove
      BY <1>1, <3>1, <3>2 DEF BeginSend, TaskState
    <3> QED  BY <2>1, <3>1, <3>3 DEF BeginSend, NoMark, kernelVars
  <2>3. CASE CompleteSend(t) \/ BlockSend(t) \/ FailSend(t) \/ Finish(t) \/ Cancel(t)
    <3>1. TasksMove
      BY <1>1, <2>3 DEF CompleteSend, BlockSend, FailSend, Finish, Cancel, TaskState, Reserving
    <3> QED  BY <2>1, <2>3, <3>1 DEF CompleteSend, BlockSend, FailSend, Finish, Cancel, NoMark,
                                     kernelVars, registryVars
  <2> QED  BY <2>1, <2>2, <2>3 DEF SendStep
<1>3. ASSUME NEW t \in Token, JoinExit(t) \/ BeginPassOnExit(t) \/ WakeOnExit(t)
      PROVE  NoMark
  <2>1. TasksMove
    BY <1>1, <1>3 DEF JoinExit, BeginPassOnExit, WakeOnExit, BufferExit, TaskState, Reserving
  <2> QED  BY <1>3, <2>1 DEF JoinExit, BeginPassOnExit, WakeOnExit, BufferExit, NoMark,
                             registryVars
<1> QED  BY <1>2, <1>3

(* The other steps of the kernel leave entries and tasks alone.            *)
LEMMA KernelNoMark ==
  ASSUME Inv,
         \/ \E cmd \in program.commands, decl \in program.declarations :
              Boot(cmd, decl) \/ InputReduce(cmd, decl)
         \/ BootEnd \/ RegisterStep \/ EndDispatch \/ EndDispatchQuit \/ BeginPass \/ Park
         \/ \E l \in Lane : WakeOnLane(l)
         \/ EndExits \/ DrainRevokedQuit \/ EndControl \/ InputDiscard \/ EndBatch \/ Render
         \/ EndPass \/ Settle \/ UNCHANGED vars
  PROVE  NoMark
<1>1. CASE \/ \E cmd \in program.commands, decl \in program.declarations : Boot(cmd, decl)
           \/ BootEnd \/ RegisterStep \/ EndDispatch \/ EndDispatchQuit \/ BeginPass \/ Park
           \/ \E l \in Lane : WakeOnLane(l)
           \/ EndExits \/ EndControl \/ EndBatch \/ Render \/ EndPass \/ Settle \/ UNCHANGED vars
  BY <1>1 DEF Boot, BootEnd, RegisterStep, EndDispatch, EndDispatchQuit, BeginPass, Park,
     WakeOnLane, EndExits, EndControl, EndBatch, Render, EndPass, Settle, Clear, NoMark,
     TasksMove, vars, registryVars, ingressVars, kernelVars
<1>2. CASE DrainRevokedQuit \/ InputDiscard
  BY <1>2 DEF DrainRevokedQuit, InputDiscard, BatchDequeue, OnDequeue, Retire, NoMark, TasksMove,
              kernelVars
<1>3. CASE \E cmd \in program.commands, decl \in program.declarations : InputReduce(cmd, decl)
  BY <1>3 DEF InputReduce, BatchDequeue, OnDequeue, Retire, NoMark, TasksMove
<1> QED  BY <1>1, <1>2, <1>3

(* Every step is one of the four.                                          *)
LEMMA StepKinds ==
  ASSUME Inv, [Next]_vars
  PROVE  Launching \/ Stopping \/ Exiting \/ NoMark
<1>1. CASE KernelNext
  <2>1. CASE \/ \E cmd \in program.commands, decl \in program.declarations : Boot(cmd, decl)
             \/ BootReconcile \/ BootEnd \/ AdmitStep \/ Settle
             \/ \E t \in Token : JoinExit(t)
    BY <2>1, LaunchKinds, NoStartNoMark, StopsSpareCleanup, TasksNoMark, KernelNoMark
  <2>2. CASE DispatchNext
    BY <2>2, LaunchKinds, NoStartNoMark, StopsSpareCleanup, TerminationStops, KernelNoMark
    DEF DispatchNext
  <2>3. CASE LoopNext
    BY <2>3, TasksNoMark, KernelNoMark DEF LoopNext
  <2>4. CASE PassNext
    BY <2>4, StopsSpareCleanup, TerminationStops, KernelNoMark DEF PassNext, Exiting
  <2> QED  BY <1>1, <2>1, <2>2, <2>3, <2>4 DEF KernelNext
<1>2. CASE DropKernel
  BY <1>2, TerminationStops
<1>3. CASE ProducerNext
  BY <1>3, TasksNoMark
<1>4. CASE UNCHANGED vars
  BY <1>4, KernelNoMark
<1> QED  BY <1>1, <1>2, <1>3, <1>4 DEF Next, Idle

-----------------------------------------------------------------------------
(* What each kind of step does to the runs.                                *)

(* stop_effect: the phase follows the exit.                                *)
LEMMA StoppedPhase ==
  ASSUME NEW e \in Entry
  PROVE  Stopped(e).phase = IF e.exited THEN e.phase ELSE "Stopping"
BY DEF Stopped, Entry

(* A launch: the new run has a fresh token, and only the keyed runs of its *)
(* slot are stopped.                                                       *)
LEMMA LaunchFacts ==
  ASSUME Inv, NEW S, NEW kind, NEW id, NEW scope, Launch(S, kind, id, scope)
  PROVE  /\ nextToken \in Token /\ nextToken \notin registry /\ task[nextToken] = "None"
         /\ nextToken' = nextToken + 1
         /\ registry' = registry \cup {nextToken}
         /\ entry'[nextToken] = Fresh(kind, id, scope)
         /\ \A u \in Token : u # nextToken =>
              entry'[u] = IF u \in S THEN Stopped(entry[u]) ELSE entry[u]
         /\ aborted' = aborted \cup {u \in S : ~entry[u].exited}
         /\ S \subseteq registry /\ \A u \in S : entry[u].kind = "Keyed"
         /\ task'[nextToken] = "Live"
         /\ \A u \in Token : u # nextToken => task'[u] = task[u]
<1>1. nextToken \in Token /\ nextToken \notin registry /\ task[nextToken] = "None"
  BY DEF Inv, Unminted, Launch, StartRun, Token
<1>2. S \subseteq registry /\ \A u \in S : entry[u].kind = "Keyed"
  BY DEF Launch, KeyedOccupants, OccupiesKeyedSlot
<1>3. StartRun(S, kind, id, scope)
  BY DEF Launch
<1>4. task' = [task EXCEPT ![nextToken] = "Live"] /\ task \in [Token -> TaskState]
  BY <1>3 DEF StartRun, Inv, Shape, IngressShape
<1> QED  BY <1>1, <1>2, <1>3, <1>4 DEF StartRun, StopAndInsert

(* A stop: what it does to each run.                                       *)
LEMMA StopFacts ==
  ASSUME Inv, NEW S, Stop(S), NEW u \in Token
  PROVE  /\ entry'[u] = IF u \in S \cap registry THEN Stopped(entry[u]) ELSE entry[u]
         /\ u \in aborted' => u \in aborted \/ u \in S \cap registry
         /\ u \in aborted => u \in aborted'
BY DEF Stop, StopRequest

(* An exit: its run drains, or is retired with nothing in flight.          *)
LEMMA ExitFacts ==
  ASSUME Inv, NEW t \in Token, ReflectExit(t)
  PROVE  /\ task[t] \in {"Done", "Joined"} /\ task'[t] = "Joined"
         /\ \A u \in Token : u # t => task'[u] = task[u] /\ entry'[u] = entry[u]
         /\ entry'[t].kind = entry[t].kind /\ entry'[t].id = entry[t].id
         /\ entry'[t].scope = entry[t].scope /\ entry'[t].revoked = entry[t].revoked
         /\ t \in registry' => entry'[t].exited /\ entry'[t].phase = "Draining"
         /\ registry' \subseteq registry
         /\ UNCHANGED <<aborted, nextToken>>
<1>1. /\ task[t] \in {"Done", "Joined"} /\ task'[t] = "Joined"
      /\ \A u \in Token : u # t => task'[u] = task[u]
  <2>1. CASE exitBuf # <<>>
    <3>1. 1 \in DOMAIN exitBuf /\ t = exitBuf[1]
      BY <2>1 DEF ReflectExit, Inv, Shape, KernelShape
    <3> QED  BY <2>1, <3>1 DEF ReflectExit, Inv, Lifetimes
  <2>2. CASE exitBuf = <<>>
    BY <2>2 DEF ReflectExit, FinishedTasks, Inv, Shape, IngressShape
  <2> QED  BY <2>1, <2>2
<1>2. UNCHANGED <<aborted, nextToken>> /\ OnExit(t)
  BY DEF ReflectExit
<1>3. CASE t \notin registry
  BY <1>1, <1>2, <1>3 DEF OnExit
<1>4. CASE t \in registry
  <2> DEFINE gone == RemovalRule(TRUE, pending[t])
             then == IF gone THEN entry[t].phase ELSE "Draining"
             e == [entry[t] EXCEPT !.exited = TRUE, !.phase = then]
  <2>1. entry[t] \in Entry /\ entry \in [Token -> Entry]
    BY DEF Inv, Shape, RegistryShape
  <2>2. entry' = [entry EXCEPT ![t] = e]
    BY <1>2, <1>4, <2>1 DEF OnExit, Entry
  <2>3. /\ e.kind = entry[t].kind /\ e.id = entry[t].id /\ e.scope = entry[t].scope
        /\ e.revoked = entry[t].revoked /\ e.exited /\ e.phase = then
    BY <2>1 DEF Entry
  <2>4. /\ gone => registry' = registry \ {t}
        /\ ~gone => registry' = registry
    BY <1>2, <1>4 DEF OnExit, Retire
  <2> HIDE DEF e
  <2>5. entry'[t] = e /\ \A u \in Token : u # t => entry'[u] = entry[u]
    BY <2>1, <2>2
  <2> QED  BY <1>1, <1>2, <2>3, <2>4, <2>5
<1> QED  BY <1>3, <1>4

(* Whatever the step, a run keeps its kind, its identity and its scope; it *)
(* is never reinstated, and a joined task stays joined.                    *)
LEMMA Evolution ==
  ASSUME Inv, Marks, [Next]_vars, NEW t \in Token
  PROVE  /\ entry[t].kind # "None" => /\ entry'[t].kind = entry[t].kind
                                      /\ entry'[t].id = entry[t].id
                                      /\ entry'[t].scope = entry[t].scope
         /\ entry[t].revoked => entry'[t].revoked
         /\ t \in aborted => t \in aborted'
         /\ task[t] = "Joined" => task'[t] = "Joined"
         /\ task[t] # "None" => task'[t] # "None"
<1>1. entry[t] \in Entry
  BY DEF Inv, Shape, RegistryShape
<1>2. CASE Launching
  <2>1. PICK S, kind, id, scope : Launch(S, kind, id, scope)
    BY <1>2 DEF Launching
  <2>2. CASE t = nextToken
    <3>1. task[t] = "None" /\ entry[t].kind = "None" /\ ~entry[t].revoked /\ t \notin aborted
      BY <2>1, <2>2, LaunchFacts DEF Marks
    <3> QED  BY <3>1
  <2>3. CASE t # nextToken
    BY <1>1, <2>1, <2>3, LaunchFacts, StoppedKeeps
  <2> QED  BY <2>2, <2>3
<1>3. CASE Stopping
  <2>1. PICK S : Stop(S)
    BY <1>3 DEF Stopping
  <2>2. task' = task
    BY <2>1 DEF Stop
  <2> QED  BY <1>1, <2>1, <2>2, StopFacts, StoppedKeeps
<1>4. CASE Exiting
  <2>1. PICK u \in Token : ReflectExit(u)
    BY <1>4 DEF Exiting
  <2> QED  BY <2>1, ExitFacts
<1>5. CASE NoMark
  BY <1>5 DEF NoMark, TasksMove
<1> QED  BY <1>2, <1>3, <1>4, <1>5, StepKinds

-----------------------------------------------------------------------------
(* What a step does to the lanes.                                          *)

LaneKinds ==
  \/ queue' = queue
  \/ \E l \in Lane : queue[l] # <<>> /\ Dequeue(l)
  \/ queue' = [l \in Lane |-> <<>>]
  \/ \E t \in Token : CompleteSend(t)

(* The lanes are left alone, dequeued once, dropped, or accept a send.     *)
LEMMA LaneSteps ==
  ASSUME Inv, [Next]_vars
  PROVE  LaneKinds
<1>1. CASE KernelNext
  <2>1. CASE \/ \E cmd \in program.commands, decl \in program.declarations : Boot(cmd, decl)
             \/ BootReconcile \/ BootEnd \/ AdmitStep \/ Settle
             \/ \E t \in Token : JoinExit(t)
    BY <2>1 DEF Boot, BootReconcile, BootEnd, AdmitStep, NoStart, StartRun, Settle, JoinExit,
                ingressVars, LaneKinds
  <2>2. CASE DispatchNext
    BY <2>2 DEF DispatchNext, CancelStep, TeardownStep, FinalizeStep, SpawnStep, RegisterStep,
                QuitStep, ApplyQuit, EndDispatch, EndDispatchQuit, NoStart, StartRun,
                ingressVars, LaneKinds
  <2>3. CASE LoopNext
    BY <2>3 DEF LoopNext, BeginPass, Park, BeginPassOnExit, WakeOnExit, WakeOnLane, BufferExit,
                ingressVars, LaneKinds
  <2>4. CASE PassNext
    <3>1. "data" \in Lane /\ "control" \in Lane
      BY DEF Lane
    <3>2. CASE DrainRevokedQuit \/ InputDiscard
      BY <3>1, <3>2 DEF DrainRevokedQuit, InputDiscard, BatchDequeue, LaneKinds
    <3>3. CASE \E cmd \in program.commands, decl \in program.declarations :
                 InputReduce(cmd, decl)
      BY <3>1, <3>3 DEF InputReduce, BatchDequeue, LaneKinds
    <3>4. CASE DrainQuit \/ RenderError
      BY <3>4 DEF DrainQuit, RenderError, ApplyQuit, LaneKinds
    <3>5. CASE \/ \E t \in Token : ReflectExit(t)
               \/ EndExits \/ EndControl \/ EndBatch \/ Render \/ FrameReconcile \/ EndPass
      BY <3>5 DEF ReflectExit, EndExits, EndControl, EndBatch, Render, FrameReconcile, EndPass,
                  ingressVars, LaneKinds
    <3> QED  BY <2>4, <3>2, <3>3, <3>4, <3>5 DEF PassNext
  <2> QED  BY <1>1, <2>1, <2>2, <2>3, <2>4 DEF KernelNext
<1>2. CASE DropKernel
  BY <1>2 DEF DropKernel, LaneKinds
<1>3. CASE ProducerNext
  BY <1>3 DEF ProducerNext, SendStep, BeginSend, BlockSend, FailSend, Finish, Cancel, LaneKinds
<1>4. CASE UNCHANGED vars
  BY <1>4 DEF vars, ingressVars, LaneKinds
<1> QED  BY <1>1, <1>2, <1>3, <1>4 DEF Next, Idle

(* An envelope in a lane was there, or its run was sending.                *)
LEMMA Envelopes ==
  ASSUME Inv, Inv', [Next]_vars, NEW l \in Lane, NEW i \in DOMAIN queue'[l]
  PROVE  /\ queue'[l][i].origin \in Token
         /\ \/ \E j \in DOMAIN queue[l] : queue[l][j] = queue'[l][i]
            \/ task[queue'[l][i].origin] \in Reserving
<1>1. queue'[l][i] \in Envelope
  BY DEF Inv, Shape, IngressShape
<1>2. queue'[l][i].origin \in Token
  BY <1>1 DEF Envelope
<1>3. queue[l] \in Seq(Envelope) /\ queue \in [Lane -> Seq(Envelope)]
  BY DEF Inv, Shape, IngressShape
<1>4. CASE queue' = queue
  BY <1>2, <1>4
<1>5. CASE queue' = [m \in Lane |-> <<>>]
  BY <1>5
<1>6. ASSUME NEW m \in Lane, queue[m] # <<>>, Dequeue(m)
      PROVE  \E j \in DOMAIN queue[l] : queue[l][j] = queue'[l][i]
  <2>1. queue' = [queue EXCEPT ![m] = Tail(@)]
    BY <1>6 DEF Dequeue
  <2>2. CASE l # m
    BY <1>3, <2>1, <2>2
  <2>3. CASE l = m
    <3>1. queue'[l] = Tail(queue[l]) /\ queue[l] # <<>>
      BY <1>3, <1>6, <2>1, <2>3
    <3>2. i + 1 \in DOMAIN queue[l] /\ queue[l][i + 1] = queue'[l][i]
      BY <1>3, <3>1
    <3> QED  BY <3>2
  <2> QED  BY <2>2, <2>3
<1>7. ASSUME NEW t \in Token, CompleteSend(t)
      PROVE  \/ \E j \in DOMAIN queue[l] : queue[l][j] = queue'[l][i]
             \/ task[queue'[l][i].origin] \in Reserving
  <2>1. PICK m \in Lane, n \in Nat :
          queue' = [queue EXCEPT ![m] = Append(@, [origin |-> t, n |-> n])]
    <3>1. PICK m \in Lane : m = LaneOf(t)
      BY DEF LaneOf, Lane
    <3>2. sent'[m][t] \in Nat
      BY DEF Inv, Shape, IngressShape
    <3> QED  BY <1>7, <3>1, <3>2 DEF CompleteSend
  <2>2. task[t] \in Reserving
    BY <1>7 DEF CompleteSend
  <2>3. CASE l # m
    BY <1>3, <2>1, <2>3
  <2>4. CASE l = m
    <3> DEFINE e == [origin |-> t, n |-> n]
    <3>1. queue'[l] = Append(queue[l], e)
      BY <1>3, <2>1, <2>4
    <3>2. e.origin = t
      OBVIOUS
    <3> HIDE DEF e
    <3>3. \/ i \in DOMAIN queue[l] /\ queue'[l][i] = queue[l][i]
          \/ queue'[l][i] = e
      BY <1>3, <3>1
    <3> QED  BY <2>2, <3>2, <3>3
  <2> QED  BY <2>3, <2>4
<1> QED  BY <1>2, <1>4, <1>5, <1>6, <1>7, LaneSteps DEF LaneKinds

-----------------------------------------------------------------------------
(* The parts of the invariant, one at a time.                              *)

(* Marks agree with phases and tasks (registry.rs stop_request, on_exit).  *)
LEMMA MarksStep ==
  ASSUME Inv, Inv', Marks, [Next]_vars
  PROVE  Marks'
<1> DEFINE RunMarks(t) == /\ entry[t].kind = "None" <=> task[t] = "None"
                          /\ t >= nextToken => entry[t].kind = "None"
                          /\ entry[t].revoked => entry[t].kind # "None"
                          /\ t \in aborted => entry[t].revoked
                          /\ task[t] \in Reserving => entry[t].kind # "Cleanup"
           EntryMarks(t) == /\ entry[t].kind # "None"
                            /\ entry[t].exited <=> entry[t].phase = "Draining"
                            /\ entry[t].phase = "Running" => ~entry[t].revoked
                            /\ entry[t].phase = "Stopping" => entry[t].revoked
<1>0. \A t \in Token : entry[t] \in Entry
  BY DEF Inv, Shape, RegistryShape
<1>1. \A t \in Token : RunMarks(t)
  BY DEF Marks
<1>2. \A t \in registry : t \in Token /\ EntryMarks(t)
  BY DEF Marks, Inv, Shape, RegistryShape
<1>3. ASSUME Launching, NEW t \in Token
      PROVE  RunMarks(t)' /\ (t \in registry' => EntryMarks(t)')
  <2>1. PICK S, kind, id, scope : Launch(S, kind, id, scope)
    BY <1>3 DEF Launching
  <2>2. kind \in {"Keyed", "Anon", "Sub", "Cleanup"}
    BY <2>1 DEF Launch
  <2>3. CASE t = nextToken
    <3>1. entry'[t] = Fresh(kind, id, scope) /\ task'[t] = "Live" /\ t \notin aborted'
      BY <1>1, <2>1, <2>3, LaunchFacts
    <3>2. nextToken' = nextToken + 1 /\ ~(t >= nextToken')
      BY <2>1, <2>3, LaunchFacts DEF Token
    <3> QED  BY <2>2, <3>1, <3>2 DEF Fresh, Reserving
  <2>4. CASE t # nextToken
    <3>1. /\ entry'[t] = IF t \in S THEN Stopped(entry[t]) ELSE entry[t]
          /\ t \in aborted' => t \in aborted \/ t \in S
          /\ t \in S => t \in registry
          /\ task'[t] = task[t]
          /\ nextToken' = nextToken + 1
          /\ t \in registry' => t \in registry
      BY <2>1, <2>4, LaunchFacts
    <3>2. t >= nextToken' => t >= nextToken
      BY <2>1, <3>1, LaunchFacts DEF Token
    <3> QED  BY <1>0, <1>1, <1>2, <3>1, <3>2, StoppedKeeps, StoppedPhase DEF Entry
  <2> QED  BY <2>3, <2>4
<1>4. ASSUME Stopping, NEW t \in Token
      PROVE  RunMarks(t)' /\ (t \in registry' => EntryMarks(t)')
  <2>1. PICK S : Stop(S)
    BY <1>4 DEF Stopping
  <2>2. /\ entry'[t] = IF t \in S \cap registry THEN Stopped(entry[t]) ELSE entry[t]
        /\ t \in aborted' => t \in aborted \/ t \in S \cap registry
    BY <2>1, StopFacts
  <2>3. UNCHANGED <<task, nextToken>> /\ registry' \subseteq registry
    BY <2>1 DEF Stop
  <2> QED  BY <1>0, <1>1, <1>2, <2>2, <2>3, StoppedKeeps, StoppedPhase DEF Entry
<1>5. ASSUME Exiting, NEW t \in Token
      PROVE  RunMarks(t)' /\ (t \in registry' => EntryMarks(t)')
  <2>1. PICK u \in Token : ReflectExit(u)
    BY <1>5 DEF Exiting
  <2>2. CASE t = u
    BY <1>1, <1>2, <2>1, <2>2, ExitFacts DEF Reserving
  <2>3. CASE t # u
    BY <1>1, <1>2, <2>1, <2>3, ExitFacts
  <2> QED  BY <2>2, <2>3
<1>6. ASSUME NoMark, NEW t \in Token
      PROVE  RunMarks(t)' /\ (t \in registry' => EntryMarks(t)')
  BY <1>1, <1>2, <1>6 DEF NoMark, TasksMove
<1>7. \A t \in Token : RunMarks(t)' /\ (t \in registry' => EntryMarks(t)')
  BY <1>3, <1>4, <1>5, <1>6, StepKinds
<1>8. \A l \in Lane : \A i \in DOMAIN queue'[l] : entry'[queue'[l][i].origin].kind # "Cleanup"
  <2> SUFFICES ASSUME NEW l \in Lane, NEW i \in DOMAIN queue'[l]
               PROVE  entry'[queue'[l][i].origin].kind # "Cleanup"
    OBVIOUS
  <2>1. PICK t \in Token : t = queue'[l][i].origin
    BY Envelopes
  <2>2. \/ \E j \in DOMAIN queue[l] : queue[l][j].origin = t
        \/ task[t] \in Reserving
    BY <2>1, Envelopes
  <2>3. entry[t].kind \notin {"None", "Cleanup"}
    <3>1. CASE task[t] \in Reserving
      BY <1>1, <3>1 DEF Reserving
    <3>2. CASE \E j \in DOMAIN queue[l] : queue[l][j].origin = t
      BY <3>2 DEF Marks, Inv, Tombstone
    <3> QED  BY <2>2, <3>1, <3>2
  <2> QED  BY <2>1, <2>3, Evolution
<1>9. \A t \in registry' : t \in Token
  BY DEF Inv, Shape, RegistryShape
<1> QED  BY <1>7, <1>8, <1>9 DEF Marks

(* No two runs of a command id are deliverable at once: the debug_assert   *)
(* of keyed_occupant.                                                      *)
LEMMA SlotsStep ==
  ASSUME Inv, Marks, KeyedSlotUnique, [Next]_vars
  PROVE  KeyedSlotUnique'
<1> SUFFICES ASSUME NEW cmdId \in CommandIds,
                    NEW t \in KeyedOccupants(cmdId)', NEW u \in KeyedOccupants(cmdId)'
             PROVE  t = u
  BY DEF KeyedSlotUnique
<1> DEFINE Before(r) == r \in KeyedOccupants(cmdId)
           After(r) == r \in KeyedOccupants(cmdId)'
<1>1. Before(t) /\ Before(u) => t = u
  BY DEF KeyedSlotUnique
<1>2. CASE Launching
  <2>1. PICK S, kind, id, scope : Launch(S, kind, id, scope)
    BY <1>2 DEF Launching
  <2>2. ASSUME NEW r \in {t, u}, r # nextToken PROVE Before(r) /\ r \notin S
    <3>1. r \in registry /\ r \in Token
      BY <2>1, <2>2, LaunchFacts DEF KeyedOccupants, Inv, Shape, RegistryShape
    <3>2. entry'[r] = IF r \in S THEN Stopped(entry[r]) ELSE entry[r]
      BY <2>1, <2>2, <3>1, LaunchFacts
    <3>3. entry[r] \in Entry
      BY <3>1 DEF Inv, Shape, RegistryShape
    <3>4. r \notin S
      BY <3>2, <3>3, StoppedKeeps DEF KeyedOccupants, OccupiesKeyedSlot, HoldsKeyedSlot
    <3> QED  BY <3>1, <3>2, <3>4 DEF KeyedOccupants
  <2>3. ASSUME NEW r \in {t, u}, r = nextToken PROVE S = KeyedOccupants(cmdId)
    <3>1. entry'[r] = Fresh(kind, id, scope)
      BY <2>1, <2>3, LaunchFacts
    <3>2. kind = "Keyed" /\ id = cmdId
      BY <3>1 DEF KeyedOccupants, OccupiesKeyedSlot, Fresh
    <3> QED  BY <2>1, <3>2 DEF Launch
  <2> QED  BY <1>1, <2>2, <2>3
<1>3. CASE Stopping
  <2>1. PICK S : Stop(S)
    BY <1>3 DEF Stopping
  <2>2. ASSUME NEW r \in {t, u} PROVE Before(r)
    <3>1. r \in registry /\ r \in Token
      BY <2>1 DEF Stop, KeyedOccupants, Inv, Shape, RegistryShape
    <3>2. entry'[r] = IF r \in S \cap registry THEN Stopped(entry[r]) ELSE entry[r]
      BY <2>1, <3>1, StopFacts
    <3>3. entry[r] \in Entry
      BY <3>1 DEF Inv, Shape, RegistryShape
    <3> QED  BY <3>1, <3>2, <3>3, StoppedKeeps DEF KeyedOccupants, OccupiesKeyedSlot, HoldsKeyedSlot
  <2> QED  BY <1>1, <2>2
<1>4. CASE Exiting
  <2>1. PICK r \in Token : ReflectExit(r)
    BY <1>4 DEF Exiting
  <2>2. ASSUME NEW v \in {t, u} PROVE Before(v)
    <3>1. v \in registry /\ v \in Token
      BY <2>1, ExitFacts DEF KeyedOccupants, Inv, Shape, RegistryShape
    <3>2. CASE v # r
      BY <2>1, <3>1, <3>2, ExitFacts DEF KeyedOccupants
    <3>3. CASE v = r
      BY <2>1, <3>1, <3>3, ExitFacts DEF KeyedOccupants, OccupiesKeyedSlot, HoldsKeyedSlot, Marks
    <3> QED  BY <3>2, <3>3
  <2> QED  BY <1>1, <2>2
<1>5. CASE NoMark
  BY <1>1, <1>5 DEF NoMark, KeyedOccupants
<1> QED  BY <1>2, <1>3, <1>4, <1>5, StepKinds

(* A subscription run is launched only once the exit of every earlier run  *)
(* of its id was reflected: the admission loop's two checks together.      *)
LEMMA SuccessorWaits ==
  ASSUME Inv, Marks, Admitting, NEW S, NEW id, NEW scope, Launch(S, "Sub", id, scope),
         NEW t \in Token, entry[t].kind = "Sub"
  PROVE  /\ entry[t].id = id => task[t] = "Joined"
         /\ entry[t].revoked => task[t] = "Joined"
<1>1. ~AnyStoppingSub /\ ~SubRunning(id)
  BY DEF Launch, Admitting
<1>2. task[t] # "None"
  BY DEF Marks
<1>3. CASE t \notin registry
  BY <1>2, <1>3 DEF Inv, Lifetimes
<1>4. CASE t \in registry
  <2>1. entry[t].phase \in {"Running", "Stopping", "Draining"}
    BY DEF Inv, Shape, RegistryShape, Entry
  <2>2. entry[t].phase # "Stopping"
    BY <1>1, <1>4 DEF AnyStoppingSub, IsStoppingSub
  <2>3. entry[t].phase = "Running" => entry[t].id # id /\ ~entry[t].revoked
    BY <1>1, <1>4 DEF SubRunning, IsRunningSub, Marks
  <2>4. entry[t].phase = "Draining" => task[t] = "Joined"
    BY <1>4 DEF Marks, Inv, Lifetimes
  <2> QED  BY <2>1, <2>2, <2>3, <2>4
<1> QED  BY <1>3, <1>4

(* So two runs of one id never overlap.                                    *)
LEMMA OneEachStep ==
  ASSUME Inv, Inv', Marks, Marks', Admitting, OneEach, [Next]_vars
  PROVE  OneEach'
<1> SUFFICES ASSUME NEW t \in Token, NEW u \in Token, t < u,
                    entry'[t].kind = "Sub", entry'[u].kind = "Sub", entry'[t].id = entry'[u].id
             PROVE  task'[t] = "Joined"
  BY DEF OneEach
<1>1. CASE entry[t].kind # "None" /\ entry[u].kind # "None"
  BY <1>1, Evolution DEF OneEach
<1>2. CASE Launching /\ (entry[t].kind = "None" \/ entry[u].kind = "None")
  <2>1. PICK S, kind, id, scope : Launch(S, kind, id, scope)
    BY <1>2 DEF Launching
  <2>2. ASSUME NEW r \in Token, r # nextToken PROVE entry'[r].kind = entry[r].kind
    BY <2>1, <2>2, LaunchFacts, StoppedKeeps DEF Inv, Shape, RegistryShape
  <2>3. CASE u = nextToken
    <3>1. kind = "Sub" /\ id = entry'[u].id
      <4>1. entry'[u] = Fresh(kind, id, scope)
        BY <2>1, <2>3, LaunchFacts
      <4> QED  BY <4>1 DEF Fresh
    <3>2. t # nextToken
      BY <2>3 DEF Token
    <3>3. entry[t].kind = "Sub" /\ entry[t].id = id
      BY <2>1, <2>2, <3>1, <3>2, Evolution
    <3>4. task[t] = "Joined"
      BY <2>1, <3>1, <3>3, SuccessorWaits
    <3> QED  BY <3>4, Evolution
  <2>4. CASE t = nextToken
    <3>1. u >= nextToken' /\ nextToken' = nextToken + 1
      BY <2>1, <2>4, LaunchFacts DEF Token
    <3> QED  BY <3>1 DEF Marks
  <2> QED  BY <1>2, <2>2, <2>3, <2>4
<1>3. CASE ~Launching /\ (entry[t].kind = "None" \/ entry[u].kind = "None")
  <2>1. ASSUME NEW r \in Token PROVE entry'[r].kind = entry[r].kind
    <3>1. entry[r] \in Entry
      BY DEF Inv, Shape, RegistryShape
    <3>2. CASE Stopping
      BY <3>1, <3>2, StopFacts, StoppedKeeps DEF Stopping
    <3>3. CASE Exiting
      BY <3>3, ExitFacts DEF Exiting
    <3> QED  BY <1>3, <3>2, <3>3, StepKinds DEF NoMark
  <2> QED  BY <1>3, <2>1
<1> QED  BY <1>1, <1>2, <1>3

-----------------------------------------------------------------------------
(* Plans.                                                                  *)

(* The rest of a plan is a plan; nothing follows a quit.                   *)
LEMMA RestPlanned ==
  ASSUME NEW steps \in Seq(Step), steps # <<>>, WellPlanned(steps)
  PROVE  /\ WellPlanned(Tail(steps))
         /\ \A i \in DOMAIN Tail(steps) : /\ Tail(steps)[i].op # "Finalize"
                                          /\ \E j \in DOMAIN steps : Tail(steps)[i] = steps[j]
         /\ Head(steps).op = "Quit" => Tail(steps) = <<>>
<1>1. /\ Len(Tail(steps)) = Len(steps) - 1
      /\ \A i \in DOMAIN Tail(steps) : /\ i \in Nat \ {0}
                                       /\ i + 1 \in DOMAIN steps
                                       /\ Tail(steps)[i] = steps[i + 1]
      /\ Len(steps) \in Nat
  OBVIOUS
<1>2. 1 \in DOMAIN steps /\ Head(steps) = steps[1]
  OBVIOUS
<1>3. Head(steps).op = "Quit" => Len(steps) = 1
  BY <1>2 DEF WellPlanned
<1>4. Len(steps) = 1 => Tail(steps) = <<>>
  BY <1>1, EmptySeq
<1> QED  BY <1>1, <1>3, <1>4 DEF WellPlanned

(* apply_teardown's second loop stands where its first loop stood.         *)
LEMMA FinalizePlanned ==
  ASSUME NEW steps \in Seq(Step), steps # <<>>, WellPlanned(steps), Head(steps).op = "Teardown"
  PROVE  WellPlanned(<<[Head(steps) EXCEPT !.op = "Finalize"]>> \o Tail(steps))
<1> DEFINE f == [Head(steps) EXCEPT !.op = "Finalize"]
           p == <<f>> \o Tail(steps)
<1>1. Head(steps) \in Step /\ Tail(steps) \in Seq(Step)
  OBVIOUS
<1>2. f \in Step /\ f.op = "Finalize"
  BY <1>1 DEF Step
<1> HIDE DEF f
<1>3. /\ Len(p) = Len(steps) /\ p[1] = f /\ DOMAIN p = DOMAIN steps
      /\ \A i \in DOMAIN p : i # 1 => p[i] = steps[i]
  BY <1>1, <1>2
<1> HIDE DEF p
<1>4. WellPlanned(p)
  BY <1>2, <1>3 DEF WellPlanned
<1> QED  BY <1>4 DEF p, f

(* dispatch_plan: the quit is the last step of its command.                *)
LEMMA CommandPlanned ==
  ASSUME program \in Programs, NEW cmd \in program.commands
  PROVE  /\ WellPlanned(DispatchPlan(cmd))
         /\ \A i \in DOMAIN DispatchPlan(cmd) : DispatchPlan(cmd)[i].op # "Finalize"
<1> DEFINE Plain == {s \in Step : s.op \notin {"Quit", "Finalize"}}
           before == cmd.cancels \o cmd.teardowns \o cmd.spawns \o cmd.cleanups
           p == before \o QuitNow(cmd)
<1>1. cmd \in Command
  BY KernelAssumption
<1>2. /\ cmd.cancels \in Seq(Plain)
      /\ cmd.teardowns \in Seq(Plain)
      /\ cmd.spawns \in Seq(Plain)
      /\ cmd.cleanups \in Seq(Plain)
  <2>1. \A op \in {"Cancel", "Teardown", "Spawn", "Register"} : Steps(op) \subseteq Seq(Plain)
    <3> SUFFICES ASSUME NEW op \in {"Cancel", "Teardown", "Spawn", "Register"}
                 PROVE  Steps(op) \subseteq Seq(Plain)
      OBVIOUS
    <3>1. {s \in Step : s.op = op} \subseteq Plain
      OBVIOUS
    <3> QED  BY <3>1, SeqMonotonic DEF Steps
  <2> QED  BY <1>1, <2>1 DEF Command
<1> HIDE DEF Plain
<1>3. before \in Seq(Plain)
  BY <1>2, ConcatProperties
<1> HIDE DEF before
<1>4. \A i \in DOMAIN before : before[i].op \notin {"Quit", "Finalize"}
  BY <1>3 DEF Plain
<1>5. CASE ~cmd.quit
  <2>1. p = before
    BY <1>3, <1>5, ConcatEmptySeq DEF QuitNow
  <2> QED  BY <1>4, <2>1 DEF DispatchPlan, before, WellPlanned
<1>6. CASE cmd.quit
  <2> DEFINE q == [op |-> "Quit", id |-> NoId, scope |-> <<>>, policy |-> "None"]
  <2>1. p = Append(before, q)
    BY <1>3, <1>6 DEF QuitNow
  <2>2. q.op = "Quit"
    OBVIOUS
  <2> HIDE DEF q
  <2>3. /\ Len(p) = Len(before) + 1
        /\ \A i \in DOMAIN p : IF i = Len(p) THEN p[i] = q
                                             ELSE i \in DOMAIN before /\ p[i] = before[i]
    BY <1>3, <2>1
  <2> HIDE DEF p
  <2>4. WellPlanned(p) /\ \A i \in DOMAIN p : p[i].op # "Finalize"
    BY <1>4, <2>2, <2>3 DEF WellPlanned
  <2> QED  BY <2>4 DEF DispatchPlan, before, p
<1> QED  BY <1>5, <1>6

-----------------------------------------------------------------------------
(* The kernel's own course.                                                *)

(* The producers touch nothing of the kernel's.                            *)
LEMMA TasksApart ==
  ASSUME ProducerNext \/ UNCHANGED vars
  PROVE  UNCHANGED <<kernelVars, registry, entry, keyed, aborted>>
BY DEF ProducerNext, SendStep, BeginSend, CompleteSend, BlockSend, FailSend, Finish, Cancel,
       vars, registryVars

(* Every step goes where the code goes.                                    *)
LEMMA CourseStep ==
  ASSUME Inv, Course, [Next]_vars
  PROVE  Course'
<1> USE DEF Course
<1>0. /\ program \in Programs /\ todo \in Seq(Step)
      /\ todo # <<>> => /\ WellPlanned(Tail(todo))
                        /\ Head(todo).op = "Quit" => Tail(todo) = <<>>
  BY RestPlanned DEF Inv, Shape, KernelShape
<1>1. ASSUME NEW cmd \in program.commands, NEW decl \in program.declarations,
             Boot(cmd, decl) \/ InputReduce(cmd, decl)
      PROVE  Course'
  <2>1. WellPlanned(todo')
    BY <1>0, <1>1, CommandPlanned DEF Boot, InputReduce
  <2> QED  BY <1>1, <2>1 DEF Boot, InputReduce, BatchDequeue, Terminating
<1>2. CASE BootReconcile \/ FrameReconcile
  <2>1. WellPlanned(todo')
    BY <1>2 DEF BootReconcile, FrameReconcile, Reconcile, WellPlanned
  <2> QED  BY <1>2, <2>1 DEF BootReconcile, FrameReconcile, Terminating
<1>3. CASE BootEnd
  BY <1>3 DEF BootEnd, Terminating
<1>4. CASE AdmitStep \/ CancelStep \/ FinalizeStep \/ SpawnStep \/ RegisterStep
  <2>1. WellPlanned(todo')
    BY <1>0, <1>4 DEF AdmitStep, CancelStep, FinalizeStep, SpawnStep, RegisterStep, NextStep,
                      Dispatching
  <2>2. UNCHANGED <<phase, stage, updated, dirty>> /\ todo # <<>> /\ stage # "boot"
    BY <1>4 DEF AdmitStep, CancelStep, FinalizeStep, SpawnStep, RegisterStep, NextStep,
                Dispatching
  <2> QED  BY <2>1, <2>2 DEF Terminating
<1>5. CASE TeardownStep
  <2>1. WellPlanned(todo')
    BY <1>0, <1>5, FinalizePlanned DEF TeardownStep, NextStep, Dispatching
  <2> QED  BY <1>5, <2>1 DEF TeardownStep, NextStep, Dispatching, Terminating
<1>6. CASE QuitStep
  <2>1. todo' = <<>>
    BY <1>0, <1>6 DEF QuitStep, NextStep, Dispatching
  <2>2. WellPlanned(todo')
    BY <2>1 DEF WellPlanned
  <2> QED  BY <1>6, <2>1, <2>2 DEF QuitStep, NextStep, Dispatching, Terminating
<1>7. CASE EndDispatch \/ EndDispatchQuit
  BY <1>7 DEF EndDispatch, EndDispatchQuit, Terminating
<1>8. CASE LoopNext
  BY <1>8 DEF LoopNext, BeginPass, Park, BeginPassOnExit, WakeOnExit, WakeOnLane, WorkBuffered,
              Terminating
<1>9. CASE \/ \E t \in Token : ReflectExit(t)
           \/ EndExits \/ DrainRevokedQuit \/ DrainQuit \/ EndControl \/ InputDiscard
  BY <1>9 DEF ReflectExit, EndExits, DrainRevokedQuit, DrainQuit, EndControl, InputDiscard,
              BatchDequeue, kernelVars, Terminating
<1>10. CASE EndBatch \/ Render \/ RenderError \/ EndPass
  BY <1>10 DEF EndBatch, Render, RenderError, EndPass, Terminating
<1>11. CASE Settle \/ DropKernel \/ \E t \in Token : JoinExit(t)
  BY <1>11 DEF Settle, DropKernel, JoinExit, Terminating
<1>12. CASE ProducerNext \/ UNCHANGED vars
  BY <1>12, TasksApart DEF kernelVars, Terminating
<1> QED  BY <1>1, <1>2, <1>3, <1>4, <1>5, <1>6, <1>7, <1>8, <1>9, <1>10, <1>11, <1>12
         DEF Next, KernelNext, DispatchNext, PassNext, Idle

(* The admission loop is entered by a re-evaluation, and then only admits. *)
LEMMA AdmissionCourse ==
  ASSUME [Next]_vars, stage' \in {"bootAdmit", "admit"}
  PROVE  \/ BootReconcile \/ FrameReconcile
         \/ AdmitStep
         \/ UNCHANGED <<kernelVars, registry, entry>>
<1>1. CASE KernelNext
  BY <1>1 DEF KernelNext, Boot, BootEnd, DispatchNext, NextStep, Dispatching, CancelStep,
     TeardownStep, FinalizeStep, SpawnStep, RegisterStep, QuitStep, EndDispatch,
     EndDispatchQuit, LoopNext, BeginPass, Park, BeginPassOnExit, WakeOnExit, WakeOnLane,
     PassNext, ReflectExit, EndExits, DrainRevokedQuit, DrainQuit, EndControl, InputDiscard,
     InputReduce, BatchDequeue, EndBatch, Render, RenderError, EndPass, Settle, JoinExit,
     kernelVars
<1>2. CASE DropKernel
  BY <1>2 DEF DropKernel
<1>3. CASE ProducerNext \/ UNCHANGED vars
  BY <1>3, TasksApart
<1> QED  BY <1>1, <1>2, <1>3 DEF Next, Idle

(* While the admission loop runs nothing quiesces (pass.rs reconcile).     *)
LEMMA AdmittingStep ==
  ASSUME Inv, Admitting, [Next]_vars
  PROVE  Admitting'
<1> SUFFICES ASSUME stage' \in {"bootAdmit", "admit"}
             PROVE  /\ \A i \in DOMAIN todo' :
                         \E j \in DOMAIN declared' : declared'[j] = todo'[i].id
                    /\ todo' # <<>> => ~AnyStoppingSub'
  BY DEF Admitting, IsDeclared
<1>1. CASE BootReconcile \/ FrameReconcile
  <2>1. Reconcile /\ UNCHANGED <<declared, registry>>
    BY <1>1 DEF BootReconcile, FrameReconcile
  <2>2. CASE DeferAdmission
    BY <2>1, <2>2 DEF Reconcile
  <2>3. CASE ~DeferAdmission
    <3>1. todo' = [i \in DOMAIN declared |->
                     [op |-> "Admit", id |-> declared[i], scope |-> SubScope[declared[i]],
                      policy |-> "None"]]
      BY <2>1, <2>3 DEF Reconcile
    <3>2. ~AnyStoppingSub /\ Undeclared = {}
      BY <2>3 DEF DeferAdmission
    <3>3. entry' = entry
      BY <2>1, <3>2 DEF Reconcile, StopRequest, Inv, Shape, RegistryShape
    <3> QED  BY <2>1, <3>1, <3>2, <3>3 DEF AnyStoppingSub
  <2> QED  BY <2>2, <2>3
<1>2. CASE AdmitStep
  <2>1. todo \in Seq(Step) /\ todo # <<>> /\ todo' = Tail(todo) /\ UNCHANGED <<stage, declared>>
    BY <1>2 DEF AdmitStep, Inv, Shape, KernelShape
  <2>2. \A i \in DOMAIN todo' : i + 1 \in DOMAIN todo /\ todo'[i] = todo[i + 1]
    BY <2>1
  <2>3. \A i \in DOMAIN todo : IsDeclared(todo[i].id)
    BY <2>1 DEF Admitting
  <2>4. ~AnyStoppingSub
    BY <2>1 DEF Admitting
  <2>5. CASE NoStart
    BY <2>1, <2>2, <2>3, <2>4, <2>5 DEF IsDeclared, AnyStoppingSub, NoStart, registryVars
  <2>6. CASE ~NoStart
    <3>1. Launching
      BY <1>2, <2>6, LaunchKinds
    <3>2. PICK S, kind, id, scope : Launch(S, kind, id, scope)
      BY <3>1 DEF Launching
    <3>3. kind = "Sub" /\ S = {}
      BY <1>2, <3>2 DEF Launch, AdmitStep
    <3>4. entry'[nextToken] = Fresh(kind, id, scope) /\ entry'[nextToken].phase = "Running"
      BY <3>2, LaunchFacts DEF Fresh
    <3>5. \A t \in registry : t # nextToken => entry'[t] = entry[t]
      BY <3>2, <3>3, LaunchFacts DEF Inv, Shape, RegistryShape
    <3>6. registry' = registry \cup {nextToken}
      BY <3>2, LaunchFacts
    <3>7. ~AnyStoppingSub'
      BY <2>4, <3>4, <3>5, <3>6 DEF AnyStoppingSub, IsStoppingSub
    <3> QED  BY <2>1, <2>2, <2>3, <3>7 DEF IsDeclared
  <2> QED  BY <2>5, <2>6
<1>3. CASE UNCHANGED <<kernelVars, registry, entry>>
  BY <1>3 DEF Admitting, kernelVars, IsDeclared, AnyStoppingSub
<1> QED  BY <1>1, <1>2, <1>3, AdmissionCourse

(* Termination is not undone.                                              *)
LEMMA TerminatingStays ==
  ASSUME Inv, [Next]_vars, Terminating
  PROVE  Terminating'
<1>1. ProducerNext \/ UNCHANGED vars => phase' = phase
  BY TasksApart DEF kernelVars
<1> QED  BY <1>1 DEF Next, KernelNext, Boot, BootReconcile, BootEnd, AdmitStep, DispatchNext,
     CancelStep, TeardownStep, FinalizeStep, SpawnStep, RegisterStep, QuitStep, ApplyQuit,
     EndDispatch, EndDispatchQuit, LoopNext, BeginPass, Park, BeginPassOnExit, WakeOnExit,
     WakeOnLane, PassNext, ReflectExit, EndExits, DrainRevokedQuit, DrainQuit, EndControl,
     InputDiscard, InputReduce, EndBatch, Render, RenderError, FrameReconcile, EndPass, Settle,
     JoinExit, DropKernel, Idle, Terminating, kernelVars

(* What makes a declaration stale, and what re-evaluates it.               *)
LEMMA StalenessCourse ==
  ASSUME Inv, Course, [Next]_vars
  PROVE  /\ declared' = declared \/ updated' \/ (stage = "boot" /\ registry' = registry)
         /\ updated => updated' \/ (dirty' /\ stage' = "frame") \/ Terminating'
         /\ dirty /\ stage = "frame" =>
              (dirty' /\ stage' = "frame") \/ Terminating' \/ FrameReconcile
<1> USE DEF Course, Terminating
<1>1. CASE KernelNext
  <2>1. CASE \/ \E cmd \in program.commands, decl \in program.declarations : Boot(cmd, decl)
             \/ BootReconcile \/ BootEnd \/ AdmitStep \/ Settle
             \/ \E t \in Token : JoinExit(t)
    BY <2>1 DEF Boot, BootReconcile, BootEnd, AdmitStep, Settle, JoinExit, registryVars
  <2>2. CASE DispatchNext
    BY <2>2 DEF DispatchNext, NextStep, Dispatching, CancelStep, TeardownStep, FinalizeStep,
                SpawnStep, RegisterStep, QuitStep, EndDispatch, EndDispatchQuit
  <2>3. CASE LoopNext
    BY <2>3 DEF LoopNext, BeginPass, Park, BeginPassOnExit, WakeOnExit, WakeOnLane
  <2>4. CASE PassNext
    <3>1. CASE \/ \E t \in Token : ReflectExit(t)
               \/ EndExits \/ DrainRevokedQuit \/ DrainQuit \/ EndControl
      BY <3>1 DEF ReflectExit, EndExits, DrainRevokedQuit, DrainQuit, EndControl, kernelVars
    <3>2. CASE \/ \E cmd \in program.commands, decl \in program.declarations :
                    InputReduce(cmd, decl)
               \/ InputDiscard
      BY <3>2 DEF InputReduce, InputDiscard, BatchDequeue
    <3>3. CASE EndBatch
      BY <3>3 DEF EndBatch, BatchDirt
    <3>4. CASE Render \/ RenderError \/ FrameReconcile \/ EndPass
      BY <3>4 DEF Render, RenderError, ApplyQuit, FrameReconcile, EndPass
    <3> QED  BY <2>4, <3>1, <3>2, <3>3, <3>4 DEF PassNext
  <2> QED  BY <1>1, <2>1, <2>2, <2>3, <2>4 DEF KernelNext
<1>2. CASE DropKernel
  BY <1>2 DEF DropKernel
<1>3. CASE ProducerNext \/ UNCHANGED vars
  BY <1>3, TasksApart DEF kernelVars
<1> QED  BY <1>1, <1>2, <1>3 DEF Next, Idle

(* A declared run stays declared while the declarations do.                *)
LEMMA DeclaredKept ==
  ASSUME Inv, Admitting, [Next]_vars, declared' = declared,
         \A t \in registry :
           entry[t].kind = "Sub" /\ entry[t].phase = "Running" => IsDeclared(entry[t].id)
  PROVE  \A t \in registry' :
           entry'[t].kind = "Sub" /\ entry'[t].phase = "Running" => IsDeclared(entry'[t].id)
<1> SUFFICES ASSUME NEW t \in registry', entry'[t].kind = "Sub", entry'[t].phase = "Running"
             PROVE  IsDeclared(entry'[t].id)
  OBVIOUS
<1>0. \A r \in registry : r \in Token /\ entry[r] \in Entry
  BY DEF Inv, Shape, RegistryShape
<1>1. CASE Launching
  <2>1. PICK S, kind, id, scope : Launch(S, kind, id, scope)
    BY <1>1 DEF Launching
  <2>2. CASE t = nextToken
    <3>1. entry'[t] = Fresh(kind, id, scope)
      BY <2>1, <2>2, LaunchFacts
    <3>2. kind = "Sub" /\ entry'[t].id = id
      BY <3>1 DEF Fresh
    <3>3. /\ id = Head(todo).id /\ stage \in {"bootAdmit", "admit"} /\ todo # <<>>
          /\ todo \in Seq(Step)
      BY <2>1, <3>2 DEF Launch, Inv, Shape, KernelShape
    <3>4. 1 \in DOMAIN todo /\ Head(todo) = todo[1]
      BY <3>3
    <3> QED  BY <3>2, <3>3, <3>4 DEF Admitting
  <2>3. CASE t # nextToken
    <3>1. t \in registry /\ entry'[t] = IF t \in S THEN Stopped(entry[t]) ELSE entry[t]
      BY <1>0, <2>1, <2>3, LaunchFacts
    <3> QED  BY <1>0, <3>1, StoppedKeeps, StoppedPhase
  <2> QED  BY <2>2, <2>3
<1>2. CASE Stopping
  <2>1. PICK S : Stop(S)
    BY <1>2 DEF Stopping
  <2>2. t \in registry
    BY <2>1 DEF Stop
  <2>3. entry'[t] = IF t \in S \cap registry THEN Stopped(entry[t]) ELSE entry[t]
    BY <1>0, <2>1, <2>2, StopFacts
  <2> QED  BY <1>0, <2>2, <2>3, StoppedKeeps, StoppedPhase
<1>3. CASE Exiting
  <2>1. PICK u \in Token : ReflectExit(u)
    BY <1>3 DEF Exiting
  <2>2. t \in registry /\ t # u
    BY <2>1, ExitFacts
  <2> QED  BY <1>0, <2>1, <2>2, ExitFacts
<1>4. CASE NoMark
  BY <1>4 DEF NoMark
<1> QED  BY <1>1, <1>2, <1>3, <1>4, StepKinds

(* pass.rs reconcile: a batch's changes are re-evaluated within the pass.  *)
LEMMA ReevaluatedStep ==
  ASSUME Inv, Marks, Course, Admitting, Reevaluated, [Next]_vars
  PROVE  Reevaluated'
<1> DEFINE Declared == \A t \in registry :
                         entry[t].kind = "Sub" /\ entry[t].phase = "Running"
                           => IsDeclared(entry[t].id)
<1>1. ASSUME declared' = declared, Declared PROVE Declared'
  BY <1>1, DeclaredKept DEF IsDeclared
<1>2. ASSUME stage = "boot", registry' = registry PROVE Declared'
  <2>1. \A t \in Token : t >= nextToken
    BY <1>2 DEF Course, Token
  <2>2. registry = {}
    BY <2>1 DEF Inv, Unminted, Shape, RegistryShape
  <2> QED  BY <1>2, <2>2
<1>3. ASSUME FrameReconcile PROVE Declared'
  <2>1. StopRequest(Undeclared) /\ UNCHANGED <<registry, declared>>
    BY <1>3 DEF FrameReconcile, Reconcile
  <2> SUFFICES ASSUME NEW t \in registry, entry'[t].kind = "Sub", entry'[t].phase = "Running"
               PROVE  IsDeclared(entry'[t].id)
    BY <2>1 DEF IsDeclared
  <2>2. t \in Token /\ entry[t] \in Entry
    BY DEF Inv, Shape, RegistryShape
  <2>3. entry'[t] = IF t \in Undeclared THEN Stopped(entry[t]) ELSE entry[t]
    BY <2>1, <2>2 DEF StopRequest
  <2>4. t \notin Undeclared
    BY <2>2, <2>3, StoppedPhase DEF Undeclared, Marks
  <2> QED  BY <2>3, <2>4 DEF Undeclared
<1>4. /\ declared' = declared \/ updated' \/ (stage = "boot" /\ registry' = registry)
      /\ updated => updated' \/ (dirty' /\ stage' = "frame") \/ Terminating'
      /\ dirty /\ stage = "frame" =>
           (dirty' /\ stage' = "frame") \/ Terminating' \/ FrameReconcile
      /\ Terminating => Terminating'
  BY StalenessCourse, TerminatingStays
<1>5. updated \/ (dirty /\ stage = "frame") \/ Terminating \/ Declared
  BY DEF Reevaluated
<1>6. updated' \/ (dirty' /\ stage' = "frame") \/ Terminating' \/ Declared'
  <2> HIDE DEF Declared
  <2> QED  BY <1>1, <1>2, <1>3, <1>4, <1>5
<1> QED  BY <1>6 DEF Reevaluated

(* A Finalize step is pending only right after its Teardown, or while its  *)
(* hooks are started.                                                      *)
LEMMA FinalizeCourse ==
  ASSUME Inv, Course, [Next]_vars, NextStep("Finalize")'
  PROVE  \/ TeardownStep
         \/ FinalizeStep /\ todo' = todo
         \/ UNCHANGED <<kernelVars, registry, entry>>
<1>0. /\ stage' \in {"bootDispatch", "dispatch"} /\ todo' # <<>> /\ Head(todo').op = "Finalize"
      /\ program \in Programs /\ todo \in Seq(Step)
  BY DEF NextStep, Dispatching, Inv, Shape, KernelShape
<1>1. ASSUME todo # <<>>, todo' = Tail(todo) PROVE FALSE
  <2>1. \A i \in DOMAIN Tail(todo) : Tail(todo)[i].op # "Finalize"
    BY <1>0, <1>1, RestPlanned DEF Course
  <2>2. 1 \in DOMAIN Tail(todo) /\ Head(Tail(todo)) = Tail(todo)[1]
    BY <1>0, <1>1
  <2> QED  BY <1>0, <1>1, <2>1, <2>2
<1>2. ASSUME NEW cmd \in program.commands, todo' = DispatchPlan(cmd) PROVE FALSE
  <2>1. \A i \in DOMAIN DispatchPlan(cmd) : DispatchPlan(cmd)[i].op # "Finalize"
    BY <1>0, CommandPlanned
  <2>2. DispatchPlan(cmd) \in Seq(Step)
    BY <1>0, PlanShape
  <2>3. 1 \in DOMAIN DispatchPlan(cmd) /\ Head(DispatchPlan(cmd)) = DispatchPlan(cmd)[1]
    BY <1>0, <1>2, <2>2
  <2> QED  BY <1>0, <1>2, <2>1, <2>3
<1>3. CASE KernelNext
  <2>1. CASE \/ \E cmd \in program.commands, decl \in program.declarations : Boot(cmd, decl)
             \/ BootReconcile \/ BootEnd \/ AdmitStep \/ Settle
             \/ \E t \in Token : JoinExit(t)
    BY <1>0, <1>2, <2>1 DEF Boot, BootReconcile, BootEnd, AdmitStep, Settle, JoinExit
  <2>2. CASE DispatchNext
    BY <1>0, <1>1, <2>2 DEF DispatchNext, NextStep, Dispatching, CancelStep, FinalizeStep,
                            SpawnStep, RegisterStep, QuitStep, EndDispatch, EndDispatchQuit
  <2>3. CASE LoopNext
    BY <1>0, <2>3 DEF LoopNext, BeginPass, Park, BeginPassOnExit, WakeOnExit, WakeOnLane
  <2>4. CASE PassNext
    BY <1>0, <1>2, <2>4 DEF PassNext, ReflectExit, EndExits, DrainRevokedQuit, DrainQuit,
       EndControl, InputDiscard, InputReduce, BatchDequeue, EndBatch, Render, RenderError,
       FrameReconcile, EndPass, kernelVars
  <2> QED  BY <1>3, <2>1, <2>2, <2>3, <2>4 DEF KernelNext
<1>4. CASE DropKernel
  BY <1>0, <1>4 DEF DropKernel
<1>5. CASE ProducerNext \/ UNCHANGED vars
  BY <1>5, TasksApart
<1> QED  BY <1>3, <1>4, <1>5 DEF Next, Idle

(* apply_teardown: nothing under the prefix is spared by its first loop,   *)
(* and its second loop starts nothing but cleanup runs.                    *)
LEMMA RetractingStep ==
  ASSUME Inv, Course, Retracting, [Next]_vars
  PROVE  Retracting'
<1> SUFFICES ASSUME NextStep("Finalize")', NEW t \in registry', entry'[t].kind # "Cleanup",
                    IsPrefix(Head(todo').scope, entry'[t].scope)
             PROVE  entry'[t].revoked
  BY DEF Retracting
<1>0. \A r \in registry : r \in Token /\ entry[r] \in Entry
  BY DEF Inv, Shape, RegistryShape
<1>1. CASE TeardownStep
  <2>1. /\ StopRequest(SelectPrefix(Head(todo).scope)) /\ registry' = registry
        /\ todo' = <<[Head(todo) EXCEPT !.op = "Finalize"]>> \o Tail(todo)
        /\ todo \in Seq(Step) /\ todo # <<>>
    BY <1>1 DEF TeardownStep, NextStep, Dispatching, Inv, Shape, KernelShape
  <2>2. Head(todo) \in Step /\ Tail(todo) \in Seq(Step)
    BY <2>1
  <2>3. [Head(todo) EXCEPT !.op = "Finalize"].scope = Head(todo).scope
    BY <2>2 DEF Step
  <2>4. Head(todo') = [Head(todo) EXCEPT !.op = "Finalize"]
    <3> DEFINE f == [Head(todo) EXCEPT !.op = "Finalize"]
    <3>1. f \in Step
      BY <2>2 DEF Step
    <3> HIDE DEF f
    <3>2. Head(<<f>> \o Tail(todo)) = f
      BY <2>2, <3>1
    <3> QED  BY <2>1, <3>2 DEF f
  <2>5. IsPrefix(Head(todo).scope, entry'[t].scope)
    BY <2>3, <2>4
  <2>6. entry'[t] = IF t \in SelectPrefix(Head(todo).scope) THEN Stopped(entry[t]) ELSE entry[t]
    BY <1>0, <2>1 DEF StopRequest, SelectPrefix
  <2>7. /\ Stopped(entry[t]).revoked /\ Stopped(entry[t]).scope = entry[t].scope
        /\ Stopped(entry[t]).kind = entry[t].kind
    BY <1>0, <2>1, StoppedKeeps
  <2>8. t \in SelectPrefix(Head(todo).scope)
    BY <2>1, <2>5, <2>6, <2>7 DEF SelectPrefix, SelectableByTeardown, SelectedBy
  <2> QED  BY <2>6, <2>7, <2>8
<1>2. CASE FinalizeStep /\ todo' = todo
  <2>1. NextStep("Finalize")
    BY <1>2 DEF FinalizeStep
  <2>2. CASE NoStart
    BY <1>2, <2>1, <2>2 DEF NoStart, registryVars, Retracting
  <2>3. CASE ~NoStart
    <3>1. PICK S, kind, id, scope : Launch(S, kind, id, scope)
      BY <1>2, <2>3, LaunchKinds DEF Launching
    <3>2. todo \in Seq(Step) /\ todo # <<>>
      BY <3>1 DEF Launch, Inv, Shape, KernelShape
    <3>3. todo # Tail(todo)
      <4>1. Len(Tail(todo)) = Len(todo) - 1 /\ Len(todo) \in Nat
        BY <3>2
      <4> QED  BY <4>1
    <3>4. kind = "Cleanup" /\ S = {}
      BY <1>2, <3>1, <3>3 DEF Launch
    <3>5. entry'[nextToken].kind = "Cleanup"
      <4>1. entry'[nextToken] = Fresh(kind, id, scope)
        BY <3>1, LaunchFacts
      <4> QED  BY <3>4, <4>1 DEF Fresh
    <3>6. t \in registry /\ entry'[t] = entry[t]
      BY <1>0, <3>1, <3>4, <3>5, LaunchFacts
    <3> QED  BY <1>2, <2>1, <3>6 DEF Retracting
  <2> QED  BY <2>2, <2>3
<1>3. CASE UNCHANGED <<kernelVars, registry, entry>>
  BY <1>3 DEF kernelVars, NextStep, Dispatching, Retracting
<1> QED  BY <1>1, <1>2, <1>3, FinalizeCourse

(* Only the input batch takes from the data lane.                          *)
LEMMA BatchCourse ==
  ASSUME Inv, [Next]_vars
  PROVE  \/ InputDiscard
         \/ \E cmd \in program.commands, decl \in program.declarations : InputReduce(cmd, decl)
         \/ reduced' = reduced /\ taken'["data"] = taken["data"]
<1>1. ASSUME Take("control") PROVE taken'["data"] = taken["data"]
  BY <1>1 DEF Take, Inv, Shape, IngressShape, Lane
<1>2. CASE KernelNext
  <2>1. CASE \/ \E cmd \in program.commands, decl \in program.declarations : Boot(cmd, decl)
             \/ BootReconcile \/ BootEnd \/ AdmitStep \/ Settle
             \/ \E t \in Token : JoinExit(t)
    BY <2>1 DEF Boot, BootReconcile, BootEnd, AdmitStep, NoStart, StartRun, Settle, JoinExit,
                ingressVars
  <2>2. CASE DispatchNext
    BY <2>2 DEF DispatchNext, CancelStep, TeardownStep, FinalizeStep, SpawnStep, RegisterStep,
                QuitStep, EndDispatch, EndDispatchQuit, NoStart, StartRun, ingressVars
  <2>3. CASE LoopNext
    BY <2>3 DEF LoopNext, BeginPass, Park, BeginPassOnExit, WakeOnExit, WakeOnLane, BufferExit,
                ingressVars
  <2>4. CASE PassNext
    BY <1>1, <2>4 DEF PassNext, ReflectExit, EndExits, DrainRevokedQuit, DrainQuit, Dequeue,
       EndControl, EndBatch, Render, RenderError, FrameReconcile, EndPass, kernelVars, ingressVars
  <2> QED  BY <1>2, <2>1, <2>2, <2>3, <2>4 DEF KernelNext
<1>3. CASE DropKernel
  BY <1>3 DEF DropKernel
<1>4. CASE ProducerNext \/ UNCHANGED vars
  BY <1>4 DEF ProducerNext, SendStep, BeginSend, CompleteSend, BlockSend, FailSend, Finish,
              Cancel, vars, ingressVars, kernelVars
<1> QED  BY <1>2, <1>3, <1>4 DEF Next, Idle

(* input_batch: what leaves the lane for a live run is reduced.            *)
LEMMA DeliveredStep ==
  ASSUME Inv, Marks, Delivered, [Next]_vars
  PROVE  Delivered'
<1> SUFFICES ASSUME NEW t \in Token, ~entry'[t].revoked
             PROVE  reduced'[t] = taken'["data"][t]
  BY DEF Delivered
<1>1. ~entry[t].revoked /\ reduced[t] = taken["data"][t]
  BY Evolution DEF Delivered
<1>2. "data" \in Lane
  BY DEF Lane
<1>3. CASE InputDiscard
  <2>1. queue["data"] # <<>> /\ Take("data") /\ reduced' = reduced
    BY <1>3 DEF InputDiscard, BatchDequeue, Dequeue
  <2>2. t # NextEnvelope("data").origin
    BY <1>1, <1>3 DEF InputDiscard, Revoked
  <2> QED  BY <1>1, <1>2, <2>1, <2>2, TakeFacts
<1>4. ASSUME NEW cmd \in program.commands, NEW decl \in program.declarations,
             InputReduce(cmd, decl)
      PROVE  reduced'[t] = taken'["data"][t]
  <2> DEFINE e == NextEnvelope("data")
  <2>1. /\ queue["data"] # <<>> /\ Take("data")
        /\ reduced' = [reduced EXCEPT ![e.origin] = e.n]
        /\ reduced \in [Token -> Nat]
    BY <1>4 DEF InputReduce, BatchDequeue, Dequeue, Inv, Shape, KernelShape
  <2>2. e.n = taken["data"][e.origin] + 1
    BY <1>2, <2>1, HeadFacts
  <2>3. taken'["data"][t] = IF t = e.origin THEN taken["data"][t] + 1 ELSE taken["data"][t]
    BY <1>2, <2>1, TakeFacts
  <2> QED  BY <1>1, <2>1, <2>2, <2>3
<1> QED  BY <1>1, <1>3, <1>4, BatchCourse

-----------------------------------------------------------------------------
(* Hooks, cleanup runs, termination.                                       *)

(* The registry of hooks changes by a registration, a start, a termination. *)
LEMMA LedgerCourse ==
  ASSUME Inv, [Next]_vars
  PROVE  Launching \/ RegisterStep \/ (Terminating' /\ ledger' = <<>>)
                   \/ UNCHANGED <<ledger, hooks>>
<1>1. CASE KernelNext
  <2>1. CASE \/ \E cmd \in program.commands, decl \in program.declarations : Boot(cmd, decl)
             \/ BootReconcile \/ BootEnd \/ AdmitStep \/ Settle
             \/ \E t \in Token : JoinExit(t)
    BY <2>1 DEF Boot, BootReconcile, BootEnd, AdmitStep, Settle, JoinExit
  <2>2. CASE FinalizeStep
    <3>1. CASE NoStart
      <4>1. nextToken \in Int /\ nextToken' = nextToken
        BY <3>1 DEF NoStart, Inv, Shape, KernelShape
      <4> QED  BY <2>2, <4>1 DEF FinalizeStep, StartRun
    <3> QED  BY <2>2, <3>1, LaunchKinds
  <2>3. CASE \/ CancelStep \/ TeardownStep \/ SpawnStep \/ QuitStep \/ EndDispatch
             \/ EndDispatchQuit
    BY <2>3 DEF CancelStep, TeardownStep, SpawnStep, QuitStep, ApplyQuit, EndDispatch,
                EndDispatchQuit, Terminating
  <2>4. CASE LoopNext
    BY <2>4 DEF LoopNext, BeginPass, Park, BeginPassOnExit, WakeOnExit, WakeOnLane
  <2>5. CASE PassNext
    BY <2>5 DEF PassNext, ReflectExit, EndExits, DrainRevokedQuit, DrainQuit, ApplyQuit,
       EndControl, InputDiscard, InputReduce, EndBatch, Render, RenderError, FrameReconcile,
       EndPass, kernelVars, Terminating
  <2> QED  BY <1>1, <2>1, <2>2, <2>3, <2>4, <2>5 DEF KernelNext, DispatchNext
<1>2. CASE DropKernel
  BY <1>2 DEF DropKernel, Terminating
<1>3. CASE ProducerNext \/ UNCHANGED vars
  BY <1>3, TasksApart DEF kernelVars
<1> QED  BY <1>1, <1>2, <1>3 DEF Next, Idle

(* After a termination nothing is left to dispatch.                        *)
LEMMA NothingDispatched ==
  ASSUME Course, Terminating
  PROVE  ~Launching /\ ~RegisterStep
BY DEF Course, Launching, Launch, RegisterStep, NextStep, Dispatching

(* A termination starts with a quit, a render error or a dropped kernel.   *)
LEMMA TerminationCourse ==
  ASSUME Inv, [Next]_vars, ~Terminating, Terminating'
  PROVE  QuitStep \/ DrainQuit \/ RenderError \/ DropKernel
<1>1. ProducerNext \/ UNCHANGED vars => phase' = phase
  BY TasksApart DEF kernelVars
<1> QED  BY <1>1 DEF Next, KernelNext, Boot, BootReconcile, BootEnd, AdmitStep, DispatchNext,
     CancelStep, TeardownStep, FinalizeStep, SpawnStep, RegisterStep,
     EndDispatch, EndDispatchQuit, LoopNext, BeginPass, Park, BeginPassOnExit, WakeOnExit,
     WakeOnLane, PassNext, ReflectExit, EndExits, DrainRevokedQuit, EndControl,
     InputDiscard, InputReduce, EndBatch, Render, FrameReconcile, EndPass, Settle,
     JoinExit, Idle, Terminating, kernelVars, Inv, Closed

(* The termination postcondition, and that nothing escapes it later.       *)
LEMMA TerminalStep ==
  ASSUME Inv, Inv', Course, TerminalPostcondition, [Next]_vars
  PROVE  TerminalPostcondition'
<1> SUFFICES ASSUME Terminating'
             PROVE  /\ \A l \in Lane : queue'[l] = <<>>
                    /\ ledger' = <<>>
                    /\ \A t \in Token : task'[t] \in {"None", "Done", "Joined"} \/ t \in aborted'
  <2>1. task' \in [Token -> TaskState]
    BY DEF Inv, Shape, IngressShape
  <2> QED  BY <2>1 DEF TerminalPostcondition
<1>1. \A l \in Lane : queue'[l] = <<>>
  BY DEF Inv, Closed
<1>2. CASE Terminating
  <2>1. ~Launching /\ ~RegisterStep
    BY <1>2, NothingDispatched
  <2>2. ledger' = <<>>
    BY <1>2, <2>1, LedgerCourse DEF TerminalPostcondition
  <2>3. \A t \in Token : task[t] \in {"None", "Done", "Joined"} \/ t \in aborted
    BY <1>2 DEF TerminalPostcondition
  <2>4. ASSUME NEW t \in Token
        PROVE  task'[t] \in {"None", "Done", "Joined"} \/ t \in aborted'
    <3>1. CASE Stopping
      <4>1. PICK S : Stop(S)
        BY <3>1 DEF Stopping
      <4> QED  BY <2>3, <4>1, StopFacts DEF Stop
    <3>2. CASE Exiting
      <4>1. PICK u \in Token : ReflectExit(u)
        BY <3>2 DEF Exiting
      <4> QED  BY <2>3, <4>1, ExitFacts
    <3>3. CASE NoMark
      BY <2>3, <3>3 DEF NoMark, TasksMove
    <3> QED  BY <2>1, <3>1, <3>2, <3>3, StepKinds
  <2> QED  BY <1>1, <2>2, <2>4
<1>3. CASE ~Terminating
  <2>1. QuitStep \/ DrainQuit \/ RenderError \/ DropKernel
    BY <1>3, TerminationCourse
  <2>2. /\ ledger' = <<>> /\ task' = task
        /\ StopRequest(registry') \/ StopRequest(registry)
        /\ registry' \subseteq registry
    BY <2>1 DEF QuitStep, DrainQuit, RenderError, DropKernel, ApplyQuit, AbortAll, OnDequeue,
                Retire
  <2>3. ASSUME NEW t \in Token, task'[t] \notin {"None", "Done", "Joined"}
        PROVE  t \in aborted'
    <3>1. t \in registry /\ t \in registry' /\ ~entry[t].exited
      BY <2>2, <2>3 DEF Inv, Lifetimes
    <3> QED  BY <2>2, <3>1 DEF StopRequest
  <2> QED  BY <1>1, <2>2, <2>3
<1> QED  BY <1>2, <1>3

(* The positions of a value in a sequence, after an append and a removal.  *)
Places(s, q) == {i \in DOMAIN q : q[i] = s}

LEMMA PlacesFinite ==
  ASSUME NEW S, NEW q \in Seq(S), NEW s
  PROVE  IsFiniteSet(Places(s, q))
<1>1. IsFiniteSet(1..Len(q))
  BY FS_Interval
<1> QED  BY <1>1, FS_Subset DEF Places

LEMMA PlacesAppended ==
  ASSUME NEW S, NEW q \in Seq(S), NEW x \in S, NEW s
  PROVE  Cardinality(Places(s, Append(q, x)))
           = Cardinality(Places(s, q)) + (IF x = s THEN 1 ELSE 0)
<1>1. Len(q) + 1 \notin Places(s, q)
  BY DEF Places
<1>2. Places(s, Append(q, x)) = IF x = s THEN Places(s, q) \cup {Len(q) + 1} ELSE Places(s, q)
  BY DEF Places
<1>3. IsFiniteSet(Places(s, q)) /\ Cardinality(Places(s, q)) \in Nat
  BY PlacesFinite, FS_CardinalityType
<1>4. Cardinality(Places(s, q) \cup {Len(q) + 1}) = Cardinality(Places(s, q)) + 1
  BY <1>1, <1>3, FS_AddElement
<1> QED  BY <1>2, <1>3, <1>4

LEMMA PlacesRemoved ==
  ASSUME NEW S, NEW q \in Seq(S), NEW k \in DOMAIN q, NEW s
  PROVE  Cardinality(Places(s, q))
           = Cardinality(Places(s, RemoveAt(q, k))) + (IF q[k] = s THEN 1 ELSE 0)
<1> DEFINE r == RemoveAt(q, k)
           P == Places(s, q)
           R == Places(s, r)
           f == [i \in R |-> IF i < k THEN i ELSE i + 1]
<1>1. /\ Len(r) = Len(q) - 1 /\ Len(q) \in Nat /\ k \in 1..Len(q)
      /\ DOMAIN r = 1..Len(r) /\ DOMAIN q = 1..Len(q)
      /\ \A i \in DOMAIN r : r[i] = IF i < k THEN q[i] ELSE q[i + 1]
  <2> DEFINE a == SubSeq(q, 1, k - 1)
             b == SubSeq(q, k + 1, Len(q))
  <2>1. k \in 1..Len(q) /\ Len(q) \in Nat
    OBVIOUS
  <2>2. a \in Seq(S) /\ b \in Seq(S) /\ Len(a) = k - 1 /\ Len(b) = Len(q) - k
    BY <2>1
  <2>3. \A i \in 1..(k - 1) : a[i] = q[i]
    BY <2>1
  <2>4. \A i \in 1..(Len(q) - k) : b[i] = q[i + k]
    BY <2>1
  <2> HIDE DEF a, b
  <2>5. r = a \o b
    BY DEF RemoveAt, a, b
  <2>6. /\ Len(a \o b) = Len(a) + Len(b)
        /\ \A i \in 1..(Len(a) + Len(b)) :
             (a \o b)[i] = IF i <= Len(a) THEN a[i] ELSE b[i - Len(a)]
        /\ DOMAIN (a \o b) = 1..(Len(a) + Len(b))
    BY <2>2
  <2> HIDE DEF r
  <2>7. Len(r) = Len(q) - 1 /\ DOMAIN r = 1..Len(r)
    BY <2>1, <2>2, <2>5, <2>6
  <2>8. ASSUME NEW i \in DOMAIN r PROVE r[i] = IF i < k THEN q[i] ELSE q[i + 1]
    <3>1. i \in 1..(Len(q) - 1)
      BY <2>7
    <3>2. CASE i < k
      BY <2>1, <2>2, <2>3, <2>5, <2>6, <3>1, <3>2
    <3>3. CASE ~(i < k)
      <4>0. i \in 1..(Len(a) + Len(b)) /\ ~(i <= Len(a)) /\ i - (k - 1) \in 1..(Len(q) - k)
        BY <2>1, <2>2, <3>1, <3>3
      <4>1. r[i] = b[i - (k - 1)] /\ i - (k - 1) \in 1..(Len(q) - k)
        BY <2>2, <2>5, <2>6, <4>0
      <4>2. b[i - (k - 1)] = q[i - (k - 1) + k]
        BY <2>4, <4>1
      <4>3. i - (k - 1) + k = i + 1
        BY <2>1, <3>1
      <4> QED  BY <3>3, <4>1, <4>2, <4>3
    <3> QED  BY <3>2, <3>3
  <2> QED  BY <2>1, <2>7, <2>8
<1> HIDE DEF r
<1>2. f \in Bijection(R, P \ {k})
  <2>1. \A i \in R : f[i] \in P \ {k}
    BY <1>1 DEF Places
  <2>2. \A i, j \in R : f[i] = f[j] => i = j
    BY <1>1 DEF Places
  <2>3. \A j \in P \ {k} : \E i \in R : f[i] = j
    <3> SUFFICES ASSUME NEW j \in P \ {k} PROVE \E i \in R : f[i] = j
      OBVIOUS
    <3>1. CASE j < k
      <4>1. j \in R
        BY <1>1, <3>1 DEF Places
      <4> QED  BY <3>1, <4>1
    <3>2. CASE ~(j < k)
      <4>1. j - 1 \in R /\ ~(j - 1 < k)
        BY <1>1, <3>2 DEF Places
      <4>2. f[j - 1] = j - 1 + 1 /\ j \in Nat
        BY <1>1, <4>1 DEF Places
      <4> QED  BY <4>1, <4>2
    <3> QED  BY <3>1, <3>2
  <2> QED  BY <2>1, <2>2, <2>3, Fun_IsBij
<1>3. ExistsBijection(R, P \ {k})
  BY <1>2 DEF ExistsBijection
<1>4. IsFiniteSet(P) /\ Cardinality(P) \in Nat
  BY PlacesFinite, FS_CardinalityType
<1>5. IsFiniteSet(P \ {k}) /\ Cardinality(P \ {k}) = IF k \in P THEN Cardinality(P) - 1 ELSE Cardinality(P)
  BY <1>4, FS_RemoveElement
<1>6. ExistsBijection(P \ {k}, R)
  BY <1>3, Fun_ExistsBijSymmetric
<1>7. Cardinality(R) = Cardinality(P \ {k})
  BY <1>5, <1>6, FS_Bijection
<1>8. k \in P <=> q[k] = s
  BY DEF Places
<1> HIDE DEF P, R
<1>9. Cardinality(P) = Cardinality(R) + (IF q[k] = s THEN 1 ELSE 0)
  BY <1>4, <1>5, <1>7, <1>8
<1> QED  BY <1>9 DEF P, R, r

(* The cleanup runs started for the hooks of an anchor.                    *)
CleanupRuns(s) == {t \in Token : entry[t].kind = "Cleanup" /\ entry[t].scope = s}

LEMMA CleanupRunsFinite ==
  ASSUME NEW s
  PROVE  IsFiniteSet(CleanupRuns(s)) /\ Cardinality(CleanupRuns(s)) \in Nat
<1>1. IsFiniteSet(Token)
  BY RegistryAssumption, FS_Interval DEF Token
<1> QED  BY <1>1, FS_Subset, FS_CardinalityType DEF CleanupRuns

LEMMA RemovedIn ==
  ASSUME NEW S, NEW q \in Seq(S), NEW k \in DOMAIN q
  PROVE  RemoveAt(q, k) \in Seq(S)
<1>1. k \in 1..Len(q) /\ Len(q) \in Nat
  OBVIOUS
<1>2. SubSeq(q, 1, k - 1) \in Seq(S) /\ SubSeq(q, k + 1, Len(q)) \in Seq(S)
  BY <1>1
<1> QED  BY <1>2 DEF RemoveAt

(* A start consumes one hook and adds one run.                             *)
LEMMA CleanupLaunched ==
  ASSUME Inv, Marks, Launching, NEW s \in Scopes
  PROVE  /\ hooks'[s] = hooks[s]
         /\ Cardinality(Places(s, ledger')) + Cardinality(CleanupRuns(s)')
              = Cardinality(Places(s, ledger)) + Cardinality(CleanupRuns(s))
<1>1. PICK S, kind, id, scope : Launch(S, kind, id, scope)
  BY DEF Launching
<1>2. entry'[nextToken] = Fresh(kind, id, scope)
  BY <1>1, LaunchFacts
<1>3. /\ nextToken \in Token /\ entry[nextToken].kind = "None"
      /\ entry'[nextToken].kind = kind /\ entry'[nextToken].scope = scope
  BY <1>1, <1>2, LaunchFacts DEF Marks, Fresh
<1>4. ASSUME NEW u \in Token, u # nextToken
      PROVE  entry'[u].kind = entry[u].kind /\ entry'[u].scope = entry[u].scope
  <2>1. entry[u] \in Entry
    BY DEF Inv, Shape, RegistryShape
  <2> QED  BY <1>1, <1>4, <2>1, LaunchFacts, StoppedKeeps
<1>5. IsFiniteSet(CleanupRuns(s)) /\ Cardinality(CleanupRuns(s)) \in Nat
  BY CleanupRunsFinite
<1>6. hooks' = hooks
  BY <1>1 DEF Launch
<1>7. CASE kind # "Cleanup"
  <2>1. CleanupRuns(s)' = CleanupRuns(s)
    BY <1>3, <1>4, <1>7 DEF CleanupRuns
  <2>2. ledger' = ledger
    BY <1>1, <1>7 DEF Launch
  <2> QED  BY <1>6, <2>1, <2>2
<1>8. CASE kind = "Cleanup"
  <2>1. PICK i \in DOMAIN ledger : scope = ledger[i] /\ ledger' = RemoveAt(ledger, i)
    BY <1>1, <1>8 DEF Launch, LedgerWithout
  <2>2. ledger \in Seq(Scopes)
    BY DEF Inv, Shape, KernelShape
  <2>3. Cardinality(Places(s, ledger))
          = Cardinality(Places(s, ledger')) + (IF scope = s THEN 1 ELSE 0)
    BY <2>1, <2>2, PlacesRemoved
  <2>4. CleanupRuns(s)' = IF scope = s THEN CleanupRuns(s) \cup {nextToken} ELSE CleanupRuns(s)
    BY <1>3, <1>4, <1>8 DEF CleanupRuns
  <2>5. nextToken \notin CleanupRuns(s)
    BY <1>3 DEF CleanupRuns
  <2>6. Cardinality(CleanupRuns(s) \cup {nextToken}) = Cardinality(CleanupRuns(s)) + 1
    BY <1>5, <2>5, FS_AddElement
  <2>7. Cardinality(CleanupRuns(s)')
          = Cardinality(CleanupRuns(s)) + (IF scope = s THEN 1 ELSE 0)
    BY <1>5, <2>4, <2>6
  <2>8. Cardinality(Places(s, ledger')) \in Nat
    <3>1. ledger' \in Seq(Scopes)
      BY <2>1, <2>2, RemovedIn
    <3>2. IsFiniteSet(Places(s, ledger'))
      BY <3>1, PlacesFinite
    <3> QED  BY <3>2, FS_CardinalityType
  <2> QED  BY <1>5, <1>6, <2>3, <2>7, <2>8
<1> QED  BY <1>7, <1>8

(* Every registration is armed or started, once (cleanup.rs take_under).   *)
LEMMA CleanupStep ==
  ASSUME Inv, Inv', Marks, Course, CleanupOnce, [Next]_vars
  PROVE  CleanupOnce'
<1> SUFFICES ASSUME ~Terminating'
             PROVE  /\ \A s \in Scopes :
                         hooks'[s] = Cardinality(Places(s, ledger'))
                                       + Cardinality(CleanupRuns(s)')
                    /\ \A t \in Token : entry'[t].kind = "Cleanup" => ~entry'[t].revoked
  BY DEF CleanupOnce, Places, CleanupRuns
<1>1. ~Terminating
  BY TerminatingStays
<1>2. /\ \A s \in Scopes :
           hooks[s] = Cardinality(Places(s, ledger)) + Cardinality(CleanupRuns(s))
      /\ \A t \in Token : entry[t].kind = "Cleanup" => ~entry[t].revoked
  BY <1>1 DEF CleanupOnce, Places, CleanupRuns
<1>3. entry \in [Token -> Entry]
  BY DEF Inv, Shape, RegistryShape
<1>4. CASE Launching
  <2>1. PICK S, kind, id, scope : Launch(S, kind, id, scope)
    BY <1>4 DEF Launching
  <2>2. ASSUME NEW t \in Token, entry'[t].kind = "Cleanup"
        PROVE  ~entry'[t].revoked
    <3>1. CASE t = nextToken
      <4>1. entry'[t] = Fresh(kind, id, scope)
        BY <2>1, <3>1, LaunchFacts
      <4> QED  BY <4>1 DEF Fresh
    <3>2. CASE t # nextToken
      BY <1>2, <1>3, <2>1, <2>2, <3>2, LaunchFacts, StoppedKeeps
    <3> QED  BY <3>1, <3>2
  <2> QED  BY <1>2, <1>4, <2>2, CleanupLaunched
<1>5. CASE ~Launching
  <2>1. ASSUME NEW t \in Token
        PROVE  /\ entry'[t].kind = entry[t].kind /\ entry'[t].scope = entry[t].scope
               /\ entry[t].kind = "Cleanup" => entry'[t].revoked = entry[t].revoked
    <3>1. CASE Stopping
      <4>1. PICK S : Stop(S)
        BY <3>1 DEF Stopping
      <4>2. \A u \in S \cap registry : entry[u].kind # "Cleanup"
        BY <4>1 DEF Stop
      <4> QED  BY <1>3, <4>1, <4>2, StopFacts, StoppedKeeps
    <3>2. CASE Exiting
      <4>1. PICK u \in Token : ReflectExit(u)
        BY <3>2 DEF Exiting
      <4> QED  BY <4>1, ExitFacts
    <3>3. CASE NoMark
      BY <3>3 DEF NoMark
    <3> QED  BY <1>5, <3>1, <3>2, <3>3, StepKinds
  <2>2. \A t \in Token : entry'[t].kind = "Cleanup" => ~entry'[t].revoked
    BY <1>2, <2>1
  <2>3. \A s : CleanupRuns(s)' = CleanupRuns(s)
    BY <2>1 DEF CleanupRuns
  <2>4. CASE RegisterStep
    <3> DEFINE h == Head(todo).scope
    <3>1. /\ ledger' = Append(ledger, h) /\ hooks' = [hooks EXCEPT ![h] = @ + 1]
          /\ Head(todo) \in Step
      BY <2>4 DEF RegisterStep, NextStep, Dispatching, Inv, Shape, KernelShape
    <3>2. h \in Scopes
      BY <3>1 DEF Step
    <3>3. ledger \in Seq(Scopes) /\ hooks \in [Scopes -> Nat]
      BY DEF Inv, Shape, KernelShape
    <3> HIDE DEF h
    <3>4. ASSUME NEW s \in Scopes
          PROVE  hooks'[s] = Cardinality(Places(s, ledger')) + Cardinality(CleanupRuns(s)')
      <4>1. Cardinality(Places(s, ledger'))
              = Cardinality(Places(s, ledger)) + (IF h = s THEN 1 ELSE 0)
        BY <3>1, <3>2, <3>3, PlacesAppended
      <4>2. hooks'[s] = hooks[s] + (IF h = s THEN 1 ELSE 0)
        BY <3>1, <3>3
      <4>3. Cardinality(Places(s, ledger)) \in Nat /\ Cardinality(CleanupRuns(s)) \in Nat
        BY <3>3, PlacesFinite, CleanupRunsFinite, FS_CardinalityType
      <4> QED  BY <1>2, <2>3, <4>1, <4>2, <4>3
    <3> QED  BY <2>2, <3>4
  <2>5. CASE UNCHANGED <<ledger, hooks>>
    BY <1>2, <2>2, <2>3, <2>5
  <2> QED  BY <1>5, <2>4, <2>5, LedgerCourse
<1> QED  BY <1>4, <1>5

-----------------------------------------------------------------------------
(* The theorems.                                                           *)

(* Init establishes the invariant of the runs.                             *)
LEMMA InitRun == Init => RunInv
<1> SUFFICES ASSUME Init PROVE RunInv
  OBVIOUS
<1>1. Inv
  BY InitInv
<1>2. /\ \A t \in Token : entry[t] = NoEntry /\ task[t] = "None"
      /\ registry = {} /\ aborted = {} /\ todo = <<>> /\ ledger = <<>>
      /\ \A l \in Lane : queue[l] = <<>>
      /\ stage = "boot" /\ phase = "Boot" /\ nextToken = 1 /\ ~updated /\ ~dirty
      /\ \A t \in Token : reduced[t] = 0 /\ taken["data"][t] = 0
      /\ \A s \in Scopes : hooks[s] = 0
  BY DEF Init, RegistryInit, IngressInit, Lane
<1>3. NoEntry.kind = "None" /\ ~NoEntry.revoked
  BY DEF NoEntry
<1>4. Marks
  BY <1>2, <1>3 DEF Marks, Reserving
<1>5. Course /\ Admitting /\ Reevaluated /\ Retracting
  BY <1>2 DEF Course, WellPlanned, Admitting, Reevaluated, Retracting, NextStep, Dispatching,
              Terminating
<1>6. Delivered /\ OneEach /\ KeyedSlotUnique /\ TerminalPostcondition
  BY <1>2, <1>3 DEF Delivered, OneEach, KeyedSlotUnique, KeyedOccupants, TerminalPostcondition,
                    Terminating
<1>7. CleanupOnce
  <2>1. \A s \in Scopes : /\ {i \in DOMAIN ledger : ledger[i] = s} = {}
                           /\ {t \in Token : entry[t].kind = "Cleanup" /\ entry[t].scope = s} = {}
    BY <1>2, <1>3
  <2>2. Cardinality({}) = 0
    BY FS_EmptySet
  <2>3. ASSUME NEW s \in Scopes
        PROVE  hooks[s] = Cardinality({i \in DOMAIN ledger : ledger[i] = s})
                 + Cardinality({t \in Token : entry[t].kind = "Cleanup" /\ entry[t].scope = s})
    <3>1. /\ Cardinality({i \in DOMAIN ledger : ledger[i] = s}) = 0
          /\ Cardinality({t \in Token : entry[t].kind = "Cleanup" /\ entry[t].scope = s}) = 0
      BY <2>1, <2>2, Zenon
    <3>2. hooks[s] = 0
      BY <1>2
    <3> QED  BY <3>1, <3>2
  <2> QED  BY <1>2, <1>3, <2>3 DEF CleanupOnce
<1> QED  BY <1>1, <1>4, <1>5, <1>6, <1>7 DEF RunInv

(* Every step keeps it.                                                    *)
LEMMA NextRun == RunInv /\ [Next]_vars => RunInv'
<1> SUFFICES ASSUME RunInv, [Next]_vars PROVE RunInv'
  OBVIOUS
<1>1. /\ Inv /\ Marks /\ Course /\ Admitting /\ Reevaluated /\ Retracting /\ Delivered
      /\ OneEach /\ KeyedSlotUnique /\ CleanupOnce /\ TerminalPostcondition
  BY DEF RunInv
<1>2. Inv'
  BY <1>1, NextInv
<1>3. Marks'
  BY <1>1, <1>2, MarksStep
<1>4. Course' /\ Admitting' /\ Reevaluated' /\ Retracting' /\ Delivered'
  BY <1>1, CourseStep, AdmittingStep, ReevaluatedStep, RetractingStep, DeliveredStep
<1>5. OneEach' /\ KeyedSlotUnique' /\ CleanupOnce' /\ TerminalPostcondition'
  BY <1>1, <1>2, <1>3, OneEachStep, SlotsStep, CleanupStep, TerminalStep
<1> QED  BY <1>2, <1>3, <1>4, <1>5 DEF RunInv

(* The invariant of the runs holds in every reachable state, whatever the  *)
(* hosted program returns and however its tasks interleave.                *)
THEOREM RunInvariance == Spec => []RunInv
BY InitRun, NextRun, PTL DEF Spec

(* No keyed slot ever has two deliverable occupants (the debug_assert of   *)
(* registry.rs keyed_occupant).                                            *)
THEOREM SlotExclusion == Spec => []KeyedSlotUnique
<1>1. RunInv => KeyedSlotUnique
  BY DEF RunInv
<1> QED  BY <1>1, RunInvariance, PTL

(* A successor of a subscription starts once the task of every earlier run *)
(* of its id exited, and between passes no subscription keeps running that *)
(* is not declared (pass.rs reconcile).                                    *)
THEOREM SubscriptionsMatch == Spec => []DeclaredOnce
<1>1. RunInv => DeclaredOnce
  <2> SUFFICES ASSUME RunInv PROVE DeclaredOnce
    OBVIOUS
  <2>1. OneEach /\ Course /\ Reevaluated
    BY DEF RunInv
  <2>2. stage \in {"loop", "parked"} =>
          \A t \in registry :
            entry[t].kind = "Sub" /\ entry[t].phase = "Running" => IsDeclared(entry[t].id)
    BY <2>1 DEF Course, Reevaluated
  <2> QED  BY <2>1, <2>2 DEF DeclaredOnce, OneEach
<1> QED  BY <1>1, RunInvariance, PTL

(* Once a teardown is applied, no envelope queued under its prefix is      *)
(* deliverable (teardown.rs apply_teardown): every such envelope finds its *)
(* run's entry, and that entry was stopped.                                *)
THEOREM RetractionComplete == Spec => []TeardownRetracts
<1>1. RunInv => TeardownRetracts
  <2> SUFFICES ASSUME RunInv, NextStep("Finalize"),
                      NEW l \in Lane, NEW i \in DOMAIN queue[l],
                      IsPrefix(Head(todo).scope, entry[queue[l][i].origin].scope)
               PROVE  entry[queue[l][i].origin].revoked
    BY DEF TeardownRetracts
  <2>1. queue[l][i].origin \in registry /\ entry[queue[l][i].origin].kind # "Cleanup"
    BY DEF RunInv, Inv, Tombstone, Marks
  <2> QED  BY <2>1 DEF RunInv, Retracting
<1> QED  BY <1>1, RunInvariance, PTL

(* Until termination each cleanup registration is armed or was started,    *)
(* once, and no cleanup run is cancelled (cleanup.rs, teardown.rs).        *)
THEOREM HooksAccounted == Spec => []CleanupOnce
<1>1. RunInv => CleanupOnce
  BY DEF RunInv
<1> QED  BY <1>1, RunInvariance, PTL

(* Nothing survives a termination, and nothing escapes it afterwards       *)
(* (kernel.rs terminate, abort_all).                                       *)
THEOREM TerminationComplete == Spec => []TerminalPostcondition
<1>1. RunInv => TerminalPostcondition
  BY DEF RunInv
<1> QED  BY <1>1, RunInvariance, PTL

(* No subscription starts while a stop-requested one quiesces (pass.rs     *)
(* defer_admission), also of the runs stopped in that pass.                *)
THEOREM BarrierKept == Spec => AdmissionBarrier
<1>1. RunInv /\ [Next]_vars =>
        [\A t \in Token :
           entry[t].kind = "None" /\ entry'[t].kind = "Sub" =>
             \A u \in Token : entry[u].kind = "Sub" /\ entry[u].revoked =>
               task[u] = "Joined"]_vars
  <2> SUFFICES ASSUME RunInv, [Next]_vars, NEW t \in Token,
                      entry[t].kind = "None", entry'[t].kind = "Sub",
                      NEW u \in Token, entry[u].kind = "Sub", entry[u].revoked
               PROVE  task[u] = "Joined"
    OBVIOUS
  <2>1. Inv /\ Marks /\ Admitting /\ entry \in [Token -> Entry]
    BY DEF RunInv, Inv, Shape, RegistryShape
  <2>2. Launching
    <3>1. CASE Stopping
      <4>1. PICK S : Stop(S)
        BY <3>1 DEF Stopping
      <4> QED  BY <2>1, <4>1, StopFacts, StoppedKeeps
    <3>2. CASE Exiting
      <4>1. PICK w \in Token : ReflectExit(w)
        BY <3>2 DEF Exiting
      <4> QED  BY <2>1, <4>1, ExitFacts
    <3>3. CASE NoMark
      BY <3>3 DEF NoMark
    <3> QED  BY <2>1, <3>1, <3>2, <3>3, StepKinds
  <2>3. PICK S, kind, id, scope : Launch(S, kind, id, scope)
    BY <2>2 DEF Launching
  <2>4. kind = "Sub"
    <3>1. t = nextToken
      BY <2>1, <2>3, LaunchFacts, StoppedKeeps
    <3>2. entry'[t] = Fresh(kind, id, scope)
      BY <2>1, <2>3, <3>1, LaunchFacts
    <3> QED  BY <3>2 DEF Fresh
  <2> QED  BY <2>1, <2>3, <2>4, SuccessorWaits
<1> QED  BY <1>1, RunInvariance, PTL DEF Spec, AdmissionBarrier

(* From a stage before the input batch, with a quit waiting, the kernel    *)
(* drains the control lane or terminates.                                  *)
LEMMA QuitCourse ==
  ASSUME Inv, [Next]_vars, BeforeInput, queue["control"] # <<>>, ~Terminating'
  PROVE  /\ BeforeInput'
         /\ Exiting \/ NoMark
         /\ \/ queue'["control"] = queue["control"]
            \/ DrainRevokedQuit
            \/ \E t \in Token : CompleteSend(t)
<1> USE DEF BeforeInput
<1>1. CASE KernelNext
  <2>1. /\ ~(Settle \/ BootReconcile \/ BootEnd \/ AdmitStep \/ DispatchNext)
        /\ ~\E cmd \in program.commands, decl \in program.declarations :
               Boot(cmd, decl) \/ InputReduce(cmd, decl)
        /\ ~\E t \in Token : JoinExit(t)
        /\ ~(DrainQuit \/ EndControl \/ InputDiscard \/ EndBatch \/ Render \/ RenderError
               \/ FrameReconcile \/ EndPass)
    BY DEF Settle, BootReconcile, BootEnd, AdmitStep, DispatchNext, CancelStep, TeardownStep,
       FinalizeStep, SpawnStep, RegisterStep, QuitStep, NextStep, Dispatching, EndDispatch,
       EndDispatchQuit, Boot, InputReduce, BatchDequeue, JoinExit, DrainQuit, ApplyQuit,
       Terminating, EndControl, InputDiscard, EndBatch, Render, RenderError, FrameReconcile,
       EndPass
  <2>2. CASE LoopNext
    <3>1. BeforeInput' /\ queue' = queue
      BY <2>2 DEF LoopNext, BeginPass, Park, BeginPassOnExit, WakeOnExit, WakeOnLane, BufferExit,
                  ingressVars
    <3> QED  BY <2>2, <3>1, TasksNoMark, KernelNoMark DEF LoopNext
  <2>3. CASE \E t \in Token : ReflectExit(t)
    BY <2>3 DEF Exiting, ReflectExit
  <2>4. CASE EndExits \/ DrainRevokedQuit
    <3>1. NoMark
      BY <2>4, KernelNoMark
    <3> QED  BY <2>4, <3>1 DEF EndExits, DrainRevokedQuit, ingressVars, kernelVars
  <2> QED  BY <1>1, <2>1, <2>2, <2>3, <2>4 DEF KernelNext, PassNext
<1>2. CASE DropKernel
  BY <1>2 DEF DropKernel, Terminating
<1>3. CASE ProducerNext
  <2>1. NoMark /\ UNCHANGED kernelVars
    BY <1>3, TasksNoMark DEF ProducerNext
  <2>2. queue' = queue \/ \E t \in Token : CompleteSend(t)
    BY <1>3 DEF ProducerNext, SendStep, BeginSend, BlockSend, FailSend, Finish, Cancel
  <2> QED  BY <2>1, <2>2 DEF kernelVars
<1>4. CASE UNCHANGED vars
  BY <1>4, KernelNoMark DEF vars, kernelVars, ingressVars
<1> QED  BY <1>1, <1>2, <1>3, <1>4 DEF Next, Idle

(* A live quit that arrived before the input batch is applied before any   *)
(* further input, and a termination starts no run (pass.rs control_drain,  *)
(* lowering.rs dispatch_plan).                                             *)
THEOREM QuitFirst == Spec => QuitTakesEffect
<1>1. RunInv /\ [Next]_vars =>
        [/\ LiveQuit /\ BeforeInput => Terminating' \/ (LiveQuit' /\ BeforeInput')
         /\ Terminating => nextToken' = nextToken]_vars
  <2> SUFFICES ASSUME RunInv, [Next]_vars
               PROVE  /\ LiveQuit /\ BeforeInput /\ ~Terminating' => LiveQuit' /\ BeforeInput'
                      /\ Terminating => nextToken' = nextToken
    OBVIOUS
  <2>1. Inv /\ Marks /\ Course
    BY DEF RunInv
  <2>2. ASSUME Terminating PROVE nextToken' = nextToken
    <3>1. Stopping \/ Exiting \/ NoMark
      BY <2>1, <2>2, StepKinds, NothingDispatched
    <3> QED  BY <2>1, <3>1, ExitFacts DEF Stopping, Stop, Exiting, NoMark
  <2>3. ASSUME LiveQuit, BeforeInput, ~Terminating' PROVE LiveQuit' /\ BeforeInput'
    <3>1. PICK i \in DOMAIN queue["control"] : ~entry[queue["control"][i].origin].revoked
      BY <2>3 DEF LiveQuit
    <3>2. /\ queue \in [Lane -> Seq(Envelope)] /\ "control" \in Lane
          /\ queue["control"] \in Seq(Envelope) /\ queue["control"] # <<>>
      BY <2>1, <3>1 DEF Inv, Shape, IngressShape, Lane
    <3>3. queue["control"][i].origin \in Token
      <4>1. queue["control"][i] \in Envelope
        BY <3>1, <3>2
      <4> QED  BY <4>1 DEF Envelope
    <3>4. /\ BeforeInput'
          /\ Exiting \/ NoMark
          /\ \/ queue'["control"] = queue["control"]
             \/ DrainRevokedQuit
             \/ \E t \in Token : CompleteSend(t)
      BY <2>1, <2>3, <3>2, QuitCourse
    <3>5. \A t \in Token : entry'[t].revoked = entry[t].revoked
      BY <2>1, <3>4, ExitFacts DEF Exiting, NoMark
    <3>6. \E j \in DOMAIN queue'["control"] :
            queue'["control"][j].origin = queue["control"][i].origin
      <4>1. CASE queue'["control"] = queue["control"]
        BY <4>1
      <4>2. CASE DrainRevokedQuit
        <5>1. queue'["control"] = Tail(queue["control"])
          BY <3>2, <4>2 DEF DrainRevokedQuit, Dequeue
        <5>2. i # 1
          BY <3>1, <3>2, <4>2 DEF DrainRevokedQuit, Revoked, NextEnvelope
        <5>3. i - 1 \in DOMAIN queue'["control"] /\ queue'["control"][i - 1] = queue["control"][i]
          BY <3>1, <3>2, <5>1, <5>2
        <5> QED  BY <5>3
      <4>3. ASSUME NEW t \in Token, CompleteSend(t)
            PROVE  \E j \in DOMAIN queue'["control"] :
                     queue'["control"][j].origin = queue["control"][i].origin
        <5> DEFINE e == [origin |-> t, n |-> sent'[LaneOf(t)][t]]
        <5>1. queue' = [queue EXCEPT ![LaneOf(t)] = Append(@, e)]
          BY <4>3 DEF CompleteSend
        <5> HIDE DEF e
        <5>2. queue'["control"] = queue["control"] \/ queue'["control"] = Append(queue["control"], e)
          BY <3>2, <5>1
        <5>3. i \in DOMAIN queue'["control"] /\ queue'["control"][i] = queue["control"][i]
          BY <3>1, <3>2, <5>2
        <5> QED  BY <5>3
      <4> QED  BY <3>4, <4>1, <4>2, <4>3
    <3> QED  BY <3>1, <3>3, <3>4, <3>5, <3>6 DEF LiveQuit
  <2> QED  BY <2>2, <2>3
<1> QED  BY <1>1, RunInvariance, PTL DEF Spec, QuitTakesEffect

-----------------------------------------------------------------------------
(* The kernel implements Delivery.                                         *)

Started == {t \in Token : entry[t].kind # "None"}

Retracted == {t \in Token : entry[t].revoked} \cup aborted

(* What the data lane accepted changes by a completed send alone.          *)
LEMMA SendCourse ==
  ASSUME Inv, [Next]_vars
  PROVE  \/ \E t \in Token : CompleteSend(t) /\ LaneOf(t) = "data" /\ UNCHANGED kernelVars
         \/ sent'["data"] = sent["data"]
<1>1. CASE KernelNext
  <2>1. sent' = sent
    <3>1. CASE \/ \E cmd \in program.commands, decl \in program.declarations : Boot(cmd, decl)
               \/ BootReconcile \/ BootEnd \/ AdmitStep \/ Settle
               \/ \E t \in Token : JoinExit(t)
      BY <3>1 DEF Boot, BootReconcile, BootEnd, AdmitStep, NoStart, StartRun, Settle, JoinExit,
                  ingressVars
    <3>2. CASE DispatchNext
      BY <3>2 DEF DispatchNext, CancelStep, TeardownStep, FinalizeStep, SpawnStep, RegisterStep,
                  QuitStep, ApplyQuit, EndDispatch, EndDispatchQuit, NoStart, StartRun,
                  ingressVars
    <3>3. CASE LoopNext
      BY <3>3 DEF LoopNext, BeginPass, Park, BeginPassOnExit, WakeOnExit, WakeOnLane, BufferExit,
                  ingressVars
    <3>4. CASE PassNext
      BY <3>4 DEF PassNext, ReflectExit, EndExits, DrainRevokedQuit, DrainQuit, ApplyQuit,
         EndControl, InputDiscard, InputReduce, EndBatch, Render, RenderError, FrameReconcile,
         EndPass, ingressVars
    <3> QED  BY <1>1, <3>1, <3>2, <3>3, <3>4 DEF KernelNext
  <2> QED  BY <2>1
<1>2. CASE DropKernel
  BY <1>2 DEF DropKernel
<1>3. CASE ProducerNext
  <2>1. PICK t \in Token :
          /\ \/ \E l \in Lane : BeginSend(t, l)
             \/ SendStep(t) \/ Finish(t) \/ Cancel(t)
          /\ UNCHANGED kernelVars
    BY <1>3 DEF ProducerNext
  <2>2. CASE CompleteSend(t) /\ LaneOf(t) # "data"
    <3>1. sent' = [sent EXCEPT ![LaneOf(t)][t] = @ + 1]
      BY <2>2 DEF CompleteSend
    <3>2. sent \in [Lane -> [Token -> Nat]] /\ "data" \in Lane
      BY DEF Inv, Shape, IngressShape, Lane
    <3> QED  BY <2>2, <3>1, <3>2
  <2> QED  BY <2>1, <2>2 DEF SendStep, BeginSend, BlockSend, FailSend, Finish, Cancel
<1>4. CASE UNCHANGED vars
  BY <1>4 DEF vars, ingressVars
<1> QED  BY <1>1, <1>2, <1>3, <1>4 DEF Next, Idle

(* No run is reinstated and none disappears; the marks agree.              *)
LEMMA RetractedRuns ==
  ASSUME Inv, Marks
  PROVE  Retracted = {t \in Token : entry[t].revoked} /\ Retracted \subseteq Started
BY DEF Retracted, Started, Marks, Inv, Shape, RegistryShape

(* Every step is one of Delivery's, or leaves what it speaks of.           *)
LEMMA DeliveryStep ==
  ASSUME RunInv, RunInv', [Next]_vars
  PROVE  [D!Next]_(D!vars)
<1>1. Inv /\ Marks /\ Course /\ Delivered /\ Inv' /\ Marks'
  BY DEF RunInv
<1>2. /\ Retracted = {t \in Token : entry[t].revoked} /\ Retracted \subseteq Started
      /\ Retracted' = {t \in Token : entry'[t].revoked} /\ Retracted' \subseteq Started'
  <2>1. (Inv /\ Marks => Retracted = {t \in Token : entry[t].revoked}
                           /\ Retracted \subseteq Started)'
    BY RetractedRuns, PTL
  <2> QED  BY <1>1, <2>1, RetractedRuns
<1>3. Retracted \subseteq Retracted' /\ Started \subseteq Started'
  BY <1>1, <1>2, Evolution DEF Started
<1>4. (open <=> ~Terminating) /\ (open' <=> ~Terminating') /\ open \in BOOLEAN /\ open' \in BOOLEAN
  BY <1>1 DEF Inv, Closed, Shape, IngressShape
<1>5. (~open => ~open') /\ (open /\ ~open' => Stopping)
  BY <1>1, <1>4, TerminatingStays, TerminationCourse, TerminationStops
<1>6. CASE Launching
  <2>1. PICK S, kind, id, scope : Launch(S, kind, id, scope)
    BY <1>6 DEF Launching
  <2>2. open /\ UNCHANGED <<sent, reduced, open>>
    BY <1>1, <1>4, <1>6, <2>1, NothingDispatched DEF Launch, StartRun
  <2>3. PICK r \in Token : r = nextToken /\ task[r] = "None"
    BY <1>1, <2>1, LaunchFacts
  <2>4. entry'[r] = Fresh(kind, id, scope) /\ kind # "None"
    BY <1>1, <2>1, <2>3, LaunchFacts DEF Launch
  <2>5. entry[r].kind = "None" /\ entry'[r].kind # "None" /\ ~entry'[r].revoked
    BY <1>1, <2>3, <2>4 DEF Fresh, Marks
  <2>6. \A u \in Token : u # r => entry'[u].kind = entry[u].kind
    BY <1>1, <2>1, <2>3, LaunchFacts, StoppedKeeps DEF Inv, Shape, RegistryShape
  <2>7. r \notin Started /\ Started' = Started \cup {r}
    BY <2>5, <2>6 DEF Started
  <2>8. Retracted' \subseteq Started
    BY <1>2, <2>5, <2>7
  <2>9. D!Start(r)
    BY <1>3, <2>2, <2>7, <2>8 DEF D!Start, D!RevokeSome, Started, Retracted
  <2> QED  BY <2>9 DEF D!Next
<1>7. CASE Stopping
  <2>1. PICK S : Stop(S)
    BY <1>7 DEF Stopping
  <2>2. Started' = Started
    BY <1>1, <2>1, StopFacts, StoppedKeeps DEF Started, Inv, Shape, RegistryShape
  <2>3. UNCHANGED <<sent, reduced>>
    BY <2>1 DEF Stop
  <2>4. D!RevokeSome
    BY <1>2, <1>3, <2>2 DEF D!RevokeSome, Started, Retracted
  <2>5. CASE open' = open
    <3>1. D!Revoke
      BY <2>2, <2>3, <2>4, <2>5 DEF D!Revoke, Started
    <3> QED  BY <3>1 DEF D!Next
  <2>6. CASE open' # open
    <3>1. D!Close
      BY <1>4, <1>5, <2>2, <2>3, <2>4, <2>6 DEF D!Close, Started
    <3> QED  BY <3>1 DEF D!Next
  <2> QED  BY <2>5, <2>6
<1>8. CASE ~Stopping /\ (Exiting \/ NoMark)
  <2>1. Started' = Started /\ Retracted' = Retracted
    BY <1>1, <1>8, ExitFacts DEF Exiting, NoMark, Started, Retracted
  <2>2. open' = open
    BY <1>4, <1>5, <1>8
  <2>3. CASE UNCHANGED <<sent["data"], reduced>>
    BY <2>1, <2>2, <2>3 DEF D!vars, Started, Retracted
  <2>4. ASSUME NEW t \in Token, CompleteSend(t), LaneOf(t) = "data", UNCHANGED kernelVars
        PROVE  D!Next
    <3>1. sent'["data"] = [sent["data"] EXCEPT ![t] = @ + 1]
      BY <1>1, <2>4 DEF CompleteSend, Inv, Shape, IngressShape, Lane
    <3>2. t \in Started /\ open
      BY <1>1, <2>4 DEF CompleteSend, Reserving, Marks, Started
    <3>3. D!Accept(t)
      BY <2>1, <2>2, <2>4, <3>1, <3>2 DEF D!Accept, Started, Retracted, kernelVars
    <3> QED  BY <2>4, <3>3 DEF D!Next
  <2>5. ASSUME NEW cmd \in program.commands, NEW decl \in program.declarations,
               InputReduce(cmd, decl)
        PROVE  D!Next
    <3> DEFINE e == NextEnvelope("data")
               r == e.origin
    <3>1. /\ queue["data"] # <<>> /\ ~entry[r].revoked /\ sent' = sent
          /\ reduced' = [reduced EXCEPT ![r] = e.n]
      BY <2>5 DEF InputReduce, BatchDequeue, Revoked
    <3>2. /\ open /\ r \in registry /\ r \in Token /\ e.n = taken["data"][r] + 1
          /\ e.n <= sent["data"][r]
      BY <1>1, <3>1, HeadFacts DEF Lane
    <3>3. reduced[r] = taken["data"][r] /\ r \in Started /\ r \notin Retracted
      BY <1>1, <1>2, <3>1, <3>2 DEF Delivered, Marks, Started
    <3> HIDE DEF e, r
    <3>4. taken["data"][r] \in Nat /\ sent["data"][r] \in Nat
      BY <1>1, <3>2 DEF Inv, Shape, IngressShape, Lane
    <3>5. /\ reduced[r] < sent["data"][r] /\ reduced' = [reduced EXCEPT ![r] = @ + 1]
      BY <3>1, <3>2, <3>3, <3>4
    <3>6. D!Reduce(r)
      BY <2>1, <2>2, <3>1, <3>2, <3>3, <3>5 DEF D!Reduce, Started, Retracted
    <3> QED  BY <3>2, <3>6 DEF D!Next
  <2>6. CASE InputDiscard
    BY <2>3, <2>6 DEF InputDiscard
  <2>7. CASE reduced' = reduced
    BY <1>1, <2>3, <2>4, <2>7, SendCourse
  <2> QED  BY <1>1, <2>5, <2>6, <2>7, BatchCourse
<1> QED  BY <1>1, <1>6, <1>7, <1>8, StepKinds

(* The kernel implements Delivery: the messages of a live run are reduced  *)
(* each once and in order, those of a retracted run no more (lane.rs,      *)
(* pass.rs input_batch, registry.rs on_dequeue).                           *)
THEOREM KernelDelivers == Spec => DeliverySpec
<1>1. Init => D!Init
  <2> SUFFICES ASSUME Init PROVE D!Init
    OBVIOUS
  <2>1. NoEntry.kind = "None" /\ ~NoEntry.revoked
    BY DEF NoEntry
  <2>2. /\ Started = {} /\ Retracted = {}
        /\ sent["data"] = [t \in Token |-> 0] /\ reduced = [t \in Token |-> 0] /\ open = TRUE
    BY <2>1 DEF Init, RegistryInit, IngressInit, Lane, Started, Retracted
  <2> QED  BY <2>2 DEF D!Init, Started, Retracted
<1>2. RunInv /\ RunInv' /\ [Next]_vars => [D!Next]_(D!vars)
  BY DeliveryStep
<1> QED  BY <1>1, <1>2, RunInvariance, PTL DEF Spec, DeliverySpec, D!Spec
=============================================================================
