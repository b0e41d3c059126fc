---------------------------- MODULE KernelProofs ----------------------------
(***************************************************************************)
(* Delivery accounting is exact in every reachable state of every          *)
(* instance: Spec => []Inv, hence []TypeOK, []PendingExact,                *)
(* []EntriesRetained and []KeyedGauge.                                     *)
(*                                                                         *)
(* First every step keeps the shape of the state (the ranges of the two    *)
(* counters need the accounting and come last).  What is left are the      *)
(* relations, and a step disturbs them in one of six ways: not at all      *)
(* (Quiet), by starting a run, by a dequeue, by an exit, by terminating,   *)
(* or by a producer's send.                                                *)
(***************************************************************************)
EXTENDS KernelInvariant, SequenceTheorems, FiniteSetTheorems, TLAPS

-----------------------------------------------------------------------------
(* Lemmas about the operators the actions are built from.                  *)

(* A stop, of src/kernel/registry.rs stop_request, keeps an entry's type,  *)
(* its kind, its identity and whether its exit was observed.               *)
LEMMA StoppedKeeps ==
  ASSUME NEW e \in Entry
  PROVE  /\ Stopped(e) \in Entry
         /\ Stopped(e).kind = e.kind
         /\ Stopped(e).id = e.id
         /\ Stopped(e).scope = e.scope
         /\ Stopped(e).exited = e.exited
         /\ Stopped(e).revoked
BY DEF Stopped, Entry

(* stop_request keeps the registry's shape.                                *)
LEMMA StopRequestShape ==
  ASSUME NEW S, RegistryShape, StopRequest(S)
  PROVE  entry' \in [Token -> Entry] /\ aborted' \subseteq Token
BY StoppedKeeps DEF RegistryShape, StopRequest

(* Starting a run (insert, after an optional stop) keeps the shapes.       *)
LEMMA StartRunShape ==
  ASSUME NEW S, NEW kind \in {"Keyed", "Anon", "Sub", "Cleanup"}, NEW id \in Ids,
         NEW scope \in Scopes, Shape, StartRun(S, kind, id, scope)
  PROVE  /\ RegistryShape'
         /\ IngressShape'
         /\ nextToken' \in 1..(MaxRuns + 1)
<1>1. Fresh(kind, id, scope) \in Entry
  BY DEF Fresh, Entry
<1>2. entry' \in [Token -> Entry]
  BY <1>1, StoppedKeeps DEF Shape, RegistryShape, StartRun, StopAndInsert
<1>3. RegistryShape'
  BY <1>2 DEF Shape, RegistryShape, StartRun, StopAndInsert
<1>4. task' \in [Token -> TaskState]
  BY DEF Shape, IngressShape, StartRun, TaskState
<1>5. IngressShape'
  BY <1>4 DEF Shape, IngressShape, StartRun
<1>6. nextToken' \in 1..(MaxRuns + 1)
  BY RegistryAssumption DEF StartRun, Token
<1> QED  BY <1>3, <1>5, <1>6

(* The dispatch plan of a lowered command is a sequence of steps.          *)
LEMMA PlanShape ==
  ASSUME program \in Programs, NEW cmd \in program.commands
  PROVE  DispatchPlan(cmd) \in Seq(Step) /\ cmd.redraw \in BOOLEAN
<1>1. cmd \in Command
  BY KernelAssumption
<1>2. /\ cmd.cancels \in Seq(Step)
      /\ cmd.teardowns \in Seq(Step)
      /\ cmd.spawns \in Seq(Step)
      /\ cmd.cleanups \in Seq(Step)
  BY <1>1, SeqMonotonic DEF Command, Steps
<1>3. [op |-> "Quit", id |-> NoId, scope |-> <<>>, policy |-> "None"] \in Step
  BY RegistryAssumption DEF Step, Ids
<1>4. QuitNow(cmd) \in Seq(Step)
  BY <1>3 DEF QuitNow
<1> QED  BY <1>1, <1>2, <1>4, ConcatProperties DEF DispatchPlan, Command

(* Reflecting an exit and accounting for a dequeue keep the shape.         *)
LEMMA OnExitShape ==
  ASSUME NEW t \in Token, RegistryShape, OnExit(t)
  PROVE  registry' \subseteq Token /\ entry' \in [Token -> Entry] /\ keyed' \in Int
<1>1. CASE t \notin registry
  BY <1>1 DEF RegistryShape, OnExit
<1>2. CASE t \in registry
  <2> DEFINE gone == RemovalRule(TRUE, pending[t])
             then == IF gone THEN entry[t].phase ELSE "Draining"
  <2>1. entry[t] \in Entry
    BY DEF RegistryShape
  <2>2. [entry[t] EXCEPT !.exited = TRUE, !.phase = then] \in Entry
    BY <2>1 DEF Entry
  <2>3. entry' = [entry EXCEPT ![t] = [entry[t] EXCEPT !.exited = TRUE, !.phase = then]]
    BY <1>2, <2>1 DEF RegistryShape, OnExit, Entry
  <2>4. entry' \in [Token -> Entry]
    BY <2>2, <2>3 DEF RegistryShape
  <2>5. \/ Retire(t)
        \/ UNCHANGED <<registry, keyed>>
    BY <1>2 DEF OnExit
  <2>6. registry' \subseteq Token /\ keyed' \in Int
    BY <2>5 DEF RegistryShape, Retire
  <2> QED  BY <2>4, <2>6
<1> QED  BY <1>1, <1>2

(* A tombstone keeps the registry's types.                                 *)
LEMMA OnDequeueShape ==
  ASSUME NEW t \in Token, RegistryShape, OnDequeue(t)
  PROVE  registry' \subseteq Token /\ keyed' \in Int /\ pending' \in [Token -> Int]
BY RegistryAssumption DEF RegistryShape, OnDequeue, Retire, Decrement

(* The next envelope of a lane that has one.                               *)
LEMMA NextShape ==
  ASSUME NEW l \in Lane, IngressShape, queue[l] # <<>>
  PROVE  NextEnvelope(l) \in Envelope
BY DEF IngressShape, NextEnvelope

(* Taking an envelope keeps the lanes' types.                              *)
LEMMA TakeShape ==
  ASSUME NEW l \in Lane, IngressShape, queue[l] # <<>>, Take(l)
  PROVE  taken' \in [Lane -> [Token -> Nat]]
<1>1. NextEnvelope(l).origin \in Token /\ NextEnvelope(l).n \in Nat
  BY NextShape DEF Envelope
<1> QED  BY <1>1 DEF IngressShape, Take

(* A dequeue is both.                                                      *)
LEMMA DequeueShape ==
  ASSUME NEW l \in Lane, IngressShape, queue[l] # <<>>, Dequeue(l)
  PROVE  /\ taken' \in [Lane -> [Token -> Nat]]
         /\ queue' \in [Lane -> Seq(Envelope)]
         /\ held' \in [Lane -> {0, 1}]
<1>1. taken' \in [Lane -> [Token -> Nat]]
  BY TakeShape DEF Dequeue
<1>2. Tail(queue[l]) \in Seq(Envelope)
  BY DEF IngressShape
<1>3. queue' \in [Lane -> Seq(Envelope)]
  BY <1>2 DEF IngressShape, Dequeue
<1>4. held' \in [Lane -> {0, 1}]
  BY DEF IngressShape, Dequeue
<1> QED  BY <1>1, <1>3, <1>4

(* Termination keeps the shape, whatever it stops.                         *)
LEMMA ApplyQuitShape ==
  ASSUME NEW why \in {"Quit", "RenderError"}, NEW live, RegistryShape, ApplyQuit(why, live)
  PROVE  /\ entry' \in [Token -> Entry]
         /\ aborted' \subseteq Token
         /\ phase' \in Phases
         /\ reason' \in {"None", "Quit", "RenderError"}
         /\ open' \in BOOLEAN
         /\ queue' \in [Lane -> Seq(Envelope)]
         /\ held' \in [Lane -> {0, 1}]
         /\ ledger' \in Seq(Scopes)
<1>1. entry' \in [Token -> Entry] /\ aborted' \subseteq Token
  BY StopRequestShape DEF ApplyQuit
<1>2. <<>> \in Seq(Envelope) /\ <<>> \in Seq(Scopes)
  OBVIOUS
<1> QED  BY <1>1, <1>2 DEF ApplyQuit, Phases

(* Buffering an exit keeps the types.                                      *)
LEMMA BufferExitShape ==
  ASSUME NEW t \in Token, Shape, BufferExit(t)
  PROVE  RegistryShape' /\ IngressShape' /\ exitBuf' \in Seq(Token)
<1>1. task' \in [Token -> TaskState]
  BY DEF Shape, IngressShape, BufferExit, TaskState
<1> QED  BY <1>1 DEF Shape, RegistryShape, IngressShape, KernelShape, BufferExit, registryVars

-----------------------------------------------------------------------------
(* The actions, by the part of the kernel they belong to.                  *)

(* Dispatch of a returned command: cancel, teardown, spawn, register, quit. *)
LEMMA DispatchShape ==
  ASSUME Shape, DispatchNext
  PROVE  Shape'
<1> USE DEF Shape
<1>0. Dispatching => Head(todo) \in Step /\ Tail(todo) \in Seq(Step)
  BY DEF KernelShape, Dispatching
<1>1. CASE CancelStep
  <2>1. entry' \in [Token -> Entry] /\ aborted' \subseteq Token
    BY <1>1, StopRequestShape DEF CancelStep
  <2> QED  BY <1>0, <1>1, <2>1 DEF RegistryShape, IngressShape, KernelShape, CancelStep,
                                   NextStep, ingressVars
<1>2. CASE TeardownStep
  <2>1. entry' \in [Token -> Entry] /\ aborted' \subseteq Token
    BY <1>2, StopRequestShape DEF TeardownStep
  <2>2. [Head(todo) EXCEPT !.op = "Finalize"] \in Step
    BY <1>0, <1>2 DEF TeardownStep, NextStep, Step
  <2>3. todo' \in Seq(Step)
    BY <1>0, <1>2, <2>2, ConcatProperties DEF TeardownStep, NextStep
  <2> QED  BY <1>2, <2>1, <2>3 DEF RegistryShape, IngressShape, KernelShape, TeardownStep,
                                   ingressVars
<1>3. CASE FinalizeStep
  <2> USE <1>3 DEF FinalizeStep
  <2>1. CASE ArmedUnder(Head(todo).scope) = {}
    BY <1>0, <2>1 DEF RegistryShape, IngressShape, KernelShape, NextStep, NoStart,
                      registryVars, ingressVars
  <2>2. CASE ArmedUnder(Head(todo).scope) # {}
    <3>1. PICK i \in FirstArmed(Head(todo).scope) :
            /\ StartRun({}, "Cleanup", NoId, ledger[i])
            /\ ledger' = LedgerWithout(i)
      BY <2>2
    <3>2. i \in 1..Len(ledger) /\ ledger[i] \in Scopes
      BY <3>1 DEF FirstArmed, ArmedUnder, KernelShape
    <3>3. RegistryShape' /\ IngressShape' /\ nextToken' \in 1..(MaxRuns + 1)
      BY <3>1, <3>2, StartRunShape DEF Ids
    <3>4. ledger' \in Seq(Scopes)
      <4>1. ledger \in Seq(Scopes)
        BY DEF KernelShape
      <4>2. SubSeq(ledger, 1, i - 1) \in Seq(Scopes)
        BY <3>2, <4>1
      <4>3. SubSeq(ledger, i + 1, Len(ledger)) \in Seq(Scopes)
        BY <3>2, <4>1
      <4> QED  BY <3>1, <4>2, <4>3, ConcatProperties DEF LedgerWithout, RemoveAt
    <3> QED  BY <2>2, <3>3, <3>4 DEF KernelShape
  <2> QED  BY <2>1, <2>2
<1>4. CASE SpawnStep
  <2> USE <1>4 DEF SpawnStep
  <2>1. todo' \in Seq(Step)
    BY <1>0 DEF NextStep
  <2>2. CASE NoStart
    BY <2>1, <2>2 DEF RegistryShape, IngressShape, KernelShape, NoStart, registryVars,
                      ingressVars
  <2>3. CASE ~NoStart
    <3>1. Head(todo).id \in Ids /\ Head(todo).scope \in Scopes
      BY <1>0 DEF NextStep, Step
    <3> DEFINE s == Head(todo)
               S == IF SpawnDecision(s.id, s.policy) = "Replace" THEN KeyedOccupants(s.id) ELSE {}
               kind == IF s.id = NoId THEN "Anon" ELSE "Keyed"
    <3>2. StartRun(S, kind, s.id, s.scope)
      BY <2>3
    <3>3. RegistryShape' /\ IngressShape' /\ nextToken' \in 1..(MaxRuns + 1)
      BY <3>1, <3>2, StartRunShape
    <3> QED  BY <2>1, <3>3 DEF KernelShape
  <2> QED  BY <2>2, <2>3
<1>5. CASE RegisterStep
  <2>1. Head(todo).scope \in Scopes
    BY <1>0, <1>5 DEF RegisterStep, NextStep, Step
  <2>2. ledger' \in Seq(Scopes) /\ hooks' \in [Scopes -> Nat]
    BY <1>5, <2>1, AppendProperties DEF KernelShape, RegisterStep
  <2> QED  BY <1>0, <1>5, <2>2 DEF RegistryShape, IngressShape, KernelShape, RegisterStep,
                                   NextStep, registryVars, ingressVars
<1>6. CASE QuitStep
  BY <1>0, <1>6, ApplyQuitShape DEF RegistryShape, IngressShape, KernelShape, QuitStep, NextStep
<1>7. CASE EndDispatch
  BY <1>7 DEF RegistryShape, IngressShape, KernelShape, EndDispatch, Stages, registryVars,
              ingressVars
<1>8. CASE EndDispatchQuit
  <2>1. dirty' \in BOOLEAN /\ pulled' \in 0..BatchCap
    BY <1>8, KernelAssumption DEF KernelShape, EndDispatchQuit, BatchDirt
  <2> QED  BY <1>8, <2>1 DEF RegistryShape, IngressShape, KernelShape, EndDispatchQuit, Stages,
                             registryVars, ingressVars
<1> QED  BY <1>1, <1>2, <1>3, <1>4, <1>5, <1>6, <1>7, <1>8 DEF DispatchNext

(* Re-evaluation: the stops, and the declarations left to admit.           *)
LEMMA ReconcileShape ==
  ASSUME Shape, Reconcile
  PROVE  entry' \in [Token -> Entry] /\ aborted' \subseteq Token /\ todo' \in Seq(Step)
<1>1. entry' \in [Token -> Entry] /\ aborted' \subseteq Token
  BY StopRequestShape DEF Reconcile, Shape
<1>2. declared \in Seq(SubIds)
  BY DEF Shape, KernelShape
<1>3. ASSUME NEW i \in DOMAIN declared
      PROVE  [op |-> "Admit", id |-> declared[i], scope |-> SubScope[declared[i]],
              policy |-> "None"] \in Step
  BY <1>2, KernelAssumption DEF Step, Ids
<1>4. [i \in DOMAIN declared |->
         [op |-> "Admit", id |-> declared[i], scope |-> SubScope[declared[i]],
          policy |-> "None"]] \in Seq(Step)
  BY <1>2, <1>3, IsASeq
<1>5. todo' \in Seq(Step)
  BY <1>4 DEF Reconcile
<1> QED  BY <1>1, <1>5

(* Bootstrap and the admission loop.                                       *)
LEMMA BootShape ==
  ASSUME Shape
  PROVE  /\ \A cmd \in program.commands, decl \in program.declarations :
              Boot(cmd, decl) => Shape'
         /\ BootReconcile \/ BootEnd \/ AdmitStep => Shape'
<1> USE DEF Shape
<1>1. ASSUME NEW cmd \in program.commands, NEW decl \in program.declarations,
             Boot(cmd, decl)
      PROVE  Shape'
  <2>1. decl \in Seq(SubIds)
    BY KernelAssumption DEF KernelShape
  <2> QED  BY <1>1, <2>1, PlanShape DEF RegistryShape, IngressShape, KernelShape, Boot, Stages,
                                        registryVars, ingressVars
<1>2. CASE BootReconcile
  BY <1>2, ReconcileShape DEF RegistryShape, IngressShape, KernelShape, BootReconcile, Stages,
                              ingressVars
<1>3. CASE BootEnd
  BY <1>3 DEF RegistryShape, IngressShape, KernelShape, BootEnd, Stages, Phases, registryVars,
              ingressVars
<1>4. CASE AdmitStep
  <2> USE <1>4 DEF AdmitStep
  <2>1. Head(todo) \in Step /\ todo' \in Seq(Step)
    BY DEF KernelShape
  <2>2. CASE NoStart
    BY <2>1, <2>2 DEF RegistryShape, IngressShape, KernelShape, NoStart, registryVars,
                      ingressVars
  <2>3. CASE ~NoStart
    <3>1. StartRun({}, "Sub", Head(todo).id, Head(todo).scope)
      BY <2>3
    <3>2. Head(todo).id \in Ids /\ Head(todo).scope \in Scopes
      BY <2>1 DEF Step
    <3>3. RegistryShape' /\ IngressShape' /\ nextToken' \in 1..(MaxRuns + 1)
      BY <3>1, <3>2, StartRunShape
    <3> QED  BY <2>1, <3>3 DEF KernelShape
  <2> QED  BY <2>2, <2>3
<1> QED  BY <1>1, <1>2, <1>3, <1>4

(* The driving loop: beginning a pass, parking, waking.                    *)
LEMMA LoopShape ==
  ASSUME Shape, LoopNext
  PROVE  Shape'
<1> USE DEF Shape
<1>1. CASE BeginPass
  BY <1>1 DEF RegistryShape, IngressShape, KernelShape, BeginPass, Stages, registryVars,
              ingressVars
<1>2. CASE Park
  BY <1>2 DEF RegistryShape, IngressShape, KernelShape, Park, Stages, registryVars, ingressVars
<1>3. ASSUME NEW t \in Token, BeginPassOnExit(t) \/ WakeOnExit(t)
      PROVE  Shape'
  <2>1. RegistryShape' /\ IngressShape' /\ exitBuf' \in Seq(Token)
    BY <1>3, BufferExitShape DEF BeginPassOnExit, WakeOnExit
  <2> QED  BY <1>3, <2>1 DEF KernelShape, BeginPassOnExit, WakeOnExit, Stages
<1>4. ASSUME NEW l \in Lane, WakeOnLane(l)
      PROVE  Shape'
  BY <1>4 DEF RegistryShape, IngressShape, KernelShape, WakeOnLane, Stages, registryVars
<1> QED  BY <1>1, <1>2, <1>3, <1>4 DEF LoopNext

(* The stages of a pass.                                                   *)
LEMMA PassShape ==
  ASSUME Shape, PassNext
  PROVE  Shape'
<1> USE DEF Shape
<1>1. ASSUME NEW t \in Token, ReflectExit(t)
      PROVE  Shape'
  <2>1. registry' \subseteq Token /\ entry' \in [Token -> Entry] /\ keyed' \in Int
    BY <1>1, OnExitShape DEF ReflectExit
  <2>2. task' \in [Token -> TaskState]
    BY <1>1 DEF IngressShape, ReflectExit, TaskState
  <2>3. exitBuf' \in Seq(Token)
    <3>1. \/ exitBuf # <<>> /\ exitBuf' = Tail(exitBuf)
          \/ exitBuf' = exitBuf
      BY <1>1 DEF ReflectExit
    <3>2. exitBuf \in Seq(Token)
      BY DEF KernelShape
    <3> QED  BY <3>1, <3>2
  <2>4. dirty' \in BOOLEAN
    BY <1>1 DEF ReflectExit
  <2> QED  BY <1>1, <2>1, <2>2, <2>3, <2>4 DEF RegistryShape, IngressShape, KernelShape, ReflectExit
<1>2. CASE EndExits
  BY <1>2 DEF RegistryShape, IngressShape, KernelShape, EndExits, Stages, registryVars,
              ingressVars
<1>3. CASE DrainRevokedQuit
  <2>1. "control" \in Lane /\ queue["control"] # <<>>
    BY <1>3 DEF DrainRevokedQuit, Lane
  <2>2. registry' \subseteq Token /\ keyed' \in Int /\ pending' \in [Token -> Int]
    BY <1>3, <2>1, NextShape, OnDequeueShape DEF DrainRevokedQuit, Envelope
  <2> QED  BY <1>3, <2>1, <2>2, DequeueShape DEF RegistryShape, IngressShape, KernelShape,
                                                 DrainRevokedQuit, kernelVars
<1>4. CASE DrainQuit
  <2>1. "control" \in Lane /\ queue["control"] # <<>>
    BY <1>4 DEF DrainQuit, Lane
  <2>2. registry' \subseteq Token /\ keyed' \in Int /\ pending' \in [Token -> Int]
    BY <1>4, <2>1, NextShape, OnDequeueShape DEF DrainQuit, Envelope
  <2>3. taken' \in [Lane -> [Token -> Nat]]
    BY <1>4, <2>1, TakeShape DEF DrainQuit
  <2>4. ApplyQuit("Quit", registry')
    BY <1>4 DEF DrainQuit
  <2>5. /\ entry' \in [Token -> Entry]
        /\ aborted' \subseteq Token
        /\ phase' \in Phases
        /\ reason' \in {"None", "Quit", "RenderError"}
        /\ open' \in BOOLEAN
        /\ queue' \in [Lane -> Seq(Envelope)]
        /\ held' \in [Lane -> {0, 1}]
        /\ ledger' \in Seq(Scopes)
    BY <2>4, ApplyQuitShape
  <2> QED  BY <1>4, <2>2, <2>3, <2>5 DEF RegistryShape, IngressShape, KernelShape, DrainQuit,
                                         Stages
<1>5. CASE EndControl
  BY <1>5 DEF RegistryShape, IngressShape, KernelShape, EndControl, Stages, registryVars,
              ingressVars
<1>6. ASSUME BatchDequeue
      PROVE  /\ registry' \subseteq Token /\ keyed' \in Int /\ pending' \in [Token -> Int]
             /\ taken' \in [Lane -> [Token -> Nat]]
             /\ queue' \in [Lane -> Seq(Envelope)]
             /\ held' \in [Lane -> {0, 1}]
             /\ pulled' \in 0..BatchCap
             /\ NextEnvelope("data") \in Envelope
  <2>1. "data" \in Lane /\ queue["data"] # <<>>
    BY <1>6 DEF BatchDequeue, Lane
  <2>2. NextEnvelope("data") \in Envelope
    BY <2>1, NextShape
  <2>3. registry' \subseteq Token /\ keyed' \in Int /\ pending' \in [Token -> Int]
    BY <1>6, <2>2, OnDequeueShape DEF BatchDequeue, Envelope
  <2>4. pulled' \in 0..BatchCap
    BY <1>6, KernelAssumption DEF BatchDequeue, KernelShape
  <2> QED  BY <1>6, <2>1, <2>2, <2>3, <2>4, DequeueShape DEF BatchDequeue
<1>7. CASE InputDiscard
  BY <1>6, <1>7 DEF RegistryShape, IngressShape, KernelShape, InputDiscard
<1>8. ASSUME NEW cmd \in program.commands, NEW decl \in program.declarations,
             InputReduce(cmd, decl)
      PROVE  Shape'
  <2>1. decl \in Seq(SubIds)
    BY KernelAssumption DEF KernelShape
  <2>2. BatchDequeue
    BY <1>8 DEF InputReduce
  <2>3. reduced' \in [Token -> Nat]
    BY <1>6, <1>8, <2>2 DEF KernelShape, InputReduce, Envelope
  <2>4. redraw' \in BOOLEAN
    BY <1>8, PlanShape DEF InputReduce, KernelShape
  <2>5. todo' \in Seq(Step)
    BY <1>8, PlanShape DEF InputReduce, KernelShape
  <2> QED  BY <1>6, <1>8, <2>1, <2>2, <2>3, <2>4, <2>5
           DEF RegistryShape, IngressShape, KernelShape, InputReduce, Stages
<1>9. CASE EndBatch
  <2>1. dirty' \in BOOLEAN /\ pulled' \in 0..BatchCap
    BY <1>9, KernelAssumption DEF KernelShape, EndBatch, BatchDirt
  <2> QED  BY <1>9, <2>1 DEF RegistryShape, IngressShape, KernelShape, EndBatch, Stages,
                             registryVars, ingressVars
<1>10. CASE Render
  BY <1>10 DEF RegistryShape, IngressShape, KernelShape, Render, registryVars, ingressVars
<1>11. CASE RenderError
  BY <1>11, ApplyQuitShape DEF RegistryShape, IngressShape, KernelShape, RenderError, Stages
<1>12. CASE FrameReconcile
  BY <1>12, ReconcileShape DEF RegistryShape, IngressShape, KernelShape, FrameReconcile, Stages,
                               ingressVars
<1>13. CASE EndPass
  BY <1>13 DEF RegistryShape, IngressShape, KernelShape, EndPass, Stages, registryVars,
               ingressVars
<1> QED  BY <1>1, <1>2, <1>3, <1>4, <1>5, <1>7, <1>8, <1>9, <1>10, <1>11, <1>12, <1>13
         DEF PassNext

(* Settling.                                                               *)
LEMMA SettleShape ==
  ASSUME Shape
  PROVE  /\ \A t \in Token : JoinExit(t) => Shape'
         /\ Settle => Shape'
<1> USE DEF Shape
<1>0. <<>> \in Seq(Token)
  OBVIOUS
<1>1. ASSUME NEW t \in Token, JoinExit(t)
      PROVE  Shape'
  <2>1. task' \in [Token -> TaskState]
    BY <1>1 DEF IngressShape, JoinExit, TaskState
  <2> QED  BY <1>0, <1>1, <2>1 DEF RegistryShape, IngressShape, KernelShape, JoinExit,
                                   registryVars
<1>2. CASE Settle
  BY <1>0, <1>2 DEF RegistryShape, IngressShape, KernelShape, Settle, Clear, Phases, Stages,
                    ingressVars
<1> QED  BY <1>1, <1>2

(* A dropped kernel.                                                       *)
LEMMA DropShape ==
  ASSUME Shape, DropKernel
  PROVE  Shape'
<1> USE DEF Shape
<1>1. entry' \in [Token -> Entry] /\ aborted' \subseteq Token
  BY StopRequestShape DEF DropKernel, AbortAll
<1>2. <<>> \in Seq(Envelope) /\ <<>> \in Seq(Scopes)
  OBVIOUS
<1> QED  BY <1>1, <1>2 DEF RegistryShape, IngressShape, KernelShape, DropKernel, Phases, Stages

(* The producers.                                                          *)
LEMMA ProducerShape ==
  ASSUME Shape, ProducerNext
  PROVE  Shape'
<1> USE DEF Shape
<1>1. PICK t \in Token :
        /\ \/ \E l \in Lane : BeginSend(t, l)
           \/ SendStep(t) \/ Finish(t) \/ Cancel(t)
        /\ UNCHANGED kernelVars
  BY DEF ProducerNext
<1>2. KernelShape'
  BY <1>1 DEF KernelShape, kernelVars
<1>3. ASSUME NEW s \in TaskState, task' = [task EXCEPT ![t] = s]
      PROVE  task' \in [Token -> TaskState]
  BY <1>3 DEF IngressShape
<1>4. ASSUME pending' \in {[pending EXCEPT ![t] = Reserve(@)],
                           [pending EXCEPT ![t] = Decrement(@)], pending}
      PROVE  pending' \in [Token -> Int]
  BY <1>4, RegistryAssumption DEF RegistryShape, Reserve, Decrement
<1>5. CASE \E l \in Lane : BeginSend(t, l)
  <2>1. task' \in [Token -> TaskState] /\ pending' \in [Token -> Int] /\ intents' \in 0..MaxSends
    BY <1>3, <1>4, <1>5, IngressAssumption DEF BeginSend, TaskState, IngressShape
  <2> QED  BY <1>2, <1>5, <2>1 DEF RegistryShape, IngressShape, BeginSend
<1>6. CASE CompleteSend(t)
  <2>1. PICK l \in Lane :
          /\ sent' = [sent EXCEPT ![l][t] = @ + 1]
          /\ queue' = [queue EXCEPT ![l] = Append(@, [origin |-> t, n |-> sent'[l][t]])]
    BY <1>6 DEF CompleteSend, LaneOf, Lane
  <2>2. sent' \in [Lane -> [Token -> Nat]]
    BY <2>1 DEF IngressShape
  <2>3. [origin |-> t, n |-> sent'[l][t]] \in Envelope
    BY <2>2 DEF Envelope
  <2>4. queue' \in [Lane -> Seq(Envelope)]
    BY <2>1, <2>3 DEF IngressShape
  <2>5. task' \in [Token -> TaskState]
    BY <1>3, <1>6 DEF CompleteSend, TaskState
  <2> QED  BY <1>2, <1>6, <2>2, <2>4, <2>5 DEF RegistryShape, IngressShape, CompleteSend,
                                               registryVars
<1>7. CASE BlockSend(t) \/ Finish(t)
  <2>1. task' \in [Token -> TaskState]
    BY <1>3, <1>7 DEF BlockSend, Finish, TaskState
  <2> QED  BY <1>2, <1>7, <2>1 DEF RegistryShape, IngressShape, BlockSend, Finish, registryVars
<1>8. CASE FailSend(t) \/ Cancel(t)
  <2>1. task' \in [Token -> TaskState] /\ pending' \in [Token -> Int]
    BY <1>3, <1>4, <1>8 DEF FailSend, Cancel, ReleaseOnDrop, TaskState
  <2> QED  BY <1>2, <1>8, <2>1 DEF RegistryShape, IngressShape, FailSend, Cancel
<1> QED  BY <1>1, <1>5, <1>6, <1>7, <1>8 DEF SendStep

(* The initial state has the shape, and every step keeps it.               *)
LEMMA InitShape == Init => Shape
<1> SUFFICES ASSUME Init PROVE Shape
  OBVIOUS
<1>1. NoEntry \in Entry
  BY RegistryAssumption DEF NoEntry, Entry, Ids
<1>2. RegistryShape
  BY <1>1 DEF Init, RegistryInit, RegistryShape
<1>3. IngressShape
  <2>1. <<>> \in Seq(Envelope)
    OBVIOUS
  <2>2. queue \in [Lane -> Seq(Envelope)] /\ held \in [Lane -> {0, 1}]
    BY <2>1 DEF Init, IngressInit
  <2>3. sent \in [Lane -> [Token -> Nat]] /\ taken \in [Lane -> [Token -> Nat]]
    BY DEF Init, IngressInit
  <2> QED  BY <2>2, <2>3, IngressAssumption DEF Init, IngressInit, IngressShape, TaskState
<1>4. 1 \in 1..(MaxRuns + 1) /\ 0 \in 0..BatchCap
  BY RegistryAssumption, KernelAssumption
<1>5. KernelShape
  <2>1. /\ <<>> \in Seq(Step)
        /\ <<>> \in Seq(Token)
        /\ <<>> \in Seq(Scopes)
        /\ <<>> \in Seq(SubIds)
    OBVIOUS
  <2> QED  BY <1>4, <2>1 DEF Init, KernelShape, Phases, Stages
<1> QED  BY <1>2, <1>3, <1>5 DEF Shape

(* Every step keeps the types.                                             *)
LEMMA NextShapeStep == Shape /\ [Next]_vars => Shape'
<1> SUFFICES ASSUME Shape, [Next]_vars PROVE Shape'
  OBVIOUS
<1>1. CASE KernelNext
  BY <1>1, BootShape, DispatchShape, LoopShape, PassShape, SettleShape DEF KernelNext
<1>2. CASE ProducerNext
  BY <1>2, ProducerShape
<1>3. CASE UNCHANGED vars
  BY <1>3 DEF Shape, RegistryShape, IngressShape, KernelShape, vars, registryVars, ingressVars,
              kernelVars
<1>4. CASE DropKernel
  BY <1>4, DropShape
<1> QED  BY <1>1, <1>2, <1>3, <1>4 DEF Next, Idle

-----------------------------------------------------------------------------
(* The relations.                                                          *)

(* What no step changes in an entry once it exists: a stop only revokes.   *)
SameRuns ==
  \A t \in Token : entry'[t].exited = entry[t].exited /\ entry'[t].kind = entry[t].kind

(* A stop request leaves kinds and exits alone.                            *)
LEMMA StopRequestSameRuns ==
  ASSUME NEW S, RegistryShape, StopRequest(S)
  PROVE  SameRuns
BY StoppedKeeps DEF RegistryShape, StopRequest, SameRuns

(* The keyed entries are finitely many.                                    *)
LEMMA KeyedFinite ==
  ASSUME RegistryShape
  PROVE  IsFiniteSet({t \in registry : entry[t].kind = "Keyed"})
<1>1. IsFiniteSet(Token)
  BY RegistryAssumption, FS_Interval DEF Token
<1> QED  BY <1>1, FS_Subset DEF RegistryShape

(* publish_keyed_gauge: the count is right after every retirement.         *)
LEMMA RetireGauge ==
  ASSUME RegistryShape, KeyedGauge, \A u \in Token : entry'[u].kind = entry[u].kind,
         NEW t \in Token, Retire(t) \/ UNCHANGED <<registry, keyed>>
  PROVE  KeyedGauge'
<1> DEFINE K == {u \in registry : entry[u].kind = "Keyed"}
<1>1. {u \in registry' : entry'[u].kind = "Keyed"} = {u \in registry' : entry[u].kind = "Keyed"}
  BY DEF RegistryShape, Retire
<1>2. CASE UNCHANGED <<registry, keyed>>
  BY <1>1, <1>2 DEF KeyedGauge
<1>3. CASE Retire(t)
  <2>1. {u \in registry' : entry[u].kind = "Keyed"} = K \ {t}
    BY <1>3 DEF Retire
  <2>2. t \in K <=> t \in registry /\ entry[t].kind = "Keyed"
    OBVIOUS
  <2>3. /\ t \in K => Cardinality(K \ {t}) = Cardinality(K) - 1
        /\ t \notin K => K \ {t} = K
    BY KeyedFinite, FS_RemoveElement
  <2> HIDE DEF K
  <2>4. keyed = Cardinality(K)
    BY DEF KeyedGauge, K
  <2> QED  BY <1>1, <1>3, <2>1, <2>2, <2>3, <2>4 DEF KeyedGauge, Retire
<1> QED  BY <1>2, <1>3

-----------------------------------------------------------------------------
(* Steps that leave runs, lanes and counters alone.                        *)

(* A step that moves the kernel's own stage keeps the invariant.            *)
LEMMA Quiet ==
  ASSUME Inv, Shape', SameRuns,
         UNCHANGED <<registry, keyed, pending, task, queue, open, sent, taken, nextToken,
                     exitBuf>>,
         Terminating' <=> Terminating,
         stage' \in {"settle", "settled"} => Terminating,
         stage = "settled" => stage' = "settled"
  PROVE  Inv'
<1>1. Closed'
  BY DEF Inv, Closed
<1>2. Fifo'
  BY DEF Inv, Fifo, LaneFifo
<1>3. Counts'
  BY DEF Inv, Counts, Queued, Reservation
<1>4. Lifetimes'
  BY DEF Inv, Lifetimes, SameRuns
<1>5. Unminted' /\ Tombstone' /\ PoisonKeepsEntry'
  BY DEF Inv, Unminted, Tombstone, PoisonKeepsEntry
<1>6. KeyedGauge'
  <2>1. {t \in registry' : entry'[t].kind = "Keyed"} = {t \in registry : entry[t].kind = "Keyed"}
    BY DEF Inv, Shape, RegistryShape, SameRuns
  <2> QED  BY <2>1 DEF Inv, KeyedGauge
<1> QED  BY <1>1, <1>2, <1>3, <1>4, <1>5, <1>6 DEF Inv

-----------------------------------------------------------------------------
(* Starting a run: its token is fresh, so nothing is accounted to it yet.  *)

(* A start mints a token, inserts its entry and launches its task.          *)
LEMMA Starting ==
  ASSUME Inv, Shape', NEW S, NEW kind \in {"Keyed", "Anon", "Sub", "Cleanup"}, NEW id \in Ids,
         NEW scope \in Scopes, StartRun(S, kind, id, scope),
         UNCHANGED <<phase, stage, exitBuf>>
  PROVE  Inv'
<1> DEFINE new == nextToken
<1>1. new \in Token /\ new \notin registry /\ task[new] = "None"
  BY DEF Inv, Unminted, StartRun, Token
<1>2. /\ registry' = registry \cup {new}
      /\ entry'[new] = Fresh(kind, id, scope)
      /\ \A u \in Token : u # new => entry'[u].exited = entry[u].exited
                                  /\ entry'[u].kind = entry[u].kind
  BY <1>1, StoppedKeeps DEF Inv, Shape, RegistryShape, StartRun, StopAndInsert
<1>3. /\ task' = [task EXCEPT ![new] = "Live"]
      /\ task'[new] = "Live"
      /\ \A u \in Token : u # new => task'[u] = task[u]
      /\ UNCHANGED <<pending, queue, open, sent, taken>>
  BY <1>1 DEF Inv, Shape, IngressShape, StartRun
<1>4. Closed' /\ Fifo'
  BY <1>3 DEF Inv, Closed, Fifo, LaneFifo, Terminating
<1>5. Counts'
  <2>1. \A u \in Token : Reservation(u)' = Reservation(u)
    BY <1>1, <1>3 DEF Reservation, Reserving
  <2> QED  BY <1>3, <2>1 DEF Inv, Counts, Queued
<1>6. Lifetimes'
  <2>1. ~entry'[new].exited
    BY <1>2 DEF Fresh
  <2>2. \A i \in DOMAIN exitBuf : exitBuf[i] \in Token /\ exitBuf[i] # new
    BY <1>1 DEF Inv, Shape, KernelShape, Lifetimes
  <2> QED  BY <1>2, <1>3, <2>1, <2>2 DEF Inv, Lifetimes
<1>7. Unminted'
  BY <1>2, <1>3 DEF Inv, Unminted, StartRun, Token, Shape, KernelShape
<1>8. Tombstone' /\ PoisonKeepsEntry'
  BY <1>2, <1>3 DEF Inv, Tombstone, PoisonKeepsEntry
<1>9. KeyedGauge'
  <2> DEFINE K == {u \in registry : entry[u].kind = "Keyed"}
  <2>1. entry'[new].kind = kind
    BY <1>2 DEF Fresh
  <2>2. {u \in registry' : entry'[u].kind = "Keyed"} =
          IF kind = "Keyed" THEN K \cup {new} ELSE K
    BY <1>1, <1>2, <2>1 DEF Inv, Shape, RegistryShape
  <2>3. keyed' = IF kind = "Keyed" THEN keyed + 1 ELSE keyed
    BY DEF StartRun, StopAndInsert
  <2>4. IsFiniteSet(K) /\ new \notin K
    BY <1>1, KeyedFinite DEF Inv, Shape
  <2>5. Cardinality(K \cup {new}) = Cardinality(K) + 1
    BY <2>4, FS_AddElement
  <2> HIDE DEF K
  <2>6. keyed = Cardinality(K)
    BY DEF Inv, KeyedGauge, K
  <2> QED  BY <2>2, <2>3, <2>5, <2>6 DEF KeyedGauge
<1> QED  BY <1>4, <1>5, <1>6, <1>7, <1>8, <1>9 DEF Inv

-----------------------------------------------------------------------------
(* Dequeues.                                                               *)

(* The head of a lane is the next envelope of its run, which has an entry: *)
(* on_dequeue never meets a missing one.                                   *)
LEMMA HeadFacts ==
  ASSUME Inv, NEW l \in Lane, queue[l] # <<>>
  PROVE  /\ open
         /\ NextEnvelope(l) = queue[l][1]
         /\ 1 \in DOMAIN queue[l]
         /\ NextEnvelope(l).origin \in registry
         /\ NextEnvelope(l).origin \in Token
         /\ NextEnvelope(l).n = taken[l][NextEnvelope(l).origin] + 1
         /\ NextEnvelope(l).n <= sent[l][NextEnvelope(l).origin]
<1> DEFINE q == queue[l]
           o == NextEnvelope(l).origin
           n == NextEnvelope(l).n
<1>1. open
  BY DEF Inv, Closed
<1>2. q \in Seq(Envelope) /\ 1 \in DOMAIN q /\ NextEnvelope(l) = q[1]
  BY DEF Inv, Shape, IngressShape, NextEnvelope
<1>3. q[1] \in Envelope
  BY <1>2
<1>4. o \in Token /\ n \in Nat /\ o \in registry
  BY <1>2, <1>3 DEF Envelope, Inv, Tombstone
<1>5. taken[l][o] \in Nat /\ sent[l][o] \in Nat
  BY <1>4 DEF Inv, Shape, IngressShape
<1>6. LaneFifo(l)
  BY <1>1 DEF Inv, Fifo
<1>7. taken[l][o] < n /\ n <= sent[l][o]
  BY <1>2, <1>6 DEF LaneFifo
<1>8. ASSUME n # taken[l][o] + 1 PROVE FALSE
  <2>1. taken[l][o] + 1 \in (taken[l][o] + 1)..sent[l][o]
    BY <1>4, <1>5, <1>7
  <2>2. PICK i \in DOMAIN q : q[i].origin = o /\ q[i].n = taken[l][o] + 1
    BY <1>4, <1>6, <2>1 DEF LaneFifo
  <2>3. i \in Nat /\ i # 1 /\ 1 < i
    BY <1>2, <1>8, <2>2
  <2>4. q[1].n < q[i].n
    BY <1>2, <1>6, <2>2, <2>3 DEF LaneFifo
  <2> QED  BY <1>2, <1>4, <1>5, <1>7, <2>2, <2>4
<1> QED  BY <1>1, <1>2, <1>4, <1>7, <1>8

(* What Take changes.                                                      *)
LEMMA TakeFacts ==
  ASSUME Inv, NEW l \in Lane, queue[l] # <<>>, Take(l)
  PROVE  \A m \in Lane, t \in Token :
           taken'[m][t] = IF m = l /\ t = NextEnvelope(l).origin THEN taken[m][t] + 1
                                                                ELSE taken[m][t]
BY HeadFacts DEF Take, Inv, Shape, IngressShape

(* A lane stays the queue of the envelopes not taken yet.                  *)
LEMMA DequeueFifo ==
  ASSUME Inv, Shape', NEW l \in Lane, queue[l] # <<>>, Dequeue(l), UNCHANGED <<open, sent>>
  PROVE  Fifo'
<1> DEFINE o == NextEnvelope(l).origin
<1>1. \A m \in Lane, t \in Token :
        taken'[m][t] = IF m = l /\ t = o THEN taken[m][t] + 1 ELSE taken[m][t]
  BY TakeFacts DEF Dequeue
<1>2. \A m \in Lane : m # l => queue'[m] = queue[m]
  BY DEF Dequeue, Inv, Shape, IngressShape
<1>3. /\ queue[l] \in Seq(Envelope)
      /\ queue'[l] = Tail(queue[l])
      /\ DOMAIN queue[l] = 1..Len(queue[l])
      /\ DOMAIN queue'[l] = 1..(Len(queue[l]) - 1)
      /\ \A i \in DOMAIN queue'[l] : i + 1 \in DOMAIN queue[l] /\ queue'[l][i] = queue[l][i + 1]
  BY DEF Dequeue, Inv, Shape, IngressShape
<1>4. \A i \in DOMAIN queue[l] : queue[l][i] \in Envelope
  BY <1>3
<1>5. open
  BY HeadFacts
<1>6. o \in Token /\ queue[l][1].origin = o /\ queue[l][1].n = taken[l][o] + 1
      /\ taken[l][o] + 1 <= sent[l][o] /\ 1 \in DOMAIN queue[l]
  BY HeadFacts
<1>7. \A t \in Token, m \in Lane : taken[m][t] \in Nat /\ sent[m][t] \in Nat
  BY DEF Inv, Shape, IngressShape
<1>8. \A m \in Lane : LaneFifo(m)
  BY <1>5 DEF Inv, Fifo
<1>9. ASSUME NEW m \in Lane, m # l PROVE LaneFifo(m)'
  <2>1. taken'[m] = taken[m] /\ queue'[m] = queue[m]
    BY <1>9 DEF Dequeue, Take, Inv, Shape, IngressShape
  <2> QED  BY <1>8, <2>1 DEF LaneFifo
<1>10. LaneFifo(l)'
  <2>1. \A t \in Token : taken'[l][t] <= sent'[l][t]
    BY <1>1, <1>6, <1>7, <1>8 DEF LaneFifo
  <2>2. \A i \in DOMAIN queue'[l] :
          /\ taken'[l][queue'[l][i].origin] < queue'[l][i].n
          /\ queue'[l][i].n <= sent'[l][queue'[l][i].origin]
    <3> SUFFICES ASSUME NEW i \in DOMAIN queue'[l]
                 PROVE  /\ taken'[l][queue[l][i + 1].origin] < queue[l][i + 1].n
                        /\ queue[l][i + 1].n <= sent[l][queue[l][i + 1].origin]
      BY <1>3
    <3>1. /\ i + 1 \in DOMAIN queue[l]
          /\ 1 < i + 1
          /\ queue[l][i + 1].origin \in Token
          /\ queue[l][i + 1].n \in Nat
      BY <1>3, <1>4 DEF Envelope
    <3>2. CASE queue[l][i + 1].origin = o
      <4>1. queue[l][1].n < queue[l][i + 1].n
        BY <1>6, <1>8, <3>1, <3>2 DEF LaneFifo
      <4> QED  BY <1>1, <1>6, <1>7, <1>8, <3>1, <3>2, <4>1 DEF LaneFifo
    <3>3. CASE queue[l][i + 1].origin # o
      BY <1>1, <1>8, <3>1, <3>3 DEF LaneFifo
    <3> QED  BY <3>2, <3>3
  <2>3. \A i, j \in DOMAIN queue'[l] :
          i < j /\ queue'[l][i].origin = queue'[l][j].origin => queue'[l][i].n < queue'[l][j].n
    BY <1>3, <1>8 DEF LaneFifo
  <2>4. \A t \in Token : \A n \in (taken'[l][t] + 1)..sent'[l][t] :
          \E i \in DOMAIN queue'[l] : queue'[l][i].origin = t /\ queue'[l][i].n = n
    <3> SUFFICES ASSUME NEW t \in Token, NEW n \in (taken'[l][t] + 1)..sent[l][t]
                 PROVE  \E i \in DOMAIN queue'[l] :
                          queue'[l][i].origin = t /\ queue'[l][i].n = n
      OBVIOUS
    <3>1. n \in (taken[l][t] + 1)..sent[l][t] /\ (t = o => n # taken[l][o] + 1)
      BY <1>1, <1>7
    <3>2. PICK j \in DOMAIN queue[l] : queue[l][j].origin = t /\ queue[l][j].n = n
      BY <1>8, <3>1 DEF LaneFifo
    <3>3. j # 1
      BY <1>6, <3>1, <3>2
    <3>4. j - 1 \in DOMAIN queue'[l] /\ queue'[l][j - 1] = queue[l][j]
      BY <1>3, <3>3
    <3> QED  BY <3>2, <3>4
  <2> QED  BY <2>1, <2>2, <2>3, <2>4 DEF LaneFifo
<1> QED  BY <1>9, <1>10 DEF Fifo

(* on_dequeue keeps the counter exact and never underflows, and the entry  *)
(* it may retire has nothing left in flight.  The lanes themselves may     *)
(* stay open or be dropped by the same step (a quit).                      *)
LEMMA DequeueCounts ==
  ASSUME Inv, Shape', SameRuns, NEW l \in Lane, queue[l] # <<>>,
         OnDequeue(NextEnvelope(l).origin), Take(l),
         UNCHANGED <<task, sent, nextToken, exitBuf>>
  PROVE  /\ \A t \in Token :
              /\ pending'[t] \in 0..Ceiling
              /\ \/ pending'[t] = Ceiling
                 \/ pending'[t] = Queued("data", t)' + Queued("control", t)' + Reservation(t)'
         /\ \A t \in Token : t \in registry /\ t \notin registry' =>
              pending'[t] = 0 /\ task[t] = "Joined"
         /\ registry' \subseteq registry
         /\ Lifetimes' /\ Unminted' /\ KeyedGauge'
         /\ \A t \in Token : pending'[t] = Ceiling => t \in registry' \/ stage = "settled"
<1> DEFINE o == NextEnvelope(l).origin
<1>1. /\ open /\ o \in Token /\ o \in registry
      /\ taken[l][o] + 1 <= sent[l][o]
  BY HeadFacts
<1>2. \A m \in Lane, t \in Token :
        /\ taken'[m][t] = IF m = l /\ t = o THEN taken[m][t] + 1 ELSE taken[m][t]
        /\ taken[m][t] \in Nat /\ sent[m][t] \in Nat
        /\ taken[m][t] <= sent[m][t]
  <2>1. \A m \in Lane : LaneFifo(m)
    BY <1>1 DEF Inv, Fifo
  <2>2. \A m \in Lane, t \in Token : taken[m][t] \in Nat /\ sent[m][t] \in Nat
    BY DEF Inv, Shape, IngressShape
  <2>3. \A m \in Lane, t \in Token : taken[m][t] <= sent[m][t]
    BY <2>1 DEF LaneFifo
  <2> QED  BY <2>2, <2>3, TakeFacts
<1>3. "data" \in Lane /\ "control" \in Lane /\ l \in {"data", "control"}
  BY DEF Lane
<1>4. \A t \in Token : /\ pending[t] \in 0..Ceiling
                       /\ \/ pending[t] = Ceiling
                          \/ pending[t] = Queued("data", t) + Queued("control", t)
                                              + Reservation(t)
  <2>1. Counts
    BY DEF Inv
  <2> QED  BY <1>1, <2>1 DEF Counts
<1>5. pending' = [pending EXCEPT ![o] = Decrement(@)]
  BY DEF OnDequeue
<1>6. \A t \in Token : Reservation(t) \in {0, 1} /\ Reservation(t)' = Reservation(t)
  BY DEF Reservation
<1>7. ASSUME NEW t \in Token
      PROVE  /\ pending'[t] \in 0..Ceiling
             /\ \/ pending'[t] = Ceiling
                \/ pending'[t] = Queued("data", t)' + Queued("control", t)' + Reservation(t)'
  <2>1. CASE t # o
    <3>1. pending'[t] = pending[t]
      BY <1>5, <2>1 DEF Inv, Shape, RegistryShape
    <3>2. Queued("data", t)' = Queued("data", t) /\ Queued("control", t)' = Queued("control", t)
      BY <1>2, <1>3, <2>1 DEF Queued
    <3> QED  BY <1>4, <1>6, <3>1, <3>2
  <2>2. CASE t = o
    <3>1. pending'[t] = Decrement(pending[t])
      BY <1>5, <2>2 DEF Inv, Shape, RegistryShape
    <3> DEFINE d == Queued("data", t)
               c == Queued("control", t)
    <3>2. d \in Nat /\ c \in Nat
      BY <1>2, <1>3 DEF Queued
    <3>3. \/ d \in Nat \ {0} /\ d' = d - 1 /\ c' = c
          \/ c \in Nat \ {0} /\ c' = c - 1 /\ d' = d
      <4>1. /\ taken["data"][t] \in Nat /\ sent["data"][t] \in Nat
            /\ taken["control"][t] \in Nat /\ sent["control"][t] \in Nat
            /\ taken["data"][t] <= sent["data"][t] /\ taken["control"][t] <= sent["control"][t]
            /\ sent' = sent
        BY <1>2, <1>3
      <4>2. CASE l = "data"
        <5>1. /\ taken'["data"][t] = taken["data"][t] + 1
              /\ taken'["control"][t] = taken["control"][t]
              /\ taken["data"][t] + 1 <= sent["data"][t]
          BY <1>1, <1>2, <1>3, <2>2, <4>2
        <5> QED  BY <4>1, <5>1 DEF Queued
      <4>3. CASE l = "control"
        <5>1. /\ taken'["control"][t] = taken["control"][t] + 1
              /\ taken'["data"][t] = taken["data"][t]
              /\ taken["control"][t] + 1 <= sent["control"][t]
          BY <1>1, <1>2, <1>3, <2>2, <4>3
        <5> QED  BY <4>1, <5>1 DEF Queued
      <4> QED  BY <1>3, <4>2, <4>3
    <3> HIDE DEF d, c
    <3>4. d + c \in Nat \ {0} /\ d' + c' = d + c - 1
      BY <3>2, <3>3
    <3>5. Reservation(t) \in {0, 1} /\ Reservation(t)' = Reservation(t)
      BY <1>6
    <3>6. /\ pending[t] \in 0..Ceiling
          /\ pending[t] = Ceiling \/ pending[t] = d + c + Reservation(t)
      BY <1>4 DEF d, c
    <3>7. CASE pending[t] = Ceiling
      BY <1>4, <3>1, <3>7, RegistryAssumption DEF Decrement
    <3>8. CASE pending[t] # Ceiling
      <4>1. pending'[t] = pending[t] - 1
        BY <3>1, <3>8 DEF Decrement
      <4>2. pending[t] >= 1 /\ pending[t] = d + c + Reservation(t)
        BY <3>2, <3>4, <3>5, <3>6, <3>8
      <4>3. pending'[t] = d' + c' + Reservation(t)'
        BY <3>2, <3>4, <3>5, <4>1, <4>2
      <4>4. pending'[t] \in 0..Ceiling
        BY <3>6, <4>1, <4>2, RegistryAssumption
      <4> QED  BY <4>3, <4>4 DEF d, c
    <3> QED  BY <3>7, <3>8
  <2> QED  BY <2>1, <2>2
<1>8. \/ Retire(o) /\ RemovalRule(entry[o].exited, pending'[o])
      \/ UNCHANGED <<registry, keyed>>
  BY DEF OnDequeue
<1>9. registry' \subseteq registry
  BY <1>8 DEF Retire
<1>10. \A t \in Token : t \in registry /\ t \notin registry' =>
         t = o /\ pending'[t] = 0 /\ task[t] = "Joined"
  BY <1>8 DEF Retire, RemovalRule, Inv, Lifetimes
<1>11. Lifetimes'
  BY <1>10 DEF Inv, Lifetimes, SameRuns
<1>12. Unminted'
  BY <1>9 DEF Inv, Unminted
<1>13. KeyedGauge'
  BY <1>1, <1>8, RetireGauge DEF Inv, Shape, SameRuns
<1>14. \A t \in Token : pending'[t] = Ceiling => t \in registry' \/ stage = "settled"
  <2> SUFFICES ASSUME NEW t \in Token, pending'[t] = Ceiling
               PROVE  t \in registry' \/ stage = "settled"
    OBVIOUS
  <2>1. Ceiling # 0
    BY RegistryAssumption
  <2>2. CASE t = o
    BY <1>1, <1>10, <2>1, <2>2
  <2>3. CASE t # o
    <3>1. pending[t] = Ceiling
      BY <1>5, <2>3 DEF Inv, Shape, RegistryShape
    <3> QED  BY <1>10, <2>1, <3>1 DEF Inv, PoisonKeepsEntry
  <2> QED  BY <2>2, <2>3
<1> QED  BY <1>7, <1>9, <1>10, <1>11, <1>12, <1>13, <1>14

(* No run has more taken than sent, before or after the dequeue.           *)
LEMMA StillQueued ==
  ASSUME Inv, NEW l \in Lane, queue[l] # <<>>, Take(l), UNCHANGED sent, NEW t \in Token
  PROVE  Queued("data", t)' \in Nat /\ Queued("control", t)' \in Nat
<1>1. /\ open
      /\ NextEnvelope(l).origin \in Token
      /\ taken[l][NextEnvelope(l).origin] + 1 <= sent[l][NextEnvelope(l).origin]
  BY HeadFacts
<1>2. \A m \in Lane : LaneFifo(m) /\ taken[m][t] \in Nat /\ sent[m][t] \in Nat
  BY <1>1 DEF Inv, Fifo, Shape, IngressShape
<1>3. ASSUME NEW m \in Lane
      PROVE  Queued(m, t)' \in Nat
  <2>1. taken[m][t] <= sent[m][t] /\ taken[m][t] \in Nat /\ sent[m][t] \in Nat
    BY <1>2 DEF LaneFifo
  <2>2. taken'[m][t] \in Nat /\ taken'[m][t] <= sent[m][t]
    BY <1>1, <2>1, TakeFacts
  <2> QED  BY <2>1, <2>2 DEF Queued
<1> QED  BY <1>3 DEF Lane

(* A dequeue that does not terminate: the run it may retire leaves nothing *)
(* in the lanes, so every envelope left still finds its entry.             *)
LEMMA Dequeuing ==
  ASSUME Inv, Shape', NEW l \in Lane, queue[l] # <<>>, OnDequeue(NextEnvelope(l).origin),
         Dequeue(l),
         UNCHANGED <<entry, task, open, sent, nextToken, exitBuf, phase>>,
         stage' \notin {"settle", "settled"}, stage # "settled"
  PROVE  Inv'
<1>1. Take(l) /\ SameRuns
  BY DEF Dequeue, SameRuns
<1>2. /\ \A t \in Token :
            /\ pending'[t] \in 0..Ceiling
            /\ \/ pending'[t] = Ceiling
               \/ pending'[t] = Queued("data", t)' + Queued("control", t)' + Reservation(t)'
      /\ \A t \in Token : t \in registry /\ t \notin registry' =>
           pending'[t] = 0 /\ task[t] = "Joined"
      /\ Lifetimes' /\ Unminted' /\ KeyedGauge'
      /\ \A t \in Token : pending'[t] = Ceiling => t \in registry' \/ stage = "settled"
  BY <1>1, DequeueCounts
<1>3. Fifo'
  BY DequeueFifo
<1>4. open /\ open'
  BY HeadFacts
<1>5. Closed'
  BY <1>4 DEF Inv, Closed, Terminating
<1>6. Counts'
  BY <1>2, <1>4 DEF Counts
<1>7. Tombstone'
  <2> SUFFICES ASSUME NEW m \in Lane, NEW i \in DOMAIN queue'[m],
                      queue'[m][i].origin \notin registry'
               PROVE  FALSE
    BY DEF Tombstone
  <2>1. queue'[m][i] \in Envelope
    BY DEF Shape, IngressShape
  <2>2. PICK t \in Token : t = queue'[m][i].origin /\ queue'[m][i].n \in Nat
    BY <2>1 DEF Envelope
  <2>3. \E j \in DOMAIN queue[m] : queue[m][j] = queue'[m][i]
    <3>1. CASE m = l
      <4>1. queue'[l] = Tail(queue[l]) /\ queue[l] \in Seq(Envelope)
        BY DEF Dequeue, Inv, Shape, IngressShape
      <4>2. i + 1 \in DOMAIN queue[l] /\ queue[l][i + 1] = queue'[l][i]
        BY <3>1, <4>1
      <4> QED  BY <3>1, <4>2
    <3>2. CASE m # l
      BY <3>2 DEF Dequeue, Inv, Shape, IngressShape
    <3> QED  BY <3>1, <3>2
  <2>4. t \in registry
    BY <2>2, <2>3 DEF Inv, Tombstone
  <2>5. pending'[t] = 0
    BY <1>2, <2>2, <2>4
  <2>6. Queued("data", t)' + Queued("control", t)' + Reservation(t)' = 0
    BY <1>2, <2>2, <2>5, RegistryAssumption
  <2>7. Queued("data", t)' \in Nat /\ Queued("control", t)' \in Nat
    BY <1>1, <2>2, StillQueued
  <2>8. Reservation(t)' \in {0, 1}
    BY DEF Reservation
  <2>9. Queued(m, t)' = 0
    <3>1. Queued("data", t)' = 0 /\ Queued("control", t)' = 0
      BY <2>6, <2>7, <2>8
    <3> QED  BY <3>1 DEF Lane
  <2>10. taken'[m][t] < queue'[m][i].n /\ queue'[m][i].n <= sent'[m][t]
    BY <1>3, <1>4, <2>2 DEF Fifo, LaneFifo
  <2>11. taken'[m][t] \in Nat /\ sent'[m][t] \in Nat
    BY <2>2 DEF Shape, IngressShape
  <2> QED  BY <2>2, <2>9, <2>10, <2>11 DEF Queued
<1>8. PoisonKeepsEntry'
  BY <1>2 DEF PoisonKeepsEntry
<1> QED  BY <1>2, <1>3, <1>5, <1>6, <1>7, <1>8 DEF Inv

(* A counter at zero has nothing in the lanes, so a run retired at zero    *)
(* leaves no envelope behind.                                              *)
LEMMA ZeroIsDrained ==
  ASSUME Inv, open, NEW t \in Token, pending[t] = 0
  PROVE  \A l \in Lane : \A i \in DOMAIN queue[l] : queue[l][i].origin # t
<1>1. Queued("data", t) + Queued("control", t) + Reservation(t) = 0
  BY RegistryAssumption DEF Inv, Counts
<1>2. \A l \in Lane : LaneFifo(l) /\ taken[l][t] \in Nat /\ sent[l][t] \in Nat
  BY DEF Inv, Fifo, Shape, IngressShape
<1>3. \A l \in Lane : taken[l][t] = sent[l][t]
  <2> DEFINE a == taken["data"][t]
             b == sent["data"][t]
             c == taken["control"][t]
             d == sent["control"][t]
             r == Reservation(t)
  <2>1. "data" \in Lane /\ "control" \in Lane
    BY DEF Lane
  <2>2. a \in Nat /\ b \in Nat /\ c \in Nat /\ d \in Nat /\ a <= b /\ c <= d
    BY <1>2, <2>1 DEF LaneFifo
  <2>3. r \in {0, 1}
    BY DEF Reservation
  <2>4. (b - a) + (d - c) + r = 0
    BY <1>1 DEF Queued
  <2> HIDE DEF a, b, c, d, r
  <2>5. a = b /\ c = d
    BY <2>2, <2>3, <2>4
  <2> QED  BY <2>5 DEF Lane, a, b, c, d
<1> SUFFICES ASSUME NEW l \in Lane, NEW i \in DOMAIN queue[l], queue[l][i].origin = t
             PROVE  FALSE
  OBVIOUS
<1>4. queue[l][i] \in Envelope
  BY DEF Inv, Shape, IngressShape
<1>5. queue[l][i].n \in Nat
  BY <1>4 DEF Envelope
<1> QED  BY <1>2, <1>3, <1>5 DEF LaneFifo

-----------------------------------------------------------------------------
(* Exits.                                                                  *)

(* An exit leaves the join set: for the buffer, or for settle to drop.     *)
LEMMA Joining ==
  ASSUME Inv, Shape', NEW t \in Token, task[t] = "Done",
         task' = [task EXCEPT ![t] = "Joined"],
         UNCHANGED <<registryVars, queue, open, sent, taken, phase, nextToken>>,
         exitBuf' \in {<<>>, Append(exitBuf, t)},
         stage' \in {"settle", "settled"} => Terminating,
         stage # "settled"
  PROVE  Inv'
<1>1. /\ task'[t] = "Joined"
      /\ \A u \in Token : u # t => task'[u] = task[u]
  BY DEF Inv, Shape, IngressShape
<1>2. Closed' /\ Fifo'
  BY DEF Inv, Closed, Fifo, LaneFifo, Terminating
<1>3. Counts'
  <2>1. \A u \in Token : Reservation(u)' = Reservation(u)
    BY <1>1 DEF Reservation, Reserving
  <2> QED  BY <2>1 DEF Inv, Counts, Queued, registryVars
<1>4. Lifetimes'
  <2>1. \A i \in DOMAIN exitBuf' : exitBuf'[i] = t \/
            (i \in DOMAIN exitBuf /\ exitBuf'[i] = exitBuf[i])
    <3>1. exitBuf \in Seq(Token)
      BY DEF Inv, Shape, KernelShape
    <3>2. CASE exitBuf' = <<>>
      BY <3>2
    <3>3. CASE exitBuf' = Append(exitBuf, t)
      BY <3>1, <3>3
    <3> QED  BY <3>2, <3>3
  <2>2. \A i \in DOMAIN exitBuf : exitBuf[i] \in Token
    BY DEF Inv, Shape, KernelShape
  <2> QED  BY <1>1, <2>1, <2>2 DEF Inv, Lifetimes, registryVars
<1>5. Unminted'
  BY <1>1 DEF Inv, Unminted, registryVars
<1>6. Tombstone' /\ PoisonKeepsEntry' /\ KeyedGauge'
  BY DEF Inv, Tombstone, PoisonKeepsEntry, KeyedGauge, registryVars
<1> QED  BY <1>2, <1>3, <1>4, <1>5, <1>6 DEF Inv

(* A reflected exit retires its run only if nothing of it is in flight.    *)
LEMMA Reflecting ==
  ASSUME Inv, Shape', NEW t \in Token, ReflectExit(t)
  PROVE  Inv'
<1>1. /\ task'[t] = "Joined"
      /\ task[t] \in {"Done", "Joined"}
      /\ \A u \in Token : u # t => task'[u] = task[u]
  <2>1. CASE exitBuf # <<>>
    <3>1. 1 \in DOMAIN exitBuf /\ t = exitBuf[1]
      BY <2>1 DEF ReflectExit, Inv, Shape, KernelShape
    <3> QED  BY <2>1, <3>1 DEF ReflectExit, Inv, Lifetimes
  <2>2. CASE exitBuf = <<>>
    BY <2>2 DEF ReflectExit, FinishedTasks, Inv, Shape, IngressShape
  <2> QED  BY <2>1, <2>2
<1>2. \A i \in DOMAIN exitBuf' : \E j \in DOMAIN exitBuf :
                                 exitBuf[j] \in Token /\ exitBuf'[i] = exitBuf[j]
  <2>1. exitBuf \in Seq(Token)
    BY DEF Inv, Shape, KernelShape
  <2>2. CASE exitBuf # <<>>
    <3>1. exitBuf' = Tail(exitBuf)
      BY <2>2 DEF ReflectExit
    <3>2. \A i \in DOMAIN exitBuf' : i + 1 \in DOMAIN exitBuf /\ exitBuf'[i] = exitBuf[i + 1]
      BY <2>1, <2>2, <3>1
    <3> QED  BY <2>1, <3>2
  <2>3. CASE exitBuf = <<>>
    BY <2>1, <2>3 DEF ReflectExit
  <2> QED  BY <2>2, <2>3
<1>3. /\ entry'[t].exited => task'[t] = "Joined"
      /\ \A u \in Token : u # t => entry'[u] = entry[u]
      /\ \A u \in Token : entry'[u].kind = entry[u].kind
  <2>1. CASE t \notin registry
    BY <1>1, <2>1 DEF ReflectExit, OnExit
  <2>2. CASE t \in registry
    <3> DEFINE then == IF RemovalRule(TRUE, pending[t]) THEN entry[t].phase ELSE "Draining"
    <3>1. entry[t] \in Entry
      BY DEF Inv, Shape, RegistryShape
    <3>2. entry' = [entry EXCEPT ![t] = [entry[t] EXCEPT !.exited = TRUE, !.phase = then]]
      BY <2>2, <3>1 DEF ReflectExit, OnExit, Entry, Inv, Shape, RegistryShape
    <3>3. [entry[t] EXCEPT !.exited = TRUE, !.phase = then].kind = entry[t].kind
      BY <3>1 DEF Entry
    <3> HIDE DEF then
    <3> QED  BY <1>1, <3>2, <3>3 DEF Inv, Shape, RegistryShape
  <2> QED  BY <2>1, <2>2
<1>4. /\ Retire(t) \/ UNCHANGED <<registry, keyed>>
      /\ registry' = registry \/ (registry' = registry \ {t} /\ pending[t] = 0)
  BY DEF ReflectExit, OnExit, RemovalRule, Retire
<1>5. Closed' /\ Fifo'
  BY DEF ReflectExit, Inv, Closed, Fifo, LaneFifo, Terminating
<1>6. Counts'
  <2>1. \A u \in Token : Reservation(u)' = Reservation(u)
    BY <1>1 DEF Reservation, Reserving
  <2> QED  BY <2>1 DEF Inv, Counts, Queued, ReflectExit
<1>7. Lifetimes'
  BY <1>1, <1>2, <1>3, <1>4 DEF Inv, Lifetimes
<1>8. Unminted'
  BY <1>1, <1>4 DEF Inv, Unminted, ReflectExit
<1>9. Tombstone'
  <2>1. CASE registry' = registry
    BY <2>1 DEF Inv, Tombstone, ReflectExit
  <2>2. CASE registry' = registry \ {t} /\ pending[t] = 0
    <3>1. \A l \in Lane : \A i \in DOMAIN queue[l] : queue[l][i].origin # t
      BY <2>2, ZeroIsDrained DEF Inv, Closed
    <3> QED  BY <2>2, <3>1 DEF Inv, Tombstone, ReflectExit
  <2> QED  BY <1>4, <2>1, <2>2
<1>10. PoisonKeepsEntry'
  BY <1>4, RegistryAssumption DEF Inv, PoisonKeepsEntry, ReflectExit
<1>11. KeyedGauge'
  BY <1>3, <1>4, RetireGauge DEF Inv, Shape
<1> QED  BY <1>5, <1>6, <1>7, <1>8, <1>9, <1>10, <1>11 DEF Inv

-----------------------------------------------------------------------------
(* Termination.                                                            *)

(* The lanes close and are emptied, and runs are stopped: a quit that      *)
(* dequeues nothing, or a dropped kernel.                                  *)
LEMMA Closing ==
  ASSUME Inv, Shape', StopRequest(registry), phase' = "Terminating", open' = FALSE,
         queue' = [l \in Lane |-> <<>>],
         UNCHANGED <<registry, keyed, pending, task, sent, taken, nextToken, exitBuf>>,
         stage # "settled"
  PROVE  Inv'
<1>1. SameRuns
  BY StopRequestSameRuns DEF Inv, Shape
<1>2. Closed' /\ Fifo' /\ Tombstone'
  BY DEF Closed, Fifo, Tombstone, Terminating
<1>3. Counts'
  <2> SUFFICES ASSUME NEW t \in Token
               PROVE  /\ pending[t] \in 0..Ceiling
                      /\ pending[t] = Ceiling \/ pending[t] >= Reservation(t)
    BY DEF Counts, Reservation
  <2>1. Reservation(t) \in {0, 1}
    BY DEF Reservation
  <2>2. CASE open
    <3>1. \A l \in Lane : LaneFifo(l)
      BY <2>2 DEF Inv, Fifo
    <3>2. \A l \in Lane : Queued(l, t) \in Nat
      BY <3>1 DEF LaneFifo, Queued, Inv, Shape, IngressShape
    <3>3. Queued("data", t) \in Nat /\ Queued("control", t) \in Nat
      BY <3>2 DEF Lane
    <3> QED  BY <2>1, <2>2, <3>3 DEF Inv, Counts
  <2>3. CASE ~open
    BY <2>3 DEF Inv, Counts
  <2> QED  BY <2>2, <2>3
<1>4. Lifetimes' /\ Unminted' /\ PoisonKeepsEntry'
  BY <1>1 DEF Inv, Lifetimes, Unminted, PoisonKeepsEntry, SameRuns
<1>5. KeyedGauge'
  <2>1. {t \in registry' : entry'[t].kind = "Keyed"} = {t \in registry : entry[t].kind = "Keyed"}
    BY <1>1 DEF Inv, Shape, RegistryShape, SameRuns
  <2> QED  BY <2>1 DEF Inv, KeyedGauge
<1> QED  BY <1>2, <1>3, <1>4, <1>5 DEF Inv

(* The quit paths that dequeue nothing.                                    *)
LEMMA Quitting ==
  ASSUME Inv, Shape', NEW why \in {"Quit", "RenderError"}, ApplyQuit(why, registry),
         UNCHANGED <<registry, keyed, pending, task, sent, taken, nextToken, exitBuf>>,
         stage # "settled"
  PROVE  Inv'
BY Closing DEF ApplyQuit

(* A producer's quit is dequeued, then applied.                            *)
LEMMA DrainingQuit ==
  ASSUME Inv, Shape', DrainQuit
  PROVE  Inv'
<1>1. "control" \in Lane /\ queue["control"] # <<>>
  BY DEF Lane, DrainQuit
<1>2. SameRuns
  BY StopRequestSameRuns DEF DrainQuit, ApplyQuit, Inv, Shape
<1>3. /\ \A t \in Token :
            /\ pending'[t] \in 0..Ceiling
            /\ \/ pending'[t] = Ceiling
               \/ pending'[t] = Queued("data", t)' + Queued("control", t)' + Reservation(t)'
      /\ Lifetimes' /\ Unminted' /\ KeyedGauge'
      /\ \A t \in Token : pending'[t] = Ceiling => t \in registry' \/ stage = "settled"
  BY <1>1, <1>2, DequeueCounts DEF DrainQuit
<1>4. Closed' /\ Fifo' /\ Tombstone'
  BY DEF DrainQuit, ApplyQuit, Closed, Fifo, Tombstone, Terminating
<1>5. Counts'
  <2> SUFFICES ASSUME NEW t \in Token
               PROVE  pending'[t] = Ceiling \/ pending'[t] >= Reservation(t)'
    BY <1>3 DEF DrainQuit, ApplyQuit, Counts
  <2>1. Queued("data", t)' \in Nat /\ Queued("control", t)' \in Nat
    BY <1>1, StillQueued DEF DrainQuit
  <2>2. Reservation(t)' \in {0, 1}
    BY DEF Reservation
  <2> QED  BY <1>3, <2>1, <2>2
<1>6. PoisonKeepsEntry'
  BY <1>3 DEF DrainQuit, PoisonKeepsEntry
<1> QED  BY <1>3, <1>4, <1>5, <1>6 DEF Inv

(* A settled kernel has no entry left.                                     *)
LEMMA Settling ==
  ASSUME Inv, Shape', Settle
  PROVE  Inv'
<1>1. Closed' /\ Fifo' /\ Tombstone'
  BY DEF Settle, Inv, Closed, Fifo, LaneFifo, Terminating, Tombstone, ingressVars
<1>2. Counts' /\ PoisonKeepsEntry'
  BY DEF Settle, Inv, Counts, Queued, Reservation, PoisonKeepsEntry, ingressVars
<1>3. Lifetimes'
  BY DEF Settle, Inv, Lifetimes, ingressVars
<1>4. Unminted'
  BY DEF Settle, Clear, Inv, Unminted, ingressVars
<1>5. KeyedGauge'
  BY FS_EmptySet DEF Settle, Clear, KeyedGauge
<1> QED  BY <1>1, <1>2, <1>3, <1>4, <1>5 DEF Inv

-----------------------------------------------------------------------------
(* Producers.                                                              *)

(* A task that moves on, short of being joined.                            *)
LEMMA Moving ==
  ASSUME Inv, NEW t \in Token, task[t] \in Reserving \cup {"Live"},
         NEW s \in Reserving \cup {"Live", "Done"}, task' = [task EXCEPT ![t] = s],
         UNCHANGED <<registry, entry, keyed, open, kernelVars>>
  PROVE  /\ t \in registry
         /\ task'[t] = s
         /\ \A u \in Token : u # t => task'[u] = task[u] /\ Reservation(u)' = Reservation(u)
         /\ Lifetimes' /\ Unminted' /\ KeyedGauge'
         /\ Terminating' <=> Terminating
<1>1. t \in registry
  BY DEF Inv, Lifetimes, Reserving
<1>2. /\ task'[t] = s
      /\ \A u \in Token : u # t => task'[u] = task[u]
  BY DEF Inv, Shape, IngressShape
<1>3. \A u \in Token : u # t => Reservation(u)' = Reservation(u)
  BY <1>2 DEF Reservation
<1>4. Lifetimes'
  <2>1. \A i \in DOMAIN exitBuf : exitBuf[i] \in Token
    BY DEF Inv, Shape, KernelShape
  <2> QED  BY <1>1, <1>2, <2>1 DEF Inv, Lifetimes, kernelVars, Reserving
<1>5. Unminted'
  BY <1>1, <1>2 DEF Inv, Unminted, kernelVars
<1>6. KeyedGauge' /\ (Terminating' <=> Terminating)
  BY DEF Inv, KeyedGauge, kernelVars, Terminating
<1> QED  BY <1>1, <1>2, <1>3, <1>4, <1>5, <1>6

(* send_payload reserves before it sends.                                  *)
LEMMA Beginning ==
  ASSUME Inv, Shape', NEW t \in Token, NEW l \in Lane, BeginSend(t, l), UNCHANGED kernelVars
  PROVE  Inv'
<1> DEFINE s == IF l = "data" THEN "SendData" ELSE "SendControl"
<1>1. s \in Reserving /\ task[t] = "Live" /\ task' = [task EXCEPT ![t] = s]
  BY DEF BeginSend, Reserving
<1>2. /\ t \in registry /\ task'[t] \in Reserving
      /\ \A u \in Token : u # t => task'[u] = task[u] /\ Reservation(u)' = Reservation(u)
      /\ Lifetimes' /\ Unminted' /\ KeyedGauge'
      /\ Terminating' <=> Terminating
  BY <1>1, Moving DEF BeginSend
<1>3. /\ pending'[t] = Reserve(pending[t])
      /\ \A u \in Token : u # t => pending'[u] = pending[u]
  BY DEF BeginSend, Inv, Shape, RegistryShape
<1>4. Closed' /\ Fifo' /\ Tombstone'
  BY <1>2 DEF BeginSend, Inv, Closed, Fifo, LaneFifo, Tombstone, kernelVars
<1>5. Counts'
  <2>1. Reservation(t) = 0 /\ Reservation(t)' = 1
    BY <1>1, <1>2 DEF Reservation, Reserving
  <2>2. \A u \in Token : /\ Queued("data", u)' = Queued("data", u)
                         /\ Queued("control", u)' = Queued("control", u)
    BY DEF BeginSend, Queued
  <2>3. ASSUME NEW u \in Token, u # t
        PROVE  /\ pending'[u] = pending[u]
               /\ Reservation(u)' = Reservation(u)
    BY <1>2, <1>3, <2>3
  <2>4. /\ pending'[t] \in 0..Ceiling
        /\ \/ pending'[t] = Ceiling
           \/ /\ open
              /\ pending'[t] = Queued("data", t) + Queued("control", t) + 1
           \/ /\ ~open
              /\ pending'[t] >= 1
    <3> DEFINE d == Queued("data", t)
               c == Queued("control", t)
    <3>1. d \in Int /\ c \in Int
      BY DEF Queued, Inv, Shape, IngressShape, Lane
    <3>2. /\ pending[t] \in 0..Ceiling
          /\ \/ pending[t] = Ceiling
             \/ open /\ pending[t] = d + c
             \/ ~open /\ pending[t] >= 0
      BY <2>1, <3>1 DEF Inv, Counts
    <3> SUFFICES /\ pending'[t] \in 0..Ceiling
                 /\ \/ pending'[t] = Ceiling
                    \/ open /\ pending'[t] = d + c + 1
                    \/ ~open /\ pending'[t] >= 1
      OBVIOUS
    <3> HIDE DEF d, c
    <3>3. CASE pending[t] = Ceiling
      BY <1>3, <3>2, <3>3, RegistryAssumption DEF Reserve
    <3>4. CASE pending[t] # Ceiling
      <4>1. pending'[t] = pending[t] + 1
        BY <1>3, <3>4 DEF Reserve
      <4>2. pending'[t] \in 0..Ceiling
        BY <3>2, <3>4, <4>1, RegistryAssumption
      <4>3. CASE open /\ pending[t] = d + c
        BY <3>1, <4>1, <4>2, <4>3
      <4>4. CASE ~open /\ pending[t] >= 0
        BY <3>2, <4>1, <4>2, <4>4
      <4> QED  BY <3>2, <3>4, <4>3, <4>4
    <3> QED  BY <3>3, <3>4
  <2>5. open' = open
    BY DEF BeginSend
  <2> QED  BY <2>1, <2>2, <2>3, <2>4, <2>5 DEF Inv, Counts
<1>6. PoisonKeepsEntry'
  BY <1>2, <1>3 DEF BeginSend, Inv, PoisonKeepsEntry, kernelVars
<1> QED  BY <1>2, <1>4, <1>5, <1>6 DEF Inv

(* A reservation given back: its send failed, or its task was dropped.     *)
LEMMA Releasing ==
  ASSUME Inv, Shape', NEW t \in Token, task[t] \in Reserving \cup {"Live"},
         ReleaseOnDrop(t), task' = [task EXCEPT ![t] = "Done"],
         UNCHANGED <<registry, entry, keyed, open, queue, sent, taken, kernelVars>>
  PROVE  Inv'
<1>1. /\ t \in registry /\ task'[t] = "Done"
      /\ \A u \in Token : u # t => task'[u] = task[u] /\ Reservation(u)' = Reservation(u)
      /\ Lifetimes' /\ Unminted' /\ KeyedGauge'
      /\ Terminating' <=> Terminating
  BY Moving
<1>2. /\ Reservation(t)' = 0 /\ Reservation(t) \in {0, 1}
      /\ pending'[t] = IF Reservation(t) = 1 THEN Decrement(pending[t]) ELSE pending[t]
      /\ \A u \in Token : u # t => pending'[u] = pending[u]
  BY <1>1 DEF ReleaseOnDrop, Reservation, Reserving, Inv, Shape, RegistryShape
<1>3. Closed' /\ Fifo' /\ Tombstone'
  BY <1>1 DEF Inv, Closed, Fifo, LaneFifo, Tombstone, kernelVars
<1>4. /\ pending'[t] \in 0..Ceiling
      /\ pending'[t] = Ceiling => pending[t] = Ceiling
      /\ \/ pending'[t] = Ceiling
         \/ open /\ pending'[t] = Queued("data", t) + Queued("control", t)
         \/ ~open /\ pending'[t] >= 0
  <2> DEFINE d == Queued("data", t)
             c == Queued("control", t)
             r == Reservation(t)
  <2>1. d + c \in Nat \/ ~open
    <3>1. CASE open
      <4>1. \A l \in Lane : LaneFifo(l)
        BY <3>1 DEF Inv, Fifo
      <4>2. \A l \in Lane : Queued(l, t) \in Nat
        BY <4>1 DEF LaneFifo, Queued, Inv, Shape, IngressShape
      <4>3. d \in Nat /\ c \in Nat
        BY <4>2 DEF Lane
      <4> HIDE DEF d, c
      <4> QED  BY <4>3
    <3> QED  BY <3>1
  <2>2. d \in Int /\ c \in Int
    BY DEF Queued, Inv, Shape, IngressShape, Lane
  <2>3. /\ pending[t] \in 0..Ceiling
        /\ \/ pending[t] = Ceiling
           \/ open /\ pending[t] = d + c + r
           \/ ~open /\ pending[t] >= r
    BY DEF Inv, Counts
  <2>4. r \in {0, 1} /\ pending'[t] = IF r = 1 THEN Decrement(pending[t]) ELSE pending[t]
    BY <1>2
  <2> SUFFICES /\ pending'[t] \in 0..Ceiling
               /\ pending'[t] = Ceiling => pending[t] = Ceiling
               /\ \/ pending'[t] = Ceiling
                  \/ open /\ pending'[t] = d + c
                  \/ ~open /\ pending'[t] >= 0
    OBVIOUS
  <2> HIDE DEF d, c, r
  <2>5. CASE pending[t] = Ceiling
    BY <2>3, <2>4, <2>5, RegistryAssumption DEF Decrement
  <2>6. CASE pending[t] # Ceiling
    <3>1. pending'[t] = pending[t] - r
      BY <2>3, <2>4, <2>6 DEF Decrement
    <3>2. CASE open /\ pending[t] = d + c + r
      BY <2>1, <2>2, <2>3, <2>4, <2>6, <3>1, <3>2, RegistryAssumption
    <3>3. CASE ~open /\ pending[t] >= r
      BY <2>3, <2>4, <2>6, <3>1, <3>3, RegistryAssumption
    <3> QED  BY <2>3, <2>6, <3>2, <3>3
  <2> QED  BY <2>5, <2>6
<1>5. Counts'
  <2>1. \A u \in Token : /\ Queued("data", u)' = Queued("data", u)
                         /\ Queued("control", u)' = Queued("control", u)
    BY DEF Queued
  <2>2. Queued("data", t) \in Int /\ Queued("control", t) \in Int
    BY DEF Queued, Inv, Shape, IngressShape, Lane
  <2>3. ASSUME NEW u \in Token, u # t
        PROVE  pending'[u] = pending[u] /\ Reservation(u)' = Reservation(u)
    BY <1>1, <1>2, <2>3
  <2> QED  BY <1>2, <1>4, <2>1, <2>2, <2>3 DEF Inv, Counts
<1>6. PoisonKeepsEntry'
  BY <1>1, <1>2, <1>4 DEF Inv, PoisonKeepsEntry, kernelVars
<1> QED  BY <1>1, <1>3, <1>5, <1>6 DEF Inv

(* A task that moves on and leaves lanes and counters alone.               *)
LEMMA Moved ==
  ASSUME Inv, Shape', NEW t \in Token, BlockSend(t) \/ Finish(t), UNCHANGED kernelVars
  PROVE  Inv'
<1> DEFINE s == IF task[t] = "SendData" THEN "Blocked" ELSE "Done"
<1>1. /\ task[t] \in Reserving \cup {"Live"}
      /\ s \in Reserving \cup {"Live", "Done"}
      /\ s \in Reserving <=> task[t] \in Reserving
      /\ task' = [task EXCEPT ![t] = s]
      /\ UNCHANGED <<registryVars, open, queue, sent, taken, kernelVars>>
  BY DEF BlockSend, Finish, Reserving
<1> HIDE DEF s
<1>2. /\ task'[t] = s
      /\ \A u \in Token : u # t => Reservation(u)' = Reservation(u)
      /\ Lifetimes' /\ Unminted' /\ KeyedGauge'
      /\ Terminating' <=> Terminating
  BY <1>1, Moving DEF registryVars
<1>3. \A u \in Token : Reservation(u)' = Reservation(u)
  BY <1>1, <1>2 DEF Reservation
<1>4. Counts'
  BY <1>1, <1>3 DEF Inv, Counts, Queued, registryVars
<1>5. Closed' /\ Fifo' /\ Tombstone' /\ PoisonKeepsEntry'
  BY <1>1, <1>2 DEF Inv, Closed, Fifo, LaneFifo, Tombstone, PoisonKeepsEntry, registryVars,
                    kernelVars
<1> QED  BY <1>2, <1>4, <1>5 DEF Inv

(* The lane accepts the envelope: the next number of its run, at the end.  *)
LEMMA Completing ==
  ASSUME Inv, Shape', NEW t \in Token, CompleteSend(t), UNCHANGED kernelVars
  PROVE  Inv'
<1>0. PICK l \in Lane : l = LaneOf(t)
  BY DEF LaneOf, Lane
<1> DEFINE e == [origin |-> t, n |-> sent'[l][t]]
<1>1. /\ task[t] \in Reserving
      /\ task' = [task EXCEPT ![t] = "Live"]
      /\ open /\ open'
      /\ sent' = [sent EXCEPT ![l][t] = @ + 1]
      /\ queue' = [queue EXCEPT ![l] = Append(@, e)]
      /\ UNCHANGED <<registry, entry, keyed, pending, taken>>
  BY <1>0 DEF CompleteSend, registryVars
<1>2. /\ t \in registry /\ task'[t] = "Live"
      /\ \A u \in Token : u # t => task'[u] = task[u] /\ Reservation(u)' = Reservation(u)
      /\ Lifetimes' /\ Unminted' /\ KeyedGauge'
      /\ Terminating' <=> Terminating
  BY <1>1, Moving
<1>3. \A m \in Lane, u \in Token :
        /\ sent'[m][u] = IF m = l /\ u = t THEN sent[m][u] + 1 ELSE sent[m][u]
        /\ sent[m][u] \in Nat /\ taken[m][u] \in Nat
  BY <1>1 DEF Inv, Shape, IngressShape
<1>4. /\ queue[l] \in Seq(Envelope)
      /\ queue'[l] = Append(queue[l], e)
      /\ \A m \in Lane : m # l => queue'[m] = queue[m]
  BY <1>1 DEF Inv, Shape, IngressShape
<1>5. \A m \in Lane : LaneFifo(m)
  BY <1>1 DEF Inv, Fifo
<1>6. Closed'
  BY <1>1, <1>2 DEF Inv, Closed, kernelVars
<1>7. Fifo'
  <2>1. ASSUME NEW m \in Lane, m # l PROVE LaneFifo(m)'
    BY <1>1, <1>3, <1>4, <1>5, <2>1 DEF LaneFifo, Inv, Shape, IngressShape, Envelope
  <2>2. LaneFifo(l)'
    <3>1. /\ DOMAIN queue[l] = 1..Len(queue[l])
          /\ Len(queue[l]) \in Nat
          /\ DOMAIN queue'[l] = 1..(Len(queue[l]) + 1)
          /\ \A i \in DOMAIN queue[l] : queue'[l][i] = queue[l][i] /\ queue[l][i] \in Envelope
          /\ queue'[l][Len(queue[l]) + 1] = e
      BY <1>4
    <3>2. e.origin = t /\ e.n = sent[l][t] + 1
      BY <1>1, <1>3
    <3> HIDE DEF e
    <3>3. \A u \in Token : taken'[l][u] <= sent'[l][u]
      BY <1>1, <1>3, <1>5 DEF LaneFifo
    <3>4. \A i \in DOMAIN queue[l] : queue[l][i].origin \in Token /\ queue[l][i].n \in Nat
      BY <3>1 DEF Envelope
    <3>5. ASSUME NEW i \in DOMAIN queue'[l]
          PROVE  /\ taken'[l][queue'[l][i].origin] < queue'[l][i].n
                 /\ queue'[l][i].n <= sent'[l][queue'[l][i].origin]
      <4>1. CASE i \in DOMAIN queue[l]
        <5>1. queue[l][i].n <= sent[l][queue[l][i].origin]
              /\ taken[l][queue[l][i].origin] < queue[l][i].n
          BY <1>1, <1>5, <4>1 DEF LaneFifo
        <5> QED  BY <1>1, <1>3, <3>1, <3>4, <4>1, <5>1
      <4>2. CASE i = Len(queue[l]) + 1
        <5>1. taken[l][t] <= sent[l][t]
          BY <1>1, <1>5 DEF LaneFifo
        <5> QED  BY <1>1, <1>3, <3>1, <3>2, <4>2, <5>1
      <4> QED  BY <3>1, <4>1, <4>2
    <3>6. ASSUME NEW i \in DOMAIN queue'[l], NEW j \in DOMAIN queue'[l],
                 i < j, queue'[l][i].origin = queue'[l][j].origin
          PROVE  queue'[l][i].n < queue'[l][j].n
      <4>1. CASE j \in DOMAIN queue[l]
        <5>1. i \in DOMAIN queue[l]
          BY <3>1, <3>6, <4>1
        <5> QED  BY <1>1, <1>5, <3>1, <3>6, <4>1, <5>1 DEF LaneFifo
      <4>2. CASE j = Len(queue[l]) + 1
        <5>1. i \in DOMAIN queue[l]
          BY <3>1, <3>6, <4>2
        <5>2. queue[l][i].n <= sent[l][t] /\ queue[l][i].n \in Nat
          BY <1>1, <1>5, <3>1, <3>2, <3>4, <3>6, <4>2, <5>1 DEF LaneFifo
        <5> QED  BY <1>1, <1>3, <3>1, <3>2, <4>2, <5>1, <5>2
      <4> QED  BY <3>1, <4>1, <4>2
    <3>7. ASSUME NEW u \in Token, NEW n \in (taken'[l][u] + 1)..sent'[l][u]
          PROVE  \E i \in DOMAIN queue'[l] : queue'[l][i].origin = u /\ queue'[l][i].n = n
      <4>1. CASE n \in (taken[l][u] + 1)..sent[l][u]
        <5>1. PICK i \in DOMAIN queue[l] : queue[l][i].origin = u /\ queue[l][i].n = n
          BY <1>1, <1>5, <4>1 DEF LaneFifo
        <5> QED  BY <3>1, <5>1
      <4>2. CASE n \notin (taken[l][u] + 1)..sent[l][u]
        <5>1. u = t /\ n = sent[l][t] + 1
          BY <1>1, <1>3, <3>7, <4>2
        <5>2. Len(queue[l]) + 1 \in DOMAIN queue'[l]
          BY <3>1
        <5> QED  BY <3>1, <3>2, <5>1, <5>2
      <4> QED  BY <4>1, <4>2
    <3> QED  BY <3>3, <3>5, <3>6, <3>7 DEF LaneFifo
  <2> QED  BY <2>1, <2>2 DEF Fifo
<1>8. Counts'
  <2>1. Reservation(t) = 1 /\ Reservation(t)' = 0
    BY <1>1, <1>2 DEF Reservation, Reserving
  <2>2. ASSUME NEW u \in Token, u # t
        PROVE  /\ Queued("data", u)' = Queued("data", u)
               /\ Queued("control", u)' = Queued("control", u)
               /\ Reservation(u)' = Reservation(u)
    BY <1>1, <1>2, <1>3, <2>2 DEF Queued, Lane
  <2>3. /\ Queued("data", t) \in Int /\ Queued("control", t) \in Int
        /\ Queued("data", t)' + Queued("control", t)' = Queued("data", t) + Queued("control", t) + 1
    <3>1. /\ "data" \in Lane /\ "control" \in Lane
          /\ l = "data" \/ l = "control"
      BY <1>1 DEF Lane
    <3> DEFINE d == Queued("data", t)
               c == Queued("control", t)
    <3>2. d \in Int /\ c \in Int
      BY <1>3, <3>1 DEF Queued
    <3>3. CASE l = "data"
      <4>1. /\ sent'["data"][t] = sent["data"][t] + 1
            /\ sent'["control"][t] = sent["control"][t]
            /\ taken' = taken
        BY <1>1, <1>3, <3>1, <3>3
      <4>2. d' = d + 1 /\ c' = c
        BY <1>3, <3>1, <4>1 DEF Queued
      <4> HIDE DEF d, c
      <4>3. d' + c' = d + c + 1
        BY <3>2, <4>2
      <4> QED  BY <3>2, <4>3 DEF d, c
    <3>4. CASE l = "control"
      <4>1. /\ sent'["control"][t] = sent["control"][t] + 1
            /\ sent'["data"][t] = sent["data"][t]
            /\ taken' = taken
        BY <1>1, <1>3, <3>1, <3>4
      <4>2. c' = c + 1 /\ d' = d
        BY <1>3, <3>1, <4>1 DEF Queued
      <4> HIDE DEF d, c
      <4>3. d' + c' = d + c + 1
        BY <3>2, <4>2
      <4> QED  BY <3>2, <4>3 DEF d, c
    <3> QED  BY <3>1, <3>3, <3>4
  <2>4. \A u \in Token :
          /\ pending'[u] \in 0..Ceiling
          /\ \/ pending'[u] = Ceiling
             \/ pending'[u] = Queued("data", u)' + Queued("control", u)' + Reservation(u)'
    <3> SUFFICES ASSUME NEW u \in Token
                 PROVE  /\ pending'[u] \in 0..Ceiling
                        /\ \/ pending'[u] = Ceiling
                           \/ pending'[u] = Queued("data", u)' + Queued("control", u)'
                                               + Reservation(u)'
      OBVIOUS
    <3>1. /\ pending'[u] \in 0..Ceiling
          /\ \/ pending'[u] = Ceiling
             \/ pending'[u] = Queued("data", u) + Queued("control", u) + Reservation(u)
      BY <1>1 DEF Inv, Counts
    <3>2. CASE u = t
      BY <2>1, <2>3, <3>1, <3>2
    <3>3. CASE u # t
      BY <2>2, <3>1, <3>3
    <3> QED  BY <3>2, <3>3
  <2> QED  BY <1>1, <2>4 DEF Counts
<1>9. Tombstone'
  <2> SUFFICES ASSUME NEW m \in Lane, NEW i \in DOMAIN queue'[m]
               PROVE  queue'[m][i].origin \in registry
    BY <1>1 DEF Tombstone
  <2>1. CASE i \in DOMAIN queue[m] /\ queue'[m][i] = queue[m][i]
    BY <2>1 DEF Inv, Tombstone
  <2>2. CASE queue'[m][i] = e
    BY <1>2, <2>2
  <2>3. (i \in DOMAIN queue[m] /\ queue'[m][i] = queue[m][i]) \/ queue'[m][i] = e
    BY <1>4
  <2> QED  BY <2>1, <2>2, <2>3
<1>10. PoisonKeepsEntry'
  BY <1>1 DEF Inv, PoisonKeepsEntry, kernelVars
<1> QED  BY <1>2, <1>6, <1>7, <1>8, <1>9, <1>10 DEF Inv

-----------------------------------------------------------------------------
(* The actions, by the part of the kernel they belong to.                  *)

(* Dispatch of a returned command.                                         *)
LEMMA DispatchInv ==
  ASSUME Inv, Shape', DispatchNext
  PROVE  Inv'
<1>0. Dispatching => /\ Head(todo) \in Step
                     /\ Head(todo).id \in Ids
                     /\ Head(todo).scope \in Scopes
                     /\ stage \in {"bootDispatch", "dispatch"}
  <2>1. Dispatching => Head(todo) \in Step
    BY DEF Inv, Shape, KernelShape, Dispatching
  <2> QED  BY <2>1 DEF Step, Dispatching
<1>1. CASE CancelStep
  <2>1. SameRuns
    BY <1>1, StopRequestSameRuns DEF CancelStep, Inv, Shape
  <2> QED  BY <1>0, <1>1, <2>1, Quiet DEF CancelStep, NextStep, ingressVars, Terminating
<1>2. CASE TeardownStep
  <2>1. SameRuns
    BY <1>2, StopRequestSameRuns DEF TeardownStep, Inv, Shape
  <2> QED  BY <1>0, <1>2, <2>1, Quiet DEF TeardownStep, NextStep, ingressVars, Terminating
<1>3. CASE FinalizeStep
  <2>1. CASE NoStart
    BY <1>0, <1>3, <2>1, Quiet
    DEF FinalizeStep, NextStep, NoStart, SameRuns, registryVars, ingressVars, Terminating
  <2>2. ASSUME NEW i \in ArmedUnder(Head(todo).scope),
               StartRun({}, "Cleanup", NoId, ledger[i])
        PROVE  Inv'
    <3>1. ledger[i] \in Scopes /\ NoId \in Ids
      BY DEF ArmedUnder, Inv, Shape, KernelShape, Ids
    <3> QED  BY <1>3, <2>2, <3>1, Starting DEF FinalizeStep
  <2> QED  BY <1>3, <2>1, <2>2 DEF FinalizeStep, FirstArmed
<1>4. CASE SpawnStep
  <2> DEFINE s == Head(todo)
             kind == IF s.id = NoId THEN "Anon" ELSE "Keyed"
  <2>1. CASE NoStart
    BY <1>0, <1>4, <2>1, Quiet
    DEF SpawnStep, NextStep, NoStart, SameRuns, registryVars, ingressVars, Terminating
  <2>2. ASSUME NEW S, StartRun(S, kind, s.id, s.scope)
        PROVE  Inv'
    <3>1. s.id \in Ids /\ s.scope \in Scopes /\ kind \in {"Keyed", "Anon", "Sub", "Cleanup"}
      BY <1>0, <1>4 DEF SpawnStep, NextStep
    <3>2. UNCHANGED <<phase, stage, exitBuf>>
      BY <1>4 DEF SpawnStep
    <3> HIDE DEF s, kind
    <3> QED  BY <2>2, <3>1, <3>2, Starting
  <2> QED  BY <1>4, <2>1, <2>2 DEF SpawnStep
<1>5. CASE RegisterStep
  BY <1>0, <1>5, Quiet
  DEF RegisterStep, NextStep, SameRuns, registryVars, ingressVars, Terminating
<1>6. CASE QuitStep
  BY <1>0, <1>6, Quitting DEF QuitStep, NextStep
<1>7. CASE EndDispatch
  BY <1>7, Quiet DEF EndDispatch, SameRuns, registryVars, ingressVars, Terminating
<1>8. CASE EndDispatchQuit
  BY <1>8, Quiet DEF EndDispatchQuit, SameRuns, registryVars, ingressVars, Terminating
<1> QED  BY <1>1, <1>2, <1>3, <1>4, <1>5, <1>6, <1>7, <1>8 DEF DispatchNext

(* Bootstrap and the admission loop.                                       *)
LEMMA BootInv ==
  ASSUME Inv, Shape'
  PROVE  /\ \A cmd \in program.commands, decl \in program.declarations :
              Boot(cmd, decl) => Inv'
         /\ BootReconcile \/ BootEnd \/ AdmitStep => Inv'
<1>1. ASSUME NEW cmd \in program.commands, NEW decl \in program.declarations,
             Boot(cmd, decl)
      PROVE  Inv'
  BY <1>1, Quiet DEF Boot, SameRuns, registryVars, ingressVars, Terminating
<1>2. CASE BootReconcile
  <2>1. SameRuns
    BY <1>2, StopRequestSameRuns DEF BootReconcile, Reconcile, Inv, Shape
  <2> QED  BY <1>2, <2>1, Quiet DEF BootReconcile, ingressVars, Terminating
<1>3. CASE BootEnd
  BY <1>3, Quiet DEF BootEnd, SameRuns, registryVars, ingressVars, Terminating
<1>4. CASE AdmitStep
  <2> DEFINE s == Head(todo)
  <2>1. CASE NoStart
    BY <1>4, <2>1, Quiet
    DEF AdmitStep, NoStart, SameRuns, registryVars, ingressVars, Terminating
  <2>2. CASE StartRun({}, "Sub", s.id, s.scope)
    <3>1. s \in Step
      BY <1>4 DEF AdmitStep, Inv, Shape, KernelShape
    <3>2. s.id \in Ids /\ s.scope \in Scopes
      BY <3>1 DEF Step
    <3>3. UNCHANGED <<phase, stage, exitBuf>>
      BY <1>4 DEF AdmitStep
    <3> HIDE DEF s
    <3> QED  BY <2>2, <3>2, <3>3, Starting
  <2> QED  BY <1>4, <2>1, <2>2 DEF AdmitStep
<1> QED  BY <1>1, <1>2, <1>3, <1>4

(* The driving loop.                                                       *)
LEMMA LoopInv ==
  ASSUME Inv, Shape', LoopNext
  PROVE  Inv'
<1>1. CASE BeginPass
  BY <1>1, Quiet DEF BeginPass, SameRuns, registryVars, ingressVars, Terminating
<1>2. CASE Park
  BY <1>2, Quiet DEF Park, SameRuns, registryVars, ingressVars, Terminating
<1>3. ASSUME NEW t \in Token, BeginPassOnExit(t) \/ WakeOnExit(t)
      PROVE  Inv'
  <2>1. /\ task[t] = "Done"
        /\ task' = [task EXCEPT ![t] = "Joined"]
        /\ UNCHANGED <<registryVars, queue, open, sent, taken, phase, nextToken>>
        /\ exitBuf' = Append(exitBuf, t)
        /\ stage' \in {"exits", "loop"}
        /\ stage \in {"loop", "parked"}
    BY <1>3 DEF BeginPassOnExit, WakeOnExit, BufferExit
  <2> QED  BY <2>1, Joining
<1>4. ASSUME NEW l \in Lane, WakeOnLane(l)
      PROVE  Inv'
  BY <1>4, Quiet DEF WakeOnLane, SameRuns, registryVars, Terminating
<1> QED  BY <1>1, <1>2, <1>3, <1>4 DEF LoopNext

(* The pass.                                                               *)
LEMMA PassInv ==
  ASSUME Inv, Shape', PassNext
  PROVE  Inv'
<1>1. CASE \E t \in Token : ReflectExit(t)
  BY <1>1, Reflecting
<1>2. CASE EndExits
  BY <1>2, Quiet DEF EndExits, SameRuns, registryVars, ingressVars, Terminating
<1>3. CASE DrainRevokedQuit
  <2>1. "control" \in Lane
    BY DEF Lane
  <2> QED  BY <1>3, <2>1, Dequeuing DEF DrainRevokedQuit, kernelVars
<1>4. CASE DrainQuit
  BY <1>4, DrainingQuit
<1>5. CASE EndControl
  BY <1>5, Quiet DEF EndControl, SameRuns, registryVars, ingressVars, Terminating
<1>6. "data" \in Lane
  BY DEF Lane
<1>7. CASE InputDiscard
  BY <1>6, <1>7, Dequeuing DEF InputDiscard, BatchDequeue
<1>8. ASSUME NEW cmd \in program.commands, NEW decl \in program.declarations,
             InputReduce(cmd, decl)
      PROVE  Inv'
  BY <1>6, <1>8, Dequeuing DEF InputReduce, BatchDequeue
<1>9. CASE EndBatch
  BY <1>9, Quiet DEF EndBatch, SameRuns, registryVars, ingressVars, Terminating
<1>10. CASE Render
  BY <1>10, Quiet DEF Render, SameRuns, registryVars, ingressVars, Terminating
<1>11. CASE RenderError
  BY <1>11, Quitting DEF RenderError
<1>12. CASE FrameReconcile
  <2>1. SameRuns
    BY <1>12, StopRequestSameRuns DEF FrameReconcile, Reconcile, Inv, Shape
  <2> QED  BY <1>12, <2>1, Quiet DEF FrameReconcile, ingressVars, Terminating
<1>13. CASE EndPass
  BY <1>13, Quiet DEF EndPass, SameRuns, registryVars, ingressVars, Terminating
<1> QED  BY <1>1, <1>2, <1>3, <1>4, <1>5, <1>7, <1>8, <1>9, <1>10, <1>11, <1>12, <1>13
         DEF PassNext

(* The producers.                                                          *)
LEMMA ProducerInv ==
  ASSUME Inv, Shape', ProducerNext
  PROVE  Inv'
<1>1. ASSUME NEW t \in Token, NEW l \in Lane, BeginSend(t, l), UNCHANGED kernelVars
      PROVE  Inv'
  BY <1>1, Beginning
<1>2. ASSUME NEW t \in Token, CompleteSend(t), UNCHANGED kernelVars
      PROVE  Inv'
  BY <1>2, Completing
<1>3. ASSUME NEW t \in Token, BlockSend(t) \/ Finish(t), UNCHANGED kernelVars
      PROVE  Inv'
  BY <1>3, Moved
<1>4. ASSUME NEW t \in Token, FailSend(t) \/ Cancel(t), UNCHANGED kernelVars
      PROVE  Inv'
  <2>1. /\ task[t] \in Reserving \cup {"Live"}
        /\ ReleaseOnDrop(t)
        /\ task' = [task EXCEPT ![t] = "Done"]
        /\ UNCHANGED <<registry, entry, keyed, open, queue, sent, taken>>
    BY <1>4 DEF FailSend, Cancel, ReleaseOnDrop, Reserving
  <2> QED  BY <1>4, <2>1, Releasing
<1> QED  BY <1>1, <1>2, <1>3, <1>4 DEF ProducerNext, SendStep

-----------------------------------------------------------------------------
(* The theorems.                                                           *)

(* Init establishes the invariant.                                         *)
LEMMA InitInv == Init => Inv
<1> SUFFICES ASSUME Init PROVE Inv
  OBVIOUS
<1>1. Shape
  BY InitShape
<1>2. Closed
  BY DEF Init, IngressInit, Closed, Terminating
<1>3. Fifo
  BY DEF Init, IngressInit, Fifo, LaneFifo
<1>4. Counts
  <2>1. "data" \in Lane /\ "control" \in Lane
    BY DEF Lane
  <2>2. \A t \in Token : /\ Queued("data", t) = 0
                         /\ Queued("control", t) = 0
                         /\ Reservation(t) = 0
                         /\ pending[t] = 0
    BY <2>1 DEF Init, IngressInit, RegistryInit, Queued, Reservation, Reserving
  <2> QED  BY <2>2, RegistryAssumption DEF Counts, Init, IngressInit
<1>5. Lifetimes /\ Unminted
  BY DEF Init, IngressInit, RegistryInit, Lifetimes, Unminted, NoEntry
<1>6. Tombstone
  BY DEF Init, IngressInit, Tombstone
<1>7. PoisonKeepsEntry
  BY RegistryAssumption DEF Init, RegistryInit, PoisonKeepsEntry
<1>8. KeyedGauge
  <2>1. {t \in registry : entry[t].kind = "Keyed"} = {}
    BY DEF Init, RegistryInit
  <2> QED  BY <2>1, FS_EmptySet DEF Init, RegistryInit, KeyedGauge
<1> QED  BY <1>1, <1>2, <1>3, <1>4, <1>5, <1>6, <1>7, <1>8 DEF Inv

(* Every step of the kernel and of its tasks keeps the invariant.          *)
LEMMA NextInv == Inv /\ [Next]_vars => Inv'
<1> SUFFICES ASSUME Inv, [Next]_vars PROVE Inv'
  OBVIOUS
<1>0. Shape'
  BY NextShapeStep DEF Inv
<1>1. CASE KernelNext
  <2>1. CASE Settle
    BY <1>0, <2>1, Settling
  <2>2. ASSUME NEW t \in Token, JoinExit(t)
        PROVE  Inv'
    BY <1>0, <2>2, Joining DEF JoinExit, Inv, Closed, registryVars
  <2> QED  BY <1>0, <1>1, <2>1, <2>2, BootInv, DispatchInv, LoopInv, PassInv DEF KernelNext
<1>2. CASE ProducerNext
  BY <1>0, <1>2, ProducerInv
<1>3. CASE UNCHANGED vars
  BY <1>0, <1>3, Quiet DEF vars, registryVars, ingressVars, kernelVars, SameRuns, Terminating,
                           Inv, Closed
<1>4. CASE DropKernel
  BY <1>0, <1>4, Closing DEF DropKernel, AbortAll
<1> QED  BY <1>1, <1>2, <1>3, <1>4 DEF Next, Idle

(* The invariant holds in every reachable state, for every bound on runs   *)
(* and sends, every capacity and every hosted program.                     *)
THEOREM Invariance == Spec => []Inv
BY InitInv, NextInv, PTL DEF Spec

(* Every variable has its type; no pending counter and no gauge ever       *)
(* underflows (accounting.rs decrement, registry.rs retire) or passes its  *)
(* ceiling.                                                                *)
THEOREM TypeCorrect == Spec => []TypeOK
<1>1. Inv => TypeOK
  <2> SUFFICES ASSUME Inv PROVE TypeOK
    OBVIOUS
  <2>1. keyed \in Nat
    <3>1. IsFiniteSet({t \in registry : entry[t].kind = "Keyed"})
      BY KeyedFinite DEF Inv, Shape
    <3> QED  BY <3>1, FS_CardinalityType DEF Inv, KeyedGauge
  <2>2. pending \in [Token -> 0..Ceiling]
    BY DEF Inv, Counts, Shape, RegistryShape
  <2> QED  BY <2>1, <2>2 DEF Inv, TypeOK
<1> QED  BY <1>1, Invariance, PTL

(* While the lanes are open a counter is exactly what its run has in       *)
(* flight, over reservations, sends, dequeues and dropped tasks in any     *)
(* order (accounting.rs rules 1 to 6).                                     *)
THEOREM ExactAccounting == Spec => []PendingExact
<1>1. Inv => PendingExact
  <2> SUFFICES ASSUME Inv, open, NEW t \in Token
               PROVE  pending[t] \in {Residue(t), Ceiling}
    BY DEF PendingExact
  <2>1. Counts
    BY DEF Inv
  <2>2. pending[t] = Ceiling \/
        pending[t] = Queued("data", t) + Queued("control", t) + Reservation(t)
    BY <2>1 DEF Counts
  <2> QED  BY <2>2 DEF Residue, Queued, Reservation
<1> QED  BY <1>1, Invariance, PTL

(* Every queued envelope finds the entry of its run: the expect of         *)
(* on_dequeue never fires, and the mark it reads is the run's own.  A      *)
(* saturated counter keeps its entry until the kernel has settled.         *)
THEOREM TombstoneKept == Spec => []EntriesRetained
<1>1. Inv => EntriesRetained
  BY DEF Inv, EntriesRetained
<1> QED  BY <1>1, Invariance, PTL

(* The incremental keyed count is the count of a rescan.                   *)
THEOREM GaugeExact == Spec => []KeyedGauge
<1>1. Inv => KeyedGauge
  BY DEF Inv
<1> QED  BY <1>1, Invariance, PTL
=============================================================================
