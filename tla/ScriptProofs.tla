---------------------------- MODULE ScriptProofs ----------------------------
(***************************************************************************)
(* The scripted gate and its driver, for any runs, capacities and bounds.  *)
(*                                                                         *)
(* Four arguments, each with an invariant of its own.  Owned: a send in    *)
(* flight holds the one outstanding grant, so that none is cleared or      *)
(* issued under it.  Counted: a pending counter is its run's envelopes and *)
(* reservation while the lanes are open, and covers the reservation after. *)
(* Booked: the histories of grants, entries and fates move together, which *)
(* is what the refinement needs.  Named: a run that has started is named,  *)
(* or is among those that the driver takes at the end of its step.         *)
(***************************************************************************)
EXTENDS ScriptProperties, FiniteSetTheorems, SequenceTheorems, TLAPS

(* An outstanding grant names a run, and has a terminal only once taken.   *)
Owned ==
  /\ ReleaseOwned
  /\ Outstanding => outstanding.origin \in Run
  /\ outstanding.outcome # "None" => outstanding.taken

Count(r) ==
  Cardinality(Queued("Data", r)) + Cardinality(Queued("Control", r)) + Reservation(r)

Counted ==
  /\ \A r \in Run : IF open THEN pending[r] = Count(r) ELSE pending[r] >= Reservation(r)
  /\ ~open => \A l \in Lane : lanes[l] = <<>>

(* Whether a record of the last grant is in the acceptance ledger.         *)
InLedger == \E i \in DOMAIN accepted : accepted[i].grant = Len(armed)

Booked ==
  /\ nextSequence = Len(armed)
  /\ Outstanding => /\ outstanding.sequence = Len(armed)
                    /\ Len(armed) = Len(fate) + 1
                    /\ armed[Len(armed)] = outstanding.origin
  /\ ~Outstanding => Len(armed) = Len(fate)
  /\ \A i \in DOMAIN accepted : accepted[i].grant <= Len(armed)
  /\ Outstanding => (InLedger <=> \/ outstanding.outcome = "Accepted"
                                  \/ pc[outstanding.origin] = "Recorded")
  /\ call \in {"Confirming", "Unresolved"} => Outstanding
  /\ call = "Settling" => ~Outstanding

Named ==
  /\ \A r \in Run : intents[r] > 0 => pc[r] # "Unstarted"
  /\ \A r \in Run : pc[r] # "Unstarted" => r \in names \cup started
  /\ call \notin PassStages => started = {}

ScriptInv == TypeOK /\ Owned /\ Counted /\ Booked /\ Named

-----------------------------------------------------------------------------
(* Counting the envelopes of a lane.                                       *)

(* The positions of one value in a sequence.                               *)
Where(q, r) == {i \in DOMAIN q : q[i] = r}

LEMMA WhereFinite ==
  ASSUME NEW q \in Seq(Run), NEW r
  PROVE  IsFiniteSet(Where(q, r)) /\ Cardinality(Where(q, r)) \in Nat
<1>1. DOMAIN q = 1..Len(q) /\ Len(q) \in Nat
  OBVIOUS
<1>2. IsFiniteSet(1..Len(q))
  BY <1>1, FS_Interval
<1>3. Where(q, r) \subseteq 1..Len(q)
  BY <1>1 DEF Where
<1> QED
  BY <1>2, <1>3, FS_Subset, FS_CardinalityType

(* A value at the head is counted.                                         *)
LEMMA HeadCounts ==
  ASSUME NEW q \in Seq(Run), q # <<>>
  PROVE  Cardinality(Where(q, Head(q))) >= 1
<1>1. 1 \in Where(q, Head(q))
  BY DEF Where
<1>2. Where(q, Head(q)) # {}
  BY <1>1
<1> QED
  BY <1>2, WhereFinite, FS_EmptySet

(* Appending counts one more of the value appended.                        *)
LEMMA WhereAppend ==
  ASSUME NEW q \in Seq(Run), NEW r \in Run, NEW t \in Run
  PROVE  Cardinality(Where(Append(q, r), t))
           = Cardinality(Where(q, t)) + (IF t = r THEN 1 ELSE 0)
<1> DEFINE n == Len(q) + 1
<1>1. n \notin Where(q, t)
  BY DEF Where
<1>2. CASE t = r
  <2>1. Where(Append(q, r), t) = Where(q, t) \cup {n}
    BY <1>2 DEF Where
  <2> QED
    BY <1>1, <1>2, <2>1, WhereFinite, FS_AddElement
<1>3. CASE t # r
  <2>1. Where(Append(q, r), t) = Where(q, t)
    BY <1>3 DEF Where
  <2> QED
    BY <1>3, <2>1, WhereFinite
<1> QED
  BY <1>2, <1>3

(* Removing the head counts one less of it.                                *)
LEMMA WhereTail ==
  ASSUME NEW q \in Seq(Run), q # <<>>, NEW t \in Run
  PROVE  Cardinality(Where(q, t))
           = Cardinality(Where(Tail(q), t)) + (IF t = Head(q) THEN 1 ELSE 0)
<1> DEFINE W == Where(Tail(q), t)
           S == Where(q, t) \ {1}
           up == [i \in W |-> i + 1]
<1>1. Tail(q) \in Seq(Run) /\ Len(Tail(q)) = Len(q) - 1 /\ Len(q) \in Nat /\ Len(q) >= 1
  OBVIOUS
<1>2. \A i \in 1..Len(Tail(q)) : Tail(q)[i] = q[i + 1]
  OBVIOUS
<1>3. \A i \in W : i \in Nat /\ i + 1 \in S
  BY <1>1, <1>2 DEF Where
<1>4. \A j \in S : j - 1 \in W /\ j \in Nat
  <2>1. SUFFICES ASSUME NEW j \in S PROVE j - 1 \in W /\ j \in Nat
    OBVIOUS
  <2>2. j \in 2..Len(q) /\ q[j] = t
    BY <1>1 DEF Where
  <2>3. j - 1 \in 1..Len(Tail(q))
    BY <1>1, <2>2
  <2>4. Tail(q)[j - 1] = q[(j - 1) + 1]
    BY <1>2, <2>3
  <2> QED
    BY <1>1, <2>2, <2>3, <2>4 DEF Where
<1>5. up \in Bijection(W, S)
  <2>1. up \in [W -> S]
    BY <1>3
  <2>2. \A i, j \in W : up[i] = up[j] => i = j
    BY <1>3
  <2>3. \A j \in S : \E i \in W : up[i] = j
    <3>1. SUFFICES ASSUME NEW j \in S PROVE \E i \in W : up[i] = j
      OBVIOUS
    <3>2. j - 1 \in W /\ up[j - 1] = (j - 1) + 1 /\ j \in Nat
      BY <1>4
    <3> QED
      BY <3>2
  <2> HIDE DEF W, S, up
  <2>4. up \in Injection(W, S)
    BY <2>1, <2>2 DEF Injection, IsInjective
  <2>5. up \in Surjection(W, S)
    BY <2>1, <2>3 DEF Surjection
  <2> QED
    BY <2>4, <2>5 DEF Bijection
<1>6. Cardinality(S) = Cardinality(W)
  <2>1. IsFiniteSet(W)
    BY <1>1, WhereFinite
  <2>2. ExistsBijection(W, S)
    BY <1>5 DEF ExistsBijection
  <2> QED
    BY <2>1, <2>2, FS_Bijection
<1>7. IsFiniteSet(Where(q, t)) /\ Cardinality(Where(q, t)) \in Nat /\ Cardinality(W) \in Nat
  BY <1>1, WhereFinite
<1>8. 1 \in Where(q, t) <=> t = Head(q)
  BY <1>1 DEF Where
<1>9. CASE t = Head(q)
  <2>1. Cardinality(S) = Cardinality(Where(q, t)) - 1
    BY <1>7, <1>8, <1>9, FS_RemoveElement
  <2> QED
    BY <1>6, <1>7, <1>9, <2>1
<1>10. CASE t # Head(q)
  <2>1. S = Where(q, t)
    BY <1>8, <1>10
  <2>2. Cardinality(Where(q, t)) = Cardinality(Where(Tail(q), t))
    BY <1>6, <2>1
  <2>3. Cardinality(Where(Tail(q), t)) + 0 = Cardinality(Where(Tail(q), t))
    BY <1>7
  <2> QED
    BY <1>10, <2>2, <2>3
<1> QED
  BY <1>9, <1>10

(* An empty lane holds none.                                               *)
LEMMA WhereEmpty == \A r : Where(<<>>, r) = {} /\ Cardinality(Where(<<>>, r)) = 0
  BY FS_EmptySet DEF Where

(* The counts of an open kernel, in these terms.                           *)
LEMMA CountWhere ==
  ASSUME NEW r \in Run
  PROVE  Count(r) = Cardinality(Where(lanes["Data"], r))
                      + Cardinality(Where(lanes["Control"], r)) + Reservation(r)
  BY DEF Count, Queued, Where

-----------------------------------------------------------------------------
(* Types.                                                                  *)

(* What is counted is there to be taken back.                              *)
LEMMA ReservedPositive ==
  ASSUME TypeOK, Counted, NEW r \in Run, pc[r] \in Reserving
  PROVE  pending[r] >= 1
<1>1. Reservation(r) = 1
  BY DEF Reservation
<1>2. lanes["Data"] \in Seq(Run) /\ lanes["Control"] \in Seq(Run) /\ pending[r] \in Nat
  BY DEF TypeOK, Lane
<1> QED
  BY <1>1, <1>2, CountWhere, WhereFinite DEF Counted

LEMMA QueuedPositive ==
  ASSUME TypeOK, Counted, NEW l \in Lane, lanes[l] # <<>>
  PROVE  Head(lanes[l]) \in Run /\ open /\ pending[Head(lanes[l])] >= 1
<1> DEFINE r == Head(lanes[l])
<1>1. lanes["Data"] \in Seq(Run) /\ lanes["Control"] \in Seq(Run) /\ lanes[l] \in Seq(Run)
  BY DEF TypeOK, Lane
<1>2. r \in Run
  BY <1>1
<1>3. open
  BY DEF Counted, TypeOK
<1>4. Cardinality(Where(lanes[l], r)) >= 1
  BY <1>1, HeadCounts
<1>5. Reservation(r) \in Nat
  BY DEF Reservation
<1>6. Cardinality(Where(lanes["Data"], r)) \in Nat
      /\ Cardinality(Where(lanes["Control"], r)) \in Nat
  BY <1>1, WhereFinite
<1>7. pending[r] = Cardinality(Where(lanes["Data"], r))
                     + Cardinality(Where(lanes["Control"], r)) + Reservation(r)
  BY <1>2, <1>3, CountWhere DEF Counted
<1> QED
  BY <1>2, <1>3, <1>4, <1>5, <1>6, <1>7 DEF Lane

(* A move to a program counter keeps the counters' type.                   *)
LEMMA GotoTypes ==
  ASSUME TypeOK, NEW r \in Run, NEW p \in PCs, Goto(r, p)
  PROVE  pc' \in [Run -> PCs]
<1>1. pc \in [Run -> PCs]
  BY DEF TypeOK
<1> QED
  BY <1>1 DEF Goto

(* A producer's step keeps the types.                                      *)
LEMMA ProducerTypes ==
  ASSUME TypeOK, Counted, NEW r \in Run, ProducerStep(r),
         UNCHANGED <<call, kernelVars, scriptVars>>
  PROVE  TypeOK'
<1> USE DEF TypeOK, gateVars, laneVars, kernelVars, scriptVars, Goto, PCs, AtTheGate,
            InFlight, Confirmed, Grant, NoGrant
<1>1. ASSUME NEW l \in Lane, Intend(r, l) PROVE TypeOK'
  <2>1. intents' \in [Run -> Nat] /\ lane' \in [Run -> Lane]
    BY <1>1 DEF Intend
  <2>2. pc' \in [Run -> PCs]
    BY <1>1 DEF Intend
  <2> QED
    BY <1>1, <2>1, <2>2 DEF Intend
<1>2. CASE TakeRelease(r)
  <2>1. outstanding' \in Grant /\ under' \in [Run -> Nat]
    BY <1>2 DEF TakeRelease
  <2>2. pc' \in [Run -> PCs]
    BY <1>2 DEF TakeRelease
  <2> QED
    BY <1>2, <2>1, <2>2 DEF TakeRelease
<1>3. CASE Miss(r)
  <2>1. pc' \in [Run -> PCs]
    BY <1>3 DEF Miss
  <2> QED
    BY <1>3, <2>1 DEF Miss
<1>4. CASE Register(r)
  <2>1. pc' \in [Run -> PCs]
    BY <1>4 DEF Register
  <2> QED
    BY <1>4, <2>1 DEF Register
<1>5. CASE ParkAtGate(r)
  <2>1. pc' \in [Run -> PCs]
    BY <1>5 DEF ParkAtGate
  <2> QED
    BY <1>5, <2>1 DEF ParkAtGate
<1>6. CASE Wake(r)
  <2>1. pc' \in [Run -> PCs]
    BY <1>6 DEF Wake
  <2> QED
    BY <1>6, <2>1 DEF Wake
<1>7. CASE Reserve(r)
  <2>1. pending' \in [Run -> Nat]
    BY <1>7 DEF Reserve
  <2>2. pc' \in [Run -> PCs]
    BY <1>7 DEF Reserve
  <2> QED
    BY <1>7, <2>1, <2>2 DEF Reserve
<1>8. CASE Enter(r)
  <2>1. lanes' \in [Lane -> Seq(Run)]
    BY <1>8 DEF Enter
  <2>2. pc' \in [Run -> PCs]
    BY <1>8 DEF Enter
  <2> QED
    BY <1>8, <2>1, <2>2 DEF Enter
<1>9. CASE Wait(r)
  <2>1. pc' \in [Run -> PCs]
    BY <1>9 DEF Wait
  <2> QED
    BY <1>9, <2>1 DEF Wait
<1>10. CASE Refuse(r)
  <2>1. pc' \in [Run -> PCs]
    BY <1>10 DEF Refuse
  <2> QED
    BY <1>10, <2>1 DEF Refuse
<1>11. CASE Abort(r)
  <2>1. pc' \in [Run -> PCs]
    <3>1. Goto(r, "Gone") \/ Goto(r, "Failed")
      BY <1>11 DEF Abort
    <3>2. "Gone" \in PCs /\ "Failed" \in PCs
      OBVIOUS
    <3> HIDE DEF Goto
    <3> QED
      BY <3>1, <3>2, GotoTypes
  <2> QED
    BY <1>11, <2>1 DEF Abort
<1>12. CASE Record(r)
  <2>1. accepted' \in Seq([origin : Run, lane : Lane, grant : Nat])
    BY <1>12 DEF Record, Entry
  <2>2. pc' \in [Run -> PCs]
    BY <1>12 DEF Record, Entry
  <2> QED
    BY <1>12, <2>1, <2>2 DEF Record
<1>13. CASE ResolveAccepted(r)
  <2>1. outstanding' \in Grant /\ nextSequence' = nextSequence
    BY <1>13 DEF ResolveAccepted, Resolve
  <2>2. pc' \in [Run -> PCs]
    BY <1>13 DEF ResolveAccepted, Resolve
  <2> QED
    BY <1>13, <2>1, <2>2 DEF ResolveAccepted
<1>14. CASE DropReservation(r)
  <2>1. pending[r] >= 1
    BY <1>14, ReservedPositive DEF DropReservation, Reserving
  <2>2. pending' \in [Run -> Nat]
    BY <1>14, <2>1 DEF DropReservation, Unreserve
  <2>3. pc' \in [Run -> PCs]
    BY <1>14 DEF DropReservation
  <2> QED
    BY <1>14, <2>2, <2>3 DEF DropReservation
<1>15. CASE DropReleased(r)
  <2>1. outstanding' \in Grant /\ nextSequence' = nextSequence
    BY <1>15 DEF DropReleased, Resolve
  <2>2. pc' \in [Run -> PCs]
    BY <1>15 DEF DropReleased, Resolve
  <2> QED
    BY <1>15, <2>1, <2>2 DEF DropReleased
<1>16. CASE Finish(r)
  <2>1. pc' \in [Run -> PCs]
    BY <1>16 DEF Finish
  <2> QED
    BY <1>16, <2>1 DEF Finish
<1> QED
  BY <1>1, <1>2, <1>3, <1>4, <1>5, <1>6, <1>7, <1>8, <1>9, <1>10, <1>11, <1>12, <1>13,
     <1>14, <1>15, <1>16 DEF ProducerStep, Advance

(* A dequeue keeps the types of the counters and of the lanes.             *)
LEMMA DequeueTypes ==
  ASSUME TypeOK, Counted, NEW l \in Lane, lanes[l] # <<>>
  PROVE  /\ OnDequeue(l) => pending' \in [Run -> Nat]
         /\ Dequeue(l) => lanes' \in [Lane -> Seq(Run)]
<1>1. Head(lanes[l]) \in Run /\ pending[Head(lanes[l])] >= 1
  BY QueuedPositive
<1>2. pending \in [Run -> Nat] /\ lanes \in [Lane -> Seq(Run)]
  BY DEF TypeOK
<1>3. pending[Head(lanes[l])] - 1 \in Nat
  BY <1>1, <1>2
<1>4. OnDequeue(l) => pending' \in [Run -> Nat]
  BY <1>2, <1>3 DEF OnDequeue
<1>5. Tail(lanes[l]) \in Seq(Run)
  BY <1>2
<1>6. Dequeue(l) => lanes' \in [Lane -> Seq(Run)]
  BY <1>2, <1>5 DEF Dequeue
<1> QED
  BY <1>4, <1>6

(* A fresh grant.                                                          *)
LEMMA GrantIssued ==
  ASSUME TypeOK, NEW r \in Run, IssueGrant(r)
  PROVE  /\ outstanding' \in Grant
         /\ outstanding'.sequence = nextSequence + 1
         /\ outstanding'.origin = r
         /\ outstanding'.taken = FALSE
         /\ outstanding'.outcome = "None"
<1>1. outstanding' = [sequence |-> nextSequence + 1, origin |-> r, taken |-> FALSE,
                      outcome |-> "None"]
  BY DEF IssueGrant, NoGrant
<1> QED
  BY <1>1 DEF TypeOK, Grant

(* A start keeps the types of what it sets.                                *)
LEMMA StartTypes ==
  ASSUME TypeOK, NEW S \in SUBSET Run, Start(S)
  PROVE  pc' \in [Run -> PCs] /\ held' \subseteq Run /\ started' \subseteq Run
  BY DEF TypeOK, Start, PCs

(* A termination too.                                                      *)
LEMMA TerminateTypes ==
  ASSUME TypeOK, held' \subseteq Run, Terminate
  PROVE  /\ open' = FALSE
         /\ lanes' \in [Lane -> Seq(Run)]
         /\ aborted' \subseteq Run
         /\ call' = "Draining"
  BY DEF TypeOK, Terminate, StopAll

(* A step of the driver, or of what it drives, keeps the types.            *)
LEMMA DriverTypes ==
  ASSUME TypeOK, Counted, DriverAdvance \/ ProgramStep \/ TestStep
  PROVE  TypeOK'
<1> USE DEF TypeOK, gateVars, laneVars, sendVars, kernelVars, scriptVars, Calls, PassStages,
            DriverState
<1>1. ASSUME NEW r \in Run, ReflectExit(r) PROVE TypeOK'
  BY <1>1 DEF ReflectExit
<1>2. CASE EndExits
  BY <1>2 DEF EndExits
<1>3. CASE DrainRevoked
  <2>1. pending' \in [Run -> Nat] /\ lanes' \in [Lane -> Seq(Run)]
    BY <1>3, DequeueTypes DEF DrainRevoked, Drain, Dequeue, Lane
  <2> QED
    BY <1>3, <2>1 DEF DrainRevoked
<1>4. CASE DrainQuit
  <2>1. pending' \in [Run -> Nat]
    BY <1>4, DequeueTypes DEF DrainQuit, Drain, Lane
  <2> QED
    BY <1>4, <2>1, TerminateTypes DEF DrainQuit
<1>5. CASE EndControl
  BY <1>5 DEF EndControl
<1>6. CASE Discard
  <2>1. pending' \in [Run -> Nat] /\ lanes' \in [Lane -> Seq(Run)]
    BY <1>6, DequeueTypes DEF Discard, Pull, Dequeue, Lane
  <2> QED
    BY <1>6, <2>1 DEF Discard, Pull
<1>7. CASE EndBatch
  BY <1>7 DEF EndBatch
<1>8. CASE FinishStep
  BY <1>8 DEF FinishStep, Mint
<1>9. CASE FinishTerminated
  BY <1>9 DEF FinishTerminated, Mint
<1>10. CASE Notify
  BY <1>10 DEF Notify, NotifyWaiters
<1>11. CASE RenderError
  BY <1>11, TerminateTypes DEF RenderError
<1>12. ASSUME NEW S \in SUBSET Run, ReduceQuit(S) PROVE TypeOK'
  <2>1. pending' \in [Run -> Nat]
    BY <1>12, DequeueTypes DEF ReduceQuit, Pull, Lane
  <2>2. pulled' \in Nat
    BY <1>12 DEF ReduceQuit, Pull
  <2> QED
    <3>1. pc' \in [Run -> PCs] /\ held' \subseteq Run /\ started' \subseteq Run
      BY <1>12, StartTypes DEF ReduceQuit
    <3>2. open' = FALSE /\ lanes' \in [Lane -> Seq(Run)] /\ aborted' \subseteq Run
          /\ call' = "Draining"
      BY <1>12, <3>1, TerminateTypes DEF ReduceQuit
    <3> QED
      BY <1>12, <2>1, <2>2, <3>1, <3>2 DEF ReduceQuit
<1>13. ASSUME NEW S \in SUBSET Run, NEW A \in SUBSET Run, Reduce(S, A) PROVE TypeOK'
  <2>1. pending' \in [Run -> Nat] /\ lanes' \in [Lane -> Seq(Run)]
    BY <1>13, DequeueTypes DEF Reduce, Pull, Dequeue, Lane
  <2>2. aborted' \subseteq Run /\ pulled' \in Nat
    BY <1>13 DEF Reduce, Stop, Pull
  <2>3. pc' \in [Run -> PCs] /\ held' \subseteq Run /\ started' \subseteq Run
    BY <1>13, StartTypes DEF Reduce
  <2> QED
    BY <1>13, <2>1, <2>2, <2>3 DEF Reduce
<1>14. ASSUME NEW S \in SUBSET Run, NEW A \in SUBSET Run, Frame(S, A) PROVE TypeOK'
  BY <1>14 DEF Frame, Stop, Entries, Start, PCs
<1>15. ASSUME NEW S \in SUBSET Run, Boot(S) PROVE TypeOK'
  BY <1>15 DEF Boot, Start, PCs
<1>16. ASSUME NEW S \in SUBSET Run, BootQuit(S) PROVE TypeOK'
  <2>1. pc' \in [Run -> PCs] /\ held' \subseteq Run /\ started' \subseteq Run
    BY <1>16, StartTypes DEF BootQuit
  <2>2. open' = FALSE /\ lanes' \in [Lane -> Seq(Run)] /\ aborted' \subseteq Run
        /\ call' = "Draining"
    BY <1>16, <2>1, TerminateTypes DEF BootQuit
  <2> QED
    BY <1>16, <2>1, <2>2 DEF BootQuit
<1>17. CASE StepPass
  BY <1>17 DEF StepPass
<1>18. ASSUME NEW r \in Run, GrantRun(r) PROVE TypeOK'
  <2>1. outstanding' \in Grant
    BY <1>18, GrantIssued DEF GrantRun
  <2>3. nextSequence' \in Nat
    BY <1>18 DEF GrantRun, IssueGrant
  <2>2. armed' \in Seq(Run)
    BY <1>18 DEF GrantRun
  <2> QED
    BY <1>18, <2>1, <2>2, <2>3 DEF GrantRun
<1>19. CASE Confirm
  BY <1>19 DEF Confirm
<1>20. CASE TakeResolution
  BY <1>20 DEF TakeResolution, Resolved, ClearGrant, Grant, NoGrant
<1>21. CASE NoResolution
  BY <1>21 DEF NoResolution
<1>22. CASE ReclaimUntaken
  BY <1>22 DEF ReclaimUntaken, Resolved, ClearGrant, Grant, NoGrant, Confirmed
<1>23. CASE Turn
  BY <1>23 DEF Turn
<1>24. CASE Exhausted
  BY <1>24 DEF Exhausted
<1>25. CASE Settle
  BY <1>25 DEF Settle
<1>26. CASE EndSettle
  BY <1>26 DEF EndSettle
<1> QED
  BY <1>1, <1>2, <1>3, <1>4, <1>5, <1>6, <1>7, <1>8, <1>9, <1>10, <1>11, <1>12, <1>13,
     <1>14, <1>15, <1>16, <1>17, <1>18, <1>19, <1>20, <1>21, <1>22, <1>23, <1>24, <1>25,
     <1>26
     DEF DriverAdvance, ProgramStep, TestStep
-----------------------------------------------------------------------------
(* Owned.                                                                  *)

(* A grant that nobody took, or none at all, has no send in flight.        *)
LEMMA UntakenQuiet ==
  ASSUME Owned, NEW r \in Run, ~Outstanding \/ ~outstanding.taken
  PROVE  pc[r] \notin InFlight
  BY DEF Owned, ReleaseOwned, Outstanding, NoGrant

(* Nothing happens to a grant and no send is released.                     *)
LEMMA OwnedKept ==
  ASSUME Owned, UNCHANGED <<outstanding, under>>,
         \A r \in Run : pc'[r] \in InFlight => pc[r] \in InFlight
  PROVE  Owned'
  BY DEF Owned, ReleaseOwned, Outstanding

(* A producer's step keeps the ownership of the grant.                     *)
LEMMA ProducerOwned ==
  ASSUME TypeOK, Owned, NEW r \in Run, ProducerStep(r)
  PROVE  Owned'
<1>0. pc \in [Run -> PCs] /\ under \in [Run -> Nat] /\ outstanding \in Grant
  BY DEF TypeOK
<1>1. ASSUME NEW l \in Lane, Intend(r, l) PROVE Owned'
  BY <1>0, <1>1, OwnedKept DEF Intend, Goto, InFlight, gateVars
<1>2. CASE Miss(r)
  BY <1>0, <1>2, OwnedKept DEF Miss, Goto, InFlight, gateVars
<1>3. CASE Register(r)
  BY <1>0, <1>3, OwnedKept DEF Register, Goto, InFlight, gateVars
<1>4. CASE ParkAtGate(r)
  BY <1>0, <1>4, OwnedKept DEF ParkAtGate, Goto, InFlight, gateVars
<1>5. CASE Wake(r)
  BY <1>0, <1>5, OwnedKept DEF Wake, Goto, InFlight, gateVars
<1>6. CASE Reserve(r)
  BY <1>0, <1>6, OwnedKept DEF Reserve, Goto, InFlight, gateVars
<1>7. CASE Enter(r)
  BY <1>0, <1>7, OwnedKept DEF Enter, Goto, InFlight, gateVars
<1>8. CASE Wait(r)
  BY <1>0, <1>8, OwnedKept DEF Wait, Goto, InFlight, gateVars
<1>9. CASE Refuse(r)
  BY <1>0, <1>9, OwnedKept DEF Refuse, Goto, InFlight, gateVars
<1>10. CASE Abort(r)
  BY <1>0, <1>10, OwnedKept DEF Abort, Goto, InFlight, gateVars
<1>11. CASE Record(r)
  BY <1>0, <1>11, OwnedKept DEF Record, Goto, InFlight, gateVars
<1>12. CASE DropReservation(r)
  BY <1>0, <1>12, OwnedKept DEF DropReservation, Goto, InFlight, gateVars
<1>13. CASE Finish(r)
  BY <1>0, <1>13, OwnedKept DEF Finish, Goto, InFlight, gateVars
<1>14. CASE TakeRelease(r)
  <2>1. \A t \in Run : pc[t] \notin InFlight
    BY <1>14, UntakenQuiet DEF TakeRelease, Releases
  <2>2. \A t \in Run : pc'[t] \in InFlight => t = r
    BY <1>0, <1>14, <2>1 DEF TakeRelease, Goto
  <2>3. outstanding' = [outstanding EXCEPT !.taken = TRUE] /\ outstanding.origin = r
        /\ under'[r] = outstanding.sequence
    BY <1>0, <1>14 DEF TakeRelease, Releases
  <2>4. outstanding.outcome = "None"
    BY <1>14 DEF TakeRelease, Releases, Owned
  <2> QED
    BY <1>0, <2>2, <2>3, <2>4 DEF Owned, ReleaseOwned, Outstanding, Grant
<1>15. CASE ResolveAccepted(r)
  <2>1. pc[r] \in InFlight /\ pc'[r] \notin InFlight
    BY <1>0, <1>15 DEF ResolveAccepted, Goto, InFlight
  <2>2. outstanding.origin = r /\ outstanding.taken
    BY <2>1 DEF Owned, ReleaseOwned
  <2>3. \A t \in Run : pc'[t] \notin InFlight
    BY <1>0, <1>15, <2>1, <2>2 DEF ResolveAccepted, Goto, Owned, ReleaseOwned
  <2>4. outstanding'.origin = r /\ outstanding'.taken
    BY <1>0, <1>15, <2>2 DEF ResolveAccepted, Resolve, Grant
  <2> QED
    BY <2>3, <2>4 DEF Owned, ReleaseOwned
<1>16. CASE DropReleased(r)
  <2>1. pc[r] \in InFlight /\ pc'[r] \notin InFlight
    BY <1>0, <1>16 DEF DropReleased, Goto, InFlight
  <2>2. outstanding.origin = r /\ outstanding.taken
    BY <2>1 DEF Owned, ReleaseOwned
  <2>3. \A t \in Run : pc'[t] \notin InFlight
    BY <1>0, <1>16, <2>1, <2>2 DEF DropReleased, Goto, Owned, ReleaseOwned
  <2>4. outstanding'.origin = r /\ outstanding'.taken
    BY <1>0, <1>16, <2>2 DEF DropReleased, Resolve, Grant
  <2> QED
    BY <2>3, <2>4 DEF Owned, ReleaseOwned
<1> QED
  BY <1>1, <1>2, <1>3, <1>4, <1>5, <1>6, <1>7, <1>8, <1>9, <1>10, <1>11, <1>12, <1>13,
     <1>14, <1>15, <1>16
     DEF ProducerStep, Advance

(* So does a step of the driver, or of what it drives.                     *)
LEMMA DriverOwned ==
  ASSUME TypeOK, Owned, DriverAdvance \/ ProgramStep \/ TestStep
  PROVE  Owned'
<1>0. pc \in [Run -> PCs] /\ under \in [Run -> Nat] /\ outstanding \in Grant
  BY DEF TypeOK
<1> USE DEF gateVars, sendVars
<1>1. ASSUME NEW r \in Run, ReflectExit(r) PROVE Owned'
  BY <1>1, OwnedKept DEF ReflectExit
<1>2. CASE EndExits
  BY <1>2, OwnedKept DEF EndExits
<1>3. CASE DrainRevoked
  BY <1>3, OwnedKept DEF DrainRevoked
<1>4. CASE DrainQuit
  BY <1>4, OwnedKept DEF DrainQuit
<1>5. CASE EndControl
  BY <1>5, OwnedKept DEF EndControl
<1>6. CASE Discard
  BY <1>6, OwnedKept DEF Discard
<1>7. CASE EndBatch
  BY <1>7, OwnedKept DEF EndBatch
<1>8. CASE FinishStep
  BY <1>8, OwnedKept DEF FinishStep
<1>9. CASE FinishTerminated
  BY <1>9, OwnedKept DEF FinishTerminated
<1>10. CASE Notify
  BY <1>10, OwnedKept DEF Notify
<1>11. CASE RenderError
  BY <1>11, OwnedKept DEF RenderError
<1>12. ASSUME NEW S \in SUBSET Run, ReduceQuit(S) PROVE Owned'
  <2>1. \A t \in Run : pc'[t] \in InFlight => pc[t] \in InFlight
    BY <1>0, <1>12 DEF ReduceQuit, Start, InFlight
  <2> QED
    BY <1>12, <2>1, OwnedKept DEF ReduceQuit
<1>13. ASSUME NEW S \in SUBSET Run, NEW A \in SUBSET Run, Reduce(S, A) PROVE Owned'
  <2>1. \A t \in Run : pc'[t] \in InFlight => pc[t] \in InFlight
    BY <1>0, <1>13 DEF Reduce, Start, InFlight
  <2> QED
    BY <1>13, <2>1, OwnedKept DEF Reduce
<1>14. ASSUME NEW S \in SUBSET Run, NEW A \in SUBSET Run, Frame(S, A) PROVE Owned'
  <2>1. \A t \in Run : pc'[t] \in InFlight => pc[t] \in InFlight
    BY <1>0, <1>14 DEF Frame, Start, InFlight
  <2> QED
    BY <1>14, <2>1, OwnedKept DEF Frame
<1>15. ASSUME NEW S \in SUBSET Run, Boot(S) PROVE Owned'
  <2>1. \A t \in Run : pc'[t] \in InFlight => pc[t] \in InFlight
    BY <1>0, <1>15 DEF Boot, Start, InFlight
  <2> QED
    BY <1>15, <2>1, OwnedKept DEF Boot
<1>16. ASSUME NEW S \in SUBSET Run, BootQuit(S) PROVE Owned'
  <2>1. \A t \in Run : pc'[t] \in InFlight => pc[t] \in InFlight
    BY <1>0, <1>16 DEF BootQuit, Start, InFlight
  <2> QED
    BY <1>16, <2>1, OwnedKept DEF BootQuit
<1>17. CASE StepPass
  BY <1>17, OwnedKept DEF StepPass
<1>18. ASSUME NEW r \in Run, GrantRun(r) PROVE Owned'
  <2>1. \A t \in Run : pc'[t] \notin InFlight
    BY <1>18, UntakenQuiet DEF GrantRun, IssueGrant
  <2>2. outstanding'.origin = r /\ outstanding'.outcome = "None"
    BY <1>18, GrantIssued DEF GrantRun
  <2> QED
    BY <2>1, <2>2 DEF Owned, ReleaseOwned
<1>19. CASE Confirm
  BY <1>19, OwnedKept DEF Confirm
<1>20. CASE TakeResolution
  <2>1. \A t \in Run : pc[t] \notin InFlight
    BY <1>20, UntakenQuiet DEF TakeResolution, Reclaimable, Owned, ReleaseOwned
  <2> QED
    BY <1>20, <2>1
       DEF TakeResolution, Resolved, ClearGrant, Owned, ReleaseOwned, Outstanding, NoGrant
<1>21. CASE NoResolution
  BY <1>21, OwnedKept DEF NoResolution
<1>22. CASE ReclaimUntaken
  <2>1. \A t \in Run : pc[t] \notin InFlight
    BY <1>22, UntakenQuiet DEF ReclaimUntaken, Reclaimable, Owned, ReleaseOwned
  <2> QED
    BY <1>22, <2>1
       DEF ReclaimUntaken, Resolved, ClearGrant, Owned, ReleaseOwned, Outstanding, NoGrant
<1>23. CASE Turn
  BY <1>23, OwnedKept DEF Turn
<1>24. CASE Exhausted
  BY <1>24, OwnedKept DEF Exhausted
<1>25. CASE Settle
  BY <1>25, OwnedKept DEF Settle
<1>26. CASE EndSettle
  BY <1>26, OwnedKept DEF EndSettle
<1> QED
  BY <1>1, <1>2, <1>3, <1>4, <1>5, <1>6, <1>7, <1>8, <1>9, <1>10, <1>11, <1>12, <1>13,
     <1>14, <1>15, <1>16, <1>17, <1>18, <1>19, <1>20, <1>21, <1>22, <1>23, <1>24, <1>25,
     <1>26
     DEF DriverAdvance, ProgramStep, TestStep

-----------------------------------------------------------------------------
(* Counted.                                                                *)

(* The counters and lanes stay, and no reservation comes or goes.          *)
LEMMA CountedKept ==
  ASSUME Counted, UNCHANGED <<lanes, open, pending>>,
         \A r \in Run : pc'[r] \in Reserving <=> pc[r] \in Reserving
  PROVE  Counted'
<1>1. \A r \in Run : Reservation(r)' = Reservation(r)
  BY DEF Reservation
<1>2. \A r \in Run : Count(r)' = Count(r)
  BY <1>1 DEF Count, Queued
<1> QED
  BY <1>1, <1>2 DEF Counted

(* The parts of a count, and what they are after a step.                   *)
LEMMA CountParts ==
  ASSUME TypeOK, NEW r \in Run
  PROVE  /\ Cardinality(Where(lanes["Data"], r)) \in Nat
         /\ Cardinality(Where(lanes["Control"], r)) \in Nat
         /\ Reservation(r) \in {0, 1}
         /\ pending[r] \in Nat
         /\ Count(r) = Cardinality(Where(lanes["Data"], r))
                         + Cardinality(Where(lanes["Control"], r)) + Reservation(r)
         /\ Count(r)' = Cardinality(Where(lanes'["Data"], r))
                          + Cardinality(Where(lanes'["Control"], r)) + Reservation(r)'
<1>1. lanes["Data"] \in Seq(Run) /\ lanes["Control"] \in Seq(Run) /\ pending[r] \in Nat
  BY DEF TypeOK, Lane
<1>2. Reservation(r) \in {0, 1}
  BY DEF Reservation
<1>3. Count(r)' = Cardinality(Where(lanes'["Data"], r))
                   + Cardinality(Where(lanes'["Control"], r)) + Reservation(r)'
  BY DEF Count, Queued, Where
<1> QED
  BY <1>1, <1>2, <1>3, CountWhere, WhereFinite

(* A producer's step keeps the counts.                                     *)
LEMMA ProducerCounted ==
  ASSUME TypeOK, Counted, NEW r \in Run, ProducerStep(r)
  PROVE  Counted'
<1>0. pc \in [Run -> PCs]
  BY DEF TypeOK
<1>1. ASSUME NEW l \in Lane, Intend(r, l) PROVE Counted'
  BY <1>0, <1>1, CountedKept DEF Intend, Goto, Reserving, laneVars
<1>2. CASE TakeRelease(r)
  BY <1>0, <1>2, CountedKept DEF TakeRelease, Goto, Reserving, laneVars
<1>3. CASE Miss(r)
  BY <1>0, <1>3, CountedKept DEF Miss, Goto, Reserving, laneVars
<1>4. CASE Register(r)
  BY <1>0, <1>4, CountedKept DEF Register, Goto, Reserving, laneVars
<1>5. CASE ParkAtGate(r)
  BY <1>0, <1>5, CountedKept DEF ParkAtGate, Goto, Reserving, laneVars
<1>6. CASE Wake(r)
  BY <1>0, <1>6, CountedKept DEF Wake, Goto, Reserving, laneVars
<1>7. CASE Wait(r)
  BY <1>0, <1>7, CountedKept DEF Wait, Goto, Reserving, laneVars
<1>8. CASE Refuse(r)
  BY <1>0, <1>8, CountedKept DEF Refuse, Goto, Reserving, laneVars
<1>9. CASE Abort(r)
  BY <1>0, <1>9, CountedKept DEF Abort, Goto, Reserving, laneVars
<1>10. CASE Record(r)
  BY <1>0, <1>10, CountedKept DEF Record, Goto, Reserving, laneVars
<1>11. CASE ResolveAccepted(r)
  BY <1>0, <1>11, CountedKept DEF ResolveAccepted, Goto, Reserving, laneVars
<1>12. CASE DropReleased(r)
  BY <1>0, <1>12, CountedKept DEF DropReleased, Goto, Reserving, laneVars
<1>13. CASE Finish(r)
  BY <1>0, <1>13, CountedKept DEF Finish, Goto, Reserving, laneVars
<1>14. CASE Reserve(r)
  <2>1. \A t \in Run : /\ Reservation(t)' = Reservation(t) + (IF t = r THEN 1 ELSE 0)
                       /\ pending'[t] = pending[t] + (IF t = r THEN 1 ELSE 0)
    BY <1>0, <1>14 DEF Reserve, Goto, Reservation, Reserving, TypeOK
  <2>2. UNCHANGED <<lanes, open>>
    BY <1>14 DEF Reserve
  <2>3. \A t \in Run : Count(t)' = Count(t) + (IF t = r THEN 1 ELSE 0)
    BY <2>1, <2>2, CountParts
  <2>4. \A t \in Run : IF open' THEN pending'[t] = Count(t)' ELSE pending'[t] >= Reservation(t)'
    BY <2>1, <2>2, <2>3, CountParts DEF Counted
  <2> QED
    BY <2>2, <2>4 DEF Counted
<1>15. CASE DropReservation(r)
  <2>1. \A t \in Run : /\ Reservation(t)' = Reservation(t) - (IF t = r THEN 1 ELSE 0)
                       /\ pending'[t] = pending[t] - (IF t = r THEN 1 ELSE 0)
    BY <1>0, <1>15 DEF DropReservation, Unreserve, Goto, Reservation, Reserving, TypeOK
  <2>2. UNCHANGED <<lanes, open>>
    BY <1>15 DEF DropReservation
  <2>3. \A t \in Run : Count(t)' = Count(t) - (IF t = r THEN 1 ELSE 0)
    BY <2>1, <2>2, CountParts
  <2>4. \A t \in Run : IF open' THEN pending'[t] = Count(t)' ELSE pending'[t] >= Reservation(t)'
    BY <2>1, <2>2, <2>3, CountParts DEF Counted
  <2> QED
    BY <2>2, <2>4 DEF Counted
<1>16. CASE Enter(r)
  <2> DEFINE one(t) == IF t = r THEN 1 ELSE 0
  <2>1. \A t \in Run : Reservation(t)' = Reservation(t) - one(t)
    BY <1>0, <1>16 DEF Enter, Goto, Reservation, Reserving
  <2>2. UNCHANGED <<open, pending>> /\ open /\ lane[r] \in Lane
    BY <1>16 DEF Enter, TypeOK
  <2>3. lanes' = [lanes EXCEPT ![lane[r]] = Append(@, r)] /\ lanes \in [Lane -> Seq(Run)]
    BY <1>16 DEF Enter, TypeOK
  <2>4. \A t \in Run : Cardinality(Where(lanes'[lane[r]], t))
                          = Cardinality(Where(lanes[lane[r]], t)) + one(t)
    BY <2>2, <2>3, WhereAppend
  <2>5. \A l \in Lane : l # lane[r] => lanes'[l] = lanes[l]
    BY <2>3
  <2>6. \A t \in Run : Cardinality(Where(lanes'["Data"], t))
                          + Cardinality(Where(lanes'["Control"], t))
                        = Cardinality(Where(lanes["Data"], t))
                            + Cardinality(Where(lanes["Control"], t)) + one(t)
    <3>1. CASE lane[r] = "Data"
      BY <2>4, <2>5, <3>1, CountParts DEF Lane
    <3>2. CASE lane[r] = "Control"
      BY <2>4, <2>5, <3>2, CountParts DEF Lane
    <3> QED
      BY <2>2, <3>1, <3>2 DEF Lane
  <2>7. ASSUME NEW t \in Run PROVE Count(t)' = Count(t)
    <3> DEFINE d == Cardinality(Where(lanes'["Data"], t))
               c == Cardinality(Where(lanes'["Control"], t))
    <3>1. Count(t)' = d + c + Reservation(t)'
      BY CountParts
    <3> HIDE DEF d, c
    <3> QED
      BY <2>1, <2>6, <3>1, CountParts DEF d, c
  <2> QED
    BY <2>2, <2>7 DEF Counted
<1> QED
  BY <1>1, <1>2, <1>3, <1>4, <1>5, <1>6, <1>7, <1>8, <1>9, <1>10, <1>11, <1>12, <1>13,
     <1>14, <1>15, <1>16
     DEF ProducerStep, Advance

(* A dequeue takes its envelope from the lane and from the count.          *)
LEMMA DequeueCounted ==
  ASSUME TypeOK, Counted, NEW l \in Lane, lanes[l] # <<>>, Dequeue(l), UNCHANGED open,
         \A r \in Run : pc'[r] \in Reserving <=> pc[r] \in Reserving
  PROVE  Counted'
<1> DEFINE h == Head(lanes[l])
           one(t) == IF t = h THEN 1 ELSE 0
<1>1. h \in Run /\ open /\ lanes \in [Lane -> Seq(Run)]
  BY QueuedPositive DEF TypeOK
<1>2. \A t \in Run : pending'[t] = pending[t] - one(t)
  <2>1. pending' = [pending EXCEPT ![h] = pending[h] - 1]
    BY DEF Dequeue, OnDequeue
  <2>2. pending \in [Run -> Nat]
    BY DEF TypeOK
  <2> QED
    BY <1>1, <2>1, <2>2
<1>3. lanes'[l] = Tail(lanes[l]) /\ \A m \in Lane : m # l => lanes'[m] = lanes[m]
  BY <1>1 DEF Dequeue
<1>4. \A t \in Run : Cardinality(Where(lanes[l], t)) = Cardinality(Where(lanes'[l], t)) + one(t)
  BY <1>1, <1>3, WhereTail
<1>5. lanes'[l] \in Seq(Run)
  BY <1>1, <1>3
<1>6. ASSUME NEW t \in Run PROVE Count(t)' = Count(t) - one(t)
  <2>1. Reservation(t)' = Reservation(t)
    BY DEF Reservation
  <2>2. Cardinality(Where(lanes'[l], t)) \in Nat
    BY <1>5, WhereFinite
  <2>3. CASE l = "Data"
    <3>1. lanes'["Control"] = lanes["Control"]
      BY <1>3, <2>3 DEF Lane
    <3> QED
      BY <1>4, <2>1, <2>2, <2>3, <3>1, CountParts
  <2>4. CASE l = "Control"
    <3>1. lanes'["Data"] = lanes["Data"]
      BY <1>3, <2>4 DEF Lane
    <3> QED
      BY <1>4, <2>1, <2>2, <2>4, <3>1, CountParts
  <2> QED
    BY <2>3, <2>4 DEF Lane
<1> QED
  BY <1>1, <1>2, <1>6, CountParts DEF Counted

(* After a termination every counter still covers its run's reservation.   *)
LEMMA TerminateCounted ==
  ASSUME TypeOK, Counted, Terminate,
         \/ UNCHANGED pending
         \/ \E l \in Lane : lanes[l] # <<>> /\ OnDequeue(l),
         \A r \in Run : pc'[r] \in Reserving <=> pc[r] \in Reserving
  PROVE  Counted'
<1>1. ~open' /\ \A l \in Lane : lanes'[l] = <<>>
  BY DEF Terminate
<1>2. ASSUME NEW r \in Run PROVE pending'[r] >= Reservation(r)'
  <2>1. Reservation(r)' = Reservation(r)
    BY DEF Reservation
  <2>2. CASE UNCHANGED pending
    BY <2>1, <2>2, CountParts DEF Counted
  <2>3. ASSUME NEW l \in Lane, lanes[l] # <<>>, OnDequeue(l) PROVE pending'[r] >= Reservation(r)'
    <3>1. Head(lanes[l]) \in Run /\ open /\ lanes[l] \in Seq(Run)
      BY <2>3, QueuedPositive DEF TypeOK
    <3>2. pending'[r] = IF r = Head(lanes[l]) THEN pending[r] - 1 ELSE pending[r]
      BY <2>3 DEF OnDequeue, TypeOK
    <3>3. r = Head(lanes[l]) => Cardinality(Where(lanes[l], r)) >= 1
      BY <2>3, <3>1, HeadCounts
    <3>4. pending[r] = Count(r)
      BY <3>1 DEF Counted
    <3>5. CASE l = "Data"
      BY <2>1, <3>2, <3>3, <3>4, <3>5, CountParts
    <3>6. CASE l = "Control"
      BY <2>1, <3>2, <3>3, <3>4, <3>6, CountParts
    <3> QED
      BY <2>3, <3>5, <3>6 DEF Lane
  <2> QED
    BY <2>2, <2>3
<1> QED
  BY <1>1, <1>2 DEF Counted

(* A step of the driver, or of what it drives, keeps the counts.           *)
LEMMA DriverCounted ==
  ASSUME TypeOK, Counted, DriverAdvance \/ ProgramStep \/ TestStep
  PROVE  Counted'
<1>0. pc \in [Run -> PCs] /\ "Data" \in Lane /\ "Control" \in Lane
  BY DEF TypeOK, Lane
<1> USE DEF laneVars, sendVars
<1>1. ASSUME NEW r \in Run, ReflectExit(r) PROVE Counted'
  BY <1>1, CountedKept DEF ReflectExit
<1>2. CASE EndExits
  BY <1>2, CountedKept DEF EndExits
<1>3. CASE DrainRevoked
  BY <1>0, <1>3, DequeueCounted DEF DrainRevoked, Drain, Pull
<1>4. CASE DrainQuit
  BY <1>0, <1>4, TerminateCounted DEF DrainQuit, Drain
<1>5. CASE EndControl
  BY <1>5, CountedKept DEF EndControl
<1>6. CASE Discard
  BY <1>0, <1>6, DequeueCounted DEF Discard, Drain, Pull
<1>7. CASE EndBatch
  BY <1>7, CountedKept DEF EndBatch
<1>8. CASE FinishStep
  BY <1>8, CountedKept DEF FinishStep
<1>9. CASE FinishTerminated
  BY <1>9, CountedKept DEF FinishTerminated
<1>10. CASE Notify
  BY <1>10, CountedKept DEF Notify
<1>11. CASE RenderError
  BY <1>0, <1>11, TerminateCounted DEF RenderError, Drain
<1>12. ASSUME NEW S \in SUBSET Run, ReduceQuit(S) PROVE Counted'
  <2>1. \A t \in Run : pc'[t] \in Reserving <=> pc[t] \in Reserving
    BY <1>0, <1>12 DEF ReduceQuit, Start, Unstarted, Reserving
  <2> QED
    BY <1>0, <1>12, <2>1, TerminateCounted DEF ReduceQuit, Pull
<1>13. ASSUME NEW S \in SUBSET Run, NEW A \in SUBSET Run, Reduce(S, A) PROVE Counted'
  <2>1. \A t \in Run : pc'[t] \in Reserving <=> pc[t] \in Reserving
    BY <1>0, <1>13 DEF Reduce, Start, Unstarted, Reserving
  <2> QED
    BY <1>0, <1>13, <2>1, DequeueCounted DEF Reduce, Pull
<1>14. ASSUME NEW S \in SUBSET Run, NEW A \in SUBSET Run, Frame(S, A) PROVE Counted'
  <2>1. \A t \in Run : pc'[t] \in Reserving <=> pc[t] \in Reserving
    BY <1>0, <1>14 DEF Frame, Start, Unstarted, Reserving
  <2> QED
    BY <1>14, <2>1, CountedKept DEF Frame
<1>15. ASSUME NEW S \in SUBSET Run, Boot(S) PROVE Counted'
  <2>1. \A t \in Run : pc'[t] \in Reserving <=> pc[t] \in Reserving
    BY <1>0, <1>15 DEF Boot, Start, Unstarted, Reserving
  <2> QED
    BY <1>15, <2>1, CountedKept DEF Boot
<1>16. ASSUME NEW S \in SUBSET Run, BootQuit(S) PROVE Counted'
  <2>1. \A t \in Run : pc'[t] \in Reserving <=> pc[t] \in Reserving
    BY <1>0, <1>16 DEF BootQuit, Start, Unstarted, Reserving
  <2> QED
    BY <1>0, <1>16, <2>1, TerminateCounted DEF BootQuit, Pull
<1>17. CASE StepPass
  BY <1>17, CountedKept DEF StepPass
<1>18. ASSUME NEW r \in Run, GrantRun(r) PROVE Counted'
  BY <1>18, CountedKept DEF GrantRun
<1>19. CASE Confirm
  BY <1>19, CountedKept DEF Confirm
<1>20. CASE TakeResolution
  BY <1>20, CountedKept DEF TakeResolution, Resolved
<1>21. CASE NoResolution
  BY <1>21, CountedKept DEF NoResolution
<1>22. CASE ReclaimUntaken
  BY <1>22, CountedKept DEF ReclaimUntaken, Resolved
<1>23. CASE Turn
  BY <1>23, CountedKept DEF Turn
<1>24. CASE Exhausted
  BY <1>24, CountedKept DEF Exhausted
<1>25. CASE Settle
  BY <1>25, CountedKept DEF Settle
<1>26. CASE EndSettle
  BY <1>26, CountedKept DEF EndSettle
<1> QED
  BY <1>1, <1>2, <1>3, <1>4, <1>5, <1>6, <1>7, <1>8, <1>9, <1>10, <1>11, <1>12, <1>13,
     <1>14, <1>15, <1>16, <1>17, <1>18, <1>19, <1>20, <1>21, <1>22, <1>23, <1>24, <1>25,
     <1>26
     DEF DriverAdvance, ProgramStep, TestStep
-----------------------------------------------------------------------------
(* Booked.                                                                 *)

(* The histories stay, and so does who has recorded.                       *)
LEMMA BookedKept ==
  ASSUME Owned, Booked, UNCHANGED <<nextSequence, outstanding, armed, fate, accepted>>,
         \A r \in Run : pc'[r] = "Recorded" <=> pc[r] = "Recorded",
         call' = call \/ (call' \in {"Confirming", "Unresolved"} => Outstanding),
         call' = call \/ (call' = "Settling" => ~Outstanding)
  PROVE  Booked'
<1>1. UNCHANGED <<Outstanding, InLedger>>
  BY DEF Outstanding, InLedger
<1>2. Outstanding => (pc'[outstanding.origin] = "Recorded" <=> pc[outstanding.origin] = "Recorded")
  BY DEF Owned
<1> QED
  BY <1>1, <1>2 DEF Booked

(* A send in flight runs under the last grant.                             *)
LEMMA InFlightBooked ==
  ASSUME Owned, Booked, NEW r \in Run, pc[r] \in InFlight
  PROVE  /\ Outstanding /\ outstanding.origin = r /\ outstanding.outcome = "None"
         /\ under[r] = Len(armed) /\ armed[Len(armed)] = r
         /\ Len(armed) = Len(fate) + 1
         /\ InLedger <=> pc[r] = "Recorded"
<1>1. outstanding.origin = r /\ outstanding.outcome = "None" /\ under[r] = outstanding.sequence
      /\ outstanding.taken
  BY DEF Owned, ReleaseOwned
<1>2. Outstanding
  BY <1>1 DEF Outstanding, NoGrant
<1> QED
  BY <1>1, <1>2 DEF Booked

(* A producer's step keeps the book.                                       *)
LEMMA ProducerBooked ==
  ASSUME TypeOK, Owned, Booked, NEW r \in Run, ProducerStep(r),
         UNCHANGED <<call, kernelVars, scriptVars>>
  PROVE  Booked'
<1>0. pc \in [Run -> PCs] /\ outstanding \in Grant
  BY DEF TypeOK
<1> USE DEF scriptVars
<1>1. ASSUME NEW l \in Lane, Intend(r, l) PROVE Booked'
  BY <1>0, <1>1, BookedKept DEF Intend, Goto, gateVars, laneVars
<1>2. CASE Miss(r)
  BY <1>0, <1>2, BookedKept DEF Miss, Goto, gateVars, laneVars
<1>3. CASE Register(r)
  BY <1>0, <1>3, BookedKept DEF Register, Goto, gateVars, laneVars
<1>4. CASE ParkAtGate(r)
  BY <1>0, <1>4, BookedKept DEF ParkAtGate, Goto, gateVars, laneVars
<1>5. CASE Wake(r)
  BY <1>0, <1>5, BookedKept DEF Wake, Goto, gateVars, laneVars
<1>6. CASE Reserve(r)
  BY <1>0, <1>6, BookedKept DEF Reserve, Goto, gateVars, laneVars
<1>7. CASE Enter(r)
  BY <1>0, <1>7, BookedKept DEF Enter, Goto, gateVars, laneVars
<1>8. CASE Wait(r)
  BY <1>0, <1>8, BookedKept DEF Wait, Goto, gateVars, laneVars
<1>9. CASE Refuse(r)
  BY <1>0, <1>9, BookedKept DEF Refuse, Goto, gateVars, laneVars
<1>10. CASE Abort(r)
  BY <1>0, <1>10, BookedKept DEF Abort, Goto, gateVars, laneVars
<1>11. CASE DropReservation(r)
  BY <1>0, <1>11, BookedKept DEF DropReservation, Goto, gateVars, laneVars
<1>12. CASE Finish(r)
  BY <1>0, <1>12, BookedKept DEF Finish, Goto, gateVars, laneVars
<1>13. CASE TakeRelease(r)
  <2>1. /\ UNCHANGED <<nextSequence, armed, fate, accepted, call>>
        /\ outstanding' = [outstanding EXCEPT !.taken = TRUE]
        /\ \A t \in Run : pc'[t] = "Recorded" <=> pc[t] = "Recorded"
    BY <1>0, <1>13 DEF TakeRelease, Goto, laneVars
  <2>2. Outstanding /\ outstanding.origin \in Run
    BY <1>13, GateAssumption DEF TakeRelease, Releases, Outstanding, NoGrant
  <2>3. /\ outstanding'.sequence = outstanding.sequence
        /\ outstanding'.origin = outstanding.origin
        /\ outstanding'.outcome = outstanding.outcome
        /\ outstanding'.taken
    BY <1>0, <2>1 DEF Grant
  <2>4. Outstanding'
    BY <2>3 DEF Outstanding, NoGrant
  <2>5. InLedger' = InLedger
    BY <2>1 DEF InLedger
  <2> QED
    BY <2>1, <2>2, <2>3, <2>4, <2>5 DEF Booked
<1>14. CASE Record(r)
  <2> DEFINE e == Entry(r)
  <2>0. pc[r] = "InLane" /\ pc'[r] = "Recorded"
    BY <1>0, <1>14 DEF Record, Goto
  <2>1. Outstanding /\ outstanding.origin = r /\ e.grant = Len(armed)
    BY <2>0, InFlightBooked DEF InFlight, Entry
  <2>2. UNCHANGED <<nextSequence, outstanding, armed, fate, call>>
    BY <1>14 DEF Record, gateVars
  <2>3. accepted' = Append(accepted, e) /\ accepted \in Seq([origin : Run, lane : Lane, grant : Nat])
    BY <1>14 DEF Record, TypeOK
  <2> HIDE DEF e
  <2>4. DOMAIN accepted' = 1..(Len(accepted) + 1) /\ accepted'[Len(accepted) + 1] = e
        /\ \A i \in DOMAIN accepted : accepted'[i] = accepted[i]
        /\ DOMAIN accepted = 1..Len(accepted) /\ Len(accepted) \in Nat
    BY <2>3
  <2>5. InLedger'
    BY <2>1, <2>2, <2>4 DEF InLedger
  <2>6. \A i \in DOMAIN accepted' : accepted'[i].grant <= Len(armed')
    <3>1. SUFFICES ASSUME NEW i \in DOMAIN accepted' PROVE accepted'[i].grant <= Len(armed')
      OBVIOUS
    <3>2. CASE i = Len(accepted) + 1
      BY <2>1, <2>2, <2>4, <3>2 DEF TypeOK
    <3>3. CASE i \in DOMAIN accepted
      BY <2>2, <2>4, <3>3 DEF Booked
    <3> QED
      BY <2>4, <3>2, <3>3
  <2>7. Outstanding' = Outstanding
    BY <2>2 DEF Outstanding
  <2> QED
    BY <2>0, <2>1, <2>2, <2>5, <2>6, <2>7 DEF Booked
<1>15. CASE ResolveAccepted(r)
  <2>0. pc[r] = "Recorded" /\ pc'[r] # "Recorded"
    BY <1>0, <1>15 DEF ResolveAccepted, Goto
  <2>1. Outstanding /\ outstanding.origin = r /\ (InLedger <=> pc[r] = "Recorded")
    BY <2>0, InFlightBooked DEF InFlight
  <2>2. /\ UNCHANGED <<nextSequence, armed, fate, accepted, call>>
        /\ outstanding' = [outstanding EXCEPT !.outcome = "Accepted"]
    BY <1>15 DEF ResolveAccepted, Resolve, laneVars
  <2>3. /\ outstanding'.sequence = outstanding.sequence
        /\ outstanding'.origin = outstanding.origin
        /\ outstanding'.outcome = "Accepted"
    BY <1>0, <2>2 DEF Grant
  <2>4. Outstanding'
    BY <2>3 DEF Outstanding, NoGrant
  <2>5. InLedger' = InLedger
    BY <2>2 DEF InLedger
  <2> QED
    BY <2>0, <2>1, <2>2, <2>3, <2>4, <2>5 DEF Booked
<1>16. CASE DropReleased(r)
  <2>0. pc[r] = "Unreserved" /\ pc'[r] # "Recorded"
    BY <1>0, <1>16 DEF DropReleased, Goto
  <2>1. Outstanding /\ outstanding.origin = r /\ (InLedger <=> pc[r] = "Recorded")
    BY <2>0, InFlightBooked DEF InFlight
  <2>2. /\ UNCHANGED <<nextSequence, armed, fate, accepted, call>>
        /\ outstanding' = [outstanding EXCEPT !.outcome = "Reclaimed"]
    BY <1>16 DEF DropReleased, Resolve, laneVars
  <2>3. /\ outstanding'.sequence = outstanding.sequence
        /\ outstanding'.origin = outstanding.origin
        /\ outstanding'.outcome = "Reclaimed"
    BY <1>0, <2>2 DEF Grant
  <2>4. Outstanding'
    BY <2>3 DEF Outstanding, NoGrant
  <2>5. InLedger' = InLedger
    BY <2>2 DEF InLedger
  <2> QED
    BY <2>0, <2>1, <2>2, <2>3, <2>4, <2>5 DEF Booked
<1> QED
  BY <1>1, <1>2, <1>3, <1>4, <1>5, <1>6, <1>7, <1>8, <1>9, <1>10, <1>11, <1>12, <1>13,
     <1>14, <1>15, <1>16
     DEF ProducerStep, Advance

(* A step of the driver, or of what it drives, keeps the book.             *)
LEMMA DriverBooked ==
  ASSUME TypeOK, Owned, Booked, DriverAdvance \/ ProgramStep \/ TestStep
  PROVE  Booked'
<1>0. pc \in [Run -> PCs]
  BY DEF TypeOK
<1> USE DEF gateVars, laneVars, sendVars, scriptVars
<1>1. ASSUME NEW r \in Run, ReflectExit(r) PROVE Booked'
  BY <1>1, BookedKept DEF ReflectExit
<1>2. CASE EndExits
  BY <1>2, BookedKept DEF EndExits
<1>3. CASE DrainRevoked
  BY <1>3, BookedKept DEF DrainRevoked
<1>4. CASE DrainQuit
  BY <1>4, BookedKept DEF DrainQuit, Terminate
<1>5. CASE EndControl
  BY <1>5, BookedKept DEF EndControl
<1>6. CASE Discard
  BY <1>6, BookedKept DEF Discard
<1>7. CASE EndBatch
  BY <1>7, BookedKept DEF EndBatch
<1>8. CASE FinishStep
  BY <1>8, BookedKept DEF FinishStep
<1>9. CASE FinishTerminated
  BY <1>9, BookedKept DEF FinishTerminated
<1>10. CASE Notify
  BY <1>10, BookedKept DEF Notify
<1>11. CASE RenderError
  BY <1>11, BookedKept DEF RenderError, Terminate
<1>12. ASSUME NEW S \in SUBSET Run, ReduceQuit(S) PROVE Booked'
  <2>1. \A t \in Run : pc'[t] = "Recorded" <=> pc[t] = "Recorded"
    BY <1>0, <1>12 DEF ReduceQuit, Start, Unstarted
  <2> QED
    BY <1>12, <2>1, BookedKept DEF ReduceQuit, Pull, Terminate
<1>13. ASSUME NEW S \in SUBSET Run, NEW A \in SUBSET Run, Reduce(S, A) PROVE Booked'
  <2>1. \A t \in Run : pc'[t] = "Recorded" <=> pc[t] = "Recorded"
    BY <1>0, <1>13 DEF Reduce, Start, Unstarted
  <2> QED
    BY <1>13, <2>1, BookedKept DEF Reduce, Pull, Terminate
<1>14. ASSUME NEW S \in SUBSET Run, NEW A \in SUBSET Run, Frame(S, A) PROVE Booked'
  <2>1. \A t \in Run : pc'[t] = "Recorded" <=> pc[t] = "Recorded"
    BY <1>0, <1>14 DEF Frame, Start, Unstarted
  <2> QED
    BY <1>14, <2>1, BookedKept DEF Frame, Pull, Terminate
<1>15. ASSUME NEW S \in SUBSET Run, Boot(S) PROVE Booked'
  <2>1. \A t \in Run : pc'[t] = "Recorded" <=> pc[t] = "Recorded"
    BY <1>0, <1>15 DEF Boot, Start, Unstarted
  <2> QED
    BY <1>15, <2>1, BookedKept DEF Boot, Pull, Terminate
<1>16. ASSUME NEW S \in SUBSET Run, BootQuit(S) PROVE Booked'
  <2>1. \A t \in Run : pc'[t] = "Recorded" <=> pc[t] = "Recorded"
    BY <1>0, <1>16 DEF BootQuit, Start, Unstarted
  <2> QED
    BY <1>16, <2>1, BookedKept DEF BootQuit, Pull, Terminate
<1>17. CASE StepPass
  BY <1>17, BookedKept DEF StepPass
<1>18. ASSUME NEW r \in Run, GrantRun(r) PROVE Booked'
  <2>1. /\ ~Outstanding /\ armed' = Append(armed, r) /\ armed \in Seq(Run)
        /\ UNCHANGED <<accepted, fate, pc>> /\ nextSequence' = nextSequence + 1
        /\ call' = "Notifying"
    BY <1>18 DEF GrantRun, IssueGrant, TypeOK
  <2>2. /\ outstanding'.sequence = nextSequence + 1 /\ outstanding'.origin = r
        /\ outstanding'.outcome = "None"
    BY <1>18, GrantIssued DEF GrantRun
  <2>3. Outstanding'
    BY <2>2, GateAssumption DEF Outstanding, NoGrant
  <2>4. Len(armed') = Len(armed) + 1 /\ armed'[Len(armed')] = r /\ Len(armed) \in Nat
    BY <2>1
  <2>5. pc'[r] # "Recorded"
    BY <2>1, UntakenQuiet DEF InFlight
  <2>6. \A i \in DOMAIN accepted' : accepted'[i].grant <= Len(armed)
    BY <2>1 DEF Booked
  <2>7. \A i \in DOMAIN accepted' : accepted'[i].grant \in Nat
    <3> DEFINE E == [origin : Run, lane : Lane, grant : Nat]
    <3>1. accepted' \in Seq(E)
      BY <2>1 DEF TypeOK
    <3>2. \A e \in E : e.grant \in Nat
      OBVIOUS
    <3> HIDE DEF E
    <3>3. \A i \in DOMAIN accepted' : accepted'[i] \in E
      BY <3>1
    <3> QED
      BY <3>2, <3>3
  <2>8. \A i \in DOMAIN accepted' : accepted'[i].grant <= Len(armed')
                                    /\ accepted'[i].grant # Len(armed')
    BY <2>4, <2>6, <2>7
  <2>9. ~InLedger'
    BY <2>8 DEF InLedger
  <2>10. nextSequence = Len(armed) /\ Len(armed) = Len(fate)
    BY <2>1 DEF Booked
  <2> QED
    BY <2>1, <2>2, <2>3, <2>4, <2>5, <2>8, <2>9, <2>10 DEF Booked
<1>19. CASE Confirm
  BY <1>19, BookedKept DEF Confirm
<1>20. CASE TakeResolution
  <2>1. Outstanding /\ fate \in Seq(Confirmed)
    BY <1>20 DEF TakeResolution, Booked, TypeOK
  <2>2. outstanding' = NoGrant /\ UNCHANGED <<nextSequence, armed, accepted>>
        /\ call' = "Script"
    BY <1>20 DEF TakeResolution, Resolved, ClearGrant
  <2>3. Len(fate') = Len(fate) + 1
    BY <1>20, <2>1 DEF TakeResolution, Resolved
  <2>4. ~Outstanding'
    BY <2>2 DEF Outstanding
  <2> QED
    BY <2>1, <2>2, <2>3, <2>4 DEF Booked
<1>21. CASE NoResolution
  <2>1. Outstanding
    BY <1>21 DEF NoResolution, Booked
  <2> QED
    BY <1>21, <2>1, BookedKept DEF NoResolution
<1>22. CASE ReclaimUntaken
  <2>1. Outstanding /\ fate \in Seq(Confirmed)
    BY <1>22 DEF ReclaimUntaken, Booked, TypeOK
  <2>2. outstanding' = NoGrant /\ UNCHANGED <<nextSequence, armed, accepted>>
        /\ call' = "Script"
    BY <1>22 DEF ReclaimUntaken, Resolved, ClearGrant
  <2>3. Len(fate') = Len(fate) + 1
    BY <1>22, <2>1 DEF ReclaimUntaken, Resolved
  <2>4. ~Outstanding'
    BY <2>2 DEF Outstanding
  <2> QED
    BY <2>1, <2>2, <2>3, <2>4 DEF Booked
<1>23. CASE Turn
  <2>1. Outstanding
    BY <1>23 DEF Turn, Booked
  <2> QED
    BY <1>23, <2>1, BookedKept DEF Turn
<1>24. CASE Exhausted
  BY <1>24, BookedKept DEF Exhausted
<1>25. CASE Settle
  BY <1>25, BookedKept DEF Settle
<1>26. CASE EndSettle
  BY <1>26, BookedKept DEF EndSettle
<1> QED
  BY <1>1, <1>2, <1>3, <1>4, <1>5, <1>6, <1>7, <1>8, <1>9, <1>10, <1>11, <1>12, <1>13,
     <1>14, <1>15, <1>16, <1>17, <1>18, <1>19, <1>20, <1>21, <1>22, <1>23, <1>24, <1>25,
     <1>26
     DEF DriverAdvance, ProgramStep, TestStep

-----------------------------------------------------------------------------
(* Named.                                                                  *)

(* No intent is added, no run starts or is forgotten.                      *)
LEMMA NamedKept ==
  ASSUME Named, UNCHANGED <<intents, started, names>>,
         \A r \in Run : pc'[r] = "Unstarted" <=> pc[r] = "Unstarted",
         call' \notin PassStages => call \notin PassStages
  PROVE  Named'
  BY DEF Named

(* A producer's step keeps the runs named.                                 *)
LEMMA ProducerNamed ==
  ASSUME TypeOK, Named, NEW r \in Run, ProducerStep(r),
         UNCHANGED <<call, kernelVars, scriptVars>>
  PROVE  Named'
<1>0. pc \in [Run -> PCs]
  BY DEF TypeOK
<1> USE DEF scriptVars, kernelVars
<1>1. ASSUME NEW l \in Lane, Intend(r, l) PROVE Named'
  <2>1. UNCHANGED <<started, names, call>> /\ pc[r] # "Unstarted"
        /\ \A t \in Run : /\ pc'[t] = "Unstarted" <=> pc[t] = "Unstarted"
                          /\ t # r => intents'[t] = intents[t]
    BY <1>0, <1>1 DEF Intend, Goto, TypeOK
  <2> QED
    BY <2>1 DEF Named
<1>2. CASE TakeRelease(r)
  BY <1>0, <1>2, NamedKept DEF TakeRelease, Goto
<1>3. CASE Miss(r)
  BY <1>0, <1>3, NamedKept DEF Miss, Goto
<1>4. CASE Register(r)
  BY <1>0, <1>4, NamedKept DEF Register, Goto
<1>5. CASE ParkAtGate(r)
  BY <1>0, <1>5, NamedKept DEF ParkAtGate, Goto
<1>6. CASE Wake(r)
  BY <1>0, <1>6, NamedKept DEF Wake, Goto
<1>7. CASE Reserve(r)
  BY <1>0, <1>7, NamedKept DEF Reserve, Goto
<1>8. CASE Enter(r)
  BY <1>0, <1>8, NamedKept DEF Enter, Goto
<1>9. CASE Wait(r)
  BY <1>0, <1>9, NamedKept DEF Wait, Goto
<1>10. CASE Refuse(r)
  BY <1>0, <1>10, NamedKept DEF Refuse, Goto
<1>11. CASE Abort(r)
  BY <1>0, <1>11, NamedKept DEF Abort, Goto
<1>12. CASE Record(r)
  BY <1>0, <1>12, NamedKept DEF Record, Goto
<1>13. CASE ResolveAccepted(r)
  BY <1>0, <1>13, NamedKept DEF ResolveAccepted, Goto
<1>14. CASE DropReservation(r)
  BY <1>0, <1>14, NamedKept DEF DropReservation, Goto
<1>15. CASE DropReleased(r)
  BY <1>0, <1>15, NamedKept DEF DropReleased, Goto
<1>16. CASE Finish(r)
  BY <1>0, <1>16, NamedKept DEF Finish, Goto
<1> QED
  BY <1>1, <1>2, <1>3, <1>4, <1>5, <1>6, <1>7, <1>8, <1>9, <1>10, <1>11, <1>12, <1>13,
     <1>14, <1>15, <1>16
     DEF ProducerStep, Advance

(* A run that starts is one the driver has yet to name.                    *)
LEMMA StartNamed ==
  ASSUME Named, NEW S \in SUBSET Run, Start(S), UNCHANGED <<intents, names>>,
         call' \in PassStages
  PROVE  Named'
  BY DEF Named, Start

(* A step of the driver, or of what it drives, keeps the runs named.       *)
LEMMA DriverNamed ==
  ASSUME TypeOK, Named, DriverAdvance \/ ProgramStep \/ TestStep
  PROVE  Named'
<1> USE DEF sendVars, scriptVars, kernelVars, PassStages
<1>1. ASSUME NEW r \in Run, ReflectExit(r) PROVE Named'
  BY <1>1, NamedKept DEF ReflectExit
<1>2. CASE EndExits
  BY <1>2, NamedKept DEF EndExits
<1>3. CASE DrainRevoked
  BY <1>3, NamedKept DEF DrainRevoked
<1>4. CASE DrainQuit
  BY <1>4, NamedKept DEF DrainQuit, Drain, Terminate
<1>5. CASE EndControl
  BY <1>5, NamedKept DEF EndControl
<1>6. CASE Discard
  BY <1>6, NamedKept DEF Discard
<1>7. CASE EndBatch
  BY <1>7, NamedKept DEF EndBatch
<1>8. CASE FinishStep
  BY <1>8 DEF FinishStep, Mint, Named
<1>9. CASE FinishTerminated
  BY <1>9 DEF FinishTerminated, Mint, Named
<1>10. CASE Notify
  BY <1>10, NamedKept DEF Notify
<1>11. CASE RenderError
  BY <1>11, NamedKept DEF RenderError, Drain, Terminate
<1>12. ASSUME NEW S \in SUBSET Run, ReduceQuit(S) PROVE Named'
  BY <1>12, StartNamed DEF ReduceQuit, Pull, Terminate
<1>13. ASSUME NEW S \in SUBSET Run, NEW A \in SUBSET Run, Reduce(S, A) PROVE Named'
  BY <1>13, StartNamed DEF Reduce, Pull, Terminate
<1>14. ASSUME NEW S \in SUBSET Run, NEW A \in SUBSET Run, Frame(S, A) PROVE Named'
  BY <1>14, StartNamed DEF Frame, Pull, Terminate
<1>15. ASSUME NEW S \in SUBSET Run, Boot(S) PROVE Named'
  BY <1>15, StartNamed DEF Boot, Pull, Terminate
<1>16. ASSUME NEW S \in SUBSET Run, BootQuit(S) PROVE Named'
  BY <1>16, StartNamed DEF BootQuit, Pull, Terminate
<1>17. CASE StepPass
  BY <1>17, NamedKept DEF StepPass, MayCall
<1>18. ASSUME NEW r \in Run, GrantRun(r) PROVE Named'
  BY <1>18, NamedKept DEF GrantRun, MayCall
<1>19. CASE Confirm
  BY <1>19, NamedKept DEF Confirm, MayCall
<1>20. CASE TakeResolution
  BY <1>20, NamedKept DEF TakeResolution, Resolved
<1>21. CASE NoResolution
  BY <1>21, NamedKept DEF NoResolution
<1>22. CASE ReclaimUntaken
  BY <1>22, NamedKept DEF ReclaimUntaken, Resolved
<1>23. CASE Turn
  BY <1>23, NamedKept DEF Turn
<1>24. CASE Exhausted
  BY <1>24, NamedKept DEF Exhausted
<1>25. CASE Settle
  BY <1>25, NamedKept DEF Settle, MayCall
<1>26. CASE EndSettle
  BY <1>26, NamedKept DEF EndSettle
<1> QED
  BY <1>1, <1>2, <1>3, <1>4, <1>5, <1>6, <1>7, <1>8, <1>9, <1>10, <1>11, <1>12, <1>13,
     <1>14, <1>15, <1>16, <1>17, <1>18, <1>19, <1>20, <1>21, <1>22, <1>23, <1>24, <1>25,
     <1>26
     DEF DriverAdvance, ProgramStep, TestStep

-----------------------------------------------------------------------------
(* The invariant.                                                          *)

(* It holds at the start.                                                  *)
LEMMA InitScriptInv == Init => ScriptInv
<1> SUFFICES ASSUME Init PROVE ScriptInv
  OBVIOUS
<1> USE GateAssumption DEF Init, GateInit
<1>1. TypeOK
  BY DEF TypeOK, Grant, NoGrant, PCs, Lane, DriverState, Calls
<1>2. Owned
  BY DEF Owned, ReleaseOwned, InFlight, Outstanding, NoGrant
<1>3. Counted
  <2>1. \A r \in Run : Reservation(r) = 0 /\ pending[r] = 0
    BY DEF Reservation, Reserving
  <2>2. lanes["Data"] = <<>> /\ lanes["Control"] = <<>>
    BY DEF Lane
  <2>3. \A r \in Run : Count(r) = 0 + 0 + 0
    BY <2>1, <2>2, CountWhere, WhereEmpty
  <2> QED
    BY <2>1, <2>3 DEF Counted
<1>4. Booked
  BY DEF Booked, Outstanding, InLedger
<1>5. Named
  BY DEF Named
<1> QED
  BY <1>1, <1>2, <1>3, <1>4, <1>5 DEF ScriptInv

(* Every step keeps it.                                                    *)
LEMMA NextScriptInv == ScriptInv /\ [Next]_vars => ScriptInv'
<1> SUFFICES ASSUME ScriptInv, [Next]_vars PROVE ScriptInv'
  OBVIOUS
<1> USE DEF ScriptInv
<1>1. CASE DriverAdvance \/ ProgramStep \/ TestStep
  BY <1>1, DriverTypes, DriverOwned, DriverCounted, DriverBooked, DriverNamed
<1>2. CASE Producers
  <2>1. PICK r \in Run : ProducerStep(r)
    BY <1>2 DEF Producers
  <2>2. UNCHANGED <<call, kernelVars, scriptVars>>
    BY <1>2 DEF Producers
  <2> QED
    BY <2>1, <2>2, ProducerTypes, ProducerOwned, ProducerCounted, ProducerBooked,
       ProducerNamed
<1>3. CASE UNCHANGED vars
  <2> USE <1>3 DEF vars, gateVars, laneVars, sendVars, kernelVars, scriptVars
  <2>1. TypeOK'
    BY DEF TypeOK
  <2>2. Owned'
    BY OwnedKept
  <2>3. Counted'
    BY CountedKept
  <2>4. Booked'
    BY BookedKept
  <2>5. Named'
    BY NamedKept
  <2> QED
    BY <2>1, <2>2, <2>3, <2>4, <2>5
<1> QED
  BY <1>1, <1>2, <1>3 DEF Next

(* Whatever the test, the program, the streams and the executor do, the    *)
(* grants, the counters, the ledgers and the names agree.                  *)
THEOREM ScriptInvariance == Spec => []ScriptInv
  BY InitScriptInv, NextScriptInv, PTL DEF Spec

(* The types of the script's state.                                        *)
THEOREM ScriptTypes == Spec => []TypeOK
<1>1. ScriptInv => TypeOK
  BY DEF ScriptInv
<1> QED
  BY <1>1, ScriptInvariance, PTL

(* The assertions of the gate's resolve hold, and a pending counter is its *)
(* run's envelopes and its reservation.                                    *)
THEOREM GatedSendsKept == Spec => []GatedSends
<1>1. ScriptInv => ReleaseOwned
  BY DEF ScriptInv, Owned
<1>2. ScriptInv => PendingExact
  BY DEF ScriptInv, Counted, Count, PendingExact
<1>3. ScriptInv => GatedSends
  BY <1>1, <1>2 DEF GatedSends
<1> QED
  BY <1>3, ScriptInvariance, PTL

(* Every run in the ledgers has a name when the test reads them.           *)
THEOREM RecordedNamed == Spec => []RecordedRunsNamed
<1>1. ScriptInv => RecordedRunsNamed
  BY DEF ScriptInv, Named, RecordedRunsNamed, PassStages
<1> QED
  BY <1>1, ScriptInvariance, PTL

-----------------------------------------------------------------------------
(* The grant ledger.                                                       *)

(* What a step does to the histories, if anything.                         *)
LEMMA BookSteps ==
  ASSUME [Next]_vars
  PROVE  \/ UNCHANGED <<armed, fate, accepted>>
         \/ \E r \in Run : GrantRun(r)
         \/ TakeResolution
         \/ ReclaimUntaken
         \/ \E r \in Run : Record(r) /\ UNCHANGED <<armed, fate>>
<1> DEFINE Same == UNCHANGED <<armed, fate, accepted>>
<1> USE DEF gateVars, laneVars, sendVars, kernelVars, scriptVars
<1>1. CASE DriverAdvance
  <2>1. Same
    BY <1>1
       DEF DriverAdvance, ReflectExit, EndExits, DrainRevoked, DrainQuit, EndControl, Discard,
                EndBatch, FinishStep, FinishTerminated, Notify
  <2> QED
    BY <2>1
<1>2. CASE ProgramStep
  <2>1. Same
    BY <1>2 DEF ProgramStep, RenderError, ReduceQuit, Reduce, Frame
  <2> QED
    BY <2>1
<1>3. CASE TestStep
  <2>1. Same \/ (\E r \in Run : GrantRun(r)) \/ TakeResolution \/ ReclaimUntaken
    BY <1>3 DEF TestStep, Boot, BootQuit, StepPass, Confirm, NoResolution, Turn, Exhausted,
                Settle, EndSettle
  <2> QED
    BY <2>1
<1>4. CASE Producers
  <2>1. PICK r \in Run : ProducerStep(r)
    BY <1>4 DEF Producers
  <2>2. UNCHANGED <<armed, fate>>
    BY <1>4 DEF Producers
  <2>3. Record(r) \/ UNCHANGED accepted
    BY <2>1
       DEF ProducerStep, Advance, Intend, TakeRelease, Miss, Register, ParkAtGate, Wake, Reserve,
                Enter, Wait, Refuse, Abort, ResolveAccepted, DropReservation,
                DropReleased, Finish
  <2> QED
    BY <2>2, <2>3
<1>5. CASE UNCHANGED vars
  BY <1>5 DEF vars
<1> QED
  BY <1>1, <1>2, <1>3, <1>4, <1>5 DEF Next

(* Nothing is recorded while the test settles.                             *)
THEOREM SettleQuiet == Spec => SettleAppendsNothing
<1>1. ScriptInv /\ [Next]_vars => [call = "Settling" => UNCHANGED accepted]_vars
  <2>1. SUFFICES ASSUME ScriptInv, [Next]_vars, call = "Settling" PROVE UNCHANGED accepted
    OBVIOUS
  <2>2. ~Outstanding
    BY <2>1 DEF ScriptInv, Booked
  <2>3. \A r \in Run : pc[r] # "InLane"
    BY <2>1, <2>2, UntakenQuiet DEF ScriptInv, InFlight
  <2>4. \A r \in Run : ~Record(r)
    BY <2>3 DEF Record
  <2> QED
    BY <2>1, <2>4, BookSteps DEF GrantRun, MayCall, TakeResolution, ReclaimUntaken
<1> QED
  BY <1>1, ScriptInvariance, PTL DEF Spec, SettleAppendsNothing

(* The ledger as the abstract specification has it.                        *)
Ledger == [i \in DOMAIN accepted |->
             [origin |-> accepted[i].origin, grant |-> accepted[i].grant]]

(* Recording a send appends its entry there.                               *)
LEMMA LedgerAppend ==
  ASSUME TypeOK, NEW r \in Run, accepted' = Append(accepted, Entry(r))
  PROVE  Ledger' = Append(Ledger, [origin |-> r, grant |-> under[r]])
<1> DEFINE e == [origin |-> r, grant |-> under[r]]
           n == Len(accepted)
<1>1. DOMAIN accepted = 1..n /\ n \in Nat /\ Len(accepted') = n + 1
      /\ DOMAIN accepted' = 1..(n + 1)
  BY DEF TypeOK
<1>2. \A i \in 1..n : accepted'[i] = accepted[i]
  BY DEF TypeOK
<1>3. accepted'[n + 1] = Entry(r)
  BY DEF TypeOK
<1>4. Ledger \in Seq([origin : Run, grant : Nat])
  <2> DEFINE E == [origin : Run, lane : Lane, grant : Nat]
             T == [origin : Run, grant : Nat]
  <2>1. accepted \in Seq(E)
    BY DEF TypeOK
  <2>2. \A x \in E : [origin |-> x.origin, grant |-> x.grant] \in T
    OBVIOUS
  <2> HIDE DEF E, T
  <2>3. \A i \in 1..n : accepted[i] \in E
    BY <1>1, <2>1
  <2>4. Ledger \in [1..n -> T]
    BY <1>1, <2>2, <2>3 DEF Ledger
  <2>5. Ledger \in Seq(T)
    BY <1>1, <2>4
  <2> QED
    BY <2>5 DEF T
<1>5. Len(Ledger) = n /\ DOMAIN Ledger = 1..n
  BY <1>1, <1>4 DEF Ledger
<1>6. Append(Ledger, e) = [i \in 1..(n + 1) |-> IF i = n + 1 THEN e ELSE Ledger[i]]
  BY <1>5
<1>7. Ledger' = [i \in 1..(n + 1) |->
                   [origin |-> accepted'[i].origin, grant |-> accepted'[i].grant]]
  BY <1>1 DEF Ledger
<1>8. \A i \in 1..(n + 1) :
        [origin |-> accepted'[i].origin, grant |-> accepted'[i].grant]
          = (IF i = n + 1 THEN e ELSE Ledger[i])
  <2>1. SUFFICES ASSUME NEW i \in 1..(n + 1)
                 PROVE  [origin |-> accepted'[i].origin, grant |-> accepted'[i].grant]
                          = (IF i = n + 1 THEN e ELSE Ledger[i])
    OBVIOUS
  <2>2. CASE i = n + 1
    BY <1>3, <2>2 DEF Entry
  <2>3. CASE i \in 1..n
    BY <1>1, <1>2, <2>3 DEF Ledger
  <2> QED
    BY <1>1, <2>2, <2>3
<1> HIDE DEF e, n
<1> QED
  BY <1>6, <1>7, <1>8 DEF e

(* Every step is one of the ledger's, or leaves it alone.                  *)
LEMMA BookStep ==
  ASSUME ScriptInv, [Next]_vars
  PROVE  [Book!LedgerNext]_(Book!ledgerVars)
<1>0. TypeOK /\ Owned /\ Booked
  BY DEF ScriptInv
<1>1. InLedger <=> Book!Admitted
  BY DEF InLedger, Book!Admitted
<1>2. Outstanding <=> Book!Open
  <2>1. Len(armed) \in Nat /\ Len(fate) \in Nat
    BY <1>0 DEF TypeOK
  <2> QED
    BY <1>0, <2>1 DEF Booked, Book!Open
<1>3. CASE UNCHANGED <<armed, fate, accepted>>
  BY <1>3 DEF Book!ledgerVars
<1>4. ASSUME NEW r \in Run, GrantRun(r) PROVE Book!LedgerNext
  <2>1. Book!Arm(r)
    BY <1>2, <1>4 DEF GrantRun, IssueGrant, laneVars, Book!Arm
  <2> QED
    BY <2>1 DEF Book!LedgerNext
<1>5. ASSUME NEW outcome, Outstanding, Resolved(outcome),
             outcome = IF InLedger THEN "Accepted" ELSE "Reclaimed"
      PROVE  Book!LedgerNext
  <2>1. Book!Report
    BY <1>1, <1>2, <1>5 DEF Resolved, laneVars, Book!Report
  <2> QED
    BY <2>1 DEF Book!LedgerNext
<1>6. CASE TakeResolution
  <2>1. Outstanding /\ Resolved(outstanding.outcome) /\ outstanding.outcome # "None"
    BY <1>0, <1>6 DEF TakeResolution, Booked
  <2>2. outstanding.outcome \in Confirmed /\ outstanding.origin \in Run
    BY <1>0, <2>1 DEF TypeOK, Grant, Owned
  <2>3. pc[outstanding.origin] # "Recorded"
    BY <1>0, <2>1, <2>2 DEF Owned, ReleaseOwned, InFlight
  <2>4. outstanding.outcome = IF InLedger THEN "Accepted" ELSE "Reclaimed"
    BY <1>0, <2>1, <2>2, <2>3 DEF Booked, Confirmed
  <2> QED
    BY <1>5, <2>1, <2>4
<1>7. CASE ReclaimUntaken
  <2>1. Outstanding /\ Resolved("Reclaimed") /\ ~outstanding.taken
    BY <1>0, <1>7 DEF ReclaimUntaken, Reclaimable, Booked
  <2>2. pc[outstanding.origin] # "Recorded" /\ outstanding.outcome = "None"
    BY <1>0, <2>1, UntakenQuiet DEF Owned, InFlight
  <2>3. ~InLedger
    BY <1>0, <2>1, <2>2 DEF Booked
  <2> QED
    BY <1>5, <2>1, <2>3
<1>8. ASSUME NEW r \in Run, Record(r), UNCHANGED <<armed, fate>> PROVE Book!LedgerNext
  <2>1. pc[r] = "InLane" /\ accepted' = Append(accepted, Entry(r))
    BY <1>8 DEF Record
  <2>2. Outstanding /\ ~InLedger /\ under[r] = Len(armed) /\ armed[Len(armed)] = r
    BY <1>0, <2>1, InFlightBooked DEF InFlight
  <2>3. Ledger' = Append(Ledger, [origin |-> armed[Len(armed)], grant |-> Len(armed)])
    BY <1>0, <2>1, <2>2, LedgerAppend
  <2>4. Book!Admit
    BY <1>1, <1>2, <1>8, <2>2, <2>3 DEF Book!Admit, Ledger
  <2> QED
    BY <2>4 DEF Book!LedgerNext
<1> QED
  BY <1>3, <1>4, <1>6, <1>7, <1>8, BookSteps

(* The gate and its driver keep the book that GrantLedger describes: at    *)
(* most one entry a grant, of its run, and a fate that tells the truth.    *)
THEOREM DriverKeepsBook == Spec => BookSpec
<1>1. Init => Book!LedgerInit
  <2>1. SUFFICES ASSUME Init PROVE Book!LedgerInit
    OBVIOUS
  <2>2. DOMAIN accepted = {}
    BY <2>1 DEF Init, GateInit
  <2>3. Ledger = <<>>
    BY <2>2 DEF Ledger
  <2> QED
    BY <2>1, <2>3 DEF Init, Book!LedgerInit, Ledger
<1>2. ScriptInv /\ [Next]_vars => [Book!LedgerNext]_(Book!ledgerVars)
  BY BookStep
<1> QED
  BY <1>1, <1>2, ScriptInvariance, PTL DEF Spec, BookSpec, Book!LedgerSpec
=============================================================================
