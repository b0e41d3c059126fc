----------------------------- MODULE PartsProofs -----------------------------
(***************************************************************************)
(* The parts whose state no pass of the kernel owns: the pending counter   *)
(* under its compare-exchange loops implements the tally it stands for,    *)
(* the timer keeps its cadence, and the gauge funnel implements its feed,  *)
(* in every reachable state of every instance.                             *)
(***************************************************************************)
EXTENDS PendingCounter, WebSocket, Timer, FunnelProperties, FiniteSetTheorems, SequenceTheorems, TLAPS

-----------------------------------------------------------------------------
(* The pending counter.                                                    *)

Operation == [op : {"None", "Reserve", "Decrement"}, current : 0..Top]

(* The reservations that nothing has given back.                           *)
Owed == unsent + inLane + Cardinality(In("Decrement"))

(* The counter is exact or at its ceiling; a thread that read the ceiling  *)
(* will find it there; and what a decrement read was not zero, because its *)
(* own reservation was still counted.                                      *)
CounterInv ==
  /\ value \in 0..Top
  /\ loop \in [Worker -> Operation]
  /\ unsent \in Nat /\ inLane \in Nat
  /\ value = Top \/ value = Owed
  /\ \A w \in Worker : /\ loop[w].op = "None" => loop[w] = NoLoop
                       /\ loop[w].current = Top => value = Top
                       /\ loop[w].op = "Decrement" => loop[w].current > 0

LEMMA InFinite ==
  ASSUME NEW op
  PROVE  IsFiniteSet(In(op)) /\ Cardinality(In(op)) \in Nat
<1>1. In(op) \subseteq Worker
  BY DEF In
<1> QED  BY <1>1, CounterAssumption, FS_Subset, FS_CardinalityType

(* The threads in an operation, when one enters or leaves a loop.          *)
LEMMA Entering ==
  ASSUME NEW w \in Worker, NEW s, loop \in [Worker -> Operation],
         loop' = [loop EXCEPT ![w] = s]
  PROVE  /\ loop[w].op # "Decrement" /\ s.op = "Decrement" =>
              Cardinality(In("Decrement")') = Cardinality(In("Decrement")) + 1
         /\ loop[w].op = "Decrement" /\ s.op # "Decrement" =>
              Cardinality(In("Decrement")') = Cardinality(In("Decrement")) - 1
         /\ (loop[w].op = "Decrement" <=> s.op = "Decrement") =>
              Cardinality(In("Decrement")') = Cardinality(In("Decrement"))
<1>1. IsFiniteSet(In("Decrement"))
  BY InFinite
<1>2. loop'[w] = s /\ \A v \in Worker : v # w => loop'[v] = loop[v]
  OBVIOUS
<1>3. CASE loop[w].op # "Decrement" /\ s.op = "Decrement"
  <2>1. In("Decrement")' = In("Decrement") \cup {w} /\ w \notin In("Decrement")
    BY <1>2, <1>3 DEF In
  <2> QED  BY <1>1, <1>3, <2>1, FS_AddElement
<1>4. CASE loop[w].op = "Decrement" /\ s.op # "Decrement"
  <2>1. In("Decrement")' = In("Decrement") \ {w} /\ w \in In("Decrement")
    BY <1>2, <1>4 DEF In
  <2> QED  BY <1>1, <1>4, <2>1, FS_RemoveElement
<1>5. CASE loop[w].op = "Decrement" <=> s.op = "Decrement"
  <2>1. In("Decrement")' = In("Decrement")
    BY <1>2, <1>5 DEF In
  <2> QED  BY <1>5, <2>1
<1> QED  BY <1>3, <1>4, <1>5

(* A reservation that has not returned from its loop is still counted.     *)
LEMMA DecrementOwed ==
  ASSUME NEW w \in Worker, loop[w].op = "Decrement"
  PROVE  Cardinality(In("Decrement")) >= 1
<1>1. w \in In("Decrement")
  BY DEF In
<1>2. Cardinality(In("Decrement") \ {w}) = Cardinality(In("Decrement")) - 1
  BY <1>1, InFinite, FS_RemoveElement
<1>3. IsFiniteSet(In("Decrement") \ {w})
  BY InFinite, FS_RemoveElement
<1>4. Cardinality(In("Decrement") \ {w}) \in Nat
  BY <1>3, FS_CardinalityType
<1> QED  BY <1>2, <1>4, InFinite

(* One step of a thread keeps the invariant, and is an operation of the    *)
(* tally or leaves count and owed as they are.                             *)
LEMMA CounterStep ==
  ASSUME CounterInv, [CounterNext]_counter
  PROVE  CounterInv' /\ [Counted!ReserveOne \/ Counted!GiveBack]_<<value, Owed>>
<1> USE CounterAssumption
<1> DEFINE D == Cardinality(In("Decrement"))
<1>a. Owed = unsent + inLane + D /\ Owed' = unsent' + inLane' + D'
  BY DEF Owed
<1>0. /\ value \in 0..Top /\ loop \in [Worker -> Operation] /\ unsent \in Nat /\ inLane \in Nat
      /\ value = Top \/ value = unsent + inLane + D
      /\ D \in Nat /\ D' \in Nat
      /\ NoLoop \in Operation /\ NoLoop.op = "None" /\ NoLoop.current = 0
  <2>1. In("Decrement")' \subseteq Worker
    BY DEF In
  <2>2. D' \in Nat
    BY <2>1, FS_Subset, FS_CardinalityType
  <2> HIDE DEF D
  <2> QED  BY <2>2, InFinite DEF D, CounterInv, Owed, NoLoop, Operation
<1>b. /\ value \in 0..Top /\ Top \in Nat \ {0} /\ unsent \in Nat /\ inLane \in Nat
      /\ D \in Nat /\ D' \in Nat
  BY <1>0
<1>1. ASSUME NEW w \in Worker, NEW op \in {"Reserve", "Decrement"}, Start(w, op),
             op = "Decrement" => value > 0
      PROVE  /\ loop' \in [Worker -> Operation]
             /\ loop' = [loop EXCEPT ![w] = [op |-> op, current |-> value]]
             /\ [op |-> op, current |-> value].op = op
             /\ \A v \in Worker : /\ loop'[v].op = "None" => loop'[v] = NoLoop
                                  /\ loop'[v].current = Top => value = Top
                                  /\ loop'[v].op = "Decrement" => loop'[v].current > 0
  BY <1>0, <1>1 DEF Start, Operation, CounterInv
<1>2. ASSUME NEW w \in Worker, Leave(w), value' \in 0..Top, value = Top => value' = Top
      PROVE  /\ loop' \in [Worker -> Operation]
             /\ loop' = [loop EXCEPT ![w] = NoLoop]
             /\ \A v \in Worker : /\ loop'[v].op = "None" => loop'[v] = NoLoop
                                  /\ loop'[v].current = Top => value' = Top
                                  /\ loop'[v].op = "Decrement" => loop'[v].current > 0
  BY <1>0, <1>2 DEF Leave, CounterInv
<1>3. ASSUME NEW w \in Worker, Reserve(w)
      PROVE  CounterInv' /\ UNCHANGED <<value, Owed>>
  <2>1. Start(w, "Reserve") /\ UNCHANGED <<value, unsent, inLane>> /\ loop[w].op = "None"
    BY <1>0, <1>3 DEF Reserve
  <2>2. D' = D
    BY <1>0, <1>1, <2>1, Entering
  <2> QED  BY <1>0, <1>1, <2>1, <2>2 DEF CounterInv, Owed
<1>4. ASSUME NEW w \in Worker, DropReservation(w) \/ DequeueEnvelope(w)
      PROVE  CounterInv' /\ UNCHANGED <<value, Owed>>
  <2>1. /\ Start(w, "Decrement") /\ UNCHANGED value /\ loop[w].op = "None"
        /\ unsent' \in Nat /\ inLane' \in Nat /\ unsent' + inLane' = unsent + inLane - 1
        /\ value > 0
    BY <1>0, <1>4 DEF DropReservation, DequeueEnvelope
  <2>2. D' = D + 1
    BY <1>0, <1>1, <2>1, Entering
  <2>3. Owed' = Owed
    <3>1. Owed' = (unsent + inLane - 1) + (D + 1)
      BY <1>a, <2>1, <2>2
    <3> HIDE DEF D
    <3> QED  BY <1>a, <1>b, <3>1
  <2>4. /\ loop' \in [Worker -> Operation]
        /\ \A v \in Worker : /\ loop'[v].op = "None" => loop'[v] = NoLoop
                             /\ loop'[v].current = Top => value = Top
                             /\ loop'[v].op = "Decrement" => loop'[v].current > 0
    BY <1>1, <2>1
  <2> QED  BY <2>1, <2>3, <2>4 DEF CounterInv
<1>5. CASE Commit
  <2>1. /\ UNCHANGED <<value, loop>> /\ D' = D
        /\ unsent' \in Nat /\ inLane' \in Nat /\ unsent' + inLane' = unsent + inLane
    BY <1>0, <1>5 DEF Commit, In
  <2> QED  BY <1>0, <2>1 DEF CounterInv, Owed
<1>6. ASSUME NEW w \in Worker, Attempt(w)
      PROVE  CounterInv' /\ [Counted!ReserveOne \/ Counted!GiveBack]_<<value, Owed>>
  <2>1. /\ loop[w].op \in {"Reserve", "Decrement"} /\ inLane' = inLane
        /\ loop[w].current \in 0..Top
        /\ loop[w].current = Top => value = Top
        /\ loop[w].op = "Decrement" => loop[w].current > 0 /\ D >= 1
    BY <1>0, <1>6, DecrementOwed DEF Attempt, CounterInv, Operation
  <2>2. CASE Frozen(w) /\ Returned(w) /\ UNCHANGED value
    <3>1. value = Top /\ Leave(w)
      BY <2>1, <2>2 DEF Frozen, Returned
    <3>2. CASE loop[w].op = "Reserve"
      <4>1. unsent' = unsent + 1
        BY <2>2, <3>2 DEF Returned
      <4>2. D' = D
        BY <1>0, <1>2, <2>2, <3>1, <3>2, Entering
      <4>3. CounterInv' /\ Owed' = Owed + 1
        BY <1>0, <1>2, <2>1, <2>2, <3>1, <4>1, <4>2 DEF CounterInv, Owed
      <4> QED  BY <2>2, <3>1, <4>3 DEF Counted!ReserveOne, Owed
    <3>3. CASE loop[w].op = "Decrement"
      <4>1. unsent' = unsent
        BY <2>2, <3>3 DEF Returned
      <4>2. D' = D - 1
        BY <1>0, <1>2, <2>2, <3>1, <3>3, Entering
      <4>3. CounterInv' /\ Owed' = Owed - 1 /\ Owed > 0
        BY <1>0, <1>2, <2>1, <2>2, <3>1, <3>3, <4>1, <4>2 DEF CounterInv, Owed
      <4> QED  BY <2>2, <3>1, <4>3 DEF Counted!GiveBack, Owed
    <3> QED  BY <2>1, <3>2, <3>3
  <2>3. CASE ~Frozen(w) /\ Exchanged(w) /\ value = loop[w].current
    <3>1. /\ value # Top /\ value = Owed /\ Leave(w) /\ value' = Target(w)
          /\ unsent' = IF loop[w].op = "Reserve" THEN unsent + 1 ELSE unsent
      BY <1>0, <2>3 DEF Frozen, Exchanged, Returned, Owed
    <3>2. CASE loop[w].op = "Reserve"
      <4>1. value' = value + 1 /\ value' \in 0..Top /\ unsent' = unsent + 1
        <5>1. value' = value + 1
          BY <2>3, <3>1, <3>2 DEF Target
        <5>2. value + 1 \in 0..Top
          BY <1>b, <3>1
        <5> QED  BY <3>1, <3>2, <5>1, <5>2
      <4>2. D' = D
        BY <1>0, <1>2, <3>1, <3>2, <4>1, Entering
      <4>3. Owed' = Owed + 1 /\ value' = Owed'
        <5> HIDE DEF D
        <5> QED  BY <1>0, <1>a, <2>1, <3>1, <4>1, <4>2
      <4>4. /\ loop' \in [Worker -> Operation]
            /\ \A v \in Worker : /\ loop'[v].op = "None" => loop'[v] = NoLoop
                                 /\ loop'[v].current = Top => value' = Top
                                 /\ loop'[v].op = "Decrement" => loop'[v].current > 0
        BY <1>2, <3>1, <4>1
      <4>5. CounterInv'
        BY <1>0, <2>1, <4>1, <4>3, <4>4 DEF CounterInv
      <4> QED  BY <3>1, <4>1, <4>3, <4>5 DEF Counted!ReserveOne, Owed
    <3>3. CASE loop[w].op = "Decrement"
      <4>1. value' = value - 1 /\ value' \in 0..Top /\ unsent' = unsent
        <5>1. value' = value - 1
          BY <2>3, <3>1, <3>3 DEF Target
        <5>2. value > 0
          BY <2>1, <2>3, <3>3
        <5>3. value - 1 \in 0..Top
          BY <1>b, <5>2
        <5> QED  BY <3>1, <3>3, <5>1, <5>3
      <4>2. D' = D - 1
        BY <1>0, <1>2, <3>1, <3>3, <4>1, Entering
      <4>3. CounterInv' /\ Owed' = Owed - 1 /\ Owed > 0
        BY <1>0, <1>2, <2>1, <3>1, <3>3, <4>1, <4>2 DEF CounterInv, Owed
      <4> QED  BY <3>1, <4>1, <4>3 DEF Counted!GiveBack, Owed
    <3> QED  BY <2>1, <3>2, <3>3
  <2>4. CASE ~Frozen(w) /\ Exchanged(w) /\ value # loop[w].current
    <3>1. Start(w, loop[w].op) /\ UNCHANGED <<value, unsent>>
      BY <2>4 DEF Exchanged
    <3>2. loop[w].op = "Decrement" => value > 0
      BY <1>0, <2>1
    <3>3. D' = D
      BY <1>0, <1>1, <2>1, <3>1, <3>2, Entering
    <3> QED  BY <1>0, <1>1, <2>1, <3>1, <3>2, <3>3 DEF CounterInv, Owed
  <2> QED  BY <1>6, <2>2, <2>3, <2>4 DEF Attempt
<1>7. CASE UNCHANGED counter
  BY <1>7 DEF counter, CounterInv, Owed, In
<1> QED  BY <1>3, <1>4, <1>5, <1>6, <1>7 DEF CounterNext

(* However its threads interleave, the counter goes through what it would  *)
(* if each operation were one step, and no decrement finds zero            *)
(* (accounting.rs reserve, decrement).                                     *)
THEOREM CounterLinearizable == CounterSpec => OperationsAtomic
<1>1. CounterInit => CounterInv /\ Counted!TallyInit
  <2> SUFFICES ASSUME CounterInit PROVE CounterInv /\ Counted!TallyInit
    OBVIOUS
  <2>1. In("Decrement") = {} /\ Cardinality({}) = 0
    BY FS_EmptySet DEF CounterInit, NoLoop, In
  <2>2. Owed = 0 /\ Cardinality(In("Decrement")) = 0
    BY <2>1 DEF CounterInit, Owed
  <2> QED  BY <2>2, CounterAssumption
           DEF CounterInit, CounterInv, NoLoop, Operation, Counted!TallyInit
<1>2. CounterInv /\ [CounterNext]_counter =>
        CounterInv' /\ [Counted!ReserveOne \/ Counted!GiveBack]_<<value, Owed>>
  BY CounterStep
<1>3. CounterInv => NoUnderflow
  BY DEF CounterInv, NoUnderflow, In
<1> QED  BY <1>1, <1>2, <1>3, PTL DEF CounterSpec, OperationsAtomic, Counted!TallySpec, Owed

-----------------------------------------------------------------------------
(* The timer.                                                              *)

(* The integer quotient, by its two bounds.                                *)
LEMMA QuotientBounds ==
  ASSUME NEW n \in Nat \ {0}, NEW x \in Nat
  PROVE  x \div n \in Nat /\ n * (x \div n) <= x /\ x < n * ((x \div n) + 1)
OBVIOUS

(* As many intervals have passed as there are boundaries up to now.        *)
LEMMA QuotientReaches ==
  ASSUME NEW n \in Nat \ {0}, NEW x \in Nat, NEW m \in Nat
  PROVE  x >= n * m <=> x \div n >= m
<1> DEFINE q == x \div n
<1>1. q \in Nat /\ n * q <= x /\ x < n * (q + 1)
  BY QuotientBounds
<1> HIDE DEF q
<1>2. ASSUME q >= m PROVE n * m <= n * q
  BY <1>1, <1>2
<1>3. ASSUME q < m PROVE n * (q + 1) <= n * m
  BY <1>1, <1>3
<1>4. x >= n * m <=> q >= m
  BY <1>1, <1>2, <1>3
<1> QED  BY <1>4 DEF q

(* Boundaries up to the last tick.                                         *)
Ticked == IF ticks = <<>> THEN 0 ELSE Passed(Last(ticks))

(* The deadline is the boundary after the last tick, counted from the      *)
(* anchor, and each tick passed a boundary that none before it had passed. *)
TimerInv ==
  /\ clock \in Nat
  /\ ticks \in Seq(Nat)
  /\ state \in [anchor : Int, deadline : Int]
  /\ state = Unpolled => ticks = <<>>
  /\ state # Unpolled =>
       /\ state.anchor \in 0..clock
       /\ state.deadline = state.anchor + Interval * (Ticked + 1)
       /\ \A i \in DOMAIN ticks :
            /\ ticks[i] \in state.anchor..clock
            /\ Passed(ticks[i]) >= 1
            /\ Passed(ticks[i]) <= Ticked
       /\ \A i, j \in DOMAIN ticks : i < j => Passed(ticks[i]) < Passed(ticks[j])

(* The last tick.                                                          *)
LEMMA TickedFacts ==
  ASSUME TimerInv, state # Unpolled
  PROVE  Ticked \in Nat /\ \A t \in state.anchor..clock : Passed(t) \in Nat
<1>1. ASSUME NEW t \in state.anchor..clock PROVE Passed(t) \in Nat
  <2>1. t - state.anchor \in Nat
    BY DEF TimerInv
  <2> QED  BY <2>1, QuotientBounds, TimerAssumption DEF Passed
<1>2. CASE ticks # <<>>
  <2>1. Len(ticks) \in DOMAIN ticks /\ Last(ticks) = ticks[Len(ticks)]
    BY <1>2 DEF TimerInv, Last
  <2> QED  BY <1>1, <1>2, <2>1 DEF TimerInv, Ticked
<1> QED  BY <1>1, <1>2 DEF Ticked

(* A poll at the deadline or after it comes in a new interval.             *)
LEMMA DueFacts ==
  ASSUME TimerInv, state # Unpolled
  PROVE  clock >= state.deadline <=> Passed(clock) > Ticked
<1> DEFINE x == clock - state.anchor
<1>1. x \in Nat /\ Interval \in Nat \ {0} /\ Ticked \in Nat
  BY TickedFacts, TimerAssumption DEF TimerInv
<1>2. x >= Interval * (Ticked + 1) <=> x \div Interval >= Ticked + 1
  BY <1>1, QuotientReaches
<1>3. Interval * (Ticked + 1) \in Nat /\ x \div Interval \in Nat
  BY <1>1, QuotientBounds
<1>4. clock >= state.deadline <=> x >= Interval * (Ticked + 1)
  BY <1>1, <1>3 DEF TimerInv
<1>5. Passed(clock) = x \div Interval
  BY DEF Passed
<1> QED  BY <1>1, <1>2, <1>3, <1>4, <1>5

(* A tick, at the time of the poll that finds it due.                      *)
LEMMA Ticking ==
  ASSUME TimerInv, state # Unpolled, clock >= state.deadline,
         state' = [state EXCEPT !.deadline = next_anchor_phase_deadline(state.anchor, clock)],
         ticks' = Append(ticks, clock), clock' = clock
  PROVE  TimerInv'
<1>1. /\ state'.anchor = state.anchor /\ state' \in [anchor : Int, deadline : Int]
      /\ state'.deadline = state.anchor + Interval * (Passed(clock) + 1)
      /\ Passed(clock) > Ticked /\ Passed(clock) \in Nat /\ Ticked \in Nat
  <2>1. clock \in state.anchor..clock
    BY DEF TimerInv
  <2>2. Passed(clock) > Ticked /\ Passed(clock) \in Nat /\ Ticked \in Nat
    BY <2>1, TickedFacts, DueFacts
  <2>3. next_anchor_phase_deadline(state.anchor, clock)
          = state.anchor + Interval * (Passed(clock) + 1)
    BY DEF next_anchor_phase_deadline, Passed
  <2>4. next_anchor_phase_deadline(state.anchor, clock) \in Int
    BY <2>2, <2>3, TimerAssumption DEF TimerInv
  <2> QED  BY <2>2, <2>3, <2>4 DEF TimerInv
<1>2. ASSUME NEW t \in Nat PROVE (t - state'.anchor) \div Interval = Passed(t)
  BY <1>1 DEF Passed
<1>3. /\ ticks \in Seq(Nat) /\ clock \in Nat /\ ticks' \in Seq(Nat)
      /\ DOMAIN ticks' = 1..(Len(ticks) + 1) /\ DOMAIN ticks = 1..Len(ticks)
      /\ ticks'[Len(ticks) + 1] = clock /\ \A i \in DOMAIN ticks : ticks'[i] = ticks[i]
      /\ Len(ticks') = Len(ticks) + 1 /\ Len(ticks) \in Nat /\ ticks' # <<>>
  BY DEF TimerInv
<1>4. Ticked' = Passed(clock)
  <2>1. Last(ticks') = clock
    BY <1>3 DEF Last
  <2>2. Ticked' = (clock - state'.anchor) \div Interval
    BY <1>3, <2>1 DEF Ticked, Passed
  <2> QED  BY <1>2, <1>3, <2>2
<1>5. ASSUME NEW i \in DOMAIN ticks'
      PROVE  /\ ticks'[i] \in state'.anchor..clock' /\ ticks'[i] \in Nat
             /\ Passed(ticks'[i]) >= 1 /\ Passed(ticks'[i]) <= Passed(clock)
             /\ i # Len(ticks) + 1 => Passed(ticks'[i]) < Passed(clock)
  <2>1. CASE i = Len(ticks) + 1
    BY <1>1, <1>3, <2>1 DEF TimerInv
  <2>2. CASE i \in DOMAIN ticks
    <3>1. /\ ticks[i] \in state.anchor..clock /\ Passed(ticks[i]) >= 1
          /\ Passed(ticks[i]) <= Ticked
      BY <2>2 DEF TimerInv
    <3>2. Passed(ticks[i]) \in Nat
      BY <3>1, TickedFacts
    <3> QED  BY <1>1, <1>3, <2>2, <3>1, <3>2 DEF TimerInv
  <2> QED  BY <1>3, <2>1, <2>2
<1>6. ASSUME NEW i \in DOMAIN ticks', NEW j \in DOMAIN ticks', i < j
      PROVE  Passed(ticks'[i]) < Passed(ticks'[j])
  <2>1. CASE j = Len(ticks) + 1
    BY <1>3, <1>5, <1>6, <2>1
  <2>2. CASE j \in DOMAIN ticks
    BY <1>3, <1>6, <2>2 DEF TimerInv
  <2> QED  BY <1>3, <2>1, <2>2
<1>7. /\ \A i \in DOMAIN ticks' :
           /\ ticks'[i] \in state'.anchor..clock'
           /\ (ticks'[i] - state'.anchor) \div Interval >= 1
           /\ (ticks'[i] - state'.anchor) \div Interval <= Ticked'
      /\ \A i, j \in DOMAIN ticks' :
           i < j => (ticks'[i] - state'.anchor) \div Interval
                      < (ticks'[j] - state'.anchor) \div Interval
  BY <1>2, <1>4, <1>5, <1>6
<1>8. /\ state'.anchor \in 0..clock' /\ clock' \in Nat
      /\ state'.deadline = state'.anchor + Interval * (Ticked' + 1)
  BY <1>1, <1>4 DEF TimerInv
<1>9. state' # Unpolled
  BY <1>8 DEF Unpolled
<1> QED  BY <1>1, <1>3, <1>7, <1>8, <1>9 DEF TimerInv, Passed

LEMMA TimerStep ==
  ASSUME TimerInv, [TimerNext]_timer
  PROVE  TimerInv'
<1> USE TimerAssumption
<1>1. CASE UNCHANGED timer
  BY <1>1 DEF timer, TimerInv, Ticked, Passed
<1>2. CASE PollTimer /\ state = Unpolled
  <2> DEFINE s == [anchor |-> clock, deadline |-> clock + Interval]
  <2>1. s.anchor = clock /\ s.deadline = clock + Interval /\ s \in [anchor : Int, deadline : Int]
    BY DEF TimerInv
  <2>2. Anchored = s /\ clock < s.deadline /\ ticks = <<>> /\ clock \in Nat
    BY <1>2, <2>1 DEF Anchored, TimerInv
  <2>3. state' = s /\ UNCHANGED <<ticks, clock>>
    BY <1>2, <2>1, <2>2 DEF PollTimer
  <2>4. Ticked' = 0
    BY <2>2, <2>3 DEF Ticked
  <2> HIDE DEF s
  <2> QED  BY <2>1, <2>2, <2>3, <2>4 DEF TimerInv
<1>3. CASE PollTimer /\ state # Unpolled
  <2>1. Anchored = state
    BY <1>3 DEF Anchored
  <2>2. CASE clock < state.deadline
    <3>1. UNCHANGED timer
      BY <1>3, <2>1, <2>2 DEF PollTimer, timer
    <3> QED  BY <1>1, <3>1
  <2>3. CASE ~(clock < state.deadline)
    <3>1. clock >= state.deadline
      BY <2>3 DEF TimerInv
    <3> QED  BY <1>3, <2>1, <2>3, <3>1, Ticking DEF PollTimer
  <2> QED  BY <2>2, <2>3
<1>4. CASE Wait
  <2>1. clock' = clock + 1 /\ UNCHANGED <<state, ticks>> /\ clock \in Nat
    BY <1>4 DEF Wait, TimerInv
  <2>2. Ticked' = Ticked /\ \A t : (t - state'.anchor) \div Interval = Passed(t)
    BY <2>1 DEF Ticked, Passed
  <2> QED  BY <2>1, <2>2 DEF TimerInv, Passed
<1>5. CASE Restart
  BY <1>5 DEF Restart, TimerInv, Unpolled
<1> QED  BY <1>1, <1>2, <1>3, <1>4, <1>5 DEF TimerNext

(* RFC 0009 INV-C3: no burst and no drift, whatever the polls' delays      *)
(* (cadence.rs next_anchor_phase_deadline).                                *)
THEOREM TimerKeepsCadence == TimerSpec => []CadenceKept
<1>1. TimerInit => TimerInv
  BY DEF TimerInit, TimerInv, Unpolled
<1>2. TimerInv /\ [TimerNext]_timer => TimerInv'
  BY TimerStep
<1>3. TimerInv => CadenceKept
  <2> SUFFICES ASSUME TimerInv, state # Unpolled
               PROVE  /\ clock >= state.deadline <=> Passed(clock) > Ticked
                      /\ \A i, j \in DOMAIN ticks :
                           Passed(ticks[i]) >= 1 /\ (i < j => Passed(ticks[i]) < Passed(ticks[j]))
    BY DEF CadenceKept, Ticked
  <2> QED  BY DueFacts DEF TimerInv
<1> QED  BY <1>1, <1>2, <1>3, PTL DEF TimerSpec

-----------------------------------------------------------------------------
(* The WebSocket and EchoChat.                                             *)

Item == {"Frame", "Close", "Error", "End"}

What == {"Connected", "Received", "Error", "Disconnected"}

Message == [number : Nat, what : What \cup {"NoMessage"}]

(* A stream that awaits a write or a close has yielded nothing since.      *)
SocketShape ==
  /\ number \in Nat
  /\ sender \in Nat
  /\ inbound \in Seq(Item)
  /\ out \in Message
  /\ lane \in Seq(Message)
  /\ at \in {"Writing", "ClosingNormally", "ClosingOnError"} => out = NoMessage

(* Messages come in the order of the connections; once the application has *)
(* the sender of the last one, only messages of that one are to come.      *)
InOrder ==
  /\ sender <= number
  /\ \A i \in DOMAIN Coming : Coming[i].number <= number
  /\ \A i, j \in DOMAIN Coming : i < j => Coming[i].number <= Coming[j].number
  /\ sender = number => \A i \in DOMAIN Coming : Coming[i].number = number

Connecting(i) ==
  /\ Coming[i] = Yield("Connected")
  /\ \A j \in i..Len(Coming) : Coming[j].what # "Disconnected"

Reaches ==
  \/ sender = number /\ \A i \in DOMAIN Coming : Coming[i].what # "Disconnected"
  \/ \E i \in DOMAIN Coming : Connecting(i)

SocketInv ==
  /\ SocketShape
  /\ InOrder
  /\ keeps /\ at \in {"Running", "Writing"} => Reaches

LEMMA YieldShape ==
  ASSUME number \in Nat, NEW what \in What
  PROVE  /\ Yield(what) \in Message /\ Yield(what) # NoMessage
         /\ Yield(what).number = number /\ Yield(what).what = what
BY DEF Yield, Message, NoMessage, What

LEMMA NoMessageShape == NoMessage \in Message
BY DEF NoMessage, Message

LEMMA ComingShape ==
  ASSUME SocketShape
  PROVE  Coming \in Seq(Message)
BY DEF SocketShape, Coming

(* Every variable keeps its type.                                          *)
LEMMA SocketShapeStep ==
  ASSUME SocketShape, [SocketNext]_<<socket, keeps>>
  PROVE  SocketShape'
<1> USE DEF SocketShape
<1>0. /\ NoMessage \in Message
      /\ \A what \in What : Yield(what) \in Message
  BY YieldShape, NoMessageShape
<1>1. CASE Connect
  BY <1>1 DEF Connect
<1>2. CASE Connected \/ Closed
  BY <1>0, <1>2 DEF Connected, Closed, ToDone, What
<1>3. CASE ReadNext
  <2>1. Head(inbound) \in Item /\ inbound' \in Seq(Item)
    BY <1>3 DEF ReadNext
  <2> QED  BY <1>0, <1>3, <2>1 DEF ReadNext, Polled, Item, What
<1>4. CASE TakeCommand
  BY <1>4 DEF TakeCommand, Polled
<1>5. CASE Written
  BY <1>0, <1>5 DEF Written, What
<1>6. CASE Send
  BY <1>0, <1>6 DEF Send
<1>7. CASE Finish
  BY <1>7 DEF Finish
<1>8. CASE Arrive
  BY <1>8 DEF Arrive, Item
<1>9. CASE Handle
  <2>1. Head(lane) \in Message /\ lane' \in Seq(Message)
    BY <1>9 DEF Handle
  <2> QED  BY <1>9, <2>1 DEF Handle, Message
<1>10. CASE (\E command \in {"Send", "Close"} : Submit(command)) \/ LetGo
  BY <1>10 DEF Submit, LetGo
<1>11. CASE UNCHANGED <<socket, keeps>>
  BY <1>11 DEF socket
<1> QED  BY <1>1, <1>2, <1>3, <1>4, <1>5, <1>6, <1>7, <1>8, <1>9, <1>10, <1>11 DEF SocketNext

-----------------------------------------------------------------------------
(* What a step does to the messages to come.                               *)

Carried ==
  /\ Coming' = Coming
  /\ number' = number
  /\ sender' = sender \/ (sender' = 0 /\ ~keeps)
  /\ at' \in {"Running", "Writing"} => at \in {"Running", "Writing"}

Yielded(what) ==
  /\ Coming' = Append(Coming, Yield(what))
  /\ UNCHANGED <<number, sender>>
  /\ at' \in {"Running", "Writing"} =>
       \/ what = "Connected"
       \/ what # "Disconnected" /\ at \in {"Running", "Writing"}

Handled ==
  /\ Coming # <<>>
  /\ Coming' = Tail(Coming)
  /\ sender' = CASE Head(Coming).what = "Connected"    -> Head(Coming).number
                 [] Head(Coming).what = "Disconnected" -> 0
                 [] OTHER                              -> sender
  /\ UNCHANGED <<number, at>>

Reconnected ==
  /\ Coming' = Coming
  /\ number' = number + 1
  /\ sender' = sender
  /\ at' = "Connecting"

LEMMA SocketSteps ==
  ASSUME SocketShape, [SocketNext]_<<socket, keeps>>
  PROVE  /\ Carried \/ Handled \/ Reconnected \/ \E what \in What : Yielded(what)
         /\ keeps' = keeps
<1> USE DEF SocketShape
<1>0. keeps' = keeps
  BY DEF SocketNext
<1>1. ASSUME NEW what \in What, out = NoMessage, out' = Yield(what),
             UNCHANGED <<number, lane, sender>>
      PROVE  Coming' = Append(Coming, Yield(what))
  BY <1>1, YieldShape DEF Coming
<1>2. ASSUME UNCHANGED <<out, lane>> PROVE Coming' = Coming
  BY <1>2 DEF Coming
<1>3. CASE Connect
  BY <1>0, <1>2, <1>3 DEF Connect, Reconnected
<1>4. CASE Connected
  <2>1. PICK what \in {"Connected", "Error"} :
          /\ out' = Yield(what)
          /\ at' = IF what = "Connected" THEN "Running" ELSE "Done"
    BY <1>4 DEF Connected
  <2>2. what \in What /\ Yielded(what)
    BY <1>1, <1>4, <2>1 DEF Connected, Polled, Yielded, What
  <2> QED  BY <1>0, <2>2
<1>5. CASE Closed
  <2>1. PICK what \in {"Disconnected", "Error"} : out' = Yield(what) /\ at' = "Done"
    BY <1>5 DEF Closed, ToDone
  <2>2. what \in What /\ Yielded(what)
    BY <1>1, <1>5, <2>1 DEF Closed, Yielded, What
  <2> QED  BY <1>0, <2>2
<1>6. CASE ReadNext
  <2>1. Head(inbound) \in Item
    BY <1>6 DEF ReadNext
  <2>2. CASE Head(inbound) \in {"Frame", "End"}
    <3>1. PICK what \in {"Received", "Disconnected"} :
            /\ out' = Yield(what)
            /\ what = "Disconnected" => at' = "Done"
            /\ what = "Received" => at' = at
      BY <1>6, <2>2 DEF ReadNext
    <3>2. what \in What /\ Yielded(what)
      BY <1>1, <1>6, <3>1 DEF ReadNext, Polled, Yielded, What
    <3> QED  BY <1>0, <3>2
  <2>3. CASE Head(inbound) \in {"Close", "Error"}
    BY <1>0, <1>2, <1>6, <2>3 DEF ReadNext, Carried
  <2> QED  BY <2>1, <2>2, <2>3 DEF Item
<1>7. CASE Written
  <2>1. CASE out' = NoMessage
    BY <1>0, <1>2, <1>7, <2>1 DEF Written, Carried
  <2>2. CASE out' = Yield("Error")
    <3>1. "Error" \in What
      BY DEF What
    <3>2. Yielded("Error")
      BY <1>1, <1>7, <2>2, <3>1 DEF Written, Yielded
    <3> QED  BY <1>0, <3>1, <3>2
  <2> QED  BY <1>7, <2>1, <2>2 DEF Written
<1>8. CASE Send
  <2>1. Coming = Append(lane, out) /\ Coming' = Append(lane, out)
    BY <1>8 DEF Send, Coming
  <2> QED  BY <1>0, <1>8, <2>1 DEF Send, Carried
<1>9. CASE Handle
  <2>1. lane # <<>> /\ lane' = Tail(lane) /\ UNCHANGED <<number, at, out>>
    BY <1>9 DEF Handle
  <2>2. Coming # <<>> /\ Coming' = Tail(Coming) /\ Head(Coming) = Head(lane)
    <3>1. CASE out = NoMessage
      BY <2>1, <3>1 DEF Coming
    <3>2. CASE out # NoMessage
      <4>1. Coming = Append(lane, out) /\ Coming' = Append(Tail(lane), out)
        BY <2>1, <3>2 DEF Coming
      <4>2. /\ lane \in Seq(Message) /\ lane # <<>> /\ out \in Message
            /\ Append(lane, out) # <<>> /\ Head(Append(lane, out)) = Head(lane)
        BY <2>1
      <4>3. Tail(Append(lane, out)) = Append(Tail(lane), out)
        BY <4>2
      <4> QED  BY <4>1, <4>2, <4>3
    <3> QED  BY <3>1, <3>2
  <2> QED  BY <1>0, <1>9, <2>1, <2>2 DEF Handle, Handled
<1>10. CASE TakeCommand \/ Finish \/ Arrive
  BY <1>0, <1>2, <1>10 DEF TakeCommand, Polled, Finish, Arrive, Carried
<1>11. CASE (\E command \in {"Send", "Close"} : Submit(command)) \/ LetGo
  BY <1>0, <1>2, <1>11 DEF Submit, LetGo, Carried
<1>12. CASE UNCHANGED <<socket, keeps>>
  BY <1>0, <1>2, <1>12 DEF socket, Carried
<1> QED  BY <1>0, <1>3, <1>4, <1>5, <1>6, <1>7, <1>8, <1>9, <1>10, <1>11, <1>12 DEF SocketNext

(* Messages keep their order, and a sender is never older than they are.   *)
LEMMA OrderStep ==
  ASSUME SocketShape, SocketShape', InOrder, [SocketNext]_<<socket, keeps>>
  PROVE  InOrder'
<1>1. Coming \in Seq(Message) /\ Coming' \in Seq(Message) /\ number \in Nat /\ sender \in Nat
  <2>1. (SocketShape => Coming \in Seq(Message))'
    BY ComingShape, PTL
  <2> QED  BY <2>1, ComingShape DEF SocketShape
<1>2. \A i \in DOMAIN Coming : Coming[i].number \in Nat
  <2>1. \A i \in DOMAIN Coming : Coming[i] \in Message
    BY <1>1
  <2> QED  BY <2>1 DEF Message
<1>3. CASE Carried \/ Reconnected
  BY <1>1, <1>2, <1>3 DEF InOrder, Carried, Reconnected
<1>4. ASSUME NEW what \in What, Yielded(what) PROVE InOrder'
  <2> DEFINE m == Yield(what)
  <2>1. m.number = number /\ Coming' = Append(Coming, m) /\ UNCHANGED <<number, sender>>
    BY <1>1, <1>4, YieldShape DEF Yielded
  <2> HIDE DEF m
  <2>2. ASSUME NEW i \in DOMAIN Coming'
        PROVE  \/ i \in DOMAIN Coming /\ Coming'[i] = Coming[i]
               \/ i = Len(Coming) + 1 /\ Coming'[i] = m
    BY <1>1, <2>1
  <2>3. DOMAIN Coming = 1..Len(Coming) /\ Len(Coming) \in Nat
    BY <1>1
  <2> QED  BY <1>1, <1>2, <2>1, <2>2, <2>3 DEF InOrder
<1>5. CASE Handled
  <2>1. /\ Coming # <<>> /\ Coming' = Tail(Coming) /\ number' = number
        /\ Head(Coming) = Coming[1] /\ 1 \in DOMAIN Coming
    BY <1>1, <1>5 DEF Handled
  <2>2. \A i \in DOMAIN Coming' : i + 1 \in DOMAIN Coming /\ 1 < i + 1 /\ Coming'[i] = Coming[i + 1]
    BY <1>1, <2>1
  <2>3. sender' \in {Coming[1].number, 0, sender}
    BY <1>5, <2>1 DEF Handled
  <2>4. sender' <= number
    BY <1>1, <1>2, <2>1, <2>3 DEF InOrder
  <2>5. ASSUME NEW i \in DOMAIN Coming', sender' = number PROVE Coming'[i].number = number
    <3>1. /\ Coming[i + 1].number <= number /\ Coming[1].number <= Coming[i + 1].number
          /\ sender = number => Coming[i + 1].number = number
          /\ Coming[i + 1].number \in Nat /\ Coming[1].number \in Nat
      BY <1>2, <2>1, <2>2 DEF InOrder
    <3> QED  BY <1>1, <2>2, <2>3, <2>5, <3>1
  <2>6. \A i, j \in DOMAIN Coming' : i < j => Coming'[i].number <= Coming'[j].number
    <3>1. \A i, j \in DOMAIN Coming' : i < j => i + 1 < j + 1
      BY <1>1
    <3> QED  BY <2>2, <3>1 DEF InOrder
  <2>7. \A i \in DOMAIN Coming' : Coming'[i].number <= number
    BY <2>2 DEF InOrder
  <2> QED  BY <2>1, <2>4, <2>5, <2>6, <2>7 DEF InOrder
<1> QED  BY <1>3, <1>4, <1>5, SocketSteps

(* The last connection stays in reach: its message is handled before what  *)
(* could clear the sender again is yielded.                                *)
LEMMA ReachStep ==
  ASSUME SocketInv, SocketShape', [SocketNext]_<<socket, keeps>>,
         keeps', at' \in {"Running", "Writing"}
  PROVE  Reaches'
<1>1. /\ Coming \in Seq(Message) /\ SocketShape /\ keeps
      /\ number \in Nat /\ sender \in Nat
  BY ComingShape, SocketSteps DEF SocketInv, SocketShape
<1>2. at \in {"Running", "Writing"} => Reaches
  BY <1>1 DEF SocketInv
<1>3. CASE Carried
  <2>1. Coming' = Coming /\ UNCHANGED <<number, sender>> /\ Reaches
    BY <1>1, <1>2, <1>3 DEF Carried
  <2>2. \A i : Connecting(i)' <=> Connecting(i)
    BY <2>1 DEF Connecting, Yield
  <2> QED  BY <2>1, <2>2 DEF Reaches
<1>4. CASE Reconnected
  BY <1>4 DEF Reconnected
<1>5. ASSUME NEW what \in What, Yielded(what) PROVE Reaches'
  <2> DEFINE m == Yield(what)
             n == Len(Coming)
  <2>1. m.what = what /\ Coming' = Append(Coming, m) /\ UNCHANGED <<number, sender>>
    BY <1>1, <1>5, YieldShape DEF Yielded
  <2>2. /\ DOMAIN Coming = 1..n /\ n \in Nat /\ Len(Coming') = n + 1
        /\ DOMAIN Coming' = 1..(n + 1)
        /\ Coming'[n + 1] = m /\ \A i \in 1..n : Coming'[i] = Coming[i]
    BY <1>1, <2>1
  <2>3. CASE what = "Connected"
    <3>1. PICK k \in Nat : k = n + 1
      BY <2>2
    <3>2. Coming'[k] = Yield("Connected")' /\ k \in DOMAIN Coming'
      BY <2>1, <2>2, <2>3, <3>1 DEF Yield
    <3>3. \A j \in k..Len(Coming') : Coming'[j].what # "Disconnected"
      BY <2>1, <2>2, <2>3, <3>1
    <3>4. Connecting(k)'
      BY <3>2, <3>3 DEF Connecting
    <3> QED  BY <3>2, <3>4 DEF Reaches
  <2>4. CASE what # "Connected"
    <3>1. what # "Disconnected" /\ Reaches
      BY <1>2, <1>5, <2>4 DEF Yielded
    <3>2. m.what # "Disconnected"
      BY <2>1, <3>1
    <3> HIDE DEF m, n
    <3>3. CASE sender = number /\ \A i \in DOMAIN Coming : Coming[i].what # "Disconnected"
      <4>1. \A i \in DOMAIN Coming' : Coming'[i].what # "Disconnected"
        BY <2>2, <3>2, <3>3
      <4> QED  BY <2>1, <3>3, <4>1 DEF Reaches
    <3>4. ASSUME NEW i \in DOMAIN Coming, Connecting(i) PROVE Reaches'
      <4>1. Coming'[i] = Yield("Connected")' /\ i \in DOMAIN Coming' /\ i \in 1..n
        BY <2>1, <2>2, <3>4 DEF Connecting, Yield
      <4>2. ASSUME NEW j \in i..Len(Coming') PROVE Coming'[j].what # "Disconnected"
        <5>1. CASE j = n + 1
          BY <2>2, <3>2, <5>1
        <5>2. CASE j # n + 1
          <6>1. j \in i..n /\ j \in 1..n
            BY <2>2, <4>1, <5>2
          <6> QED  BY <2>2, <3>4, <6>1 DEF Connecting, n
        <5> QED  BY <5>1, <5>2
      <4>3. Connecting(i)'
        BY <4>1, <4>2 DEF Connecting
      <4> QED  BY <4>1, <4>3 DEF Reaches
    <3> QED  BY <3>1, <3>3, <3>4 DEF Reaches
  <2> QED  BY <2>3, <2>4
<1>6. CASE Handled
  <2>1. /\ Coming # <<>> /\ Coming' = Tail(Coming) /\ number' = number /\ Reaches
        /\ Head(Coming) = Coming[1]
    BY <1>1, <1>2, <1>6 DEF Handled
  <2>2. /\ Len(Coming') = Len(Coming) - 1 /\ Len(Coming) \in Nat
        /\ DOMAIN Coming = 1..Len(Coming) /\ DOMAIN Coming' = 1..Len(Coming')
        /\ \A i \in DOMAIN Coming' : i + 1 \in DOMAIN Coming /\ Coming'[i] = Coming[i + 1]
    BY <1>1, <2>1
  <2>3. CASE sender = number /\ \A i \in DOMAIN Coming : Coming[i].what # "Disconnected"
    <3>1. Coming[1].number = number /\ Coming[1].what # "Disconnected"
      BY <1>1, <2>1, <2>2, <2>3 DEF SocketInv, InOrder
    <3>2. sender' = number'
      BY <1>6, <2>1, <2>3, <3>1 DEF Handled
    <3>3. \A i \in DOMAIN Coming' : Coming'[i].what # "Disconnected"
      BY <2>2, <2>3
    <3> QED  BY <3>2, <3>3 DEF Reaches
  <2>4. ASSUME NEW i \in DOMAIN Coming, Connecting(i) PROVE Reaches'
    <3>1. Coming[i] = Yield("Connected") /\ \A j \in i..Len(Coming) : Coming[j].what # "Disconnected"
      BY <2>4 DEF Connecting
    <3>2. CASE i = 1
      <4>1. Coming[1].what = "Connected" /\ Coming[1].number = number
        BY <1>1, <3>1, <3>2, YieldShape DEF What
      <4>2. sender' = number'
        BY <1>6, <2>1, <4>1 DEF Handled
      <4>3. \A j \in DOMAIN Coming' : j + 1 \in i..Len(Coming)
        BY <2>2, <3>2
      <4>4. \A j \in DOMAIN Coming' : Coming'[j].what # "Disconnected"
        BY <2>2, <3>1, <4>3
      <4> QED  BY <4>2, <4>4 DEF Reaches
    <3>3. CASE i # 1
      <4>1. i - 1 \in DOMAIN Coming' /\ Coming'[i - 1] = Coming[i]
        BY <2>2, <3>3
      <4>2. Coming'[i - 1] = Yield("Connected")'
        BY <2>1, <3>1, <4>1 DEF Yield
      <4>3. ASSUME NEW j \in (i - 1)..Len(Coming') PROVE Coming'[j].what # "Disconnected"
        <5>1. j \in DOMAIN Coming' /\ j + 1 \in i..Len(Coming)
          BY <2>2, <4>1
        <5> QED  BY <2>2, <3>1, <5>1
      <4>4. Connecting(i - 1)'
        BY <4>2, <4>3 DEF Connecting
      <4> QED  BY <4>1, <4>4 DEF Reaches
    <3> QED  BY <3>2, <3>3
  <2> QED  BY <2>1, <2>3, <2>4 DEF Reaches
<1> QED  BY <1>1, <1>3, <1>4, <1>5, <1>6, SocketSteps

(* While a connection runs, EchoChat has its sender or will have it, and   *)
(* no message of an earlier one takes it away (websocket.rs, the stream;   *)
(* examples/websocket.rs, update).                                         *)
THEOREM SenderKept == SocketSpec => []SenderReachesChat
<1>1. SocketInit => SocketInv
  <2> SUFFICES ASSUME SocketInit PROVE SocketInv
    OBVIOUS
  <2>1. SocketShape
    BY NoMessageShape DEF SocketInit, SocketShape
  <2>2. Coming = <<>>
    BY DEF SocketInit, Coming
  <2> QED  BY <2>1, <2>2 DEF SocketInit, SocketInv, InOrder
<1>2. SocketInv /\ [SocketNext]_<<socket, keeps>> => SocketInv'
  BY SocketShapeStep, OrderStep, ReachStep DEF SocketInv
<1>3. SocketInv => SenderReachesChat
  BY DEF SocketInv, Reaches, Connecting, SenderReachesChat
<1> QED  BY <1>1, <1>2, <1>3, PTL DEF SocketSpec

-----------------------------------------------------------------------------
(* The gauge funnel, for any threads, nesting and bounds.                  *)
(*                                                                         *)
(* The invariant is the conjunction of the properties the run checks, and  *)
(* none is inductive alone.  That the counters keep their type rests on    *)
(* GuardsCounted: a call that lowers a gauge is one of those the gauge     *)
(* counts.  NewestCurrent rests on SingleDrainer: the newest snapshot is   *)
(* in the queue all calls share, or with the one drainer there is.         *)

FunnelInv == TypeOK /\ SingleDrainer /\ NewestCurrent /\ GuardsCounted

Debt(f) == {s \in Site : Owes(s, f)}

-----------------------------------------------------------------------------
(* The operators.                                                          *)

(* The sites are finitely many.                                            *)
LEMMA SiteFinite == IsFiniteSet(Site)
<1>1. IsFiniteSet(1..Depth)
  BY FS_Interval, FunnelAssumption
<1> QED
  BY <1>1, FS_Product, FunnelAssumption DEF Site

(* So the calls that owe a gauge can be counted.                           *)
LEMMA DebtFinite ==
  ASSUME NEW f
  PROVE  IsFiniteSet(Debt(f)) /\ Cardinality(Debt(f)) \in Nat
<1>1. Debt(f) \subseteq Site
  BY DEF Debt
<1>2. IsFiniteSet(Debt(f))
  BY <1>1, SiteFinite, FS_Subset
<1> QED
  BY <1>2, FS_CardinalityType

(* The parts of a change.                                                  *)
LEMMA ChangeParts ==
  ASSUME NEW c \in Change
  PROVE  /\ c.op \in {"Enter", "Leave", "Set"}
         /\ c.op # "Set" => c.gauge \in Field /\ c.gauge # Keyed
         /\ c.op = "Set" => c.gauge = Keyed /\ c.to \in Nat
         /\ c.gauge \in Gauge
<1>1. CASE c \in [op : {"Enter", "Leave"}, gauge : Field, to : {0}]
  BY <1>1, FunnelAssumption DEF Gauge
<1>2. CASE c \in [op : {"Set"}, gauge : {Keyed}, to : 0..MaxKeyed]
  BY <1>2, FunnelAssumption DEF Gauge
<1> QED
  BY <1>1, <1>2 DEF Change

(* A gauge that a guard lowers is not that of the keyed entries.           *)
LEMMA FieldGauge == \A f \in Field : f \in Gauge /\ f # Keyed
  BY FunnelAssumption DEF Gauge

(* What a change reaches.                                                  *)
LEMMA ReachedEnter ==
  ASSUME NEW c \in Change, c.op = "Enter"
  PROVE  Reached(c) = [counts EXCEPT ![c.gauge] = @ + 1]
  BY DEF Reached

LEMMA ReachedLeave ==
  ASSUME NEW c \in Change, c.op = "Leave"
  PROVE  Reached(c) = [counts EXCEPT ![c.gauge] = @ - 1]
  BY DEF Reached

LEMMA ReachedSet ==
  ASSUME NEW c \in Change, c.op = "Set"
  PROVE  Reached(c) = [counts EXCEPT ![c.gauge] = c.to]
  BY DEF Reached

(* A call that lowers a gauge finds it raised.                             *)
LEMMA Lowerable ==
  ASSUME TypeOK, GuardsCounted, NEW s \in Site,
         At(s, "Checked"), call[s].change.op = "Leave"
  PROVE  counts[call[s].change.gauge] >= 1
<1> DEFINE f == call[s].change.gauge
<1>1. call[s].change \in Change
  BY DEF TypeOK, Call
<1>2. f \in Field /\ f \in Gauge
  BY <1>1, ChangeParts
<1>3. s \in Debt(f)
  BY <1>1 DEF Debt, Owes
<1>4. Cardinality(Debt(f)) >= 1
  <2>1. Cardinality(Debt(f)) # 0
    BY <1>3, DebtFinite, FS_EmptySet
  <2> QED
    BY <2>1, DebtFinite
<1>5. counts[f] = guards[f] + stranded[f] + Cardinality(Debt(f))
  BY <1>2 DEF GuardsCounted, Debt
<1>6. guards[f] \in Nat /\ stranded[f] \in Nat
  BY <1>2 DEF TypeOK
<1> QED
  BY <1>4, <1>5, <1>6, DebtFinite

(* So what a call reaches are counts.                                      *)
LEMMA ReachedCounts ==
  ASSUME TypeOK, GuardsCounted, NEW s \in Site, At(s, "Checked")
  PROVE  Reached(call[s].change) \in Counts
<1> DEFINE c == call[s].change
<1>1. c \in Change
  BY DEF TypeOK, Call
<1>2. counts \in [Gauge -> Nat] /\ c.gauge \in Gauge
  BY <1>1, ChangeParts DEF TypeOK, Counts
<1>3. CASE c.op = "Enter"
  BY <1>1, <1>2, <1>3, ReachedEnter DEF Counts
<1>4. CASE c.op = "Leave"
  <2>1. counts[c.gauge] >= 1
    BY <1>4, Lowerable
  <2>2. counts[c.gauge] - 1 \in Nat
    BY <1>2, <2>1
  <2> QED
    BY <1>1, <1>2, <1>4, <2>2, ReachedLeave DEF Counts
<1>5. CASE c.op = "Set"
  BY <1>1, <1>2, <1>5, ReachedSet, ChangeParts DEF Counts
<1> QED
  BY <1>1, <1>3, <1>4, <1>5, ChangeParts

(* NoCall is a call.                                                       *)
LEMMA NoCallType == NoCall \in Call
<1>1. NoCall.change \in Change
  BY FunnelAssumption DEF NoCall, Change
<1>2. NoCall.snap \in Snapshot
  BY DEF NoCall, Snapshot, Counts, Zero
<1> QED
  BY <1>1, <1>2 DEF NoCall, Call, Points

(* The last of a queue after an Append, and after a Tail.                  *)
LEMMA AppendLast ==
  ASSUME NEW S, NEW q \in Seq(S), NEW e \in S
  PROVE  /\ Append(q, e) \in Seq(S) /\ Append(q, e) # <<>>
         /\ Append(q, e)[Len(Append(q, e))] = e
  OBVIOUS

LEMMA TailLast ==
  ASSUME NEW S, NEW q \in Seq(S), q # <<>>
  PROVE  /\ Tail(q) \in Seq(S) /\ Head(q) \in S
         /\ Tail(q) = <<>> => q[Len(q)] = Head(q)
         /\ Tail(q) # <<>> => Tail(q)[Len(Tail(q))] = q[Len(q)]
<1>1. Len(q) \in Nat \ {0}
  OBVIOUS
<1>2. /\ Tail(q) \in Seq(S) /\ Head(q) \in S /\ Head(q) = q[1]
      /\ Len(Tail(q)) = Len(q) - 1
      /\ \A i \in 1..(Len(q) - 1) : Tail(q)[i] = q[i + 1]
  BY <1>1
<1>3. Tail(q) = <<>> <=> Len(q) = 1
  <2>1. ASSUME Tail(q) = <<>> PROVE Len(q) = 1
    <3>1. Len(<<>>) = 0
      BY EmptySeq
    <3>2. Len(Tail(q)) = 0
      BY <2>1, <3>1, Zenon
    <3>3. Len(q) - 1 = 0
      BY <1>2, <3>2, Zenon
    <3> QED
      BY <1>1, <3>3
  <2>2. ASSUME Tail(q) # <<>> PROVE Len(q) # 1
    <3>1. Len(Tail(q)) \in Nat \ {0}
      BY <1>2, <2>2, EmptySeq
    <3> QED
      BY <1>1, <1>2, <3>1
  <2> QED
    BY <2>1, <2>2
<1>4. ASSUME Tail(q) = <<>> PROVE q[Len(q)] = Head(q)
  BY <1>2, <1>3, <1>4
<1>5. ASSUME Tail(q) # <<>> PROVE Tail(q)[Len(Tail(q))] = q[Len(q)]
  <2>1. Len(q) - 1 \in 1..(Len(q) - 1)
    BY <1>1, <1>3, <1>5
  <2> QED
    BY <1>1, <1>2, <2>1
<1> QED
  BY <1>2, <1>4, <1>5

-----------------------------------------------------------------------------
(* Counting.                                                               *)

(* A step that moves the call at one site only.                            *)
Moves(s) == \A u \in Site : u # s => call'[u] = call[u]

(* What one site's step does to the debt of a gauge.                       *)
LEMMA DebtKept ==
  ASSUME NEW f, NEW s \in Site, Moves(s), Owes(s, f)' <=> Owes(s, f)
  PROVE  Cardinality(Debt(f))' = Cardinality(Debt(f))
<1>1. \A u \in Site : Owes(u, f)' <=> Owes(u, f)
  BY DEF Moves, Owes, Drainer, At
<1> QED
  BY <1>1 DEF Debt

LEMMA DebtTaken ==
  ASSUME NEW f, NEW s \in Site, Moves(s), Owes(s, f)', ~ Owes(s, f)
  PROVE  Cardinality(Debt(f))' = Cardinality(Debt(f)) + 1
<1>1. \A u \in Site : u # s => (Owes(u, f)' <=> Owes(u, f))
  BY DEF Moves, Owes, Drainer, At
<1>2. Debt(f)' = Debt(f) \cup {s} /\ s \notin Debt(f)
  BY <1>1 DEF Debt
<1> QED
  BY <1>2, DebtFinite, FS_AddElement

LEMMA DebtPaid ==
  ASSUME NEW f, NEW s \in Site, Moves(s), ~ Owes(s, f)', Owes(s, f)
  PROVE  Cardinality(Debt(f))' = Cardinality(Debt(f)) - 1
<1>1. \A u \in Site : u # s => (Owes(u, f)' <=> Owes(u, f))
  BY DEF Moves, Owes, Drainer, At
<1>2. Debt(f)' = Debt(f) \ {s} /\ s \in Debt(f)
  BY <1>1 DEF Debt
<1> QED
  BY <1>2, DebtFinite, FS_RemoveElement

(* GuardsCounted in terms of the debt.                                     *)
LEMMA CountedByDebt ==
  GuardsCounted <=> \A f \in Field : counts[f] = guards[f] + stranded[f] + Cardinality(Debt(f))
  BY DEF GuardsCounted, Debt

-----------------------------------------------------------------------------
(* The steps.                                                              *)

(* What is known of a call.                                                *)
LEMMA CallParts ==
  ASSUME TypeOK, NEW s \in Site
  PROVE  /\ call[s].at \in Points /\ call[s].change \in Change
         /\ call[s].enabled \in BOOLEAN /\ call[s].snap \in Snapshot
  BY DEF TypeOK, Call

(* A step of a call that neither takes nor gives up the role.              *)
LEMMA RoleKept ==
  ASSUME SingleDrainer, NewestCurrent, NEW s \in Site, Moves(s),
         Drainer(s)' <=> Drainer(s),
         Drainer(s) => call'[s].snap = call[s].snap,
         UNCHANGED <<counts, seq, pending, draining>>
  PROVE  SingleDrainer' /\ NewestCurrent'
<1>1. \A u \in Site : /\ Drainer(u)' <=> Drainer(u)
                      /\ Drainer(u) => call'[u].snap = call[u].snap
  BY DEF Moves, Drainer
<1>2. SingleDrainer'
  BY <1>1 DEF SingleDrainer
<1>3. NewestCurrent'
  <2> SUFFICES ASSUME NEW u \in Site, Drainer(u)'
               PROVE  Newest(u)' = [seq |-> seq', counts |-> counts']
    BY DEF NewestCurrent
  <2>1. Newest(u)' = Newest(u)
    BY <1>1 DEF Newest
  <2> QED
    BY <1>1, <2>1 DEF NewestCurrent
<1> QED
  BY <1>2, <1>3

(* A gauge less its guards and what one call owes.                         *)
Rest(s, f) == counts[f] - guards[f] - stranded[f] - (IF Owes(s, f) THEN 1 ELSE 0)

(* The gauges stay counted when a step moves one call and changes no Rest. *)
LEMMA Balanced ==
  ASSUME TypeOK, TypeOK', GuardsCounted, NEW s \in Site, Moves(s),
         \A f \in Field : Rest(s, f)' = Rest(s, f)
  PROVE  GuardsCounted'
<1> SUFFICES ASSUME NEW f \in Field
             PROVE  counts'[f] = guards'[f] + stranded'[f] + Cardinality(Debt(f))'
  BY DEF GuardsCounted, Debt
<1>1. counts[f] = guards[f] + stranded[f] + Cardinality(Debt(f))
  BY CountedByDebt
<1>2. /\ counts[f] \in Nat /\ guards[f] \in Nat /\ stranded[f] \in Nat
      /\ counts'[f] \in Nat /\ guards'[f] \in Nat /\ stranded'[f] \in Nat
      /\ Cardinality(Debt(f)) \in Nat
  BY DebtFinite, FieldGauge DEF TypeOK, Counts
<1>3. CASE Owes(s, f)' <=> Owes(s, f)
  <2>1. Cardinality(Debt(f))' = Cardinality(Debt(f))
    BY <1>3, DebtKept
  <2>2. counts'[f] - guards'[f] - stranded'[f] = counts[f] - guards[f] - stranded[f]
    BY <1>2, <1>3 DEF Rest
  <2> QED
    BY <1>1, <1>2, <2>1, <2>2
<1>4. CASE Owes(s, f)' /\ ~ Owes(s, f)
  <2>1. Cardinality(Debt(f))' = Cardinality(Debt(f)) + 1
    BY <1>4, DebtTaken
  <2>2. counts'[f] - guards'[f] - stranded'[f] - 1 = counts[f] - guards[f] - stranded[f]
    BY <1>2, <1>4 DEF Rest
  <2> QED
    BY <1>1, <1>2, <2>1, <2>2
<1>5. CASE ~ Owes(s, f)' /\ Owes(s, f)
  <2>1. Cardinality(Debt(f))' = Cardinality(Debt(f)) - 1
    BY <1>5, DebtPaid
  <2>2. counts'[f] - guards'[f] - stranded'[f] = counts[f] - guards[f] - stranded[f] - 1
    BY <1>2, <1>5 DEF Rest
  <2> QED
    BY <1>1, <1>2, <2>1, <2>2
<1> QED
  BY <1>3, <1>4, <1>5

(* A call begins: of what the invariant speaks of, only the guard that is  *)
(* dropped changes, and its call owes the gauge.                           *)
LEMMA BeginStep ==
  ASSUME FunnelInv, NEW s \in Site, NEW c \in Change, Begin(s, c)
  PROVE  FunnelInv'
<1> USE DEF FunnelInv
<1>1. PICK e \in BOOLEAN :
        call' = [call EXCEPT ![s] = [NoCall EXCEPT !.at = "Checked", !.change = c,
                                                   !.enabled = e]]
  BY DEF Begin, Enabled, TypeOK
<1>2. /\ At(s, "Idle") /\ Permitted(s, c)
      /\ UNCHANGED <<counts, seq, pending, draining, stranded, listening>>
      /\ guards' = IF c.op = "Leave" THEN [guards EXCEPT ![c.gauge] = @ - 1] ELSE guards
  BY DEF Begin, Callable
<1>3. /\ call'[s].at = "Checked" /\ call'[s].change = c
      /\ Moves(s)
      /\ call' \in [Site -> Call]
  <2>1. [NoCall EXCEPT !.at = "Checked", !.change = c, !.enabled = e] \in Call
    BY NoCallType DEF Call, Points
  <2>2. /\ [NoCall EXCEPT !.at = "Checked", !.change = c, !.enabled = e].at = "Checked"
        /\ [NoCall EXCEPT !.at = "Checked", !.change = c, !.enabled = e].change = c
    BY DEF NoCall
  <2> QED
    BY <1>1, <2>1, <2>2 DEF TypeOK, Moves
<1>4. TypeOK'
  <2>1. guards' \in [Field -> Nat]
    <3>1. CASE c.op = "Leave"
      <4>1. guards[c.gauge] > 0 /\ c.gauge \in Field
        BY <1>2, <3>1, ChangeParts DEF Permitted
      <4>2. guards[c.gauge] - 1 \in Nat
        BY <4>1 DEF TypeOK
      <4> QED
        BY <1>2, <3>1, <4>2 DEF TypeOK
    <3> QED
      BY <1>2, <3>1 DEF TypeOK
  <2> QED
    BY <1>2, <1>3, <2>1 DEF TypeOK
<1>5. SingleDrainer' /\ NewestCurrent'
  <2>1. ~ Drainer(s) /\ ~ Drainer(s)'
    BY <1>2, <1>3 DEF Drainer, At
  <2> QED
    BY <1>2, <1>3, <2>1, RoleKept
<1>6. ASSUME NEW f \in Field PROVE Rest(s, f)' = Rest(s, f)
  <2>1. ~ Owes(s, f)
    BY <1>2 DEF Owes, Drainer, At
  <2>2. guards[f] \in Nat /\ stranded[f] \in Nat /\ counts[f] \in Nat
    BY FieldGauge DEF TypeOK, Counts
  <2>3. CASE c.op = "Leave" /\ c.gauge = f
    <3>1. Owes(s, f)'
      BY <1>3, <2>3 DEF Owes, At
    <3>2. guards'[f] = guards[f] - 1
      BY <1>2, <2>3 DEF TypeOK
    <3> QED
      BY <1>2, <2>1, <2>2, <3>1, <3>2 DEF Rest
  <2>4. CASE ~ (c.op = "Leave" /\ c.gauge = f)
    <3>1. ~ Owes(s, f)'
      BY <1>3, <2>4 DEF Owes, At, Drainer
    <3>2. guards'[f] = guards[f]
      BY <1>2, <2>4, ChangeParts DEF TypeOK
    <3> QED
      BY <1>2, <2>1, <2>2, <3>1, <3>2 DEF Rest
  <2> QED
    BY <2>3, <2>4
<1>7. GuardsCounted'
  BY <1>3, <1>4, <1>6, Balanced
<1> QED
  BY <1>4, <1>5, <1>7

(* A call that ends owes nothing, and enter leaves a guard.                *)
LEMMA ReturnParts ==
  ASSUME TypeOK, NEW s \in Site, Return(s)
  PROVE  /\ Moves(s)
         /\ call' \in [Site -> Call]
         /\ guards' \in [Field -> Nat]
         /\ ~ Drainer(s)'
         /\ \A f \in Field :
              /\ ~ Owes(s, f)'
              /\ guards'[f] = IF call[s].change.op = "Enter" /\ call[s].change.gauge = f
                                THEN guards[f] + 1 ELSE guards[f]
<1>1. call' = [call EXCEPT ![s] = NoCall] /\ call'[s].at = "Idle"
  BY DEF Return, TypeOK, NoCall
<1>2. Moves(s) /\ call' \in [Site -> Call]
  BY <1>1, NoCallType DEF TypeOK, Moves
<1>3. ~ Drainer(s)' /\ \A f \in Field : ~ Owes(s, f)'
  BY <1>1 DEF Drainer, Owes, At
<1>4. CASE call[s].change.op = "Enter"
  <2>1. call[s].change.gauge \in Field
    BY <1>4, CallParts, ChangeParts
  <2>2. guards' = [guards EXCEPT ![call[s].change.gauge] = @ + 1]
    BY <1>4 DEF Return
  <2> QED
    BY <1>2, <1>3, <1>4, <2>1, <2>2 DEF TypeOK
<1>5. CASE call[s].change.op # "Enter"
  <2>1. guards' = guards
    BY <1>5 DEF Return
  <2> QED
    BY <1>2, <1>3, <1>5, <2>1 DEF TypeOK
<1> QED
  BY <1>4, <1>5

(* What a change does to the gauges that guards lower.                     *)
LEMMA ReachedField ==
  ASSUME TypeOK, NEW c \in Change, NEW f \in Field
  PROVE  Reached(c)[f] = IF c.gauge # f THEN counts[f]
                         ELSE IF c.op = "Enter" THEN counts[f] + 1 ELSE counts[f] - 1
<1>1. counts \in [Gauge -> Nat] /\ f \in Gauge /\ f # Keyed /\ c.gauge \in Gauge
  BY FieldGauge, ChangeParts DEF TypeOK, Counts
<1>2. CASE c.op = "Enter"
  BY <1>1, <1>2, ReachedEnter
<1>3. CASE c.op = "Leave"
  BY <1>1, <1>3, ReachedLeave
<1>4. CASE c.op = "Set"
  BY <1>1, <1>4, ReachedSet, ChangeParts
<1> QED
  BY <1>2, <1>3, <1>4, ChangeParts

(* A call that changes a gauge and ends keeps the balance.                 *)
LEMMA MutateReturns ==
  ASSUME FunnelInv, NEW s \in Site, Mutate(s), Return(s), stranded' = stranded
  PROVE  \A f \in Field : Rest(s, f)' = Rest(s, f)
<1> USE DEF FunnelInv
<1> SUFFICES ASSUME NEW f \in Field PROVE Rest(s, f)' = Rest(s, f)
  OBVIOUS
<1> DEFINE c == call[s].change
<1>1. c \in Change /\ At(s, "Checked") /\ counts' = Reached(c)
  BY CallParts DEF Mutate
<1>2. counts'[f] = IF c.gauge # f THEN counts[f]
                   ELSE IF c.op = "Enter" THEN counts[f] + 1 ELSE counts[f] - 1
  BY <1>1, ReachedField
<1>3. guards'[f] = (IF c.op = "Enter" /\ c.gauge = f THEN guards[f] + 1 ELSE guards[f])
      /\ ~ Owes(s, f)'
  BY ReturnParts
<1>4. counts[f] \in Nat /\ guards[f] \in Nat /\ stranded[f] \in Nat
  BY FieldGauge DEF TypeOK, Counts
<1>5. Owes(s, f) <=> c.gauge = f /\ c.op = "Leave"
  BY <1>1 DEF Owes, At, Drainer
<1>6. c.gauge = f => c.op \in {"Enter", "Leave"}
  BY <1>1, ChangeParts, FieldGauge
<1>7. CASE c.gauge # f
  BY <1>2, <1>3, <1>4, <1>5, <1>7 DEF Rest
<1>8. CASE c.gauge = f /\ c.op = "Enter"
  BY <1>2, <1>3, <1>4, <1>5, <1>8 DEF Rest
<1>9. CASE c.gauge = f /\ c.op = "Leave"
  BY <1>2, <1>3, <1>4, <1>5, <1>9 DEF Rest
<1> QED
  BY <1>6, <1>7, <1>8, <1>9

(* emit without a change: only set_keyed_entries comes to that.            *)
LEMMA ChangeNothingStep ==
  ASSUME FunnelInv, NEW s \in Site, ChangeNothing(s)
  PROVE  FunnelInv'
<1> USE DEF FunnelInv
<1>1. /\ At(s, "Checked") /\ Return(s) /\ Reached(call[s].change) = counts
      /\ UNCHANGED <<counts, seq, pending, draining, stranded, listening>>
  BY DEF ChangeNothing
<1>2. TypeOK'
  BY <1>1, ReturnParts DEF TypeOK
<1>3. SingleDrainer' /\ NewestCurrent'
  <2>1. ~ Drainer(s)
    BY <1>1 DEF Drainer, At
  <2> QED
    BY <1>1, <2>1, ReturnParts, RoleKept
<1>4. ASSUME NEW f \in Field PROVE Rest(s, f)' = Rest(s, f)
  <2>1. counts[f] \in Nat
    BY FieldGauge DEF TypeOK, Counts
  <2>2. call[s].change.gauge # f
    BY <1>1, <2>1, CallParts, ReachedField
  <2>3. ~ Owes(s, f)
    BY <2>2 DEF Owes
  <2> QED
    BY <1>1, <2>2, <2>3, ReturnParts DEF Rest
<1>5. GuardsCounted'
  BY <1>1, <1>2, <1>4, ReturnParts, Balanced
<1> QED
  BY <1>2, <1>3, <1>5

(* What emit captures under the lock is a snapshot.                        *)
LEMMA CaptureType ==
  ASSUME TypeOK, GuardsCounted, NEW s \in Site, At(s, "Checked")
  PROVE  Capture(call[s].change) \in Snapshot
  BY ReachedCounts DEF Capture, Snapshot, TypeOK

(* emit while a drainer runs: the queue's last is the newest.              *)
LEMMA EnqueueStep ==
  ASSUME FunnelInv, NEW s \in Site, Enqueue(s)
  PROVE  FunnelInv'
<1> USE DEF FunnelInv
<1> DEFINE e == Capture(call[s].change)
<1>1. /\ At(s, "Checked") /\ Mutate(s) /\ Return(s) /\ draining
      /\ counts' = Reached(call[s].change) /\ seq' = seq + 1
      /\ pending' = Append(pending, e)
      /\ UNCHANGED <<draining, stranded, listening>>
  BY DEF Enqueue, Mutate
<1>2. e \in Snapshot /\ e = [seq |-> seq', counts |-> counts']
  BY <1>1, CaptureType DEF Capture
<1>3. /\ pending' \in Seq(Snapshot) /\ pending' # <<>>
      /\ pending'[Len(pending')] = e
  BY <1>1, <1>2, AppendLast DEF TypeOK
<1>4. TypeOK'
  BY <1>1, <1>3, ReturnParts, ReachedCounts DEF TypeOK
<1>5. \A u \in Site : Drainer(u)' <=> Drainer(u)
  BY <1>1, ReturnParts DEF Moves, Drainer, At
<1>6. SingleDrainer'
  BY <1>1, <1>5 DEF SingleDrainer
<1>7. NewestCurrent'
  <2>1. \A u \in Site : Newest(u)' = e
    BY <1>3 DEF Newest
  <2> QED
    BY <1>2, <2>1 DEF NewestCurrent
<1>8. GuardsCounted'
  BY <1>1, <1>4, MutateReturns, ReturnParts, Balanced
<1> QED
  BY <1>4, <1>6, <1>7, <1>8

(* emit when nobody listens: there is no drainer whose snapshot could grow *)
(* old.                                                                    *)
LEMMA UnheardStep ==
  ASSUME FunnelInv, NEW s \in Site, Unheard(s)
  PROVE  FunnelInv'
<1> USE DEF FunnelInv
<1>1. /\ At(s, "Checked") /\ Mutate(s) /\ Return(s) /\ ~ draining
      /\ counts' = Reached(call[s].change)
      /\ UNCHANGED <<seq, pending, draining, stranded, listening>>
  BY DEF Unheard, Mutate
<1>2. TypeOK'
  BY <1>1, ReturnParts, ReachedCounts DEF TypeOK
<1>3. \A u \in Site : ~ Drainer(u)'
  BY <1>1, ReturnParts DEF Moves, Drainer, SingleDrainer
<1>4. SingleDrainer' /\ NewestCurrent'
  BY <1>1, <1>3 DEF SingleDrainer, NewestCurrent
<1>5. GuardsCounted'
  BY <1>1, <1>2, MutateReturns, ReturnParts, Balanced
<1> QED
  BY <1>2, <1>4, <1>5

(* emit takes the role: nobody had it, and nothing was queued.             *)
LEMMA ClaimStep ==
  ASSUME FunnelInv, NEW s \in Site, Claim(s)
  PROVE  FunnelInv'
<1> USE DEF FunnelInv
<1> DEFINE c == call[s].change
           e == Capture(c)
<1>1. /\ At(s, "Checked") /\ ~ draining /\ counts' = Reached(c) /\ seq' = seq + 1
      /\ draining' = TRUE
      /\ call' = [call EXCEPT ![s].at = "Claimed", ![s].snap = e]
      /\ UNCHANGED <<pending, guards, stranded, listening>>
  BY DEF Claim, Mutate
<1>2. e \in Snapshot /\ e = [seq |-> seq', counts |-> counts'] /\ c \in Change
  BY <1>1, CaptureType, CallParts DEF Capture
<1>3. /\ call'[s].at = "Claimed" /\ call'[s].snap = e /\ call'[s].change = c
      /\ Moves(s) /\ call' \in [Site -> Call]
  BY <1>1, <1>2 DEF TypeOK, Call, Points, Moves
<1>4. TypeOK'
  BY <1>1, <1>3, ReachedCounts DEF TypeOK
<1>5. \A u \in Site : Drainer(u)' <=> u = s
  BY <1>1, <1>3 DEF Moves, Drainer, SingleDrainer
<1>6. pending' = <<>>
  BY <1>1 DEF SingleDrainer
<1>7. SingleDrainer'
  BY <1>1, <1>5, <1>6 DEF SingleDrainer
<1>8. NewestCurrent'
  BY <1>2, <1>3, <1>5, <1>6 DEF NewestCurrent, Newest
<1>9. ASSUME NEW f \in Field PROVE Rest(s, f)' = Rest(s, f)
  <2>1. counts'[f] = IF c.gauge # f THEN counts[f]
                     ELSE IF c.op = "Enter" THEN counts[f] + 1 ELSE counts[f] - 1
    BY <1>1, <1>2, ReachedField
  <2>2. counts[f] \in Nat /\ guards[f] \in Nat /\ stranded[f] \in Nat
    BY FieldGauge DEF TypeOK, Counts
  <2>3. Owes(s, f) <=> c.gauge = f /\ c.op = "Leave"
    BY <1>1 DEF Owes, At, Drainer
  <2>4. Owes(s, f)' <=> c.gauge = f /\ c.op = "Enter"
    BY <1>3 DEF Owes, At, Drainer
  <2>5. c.gauge = f => c.op \in {"Enter", "Leave"}
    BY <1>2, ChangeParts, FieldGauge
  <2>6. CASE c.gauge # f
    BY <1>1, <2>1, <2>2, <2>3, <2>4, <2>6 DEF Rest
  <2>7. CASE c.gauge = f /\ c.op = "Enter"
    BY <1>1, <2>1, <2>2, <2>3, <2>4, <2>7 DEF Rest
  <2>8. CASE c.gauge = f /\ c.op = "Leave"
    BY <1>1, <2>1, <2>2, <2>3, <2>4, <2>8 DEF Rest
  <2> QED
    BY <2>5, <2>6, <2>7, <2>8
<1>10. GuardsCounted'
  BY <1>3, <1>4, <1>9, Balanced
<1> QED
  BY <1>4, <1>7, <1>8, <1>10

(* A call in the drain loop moves on and keeps what it has.                *)
LEMMA OnwardParts ==
  ASSUME TypeOK, NEW s \in Site, NEW point \in Points,
         call' = [call EXCEPT ![s].at = point]
  PROVE  /\ call'[s].at = point /\ call'[s].snap = call[s].snap
         /\ call'[s].change = call[s].change
         /\ Moves(s) /\ call' \in [Site -> Call]
  BY DEF TypeOK, Call, Moves

(* Such a call keeps the role and the invariant.                           *)
LEMMA OnwardStep ==
  ASSUME FunnelInv, NEW s \in Site,
         NEW point \in {"Hearing", "Popping", "Unwinding"},
         Drainer(s), call' = [call EXCEPT ![s].at = point],
         UNCHANGED <<counts, seq, pending, draining, guards, stranded, listening>>
  PROVE  FunnelInv'
<1> USE DEF FunnelInv
<1>1. /\ call'[s].at = point /\ call'[s].snap = call[s].snap
      /\ call'[s].change = call[s].change
      /\ Moves(s) /\ call' \in [Site -> Call]
  BY OnwardParts DEF Points
<1>2. TypeOK'
  BY <1>1 DEF TypeOK
<1>3. SingleDrainer' /\ NewestCurrent'
  <2>1. Drainer(s)'
    BY <1>1 DEF Drainer
  <2> QED
    BY <1>1, <2>1, RoleKept
<1>4. ASSUME NEW f \in Field PROVE Rest(s, f)' = Rest(s, f)
  <2>1. Owes(s, f)' <=> Owes(s, f)
    BY <1>1 DEF Owes, Drainer, At
  <2> QED
    BY <2>1 DEF Rest
<1>5. GuardsCounted'
  BY <1>1, <1>2, <1>4, Balanced
<1> QED
  BY <1>2, <1>3, <1>5

(* dispatch.                                                               *)
LEMMA DispatchStep ==
  ASSUME FunnelInv, NEW s \in Site, Dispatch(s)
  PROVE  FunnelInv'
<1>1. Drainer(s)
  BY DEF Dispatch, At, Drainer
<1>2. CASE listening
  <2>1. call' = [call EXCEPT ![s].at = "Hearing"]
    BY <1>2 DEF Dispatch
  <2> QED
    BY <1>1, <2>1, OnwardStep DEF Dispatch
<1>3. CASE ~ listening
  <2>1. call' = [call EXCEPT ![s].at = "Popping"]
    BY <1>3 DEF Dispatch
  <2> QED
    BY <1>1, <2>1, OnwardStep DEF Dispatch
<1> QED
  BY <1>2, <1>3

(* The subscriber returns or panics.                                       *)
LEMMA HeardStep ==
  ASSUME FunnelInv, NEW s \in Site, HandlerReturns(s) \/ HandlerPanics(s)
  PROVE  FunnelInv'
<1>1. Drainer(s)
  BY DEF HandlerReturns, HandlerPanics, Heard, At, Drainer
<1>2. CASE HandlerReturns(s)
  BY <1>1, <1>2, OnwardStep DEF HandlerReturns, Heard
<1>3. CASE HandlerPanics(s)
  BY <1>1, <1>3, OnwardStep DEF HandlerPanics, Heard
<1> QED
  BY <1>2, <1>3

(* The drain loop takes the next snapshot: the newest stays where it is,   *)
(* or comes to the drainer.                                                *)
LEMMA TakeNextStep ==
  ASSUME FunnelInv, NEW s \in Site, TakeNext(s)
  PROVE  FunnelInv'
<1> USE DEF FunnelInv
<1>1. /\ At(s, "Popping") /\ pending # <<>> /\ pending' = Tail(pending)
      /\ call' = [call EXCEPT ![s].at = "Claimed", ![s].snap = Head(pending)]
      /\ UNCHANGED <<counts, seq, draining, guards, stranded, listening>>
  BY DEF TakeNext
<1>2. /\ Tail(pending) \in Seq(Snapshot) /\ Head(pending) \in Snapshot
      /\ Tail(pending) = <<>> => pending[Len(pending)] = Head(pending)
      /\ Tail(pending) # <<>> => Tail(pending)[Len(Tail(pending))] = pending[Len(pending)]
  BY <1>1, TailLast DEF TypeOK
<1>3. /\ call'[s].at = "Claimed" /\ call'[s].snap = Head(pending)
      /\ call'[s].change = call[s].change
      /\ Moves(s) /\ call' \in [Site -> Call]
  BY <1>1, <1>2 DEF TypeOK, Call, Points, Moves
<1>4. TypeOK'
  BY <1>1, <1>2, <1>3 DEF TypeOK
<1>5. Drainer(s) /\ \A u \in Site : Drainer(u)' <=> Drainer(u)
  BY <1>1, <1>3 DEF Moves, Drainer, At
<1>6. SingleDrainer'
  BY <1>1, <1>5 DEF SingleDrainer
<1>7. NewestCurrent'
  <2> SUFFICES ASSUME NEW u \in Site, Drainer(u)'
               PROVE  Newest(u)' = [seq |-> seq', counts |-> counts']
    BY DEF NewestCurrent
  <2>1. u = s
    BY <1>5 DEF SingleDrainer
  <2>2. Newest(s) = pending[Len(pending)] /\ Newest(s) = [seq |-> seq, counts |-> counts]
    BY <1>1, <1>5 DEF Newest, NewestCurrent
  <2>3. Newest(s)' = pending[Len(pending)]
    BY <1>1, <1>2, <1>3 DEF Newest
  <2> QED
    BY <1>1, <2>1, <2>2, <2>3
<1>8. ASSUME NEW f \in Field PROVE Rest(s, f)' = Rest(s, f)
  <2>1. Owes(s, f)' <=> Owes(s, f)
    BY <1>1, <1>3 DEF Owes, Drainer, At
  <2> QED
    BY <1>1, <2>1 DEF Rest
<1>9. GuardsCounted'
  BY <1>3, <1>4, <1>8, Balanced
<1> QED
  BY <1>4, <1>6, <1>7, <1>9

(* The role is given up, and the one who had it is idle.                   *)
LEMMA RoleReleased ==
  ASSUME SingleDrainer, NEW s \in Site, Drainer(s), Moves(s), ~ Drainer(s)',
         draining' = FALSE, pending' = <<>>
  PROVE  SingleDrainer' /\ NewestCurrent'
<1>1. \A u \in Site : ~ Drainer(u)'
  BY DEF SingleDrainer, Moves, Drainer
<1> QED
  BY <1>1 DEF SingleDrainer, NewestCurrent

(* The drain loop ends: an enter has its guard.                            *)
LEMMA RelinquishStep ==
  ASSUME FunnelInv, NEW s \in Site, Relinquish(s)
  PROVE  FunnelInv'
<1> USE DEF FunnelInv
<1>1. /\ At(s, "Popping") /\ pending = <<>> /\ draining' = FALSE /\ Return(s)
      /\ UNCHANGED <<counts, seq, pending, stranded, listening>>
  BY DEF Relinquish
<1>2. TypeOK'
  BY <1>1, ReturnParts DEF TypeOK
<1>3. SingleDrainer' /\ NewestCurrent'
  <2>1. Drainer(s)
    BY <1>1 DEF Drainer, At
  <2> QED
    BY <1>1, <2>1, ReturnParts, RoleReleased
<1>4. ASSUME NEW f \in Field PROVE Rest(s, f)' = Rest(s, f)
  <2> DEFINE c == call[s].change
  <2>1. Owes(s, f) <=> c.gauge = f /\ c.op = "Enter"
    BY <1>1 DEF Owes, At, Drainer
  <2>2. /\ ~ Owes(s, f)'
        /\ guards'[f] = IF c.op = "Enter" /\ c.gauge = f THEN guards[f] + 1 ELSE guards[f]
    BY <1>1, ReturnParts
  <2>3. counts[f] \in Nat /\ guards[f] \in Nat /\ stranded[f] \in Nat
    BY FieldGauge DEF TypeOK, Counts
  <2>4. CASE c.gauge = f /\ c.op = "Enter"
    BY <1>1, <2>1, <2>2, <2>3, <2>4 DEF Rest
  <2>5. CASE ~ (c.gauge = f /\ c.op = "Enter")
    BY <1>1, <2>1, <2>2, <2>3, <2>5 DEF Rest
  <2> QED
    BY <2>4, <2>5
<1>5. GuardsCounted'
  BY <1>1, <1>2, <1>4, ReturnParts, Balanced
<1> QED
  BY <1>2, <1>3, <1>5

(* DrainGuard gives the role up: an enter leaves its raise behind.         *)
LEMMA UnwindStep ==
  ASSUME FunnelInv, NEW s \in Site, Unwind(s)
  PROVE  FunnelInv'
<1> USE DEF FunnelInv
<1> DEFINE c == call[s].change
<1>1. /\ At(s, "Unwinding") /\ draining' = FALSE /\ pending' = <<>>
      /\ call' = [call EXCEPT ![s] = NoCall]
      /\ stranded' = IF c.op = "Enter" THEN [stranded EXCEPT ![c.gauge] = @ + 1] ELSE stranded
      /\ UNCHANGED <<counts, seq, guards, listening>>
  BY DEF Unwind
<1>2. /\ call'[s].at = "Idle" /\ Moves(s) /\ call' \in [Site -> Call]
  BY <1>1, NoCallType DEF TypeOK, Moves, NoCall
<1>3. /\ c \in Change
      /\ stranded' \in [Field -> Nat]
      /\ \A f \in Field :
           stranded'[f] = IF c.op = "Enter" /\ c.gauge = f THEN stranded[f] + 1 ELSE stranded[f]
  <2>1. c \in Change /\ stranded \in [Field -> Nat]
    BY CallParts DEF TypeOK
  <2>2. CASE c.op = "Enter"
    BY <1>1, <2>1, <2>2, ChangeParts
  <2>3. CASE c.op # "Enter"
    BY <1>1, <2>1, <2>3
  <2> QED
    BY <2>1, <2>2, <2>3
<1>4. TypeOK'
  <2>1. pending' \in Seq(Snapshot)
    BY <1>1, EmptySeq
  <2> QED
    BY <1>1, <1>2, <1>3, <2>1 DEF TypeOK
<1>5. SingleDrainer' /\ NewestCurrent'
  <2>1. Drainer(s) /\ ~ Drainer(s)'
    BY <1>1, <1>2 DEF Drainer, At
  <2> QED
    BY <1>1, <1>2, <2>1, RoleReleased
<1>6. ASSUME NEW f \in Field PROVE Rest(s, f)' = Rest(s, f)
  <2>1. Owes(s, f) <=> c.gauge = f /\ c.op = "Enter"
    BY <1>1 DEF Owes, At, Drainer
  <2>2. ~ Owes(s, f)'
    BY <1>2 DEF Owes, At, Drainer
  <2>3. counts[f] \in Nat /\ guards[f] \in Nat /\ stranded[f] \in Nat
    BY FieldGauge DEF TypeOK, Counts
  <2>4. CASE c.gauge = f /\ c.op = "Enter"
    BY <1>1, <1>3, <2>1, <2>2, <2>3, <2>4 DEF Rest
  <2>5. CASE ~ (c.gauge = f /\ c.op = "Enter")
    BY <1>1, <1>3, <2>1, <2>2, <2>3, <2>5 DEF Rest
  <2> QED
    BY <2>4, <2>5
<1>7. GuardsCounted'
  BY <1>2, <1>4, <1>6, Balanced
<1> QED
  BY <1>4, <1>5, <1>7

-----------------------------------------------------------------------------
(* The theorems.                                                           *)

(* Init establishes the invariant.                                         *)
LEMMA InitInv == Init => FunnelInv
<1> SUFFICES ASSUME Init PROVE FunnelInv
  OBVIOUS
<1>1. TypeOK
  <2>1. pending \in Seq(Snapshot)
    BY EmptySeq DEF Init
  <2> QED
    BY <2>1, NoCallType DEF Init, TypeOK, Counts, Zero
<1>2. \A s \in Site : ~ Drainer(s) /\ \A f : ~ Owes(s, f)
  BY DEF Init, NoCall, Drainer, Owes, At
<1>3. SingleDrainer /\ NewestCurrent
  BY <1>2 DEF Init, SingleDrainer, NewestCurrent
<1>4. GuardsCounted
  <2> SUFFICES ASSUME NEW f \in Field
               PROVE  counts[f] = guards[f] + stranded[f] + Cardinality(Debt(f))
    BY CountedByDebt
  <2>1. Debt(f) = {}
    BY <1>2 DEF Debt
  <2>2. Cardinality(Debt(f)) = 0
    BY <2>1, FS_EmptySet
  <2> QED
    BY <2>2, FieldGauge DEF Init, Zero
<1> QED
  BY <1>1, <1>3, <1>4 DEF FunnelInv

(* And every step keeps it.                                                *)
LEMMA StepInv == FunnelInv /\ [Next]_vars => FunnelInv'
<1> SUFFICES ASSUME FunnelInv, [Next]_vars PROVE FunnelInv'
  OBVIOUS
<1>1. ASSUME NEW s \in Site, NEW c \in Change, Begin(s, c) PROVE FunnelInv'
  BY <1>1, BeginStep
<1>2. ASSUME NEW s \in Site, Advance(s) PROVE FunnelInv'
  BY <1>2, ChangeNothingStep, EnqueueStep, UnheardStep, ClaimStep, DispatchStep,
     TakeNextStep, RelinquishStep, UnwindStep DEF Advance
<1>3. ASSUME NEW s \in Site, HandlerReturns(s) \/ HandlerPanics(s) PROVE FunnelInv'
  BY <1>3, HeardStep
<1>4. CASE Reconfigure \/ UNCHANGED vars
  <2>1. UNCHANGED <<counts, seq, pending, draining, call, guards, stranded>>
        /\ listening' \in BOOLEAN
    BY <1>4 DEF Reconfigure, vars, FunnelInv, TypeOK
  <2> QED
    BY <2>1 DEF FunnelInv, TypeOK, SingleDrainer, NewestCurrent, GuardsCounted,
                Drainer, Newest, Owes, At
<1> QED
  BY <1>1, <1>2, <1>3, <1>4 DEF Next

(* The funnel's invariant, for any threads that change gauges and any      *)
(* subscribers.                                                            *)
THEOREM FunnelInvariance == Spec => []FunnelInv
  BY InitInv, StepInv, PTL DEF Spec

(* emit never dispatches one event inside another and never leaves its     *)
(* queue to nobody, and the greatest seq carries the counts as they are.   *)
THEOREM DrainsCurrent == Spec => []DrainCurrent
<1>1. FunnelInv => DrainCurrent
  BY DEF FunnelInv, DrainCurrent
<1> QED
  BY <1>1, FunnelInvariance, PTL

(* A gauge counts its guards, so it never goes below zero.                 *)
THEOREM GaugesExact == Spec => [](TypeOK /\ GuardsCounted)
<1>1. FunnelInv => TypeOK /\ GuardsCounted
  BY DEF FunnelInv
<1> QED
  BY <1>1, FunnelInvariance, PTL

-----------------------------------------------------------------------------
(* The funnel implements the feed.                                         *)

(* A queue behind a first element.                                         *)
LEMMA FirstAndRest ==
  ASSUME NEW S, NEW q \in Seq(S), NEW x \in S
  PROVE  /\ <<x>> \o q \in Seq(S) /\ <<x>> \o q # <<>>
         /\ Tail(<<x>> \o q) = q
<1>1. /\ <<x>> \in Seq(S) /\ Len(<<x>>) = 1 /\ <<x>>[1] = x
  OBVIOUS
<1>2. /\ <<x>> \o q \in Seq(S) /\ Len(<<x>> \o q) = Len(q) + 1
      /\ \A i \in 1..(Len(q) + 1) : (<<x>> \o q)[i] = IF i <= 1 THEN x ELSE q[i - 1]
  BY <1>1, ConcatProperties
<1>3. Len(q) \in Nat
  BY LenProperties
<1>4. <<x>> \o q # <<>>
  BY <1>2, <1>3, EmptySeq
<1>5. /\ Tail(<<x>> \o q) \in Seq(S) /\ Len(Tail(<<x>> \o q)) = Len(q)
      /\ \A i \in 1..Len(q) : Tail(<<x>> \o q)[i] = q[i]
  BY <1>2, <1>3, <1>4, HeadTailProperties
<1>6. Tail(<<x>> \o q) = q
  BY <1>5, SeqEqual
<1> QED
  BY <1>2, <1>4, <1>6

LEMMA AppendBehind ==
  ASSUME NEW S, NEW q \in Seq(S), NEW x \in S, NEW e \in S
  PROVE  <<x>> \o Append(q, e) = Append(<<x>> \o q, e)
<1>1. /\ <<x>> \in Seq(S) /\ <<e>> \in Seq(S)
  OBVIOUS
<1>2. (<<x>> \o q) \o <<e>> = <<x>> \o (q \o <<e>>)
  BY <1>1, ConcatAssociative
<1>3. <<x>> \o q \in Seq(S)
  BY FirstAndRest
<1>4. Append(q, e) = q \o <<e>> /\ Append(<<x>> \o q, e) = (<<x>> \o q) \o <<e>>
  BY <1>3, AppendIsConcat
<1> QED
  BY <1>2, <1>4

LEMMA HeadAndTail ==
  ASSUME NEW S, NEW q \in Seq(S), q # <<>>
  PROVE  <<Head(q)>> \o Tail(q) = q
<1>1. /\ Head(q) \in S /\ Head(q) = q[1] /\ Tail(q) \in Seq(S)
      /\ Len(Tail(q)) = Len(q) - 1
      /\ \A i \in 1..(Len(q) - 1) : Tail(q)[i] = q[i + 1]
      /\ Len(q) \in Nat \ {0}
  BY HeadTailProperties, EmptySeq
<1>2. /\ <<Head(q)>> \in Seq(S) /\ Len(<<Head(q)>>) = 1 /\ <<Head(q)>>[1] = q[1]
  BY <1>1
<1>3. /\ <<Head(q)>> \o Tail(q) \in Seq(S)
      /\ Len(<<Head(q)>> \o Tail(q)) = 1 + (Len(q) - 1)
      /\ \A i \in 1..(1 + (Len(q) - 1)) :
           (<<Head(q)>> \o Tail(q))[i] = IF i <= 1 THEN q[1] ELSE Tail(q)[i - 1]
  BY <1>1, <1>2, ConcatProperties
<1>4. \A i \in 1..Len(q) : (<<Head(q)>> \o Tail(q))[i] = q[i]
  BY <1>1, <1>3
<1> QED
  BY <1>1, <1>3, <1>4, SeqEqual

(* The outstanding snapshots, before and after a step.                     *)
LEMMA Claimed ==
  ASSUME SingleDrainer, NEW s \in Site, At(s, "Claimed")
  PROVE  Outstanding = <<call[s].snap>> \o pending
<1>1. \A u \in Site : At(u, "Claimed") => u = s
  BY DEF SingleDrainer, Drainer, At
<1>2. (CHOOSE u \in Site : At(u, "Claimed")) = s
  BY <1>1
<1> QED
  BY <1>2 DEF Outstanding

LEMMA Unclaimed ==
  ASSUME \A u \in Site : ~ At(u, "Claimed")
  PROVE  Outstanding = pending
  BY DEF Outstanding

LEMMA ClaimedNext ==
  ASSUME SingleDrainer', NEW s \in Site, At(s, "Claimed")'
  PROVE  Outstanding' = <<call'[s].snap>> \o pending'
<1>1. \A u \in Site : At(u, "Claimed")' => u = s
  BY DEF SingleDrainer, Drainer, At
<1>2. (CHOOSE u \in Site : At(u, "Claimed")') = s
  BY <1>1
<1> QED
  BY <1>2 DEF Outstanding

LEMMA UnclaimedNext ==
  ASSUME \A u \in Site : ~ At(u, "Claimed")'
  PROVE  Outstanding' = pending'
  BY DEF Outstanding

(* The newest of them carries the counts, so a change that is captured is  *)
(* a new one for the feed.                                                 *)
LEMMA ChangeSeen ==
  ASSUME FunnelInv, NEW s \in Site, Mutate(s)
  PROVE  Feed!Change /\ Capture(call[s].change) = [seq |-> seq + 1, counts |-> counts']
<1>1. /\ At(s, "Checked") /\ counts' = Reached(call[s].change)
      /\ Reached(call[s].change) # counts
  BY DEF Mutate
<1>2. Reached(call[s].change) \in Counts
  BY <1>1, ReachedCounts DEF FunnelInv
<1> QED
  BY <1>1, <1>2 DEF Feed!Change, Capture

(* Every call's step is one of the feed's, or leaves it alone.             *)
LEMMA FeedStep ==
  ASSUME FunnelInv, FunnelInv', NEW s \in Site,
         Advance(s) \/ HandlerReturns(s) \/ HandlerPanics(s) \/ \E c \in Change : Begin(s, c)
  PROVE  [Feed!Next]_Feed!vars
<1> USE DEF FunnelInv
<1>0. /\ SingleDrainer /\ SingleDrainer' /\ pending \in Seq(Snapshot)
      /\ pending' \in Seq(Snapshot) /\ call \in [Site -> Call]
  BY DEF TypeOK
<1>1. ASSUME UNCHANGED <<counts, seq, pending>>,
             \A u \in Site : At(u, "Claimed")' <=> At(u, "Claimed"),
             \A u \in Site : At(u, "Claimed") => call'[u].snap = call[u].snap
      PROVE  UNCHANGED Feed!vars
  <2>1. CASE \E u \in Site : At(u, "Claimed")
    <3>1. PICK u \in Site : At(u, "Claimed")
      BY <2>1
    <3>2. Outstanding = <<call[u].snap>> \o pending
      BY <1>0, <3>1, Claimed
    <3>3. Outstanding' = <<call'[u].snap>> \o pending'
      BY <1>0, <1>1, <3>1, ClaimedNext
    <3> QED
      BY <1>1, <3>1, <3>2, <3>3 DEF Feed!vars
  <2>2. CASE ~ \E u \in Site : At(u, "Claimed")
    <3>1. Outstanding = pending /\ Outstanding' = pending'
      BY <1>1, <2>2, Unclaimed, UnclaimedNext
    <3> QED
      BY <1>1, <3>1 DEF Feed!vars
  <2> QED
    BY <2>1, <2>2
<1>2. CASE \E c \in Change : Begin(s, c)
  <2>1. PICK c \in Change : Begin(s, c)
    BY <1>2
  <2>2. PICK e : call' = [call EXCEPT ![s] = [NoCall EXCEPT !.at = "Checked", !.change = c,
                                                            !.enabled = e]]
    BY <2>1 DEF Begin
  <2>3. /\ [NoCall EXCEPT !.at = "Checked", !.change = c, !.enabled = e].at = "Checked"
        /\ At(s, "Idle") /\ UNCHANGED <<counts, seq, pending>>
    BY <2>1 DEF Begin, Callable, NoCall
  <2>4. ~ At(s, "Claimed") /\ ~ At(s, "Claimed")' /\ Moves(s)
    BY <1>0, <2>2, <2>3 DEF At, Moves
  <2> QED
    BY <1>1, <2>3, <2>4 DEF At, Moves
<1>3. CASE ChangeNothing(s)
  <2>1. /\ ~ At(s, "Claimed") /\ Return(s) /\ UNCHANGED <<counts, seq, pending>>
    BY <1>3 DEF ChangeNothing, At
  <2>2. ~ At(s, "Claimed")' /\ Moves(s)
    BY <2>1, ReturnParts DEF Drainer, At
  <2> QED
    BY <1>1, <2>1, <2>2 DEF At, Moves
<1>4. CASE Enqueue(s)
  <2> DEFINE e == [seq |-> seq + 1, counts |-> counts']
  <2>1. /\ draining /\ At(s, "Checked") /\ Mutate(s) /\ Return(s) /\ seq' = seq + 1
        /\ pending' = Append(pending, Capture(call[s].change))
    BY <1>4 DEF Enqueue, Mutate
  <2>2. Feed!Change /\ Capture(call[s].change) = e /\ e \in Snapshot
    BY <2>1, ChangeSeen, CaptureType
  <2>3. /\ \A u \in Site : At(u, "Claimed")' <=> At(u, "Claimed")
        /\ \A u \in Site : At(u, "Claimed") => call'[u].snap = call[u].snap
    BY <2>1, ReturnParts DEF Moves, At, Drainer
  <2>4. Outstanding' = Append(Outstanding, e)
    <3>1. CASE \E u \in Site : At(u, "Claimed")
      <4>1. PICK u \in Site : At(u, "Claimed")
        BY <3>1
      <4>2. Outstanding = <<call[u].snap>> \o pending
        BY <1>0, <4>1, Claimed
      <4>3. Outstanding' = <<call[u].snap>> \o Append(pending, e)
        BY <1>0, <2>1, <2>2, <2>3, <4>1, ClaimedNext
      <4>4. call[u].snap \in Snapshot
        BY CallParts
      <4> QED
        BY <1>0, <2>2, <4>2, <4>3, <4>4, AppendBehind
    <3>2. CASE ~ \E u \in Site : At(u, "Claimed")
      BY <2>1, <2>2, <2>3, <3>2, Unclaimed, UnclaimedNext
    <3> QED
      BY <3>1, <3>2
  <2> QED
    BY <2>1, <2>2, <2>4 DEF Feed!Next, Feed!Record
<1>5. CASE Unheard(s)
  <2>1. /\ Mutate(s) /\ ~ draining /\ Return(s) /\ UNCHANGED <<seq, pending, draining>>
    BY <1>5 DEF Unheard
  <2>2. /\ \A u \in Site : ~ At(u, "Claimed") /\ ~ At(u, "Claimed")'
        /\ pending = <<>>
    BY <1>0, <2>1 DEF SingleDrainer, Drainer, At
  <2>3. Outstanding = <<>> /\ Outstanding' = <<>>
    BY <2>1, <2>2, Unclaimed, UnclaimedNext
  <2> QED
    BY <2>1, <2>3, ChangeSeen DEF Feed!Next, Feed!PassOver
<1>6. CASE Claim(s)
  <2> DEFINE e == [seq |-> seq + 1, counts |-> counts']
  <2>1. /\ Mutate(s) /\ ~ draining /\ At(s, "Checked") /\ seq' = seq + 1
        /\ call' = [call EXCEPT ![s].at = "Claimed", ![s].snap = Capture(call[s].change)]
        /\ UNCHANGED pending
    BY <1>6 DEF Claim, Mutate
  <2>2. Feed!Change /\ Capture(call[s].change) = e /\ e \in Snapshot
    BY <2>1, ChangeSeen, CaptureType
  <2>3. /\ \A u \in Site : ~ At(u, "Claimed")
        /\ pending = <<>>
    BY <1>0, <2>1 DEF SingleDrainer, Drainer, At
  <2>4. At(s, "Claimed")' /\ call'[s].snap = e
    BY <1>0, <2>1, <2>2 DEF At, Call
  <2>5. Outstanding = <<>>
    BY <2>3, Unclaimed
  <2>6. Outstanding' = <<e>> \o <<>>
    BY <1>0, <2>1, <2>3, <2>4, ClaimedNext
  <2>7. <<e>> \o <<>> = Append(<<>>, e)
    OBVIOUS
  <2> QED
    BY <2>1, <2>2, <2>5, <2>6, <2>7 DEF Feed!Next, Feed!Record
<1>7. CASE Dispatch(s)
  <2>1. PICK point \in {"Hearing", "Popping"} : call' = [call EXCEPT ![s].at = point]
    BY <1>7 DEF Dispatch
  <2>2. At(s, "Claimed") /\ UNCHANGED <<counts, seq, pending>>
    BY <1>7 DEF Dispatch
  <2>3. \A u \in Site : ~ At(u, "Claimed")'
    <3>1. call'[s].at = point /\ Moves(s)
      BY <2>1, OnwardParts DEF Points
    <3>2. \A u \in Site : At(u, "Claimed") => u = s
      BY <1>0, <2>2 DEF SingleDrainer, Drainer, At
    <3> QED
      BY <3>1, <3>2 DEF Moves, At
  <2>4. Outstanding = <<call[s].snap>> \o pending /\ Outstanding' = pending
    BY <1>0, <2>2, <2>3, Claimed, UnclaimedNext
  <2>5. Outstanding # <<>> /\ Tail(Outstanding) = pending
    BY <1>0, <2>4, CallParts, FirstAndRest
  <2> QED
    BY <2>2, <2>4, <2>5 DEF Feed!Next, Feed!HandOut
<1>8. CASE HandlerReturns(s) \/ HandlerPanics(s)
  <2>1. PICK point \in {"Popping", "Unwinding"} : call' = [call EXCEPT ![s].at = point]
    BY <1>8 DEF HandlerReturns, HandlerPanics, Heard
  <2>2. At(s, "Hearing") /\ UNCHANGED <<counts, seq, pending>>
    BY <1>8 DEF HandlerReturns, HandlerPanics, Heard
  <2>3. call'[s].at = point /\ Moves(s)
    BY <2>1, OnwardParts DEF Points
  <2> QED
    BY <1>1, <2>2, <2>3 DEF At, Moves
<1>9. CASE TakeNext(s)
  <2>1. /\ At(s, "Popping") /\ pending # <<>> /\ pending' = Tail(pending)
        /\ call' = [call EXCEPT ![s].at = "Claimed", ![s].snap = Head(pending)]
        /\ UNCHANGED <<counts, seq>>
    BY <1>9 DEF TakeNext
  <2>2. At(s, "Claimed")' /\ call'[s].snap = Head(pending)
    BY <1>0, <2>1 DEF At, Call
  <2>3. \A u \in Site : ~ At(u, "Claimed")
    BY <1>0, <2>1 DEF SingleDrainer, Drainer, At
  <2>4. Outstanding = pending /\ Outstanding' = <<Head(pending)>> \o Tail(pending)
    BY <1>0, <2>1, <2>2, <2>3, Unclaimed, ClaimedNext
  <2>5. Outstanding' = Outstanding
    BY <1>0, <2>1, <2>4, HeadAndTail
  <2> QED
    BY <2>1, <2>5 DEF Feed!vars
<1>10. CASE Relinquish(s)
  <2>1. /\ At(s, "Popping") /\ Return(s) /\ UNCHANGED <<counts, seq, pending>>
    BY <1>10 DEF Relinquish
  <2>2. ~ At(s, "Claimed") /\ ~ At(s, "Claimed")' /\ Moves(s)
    BY <2>1, ReturnParts DEF Drainer, At
  <2> QED
    BY <1>1, <2>1, <2>2 DEF At, Moves
<1>11. CASE Unwind(s)
  <2>1. /\ At(s, "Unwinding") /\ draining' = FALSE /\ pending' = <<>>
        /\ UNCHANGED <<counts, seq>>
    BY <1>11 DEF Unwind
  <2>2. \A u \in Site : ~ At(u, "Claimed")'
    BY <1>0, <2>1 DEF SingleDrainer, Drainer, At
  <2>3. Outstanding' = <<>>
    BY <2>1, <2>2, UnclaimedNext
  <2> QED
    BY <2>1, <2>3 DEF Feed!Next, Feed!Abandon
<1> QED
  BY <1>2, <1>3, <1>4, <1>5, <1>6, <1>7, <1>8, <1>9, <1>10, <1>11 DEF Advance

(* The initial gauges are those of the feed.                               *)
LEMMA FeedInit == Init => Feed!Init
<1> SUFFICES ASSUME Init PROVE Feed!Init
  OBVIOUS
<1>1. \A s \in Site : ~ At(s, "Claimed")
  BY DEF Init, NoCall, At
<1>2. Outstanding = <<>>
  BY <1>1, Unclaimed DEF Init
<1> QED
  BY <1>2 DEF Init, Feed!Init, Counts, Zero

(* The funnel implements RFC 0006's feed: one event for each value reached *)
(* while any is outstanding, in order, whatever threads, subscribers and   *)
(* panics do.                                                              *)
THEOREM FunnelImplementsFeed == Spec => FeedSpec
<1>1. FunnelInv /\ FunnelInv' /\ [Next]_vars => [Feed!Next]_Feed!vars
  <2> SUFFICES ASSUME FunnelInv, FunnelInv', [Next]_vars
               PROVE  [Feed!Next]_Feed!vars
    OBVIOUS
  <2>1. CASE Reconfigure \/ UNCHANGED vars
    <3>1. UNCHANGED <<counts, seq, pending, call>>
      BY <2>1 DEF Reconfigure, vars
    <3> QED
      BY <3>1 DEF Feed!vars, Outstanding, At
  <2> QED
    BY <2>1, FeedStep DEF Next
<1> QED
  BY <1>1, FeedInit, FunnelInvariance, PTL DEF Spec, FeedSpec, Feed!Spec
=============================================================================
