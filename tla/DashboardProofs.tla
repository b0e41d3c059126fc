--------------------------- MODULE DashboardProofs ---------------------------
(***************************************************************************)
(* The two dashboards, for any number of tasks, of keys in flight and of   *)
(* runs: what the flat one's panel shows; that the composed one's pane     *)
(* stays on the instance it was opened for, that a loss is reported, and   *)
(* that hooks and requests are those of the instances there are.           *)
(***************************************************************************)
EXTENDS DashboardProperties, Dashboard, FiniteSetTheorems, SequenceTheorems,
        NaturalsInduction, WellFoundedInduction, TLAPS

-----------------------------------------------------------------------------
(* The operators both are built from.                                      *)

(* A non-empty set of natural numbers has a least one.                     *)
LEMMA Least ==
  ASSUME NEW A \in SUBSET Nat, A # {}
  PROVE  \E m \in A : \A n \in A : ~ (n < m)
<1>1. \E m \in A : \A n \in A : ~ (<<n, m>> \in OpToRel(<, Nat))
  BY NatLessThanWellFounded, WFMin
<1> QED
  BY <1>1 DEF OpToRel

(* The number of a new instance: the first that nothing tells of.          *)
Free(told) ==
  CHOOSE n \in 1..(Cardinality(told) + 1) : n \notin told /\ \A m \in 1..(n - 1) : m \in told

LEMMA FreeIsNew ==
  ASSUME NEW told, IsFiniteSet(told)
  PROVE  Free(told) \in Nat \ {0} /\ Free(told) \notin told
<1> DEFINE N == Cardinality(told) + 1
           A == {n \in 1..N : n \notin told}
           Wanted(n) == n \in 1..N /\ n \notin told /\ \A m \in 1..(n - 1) : m \in told
<1>1. N \in Nat /\ Cardinality(told) < N
  BY FS_CardinalityType
<1>2. A # {}
  <2> SUFFICES ASSUME A = {} PROVE FALSE
    OBVIOUS
  <2>1. 1..N \in SUBSET told
    OBVIOUS
  <2>2. Cardinality(1..N) <= Cardinality(told)
    BY <2>1, FS_Subset
  <2>3. Cardinality(1..N) = N
    BY <1>1, FS_Interval
  <2> QED
    BY <1>1, <2>2, <2>3, FS_CardinalityType
<1>3. PICK m \in A : \A n \in A : ~ (n < m)
  <2>1. A \in SUBSET Nat
    BY <1>1
  <2> HIDE DEF A
  <2> QED
    BY <1>2, <2>1, Least
<1>4. Wanted(m)
  <2>1. \A n \in 1..(m - 1) : n \in 1..N /\ n < m
    BY <1>1, <1>3
  <2> QED
    BY <1>3, <2>1
<1>5. Free(told) = CHOOSE n : Wanted(n)
  BY DEF Free
<1>6. Wanted(Free(told))
  <2> HIDE DEF Wanted
  <2> QED
    BY <1>4, <1>5
<1> QED
  BY <1>1, <1>6

(* A dispatch starts nothing but its command's leaves.                     *)
LEMMA DispatchedRuns ==
  ASSUME NEW bag, NEW command, NEW run \in DOMAIN Dispatched(bag, command)
  PROVE  \/ run \in DOMAIN bag
         \/ \E i \in DOMAIN command.leaves : run = command.leaves[i] /\ run.kind = "Effect"
BY DEF Dispatched, Keep, (+), Started

(* A delivery leaves the run with the rest of its messages.                *)
LEMMA AfterRuns ==
  ASSUME NEW bag, NEW run \in DOMAIN bag, NEW left \in DOMAIN After(bag, run)
  PROVE  left \in DOMAIN bag \/ (Len(run.payload) # 1 /\ left = [run EXCEPT !.payload = Tail(@)])
BY DEF After, (-), (+), SetToBag

LEMMA InARow ==
  ASSUME NEW S, NEW u \in Seq(S), NEW v \in Seq(S)
  PROVE  /\ u \o v \in Seq(S) /\ Len(u \o v) = Len(u) + Len(v)
         /\ \A j \in 1..Len(u) : (u \o v)[j] = u[j]
         /\ \A j \in 1..Len(v) : (u \o v)[Len(u) + j] = v[j]
OBVIOUS

(* What Vec::remove leaves.                                                *)
LEMMA Removed ==
  ASSUME NEW S, NEW s \in Seq(S), NEW i \in DOMAIN s
  PROVE  /\ RemoveAt(s, i) \in Seq(S)
         /\ Len(RemoveAt(s, i)) = Len(s) - 1
         /\ \A j \in 1..(Len(s) - 1) : RemoveAt(s, i)[j] = IF j < i THEN s[j] ELSE s[j + 1]
<1> DEFINE u == SubSeq(s, 1, i - 1)
           v == SubSeq(s, i + 1, Len(s))
<1>1. i \in 1..Len(s) /\ Len(s) \in Nat
  OBVIOUS
<1>2. u \in Seq(S) /\ Len(u) = i - 1 /\ \A j \in 1..(i - 1) : u[j] = s[j]
  BY <1>1, SubSeqProperties
<1>3. v \in Seq(S) /\ Len(v) = Len(s) - i /\ \A j \in 1..(Len(s) - i) : v[j] = s[i + j]
  BY <1>1, SubSeqProperties
<1>4. RemoveAt(s, i) = u \o v
  BY DEF RemoveAt
<1> HIDE DEF u, v
<1>5. /\ u \o v \in Seq(S) /\ Len(u \o v) = Len(u) + Len(v)
      /\ \A j \in 1..Len(u) : (u \o v)[j] = u[j]
      /\ \A j \in 1..Len(v) : (u \o v)[Len(u) + j] = v[j]
  <2>1. u \in Seq(S) /\ v \in Seq(S)
    BY <1>2, <1>3
  <2> QED
    BY ONLY <2>1, InARow
<1>6. ASSUME NEW j \in 1..(Len(s) - 1)
      PROVE  (u \o v)[j] = IF j < i THEN s[j] ELSE s[j + 1]
  <2>1. CASE j < i
    BY <1>1, <1>2, <1>5, <2>1
  <2>2. CASE ~ (j < i)
    <3> DEFINE k == j - (i - 1)
    <3>1. k \in 1..Len(v) /\ Len(u) + k = j /\ i + k = j + 1
      BY <1>1, <1>2, <1>3, <1>6, <2>2
    <3>2. (u \o v)[Len(u) + k] = v[k] /\ v[k] = s[i + k]
      BY <1>3, <1>5, <3>1
    <3> QED
      BY <2>2, <3>1, <3>2
  <2> QED
    BY <2>1, <2>2
<1>7. Len(u \o v) = Len(s) - 1
  BY <1>1, <1>2, <1>3, <1>5
<1> QED
  BY <1>4, <1>5, <1>6, <1>7

-----------------------------------------------------------------------------
(* The flat dashboard (examples/dashboard.rs).                             *)

Focuses == {"Navigation", "Tasks", "Details", "Activity"}

Tasks == Seq(Nat \ {0})

AppType ==
  [focus : Focuses, tasks : Tasks, selected : Nat, details : [of : Nat, edited : BOOLEAN]]

Asked == {"Quit", "FocusNext"} \cup ListMessages \cup PanelMessages

(* A list with a cursor in it.                                             *)
Cursor(a) == IF a.tasks = <<>> THEN a.selected = 1 ELSE a.selected \in DOMAIN a.tasks

(* No task is listed twice, so that another position is another task.      *)
AppWell(a) == a \in AppType /\ IsInjective(a.tasks) /\ PanelCurrent(a)

(* Every key in flight asks for one thing that App::update knows.          *)
KeysAsk == \A run \in DOMAIN runs : Len(run.payload) = 1 /\ run.payload[1] \in Asked

AppInv == AppWell(app) /\ KeysAsk

LEMMA ListShape ==
  ASSUME NEW tasks \in Tasks
  PROVE  /\ DOMAIN tasks = 1..Len(tasks) /\ Len(tasks) \in Nat
         /\ tasks = <<>> <=> Len(tasks) = 0
         /\ tasks = <<>> <=> DOMAIN tasks = {}
         /\ \A i \in DOMAIN tasks : tasks[i] \in Nat \ {0}
<1>1. tasks \in Seq(Nat \ {0})
  BY DEF Tasks
<1> QED
  BY <1>1, EmptySeq

LEMMA PanelOfSelected ==
  ASSUME NEW a \in AppType
  PROVE  PanelCurrent(a) <=> Cursor(a) /\ a.details.of = SelectedTask(a)
<1>1. a.tasks = <<>> <=> DOMAIN a.tasks = {}
  <2>1. a.tasks \in Tasks
    BY DEF AppType
  <2> QED
    BY ONLY <2>1, ListShape
<1> QED
  BY <1>1 DEF PanelCurrent, Cursor, SelectedTask

LEMMA NewTaskIsNew ==
  ASSUME NEW a \in AppType
  PROVE  NewTask(a) \in Nat \ {0} /\ NewTask(a) \notin ToSet(a.tasks) /\ NewTask(a) # a.details.of
<1> DEFINE told == ToSet(a.tasks) \cup {a.details.of}
<1>1. IsFiniteSet(ToSet(a.tasks))
  <2> DEFINE f == [i \in DOMAIN a.tasks |-> a.tasks[i]]
  <2>1. f \in Surjection(DOMAIN a.tasks, ToSet(a.tasks))
    BY DEF Surjection, ToSet
  <2>2. IsFiniteSet(DOMAIN a.tasks)
    <3>1. DOMAIN a.tasks = 1..Len(a.tasks) /\ Len(a.tasks) \in Nat
      BY DEF AppType, Tasks
    <3> QED
      BY <3>1, FS_Interval
  <2> QED
    BY <2>1, <2>2, FS_Surjection
<1>2. IsFiniteSet(told)
  BY <1>1, FS_AddElement
<1>3. NewTask(a) = Free(told)
  BY DEF NewTask, Free
<1> HIDE DEF told
<1>4. Free(told) \in Nat \ {0} /\ Free(told) \notin told
  BY <1>2, FreeIsNew
<1> QED
  BY <1>3, <1>4 DEF told

(* What a message to the list makes of it: the panel is read again just    *)
(* when another task is selected.                                          *)
Relisted(a, c) ==
  /\ c \in AppType /\ c.details = a.details /\ c.focus = a.focus
  /\ IsInjective(c.tasks) /\ Cursor(c)
  /\ IF Rereads(a, c) THEN SelectedTask(c) # SelectedTask(a) ELSE c.tasks = a.tasks

LEMMA ClampedIn ==
  ASSUME NEW index \in Int, NEW tasks \in Tasks
  PROVE  /\ Clamped(index, tasks) \in Nat
         /\ tasks = <<>> => Clamped(index, tasks) = 1
         /\ tasks # <<>> => Clamped(index, tasks) \in DOMAIN tasks
         /\ index \in DOMAIN tasks => Clamped(index, tasks) = index
BY DEF Clamped, LeastOf, Tasks

(* The cursor moves, if it does, to another task.                          *)
LEMMA Moves ==
  ASSUME NEW a, AppWell(a), NEW index \in Int, NEW c,
         c = [a EXCEPT !.selected = Clamped(index, a.tasks)]
  PROVE  Relisted(a, c)
<1>1. a \in AppType /\ IsInjective(a.tasks) /\ Cursor(a)
  BY PanelOfSelected DEF AppWell
<1>2. /\ c \in AppType /\ c.details = a.details /\ c.focus = a.focus /\ c.tasks = a.tasks
      /\ c.selected = Clamped(index, a.tasks)
  BY <1>1, ClampedIn DEF AppType
<1>3. Cursor(c)
  <2>1. a.tasks \in Tasks
    BY <1>1 DEF AppType
  <2> QED
    BY <1>2, <2>1, ClampedIn DEF Cursor
<1>4. Rereads(a, c) => SelectedTask(c) # SelectedTask(a)
  BY <1>1, <1>2, <1>3 DEF Rereads, SelectedTask, Cursor, IsInjective
<1> QED
  BY <1>1, <1>2, <1>3, <1>4 DEF Relisted

LEMMA Adds ==
  ASSUME NEW a, AppWell(a), NEW c,
         c = [a EXCEPT !.tasks = Append(@, NewTask(a)), !.selected = Len(a.tasks) + 1]
  PROVE  Relisted(a, c)
<1> DEFINE n == NewTask(a)
<1>1. a \in AppType /\ IsInjective(a.tasks) /\ Cursor(a) /\ a.tasks \in Tasks
  BY PanelOfSelected DEF AppWell, AppType
<1>2. n \in Nat \ {0} /\ \A i \in DOMAIN a.tasks : a.tasks[i] # n
  BY <1>1, NewTaskIsNew DEF ToSet
<1> HIDE DEF n
<1>3. /\ c.details = a.details /\ c.focus = a.focus /\ c.tasks = Append(a.tasks, n)
      /\ c.selected = Len(a.tasks) + 1
  BY <1>1 DEF AppType, n
<1>4. /\ c.tasks \in Tasks /\ Len(c.tasks) = Len(a.tasks) + 1
      /\ c.tasks[Len(a.tasks) + 1] = n
      /\ \A i \in DOMAIN a.tasks : c.tasks[i] = a.tasks[i]
  BY <1>1, <1>2, <1>3 DEF Tasks
<1>5. c \in AppType
  <2>1. Len(a.tasks) + 1 \in Nat
    BY <1>1, ListShape
  <2> QED
    BY <1>1, <1>4, <2>1 DEF AppType, n
<1>6. IsInjective(c.tasks)
  BY <1>1, <1>2, <1>4 DEF IsInjective, Tasks
<1>7. Cursor(c) /\ SelectedTask(c) = n
  BY <1>1, <1>3, <1>4 DEF Cursor, SelectedTask, Tasks
<1>8. SelectedTask(a) # n
  BY <1>1, <1>2 DEF SelectedTask, Cursor, Nobody
<1>9. Rereads(a, c)
  BY <1>1, <1>4 DEF Rereads, Tasks
<1> QED
  BY <1>3, <1>5, <1>6, <1>7, <1>8, <1>9 DEF Relisted

LEMMA Deletes ==
  ASSUME NEW a, AppWell(a), a.tasks # <<>>, NEW left, left = RemoveAt(a.tasks, a.selected), NEW c,
         c = [a EXCEPT !.tasks = left, !.selected = Clamped(@, left)]
  PROVE  Relisted(a, c)
<1> DEFINE at == a.selected
<1>1. a \in AppType /\ IsInjective(a.tasks) /\ a.tasks \in Tasks /\ at \in DOMAIN a.tasks
  BY PanelOfSelected DEF AppWell, AppType, Cursor
<1>2. /\ left \in Tasks /\ Len(left) = Len(a.tasks) - 1
      /\ \A j \in 1..(Len(a.tasks) - 1) : left[j] = IF j < at THEN a.tasks[j] ELSE a.tasks[j + 1]
  BY <1>1, Removed DEF Tasks
<1>3. /\ c.details = a.details /\ c.focus = a.focus /\ c.tasks = left
      /\ c.selected = Clamped(at, left)
  BY <1>1 DEF AppType
<1>4. /\ Clamped(at, left) \in Nat
      /\ left = <<>> => Clamped(at, left) = 1
      /\ left # <<>> => Clamped(at, left) \in DOMAIN left
  <2>1. at \in Int
    BY <1>1 DEF AppType
  <2> QED
    BY <1>2, <2>1, ClampedIn
<1>5. c \in AppType /\ Cursor(c)
  BY <1>1, <1>2, <1>3, <1>4 DEF AppType, Cursor
<1>2b. /\ DOMAIN left = 1..Len(left) /\ DOMAIN a.tasks = 1..Len(a.tasks) /\ Len(a.tasks) \in Nat
       /\ at \in Nat
  BY <1>1, <1>2, ListShape
<1>6. \A j \in DOMAIN left : \E i \in DOMAIN a.tasks : i # at /\ left[j] = a.tasks[i]
  <2> TAKE j \in DOMAIN left
  <2>1. j \in 1..(Len(a.tasks) - 1)
    BY <1>2, <1>2b
  <2>2. CASE j < at
    BY <1>1, <1>2, <1>2b, <2>1, <2>2
  <2>3. CASE ~ (j < at)
    <3>1. j + 1 \in DOMAIN a.tasks /\ j + 1 # at /\ left[j] = a.tasks[j + 1]
      BY <1>1, <1>2, <1>2b, <2>1, <2>3
    <3> QED
      BY <3>1
  <2> QED
    BY <2>2, <2>3
<1>7. IsInjective(left)
  <2> SUFFICES ASSUME NEW i \in DOMAIN left, NEW j \in DOMAIN left, left[i] = left[j] PROVE i = j
    BY DEF IsInjective
  <2> DEFINE from(k) == IF k < at THEN k ELSE k + 1
  <2>1. /\ from(i) \in DOMAIN a.tasks /\ left[i] = a.tasks[from(i)]
        /\ from(j) \in DOMAIN a.tasks /\ left[j] = a.tasks[from(j)]
        /\ i \in Nat /\ j \in Nat /\ at \in Nat
    BY <1>1, <1>2, <1>2b
  <2>2. from(i) = from(j)
    BY <1>1, <2>1 DEF IsInjective
  <2> QED
    BY <2>1, <2>2
<1>8. SelectedTask(c) # SelectedTask(a)
  <2>1. SelectedTask(a) = a.tasks[at] /\ a.tasks[at] # Nobody
    BY <1>1 DEF SelectedTask, Nobody, Tasks
  <2>2. SelectedTask(c) = Nobody \/ \E j \in DOMAIN left : SelectedTask(c) = left[j]
    BY <1>3 DEF SelectedTask
  <2> QED
    BY <1>1, <1>6, <2>1, <2>2 DEF IsInjective
<1>9. Rereads(a, c)
  BY <1>1, <1>2, <1>3 DEF Rereads, Tasks
<1> QED
  BY <1>3, <1>5, <1>7, <1>8, <1>9 DEF Relisted

LEMMA ListUpdated ==
  ASSUME NEW a, AppWell(a), NEW name \in ListMessages, NEW c, c = UpdatedList(a, name)
  PROVE  Relisted(a, c)
<1>0. a \in AppType /\ IsInjective(a.tasks) /\ Cursor(a) /\ a.selected \in Nat
  BY PanelOfSelected DEF AppWell, AppType
<1>1. ASSUME c = a PROVE Relisted(a, c)
  BY <1>0, <1>1 DEF Relisted, Rereads
<1>2. CASE name = "Up"
  <2>1. a.selected - 1 \in Int /\ c = [a EXCEPT !.selected = Clamped(a.selected - 1, a.tasks)]
    BY <1>0, <1>2 DEF UpdatedList, ListMessages
  <2> QED
    BY <2>1, Moves
<1>3. CASE name = "Down"
  <2>1. a.selected + 1 \in Int /\ c = [a EXCEPT !.selected = Clamped(a.selected + 1, a.tasks)]
    BY <1>0, <1>3 DEF UpdatedList, ListMessages
  <2> QED
    BY <2>1, Moves
<1>4. CASE name = "Toggle"
  BY <1>1, <1>4 DEF UpdatedList
<1>5. CASE name = "Add"
  BY <1>5, Adds DEF UpdatedList
<1>6. CASE name = "Delete"
  <2>1. CASE a.tasks = <<>>
    BY <1>1, <1>6, <2>1 DEF UpdatedList
  <2>2. CASE a.tasks # <<>>
    BY <1>6, <2>2, Deletes DEF UpdatedList
  <2> QED
    BY <2>1, <2>2
<1> QED
  BY <1>2, <1>3, <1>4, <1>5, <1>6 DEF ListMessages

(* What a message makes of the state, and what it does not read over.      *)
Follows(a, b, name) ==
  /\ AppWell(b)
  /\ a.details.edited /\ ~b.details.edited => b.details.of # a.details.of \/ name \in PanelMessages

LEMMA TasksUpdated ==
  ASSUME NEW a, AppWell(a), NEW name \in ListMessages, NEW b, b = UpdateTasks(a, name)
  PROVE  Follows(a, b, name)
<1> DEFINE c == UpdatedList(a, name)
<1>1. Relisted(a, c)
  BY ListUpdated
<1>2. b = IF Rereads(a, c) THEN [c EXCEPT !.details = FromTask(SelectedTask(c))] ELSE c
  BY DEF UpdateTasks
<1> HIDE DEF c
<1>3. a \in AppType /\ a.details.of = SelectedTask(a) /\ c \in AppType
  BY <1>1, PanelOfSelected DEF AppWell, Relisted
<1>4. SelectedTask(c) \in Nat
  BY <1>3, ListShape DEF SelectedTask, Nobody, AppType
<1>5. CASE Rereads(a, c)
  <2>1. /\ b \in AppType /\ b.tasks = c.tasks /\ b.selected = c.selected
        /\ b.details.of = SelectedTask(c) /\ SelectedTask(c) # SelectedTask(a)
    <3> DEFINE t == SelectedTask(c)
               panel == [of |-> t, edited |-> FALSE]
    <3>1. b = [c EXCEPT !.details = panel] /\ t # SelectedTask(a)
      BY <1>1, <1>2, <1>5 DEF Relisted, FromTask
    <3>2. panel \in [of : Nat, edited : BOOLEAN] /\ panel.of = t
      BY <1>4
    <3> HIDE DEF t, panel
    <3>3. b \in AppType /\ b.tasks = c.tasks /\ b.selected = c.selected /\ b.details = panel
      BY <1>3, <3>1, <3>2 DEF AppType
    <3> QED
      BY <3>1, <3>2, <3>3 DEF t
  <2>2. Cursor(b) /\ SelectedTask(b) = SelectedTask(c)
    BY <1>1, <2>1 DEF Cursor, SelectedTask, Relisted
  <2>3. AppWell(b)
    BY <1>1, <2>1, <2>2, PanelOfSelected DEF AppWell, Relisted
  <2> QED
    BY <1>3, <2>1, <2>3 DEF Follows
<1>6. CASE ~Rereads(a, c)
  <2>1. b = c /\ c.details = a.details /\ SelectedTask(c) = SelectedTask(a)
    BY <1>1, <1>2, <1>6 DEF Relisted, SelectedTask, Rereads
  <2> QED
    BY <1>1, <1>3, <2>1, PanelOfSelected DEF AppWell, Follows, Relisted
<1> QED
  BY <1>5, <1>6

LEMMA DetailsUpdated ==
  ASSUME NEW a, AppWell(a), NEW name \in PanelMessages, NEW same \in BOOLEAN,
         NEW b, b = UpdateDetails(a, name, same)
  PROVE  Follows(a, b, name)
<1>1. a \in AppType /\ a.details.of = SelectedTask(a) /\ Cursor(a) /\ IsInjective(a.tasks)
  BY PanelOfSelected DEF AppWell
<1>2. PICK panel \in [of : Nat, edited : BOOLEAN] :
        panel.of = SelectedTask(a) /\ b = [a EXCEPT !.details = panel]
  <2> DEFINE With(edited) == [of |-> SelectedTask(a), edited |-> edited]
  <2>1. \A edited \in BOOLEAN :
          /\ With(edited) \in [of : Nat, edited : BOOLEAN] /\ With(edited).of = SelectedTask(a)
          /\ [a EXCEPT !.details.edited = edited] = [a EXCEPT !.details = With(edited)]
    BY <1>1 DEF AppType
  <2>2. a = [a EXCEPT !.details = a.details] /\ a.details \in [of : Nat, edited : BOOLEAN]
    BY <1>1 DEF AppType
  <2>3. CASE name = "Edit"
    <3>1. b = [a EXCEPT !.details.edited = FALSE] \/ b = [a EXCEPT !.details.edited = TRUE]
      <4>1. CASE same
        BY <2>3, <4>1 DEF UpdateDetails
      <4>2. CASE ~same
        BY <2>3, <4>2 DEF UpdateDetails
      <4> QED
        BY <4>1, <4>2
    <3> HIDE DEF With
    <3> QED
      BY <2>1, <3>1
  <2>4. CASE name = "Save"
    <3>1. b = a \/ b = [a EXCEPT !.details.edited = FALSE]
      BY <2>4 DEF UpdateDetails
    <3> HIDE DEF With
    <3> QED
      BY <1>1, <2>1, <2>2, <3>1
  <2>5. CASE name = "Reset"
    <3>1. b = [a EXCEPT !.details = With(FALSE)]
      BY <2>5 DEF UpdateDetails, FromTask
    <3> HIDE DEF With
    <3> QED
      BY <2>1, <3>1
  <2> QED
    BY <2>3, <2>4, <2>5 DEF PanelMessages
<1>3. /\ b \in AppType /\ b.tasks = a.tasks /\ b.selected = a.selected
      /\ b.details.of = SelectedTask(a)
  BY <1>1, <1>2 DEF AppType
<1>4. Cursor(b) /\ SelectedTask(b) = SelectedTask(a)
  BY <1>1, <1>3 DEF Cursor, SelectedTask
<1> QED
  BY <1>1, <1>3, <1>4, PanelOfSelected DEF AppWell, Follows

LEMMA AppUpdated ==
  ASSUME NEW a, AppWell(a), NEW name \in Asked, NEW same \in BOOLEAN,
         NEW b, b = Updated(a, name, same)
  PROVE  Follows(a, b, name)
<1>1. a \in AppType
  BY DEF AppWell
<1>2. CASE name = "FocusNext"
  <2>1. b = [a EXCEPT !.focus = FocusAfter(a.focus)]
    BY <1>2 DEF Updated, ListMessages, PanelMessages
  <2>2. FocusAfter(a.focus) \in Focuses
    BY <1>1 DEF AppType, Focuses, FocusAfter
  <2>3. /\ b \in AppType /\ b.tasks = a.tasks /\ b.selected = a.selected /\ b.details = a.details
    BY <1>1, <2>1, <2>2 DEF AppType
  <2> QED
    BY <2>3 DEF AppWell, PanelCurrent, Follows
<1>3. CASE name \in ListMessages
  <2>1. b = UpdateTasks(a, name)
    BY <1>3 DEF Updated, ListMessages, PanelMessages
  <2> QED
    BY <1>3, <2>1, TasksUpdated
<1>4. CASE name \in PanelMessages
  <2>1. b = UpdateDetails(a, name, same)
    BY <1>4 DEF Updated, ListMessages, PanelMessages
  <2> QED
    BY <1>4, <2>1, DetailsUpdated
<1>5. CASE name = "Quit"
  BY <1>5 DEF Updated, ListMessages, PanelMessages, Follows
<1> QED
  BY <1>2, <1>3, <1>4, <1>5 DEF Asked

LEMMA AppStarts == ASSUME AppInit PROVE AppInv
<1>1. /\ app.tasks = [i \in 1..Listed |-> i] /\ app.selected = 1 /\ app.focus = "Navigation"
      /\ app.details = [of |-> IF Listed = 0 THEN 0 ELSE 1, edited |-> FALSE]
      /\ app = [focus |-> app.focus, tasks |-> app.tasks, selected |-> app.selected,
                details |-> app.details]
  BY DEF AppInit, NewApp, FromTask, Nobody
<1>2. app.tasks \in Tasks /\ Len(app.tasks) = Listed /\ DOMAIN app.tasks = 1..Listed
  <2> DEFINE tasks == [i \in 1..Listed |-> i]
  <2>1. tasks \in Seq(Nat \ {0}) /\ Len(tasks) = Listed /\ DOMAIN tasks = 1..Listed
    BY DashboardAssumption
  <2> QED
    BY <1>1, <2>1 DEF Tasks
<1>3. app \in AppType
  <2> DEFINE t == app.tasks
             d == app.details
  <2>1. t \in Tasks /\ d \in [of : Nat, edited : BOOLEAN]
    BY <1>1, <1>2
  <2>2. app = [focus |-> "Navigation", tasks |-> t, selected |-> 1, details |-> d]
    BY <1>1
  <2> HIDE DEF t, d
  <2> QED
    BY <2>1, <2>2 DEF AppType, Focuses
<1>4. IsInjective(app.tasks)
  BY <1>1, <1>2 DEF IsInjective
<1>5. PanelCurrent(app)
  <2>1. CASE Listed = 0
    <3>1. app.tasks = <<>>
      BY <1>2, <2>1, ListShape
    <3> QED
      BY <1>1, <2>1, <3>1 DEF PanelCurrent, Nobody
  <2>2. CASE Listed # 0
    <3>1. app.tasks # <<>> /\ 1 \in DOMAIN app.tasks
      BY <1>2, <2>2, DashboardAssumption, ListShape
    <3> QED
      BY <1>1, <1>2, <2>2, <3>1 DEF PanelCurrent
  <2> QED
    BY <2>1, <2>2
<1>6. KeysAsk
  BY DEF AppInit, KeysAsk, EmptyBag, SetToBag
<1> QED
  BY <1>3, <1>4, <1>5, <1>6 DEF AppInv, AppWell

LEMMA Delivered ==
  ASSUME NEW message
  PROVE  /\ Len(Deliver(message).leaves) = 1 /\ DOMAIN Deliver(message).leaves = {1}
         /\ Deliver(message).leaves[1].payload = <<message>>
BY DEF Deliver, EffectCommand, None

(* What a step shows of the property.                                      *)
PanelStep ==
  /\ PanelCurrent(app')
  /\ app.details.edited /\ ~app'.details.edited =>
       app'.details.of # app.details.of \/ LandsOnPanel

LEMMA AppSteps == ASSUME AppInv, [AppNext]_appVars PROVE AppInv' /\ PanelStep
<1>1. ASSUME UNCHANGED app, KeysAsk' PROVE AppInv' /\ PanelStep
  BY <1>1 DEF AppInv, AppWell, PanelCurrent, PanelStep
<1>2. ASSUME NEW name \in Keys(app.focus), Key(name) PROVE AppInv' /\ PanelStep
  <2>1. name \in Asked
    BY DEF Keys, Asked
  <2>2. KeysAsk'
    <3> SUFFICES ASSUME NEW run \in DOMAIN Dispatched(runs, Deliver(name))
                 PROVE  Len(run.payload) = 1 /\ run.payload[1] \in Asked
      BY <1>2 DEF Key, KeysAsk
    <3>1. run \in DOMAIN runs \/ run.payload = <<name>>
      BY DispatchedRuns, Delivered
    <3> QED
      BY <2>1, <3>1 DEF AppInv, KeysAsk
  <2> QED
    BY <1>1, <1>2, <2>2 DEF Key
<1>3. CASE InputFails
  BY <1>1, <1>3 DEF InputFails, AppInv, KeysAsk
<1>4. ASSUME NEW run \in DOMAIN runs, NEW same \in BOOLEAN, Handle(run, same)
      PROVE  AppInv' /\ PanelStep
  <2> DEFINE name == run.payload[1]
  <2>1. Len(run.payload) = 1 /\ name \in Asked /\ AppWell(app)
    BY DEF AppInv, KeysAsk
  <2>2. app' = Updated(app, name, same) /\ runs' = After(runs, run)
    BY <1>4 DEF Handle
  <2>3. Follows(app, app', name)
    <3> HIDE DEF name
    <3> QED
      BY <2>1, <2>2, AppUpdated
  <2>4. KeysAsk'
    BY <2>1, <2>2, AfterRuns DEF AppInv, KeysAsk
  <2>5. PanelStep
    BY <2>2, <2>3 DEF Follows, AppWell, PanelStep, LandsOnPanel
  <2> QED
    BY <2>3, <2>4, <2>5 DEF AppInv, AppWell, Follows, PanelCurrent
<1>5. CASE UNCHANGED appVars
  BY <1>1, <1>5 DEF appVars, AppInv, KeysAsk
<1> QED
  BY <1>2, <1>3, <1>4, <1>5 DEF AppNext

(* Whatever the keys and however they cross, the panel shows the selected  *)
(* task, and what was typed is read over only for another task             *)
(* (dashboard.rs update_tasks).                                            *)
THEOREM PanelFollows == AppSpec => PanelFollowsSelection
<1>1. AppInv /\ [AppNext]_appVars => [PanelStep]_appVars
  BY AppSteps
<1>2. AppSpec => []AppInv
  BY AppStarts, AppSteps, PTL DEF AppSpec
<1> QED
  BY <1>1, <1>2, PTL DEF AppSpec, PanelFollowsSelection, PanelStep

-----------------------------------------------------------------------------
(* The composed dashboard (examples/dashboard_composed.rs): what its       *)
(* commands say.                                                           *)

Names ==
  {"Quit", "NoTaskSelected", "FocusNext", "SelectPrev", "SelectNext", "AddTask", "ReloadTask",
   "DeleteTask", "OpenDetails", "CloseDetails", "SaveNotes"} \cup TaskMessages \cup DetailsMessages

Message == [name : Names, id : Nat, who : Nat]

InnerMessage == [name : Names, who : Nat]

Leaf(kind, key, scope, payload) ==
  [kind |-> kind, key |-> key, scope |-> scope, payload |-> payload]

Command(redraw, cancels, teardowns, hooks, leaves) ==
  [redraw |-> redraw, cancels |-> cancels, teardowns |-> teardowns, cleanups |-> hooks,
   leaves |-> leaves]

(* A leaf that becomes a run has messages to deliver, and nothing else.    *)
Says(leaf, M) ==
  /\ leaf = Leaf(leaf.kind, leaf.key, leaf.scope, leaf.payload)
  /\ leaf.payload \in Seq(M)
  /\ leaf.kind = "Effect" => leaf.payload # <<>>

Carries(c, M) ==
  /\ c = Command(c.redraw, c.cancels, c.teardowns, c.cleanups, c.leaves)
  /\ IsFiniteSet(DOMAIN c.leaves)
  /\ IsFiniteSet(DOMAIN c.cleanups)
  /\ \A i \in DOMAIN c.leaves : Says(c.leaves[i], M)

(* It has one leaf, and no hook.                                           *)
Alone(c, M) == c.cleanups = <<>> /\ \E leaf : c.leaves = <<leaf>> /\ Says(leaf, M)

(* New leaves.                                                             *)
LEMMA Releaved ==
  ASSUME NEW c, NEW redraw, NEW cancels, NEW teardowns, NEW hooks, NEW before, NEW leaves,
         c = Command(redraw, cancels, teardowns, hooks, before),
         NEW d, d = [c EXCEPT !.leaves = leaves]
  PROVE  d = Command(redraw, cancels, teardowns, hooks, leaves)
BY DEF Command

LEMMA NoneIs == None = Command(None.redraw, <<>>, <<>>, <<>>, <<>>)
BY DEF None, Command

LEMMA OneLeaf ==
  ASSUME NEW M, NEW kind, NEW key, NEW scope, NEW payload \in Seq(M), kind = "Effect" => payload # <<>>,
         NEW c, c = [None EXCEPT !.leaves = <<Leaf(kind, key, scope, payload)>>]
  PROVE  Carries(c, M) /\ Alone(c, M)
<1> DEFINE leaf == Leaf(kind, key, scope, payload)
           leaves == <<leaf>>
<1>1. /\ leaf.kind = kind /\ leaf.payload = payload
      /\ leaf = Leaf(leaf.kind, leaf.key, leaf.scope, leaf.payload)
  BY DEF Leaf
<1>2. Says(leaf, M)
  <2> HIDE DEF leaf
  <2> QED
    BY <1>1 DEF Says
<1> HIDE DEF leaf
<1>4. DOMAIN leaves = {1} /\ leaves[1] = leaf /\ DOMAIN <<>> = {}
  OBVIOUS
<1>5. IsFiniteSet({1}) /\ IsFiniteSet({})
  BY FS_Singleton, FS_EmptySet
<1>3. c = Command(None.redraw, <<>>, <<>>, <<>>, leaves)
  <2> HIDE DEF leaves
  <2>1. c = [None EXCEPT !.leaves = leaves]
    BY DEF leaves, leaf
  <2> QED
    BY <2>1, NoneIs, Releaved
<1> HIDE DEF leaves
<1>6. c.leaves = leaves /\ c.cleanups = <<>>
  BY <1>3 DEF Command
<1>7. c = Command(c.redraw, c.cancels, c.teardowns, c.cleanups, c.leaves)
  BY <1>3 DEF Command
<1>8. \A i \in DOMAIN leaves : Says(leaves[i], M)
  BY <1>2, <1>4
<1>9. Carries(c, M)
  BY <1>4, <1>5, <1>6, <1>7, <1>8 DEF Carries
<1>10. Alone(c, M)
  BY <1>2, <1>6 DEF Alone, leaves
<1> QED
  BY <1>9, <1>10

(* A change of the one leaf of a command.                                  *)
LEMMA Relabelled ==
  ASSUME NEW leaf, NEW other, NEW c, c = [None EXCEPT !.leaves = <<leaf>>],
         NEW d, d = [c EXCEPT !.leaves[1] = other]
  PROVE  d = [None EXCEPT !.leaves = <<other>>]
<1>1. c.leaves = <<leaf>> /\ d = [c EXCEPT !.leaves = [<<leaf>> EXCEPT ![1] = other]]
  BY DEF None
<1>2. [<<leaf>> EXCEPT ![1] = other] = <<other>>
  OBVIOUS
<1>3. d = [c EXCEPT !.leaves = <<other>>]
  BY <1>1, <1>2
<1> QED
  BY <1>3 DEF None

LEMMA EffectIs ==
  ASSUME NEW payload
  PROVE  EffectCommand(payload) = [None EXCEPT !.leaves = <<Leaf("Effect", NoKey, Empty, payload)>>]
BY DEF EffectCommand, Leaf

LEMMA NoneCarries == ASSUME NEW M PROVE Carries(None, M)
<1>1. None = Command(None.redraw, <<>>, <<>>, <<>>, <<>>) /\ None.leaves = <<>> /\ None.cleanups = <<>>
  BY NoneIs DEF None
<1>2. DOMAIN <<>> = {} /\ IsFiniteSet({})
  BY FS_EmptySet
<1>3. None = Command(None.redraw, None.cancels, None.teardowns, None.cleanups, None.leaves)
  BY <1>1 DEF Command
<1> QED
  BY <1>1, <1>2, <1>3 DEF Carries

LEMMA StreamCarries ==
  ASSUME NEW M, NEW messages \in Seq(M), messages # <<>>
  PROVE  Carries(Stream(messages), M) /\ Alone(Stream(messages), M)
BY OneLeaf, EffectIs DEF Stream

LEMMA DeliverCarries ==
  ASSUME NEW M, NEW m \in M
  PROVE  Carries(Deliver(m), M) /\ Alone(Deliver(m), M)
<1>1. <<m>> \in Seq(M) /\ <<m>> # <<>>
  OBVIOUS
<1>2. Deliver(m) = Stream(<<m>>)
  BY DEF Deliver, Stream
<1> QED
  BY <1>1, <1>2, StreamCarries

LEMMA QuitCarries == ASSUME NEW M PROVE Carries(ImmediateQuit, M)
<1> DEFINE e == EffectCommand(<<>>)
           x == Leaf("Effect", NoKey, Empty, <<>>)
           y == Leaf("ImmediateQuit", NoKey, Empty, <<>>)
<1>1. e = [None EXCEPT !.leaves = <<x>>]
  BY EffectIs
<1>2. e.leaves[1] = x
  BY <1>1 DEF None
<1>3. [x EXCEPT !.kind = "ImmediateQuit"] = y
  BY DEF Leaf
<1>4. ImmediateQuit = [e EXCEPT !.leaves[1] = [e.leaves[1] EXCEPT !.kind = "ImmediateQuit"]]
  BY DEF ImmediateQuit
<1>5. ImmediateQuit = [e EXCEPT !.leaves[1] = y]
  <2> HIDE DEF e, x, y
  <2> QED
    BY <1>2, <1>3, <1>4
<1>6. ImmediateQuit = [None EXCEPT !.leaves = <<y>>]
  <2> HIDE DEF e, x, y
  <2> DEFINE d == ImmediateQuit
  <2>1. d = [e EXCEPT !.leaves[1] = y]
    BY <1>5
  <2> HIDE DEF d
  <2>2. d = [None EXCEPT !.leaves = <<y>>]
    BY ONLY <1>1, <2>1, Relabelled
  <2> QED
    BY <2>2 DEF d
<1>7. <<>> \in Seq(M)
  OBVIOUS
<1> QED
  BY <1>6, <1>7, OneLeaf

LEMMA RequestCarries ==
  ASSUME NEW name, NEW who, NEW M, Inner(name, who) \in M
  PROVE  Carries(Request(name, who), M) /\ Alone(Request(name, who), M)
<1> DEFINE m == Inner(name, who)
           payload == <<m>>
           e == EffectCommand(payload)
           x == Leaf("Effect", NoKey, Empty, payload)
           y == Leaf("Effect", SYNC, Empty, payload)
           d == Request(name, who)
<1>1. payload \in Seq(M) /\ payload # <<>>
  OBVIOUS
<1> HIDE DEF payload
<1>2. e = [None EXCEPT !.leaves = <<x>>]
  BY EffectIs
<1>3. e.leaves[1] = x
  BY <1>2 DEF None
<1>4. [x EXCEPT !.key = SYNC] = y
  BY DEF Leaf
<1>5. d = [e EXCEPT !.leaves[1] = [e.leaves[1] EXCEPT !.key = SYNC]]
  BY DEF Request, Cancellable, Deliver, payload
<1> HIDE DEF d, e, x, y
<1>6. d = [e EXCEPT !.leaves[1] = y]
  BY <1>3, <1>4, <1>5
<1>7. d = [None EXCEPT !.leaves = <<y>>]
  BY ONLY <1>2, <1>6, Relabelled
<1> USE DEF y
<1>8. Carries(d, M) /\ Alone(d, M)
  BY <1>1, <1>7, OneLeaf
<1> QED
  BY <1>8 DEF d

(* A boundary's modifiers keep what a command says.                        *)
LEMMA ScopedCarries ==
  ASSUME NEW M, NEW c, Carries(c, M), NEW segment
  PROVE  Carries(Scoped(c, segment), M)
<1> DEFINE d == Scoped(c, segment)
           leaves == [i \in DOMAIN c.leaves |-> LeafScoped(segment, c.leaves[i])]
           hooks == [i \in DOMAIN c.cleanups |-> CleanupScoped(segment, c.cleanups[i])]
           cancels == [i \in DOMAIN c.cancels |-> IdScoped(segment, c.cancels[i])]
           teardowns == [i \in DOMAIN c.teardowns |-> Prefixed(segment, c.teardowns[i])]
<1>1. PICK r, x, t, h, l : c = Command(r, x, t, h, l)
  BY DEF Carries
<1>2. d = [c EXCEPT !.cancels = cancels, !.teardowns = teardowns, !.cleanups = hooks,
                    !.leaves = leaves]
  BY DEF Scoped
<1>3. ASSUME NEW i \in DOMAIN leaves PROVE Says(leaves[i], M)
  <2> DEFINE leaf == c.leaves[i]
             key == IF leaf.key = NoKey THEN NoKey ELSE IdScoped(segment, leaf.key)
             scope == Prefixed(segment, leaf.scope)
  <2>1. Says(leaf, M) /\ leaves[i] = [leaf EXCEPT !.scope = scope, !.key = key]
    BY DEF Carries, LeafScoped
  <2> HIDE DEF leaf, key, scope
  <2>2. leaves[i] = Leaf(leaf.kind, key, scope, leaf.payload)
    BY <2>1 DEF Says, Leaf
  <2> HIDE DEF leaves
  <2>3. leaves[i].kind = leaf.kind /\ leaves[i].payload = leaf.payload
        /\ leaves[i].key = key /\ leaves[i].scope = scope
    BY <2>2 DEF Leaf
  <2> QED
    BY <2>1, <2>2, <2>3 DEF Says
<1>4. DOMAIN leaves = DOMAIN c.leaves /\ DOMAIN hooks = DOMAIN c.cleanups
  OBVIOUS
<1> HIDE DEF leaves, hooks, cancels, teardowns, d
<1>5. d = Command(c.redraw, cancels, teardowns, hooks, leaves)
  BY <1>1, <1>2 DEF Command
<1>6. d.leaves = leaves /\ d.cleanups = hooks
      /\ d = Command(d.redraw, d.cancels, d.teardowns, d.cleanups, d.leaves)
  BY <1>5 DEF Command
<1>7. Carries(d, M)
  BY <1>3, <1>4, <1>6 DEF Carries
<1> QED
  BY <1>7 DEF d

LEMMA MergeCarries ==
  ASSUME NEW M, NEW c, Carries(c, M), NEW other
  PROVE  Carries(MergingTeardowns(c, other), M)
<1> DEFINE teardowns == c.teardowns \o other.teardowns
           d == MergingTeardowns(c, other)
<1>1. d = [c EXCEPT !.teardowns = teardowns]
  BY DEF MergingTeardowns
<1> HIDE DEF d, teardowns
<1>2. d = Command(c.redraw, c.cancels, teardowns, c.cleanups, c.leaves)
  BY <1>1 DEF Carries, Command
<1>3. d.leaves = c.leaves /\ d.cleanups = c.cleanups
      /\ d = Command(d.redraw, d.cancels, d.teardowns, d.cleanups, d.leaves)
  BY <1>2 DEF Command
<1>4. Carries(d, M)
  BY <1>3 DEF Carries
<1> QED
  BY <1>4 DEF d

(* The wrapped messages are the program's own.                             *)
LEMMA WrappedCarries ==
  ASSUME NEW c, Carries(c, InnerMessage), NEW id \in Nat
  PROVE  Carries(Wrapped(c, id), Message)
<1> DEFINE Wrap(payload) ==
             [i \in DOMAIN payload |->
                [name |-> payload[i].name, id |-> id, who |-> payload[i].who]]
           f == [payload \in Payloads(c) |-> Wrap(payload)]
           leaves == [i \in DOMAIN c.leaves |-> LeafMapped(c.leaves[i], f)]
           d == Wrapped(c, id)
<1>1. d = [c EXCEPT !.leaves = leaves]
  <2>1. d = Map(c, f)
    BY DEF Wrapped
  <2> HIDE DEF f
  <2> QED
    BY <2>1 DEF Map
<1>2. ASSUME NEW payload \in Seq(InnerMessage)
      PROVE  Wrap(payload) \in Seq(Message) /\ (payload # <<>> => Wrap(payload) # <<>>)
  <2>1. \A i \in DOMAIN payload :
          [name |-> payload[i].name, id |-> id, who |-> payload[i].who] \in Message
    <3> SUFFICES ASSUME NEW i \in DOMAIN payload
                 PROVE  [name |-> payload[i].name, id |-> id, who |-> payload[i].who] \in Message
      OBVIOUS
    <3>1. payload[i] \in InnerMessage
      OBVIOUS
    <3>2. payload[i].name \in Names /\ payload[i].who \in Nat
      BY <3>1 DEF InnerMessage
    <3> QED
      BY <3>2 DEF Message
  <2>2. DOMAIN payload = 1..Len(payload) /\ Len(payload) \in Nat
    OBVIOUS
  <2>3. Wrap(payload) \in [1..Len(payload) -> Message]
    BY <2>1, <2>2
  <2>4. Wrap(payload) \in Seq(Message)
    <3> HIDE DEF Wrap
    <3> QED
      BY <2>2, <2>3
  <2>5. payload # <<>> => 1 \in DOMAIN payload
    OBVIOUS
  <2>6. DOMAIN Wrap(payload) = DOMAIN payload
    OBVIOUS
  <2> HIDE DEF Wrap
  <2> QED
    BY <2>4, <2>5, <2>6
<1>3. ASSUME NEW i \in DOMAIN leaves PROVE Says(leaves[i], Message)
  <2> DEFINE leaf == c.leaves[i]
             payload == Wrap(leaf.payload)
  <2>1. Says(leaf, InnerMessage) /\ leaf.payload \in Payloads(c)
    BY DEF Carries, Payloads
  <2>2. leaves[i] = [leaf EXCEPT !.payload = payload]
    BY <2>1 DEF LeafMapped
  <2>3. payload \in Seq(Message) /\ (leaf.kind = "Effect" => payload # <<>>)
    <3> HIDE DEF Wrap, leaf
    <3> QED
      BY <1>2, <2>1 DEF Says
  <2> HIDE DEF leaf, payload
  <2>4. leaves[i] = Leaf(leaf.kind, leaf.key, leaf.scope, payload)
    BY <2>1, <2>2 DEF Says, Leaf
  <2> HIDE DEF leaves
  <2>5. /\ leaves[i].kind = leaf.kind /\ leaves[i].payload = payload
        /\ leaves[i].key = leaf.key /\ leaves[i].scope = leaf.scope
    BY <2>4 DEF Leaf
  <2> QED
    BY <2>3, <2>4, <2>5 DEF Says
<1>4. DOMAIN leaves = DOMAIN c.leaves
  OBVIOUS
<1> HIDE DEF d, leaves
<1>5. d = Command(c.redraw, c.cancels, c.teardowns, c.cleanups, leaves)
  BY <1>1 DEF Carries, Command
<1>6. d.leaves = leaves /\ d.cleanups = c.cleanups
      /\ d = Command(d.redraw, d.cancels, d.teardowns, d.cleanups, d.leaves)
  BY <1>5 DEF Command
<1>7. Carries(d, Message)
  BY <1>3, <1>4, <1>6 DEF Carries
<1> QED
  BY <1>7 DEF d

(* Two sequences in a row.                                                 *)
LEMMA FlattenTwo ==
  ASSUME NEW u, NEW v
  PROVE  FlattenSeq(<<u, v>>) = u \o v
<1> DEFINE q == <<u, v>>
           P(f) == f = [i \in 1..Len(q) |-> IF i = 1 THEN q[i] ELSE f[i-1] \o q[i]]
           g == [i \in 1..2 |-> IF i = 1 THEN u ELSE u \o v]
<1>1. Len(q) = 2 /\ q[1] = u /\ q[2] = v
  OBVIOUS
<1>2. P(g)
  BY <1>1
<1>3. P(CHOOSE f : P(f))
  <2> HIDE DEF P
  <2> QED
    BY <1>2
<1> DEFINE h == CHOOSE f : P(f)
<1>4. FlattenSeq(q) = h[Len(q)]
  BY <1>1 DEF FlattenSeq
<1>5. h = [i \in 1..Len(q) |-> IF i = 1 THEN q[i] ELSE h[i-1] \o q[i]]
  BY <1>3
<1> HIDE DEF h
<1>6. h[1] = u
  BY <1>1, <1>5
<1>7. h[2] = h[1] \o v
  BY <1>1, <1>5
<1> QED
  BY <1>1, <1>4, <1>6, <1>7

(* What sets an instance up: its hook, and a leaf of its own.              *)
LEMMA SetupCarries ==
  ASSUME NEW M, NEW c, Alone(c, M), NEW who
  PROVE  Carries(Batch(<<OnTeardown(who), c>>), M)
<1> DEFINE o == OnTeardown(who)
           q == <<o, c>>
           d == Batch(q)
           hook == [scope |-> Empty, payload |-> who]
           Field(i) == IF i = 1 THEN o ELSE c
<1>1. o.leaves = <<>> /\ o.cleanups = <<hook>>
  BY DEF OnTeardown, None
<1>2. PICK leaf : c.cleanups = <<>> /\ c.leaves = <<leaf>> /\ Says(leaf, M)
  BY DEF Alone
<1>3. q # <<>> /\ DOMAIN q = 1..2 /\ q[1] = o /\ q[2] = c
  OBVIOUS
<1> DEFINE Two(a, b) == FlattenSeq(<<a, b>>)
<1>4. /\ [i \in DOMAIN q |-> q[i].cancels] = <<o.cancels, c.cancels>>
      /\ [i \in DOMAIN q |-> q[i].teardowns] = <<o.teardowns, c.teardowns>>
      /\ [i \in DOMAIN q |-> q[i].cleanups] = <<o.cleanups, c.cleanups>>
      /\ [i \in DOMAIN q |-> q[i].leaves] = <<o.leaves, c.leaves>>
  <2> HIDE DEF o
  <2> QED
    OBVIOUS
<1> DEFINE redraw == \E i \in DOMAIN q : q[i].redraw
<1>5. d = Command(redraw, Two(o.cancels, c.cancels), Two(o.teardowns, c.teardowns),
                  Two(o.cleanups, c.cleanups), Two(o.leaves, c.leaves))
  <2> HIDE DEF o, q
  <2> QED
    BY <1>3, <1>4 DEF Batch, Command
<1> HIDE DEF d, redraw, q, o
<1>6. d.cleanups = <<hook>> \o <<>> /\ d.leaves = <<>> \o <<leaf>>
      /\ d = Command(d.redraw, d.cancels, d.teardowns, d.cleanups, d.leaves)
  BY <1>1, <1>2, <1>5, FlattenTwo DEF Command
<1>7. d.cleanups = <<hook>> /\ d.leaves = <<leaf>>
  BY <1>6
<1>8. DOMAIN d.cleanups = {1} /\ DOMAIN d.leaves = {1} /\ d.leaves[1] = leaf
  BY <1>7
<1>9. IsFiniteSet({1})
  BY FS_Singleton
<1>10. Carries(d, M)
  BY <1>2, <1>6, <1>8, <1>9 DEF Carries
<1> QED
  BY <1>10 DEF d, q, o

(* A function of finitely many has finitely many values.                   *)
LEMMA ImageFinite ==
  ASSUME NEW S, IsFiniteSet(S), NEW f, DOMAIN f = S
  PROVE  IsFiniteSet({f[x] : x \in S})
<1> DEFINE T == {f[x] : x \in S}
           g == [x \in S |-> f[x]]
<1>1. g \in Surjection(S, T)
  BY DEF Surjection
<1> HIDE DEF g, T
<1>2. IsFiniteSet(T)
  BY <1>1, FS_Surjection
<1> QED
  BY <1>2 DEF T

(* The runs in flight are finitely many, and each has messages left.       *)
Speaking(run) == Says(run, Message) /\ run.kind = "Effect"

Known(bag) == IsFiniteSet(DOMAIN bag) /\ \A run \in DOMAIN bag : Speaking(run)

LEMMA DispatchedKnown ==
  ASSUME NEW bag, Known(bag), NEW c, Carries(c, Message)
  PROVE  Known(Dispatched(bag, c))
<1> DEFINE leaves == {c.leaves[i] : i \in DOMAIN c.leaves}
           all == DOMAIN bag \cup leaves
<1>1. IsFiniteSet(leaves)
  <2>1. IsFiniteSet(DOMAIN c.leaves)
    BY DEF Carries
  <2> QED
    BY ONLY <2>1, ImageFinite
<1>2. IsFiniteSet(all)
  <2>1. IsFiniteSet(DOMAIN bag)
    BY DEF Known
  <2> HIDE DEF leaves
  <2> QED
    BY ONLY <1>1, <2>1, FS_Union
<1>3. DOMAIN Dispatched(bag, c) \subseteq all
  BY DispatchedRuns
<1>4. IsFiniteSet(DOMAIN Dispatched(bag, c))
  <2> HIDE DEF all
  <2> QED
    BY ONLY <1>2, <1>3, FS_Subset
<1> QED
  BY <1>4, DispatchedRuns DEF Known, Speaking, Carries

LEMMA AfterKnown ==
  ASSUME NEW bag, Known(bag), NEW run \in DOMAIN bag
  PROVE  Known(After(bag, run))
<1> DEFINE rest == [run EXCEPT !.payload = Tail(@)]
           all == DOMAIN bag \cup {rest}
<1>1. Speaking(run)
  BY DEF Known
<1>2. Len(run.payload) # 1 => Speaking(rest)
  <2> DEFINE payload == Tail(run.payload)
  <2>1. run.payload \in Seq(Message) /\ run.payload # <<>>
    BY <1>1 DEF Speaking, Says
  <2>2. payload \in Seq(Message) /\ (Len(run.payload) # 1 => payload # <<>>)
    <3>1. Len(run.payload) \in Nat /\ Len(run.payload) # 0
      BY <2>1
    <3>2. payload \in Seq(Message) /\ Len(payload) = Len(run.payload) - 1
      BY <2>1
    <3> HIDE DEF payload
    <3>3. payload = <<>> => Len(payload) = 0
      OBVIOUS
    <3> QED
      BY <3>1, <3>2, <3>3
  <2> HIDE DEF payload
  <2>3. rest = Leaf(run.kind, run.key, run.scope, payload)
    <3>1. PICK k, i, o, p : run = Leaf(k, i, o, p)
      BY <1>1 DEF Speaking, Says
    <3>2. rest = [run EXCEPT !.payload = payload]
      BY <3>1 DEF Leaf, payload
    <3> QED
      BY <3>1, <3>2 DEF Leaf
  <2> HIDE DEF rest
  <2>4. rest.kind = run.kind /\ rest.payload = payload /\ rest.key = run.key /\ rest.scope = run.scope
    BY <2>3 DEF Leaf
  <2> QED
    BY <1>1, <2>2, <2>3, <2>4 DEF Speaking, Says
<1>3. \A left \in DOMAIN After(bag, run) : left \in DOMAIN bag \/ (Len(run.payload) # 1 /\ left = rest)
  BY AfterRuns
<1> HIDE DEF rest
<1>4. DOMAIN After(bag, run) \subseteq all
  BY <1>3
<1>5. IsFiniteSet(all)
  <2>1. IsFiniteSet(DOMAIN bag)
    BY DEF Known
  <2> QED
    BY <2>1, FS_AddElement
<1>6. IsFiniteSet(DOMAIN After(bag, run))
  <2> HIDE DEF all
  <2> QED
    BY ONLY <1>4, <1>5, FS_Subset
<1> QED
  BY <1>2, <1>3, <1>6 DEF Known

LEMMA ArmedFinite ==
  ASSUME NEW hooks, IsFiniteSet(DOMAIN hooks), NEW c, IsFiniteSet(DOMAIN c.cleanups)
  PROVE  IsFiniteSet(DOMAIN Armed(hooks, c))
<1> DEFINE new == {c.cleanups[i] : i \in DOMAIN c.cleanups}
           all == DOMAIN hooks \cup new
<1>1. IsFiniteSet(new)
  BY ONLY IsFiniteSet(DOMAIN c.cleanups), ImageFinite
<1>2. DOMAIN Armed(hooks, c) \subseteq all
  BY DEF Armed, Keep, (+), ToBag, Range
<1> HIDE DEF new
<1>3. IsFiniteSet(all)
  BY <1>1, FS_Union
<1> HIDE DEF all
<1> QED
  BY ONLY <1>2, <1>3, FS_Subset

-----------------------------------------------------------------------------
(* The composed dashboard: its state.                                      *)

RowType == [id : Nat \ {0}, who : Nat \ {0}, watched : BOOLEAN, syncing : BOOLEAN]

PaneType ==
  [task : Nat \ {0}, of : Nat \ {0}, who : Nat \ {0}, edited : BOOLEAN, opened : BOOLEAN,
   loading : BOOLEAN]

BoardType ==
  [focus : Focuses, rows : Seq(RowType), pane : PaneType \cup {NoPane},
   status : {"Discarding", "Other"}, selected : Nat, next : Nat \ {0}]

(* A key and an instance belong to one row, and no key was given out yet   *)
(* that the next task will take.                                           *)
RowsWell(rows, next) ==
  /\ rows \in Seq(RowType)
  /\ \A i \in DOMAIN rows : rows[i].id < next
  /\ \A i, j \in DOMAIN rows : rows[i].id = rows[j].id => i = j
  /\ \A i, j \in DOMAIN rows : rows[i].who = rows[j].who => i = j

HasRow(rows, id) == \E i \in DOMAIN rows : rows[i].id = id

PaneKept(rows, pane) ==
  pane = NoPane \/ \E i \in DOMAIN rows : rows[i].id = pane.task /\ rows[i].who = pane.of

Selects(rows, selected) == IF rows = <<>> THEN selected = NoTask ELSE HasRow(rows, selected)

BoardWell(b) ==
  /\ b \in BoardType
  /\ RowsWell(b.rows, b.next)
  /\ PaneKept(b.rows, b.pane)
  /\ Selects(b.rows, b.selected)

(* What a step must say of a pane that leaves.                             *)
PaneLost(b, c) == IsOpen(b) /\ (IsOpen(c) => c.pane.who # b.pane.who)

Kept(b, c) == \E i \in DOMAIN c.rows : c.rows[i].who = b.pane.of

Reported(b, c) ==
  /\ PaneLost(b, c) => (c.status = "Discarding" <=> b.pane.edited /\ Kept(b, c))
  /\ c.status = "Discarding" /\ b.status = "Other" => PaneLost(b, c)

Sound(b, c) == BoardWell(c) /\ Reported(b, c)

LEMMA PaneIsOpen == ASSUME NEW p \in PaneType PROVE p # NoPane
<1>1. p.task # 0
  BY DEF PaneType
<1>2. NoPane.task = 0
  BY DEF NoPane, NoTask
<1> QED
  BY <1>1, <1>2

(* A step that keeps the rows and the pane.                                *)
LEMMA Minor ==
  ASSUME NEW b, BoardWell(b), NEW c \in BoardType,
         c.rows = b.rows, c.next = b.next, Selects(b.rows, c.selected),
         c.pane = b.pane
           \/ (b.pane # NoPane /\ c.pane # NoPane /\ c.pane.task = b.pane.task /\ c.pane.of = b.pane.of
                 /\ c.pane.who = b.pane.who),
         c.status = b.status \/ c.status = "Other"
  PROVE  Sound(b, c)
BY DEF BoardWell, PaneKept, Sound, Reported, PaneLost, IsOpen

LEMMA RowAt ==
  ASSUME NEW b, BoardWell(b), NEW id, IsRow(b, id)
  PROVE  /\ Position(b, id) \in DOMAIN b.rows
         /\ b.rows[Position(b, id)].id = id
         /\ b.rows[Position(b, id)] \in RowType
         /\ \A i \in DOMAIN b.rows : b.rows[i].id = id => i = Position(b, id)
<1>1. \E i \in DOMAIN b.rows : b.rows[i].id = id
  BY DEF IsRow
<1>2. Position(b, id) \in DOMAIN b.rows /\ b.rows[Position(b, id)].id = id
  BY <1>1 DEF Position
<1> QED
  BY <1>2 DEF BoardWell, RowsWell

(* The number of a new instance is new.                                    *)
LEMMA MintIsNew ==
  ASSUME NEW b, BoardWell(b), Known(runs), IsFiniteSet(DOMAIN cleanups)
  PROVE  /\ Mint(b) \in Nat \ {0}
         /\ \A i \in DOMAIN b.rows : b.rows[i].who # Mint(b)
         /\ IsOpen(b) => b.pane.who # Mint(b) /\ b.pane.of # Mint(b)
<1> DEFINE whos == {b.rows[i].who : i \in DOMAIN b.rows}
           pane == IF IsOpen(b) THEN {b.pane.who, b.pane.of} ELSE {}
           hooks == {hook.payload : hook \in DOMAIN cleanups}
           heads == {run.payload[1].who : run \in DOMAIN runs}
           told == ((whos \cup pane) \cup hooks) \cup heads
<1>1. IsFiniteSet(whos)
  <2> DEFINE f == [i \in DOMAIN b.rows |-> b.rows[i].who]
  <2>1. DOMAIN b.rows = 1..Len(b.rows) /\ Len(b.rows) \in Nat
    BY DEF BoardWell, BoardType
  <2>2. IsFiniteSet(DOMAIN b.rows)
    BY <2>1, FS_Interval
  <2>3. DOMAIN f = DOMAIN b.rows /\ whos = {f[i] : i \in DOMAIN b.rows}
    OBVIOUS
  <2> HIDE DEF f, whos
  <2> QED
    BY <2>2, <2>3, ImageFinite
<1>2. IsFiniteSet(pane)
  <2>1. IsFiniteSet({b.pane.who, b.pane.of})
    <3>1. IsFiniteSet({b.pane.who}) /\ IsFiniteSet({b.pane.of})
      BY FS_Singleton
    <3>2. {b.pane.who, b.pane.of} = {b.pane.who} \cup {b.pane.of}
      OBVIOUS
    <3> QED
      BY <3>1, <3>2, FS_Union
  <2> QED
    BY <2>1, FS_EmptySet
<1>3. IsFiniteSet(hooks)
  <2> DEFINE f == [hook \in DOMAIN cleanups |-> hook.payload]
  <2>1. DOMAIN f = DOMAIN cleanups /\ hooks = {f[x] : x \in DOMAIN cleanups}
    OBVIOUS
  <2> HIDE DEF f, hooks
  <2> QED
    BY <2>1, ImageFinite
<1>4. IsFiniteSet(heads)
  <2> DEFINE f == [run \in DOMAIN runs |-> run.payload[1].who]
  <2>1. DOMAIN f = DOMAIN runs /\ heads = {f[x] : x \in DOMAIN runs}
    OBVIOUS
  <2> HIDE DEF f, heads
  <2> QED
    BY <2>1, ImageFinite DEF Known
<1>5. IsFiniteSet(told)
  <2> HIDE DEF whos, pane, hooks, heads
  <2> QED
    BY <1>1, <1>2, <1>3, <1>4, FS_Union
<1>6. Mint(b) = Free(told)
  BY DEF Mint, Free
<1>7. whos \subseteq told /\ pane \subseteq told
  OBVIOUS
<1> HIDE DEF told
<1>8. Mint(b) \in Nat \ {0} /\ Mint(b) \notin told
  BY <1>5, <1>6, FreeIsNew
<1> QED
  BY <1>7, <1>8

(* A row gives way to another of its key.                                  *)
Replaced(rows, next, i, row, new) ==
  /\ RowsWell(new, next) /\ DOMAIN new = DOMAIN rows
  /\ new[i] = row /\ \A j \in DOMAIN rows : j # i => new[j] = rows[j]
  /\ new # <<>> /\ rows # <<>>
  /\ \A id : HasRow(rows, id) => HasRow(new, id)

LEMMA RowReplaced ==
  ASSUME NEW rows, NEW next, RowsWell(rows, next), NEW i \in DOMAIN rows, NEW row \in RowType,
         row.id = rows[i].id,
         row.who = rows[i].who \/ \A j \in DOMAIN rows : rows[j].who # row.who,
         NEW new, new = [rows EXCEPT ![i] = row]
  PROVE  Replaced(rows, next, i, row, new)
<1>1. new \in Seq(RowType) /\ DOMAIN new = DOMAIN rows
  BY DEF RowsWell
<1>2. new[i] = row /\ \A j \in DOMAIN rows : j # i => new[j] = rows[j]
  OBVIOUS
<1>3. \A j \in DOMAIN rows : new[j].id = rows[j].id
  BY <1>2
<1>4. RowsWell(new, next)
  <2>1. \A j \in DOMAIN new : new[j].id < next
    BY <1>1, <1>3 DEF RowsWell
  <2>2. \A j, k \in DOMAIN new : new[j].id = new[k].id => j = k
    BY <1>1, <1>3 DEF RowsWell
  <2>3. \A j, k \in DOMAIN new : new[j].who = new[k].who => j = k
    <3> SUFFICES ASSUME NEW j \in DOMAIN rows, NEW k \in DOMAIN rows, new[j].who = new[k].who
                 PROVE  j = k
      BY <1>1
    <3>1. CASE j # i /\ k # i
      BY <1>2, <3>1 DEF RowsWell
    <3>2. CASE j = i \/ k = i
      BY <1>2, <3>2 DEF RowsWell
    <3> QED
      BY <3>1, <3>2
  <2> QED
    BY <1>1, <2>1, <2>2, <2>3 DEF RowsWell
<1>5. new # <<>> /\ rows # <<>>
  BY <1>1
<1>6. \A id : HasRow(rows, id) => HasRow(new, id)
  BY <1>1, <1>3 DEF HasRow
<1> QED
  BY <1>1, <1>2, <1>4, <1>5, <1>6 DEF Replaced

(* for_each, after a message for a row that is there.                      *)
LEMMA RowSound ==
  ASSUME NEW b, BoardWell(b), NEW id, IsRow(b, id), NEW row \in RowType,
         row.id = Row(b, id).id, row.who = Row(b, id).who,
         NEW c, c = [b EXCEPT !.rows[Position(b, id)] = row]
  PROVE  Sound(b, c)
<1> DEFINE p == Position(b, id)
           rows == b.rows
           new == [rows EXCEPT ![p] = row]
<1>1. p \in DOMAIN rows /\ rows[p] = Row(b, id)
  BY RowAt DEF Row
<1>2. RowsWell(rows, b.next) /\ b \in BoardType
  BY DEF BoardWell
<1>3. c = [b EXCEPT !.rows = new]
  BY DEF BoardType
<1> HIDE DEF new, p
<1>4. Replaced(rows, b.next, p, row, new)
  <2>1. new = [rows EXCEPT ![p] = row] /\ row.id = rows[p].id /\ row.who = rows[p].who
    BY <1>1 DEF new
  <2>2. row \in RowType /\ p \in DOMAIN rows /\ RowsWell(rows, b.next)
    BY <1>1, <1>2
  <2> HIDE DEF rows
  <2> QED
    BY ONLY <2>1, <2>2, RowReplaced
<1>5. /\ c \in BoardType /\ c.rows = new /\ c.pane = b.pane /\ c.next = b.next
      /\ c.selected = b.selected /\ c.status = b.status
  BY <1>2, <1>3, <1>4 DEF BoardType, RowsWell, Replaced
<1>6. PaneKept(new, b.pane)
  <2>1. \A j \in DOMAIN rows : new[j].id = rows[j].id /\ new[j].who = rows[j].who
    BY <1>1, <1>4 DEF Replaced
  <2> QED
    BY <1>4, <2>1 DEF BoardWell, PaneKept, Replaced
<1>7. Selects(new, b.selected)
  BY <1>4 DEF BoardWell, Selects, Replaced
<1>8. BoardWell(c)
  BY <1>4, <1>5, <1>6, <1>7 DEF BoardWell, Replaced
<1> QED
  BY <1>5, <1>8 DEF Sound, Reported, PaneLost, IsOpen

LEMMA AddSound ==
  ASSUME NEW b, BoardWell(b), Known(runs), IsFiniteSet(DOMAIN cleanups),
         NEW c, c = AddTask(b).board
  PROVE  Sound(b, c)
<1> DEFINE row == TaskState(b, b.next)
           rows == b.rows
           new == Append(rows, row)
           n == Len(rows) + 1
           next == b.next + 1
<1>1. b \in BoardType /\ rows \in Seq(RowType) /\ b.next \in Nat \ {0} /\ next \in Nat \ {0}
  BY DEF BoardWell, BoardType
<1>2. c = [b EXCEPT !.rows = new, !.selected = b.next, !.next = next, !.status = "Other"]
  BY <1>1 DEF AddTask, Result, Say, BoardType
<1>3. /\ row \in RowType /\ row.id = b.next
      /\ \A j \in DOMAIN rows : rows[j].who # row.who
  BY <1>1, MintIsNew DEF TaskState, RowType
<1> HIDE DEF row
<1>4. /\ new \in Seq(RowType) /\ DOMAIN new = DOMAIN rows \cup {n} /\ n \notin DOMAIN rows
      /\ new[n] = row /\ \A j \in DOMAIN rows : new[j] = rows[j]
  BY <1>1, <1>3
<1> HIDE DEF new, n, next
<1>5. /\ c \in BoardType /\ c.rows = new /\ c.pane = b.pane /\ c.next = next
      /\ c.selected = b.next /\ c.status = "Other"
  BY <1>1, <1>2, <1>4 DEF BoardType
<1>6. RowsWell(new, next)
  <2>0. /\ \A i \in DOMAIN rows : rows[i].id < b.next /\ rows[i].id \in Nat
        /\ \A i, j \in DOMAIN rows : rows[i].id = rows[j].id => i = j
        /\ \A i, j \in DOMAIN rows : rows[i].who = rows[j].who => i = j
    <3>1. RowsWell(rows, b.next)
      BY DEF BoardWell
    <3>2. \A i \in DOMAIN rows : rows[i] \in RowType
      BY <1>1
    <3>3. \A i \in DOMAIN rows : rows[i].id \in Nat
      BY <3>2 DEF RowType
    <3> HIDE DEF rows
    <3> QED
      BY <3>1, <3>3 DEF RowsWell
  <2>1. \A i \in DOMAIN new : new[i].id < next
    BY <1>1, <1>3, <1>4, <2>0 DEF next
  <2>2. \A i, j \in DOMAIN new : new[i].id = new[j].id => i = j
    <3>1. \A i \in DOMAIN rows : new[i].id < b.next
      BY <1>4, <2>0
    <3>2. \A i \in DOMAIN rows : new[i].id # new[n].id
      BY <1>1, <1>3, <1>4, <2>0, <3>1
    <3> QED
      BY <1>4, <2>0, <3>2
  <2>3. \A i, j \in DOMAIN new : new[i].who = new[j].who => i = j
    BY <1>3, <1>4, <2>0
  <2> QED
    BY <1>4, <2>1, <2>2, <2>3 DEF RowsWell
<1>7. PaneKept(new, b.pane)
  <2>1. PaneKept(rows, b.pane)
    BY DEF BoardWell
  <2> HIDE DEF rows
  <2> QED
    BY <1>4, <2>1 DEF PaneKept
<1>8. Selects(new, b.next)
  <2>1. new # <<>>
    BY <1>4
  <2> QED
    BY <1>3, <1>4, <2>1 DEF Selects, HasRow
<1> QED
  BY <1>5, <1>6, <1>7, <1>8 DEF BoardWell, Sound, Reported, PaneLost, IsOpen

(* The parts that update messages share.                                   *)
LEMMA Said ==
  ASSUME NEW b \in BoardType, NEW discarding \in BOOLEAN, NEW c, c = Say(b, discarding)
  PROVE  /\ c \in BoardType /\ c.rows = b.rows /\ c.pane = b.pane /\ c.next = b.next
         /\ c.selected = b.selected /\ c.focus = b.focus
         /\ c.status = (IF discarding THEN "Discarding" ELSE "Other")
<1> DEFINE status == IF discarding THEN "Discarding" ELSE "Other"
<1>1. c = [b EXCEPT !.status = status] /\ status \in {"Discarding", "Other"}
  BY DEF Say
<1> HIDE DEF status
<1>2. /\ c \in BoardType /\ c.rows = b.rows /\ c.pane = b.pane /\ c.next = b.next
      /\ c.selected = b.selected /\ c.focus = b.focus /\ c.status = status
  BY <1>1 DEF BoardType
<1> QED
  BY <1>2 DEF status

LEMMA SaidOther ==
  ASSUME NEW b \in BoardType, NEW c, c = Say(b, FALSE)
  PROVE  /\ c \in BoardType /\ c.rows = b.rows /\ c.pane = b.pane /\ c.next = b.next
         /\ c.selected = b.selected /\ c.focus = b.focus /\ c.status = "Other"
<1>1. c = [b EXCEPT !.status = "Other"]
  BY DEF Say
<1> QED
  BY <1>1 DEF BoardType

LEMMA Closed ==
  ASSUME NEW b \in BoardType, NEW c, c = CloseDetails(b)
  PROVE  /\ c \in BoardType /\ c.rows = b.rows /\ c.pane = NoPane /\ c.next = b.next
         /\ c.selected = b.selected /\ c.status = b.status
<1> DEFINE focus == IF b.focus = "Details" THEN "Tasks" ELSE b.focus
<1>1. c = [b EXCEPT !.pane = NoPane, !.focus = focus]
  BY DEF CloseDetails
<1>2. focus \in Focuses
  BY DEF Focuses, BoardType
<1> HIDE DEF focus
<1> QED
  BY <1>1, <1>2 DEF BoardType

LEMMA ClosedOn ==
  ASSUME NEW b \in BoardType, NEW id, NEW c, c = CloseDetailsOpenedOn(b, id)
  PROVE  /\ c \in BoardType /\ c.rows = b.rows /\ c.next = b.next
         /\ c.selected = b.selected /\ c.status = b.status
         /\ OpenedOn(b, id) => c.pane = NoPane
         /\ ~OpenedOn(b, id) => c.pane = b.pane
<1>1. CASE OpenedOn(b, id)
  BY <1>1, Closed DEF CloseDetailsOpenedOn
<1>2. CASE ~OpenedOn(b, id)
  BY <1>2 DEF CloseDetailsOpenedOn
<1> QED
  BY <1>1, <1>2

(* The row a pane was opened on gives way: the pane goes with it, and no   *)
(* loss is reported.                                                       *)
LEMMA RowGivesWay ==
  ASSUME NEW b, BoardWell(b), NEW id, IsRow(b, id),
         NEW c \in BoardType, RowsWell(c.rows, c.next), Selects(c.rows, c.selected),
         c.status = "Other",
         OpenedOn(b, id) => c.pane = NoPane,
         ~OpenedOn(b, id) => c.pane = b.pane,
         \A i \in DOMAIN b.rows : b.rows[i].id # id =>
           \E j \in DOMAIN c.rows : c.rows[j] = b.rows[i],
         \A j \in DOMAIN c.rows :
           \/ \E i \in DOMAIN b.rows : b.rows[i].id # id /\ c.rows[j] = b.rows[i]
           \/ IsOpen(b) => c.rows[j].who # b.pane.of
  PROVE  Sound(b, c)
<1>1. CASE OpenedOn(b, id)
  <2>1. IsOpen(b) /\ ~IsOpen(c) /\ b.pane.task = id
    BY <1>1 DEF OpenedOn, IsOpen
  <2>2. PICK p \in DOMAIN b.rows : b.rows[p].id = id /\ b.rows[p].who = b.pane.of
    BY <2>1 DEF BoardWell, PaneKept, IsOpen
  <2>3. \A i \in DOMAIN b.rows : b.rows[i].id # id => b.rows[i].who # b.pane.of
    BY <2>2 DEF BoardWell, RowsWell
  <2>4. ~Kept(b, c)
    BY <2>1, <2>3 DEF Kept
  <2> QED
    BY <1>1, <2>1, <2>4 DEF Sound, BoardWell, PaneKept, Reported
<1>2. CASE ~OpenedOn(b, id)
  <2>1. PaneKept(c.rows, c.pane)
    <3>1. CASE b.pane = NoPane
      BY <1>2, <3>1 DEF PaneKept
    <3>2. CASE b.pane # NoPane
      <4>1. PICK i \in DOMAIN b.rows : b.rows[i].id = b.pane.task /\ b.rows[i].who = b.pane.of
        BY <3>2 DEF BoardWell, PaneKept
      <4>2. b.rows[i].id # id
        BY <1>2, <3>2, <4>1 DEF OpenedOn, IsOpen
      <4> QED
        BY <1>2, <4>1, <4>2 DEF PaneKept
    <3> QED
      BY <3>1, <3>2
  <2> QED
    BY <1>2, <2>1 DEF Sound, BoardWell, Reported, PaneLost, IsOpen
<1> QED
  BY <1>1, <1>2

LEMMA ReloadSound ==
  ASSUME NEW b, BoardWell(b), NEW id, IsRow(b, id), Known(runs), IsFiniteSet(DOMAIN cleanups),
         NEW c, c = ReloadTask(b, id).board
  PROVE  Sound(b, c)
<1> DEFINE p == Position(b, id)
           row == TaskState(b, id)
           rows == b.rows
           new == [rows EXCEPT ![p] = row]
           r == [b EXCEPT !.rows = new]
<1>1. /\ p \in DOMAIN rows /\ rows[p].id = id /\ rows[p] \in RowType
      /\ \A i \in DOMAIN rows : rows[i].id = id => i = p
  BY RowAt
<1>2. b \in BoardType /\ RowsWell(rows, b.next)
  BY DEF BoardWell
<1>3. /\ row \in RowType /\ row.id = id
      /\ \A j \in DOMAIN rows : rows[j].who # row.who
      /\ IsOpen(b) => b.pane.of # row.who
  <2>1. id \in Nat \ {0}
    BY <1>1 DEF RowType
  <2> QED
    BY <2>1, MintIsNew DEF TaskState, RowType
<1>4. c = Say(CloseDetailsOpenedOn(r, id), FALSE)
  <2>1. [b EXCEPT !.rows[p] = row] = r
    BY <1>2 DEF BoardType
  <2> QED
    BY <2>1 DEF ReloadTask, Result
<1> HIDE DEF row
<1>5. Replaced(rows, b.next, p, row, new)
  <2>1. row.id = rows[p].id /\ (row.who = rows[p].who \/ \A j \in DOMAIN rows : rows[j].who # row.who)
    BY <1>1, <1>3
  <2>2. p \in DOMAIN rows /\ RowsWell(rows, b.next) /\ row \in RowType
    BY <1>1, <1>2, <1>3
  <2> HIDE DEF rows, p
  <2> QED
    BY ONLY <2>1, <2>2, RowReplaced
<1> HIDE DEF p, new
<1>6. /\ r \in BoardType /\ r.rows = new /\ r.pane = b.pane /\ r.next = b.next
      /\ r.selected = b.selected
  BY <1>2, <1>5 DEF BoardType, Replaced, RowsWell
<1>7. OpenedOn(r, id) <=> OpenedOn(b, id)
  BY <1>6 DEF OpenedOn, IsOpen
<1> HIDE DEF r
<1> DEFINE d == CloseDetailsOpenedOn(r, id)
<1>8. /\ d \in BoardType /\ d.rows = new /\ d.next = b.next /\ d.selected = b.selected
      /\ OpenedOn(b, id) => d.pane = NoPane
      /\ ~OpenedOn(b, id) => d.pane = b.pane
  BY <1>6, <1>7, ClosedOn
<1> HIDE DEF d
<1>9. /\ c \in BoardType /\ c.rows = new /\ c.next = b.next /\ c.selected = b.selected
      /\ c.status = "Other"
      /\ OpenedOn(b, id) => c.pane = NoPane
      /\ ~OpenedOn(b, id) => c.pane = b.pane
  <2>1. c = Say(d, FALSE)
    BY <1>4 DEF d
  <2> QED
    BY <1>8, <2>1, SaidOther
<1>10. Selects(new, b.selected) /\ RowsWell(new, b.next)
  BY <1>5 DEF BoardWell, Selects, Replaced
<1>11. \A i \in DOMAIN rows : rows[i].id # id => \E j \in DOMAIN new : new[j] = rows[i]
  BY <1>1, <1>5 DEF Replaced
<1>12. \A j \in DOMAIN new :
         \/ \E i \in DOMAIN rows : rows[i].id # id /\ new[j] = rows[i]
         \/ IsOpen(b) => new[j].who # b.pane.of
  BY <1>1, <1>3, <1>5 DEF Replaced
<1> QED
  BY <1>9, <1>10, <1>11, <1>12, RowGivesWay

(* A row is taken out.                                                     *)
Gone(rows, next, p, left) ==
  /\ RowsWell(left, next)
  /\ \A j \in DOMAIN left : \E i \in DOMAIN rows : i # p /\ left[j] = rows[i]
  /\ \A i \in DOMAIN rows : i # p => \E j \in DOMAIN left : left[j] = rows[i]

LEMMA RowRemoved ==
  ASSUME NEW rows, NEW next, RowsWell(rows, next), NEW p \in DOMAIN rows,
         NEW left, left = RemoveAt(rows, p)
  PROVE  Gone(rows, next, p, left)
<1> DEFINE from(j) == IF j < p THEN j ELSE j + 1
           to(i) == IF i < p THEN i ELSE i - 1
           last == Len(rows)
<1>1. /\ rows \in Seq(RowType) /\ last \in Nat /\ p \in 1..last /\ DOMAIN rows = 1..last
  BY DEF RowsWell
<1>2. /\ left \in Seq(RowType) /\ Len(left) = last - 1
      /\ \A j \in 1..(last - 1) : left[j] = IF j < p THEN rows[j] ELSE rows[j + 1]
  BY <1>1, Removed
<1>3. DOMAIN left = 1..(last - 1)
  BY <1>2
<1>4. \A j \in DOMAIN left : from(j) \in DOMAIN rows /\ from(j) # p /\ left[j] = rows[from(j)]
  BY <1>1, <1>2, <1>3
<1>5. \A i \in DOMAIN rows : i # p => to(i) \in DOMAIN left /\ left[to(i)] = rows[i]
  <2> SUFFICES ASSUME NEW i \in DOMAIN rows, i # p
               PROVE  to(i) \in DOMAIN left /\ left[to(i)] = rows[i]
    OBVIOUS
  <2>1. CASE i < p
    BY <1>1, <1>2, <1>3, <2>1
  <2>2. CASE ~(i < p)
    <3>1. /\ to(i) = i - 1 /\ i - 1 \in 1..(last - 1) /\ ~(i - 1 < p) /\ (i - 1) + 1 = i
      BY <1>1, <2>2
    <3> HIDE DEF to
    <3> QED
      BY <1>2, <1>3, <3>1
  <2> QED
    BY <2>1, <2>2
<1>6. \A j, k \in DOMAIN left : from(j) = from(k) => j = k
  BY <1>1, <1>3
<1>7. RowsWell(left, next)
  <2> HIDE DEF from, to, last
  <2>1. \A j \in DOMAIN left : left[j].id < next
    BY <1>4 DEF RowsWell
  <2>2. \A j, k \in DOMAIN left : left[j].id = left[k].id => j = k
    BY <1>4, <1>6 DEF RowsWell
  <2>3. \A j, k \in DOMAIN left : left[j].who = left[k].who => j = k
    BY <1>4, <1>6 DEF RowsWell
  <2> QED
    BY <1>2, <2>1, <2>2, <2>3 DEF RowsWell
<1> HIDE DEF from, to
<1> QED
  BY <1>4, <1>5, <1>7 DEF Gone

LEMMA DeleteSound ==
  ASSUME NEW b, BoardWell(b), NEW id, IsRow(b, id),
         NEW c, c = DeleteTask(b, id).board
  PROVE  Sound(b, c)
<1> DEFINE p == Position(b, id)
           rows == b.rows
           left == RemoveAt(rows, p)
           selected == MoveSelected(b, left, id)
           d == CloseDetailsOpenedOn(b, id)
           r == [d EXCEPT !.rows = left, !.selected = selected]
<1>1. /\ p \in DOMAIN rows /\ rows[p].id = id
      /\ \A i \in DOMAIN rows : rows[i].id = id => i = p
  BY RowAt
<1>2. b \in BoardType /\ RowsWell(rows, b.next) /\ Selects(rows, b.selected)
  BY DEF BoardWell
<1>3. c = Say(r, FALSE)
  BY DEF DeleteTask, Result
<1>4. Gone(rows, b.next, p, left)
  <2>1. PICK l : l = left
    OBVIOUS
  <2>2. Gone(rows, b.next, p, l)
    <3> HIDE DEF p, rows
    <3> QED
      BY <1>1, <1>2, <2>1, RowRemoved
  <2> QED
    BY <2>1, <2>2
<1> HIDE DEF left
<1>5. left \in Seq(RowType) /\ RowsWell(left, b.next)
  BY <1>4 DEF Gone, RowsWell
<1>6. Selects(left, selected) /\ selected \in Nat
  <2>1. CASE b.selected = id
    <3>1. selected = SelectedAfter(left, p)
      BY <2>1 DEF MoveSelected
    <3>2. CASE left = <<>>
      BY <3>1, <3>2 DEF SelectedAfter, Selects, NoTask
    <3>3. CASE left # <<>>
      <4> DEFINE k == IF p <= Len(left) THEN p ELSE Len(left)
      <4>1. p \in Nat \ {0} /\ Len(left) \in Nat \ {0} /\ DOMAIN left = 1..Len(left)
        BY <1>1, <1>2, <1>5, <3>3 DEF RowsWell
      <4>2. k \in DOMAIN left
        BY <4>1
      <4>3. selected = left[k].id
        BY <3>1, <3>3 DEF SelectedAfter
      <4> HIDE DEF k, selected, p
      <4>4. left[k] \in RowType
        BY <1>5, <4>2
      <4> QED
        BY <3>3, <4>2, <4>3, <4>4 DEF Selects, HasRow, RowType
    <3> QED
      BY <3>2, <3>3
  <2>2. CASE b.selected # id
    <3>1. selected = b.selected
      BY <2>2 DEF MoveSelected
    <3>2. PICK i \in DOMAIN rows : rows[i].id = b.selected
      BY <1>1, <1>2 DEF Selects, HasRow
    <3>3. PICK j \in DOMAIN left : left[j] = rows[i]
      BY <1>1, <1>4, <2>2, <3>2 DEF Gone
    <3>4. left # <<>> /\ left[j].id = selected
      BY <3>1, <3>2, <3>3
    <3> QED
      BY <1>2, <3>1, <3>3, <3>4 DEF Selects, HasRow, BoardType
  <2> QED
    BY <2>1, <2>2
<1> HIDE DEF selected, p
<1>7. /\ d \in BoardType /\ d.rows = rows /\ d.next = b.next
      /\ OpenedOn(b, id) => d.pane = NoPane
      /\ ~OpenedOn(b, id) => d.pane = b.pane
  BY <1>2, ClosedOn
<1> HIDE DEF d
<1>8. /\ r \in BoardType /\ r.rows = left /\ r.next = b.next /\ r.selected = selected
      /\ r.pane = d.pane
  BY <1>5, <1>6, <1>7 DEF BoardType
<1> HIDE DEF r
<1>9. /\ c \in BoardType /\ c.rows = left /\ c.next = b.next /\ c.selected = selected
      /\ c.pane = d.pane /\ c.status = "Other"
  BY <1>3, <1>8, SaidOther
<1>10. \A i \in DOMAIN rows : rows[i].id # id => \E j \in DOMAIN left : left[j] = rows[i]
  BY <1>1, <1>4 DEF Gone
<1>11. \A j \in DOMAIN left : \E i \in DOMAIN rows : rows[i].id # id /\ left[j] = rows[i]
  BY <1>1, <1>4 DEF Gone
<1> QED
  BY <1>5, <1>6, <1>7, <1>9, <1>10, <1>11, RowGivesWay

LEMMA OpenSound ==
  ASSUME NEW b, BoardWell(b), NEW id, IsRow(b, id), Known(runs), IsFiniteSet(DOMAIN cleanups),
         NEW c, c = OpenDetails(b, id).board
  PROVE  Sound(b, c)
<1> DEFINE pane == DetailsState(b, id)
           r == [b EXCEPT !.pane = pane, !.focus = "Details"]
           unsaved == UnsavedReplaced(b)
<1>1. c = Say(r, unsaved)
  BY DEF OpenDetails, Result
<1>2. PICK p \in DOMAIN b.rows : b.rows[p].id = id /\ b.rows[p] = Row(b, id) /\ b.rows[p] \in RowType
  BY RowAt DEF Row
<1>3. /\ pane \in PaneType /\ pane.task = id /\ pane.of = b.rows[p].who
      /\ IsOpen(b) => pane.who # b.pane.who
  BY <1>2, MintIsNew DEF DetailsState, PaneType, RowType
<1> HIDE DEF pane
<1>4. b \in BoardType
  BY DEF BoardWell
<1>5. /\ r \in BoardType /\ r.rows = b.rows /\ r.next = b.next /\ r.selected = b.selected
      /\ r.pane = pane
  BY <1>3, <1>4 DEF BoardType, Focuses
<1>6. unsaved <=> IsOpen(b) /\ IsRow(b, b.pane.task) /\ b.pane.edited
  BY DEF UnsavedReplaced, UnsavedNotes
<1>7. unsaved \in BOOLEAN
  <2>1. IsOpen(b) => b.pane.edited \in BOOLEAN
    BY <1>4 DEF BoardType, PaneType, IsOpen
  <2> QED
    BY <2>1 DEF UnsavedReplaced, UnsavedNotes, IsRow, IsOpen
<1> HIDE DEF r, unsaved
<1>8. /\ c \in BoardType /\ c.rows = b.rows /\ c.next = b.next /\ c.selected = b.selected
      /\ c.pane = pane
      /\ c.status = IF unsaved THEN "Discarding" ELSE "Other"
  BY <1>1, <1>5, <1>7, Said
<1>9. PaneKept(c.rows, c.pane)
  BY <1>2, <1>3, <1>8 DEF PaneKept
<1>10. IsOpen(b) => IsRow(b, b.pane.task) /\ Kept(b, c)
  BY <1>8 DEF BoardWell, PaneKept, IsOpen, IsRow, Kept
<1>11. Reported(b, c)
  BY <1>3, <1>6, <1>8, <1>10 DEF Reported, PaneLost
<1> QED
  BY <1>8, <1>9, <1>11 DEF Sound, BoardWell

LEMMA CloseSound ==
  ASSUME NEW b, BoardWell(b), NEW c, c = Say(CloseDetails(b), UnsavedNotes(b))
  PROVE  Sound(b, c)
<1> DEFINE r == CloseDetails(b)
           unsaved == UnsavedNotes(b)
<1>1. b \in BoardType
  BY DEF BoardWell
<1>2. /\ r \in BoardType /\ r.rows = b.rows /\ r.next = b.next /\ r.selected = b.selected
      /\ r.pane = NoPane
  BY <1>1, Closed
<1>3. unsaved <=> IsOpen(b) /\ IsRow(b, b.pane.task) /\ b.pane.edited
  BY DEF UnsavedNotes
<1>4. unsaved \in BOOLEAN
  <2>1. IsOpen(b) => b.pane.edited \in BOOLEAN
    BY <1>1 DEF BoardType, PaneType, IsOpen
  <2> QED
    BY <2>1 DEF UnsavedNotes, IsRow, IsOpen
<1> HIDE DEF r, unsaved
<1>5. /\ c \in BoardType /\ c.rows = b.rows /\ c.next = b.next /\ c.selected = b.selected
      /\ c.pane = NoPane
      /\ c.status = IF unsaved THEN "Discarding" ELSE "Other"
  BY <1>2, <1>4, Said DEF r, unsaved
<1>6. IsOpen(b) => IsRow(b, b.pane.task) /\ Kept(b, c)
  BY <1>5 DEF BoardWell, PaneKept, IsOpen, IsRow, Kept
<1>7. Reported(b, c)
  BY <1>3, <1>5, <1>6 DEF Reported, PaneLost, IsOpen
<1> QED
  BY <1>5, <1>7 DEF Sound, BoardWell, PaneKept

LEMMA Same == ASSUME NEW b, BoardWell(b) PROVE Sound(b, b)
BY DEF Sound, Reported, PaneLost

LEMMA SaySound == ASSUME NEW b, BoardWell(b), NEW c, c = Say(b, FALSE) PROVE Sound(b, c)
<1>1. b \in BoardType /\ Selects(b.rows, b.selected)
  BY DEF BoardWell
<1>2. /\ c \in BoardType /\ c.rows = b.rows /\ c.pane = b.pane /\ c.next = b.next
      /\ c.selected = b.selected /\ c.status = "Other"
  BY <1>1, SaidOther
<1> QED
  BY <1>1, <1>2, Minor

LEMMA FocusSound ==
  ASSUME NEW b, BoardWell(b), NEW c, c = Say([b EXCEPT !.focus = NextFocus(@)], FALSE)
  PROVE  Sound(b, c)
<1> DEFINE focus == NextFocus(b.focus)
           r == [b EXCEPT !.focus = focus]
<1>1. b \in BoardType /\ Selects(b.rows, b.selected)
  BY DEF BoardWell
<1>2. focus \in Focuses
  BY <1>1 DEF BoardType, NextFocus, Focuses
<1> HIDE DEF focus
<1>3. /\ r \in BoardType /\ r.rows = b.rows /\ r.pane = b.pane /\ r.next = b.next
      /\ r.selected = b.selected
  BY <1>1, <1>2 DEF BoardType
<1>4. c = Say(r, FALSE)
  BY DEF focus
<1> HIDE DEF r
<1>5. /\ c \in BoardType /\ c.rows = b.rows /\ c.pane = b.pane /\ c.next = b.next
      /\ c.selected = b.selected /\ c.status = "Other"
  BY <1>3, <1>4, SaidOther
<1> QED
  BY <1>1, <1>5, Minor

(* One step of the selection stays within the list.                        *)
LEMMA SelectSound ==
  ASSUME NEW b, BoardWell(b), NEW forward \in BOOLEAN, NEW c, c = Say(Select(b, forward), FALSE)
  PROVE  Sound(b, c)
<1> DEFINE r == Select(b, forward)
<1>1. b \in BoardType /\ Selects(b.rows, b.selected)
  BY DEF BoardWell
<1>2. CASE b.rows = <<>>
  <2>1. c = Say(b, FALSE)
    BY <1>2 DEF Select
  <2> QED
    BY <2>1, SaySound
<1>3. CASE b.rows # <<>>
  <2> DEFINE last == Len(b.rows)
             p == Position(b, b.selected)
             next == CASE IsRow(b, b.selected) /\ forward  -> p + 1
                       [] IsRow(b, b.selected) /\ ~forward -> p - 1
                       [] ~IsRow(b, b.selected) /\ forward -> 1
                       [] OTHER -> last
             at == IF next < 1 THEN 1 ELSE IF next > last THEN last ELSE next
             selected == b.rows[at].id
  <2>1. r = [b EXCEPT !.selected = selected]
    BY <1>3 DEF Select, Neighbour
  <2>2. IsRow(b, b.selected) /\ p \in DOMAIN b.rows
    <3>1. IsRow(b, b.selected)
      BY <1>1, <1>3 DEF Selects, HasRow, IsRow
    <3> QED
      BY <3>1, RowAt
  <2>3. /\ b.rows \in Seq(RowType) /\ last \in Nat \ {0} /\ DOMAIN b.rows = 1..last
    BY <1>1, <1>3 DEF BoardType
  <2>4. next = p + 1 \/ next = p - 1
    BY <2>2
  <2>5. at \in DOMAIN b.rows
    <3> HIDE DEF next, last, p
    <3>1. next \in Int
      BY <2>2, <2>3, <2>4
    <3> QED
      BY <2>3, <3>1
  <2> HIDE DEF at, r
  <2>6. selected \in Nat /\ HasRow(b.rows, selected)
    <3>1. b.rows[at] \in RowType
      BY <2>3, <2>5
    <3> QED
      BY <2>5, <3>1 DEF HasRow, RowType
  <2> HIDE DEF selected
  <2>7. /\ r \in BoardType /\ r.rows = b.rows /\ r.pane = b.pane /\ r.next = b.next
        /\ r.selected = selected
    BY <1>1, <2>1, <2>6 DEF BoardType
  <2>8. /\ c \in BoardType /\ c.rows = b.rows /\ c.pane = b.pane /\ c.next = b.next
        /\ c.selected = selected /\ c.status = "Other"
    BY <2>7, SaidOther DEF r
  <2>9. Selects(b.rows, selected)
    BY <1>3, <2>6 DEF Selects
  <2> QED
    BY <2>8, <2>9, Minor
<1> QED
  BY <1>2, <1>3

(* A pane that changes without giving way.                                 *)
LEMMA PaneSound ==
  ASSUME NEW b, BoardWell(b), IsOpen(b), NEW pane \in PaneType,
         pane.task = b.pane.task, pane.of = b.pane.of, pane.who = b.pane.who,
         NEW c, c = [b EXCEPT !.pane = pane]
  PROVE  Sound(b, c)
<1>1. b \in BoardType /\ Selects(b.rows, b.selected)
  BY DEF BoardWell
<1>2. /\ c \in BoardType /\ c.rows = b.rows /\ c.pane = pane /\ c.next = b.next
      /\ c.selected = b.selected /\ c.status = b.status
  BY <1>1 DEF BoardType
<1>3. pane # NoPane /\ b.pane # NoPane
  BY PaneIsOpen DEF IsOpen
<1> QED
  BY <1>1, <1>2, <1>3, Minor

LEMMA OpenPane == ASSUME NEW b, BoardWell(b), IsOpen(b) PROVE b.pane \in PaneType
BY DEF BoardWell, BoardType, IsOpen

LEMMA SaveSound ==
  ASSUME NEW b, BoardWell(b), IsOpen(b), NEW c, c = Say([b EXCEPT !.pane.edited = FALSE], FALSE)
  PROVE  Sound(b, c)
<1> DEFINE pane == [b.pane EXCEPT !.edited = FALSE]
           r == [b EXCEPT !.pane = pane]
<1>1. b.pane \in PaneType /\ b \in BoardType
  BY OpenPane DEF BoardWell
<1>2. /\ pane \in PaneType /\ pane.task = b.pane.task /\ pane.of = b.pane.of
      /\ pane.who = b.pane.who
  BY <1>1 DEF PaneType
<1>3. c = Say(r, FALSE)
  BY <1>1 DEF BoardType
<1> HIDE DEF pane
<1>4. /\ r \in BoardType /\ r.rows = b.rows /\ r.pane = pane /\ r.next = b.next
      /\ r.selected = b.selected
  BY <1>1, <1>2 DEF BoardType
<1> HIDE DEF r
<1>5. /\ c \in BoardType /\ c.rows = b.rows /\ c.pane = pane /\ c.next = b.next
      /\ c.selected = b.selected /\ c.status = "Other"
  BY <1>3, <1>4, SaidOther
<1>6. Selects(b.rows, b.selected) /\ pane # NoPane /\ b.pane # NoPane
  BY <1>2, PaneIsOpen DEF IsOpen, BoardWell
<1> QED
  BY <1>2, <1>5, <1>6, Minor

-----------------------------------------------------------------------------
(* The composed dashboard: its messages.                                   *)

LEMMA MsgIs == ASSUME NEW name \in Names, NEW id \in Nat PROVE Msg(name, id) \in Message
BY DEF Msg, Message

(* What a reducer leaves and says.                                         *)
Good(b, r) == Sound(b, r.board) /\ Carries(r.command, Message)

LEMMA GoodIs ==
  ASSUME NEW b, NEW c, Sound(b, c), NEW command, Carries(command, Message), NEW removed
  PROVE  Good(b, Result(c, command, removed))
BY DEF Good, Result

RootNames ==
  {"Quit", "NoTaskSelected", "FocusNext", "SelectPrev", "SelectNext", "AddTask", "ReloadTask",
   "DeleteTask", "OpenDetails", "CloseDetails", "SaveNotes"}

LEMMA RootGood ==
  ASSUME NEW b, BoardWell(b), Known(runs), IsFiniteSet(DOMAIN cleanups),
         NEW m \in Message, m.name \in RootNames,
         NEW r, r = Root(b, m)
  PROVE  Good(b, r)
<1>0. m.id \in Nat /\ b.next \in Nat /\ b \in BoardType
  BY DEF Message, BoardWell, BoardType
<1> DEFINE other == Say(b, FALSE)
<1>1. Sound(b, b) /\ Sound(b, other)
  BY Same, SaySound
<1> HIDE DEF other
<1>2. Carries(None, Message) /\ Carries(ImmediateQuit, Message)
  BY NoneCarries, QuitCarries
<1>3. \A name \in Names, id \in Nat : Carries(Deliver(Msg(name, id)), Message)
  BY MsgIs, DeliverCarries
<1>4. CASE m.name = "Quit"
  <2>1. r = Result(b, ImmediateQuit, <<>>)
    BY <1>4 DEF Root
  <2> QED
    BY <1>1, <1>2, <2>1, GoodIs
<1>5. CASE m.name = "NoTaskSelected"
  <2>1. r = Result(other, None, <<>>)
    BY <1>5 DEF Root, other
  <2> QED
    BY <1>1, <1>2, <2>1, GoodIs
<1>6. CASE m.name = "FocusNext"
  <2> DEFINE c == Say([b EXCEPT !.focus = NextFocus(@)], FALSE)
  <2>1. r = Result(c, None, <<>>)
    BY <1>6 DEF Root
  <2>2. Sound(b, c)
    BY FocusSound
  <2> HIDE DEF c
  <2> QED
    BY <1>2, <2>1, <2>2, GoodIs
<1>7. CASE m.name \in {"SelectPrev", "SelectNext"}
  <2> DEFINE forward == m.name = "SelectNext"
             c == Say(Select(b, forward), FALSE)
  <2>1. r = Result(c, None, <<>>)
    BY <1>7 DEF Root
  <2>2. Sound(b, c)
    <3>1. forward \in BOOLEAN
      OBVIOUS
    <3> HIDE DEF forward
    <3> QED
      BY <3>1, SelectSound
  <2> HIDE DEF c
  <2> QED
    BY <1>2, <2>1, <2>2, GoodIs
<1>8. CASE m.name = "AddTask"
  <2>1. r = AddTask(b)
    BY <1>8 DEF Root
  <2>2. Sound(b, r.board)
    BY <2>1, AddSound
  <2>3. r.command = Deliver(Msg("Watch", b.next))
    BY <2>1 DEF AddTask, Result
  <2>4. "Watch" \in Names
    BY DEF Names, TaskMessages
  <2> QED
    BY <1>0, <1>3, <2>2, <2>3, <2>4 DEF Good
<1>9. CASE m.name = "ReloadTask"
  <2>1. r = ReloadTask(b, m.id)
    BY <1>9 DEF Root
  <2>2. CASE ~IsRow(b, m.id)
    <3>1. r = Result(other, None, <<>>)
      BY <2>1, <2>2 DEF ReloadTask, other
    <3> QED
      BY <1>1, <1>2, <3>1, GoodIs
  <2>3. CASE IsRow(b, m.id)
    <3>1. Sound(b, r.board)
      BY <2>1, <2>3, ReloadSound
    <3>2. r.command = Deliver(Msg("Watch", m.id))
      BY <2>1, <2>3 DEF ReloadTask, Result
    <3>3. "Watch" \in Names
      BY DEF Names, TaskMessages
    <3> QED
      BY <1>0, <1>3, <3>1, <3>2, <3>3 DEF Good
  <2> QED
    BY <2>2, <2>3
<1>10. CASE m.name = "DeleteTask"
  <2>1. r = DeleteTask(b, m.id)
    BY <1>10 DEF Root
  <2>2. CASE ~IsRow(b, m.id)
    <3>1. r = Result(other, None, <<>>)
      BY <2>1, <2>2 DEF DeleteTask, other
    <3> QED
      BY <1>1, <1>2, <3>1, GoodIs
  <2>3. CASE IsRow(b, m.id)
    <3>1. Sound(b, r.board)
      BY <2>1, <2>3, DeleteSound
    <3>2. r.command = None
      BY <2>1, <2>3 DEF DeleteTask, Result
    <3> QED
      BY <1>2, <3>1, <3>2 DEF Good
  <2> QED
    BY <2>2, <2>3
<1>11. CASE m.name = "OpenDetails"
  <2>1. r = OpenDetails(b, m.id)
    BY <1>11 DEF Root
  <2>2. CASE ~IsRow(b, m.id)
    <3>1. r = Result(other, None, <<>>)
      BY <2>1, <2>2 DEF OpenDetails, other
    <3> QED
      BY <1>1, <1>2, <3>1, GoodIs
  <2>3. CASE IsRow(b, m.id)
    <3>1. Sound(b, r.board)
      BY <2>1, <2>3, OpenSound
    <3>2. r.command = Deliver(Msg("Open", NoTask))
      BY <2>1, <2>3 DEF OpenDetails, Result, RootMsg
    <3>3. "Open" \in Names /\ NoTask \in Nat
      BY DEF Names, DetailsMessages, NoTask
    <3> QED
      BY <1>3, <3>1, <3>2, <3>3 DEF Good
  <2> QED
    BY <2>2, <2>3
<1>12. CASE m.name = "CloseDetails"
  <2> DEFINE c == Say(CloseDetails(b), UnsavedNotes(b))
  <2>1. r = Result(c, None, Dismissal(b))
    BY <1>12 DEF Root
  <2>2. Sound(b, c)
    BY CloseSound
  <2> HIDE DEF c
  <2> QED
    BY <1>2, <2>1, <2>2, GoodIs
<1>13. CASE m.name = "SaveNotes"
  <2>1. r = SaveNotes(b)
    BY <1>13 DEF Root
  <2>2. CASE ~IsOpen(b)
    <3>1. r = Result(other, None, <<>>)
      BY <2>1, <2>2 DEF SaveNotes, other
    <3> QED
      BY <1>1, <1>2, <3>1, GoodIs
  <2>3. CASE IsOpen(b) /\ ~IsRow(b, b.pane.task)
    <3>1. r = Result(b, None, <<>>)
      BY <2>1, <2>3 DEF SaveNotes
    <3> QED
      BY <1>1, <1>2, <3>1, GoodIs
  <2>4. CASE IsOpen(b) /\ IsRow(b, b.pane.task)
    <3> DEFINE c == Say([b EXCEPT !.pane.edited = FALSE], FALSE)
    <3>1. r = Result(c, Deliver(Msg("Sync", b.pane.task)), <<>>)
      BY <2>1, <2>4 DEF SaveNotes
    <3>2. Sound(b, c)
      BY <2>4, SaveSound
    <3> HIDE DEF c
    <3>3. "Sync" \in Names /\ b.pane.task \in Nat
      BY <2>4, OpenPane DEF Names, TaskMessages, PaneType
    <3>4. Carries(Deliver(Msg("Sync", b.pane.task)), Message)
      BY <1>3, <3>3
    <3> QED
      BY <3>1, <3>2, <3>4, GoodIs
  <2> QED
    BY <2>2, <2>3, <2>4
<1> QED
  BY <1>4, <1>5, <1>6, <1>7, <1>8, <1>9, <1>10, <1>11, <1>12, <1>13 DEF RootNames

LEMMA InnerIs == ASSUME NEW name \in Names, NEW who \in Nat PROVE Inner(name, who) \in InnerMessage
BY DEF Inner, InnerMessage

(* A row stays the instance that it was, whatever its messages.            *)
LEMMA TaskKeeps ==
  ASSUME NEW row \in RowType, NEW name \in TaskMessages, NEW r, r = Task(row, name)
  PROVE  /\ r.state \in RowType /\ r.state.id = row.id /\ r.state.who = row.who
         /\ Carries(r.command, InnerMessage)
<1> DEFINE sync == Deliver(Inner("Sync", 0))
<1>1. Carries(sync, InnerMessage) /\ Alone(sync, InnerMessage)
  <2>1. "Sync" \in Names
    BY DEF Names, TaskMessages
  <2>2. Inner("Sync", 0) \in InnerMessage
    BY <2>1, InnerIs
  <2> QED
    BY <2>2, DeliverCarries
<1> HIDE DEF sync
<1>2. Carries(None, InnerMessage)
  BY NoneCarries
<1>3. CASE name = "Watch"
  <2>1. CASE Watched(row)
    BY <1>2, <1>3, <2>1 DEF Task, ChildResult
  <2>2. CASE ~Watched(row)
    <3> DEFINE command == Batch(<<OnTeardown(row.who), sync>>)
               state == [row EXCEPT !.watched = TRUE]
    <3>1. r = ChildResult(state, command)
      BY <1>3, <2>2 DEF Task, sync
    <3>2. Carries(command, InnerMessage)
      BY <1>1, SetupCarries
    <3>3. state \in RowType /\ state.id = row.id /\ state.who = row.who
      BY DEF RowType
    <3> HIDE DEF command, state
    <3> QED
      BY <3>1, <3>2, <3>3 DEF ChildResult
  <2> QED
    BY <2>1, <2>2
<1>4. CASE name = "Toggle"
  BY <1>1, <1>4 DEF Task, ChildResult, sync
<1>5. CASE name = "Sync"
  <2> DEFINE command == Request("Synced", row.who)
             state == [row EXCEPT !.syncing = TRUE]
  <2>1. r = ChildResult(state, command)
    BY <1>5 DEF Task
  <2>2. Carries(command, InnerMessage)
    <3>1. "Synced" \in Names /\ row.who \in Nat
      BY DEF Names, TaskMessages, RowType
    <3>2. Inner("Synced", row.who) \in InnerMessage
      BY <3>1, InnerIs
    <3> QED
      BY <3>2, RequestCarries
  <2>3. state \in RowType /\ state.id = row.id /\ state.who = row.who
    BY DEF RowType
  <2> HIDE DEF command, state
  <2> QED
    BY <2>1, <2>2, <2>3 DEF ChildResult
<1>6. CASE name = "Synced"
  <2> DEFINE state == [row EXCEPT !.syncing = FALSE]
  <2>1. r = ChildResult(state, None)
    BY <1>6 DEF Task
  <2>2. state \in RowType /\ state.id = row.id /\ state.who = row.who
    BY DEF RowType
  <2> HIDE DEF state
  <2> QED
    BY <1>2, <2>1, <2>2 DEF ChildResult
<1> QED
  BY <1>3, <1>4, <1>5, <1>6 DEF TaskMessages

(* And so does a pane.                                                     *)
LEMMA DetailsKeeps ==
  ASSUME NEW pane \in PaneType, NEW name \in DetailsMessages, NEW same \in BOOLEAN,
         NEW r, r = Details(pane, name, same)
  PROVE  /\ r.state \in PaneType /\ r.state.task = pane.task /\ r.state.of = pane.of
         /\ r.state.who = pane.who
         /\ Carries(r.command, InnerMessage)
<1>1. Carries(None, InnerMessage)
  BY NoneCarries
<1>2. CASE name = "Open"
  <2>1. CASE pane.opened
    BY <1>1, <1>2, <2>1 DEF Details, ChildResult
  <2>2. CASE ~pane.opened
    <3> DEFINE request == Request("Loaded", pane.who)
               command == Batch(<<OnTeardown(pane.who), request>>)
               state == [pane EXCEPT !.opened = TRUE]
    <3>1. r = ChildResult(state, command)
      BY <1>2, <2>2 DEF Details
    <3>2. Alone(request, InnerMessage)
      <4>1. "Loaded" \in Names /\ pane.who \in Nat
        BY DEF Names, DetailsMessages, PaneType
      <4>2. Inner("Loaded", pane.who) \in InnerMessage
        BY <4>1, InnerIs
      <4> QED
        BY <4>2, RequestCarries
    <3> HIDE DEF request
    <3>3. Carries(command, InnerMessage)
      BY <3>2, SetupCarries
    <3>4. /\ state \in PaneType /\ state.task = pane.task /\ state.of = pane.of
          /\ state.who = pane.who
      BY DEF PaneType
    <3> HIDE DEF command, state
    <3> QED
      BY <3>1, <3>3, <3>4 DEF ChildResult
  <2> QED
    BY <2>1, <2>2
<1>3. CASE name = "Loaded"
  <2> DEFINE state == [pane EXCEPT !.loading = FALSE]
  <2>1. r = ChildResult(state, None)
    BY <1>3 DEF Details
  <2>2. /\ state \in PaneType /\ state.task = pane.task /\ state.of = pane.of
        /\ state.who = pane.who
    BY DEF PaneType
  <2> HIDE DEF state
  <2> QED
    BY <1>1, <2>1, <2>2 DEF ChildResult
<1>4. CASE name = "Input"
  <2> DEFINE typed == [pane EXCEPT !.edited = TRUE]
             back == [pane EXCEPT !.edited = FALSE]
  <2>1. ASSUME NEW state, state = typed \/ state = back
        PROVE  /\ state \in PaneType /\ state.task = pane.task /\ state.of = pane.of
               /\ state.who = pane.who
    BY <2>1 DEF PaneType
  <2>2. r = ChildResult(typed, None) \/ r = ChildResult(back, None)
    <3>1. CASE same
      BY <1>4, <3>1 DEF Details
    <3>2. CASE ~same
      BY <1>4, <3>2 DEF Details
    <3> QED
      BY <3>1, <3>2
  <2> HIDE DEF typed, back
  <2>3. r.command = None /\ (r.state = typed \/ r.state = back)
    BY <2>2 DEF ChildResult
  <2> QED
    BY <1>1, <2>1, <2>3
<1> QED
  BY <1>2, <1>3, <1>4 DEF DetailsMessages

LEMMA RowsGood ==
  ASSUME NEW b, BoardWell(b), Known(runs), IsFiniteSet(DOMAIN cleanups),
         NEW m \in Message, m.name \notin DetailsMessages,
         NEW r, r = RowsReduce(b, m)
  PROVE  Good(b, r)
<1>1. CASE m.name \notin TaskMessages
  <2>1. m.name \in RootNames
    BY <1>1 DEF Message, Names, RootNames
  <2>2. r = Root(b, m)
    BY <1>1 DEF RowsReduce
  <2> QED
    BY <2>1, <2>2, RootGood
<1>2. CASE m.name \in TaskMessages /\ ~IsRow(b, m.id)
  <2>1. r = Result(b, None, <<>>)
    BY <1>2 DEF RowsReduce
  <2> QED
    BY <2>1, Same, NoneCarries, GoodIs
<1>3. CASE m.name \in TaskMessages /\ IsRow(b, m.id)
  <2> DEFINE row == Row(b, m.id)
             t == Task(row, m.name)
             c == [b EXCEPT !.rows[Position(b, m.id)] = t.state]
             wrapped == Wrapped(t.command, m.id)
             command == Scoped(wrapped, Segment(m.id))
  <2>1. r = Result(c, command, <<>>)
    BY <1>3 DEF RowsReduce, RowReduced, Qualified
  <2>2. row \in RowType
    BY <1>3, RowAt DEF Row
  <2>3. /\ t.state \in RowType /\ t.state.id = row.id /\ t.state.who = row.who
        /\ Carries(t.command, InnerMessage)
    <3> HIDE DEF row
    <3> QED
      BY <1>3, <2>2, TaskKeeps
  <2> HIDE DEF t
  <2>4. Sound(b, c)
    <3> DEFINE state == t.state
    <3>1. state \in RowType /\ state.id = row.id /\ state.who = row.who
      BY <2>3
    <3>2. c = [b EXCEPT !.rows[Position(b, m.id)] = state]
      OBVIOUS
    <3> HIDE DEF state, c
    <3> QED
      BY <1>3, <3>1, <3>2, RowSound
  <2>5. Carries(wrapped, Message)
    <3>1. m.id \in Nat
      BY DEF Message
    <3> QED
      BY <2>3, <3>1, WrappedCarries
  <2> HIDE DEF wrapped
  <2>6. Carries(command, Message)
    BY <2>5, ScopedCarries
  <2> HIDE DEF c, command
  <2> QED
    BY <2>1, <2>4, <2>6, GoodIs
<1> QED
  BY <1>1, <1>2, <1>3

LEMMA PaneGood ==
  ASSUME NEW b, BoardWell(b), Known(runs), IsFiniteSet(DOMAIN cleanups),
         NEW m \in Message, NEW same \in BOOLEAN, NEW r, r = PaneReduce(b, m, same)
  PROVE  Good(b, r)
<1>1. CASE m.name \notin DetailsMessages
  <2>1. r = RowsReduce(b, m)
    BY <1>1 DEF PaneReduce
  <2> QED
    BY <1>1, <2>1, RowsGood
<1>2. CASE m.name \in DetailsMessages /\ ~IsOpen(b)
  <2>1. r = Result(b, None, <<>>)
    BY <1>2 DEF PaneReduce
  <2> QED
    BY <2>1, Same, NoneCarries, GoodIs
<1>3. CASE m.name \in DetailsMessages /\ IsOpen(b)
  <2> DEFINE t == Details(b.pane, m.name, same)
             pane == t.state
             c == [b EXCEPT !.pane = pane]
             wrapped == Wrapped(t.command, NoTask)
             command == Scoped(wrapped, DetailsSegment)
  <2>1. r = Result(c, command, <<>>)
    BY <1>3 DEF PaneReduce, PaneReduced, Qualified
  <2>2. /\ pane \in PaneType /\ pane.task = b.pane.task /\ pane.of = b.pane.of
        /\ pane.who = b.pane.who
        /\ Carries(t.command, InnerMessage)
    BY <1>3, OpenPane, DetailsKeeps
  <2> HIDE DEF t, pane
  <2>3. Sound(b, c)
    BY <1>3, <2>2, PaneSound
  <2>4. Carries(wrapped, Message)
    BY <2>2, WrappedCarries DEF NoTask
  <2> HIDE DEF wrapped
  <2>5. Carries(command, Message)
    BY <2>4, ScopedCarries
  <2> HIDE DEF c, command
  <2> QED
    BY <2>1, <2>3, <2>5, GoodIs
<1> QED
  BY <1>1, <1>2, <1>3

LEMMA ReduceGood ==
  ASSUME NEW b, BoardWell(b), Known(runs), IsFiniteSet(DOMAIN cleanups),
         NEW m \in Message, NEW same \in BOOLEAN, NEW r, r = Reduce(b, m, same)
  PROVE  Good(b, r)
<1> DEFINE s == PaneReduce(b, m, same)
           other == Teardowns(s.removed)
           command == MergingTeardowns(s.command, other)
<1>1. Good(b, s)
  BY PaneGood
<1>2. r = [board |-> s.board, command |-> command]
  BY DEF Reduce, Owed
<1> HIDE DEF s, other
<1>3. Carries(command, Message)
  BY <1>1, MergeCarries DEF Good
<1> HIDE DEF command
<1> QED
  BY <1>1, <1>2, <1>3 DEF Good

-----------------------------------------------------------------------------
(* The composed dashboard: its steps.                                      *)

BoardInv ==
  /\ BoardWell(board)
  /\ Known(runs)
  /\ IsFiniteSet(DOMAIN cleanups)

LEMMA BoardStarts == BoardInit => BoardInv
<1> SUFFICES ASSUME BoardInit PROVE BoardInv
  OBVIOUS
<1>1. BoardWell(board)
  <2>1. board \in BoardType /\ board.rows = <<>> /\ board.pane = NoPane /\ board.selected = NoTask
    BY DEF BoardInit, NewBoard, BoardType, Focuses, NoTask
  <2> QED
    BY <2>1 DEF BoardWell, RowsWell, PaneKept, Selects
<1>2. Known(EmptyBag) /\ IsFiniteSet(DOMAIN EmptyBag)
  <2>1. DOMAIN EmptyBag = {}
    BY DEF EmptyBag, SetToBag
  <2> QED
    BY <2>1, FS_EmptySet DEF Known
<1>3. Known(runs)
  <2> DEFINE messages == [i \in 1..Seeds |-> RootMsg("AddTask")]
  <2>1. RootMsg("AddTask") \in Message
    BY MsgIs DEF RootMsg, Names, NoTask
  <2>2. messages \in Seq(Message) /\ messages # <<>>
    <3>1. messages \in [1..Seeds -> Message] /\ 1 \in DOMAIN messages /\ Seeds \in Nat
      BY <2>1, ComposedAssumption
    <3> HIDE DEF messages
    <3> QED
      BY <3>1
  <2>3. runs = Dispatched(EmptyBag, Stream(messages))
    BY DEF BoardInit
  <2> HIDE DEF messages
  <2> QED
    BY <1>2, <2>2, <2>3, StreamCarries, DispatchedKnown
<1> QED
  BY <1>1, <1>2, <1>3 DEF BoardInv, BoardInit

LEMMA KeysAreMessages == ASSUME NEW b, BoardWell(b), NEW m \in KeyMessages(b) PROVE m \in Message
<1>1. b.selected \in Nat /\ NoTask \in Nat
  BY DEF BoardWell, BoardType, NoTask
<1>2. \/ \E name \in {"Quit", "FocusNext", "SelectPrev", "SelectNext", "AddTask", "CloseDetails",
                      "SaveNotes", "Input", "NoTaskSelected"} : m = Msg(name, NoTask)
      \/ \E name \in {"Toggle", "DeleteTask", "ReloadTask", "OpenDetails"} : m = Msg(name, b.selected)
  BY DEF KeyMessages, RootMsg, OnSelected
<1> QED
  BY <1>1, <1>2, MsgIs DEF Names, TaskMessages, DetailsMessages

LEMMA BoardSteps == ASSUME BoardInv, [BoardNext]_boardVars PROVE BoardInv' /\ Sound(board, board')
<1>1. ASSUME NEW m \in KeyMessages(board), Press(m) PROVE BoardInv' /\ Sound(board, board')
  <2>1. Carries(Deliver(m), Message)
    BY KeysAreMessages, DeliverCarries DEF BoardInv
  <2>2. Known(runs')
    BY <1>1, <2>1, DispatchedKnown DEF BoardInv, Press
  <2>3. board' = board \/ board' = Say(board, FALSE)
    BY <1>1 DEF Press
  <2>4. Sound(board, board')
    BY <2>3, SaySound, Same DEF BoardInv
  <2> QED
    BY <1>1, <2>2, <2>4 DEF BoardInv, Press, Sound
<1>2. ASSUME NEW run \in DOMAIN runs, NEW same \in BOOLEAN, Land(run, same)
      PROVE  BoardInv' /\ Sound(board, board')
  <2> DEFINE m == run.payload[1]
             r == Reduce(board, m, same)
             left == After(runs, run)
  <2>1. m \in Message
    BY DEF BoardInv, Known, Speaking, Says
  <2>2. Good(board, r)
    <3> HIDE DEF m
    <3> QED
      BY <2>1, ReduceGood DEF BoardInv
  <2>3. Known(left)
    BY AfterKnown DEF BoardInv
  <2>4. /\ board' = r.board /\ runs' = Dispatched(left, r.command)
        /\ cleanups' = Armed(cleanups, r.command)
    BY <1>2 DEF Land, Landed
  <2> HIDE DEF r, left, m
  <2>5. Known(runs')
    BY <2>2, <2>3, <2>4, DispatchedKnown DEF Good
  <2>6. IsFiniteSet(DOMAIN cleanups')
    BY <2>2, <2>4, ArmedFinite DEF Good, Carries, BoardInv
  <2> QED
    BY <2>2, <2>4, <2>5, <2>6 DEF Good, Sound, BoardInv
<1>3. CASE TerminalError \/ UNCHANGED boardVars
  BY <1>3, Same DEF TerminalError, boardVars, BoardInv, Known, BoardWell
<1> QED
  BY <1>1, <1>2, <1>3 DEF BoardNext

LEMMA WellIsCoherent == BoardInv => BoardCoherent
<1> SUFFICES ASSUME BoardInv PROVE BoardCoherent
  OBVIOUS
<1>1. IsInjective(Ids(board))
  BY DEF BoardInv, BoardWell, RowsWell, IsInjective, Ids
<1>2. ASSUME IsOpen(board)
      PROVE  IsRow(board, board.pane.task) /\ Row(board, board.pane.task).who = board.pane.of
  <2>1. PICK i \in DOMAIN board.rows :
          board.rows[i].id = board.pane.task /\ board.rows[i].who = board.pane.of
    BY <1>2 DEF BoardInv, BoardWell, PaneKept, IsOpen
  <2>2. IsRow(board, board.pane.task)
    BY <2>1 DEF IsRow
  <2>3. i = Position(board, board.pane.task)
    BY <2>1, <2>2, RowAt DEF BoardInv
  <2> QED
    BY <2>1, <2>2, <2>3 DEF Row
<1>3. IF board.rows = <<>> THEN board.selected = NoTask ELSE IsRow(board, board.selected)
  BY DEF BoardInv, BoardWell, Selects, HasRow, IsRow
<1> QED
  BY <1>1, <1>2, <1>3 DEF BoardCoherent

LEMMA SoundIsReported ==
  ASSUME Sound(board, board')
  PROVE  /\ PaneGone => (board'.status = "Discarding" <=> board.pane.edited /\ RowStays)
         /\ board'.status = "Discarding" /\ board.status = "Other" => PaneGone
<1>1. PaneGone <=> PaneLost(board, board')
  BY DEF PaneGone, PaneLost, IsOpen
<1>2. RowStays <=> Kept(board, board')
  BY DEF RowStays, Kept, ToSet
<1> QED
  BY <1>1, <1>2 DEF Sound, Reported

(* In whatever order the messages of keys, rows and panes land: the pane   *)
(* is open on the instance it was opened for, one row is selected if there *)
(* is one, and keys are distinct (dashboard_composed.rs, Root.reduce).     *)
THEOREM BoardsCohere == BoardSpec => []BoardCoherent
<1>1. BoardSpec => []BoardInv
  BY BoardStarts, BoardSteps, PTL DEF BoardSpec
<1> QED
  BY <1>1, WellIsCoherent, PTL

(* And a pane that leaves is reported as a loss exactly when it held an    *)
(* edit and its row stays, and no other step makes that report             *)
(* (dashboard_composed.rs, unsaved_notes and its uses).                    *)
THEOREM LossesReported == BoardSpec => LossReported
<1>1. BoardInv /\ [BoardNext]_boardVars =>
        [ /\ PaneGone => (board'.status = "Discarding" <=> board.pane.edited /\ RowStays)
          /\ board'.status = "Discarding" /\ board.status = "Other" => PaneGone ]_boardVars
  BY BoardSteps, SoundIsReported
<1>2. BoardSpec => []BoardInv
  BY BoardStarts, BoardSteps, PTL DEF BoardSpec
<1> QED
  BY <1>1, <1>2, PTL DEF BoardSpec, LossReported
-----------------------------------------------------------------------------
(* The composed dashboard: its hooks and requests.  What bags of them      *)
(* become when a run delivers and a command is dispatched.                 *)
Counted(bag) == \A x \in DOMAIN bag : bag[x] \in Nat \ {0}

LEMMA KeptAre ==
  ASSUME NEW bag, NEW S
  PROVE  Keep(bag, IsKeyed) = SetToBag(S)
           <=> /\ \A x \in S : x \in DOMAIN bag /\ IsKeyed(x) /\ bag[x] = 1
               /\ \A x \in DOMAIN bag : IsKeyed(x) => x \in S
<1> DEFINE T == {x \in DOMAIN bag : IsKeyed(x)}
           k == [x \in T |-> bag[x]]
           s == [x \in S |-> 1]
<1>1. Keep(bag, IsKeyed) = k /\ SetToBag(S) = s
  BY DEF Keep, SetToBag
<1>2. k = s <=> T = S /\ \A x \in S : bag[x] = 1
  <2>1. (DOMAIN k) = T /\ (DOMAIN s) = S /\ (\A x \in T : k[x] = bag[x]) /\ \A x \in S : s[x] = 1
    OBVIOUS
  <2>2. k = s => T = S /\ \A x \in S : bag[x] = 1
    BY <2>1
  <2>3. ASSUME T = S, \A x \in S : bag[x] = 1 PROVE k = s
    BY <2>3
  <2> QED  BY <2>2, <2>3
<1> QED  BY <1>1, <1>2

(* A command's hooks: none, or one that is not armed already.              *)
Arms(c, new) ==
  \/ c.cleanups = <<>> /\ new = {}
  \/ \E h : c.cleanups = <<h>> /\ new = {h}

HooksBecome(S, c, new, all) ==
  /\ \A h \in new : h \in S => Torn(c, h.scope)
  /\ \A h : h \in all <=> (h \in S /\ ~Torn(c, h.scope)) \/ h \in new

LEMMA HooksArmed ==
  ASSUME NEW S, NEW hooks, hooks = SetToBag(S), NEW c, NEW new, Arms(c, new),
         NEW all, HooksBecome(S, c, new, all)
  PROVE  Armed(hooks, c) = SetToBag(all)
<1> DEFINE kept == {h \in S : ~Torn(c, h.scope)}
           old == Keep(hooks, LAMBDA hook : ~Torn(c, hook.scope))
           add == ToBag(c.cleanups)
           one == SetToBag(all)
<1>0. all = kept \cup new
  BY DEF HooksBecome
<1>1. (DOMAIN hooks) = S /\ \A h \in S : hooks[h] = 1
  BY DEF SetToBag
<1>2. (DOMAIN old) = kept /\ \A h \in kept : old[h] = 1
  BY <1>1 DEF Keep
<1>3. (DOMAIN add) = new /\ \A h \in new : add[h] = 1
  <2>1. CASE c.cleanups = <<>> /\ new = {}
    <3>1. (DOMAIN add) = {c.cleanups[i] : i \in DOMAIN c.cleanups}
      BY DEF ToBag, Range
    <3>2. (DOMAIN <<>>) = {}
      OBVIOUS
    <3> QED  BY <2>1, <3>1, <3>2
  <2>2. CASE \E h : c.cleanups = <<h>> /\ new = {h}
    <3>1. PICK h : c.cleanups = <<h>> /\ new = {h}
      BY <2>2
    <3>2. (DOMAIN <<h>>) = {1} /\ <<h>>[1] = h
      OBVIOUS
    <3>3. (DOMAIN add) = {c.cleanups[i] : i \in DOMAIN c.cleanups}
          /\ \A x \in DOMAIN add : add[x] = Cardinality({i \in DOMAIN c.cleanups : c.cleanups[i] = x})
      BY DEF ToBag, Range
    <3> HIDE DEF add
    <3>4. (DOMAIN add) = {h} /\ add[h] = Cardinality({i \in {1} : <<h>>[i] = h})
      BY <3>1, <3>2, <3>3
    <3>5. {i \in {1} : <<h>>[i] = h} = {1}
      BY <3>2
    <3>6. Cardinality({1}) = 1
      BY FS_Singleton
    <3> QED  BY <3>1, <3>4, <3>5, <3>6
  <2> QED  BY <2>1, <2>2 DEF Arms
<1>4. Armed(hooks, c) = old (+) add
  BY DEF Armed
<1>5. (DOMAIN one) = all /\ (\A h \in all : one[h] = 1) /\ one = [h \in all |-> one[h]]
  BY DEF SetToBag
<1>7. \A h \in kept : h \notin new
  BY DEF HooksBecome
<1> HIDE DEF old, add, one, kept
<1>8. old (+) add = [h \in all |-> (IF h \in kept THEN old[h] ELSE 0) + (IF h \in new THEN add[h] ELSE 0)]
  BY <1>0, <1>2, <1>3 DEF (+)
<1>9. \A h \in all : (IF h \in kept THEN old[h] ELSE 0) + (IF h \in new THEN add[h] ELSE 0) = 1
  BY <1>0, <1>2, <1>3, <1>7
<1>10. old (+) add = one
  BY <1>5, <1>8, <1>9
<1> QED  BY <1>4, <1>10 DEF one
(* A delivery takes a request out of flight, and leaves every other run.   *)
Rest(run) == [run EXCEPT !.payload = Tail(@)]

LEMMA RestIs ==
  ASSUME NEW run, Speaking(run)
  PROVE  /\ Rest(run).key = run.key /\ Rest(run).scope = run.scope
         /\ Rest(run).payload = Tail(run.payload) /\ Rest(run).kind = run.kind
<1>1. PICK k, i, o, p : run = Leaf(k, i, o, p)
  BY DEF Speaking, Says
<1> QED  BY <1>1 DEF Rest, Leaf

LEMMA AfterIs ==
  ASSUME NEW bag, Counted(bag), NEW run \in DOMAIN bag, NEW left, left = After(bag, run)
  PROVE  /\ Counted(left)
         /\ \A x \in DOMAIN left : x \in DOMAIN bag \/ (Len(run.payload) # 1 /\ x = Rest(run))
         /\ \A x \in DOMAIN bag : x # run => x \in DOMAIN left
         /\ Len(run.payload) # 1 => Rest(run) \in DOMAIN left
         /\ bag[run] = 1 /\ Len(run.payload) = 1 => run \notin DOMAIN left
         /\ \A x \in DOMAIN bag : x # run /\ (Len(run.payload) # 1 => x # Rest(run)) => left[x] = bag[x]
<1> DEFINE one == SetToBag({run})
           others == bag (-) one
           more == SetToBag({Rest(run)})
<1>1. (DOMAIN one) = {run} /\ one[run] = 1 /\ (DOMAIN more) = {Rest(run)} /\ more[Rest(run)] = 1
  BY DEF SetToBag
<1> DEFINE B == [e \in DOMAIN bag |-> IF e = run THEN bag[e] - 1 ELSE bag[e]]
           D == {d \in DOMAIN bag : B[d] > 0}
<1>2. others = [e \in D |-> B[e]]
  BY <1>1 DEF (-)
<1>3. /\ \A e \in DOMAIN bag : e # run => B[e] = bag[e] /\ bag[e] \in Nat \ {0}
      /\ B[run] = bag[run] - 1 /\ bag[run] \in Nat \ {0}
  BY DEF Counted
<1> HIDE DEF B, others, one, more
<1>4. /\ (DOMAIN others) \subseteq DOMAIN bag
      /\ \A e \in DOMAIN others : others[e] \in Nat \ {0}
      /\ \A e \in DOMAIN bag : e # run => e \in DOMAIN others /\ others[e] = bag[e]
      /\ bag[run] = 1 => run \notin DOMAIN others
  BY <1>2, <1>3
<1>5. CASE Len(run.payload) = 1
  <2>1. left = others
    BY <1>5 DEF After, others, one
  <2> QED  BY <1>4, <1>5, <2>1 DEF Counted
<1>6. CASE Len(run.payload) # 1
  <2>1. left = others (+) more
    BY <1>6 DEF After, others, one, more, Rest
  <2> DEFINE E == (DOMAIN others) \cup {Rest(run)}
  <2>2. left = [e \in E |-> (IF e \in DOMAIN others THEN others[e] ELSE 0) + (IF e = Rest(run) THEN 1 ELSE 0)]
    BY <1>1, <2>1 DEF (+)
  <2>3. \A e \in E : left[e] = (IF e \in DOMAIN others THEN others[e] ELSE 0)
                              + (IF e = Rest(run) THEN 1 ELSE 0)
    BY <2>2
  <2>4. (DOMAIN left) = E
    BY <2>2
  <2>5. Counted(left)
    BY <1>4, <2>3, <2>4 DEF Counted
  <2>6. \A x \in DOMAIN bag : x # run /\ x # Rest(run) => left[x] = bag[x]
    BY <1>3, <1>4, <2>3, <2>4
  <2> QED  BY <1>4, <1>6, <2>4, <2>5, <2>6
<1> QED  BY <1>5, <1>6

Without(S, run, T) == \A x : x \in T <=> x \in S /\ x # run

LEMMA RequestsAfter ==
  ASSUME NEW bag, Counted(bag), NEW S, Keep(bag, IsKeyed) = SetToBag(S),
         NEW run \in DOMAIN bag, Speaking(run), IsKeyed(run) => Len(run.payload) = 1,
         NEW T, Without(S, run, T)
  PROVE  Keep(After(bag, run), IsKeyed) = SetToBag(T)
<1> DEFINE left == After(bag, run)
<1>1. /\ \A x \in S : x \in DOMAIN bag /\ IsKeyed(x) /\ bag[x] = 1
      /\ \A x \in DOMAIN bag : IsKeyed(x) => x \in S
  BY KeptAre
<1>2. /\ \A x \in DOMAIN left : x \in DOMAIN bag \/ (Len(run.payload) # 1 /\ x = Rest(run))
      /\ \A x \in DOMAIN bag : x # run => x \in DOMAIN left
      /\ bag[run] = 1 /\ Len(run.payload) = 1 => run \notin DOMAIN left
      /\ \A x \in DOMAIN bag : x # run /\ (Len(run.payload) # 1 => x # Rest(run)) => left[x] = bag[x]
  BY AfterIs
<1>3. IsKeyed(Rest(run)) <=> IsKeyed(run)
  BY RestIs DEF IsKeyed
<1> HIDE DEF left
<1>4. \A x \in T : x \in DOMAIN left /\ IsKeyed(x) /\ left[x] = 1
  BY <1>1, <1>2, <1>3 DEF Without
<1>5. \A x \in DOMAIN left : IsKeyed(x) => x \in T
  BY <1>1, <1>2, <1>3 DEF Without
<1>6. Keep(left, IsKeyed) = SetToBag(T)
  BY <1>4, <1>5, KeptAre
<1> QED  BY <1>6 DEF left
(* What a command starts: nothing, or its one effect.                      *)
Starts(c, new) ==
  \/ new = {} /\ \A i \in DOMAIN c.leaves : c.leaves[i].kind # "Effect"
  \/ \E leaf : c.leaves = <<leaf>> /\ leaf.kind = "Effect" /\ new = {leaf}

Stays(c, new, run) == ~Torn(c, run.scope) /\ \A leaf \in new : ~SameSlot(run, leaf)

LEMMA DispatchedIs ==
  ASSUME NEW bag, Counted(bag), NEW c, c.cancels = <<>>, NEW new, Starts(c, new),
         NEW out, out = Dispatched(bag, c)
  PROVE  /\ Counted(out)
         /\ \A x : x \in DOMAIN out <=> (x \in DOMAIN bag /\ Stays(c, new, x)) \/ x \in new
         /\ \A x \in DOMAIN bag : Stays(c, new, x) /\ x \notin new => out[x] = bag[x]
         /\ \A x \in new : IsKeyed(x) => out[x] = 1
<1> DEFINE S == Started(c)
           kept == Keep(bag, LAMBDA run : /\ ~Cancelled(c, run)
                                          /\ ~Torn(c, run.scope)
                                          /\ \A i \in S : ~SameSlot(run, c.leaves[i]))
           spawned == [leaf \in {c.leaves[i] : i \in S} |-> Cardinality({i \in S : c.leaves[i] = leaf})]
<1>1. out = kept (+) spawned
  BY DEF Dispatched
<1>2. {c.leaves[i] : i \in S} = new /\ \A x \in new : spawned[x] = 1
  <2>1. CASE new = {} /\ \A i \in DOMAIN c.leaves : c.leaves[i].kind # "Effect"
    <3>1. S = {}
      BY <2>1 DEF Started
    <3> HIDE DEF S
    <3> QED  BY <2>1, <3>1
  <2>2. CASE \E leaf : c.leaves = <<leaf>> /\ leaf.kind = "Effect" /\ new = {leaf}
    <3>1. PICK leaf : c.leaves = <<leaf>> /\ leaf.kind = "Effect" /\ new = {leaf}
      BY <2>2
    <3>2. (DOMAIN c.leaves) = {1} /\ c.leaves[1] = leaf
      <4>1. (DOMAIN <<leaf>>) = {1} /\ <<leaf>>[1] = leaf
        OBVIOUS
      <4> QED  BY <3>1, <4>1
    <3>3. S = {1}
      <4>1. {i \in DOMAIN c.leaves : c.leaves[i].kind = "Effect"} = {1}
        BY <3>1, <3>2
      <4> QED  BY <4>1 DEF Started
    <3> HIDE DEF S
    <3>4. {i \in S : c.leaves[i] = leaf} = {1} /\ {c.leaves[i] : i \in S} = {leaf}
      BY <3>2, <3>3
    <3>5. Cardinality({1}) = 1
      BY FS_Singleton
    <3> QED  BY <3>1, <3>4, <3>5
  <2> QED  BY <2>1, <2>2 DEF Starts
<1>3. /\ (DOMAIN kept) = {x \in DOMAIN bag : Stays(c, new, x)}
      /\ \A x \in DOMAIN kept : kept[x] = bag[x]
  <2>1. \A x : ~Cancelled(c, x)
    <3>1. (DOMAIN <<>>) = {}
      OBVIOUS
    <3> QED  BY <3>1 DEF Cancelled
  <2>2. \A x : (\A i \in S : ~SameSlot(x, c.leaves[i])) <=> \A leaf \in new : ~SameSlot(x, leaf)
    <3> HIDE DEF S
    <3> QED  BY <1>2
  <2> HIDE DEF S
  <2> QED  BY <2>1, <2>2 DEF Keep, Stays
<1>4. (DOMAIN spawned) = new
  <2> HIDE DEF S
  <2> QED  BY <1>2
<1> HIDE DEF S, kept, spawned
<1>5. \A x \in new : IsKeyed(x) => x \notin DOMAIN kept
  BY <1>3 DEF Stays, SameSlot, IsKeyed
<1> DEFINE E == (DOMAIN kept) \cup new
<1>6. out = [e \in E |-> (IF e \in DOMAIN kept THEN kept[e] ELSE 0) + (IF e \in new THEN spawned[e] ELSE 0)]
  BY <1>1, <1>4 DEF (+)
<1>7. /\ (DOMAIN out) = E
      /\ \A e \in E : out[e] = (IF e \in DOMAIN kept THEN kept[e] ELSE 0)
                               + (IF e \in new THEN 1 ELSE 0)
  BY <1>2, <1>6
<1>8. \A x \in DOMAIN kept : kept[x] \in Nat \ {0}
  BY <1>3 DEF Counted
<1>9. Counted(out)
  BY <1>7, <1>8 DEF Counted
<1>10. \A x : x \in DOMAIN out <=> (x \in DOMAIN bag /\ Stays(c, new, x)) \/ x \in new
  BY <1>3, <1>7
<1>11. \A x \in DOMAIN bag : Stays(c, new, x) /\ x \notin new => out[x] = bag[x]
  BY <1>3, <1>7, <1>8
<1>12. \A x \in new : IsKeyed(x) => out[x] = 1
  BY <1>5, <1>7
<1> QED  BY <1>9, <1>10, <1>11, <1>12

RequestsBecome(S, c, new, T) ==
  \A x : x \in T <=> (x \in S /\ Stays(c, new, x)) \/ (x \in new /\ IsKeyed(x))

LEMMA RequestsDispatched ==
  ASSUME NEW bag, Counted(bag), NEW S, Keep(bag, IsKeyed) = SetToBag(S),
         NEW c, c.cancels = <<>>, NEW new, Starts(c, new),
         NEW T, RequestsBecome(S, c, new, T)
  PROVE  Keep(Dispatched(bag, c), IsKeyed) = SetToBag(T)
<1> DEFINE out == Dispatched(bag, c)
<1>1. /\ \A x \in S : x \in DOMAIN bag /\ IsKeyed(x) /\ bag[x] = 1
      /\ \A x \in DOMAIN bag : IsKeyed(x) => x \in S
  BY KeptAre
<1>2. /\ \A x : x \in DOMAIN out <=> (x \in DOMAIN bag /\ Stays(c, new, x)) \/ x \in new
      /\ \A x \in DOMAIN bag : Stays(c, new, x) /\ x \notin new => out[x] = bag[x]
      /\ \A x \in new : IsKeyed(x) => out[x] = 1
  BY DispatchedIs
<1> HIDE DEF out
<1>3. \A x \in T : x \in DOMAIN out /\ IsKeyed(x) /\ out[x] = 1
  BY <1>1, <1>2 DEF RequestsBecome
<1>4. \A x \in DOMAIN out : IsKeyed(x) => x \in T
  BY <1>1, <1>2 DEF RequestsBecome
<1>5. Keep(out, IsKeyed) = SetToBag(T)
  BY <1>3, <1>4, KeptAre
<1> QED  BY <1>5 DEF out
-----------------------------------------------------------------------------
(* The composed dashboard: places.                                         *)
IsPlace(p) ==
  /\ p = Place(p.segment, p.who)
  /\ p.segment = DetailsSegment \/ \E id : p.segment = Segment(id)

LEMMA SegmentsDiffer ==
  ASSUME NEW id
  PROVE  Segment(id) # DetailsSegment /\ Segment(id)[2] = id
BY DEF Segment, DetailsSegment

LEMMA RequestIs ==
  ASSUME NEW p
  PROVE  /\ RequestOf(p).scope = <<p.segment>> /\ RequestOf(p).payload = <<AnswerTo(p)>>
         /\ RequestOf(p).key = [scope |-> <<p.segment>>, name |-> "sync"]
         /\ RequestOf(p).kind = "Effect"
         /\ IsKeyed(RequestOf(p))
<1>1. IdScoped(p.segment, SYNC) = [scope |-> <<p.segment>>, name |-> "sync"]
  <2>1. SYNC = [scope |-> <<>>, name |-> "sync"]
    BY DEF SYNC, NewId, Empty
  <2>2. <<p.segment>> \o <<>> = <<p.segment>>
    OBVIOUS
  <2> QED  BY <2>1, <2>2 DEF IdScoped, Prefixed
<1>2. [scope |-> <<p.segment>>, name |-> "sync"] # NoKey
  BY DEF NoKey
<1>3. RequestOf(p).key = IdScoped(p.segment, SYNC)
  BY DEF RequestOf
<1>4. IsKeyed(RequestOf(p))
  BY <1>1, <1>2, <1>3 DEF IsKeyed
<1> QED  BY <1>1, <1>3, <1>4 DEF RequestOf

LEMMA AnswerIs ==
  ASSUME NEW p
  PROVE  /\ AnswerTo(p).who = p.who /\ AnswerTo(p).name \in {"Synced", "Loaded"}
         /\ AnswerTo(p).name = "Loaded" <=> p.segment = DetailsSegment
         /\ p.segment # DetailsSegment => AnswerTo(p).id = p.segment[2]
BY DEF AnswerTo

LEMMA SamePlace ==
  ASSUME NEW p, NEW q, IsPlace(p), IsPlace(q)
  PROVE  /\ HookOf(p) = HookOf(q) => p = q
         /\ RequestOf(p) = RequestOf(q) => p = q
         /\ AnswerTo(p) = AnswerTo(q) => p = q
<1>1. p.segment = q.segment /\ p.who = q.who => p = q
  BY DEF IsPlace
<1>2. <<p.segment>> = <<q.segment>> => p.segment = q.segment
  <2>1. <<p.segment>>[1] = p.segment /\ <<q.segment>>[1] = q.segment
    OBVIOUS
  <2> QED  BY <2>1
<1>3. AnswerTo(p) = AnswerTo(q) => p.segment = q.segment /\ p.who = q.who
  BY AnswerIs, SegmentsDiffer DEF IsPlace
<1>4. HookOf(p) = HookOf(q) => p.segment = q.segment /\ p.who = q.who
  BY <1>2 DEF HookOf
<1>5. RequestOf(p) = RequestOf(q) => AnswerTo(p) = AnswerTo(q)
  <2>1. <<AnswerTo(p)>>[1] = AnswerTo(p) /\ <<AnswerTo(q)>>[1] = AnswerTo(q)
    OBVIOUS
  <2> QED  BY <2>1, RequestIs
<1> QED  BY <1>1, <1>3, <1>4, <1>5

LEMMA SlotOfRequests ==
  ASSUME NEW p, NEW q
  PROVE  SameSlot(RequestOf(p), RequestOf(q)) <=> p.segment = q.segment
<1>1. <<p.segment>>[1] = p.segment /\ <<q.segment>>[1] = q.segment
  OBVIOUS
<1>2. RequestOf(p).key = [scope |-> <<p.segment>>, name |-> "sync"]
      /\ RequestOf(q).key = [scope |-> <<q.segment>>, name |-> "sync"]
      /\ RequestOf(p).key # NoKey
  BY RequestIs DEF IsKeyed
<1>3. RequestOf(p).key = RequestOf(q).key <=> p.segment = q.segment
  <2>1. ASSUME RequestOf(p).key = RequestOf(q).key PROVE p.segment = q.segment
    <3>1. RequestOf(p).key.scope = <<p.segment>> /\ RequestOf(q).key.scope = <<q.segment>>
      BY <1>2
    <3> QED  BY <1>1, <2>1, <3>1
  <2> QED  BY <1>2, <2>1
<1> QED  BY <1>2, <1>3 DEF SameSlot

(* A teardown at a segment covers what is there, and nothing unscoped.     *)
TearsDown(c, T) ==
  \E removed : /\ c.teardowns = [i \in DOMAIN removed |-> <<removed[i]>>]
               /\ T = {removed[i] : i \in DOMAIN removed}

LEMMA OneUnderOne ==
  ASSUME NEW x, NEW y
  PROVE  /\ Under(<<x>>, <<y>>) <=> x = y
         /\ ~Under(Empty, <<y>>)
<1>1. Len(<<x>>) = 1 /\ Len(<<y>>) = 1 /\ Len(<<>>) = 0
  OBVIOUS
<1>2. ASSUME NEW z PROVE SubSeq(<<z>>, 1, 1) = <<z>>
  <2> DEFINE s == SubSeq(<<z>>, 1, 1)
  <2>1. \A i \in 1..1 : <<z>>[i] \in {z}
    OBVIOUS
  <2>2. s \in Seq({z}) /\ Len(s) = 1 /\ s[1] = z
    BY <2>1, SubSeqProperties
  <2> HIDE DEF s
  <2>3. s = <<z>>
    BY <2>2
  <2> QED  BY <2>3 DEF s
<1>3. <<x>> = <<y>> <=> x = y
  <2>1. <<x>>[1] = x /\ <<y>>[1] = y
    OBVIOUS
  <2> QED  BY <2>1
<1> QED  BY <1>1, <1>2, <1>3 DEF Under, IsPrefix, Empty

LEMMA TornAt ==
  ASSUME NEW c, NEW T, TearsDown(c, T)
  PROVE  /\ \A x : Torn(c, <<x>>) <=> x \in T
         /\ ~Torn(c, Empty)
<1>1. PICK removed : /\ c.teardowns = [i \in DOMAIN removed |-> <<removed[i]>>]
                     /\ T = {removed[i] : i \in DOMAIN removed}
  BY DEF TearsDown
<1>2. (DOMAIN c.teardowns) = (DOMAIN removed) /\ \A i \in DOMAIN removed : c.teardowns[i] = <<removed[i]>>
  BY <1>1
<1>3. ASSUME NEW x PROVE Torn(c, <<x>>) <=> x \in T
  <2>1. Torn(c, <<x>>) <=> \E i \in DOMAIN removed : Under(<<x>>, <<removed[i]>>)
    BY <1>2 DEF Torn
  <2>2. \A i \in DOMAIN removed : Under(<<x>>, <<removed[i]>>) <=> x = removed[i]
    BY OneUnderOne
  <2> QED  BY <1>1, <2>1, <2>2
<1>4. ~Torn(c, Empty)
  <2>1. \A i \in DOMAIN removed : ~Under(Empty, <<removed[i]>>)
    BY OneUnderOne
  <2> QED  BY <1>2, <2>1 DEF Torn
<1> QED  BY <1>3, <1>4
(* Everything that is held, for a board.                                   *)
Hooks(b) == {HookOf(p) : p \in Ready(b)}

Requests(b) == {RequestOf(p) : p \in Busy(b)}

Quiet(payload) == \A i \in DOMAIN payload : payload[i].name \notin {"Synced", "Loaded"}

Sets(run, p) == run.key = NoKey /\ run.scope = Empty /\ Coming(run, p)

Accounted(b, bag, hooks) ==
  /\ hooks = SetToBag(Hooks(b))
  /\ Keep(bag, IsKeyed) = SetToBag(Requests(b))
  /\ Counted(bag)
  /\ \A run \in DOMAIN bag : ~IsKeyed(run) => Quiet(run.payload)
  /\ \A p \in Bare(b) : \E run \in DOMAIN bag : Sets(run, p)
  /\ IsOpen(b) => b.pane.opened \/ b.pane.loading

(* What a message does to the places of a board: those at the segments T   *)
(* go, D are set up, Q ask, the place that m answers no longer waits, and  *)
(* N are new.                                                              *)
Outcome(b, m, d, T, D, Q, N) ==
  /\ \A p : p \in Ready(d) <=> (p \in Ready(b) /\ p.segment \notin T) \/ p \in D
  /\ \A p \in D : p \in Ready(b) => p.segment \in T
  /\ \A p : p \in Busy(d) <=> \/ /\ p \in Busy(b) /\ AnswerTo(p) # m /\ p.segment \notin T
                                 /\ \A q \in Q : q.segment # p.segment
                              \/ p \in Q
  /\ \A p \in Bare(d) : (p \in Bare(b) /\ ~SetsUp(m, p)) \/ p \in N
  /\ IsOpen(d) => d.pane.opened \/ d.pane.loading

(* And the command that does it.                                           *)
Asks(c, Q, N) ==
  \/ Starts(c, {}) /\ Q = {} /\ N = {}
  \/ \E p : Starts(c, {RequestOf(p)}) /\ Q = {p} /\ N = {}
  \/ \E leaf : /\ Starts(c, {leaf}) /\ leaf.key = NoKey /\ Quiet(leaf.payload) /\ Q = {}
               /\ \A p \in N : Sets(leaf, p)

Hooked(c, D) ==
  \/ c.cleanups = <<>> /\ D = {}
  \/ \E p : c.cleanups = <<HookOf(p)>> /\ D = {p}

Ordered(c, T, D, Q, N) == c.cancels = <<>> /\ TearsDown(c, T) /\ Hooked(c, D) /\ Asks(c, Q, N)

Settles(b, m, d, c) ==
  \E T, D, Q, N : Outcome(b, m, d, T, D, Q, N) /\ Ordered(c, T, D, Q, N)

LEMMA PlacesAre ==
  ASSUME NEW b, NEW p, p \in Ready(b) \/ p \in Busy(b) \/ p \in Bare(b)
  PROVE  IsPlace(p)
<1>1. \A segment, who : LET q == Place(segment, who) IN q = Place(q.segment, q.who) /\ q.segment = segment
  BY DEF Place
<1>2. (\E row : p = RowPlace(row)) \/ p = PanePlace(b)
  BY DEF Ready, Busy, Bare
<1> QED  BY <1>1, <1>2 DEF RowPlace, PanePlace, IsPlace

LEMMA HooksLand ==
  ASSUME NEW b, NEW m, NEW d, NEW T, NEW D, NEW Q, NEW N, Outcome(b, m, d, T, D, Q, N),
         NEW c, TearsDown(c, T), Hooked(c, D), NEW hooks, hooks = SetToBag(Hooks(b))
  PROVE  Armed(hooks, c) = SetToBag(Hooks(d))
<1> DEFINE new == {HookOf(p) : p \in D}
<1>1. Arms(c, new)
  BY DEF Hooked, Arms
<1>2. \A p : HookOf(p).scope = <<p.segment>>
  BY DEF HookOf
<1>3. \A p : Torn(c, HookOf(p).scope) <=> p.segment \in T
  BY <1>2, TornAt
<1>4. \A p \in D : IsPlace(p)
  BY PlacesAre DEF Outcome
<1>5. \A h \in new : h \in Hooks(b) => Torn(c, h.scope)
  <2> SUFFICES ASSUME NEW p \in D, NEW q \in Ready(b), HookOf(p) = HookOf(q)
               PROVE  Torn(c, HookOf(p).scope)
    BY DEF Hooks
  <2>1. p = q
    BY <1>4, PlacesAre, SamePlace
  <2> QED  BY <1>3, <2>1 DEF Outcome
<1> DEFINE S == Hooks(b)
           all == Hooks(d)
<1>6. \A h : h \in all <=> (h \in S /\ ~Torn(c, h.scope)) \/ h \in new
  <2>1. ASSUME NEW h, (h \in S /\ ~Torn(c, h.scope)) \/ h \in new PROVE h \in all
    <3>1. CASE h \in new
      BY <3>1 DEF Outcome, Hooks
    <3>2. CASE h \notin new
      <4>1. PICK p \in Ready(b) : h = HookOf(p) /\ ~Torn(c, h.scope)
        BY <2>1, <3>2 DEF Hooks
      <4>2. p \in Ready(d)
        BY <1>3, <4>1 DEF Outcome
      <4> QED  BY <4>1, <4>2 DEF Hooks
    <3> QED  BY <3>1, <3>2
  <2>2. ASSUME NEW p \in Ready(d)
        PROVE  (HookOf(p) \in S /\ ~Torn(c, HookOf(p).scope)) \/ HookOf(p) \in new
    <3>1. CASE p \in D
      BY <3>1
    <3>2. CASE p \notin D
      <4>1. p \in Ready(b) /\ p.segment \notin T
        BY <3>2 DEF Outcome
      <4> QED  BY <1>3, <4>1 DEF Hooks
    <3> QED  BY <3>1, <3>2
  <2>3. all = {HookOf(p) : p \in Ready(d)}
    BY DEF Hooks
  <2> HIDE DEF all, new, S
  <2> QED  BY <2>1, <2>2, <2>3
<1>7. hooks = SetToBag(S) /\ HooksBecome(S, c, new, all)
  BY <1>5, <1>6 DEF HooksBecome
<1> HIDE DEF new, S, all
<1>8. Armed(hooks, c) = SetToBag(all)
  BY ONLY <1>1, <1>7, HooksArmed
<1> QED  BY <1>8 DEF all
(* What a command starts, in terms of places.                              *)
AskedFor(c, new, T, Q) ==
  /\ Starts(c, new)
  /\ \A p : Stays(c, new, RequestOf(p)) <=> p.segment \notin T /\ \A q \in Q : q.segment # p.segment
  /\ \A x : (x \in new /\ IsKeyed(x)) <=> \E q \in Q : x = RequestOf(q)
  /\ \A x \in new : ~IsKeyed(x) => Quiet(x.payload)
  /\ \A x : x.scope = Empty /\ x.key = NoKey => Stays(c, new, x)

LEMMA AskedForIs ==
  ASSUME NEW c, NEW T, NEW Q, NEW N, TearsDown(c, T), Asks(c, Q, N)
  PROVE  \E new : AskedFor(c, new, T, Q) /\ \A p \in N : \E x \in new : Sets(x, p)
<1>1. \A p : Torn(c, RequestOf(p).scope) <=> p.segment \in T
  BY RequestIs, TornAt
<1>2. \A x : x.scope = Empty => ~Torn(c, x.scope)
  BY TornAt
<1>3. CASE Starts(c, {}) /\ Q = {} /\ N = {}
  <2> DEFINE new == {}
  <2>1. AskedFor(c, new, T, Q)
    BY <1>1, <1>2, <1>3 DEF AskedFor, Stays
  <2> QED  BY <1>3, <2>1
<1>4. ASSUME NEW r, Starts(c, {RequestOf(r)}), Q = {r}, N = {}
      PROVE  \E new : AskedFor(c, new, T, Q) /\ \A p \in N : \E x \in new : Sets(x, p)
  <2> DEFINE new == {RequestOf(r)}
  <2>1. \A p : Stays(c, new, RequestOf(p)) <=> p.segment \notin T /\ r.segment # p.segment
    BY <1>1, SlotOfRequests DEF Stays
  <2>2. IsKeyed(RequestOf(r))
    BY RequestIs
  <2>3. \A x : x.scope = Empty /\ x.key = NoKey => Stays(c, new, x)
    BY <1>2 DEF Stays, SameSlot
  <2>4. AskedFor(c, new, T, Q)
    BY <1>4, <2>1, <2>2, <2>3 DEF AskedFor
  <2> QED  BY <1>4, <2>4
<1>5. ASSUME NEW leaf, Starts(c, {leaf}), leaf.key = NoKey, Quiet(leaf.payload), Q = {},
             \A p \in N : Sets(leaf, p)
      PROVE  \E new : AskedFor(c, new, T, Q) /\ \A p \in N : \E x \in new : Sets(x, p)
  <2> DEFINE new == {leaf}
  <2>1. \A x : ~SameSlot(x, leaf)
    BY <1>5 DEF SameSlot
  <2>2. \A p : Stays(c, new, RequestOf(p)) <=> p.segment \notin T
    BY <1>1, <2>1 DEF Stays
  <2>3. \A x : x.scope = Empty /\ x.key = NoKey => Stays(c, new, x)
    BY <1>2, <2>1 DEF Stays
  <2>4. AskedFor(c, new, T, Q)
    BY <1>5, <2>2, <2>3 DEF AskedFor, IsKeyed
  <2> QED  BY <1>5, <2>4
<1> QED  BY <1>3, <1>4, <1>5 DEF Asks

(* The run that a message comes from.                                      *)
Source(b, bag, run, m) ==
  /\ run \in DOMAIN bag /\ Speaking(run) /\ m = run.payload[1]
  /\ Counted(bag) /\ Keep(bag, IsKeyed) = SetToBag(Requests(b))
  /\ \A x \in DOMAIN bag : ~IsKeyed(x) => Quiet(x.payload)

LEMMA SourceIs ==
  ASSUME NEW b, NEW bag, NEW run, NEW m, Source(b, bag, run, m)
  PROVE  /\ 1 \in DOMAIN run.payload
         /\ IsKeyed(run) => \E p \in Busy(b) : run = RequestOf(p) /\ m = AnswerTo(p)
         /\ IsKeyed(run) => Len(run.payload) = 1
         /\ \A p \in Busy(b) : RequestOf(p) = run <=> AnswerTo(p) = m
<1>1. 1 \in DOMAIN run.payload
  BY DEF Source, Speaking, Says
<1>2. IsKeyed(run) => run \in Requests(b)
  BY KeptAre DEF Source
<1>3. \A p : <<AnswerTo(p)>>[1] = AnswerTo(p) /\ Len(<<AnswerTo(p)>>) = 1
  OBVIOUS
<1>4. ASSUME NEW p, RequestOf(p) = run PROVE AnswerTo(p) = m /\ Len(run.payload) = 1
  <2>1. run.payload = <<AnswerTo(p)>>
    BY <1>4, RequestIs
  <2> QED  BY <1>3, <2>1 DEF Source
<1>5. IsKeyed(run) => \E p \in Busy(b) : run = RequestOf(p) /\ m = AnswerTo(p)
  BY <1>2, <1>4 DEF Requests
<1>6. ASSUME NEW p \in Busy(b), AnswerTo(p) = m PROVE RequestOf(p) = run
  <2>1. m.name \in {"Synced", "Loaded"}
    BY <1>6, AnswerIs
  <2>2. IsKeyed(run)
    BY <1>1, <2>1 DEF Source, Quiet
  <2>3. PICK q \in Busy(b) : run = RequestOf(q) /\ m = AnswerTo(q)
    BY <1>5, <2>2
  <2> QED  BY <1>6, <2>3, PlacesAre, SamePlace
<1> QED  BY <1>1, <1>2, <1>4, <1>5, <1>6 DEF Requests

LEMMA RequestsLand ==
  ASSUME NEW b, NEW m, NEW d, NEW T, NEW D, NEW Q, NEW N, Outcome(b, m, d, T, D, Q, N),
         NEW bag, NEW run, Source(b, bag, run, m),
         NEW c, c.cancels = <<>>, NEW new, AskedFor(c, new, T, Q)
  PROVE  Keep(Dispatched(After(bag, run), c), IsKeyed) = SetToBag(Requests(d))
<1> DEFINE S == Requests(b)
           left == After(bag, run)
           S1 == {x \in S : x # run}
           all == Requests(d)
<1>1. Keep(left, IsKeyed) = SetToBag(S1)
  <2>1. Without(S, run, S1)
    BY DEF Without
  <2>2. /\ Counted(bag) /\ Keep(bag, IsKeyed) = SetToBag(S) /\ run \in DOMAIN bag /\ Speaking(run)
        /\ IsKeyed(run) => Len(run.payload) = 1
    BY SourceIs DEF Source
  <2> HIDE DEF S, S1, left
  <2>3. Keep(After(bag, run), IsKeyed) = SetToBag(S1)
    BY ONLY <2>1, <2>2, RequestsAfter
  <2> QED  BY <2>3 DEF left
<1>2. Counted(left)
  BY AfterIs DEF Source
<1>3. RequestsBecome(S1, c, new, all)
  <2>1. /\ \A p : Stays(c, new, RequestOf(p)) <=> p.segment \notin T /\ \A q \in Q : q.segment # p.segment
        /\ \A x : (x \in new /\ IsKeyed(x)) <=> \E q \in Q : x = RequestOf(q)
    BY DEF AskedFor
  <2>2. \A p : p \in Busy(d) <=> \/ /\ p \in Busy(b) /\ AnswerTo(p) # m /\ p.segment \notin T
                                    /\ \A q \in Q : q.segment # p.segment
                                 \/ p \in Q
    BY DEF Outcome
  <2>3. \A p \in Busy(b) : RequestOf(p) = run <=> AnswerTo(p) = m
    BY SourceIs
  <2>4. S = {RequestOf(p) : p \in Busy(b)} /\ all = {RequestOf(p) : p \in Busy(d)}
    BY DEF Requests
  <2> HIDE DEF S, all
  <2>5. ASSUME NEW x, x \in all PROVE (x \in S1 /\ Stays(c, new, x)) \/ (x \in new /\ IsKeyed(x))
    <3>1. PICK p \in Busy(d) : x = RequestOf(p)
      BY <2>4, <2>5
    <3>2. CASE p \in Q
      BY <2>1, <3>1, <3>2
    <3>3. CASE p \notin Q
      <4>1. p \in Busy(b) /\ AnswerTo(p) # m /\ p.segment \notin T /\ \A q \in Q : q.segment # p.segment
        BY <2>2, <3>3
      <4> QED  BY <2>1, <2>3, <2>4, <3>1, <4>1
    <3> QED  BY <3>2, <3>3
  <2>6. ASSUME NEW x, x \in S1, Stays(c, new, x) PROVE x \in all
    <3>1. PICK p \in Busy(b) : x = RequestOf(p) /\ x # run
      BY <2>4, <2>6
    <3>2. p \in Busy(d)
      BY <2>1, <2>2, <2>3, <2>6, <3>1
    <3> QED  BY <2>4, <3>1, <3>2
  <2>7. ASSUME NEW x, x \in new, IsKeyed(x) PROVE x \in all
    <3>1. PICK q \in Q : x = RequestOf(q)
      BY <2>1, <2>7
    <3>2. q \in Busy(d)
      BY <2>2
    <3> QED  BY <2>4, <3>1, <3>2
  <2> HIDE DEF S1
  <2> QED  BY <2>5, <2>6, <2>7 DEF RequestsBecome
<1>4. Starts(c, new)
  BY DEF AskedFor
<1> HIDE DEF S1, left, all, S
<1>5. Keep(Dispatched(left, c), IsKeyed) = SetToBag(all)
  BY ONLY <1>1, <1>2, <1>3, <1>4, c.cancels = <<>>, RequestsDispatched
<1> QED  BY <1>5 DEF left, all

LEMMA RestOfRun ==
  ASSUME NEW run, Speaking(run)
  PROVE  /\ Quiet(run.payload) => Quiet(Tail(run.payload))
         /\ \A p : Sets(run, p) /\ ~SetsUp(run.payload[1], p) => Len(run.payload) # 1 /\ Sets(Rest(run), p)
<1> DEFINE s == run.payload
           t == Tail(s)
<1>1. s \in Seq(Message) /\ Len(s) \in Nat \ {0} /\ (DOMAIN s) = 1..Len(s)
  <2>1. s \in Seq(Message) /\ s # <<>>
    BY DEF Speaking, Says
  <2> HIDE DEF s
  <2> QED  BY <2>1
<1>2. (DOMAIN t) = 1..(Len(s) - 1) /\ \A i \in 1..(Len(s) - 1) : t[i] = s[i + 1]
  <2> HIDE DEF s
  <2> QED  BY <1>1
<1>3. Rest(run).key = run.key /\ Rest(run).scope = run.scope /\ Rest(run).payload = t
  BY RestIs
<1> HIDE DEF s, t
<1>4. Quiet(s) => Quiet(t)
  BY <1>1, <1>2 DEF Quiet
<1>5. ASSUME NEW p, Sets(run, p), ~SetsUp(s[1], p) PROVE Len(s) # 1 /\ Sets(Rest(run), p)
  <2>1. PICK i \in DOMAIN s : SetsUp(s[i], p)
    BY <1>5 DEF Sets, Coming, s
  <2>2. i # 1 /\ i - 1 \in DOMAIN t /\ t[i - 1] = s[i] /\ Len(s) # 1
    <3>1. i # 1
      BY <1>5, <2>1
    <3> QED  BY <1>1, <1>2, <3>1
  <2>3. Coming(Rest(run), p)
    BY <1>3, <2>1, <2>2 DEF Coming
  <2> QED  BY <1>3, <1>5, <2>2, <2>3 DEF Sets
<1> QED  BY <1>4, <1>5 DEF s, t

LEMMA QuietLands ==
  ASSUME NEW bag, Counted(bag), \A x \in DOMAIN bag : ~IsKeyed(x) => Quiet(x.payload),
         NEW run \in DOMAIN bag, Speaking(run),
         NEW c, c.cancels = <<>>, NEW new, NEW T, NEW Q, AskedFor(c, new, T, Q),
         NEW out, out = Dispatched(After(bag, run), c)
  PROVE  /\ Counted(out)
         /\ \A x \in DOMAIN out : ~IsKeyed(x) => Quiet(x.payload)
<1> DEFINE left == After(bag, run)
<1>1. Counted(left) /\ \A x \in DOMAIN left : x \in DOMAIN bag \/ x = Rest(run)
  BY AfterIs
<1>2. Starts(c, new) /\ \A x \in new : ~IsKeyed(x) => Quiet(x.payload)
  BY DEF AskedFor
<1>3. /\ Counted(out)
      /\ \A x : x \in DOMAIN out <=> (x \in DOMAIN left /\ Stays(c, new, x)) \/ x \in new
  <2> HIDE DEF left
  <2>1. out = Dispatched(left, c)
    BY DEF left
  <2> QED  BY ONLY <1>1, <1>2, <2>1, c.cancels = <<>>, DispatchedIs
<1>4. ~IsKeyed(Rest(run)) => Quiet(Rest(run).payload)
  BY RestIs, RestOfRun DEF IsKeyed
<1> HIDE DEF left
<1> QED  BY <1>1, <1>2, <1>3, <1>4

LEMMA SetupsLand ==
  ASSUME NEW b, NEW m, NEW d, NEW T, NEW D, NEW Q, NEW N, Outcome(b, m, d, T, D, Q, N),
         NEW bag, Counted(bag), \A p \in Bare(b) : \E x \in DOMAIN bag : Sets(x, p),
         NEW run \in DOMAIN bag, Speaking(run), m = run.payload[1],
         NEW c, c.cancels = <<>>, NEW new, AskedFor(c, new, T, Q),
         \A p \in N : \E x \in new : Sets(x, p),
         NEW out, out = Dispatched(After(bag, run), c)
  PROVE  \A p \in Bare(d) : \E x \in DOMAIN out : Sets(x, p)
<1> DEFINE left == After(bag, run)
<1>1. /\ Counted(left)
      /\ \A x \in DOMAIN bag : x # run => x \in DOMAIN left
      /\ Len(run.payload) # 1 => Rest(run) \in DOMAIN left
  BY AfterIs
<1>2. Starts(c, new) /\ \A x : x.scope = Empty /\ x.key = NoKey => Stays(c, new, x)
  BY DEF AskedFor
<1>3. \A x : x \in DOMAIN out <=> (x \in DOMAIN left /\ Stays(c, new, x)) \/ x \in new
  <2> HIDE DEF left
  <2>1. out = Dispatched(left, c)
    BY DEF left
  <2> QED  BY ONLY <1>1, <1>2, <2>1, c.cancels = <<>>, DispatchedIs
<1> HIDE DEF left
<1>4. ASSUME NEW p, p \in Bare(b), ~SetsUp(m, p) PROVE \E x \in DOMAIN out : Sets(x, p)
  <2>1. PICK x \in DOMAIN bag : Sets(x, p)
    BY <1>4
  <2>2. CASE x # run
    BY <1>1, <1>2, <1>3, <2>1, <2>2 DEF Sets
  <2>3. CASE x = run
    <3>1. Len(run.payload) # 1 /\ Sets(Rest(run), p)
      BY <1>4, <2>1, <2>3, RestOfRun
    <3> QED  BY <1>1, <1>2, <1>3, <3>1 DEF Sets
  <2> QED  BY <2>2, <2>3
<1>5. ASSUME NEW p \in N PROVE \E x \in DOMAIN out : Sets(x, p)
  BY <1>3
<1>6. \A p \in Bare(d) : (p \in Bare(b) /\ ~SetsUp(m, p)) \/ p \in N
  BY DEF Outcome
<1> QED  BY <1>4, <1>5, <1>6

LEMMA Landing ==
  ASSUME NEW b, NEW bag, NEW hooks, Accounted(b, bag, hooks), NEW run \in DOMAIN bag, Speaking(run),
         NEW m, m = run.payload[1], NEW d, NEW c, Settles(b, m, d, c)
  PROVE  Accounted(d, Dispatched(After(bag, run), c), Armed(hooks, c))
<1> DEFINE out == Dispatched(After(bag, run), c)
<1>1. PICK T, D, Q, N : Outcome(b, m, d, T, D, Q, N) /\ Ordered(c, T, D, Q, N)
  BY DEF Settles
<1>2. c.cancels = <<>> /\ TearsDown(c, T) /\ Hooked(c, D) /\ Asks(c, Q, N)
  BY <1>1 DEF Ordered
<1>3. PICK new : AskedFor(c, new, T, Q) /\ \A p \in N : \E x \in new : Sets(x, p)
  BY <1>2, AskedForIs
<1>4. /\ hooks = SetToBag(Hooks(b)) /\ Counted(bag) /\ Keep(bag, IsKeyed) = SetToBag(Requests(b))
      /\ \A x \in DOMAIN bag : ~IsKeyed(x) => Quiet(x.payload)
      /\ \A p \in Bare(b) : \E x \in DOMAIN bag : Sets(x, p)
  BY DEF Accounted
<1>5. Source(b, bag, run, m)
  BY <1>4 DEF Source
<1>6. Armed(hooks, c) = SetToBag(Hooks(d))
  BY ONLY <1>1, <1>2, <1>4, HooksLand
<1>7. Keep(out, IsKeyed) = SetToBag(Requests(d))
  BY ONLY <1>1, <1>2, <1>3, <1>5, RequestsLand
<1>8. out = Dispatched(After(bag, run), c)
  OBVIOUS
<1> HIDE DEF out
<1>9. /\ Counted(out)
      /\ \A x \in DOMAIN out : ~IsKeyed(x) => Quiet(x.payload)
  BY ONLY <1>2, <1>3, <1>4, <1>8, run \in DOMAIN bag, Speaking(run), QuietLands
<1>10. \A p \in Bare(d) : \E x \in DOMAIN out : Sets(x, p)
  BY ONLY <1>1, <1>2, <1>3, <1>4, <1>8, run \in DOMAIN bag, Speaking(run), m = run.payload[1], SetupsLand
<1>11. IsOpen(d) => d.pane.opened \/ d.pane.loading
  BY <1>1 DEF Outcome
<1> QED  BY <1>6, <1>7, <1>8, <1>9, <1>10, <1>11 DEF Accounted
-----------------------------------------------------------------------------
(* The composed dashboard: its commands, exactly.                          *)
Shaped(c, hooks, leaves) == \E redraw : c = Command(redraw, <<>>, <<>>, hooks, leaves)

LEMMA ShapedIs ==
  ASSUME NEW c, NEW hooks, NEW leaves, Shaped(c, hooks, leaves)
  PROVE  c.cancels = <<>> /\ c.teardowns = <<>> /\ c.cleanups = hooks /\ c.leaves = leaves
BY DEF Shaped, Command

LEMMA NoneShaped == Shaped(None, <<>>, <<>>)
BY NoneIs DEF Shaped

LEMMA LeafShaped ==
  ASSUME NEW leaf, NEW c, c = [None EXCEPT !.leaves = <<leaf>>]
  PROVE  Shaped(c, <<>>, <<leaf>>)
<1> DEFINE leaves == <<leaf>>
<1>1. c = [None EXCEPT !.leaves = leaves]
  OBVIOUS
<1> HIDE DEF leaves
<1>2. c = Command(None.redraw, <<>>, <<>>, <<>>, leaves)
  BY <1>1, NoneIs, Releaved
<1> QED  BY <1>2 DEF Shaped, leaves

LEMMA DeliverShaped ==
  ASSUME NEW m
  PROVE  Shaped(Deliver(m), <<>>, <<Leaf("Effect", NoKey, Empty, <<m>>)>>)
BY EffectIs, LeafShaped DEF Deliver

LEMMA QuitShaped == Shaped(ImmediateQuit, <<>>, <<Leaf("ImmediateQuit", NoKey, Empty, <<>>)>>)
<1> DEFINE e == EffectCommand(<<>>)
           x == Leaf("Effect", NoKey, Empty, <<>>)
           y == Leaf("ImmediateQuit", NoKey, Empty, <<>>)
           d == ImmediateQuit
<1>1. e = [None EXCEPT !.leaves = <<x>>]
  BY EffectIs
<1>2. e.leaves[1] = x
  BY <1>1 DEF None
<1>3. [x EXCEPT !.kind = "ImmediateQuit"] = y
  BY DEF Leaf
<1>4. d = [e EXCEPT !.leaves[1] = [e.leaves[1] EXCEPT !.kind = "ImmediateQuit"]]
  BY DEF ImmediateQuit
<1> HIDE DEF e, x, y, d
<1>5. d = [e EXCEPT !.leaves[1] = y]
  BY <1>2, <1>3, <1>4
<1>6. d = [None EXCEPT !.leaves = <<y>>]
  BY ONLY <1>1, <1>5, Relabelled
<1>7. Shaped(d, <<>>, <<y>>)
  BY ONLY <1>6, LeafShaped
<1> QED  BY <1>7 DEF d, y

LEMMA RequestShaped ==
  ASSUME NEW name, NEW who
  PROVE  Shaped(Request(name, who), <<>>, <<Leaf("Effect", SYNC, Empty, <<Inner(name, who)>>)>>)
<1> DEFINE payload == <<Inner(name, who)>>
           e == EffectCommand(payload)
           x == Leaf("Effect", NoKey, Empty, payload)
           y == Leaf("Effect", SYNC, Empty, payload)
           d == Request(name, who)
<1> HIDE DEF payload
<1>1. e = [None EXCEPT !.leaves = <<x>>]
  BY EffectIs
<1>2. e.leaves[1] = x
  BY <1>1 DEF None
<1>3. [x EXCEPT !.key = SYNC] = y
  BY DEF Leaf
<1>4. d = [e EXCEPT !.leaves[1] = [e.leaves[1] EXCEPT !.key = SYNC]]
  BY DEF Request, Cancellable, Deliver, payload
<1> HIDE DEF d, e, x, y
<1>5. d = [e EXCEPT !.leaves[1] = y]
  BY <1>2, <1>3, <1>4
<1>6. d = [None EXCEPT !.leaves = <<y>>]
  BY ONLY <1>1, <1>5, Relabelled
<1>7. Shaped(d, <<>>, <<y>>)
  BY ONLY <1>6, LeafShaped
<1> QED  BY <1>7 DEF d, y, payload

LEMMA SetupShaped ==
  ASSUME NEW c, NEW leaf, Shaped(c, <<>>, <<leaf>>), NEW who
  PROVE  Shaped(Batch(<<OnTeardown(who), c>>), <<[scope |-> Empty, payload |-> who]>>, <<leaf>>)
<1> DEFINE o == OnTeardown(who)
           q == <<o, c>>
           d == Batch(q)
           hook == [scope |-> Empty, payload |-> who]
           Two(a, b) == FlattenSeq(<<a, b>>)
<1>1. o.leaves = <<>> /\ o.cleanups = <<hook>> /\ o.cancels = <<>> /\ o.teardowns = <<>>
  BY DEF OnTeardown, None
<1>2. c.cleanups = <<>> /\ c.leaves = <<leaf>> /\ c.cancels = <<>> /\ c.teardowns = <<>>
  BY ShapedIs
<1>3. q # <<>> /\ (DOMAIN q) = 1..2 /\ q[1] = o /\ q[2] = c
  OBVIOUS
<1>4. /\ [i \in DOMAIN q |-> q[i].cancels] = <<o.cancels, c.cancels>>
      /\ [i \in DOMAIN q |-> q[i].teardowns] = <<o.teardowns, c.teardowns>>
      /\ [i \in DOMAIN q |-> q[i].cleanups] = <<o.cleanups, c.cleanups>>
      /\ [i \in DOMAIN q |-> q[i].leaves] = <<o.leaves, c.leaves>>
  <2> HIDE DEF o
  <2> QED  OBVIOUS
<1> DEFINE redraw == \E i \in DOMAIN q : q[i].redraw
<1>5. d = Command(redraw, Two(o.cancels, c.cancels), Two(o.teardowns, c.teardowns),
                  Two(o.cleanups, c.cleanups), Two(o.leaves, c.leaves))
  <2> HIDE DEF o, q
  <2> QED  BY <1>3, <1>4 DEF Batch, Command
<1> HIDE DEF d, redraw, q, o, hook
<1>6. /\ Two(o.cancels, c.cancels) = <<>> /\ Two(o.teardowns, c.teardowns) = <<>>
      /\ Two(o.cleanups, c.cleanups) = <<hook>> /\ Two(o.leaves, c.leaves) = <<leaf>>
  <2>1. <<>> \o <<>> = <<>> /\ <<hook>> \o <<>> = <<hook>> /\ <<>> \o <<leaf>> = <<leaf>>
    OBVIOUS
  <2> QED  BY <1>1, <1>2, <2>1, FlattenTwo
<1>7. d = Command(redraw, <<>>, <<>>, <<hook>>, <<leaf>>)
  BY <1>5, <1>6
<1> QED  BY <1>7 DEF Shaped, d, q, o, hook

(* What a boundary makes of a child's command.                             *)
LEMMA WrappedShaped ==
  ASSUME NEW c, NEW hooks, NEW key, NEW inner,
         Shaped(c, hooks, <<Leaf("Effect", key, Empty, <<inner>>)>>), NEW id
  PROVE  Shaped(Wrapped(c, id), hooks,
                <<Leaf("Effect", key, Empty, <<[name |-> inner.name, id |-> id, who |-> inner.who]>>)>>)
<1> DEFINE Wrap(payload) ==
             [i \in DOMAIN payload |->
                [name |-> payload[i].name, id |-> id, who |-> payload[i].who]]
           f == [payload \in Payloads(c) |-> Wrap(payload)]
           leaves == [i \in DOMAIN c.leaves |-> LeafMapped(c.leaves[i], f)]
           payload == <<inner>>
           outer == <<[name |-> inner.name, id |-> id, who |-> inner.who]>>
           x == Leaf("Effect", key, Empty, payload)
           y == Leaf("Effect", key, Empty, outer)
           d == Wrapped(c, id)
<1>1. d = [c EXCEPT !.leaves = leaves]
  <2>1. d = Map(c, f)
    BY DEF Wrapped
  <2> HIDE DEF f
  <2> QED  BY <2>1 DEF Map
<1>2. Wrap(payload) = outer
  OBVIOUS
<1>3. c.leaves = <<x>> /\ (DOMAIN c.leaves) = {1} /\ c.leaves[1] = x
  <2>1. c.leaves = <<x>>
    BY ShapedIs
  <2>2. (DOMAIN <<x>>) = {1} /\ <<x>>[1] = x
    OBVIOUS
  <2> HIDE DEF x
  <2> QED  BY <2>1, <2>2
<1>4. x.payload = payload
  BY DEF Leaf
<1>5. payload \in Payloads(c)
  <2> HIDE DEF x, payload
  <2> QED  BY <1>3, <1>4 DEF Payloads
<1>6. f[payload] = outer
  <2> HIDE DEF payload, outer
  <2> QED  BY <1>2, <1>5
<1>7. LeafMapped(x, f) = [x EXCEPT !.payload = outer]
  <2> HIDE DEF payload, outer, f, x
  <2> QED  BY <1>4, <1>6 DEF LeafMapped
<1>8. [x EXCEPT !.payload = outer] = y
  BY DEF Leaf
<1>9. leaves = <<y>>
  <2> HIDE DEF f, x, y, outer
  <2>1. leaves = [i \in {1} |-> y]
    BY <1>3, <1>7, <1>8
  <2> HIDE DEF leaves
  <2> QED  BY <2>1
<1> HIDE DEF x, d, leaves
<1>10. Shaped(d, hooks, leaves)
  <2>1. PICK redraw : c = Command(redraw, <<>>, <<>>, hooks, <<x>>)
    BY DEF Shaped, x
  <2>2. d = Command(redraw, <<>>, <<>>, hooks, leaves)
    BY <1>1, <2>1, Releaved
  <2> QED  BY <2>2 DEF Shaped
<1> QED  BY <1>9, <1>10 DEF d

ScopedHooks(hooks, segment) == [i \in DOMAIN hooks |-> CleanupScoped(segment, hooks[i])]

LEMMA ScopedShaped ==
  ASSUME NEW c, NEW hooks, NEW leaves, Shaped(c, hooks, leaves), NEW segment
  PROVE  Shaped(Scoped(c, segment), ScopedHooks(hooks, segment),
                [i \in DOMAIN leaves |-> LeafScoped(segment, leaves[i])])
<1> DEFINE d == Scoped(c, segment)
           dl == [i \in DOMAIN leaves |-> LeafScoped(segment, leaves[i])]
           dh == ScopedHooks(hooks, segment)
<1>1. PICK redraw : c = Command(redraw, <<>>, <<>>, hooks, leaves)
  BY DEF Shaped
<1>2. c.cancels = <<>> /\ c.teardowns = <<>> /\ c.cleanups = hooks /\ c.leaves = leaves
  BY ShapedIs
<1>3. [i \in DOMAIN <<>> |-> IdScoped(segment, <<>>[i])] = <<>>
      /\ [i \in DOMAIN <<>> |-> Prefixed(segment, <<>>[i])] = <<>>
  OBVIOUS
<1>4. d = [c EXCEPT !.cancels = <<>>, !.teardowns = <<>>, !.cleanups = dh, !.leaves = dl]
  <2>1. d = [c EXCEPT !.cancels   = [i \in DOMAIN c.cancels |-> IdScoped(segment, c.cancels[i])],
                  !.teardowns = [i \in DOMAIN c.teardowns |-> Prefixed(segment, c.teardowns[i])],
                  !.cleanups  = [i \in DOMAIN c.cleanups |-> CleanupScoped(segment, c.cleanups[i])],
                  !.leaves    = [i \in DOMAIN c.leaves |-> LeafScoped(segment, c.leaves[i])]]
    BY DEF Scoped
  <2> QED  BY <1>2, <1>3, <2>1 DEF ScopedHooks
<1> HIDE DEF d, dl, dh
<1>5. d = Command(redraw, <<>>, <<>>, dh, dl)
  BY <1>1, <1>4 DEF Command
<1> QED  BY <1>5 DEF Shaped, d, dl, dh

LEMMA OneHook ==
  ASSUME NEW who, NEW segment
  PROVE  ScopedHooks(<<[scope |-> Empty, payload |-> who]>>, segment) = <<HookOf(Place(segment, who))>>
<1> DEFINE h == [scope |-> Empty, payload |-> who]
<1>1. CleanupScoped(segment, h) = HookOf(Place(segment, who))
  <2>1. <<segment>> \o <<>> = <<segment>>
    OBVIOUS
  <2> QED  BY <2>1 DEF CleanupScoped, Prefixed, Empty, HookOf, Place
<1> HIDE DEF h
<1>2. ScopedHooks(<<h>>, segment) = <<CleanupScoped(segment, h)>>
  BY DEF ScopedHooks
<1> QED  BY <1>1, <1>2 DEF h

LEMMA NoHook == ASSUME NEW segment PROVE ScopedHooks(<<>>, segment) = <<>>
BY DEF ScopedHooks

LEMMA OneLeafScoped ==
  ASSUME NEW key, NEW payload, NEW segment
  PROVE  LET x == Leaf("Effect", key, Empty, payload)
         IN  [i \in DOMAIN <<x>> |-> LeafScoped(segment, <<x>>[i])]
               = <<Leaf("Effect", IF key = NoKey THEN NoKey ELSE IdScoped(segment, key), <<segment>>,
                        payload)>>
<1> DEFINE x == Leaf("Effect", key, Empty, payload)
           k == IF key = NoKey THEN NoKey ELSE IdScoped(segment, key)
<1>1. <<segment>> \o <<>> = <<segment>>
  OBVIOUS
<1>2. x.key = key /\ x.scope = <<>>
  BY DEF Leaf, Empty
<1>3. LeafScoped(segment, x) = [x EXCEPT !.scope = <<segment>>, !.key = k]
  <2> HIDE DEF x
  <2> QED  BY <1>1, <1>2 DEF LeafScoped, Prefixed
<1>4. LeafScoped(segment, x) = Leaf("Effect", k, <<segment>>, payload)
  <2> HIDE DEF k
  <2> QED  BY <1>3 DEF Leaf
<1> HIDE DEF x, k
<1>5. [i \in DOMAIN <<x>> |-> LeafScoped(segment, <<x>>[i])] = <<LeafScoped(segment, x)>>
  OBVIOUS
<1> QED  BY <1>4, <1>5 DEF x, k

LEMMA ChildSilent ==
  ASSUME NEW id, NEW segment
  PROVE  Shaped(Qualified(Wrapped(None, id), segment), <<>>, <<>>)
<1> DEFINE f == [payload \in Payloads(None) |->
             [i \in DOMAIN payload |->
                [name |-> payload[i].name, id |-> id, who |-> payload[i].who]]]
           d == Wrapped(None, id)
<1>1. d = Map(None, f)
  BY DEF Wrapped
<1> HIDE DEF f, d
<1>2. None.leaves = <<>>
  BY DEF None
<1>3. [i \in DOMAIN <<>> |-> LeafMapped(<<>>[i], f)] = <<>>
  OBVIOUS
<1>4. d = [None EXCEPT !.leaves = [i \in DOMAIN None.leaves |-> LeafMapped(None.leaves[i], f)]]
  BY <1>1 DEF Map
<1>5. d = [None EXCEPT !.leaves = <<>>]
  BY <1>2, <1>3, <1>4
<1>6. Shaped(d, <<>>, <<>>)
  BY <1>5, NoneIs, Releaved DEF Shaped
<1>7. [i \in DOMAIN <<>> |-> LeafScoped(segment, <<>>[i])] = <<>>
  OBVIOUS
<1>8. Shaped(Scoped(d, segment), ScopedHooks(<<>>, segment),
             [i \in DOMAIN <<>> |-> LeafScoped(segment, <<>>[i])])
  BY ONLY <1>6, ScopedShaped
<1>9. Shaped(Scoped(d, segment), <<>>, <<>>)
  BY <1>7, <1>8, NoHook
<1> QED  BY <1>9 DEF Qualified, d

LEMMA ChildSays ==
  ASSUME NEW c, NEW hooks, NEW key, NEW name, NEW who,
         Shaped(c, hooks, <<Leaf("Effect", key, Empty, <<Inner(name, who)>>)>>), NEW id, NEW segment
  PROVE  Shaped(Qualified(Wrapped(c, id), segment), ScopedHooks(hooks, segment),
                <<Leaf("Effect", IF key = NoKey THEN NoKey ELSE IdScoped(segment, key), <<segment>>,
                       <<[name |-> name, id |-> id, who |-> who]>>)>>)
<1> DEFINE inner == Inner(name, who)
           payload == <<[name |-> inner.name, id |-> id, who |-> inner.who]>>
           x == Leaf("Effect", key, Empty, payload)
           d == Wrapped(c, id)
           y == Leaf("Effect", IF key = NoKey THEN NoKey ELSE IdScoped(segment, key), <<segment>>, payload)
<1>1. Shaped(d, hooks, <<x>>)
  <2> HIDE DEF inner
  <2>1. Shaped(c, hooks, <<Leaf("Effect", key, Empty, <<inner>>)>>)
    BY DEF inner
  <2> QED  BY <2>1, WrappedShaped
<1>2. [i \in DOMAIN <<x>> |-> LeafScoped(segment, <<x>>[i])] = <<y>>
  <2> HIDE DEF payload
  <2> QED  BY OneLeafScoped
<1>3. payload = <<[name |-> name, id |-> id, who |-> who]>>
  BY DEF Inner
<1> DEFINE z == Scoped(d, segment)
<1>4. z = Qualified(Wrapped(c, id), segment)
  BY DEF Qualified
<1> HIDE DEF x, d
<1> DEFINE leaves == <<x>>
           scoped == [i \in DOMAIN leaves |-> LeafScoped(segment, leaves[i])]
<1>5. Shaped(d, hooks, leaves)
  BY <1>1
<1>6. scoped = <<y>>
  BY <1>2
<1> HIDE DEF leaves, y
<1>7. Shaped(Scoped(d, segment), ScopedHooks(hooks, segment), scoped)
  BY ONLY <1>5, ScopedShaped
<1>8. Shaped(z, ScopedHooks(hooks, segment), <<y>>)
  BY <1>6, <1>7
<1> HIDE DEF z
<1> QED  BY <1>3, <1>4, <1>8 DEF y

(* A child's request is the request of its place.                          *)
LEMMA ChildRequests ==
  ASSUME NEW c, NEW hooks, NEW name, NEW who,
         Shaped(c, hooks, <<Leaf("Effect", SYNC, Empty, <<Inner(name, who)>>)>>), NEW id, NEW segment,
         AnswerTo(Place(segment, who)) = [name |-> name, id |-> id, who |-> who]
  PROVE  Shaped(Qualified(Wrapped(c, id), segment), ScopedHooks(hooks, segment),
                <<RequestOf(Place(segment, who))>>)
<1> DEFINE p == Place(segment, who)
           payload == <<AnswerTo(p)>>
           y == Leaf("Effect", IdScoped(segment, SYNC), <<segment>>, payload)
           z == Qualified(Wrapped(c, id), segment)
<1>1. SYNC # NoKey
  <2>1. "sync" # "NoKey"
    OBVIOUS
  <2> QED  BY <2>1 DEF SYNC, NewId, NoKey
<1>2. p.segment = segment
  BY DEF Place
<1>3. RequestOf(p) = y
  <2> HIDE DEF p
  <2> QED  BY <1>2 DEF RequestOf, Leaf
<1>4. Shaped(z, ScopedHooks(hooks, segment),
                <<Leaf("Effect", IF SYNC = NoKey THEN NoKey ELSE IdScoped(segment, SYNC), <<segment>>,
                       <<[name |-> name, id |-> id, who |-> who]>>)>>)
  BY ChildSays
<1>5. payload = <<[name |-> name, id |-> id, who |-> who]>>
  OBVIOUS
<1> HIDE DEF z, payload, p
<1>6. Shaped(z, ScopedHooks(hooks, segment), <<y>>)
  BY <1>1, <1>4, <1>5
<1> QED  BY <1>3, <1>6 DEF z, p

(* What was removed, in order.                                             *)
Removes(removed, T) ==
  /\ T = {removed[i] : i \in DOMAIN removed}
  /\ \E n \in Nat : (DOMAIN removed) = 1..n /\ removed = [i \in 1..n |-> removed[i]]

(* A result's command with the teardowns that its removals owe.            *)
Lands(b, m, r) ==
  \E T, D, Q, N, hooks, leaves :
    /\ Outcome(b, m, r.board, T, D, Q, N)
    /\ Shaped(r.command, hooks, leaves)
    /\ Hooked(r.command, D)
    /\ Asks(r.command, Q, N)
    /\ Removes(r.removed, T)

LEMMA LandsSettles ==
  ASSUME NEW b, NEW m, NEW r, Lands(b, m, r)
  PROVE  Settles(b, m, Owed(r).board, Owed(r).command)
<1> DEFINE e == Owed(r).command
           removed == r.removed
           c == r.command
           tears == [i \in DOMAIN removed |-> <<removed[i]>>]
<1>1. PICK T, D, Q, N, hooks, leaves :
        /\ Outcome(b, m, r.board, T, D, Q, N)
        /\ Shaped(c, hooks, leaves)
        /\ Hooked(c, D)
        /\ Asks(c, Q, N)
        /\ T = {removed[i] : i \in DOMAIN removed}
        /\ \E n \in Nat : (DOMAIN removed) = 1..n /\ removed = [i \in 1..n |-> removed[i]]
  BY DEF Lands, Removes
<1>2. Owed(r).board = r.board /\ e = MergingTeardowns(c, Teardowns(removed))
  BY DEF Owed
<1>3. Teardowns(removed).teardowns = tears
  <2>1. \A x : Prefixed(x, Empty) = <<x>>
    <3>1. \A x : <<x>> \o <<>> = <<x>>
      OBVIOUS
    <3> QED  BY <3>1 DEF Prefixed, Empty
  <2>2. Teardowns(removed).teardowns = [i \in DOMAIN removed |-> Prefixed(removed[i], Empty)]
    BY DEF Teardowns, None
  <2> QED  BY <2>1, <2>2
<1>4. <<>> \o tears = tears
  <2>1. PICK n \in Nat : (DOMAIN removed) = 1..n
    BY <1>1
  <2>2. tears = [i \in 1..n |-> <<removed[i]>>]
    BY <2>1
  <2> DEFINE S == {<<removed[i]>> : i \in 1..n}
  <2>3. tears \in Seq(S)
    BY <2>2
  <2> HIDE DEF tears, S
  <2> QED  BY <2>3
<1> HIDE DEF tears, removed, c, e
<1>5. PICK redraw : c = Command(redraw, <<>>, <<>>, hooks, leaves)
  BY <1>1 DEF Shaped
<1>6. c.teardowns = <<>>
  BY <1>1, ShapedIs
<1>7. e = [c EXCEPT !.teardowns = tears]
  BY <1>2, <1>3, <1>4, <1>6 DEF MergingTeardowns
<1>8. e = Command(redraw, <<>>, tears, hooks, leaves)
  BY <1>5, <1>7 DEF Command
<1>9. e.cancels = <<>> /\ e.teardowns = tears /\ e.cleanups = hooks /\ e.leaves = leaves
  BY <1>8 DEF Command
<1>10. c.cleanups = hooks /\ c.leaves = leaves
  BY <1>1, ShapedIs
<1>11. Hooked(e, D) /\ Asks(e, Q, N)
  BY <1>1, <1>9, <1>10 DEF Hooked, Asks, Starts
<1>12. TearsDown(e, T)
  BY <1>1, <1>9 DEF TearsDown, tears
<1>13. Ordered(e, T, D, Q, N)
  BY <1>9, <1>11, <1>12 DEF Ordered
<1>14. Settles(b, m, r.board, e)
  BY <1>1, <1>13 DEF Settles
<1> QED  BY <1>2, <1>14 DEF e
-----------------------------------------------------------------------------
(* The composed dashboard: what a step leaves where it was.                *)
HoldsRow(rows, p, x) == p = RowPlace(x) /\ \E i \in DOMAIN rows : rows[i] = x

LEMMA PlacesOf ==
  ASSUME NEW b, NEW p
  PROVE  /\ p \in Ready(b) <=> (\E x : HoldsRow(b.rows, p, x) /\ x.watched)
                                 \/ (IsOpen(b) /\ b.pane.opened /\ p = PanePlace(b))
         /\ p \in Bare(b) <=> (\E x : HoldsRow(b.rows, p, x) /\ ~x.watched)
                                 \/ (IsOpen(b) /\ ~b.pane.opened /\ p = PanePlace(b))
         /\ p \in Busy(b) <=> (\E x : HoldsRow(b.rows, p, x) /\ x.syncing)
                                 \/ (IsOpen(b) /\ b.pane.opened /\ b.pane.loading /\ p = PanePlace(b))
<1>1. \A x : x \in ToSet(b.rows) <=> \E i \in DOMAIN b.rows : b.rows[i] = x
  BY DEF ToSet
<1>2. p \in Ready(b) <=> (\E x : HoldsRow(b.rows, p, x) /\ x.watched)
                           \/ (IsOpen(b) /\ b.pane.opened /\ p = PanePlace(b))
  BY <1>1, Zenon DEF Ready, HoldsRow
<1>3. p \in Bare(b) <=> (\E x : HoldsRow(b.rows, p, x) /\ ~x.watched)
                           \/ (IsOpen(b) /\ ~b.pane.opened /\ p = PanePlace(b))
  BY <1>1, Zenon DEF Bare, HoldsRow
<1>4. p \in Busy(b) <=> (\E x : HoldsRow(b.rows, p, x) /\ x.syncing)
                           \/ (IsOpen(b) /\ b.pane.opened /\ b.pane.loading /\ p = PanePlace(b))
  BY <1>1, Zenon DEF Busy, HoldsRow
<1> QED  BY <1>2, <1>3, <1>4

AlikeAt(b, d, p) ==
  /\ p \in Ready(b) <=> p \in Ready(d)
  /\ p \in Bare(b) <=> p \in Bare(d)
  /\ p \in Busy(b) <=> p \in Busy(d)

Elsewhere(b, d, S) == \A p : p.segment \notin S => AlikeAt(b, d, p)

Vacant(b, s) == \A p : p.segment = s => p \notin Ready(b) /\ p \notin Bare(b) /\ p \notin Busy(b)

(* The rows, and the pane.                                                 *)
Changes(rows, new, s, now) ==
  \A p, x : HoldsRow(new, p, x) <=> (p.segment # s /\ HoldsRow(rows, p, x)) \/ (x \in now /\ p = RowPlace(x))

SameRows(b, d) == \A p, x : HoldsRow(b.rows, p, x) <=> HoldsRow(d.rows, p, x)

PaneAlike(b, d) ==
  /\ IsOpen(b) <=> IsOpen(d)
  /\ IsOpen(b) => /\ PanePlace(b) = PanePlace(d)
                  /\ b.pane.opened <=> d.pane.opened
                  /\ b.pane.loading <=> d.pane.loading

LEMMA SegmentOf ==
  ASSUME NEW x, NEW b
  PROVE  RowPlace(x).segment = Segment(x.id) /\ RowPlace(x).who = x.who
         /\ PanePlace(b).segment = DetailsSegment /\ PanePlace(b).who = b.pane.who
BY DEF RowPlace, PanePlace, Place

LEMMA Alike ==
  ASSUME NEW b, NEW d, SameRows(b, d), PaneAlike(b, d)
  PROVE  Elsewhere(b, d, {})
<1> SUFFICES ASSUME NEW p PROVE AlikeAt(b, d, p)
  BY DEF Elsewhere
<1>1. \A x : HoldsRow(b.rows, p, x) <=> HoldsRow(d.rows, p, x)
  BY DEF SameRows
<1>2. \A x : HoldsRow(b.rows, p, x) <=> HoldsRow(d.rows, p, x)
  BY DEF SameRows
<1>3. p \in Ready(b) <=> p \in Ready(d)
  BY <1>1, PlacesOf, Zenon DEF PaneAlike
<1>4. p \in Bare(b) <=> p \in Bare(d)
  BY <1>1, PlacesOf, Zenon DEF PaneAlike
<1>5. p \in Busy(b) <=> p \in Busy(d)
  BY <1>1, PlacesOf, Zenon DEF PaneAlike
<1> QED  BY <1>3, <1>4, <1>5 DEF AlikeAt

LEMMA RowsElsewhere ==
  ASSUME NEW b, NEW d, NEW s, NEW now, Changes(b.rows, d.rows, s, now), \A x \in now : Segment(x.id) = s
  PROVE  /\ PaneAlike(b, d) => Elsewhere(b, d, {s})
         /\ Elsewhere(b, d, {s, DetailsSegment})
<1>1. ASSUME NEW p, p.segment # s PROVE \A x : HoldsRow(b.rows, p, x) <=> HoldsRow(d.rows, p, x)
  BY <1>1, SegmentOf DEF Changes
<1>2. ASSUME NEW p, p.segment # s, p.segment # DetailsSegment PROVE AlikeAt(b, d, p)
  <2>1. p # PanePlace(b) /\ p # PanePlace(d)
    BY <1>2, SegmentOf
  <2>2. \A x : HoldsRow(b.rows, p, x) <=> HoldsRow(d.rows, p, x)
    BY <1>1, <1>2
  <2>3. p \in Ready(b) <=> p \in Ready(d)
    BY <2>1, <2>2, PlacesOf, Zenon
  <2>4. p \in Bare(b) <=> p \in Bare(d)
    BY <2>1, <2>2, PlacesOf, Zenon
  <2>5. p \in Busy(b) <=> p \in Busy(d)
    BY <2>1, <2>2, PlacesOf, Zenon
  <2> QED  BY <2>3, <2>4, <2>5 DEF AlikeAt
<1>3. ASSUME PaneAlike(b, d), NEW p, p.segment # s PROVE AlikeAt(b, d, p)
  <2>2. \A x : HoldsRow(b.rows, p, x) <=> HoldsRow(d.rows, p, x)
    BY <1>1, <1>3
  <2>3. p \in Ready(b) <=> p \in Ready(d)
    BY <1>3, <2>2, PlacesOf, Zenon DEF PaneAlike
  <2>4. p \in Bare(b) <=> p \in Bare(d)
    BY <1>3, <2>2, PlacesOf, Zenon DEF PaneAlike
  <2>5. p \in Busy(b) <=> p \in Busy(d)
    BY <1>3, <2>2, PlacesOf, Zenon DEF PaneAlike
  <2> QED  BY <2>3, <2>4, <2>5 DEF AlikeAt
<1>4. PaneAlike(b, d) => Elsewhere(b, d, {s})
  BY <1>3 DEF Elsewhere
<1>5. Elsewhere(b, d, {s, DetailsSegment})
  BY <1>2 DEF Elsewhere
<1> QED  BY <1>4, <1>5

LEMMA PaneElsewhere ==
  ASSUME NEW b, NEW d, SameRows(b, d)
  PROVE  Elsewhere(b, d, {DetailsSegment})
<1> SUFFICES ASSUME NEW p, p.segment # DetailsSegment PROVE AlikeAt(b, d, p)
  BY DEF Elsewhere
<1>1. p # PanePlace(b) /\ p # PanePlace(d)
  BY SegmentOf
<1>2. \A x : HoldsRow(b.rows, p, x) <=> HoldsRow(d.rows, p, x)
  BY DEF SameRows
<1>3. p \in Ready(b) <=> p \in Ready(d)
  BY <1>1, <1>2, PlacesOf, Zenon
<1>4. p \in Bare(b) <=> p \in Bare(d)
  BY <1>1, <1>2, PlacesOf, Zenon
<1>5. p \in Busy(b) <=> p \in Busy(d)
  BY <1>1, <1>2, PlacesOf, Zenon
<1> QED  BY <1>3, <1>4, <1>5 DEF AlikeAt

(* What is at a row's segment, and at the pane's.                          *)
SoleRow(b, s, x0) == \A p, x : p.segment = s => (HoldsRow(b.rows, p, x) <=> x = x0 /\ p = RowPlace(x0))

NoRow(b, s) == \A p, x : p.segment = s => ~HoldsRow(b.rows, p, x)

Sole(b, p0) ==
  \A p : p.segment = p0.segment /\ p # p0 => p \notin Ready(b) /\ p \notin Bare(b) /\ p \notin Busy(b)

LEMMA SoleRowIs ==
  ASSUME NEW b, NEW s, s # DetailsSegment, NEW x0, SoleRow(b, s, x0), Segment(x0.id) = s
  PROVE  /\ Sole(b, RowPlace(x0))
         /\ RowPlace(x0) \in Ready(b) <=> x0.watched
         /\ RowPlace(x0) \in Bare(b) <=> ~x0.watched
         /\ RowPlace(x0) \in Busy(b) <=> x0.syncing
<1> DEFINE p0 == RowPlace(x0)
<1>1. p0.segment = s
  BY SegmentOf
<1>2. ASSUME NEW p, p.segment = s
      PROVE  /\ p # PanePlace(b)
             /\ \A x : HoldsRow(b.rows, p, x) <=> x = x0 /\ p = p0
  BY <1>2, SegmentOf DEF SoleRow
<1> HIDE DEF p0
<1>3. ASSUME NEW p, p.segment = s
      PROVE  /\ p \in Ready(b) <=> p = p0 /\ x0.watched
             /\ p \in Bare(b) <=> p = p0 /\ ~x0.watched
             /\ p \in Busy(b) <=> p = p0 /\ x0.syncing
  <2>1. p # PanePlace(b) /\ \A x : HoldsRow(b.rows, p, x) <=> x = x0 /\ p = p0
    BY <1>2, <1>3
  <2>2. /\ (\E x : HoldsRow(b.rows, p, x) /\ x.watched) <=> p = p0 /\ x0.watched
        /\ (\E x : HoldsRow(b.rows, p, x) /\ ~x.watched) <=> p = p0 /\ ~x0.watched
        /\ (\E x : HoldsRow(b.rows, p, x) /\ x.syncing) <=> p = p0 /\ x0.syncing
    BY <2>1
  <2>3. p \in Ready(b) <=> p = p0 /\ x0.watched
    BY <2>1, <2>2, PlacesOf, Zenon
  <2>4. p \in Bare(b) <=> p = p0 /\ ~x0.watched
    BY <2>1, <2>2, PlacesOf, Zenon
  <2>5. p \in Busy(b) <=> p = p0 /\ x0.syncing
    BY <2>1, <2>2, PlacesOf, Zenon
  <2> QED  BY <2>3, <2>4, <2>5
<1>4. Sole(b, p0)
  BY <1>1, <1>3 DEF Sole
<1>5. p0 \in Ready(b) <=> x0.watched
  BY <1>1, <1>3, Zenon
<1>6. p0 \in Bare(b) <=> ~x0.watched
  BY <1>1, <1>3, Zenon
<1>7. p0 \in Busy(b) <=> x0.syncing
  BY <1>1, <1>3, Zenon
<1> QED  BY <1>4, <1>5, <1>6, <1>7, Zenon DEF p0

LEMMA NoRowIs ==
  ASSUME NEW b, NEW s, s # DetailsSegment, NoRow(b, s)
  PROVE  Vacant(b, s)
<1> SUFFICES ASSUME NEW p, p.segment = s PROVE p \notin Ready(b) /\ p \notin Bare(b) /\ p \notin Busy(b)
  BY DEF Vacant
<1>1. p # PanePlace(b) /\ \A x : ~HoldsRow(b.rows, p, x)
  BY SegmentOf DEF NoRow
<1> QED  BY <1>1, PlacesOf, Zenon

LEMMA NotARow == ASSUME NEW b, NEW p, p.segment = DetailsSegment PROVE \A x : ~HoldsRow(b.rows, p, x)
BY SegmentOf, SegmentsDiffer DEF HoldsRow

LEMMA PaneIs ==
  ASSUME NEW b
  PROVE  /\ Sole(b, PanePlace(b))
         /\ ~IsOpen(b) => Vacant(b, DetailsSegment)
         /\ IsOpen(b) => /\ PanePlace(b) \in Ready(b) <=> b.pane.opened
                         /\ PanePlace(b) \in Bare(b) <=> ~b.pane.opened
                         /\ PanePlace(b) \in Busy(b) <=> b.pane.opened /\ b.pane.loading
<1> DEFINE p0 == PanePlace(b)
<1>1. p0.segment = DetailsSegment
  BY SegmentOf
<1>2. ASSUME NEW p, p.segment = DetailsSegment
      PROVE  /\ p \in Ready(b) <=> IsOpen(b) /\ b.pane.opened /\ p = p0
             /\ p \in Bare(b) <=> IsOpen(b) /\ ~b.pane.opened /\ p = p0
             /\ p \in Busy(b) <=> IsOpen(b) /\ b.pane.opened /\ b.pane.loading /\ p = p0
  <2>1. \A x : ~HoldsRow(b.rows, p, x)
    BY <1>2, NotARow
  <2>2. p \in Ready(b) <=> IsOpen(b) /\ b.pane.opened /\ p = p0
    BY <2>1, PlacesOf, Zenon
  <2>3. p \in Bare(b) <=> IsOpen(b) /\ ~b.pane.opened /\ p = p0
    BY <2>1, PlacesOf, Zenon
  <2>4. p \in Busy(b) <=> IsOpen(b) /\ b.pane.opened /\ b.pane.loading /\ p = p0
    BY <2>1, PlacesOf, Zenon
  <2> QED  BY <2>2, <2>3, <2>4
<1> HIDE DEF p0
<1>3. Sole(b, p0)
  BY <1>1, <1>2 DEF Sole
<1>4. ~IsOpen(b) => Vacant(b, DetailsSegment)
  BY <1>2, Zenon DEF Vacant
<1>5. IsOpen(b) => (p0 \in Ready(b) <=> b.pane.opened)
  BY <1>1, <1>2, Zenon
<1>6. IsOpen(b) => (p0 \in Bare(b) <=> ~b.pane.opened)
  BY <1>1, <1>2, Zenon
<1>7. IsOpen(b) => (p0 \in Busy(b) <=> b.pane.opened /\ b.pane.loading)
  BY <1>1, <1>2, Zenon
<1> QED  BY <1>3, <1>4, <1>5, <1>6, <1>7, Zenon DEF p0
-----------------------------------------------------------------------------
(* The composed dashboard: outcomes.                                       *)
Neutral(b, m) == (\A p \in Bare(b) : ~SetsUp(m, p)) /\ \A p \in Busy(b) : AnswerTo(p) # m

Waits(d) == IsOpen(d) => d.pane.opened \/ d.pane.loading

LEMMA NothingMoves ==
  ASSUME NEW b, NEW d, Elsewhere(b, d, {}), NEW m, Neutral(b, m), Waits(d)
  PROVE  Outcome(b, m, d, {}, {}, {}, {})
BY DEF Elsewhere, AlikeAt, Neutral, Waits, Outcome

(* At the segments S, those of T are emptied and N are new.                *)
Fresh(b, d, S, T, N) ==
  /\ T \subseteq S
  /\ Elsewhere(b, d, S)
  /\ \A s \in S : s \in T \/ Vacant(b, s)
  /\ \A p : p.segment \in S => p \notin Ready(d) /\ p \notin Busy(d) /\ (p \in Bare(d) => p \in N)

LEMMA FreshMoves ==
  ASSUME NEW b, NEW d, NEW S, NEW T, NEW N, Fresh(b, d, S, T, N), NEW m, Neutral(b, m), Waits(d)
  PROVE  Outcome(b, m, d, T, {}, {}, N)
<1>1. \A p : p.segment \notin S => AlikeAt(b, d, p)
  BY DEF Fresh, Elsewhere
<1>2. \A p : p.segment \in S /\ p.segment \notin T => p \notin Ready(b) /\ p \notin Busy(b)
  BY DEF Fresh, Vacant
<1>3. \A p : p.segment \in T => p.segment \in S
  BY DEF Fresh
<1>4. \A p : p.segment \in S => p \notin Ready(d) /\ p \notin Busy(d) /\ (p \in Bare(d) => p \in N)
  BY DEF Fresh
<1>5. \A p : p \in Ready(d) <=> p \in Ready(b) /\ p.segment \notin T
  BY <1>1, <1>2, <1>3, <1>4 DEF AlikeAt
<1>6. \A p : p \in Busy(d) <=> p \in Busy(b) /\ p.segment \notin T
  BY <1>1, <1>2, <1>3, <1>4 DEF AlikeAt
<1>7. \A p \in Bare(d) : (p \in Bare(b) /\ ~SetsUp(m, p)) \/ p \in N
  BY <1>1, <1>4 DEF AlikeAt, Neutral
<1> QED  BY <1>5, <1>6, <1>7 DEF Outcome, Neutral, Waits

(* One place changes.                                                      *)
Single(b, d, p0) == IsPlace(p0) /\ Elsewhere(b, d, {p0.segment}) /\ Sole(b, p0) /\ Sole(d, p0)

LEMMA SingleIs ==
  ASSUME NEW b, NEW d, NEW p0, Single(b, d, p0)
  PROVE  /\ \A p : p # p0 => AlikeAt(b, d, p)
         /\ \A p : p # p0 /\ p \in Ready(b) \cup Bare(b) \cup Busy(b) => p.segment # p0.segment
BY DEF Single, Elsewhere, Sole, AlikeAt

LEMMA SetsUpOne ==
  ASSUME NEW m, NEW p, NEW q, IsPlace(p), IsPlace(q), SetsUp(m, p), SetsUp(m, q)
  PROVE  p.segment = q.segment
BY SegmentsDiffer DEF SetsUp, IsPlace

LEMMA IsSetUp ==
  ASSUME NEW b, NEW d, NEW p0, Single(b, d, p0), NEW m, SetsUp(m, p0), Waits(d),
         \A p \in Busy(b) : AnswerTo(p) # m,
         p0 \notin Ready(b), p0 \in Ready(d), p0 \notin Bare(d)
  PROVE  /\ (p0 \in Busy(b) <=> p0 \in Busy(d)) => Outcome(b, m, d, {}, {p0}, {}, {})
         /\ p0 \in Busy(d) => Outcome(b, m, d, {}, {p0}, {p0}, {})
<1>1. \A p : p # p0 => AlikeAt(b, d, p)
  BY SingleIs
<1>2. \A p : p # p0 /\ p \in Ready(b) \cup Bare(b) \cup Busy(b) => p.segment # p0.segment
  BY SingleIs
<1>3. \A p \in Bare(d) : p \in Bare(b) /\ ~SetsUp(m, p)
  <2> SUFFICES ASSUME NEW p \in Bare(d) PROVE p \in Bare(b) /\ ~SetsUp(m, p)
    OBVIOUS
  <2>1. p # p0 /\ p \in Bare(b)
    BY <1>1 DEF AlikeAt
  <2>2. p.segment # p0.segment
    BY <1>2, <2>1
  <2>3. IsPlace(p) /\ IsPlace(p0)
    BY <2>1, PlacesAre DEF Single
  <2> QED  BY <2>1, <2>2, <2>3, SetsUpOne
<1>4. \A p : p \in Ready(d) <=> p \in Ready(b) \/ p = p0
  BY <1>1 DEF AlikeAt
<1>5. ASSUME p0 \in Busy(b) <=> p0 \in Busy(d) PROVE Outcome(b, m, d, {}, {p0}, {}, {})
  <2>1. \A p : p \in Busy(d) <=> p \in Busy(b)
    BY <1>1, <1>5 DEF AlikeAt
  <2> QED  BY <1>3, <1>4, <2>1 DEF Outcome, Waits
<1>6. ASSUME p0 \in Busy(d) PROVE Outcome(b, m, d, {}, {p0}, {p0}, {})
  <2>1. \A p : p \in Busy(d) <=> (p \in Busy(b) /\ p0.segment # p.segment) \/ p = p0
    BY <1>1, <1>2, <1>6 DEF AlikeAt
  <2> QED  BY <1>3, <1>4, <2>1 DEF Outcome, Waits
<1> QED  BY <1>5, <1>6

LEMMA Requested ==
  ASSUME NEW b, NEW d, NEW p0, Single(b, d, p0), NEW m, Neutral(b, m), Waits(d),
         p0 \in Ready(b) <=> p0 \in Ready(d), p0 \in Bare(b) <=> p0 \in Bare(d), p0 \in Busy(d)
  PROVE  Outcome(b, m, d, {}, {}, {p0}, {})
<1>1. \A p : p # p0 => AlikeAt(b, d, p)
  BY SingleIs
<1>2. \A p : p # p0 /\ p \in Busy(b) => p.segment # p0.segment
  BY SingleIs
<1>3. \A p : (p \in Ready(d) <=> p \in Ready(b)) /\ (p \in Bare(d) <=> p \in Bare(b))
  BY <1>1 DEF AlikeAt
<1>4. \A p : p \in Busy(d) <=> (p \in Busy(b) /\ p0.segment # p.segment) \/ p = p0
  BY <1>1, <1>2 DEF AlikeAt
<1> QED  BY <1>3, <1>4 DEF Outcome, Neutral, Waits

LEMMA Answered ==
  ASSUME NEW b, NEW d, NEW p0, Single(b, d, p0), NEW m, m = AnswerTo(p0), Waits(d),
         p0 \in Ready(b) <=> p0 \in Ready(d), p0 \in Bare(b) <=> p0 \in Bare(d), p0 \notin Busy(d)
  PROVE  Outcome(b, m, d, {}, {}, {}, {})
<1>1. \A p : p # p0 => AlikeAt(b, d, p)
  BY SingleIs
<1>2. \A p : (p \in Ready(d) <=> p \in Ready(b)) /\ (p \in Bare(d) <=> p \in Bare(b))
  BY <1>1 DEF AlikeAt
<1>3. \A p : p \in Busy(d) <=> p \in Busy(b) /\ AnswerTo(p) # m
  <2>1. \A p \in Busy(b) : AnswerTo(p) = m => p = p0
    BY PlacesAre, SamePlace DEF Single
  <2> QED  BY <1>1, <2>1 DEF AlikeAt
<1>4. \A p : ~SetsUp(m, p)
  BY AnswerIs DEF SetsUp
<1> QED  BY <1>2, <1>3, <1>4 DEF Outcome, Waits
-----------------------------------------------------------------------------
(* The composed dashboard: results that quit, say nothing, or ask once.    *)
LEMMA RemovesThese ==
  ASSUME NEW s, NEW t
  PROVE  /\ Removes(<<>>, {}) /\ Removes(<<s>>, {s})
         /\ Removes(<<s>> \o <<>>, {s}) /\ Removes(<<s>> \o <<t>>, {s, t})
<1>1. Removes(<<>>, {})
  <2>1. (DOMAIN <<>>) = 1..0 /\ <<>> = [i \in 1..0 |-> <<>>[i]] /\ {} = {<<>>[i] : i \in DOMAIN <<>>}
    OBVIOUS
  <2> QED  BY <2>1 DEF Removes
<1>2. Removes(<<s>>, {s})
  <2>1. (DOMAIN <<s>>) = 1..1 /\ <<s>> = [i \in 1..1 |-> <<s>>[i]] /\ {s} = {<<s>>[i] : i \in DOMAIN <<s>>}
    OBVIOUS
  <2> QED  BY <2>1 DEF Removes
<1>3. <<s>> \o <<>> = <<s>> /\ <<s>> \o <<t>> = <<s, t>>
  <2>1. <<s>> \o <<>> = <<s>>
    OBVIOUS
  <2>2. <<s>> \o <<t>> = <<s, t>>
    <3> DEFINE q == <<s>> \o <<t>>
    <3>1. <<s>> \in Seq({s, t}) /\ <<t>> \in Seq({s, t}) /\ Len(<<s>>) = 1 /\ Len(<<t>>) = 1
      OBVIOUS
    <3>2. q \in Seq({s, t}) /\ Len(q) = 2 /\ q[1] = s /\ q[2] = t
      BY <3>1, InARow
    <3> HIDE DEF q
    <3>3. q = <<s, t>>
      BY <3>2
    <3> QED  BY <3>3 DEF q
  <2> QED  BY <2>1, <2>2
<1>4. Removes(<<s, t>>, {s, t})
  <2>1. (DOMAIN <<s, t>>) = 1..2 /\ <<s, t>>[1] = s /\ <<s, t>>[2] = t
        /\ <<s, t>> = [i \in 1..2 |-> <<s, t>>[i]]
    OBVIOUS
  <2>2. {s, t} = {<<s, t>>[i] : i \in DOMAIN <<s, t>>}
    BY <2>1
  <2> QED  BY <2>1, <2>2 DEF Removes
<1> QED  BY <1>1, <1>2, <1>3, <1>4

LEMMA NeutralName ==
  ASSUME NEW b, NEW m, m.name \notin {"Watch", "Open", "Synced", "Loaded"}
  PROVE  Neutral(b, m)
BY AnswerIs DEF Neutral, SetsUp

LEMMA LandsSilent ==
  ASSUME NEW b, NEW m, NEW d, NEW T, Outcome(b, m, d, T, {}, {}, {}),
         NEW removed, Removes(removed, T), NEW c, c \in {None, ImmediateQuit}
  PROVE  Lands(b, m, Result(d, c, removed))
<1> DEFINE r == Result(d, c, removed)
<1>1. r.board = d /\ r.command = c /\ r.removed = removed
  BY DEF Result
<1>2. \E leaves : Shaped(c, <<>>, leaves) /\ Starts(c, {})
  <2>1. CASE c = None
    <3>1. Shaped(c, <<>>, <<>>) /\ c.leaves = <<>>
      BY <2>1, NoneShaped, ShapedIs
    <3>2. (DOMAIN <<>>) = {}
      OBVIOUS
    <3>3. Starts(c, {})
      BY <3>1, <3>2 DEF Starts
    <3> QED  BY <3>1, <3>3
  <2>2. CASE c = ImmediateQuit
    <3> DEFINE y == Leaf("ImmediateQuit", NoKey, Empty, <<>>)
    <3>1. y.kind # "Effect"
      BY DEF Leaf
    <3>2. Shaped(c, <<>>, <<y>>)
      BY <2>2, QuitShaped
    <3> HIDE DEF y
    <3>3. c.leaves = <<y>>
      BY <3>2, ShapedIs
    <3>4. \A i \in DOMAIN <<y>> : <<y>>[i] = y
      OBVIOUS
    <3>5. Starts(c, {})
      BY <3>1, <3>3, <3>4 DEF Starts
    <3> QED  BY <3>2, <3>5
  <2> QED  BY <2>1, <2>2
<1>3. PICK leaves : Shaped(c, <<>>, leaves) /\ Starts(c, {})
  BY <1>2
<1>4. Hooked(c, {}) /\ Asks(c, {}, {})
  BY <1>3, ShapedIs DEF Hooked, Asks
<1> HIDE DEF r
<1> QED  BY <1>1, <1>3, <1>4 DEF Lands, r

Plain(c, hooks, scope, x) == Shaped(c, hooks, <<Leaf("Effect", NoKey, scope, <<x>>)>>)

LEMMA PlainAsks ==
  ASSUME NEW c, NEW hooks, NEW scope, NEW x, Plain(c, hooks, scope, x), x.name \notin {"Synced", "Loaded"},
         NEW N, N = {} \/ (scope = Empty /\ \A p \in N : SetsUp(x, p))
  PROVE  Asks(c, {}, N)
<1> DEFINE leaf == Leaf("Effect", NoKey, scope, <<x>>)
<1>1. leaf.kind = "Effect" /\ leaf.key = NoKey /\ leaf.scope = scope /\ leaf.payload = <<x>>
  BY DEF Leaf
<1>2. c.leaves = <<leaf>>
  BY ShapedIs DEF Plain
<1>3. (DOMAIN <<x>>) = {1} /\ <<x>>[1] = x
  OBVIOUS
<1> HIDE DEF leaf
<1>4. Starts(c, {leaf})
  BY <1>1, <1>2 DEF Starts
<1>5. Quiet(leaf.payload)
  BY <1>1, <1>3 DEF Quiet
<1>6. \A p \in N : Sets(leaf, p)
  BY <1>1, <1>3 DEF Sets, Coming
<1> QED  BY <1>1, <1>4, <1>5, <1>6 DEF Asks

LEMMA LandsSaying ==
  ASSUME NEW b, NEW m, NEW d, NEW T, NEW N, Outcome(b, m, d, T, {}, {}, N),
         NEW removed, Removes(removed, T), NEW x, x.name \notin {"Synced", "Loaded"},
         \A p \in N : SetsUp(x, p)
  PROVE  Lands(b, m, Result(d, Deliver(x), removed))
<1> DEFINE c == Deliver(x)
           r == Result(d, c, removed)
           leaves == <<Leaf("Effect", NoKey, Empty, <<x>>)>>
<1>1. r.board = d /\ r.command = c /\ r.removed = removed
  BY DEF Result
<1>2. Shaped(c, <<>>, leaves) /\ Plain(c, <<>>, Empty, x)
  BY DeliverShaped DEF Plain
<1> HIDE DEF c, leaves
<1>3. Hooked(c, {})
  BY <1>2, ShapedIs DEF Hooked
<1>4. Asks(c, {}, N)
  BY <1>2, PlainAsks
<1> HIDE DEF r
<1>5. Lands(b, m, r)
  BY <1>1, <1>2, <1>3, <1>4 DEF Lands
<1> QED  BY <1>5 DEF r, c

LEMMA RowsFresh ==
  ASSUME NEW b, NEW d, NEW s, s # DetailsSegment, NEW now, Changes(b.rows, d.rows, s, now),
         \A x \in now : Segment(x.id) = s /\ ~x.watched /\ ~x.syncing,
         NEW N, N = {RowPlace(x) : x \in now}
  PROVE  /\ PaneAlike(b, d) => Fresh(b, d, {s}, {s}, N)
         /\ PaneAlike(b, d) /\ Vacant(b, s) => Fresh(b, d, {s}, {}, N)
         /\ ~IsOpen(d) => Fresh(b, d, {s, DetailsSegment}, {s, DetailsSegment}, N)
<1>1. ASSUME NEW p, p.segment = s
      PROVE  p \notin Ready(d) /\ p \notin Busy(d) /\ (p \in Bare(d) => p \in N)
  <2>1. p # PanePlace(d)
    BY <1>1, SegmentOf
  <2>2. \A x : HoldsRow(d.rows, p, x) => x \in now /\ p = RowPlace(x)
    BY <1>1 DEF Changes
  <2>3. \A x : HoldsRow(d.rows, p, x) => ~x.watched /\ ~x.syncing /\ p \in N
    BY <2>2
  <2>4. p \notin Ready(d)
    BY <2>1, <2>3, PlacesOf, Zenon
  <2>5. p \notin Busy(d)
    BY <2>1, <2>3, PlacesOf, Zenon
  <2>6. p \in Bare(d) => p \in N
    BY <2>1, <2>3, PlacesOf, Zenon
  <2> QED  BY <2>4, <2>5, <2>6
<1>2. /\ PaneAlike(b, d) => Elsewhere(b, d, {s})
      /\ Elsewhere(b, d, {s, DetailsSegment})
  BY RowsElsewhere
<1>3. ~IsOpen(d) => Vacant(d, DetailsSegment)
  BY PaneIs
<1>4. PaneAlike(b, d) => Fresh(b, d, {s}, {s}, N)
  BY <1>1, <1>2 DEF Fresh
<1>5. PaneAlike(b, d) /\ Vacant(b, s) => Fresh(b, d, {s}, {}, N)
  BY <1>1, <1>2 DEF Fresh
<1>6. ~IsOpen(d) => Fresh(b, d, {s, DetailsSegment}, {s, DetailsSegment}, N)
  BY <1>1, <1>2, <1>3 DEF Fresh, Vacant
<1> QED  BY <1>4, <1>5, <1>6

LEMMA PaneFresh ==
  ASSUME NEW b, NEW d, SameRows(b, d), IsOpen(d) => ~d.pane.opened,
         NEW T, T = (IF IsOpen(b) THEN {DetailsSegment} ELSE {}),
         NEW N, IsOpen(d) => PanePlace(d) \in N
  PROVE  Fresh(b, d, {DetailsSegment}, T, N)
<1>1. Elsewhere(b, d, {DetailsSegment})
  BY PaneElsewhere
<1>2. DetailsSegment \in T \/ Vacant(b, DetailsSegment)
  BY PaneIs
<1>3. ASSUME NEW p, p.segment = DetailsSegment
      PROVE  p \notin Ready(d) /\ p \notin Busy(d) /\ (p \in Bare(d) => p \in N)
  <2>1. CASE ~IsOpen(d)
    BY <1>3, <2>1, PaneIs DEF Vacant
  <2>2. CASE IsOpen(d)
    <3>1. \A x : ~HoldsRow(d.rows, p, x)
      BY <1>3, NotARow
    <3>2. p \notin Ready(d)
      BY <2>2, <3>1, PlacesOf, Zenon
    <3>3. p \notin Busy(d)
      BY <2>2, <3>1, PlacesOf, Zenon
    <3>4. p \in Bare(d) => p = PanePlace(d)
      BY <2>2, <3>1, PlacesOf, Zenon
    <3> QED  BY <2>2, <3>2, <3>3, <3>4
  <2> QED  BY <2>1, <2>2
<1> QED  BY <1>1, <1>2, <1>3 DEF Fresh
-----------------------------------------------------------------------------
(* The composed dashboard: what each message of the root does.             *)
LEMMA Still ==
  ASSUME NEW b, NEW d, d.rows = b.rows, d.pane = b.pane, Waits(b), NEW m, Neutral(b, m)
  PROVE  Outcome(b, m, d, {}, {}, {}, {})
<1>1. SameRows(b, d)
  BY DEF SameRows
<1>2. PaneAlike(b, d)
  BY DEF PaneAlike, PanePlace, IsOpen
<1>3. Waits(d)
  BY DEF Waits, IsOpen
<1>4. Elsewhere(b, d, {})
  BY <1>1, <1>2, Alike
<1> QED  BY <1>3, <1>4, NothingMoves

(* The rows of a key are now these.                                        *)
Turns(rows, new, id, now) ==
  \A x : (\E i \in DOMAIN new : new[i] = x)
           <=> (\E i \in DOMAIN rows : rows[i] = x /\ x.id # id) \/ x \in now

LEMMA TurnsChanges ==
  ASSUME NEW rows, NEW new, NEW id, NEW now, Turns(rows, new, id, now)
  PROVE  Changes(rows, new, Segment(id), now)
<1> SUFFICES ASSUME NEW p, NEW x
             PROVE  HoldsRow(new, p, x)
                      <=> (p.segment # Segment(id) /\ HoldsRow(rows, p, x)) \/ (x \in now /\ p = RowPlace(x))
  BY DEF Changes
<1>1. RowPlace(x).segment = Segment(id) <=> x.id = id
  BY SegmentOf, SegmentsDiffer
<1>2. (\E i \in DOMAIN new : new[i] = x)
        <=> (\E i \in DOMAIN rows : rows[i] = x /\ x.id # id) \/ x \in now
  BY DEF Turns
<1> QED  BY <1>1, <1>2 DEF HoldsRow

LEMMA AddLands ==
  ASSUME NEW b, BoardWell(b), Known(runs), IsFiniteSet(DOMAIN cleanups), Waits(b), NEW m, Neutral(b, m)
  PROVE  Lands(b, m, AddTask(b))
<1> DEFINE row == TaskState(b, b.next)
           rows == b.rows
           new == Append(rows, row)
           id == b.next
           s == Segment(id)
           d == AddTask(b).board
           N == {RowPlace(x) : x \in {row}}
<1>1. b \in BoardType /\ rows \in Seq(RowType) /\ id \in Nat \ {0} /\ id + 1 \in Nat \ {0}
  BY DEF BoardWell, BoardType
<1>2. d = [b EXCEPT !.rows = new, !.selected = id, !.next = id + 1, !.status = "Other"]
  BY <1>1 DEF AddTask, Result, Say, BoardType
<1>3. row \in RowType /\ row.id = id
  BY <1>1, MintIsNew DEF TaskState, RowType
<1>4. ~row.watched /\ ~row.syncing
  BY DEF TaskState
<1>5. AddTask(b) = Result(d, Deliver(Msg("Watch", id)), <<>>)
  BY DEF AddTask, Result
<1> HIDE DEF row, id
<1>6. \A x : (\E i \in DOMAIN new : new[i] = x) <=> (\E i \in DOMAIN rows : rows[i] = x) \/ x = row
  <2> DEFINE n == Len(rows) + 1
  <2>1. /\ (DOMAIN new) = DOMAIN rows \cup {n} /\ n \notin DOMAIN rows
        /\ new[n] = row /\ \A j \in DOMAIN rows : new[j] = rows[j]
    BY <1>1, <1>3
  <2> HIDE DEF new, n
  <2> QED  BY <2>1
<1> HIDE DEF new
<1>7. \A i \in DOMAIN rows : rows[i].id # id
  <2>1. RowsWell(rows, id) /\ \A i \in DOMAIN rows : rows[i] \in RowType
    BY <1>1 DEF BoardWell, id
  <2>2. \A i \in DOMAIN rows : rows[i].id < id /\ rows[i].id \in Nat
    BY <2>1 DEF RowsWell, RowType
  <2> QED  BY <1>1, <2>2
<1>8. Changes(rows, new, s, {row})
  <2>1. Turns(rows, new, id, {row})
    BY <1>6, <1>7 DEF Turns
  <2> QED  BY <2>1, TurnsChanges
<1>9. NoRow(b, s)
  BY <1>7, SegmentOf, SegmentsDiffer DEF NoRow, HoldsRow
<1>10. d.rows = new /\ d.pane = b.pane
  BY <1>1, <1>2 DEF BoardType
<1>11. PaneAlike(b, d) /\ Waits(d)
  BY <1>10 DEF PaneAlike, PanePlace, IsOpen, Waits
<1>12. s # DetailsSegment
  BY SegmentsDiffer
<1>13. Vacant(b, s)
  BY <1>9, <1>12, NoRowIs
<1>14. \A x \in {row} : Segment(x.id) = s /\ ~x.watched /\ ~x.syncing
  <2> HIDE DEF s
  <2>1. Segment(row.id) = s
    BY <1>3 DEF s
  <2> QED  BY <1>4, <2>1, Zenon
<1> HIDE DEF s, d
<1>15. Fresh(b, d, {s}, {}, N)
  BY <1>8, <1>10, <1>11, <1>12, <1>13, <1>14, RowsFresh
<1>16. Outcome(b, m, d, {}, {}, {}, N)
  BY <1>11, <1>15, FreshMoves
<1>17. \A p \in N : SetsUp(Msg("Watch", id), p)
  <2>1. \A p \in N : p.segment = Segment(id)
    BY <1>3, SegmentOf
  <2> QED  BY <2>1, SegmentsDiffer DEF SetsUp, Msg
<1>18. Msg("Watch", id).name \notin {"Synced", "Loaded"}
  BY DEF Msg
<1>19. Removes(<<>>, {})
  BY RemovesThese
<1> HIDE DEF N
<1>20. Lands(b, m, Result(d, Deliver(Msg("Watch", id)), <<>>))
  BY <1>16, <1>17, <1>18, <1>19, LandsSaying
<1> QED  BY <1>5, <1>20

(* A row gives way, and with it the pane that was open on it.              *)
LEMMA RowsGiveWay ==
  ASSUME NEW b, NEW d, NEW id, NEW now, Turns(b.rows, d.rows, id, now),
         \A x \in now : x.id = id /\ ~x.watched /\ ~x.syncing,
         OpenedOn(b, id) => d.pane = NoPane, ~OpenedOn(b, id) => d.pane = b.pane,
         Waits(b), NEW m, Neutral(b, m), NEW N, N = {RowPlace(x) : x \in now},
         NEW removed, removed = <<Segment(id)>> \o DismissalOn(b, id)
  PROVE  \E T : Outcome(b, m, d, T, {}, {}, N) /\ Removes(removed, T)
<1> DEFINE s == Segment(id)
<1>1. Changes(b.rows, d.rows, s, now)
  BY TurnsChanges
<1>2. s # DetailsSegment /\ \A x \in now : Segment(x.id) = s /\ ~x.watched /\ ~x.syncing
  <2>1. s # DetailsSegment
    BY SegmentsDiffer
  <2>2. \A x \in now : Segment(x.id) = s
    OBVIOUS
  <2> HIDE DEF s
  <2> QED  BY <2>1, <2>2, Zenon
<1>3. CASE OpenedOn(b, id)
  <2>1. DismissalOn(b, id) = <<DetailsSegment>>
    BY <1>3 DEF DismissalOn, Dismissal, OpenedOn
  <2>2. ~IsOpen(d)
    BY <1>3 DEF IsOpen
  <2> DEFINE T == {s, DetailsSegment}
  <2>3. Removes(removed, T)
    BY <2>1, RemovesThese
  <2> HIDE DEF s
  <2>4. Fresh(b, d, T, T, N)
    BY <1>1, <1>2, <2>2, RowsFresh
  <2>5. Waits(d)
    BY <2>2 DEF Waits
  <2> HIDE DEF T
  <2>6. Outcome(b, m, d, T, {}, {}, N)
    BY <2>4, <2>5, FreshMoves
  <2> QED  BY <2>3, <2>6
<1>4. CASE ~OpenedOn(b, id)
  <2>1. DismissalOn(b, id) = <<>>
    BY <1>4 DEF DismissalOn
  <2>2. PaneAlike(b, d) /\ Waits(d)
    BY <1>4 DEF PaneAlike, PanePlace, IsOpen, Waits
  <2> DEFINE T == {s}
  <2>3. Removes(removed, T)
    BY <2>1, RemovesThese
  <2> HIDE DEF s
  <2>4. Fresh(b, d, T, T, N)
    BY <1>1, <1>2, <2>2, RowsFresh
  <2> HIDE DEF T
  <2>5. Outcome(b, m, d, T, {}, {}, N)
    BY <2>2, <2>4, FreshMoves
  <2> QED  BY <2>3, <2>5
<1> QED  BY <1>3, <1>4

LEMMA ReloadLands ==
  ASSUME NEW b, BoardWell(b), NEW id, IsRow(b, id), Known(runs), IsFiniteSet(DOMAIN cleanups),
         Waits(b), NEW m, Neutral(b, m)
  PROVE  Lands(b, m, ReloadTask(b, id))
<1> DEFINE p == Position(b, id)
           row == TaskState(b, id)
           rows == b.rows
           new == [rows EXCEPT ![p] = row]
           r == [b EXCEPT !.rows = new]
           e == CloseDetailsOpenedOn(r, id)
           d == Say(e, FALSE)
           removed == <<Segment(id)>> \o DismissalOn(r, id)
           N == {RowPlace(x) : x \in {row}}
<1>1. /\ p \in DOMAIN rows /\ rows[p].id = id /\ rows[p] \in RowType
      /\ \A i \in DOMAIN rows : rows[i].id = id => i = p
  BY RowAt
<1>2. b \in BoardType /\ rows \in Seq(RowType)
  BY DEF BoardWell, BoardType
<1>3. row \in RowType /\ row.id = id
  <2>1. id \in Nat \ {0}
    BY <1>1 DEF RowType
  <2> QED
    BY <2>1, MintIsNew DEF TaskState, RowType
<1>4. ~row.watched /\ ~row.syncing
  BY DEF TaskState
<1>5. ReloadTask(b, id) = Result(d, Deliver(Msg("Watch", id)), removed)
  <2>1. [b EXCEPT !.rows[p] = row] = r
    BY <1>2 DEF BoardType
  <2> QED  BY <2>1 DEF ReloadTask
<1> HIDE DEF row, p
<1>6. new \in Seq(RowType) /\ Turns(rows, new, id, {row})
  <2>1. new \in Seq(RowType) /\ (DOMAIN new) = DOMAIN rows /\ new[p] = row
        /\ \A i \in DOMAIN rows : i # p => new[i] = rows[i]
    BY <1>1, <1>2, <1>3
  <2> HIDE DEF new
  <2> QED  BY <1>1, <1>3, <2>1 DEF Turns
<1> HIDE DEF new
<1>7. r \in BoardType /\ r.rows = new /\ r.pane = b.pane
  BY <1>2, <1>6 DEF BoardType
<1> HIDE DEF r
<1>8. (OpenedOn(r, id) <=> OpenedOn(b, id)) /\ DismissalOn(r, id) = DismissalOn(b, id)
  BY <1>7 DEF OpenedOn, DismissalOn, Dismissal, IsOpen
<1>9. /\ e \in BoardType /\ e.rows = new
      /\ OpenedOn(b, id) => e.pane = NoPane
      /\ ~OpenedOn(b, id) => e.pane = b.pane
  BY <1>7, <1>8, ClosedOn
<1> HIDE DEF e
<1>10. /\ d.rows = new
       /\ OpenedOn(b, id) => d.pane = NoPane
       /\ ~OpenedOn(b, id) => d.pane = b.pane
  BY <1>9, SaidOther
<1>11. \A x \in {row} : x.id = id /\ ~x.watched /\ ~x.syncing
  <2>1. \A x \in {row} : x.id = id
    BY <1>3
  <2> QED  BY <1>4, <2>1, Zenon
<1>12. removed = <<Segment(id)>> \o DismissalOn(b, id)
  BY <1>8
<1> HIDE DEF d, removed
<1>13. PICK T : Outcome(b, m, d, T, {}, {}, N) /\ Removes(removed, T)
  BY <1>6, <1>10, <1>11, <1>12, RowsGiveWay
<1>14. \A q \in N : SetsUp(Msg("Watch", id), q)
  <2>1. \A q \in N : q.segment = Segment(id)
    BY <1>3, SegmentOf
  <2> QED  BY <2>1, SegmentsDiffer DEF SetsUp, Msg
<1>15. Msg("Watch", id).name \notin {"Synced", "Loaded"}
  BY DEF Msg
<1> HIDE DEF N
<1>16. Lands(b, m, Result(d, Deliver(Msg("Watch", id)), removed))
  BY <1>13, <1>14, <1>15, LandsSaying
<1> QED  BY <1>5, <1>16

LEMMA DeleteLands ==
  ASSUME NEW b, BoardWell(b), NEW id, IsRow(b, id), Waits(b), NEW m, Neutral(b, m)
  PROVE  Lands(b, m, DeleteTask(b, id))
<1> DEFINE p == Position(b, id)
           rows == b.rows
           left == RemoveAt(rows, p)
           selected == MoveSelected(b, left, id)
           e == CloseDetailsOpenedOn(b, id)
           r == [e EXCEPT !.rows = left, !.selected = selected]
           d == Say(r, FALSE)
           removed == <<Segment(id)>> \o DismissalOn(b, id)
<1>1. /\ p \in DOMAIN rows /\ rows[p].id = id
      /\ \A i \in DOMAIN rows : rows[i].id = id => i = p
  BY RowAt
<1>2. b \in BoardType /\ RowsWell(rows, b.next)
  BY DEF BoardWell
<1>3. DeleteTask(b, id) = Result(d, None, removed)
  BY DEF DeleteTask
<1>4. Gone(rows, b.next, p, left)
  <2>1. PICK l : l = left
    OBVIOUS
  <2>2. Gone(rows, b.next, p, l)
    <3> HIDE DEF p, rows
    <3> QED
      BY <1>1, <1>2, <2>1, RowRemoved
  <2> QED
    BY <2>1, <2>2
<1> HIDE DEF left, p, selected
<1>5. Turns(rows, left, id, {})
  BY <1>1, <1>4 DEF Gone, Turns
<1>6. e \in BoardType /\ (OpenedOn(b, id) => e.pane = NoPane) /\ (~OpenedOn(b, id) => e.pane = b.pane)
  BY <1>2, ClosedOn
<1> HIDE DEF e
<1>7. d.rows = left /\ d.pane = e.pane
  BY <1>6 DEF BoardType, Say
<1> HIDE DEF d, removed
<1> DEFINE N == {RowPlace(x) : x \in {}}
<1>8. PICK T : Outcome(b, m, d, T, {}, {}, N) /\ Removes(removed, T)
  BY <1>5, <1>6, <1>7, RowsGiveWay DEF removed
<1>9. N = {}
  OBVIOUS
<1> HIDE DEF N
<1>10. Outcome(b, m, d, T, {}, {}, {})
  BY <1>8, <1>9
<1>11. Lands(b, m, Result(d, None, removed))
  BY <1>8, <1>10, LandsSilent
<1> QED  BY <1>3, <1>11

LEMMA Dismissed ==
  ASSUME NEW b
  PROVE  Removes(Dismissal(b), IF IsOpen(b) THEN {DetailsSegment} ELSE {})
BY RemovesThese DEF Dismissal

LEMMA OpenLands ==
  ASSUME NEW b, BoardWell(b), NEW id, IsRow(b, id), Known(runs), IsFiniteSet(DOMAIN cleanups),
         NEW m, Neutral(b, m)
  PROVE  Lands(b, m, OpenDetails(b, id))
<1> DEFINE pane == DetailsState(b, id)
           r == [b EXCEPT !.pane = pane, !.focus = "Details"]
           unsaved == UnsavedReplaced(b)
           d == Say(r, unsaved)
           removed == Dismissal(b)
           T == IF IsOpen(b) THEN {DetailsSegment} ELSE {}
           N == {PanePlace(d)}
<1>1. OpenDetails(b, id) = Result(d, Deliver(RootMsg("Open")), removed)
  BY DEF OpenDetails
<1>2. b.rows[Position(b, id)] = Row(b, id) /\ Row(b, id) \in RowType /\ Row(b, id).id = id
  BY RowAt DEF Row
<1>3. pane \in PaneType
  BY <1>2, MintIsNew DEF DetailsState, PaneType, RowType
<1>4. ~pane.opened /\ pane.loading
  BY DEF DetailsState
<1> HIDE DEF pane
<1>5. b \in BoardType
  BY DEF BoardWell
<1>6. r \in BoardType /\ r.rows = b.rows /\ r.pane = pane
  BY <1>3, <1>5 DEF BoardType, Focuses
<1>7. unsaved \in BOOLEAN
  <2>1. IsOpen(b) => b.pane.edited \in BOOLEAN
    BY <1>5 DEF BoardType, PaneType, IsOpen
  <2> QED
    BY <2>1 DEF UnsavedReplaced, UnsavedNotes, IsRow, IsOpen
<1> HIDE DEF r, unsaved
<1>8. d.rows = b.rows /\ d.pane = pane
  BY <1>6, <1>7, Said
<1> HIDE DEF d
<1>9. SameRows(b, d)
  BY <1>8 DEF SameRows
<1>10. ~d.pane.opened /\ d.pane.loading
  BY <1>4, <1>8
<1>11. Waits(d) /\ (IsOpen(d) => ~d.pane.opened)
  BY <1>10, Zenon DEF Waits
<1>12. IsOpen(d) => PanePlace(d) \in N
  OBVIOUS
<1> HIDE DEF T
<1>13. Fresh(b, d, {DetailsSegment}, T, N)
  <2> HIDE DEF N
  <2> QED  BY <1>9, <1>11, <1>12, PaneFresh DEF T
<1>14. Outcome(b, m, d, T, {}, {}, N)
  BY <1>11, <1>13, FreshMoves
<1>15. \A p \in N : SetsUp(RootMsg("Open"), p)
  BY SegmentOf DEF SetsUp, RootMsg, Msg
<1>16. RootMsg("Open").name \notin {"Synced", "Loaded"}
  BY DEF RootMsg, Msg
<1>17. Removes(removed, T)
  BY Dismissed DEF T
<1> HIDE DEF N, removed
<1>18. Lands(b, m, Result(d, Deliver(RootMsg("Open")), removed))
  BY <1>14, <1>15, <1>16, <1>17, LandsSaying
<1> QED  BY <1>1, <1>18

LEMMA CloseLands ==
  ASSUME NEW b, BoardWell(b), NEW m, Neutral(b, m)
  PROVE  Lands(b, m, Result(Say(CloseDetails(b), UnsavedNotes(b)), None, Dismissal(b)))
<1> DEFINE e == CloseDetails(b)
           unsaved == UnsavedNotes(b)
           d == Say(e, unsaved)
           T == IF IsOpen(b) THEN {DetailsSegment} ELSE {}
           removed == Dismissal(b)
<1>1. b \in BoardType
  BY DEF BoardWell
<1>2. e \in BoardType /\ e.rows = b.rows /\ e.pane = NoPane
  BY <1>1, Closed
<1>3. unsaved \in BOOLEAN
  <2>1. IsOpen(b) => b.pane.edited \in BOOLEAN
    BY <1>1 DEF BoardType, PaneType, IsOpen
  <2> QED
    BY <2>1 DEF UnsavedNotes, IsRow, IsOpen
<1> HIDE DEF e, unsaved
<1>4. d.rows = b.rows /\ d.pane = NoPane
  BY <1>2, <1>3, Said
<1> HIDE DEF d
<1>5. SameRows(b, d) /\ ~IsOpen(d)
  BY <1>4 DEF SameRows, IsOpen
<1>6. Waits(d)
  BY <1>5 DEF Waits
<1> HIDE DEF T
<1>7. Fresh(b, d, {DetailsSegment}, T, {})
  BY <1>5, PaneFresh DEF T
<1>8. Outcome(b, m, d, T, {}, {}, {})
  BY <1>6, <1>7, FreshMoves
<1>9. Removes(removed, T)
  BY Dismissed DEF T
<1> HIDE DEF removed
<1>10. Lands(b, m, Result(d, None, removed))
  BY <1>8, <1>9, LandsSilent
<1> QED  BY <1>10 DEF d, e, unsaved, removed

(* A pane that only changes its text.                                      *)
LEMMA Retyped ==
  ASSUME NEW b, BoardWell(b), IsOpen(b), Waits(b), NEW pane \in PaneType, pane.who = b.pane.who,
         pane.opened = b.pane.opened, pane.loading = b.pane.loading,
         NEW d, d.rows = b.rows, d.pane = pane, NEW m, Neutral(b, m)
  PROVE  Outcome(b, m, d, {}, {}, {}, {})
<1>1. SameRows(b, d)
  BY DEF SameRows
<1>2. IsOpen(d)
  BY PaneIsOpen DEF IsOpen
<1>3. PanePlace(d) = PanePlace(b)
  BY DEF PanePlace
<1>4. PaneAlike(b, d)
  BY <1>2, <1>3 DEF PaneAlike
<1>5. Waits(d)
  BY <1>2 DEF Waits
<1>6. Elsewhere(b, d, {})
  BY <1>1, <1>4, Alike
<1> QED  BY <1>5, <1>6, NothingMoves

LEMMA SaveLands ==
  ASSUME NEW b, BoardWell(b), IsOpen(b), Waits(b), NEW m, Neutral(b, m), NEW id
  PROVE  Lands(b, m, Result(Say([b EXCEPT !.pane.edited = FALSE], FALSE), Deliver(Msg("Sync", id)), <<>>))
<1> DEFINE pane == [b.pane EXCEPT !.edited = FALSE]
           r == [b EXCEPT !.pane = pane]
           d == Say([b EXCEPT !.pane.edited = FALSE], FALSE)
<1>1. b.pane \in PaneType /\ b \in BoardType
  BY OpenPane DEF BoardWell
<1>2. /\ pane \in PaneType /\ pane.who = b.pane.who
      /\ pane.opened = b.pane.opened /\ pane.loading = b.pane.loading
  BY <1>1 DEF PaneType
<1>3. d = Say(r, FALSE)
  BY <1>1 DEF BoardType
<1> HIDE DEF pane
<1>4. r \in BoardType /\ r.rows = b.rows /\ r.pane = pane
  BY <1>1, <1>2 DEF BoardType
<1> HIDE DEF r, d
<1>5. d.rows = b.rows /\ d.pane = pane
  BY <1>3, <1>4, SaidOther
<1>6. Outcome(b, m, d, {}, {}, {}, {})
  BY <1>2, <1>5, Retyped
<1>7. Msg("Sync", id).name \notin {"Synced", "Loaded"}
  BY DEF Msg
<1>8. \A p \in {} : SetsUp(Msg("Sync", id), p)
  OBVIOUS
<1>9. Removes(<<>>, {})
  BY RemovesThese
<1>10. Lands(b, m, Result(d, Deliver(Msg("Sync", id)), <<>>))
  BY <1>6, <1>7, <1>8, <1>9, LandsSaying
<1> QED  BY <1>10 DEF d

LEMMA StaysSilent ==
  ASSUME NEW b, Waits(b), NEW m, Neutral(b, m), NEW d, d.rows = b.rows, d.pane = b.pane,
         NEW c, c \in {None, ImmediateQuit}
  PROVE  Lands(b, m, Result(d, c, <<>>))
BY Still, RemovesThese, LandsSilent

LEMMA RootLands ==
  ASSUME NEW b, BoardWell(b), Known(runs), IsFiniteSet(DOMAIN cleanups), Waits(b),
         NEW m, m.name \in RootNames, NEW r, r = Root(b, m)
  PROVE  Lands(b, m, r)
<1>0. b \in BoardType /\ Neutral(b, m)
  <2>1. m.name \notin {"Watch", "Open", "Synced", "Loaded"}
    BY DEF RootNames
  <2> QED  BY <2>1, NeutralName DEF BoardWell
<1> DEFINE other == Say(b, FALSE)
<1>1. other.rows = b.rows /\ other.pane = b.pane
  BY <1>0, SaidOther
<1> HIDE DEF other
<1>2. Lands(b, m, Result(other, None, <<>>)) /\ Lands(b, m, Result(b, None, <<>>))
      /\ Lands(b, m, Result(b, ImmediateQuit, <<>>))
  BY <1>0, <1>1, StaysSilent
<1>4. CASE m.name = "Quit"
  BY <1>2, <1>4 DEF Root
<1>5. CASE m.name = "NoTaskSelected"
  <2>1. r = Result(other, None, <<>>)
    BY <1>5 DEF Root, other
  <2> QED  BY <1>2, <2>1
<1>6. CASE m.name = "FocusNext"
  <2> DEFINE c == Say([b EXCEPT !.focus = NextFocus(@)], FALSE)
  <2>1. r = Result(c, None, <<>>)
    BY <1>6 DEF Root
  <2>2. c.rows = b.rows /\ c.pane = b.pane
    <3> DEFINE focus == NextFocus(b.focus)
    <3>1. c = Say([b EXCEPT !.focus = focus], FALSE)
      OBVIOUS
    <3> HIDE DEF c, focus
    <3> QED  BY <1>0, <3>1 DEF BoardType, Say
  <2> HIDE DEF c
  <2> QED  BY <1>0, <2>1, <2>2, StaysSilent
<1>7. CASE m.name \in {"SelectPrev", "SelectNext"}
  <2> DEFINE forward == m.name = "SelectNext"
             e == Select(b, forward)
             c == Say(e, FALSE)
  <2>1. r = Result(c, None, <<>>)
    BY <1>7 DEF Root
  <2>2. c.rows = b.rows /\ c.pane = b.pane
    <3> DEFINE neighbour == Neighbour(b, forward)
    <3>1. e = b \/ e = [b EXCEPT !.selected = neighbour]
      BY DEF Select
    <3> HIDE DEF neighbour, e
    <3> QED  BY <1>0, <3>1 DEF BoardType, Say
  <2> HIDE DEF c
  <2> QED  BY <1>0, <2>1, <2>2, StaysSilent
<1>8. CASE m.name = "AddTask"
  BY <1>0, <1>8, AddLands DEF Root
<1>9. CASE m.name = "ReloadTask"
  <2>1. r = ReloadTask(b, m.id)
    BY <1>9 DEF Root
  <2>2. CASE ~IsRow(b, m.id)
    <3>1. r = Result(other, None, <<>>)
      BY <2>1, <2>2 DEF ReloadTask, other
    <3> QED  BY <1>2, <3>1
  <2>3. CASE IsRow(b, m.id)
    BY <1>0, <2>1, <2>3, ReloadLands
  <2> QED  BY <2>2, <2>3
<1>10. CASE m.name = "DeleteTask"
  <2>1. r = DeleteTask(b, m.id)
    BY <1>10 DEF Root
  <2>2. CASE ~IsRow(b, m.id)
    <3>1. r = Result(other, None, <<>>)
      BY <2>1, <2>2 DEF DeleteTask, other
    <3> QED  BY <1>2, <3>1
  <2>3. CASE IsRow(b, m.id)
    BY <1>0, <2>1, <2>3, DeleteLands
  <2> QED  BY <2>2, <2>3
<1>11. CASE m.name = "OpenDetails"
  <2>1. r = OpenDetails(b, m.id)
    BY <1>11 DEF Root
  <2>2. CASE ~IsRow(b, m.id)
    <3>1. r = Result(other, None, <<>>)
      BY <2>1, <2>2 DEF OpenDetails, other
    <3> QED  BY <1>2, <3>1
  <2>3. CASE IsRow(b, m.id)
    BY <1>0, <2>1, <2>3, OpenLands
  <2> QED  BY <2>2, <2>3
<1>12. CASE m.name = "CloseDetails"
  <2>1. r = Result(Say(CloseDetails(b), UnsavedNotes(b)), None, Dismissal(b))
    BY <1>12 DEF Root
  <2> QED  BY <1>0, <2>1, CloseLands
<1>13. CASE m.name = "SaveNotes"
  <2>1. r = SaveNotes(b)
    BY <1>13 DEF Root
  <2>2. CASE ~IsOpen(b)
    <3>1. r = Result(other, None, <<>>)
      BY <2>1, <2>2 DEF SaveNotes, other
    <3> QED  BY <1>2, <3>1
  <2>3. CASE IsOpen(b) /\ ~IsRow(b, b.pane.task)
    <3>1. r = Result(b, None, <<>>)
      BY <2>1, <2>3 DEF SaveNotes
    <3> QED  BY <1>2, <3>1
  <2>4. CASE IsOpen(b) /\ IsRow(b, b.pane.task)
    <3>1. r = Result(Say([b EXCEPT !.pane.edited = FALSE], FALSE), Deliver(Msg("Sync", b.pane.task)), <<>>)
      BY <2>1, <2>4 DEF SaveNotes
    <3> QED  BY <1>0, <2>4, <3>1, SaveLands
  <2> QED  BY <2>2, <2>3, <2>4
<1> QED
  BY <1>4, <1>5, <1>6, <1>7, <1>8, <1>9, <1>10, <1>11, <1>12, <1>13 DEF RootNames
-----------------------------------------------------------------------------
(* The composed dashboard: what each message of a row does.                *)

(* The hooks a command registers: none, or an instance's one.              *)
Registers(hooks, D) == (hooks = <<>> /\ D = {}) \/ \E p : hooks = <<HookOf(p)>> /\ D = {p}

LEMMA ChildLands ==
  ASSUME NEW b, NEW m, NEW d, NEW D, NEW Q, Outcome(b, m, d, {}, D, Q, {}),
         NEW c, NEW hooks, NEW leaves, Shaped(c, hooks, leaves), Registers(hooks, D), Asks(c, Q, {})
  PROVE  Lands(b, m, Result(d, c, <<>>))
<1> DEFINE r == Result(d, c, <<>>)
<1>1. r.board = d /\ r.command = c /\ r.removed = <<>>
  BY DEF Result
<1>2. Hooked(c, D)
  BY ShapedIs DEF Registers, Hooked
<1>3. Removes(<<>>, {})
  BY RemovesThese
<1> HIDE DEF r
<1>4. Lands(b, m, r)
  BY <1>1, <1>2, <1>3 DEF Lands
<1> QED  BY <1>4 DEF r

LEMMA SilentAsks ==
  ASSUME NEW c, NEW hooks, Shaped(c, hooks, <<>>)
  PROVE  Asks(c, {}, {})
<1>1. c.leaves = <<>>
  BY ShapedIs
<1>2. (DOMAIN <<>>) = {}
  OBVIOUS
<1> QED  BY <1>1, <1>2 DEF Asks, Starts

LEMMA RequestAsks ==
  ASSUME NEW c, NEW hooks, NEW p, Shaped(c, hooks, <<RequestOf(p)>>)
  PROVE  Asks(c, {p}, {})
<1>1. c.leaves = <<RequestOf(p)>>
  BY ShapedIs
<1>2. RequestOf(p).kind = "Effect"
  BY RequestIs
<1>3. Starts(c, {RequestOf(p)})
  BY <1>1, <1>2 DEF Starts
<1> QED  BY <1>3 DEF Asks

(* A row that changes in its place.                                        *)
Changed(b, d, id, row, state) ==
  /\ Single(b, d, RowPlace(row))
  /\ RowPlace(row) = Place(Segment(id), row.who)
  /\ RowPlace(row) \in Ready(b) <=> row.watched
  /\ RowPlace(row) \in Bare(b) <=> ~row.watched
  /\ RowPlace(row) \in Busy(b) <=> row.syncing
  /\ RowPlace(row) \in Ready(d) <=> state.watched
  /\ RowPlace(row) \in Bare(d) <=> ~state.watched
  /\ RowPlace(row) \in Busy(d) <=> state.syncing
  /\ d.pane = b.pane

LEMMA RowChanges ==
  ASSUME NEW b, BoardWell(b), NEW id, IsRow(b, id), NEW row, row = Row(b, id),
         NEW state \in RowType, state.id = id, state.who = row.who,
         NEW d, d = [b EXCEPT !.rows[Position(b, id)] = state]
  PROVE  Changed(b, d, id, row, state)
<1> DEFINE p == Position(b, id)
           rows == b.rows
           new == [rows EXCEPT ![p] = state]
           s == Segment(id)
           p0 == RowPlace(row)
<1>1. /\ p \in DOMAIN rows /\ rows[p].id = id /\ rows[p] = row
      /\ \A i \in DOMAIN rows : rows[i].id = id => i = p
  BY RowAt DEF Row
<1>2. b \in BoardType /\ rows \in Seq(RowType)
  BY DEF BoardWell, BoardType
<1>3. d = [b EXCEPT !.rows = new]
  BY <1>2 DEF BoardType
<1> HIDE DEF p
<1>4. new \in Seq(RowType) /\ Turns(rows, new, id, {state})
  <2>1. new \in Seq(RowType) /\ (DOMAIN new) = DOMAIN rows /\ new[p] = state
        /\ \A i \in DOMAIN rows : i # p => new[i] = rows[i]
    BY <1>1, <1>2
  <2> HIDE DEF new
  <2> QED  BY <1>1, <2>1 DEF Turns
<1> HIDE DEF new
<1>5. d.rows = new /\ d.pane = b.pane
  BY <1>2, <1>3 DEF BoardType
<1>6. Changes(rows, d.rows, s, {state})
  BY <1>4, <1>5, TurnsChanges
<1>7. RowPlace(state) = p0 /\ p0 = Place(s, row.who) /\ p0.segment = s /\ IsPlace(p0)
  <2>1. row.id = id
    BY <1>1
  <2> QED  BY <2>1 DEF RowPlace, Place, IsPlace
<1>8. s # DetailsSegment /\ Segment(row.id) = s /\ Segment(state.id) = s
  <2>1. s # DetailsSegment
    BY SegmentsDiffer
  <2>2. row.id = id
    BY <1>1
  <2> QED  BY <2>1, <2>2
<1>9. SoleRow(b, s, row)
  <2> SUFFICES ASSUME NEW q, NEW x, q.segment = s
               PROVE  HoldsRow(rows, q, x) <=> x = row /\ q = p0
    BY DEF SoleRow
  <2>1. RowPlace(x).segment = s => x.id = id
    BY SegmentOf, SegmentsDiffer
  <2> QED  BY <1>1, <2>1 DEF HoldsRow
<1>10. SoleRow(d, s, state)
  <2> SUFFICES ASSUME NEW q, NEW x, q.segment = s
               PROVE  HoldsRow(d.rows, q, x) <=> x = state /\ q = RowPlace(state)
    BY DEF SoleRow
  <2> QED  BY <1>6 DEF Changes
<1> HIDE DEF s, p0
<1>11. /\ Sole(b, p0)
       /\ p0 \in Ready(b) <=> row.watched
       /\ p0 \in Bare(b) <=> ~row.watched
       /\ p0 \in Busy(b) <=> row.syncing
  <2>1. /\ Sole(b, RowPlace(row))
        /\ RowPlace(row) \in Ready(b) <=> row.watched
        /\ RowPlace(row) \in Bare(b) <=> ~row.watched
        /\ RowPlace(row) \in Busy(b) <=> row.syncing
    BY ONLY <1>8, <1>9, SoleRowIs
  <2> QED  BY <2>1, Zenon DEF p0
<1>12. /\ Sole(d, p0)
       /\ p0 \in Ready(d) <=> state.watched
       /\ p0 \in Bare(d) <=> ~state.watched
       /\ p0 \in Busy(d) <=> state.syncing
  <2>1. /\ Sole(d, RowPlace(state))
        /\ RowPlace(state) \in Ready(d) <=> state.watched
        /\ RowPlace(state) \in Bare(d) <=> ~state.watched
        /\ RowPlace(state) \in Busy(d) <=> state.syncing
    BY ONLY <1>8, <1>10, SoleRowIs
  <2> QED  BY <1>7, <2>1, Zenon
<1>13. PaneAlike(b, d)
  BY <1>5 DEF PaneAlike, PanePlace, IsOpen
<1>14. Elsewhere(b, d, {s})
  <2>1. PICK now : now = {state}
    OBVIOUS
  <2>2. (\A x \in now : Segment(x.id) = s) /\ Changes(b.rows, d.rows, s, now)
    BY <1>6, <1>8, <2>1
  <2>3. PaneAlike(b, d) => Elsewhere(b, d, {s})
    BY ONLY <2>2, RowsElsewhere
  <2> QED  BY <1>13, <2>3
<1>15. Single(b, d, p0)
  BY <1>7, <1>11, <1>12, <1>14 DEF Single
<1> QED  BY <1>5, <1>7, <1>11, <1>12, <1>15, Zenon DEF Changed, p0, s

(* What an answer answers.                                                 *)
Awaited(b, m) == m.name \in {"Synced", "Loaded"} => \E q \in Busy(b) : m = AnswerTo(q)

LEMMA RowResult ==
  ASSUME NEW b, NEW id, NEW state, NEW command
  PROVE  RowReduced(b, id, ChildResult(state, command))
           = Result([b EXCEPT !.rows[Position(b, id)] = state],
                    Qualified(Wrapped(command, id), Segment(id)), <<>>)
<1> DEFINE r == ChildResult(state, command)
<1>1. r.state = state /\ r.command = command
  BY DEF ChildResult
<1> HIDE DEF r
<1>2. RowReduced(b, id, r)
           = Result([b EXCEPT !.rows[Position(b, id)] = state],
                    Qualified(Wrapped(command, id), Segment(id)), <<>>)
  BY <1>1 DEF RowReduced
<1> QED  BY <1>2 DEF r

(* A second Watch, and a Toggle: the row as it was.                        *)
LEMMA RowKept ==
  ASSUME NEW b, BoardWell(b), NEW id, IsRow(b, id), Waits(b), NEW m, Neutral(b, m),
         NEW d, d = [b EXCEPT !.rows[Position(b, id)] = Row(b, id)]
  PROVE  Outcome(b, m, d, {}, {}, {}, {})
<1>1. Position(b, id) \in DOMAIN b.rows /\ b.rows[Position(b, id)] = Row(b, id) /\ b \in BoardType
  BY RowAt DEF Row, BoardWell
<1>2. [b.rows EXCEPT ![Position(b, id)] = Row(b, id)] = b.rows
  BY <1>1 DEF BoardType
<1>3. d.rows = b.rows /\ d.pane = b.pane
  BY <1>1, <1>2 DEF BoardType
<1> QED  BY <1>3, Still

LEMMA OnlyBareThere ==
  ASSUME NEW b, NEW p0, IsPlace(p0), Sole(b, p0), NEW m, SetsUp(m, p0), p0 \notin Bare(b),
         m.name \notin {"Synced", "Loaded"}
  PROVE  Neutral(b, m)
<1>1. ASSUME NEW p \in Bare(b), SetsUp(m, p) PROVE FALSE
  <2>1. p.segment = p0.segment
    BY <1>1, PlacesAre, SetsUpOne
  <2> QED  BY <1>1, <2>1 DEF Sole
<1> QED  BY <1>1, AnswerIs DEF Neutral

(* A row's reducer, message by message.                                    *)
LEMMA TasksAre ==
  ASSUME NEW row, NEW name
  PROVE  /\ name = "Watch" /\ Watched(row) => Task(row, name) = ChildResult(row, None)
         /\ name = "Watch" /\ ~Watched(row) =>
              Task(row, name) = ChildResult([row EXCEPT !.watched = TRUE],
                                            Batch(<<OnTeardown(row.who), Deliver(Inner("Sync", 0))>>))
         /\ name = "Toggle" => Task(row, name) = ChildResult(row, Deliver(Inner("Sync", 0)))
         /\ name = "Sync" =>
              Task(row, name) = ChildResult([row EXCEPT !.syncing = TRUE], Request("Synced", row.who))
         /\ name = "Synced" => Task(row, name) = ChildResult([row EXCEPT !.syncing = FALSE], None)
<1>1. name = "Watch" /\ Watched(row) => Task(row, name) = ChildResult(row, None)
  BY DEF Task
<1>2. ASSUME name = "Watch", ~Watched(row)
      PROVE  Task(row, name) = ChildResult([row EXCEPT !.watched = TRUE],
                                            Batch(<<OnTeardown(row.who), Deliver(Inner("Sync", 0))>>))
  <2> DEFINE command == Batch(<<OnTeardown(row.who), Deliver(Inner("Sync", 0))>>)
             state == [row EXCEPT !.watched = TRUE]
  <2>1. Task(row, name) = ChildResult(state, command)
    BY <1>2 DEF Task
  <2> QED  BY <2>1
<1>3. name = "Toggle" => Task(row, name) = ChildResult(row, Deliver(Inner("Sync", 0)))
  BY DEF Task
<1>4. name = "Sync" =>
        Task(row, name) = ChildResult([row EXCEPT !.syncing = TRUE], Request("Synced", row.who))
  BY DEF Task
<1>5. name = "Synced" => Task(row, name) = ChildResult([row EXCEPT !.syncing = FALSE], None)
  BY DEF Task
<1> QED  BY <1>1, <1>2, <1>3, <1>4, <1>5

LEMMA WatchLands ==
  ASSUME NEW b, BoardWell(b), Waits(b), NEW m, m.name = "Watch", NEW id, m.id = id, IsRow(b, id),
         NEW row, row = Row(b, id), NEW r, r = RowReduced(b, id, Task(row, "Watch"))
  PROVE  Lands(b, m, r)
<1> DEFINE p0 == RowPlace(row)
<1>1. row \in RowType /\ row.id = id /\ row.who = row.who
  BY RowAt DEF Row
<1>2. Changed(b, [b EXCEPT !.rows[Position(b, id)] = row], id, row, row)
  BY <1>1, RowChanges
<1>3. IsPlace(p0) /\ Sole(b, p0) /\ p0 = Place(Segment(id), row.who)
      /\ (p0 \in Ready(b) <=> row.watched) /\ (p0 \in Bare(b) <=> ~row.watched)
  BY <1>2, Zenon DEF Changed, Single
<1>4. SetsUp(m, p0)
  <2>1. p0.segment = Segment(id)
    BY <1>1, SegmentOf
  <2> HIDE DEF p0
  <2> QED  BY <2>1, SegmentsDiffer DEF SetsUp
<1>5. m.name \notin {"Synced", "Loaded"} /\ \A p \in Busy(b) : AnswerTo(p) # m
  BY AnswerIs
<1>6. CASE row.watched
  <2> DEFINE d == [b EXCEPT !.rows[Position(b, id)] = row]
             c == Qualified(Wrapped(None, id), Segment(id))
  <2>1. Task(row, "Watch") = ChildResult(row, None)
    <3>1. Watched(row)
      BY <1>6, Zenon DEF Watched
    <3> QED  BY <3>1, TasksAre
  <2>2. r = Result(d, c, <<>>)
    <3>1. RowReduced(b, id, ChildResult(row, None)) = Result(d, c, <<>>)
      BY ONLY RowResult, Zenon
    <3> HIDE DEF c, d
    <3> QED  BY <2>1, <3>1
  <2>3. p0 \notin Bare(b)
    BY <1>3, <1>6, Zenon
  <2> HIDE DEF p0
  <2>4. Neutral(b, m)
    BY <1>3, <1>4, <1>5, <2>3, OnlyBareThere
  <2>5. Outcome(b, m, d, {}, {}, {}, {})
    BY <2>4, RowKept
  <2>6. Shaped(c, <<>>, <<>>)
    BY ChildSilent
  <2>7. Asks(c, {}, {})
    BY <2>6, SilentAsks
  <2>8. Registers(<<>>, {})
    BY DEF Registers
  <2> HIDE DEF c, d
  <2> QED  BY <2>2, <2>5, <2>6, <2>7, <2>8, ChildLands
<1>7. CASE ~row.watched
  <2> DEFINE state == [row EXCEPT !.watched = TRUE]
             d == [b EXCEPT !.rows[Position(b, id)] = state]
             sync == Deliver(Inner("Sync", 0))
             setup == Batch(<<OnTeardown(row.who), sync>>)
             c == Qualified(Wrapped(setup, id), Segment(id))
             x == [name |-> "Sync", id |-> id, who |-> 0]
  <2>1. Task(row, "Watch") = ChildResult(state, setup)
    <3>1. ~Watched(row)
      BY <1>7, Zenon DEF Watched
    <3> QED  BY <3>1, TasksAre
  <2>2. r = Result(d, c, <<>>)
    <3> HIDE DEF state, setup
    <3>1. RowReduced(b, id, ChildResult(state, setup)) = Result(d, c, <<>>)
      BY RowResult, Zenon
    <3> HIDE DEF c, d
    <3> QED  BY <2>1, <3>1
  <2>3. /\ state \in RowType /\ state.id = id /\ state.who = row.who
        /\ state.watched = TRUE /\ state.syncing = row.syncing
    BY <1>1 DEF RowType
  <2> HIDE DEF state
  <2>4. Changed(b, d, id, row, state)
    BY <2>3, RowChanges
  <2> HIDE DEF d
  <2>5. Single(b, d, p0) /\ d.pane = b.pane
    BY <2>4, Zenon DEF Changed
  <2>6. p0 \notin Ready(b)
    BY <1>3, <1>7, Zenon
  <2>7. p0 \in Ready(d) /\ p0 \notin Bare(d)
    BY <2>3, <2>4, Zenon DEF Changed
  <2>8. p0 \in Busy(b) <=> p0 \in Busy(d)
    <3>1. (p0 \in Busy(b) <=> row.syncing) /\ (p0 \in Busy(d) <=> state.syncing)
      BY <2>4, Zenon DEF Changed
    <3> QED  BY <2>3, <3>1, Zenon
  <2>9. Waits(d)
    BY <2>5 DEF Waits, IsOpen
  <2> HIDE DEF p0
  <2>10. Outcome(b, m, d, {}, {p0}, {}, {})
    BY <1>4, <1>5, <2>5, <2>6, <2>7, <2>8, <2>9, IsSetUp
  <2> DEFINE hook == [scope |-> Empty, payload |-> row.who]
             leaf == Leaf("Effect", NoKey, Empty, <<Inner("Sync", 0)>>)
             y == Leaf("Effect", IF NoKey = NoKey THEN NoKey ELSE IdScoped(Segment(id), NoKey),
                     <<Segment(id)>>, <<x>>)
             hooks == ScopedHooks(<<hook>>, Segment(id))
  <2>11. Shaped(setup, <<hook>>, <<leaf>>)
    <3>1. Shaped(sync, <<>>, <<leaf>>)
      BY DeliverShaped
    <3> HIDE DEF sync, leaf
    <3> QED  BY <3>1, SetupShaped
  <2> HIDE DEF setup
  <2>12. Shaped(c, hooks, <<y>>)
    <3> HIDE DEF hook
    <3>1. Shaped(setup, <<hook>>, <<Leaf("Effect", NoKey, Empty, <<Inner("Sync", 0)>>)>>)
      BY <2>11
    <3> QED  BY ONLY <3>1, ChildSays
  <2>13. hooks = <<HookOf(p0)>>
    BY <1>3, OneHook
  <2>14. Plain(c, hooks, <<Segment(id)>>, x)
    <3> HIDE DEF c, hooks, x
    <3> QED  BY <2>12 DEF Plain
  <2>15. x.name \notin {"Synced", "Loaded"}
    OBVIOUS
  <2> HIDE DEF c, hooks, x, y
  <2>16. Asks(c, {}, {})
    BY <2>14, <2>15, PlainAsks
  <2>17. Registers(hooks, {p0})
    BY <2>13 DEF Registers
  <2> QED  BY <2>2, <2>10, <2>12, <2>16, <2>17, ChildLands
<1> QED  BY <1>6, <1>7

(* What a row's child says reaches its own row.                            *)
LEMMA RowSays ==
  ASSUME NEW id, NEW name, name \notin {"Synced", "Loaded"}
  PROVE  \E leaves : /\ Shaped(Qualified(Wrapped(Deliver(Inner(name, 0)), id), Segment(id)), <<>>, leaves)
                     /\ Asks(Qualified(Wrapped(Deliver(Inner(name, 0)), id), Segment(id)), {}, {})
<1> DEFINE said == Deliver(Inner(name, 0))
           c == Qualified(Wrapped(said, id), Segment(id))
           x == [name |-> name, id |-> id, who |-> 0]
           y == Leaf("Effect", IF NoKey = NoKey THEN NoKey ELSE IdScoped(Segment(id), NoKey),
                     <<Segment(id)>>, <<x>>)
<1>1. Shaped(said, <<>>, <<Leaf("Effect", NoKey, Empty, <<Inner(name, 0)>>)>>)
  BY DeliverShaped
<1> HIDE DEF said
<1>2. Shaped(c, ScopedHooks(<<>>, Segment(id)), <<y>>)
  BY ONLY <1>1, ChildSays
<1> HIDE DEF c
<1>3. Shaped(c, <<>>, <<y>>)
  <2> HIDE DEF y
  <2> QED  BY <1>2, NoHook
<1>4. Plain(c, <<>>, <<Segment(id)>>, x)
  <2> HIDE DEF x
  <2> QED  BY <1>3 DEF Plain
<1>5. x.name \notin {"Synced", "Loaded"}
  OBVIOUS
<1> HIDE DEF x, y
<1>6. Asks(c, {}, {})
  BY <1>4, <1>5, PlainAsks
<1> QED  BY <1>3, <1>6 DEF c, said

LEMMA ToggleLands ==
  ASSUME NEW b, BoardWell(b), Waits(b), NEW m, m.name = "Toggle", NEW id, IsRow(b, id),
         NEW row, row = Row(b, id), NEW r, r = RowReduced(b, id, Task(row, "Toggle"))
  PROVE  Lands(b, m, r)
<1> DEFINE said == Deliver(Inner("Sync", 0))
           d == [b EXCEPT !.rows[Position(b, id)] = row]
           c == Qualified(Wrapped(said, id), Segment(id))
<1>1. r = Result(d, c, <<>>)
  <2>1. Task(row, "Toggle") = ChildResult(row, said)
    BY TasksAre
  <2>2. RowReduced(b, id, ChildResult(row, said)) = Result(d, c, <<>>)
    BY ONLY RowResult, Zenon
  <2> HIDE DEF c, d, said
  <2> QED  BY <2>1, <2>2
<1>2. Neutral(b, m)
  BY NeutralName
<1>3. Outcome(b, m, d, {}, {}, {}, {})
  BY <1>2, RowKept
<1>4. \E leaves : Shaped(c, <<>>, leaves) /\ Asks(c, {}, {})
  <2>1. "Sync" \notin {"Synced", "Loaded"}
    OBVIOUS
  <2> QED  BY <2>1, RowSays
<1>5. Registers(<<>>, {})
  BY DEF Registers
<1> HIDE DEF c, d
<1> QED  BY <1>1, <1>3, <1>4, <1>5, ChildLands

(* A task that was asked to synchronize has one request, and no other.     *)
LEMMA SyncLands ==
  ASSUME NEW b, BoardWell(b), Waits(b), NEW m, m.name = "Sync", NEW id, IsRow(b, id),
         NEW row, row = Row(b, id), NEW r, r = RowReduced(b, id, Task(row, "Sync"))
  PROVE  Lands(b, m, r)
<1> DEFINE p0 == RowPlace(row)
           asked == Request("Synced", row.who)
           state == [row EXCEPT !.syncing = TRUE]
           d == [b EXCEPT !.rows[Position(b, id)] = state]
           c == Qualified(Wrapped(asked, id), Segment(id))
<1>1. r = Result(d, c, <<>>)
  <2>1. Task(row, "Sync") = ChildResult(state, asked)
    BY TasksAre
  <2> HIDE DEF state, asked
  <2>2. RowReduced(b, id, ChildResult(state, asked)) = Result(d, c, <<>>)
    BY RowResult, Zenon
  <2> HIDE DEF c, d
  <2> QED  BY <2>1, <2>2
<1>2. /\ state \in RowType /\ state.id = id /\ state.who = row.who
      /\ state.syncing = TRUE /\ state.watched = row.watched
  <2>1. row \in RowType /\ row.id = id
    BY RowAt DEF Row
  <2> QED  BY <2>1 DEF RowType
<1> HIDE DEF state
<1>3. Changed(b, d, id, row, state)
  BY <1>2, RowChanges
<1> HIDE DEF d
<1>4. Single(b, d, p0) /\ d.pane = b.pane /\ p0 = Place(Segment(id), row.who)
  BY <1>3, Zenon DEF Changed
<1>5. (p0 \in Ready(b) <=> p0 \in Ready(d)) /\ (p0 \in Bare(b) <=> p0 \in Bare(d))
  <2>1. /\ p0 \in Ready(b) <=> row.watched
        /\ p0 \in Bare(b) <=> ~row.watched
        /\ p0 \in Ready(d) <=> state.watched
        /\ p0 \in Bare(d) <=> ~state.watched
    BY <1>3, Zenon DEF Changed
  <2> QED  BY <1>2, <2>1, Zenon
<1>6. p0 \in Busy(d)
  BY <1>2, <1>3, Zenon DEF Changed
<1>7. Waits(d)
  BY <1>4 DEF Waits, IsOpen
<1>8. Neutral(b, m)
  BY NeutralName
<1> HIDE DEF p0
<1>9. Outcome(b, m, d, {}, {}, {p0}, {})
  BY <1>4, <1>5, <1>6, <1>7, <1>8, Requested
<1>10. Shaped(asked, <<>>, <<Leaf("Effect", SYNC, Empty, <<Inner("Synced", row.who)>>)>>)
  BY RequestShaped
<1>11. AnswerTo(Place(Segment(id), row.who)) = [name |-> "Synced", id |-> id, who |-> row.who]
  BY SegmentsDiffer DEF AnswerTo, Place
<1> HIDE DEF asked
<1>12. Shaped(c, ScopedHooks(<<>>, Segment(id)), <<RequestOf(Place(Segment(id), row.who))>>)
  BY ONLY <1>10, <1>11, ChildRequests
<1> HIDE DEF c
<1>13. Shaped(c, <<>>, <<RequestOf(p0)>>)
  BY <1>4, <1>12, NoHook
<1>14. Asks(c, {p0}, {})
  BY <1>13, RequestAsks
<1>15. Registers(<<>>, {})
  BY DEF Registers
<1> QED  BY <1>1, <1>9, <1>13, <1>14, <1>15, ChildLands

(* The answer of the very row that asked.                                  *)
LEMMA SyncedLands ==
  ASSUME NEW b, BoardWell(b), Waits(b), NEW m, m.name = "Synced", Awaited(b, m),
         NEW id, m.id = id, IsRow(b, id),
         NEW row, row = Row(b, id), NEW r, r = RowReduced(b, id, Task(row, "Synced"))
  PROVE  Lands(b, m, r)
<1> DEFINE p0 == RowPlace(row)
           state == [row EXCEPT !.syncing = FALSE]
           d == [b EXCEPT !.rows[Position(b, id)] = state]
           c == Qualified(Wrapped(None, id), Segment(id))
<1>1. r = Result(d, c, <<>>)
  <2>1. Task(row, "Synced") = ChildResult(state, None)
    BY TasksAre
  <2> HIDE DEF state
  <2>2. RowReduced(b, id, ChildResult(state, None)) = Result(d, c, <<>>)
    BY ONLY RowResult, Zenon
  <2> HIDE DEF c, d
  <2> QED  BY <2>1, <2>2
<1>2. /\ state \in RowType /\ state.id = id /\ state.who = row.who
      /\ state.syncing = FALSE /\ state.watched = row.watched
  <2>1. row \in RowType /\ row.id = id
    BY RowAt DEF Row
  <2> QED  BY <2>1 DEF RowType
<1> HIDE DEF state
<1>3. Changed(b, d, id, row, state)
  BY <1>2, RowChanges
<1> HIDE DEF d
<1>4. Single(b, d, p0) /\ d.pane = b.pane /\ p0 = Place(Segment(id), row.who)
  BY <1>3, Zenon DEF Changed
<1>5. (p0 \in Ready(b) <=> p0 \in Ready(d)) /\ (p0 \in Bare(b) <=> p0 \in Bare(d))
  <2>1. /\ p0 \in Ready(b) <=> row.watched
        /\ p0 \in Bare(b) <=> ~row.watched
        /\ p0 \in Ready(d) <=> state.watched
        /\ p0 \in Bare(d) <=> ~state.watched
    BY <1>3, Zenon DEF Changed
  <2> QED  BY <1>2, <2>1, Zenon
<1>6. p0 \notin Busy(d)
  BY <1>2, <1>3, Zenon DEF Changed
<1>7. Waits(d)
  BY <1>4 DEF Waits, IsOpen
<1> HIDE DEF p0
<1>8. m = AnswerTo(p0)
  <2>1. PICK q \in Busy(b) : m = AnswerTo(q)
    BY DEF Awaited
  <2>2. IsPlace(q) /\ q.segment # DetailsSegment /\ q.segment[2] = id
    BY <2>1, PlacesAre, AnswerIs
  <2>3. q.segment = Segment(id)
    BY <2>2, SegmentsDiffer DEF IsPlace
  <2>4. p0.segment = Segment(id)
    BY <1>4 DEF Place
  <2>5. q = p0
    BY <1>4, <2>1, <2>3, <2>4 DEF Single, Sole
  <2> QED  BY <2>1, <2>5
<1>9. Outcome(b, m, d, {}, {}, {}, {})
  BY <1>4, <1>5, <1>6, <1>7, <1>8, Answered
<1>10. Shaped(c, <<>>, <<>>)
  BY ChildSilent
<1> HIDE DEF c
<1>11. Asks(c, {}, {})
  BY <1>10, SilentAsks
<1>12. Registers(<<>>, {})
  BY DEF Registers
<1> QED  BY <1>1, <1>9, <1>10, <1>11, <1>12, ChildLands

(* A message for a row that has gone.                                      *)
LEMMA GoneLands ==
  ASSUME NEW b, Waits(b), NEW m, m.name \in TaskMessages, Awaited(b, m), ~IsRow(b, m.id)
  PROVE  Lands(b, m, Result(b, None, <<>>))
<1> DEFINE s == Segment(m.id)
<1>1. NoRow(b, s)
  <2>1. ASSUME NEW p, NEW x, p.segment = s, HoldsRow(b.rows, p, x) PROVE FALSE
    <3>1. Segment(x.id) = s /\ \E i \in DOMAIN b.rows : b.rows[i] = x
      BY <2>1, SegmentOf DEF HoldsRow
    <3>2. x.id = m.id
      BY <3>1 DEF Segment
    <3> QED  BY <3>1, <3>2 DEF IsRow
  <2> QED  BY <2>1 DEF NoRow
<1>2. Vacant(b, s)
  BY <1>1, NoRowIs, SegmentsDiffer
<1>3. ASSUME NEW p \in Bare(b), SetsUp(m, p) PROVE FALSE
  <2>1. IsPlace(p) /\ p.segment # DetailsSegment /\ p.segment[2] = m.id
    BY <1>3, PlacesAre DEF SetsUp, TaskMessages
  <2>2. p.segment = s
    BY <2>1, SegmentsDiffer DEF IsPlace
  <2> QED  BY <1>2, <1>3, <2>2 DEF Vacant
<1>4. ASSUME NEW p \in Busy(b), AnswerTo(p) = m PROVE FALSE
  <2>1. IsPlace(p) /\ p.segment # DetailsSegment /\ p.segment[2] = m.id
    BY <1>4, PlacesAre, AnswerIs DEF TaskMessages
  <2>2. p.segment = s
    BY <2>1, SegmentsDiffer DEF IsPlace
  <2> QED  BY <1>2, <1>4, <2>2 DEF Vacant
<1>5. Neutral(b, m)
  BY <1>3, <1>4 DEF Neutral
<1> QED  BY <1>5, StaysSilent

LEMMA RowsLand ==
  ASSUME NEW b, BoardWell(b), Known(runs), IsFiniteSet(DOMAIN cleanups), Waits(b),
         NEW m, m.name \in RootNames \cup TaskMessages, Awaited(b, m), NEW r, r = RowsReduce(b, m)
  PROVE  Lands(b, m, r)
<1>1. CASE m.name \notin TaskMessages
  BY <1>1, RootLands DEF RowsReduce
<1>2. CASE m.name \in TaskMessages /\ ~IsRow(b, m.id)
  BY <1>2, GoneLands DEF RowsReduce
<1>3. CASE m.name \in TaskMessages /\ IsRow(b, m.id)
  <2> DEFINE id == m.id
             row == Row(b, id)
  <2>1. r = RowReduced(b, id, Task(row, m.name))
    BY <1>3 DEF RowsReduce
  <2> HIDE DEF id, row
  <2>2. row = Row(b, id) /\ m.id = id /\ IsRow(b, id)
    BY <1>3 DEF id, row
  <2>3. m.name \in {"Watch", "Toggle", "Sync", "Synced"}
    BY <1>3 DEF TaskMessages
  <2>4. CASE m.name = "Watch"
    BY <2>1, <2>2, <2>4, WatchLands
  <2>5. CASE m.name = "Toggle"
    BY <2>1, <2>2, <2>5, ToggleLands
  <2>6. CASE m.name = "Sync"
    BY <2>1, <2>2, <2>6, SyncLands
  <2>7. CASE m.name = "Synced"
    BY <2>1, <2>2, <2>7, SyncedLands
  <2> QED  BY <2>3, <2>4, <2>5, <2>6, <2>7
<1> QED  BY <1>1, <1>2, <1>3

(* The pane after its child's turn: the same pane, and no other place.     *)
PaneChanged(b, d, state) ==
  /\ Single(b, d, PanePlace(b))
  /\ PanePlace(b) = Place(DetailsSegment, b.pane.who)
  /\ PanePlace(b) \in Ready(b) <=> b.pane.opened
  /\ PanePlace(b) \in Bare(b) <=> ~b.pane.opened
  /\ PanePlace(b) \in Busy(b) <=> b.pane.opened /\ b.pane.loading
  /\ PanePlace(b) \in Ready(d) <=> state.opened
  /\ PanePlace(b) \in Bare(d) <=> ~state.opened
  /\ PanePlace(b) \in Busy(d) <=> state.opened /\ state.loading
  /\ d.pane = state

LEMMA PaneChanges ==
  ASSUME NEW b, BoardWell(b), IsOpen(b), NEW state \in PaneType, state.who = b.pane.who,
         NEW d, d = [b EXCEPT !.pane = state]
  PROVE  PaneChanged(b, d, state)
<1>1. d.rows = b.rows /\ d.pane = state
  BY DEF BoardWell, BoardType
<1>2. IsOpen(d)
  BY <1>1, PaneIsOpen DEF IsOpen
<1>3. PanePlace(d) = PanePlace(b)
  BY <1>1 DEF PanePlace
<1>4. SameRows(b, d)
  BY <1>1 DEF SameRows
<1>5. Elsewhere(b, d, {DetailsSegment})
  BY <1>4, PaneElsewhere
<1>6. PanePlace(b).segment = DetailsSegment /\ IsPlace(PanePlace(b))
      /\ PanePlace(b) = Place(DetailsSegment, b.pane.who)
  BY DEF PanePlace, Place, IsPlace
<1>7. Sole(b, PanePlace(b)) /\ Sole(d, PanePlace(b))
  BY <1>3, PaneIs
<1>8. Single(b, d, PanePlace(b))
  BY <1>5, <1>6, <1>7 DEF Single
<1>9. /\ PanePlace(b) \in Ready(b) <=> b.pane.opened
      /\ PanePlace(b) \in Bare(b) <=> ~b.pane.opened
      /\ PanePlace(b) \in Busy(b) <=> b.pane.opened /\ b.pane.loading
  BY PaneIs
<1>10. /\ PanePlace(b) \in Ready(d) <=> d.pane.opened
       /\ PanePlace(b) \in Bare(d) <=> ~d.pane.opened
       /\ PanePlace(b) \in Busy(d) <=> d.pane.opened /\ d.pane.loading
  BY <1>2, <1>3, PaneIs
<1> QED  BY <1>1, <1>6, <1>8, <1>9, <1>10, Zenon DEF PaneChanged

LEMMA PaneResult ==
  ASSUME NEW b, NEW state, NEW command
  PROVE  PaneReduced(b, ChildResult(state, command))
           = Result([b EXCEPT !.pane = state],
                    Qualified(Wrapped(command, NoTask), DetailsSegment), <<>>)
<1> DEFINE r == ChildResult(state, command)
<1>1. r.state = state /\ r.command = command
  BY DEF ChildResult
<1> HIDE DEF r
<1>2. PaneReduced(b, r)
           = Result([b EXCEPT !.pane = state],
                    Qualified(Wrapped(command, NoTask), DetailsSegment), <<>>)
  BY <1>1 DEF PaneReduced
<1> QED  BY <1>2 DEF r

(* The pane's reducer, message by message.                                 *)
LEMMA DetailsAre ==
  ASSUME NEW pane, NEW name, NEW same \in BOOLEAN
  PROVE  /\ name = "Open" /\ pane.opened => Details(pane, name, same) = ChildResult(pane, None)
         /\ name = "Open" /\ ~pane.opened =>
              Details(pane, name, same)
                = ChildResult([pane EXCEPT !.opened = TRUE],
                              Batch(<<OnTeardown(pane.who), Request("Loaded", pane.who)>>))
         /\ name = "Loaded" => Details(pane, name, same) = ChildResult([pane EXCEPT !.loading = FALSE], None)
         /\ name = "Input" =>
              \/ Details(pane, name, same) = ChildResult([pane EXCEPT !.edited = TRUE], None)
              \/ Details(pane, name, same) = ChildResult([pane EXCEPT !.edited = FALSE], None)
<1>1. name = "Open" /\ pane.opened => Details(pane, name, same) = ChildResult(pane, None)
  BY DEF Details
<1>2. ASSUME name = "Open", ~pane.opened
      PROVE  Details(pane, name, same)
                = ChildResult([pane EXCEPT !.opened = TRUE],
                              Batch(<<OnTeardown(pane.who), Request("Loaded", pane.who)>>))
  <2> DEFINE command == Batch(<<OnTeardown(pane.who), Request("Loaded", pane.who)>>)
             state == [pane EXCEPT !.opened = TRUE]
  <2>1. Details(pane, name, same) = ChildResult(state, command)
    BY <1>2 DEF Details
  <2> QED  BY <2>1
<1>3. name = "Loaded" => Details(pane, name, same) = ChildResult([pane EXCEPT !.loading = FALSE], None)
  BY DEF Details
<1>4. ASSUME name = "Input"
      PROVE  \/ Details(pane, name, same) = ChildResult([pane EXCEPT !.edited = TRUE], None)
             \/ Details(pane, name, same) = ChildResult([pane EXCEPT !.edited = FALSE], None)
  <2>1. CASE same
    BY <1>4, <2>1 DEF Details
  <2>2. CASE ~same
    BY <1>4, <2>2 DEF Details
  <2> QED  BY <2>1, <2>2
<1> QED  BY <1>1, <1>2, <1>3, <1>4

LEMMA InputLands ==
  ASSUME NEW b, BoardWell(b), IsOpen(b), Waits(b), NEW m, m.name = "Input", NEW same \in BOOLEAN,
         NEW r, r = PaneReduced(b, Details(b.pane, "Input", same))
  PROVE  Lands(b, m, r)
<1> DEFINE c == Qualified(Wrapped(None, NoTask), DetailsSegment)
<1>1. \E state : /\ state = [b.pane EXCEPT !.edited = TRUE] \/ state = [b.pane EXCEPT !.edited = FALSE]
                 /\ Details(b.pane, "Input", same) = ChildResult(state, None)
  <2> DEFINE typed == [b.pane EXCEPT !.edited = TRUE]
             back == [b.pane EXCEPT !.edited = FALSE]
  <2>1. \/ Details(b.pane, "Input", same) = ChildResult(typed, None)
        \/ Details(b.pane, "Input", same) = ChildResult(back, None)
    BY DetailsAre
  <2> HIDE DEF typed, back
  <2>2. \E state : /\ state = typed \/ state = back
                   /\ Details(b.pane, "Input", same) = ChildResult(state, None)
    BY <2>1
  <2> QED  BY <2>2 DEF typed, back
<1>2. PICK state : /\ state = [b.pane EXCEPT !.edited = TRUE] \/ state = [b.pane EXCEPT !.edited = FALSE]
                   /\ Details(b.pane, "Input", same) = ChildResult(state, None)
  BY <1>1
<1> DEFINE d == [b EXCEPT !.pane = state]
<1>3. r = Result(d, c, <<>>)
  <2>1. PaneReduced(b, ChildResult(state, None)) = Result(d, c, <<>>)
    BY ONLY PaneResult, Zenon
  <2> HIDE DEF c, d
  <2> QED  BY <1>2, <2>1
<1>4. b.pane \in PaneType
  BY OpenPane
<1>5. /\ state \in PaneType /\ state.who = b.pane.who
      /\ state.opened = b.pane.opened /\ state.loading = b.pane.loading
  BY <1>2, <1>4 DEF PaneType
<1>6. d.rows = b.rows /\ d.pane = state
  BY DEF BoardWell, BoardType
<1> HIDE DEF d
<1>7. Neutral(b, m)
  BY NeutralName
<1>8. Outcome(b, m, d, {}, {}, {}, {})
  BY <1>5, <1>6, <1>7, Retyped
<1>9. Shaped(c, <<>>, <<>>)
  BY ChildSilent
<1> HIDE DEF c
<1>10. Asks(c, {}, {}) /\ Registers(<<>>, {})
  BY <1>9, SilentAsks DEF Registers
<1> QED  BY <1>3, <1>8, <1>9, <1>10, ChildLands

(* The answer of the very pane that asked.                                 *)
LEMMA LoadedLands ==
  ASSUME NEW b, BoardWell(b), IsOpen(b), NEW m, m.name = "Loaded", Awaited(b, m),
         NEW same \in BOOLEAN, NEW r, r = PaneReduced(b, Details(b.pane, "Loaded", same))
  PROVE  Lands(b, m, r)
<1> DEFINE p0 == PanePlace(b)
           state == [b.pane EXCEPT !.loading = FALSE]
           d == [b EXCEPT !.pane = state]
           c == Qualified(Wrapped(None, NoTask), DetailsSegment)
<1>1. r = Result(d, c, <<>>)
  <2>1. Details(b.pane, "Loaded", same) = ChildResult(state, None)
    BY DetailsAre
  <2> HIDE DEF state
  <2>2. PaneReduced(b, ChildResult(state, None)) = Result(d, c, <<>>)
    BY ONLY PaneResult, Zenon
  <2> HIDE DEF c, d
  <2> QED  BY <2>1, <2>2
<1>2. b.pane \in PaneType
  BY OpenPane
<1>3. /\ state \in PaneType /\ state.who = b.pane.who
      /\ state.opened = b.pane.opened /\ state.loading = FALSE
  BY <1>2 DEF PaneType
<1> HIDE DEF state
<1>4. PaneChanged(b, d, state)
  BY <1>3, PaneChanges
<1> HIDE DEF d
<1>5. Single(b, d, p0) /\ d.pane = state
  BY <1>4, Zenon DEF PaneChanged
<1>6. (p0 \in Ready(b) <=> p0 \in Ready(d)) /\ (p0 \in Bare(b) <=> p0 \in Bare(d))
  <2>1. /\ p0 \in Ready(b) <=> b.pane.opened
        /\ p0 \in Bare(b) <=> ~b.pane.opened
        /\ p0 \in Ready(d) <=> state.opened
        /\ p0 \in Bare(d) <=> ~state.opened
    BY <1>4, Zenon DEF PaneChanged
  <2> QED  BY <1>3, <2>1, Zenon
<1>7. p0 \notin Busy(d)
  BY <1>3, <1>4, Zenon DEF PaneChanged
<1>8. p0 \in Busy(b) <=> b.pane.opened /\ b.pane.loading
  BY <1>4, Zenon DEF PaneChanged
<1>9. p0.segment = DetailsSegment
  BY SegmentOf
<1> HIDE DEF p0
<1>10. m = AnswerTo(p0) /\ p0 \in Busy(b)
  <2>1. PICK q \in Busy(b) : m = AnswerTo(q)
    BY DEF Awaited
  <2>2. q.segment = DetailsSegment
    BY <2>1, AnswerIs
  <2>3. q = p0
    BY <1>5, <1>9, <2>1, <2>2 DEF Single, Sole
  <2> QED  BY <2>1, <2>3
<1>11. Waits(d)
  <2>1. b.pane.opened
    BY <1>8, <1>10, Zenon
  <2>2. d.pane.opened
    BY <1>3, <1>5, <2>1, Zenon
  <2> QED  BY <2>2, Zenon DEF Waits
<1>12. Outcome(b, m, d, {}, {}, {}, {})
  BY <1>5, <1>6, <1>7, <1>10, <1>11, Answered
<1>13. Shaped(c, <<>>, <<>>)
  BY ChildSilent
<1> HIDE DEF c
<1>14. Asks(c, {}, {}) /\ Registers(<<>>, {})
  BY <1>13, SilentAsks DEF Registers
<1> QED  BY <1>1, <1>12, <1>13, <1>14, ChildLands

(* The pane's setup: its hook and its request, for this instance.          *)
LEMMA SetupLands ==
  ASSUME NEW b, BoardWell(b), IsOpen(b), Waits(b), NEW m, m.name = "Open", NEW same \in BOOLEAN,
         NEW r, r = PaneReduced(b, Details(b.pane, "Open", same))
  PROVE  Lands(b, m, r)
<1> DEFINE p0 == PanePlace(b)
<1>1. b.pane \in PaneType
  BY OpenPane
<1>2. b = [b EXCEPT !.pane = b.pane]
  BY DEF BoardWell, BoardType
<1>3. PaneChanged(b, b, b.pane)
  BY <1>1, <1>2, PaneChanges
<1>4. IsPlace(p0) /\ Sole(b, p0) /\ p0 = Place(DetailsSegment, b.pane.who)
      /\ (p0 \in Ready(b) <=> b.pane.opened) /\ (p0 \in Bare(b) <=> ~b.pane.opened)
  BY <1>3, Zenon DEF PaneChanged, Single
<1>5. SetsUp(m, p0)
  BY SegmentOf DEF SetsUp
<1>6. m.name \notin {"Synced", "Loaded"} /\ \A p \in Busy(b) : AnswerTo(p) # m
  BY AnswerIs
<1>7. CASE b.pane.opened
  <2> DEFINE d == [b EXCEPT !.pane = b.pane]
             c == Qualified(Wrapped(None, NoTask), DetailsSegment)
             pane == b.pane
  <2>1. r = Result(d, c, <<>>)
    <3>1. Details(pane, "Open", same) = ChildResult(pane, None)
      BY <1>7, DetailsAre
    <3>2. PaneReduced(b, ChildResult(pane, None)) = Result(d, c, <<>>)
      BY ONLY PaneResult, Zenon
    <3> HIDE DEF c, d
    <3> QED  BY <3>1, <3>2
  <2>2. p0 \notin Bare(b)
    BY <1>4, <1>7, Zenon
  <2> HIDE DEF p0
  <2>3. Neutral(b, m)
    BY <1>4, <1>5, <1>6, <2>2, OnlyBareThere
  <2>4. d.rows = b.rows /\ d.pane = b.pane
    BY DEF BoardWell, BoardType
  <2> HIDE DEF d
  <2>5. Outcome(b, m, d, {}, {}, {}, {})
    BY <2>3, <2>4, Still
  <2>6. Shaped(c, <<>>, <<>>)
    BY ChildSilent
  <2> HIDE DEF c
  <2>7. Asks(c, {}, {}) /\ Registers(<<>>, {})
    BY <2>6, SilentAsks DEF Registers
  <2> QED  BY <2>1, <2>5, <2>6, <2>7, ChildLands
<1>8. CASE ~b.pane.opened
  <2> DEFINE who == b.pane.who
             request == Request("Loaded", who)
             setup == Batch(<<OnTeardown(who), request>>)
             state == [b.pane EXCEPT !.opened = TRUE]
             d == [b EXCEPT !.pane = state]
             c == Qualified(Wrapped(setup, NoTask), DetailsSegment)
             hook == [scope |-> Empty, payload |-> who]
             hooks == ScopedHooks(<<hook>>, DetailsSegment)
             leaf == Leaf("Effect", SYNC, Empty, <<Inner("Loaded", who)>>)
  <2>1. r = Result(d, c, <<>>)
    <3>1. Details(b.pane, "Open", same) = ChildResult(state, setup)
      BY <1>8, DetailsAre
    <3> HIDE DEF state, setup
    <3>2. PaneReduced(b, ChildResult(state, setup)) = Result(d, c, <<>>)
      BY PaneResult, Zenon
    <3> HIDE DEF c, d
    <3> QED  BY <3>1, <3>2
  <2>2. /\ state \in PaneType /\ state.who = b.pane.who
        /\ state.opened = TRUE /\ state.loading = b.pane.loading
    BY <1>1 DEF PaneType
  <2> HIDE DEF state
  <2>3. PaneChanged(b, d, state)
    BY <2>2, PaneChanges
  <2> HIDE DEF d
  <2>4. Single(b, d, p0) /\ d.pane = state
    BY <2>3, Zenon DEF PaneChanged
  <2>5. p0 \notin Ready(b)
    BY <1>4, <1>8, Zenon
  <2>6. p0 \in Ready(d) /\ p0 \notin Bare(d)
    BY <2>2, <2>3, Zenon DEF PaneChanged
  <2>7. b.pane.loading
    BY <1>8, Zenon DEF Waits
  <2>8. p0 \in Busy(d)
    <3>1. state.loading
      BY <2>2, <2>7, Zenon
    <3> QED  BY <2>2, <2>3, <3>1, Zenon DEF PaneChanged
  <2>9. Waits(d)
    <3>1. d.pane.opened
      BY <2>2, <2>4, Zenon
    <3> QED  BY <3>1, Zenon DEF Waits
  <2> HIDE DEF p0
  <2>10. Outcome(b, m, d, {}, {p0}, {p0}, {})
    BY <1>5, <1>6, <2>4, <2>5, <2>6, <2>8, <2>9, IsSetUp
  <2>11. Shaped(setup, <<hook>>, <<leaf>>)
    <3>1. Shaped(request, <<>>, <<leaf>>)
      BY RequestShaped
    <3> HIDE DEF request, leaf
    <3> QED  BY <3>1, SetupShaped
  <2>12. AnswerTo(Place(DetailsSegment, who)) = [name |-> "Loaded", id |-> NoTask, who |-> who]
    BY DEF AnswerTo, Place
  <2> HIDE DEF setup
  <2>13. Shaped(c, hooks, <<RequestOf(Place(DetailsSegment, who))>>)
    <3> HIDE DEF hook
    <3>1. Shaped(setup, <<hook>>, <<Leaf("Effect", SYNC, Empty, <<Inner("Loaded", who)>>)>>)
      BY <2>11
    <3> QED  BY ONLY <2>12, <3>1, ChildRequests
  <2>14. hooks = <<HookOf(p0)>>
    BY <1>4, OneHook
  <2> HIDE DEF c, hooks
  <2>15. Shaped(c, hooks, <<RequestOf(p0)>>)
    BY <1>4, <2>13
  <2>16. Asks(c, {p0}, {})
    BY <2>15, RequestAsks
  <2>17. Registers(hooks, {p0})
    BY <2>14 DEF Registers
  <2> QED  BY <2>1, <2>10, <2>15, <2>16, <2>17, ChildLands
<1> QED  BY <1>7, <1>8

(* A message for a pane that has gone.                                     *)
LEMMA ClosedLands ==
  ASSUME NEW b, Waits(b), NEW m, m.name \in DetailsMessages, ~IsOpen(b)
  PROVE  Lands(b, m, Result(b, None, <<>>))
<1>1. Vacant(b, DetailsSegment)
  BY PaneIs
<1>2. ASSUME NEW p \in Bare(b), SetsUp(m, p) PROVE FALSE
  <2>1. p.segment = DetailsSegment
    BY <1>2 DEF SetsUp, DetailsMessages
  <2> QED  BY <1>1, <1>2, <2>1 DEF Vacant
<1>3. ASSUME NEW p \in Busy(b), AnswerTo(p) = m PROVE FALSE
  <2>1. p.segment = DetailsSegment
    BY <1>3, AnswerIs DEF DetailsMessages
  <2> QED  BY <1>1, <1>3, <2>1 DEF Vacant
<1>4. Neutral(b, m)
  BY <1>2, <1>3 DEF Neutral
<1> QED  BY <1>4, StaysSilent

LEMMA PaneLands ==
  ASSUME NEW b, BoardWell(b), Known(runs), IsFiniteSet(DOMAIN cleanups), Waits(b),
         NEW m \in Message, Awaited(b, m), NEW same \in BOOLEAN, NEW r, r = PaneReduce(b, m, same)
  PROVE  Lands(b, m, r)
<1>1. CASE m.name \notin DetailsMessages
  <2>1. m.name \in RootNames \cup TaskMessages
    BY <1>1 DEF Message, Names, RootNames
  <2>2. r = RowsReduce(b, m)
    BY <1>1 DEF PaneReduce
  <2> QED  BY <2>1, <2>2, RowsLand
<1>2. CASE m.name \in DetailsMessages /\ ~IsOpen(b)
  BY <1>2, ClosedLands DEF PaneReduce
<1>3. CASE m.name \in DetailsMessages /\ IsOpen(b)
  <2>1. r = PaneReduced(b, Details(b.pane, m.name, same))
    BY <1>3 DEF PaneReduce
  <2>2. m.name \in {"Open", "Loaded", "Input"}
    BY <1>3 DEF DetailsMessages
  <2>3. CASE m.name = "Open"
    BY <1>3, <2>1, <2>3, SetupLands
  <2>4. CASE m.name = "Loaded"
    BY <1>3, <2>1, <2>4, LoadedLands
  <2>5. CASE m.name = "Input"
    BY <1>3, <2>1, <2>5, InputLands
  <2> QED  BY <2>2, <2>3, <2>4, <2>5
<1> QED  BY <1>1, <1>2, <1>3

LEMMA ReduceSettles ==
  ASSUME NEW b, BoardWell(b), Known(runs), IsFiniteSet(DOMAIN cleanups), Waits(b),
         NEW m \in Message, Awaited(b, m), NEW same \in BOOLEAN, NEW r, r = Reduce(b, m, same)
  PROVE  Settles(b, m, r.board, r.command)
<1> DEFINE s == PaneReduce(b, m, same)
<1>1. Lands(b, m, s)
  BY PaneLands
<1>2. r = Owed(s)
  BY DEF Reduce
<1> HIDE DEF s
<1> QED  BY <1>1, <1>2, LandsSettles
-----------------------------------------------------------------------------
(* The composed dashboard: what is held, in every step.                    *)

(* A message that is on its way changes nothing that is held.              *)
LEMMA Speaks ==
  ASSUME NEW b, NEW bag, NEW hooks, Accounted(b, bag, hooks), NEW payload, Quiet(payload),
         NEW c, Shaped(c, <<>>, <<Leaf("Effect", NoKey, Empty, payload)>>),
         NEW d, d.rows = b.rows, d.pane = b.pane
  PROVE  Accounted(d, Dispatched(bag, c), hooks)
<1> DEFINE leaf == Leaf("Effect", NoKey, Empty, payload)
           out == Dispatched(bag, c)
<1>1. c.cancels = <<>> /\ c.teardowns = <<>> /\ c.leaves = <<leaf>>
  BY ShapedIs
<1>2. leaf.kind = "Effect" /\ leaf.key = NoKey /\ leaf.payload = payload /\ ~IsKeyed(leaf)
  BY DEF Leaf, IsKeyed
<1> HIDE DEF leaf
<1> DEFINE new == {leaf}
<1>3. Starts(c, new)
  BY <1>1, <1>2 DEF Starts
<1>4. \A x : Stays(c, new, x)
  <2>1. \A x : ~Torn(c, x.scope)
    BY <1>1 DEF Torn
  <2>2. \A x : ~SameSlot(x, leaf)
    BY <1>2 DEF SameSlot
  <2> QED  BY <2>1, <2>2 DEF Stays
<1>5. Ready(d) = Ready(b) /\ Bare(d) = Bare(b) /\ Busy(d) = Busy(b)
  BY DEF Ready, Bare, Busy, PanePlace, IsOpen
<1>6. Hooks(d) = Hooks(b) /\ Requests(d) = Requests(b)
  BY <1>5 DEF Hooks, Requests
<1>7. /\ hooks = SetToBag(Hooks(b)) /\ Counted(bag) /\ Keep(bag, IsKeyed) = SetToBag(Requests(b))
      /\ \A x \in DOMAIN bag : ~IsKeyed(x) => Quiet(x.payload)
      /\ \A p \in Bare(b) : \E x \in DOMAIN bag : Sets(x, p)
      /\ IsOpen(b) => b.pane.opened \/ b.pane.loading
  BY DEF Accounted
<1>8. out = Dispatched(bag, c)
  OBVIOUS
<1> HIDE DEF out
<1>9. /\ Counted(out)
      /\ \A x : x \in DOMAIN out <=> (x \in DOMAIN bag /\ Stays(c, new, x)) \/ x \in new
  BY ONLY <1>1, <1>3, <1>7, <1>8, DispatchedIs
<1>10. Keep(out, IsKeyed) = SetToBag(Requests(b))
  <2> DEFINE S == Requests(b)
  <2>1. RequestsBecome(S, c, new, S)
    BY <1>2, <1>4 DEF RequestsBecome
  <2>2. Keep(bag, IsKeyed) = SetToBag(S)
    BY <1>7
  <2> HIDE DEF S, new
  <2>3. Keep(Dispatched(bag, c), IsKeyed) = SetToBag(S)
    BY ONLY <1>1, <1>3, <1>7, <2>1, <2>2, RequestsDispatched
  <2> QED  BY <1>8, <2>3 DEF S
<1>11. \A x \in DOMAIN out : ~IsKeyed(x) => Quiet(x.payload)
  BY <1>2, <1>7, <1>9
<1>12. \A p \in Bare(b) : \E x \in DOMAIN out : Sets(x, p)
  BY <1>4, <1>7, <1>9
<1>13. IsOpen(d) => d.pane.opened \/ d.pane.loading
  BY <1>7 DEF IsOpen
<1>14. hooks = SetToBag(Hooks(d)) /\ Keep(out, IsKeyed) = SetToBag(Requests(d))
  BY <1>6, <1>7, <1>10
<1>15. \A p \in Bare(d) : \E x \in DOMAIN out : Sets(x, p)
  BY <1>5, <1>12
<1> QED  BY <1>8, <1>9, <1>11, <1>13, <1>14, <1>15 DEF Accounted

LEMMA NothingHeld == ASSUME NEW b, b.rows = <<>>, b.pane = NoPane PROVE Accounted(b, EmptyBag, EmptyBag)
<1>1. ~IsOpen(b)
  BY DEF IsOpen
<1>2. ToSet(b.rows) = {}
  BY DEF ToSet
<1>3. Ready(b) = {} /\ Bare(b) = {} /\ Busy(b) = {}
  BY <1>1, <1>2 DEF Ready, Bare, Busy
<1>4. Hooks(b) = {} /\ Requests(b) = {}
  BY <1>3 DEF Hooks, Requests
<1>5. EmptyBag = SetToBag({}) /\ (DOMAIN EmptyBag) = {}
  BY DEF EmptyBag, SetToBag
<1>6. Keep(EmptyBag, IsKeyed) = SetToBag({})
  BY <1>5, KeptAre
<1> QED  BY <1>1, <1>3, <1>4, <1>5, <1>6 DEF Accounted, Counted

LEMMA HeldAtFirst == BoardInit => Accounted(board, runs, cleanups)
<1> SUFFICES ASSUME BoardInit PROVE Accounted(board, runs, cleanups)
  OBVIOUS
<1> DEFINE messages == [i \in 1..Seeds |-> RootMsg("AddTask")]
           c == Stream(messages)
<1>1. board.rows = <<>> /\ board.pane = NoPane
  BY DEF BoardInit, NewBoard
<1>2. Accounted(board, EmptyBag, EmptyBag)
  BY <1>1, NothingHeld
<1>3. Quiet(messages)
  BY DEF Quiet, RootMsg, Msg
<1>4. runs = Dispatched(EmptyBag, c) /\ cleanups = EmptyBag
  BY DEF BoardInit
<1> HIDE DEF messages
<1>5. Shaped(c, <<>>, <<Leaf("Effect", NoKey, Empty, messages)>>)
  BY EffectIs, LeafShaped DEF Stream
<1> HIDE DEF c
<1>6. Accounted(board, Dispatched(EmptyBag, c), EmptyBag)
  BY <1>2, <1>3, <1>5, Speaks
<1> QED  BY <1>4, <1>6

(* A key asks for nothing that only an instance may ask for.               *)
LEMMA KeysAreQuiet ==
  ASSUME NEW b, NEW m \in KeyMessages(b)
  PROVE  m.name \notin {"Synced", "Loaded"}
<1>1. \/ \E name \in {"Quit", "FocusNext", "SelectPrev", "SelectNext", "AddTask", "CloseDetails",
                      "SaveNotes", "Input", "NoTaskSelected"} : m = Msg(name, NoTask)
      \/ \E name \in {"Toggle", "DeleteTask", "ReloadTask", "OpenDetails"} : m = Msg(name, b.selected)
  BY DEF KeyMessages, RootMsg, OnSelected
<1> QED  BY <1>1 DEF Msg

LEMMA HeldAlways ==
  ASSUME BoardInv, Accounted(board, runs, cleanups), [BoardNext]_boardVars
  PROVE  Accounted(board, runs, cleanups)'
<1>1. ASSUME NEW m \in KeyMessages(board), Press(m) PROVE Accounted(board', runs', cleanups')
  <2> DEFINE payload == <<m>>
             c == Deliver(m)
  <2>1. Quiet(payload)
    <3>1. m.name \notin {"Synced", "Loaded"}
      BY KeysAreQuiet
    <3> QED  BY <3>1 DEF Quiet
  <2>2. Shaped(c, <<>>, <<Leaf("Effect", NoKey, Empty, payload)>>)
    BY DeliverShaped
  <2>3. runs' = Dispatched(runs, c) /\ cleanups' = cleanups
    BY <1>1 DEF Press
  <2>4. board' = board \/ board' = Say(board, FALSE)
    BY <1>1 DEF Press
  <2>5. board'.rows = board.rows /\ board'.pane = board.pane
    BY <2>4 DEF Say, BoardInv, BoardWell, BoardType
  <2> HIDE DEF payload, c
  <2>6. Accounted(board', Dispatched(runs, c), cleanups)
    BY <2>1, <2>2, <2>5, Speaks
  <2> QED  BY <2>3, <2>6
<1>2. ASSUME NEW run \in DOMAIN runs, NEW same \in BOOLEAN, Land(run, same)
      PROVE  Accounted(board', runs', cleanups')
  <2> DEFINE m == run.payload[1]
             r == Reduce(board, m, same)
             left == After(runs, run)
  <2>1. Speaking(run) /\ m \in Message
    BY DEF BoardInv, Known, Speaking, Says
  <2>2. /\ board' = r.board /\ runs' = Dispatched(left, r.command)
        /\ cleanups' = Armed(cleanups, r.command)
    BY <1>2 DEF Land, Landed
  <2>3. m = run.payload[1] /\ r = Reduce(board, m, same) /\ left = After(runs, run)
    OBVIOUS
  <2> HIDE DEF m, r, left
  <2>4. Source(board, runs, run, m)
    BY <2>1, <2>3 DEF Source, Accounted
  <2>5. Awaited(board, m)
    <3>1. CASE IsKeyed(run)
      BY <2>4, <3>1, SourceIs DEF Awaited
    <3>2. CASE ~IsKeyed(run)
      <4>1. Quiet(run.payload) /\ 1 \in DOMAIN run.payload
        BY <2>4, <3>2, SourceIs DEF Source
      <4> QED  BY <2>3, <4>1 DEF Quiet, Awaited
    <3> QED  BY <3>1, <3>2
  <2>6. Waits(board)
    BY DEF Accounted, Waits
  <2>7. Settles(board, m, r.board, r.command)
    BY <2>1, <2>3, <2>5, <2>6, ReduceSettles DEF BoardInv
  <2>8. Accounted(r.board, Dispatched(After(runs, run), r.command), Armed(cleanups, r.command))
    BY <2>1, <2>3, <2>7, Landing
  <2> QED  BY <2>2, <2>3, <2>8
<1>3. CASE TerminalError \/ UNCHANGED boardVars
  <2>1. board' = board /\ runs' = runs /\ cleanups' = cleanups
    BY <1>3 DEF TerminalError, boardVars
  <2> QED  BY <2>1
<1> QED  BY <1>1, <1>2, <1>3 DEF BoardNext

(* Whatever rows and panes come and go while their messages are on the     *)
(* way: every instance that was set up has its one hook, every one that    *)
(* waits its one request, every other its setup to come, and what has gone *)
(* holds nothing (dashboard_composed.rs, for_each and presented, and the   *)
(* teardowns of what they removed).                                        *)
THEOREM InstancesKept == BoardSpec => []InstancesAccounted
<1>1. BoardInit => BoardInv /\ Accounted(board, runs, cleanups)
  BY BoardStarts, HeldAtFirst
<1>2. BoardInv /\ Accounted(board, runs, cleanups) /\ [BoardNext]_boardVars
        => (BoardInv /\ Accounted(board, runs, cleanups))'
  BY BoardSteps, HeldAlways
<1>3. BoardInv /\ Accounted(board, runs, cleanups) => InstancesAccounted
  BY DEF Accounted, InstancesAccounted, Hooks, Requests, Sets
<1> QED  BY <1>1, <1>2, <1>3, PTL DEF BoardSpec
=============================================================================
