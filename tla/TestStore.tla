------------------------------ MODULE TestStore ------------------------------
(***************************************************************************)
(* The non-executing test store (src/testing.rs): a test drives one        *)
(* application through send, receive, receive_quit, advance and finish,    *)
(* and the store holds what its commands returned: pending leaves, armed   *)
(* and running cleanups, a paused clock.                                   *)
(*                                                                         *)
(* The test is the environment: it calls any operation next.  So is the    *)
(* application: update returns any command of the program.  Each           *)
(* operation is one step, a function of the store's records; a failed      *)
(* assertion ends the test.                                                *)
(***************************************************************************)
EXTENDS Effects, FiniteSets

CONSTANTS
  Programs,      \* [init: a command, updates: a set of commands]
  Durations,     \* arguments of advance
  MaxTime,       \* bound on the clock
  MaxUpdates     \* bound on the calls of update

ASSUME StoreAssumption == Durations \subseteq Nat /\ MaxTime \in Nat /\ MaxUpdates \in Nat

(* What the constructors of a command build: scripts and retry loops that  *)
(* have not started, and that Fuel lets run until they rest, under         *)
(* timeouts that have not started either.                                  *)
IsSeq(s) == s \in Seq(ToSet(s))

PlainAnswer(answer) ==
  answer = Quit \/ (answer = Message(answer.of, answer.n) /\ answer.of # "timeout")

PlainStep(step) ==
  \/ step = Hang
  \/ step.do = "Wait" /\ step = Wait(step.time) /\ step.time \in Nat
  \/ step.do = "Emit" /\ step = Emit(step.answer) /\ PlainAnswer(step.answer)

Plain(steps) == Len(steps) <= Fuel /\ \A k \in DOMAIN steps : PlainStep(steps[k])

PolicyOK(policy) ==
  /\ policy.max \in Nat \ {0} /\ 4 * policy.max <= Fuel
  /\ policy.delay \in Nat
  /\ \A n \in 1..policy.max : policy.takes[n] \in Nat

Looping(steps) ==
  Len(steps) = 1 /\ steps[1] = Try(steps[1].policy, 1) /\ PolicyOK(steps[1].policy)

SourceOK(src) == src = Source(src.steps) /\ IsSeq(src.steps)

LayerOK(layer) == layer = Layer(layer.duration, layer.call) /\ layer.duration \in Nat

EffectOK(effect) ==
  /\ effect = [src |-> effect.src, layers |-> effect.layers, policy |-> effect.policy]
  /\ SourceOK(effect.src) /\ (Plain(effect.src.steps) \/ Looping(effect.src.steps))
  /\ IsSeq(effect.layers) /\ \A i \in DOMAIN effect.layers : LayerOK(effect.layers[i])

LeafOK(leaf) ==
  /\ leaf = [kind |-> leaf.kind, key |-> leaf.key, scope |-> leaf.scope, payload |-> leaf.payload]
  /\ EffectOK(leaf.payload)

CleanupOK(cleanup) ==
  /\ cleanup = [scope |-> cleanup.scope, payload |-> cleanup.payload]
  /\ SourceOK(cleanup.payload) /\ Plain(cleanup.payload.steps)

CommandOK(command) ==
  /\ IsSeq(command.cancels) /\ IsSeq(command.teardowns)
  /\ IsSeq(command.leaves) /\ \A i \in DOMAIN command.leaves : LeafOK(command.leaves[i])
  /\ IsSeq(command.cleanups) /\ \A i \in DOMAIN command.cleanups : CleanupOK(command.cleanups[i])

ASSUME ProgramAssumption ==
  \A p \in Programs : CommandOK(p.init) /\ \A command \in p.updates : CommandOK(command)

VARIABLES
  pending,    \* undelivered leaves, in enqueue order
  armed,      \* cleanup registrations, in arming order
  running,    \* cleanups started and not finished
  spent,      \* timeout calls whose closure was taken
  now,        \* the virtual clock
  redraw,     \* redraw_requested
  quit,       \* QuitState
  verdict,    \* "Open", or how the test ended: "Passed" or "Failed"
  updates,    \* commands enqueued so far
  leaves,     \* history: every leaf enqueued (enqueued_leaves is its length)
  hooks,      \* history: every registration (armed_registrations is its length)
  fired,      \* history: timeout messages made, by call
  revoked,    \* history: leaves cancelled, replaced or torn down
  started,    \* history: the cleanups started, and when
  received,   \* history: what was delivered, of which leaf
  refusals,   \* history: spawns a slot refused, with the leaves that held it
  program     \* the application under test

vars == <<pending, armed, running, spent, now, redraw, quit, verdict, updates,
          leaves, hooks, fired, revoked, started, received, refusals, program>>

(* The records that an operation works on.                                 *)
Book == [pending |-> pending, armed |-> armed, running |-> running, spent |-> spent,
         leaves |-> leaves, hooks |-> hooks, fired |-> fired,
         revoked |-> revoked, started |-> started, refusals |-> refusals]

Commit(book) ==
  /\ pending' = book.pending
  /\ armed' = book.armed
  /\ running' = book.running
  /\ spent' = book.spent
  /\ leaves' = book.leaves
  /\ hooks' = book.hooks
  /\ fired' = book.fired
  /\ revoked' = book.revoked
  /\ started' = book.started
  /\ refusals' = book.refusals

-----------------------------------------------------------------------------
(* Pending leaves.                                                         *)

Nothing == End      \* an empty buffer

PendingLeaf(leaf, position) ==
  [src |-> leaf.payload.src, layers |-> leaf.payload.layers, key |-> leaf.key,
   scope |-> leaf.scope, position |-> position, buffered |-> Nothing, ended |-> FALSE]

IsBuffered(leaf) == leaf.buffered # Nothing

(* PendingLeaf::poll_once of leaf i: an ended leaf is not polled again.    *)
PolledLeaf(leaf, r) ==
  [leaf EXCEPT !.src = r.src, !.layers = r.layers, !.ended = (r.out = End)]

Polled(book, i, r) ==
  [book |-> [book EXCEPT !.pending[i] = PolledLeaf(@, r), !.spent = r.spent, !.fired = r.fired],
   out  |-> r.out]

PollOnce(book, i) ==
  IF book.pending[i].ended THEN [book |-> book, out |-> End]
  ELSE Polled(book, i, PollLeaf(book.pending[i], book.spent, book.fired, now))

(* The same, keeping what the leaf yields in its buffer.                   *)
Buffered(p, i) ==
  IF IsAction(p.out) THEN [p EXCEPT !.book.pending[i].buffered = p.out] ELSE p

PollIntoBuffer(book, i) == Buffered(PollOnce(book, i), i)

(* Leaves observed exhausted are dropped.                                  *)
Unexhausted(list) == {i \in DOMAIN list : ~list[i].ended \/ IsBuffered(list[i])}

Prune(book) == [book EXCEPT !.pending = Selected(book.pending, Unexhausted(book.pending))]

-----------------------------------------------------------------------------
(* Cleanups.                                                               *)

(* A finalizer is a source too: it waits, and it ends.                     *)
Cleanup(registration, position) ==
  [scope |-> registration.scope, src |-> registration.payload, position |-> position]

PollCleanup(run) == [run EXCEPT !.src = PollSource(run.src, now).src]

Unfinished(runs) ==
  LET polled == [i \in DOMAIN runs |-> PollCleanup(runs[i])]
  IN  Selected(polled, {i \in DOMAIN runs : polled[i].src.steps # <<>>})

KeptRegistrations(registrations, prefix) == registrations    \* mutant: none is extracted

Inside(list, prefix) == {i \in DOMAIN list : Under(list[i].scope, prefix)}

RegistrationsOutside(registrations, prefix) ==
  Selected(registrations, DOMAIN registrations \ Inside(registrations, prefix))

PositionsOf(sequence) == {sequence[i].position : i \in DOMAIN sequence}

(* The leaves that are not kept are dropped, whatever they hold.           *)
Drop(book, kept) ==
  [book EXCEPT !.pending = kept,
               !.revoked = @ \cup (PositionsOf(book.pending) \ PositionsOf(kept))]

(* teardown_under: leaves of every kind go; the hooks are taken out, and   *)
(* started, and kept running if they do not finish at once.                *)
TeardownUnder(book, prefix) ==
  LET selected == Selected(book.armed, Inside(book.armed, prefix))
      outside  == DOMAIN book.pending \ Inside(book.pending, prefix)
  IN  [Drop(book, Selected(book.pending, outside)) EXCEPT
         !.armed   = RegistrationsOutside(@, prefix),
         !.running = @ \o Unfinished(selected),
         !.started = @ \o [i \in DOMAIN selected |-> [position |-> selected[i].position, at |-> now]]]

-----------------------------------------------------------------------------
(* Intake of a command (enqueue_command).                                  *)

KeyedIn(book, id) == {i \in DOMAIN book.pending : book.pending[i].key = id}

CancelId(book, id) ==
  Drop(book, Selected(book.pending, DOMAIN book.pending \ KeyedIn(book, id)))

PushLeaf(book, leaf) ==
  LET pushed == PendingLeaf(leaf, Len(book.leaves))
  IN  [book EXCEPT !.pending = Append(@, pushed),
                   !.leaves  = Append(@, [pushed |-> pushed, at |-> now])]

(* Occupied by its presence in the list: nothing is polled.                *)
PresentOccupies(book, id) ==          \* mutant
  [book |-> book, occupied |-> KeyedIn(book, id) # {}]

Occupancy(p) == [book |-> p.book, occupied |-> p.out # End]

(* reconcile_is_occupied: output in a buffer occupies; else the run's      *)
(* leaves are polled in order up to the first that is still open.          *)
ReconcileIsOccupied(book, id) ==
  LET Reconciled[i \in 0..Len(book.pending)] ==
        IF i = 0 THEN [book |-> book, occupied |-> FALSE]
        ELSE LET w == Reconciled[i - 1]
             IN  IF w.occupied \/ i \notin KeyedIn(book, id) \/ w.book.pending[i].ended
                 THEN w ELSE Occupancy(PollIntoBuffer(w.book, i))
  IN  IF \E i \in KeyedIn(book, id) : IsBuffered(book.pending[i])
      THEN [book |-> book, occupied |-> TRUE]
      ELSE Reconciled[Len(book.pending)]

(* The leaves of id that may still deliver (for the history).              *)
Holders(book, id) ==
  {book.pending[i].position :
     i \in {j \in KeyedIn(book, id) : \/ IsBuffered(book.pending[j])
                                      \/ PollOnce(book, j).out # End}}

Refuse(book, id) == [book EXCEPT !.refusals = Append(@, Holders(book, id))]

AlwaysPush(book, leaf) == PushLeaf(book, leaf)      \* mutant: no slot at all

KeepInFlight(r, leaf) ==
  IF r.occupied THEN Refuse(r.book, leaf.key) ELSE PushLeaf(r.book, leaf)

Admit(book, leaf) ==
  IF leaf.key = NoKey THEN PushLeaf(book, leaf)
  ELSE IF leaf.payload.policy = "CancelInFlight"
  THEN PushLeaf(CancelId(book, leaf.key), leaf)
  ELSE KeepInFlight(ReconcileIsOccupied(book, leaf.key), leaf)

Arm(book, registration) ==
  LET cleanup == Cleanup(registration, Len(book.hooks))
  IN  [book EXCEPT !.armed = Append(@, cleanup), !.hooks = Append(@, cleanup)]

(* update builds its closures anew: a timeout call is one of this update.  *)
StampedLayer(layer, serial) == [layer EXCEPT !.call = <<serial, @>>]

Stamped(leaf, serial) ==
  [leaf EXCEPT !.payload.layers = [i \in DOMAIN @ |-> StampedLayer(@[i], serial)]]

CancelAll(book, ids) ==
  LET Done[k \in 0..Len(ids)] == IF k = 0 THEN book ELSE CancelId(Done[k - 1], ids[k])
  IN  Done[Len(ids)]

TeardownAll(book, prefixes) ==
  LET Done[k \in 0..Len(prefixes)] ==
        IF k = 0 THEN book ELSE TeardownUnder(Done[k - 1], prefixes[k])
  IN  Done[Len(prefixes)]

AdmitAll(book, spawns, serial) ==
  LET Done[k \in 0..Len(spawns)] ==
        IF k = 0 THEN book ELSE Admit(Done[k - 1], Stamped(spawns[k], serial))
  IN  Done[Len(spawns)]

ArmAll(book, registrations) ==
  LET Done[k \in 0..Len(registrations)] ==
        IF k = 0 THEN book ELSE Arm(Done[k - 1], registrations[k])
  IN  Done[Len(registrations)]

(* The cancel phase, the spawn phase, the registrations.                   *)
Enqueued(book, command, serial) ==
  LET toredown == TeardownAll(CancelAll(book, command.cancels), command.teardowns)
  IN  ArmAll(AdmitAll(toredown, Spawns(command), serial), command.cleanups)

ApplyUpdate(book, command) ==
  /\ updates < MaxUpdates
  /\ updates' = updates + 1
  /\ Commit(Enqueued(book, command, updates + 1))
  /\ redraw' = command.redraw
  /\ quit' = IF QuitsNow(command) THEN "QuitApplied" ELSE quit

-----------------------------------------------------------------------------
(* The operations.                                                         *)

EmptyBook ==
  [pending |-> <<>>, armed |-> <<>>, running |-> <<>>, spent |-> {},
   leaves |-> <<>>, hooks |-> <<>>, fired |-> <<>>, revoked |-> {},
   started |-> <<>>, refusals |-> <<>>]

Begin(book) ==
  /\ pending = book.pending
  /\ armed = book.armed
  /\ running = book.running
  /\ spent = book.spent
  /\ leaves = book.leaves
  /\ hooks = book.hooks
  /\ fired = book.fired
  /\ revoked = book.revoked
  /\ started = book.started
  /\ refusals = book.refusals

(* TestStore::new runs init's command.                                     *)
Init ==
  /\ program \in Programs
  /\ now = 0
  /\ verdict = "Open"
  /\ updates = 0
  /\ received = <<>>
  /\ Begin(Enqueued(EmptyBook, program.init, 0))
  /\ redraw = program.init.redraw
  /\ quit = IF QuitsNow(program.init) THEN "QuitApplied" ELSE "Running"

Live == verdict = "Open" /\ quit = "Running"

(* A panic: the test is over, and its store with it.                       *)
Fail ==
  /\ verdict' = "Failed"
  /\ UNCHANGED <<pending, armed, running, spent, now, redraw, quit, updates, leaves, hooks,
                 fired, revoked, started, received, refusals, program>>

(* assert_running: any further step after a quit fails the test.           *)
StepAfterQuit ==
  /\ verdict = "Open"
  /\ quit # "Running"
  /\ Fail

Send(command) ==
  /\ Live
  /\ ApplyUpdate(Book, command)
  /\ UNCHANGED <<now, verdict, received, program>>

OverwriteBuffers(book, i) == PollIntoBuffer(book, i).book   \* mutant: buffered or not

(* The anchoring scan polls each leaf that holds no output yet.            *)
Anchor(book, i) ==
  IF IsBuffered(book.pending[i]) THEN book ELSE PollIntoBuffer(book, i).book

AnchorNone(book) == book                 \* mutant: time moves with nothing anchored

Anchored(book) ==
  LET Scanned[i \in 0..Len(book.pending)] ==
        IF i = 0 THEN book ELSE Anchor(Scanned[i - 1], i)
  IN  [Scanned[Len(book.pending)] EXCEPT !.running = Unfinished(@)]

Advance(d) ==
  /\ Live
  /\ now + d <= MaxTime
  /\ Commit(Prune(Anchored(Book)))
  /\ now' = now + d
  /\ UNCHANGED <<redraw, quit, verdict, updates, received, program>>

(* next_deliverable: the first leaf in enqueue order with output, in its   *)
(* buffer or at one poll.                                                  *)
Taken(book, i) ==
  [book |-> [book EXCEPT !.pending[i].buffered = Nothing],
   out |-> book.pending[i].buffered, at |-> book.pending[i].position]

Asked(p, at) == [book |-> p.book, out |-> p.out, at |-> at]

NextDeliverable ==
  LET Walked[i \in 0..Len(pending)] ==
        IF i = 0 THEN [book |-> Book, out |-> Pending, at |-> 0]
        ELSE LET w == Walked[i - 1]
             IN  IF IsAction(w.out) THEN w
                 ELSE IF IsBuffered(w.book.pending[i]) THEN Taken(w.book, i)
                 ELSE Asked(PollOnce(w.book, i), pending[i].position)
  IN  [Walked[Len(pending)] EXCEPT !.book = Prune(@)]

Delivered(d) == received' = Append(received, [position |-> d.at, answer |-> d.out])

(* receive and receive_matching, with the message the test expects.        *)
ReceiveNext(d, command) ==
  /\ d.out.kind = "Message"
  /\ ApplyUpdate(d.book, command)
  /\ Delivered(d)

Receive(command) ==
  /\ Live
  /\ ReceiveNext(NextDeliverable, command)
  /\ UNCHANGED <<now, verdict, program>>

(* Another message, a quit, or nothing deliverable.                        *)
ReceiveMismatch ==
  /\ Live
  /\ Fail

ObserveQuit(d) == d.out = Quit /\ Commit(d.book) /\ Delivered(d)

ReceiveQuit ==
  /\ Live
  /\ ObserveQuit(NextDeliverable)
  /\ quit' = "QuitObserved"
  /\ UNCHANGED <<now, redraw, verdict, updates, program>>

(* The quit an update returned is observed without any poll.               *)
ObserveAppliedQuit ==
  /\ verdict = "Open"
  /\ quit = "QuitApplied"
  /\ quit' = "QuitObserved"
  /\ UNCHANGED <<pending, armed, running, spent, now, redraw, verdict, updates, leaves,
                 hooks, fired, revoked, started, received, refusals, program>>

(* check_exhaustive, up to the first leaf with output or still open.       *)
Passing(p) == [book |-> p.book, ok |-> p.out = End]

Exhausted(book) ==
  LET Ended[i \in 0..Len(book.pending)] ==
        IF i = 0 THEN [book |-> book, ok |-> TRUE]
        ELSE LET w == Ended[i - 1]
             IN  IF ~w.ok \/ IsBuffered(w.book.pending[i]) THEN [w EXCEPT !.ok = FALSE]
                 ELSE Passing(PollOnce(w.book, i))
  IN  Ended[Len(book.pending)]

CheckedLeavesOnly ==                      \* mutant: cleanups are not looked at
  \/ quit = "QuitObserved"
  \/ /\ quit = "Running"
     /\ Exhausted(Book).ok

CheckPasses ==
  \/ quit = "QuitObserved"
  \/ /\ quit = "Running"
     /\ armed = <<>>
     /\ Unfinished(running) = <<>>
     /\ Exhausted(Book).ok

(* finish, or the drop of a store that was not finished.                   *)
FinishTest ==
  /\ verdict = "Open"
  /\ verdict' = IF CheckPasses THEN "Passed" ELSE "Failed"
  /\ UNCHANGED <<pending, armed, running, spent, now, redraw, quit, updates, leaves, hooks,
                 fired, revoked, started, received, refusals, program>>

Next ==
  \/ \E command \in program.updates : Send(command) \/ Receive(command)
  \/ \E d \in Durations : Advance(d)
  \/ ReceiveQuit \/ ObserveAppliedQuit
  \/ StepAfterQuit \/ ReceiveMismatch \/ FinishTest

Spec == Init /\ [][Next]_vars
=============================================================================
