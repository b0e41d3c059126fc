# A TLA+ model of tears

`tears` hosts an Elm-style program (`init`, `reduce`, `view`, `subscriptions`) on a tokio
runtime. This directory holds TLA+ specifications of the parts of it that run concurrently,
the TLC configurations that check them on small instances, and TLAPS proofs of the invariants
that hold for every instance. Source paths are relative to the repository root; `INV-RC` numbers
are those of `docs/rfcs/0014-reducer-first-core.md`, plain `INV` numbers those of
`docs/rfcs/0001-http-module-redesign.md`.

## The system

| Part | Source | State it keeps | Operations | What makes it correct |
| --- | --- | --- | --- | --- |
| Kernel | `src/kernel.rs`, `kernel/pass.rs`, `lowering.rs`, `teardown.rs`, `cleanup.rs`, `arbiter.rs` | phase, redraw and dirt marks, buffers of the two lanes and of exits, cleanup ledger, join set | boot, a pass (exits, control drain, input batch, frame step), dispatch of one command, park, apply_quit, settle | quits precede input, nothing owed between passes, nothing starts after a quit, hooks run once, termination settles |
| Registry and counters | `kernel/registry.rs`, `accounting.rs` | one entry per run (kind, scope, phase, revoked, exited), keyed count, pending counter | insert, stop_request, select_prefix, keyed_occupant, on_exit, on_dequeue, clear; reserve, decrement | an entry outlives its run's last envelope, counters are exact or poisoned, one run per keyed slot |
| Lanes and producers | `kernel/lane.rs`, `producer.rs`, `runtime/channel.rs` | bounded data lane, unbounded control lane, send gate; one task per run | send, wait for capacity, release a reservation, finish, abort | per-run order, no loss, no leak of a reservation |
| Command layer | `command/*.rs` | none (a command is a value), a timeout's deadline and shared factory, a retry's attempt | batch, map, scoped, cancel, teardown, on_teardown, timeout, retry, quit | plan order, one timeout message per command, attempts bounded |
| Reducer combinators | `reducer/combinator.rs`, `collection.rs` | rows and slots, and journals of what left them | insert, remove, present, dismiss; route, qualify, drain | nothing of a removed instance is left, its successor is spared, a child's command is qualified once and else unchanged |
| HTTP queries | `src/subscription/http/*.rs` | one cell per key (data, generations, in-flight slot, error), version, watch channel, subscriber count | subscribe, reconcile, complete, invalidate, gc, drop | single flight, no invalidation lost, data kept while observed, no refetch loop |
| WebSocket | `src/subscription/websocket.rs` | connecting, running or done, with the command receiver and the socket | connect, read, write, close; a sender handed to the application | whoever runs has a sender that works, and a close is not starved by frames |
| Timer | `src/subscription/time.rs`, `cadence.rs` | anchor and deadline | one stream | one tick per poll that comes after a boundary: no burst, no drift |
| Signals, terminal, mock | `src/subscription/{signal,terminal,mock}.rs` | none | one stream each | - |
| Observability | `runtime/load.rs`, `kernel/observability.rs` | gauges, sequence, queue of snapshots, drainer flag | emit, guard drops | gauges delivered in order, the drainer role never stuck |
| Test driver | `testing/driver.rs` | a driven kernel, the one outstanding grant | boot, step_pass, grant, confirm, settle | a grant reaches exactly one terminal |
| Test store | `testing.rs` | pending leaves with buffers, armed and running cleanups, a paused clock | send, receive, receive_quit, advance, finish | a test that passes has received everything, in order, and seen every cleanup |
| Examples | `examples/dashboard_composed.rs`, `dashboard.rs`, `websocket.rs` | tasks, a details pane or panel, a selection; a connection's sender | their messages | what they hold at the runtime matches what they show, whatever lands in between |
| Facade | `runtime.rs`, `application.rs`, `runtime/config.rs` | none | builds and drives a kernel | - |

How they interact: `reduce` returns a command, the command layer lowers it to buckets, the kernel
dispatches the buckets in a fixed order, every spawn becomes a registry entry and a tokio task,
the tasks send numbered envelopes over the two lanes, and the kernel drains the lanes in passes.
Subscriptions are reconciled against what the program declares, after a pass that changed it.
A query is such a subscription; its cell is shared with the other queries of its key and with
whoever calls `invalidate`.

What is hard here is concurrency between the kernel and tasks that end, block or are aborted at
any moment, state that outlives the task it describes (tombstones, poisoned counters, stopping
runs), and, in HTTP, three synchronisation points (a mutex, a version, a watch channel) that one
operation touches one after the other. `PROJECT.json` lists these hazards with their lines.

## Modules

- `Registry`: entries, the keyed count, the pending counters; one operator per operation of
  `ScopeRegistry` and `PendingCounter`. A counter saturates at `Ceiling`, the poison value.
- `PendingCounter`: the compare-and-swap loops that Registry takes as one step: a thread loads, and
  exchanges or tries again with what it observed. `Tally`: what a counter counts, in two actions.
  `OperationsAtomic` is the refinement: each operation takes effect in its successful exchange.
- `Ingress` (extends Registry): the tasks and the two lanes. A task's state is a point of
  `send_payload`: idle in its stream, holding a reservation, parked on a full lane, done, joined.
  `queue[l]` is the kernel's one-envelope buffer followed by the lane; `held[l]` says how much of
  it is in the buffer.
- `Kernel` (extends Ingress): `stage` is the kernel's program counter, `todo` the steps left of the
  dispatch plan or of the admission loop, and one action is one iteration of a loop in the code, so
  that tasks interleave between any two. The program is the environment: `init` and `reduce`
  return any of the commands, and leave declared any of the declarations, of the member of
  `Programs` a behaviour is about. A command is the record of buckets that `dispatch_plan` orders.
- `Delivery`: what the kernel promises about messages, in six actions and without queues, counters
  or passes. `KernelProperties!DeliverySpec` is the refinement mapping; a run counts as revoked
  from the mark on its entry or the abort of its task on.
- `KernelProperties`, `KernelInvariant`: the properties, and the inductive invariants: `Inv` of the
  counters and lanes, `RunInv` of the runs.
- `MCKernel`: the hosted programs of the two runs; a behaviour picks one of them when it begins, so
  that one run covers several families of commands and declarations.
- `KernelProofs`, `RunProofs`: types and `Inv`, then `RunInv` and the refinement, with their consequences.
- `QueryCell`: one retained cell with its streams, `invalidate`, `gc` and time. A stream's `pc` is a
  point of `Query::stream`; each operation is cut where the code leaves the mutex, takes a version
  and sends. Versions are only ever compared, so each stream keeps the outcomes of the comparisons
  (`unseen`, `passed`) and the state space is finite without a bound on sends. `parallel`, chosen
  from `Flavours` when a behaviour begins, says whether streams may be interrupted between those
  points (a multi-thread runtime) or only where they await (a current-thread one). A subscribing
  stream and `invalidate` exclude each other by the shard lock of the cell map.
- `QueryProperties`, `MCQuery`, `QueryProofs`: likewise for the cell.
- `GaugeFunnel`: the load gauges. A call of `emit` is at a site, a thread and a depth: the call at
  depth two is made by the subscriber that the call at depth one is telling. One action is what a
  call does between two releases of the gauge lock or around a dispatch. `stranded` is history.
  The change of a `GaugeGuard` begins and ends with it: a drop uses the guard up when it begins, an
  enter has its guard when it returns. A subscriber's `enabled` is not given code of its own, and
  inside a dispatch of an event that is not a gauge's nothing is modelled. `wrapping_add_signed` is
  plain addition: `GaugesExact` shows that no gauge goes below zero.
- `GaugeFeed`: what a subscriber is promised, in four actions. `FunnelProperties!Feed` maps the
  snapshot a drainer has claimed, followed by the queue, to the feed. `FunnelProperties`,
  `MCFunnel` as above.
- `SendGate`: the scripted gate of `lane.rs` and the send path of a producer through it, one action
  for each stretch between two points where another thread or an abort can come in: the look at the
  gate, the registration, the second look, the park, the release, the reservation, the send, the
  record, and the two drops of a send that failed. `under` is history. A grant's outcome is
  `Accepted` or `Reclaimed`, as in the code; what an envelope carries is left out.
- `ScriptedDriver` (extends SendGate): the test driver. `call` is the point of the call in
  progress, `TestStep` what a test may ask next. The kernel's pass is here an abstraction of
  `Kernel`'s: the stages and the order are kept, entries are those held and those with a counter
  above zero, and a message starts any runs and stops any. It does not distinguish an exit that has
  been buffered from one that has not, nor scopes or keys. `armed` and `fate` are history.
- `GrantLedger`: what a test is promised about its grants, in three actions.
  `ScriptProperties!Book` maps the acceptance ledger to it. `ScriptProperties`, `MCScript`,
  `ScriptProofs` as above.
- `CommandLayer`: commands as values: the constructors and modifiers of `command/core.rs` and
  `effect_command.rs`: ids, scopes, teardowns, hooks, quit, the redraw directive, `map`. What a leaf's
  stream does is a payload.
- `Boundaries` (extends CommandLayer): one stack of all three combinators,
  `root.scope(header).for_each(pane.presented(dialog)).presented(modal)`, with its journals. `Reduce`
  is the closed stack, one operator per boundary, and `Update` is a message reduced and its command
  dispatched. The reducers are the environment: the root edits a row, the row's dialog or the modal
  twice in one update, a pane its dialog, and everybody but the root starts or cancels work. An
  instance that starts something asks for a redraw, the others suppress it, so both directives cross
  every boundary. `held` stands for the registry and the cleanup ledger and says whom each thing was
  started for; `intact` is history. With `OutsideEdits` the collections are edited before the first
  update too, as `Program::init` may.
- `BoundaryProperties`, `MCBoundaries`, `BoundaryProofs`: likewise.
- `Effects` (extends CommandLayer): what a leaf's stream does. A source is a script of what a future
  or stream does between its awaits; a retry loop is a source that keeps its attempt; a timeout is a
  layer over a source with its deadline and the number of its call, whose one message all leaves of the
  command contend for (`spent`). `PollLeaf` is one poll from the outermost layer in, as `poll_next` makes
  it: both sides before it decides, the end or a quit of the inner stream ahead of the deadline, and at most
  one item let through once the deadline was seen.
- `TestStore` (extends Effects): the test store, one action per operation of its API; each is a function of the
  store's records, the `Book`. The test and `update` are the environment. A failed assertion ends
  the test. `leaves`, `hooks`, `received`, `started`, `fired`, `revoked` and `refusals` are history.
  The programs are any whose commands the constructors of a command can build (`ProgramAssumption`),
  with scripts that `Fuel`, the number of ready steps one poll takes, lets run until they rest.
  `StoreProperties`, `StoreProofs`, and `MCStore`: five small applications under test.
- `Host` (extends CommandLayer): the runtime as an application sees it: runs that deliver their messages in
  order, each of them or none after it was stopped, and hooks that fire with their scope. It is what
  `DeliverySpec`, `KeyedSlotUnique` and `CleanupOnce` say of the kernel, used as its abstraction.
- `DashboardComposed`, `Dashboard` (extend Host): the two dashboards. State is what decisions read;
  each message handler is one operator. In the composed one every row and pane built is a numbered
  instance, so that one can say whom a hook or a request was made for. `DashboardProperties` says
  what the composed one promises, and `DashboardProofs` proves most of it of both. `MCApplications` puts
  them and the applications of `MCStore` in one run, one in each behaviour.
- `WebSocket`: the stream of a WebSocket subscription with the echo chat of `examples/websocket.rs` at its
  other end. One action is what the stream does from one await to the next; what it yields waits for
  room in the data lane, and meanwhile it is not polled. The server sends, fails and closes as it likes
  and a write may take for ever. An application that does not `keep` its sender may let go of it at any time.
- `Timer`: the anchor and the deadline of a timer's stream, polled early, in time or late, dropped
  and made anew. The other half of `cadence.rs`'s header, a frame scheduler that shares the
  arithmetic, is not in this source tree.
- `MCParts`: funnel, counter, WebSocket and timer in one run, one in each behaviour. `PartsProofs`
  proves the safety properties of the four, each of its own specification (`FunnelSpec`, `CounterSpec`,
  `SocketSpec`, `TimerSpec`).

Assumed of tokio: an abort takes effect at an await point of the task (its stream, a full lane),
never inside a send that was accepted; a task's exit is seen after its future was dropped; the
cooperative budget never makes a ready receiver look empty. A send that won its permit before the
receiver closed is ordered before the close.

## Runs

| Run | Shows |
| --- | --- |
| `kernel_safety` | a keyed slot started, replaced, suppressed, cancelled and finishing with output queued over a full lane of one; two nested scopes with effects, hooks, running finalizers and a subscription; two subscriptions declared, undeclared and replaced while their runs exit late. Slot, gauge, counters (which saturate at two), tombstones, retraction, hooks, exclusion, the barrier, and the refinement of Delivery |
| `kernel_liveness` | quits of init, reduce and producers, render failures, a kernel dropped before it settled, deferred admissions: termination's postcondition, nothing starts after a quit, every termination settles, nothing accepted or declared is forgotten |
| `query_streams` | both runtimes: single flight over drops, invalidations and evictions, nobody refetches for ever; where streams take turns, invalidations are heeded and the final state is yielded (`TurnsConverge`) |
| `parts` | two threads change two gauges, a subscriber comes, goes, re-enters and panics: one drainer, the newest snapshot current, exact gauges, the feed in order, a funnel that reopens. Three threads on one counter up to its poisoning. Two connections of a WebSocket: the sender reaches the application, a close is heeded. A timer polled at any times: no burst, no drift |
| `script_grants` | two runs, one of which sends twice, two grants, over full lanes, aborts, exits and terminations at any point: gated sends own their grants, are counted and are named (`GatedSends`), ledger and fates are `GrantLedger`'s, nothing enters while settling, no grant is missed at the gate |
| `boundaries` | rows, dialogs and a modal are inserted, removed, replaced and dismissed in every shape, in updates and before the first: nothing of a removed instance is left that no journal owes, the successor is spared, boundaries only qualify |
| `applications` | every order of a store's operations over five applications: timeouts that nest, share a call or race the end; scripts that sleep, are ready for ever or hang; retries cut by a deadline; keyed slots; cleanups and quits. The contracts of timeouts and of retries (attempts, spacing, and the one message that a loop ends with), no output lost by polling ahead, slots decided by what can still deliver, a pass is exhaustive. Both dashboards under every order of keys, answers and messages: hooks and requests are those of the live instances, a pane stays on the instance it was opened for, an edit that a save would have kept is reported as lost and nothing else is, the panel shows the selected task |
| `query_lost_invalidation` | a violation: see Findings |
| `query_orphaned_slot` | a violation: see Findings |
| `gauge_stranded` | a violation: see Findings |
| `boundary_nested` | a violation: see Findings |
| `nested_timeouts` | a violation: see Findings |

Bounds. `MaxRuns` bounds the runs ever started and `MaxSends` the sends begun; a behaviour that
needed one run more would deadlock, and deadlock is checked in every run, so `MaxRuns` is known to
suffice for what `MaxSends` lets happen. Two or three sends are enough for an envelope in the
buffer, one in the lane and one waiting for capacity, for a replaced run and its successor to have
output at once, and, with `BatchCap` 1 or 2, for a batch that ends on its budget and one that ends
on an empty lane. Scopes are a root, a child and a leaf. `Ceiling = 9` is out of
reach except in `kernel_safety`, where it is two: with one place in the lane a run has two envelopes
under way and passes the ceiling. For the cell, two streams and three starts give two observers,
a drop and a return; two invalidations give an obsolete fetch that overlaps with its follow-up. In
the funnel three numbered changes fill the queue with more than one snapshot behind the one that is
told, from the other thread and from the subscriber; depth two is enough because a call made by a
subscriber never becomes the drainer, which is what `SingleDrainer` says and the proof shows. In the
script run one place in the data lane and a batch of one make a second sender wait; one run that
sends twice can be granted twice. `MaxIntents` and `MaxGrants` do not suffice for ever: the test may
simply stop, so deadlock is not checked there. Each property of the boundaries speaks of one held
thing at a time, so `MaxHolders = 1` is enough: the one instance something is held for can be any, and
every other instance comes and goes around it. What it holds is a keyed run, an anonymous one, a
hook and a subscription at once. A dialog's journal may keep one undrained dismissal from one update
to the next, and two are drained together when its own boundary runs. The rows are symmetric.

In `parts`, `Top = 3` and four reservations poison the counter with three threads in their loops at
once. Two connections are a predecessor and a successor; two frames, two commands and two places in
the lane let a hand-over, a text and an end wait at once. The timer's interval is three units and its
horizon three intervals and a bit: polls at, one and two units after a boundary, and after two missed ones. In
`applications`, three updates enqueue enough leaves for two of one key, or two under one call and a
third; the clock runs to four over sleeps and timeouts of one and two, so that a poll may be early,
on time, and late for both of two nested deadlines. In the composed dashboard one seeded task and one
added give a selected row and another; with two runs in flight when a key is pressed a press crosses
an answer and another press. In the flat one `MaxKeys = 3` presses are in flight at once. Both stop
at their bounds, and a test may end at any time, so deadlock is not checked in `applications`.

Fairness. The kernel's task, a send in progress and an aborted task that reaches an await point are
polled again: the executor owes that to any ready task. Nothing is assumed of a stream or a
finalizer: it need neither yield nor end. In the cell a stream that runs or was notified is polled
and `invalidate` returns; no fetcher has to answer and nobody has to come or go. `QueryRests` holds
since subscriptions, invalidations and hence fetches are finite in number. In the funnel threads run
on and a subscriber's handler returns or panics in the end, however often it is suspended by calls
of its own (strong fairness); changes are finite in number by `MaxSeq`, without which a drainer may
serve others for ever. In the script run the driver goes on with the call it is in and every task
that can run without its stream does: the driver turns the executor while it waits, and worker
threads run the tasks in any case. Nothing is assumed of the test, the program or a stream. In the
WebSocket what was yielded is sent when the lane has room, the application handles messages, and
a command that is ready over and over is taken in the end: `select!` polls its branches in random
order (strong fairness of that one step). No
liveness is checked of the boundaries, the store or the dashboards: what happens next there depends
on the messages, the test and the keys that come.

`Idle` keeps a settled kernel, a parked one with no task left, and a cell at rest from being
deadlocks; nothing else may stop.

## Proofs

`KernelProofs!Invariance` proves `Spec => []Inv` for every set of commands and declarations, lane
capacity, batch size and bound, from the assumptions named in the modules. `TypeCorrect`,
`ExactAccounting`, `TombstoneKept` (of poisoned counters too) and `GaugeExact` are its consequences. The
argument: a tombstone finds its entry since an entry is retired only when its run exited and its
counter is zero, and a zero counter means that nothing of the run is queued. That needs the counter
to be exact (`Counts`), which needs each lane to hold, per run, exactly the envelopes numbered from
the last one taken to the last one sent (`Fifo`), which holds while the lanes are open (`Closed`);
and an exit to be reflected only after the task that could still send is gone (`Lifetimes`).
`Unminted` says that a new token starts with nothing. Steps disturb this in a few ways, each a
lemma: they move the kernel's own stage, start a run, dequeue, reflect or join an exit, terminate,
or move a task.

`QueryProofs` proves single flight (`OneFetch`), the subscriber count (`SubscribersCounted`), the
release of the slot (`SlotFreed`) and that observed data stays (`DataKept`), for any number of
streams and invalidations. Single flight is not inductive alone: eviction replaces the slot, so one
must know that the count is exact and that a stream between a commit and its send is alive.

`PartsProofs` proves everything `parts` checks of the funnel but its liveness: one drainer and the newest
snapshot (`DrainsCurrent`), exact gauges (`GaugesExact`) and the refinement (`FunnelImplementsFeed`),
for any threads, depth and bounds. The properties are inductive together: that a gauge is not lowered below
zero needs the count of its guards, and that the newest snapshot is current needs the one drainer.
Each step moves one call, so `Balanced` reduces the count to that call's own share.

It also proves, of the other parts, `CounterLinearizable` (the counter is the number owed or at its
ceiling, and whoever decrements has something to give back, so none finds zero), `TimerKeepsCadence`
(the deadline is the first boundary after the last tick) and `SenderKept` (a sender or its hand-over is
under way, and the end of the predecessor comes before it in the lane, as the successor begins only
after that end was sent).

`ScriptProofs` proves every safety property of `script_grants`, for any runs, lane capacity and bounds:
that a released send owns the grant it runs under (what the assertions of `resolve` ask) and that the
counters are exact (`GatedSendsKept`), the names (`RecordedNamed`), the quiet of `settle`
(`SettleQuiet`) and the refinement (`DriverKeepsBook`). `ScriptInv` adds to them that a grant has a
terminal only if it was taken, that counters cover the reservations after the lanes have closed, and
that the grants, the entries and the fates stay in step (`Booked`): an outstanding grant has an
entry exactly when its outcome is `Accepted` or its sender stands between the record and the report.

`RunProofs` proves the other safety properties of the kernel, for the same constants. `RunInvariance`
is `Spec => []RunInv`, which adds to `Inv`:

- `Marks`: what is said of a run in several places agrees: kind and task, phase and marks; an aborted run
  is revoked, a `Running` one is not, a `Stopping` one is;
- `Course`: a plan ends with its quit, a finalizer loop directly follows its teardown, nothing is left to
  do once the kernel terminates, and a mark that something must be looked at again lies at a stage that
  still will;
- `Admitting`: what is left to admit is declared, and while anything is no subscription is stopping,
  those stopped in this pass included;
- `Reevaluated`: a subscription that runs is declared, or the pass has yet to reconcile;
- `Retracting`: from a teardown to its finalizers every run under the prefix but cleanups is revoked;
- `Delivered`: what was taken of a run's data was reduced, unless the run was revoked;
- `OneEach`: of two runs of one subscription the earlier has joined.

Each conjunct is kept for its own reason, so the steps are sorted by kind and not by action: those that
launch a run, stop some, reflect or join an exit, and those that mark nothing (`NoMark`), under which
most conjuncts do not move. `SlotExclusion`, `SubscriptionsMatch`, `RetractionComplete`,
`HooksAccounted` and `TerminationComplete` are consequences; `BarrierKept` and `QuitFirst` are action
properties, proved step by step from the same invariant. `KernelDelivers` is the refinement: every step
of the kernel is one of the six actions of Delivery or changes nothing that Delivery sees; that a
message reduced is the next of its run is `Fifo`, and that no message of a revoked run is reduced is
`Tombstone`.

`TurnsComplete` proves `TurnsConverge` for any number of streams and invalidations, by `TurnInv`: between
two awaits one stream or the invalidator runs (`OneTurn`); whoever watches or was woken has yielded the
present state, of which the last invalidation is an answer (`Settled`), or will be told (`Told`). The
step that fails on a multi-thread runtime, where finding 1 lives, is the one that needs `OneTurn`.

`BoundaryProofs` proves the three properties of `boundaries`, for any keys, any edits and any bounds.
`NoOrphan` alone is not inductive: a drain could tear down the wrong instance. `BoundaryInv` pairs it
with its converse (`Spared`): no path that is owed covers an effect or a hook of an instance that is
there. The argument follows a command through the stack. An edit of a collection keeps `Ready`, which
is the two together, since an instance leaves only by an edit that records its path, and a new one
takes a number nothing is held for. A boundary's drain moves paths from what is owed to what the
command tears down (`Reduced`). A dispatch therefore tears down only what was owed, and what it spawns
belongs to instances that are there (`UpdateKeeps`). Owed paths of different places cannot cover each
other's instances, since a place has one child (`BoundariesAssumption`: no key is a boundary's segment).

`DashboardProofs`: of the flat dashboard, `PanelFollows`, for any number of tasks and of keys in flight, of
which it needs to know only that each is something a key asks for. Its tasks are distinct (`AppWell`), so
that a deletion, which moves another task under the cursor, is seen to change the selected one. Of the
composed one, `BoardsCohere` and `LossesReported`, from one invariant, `BoardInv`: keys are below the next
one and belong to one row, and so do instances; the pane's row is there; and what is in flight is finitely
many runs that have messages of the program left (`Known`), so that the number a new row or pane takes is
new. The argument goes by messages: each leaves a state that is `Sound`, which says both what holds of it
and what it reports of a pane that left, and each command `Carries` messages of the program, through the
boundaries that wrap and qualify it. That some task is seeded (`ComposedAssumption`) is what the example does.

`InstancesKept` proves `InstancesAccounted` on top of `BoardInv`. What is held is told by places, a segment and
an instance's number. The invariant, `Accounted`, adds to the property what its step needs: no run but a
request delivers an answer, so that an answer that lands is one that some live instance waits for; a setup
that is on the way is in no slot and under no segment, so that nothing can stop it; a pane that was not opened
still waits. The argument has two halves. `Outcome` says what a message does to the places of a board (those
at some segments go, one is set up, one asks, one is answered, some are new) and `Ordered` what a command tears down,
hooks and starts; `ReduceSettles` shows, message by message, that the two name the same places. `Landing` shows
that the bags of hooks and runs follow: a bag that is a set stays one, since what is armed or asked for twice is torn
down or replaced in the same dispatch.

`StoreProofs` proves every property that `applications` checks of the store, for any programs whose commands
the constructors can build (`ProgramAssumption`): `TimeoutsKept`, `NoOutputLost`, `SlotsDecided`,
`PassesExhausted` and `RetriesKept`, from one invariant, `StoreInvariance`. A leaf is polled through its
layers from the outermost in, so what one poll does is proved layer by layer (`LayerPolled`), and what a walk
over the pending list does (reconciliation, the anchoring scan, a teardown, an admission of several
leaves) is a recursive function of the walk's length, about which facts are proved by taking the least
length that breaks them. The parts of the invariant:

- `LeavesOK`: a pending leaf is its script from where its history left off, with the rest of its retry
  loop in step with the attempts made, under layers that have not started at the instant of its birth
  or else run from that birth; a layer is closed by a deadline, by the end of its script or by a quit, and
  until a deadline closes one, what the leaf delivered, holds and has left is its script;
- `HonestOK`: what was received of a retry loop's leaf, pending, gone or revoked, is one message at most, a
  timeout's or the verdict of the first attempt that ends the loop. It needs of the loop's state that every attempt
  before the current one failed and was to be retried (`Retried`), and of a layer that it says nothing but what
  it was told, an end or its timeout, and that it never makes a timeout of an end (`Relayed`);
- `FiredOK`: a timeout call that made its message is among the closures spent, so it makes no other;
- `GoneOK`: a leaf that is gone and was not revoked has finished: it delivered its script, quit, or was
  past a deadline. Deliveries, teardowns, replacements and the pruning of exhausted leaves are the only
  ways to go, and each one is accounted for here. `PassIsExhaustive` is this, at the end of a test;
- `Anchoring`, within `LeavesOK`: time moves only when every pending leaf's layers have started, which is
  what the anchoring scan is for: an `advance` without it breaks the proof at that step;
- `Slots`: of two leaves of one id the earlier or the later is exhausted and holds nothing, and
  `RefusalsOK`: whoever is refused saw a leaf of its id that could still deliver;
- `HooksOK`: a registered cleanup is armed or was started, once, and one that was started is running
  or has nothing left to do.

Every invariant and action property of the passing runs is proved. Only model-checked: the liveness
properties, as the proof system has no rule for fairness here, and the refutations behind the findings.
`TurnsConverge` speaks of a current-thread runtime only.

## Findings

1. On a multi-thread runtime an invalidation can be lost. `complete_success` and `complete_error`
   (`http/cell.rs:179`, `211`) commit under the mutex and send after it. If `invalidate` bumps the
   generation and takes its version in between, the later version belongs to the older snapshot; the
   fetching stream marks that one as seen (`query.rs:626`), and the version check of `watch_cell`
   (`query.rs:714`) then skips the wake-up that would have refetched. RFC 0001 line 420 (INV-1) and
   line 413 say otherwise. `query_lost_invalidation` shows it; `query_streams` shows that it takes
   threads (`TurnsConverge`).
2. A stream dropped while its fetcher runs leaves the in-flight slot taken (`http/cell.rs:297`), and
   no later stream of the key fetches until `gc` evicts the cell; an invalidation does not help.
   RFC 0001 line 448 (INV-8) says that no cell holds a slot without completing.
   `query_orphaned_slot` shows it; `CompletionReleases` is the half of INV-8 that holds.
3. A subscriber that panics while it is told of a raised gauge leaves the gauge raised for good:
   `enter` (`runtime/load.rs:394`) dispatches before it builds the guard. The comments at
   `load.rs:551` (completion and abort both lower the gauge) and `load.rs:434` (the counts must stay
   correct) say otherwise. `gauge_stranded` shows it; `GuardsCounted` shows that nothing else does.
4. A root that owns a `Keyed` of rows with slots may reach a row with `get_mut` and dismiss or replace
   the occupant of its slot. The boundary of that slot is below the row and does not run in this
   update, so the old occupant's runs go on until the next message for the row (`combinator.rs:469`).
   `combinator.rs:35` says that a pending entry is observable only if it was recorded outside a
   `reduce`, and INV-RC3 asks for the teardown in the same update's command. `boundary_nested` shows
   it; `NoOrphan` shows that the teardown is late and not lost, `SuccessorSpared` that it hits nobody
   else when it comes.
5. When a poll comes after the deadlines of two nested timeouts, over a stream that is always ready, one
   item passes both layers and the next poll's inner timeout message is dropped by the outer one, whose
   own message is delivered (`command/effect.rs:93`). RFC 0004 lines 226 and 606 (T9) say that the
   earlier wrapper emits. `nested_timeouts` shows it; `TimeoutContract` shows that there is one message
   all the same, and at most one late item to a layer.

## Not modelled

Left out of what is modelled:

- Of the kernel: a panic of the hosted program that unwinds through a pass.
- Of the boundaries: stacks of other shapes, the order of rows, and the adapters of `adapter.rs` and
  `exit.rs`; the stages of a dispatch are Kernel's.
- Of the scripted driver: `ParkProbe`, the observations, the panics for misuse and the number of turns
  in its budgets; a budget may run out at any turn.
- Of the test store: what a failed assertion says. A test's expectations are not given: any operation
  may pass its assertion or fail it where the code can do either.
- Of the WebSocket: frame kinds and pings; a text and a binary frame are one.
- Of the dashboards: texts, the log, the status line but for losses, the section list, tick counters and views.
- Several keys of the query client, which share only the map that holds their cells; and two invalidates of one
  key that overlap on two threads, which the model takes one after the other (`ShardFree`).
- Of tokio: the cooperative yield of a task that has used up its budget of ready polls.

Not modelled: rendering and formatting, tracing fields, hashing and type erasure of identities; the
facade (`runtime.rs`), which builds a kernel and runs it; HTTP mutations, a future run once; signals,
terminal events and the mock source, adapters of one external stream with no state of their own; the
panic hook, which reads a mark; the other examples, which show one feature each; and code that is itself
a test (loom mirrors, conformance suites, benches).
