------------------------------- MODULE Effects -------------------------------
(***************************************************************************)
(* Effect streams as their consumer polls them: command/effect.rs (the     *)
(* timeout wrapper) and command/retry.rs (the retry loop), and the command *)
(* constructors that build them.                                           *)
(*                                                                         *)
(* A source is the script of one future or stream: what it does between    *)
(* its await points, and the wake-up of the sleep it is in.  A leaf is a   *)
(* source under timeout layers, innermost first; polling a leaf polls the  *)
(* outermost layer, and a layer that has closed never polls what is below  *)
(* it again.  A poll is a function of the leaf, the clock and the timeout  *)
(* closures already spent.                                                 *)
(***************************************************************************)
EXTENDS CommandLayer, Integers

CONSTANT Fuel       \* steps a source may take within one poll

ASSUME FuelAssumption == Fuel \in Nat

NotStarted == -1

-----------------------------------------------------------------------------
(* What a poll returns (Poll<Option<Action>>).                             *)

Answer(kind, of, n) == [kind |-> kind, of |-> of, n |-> n]

Pending == Answer("Pending", "", <<>>)
End     == Answer("End", "", <<>>)
Quit    == Answer("Quit", "", <<>>)
Message(of, n) == Answer("Message", of, n)

IsAction(answer) == answer.kind \in {"Message", "Quit"}

-----------------------------------------------------------------------------
(* Sources.                                                                *)

Emit(answer) == [do |-> "Emit", answer |-> answer]
Wait(d)      == [do |-> "Wait", time |-> d]
Hang         == [do |-> "Hang"]

(* One attempt of a retried operation; policy holds max, delay, and for    *)
(* each attempt its duration, its outcome and the predicate's answer.      *)
Try(policy, attempt)   == [do |-> "Try", policy |-> policy, attempt |-> attempt]
Judge(policy, attempt) == [do |-> "Judge", policy |-> policy, attempt |-> attempt]

(* tries and asked are history: when each attempt started, and for which   *)
(* attempts the predicate was called.                                      *)
Source(steps) == [steps |-> steps, due |-> NotStarted, tries |-> <<>>, asked |-> {}]

NoFinalBranch(policy, n) ==             \* mutant: the predicate decides alone
  IF policy.ok[n] THEN <<Emit(Message("ok", <<n>>))>>
  ELSE IF policy.again[n] THEN <<Wait(policy.delay), Try(policy, n + 1)>>
  ELSE <<Emit(Message("stopped", <<n>>))>>

PredicateFirst(policy, n) ==            \* mutant: the predicate is heeded before the count
  IF policy.ok[n] THEN <<Emit(Message("ok", <<n>>))>>
  ELSE IF ~policy.again[n] THEN <<Emit(Message("stopped", <<n>>))>>
  ELSE IF n = policy.max THEN <<Emit(Message("exhausted", <<n>>))>>
  ELSE <<Wait(policy.delay), Try(policy, n + 1)>>

(* run_retry, once an attempt has completed.                               *)
AfterAttempt(policy, n) ==
  CASE policy.ok[n] -> <<Emit(Message("ok", <<n>>))>>
    [] ~policy.ok[n] /\ n = policy.max -> <<Emit(Message("exhausted", <<n>>))>>
    [] ~policy.ok[n] /\ n # policy.max /\ ~policy.again[n] -> <<Emit(Message("stopped", <<n>>))>>
    [] OTHER -> <<Wait(policy.delay), Try(policy, n + 1)>>

AsksPredicate(policy, n) == ~policy.ok[n] /\ n # policy.max

(* A sleep starts at the poll that reaches it, and is over when its        *)
(* deadline is; Emit and Hang are where a source rests.                    *)
SourceStep(s, now) ==
  IF s.steps = <<>> THEN s
  ELSE LET step == Head(s.steps)
           rest == Tail(s.steps)
       IN CASE step.do = "Wait" ->
                 LET due == IF s.due = NotStarted THEN now + step.time ELSE s.due
                 IN  IF due <= now THEN [s EXCEPT !.steps = rest, !.due = NotStarted]
                                   ELSE [s EXCEPT !.due = due]
            [] step.do = "Try" ->
                 [s EXCEPT !.steps = <<Wait(step.policy.takes[step.attempt]),
                                       Judge(step.policy, step.attempt)>> \o rest,
                           !.tries = Append(@, now)]
            [] step.do = "Judge" ->
                 [s EXCEPT !.steps = AfterAttempt(step.policy, step.attempt) \o rest,
                           !.asked = IF AsksPredicate(step.policy, step.attempt)
                                     THEN @ \cup {step.attempt} ELSE @]
            [] OTHER -> s

(* A source runs until it rests.                                           *)
Rested(source, now) ==
  LET After[k \in 0..Fuel] == IF k = 0 THEN source ELSE SourceStep(After[k - 1], now)
  IN  After[Fuel]

Yield(s) ==
  CASE s.steps = <<>> -> [src |-> s, out |-> End]
    [] s.steps # <<>> /\ Head(s.steps).do = "Emit" ->
         [src |-> [s EXCEPT !.steps = Tail(@)], out |-> Head(s.steps).answer]
    [] OTHER -> [src |-> s, out |-> Pending]

PollSource(source, now) == Yield(Rested(source, now))

-----------------------------------------------------------------------------
(* Timeout layers (TimeoutLeaf).                                           *)

(* late and cut are history: items let through at or after the deadline,   *)
(* and what the inner stream answered when the deadline closed the layer.  *)
Layer(duration, call) ==
  [duration |-> duration, call |-> call, deadline |-> NotStarted, observed |-> FALSE,
   open |-> TRUE, late |-> 0, cut |-> Pending]

(* finish: the inner stream and the sleep are dropped.                     *)
Finish(layer) == [layer EXCEPT !.open = FALSE]

DeadlineOf(layer, now) == IF layer.deadline = NotStarted THEN now + layer.duration
                                                         ELSE layer.deadline

FreshFactory(spent, call) == spent     \* mutant: the closure is not taken

TakeFactory(spent, call) == spent \cup {call}

(* take_deadline_path: the first leaf of a call to get here takes its      *)
(* closure; the others close without a message.                            *)
TakeDeadlinePath(layer, r) ==
  [r EXCEPT !.layer = [Finish(layer) EXCEPT !.cut = r.out],
            !.spent = TakeFactory(@, layer.call),
            !.fired = IF layer.call \in r.spent THEN @ ELSE Append(@, layer.call),
            !.out   = IF layer.call \in r.spent THEN End ELSE Message("timeout", layer.call)]

(* The same inner item passes whether or not the deadline was seen.        *)
ForgetDeadline(layer, due) == layer    \* mutant: the deadline stays unobserved

ObserveDeadline(layer, due) == [layer EXCEPT !.observed = due]

CountLate(layer, due) == [layer EXCEPT !.late = IF due THEN @ + 1 ELSE @]

DeadlineFirst(layer, r, due) ==        \* mutant: an elapsed deadline beats the end
  IF due THEN TakeDeadlinePath(layer, r)
  ELSE IF r.out \in {End, Quit} THEN [r EXCEPT !.layer = Finish(layer)]
  ELSE [r EXCEPT !.layer = layer]

(* poll_next of a layer, given what its inner stream answered (r.out).     *)
AnswerOf(layer, r, due) ==
  CASE r.out = End -> [r EXCEPT !.layer = Finish(layer)]
    [] r.out # End /\ layer.observed -> TakeDeadlinePath(layer, r)
    [] r.out = Quit /\ ~layer.observed -> [r EXCEPT !.layer = Finish(CountLate(layer, due))]
    [] r.out.kind = "Message" /\ ~layer.observed ->
         [r EXCEPT !.layer = ObserveDeadline(CountLate(layer, due), due)]
    [] r.out = Pending /\ ~layer.observed /\ due -> TakeDeadlinePath(layer, r)
    [] OTHER -> [r EXCEPT !.layer = layer]

PollLayer(layer, r, now) ==
  LET deadline == DeadlineOf(layer, now)
  IN  AnswerOf([layer EXCEPT !.deadline = deadline], r, deadline <= now)

(* One poll of a whole leaf: layer i is asked only if layer i + 1 is open. *)
Innermost(leaf, p, spent, fired) ==
  [src |-> p.src, layers |-> leaf.layers, layer |-> {},
   spent |-> spent, fired |-> fired, out |-> p.out]

Closed(leaf, spent, fired) == Innermost(leaf, [src |-> leaf.src, out |-> End], spent, fired)

Restored(r, i) == [r EXCEPT !.layers[i] = r.layer, !.layer = {}]

PollLeaf(leaf, spent, fired, now) ==
  LET Polled[i \in 0..Len(leaf.layers)] ==
        IF i = 0 THEN Innermost(leaf, PollSource(leaf.src, now), spent, fired)
        ELSE IF ~leaf.layers[i].open THEN Closed(leaf, spent, fired)
        ELSE Restored(PollLayer(leaf.layers[i], Polled[i - 1], now), i)
  IN  Polled[Len(leaf.layers)]

-----------------------------------------------------------------------------
(* Commands that carry such leaves.                                        *)

(* Command::future, perform, stream, run and effect: one leaf.             *)
Effect(steps) ==
  EffectCommand([src |-> Source(steps), layers |-> <<>>, policy |-> "CancelInFlight"])

Retry(policy) == Effect(<<Try(policy, 1)>>)

(* Command::quit, whose leaf is known by its kind.                         *)
QuitCommand == [Effect(<<Emit(Quit)>>) EXCEPT !.leaves[1].kind = "ImmediateQuit"]

CancellableWith(effect, id, policy) ==
  [Cancellable(effect, id) EXCEPT !.leaves[1].payload.policy = policy]

(* Effect::timeout: one closure for all the leaves there are.              *)
Timeout(command, duration, call) ==
  [command EXCEPT !.leaves =
     [i \in DOMAIN @ |-> [@[i] EXCEPT !.payload.layers = Append(@, Layer(duration, call))]]]
=============================================================================
