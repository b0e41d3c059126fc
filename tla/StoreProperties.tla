--------------------------- MODULE StoreProperties ---------------------------
(***************************************************************************)
(* What a test may rely on: the contracts of timeouts and retries          *)
(* (RFC 0004), of the store's clock and checks (RFC 0008), and of keyed    *)
(* slots (RFC 0003), stated over the history of a whole test.              *)
(***************************************************************************)
EXTENDS TestStore

Injective(s) == \A i, j \in DOMAIN s : s[i] = s[j] => i = j

PendingSet == {pending[i] : i \in DOMAIN pending}

BirthOf(leaf) == leaves[leaf.position + 1].at

HeardFrom(history, position) ==
  LET mine == Selected(history, {k \in DOMAIN history : history[k].position = position})
  IN  [i \in DOMAIN mine |-> mine[i].answer]

ReceivedOf(position) == HeardFrom(received, position)

(* RFC 0004 T3, T4, T9, T10: a timeout call makes at most one message over *)
(* all its leaves; one leaf delivers at most one; from the deadline on, at *)
(* most one more item passes a layer, even of a stream that is always      *)
(* ready; and a stream that has ended is never reported as timed out.      *)
(* RFC 0008 INV-T13: whatever the test did in between, every deadline of a *)
(* leaf runs from the clock at which the leaf was enqueued.                *)
TimeoutContract ==
  /\ Injective(fired)
  /\ \A i, j \in DOMAIN received :
       /\ received[i].answer.of = "timeout" /\ received[j].answer.of = "timeout"
       /\ received[i].position = received[j].position
       => i = j
  /\ \A leaf \in PendingSet : \A i \in DOMAIN leaf.layers :
       LET layer == leaf.layers[i] IN
       /\ layer.late <= 1 /\ layer.cut # End
       /\ IF layer.deadline = NotStarted THEN now = BirthOf(leaf)
          ELSE layer.deadline = BirthOf(leaf) + layer.duration

(* RFC 0004 section 2.4: of timeouts nested on one leaf, the one that      *)
(* makes a message is the one whose deadline is earlier.                   *)
EarlierTimeoutEmits ==
  \A i \in DOMAIN received :
    LET layers == leaves[received[i].position + 1].pushed.layers IN
    received[i].answer.of = "timeout" =>
      \A j, k \in DOMAIN layers :
        layers[j].call = received[i].answer.n => layers[j].duration <= layers[k].duration

(* The items of a script that is no retry loop.                            *)
ItemsOf(steps) ==
  LET emits == Selected(steps, {k \in DOMAIN steps : steps[k].do = "Emit"})
  IN  [i \in DOMAIN emits |-> emits[i].answer]

Scripted(pushed) == \A i \in DOMAIN pushed.src.steps : pushed.src.steps[i].do # "Try"

BufferOf(leaf) == IF IsBuffered(leaf) THEN <<leaf.buffered>> ELSE <<>>

(* No poll loses, repeats or reorders output, although reconciliation and  *)
(* the anchoring scan poll ahead of delivery: until a layer closes, what a *)
(* leaf delivered, what it holds and what it has left are its script.      *)
OutputKept ==
  \A leaf \in PendingSet :
    LET pushed == leaves[leaf.position + 1].pushed IN
    Scripted(pushed) /\ (\A i \in DOMAIN leaf.layers : leaf.layers[i].open)
    => ReceivedOf(leaf.position) \o BufferOf(leaf) \o ItemsOf(leaf.src.steps)
         = ItemsOf(pushed.src.steps)

(* RFC 0003 INV-2, INV-5, INV-7: two leaves of one id are never both able  *)
(* to deliver, and a KeepInFlight spawn is refused only while some leaf of *)
(* the id still can; exhausted leaves, polled or not, hold no slot.        *)
SlotDecisions ==
  /\ \A i, j \in DOMAIN pending :
       /\ i < j /\ pending[i].key = pending[j].key /\ pending[i].key # NoKey
       => \/ ~IsBuffered(pending[i]) /\ PollOnce(Book, i).out = End
          \/ ~IsBuffered(pending[j]) /\ PollOnce(Book, j).out = End
  /\ \A i \in DOMAIN refusals : refusals[i] # {}

DueBy(pushed, at) ==
  \E i \in DOMAIN pushed.layers : at + pushed.layers[i].duration <= now

Complete(pushed) ==
  IF Scripted(pushed) THEN ReceivedOf(pushed.position) = ItemsOf(pushed.src.steps)
                      ELSE Len(ReceivedOf(pushed.position)) = 1

HookDone(i) ==
  \E k \in DOMAIN started : /\ started[k].position = hooks[i].position
                            /\ PollSource(hooks[i].src, started[k].at).src.due <= now

(* RFC 0008 section 6: a test that passes without a quit received all the  *)
(* output of every leaf that it did not revoke and no deadline cut short,  *)
(* and ran every registered cleanup, once, to its end; a quit applied by   *)
(* an update and never observed does not pass.                             *)
PassIsExhaustive ==
  /\ Injective([k \in DOMAIN started |-> started[k].position])
  /\ verdict = "Passed" => quit # "QuitApplied"
  /\ verdict = "Passed" /\ quit = "Running" =>
       /\ \A p \in DOMAIN leaves :
            \/ p - 1 \in revoked
            \/ Complete(leaves[p].pushed)
            \/ DueBy(leaves[p].pushed, leaves[p].at)
       /\ \A i \in DOMAIN hooks : HookDone(i)

(* The attempt that ends a loop, and the message it ends with.             *)
Decides(policy, n) ==
  /\ policy.ok[n] \/ n = policy.max \/ ~policy.again[n]
  /\ \A m \in 1 .. n - 1 : ~policy.ok[m] /\ policy.again[m]

Verdict(policy, n) ==
  Message(IF policy.ok[n] THEN "ok" ELSE IF n = policy.max THEN "exhausted" ELSE "stopped", <<n>>)

IsLoop(pushed) == pushed.src.steps # <<>> /\ pushed.src.steps[1].do = "Try"

PolicyOf(pushed) == pushed.src.steps[1].policy

(* RFC 0004 R1 to R4: attempts are numbered to the policy's maximum, the   *)
(* next one starts no sooner than the last one's end and the whole backoff *)
(* allow, and the predicate is not asked about the final attempt.          *)
Attempted(src, policy) ==
  /\ Len(src.tries) <= policy.max
  /\ \A n \in DOMAIN src.tries : n > 1 =>
       src.tries[n] >= src.tries[n - 1] + policy.takes[n - 1] + policy.delay
  /\ src.asked \subseteq 1 .. policy.max - 1

(* A loop's leaf delivers one message at most, under whatever timeouts: a  *)
(* timeout's, or the verdict of the first attempt that ends the loop, and  *)
(* no poll that a deadline cut short, no attempt made twice and no late    *)
(* answer makes it another.                                                *)
RetryContract ==
  /\ \A leaf \in PendingSet :
       LET pushed == leaves[leaf.position + 1].pushed
       IN  IsLoop(pushed) => Attempted(leaf.src, PolicyOf(pushed))
  /\ \A i \in DOMAIN received :
       LET pushed == leaves[received[i].position + 1].pushed IN
       IsLoop(pushed) =>
         /\ \A j \in DOMAIN received : received[j].position = received[i].position => j = i
         /\ \/ received[i].answer.of = "timeout"
            \/ \E n \in 1 .. PolicyOf(pushed).max :
                 Decides(PolicyOf(pushed), n) /\ received[i].answer = Verdict(PolicyOf(pushed), n)
=============================================================================
