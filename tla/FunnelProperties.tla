-------------------------- MODULE FunnelProperties --------------------------
(***************************************************************************)
(* What the gauges of one runtime guarantee.                               *)
(***************************************************************************)
EXTENDS GaugeFunnel

(* Every variable has its type; in particular no counter goes below zero,  *)
(* where its usize would wrap.                                             *)
TypeOK ==
  /\ counts \in Counts
  /\ seq \in Nat
  /\ pending \in Seq(Snapshot)
  /\ draining \in BOOLEAN
  /\ call \in [Site -> Call]
  /\ guards \in [Field -> Nat]
  /\ stranded \in [Field -> Nat]
  /\ listening \in BOOLEAN

(* emit's draining flag is raised exactly while one call holds the drainer *)
(* role, and nothing is queued without it.  So events are never dispatched *)
(* inside one another, by two threads or by a subscriber that changes a    *)
(* gauge, and no snapshot is left behind by a drainer that is gone.        *)
SingleDrainer ==
  /\ draining <=> \E s \in Site : Drainer(s)
  /\ \A s, u \in Site : Drainer(s) /\ Drainer(u) => s = u
  /\ pending # <<>> => draining

(* The snapshot numbered last.                                             *)
Newest(s) == IF pending = <<>> THEN call[s].snap ELSE pending[Len(pending)]

(* RFC 0006 section 4.4: the current value of a gauge is that of the event *)
(* with the greatest seq.  While emit drains, the newest snapshot carries  *)
(* the counts as they are, whatever threads and subscribers have changed   *)
(* since the drainer took its own.                                         *)
NewestCurrent ==
  \A s \in Site : Drainer(s) => Newest(s) = [seq |-> seq, counts |-> counts]

(* Both: nothing numbered is left behind, and nothing old passes for new.  *)
DrainCurrent == SingleDrainer /\ NewestCurrent

(* Calls that have raised a gauge and have no guard yet, or that drop a    *)
(* guard and have not lowered its gauge.                                   *)
Owes(s, f) ==
  /\ call[s].change.gauge = f
  /\ \/ Drainer(s) /\ call[s].change.op = "Enter"
     \/ At(s, "Checked") /\ call[s].change.op = "Leave"

(* A gauge is the number of its guards, the calls in progress and the      *)
(* raises a panic stranded: track_subscription and the others raise what   *)
(* one drop of their guard lowers, listening or not.                       *)
GuardsCounted ==
  \A f \in Field :
    counts[f] = guards[f] + stranded[f] + Cardinality({s \in Site : Owes(s, f)})

(* GaugeGuard's comment: completion and abort both lower the gauge.  With  *)
(* no call in progress a gauge is the number of guards alive.              *)
GaugesFall == Quiet => \A f \in Field : counts[f] = guards[f]

(* emit's snapshots that are numbered and not yet dispatched.              *)
Outstanding ==
  IF \E s \in Site : At(s, "Claimed")
    THEN <<call[CHOOSE s \in Site : At(s, "Claimed")].snap>> \o pending
    ELSE pending

Feed == INSTANCE GaugeFeed WITH feed <- Outstanding

(* The funnel is the feed RFC 0006 describes: one event for each value     *)
(* reached while any is outstanding, in the order of their numbers.        *)
FeedSpec == Feed!Spec

(* emit's drainer comes to an end, panics and re-entry included, when the  *)
(* changes do: later changes are not queued behind it for ever.            *)
FunnelReopens == draining ~> ~draining
=============================================================================
