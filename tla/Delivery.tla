------------------------------ MODULE Delivery ------------------------------
(***************************************************************************)
(* What the kernel promises about message delivery, without any of its     *)
(* machinery (RFC 0014 section 3: src/kernel/lane.rs, registry.rs).  Every *)
(* run has one stream of numbered messages.  A run that is not revoked has *)
(* all of them handed to reduce, each once and in order; from the moment a *)
(* run is revoked, none is; and none is once delivery is closed.           *)
(***************************************************************************)
EXTENDS Naturals

CONSTANT Run

VARIABLES
  started,    \* the runs that exist
  revoked,    \* the runs whose output is retracted
  accepted,   \* messages of each run the data lane accepted
  reduced,    \* messages of each run handed to reduce
  closed      \* the kernel terminated

vars == <<started, revoked, accepted, reduced, closed>>

Init ==
  /\ started = {}
  /\ revoked = {}
  /\ accepted = [r \in Run |-> 0]
  /\ reduced = [r \in Run |-> 0]
  /\ closed = FALSE

(* Any started runs may be revoked along with a step; none is reinstated.  *)
RevokeSome ==
  /\ revoked' \in SUBSET started
  /\ revoked \subseteq revoked'

(* A replacing spawn revokes the occupant it replaces in the same step.    *)
Start(r) ==
  /\ ~closed
  /\ r \notin started
  /\ started' = started \cup {r}
  /\ RevokeSome
  /\ UNCHANGED <<accepted, reduced, closed>>

Accept(r) ==
  /\ ~closed
  /\ r \in started
  /\ accepted' = [accepted EXCEPT ![r] = @ + 1]
  /\ UNCHANGED <<started, revoked, reduced, closed>>

Revoke ==
  /\ RevokeSome
  /\ UNCHANGED <<started, accepted, reduced, closed>>

(* The next message of a live run, and only if the run really sent it.     *)
Reduce(r) ==
  /\ ~closed
  /\ r \in started \ revoked
  /\ reduced[r] < accepted[r]
  /\ reduced' = [reduced EXCEPT ![r] = @ + 1]
  /\ UNCHANGED <<started, revoked, accepted, closed>>

Close ==
  /\ ~closed
  /\ closed' = TRUE
  /\ RevokeSome
  /\ UNCHANGED <<started, accepted, reduced>>

Next ==
  \/ \E r \in Run : Start(r) \/ Accept(r) \/ Reduce(r)
  \/ Revoke
  \/ Close

Spec == Init /\ [][Next]_vars
=============================================================================
