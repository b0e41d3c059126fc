------------------------------ MODULE Registry ------------------------------
(***************************************************************************)
(* The kernel's run registry (src/kernel/registry.rs): one entry per run,  *)
(* from its start until its task has exited and its queued output has      *)
(* drained.  This module holds the entries and the transitions the kernel  *)
(* applies to them; Kernel composes it with the producers of Ingress.      *)
(*                                                                         *)
(* A run's PendingCounter is the variable pending: the producer's side     *)
(* (Ingress) reserves and releases, the registry's dequeue decrements.     *)
(***************************************************************************)
EXTENDS Integers, SequencesExt

CONSTANTS
  MaxRuns,      \* bound: how many runs one behaviour may start
  Ceiling,      \* POISONED, the saturation value of a pending counter
  CommandIds,   \* identities of keyed command runs
  SubIds,       \* identities of subscription runs
  NoId,         \* the identity of an anonymous or a cleanup run
  Scopes        \* structural scope paths: sequences of segments

ASSUME RegistryAssumption ==
  /\ MaxRuns \in Nat
  /\ Ceiling \in Nat \ {0}
  /\ CommandIds \cap SubIds = {}
  /\ NoId \notin CommandIds \cup SubIds
  /\ <<>> \in Scopes

Token == 1..MaxRuns
Ids   == CommandIds \cup SubIds \cup {NoId}

Entry == [kind    : {"None", "Keyed", "Anon", "Sub", "Cleanup"},
          id      : Ids,
          scope   : Scopes,
          phase   : {"Running", "Stopping", "Draining"},
          revoked : BOOLEAN,
          exited  : BOOLEAN]

VARIABLES
  registry,   \* the tokens that have an entry
  entry,      \* the entries; a retired token keeps its last value as history
  keyed,      \* the incrementally maintained count of keyed entries
  aborted,    \* the tasks whose abort handle was fired
  pending     \* the pending counter of each run

registryVars == <<registry, entry, keyed, aborted, pending>>

NoEntry == [kind |-> "None", id |-> NoId, scope |-> <<>>, phase |-> "Running",
            revoked |-> FALSE, exited |-> FALSE]

RegistryInit ==
  /\ registry = {}
  /\ entry = [t \in Token |-> NoEntry]
  /\ keyed = 0
  /\ aborted = {}
  /\ pending = [t \in Token |-> 0]

-----------------------------------------------------------------------------
(* The pending counter (accounting.rs), one transition per exchange.       *)

Reserve(n) == IF n = Ceiling THEN n ELSE n + 1

(* An underflow, which panics in the code, shows as a negative count.      *)
Decrement(n) == IF n = Ceiling THEN n ELSE n - 1

-----------------------------------------------------------------------------
(* Predicates over one entry.                                              *)

EagerRemovalRule(exited, count) == exited           \* mutant: ignores residue

RemovalRule(exited, count) == exited /\ count # Ceiling /\ count = 0

HoldsKeyedSlot(e) == ~e.revoked /\ e.phase # "Stopping"

OccupiesKeyedSlot(e, id) == HoldsKeyedSlot(e) /\ e.kind = "Keyed" /\ e.id = id

IsStoppingSub(e) == e.kind = "Sub" /\ e.phase = "Stopping"

IsRunningSub(e, id) == e.phase = "Running" /\ e.kind = "Sub" /\ e.id = id

SelectableByAny(e) == TRUE                          \* mutant: cleanup included

SelectableByTeardown(e) == e.kind # "Cleanup"

SelectedBy(e, prefix) == IsPrefix(prefix, e.scope)

-----------------------------------------------------------------------------
(* Lookups over the registry.                                              *)

(* At most one token: KeyedSlotUnique is the code's debug_assert.          *)
KeyedOccupants(id) == {t \in registry : OccupiesKeyedSlot(entry[t], id)}

SubRunning(id) == \E t \in registry : IsRunningSub(entry[t], id)

AnyStoppingSub == \E t \in registry : IsStoppingSub(entry[t])

SelectPrefix(prefix) ==
  {t \in registry : SelectableByTeardown(entry[t]) /\ SelectedBy(entry[t], prefix)}

-----------------------------------------------------------------------------
(* Transitions.                                                            *)

AbortOnly(e) ==                       \* mutant: the stop forgets to revoke
  IF e.exited THEN e ELSE [e EXCEPT !.phase = "Stopping"]

RevokeUnlessExited(e) ==              \* mutant: a tombstone stays deliverable
  IF e.exited THEN e ELSE [e EXCEPT !.revoked = TRUE, !.phase = "Stopping"]

(* stop_effect: a run whose task has exited is revoked and nothing else.   *)
Stopped(e) ==
  IF e.exited THEN [e EXCEPT !.revoked = TRUE]
              ELSE [e EXCEPT !.revoked = TRUE, !.phase = "Stopping"]

RevokeOnlyRequest(S) ==               \* mutant: the task is not aborted
  /\ entry' = [t \in Token |-> IF t \in S \cap registry THEN Stopped(entry[t])
                                                       ELSE entry[t]]
  /\ UNCHANGED aborted

(* stop_request, for every token of S that still has an entry.             *)
StopRequest(S) ==
  /\ entry' = [t \in Token |-> IF t \in S \cap registry THEN Stopped(entry[t])
                                                       ELSE entry[t]]
  /\ aborted' = aborted \cup {t \in S \cap registry : ~entry[t].exited}

UncountedRetire(t) ==                 \* mutant: the count keeps the entry
  /\ registry' = registry \ {t}
  /\ UNCHANGED keyed

(* Removal of an entry, with the keyed count kept beside it.               *)
Retire(t) ==
  /\ registry' = registry \ {t}
  /\ keyed' = IF t \in registry /\ entry[t].kind = "Keyed" THEN keyed - 1 ELSE keyed

(* on_exit: the task of t was joined.                                      *)
OnExit(t) ==
  IF t \notin registry
  THEN UNCHANGED <<registry, entry, keyed>>
  ELSE LET gone == RemovalRule(TRUE, pending[t]) IN
       /\ entry' = [entry EXCEPT ![t].exited = TRUE,
                                 ![t].phase = IF gone THEN @ ELSE "Draining"]
       /\ IF gone THEN Retire(t) ELSE UNCHANGED <<registry, keyed>>

(* on_dequeue: an envelope of t left a lane, to be delivered or discarded. *)
(* A missing entry is a panic of the code: no step.                        *)
OnDequeue(t) ==
  /\ t \in registry
  /\ pending' = [pending EXCEPT ![t] = Decrement(@)]
  /\ IF RemovalRule(entry[t].exited, pending'[t])
     THEN Retire(t)
     ELSE UNCHANGED <<registry, keyed>>

Fresh(kind, id, scope) ==
  [kind |-> kind, id |-> id, scope |-> scope, phase |-> "Running",
   revoked |-> FALSE, exited |-> FALSE]

(* insert, for the run t, after a stop request for the runs of S: a spawn  *)
(* that replaces its slot's occupant stops it first.                       *)
StopAndInsert(S, t, kind, id, scope) ==
  /\ registry' = registry \cup {t}
  /\ entry' = [u \in Token |-> IF u = t THEN Fresh(kind, id, scope)
                               ELSE IF u \in S \cap registry THEN Stopped(entry[u])
                               ELSE entry[u]]
  /\ aborted' = aborted \cup {u \in S \cap registry : ~entry[u].exited}
  /\ keyed' = IF kind = "Keyed" THEN keyed + 1 ELSE keyed

(* clear: the registry as a settled kernel leaves it.                      *)
Clear ==
  /\ registry' = {}
  /\ keyed' = 0
=============================================================================
