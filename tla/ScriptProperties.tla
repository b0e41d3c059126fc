-------------------------- MODULE ScriptProperties --------------------------
(* What a test may rely on when it scripts the sends of a driven kernel.   *)
EXTENDS ScriptedDriver

(* The types of the gate's, the producers' and the driver's state.  No     *)
(* counter underflows, which is an assertion of decrement.                 *)
TypeOK ==
  /\ nextSequence \in Nat
  /\ outstanding \in Grant
  /\ pc \in [Run -> PCs]
  /\ lane \in [Run -> Lane]
  /\ woken \subseteq Run
  /\ aborted \subseteq Run
  /\ intents \in [Run -> Nat]
  /\ accepted \in Seq([origin : Run, lane : Lane, grant : Nat])
  /\ lanes \in [Lane -> Seq(Run)]
  /\ open \in BOOLEAN
  /\ pending \in [Run -> Nat]
  /\ under \in [Run -> Nat]
  /\ state \in DriverState
  /\ call \in Calls
  /\ pulled \in Nat
  /\ held \subseteq Run
  /\ started \subseteq Run
  /\ names \subseteq Run
  /\ armed \in Seq(Run)
  /\ fate \in Seq(Confirmed)

(* A released send runs under the outstanding grant, which names its run,  *)
(* is taken and has no terminal yet: the assertions of resolve hold, from  *)
(* whichever drop it is called, and no two sends are in flight at a time.  *)
ReleaseOwned ==
  \A r \in Run : pc[r] \in InFlight =>
    /\ outstanding.origin = r
    /\ outstanding.taken
    /\ outstanding.outcome = "None"
    /\ under[r] = outstanding.sequence

(* The envelopes of r in the lane l.                                       *)
Queued(l, r) == {i \in DOMAIN lanes[l] : lanes[l][i] = r}

Reservation(r) == IF pc[r] \in Reserving THEN 1 ELSE 0

(* A counter is its run's envelopes and its reservation, and nothing else, *)
(* however a gated send ends; one aborted at the gate leaves no residue.   *)
PendingExact ==
  open => \A r \in Run :
            pending[r] = Cardinality(Queued("Data", r))
                           + Cardinality(Queued("Control", r)) + Reservation(r)

(* Both, of the sends that pass the gate: each runs under its own grant,   *)
(* and leaves no trace in a counter but its envelope.                      *)
GatedSends == ReleaseOwned /\ PendingExact

(* The grants and their ledger are what GrantLedger promises a test: one   *)
(* grant at a time, at most one entry for each, in the order of the        *)
(* grants, of the run the grant named, and a fate that tells the truth     *)
(* about it for good.                                                      *)
Book == INSTANCE GrantLedger WITH
  ledger <- [i \in DOMAIN accepted |->
               [origin |-> accepted[i].origin, grant |-> accepted[i].grant]]

BookSpec == Book!LedgerSpec

(* While the test settles, nothing enters the acceptance ledger: no        *)
(* released send is still on its way when settle is legal.                 *)
SettleAppendsNothing == [][call = "Settling" => UNCHANGED accepted]_vars

(* When the test can read the ledgers, each run with a record in one has a *)
(* name: the lookup in records does not fail.                              *)
RecordedRunsNamed ==
  call = "Script" => \A r \in Run : intents[r] > 0 => r \in names

Due(r) == Releases(r) /\ pc[r] \in AtTheGate /\ r \notin aborted

(* A producer that is at the gate when its grant is armed, or comes later, *)
(* gets the release, wherever between its checks the grant is armed.       *)
GateWakes == \A r \in Run : Due(r) ~> (~Due(r) \/ call = "Panicked")
=============================================================================
