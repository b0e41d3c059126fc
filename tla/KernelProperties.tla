-------------------------- MODULE KernelProperties --------------------------
(***************************************************************************)
(* What the kernel must get right, over every interleaving of its passes   *)
(* with the producers.  INV-RC numbers are those of                        *)
(* docs/rfcs/0014-reducer-first-core.md.                                   *)
(***************************************************************************)
EXTENDS Kernel, FiniteSets

RegistryShape ==
  /\ registry \subseteq Token
  /\ entry \in [Token -> Entry]
  /\ keyed \in Int
  /\ aborted \subseteq Token
  /\ pending \in [Token -> Int]

IngressShape ==
  /\ task \in [Token -> TaskState]
  /\ queue \in [Lane -> Seq(Envelope)]
  /\ held \in [Lane -> {0, 1}]
  /\ open \in BOOLEAN
  /\ intents \in 0..MaxSends
  /\ sent \in [Lane -> [Token -> Nat]]
  /\ taken \in [Lane -> [Token -> Nat]]

KernelShape ==
  /\ phase \in Phases
  /\ reason \in {"None", "Quit", "RenderError"}
  /\ stage \in Stages
  /\ todo \in Seq(Step)
  /\ nextToken \in 1..(MaxRuns + 1)
  /\ redraw \in BOOLEAN
  /\ dirty \in BOOLEAN
  /\ pulled \in 0..BatchCap
  /\ updated \in BOOLEAN
  /\ exitBuf \in Seq(Token)
  /\ ledger \in Seq(Scopes)
  /\ declared \in Seq(SubIds)
  /\ reduced \in [Token -> Nat]
  /\ hooks \in [Scopes -> Nat]
  /\ program \in Programs

Shape == RegistryShape /\ IngressShape /\ KernelShape

(* Every variable has its type, and the two kinds of counter the code      *)
(* keeps neither underflow (which panics) nor pass their ceiling.          *)
TypeOK ==
  /\ Shape
  /\ keyed \in Nat
  /\ pending \in [Token -> 0..Ceiling]

-----------------------------------------------------------------------------
(* Delivery accounting.                                                    *)

(* Envelopes of t accepted and not dequeued, and its live reservation.     *)
Residue(t) ==
  (sent["data"][t] - taken["data"][t]) + (sent["control"][t] - taken["control"][t])
    + (IF task[t] \in Reserving THEN 1 ELSE 0)

(* While the lanes are open, the counter of a run is exactly what it has   *)
(* in flight, unless it saturated (accounting.rs rules 1 to 6): so it      *)
(* never underflows, and pending = 0 means that nothing is queued.         *)
PendingExact == open => \A t \in Token : pending[t] \in {Residue(t), Ceiling}

(* The tombstone invariant that on_dequeue expects: every queued envelope  *)
(* still finds an entry of its origin, whose revocation mark decides.      *)
Tombstone ==
  \A l \in Lane : \A i \in DOMAIN queue[l] : queue[l][i].origin \in registry

(* A poisoned counter keeps its entry until termination: it can never      *)
(* again show that the queue holds nothing of the run.                     *)
PoisonKeepsEntry ==
  \A t \in Token : pending[t] = Ceiling /\ stage # "settled" => t \in registry

(* Both: an entry outlives whatever still has to be decided against it.    *)
EntriesRetained == Tombstone /\ PoisonKeepsEntry

(* INV-RC5, INV-RC6: the kernel implements lossless, ordered, retractable  *)
(* delivery: the messages of a live run are reduced each once and in       *)
(* order, those of a run that was told to stop, by the mark on its entry   *)
(* or by its abort, never again.                                           *)
D == INSTANCE Delivery WITH
       Run      <- Token,
       started  <- {t \in Token : entry[t].kind # "None"},
       revoked  <- {t \in Token : entry[t].revoked} \cup aborted,
       accepted <- sent["data"],
       closed   <- ~open

DeliverySpec == D!Spec

-----------------------------------------------------------------------------
(* Identities and exclusion.                                               *)

(* At most one run of a command id is deliverable: the debug_assert of     *)
(* keyed_occupant (RFC 0003 INV-2), over cancels, replacements, natural    *)
(* finishes with queued output and late exits.                             *)
KeyedSlotUnique ==
  \A id \in CommandIds : \A t, u \in KeyedOccupants(id) : t = u

(* The incrementally kept keyed count is the count of a rescan (the        *)
(* debug_assert of publish_keyed_gauge).                                   *)
KeyedGauge == keyed = Cardinality({t \in registry : entry[t].kind = "Keyed"})

(* The subscription runs are those declared, one each.  Two of one id never *)
(* overlap: a successor starts only once the exit of every earlier one was *)
(* reflected; and between passes none keeps running undeclared, whatever   *)
(* the last batch made of the declarations.                                *)
DeclaredOnce ==
  /\ \A t, u \in Token :
       /\ t < u
       /\ entry[t].kind = "Sub" /\ entry[u].kind = "Sub"
       /\ entry[t].id = entry[u].id
       => task[t] = "Joined"
  /\ stage \in {"loop", "parked"} =>
       \A t \in registry :
         entry[t].kind = "Sub" /\ entry[t].phase = "Running" => IsDeclared(entry[t].id)

(* The quiescence barrier (RFC 0014 section 5.1, INV-RC12): while the task *)
(* of a stop-requested subscription run has not exited, no subscription    *)
(* run of any id starts.                                                   *)
AdmissionBarrier ==
  [][\A t \in Token :
       entry[t].kind = "None" /\ entry'[t].kind = "Sub" =>
         \A u \in Token : entry[u].kind = "Sub" /\ entry[u].revoked =>
           task[u] = "Joined"]_vars

-----------------------------------------------------------------------------
(* Passes.                                                                 *)

(* A quit of a live run waits in the control lane.                         *)
LiveQuit ==
  \E i \in DOMAIN queue["control"] : ~entry[queue["control"][i].origin].revoked

BeforeInput == stage \in {"loop", "parked", "exits", "control"}

(* INV-RC9: once a live quit has arrived before a pass reaches its input   *)
(* batch, it stays ahead of every further input until it is applied; and a *)
(* quit returned by reduce is the last effect of its command: nothing is   *)
(* started once the kernel terminates.                                     *)
QuitTakesEffect ==
  [][/\ LiveQuit /\ BeforeInput => Terminating' \/ (LiveQuit' /\ BeforeInput')
     /\ Terminating => nextToken' = nextToken]_vars

-----------------------------------------------------------------------------
(* Teardown, cleanup, termination.                                         *)

(* From a teardown's application point on, every envelope already queued   *)
(* by a run under its prefix is retracted (RFC 0013, INV-RC6, INV-RC7).    *)
TeardownRetracts ==
  NextStep("Finalize") =>
    \A l \in Lane : \A i \in DOMAIN queue[l] :
      LET e == entry[queue[l][i].origin] IN
      IsPrefix(Head(todo).scope, e.scope) => e.revoked

(* INV-RC8: each registration is still armed or was started, once; only    *)
(* termination discards one, and only it cancels a cleanup run, however    *)
(* many teardowns of the run's own prefix follow.                          *)
CleanupOnce ==
  ~Terminating =>
    /\ \A s \in Scopes :
         hooks[s] = Cardinality({i \in DOMAIN ledger : ledger[i] = s})
                  + Cardinality({t \in Token : entry[t].kind = "Cleanup" /\ entry[t].scope = s})
    /\ \A t \in Token : entry[t].kind = "Cleanup" => ~entry[t].revoked

(* Termination is a point of no return: nothing is queued, armed or        *)
(* deliverable any more, and every task still running was told to stop.    *)
TerminalPostcondition ==
  Terminating =>
    /\ \A l \in Lane : queue[l] = <<>>
    /\ ledger = <<>>
    /\ \A t \in Token : task[t] \in {"None", "Done", "Joined"} \cup
                                    (IF t \in aborted THEN TaskState ELSE {})

-----------------------------------------------------------------------------
(* Liveness, under Fairness.                                               *)

(* RFC 0011: once terminating, the kernel settles, every task it ever      *)
(* started ended and joined; dropped instead, parked or while it settles,  *)
(* it leaves no task that outlives it.                                     *)
TerminationSettles ==
  stage \in {"settle", "dropped"} ~>
    \/ stage = "settled"
    \/ stage = "dropped" /\ \A t \in Token : task[t] \in {"None", "Done", "Joined"}

(* No kernel stays parked on what it has to do.  INV-RC9, INV-RC16: what a *)
(* lane accepted is eventually drained, or dropped by termination.         *)
(* INV-RC12 (a stopping pass only defers): a declared subscription that is *)
(* not running while another is quiescing does start, unless it is no      *)
(* longer declared or the kernel terminates.                               *)
NothingForgotten ==
  /\ \A l \in Lane : queue[l] # <<>> ~> queue[l] = <<>>
  /\ \A id \in SubIds :
       (phase = "Steady" /\ AnyStoppingSub /\ IsDeclared(id))
         ~> (SubRunning(id) \/ ~IsDeclared(id) \/ Terminating)
=============================================================================
