-------------------------- MODULE KernelInvariant --------------------------
(***************************************************************************)
(* The inductive invariant of the kernel: what PendingExact and Tombstone  *)
(* rest on.  A pending counter is exact because each lane is a queue of    *)
(* consecutively numbered envelopes per run; a tombstone finds its entry   *)
(* because an entry is retired only when its counter, being exact, shows   *)
(* that nothing of the run is queued, held or still to come.               *)
(***************************************************************************)
EXTENDS KernelProperties

(* What a task holds on its run's counter.                                 *)
Reservation(t) == IF task[t] \in Reserving THEN 1 ELSE 0

(* Envelopes of t accepted on l and not dequeued.                          *)
Queued(l, t) == sent[l][t] - taken[l][t]

(* The lanes close with termination, which empties them.                   *)
Closed ==
  /\ open <=> ~Terminating
  /\ ~open => \A l \in Lane : queue[l] = <<>>
  /\ stage \in {"settle", "settled"} => Terminating

(* The lane l holds, per run, the envelopes taken + 1 .. sent in order.    *)
LaneFifo(l) ==
  /\ \A t \in Token : taken[l][t] <= sent[l][t]
  /\ \A i \in DOMAIN queue[l] :
       /\ taken[l][queue[l][i].origin] < queue[l][i].n
       /\ queue[l][i].n <= sent[l][queue[l][i].origin]
  /\ \A i, j \in DOMAIN queue[l] :
       i < j /\ queue[l][i].origin = queue[l][j].origin =>
         queue[l][i].n < queue[l][j].n
  /\ \A t \in Token : \A n \in (taken[l][t] + 1)..sent[l][t] :
       \E i \in DOMAIN queue[l] : queue[l][i].origin = t /\ queue[l][i].n = n

Fifo == open => \A l \in Lane : LaneFifo(l)

(* A counter that is not poisoned counts exactly what is in flight; once   *)
(* the lanes closed it still covers the reservation its task will release. *)
Counts ==
  \A t \in Token :
    /\ pending[t] \in 0..Ceiling
    /\ \/ pending[t] = Ceiling
       \/ /\ open
          /\ pending[t] = Queued("data", t) + Queued("control", t) + Reservation(t)
       \/ /\ ~open
          /\ pending[t] >= Reservation(t)

(* A run that may still send has an entry, and its exit is not reflected   *)
(* before its task ended and left the join set.                            *)
Lifetimes ==
  /\ \A t \in Token : task[t] \notin {"None", "Joined"} => t \in registry
  /\ \A t \in Token : entry[t].exited => task[t] = "Joined"
  /\ \A i \in DOMAIN exitBuf : task[exitBuf[i]] = "Joined"

(* A token that was not minted yet names nothing.                          *)
Unminted ==
  \A t \in Token : t >= nextToken =>
    /\ t \notin registry
    /\ task[t] = "None"

Inv == Shape /\ Closed /\ Fifo /\ Counts /\ Lifetimes /\ Unminted
             /\ Tombstone /\ PoisonKeepsEntry /\ KeyedGauge

-----------------------------------------------------------------------------
(* What exclusion, retraction, cleanup and termination rest on.            *)

(* The marks of an entry agree with its phase and with its task: a stop    *)
(* revokes and aborts together, only an exit drains, and a cleanup run has *)
(* no sender.                                                              *)
Marks ==
  /\ \A t \in Token :
       /\ entry[t].kind = "None" <=> task[t] = "None"
       /\ t >= nextToken => entry[t].kind = "None"
       /\ entry[t].revoked => entry[t].kind # "None"
       /\ t \in aborted => entry[t].revoked
       /\ task[t] \in Reserving => entry[t].kind # "Cleanup"
  /\ \A t \in registry :
       /\ entry[t].kind # "None"
       /\ entry[t].exited <=> entry[t].phase = "Draining"
       /\ entry[t].phase = "Running" => ~entry[t].revoked
       /\ entry[t].phase = "Stopping" => entry[t].revoked
  /\ \A l \in Lane : \A i \in DOMAIN queue[l] :
       entry[queue[l][i].origin].kind # "Cleanup"

(* A plan ends with its quit, and a Finalize directly follows its Teardown. *)
WellPlanned(steps) ==
  \A i \in DOMAIN steps : /\ steps[i].op = "Quit" => i = Len(steps)
                          /\ steps[i].op = "Finalize" => i = 1

(* Where the kernel's code can be: nothing is left to do when it           *)
(* terminates, and what a batch made stale is re-evaluated in its pass.    *)
Course ==
  /\ Terminating => \/ stage \in {"settle", "settled", "dropped"}
                    \/ stage \in {"bootDispatch", "dispatch"} /\ todo = <<>>
  /\ WellPlanned(todo)
  /\ stage = "boot" => nextToken = 1
  /\ updated => stage \in {"batch", "dispatch"}
  /\ dirty => stage \notin {"loop", "parked", "admit"}

(* The barrier: the admission loop admits declarations, and only while     *)
(* nothing quiesces.                                                       *)
Admitting ==
  stage \in {"bootAdmit", "admit"} =>
    /\ \A i \in DOMAIN todo : IsDeclared(todo[i].id)
    /\ todo # <<>> => ~AnyStoppingSub

(* Every subscription run that keeps running is declared, or a stage that  *)
(* re-evaluates lies ahead, or the kernel terminates.                      *)
Reevaluated ==
  \/ updated
  \/ dirty /\ stage = "frame"
  \/ Terminating
  \/ \A t \in registry :
       entry[t].kind = "Sub" /\ entry[t].phase = "Running" => IsDeclared(entry[t].id)

(* Between the two loops of a teardown, every effect and subscription      *)
(* under its prefix is revoked.                                            *)
Retracting ==
  NextStep("Finalize") =>
    \A t \in registry :
      entry[t].kind # "Cleanup" /\ IsPrefix(Head(todo).scope, entry[t].scope)
        => entry[t].revoked

(* The last message of a live run to leave the lane was reduced.           *)
Delivered == \A t \in Token : ~entry[t].revoked => reduced[t] = taken["data"][t]

(* One of the two runs of a subscription id has exited before the other.   *)
OneEach ==
  \A t, u \in Token :
    /\ t < u
    /\ entry[t].kind = "Sub" /\ entry[u].kind = "Sub"
    /\ entry[t].id = entry[u].id
    => task[t] = "Joined"

RunInv == /\ Inv /\ Marks /\ Course /\ Admitting /\ Reevaluated /\ Retracting /\ Delivered
          /\ OneEach /\ KeyedSlotUnique /\ CleanupOnce /\ TerminalPostcondition
=============================================================================
