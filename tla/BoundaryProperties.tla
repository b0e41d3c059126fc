------------------------- MODULE BoundaryProperties -------------------------
(***************************************************************************)
(* What the boundaries of a stack promise their children.  INV-RC numbers  *)
(* are those of docs/rfcs/0014-reducer-first-core.md.                      *)
(***************************************************************************)
EXTENDS Boundaries

(* The prefixes of recorded removals that no boundary has drained.         *)
Owed(s) ==
  {<<s.removals[i]>> : i \in DOMAIN s.removals}
    \cup {<<k, "dialog">> : k \in {j \in Rows(s) : s.rows[j].dialog.dismissals > 0}}
    \cup (IF s.modal.dismissals > 0 THEN {<<"modal">>} ELSE {})

(* INV-RC3: nothing of an instance that is gone is left behind.  It was    *)
(* torn down, though its key be taken again in the same update, or a       *)
(* boundary owes a teardown of a prefix it is under.                       *)
NoOrphan ==
  \A x \in held : \/ x.owner \in Instances(state)
                  \/ \E p \in Owed(state) : Under(x.scope, p)

(* A teardown that is late does not hit the successor: nothing but a       *)
(* cancellation of its key or the end of its declaration stops what is     *)
(* held for an instance that stays, so an anonymous effect or a hook does  *)
(* not go.                                                                 *)
SuccessorSpared ==
  [][\A x \in held \ held' :
       x.kind \in {"Anonymous", "Cleanup"} => x.owner \notin Instances(state')]_vars

(* INV-RC2: a boundary qualifies every carrier of an identity by its own   *)
(* segment, once, and adds nothing else: what is held for an instance is   *)
(* where the instance is, and a redraw is requested if its update did.     *)
BoundariesOnlyQualify ==
  /\ \A x \in held : /\ x.scope = x.owner.place
                     /\ x.id # NoKey => x.id.scope = x.owner.place
  /\ intact

(* combinator.rs: an entry is left to a later update only when it was      *)
(* recorded outside a reduce; so if none is, no run or hook outlives the   *)
(* update that removed its instance.  (A subscription may, until the pass  *)
(* reconciles.)                                                            *)
TornInTheUpdate ==
  \A x \in held : x.kind # "Subscription" => x.owner \in Instances(state)
=============================================================================
