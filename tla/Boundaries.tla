----------------------------- MODULE Boundaries -----------------------------
(***************************************************************************)
(* A stack of reducer combinators over collections that record removals    *)
(* (src/reducer/combinator.rs and collection.rs), as its messages are      *)
(* reduced and the commands it returns are dispatched:                     *)
(*                                                                         *)
(*   root.scope(header, "header")                                          *)
(*       .for_each(pane.presented(dialog, "dialog"), Key)                  *)
(*       .presented(modal, "modal")                                        *)
(*                                                                         *)
(* Every child state is an instance, placed where its boundary puts it and *)
(* told from the earlier ones of its place, as long as something is held   *)
(* for them, by a number.  held is what the runtime holds for instances:   *)
(* runs, subscription runs and armed cleanup hooks.  A dispatch is one     *)
(* step here (module Kernel has its stages), a reconciliation another: a   *)
(* batch may reduce several messages before it.                            *)
(***************************************************************************)
EXTENDS CommandLayer, FiniteSets

CONSTANTS
  Key,           \* the keys a row may have
  Nobody,        \* the empty place
  OutsideEdits,  \* whether init edits the collections as well
  MaxOwed,       \* bound: how many dismissals a dialog's slot records undrained
  MaxHolders     \* bound: for how many instances something is held at once

(* Where the boundaries of the stack put the states of their children.     *)
Place ==
  {Empty, <<"header">>, <<"modal">>} \cup {<<k>> : k \in Key} \cup {<<k, "dialog">> : k \in Key}

Child == [n : Nat, place : Place]

Slot == [value : Child \cup {Nobody}, dismissals : Nat]

Row == [who : Child, dialog : Slot]

ASSUME BoundariesAssumption ==
  /\ Key \cap {"header", "dialog", "modal"} = {}
  /\ Nobody \notin Child \cup Row
  /\ OutsideEdits \in BOOLEAN
  /\ MaxOwed \in Nat
  /\ MaxHolders \in Nat

VARIABLES
  state,   \* the root state: rows, their removals, the modal slot
  held,    \* what the runtime holds
  intact   \* history: whether the last command dispatched requests a redraw
           \* as the command of the reducer that made it does

vars == <<state, held, intact>>

Instance(n, place) == [n |-> n, place |-> place]

Root == Instance(0, Empty)
Header == Instance(0, <<"header">>)

EmptySlot == [value |-> Nobody, dismissals |-> 0]

NewState == [rows |-> [k \in Key |-> Nobody], removals |-> <<>>, modal |-> EmptySlot]

Rows(s) == {k \in Key : s.rows[k] # Nobody}

Instances(s) ==
  ({Root, Header, s.modal.value}
     \cup {s.rows[k].who : k \in Rows(s)}
     \cup {s.rows[k].dialog.value : k \in Rows(s)}) \ {Nobody}

(* A new instance of a place: the first that nothing tells of.             *)
Mint(s, place) ==
  LET told == Instances(s) \cup {x.owner : x \in held}
  IN  CHOOSE i \in {Instance(n, place) : n \in 1..(MaxHolders + 2)} :
        /\ i \notin told
        /\ \A n \in 1..(i.n - 1) : Instance(n, place) \in told

-----------------------------------------------------------------------------
(* The collections, with their journals.                                   *)

(* Keyed::insert: over an occupied key it is a removal as well.            *)
InsertRow(s, k) ==
  [s EXCEPT !.rows[k] = [who |-> Mint(s, <<k>>), dialog |-> EmptySlot],
            !.removals = IF s.rows[k] = Nobody THEN @ ELSE Append(@, k)]

(* Keyed::remove.                                                          *)
RemoveRow(s, k) ==
  IF s.rows[k] = Nobody THEN s
  ELSE [s EXCEPT !.rows[k] = Nobody, !.removals = Append(@, k)]

Dismissed(slot) == IF slot.value = Nobody THEN slot.dismissals ELSE slot.dismissals + 1

(* Slot::present and Slot::dismiss.                                        *)
Present(slot, who) == [value |-> who, dismissals |-> Dismissed(slot)]

Dismiss(slot) == [value |-> Nobody, dismissals |-> Dismissed(slot)]

PresentDialog(s, k) ==
  IF s.rows[k] = Nobody THEN s
  ELSE [s EXCEPT !.rows[k].dialog = Present(@, Mint(s, <<k, "dialog">>))]

DismissDialog(s, k) ==
  IF s.rows[k] = Nobody THEN s ELSE [s EXCEPT !.rows[k].dialog = Dismiss(@)]

(* What a reducer that owns the collections may do in one update: to a     *)
(* row, whose own slot is within its reach, or to the modal, twice.        *)
RowEdits(s, k) ==
  {s, InsertRow(s, k), RemoveRow(s, k), PresentDialog(s, k), DismissDialog(s, k)}

ModalEdits(s) ==
  {s, [s EXCEPT !.modal = Present(@, Mint(s, <<"modal">>))], [s EXCEPT !.modal = Dismiss(@)]}

RootEdits(s) ==
  (UNION {UNION {RowEdits(t, k) : t \in RowEdits(s, k)} : k \in Key})
    \cup (UNION {ModalEdits(t) : t \in ModalEdits(s)})

PaneEdits(s, k) == {s, PresentDialog(s, k), DismissDialog(s, k)}

-----------------------------------------------------------------------------
(* The boundaries.  Each turns the state and the command that the reducer  *)
(* below returned into its own.                                            *)

Result(s, c) == [state |-> s, command |-> c]

(* merge: one teardown per recorded removal.                               *)
Merge(command, removed) ==
  IF removed = <<>> THEN command
  ELSE MergingTeardowns(command, Teardowns(removed))

DrainDiff(r) ==                   \* mutant: what is not there any more is torn down
  Result([r.state EXCEPT !.removals = <<>>],
         Merge(r.command, SelectSeq(r.state.removals, LAMBDA k : r.state.rows[k] = Nobody)))

DrainRemovals(r) ==
  Result([r.state EXCEPT !.removals = <<>>], Merge(r.command, r.state.removals))

Dismissals(slot, segment) == [i \in 1..slot.dismissals |-> segment]

DrainDialog(r, k) ==
  Result([r.state EXCEPT !.rows[k].dialog.dismissals = 0],
         Merge(r.command, Dismissals(r.state.rows[k].dialog, "dialog")))

DrainModal(r) ==
  Result([r.state EXCEPT !.modal.dismissals = 0],
         Merge(r.command, Dismissals(r.state.modal, "modal")))

(* What an instance returns of its own.                                    *)
Answer(who, m) ==
  LET command ==
        CASE m.answer = "Start" ->
               Batch(<<Cancellable(EffectCommand(who), NewId("load")), EffectCommand(who),
                       OnTeardown(who)>>)
          [] m.answer = "Cancel" -> Cancel(NewId("load"))
          [] m.answer = "Quiet"  -> None
  IN  IF m.redraw THEN command ELSE WithoutRedraw(command)

(* presented's claimed branch: an empty slot discards the message.         *)
ToOccupant(s, slot, segment, m) ==
  Result(s, IF slot.value = Nobody THEN None ELSE Scoped(Answer(slot.value, m), segment))

PaneOrDialog(s, m) ==
  IF m.to = "Dialog" THEN ToOccupant(s, s.rows[m.key].dialog, "dialog", m)
  ELSE Result(m.edited, Answer(s.rows[m.key].who, m))

DrainWhenParent(s, m) ==          \* mutant: the claimed branch is not drained
  IF m.to = "Dialog" THEN PaneOrDialog(s, m) ELSE DrainDialog(PaneOrDialog(s, m), m.key)

(* pane.presented(dialog).                                                 *)
PaneStack(s, m) == DrainDialog(PaneOrDialog(s, m), m.key)

(* root.scope(header): nothing to drain.                                   *)
HeaderStack(s, m) ==
  IF m.to = "Header" THEN Result(s, Scoped(Answer(Header, m), "header"))
  ELSE Result(m.edited, Answer(Root, m))

(* for_each: a row that is not there discards the message.                 *)
RowOrHeader(s, m) ==
  IF m.to \notin {"Pane", "Dialog"} THEN HeaderStack(s, m)
  ELSE IF s.rows[m.key] = Nobody THEN Result(s, None)
  ELSE LET r == PaneStack(s, m) IN Result(r.state, Scoped(r.command, m.key))

RowsStack(s, m) == DrainRemovals(RowOrHeader(s, m))

(* The closed stack.  A message for the modal runs nothing below.          *)
Reduce(s, m) ==
  DrainModal(IF m.to = "Modal" THEN ToOccupant(s, s.modal, "modal", m) ELSE RowsStack(s, m))

(* subscriptions: each instance declares one, qualified by the boundaries. *)
Declarations(s) ==
  {Empty, Prefixed("header", Empty)}
    \cup {Prefixed(k, Empty) : k \in Rows(s)}
    \cup {Prefixed(k, Prefixed("dialog", Empty)) :
            k \in {j \in Rows(s) : s.rows[j].dialog.value # Nobody}}
    \cup (IF s.modal.value = Nobody THEN {} ELSE {Prefixed("modal", Empty)})

-----------------------------------------------------------------------------
(* The runtime.                                                            *)

Hold(kind, scope, id, owner) == [kind |-> kind, scope |-> scope, id |-> id, owner |-> owner]

LeafHold(leaf) ==
  Hold(IF leaf.key = NoKey THEN "Anonymous" ELSE "Keyed", leaf.scope, leaf.key, leaf.payload)

Leaves(c) == {LeafHold(c.leaves[i]) : i \in DOMAIN c.leaves}

Cleanups(c) == {Hold("Cleanup", c.cleanups[i].scope, NoKey, c.cleanups[i].payload) :
                  i \in DOMAIN c.cleanups}

(* Cancels and teardowns, then spawns and registrations.                   *)
Dispatch(h, c) ==
  {x \in h : /\ \A i \in DOMAIN c.cancels : x.kind = "Keyed" => x.id # c.cancels[i]
             /\ \A i \in DOMAIN c.teardowns : ~Under(x.scope, c.teardowns[i])
             /\ \A y \in Leaves(c) : x.kind = "Keyed" => x.id # y.id}
    \cup Leaves(c) \cup Cleanups(c)

Undeclared(h, s) == {x \in h : x.kind = "Subscription" /\ x.scope \notin Declarations(s)}

-----------------------------------------------------------------------------
Init ==
  /\ held = {}
  /\ state \in IF OutsideEdits THEN RootEdits(NewState) ELSE {NewState}
  /\ intact = TRUE

Bounded(s, h) ==
  /\ \A k \in Rows(s) : s.rows[k].dialog.dismissals <= MaxOwed
  /\ Cardinality({x.owner : x \in h}) <= MaxHolders

(* One message through the stack, and the dispatch of its command.  A      *)
(* discarded one redraws, as none does.                                    *)
Update(m, discarded) ==
  LET r == Reduce(state, m)
  IN  /\ state' = r.state
      /\ held' = Dispatch(held, r.command)
      /\ intact' = (r.command.redraw = (discarded \/ m.redraw))
      /\ Bounded(state', held')

(* Reducers that start something redraw, the others do not.                *)
Message(to, k, edited, answer) ==
  [to |-> to, key |-> k, edited |-> edited, answer |-> answer, redraw |-> answer = "Start"]

Answers == {"Start", "Cancel", "Quiet"}

ToRoot ==
  \E s \in RootEdits(state) : Update(Message("Root", Nobody, s, "Quiet"), FALSE)

ToHeader ==
  \E answer \in Answers : Update(Message("Header", Nobody, state, answer), FALSE)

ToPane(k) ==
  \E s \in PaneEdits(state, k), answer \in Answers :
    Update(Message("Pane", k, s, answer), k \notin Rows(state))

ToDialog(k) ==
  \E answer \in Answers :
    Update(Message("Dialog", k, state, answer),
           k \notin Rows(state) \/ state.rows[k].dialog.value = Nobody)

ToModal ==
  \E answer \in Answers :
    Update(Message("Modal", Nobody, state, answer), state.modal.value = Nobody)

(* Reconciliation: subscriptions that are no longer declared stop, and     *)
(* admissions wait for a pass that stops none.                             *)
StopSubscriptions ==
  /\ Undeclared(held, state) # {}
  /\ held' = held \ Undeclared(held, state)
  /\ UNCHANGED <<state, intact>>

(* A declared one that does not run starts; MaxHolders leaves room for one *)
(* instance, and which it is is open.                                      *)
Admit ==
  \E who \in Instances(state) :
    /\ Undeclared(held, state) = {}
    /\ \A x \in held : x.kind = "Subscription" => x.scope # who.place
    /\ held' = held \cup {Hold("Subscription", who.place, NoKey, who)}
    /\ UNCHANGED <<state, intact>>
    /\ Bounded(state, held')

Next ==
  \/ ToRoot \/ ToHeader \/ ToModal \/ StopSubscriptions \/ Admit
  \/ \E k \in Key : ToPane(k) \/ ToDialog(k)

Spec == Init /\ [][Next]_vars
=============================================================================
