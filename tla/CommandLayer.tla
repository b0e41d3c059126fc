---------------------------- MODULE CommandLayer ----------------------------
(***************************************************************************)
(* Commands as values: what src/command/core.rs and effect_command.rs      *)
(* build, and the phases src/kernel/lowering.rs reads them in.             *)
(*                                                                         *)
(* A path is a sequence of segments, outermost first; an id is a path and  *)
(* a local name.  A leaf is an effect: where its run will be placed and    *)
(* the key it contends under are two paths, which scoped extends together. *)
(* What a leaf's stream does is left out: payload names it.                *)
(***************************************************************************)
EXTENDS Naturals, Sequences, SequencesExt

Empty == <<>>

(* ScopePath: starts_with, and prefixed_key.                               *)
Under(path, prefix) == IsPrefix(prefix, path)

(* What a sequence has at some of its positions, in order.                 *)
Selected(s, positions) ==
  LET Upto[k \in 0..Len(s)] ==
        IF k = 0 THEN <<>>
        ELSE IF k \in positions THEN Append(Upto[k - 1], s[k]) ELSE Upto[k - 1]
  IN  Upto[Len(s)]

Prefixed(segment, path) == <<segment>> \o path

NewId(name) == [scope |-> Empty, name |-> name]

IdScoped(segment, id) == [id EXCEPT !.scope = Prefixed(segment, @)]

NoKey == [scope |-> Empty, name |-> "NoKey"]

-----------------------------------------------------------------------------
(* Constructors.                                                           *)

None == [redraw |-> TRUE, cancels |-> <<>>, teardowns |-> <<>>, cleanups |-> <<>>,
         leaves |-> <<>>]

EffectCommand(payload) ==
  [None EXCEPT !.leaves = <<[kind |-> "Effect", key |-> NoKey, scope |-> Empty,
                             payload |-> payload]>>]

(* On the one leaf of an EffectCommand: the last call wins.                *)
Cancellable(effect, id) == [effect EXCEPT !.leaves[1].key = id]

Cancel(id) == [None EXCEPT !.cancels = <<id>>]

(* One teardown for each segment.                                          *)
Teardowns(segments) ==
  [None EXCEPT !.teardowns = [i \in DOMAIN segments |-> Prefixed(segments[i], Empty)]]

OnTeardown(payload) == [None EXCEPT !.cleanups = <<[scope |-> Empty, payload |-> payload]>>]

-----------------------------------------------------------------------------
(* Modifiers.                                                              *)

WithoutRedraw(command) == [command EXCEPT !.redraw = FALSE]

LeafScoped(segment, leaf) ==
  [leaf EXCEPT !.scope = Prefixed(segment, @),
               !.key = IF @ = NoKey THEN NoKey ELSE IdScoped(segment, @)]

CleanupScoped(segment, cleanup) == [cleanup EXCEPT !.scope = Prefixed(segment, @)]

(* Every carrier of an identity is qualified, and nothing else.            *)
Scoped(command, segment) ==
  [command EXCEPT !.cancels   = [i \in DOMAIN @ |-> IdScoped(segment, @[i])],
                  !.teardowns = [i \in DOMAIN @ |-> Prefixed(segment, @[i])],
                  !.cleanups  = [i \in DOMAIN @ |-> CleanupScoped(segment, @[i])],
                  !.leaves    = [i \in DOMAIN @ |-> LeafScoped(segment, @[i])]]

(* A batch redraws if a child does; no child at all is none.               *)
Batch(commands) ==
  LET Concat(field(_)) == FlattenSeq([i \in DOMAIN commands |-> field(commands[i])])
  IN  IF commands = <<>> THEN None
      ELSE [redraw    |-> \E i \in DOMAIN commands : commands[i].redraw,
            cancels   |-> Concat(LAMBDA c : c.cancels),
            teardowns |-> Concat(LAMBDA c : c.teardowns),
            cleanups  |-> Concat(LAMBDA c : c.cleanups),
            leaves    |-> Concat(LAMBDA c : c.leaves)]

Payloads(command) == {command.leaves[i].payload : i \in DOMAIN command.leaves}

(* map: the messages change, by a function of them, and no metadata does.  *)
LeafMapped(leaf, f) == [leaf EXCEPT !.payload = f[@]]

Map(command, f) ==
  [command EXCEPT !.leaves = [i \in DOMAIN @ |-> LeafMapped(@[i], f)]]

BatchingTeardowns(command, other) == Batch(<<command, other>>)     \* mutant

(* Takes the other's teardowns, and nothing else of it.                    *)
MergingTeardowns(command, other) == [command EXCEPT !.teardowns = @ \o other.teardowns]

-----------------------------------------------------------------------------
(* KernelParts: an immediate quit is lifted out of the spawns.             *)

Spawns(command) ==
  Selected(command.leaves, {i \in DOMAIN command.leaves : command.leaves[i].kind = "Effect"})

QuitsNow(command) == \E i \in DOMAIN command.leaves : command.leaves[i].kind = "ImmediateQuit"
=============================================================================
