------------------------------ MODULE MCKernel ------------------------------
(***************************************************************************)
(* Small hosted programs for TLC.  Each run gives the kernel one family of *)
(* commands and declarations, so that its interleavings stay few enough to *)
(* be exhausted.                                                           *)
(***************************************************************************)
EXTENDS KernelInvariant

Root  == <<>>
Child == <<"child">>
Leaf  == <<"child", "leaf">>
MCScopes == {Root, Child, Leaf}

CmdK  == "k"
SubA  == "a"
SubB  == "b"
None  == "none"

Do(op, id, scope, policy) ==
  <<[op |-> op, id |-> id, scope |-> scope, policy |-> policy]>>

CancelK      == Do("Cancel", CmdK, Root, "None")
SpawnReplace == Do("Spawn", CmdK, Child, "CancelInFlight")
SpawnKeep    == Do("Spawn", CmdK, Root, "KeepInFlight")
SpawnAnon    == Do("Spawn", None, Leaf, "None")
TearChild    == Do("Teardown", None, Child, "None")
TearLeaf     == Do("Teardown", None, Leaf, "None")
HookChild    == Do("Register", None, Child, "None")
HookLeaf     == Do("Register", None, Leaf, "None")

Nothing == [redraw |-> FALSE, cancels |-> <<>>, teardowns |-> <<>>, spawns |-> <<>>,
            cleanups |-> <<>>, quit |-> FALSE]

RedrawOnly == [Nothing EXCEPT !.redraw = TRUE]

Hosted(commands, declarations) == [commands |-> commands, declarations |-> declarations]

(* Subscriptions: declared, undeclared, declared twice, replaced.          *)
MCSubScope == [id \in {SubA, SubB} |-> IF id = SubA THEN Leaf ELSE Root]
SubsProgram == Hosted({Nothing}, {<<>>, <<SubA, SubA>>, <<SubB, SubA>>})

(* Keyed commands: started, replaced, suppressed and cancelled.            *)
KeyedProgram ==
  Hosted({Nothing,
          [Nothing EXCEPT !.spawns = SpawnReplace],
          [Nothing EXCEPT !.spawns = SpawnKeep \o SpawnAnon],
          [Nothing EXCEPT !.cancels = CancelK, !.spawns = SpawnKeep]},
         {<<>>})

(* Teardown of nested scopes with hooks, subscriptions and effects.        *)
TearProgram ==
  Hosted({[Nothing EXCEPT !.spawns = SpawnAnon, !.cleanups = HookLeaf],
          [Nothing EXCEPT !.teardowns = TearLeaf, !.cleanups = HookChild],
          [Nothing EXCEPT !.teardowns = TearChild]},
         {<<SubA>>})

(* Quits: of init, of reduce beside other work, of producers.              *)
QuitProgram ==
  Hosted({[RedrawOnly EXCEPT !.spawns = SpawnAnon],
          [Nothing EXCEPT !.quit = TRUE, !.spawns = SpawnReplace \o SpawnAnon],
          [Nothing EXCEPT !.spawns = SpawnReplace],
          [Nothing EXCEPT !.cancels = CancelK]},
         {<<>>})

SafetyPrograms == {KeyedProgram, TearProgram, SubsProgram}
LivenessPrograms == {QuitProgram, SubsProgram}
=============================================================================
