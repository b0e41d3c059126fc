--------------------------- MODULE BoundaryProofs ---------------------------
(***************************************************************************)
(* What the boundaries of a stack promise, for any keys, journals and      *)
(* edits.                                                                  *)
(*                                                                         *)
(* NoOrphan is not inductive: a teardown could take what a successor       *)
(* holds, and leave what it removed to nobody.  Spared says that a path    *)
(* owed covers nothing of an instance that stays, which the numbering of   *)
(* the instances (Mint) and the places (Placed) give.                      *)
(***************************************************************************)
EXTENDS BoundaryProperties, FiniteSetTheorems, SequenceTheorems, NaturalsInduction,
        WellFoundedInduction, TLAPS

Segment == Key \cup {"header", "dialog", "modal"}

Path == Seq(Segment)

Id == [scope : Path, name : {"load", "NoKey"}]

Kind == {"Anonymous", "Keyed", "Cleanup", "Subscription"}

HoldType == [kind : Kind, scope : Place, id : Id, owner : Child]

(* A root state, and every child in the place of its slot.                 *)
StateType ==
  [rows : [Key -> Row \cup {Nobody}], removals : Seq(Key), modal : Slot]

Placed(s) ==
  /\ \A k \in Rows(s) :
       /\ s.rows[k].who.place = <<k>>
       /\ s.rows[k].dialog.value # Nobody => s.rows[k].dialog.value.place = <<k, "dialog">>
  /\ s.modal.value # Nobody => s.modal.value.place = <<"modal">>

Owners == {x.owner : x \in held}

Covered(place, paths) == \E p \in paths : Under(place, p)

(* What is held belongs to a child that is there, or is owed a teardown.   *)
Kept(s, paths) == \A x \in held : x.owner \in Instances(s) \/ Covered(x.scope, paths)

(* A teardown owed takes no run and no hook of a child that is there.      *)
Spared(s, paths) ==
  \A x \in held : x.kind # "Subscription" /\ Covered(x.scope, paths) => x.owner \notin Instances(s)

(* A state between two operations of an update; paths are the teardowns    *)
(* owed, by the state or by the command.                                   *)
Ready(s, paths) == s \in StateType /\ Placed(s) /\ Kept(s, paths) /\ Spared(s, paths)

HeldWell ==
  /\ held \in SUBSET HoldType
  /\ IsFiniteSet(held)
  /\ Cardinality(Owners) <= MaxHolders
  /\ \A x \in held : x.scope = x.owner.place /\ (x.id # NoKey => x.id.scope = x.owner.place)

BoundaryInv == HeldWell /\ Ready(state, Owed(state)) /\ intact = TRUE

-----------------------------------------------------------------------------
(* Places, and the paths that cover them.                                  *)

(* The paths a boundary may owe a teardown of.                             *)
Removable == {<<k>> : k \in Key} \cup {<<k, "dialog">> : k \in Key} \cup {<<"modal">>}

(* A place is a path.                                                      *)
LEMMA PlacesArePaths == Place \subseteq Path /\ Removable \subseteq Place
<1>1. Empty \in Path
  BY DEF Empty, Path
<1>2. \A a, b \in Segment : <<a>> \in Path /\ <<a, b>> \in Path
  BY DEF Path
<1>3. \A k \in Key : k \in Segment
  BY DEF Segment
<1>4. "header" \in Segment /\ "dialog" \in Segment /\ "modal" \in Segment
  BY DEF Segment
<1> QED
  BY <1>1, <1>2, <1>3, <1>4 DEF Place, Removable

(* A prefix agrees wherever it has a segment.                              *)
LEMMA UnderIs ==
  ASSUME NEW path \in Path, NEW prefix \in Path
  PROVE  Under(path, prefix) <=>
           Len(prefix) <= Len(path) /\ \A i \in 1..Len(prefix) : path[i] = prefix[i]
<1>1. Len(path) \in Nat /\ Len(prefix) \in Nat
  BY DEF Path
<1>2. SubSeq(prefix, 1, Len(prefix)) = prefix
  BY SubSeqFull DEF Path
<1>3. ASSUME Len(prefix) <= Len(path)
      PROVE  (SubSeq(path, 1, Len(prefix)) = prefix) <=>
               \A i \in 1..Len(prefix) : path[i] = prefix[i]
  <2>1. \A i \in 1..Len(prefix) : path[i] \in Segment
    BY <1>1, <1>3 DEF Path
  <2> DEFINE q == SubSeq(path, 1, Len(prefix))
  <2>2. /\ q \in Path /\ Len(q) = Len(prefix)
        /\ \A i \in 1..Len(prefix) : q[i] = path[i]
    <3>1. /\ q \in Seq(Segment)
          /\ Len(q) = IF 1 <= Len(prefix) THEN Len(prefix) - 1 + 1 ELSE 0
          /\ \A i \in 1..(Len(prefix) - 1 + 1) : q[i] = path[1 + i - 1]
      BY <1>1, <2>1, SubSeqProperties
    <3> HIDE DEF q
    <3> QED
      BY <1>1, <3>1 DEF Path
  <2> HIDE DEF q
  <2>3. (\A i \in 1..Len(prefix) : q[i] = prefix[i]) => q = prefix
    BY <2>2, SeqEqual DEF Path
  <2> QED
    BY <2>2, <2>3 DEF q
<1> QED
  BY <1>1, <1>2, <1>3 DEF Under, IsPrefix

(* A path of one segment, and one of two, cover what starts with them.     *)
LEMMA UnderOne ==
  ASSUME NEW path \in Path, NEW a \in Segment
  PROVE  Under(path, <<a>>) <=> Len(path) >= 1 /\ path[1] = a
<1>1. <<a>> \in Path /\ Len(<<a>>) = 1 /\ <<a>>[1] = a /\ 1..1 = {1}
  BY DEF Path
<1>2. Len(path) \in Nat
  BY DEF Path
<1> QED
  BY <1>1, <1>2, UnderIs

LEMMA UnderTwo ==
  ASSUME NEW path \in Path, NEW a \in Segment, NEW b \in Segment
  PROVE  Under(path, <<a, b>>) <=> Len(path) >= 2 /\ path[1] = a /\ path[2] = b
<1>1. /\ <<a, b>> \in Path /\ Len(<<a, b>>) = 2 /\ <<a, b>>[1] = a /\ <<a, b>>[2] = b
      /\ 1..2 = {1, 2}
  BY DEF Path
<1>2. Len(path) \in Nat
  BY DEF Path
<1> QED
  BY <1>1, <1>2, UnderIs

(* What a path owed covers: a row, its dialog with it; a dialog; the modal.*)
LEMMA Covers ==
  ASSUME NEW w \in Place, NEW k \in Key
  PROVE  /\ Under(w, <<k>>) <=> w \in {<<k>>, <<k, "dialog">>}
         /\ Under(w, <<k, "dialog">>) <=> w = <<k, "dialog">>
         /\ Under(w, <<"modal">>) <=> w = <<"modal">>
<1>1. w \in Path
  BY PlacesArePaths
<1>2. k # "header" /\ k # "modal" /\ k # "dialog" /\ \A j \in Key : j # "modal"
  BY BoundariesAssumption
<1>3. /\ Under(w, <<k>>) <=> Len(w) >= 1 /\ w[1] = k
      /\ Under(w, <<k, "dialog">>) <=> Len(w) >= 2 /\ w[1] = k /\ w[2] = "dialog"
      /\ Under(w, <<"modal">>) <=> Len(w) >= 1 /\ w[1] = "modal"
  BY <1>1, UnderOne, UnderTwo DEF Segment
<1>4. CASE w \in {Empty, <<"header">>, <<"modal">>}
  BY <1>2, <1>3, <1>4 DEF Empty
<1>5. CASE \E j \in Key : w = <<j>>
  BY <1>2, <1>3, <1>5
<1>6. CASE \E j \in Key : w = <<j, "dialog">>
  BY <1>2, <1>3, <1>6
<1> QED
  BY <1>4, <1>5, <1>6 DEF Place

(* The modal covers itself, whether there are rows or not.                 *)
LEMMA ModalCovers ==
  ASSUME NEW w \in Place
  PROVE  Under(w, <<"modal">>) <=> w = <<"modal">>
<1>1. w \in Path
  BY PlacesArePaths
<1>2. \A k \in Key : k # "modal"
  BY BoundariesAssumption
<1>3. Under(w, <<"modal">>) <=> Len(w) >= 1 /\ w[1] = "modal"
  BY <1>1, UnderOne DEF Segment
<1>4. CASE w \in {Empty, <<"header">>, <<"modal">>}
  BY <1>3, <1>4 DEF Empty
<1>5. CASE \E k \in Key : w = <<k>> \/ w = <<k, "dialog">>
  BY <1>2, <1>3, <1>5
<1> QED
  BY <1>4, <1>5 DEF Place

(* The root and the header are never torn down.                            *)
LEMMA FixedUncovered ==
  ASSUME NEW p \in Removable
  PROVE  ~ Under(Empty, p) /\ ~ Under(<<"header">>, p)
<1>1. Empty \in Place /\ <<"header">> \in Place
  BY DEF Place
<1>2. \A k \in Key : k # "header"
  BY BoundariesAssumption
<1>3. ASSUME NEW k \in Key, p = <<k>> \/ p = <<k, "dialog">>
      PROVE  ~ Under(Empty, p) /\ ~ Under(<<"header">>, p)
  <2>1. Empty \notin {<<k>>, <<k, "dialog">>} /\ <<"header">> \notin {<<k>>, <<k, "dialog">>}
    BY <1>2 DEF Empty
  <2> QED
    <3>1. /\ Under(Empty, <<k>>) <=> Empty \in {<<k>>, <<k, "dialog">>}
          /\ Under(Empty, <<k, "dialog">>) <=> Empty = <<k, "dialog">>
      BY <1>1, Covers
    <3>2. /\ Under(<<"header">>, <<k>>) <=> <<"header">> \in {<<k>>, <<k, "dialog">>}
          /\ Under(<<"header">>, <<k, "dialog">>) <=> <<"header">> = <<k, "dialog">>
      BY <1>1, Covers
    <3> QED
      BY <1>3, <2>1, <3>1, <3>2
<1>4. CASE p = <<"modal">>
  <2>1. Under(<<"header">>, <<"modal">>) <=> Len(<<"header">>) >= 1 /\ <<"header">>[1] = "modal"
    BY <1>1, PlacesArePaths, UnderOne DEF Segment
  <2>2. Under(Empty, <<"modal">>) <=> Len(Empty) >= 1 /\ Empty[1] = "modal"
    BY <1>1, PlacesArePaths, UnderOne DEF Segment
  <2> QED
    BY <1>4, <2>1, <2>2 DEF Empty
<1> QED
  BY <1>3, <1>4 DEF Removable

-----------------------------------------------------------------------------
(* Children and their numbers.                                             *)

(* Nobody is not a child.                                                  *)
LEMMA FixedChildren ==
  /\ Root \in Child /\ Root.place = Empty /\ Root # Nobody
  /\ Header \in Child /\ Header.place = <<"header">> /\ Header # Nobody
<1>1. Root \in Child /\ Root.place = Empty
  BY DEF Root, Instance, Child, Place
<1>2. Header \in Child /\ Header.place = <<"header">>
  BY DEF Header, Instance, Child, Place
<1> QED
  BY <1>1, <1>2, BoundariesAssumption

(* The children of a state are those of its slots.                         *)
LEMMA ChildrenAre ==
  ASSUME NEW s \in StateType, NEW w
  PROVE  w \in Instances(s) <=>
           \/ w = Root \/ w = Header
           \/ w = s.modal.value /\ w # Nobody
           \/ \E k \in Rows(s) : w = s.rows[k].who
           \/ \E k \in Rows(s) : w = s.rows[k].dialog.value /\ w # Nobody
<1>1. \A k \in Rows(s) : s.rows[k].who # Nobody
  BY BoundariesAssumption DEF Rows, StateType, Row
<1> QED
  BY <1>1, FixedChildren DEF Instances

(* A slot of a well-formed state.                                          *)
LEMMA RowTypes ==
  ASSUME NEW s \in StateType, NEW k \in Rows(s)
  PROVE  /\ k \in Key /\ s.rows[k] \in Row /\ s.rows[k].who \in Child
         /\ s.rows[k].dialog \in Slot /\ s.rows[k].dialog.value \in Child \cup {Nobody}
         /\ s.rows[k].dialog.dismissals \in Nat
  BY DEF StateType, Rows, Row, Slot

(* Two places of the same child are one.                                   *)
LEMMA PlacesDiffer ==
  /\ \A j, k \in Key : (<<j>> = <<k>> => j = k) /\ (<<j, "dialog">> = <<k, "dialog">> => j = k)
  /\ \A j, k \in Key : <<j>> # <<k, "dialog">>
  /\ \A k \in Key : /\ <<k>> \notin {<<>>, <<"header">>, <<"modal">>}
                    /\ <<k, "dialog">> \notin {<<>>, <<"header">>, <<"modal">>}
  /\ <<>> \notin {<<"header">>, <<"modal">>} /\ <<"header">> # <<"modal">>
<1>1. \A k \in Key : k # "header" /\ k # "modal"
  BY BoundariesAssumption
<1> QED
  BY <1>1

(* Every child is somewhere, and a removable place has one child at most.  *)
LEMMA OnePerPlace ==
  ASSUME NEW s \in StateType, Placed(s)
  PROVE  /\ Instances(s) \subseteq Child
         /\ \A v, w \in Instances(s) : v.place = w.place => v = w
<1>0. s.modal \in Slot /\ s.modal.value \in Child \cup {Nobody}
  BY DEF StateType, Slot
<1>1. Instances(s) \subseteq Child
  BY <1>0, RowTypes, ChildrenAre, FixedChildren
<1>2. \A k \in Key : k # "header" /\ k # "modal"
  BY BoundariesAssumption
<1>3. ASSUME NEW w \in Instances(s)
      PROVE  \/ w = Root /\ w.place = <<>>
             \/ w = Header /\ w.place = <<"header">>
             \/ w = s.modal.value /\ w.place = <<"modal">>
             \/ \E k \in Key : w = s.rows[k].who /\ w.place = <<k>>
             \/ \E k \in Key : w = s.rows[k].dialog.value /\ w.place = <<k, "dialog">>
  BY <1>3, ChildrenAre, RowTypes, FixedChildren DEF Placed, Empty
<1>4. ASSUME NEW v \in Instances(s), NEW w \in Instances(s), v.place = w.place
      PROVE  v = w
  <2>1. ASSUME NEW k \in Key, w = s.rows[k].who, w.place = <<k>> PROVE v = w
    <3>0. /\ v.place \notin {<<>>, <<"header">>, <<"modal">>}
          /\ \A j \in Key : v.place # <<j, "dialog">>
      BY <1>4, <2>1, PlacesDiffer
    <3>1. PICK j \in Key : v = s.rows[j].who /\ v.place = <<j>>
      BY <1>3, <3>0
    <3> QED
      BY <1>4, <2>1, <3>1, PlacesDiffer
  <2>2. ASSUME NEW k \in Key, w = s.rows[k].dialog.value, w.place = <<k, "dialog">> PROVE v = w
    <3>1. PICK j \in Key : v = s.rows[j].dialog.value /\ v.place = <<j, "dialog">>
      BY <1>3, <1>4, <2>2, PlacesDiffer
    <3> QED
      BY <1>4, <2>2, <3>1, PlacesDiffer
  <2>3. ASSUME w.place \in {<<>>, <<"header">>, <<"modal">>} PROVE v = w
    BY <1>3, <1>4, <2>3, PlacesDiffer
  <2> QED
    BY <1>3, <2>1, <2>2, <2>3
<1> QED
  BY <1>1, <1>4

(* The owners can be counted.                                              *)
LEMMA OwnersFinite == ASSUME IsFiniteSet(held) PROVE IsFiniteSet(Owners)
<1> DEFINE f == [x \in held |-> x.owner]
<1>1. f \in Surjection(held, Owners)
  BY DEF Surjection, Owners
<1> QED
  BY <1>1, FS_Surjection

(* A non-empty set of natural numbers has a least one.                     *)
LEMMA Least ==
  ASSUME NEW A \in SUBSET Nat, A # {}
  PROVE  \E m \in A : \A n \in A : ~ (n < m)
<1>1. \E m \in A : \A n \in A : ~ (<<n, m>> \in OpToRel(<, Nat))
  BY NatLessThanWellFounded, WFMin
<1> QED
  BY <1>1 DEF OpToRel

(* There is always a number left for a new child, so Mint returns one: it  *)
(* is in its place, and neither in the state nor held for.                 *)
LEMMA MintNew ==
  ASSUME HeldWell, NEW s \in StateType, Placed(s), NEW place \in Place
  PROVE  /\ Mint(s, place) \in Child /\ Mint(s, place).place = place
         /\ Mint(s, place) \notin Owners /\ Mint(s, place) \notin Instances(s)
         /\ Mint(s, place) # Nobody
<1> DEFINE N == MaxHolders + 2
           told == Instances(s) \cup Owners
           there == {w \in Instances(s) : w.place = place}
           A == {n \in 1..N : Instance(n, place) \notin told}
<1>1. N \in Nat /\ MaxHolders \in Nat
  BY BoundariesAssumption
<1>2. IsFiniteSet(Owners) /\ Cardinality(Owners) <= MaxHolders /\ Cardinality(Owners) \in Nat
  BY OwnersFinite, FS_CardinalityType DEF HeldWell
<1>3. IsFiniteSet(Owners \cup there) /\ Cardinality(Owners \cup there) < N
  <2>1. CASE there = {}
    <3>1. Owners \cup there = Owners
      BY <2>1
    <3>2. Cardinality(Owners) < N
      BY <1>1, <1>2
    <3> QED
      BY <1>2, <3>1, <3>2
  <2>2. CASE there # {}
    <3>1. PICK o \in there : TRUE
      BY <2>2
    <3>2. there = {o}
      BY <3>1, OnePerPlace
    <3> HIDE DEF there
    <3>3. /\ IsFiniteSet(Owners \cup {o})
          /\ Cardinality(Owners \cup {o}) =
               IF o \in Owners THEN Cardinality(Owners) ELSE Cardinality(Owners) + 1
      BY <1>2, FS_AddElement
    <3>4. Cardinality(Owners \cup {o}) < N
      BY <1>1, <1>2, <3>3
    <3> QED
      BY <3>2, <3>3, <3>4
  <2> QED
    BY <2>1, <2>2
<1>4. A # {}
  <2> SUFFICES ASSUME A = {} PROVE FALSE
    OBVIOUS
  <2> DEFINE f == [n \in 1..N |-> Instance(n, place)]
  <2>1. f \in [1..N -> Owners \cup there]
    <3>1. \A n \in 1..N : Instance(n, place) \in told /\ Instance(n, place).place = place
      BY DEF Instance
    <3> QED
      BY <3>1
  <2>2. IsFiniteSet(1..N) /\ Cardinality(1..N) = N
    BY <1>1, FS_Interval
  <2> DEFINE D == 1..N
             E == Owners \cup there
  <2>3. IsFiniteSet(E) /\ Cardinality(E) < Cardinality(D)
    BY <1>3, <2>2
  <2>4. PICK x, y \in D : x # y /\ f[x] = f[y]
    <3>1. f \in [D -> E] /\ IsFiniteSet(D)
      BY <2>1, <2>2
    <3> HIDE DEF f, D, E
    <3> QED
      BY <2>3, <3>1, FS_PigeonHole
  <2> QED
    BY <2>4 DEF Instance
<1>5. PICK m \in A : \A n \in A : ~ (n < m)
  <2>1. A \in SUBSET Nat
    BY <1>1
  <2> HIDE DEF A
  <2> QED
    BY <1>4, <2>1, Least
<1> DEFINE Wanted(i) ==
      /\ i \in {Instance(n, place) : n \in 1..(MaxHolders + 2)}
      /\ i \notin Instances(s) \cup {x.owner : x \in held}
      /\ \A n \in 1..(i.n - 1) : Instance(n, place) \in Instances(s) \cup {x.owner : x \in held}
<1>6. Wanted(Instance(m, place))
  <2>1. Instance(m, place).n = m
    BY DEF Instance
  <2>2. \A n \in 1..(m - 1) : n \in 1..N /\ n < m
    BY <1>1
  <2> QED
    BY <1>5, <2>1, <2>2 DEF Owners
<1>7. Mint(s, place) = CHOOSE i : Wanted(i)
  BY DEF Mint
<1>8. Wanted(Mint(s, place))
  <2> HIDE DEF Wanted
  <2> QED
    BY <1>6, <1>7
<1>9. Mint(s, place) \in Child /\ Mint(s, place).place = place
  BY <1>1, <1>8 DEF Instance, Child
<1> QED
  BY <1>8, <1>9, BoundariesAssumption DEF Owners

-----------------------------------------------------------------------------
(* The edits of the collections, inside an update and outside.             *)

(* What a row, and a slot at a path, have in them.                         *)
RowChildren(r) == IF r = Nobody THEN {} ELSE {r.who, r.dialog.value} \ {Nobody}

SlotOwed(slot, path) == IF slot.dismissals > 0 THEN {path} ELSE {}

RowOwed(k, r) == IF r = Nobody THEN {} ELSE SlotOwed(r.dialog, <<k, "dialog">>)

Journal(s) == {<<s.removals[i]>> : i \in DOMAIN s.removals}

RowPlaced(k, r) ==
  r # Nobody => /\ r.who.place = <<k>>
                /\ r.dialog.value # Nobody => r.dialog.value.place = <<k, "dialog">>

(* The children of a state by row.                                         *)
LEMMA ChildrenByRow ==
  ASSUME NEW s \in StateType, NEW w
  PROVE  w \in Instances(s) <=>
           w \in {Root, Header} \cup ({s.modal.value} \ {Nobody})
             \/ \E k \in Key : w \in RowChildren(s.rows[k])
<1>1. ASSUME NEW k \in Rows(s)
      PROVE  k \in Key /\ RowChildren(s.rows[k]) = {s.rows[k].who} \cup ({s.rows[k].dialog.value} \ {Nobody})
  BY RowTypes, BoundariesAssumption DEF RowChildren, Rows
<1>2. \A k \in Key : k \notin Rows(s) => RowChildren(s.rows[k]) = {}
  BY DEF Rows, RowChildren
<1>3. (\E k \in Key : w \in RowChildren(s.rows[k])) <=>
        \E k \in Rows(s) : w = s.rows[k].who \/ (w = s.rows[k].dialog.value /\ w # Nobody)
  BY <1>1, <1>2
<1> QED
  BY <1>3, ChildrenAre

(* And the paths it owes.                                                  *)
LEMMA OwedByRow ==
  ASSUME NEW s \in StateType, NEW p
  PROVE  /\ p \in Owed(s) <=>
              p \in Journal(s) \cup SlotOwed(s.modal, <<"modal">>)
                \/ \E k \in Key : p \in RowOwed(k, s.rows[k])
         /\ p \in Owed(s) => p \in Removable
<1>1. \A i \in DOMAIN s.removals : s.removals[i] \in Key
  BY DEF StateType
<1>2. (\E k \in Key : p \in RowOwed(k, s.rows[k])) <=>
        \E k \in {j \in Rows(s) : s.rows[j].dialog.dismissals > 0} : p = <<k, "dialog">>
  BY DEF Rows, RowOwed, SlotOwed
<1>3. p \in Owed(s) <=>
              p \in Journal(s) \cup SlotOwed(s.modal, <<"modal">>)
                \/ \E k \in Key : p \in RowOwed(k, s.rows[k])
  BY <1>2 DEF Owed, Journal, SlotOwed
<1>4. p \in Owed(s) => p \in Removable
  BY <1>1, <1>3 DEF Journal, SlotOwed, RowOwed, Removable
<1> QED
  BY <1>3, <1>4

(* A state is placed when its rows are.                                    *)
LEMMA PlacedByRow ==
  ASSUME NEW s
  PROVE  Placed(s) <=> /\ \A k \in Key : RowPlaced(k, s.rows[k])
                       /\ s.modal.value # Nobody => s.modal.value.place = <<"modal">>
  BY DEF Placed, Rows, RowPlaced

(* An edit that owes for what it takes away, forgets no path, and places   *)
(* nothing old under a new path.                                           *)
LEMMA EditKeeps ==
  ASSUME HeldWell, NEW s \in StateType, Ready(s, Owed(s)),
         NEW e \in StateType, Placed(e),
         NEW F, F \cap Owners = {}, Instances(e) \subseteq Instances(s) \cup F,
         \A w \in Instances(s) \ Instances(e) : Covered(w.place, Owed(e)),
         \A q \in Owed(s), x \in Place : Under(x, q) => Covered(x, Owed(e)),
         \A q \in Owed(e) \ Owed(s), w \in Instances(e) \ F : ~ Under(w.place, q)
  PROVE  Ready(e, Owed(e))
<1>1. \A x \in held : x.scope = x.owner.place /\ x.scope \in Place /\ x.owner \notin F
  BY DEF HeldWell, HoldType, Owners
<1>2. Kept(e, Owed(e))
  BY <1>1 DEF Ready, Kept, Covered
<1>3. Spared(e, Owed(e))
  <2> SUFFICES ASSUME NEW x \in held, x.kind # "Subscription", NEW q \in Owed(e),
                      Under(x.scope, q), x.owner \in Instances(e)
               PROVE  FALSE
    BY DEF Spared, Covered
  <2>1. x.owner \in Instances(s)
    BY <1>1
  <2>2. q \notin Owed(s)
    BY <2>1 DEF Ready, Spared, Covered
  <2> QED
    BY <1>1, <2>2
<1> QED
  BY <1>2, <1>3 DEF Ready

RowEdited(s, k, r, e) ==
  /\ e = [s EXCEPT !.rows[k] = r, !.removals = e.removals]
  /\ e.removals \in {s.removals, Append(s.removals, k)}

(* An edit of one row disturbs the children and the paths of that row.     *)
LEMMA RowEdit ==
  ASSUME NEW s \in StateType, NEW k \in Key, NEW r \in Row \cup {Nobody}, NEW e, RowEdited(s, k, r, e)
  PROVE  /\ e \in StateType /\ e.rows[k] = r /\ \A j \in Key : j # k => e.rows[j] = s.rows[j]
         /\ e.modal = s.modal
         /\ Journal(e) = Journal(s) \cup (IF e.removals = s.removals THEN {} ELSE {<<k>>})
<1>1. /\ e.rows = [s.rows EXCEPT ![k] = r] /\ e.modal = s.modal
      /\ e = [rows |-> e.rows, removals |-> e.removals, modal |-> e.modal]
  BY DEF StateType, RowEdited
<1>2. s.removals \in Seq(Key) /\ s.modal \in Slot /\ e.removals \in Seq(Key)
  <2>1. s.removals \in Seq(Key) /\ s.modal \in Slot
    BY DEF StateType
  <2>2. e.removals \in {s.removals, Append(s.removals, k)}
    BY DEF RowEdited
  <2> QED
    BY <2>1, <2>2
<1>3. e.rows \in [Key -> Row \cup {Nobody}]
  BY <1>1 DEF StateType
<1>4. e \in StateType
  BY <1>1, <1>2, <1>3 DEF StateType
<1>5. Journal(e) = Journal(s) \cup (IF e.removals = s.removals THEN {} ELSE {<<k>>})
  <2>1. CASE e.removals = s.removals
    BY <2>1 DEF Journal
  <2>2. CASE e.removals # s.removals
    <3>0. e.removals = Append(s.removals, k)
      BY <2>2 DEF RowEdited
    <3>1. /\ DOMAIN e.removals = DOMAIN s.removals \cup {Len(s.removals) + 1}
          /\ e.removals[Len(s.removals) + 1] = k
          /\ \A i \in DOMAIN s.removals : e.removals[i] = s.removals[i]
      BY <1>2, <3>0
    <3> QED
      BY <2>2, <3>1 DEF Journal
  <2> QED
    BY <2>1, <2>2
<1> QED
  BY <1>1, <1>3, <1>4, <1>5 DEF StateType

(* A row that is taken away with all it has, recorded; or a row that keeps *)
(* its child, whose slot records what it loses.  F are the new children.   *)
RowRecorded(s, k, r, e, F) ==
  \/ e.removals # s.removals /\ RowChildren(r) \subseteq F
  \/ /\ e.removals = s.removals
     /\ RowChildren(r) \subseteq RowChildren(s.rows[k]) \cup F
     /\ RowOwed(k, s.rows[k]) \subseteq RowOwed(k, r)
     /\ \A w \in RowChildren(s.rows[k]) \ RowChildren(r) :
          w.place = <<k, "dialog">> /\ RowOwed(k, r) # {}
     /\ RowOwed(k, r) # RowOwed(k, s.rows[k]) =>
          \A w \in RowChildren(r) \ F : w.place # <<k, "dialog">>

(* Such an edit is one of EditKeeps.                                       *)
LEMMA RowEditKeeps ==
  ASSUME HeldWell, NEW s \in StateType, Ready(s, Owed(s)),
         NEW k \in Key, NEW r \in Row \cup {Nobody}, NEW e, RowEdited(s, k, r, e),
         RowPlaced(k, r), NEW F, F \cap Owners = {}, RowRecorded(s, k, r, e, F)
  PROVE  Ready(e, Owed(e))
<1>1. /\ e \in StateType /\ e.rows[k] = r /\ \A j \in Key : j # k => e.rows[j] = s.rows[j]
      /\ e.modal = s.modal
      /\ Journal(e) = Journal(s) \cup (IF e.removals = s.removals THEN {} ELSE {<<k>>})
  BY RowEdit
<1>2. Placed(e) /\ Placed(s)
  <2>1. Placed(s)
    BY DEF Ready
  <2>2. /\ \A j \in Key : RowPlaced(j, s.rows[j])
        /\ s.modal.value # Nobody => s.modal.value.place = <<"modal">>
    BY <2>1, PlacedByRow
  <2>3. \A j \in Key : RowPlaced(j, e.rows[j])
    BY <1>1, <2>2
  <2>4. Placed(e)
    BY <1>1, <2>2, <2>3, PlacedByRow
  <2> QED
    BY <2>1, <2>4
<1>3. \A w \in Instances(e) : w \in Instances(s) \/ w \in RowChildren(r)
  BY <1>1, ChildrenByRow
<1>4. \A w \in Instances(s) \ Instances(e) : w \in RowChildren(s.rows[k]) \ RowChildren(r)
  BY <1>1, ChildrenByRow
<1>5. \A w \in RowChildren(s.rows[k]) : w \in Instances(s)
  BY ChildrenByRow
<1>6. Instances(e) \subseteq Instances(s) \cup F
  BY <1>3, <1>5 DEF RowRecorded
<1>7. \A w \in RowChildren(s.rows[k]) : w.place \in {<<k>>, <<k, "dialog">>} /\ w.place \in Place
  <2>1. RowPlaced(k, s.rows[k])
    BY <1>2, PlacedByRow
  <2>2. <<k>> \in Place /\ <<k, "dialog">> \in Place
    BY DEF Place
  <2> QED
    BY <2>1, <2>2 DEF RowPlaced, RowChildren
<1>8. \A q \in RowOwed(k, r) \cup RowOwed(k, s.rows[k]) : q = <<k, "dialog">>
  BY DEF RowOwed, SlotOwed
<1>9. /\ RowOwed(k, r) \subseteq Owed(e)
      /\ e.removals # s.removals => <<k>> \in Owed(e)
  BY <1>1, OwedByRow
<1>10. \A q \in Owed(s) : q \in Owed(e) \/ q \in RowOwed(k, s.rows[k])
  BY <1>1, OwedByRow
<1>11. \A q \in Owed(e) : \/ q \in Owed(s) \/ q \in RowOwed(k, r)
                          \/ e.removals # s.removals /\ q = <<k>>
  BY <1>1, OwedByRow
<1>12. \A w \in Instances(s) \ Instances(e) : Covered(w.place, Owed(e))
  <2> SUFFICES ASSUME NEW w \in Instances(s), w \notin Instances(e)
               PROVE  \E q \in Owed(e) : Under(w.place, q)
    BY DEF Covered
  <2>1. w \in RowChildren(s.rows[k]) /\ w \notin RowChildren(r)
    BY <1>4
  <2>2. w.place \in {<<k>>, <<k, "dialog">>} /\ w.place \in Place
    BY <1>7, <2>1
  <2>3. Under(w.place, <<k>>) /\ (w.place = <<k, "dialog">> => Under(w.place, <<k, "dialog">>))
    BY <2>2, Covers
  <2>4. CASE e.removals # s.removals
    BY <1>9, <2>3, <2>4
  <2>5. CASE e.removals = s.removals
    <3>1. w.place = <<k, "dialog">> /\ RowOwed(k, r) # {}
      BY <2>1, <2>5 DEF RowRecorded
    <3>2. <<k, "dialog">> \in Owed(e)
      BY <1>8, <1>9, <3>1
    <3> QED
      BY <2>3, <3>1, <3>2
  <2> QED
    BY <2>4, <2>5
<1>13. \A q \in Owed(s), x \in Place : Under(x, q) => Covered(x, Owed(e))
  <2> SUFFICES ASSUME NEW q \in Owed(s), NEW x \in Place, Under(x, q)
               PROVE  \E p \in Owed(e) : Under(x, p)
    BY DEF Covered
  <2>1. CASE q \in Owed(e)
    BY <2>1
  <2>2. CASE q \notin Owed(e)
    <3>1. q \in RowOwed(k, s.rows[k]) /\ q = <<k, "dialog">>
      BY <1>8, <1>10, <2>2
    <3>2. e.removals # s.removals
      BY <1>9, <2>2, <3>1 DEF RowRecorded
    <3>3. Under(x, <<k>>)
      BY <3>1, Covers
    <3> QED
      BY <1>9, <3>2, <3>3
  <2> QED
    BY <2>1, <2>2
<1>14. \A q \in Owed(e) \ Owed(s), w \in Instances(e) \ F : ~ Under(w.place, q)
  <2> SUFFICES ASSUME NEW q \in Owed(e), q \notin Owed(s), NEW w \in Instances(e), w \notin F,
                      Under(w.place, q)
               PROVE  FALSE
    OBVIOUS
  <2>1. w.place \in Place
    BY <1>1, <1>2, OnePerPlace DEF Child
  <2>2. q = <<k>> \/ q = <<k, "dialog">>
    BY <1>8, <1>11
  <2>3. w.place \in {<<k>>, <<k, "dialog">>} /\ (q = <<k, "dialog">> => w.place = <<k, "dialog">>)
    <3>1. /\ Under(w.place, <<k>>) <=> w.place \in {<<k>>, <<k, "dialog">>}
          /\ Under(w.place, <<k, "dialog">>) <=> w.place = <<k, "dialog">>
      BY <2>1, Covers
    <3>2. <<k>> # <<k, "dialog">>
      OBVIOUS
    <3> QED
      BY <2>2, <3>1, <3>2
  <2>4. w \in RowChildren(r)
    <3>1. w.place \notin {<<>>, <<"header">>, <<"modal">>}
      BY <2>3, PlacesDiffer
    <3>2. w \notin {Root, Header} \cup ({s.modal.value} \ {Nobody})
      BY <1>2, <3>1, FixedChildren DEF Placed, Empty
    <3>3. PICK j \in Key : w \in RowChildren(e.rows[j])
      BY <1>1, <3>2, ChildrenByRow
    <3>4. w.place = <<j>> \/ w.place = <<j, "dialog">>
      BY <1>2, <3>3, PlacedByRow DEF RowPlaced, RowChildren
    <3>5. j = k
      BY <2>3, <3>4, PlacesDiffer
    <3> QED
      BY <1>1, <3>3, <3>5
  <2>5. CASE e.removals # s.removals /\ RowChildren(r) \subseteq F
    BY <2>4, <2>5
  <2>6. CASE ~ (e.removals # s.removals /\ RowChildren(r) \subseteq F)
    <3>1. w.place # <<k, "dialog">> \/ RowOwed(k, r) = RowOwed(k, s.rows[k])
      BY <2>4, <2>6 DEF RowRecorded
    <3>2. CASE q \in RowOwed(k, r)
      <4>1. q = <<k, "dialog">>
        BY <1>8, <3>2
      <4>2. RowOwed(k, s.rows[k]) \subseteq Owed(s)
        BY OwedByRow
      <4> QED
        BY <2>3, <3>1, <3>2, <4>1, <4>2
    <3>3. CASE e.removals # s.removals /\ q = <<k>>
      BY <2>6, <3>3 DEF RowRecorded
    <3> QED
      BY <1>11, <3>2, <3>3
  <2> QED
    BY <2>5, <2>6
<1> QED
  BY <1>1, <1>2, <1>6, <1>12, <1>13, <1>14, EditKeeps

(* The slot of a row in a well-formed state.                               *)
LEMMA RowAt ==
  ASSUME NEW s \in StateType, Placed(s), NEW k \in Key, s.rows[k] # Nobody
  PROVE  /\ s.rows[k] \in Row /\ s.rows[k].who \in Child /\ s.rows[k].who.place = <<k>>
         /\ s.rows[k].dialog \in Slot
         /\ s.rows[k].dialog.value # Nobody => s.rows[k].dialog.value.place = <<k, "dialog">>
  BY DEF StateType, Row, Placed, Rows

(* A row of which the slot changes.                                        *)
LEMMA WithDialog ==
  ASSUME NEW r \in Row, NEW slot \in Slot, NEW d, d = [r EXCEPT !.dialog = slot]
  PROVE  d \in Row /\ d.who = r.who /\ d.dialog = slot
  BY DEF Row

(* A journal that grew is not what it was.                                 *)
LEMMA JournalGrows ==
  ASSUME NEW q \in Seq(Key), NEW k \in Key
  PROVE  Append(q, k) # q
<1>1. Len(Append(q, k)) = Len(q) + 1 /\ Len(q) \in Nat
  OBVIOUS
<1> QED
  BY <1>1

(* Keyed::insert.                                                          *)
LEMMA InsertKeeps ==
  ASSUME HeldWell, NEW s \in StateType, Ready(s, Owed(s)), NEW k \in Key
  PROVE  InsertRow(s, k) \in StateType /\ Ready(InsertRow(s, k), Owed(InsertRow(s, k)))
<1> DEFINE f == Mint(s, <<k>>)
           r == [who |-> f, dialog |-> EmptySlot]
           e == InsertRow(s, k)
<1>0. Placed(s) /\ <<k>> \in Place
  BY DEF Ready, Place
<1>1. f \in Child /\ f.place = <<k>> /\ f \notin Owners /\ f # Nobody
  BY <1>0, MintNew
<1>2. EmptySlot \in Slot /\ EmptySlot.value = Nobody /\ EmptySlot.dismissals = 0
  BY DEF EmptySlot, Slot
<1>3. r \in Row /\ RowPlaced(k, r) /\ RowChildren(r) \subseteq {f} /\ RowOwed(k, r) = {}
  BY <1>1, <1>2 DEF Row, RowPlaced, RowChildren, RowOwed, SlotOwed
<1>4. RowEdited(s, k, r, e)
  <2>1. e.removals = IF s.rows[k] = Nobody THEN s.removals ELSE Append(s.removals, k)
    BY DEF InsertRow, StateType
  <2> QED
    BY <2>1 DEF InsertRow, RowEdited
<1>5. s.rows[k] # Nobody => e.removals # s.removals
  <2>1. s.removals \in Seq(Key)
    BY DEF StateType
  <2>2. s.rows[k] # Nobody => e.removals = Append(s.removals, k)
    BY DEF InsertRow, StateType
  <2> QED
    BY <2>1, <2>2, JournalGrows
<1>6. s.rows[k] = Nobody => /\ e.removals = s.removals
                            /\ RowChildren(s.rows[k]) = {} /\ RowOwed(k, s.rows[k]) = {}
  BY DEF InsertRow, StateType, RowChildren, RowOwed
<1>7. {f} \cap Owners = {}
  BY <1>1
<1>8. r \in Row \cup {Nobody}
  BY <1>3
<1> HIDE DEF f, r, e
<1>9. e \in StateType
  BY <1>4, <1>8, RowEdit
<1>10. RowRecorded(s, k, r, e, {f})
  BY <1>3, <1>5, <1>6 DEF RowRecorded
<1>11. Ready(e, Owed(e))
  BY <1>3, <1>4, <1>7, <1>8, <1>10, RowEditKeeps
<1> QED
  BY <1>9, <1>11 DEF e

(* Keyed::remove.                                                          *)
LEMMA RemoveKeeps ==
  ASSUME HeldWell, NEW s \in StateType, Ready(s, Owed(s)), NEW k \in Key
  PROVE  RemoveRow(s, k) \in StateType /\ Ready(RemoveRow(s, k), Owed(RemoveRow(s, k)))
<1>1. CASE s.rows[k] = Nobody
  BY <1>1 DEF RemoveRow
<1>2. CASE s.rows[k] # Nobody
  <2> DEFINE e == RemoveRow(s, k)
  <2>1. e.removals = Append(s.removals, k) /\ s.removals \in Seq(Key)
    BY <1>2 DEF RemoveRow, StateType
  <2>2. RowEdited(s, k, Nobody, e)
    BY <1>2, <2>1 DEF RemoveRow, RowEdited
  <2>3. RowPlaced(k, Nobody) /\ RowChildren(Nobody) = {} /\ Nobody \in Row \cup {Nobody}
    BY DEF RowPlaced, RowChildren
  <2> HIDE DEF e
  <2>4. e \in StateType
    BY <2>2, <2>3, RowEdit
  <2>5. e.removals # s.removals
    BY <2>1, JournalGrows
  <2>6. RowRecorded(s, k, Nobody, e, {}) /\ {} \cap Owners = {}
    BY <2>3, <2>5 DEF RowRecorded
  <2>7. Ready(e, Owed(e))
    BY <2>2, <2>3, <2>6, RowEditKeeps
  <2> QED
    BY <2>4, <2>7 DEF e
<1> QED
  BY <1>1, <1>2

(* A slot that is presented another child, or dismissed, records the       *)
(* child it had.                                                           *)
LEMMA SlotChange ==
  ASSUME NEW slot \in Slot, NEW c \in Child \cup {Nobody},
         NEW n, n = [value |-> c, dismissals |-> Dismissed(slot)]
  PROVE  /\ n \in Slot /\ n.value = c /\ n.dismissals >= slot.dismissals
         /\ slot.value # Nobody => n.dismissals > 0
         /\ slot.value = Nobody => n.dismissals = slot.dismissals
<1>1. slot.dismissals \in Nat
  BY DEF Slot
<1>2. Dismissed(slot) \in Nat
  BY <1>1 DEF Dismissed
<1>3. /\ Dismissed(slot) >= slot.dismissals
      /\ slot.value # Nobody => Dismissed(slot) > 0
      /\ slot.value = Nobody => Dismissed(slot) = slot.dismissals
  BY <1>1 DEF Dismissed
<1> QED
  BY <1>2, <1>3 DEF Slot

(* Slot::present and Slot::dismiss on a dialog.                            *)
LEMMA DialogKeeps ==
  ASSUME HeldWell, NEW s \in StateType, Ready(s, Owed(s)), NEW k \in Key, s.rows[k] # Nobody,
         NEW c \in Child \cup {Nobody}, c # Nobody => c.place = <<k, "dialog">> /\ c \notin Owners,
         NEW e, e = [s EXCEPT !.rows[k].dialog =
                       [value |-> c, dismissals |-> Dismissed(s.rows[k].dialog)]]
  PROVE  e \in StateType /\ Ready(e, Owed(e))
<1> DEFINE old == s.rows[k]
           n == [value |-> c, dismissals |-> Dismissed(old.dialog)]
           r == [old EXCEPT !.dialog = n]
<1>0. Placed(s)
  BY DEF Ready
<1>1. /\ old \in Row /\ old.who \in Child /\ old.who.place = <<k>> /\ old.dialog \in Slot
      /\ old.dialog.value # Nobody => old.dialog.value.place = <<k, "dialog">>
  BY <1>0, RowAt
<1>2. /\ n \in Slot /\ n.value = c /\ n.dismissals >= old.dialog.dismissals
      /\ old.dialog.value # Nobody => n.dismissals > 0
      /\ old.dialog.value = Nobody => n.dismissals = old.dialog.dismissals
  BY <1>1, SlotChange
<1>3. r \in Row /\ r.who = old.who /\ r.dialog = n
  BY <1>1, <1>2, WithDialog
<1>4. RowEdited(s, k, r, e)
  <2>1. e.removals = s.removals
    BY DEF StateType
  <2>2. e = [s EXCEPT !.rows[k] = r, !.removals = e.removals]
    BY <2>1 DEF StateType
  <2> QED
    BY <2>1, <2>2 DEF RowEdited
<1>5. e.removals = s.removals
  BY DEF StateType
<1>6. r # Nobody
  BY <1>3, BoundariesAssumption
<1> HIDE DEF n, r
<1>7. RowPlaced(k, r)
  BY <1>1, <1>2, <1>3 DEF RowPlaced
<1> DEFINE F == {c} \ {Nobody}
<1>8. F \cap Owners = {}
  OBVIOUS
<1>9. /\ RowChildren(r) = ({old.who} \ {Nobody}) \cup F
      /\ RowChildren(old) = {old.who, old.dialog.value} \ {Nobody}
  BY <1>2, <1>3, <1>6 DEF RowChildren
<1>10. /\ RowOwed(k, r) = IF n.dismissals > 0 THEN {<<k, "dialog">>} ELSE {}
       /\ RowOwed(k, old) = IF old.dialog.dismissals > 0 THEN {<<k, "dialog">>} ELSE {}
  BY <1>3, <1>6 DEF RowOwed, SlotOwed
<1>11. RowOwed(k, old) \subseteq RowOwed(k, r)
  <2>1. old.dialog.dismissals \in Nat /\ n.dismissals \in Nat
    BY <1>1, <1>2 DEF Slot
  <2> QED
    BY <1>2, <1>10, <2>1
<1>12. \A w \in RowChildren(old) \ RowChildren(r) :
         w.place = <<k, "dialog">> /\ RowOwed(k, r) # {}
  BY <1>1, <1>2, <1>9, <1>10
<1>13. \A w \in RowChildren(r) \ F : w.place # <<k, "dialog">>
  BY <1>1, <1>9, PlacesDiffer
<1>14. RowChildren(r) \subseteq RowChildren(old) \cup F
  BY <1>9
<1>15. e \in StateType
  BY <1>3, <1>4, RowEdit
<1> HIDE DEF F
<1>16. RowRecorded(s, k, r, e, F)
  BY <1>5, <1>11, <1>12, <1>13, <1>14 DEF RowRecorded
<1>17. r \in Row \cup {Nobody}
  BY <1>3
<1>18. Ready(e, Owed(e))
  BY <1>4, <1>7, <1>8, <1>16, <1>17, RowEditKeeps
<1> QED
  BY <1>15, <1>18

(* And on the modal.                                                       *)
LEMMA ModalKeeps ==
  ASSUME HeldWell, NEW s \in StateType, Ready(s, Owed(s)),
         NEW c \in Child \cup {Nobody}, c # Nobody => c.place = <<"modal">> /\ c \notin Owners,
         NEW e, e = [s EXCEPT !.modal = [value |-> c, dismissals |-> Dismissed(s.modal)]]
  PROVE  e \in StateType /\ Ready(e, Owed(e))
<1> DEFINE n == [value |-> c, dismissals |-> Dismissed(s.modal)]
<1>0. Placed(s) /\ s.modal \in Slot
  BY DEF Ready, StateType
<1>1. /\ n \in Slot /\ n.value = c /\ n.dismissals >= s.modal.dismissals
      /\ s.modal.value # Nobody => n.dismissals > 0
      /\ s.modal.value = Nobody => n.dismissals = s.modal.dismissals
  BY <1>0, SlotChange
<1> HIDE DEF n
<1>2. e.rows = s.rows /\ e.removals = s.removals /\ e.modal = n /\ e \in StateType
  BY <1>1 DEF StateType, n
<1>3. Placed(e)
  BY <1>0, <1>1, <1>2, PlacedByRow
<1> DEFINE F == {c} \ {Nobody}
<1>4. F \cap Owners = {}
  OBVIOUS
<1>5. Instances(e) \subseteq Instances(s) \cup F
  BY <1>1, <1>2, ChildrenByRow
<1>6. \A w \in Instances(s) \ Instances(e) : w = s.modal.value /\ w # Nobody
  BY <1>2, ChildrenByRow
<1>7. Journal(e) = Journal(s)
  BY <1>2 DEF Journal
<1>8. Owed(s) \subseteq Owed(e)
  <2>1. SlotOwed(s.modal, <<"modal">>) \subseteq SlotOwed(e.modal, <<"modal">>)
    <3>1. s.modal.dismissals \in Nat /\ n.dismissals \in Nat
      BY <1>0, <1>1 DEF Slot
    <3> QED
      BY <1>1, <1>2, <3>1 DEF SlotOwed
  <2> QED
    BY <1>2, <1>7, <2>1, OwedByRow
<1>9. \A q \in Owed(e) \ Owed(s) : q = <<"modal">>
  <2>1. \A q \in SlotOwed(e.modal, <<"modal">>) : q = <<"modal">>
    BY DEF SlotOwed
  <2> QED
    BY <1>2, <1>7, <2>1, OwedByRow
<1>10. <<"modal">> \in Place /\ Under(<<"modal">>, <<"modal">>)
  <2>1. <<"modal">> \in Place
    BY DEF Place
  <2> QED
    BY <2>1, ModalCovers
<1>11. \A w \in Instances(s) \ Instances(e) : Covered(w.place, Owed(e))
  <2>1. ASSUME s.modal.value # Nobody
        PROVE  <<"modal">> \in Owed(e)
    BY <1>1, <1>2, <2>1, OwedByRow DEF SlotOwed
  <2> QED
    BY <1>0, <1>6, <1>10, <2>1 DEF Placed, Covered
<1>12. \A q \in Owed(s), x \in Place : Under(x, q) => Covered(x, Owed(e))
  BY <1>8 DEF Covered
<1>13. \A q \in Owed(e) \ Owed(s), w \in Instances(e) \ F : ~ Under(w.place, q)
  <2> SUFFICES ASSUME NEW w \in Instances(e), w \notin F, Under(w.place, <<"modal">>)
               PROVE  FALSE
    BY <1>9
  <2>1. w.place = <<"modal">>
    BY <1>2, <1>3, OnePerPlace, ModalCovers DEF Child
  <2>2. w \notin {Root, Header}
    BY <2>1, FixedChildren, PlacesDiffer DEF Empty
  <2>3. \A k \in Key : w \notin RowChildren(e.rows[k])
    <3>1. ASSUME NEW k \in Key, w \in RowChildren(e.rows[k])
          PROVE  w.place \in {<<k>>, <<k, "dialog">>}
      BY <1>3, <3>1, PlacedByRow DEF RowPlaced, RowChildren
    <3> QED
      BY <2>1, <3>1, PlacesDiffer
  <2>4. w = e.modal.value /\ w # Nobody
    BY <1>2, <2>2, <2>3, ChildrenByRow
  <2> QED
    BY <1>1, <1>2, <2>4
<1> HIDE DEF F
<1>14. Ready(e, Owed(e))
  BY <1>2, <1>3, <1>4, <1>5, <1>11, <1>12, <1>13, EditKeeps
<1> QED
  BY <1>2, <1>14

(* What a row's reducer, and any reducer above, may do keeps the promises. *)
LEMMA DialogEdits ==
  ASSUME HeldWell, NEW s \in StateType, Ready(s, Owed(s)), NEW k \in Key,
         NEW e \in {PresentDialog(s, k), DismissDialog(s, k)}
  PROVE  /\ e \in StateType /\ Ready(e, Owed(e))
         /\ s.rows[k] # Nobody => e.rows[k] # Nobody /\ e.rows[k].who = s.rows[k].who
<1>1. CASE s.rows[k] = Nobody
  BY <1>1 DEF PresentDialog, DismissDialog
<1>2. CASE s.rows[k] # Nobody
  <2>0. Placed(s) /\ <<k, "dialog">> \in Place /\ s.rows[k] \in Row /\ s.rows[k].dialog \in Slot
    BY <1>2, RowAt DEF Ready, Place
  <2>1. PICK c \in Child \cup {Nobody} :
          /\ c # Nobody => c.place = <<k, "dialog">> /\ c \notin Owners
          /\ e = [s EXCEPT !.rows[k].dialog =
                    [value |-> c, dismissals |-> Dismissed(s.rows[k].dialog)]]
    <3>1. CASE e = PresentDialog(s, k)
      <4> DEFINE f == Mint(s, <<k, "dialog">>)
      <4>1. f \in Child /\ f.place = <<k, "dialog">> /\ f \notin Owners
        BY <2>0, MintNew
      <4>2. e = [s EXCEPT !.rows[k].dialog =
                   [value |-> f, dismissals |-> Dismissed(s.rows[k].dialog)]]
        BY <1>2, <3>1 DEF PresentDialog, Present, StateType
      <4> HIDE DEF f
      <4> QED
        BY <4>1, <4>2
    <3>2. CASE e = DismissDialog(s, k)
      BY <1>2, <3>2 DEF DismissDialog, Dismiss, StateType
    <3> QED
      BY <3>1, <3>2
  <2>2. e \in StateType /\ Ready(e, Owed(e))
    BY <1>2, <2>1, DialogKeeps
  <2>3. e.rows[k] \in Row /\ e.rows[k].who = s.rows[k].who
    <3> DEFINE n == [value |-> c, dismissals |-> Dismissed(s.rows[k].dialog)]
    <3>1. n \in Slot
      BY <2>0, SlotChange
    <3>2. e.rows[k] = [s.rows[k] EXCEPT !.dialog = n]
      BY <2>1 DEF StateType
    <3> QED
      BY <2>0, <3>1, <3>2, WithDialog
  <2> QED
    BY <2>2, <2>3, BoundariesAssumption
<1> QED
  BY <1>1, <1>2

LEMMA RowEditsKeep ==
  ASSUME HeldWell, NEW s \in StateType, Ready(s, Owed(s)), NEW k \in Key, NEW e \in RowEdits(s, k)
  PROVE  e \in StateType /\ Ready(e, Owed(e))
  BY InsertKeeps, RemoveKeeps, DialogEdits DEF RowEdits

LEMMA ModalEditsKeep ==
  ASSUME HeldWell, NEW s \in StateType, Ready(s, Owed(s)), NEW e \in ModalEdits(s)
  PROVE  e \in StateType /\ Ready(e, Owed(e))
<1>0. Placed(s) /\ <<"modal">> \in Place /\ s.modal \in Slot
  BY DEF Ready, Place, StateType
<1>1. CASE e = s
  BY <1>1
<1>2. CASE e = [s EXCEPT !.modal = Present(@, Mint(s, <<"modal">>))]
  <2> DEFINE f == Mint(s, <<"modal">>)
  <2>1. f \in Child /\ f.place = <<"modal">> /\ f \notin Owners
    BY <1>0, MintNew
  <2>2. e = [s EXCEPT !.modal = [value |-> f, dismissals |-> Dismissed(s.modal)]]
    BY <1>2 DEF Present, StateType
  <2> HIDE DEF f
  <2> QED
    BY <2>1, <2>2, ModalKeeps
<1>3. CASE e = [s EXCEPT !.modal = Dismiss(@)]
  <2>1. e = [s EXCEPT !.modal = [value |-> Nobody, dismissals |-> Dismissed(s.modal)]]
    BY <1>3 DEF Dismiss, StateType
  <2> QED
    BY <2>1, ModalKeeps
<1> QED
  BY <1>1, <1>2, <1>3 DEF ModalEdits

LEMMA RootEditsKeep ==
  ASSUME HeldWell, NEW s \in StateType, Ready(s, Owed(s)), NEW e \in RootEdits(s)
  PROVE  e \in StateType /\ Ready(e, Owed(e))
<1>1. ASSUME NEW k \in Key, NEW t \in RowEdits(s, k), e \in RowEdits(t, k)
      PROVE  e \in StateType /\ Ready(e, Owed(e))
  <2>1. t \in StateType /\ Ready(t, Owed(t))
    BY RowEditsKeep
  <2> QED
    BY <1>1, <2>1, RowEditsKeep
<1>2. ASSUME NEW t \in ModalEdits(s), e \in ModalEdits(t)
      PROVE  e \in StateType /\ Ready(e, Owed(e))
  <2>1. t \in StateType /\ Ready(t, Owed(t))
    BY ModalEditsKeep
  <2> QED
    BY <1>2, <2>1, ModalEditsKeep
<1>3. \/ \E k \in Key : \E t \in RowEdits(s, k) : e \in RowEdits(t, k)
      \/ \E t \in ModalEdits(s) : e \in ModalEdits(t)
  BY DEF RootEdits
<1> QED
  BY <1>1, <1>2, <1>3

LEMMA PaneEditsKeep ==
  ASSUME HeldWell, NEW s \in StateType, Ready(s, Owed(s)), NEW k \in Key, NEW e \in PaneEdits(s, k)
  PROVE  /\ e \in StateType /\ Ready(e, Owed(e))
         /\ s.rows[k] # Nobody => e.rows[k] # Nobody /\ e.rows[k].who = s.rows[k].who
  BY DialogEdits DEF PaneEdits

-----------------------------------------------------------------------------
(* Commands.                                                               *)

(* The commands whose every carrier is who's and stands at path.           *)
CleanupsOf(who, path) == [scope : {path}, payload : {who}]

LeavesOf(who, path) ==
  [kind : {"Effect"}, key : {NoKey, [scope |-> path, name |-> "load"]},
   scope : {path}, payload : {who}]

Carriers(who, path) ==
  [redraw : BOOLEAN, cancels : Seq(Id), teardowns : Seq(Path),
   cleanups : Seq(CleanupsOf(who, path)), leaves : Seq(LeavesOf(who, path))]

Torn(c) == ToSet(c.teardowns)

(* One segment and another, and a path of one more segment.                *)
LEMMA PrefixedIs ==
  ASSUME NEW a \in Segment
  PROVE  /\ \A p \in Path : Prefixed(a, p) \in Path
         /\ Prefixed(a, Empty) = <<a>>
         /\ \A b \in Segment : Prefixed(a, <<b>>) = <<a, b>>
<1>1. \A p \in Path : <<a>> \o p \in Path
  BY DEF Path
<1>2. <<a>> \o <<>> = <<a>>
  OBVIOUS
<1>3. ASSUME NEW b \in Segment PROVE <<a>> \o <<b>> = <<a, b>>
  <2> DEFINE q == <<a>> \o <<b>>
             r == <<a, b>>
  <2>1. /\ <<a>> \in Seq(Segment) /\ <<b>> \in Seq(Segment) /\ r \in Seq(Segment)
        /\ Len(<<a>>) = 1 /\ Len(<<b>>) = 1 /\ Len(r) = 2
        /\ <<a>>[1] = a /\ <<b>>[1] = b /\ r[1] = a /\ r[2] = b
    OBVIOUS
  <2>2. q \in Seq(Segment) /\ Len(q) = 2 /\ q[1] = a /\ q[2] = b
    BY <2>1, ConcatProperties
  <2> HIDE DEF q, r
  <2>3. \A i \in 1..2 : q[i] = r[i]
    <3>1. \A i \in 1..2 : i = 1 \/ i = 2
      OBVIOUS
    <3> QED
      BY <2>1, <2>2, <3>1
  <2>4. q = r
    BY <2>1, <2>2, <2>3, SeqEqual
  <2> QED
    BY <2>4 DEF q, r
<1> QED
  BY <1>1, <1>2, <1>3 DEF Prefixed, Empty

LEMMA NoneCarries ==
  ASSUME NEW who, NEW path
  PROVE  None \in Carriers(who, path) /\ Torn(None) = {} /\ None.redraw = TRUE
<1>1. None \in Carriers(who, path)
  BY DEF None, Carriers
<1> QED
  BY <1>1 DEF None, Torn, ToSet

(* A leaf that is moved.                                                   *)
LEMMA LeafMoved ==
  ASSUME NEW payload, NEW k1, NEW k2, NEW p1, NEW p2,
         NEW x, x = [kind |-> "Effect", key |-> k1, scope |-> p1, payload |-> payload],
         NEW y, y = [x EXCEPT !.scope = p2, !.key = k2]
  PROVE  y = [kind |-> "Effect", key |-> k2, scope |-> p2, payload |-> payload]
  OBVIOUS

(* scope: every carrier moves under the segment, and so do the teardowns.  *)
LEMMA ScopedCarries ==
  ASSUME NEW who, NEW path \in Path, NEW c \in Carriers(who, path), NEW a \in Segment
  PROVE  /\ Scoped(c, a) \in Carriers(who, Prefixed(a, path))
         /\ Torn(Scoped(c, a)) = {Prefixed(a, p) : p \in Torn(c)}
         /\ Scoped(c, a).redraw = c.redraw
<1> DEFINE d == Scoped(c, a)
           path2 == Prefixed(a, path)
<1>1. /\ c.redraw \in BOOLEAN /\ c.cancels \in Seq(Id) /\ c.teardowns \in Seq(Path)
      /\ c.cleanups \in Seq(CleanupsOf(who, path)) /\ c.leaves \in Seq(LeavesOf(who, path))
  BY DEF Carriers
<1>2. d = [redraw    |-> c.redraw,
           cancels   |-> [i \in DOMAIN c.cancels |-> IdScoped(a, c.cancels[i])],
           teardowns |-> [i \in DOMAIN c.teardowns |-> Prefixed(a, c.teardowns[i])],
           cleanups  |-> [i \in DOMAIN c.cleanups |-> CleanupScoped(a, c.cleanups[i])],
           leaves    |-> [i \in DOMAIN c.leaves |-> LeafScoped(a, c.leaves[i])]]
  <2>1. c = [redraw |-> c.redraw, cancels |-> c.cancels, teardowns |-> c.teardowns,
             cleanups |-> c.cleanups, leaves |-> c.leaves]
    BY DEF Carriers
  <2> DEFINE q == [i \in DOMAIN c.cancels |-> IdScoped(a, c.cancels[i])]
             t == [i \in DOMAIN c.teardowns |-> Prefixed(a, c.teardowns[i])]
             u == [i \in DOMAIN c.cleanups |-> CleanupScoped(a, c.cleanups[i])]
             v == [i \in DOMAIN c.leaves |-> LeafScoped(a, c.leaves[i])]
  <2>2. d = [c EXCEPT !.cancels = q, !.teardowns = t, !.cleanups = u, !.leaves = v]
    BY <2>1 DEF Scoped
  <2> HIDE DEF q, t, u, v, d
  <2>3. d = [redraw |-> c.redraw, cancels |-> q, teardowns |-> t, cleanups |-> u, leaves |-> v]
    BY <2>1, <2>2
  <2> QED
    BY <2>3 DEF q, t, u, v
<1>3. [i \in DOMAIN c.cancels |-> IdScoped(a, c.cancels[i])] \in Seq(Id)
  <2>1. \A id \in Id : IdScoped(a, id) \in Id
    BY PrefixedIs DEF IdScoped, Id
  <2> QED
    BY <1>1, <2>1
<1>4. [i \in DOMAIN c.teardowns |-> Prefixed(a, c.teardowns[i])] \in Seq(Path)
  BY <1>1, PrefixedIs
<1>5. [i \in DOMAIN c.cleanups |-> CleanupScoped(a, c.cleanups[i])] \in Seq(CleanupsOf(who, path2))
  <2>1. \A x \in CleanupsOf(who, path) : CleanupScoped(a, x) \in CleanupsOf(who, path2)
    BY DEF CleanupScoped, CleanupsOf
  <2> HIDE DEF path2
  <2> QED
    BY <1>1, <2>1
<1>6. [i \in DOMAIN c.leaves |-> LeafScoped(a, c.leaves[i])] \in Seq(LeavesOf(who, path2))
  <2>1. ASSUME NEW x \in LeavesOf(who, path)
        PROVE  LeafScoped(a, x) \in LeavesOf(who, path2)
    <3>1. [scope |-> path, name |-> "load"] # NoKey
      BY DEF NoKey
    <3>2. IdScoped(a, [scope |-> path, name |-> "load"]) = [scope |-> path2, name |-> "load"]
      BY DEF IdScoped
    <3>3. PICK key \in {NoKey, [scope |-> path, name |-> "load"]} :
            x = [kind |-> "Effect", key |-> key, scope |-> path, payload |-> who]
      BY DEF LeavesOf
    <3> DEFINE key2 == IF key = NoKey THEN NoKey ELSE IdScoped(a, key)
               y == LeafScoped(a, x)
    <3>4. x.key = key /\ x.scope = path
      BY <3>3
    <3>5. y = [x EXCEPT !.scope = path2, !.key = key2]
      BY <3>4 DEF LeafScoped
    <3> HIDE DEF y
    <3>6. y = [kind |-> "Effect", key |-> key2, scope |-> path2, payload |-> who]
      <4> HIDE DEF path2, key2
      <4> QED
        BY <3>3, <3>5, LeafMoved
    <3>7. key2 \in {NoKey, [scope |-> path2, name |-> "load"]}
      <4> HIDE DEF path2
      <4> QED
        BY <3>1, <3>2, <3>3
    <3> HIDE DEF path2, key2
    <3> QED
      BY <3>6, <3>7 DEF LeavesOf, y
  <2> HIDE DEF path2
  <2> QED
    BY <1>1, <2>1
<1>7. d \in Carriers(who, path2)
  <2> HIDE DEF path2
  <2> QED
    BY <1>1, <1>2, <1>3, <1>4, <1>5, <1>6 DEF Carriers
<1>8. Torn(d) = {Prefixed(a, p) : p \in Torn(c)}
  <2>1. d.teardowns = [i \in DOMAIN c.teardowns |-> Prefixed(a, c.teardowns[i])]
    BY <1>2
  <2>2. DOMAIN d.teardowns = DOMAIN c.teardowns
    BY <2>1
  <2> HIDE DEF d
  <2>3. Torn(d) = {Prefixed(a, c.teardowns[i]) : i \in DOMAIN c.teardowns}
    BY <2>1, <2>2 DEF Torn, ToSet
  <2> QED
    BY <2>3 DEF Torn, ToSet
<1> QED
  BY <1>2, <1>7, <1>8

(* The elements of a concatenation.                                        *)
LEMMA RangesConcatenated ==
  ASSUME NEW S, NEW a \in Seq(S), NEW b \in Seq(S)
  PROVE  ToSet(a \o b) = ToSet(a) \cup ToSet(b)
<1> DEFINE q == a \o b
<1>1. /\ Len(a) \in Nat /\ Len(b) \in Nat /\ Len(q) = Len(a) + Len(b)
      /\ DOMAIN a = 1..Len(a) /\ DOMAIN b = 1..Len(b) /\ DOMAIN q = 1..Len(q)
  BY ConcatProperties
<1>2. \A i \in 1..Len(a) + Len(b) : q[i] = IF i <= Len(a) THEN a[i] ELSE b[i - Len(a)]
  BY ConcatProperties
<1> HIDE DEF q
<1>3. \A i \in DOMAIN a : i \in DOMAIN q /\ q[i] = a[i]
  BY <1>1, <1>2
<1>4. \A i \in DOMAIN b : i + Len(a) \in DOMAIN q /\ q[i + Len(a)] = b[i]
  BY <1>1, <1>2
<1>5. \A i \in DOMAIN q : (i \in DOMAIN a /\ q[i] = a[i])
                            \/ (i - Len(a) \in DOMAIN b /\ q[i] = b[i - Len(a)])
  BY <1>1, <1>2
<1>6. ToSet(q) = ToSet(a) \cup ToSet(b)
  BY <1>3, <1>4, <1>5 DEF ToSet
<1> QED
  BY <1>6 DEF q

(* merge_teardowns: one teardown for each segment, and nothing else.       *)
LEMMA MergeCarries ==
  ASSUME NEW who, NEW path \in Path, NEW c \in Carriers(who, path), NEW removed \in Seq(Segment)
  PROVE  /\ Merge(c, removed) \in Carriers(who, path)
         /\ Torn(Merge(c, removed)) = Torn(c) \cup {<<removed[i]>> : i \in DOMAIN removed}
         /\ Merge(c, removed).redraw = c.redraw
<1>1. CASE removed = <<>>
  <2>1. Merge(c, removed) = c /\ DOMAIN removed = {}
    BY <1>1 DEF Merge
  <2> QED
    BY <2>1
<1>2. CASE removed # <<>>
  <2> DEFINE t == [i \in DOMAIN removed |-> <<removed[i]>>]
             d == Merge(c, removed)
  <2>1. t \in Seq(Path) /\ DOMAIN t = DOMAIN removed /\ Len(t) = Len(removed)
        /\ \A i \in DOMAIN t : t[i] = <<removed[i]>>
    <3>1. \A i \in DOMAIN removed : <<removed[i]>> \in Path
      BY DEF Path
    <3> QED
      BY <3>1
  <2>2. Teardowns(removed).teardowns = t
    <3>1. \A i \in DOMAIN removed : Prefixed(removed[i], Empty) = <<removed[i]>>
      BY PrefixedIs
    <3> QED
      BY <3>1 DEF Teardowns, None
  <2> HIDE DEF t
  <2>3. d = [c EXCEPT !.teardowns = c.teardowns \o t]
    BY <1>2, <2>2 DEF Merge, MergingTeardowns, Carriers
  <2>4. c.teardowns \in Seq(Path)
    BY DEF Carriers
  <2> DEFINE u == c.teardowns \o t
  <2>5. u \in Seq(Path)
    BY <2>1, <2>4
  <2>6. ToSet(u) = ToSet(c.teardowns) \cup ToSet(t)
    BY <2>1, <2>4, RangesConcatenated
  <2> HIDE DEF u
  <2>7. d \in Carriers(who, path) /\ d.teardowns = u /\ d.redraw = c.redraw
    BY <2>3, <2>5 DEF Carriers, u
  <2> HIDE DEF d
  <2>8. Torn(d) = Torn(c) \cup ToSet(t)
    BY <2>6, <2>7 DEF Torn
  <2>9. ToSet(t) = {<<removed[i]>> : i \in DOMAIN removed}
    BY <2>1 DEF ToSet
  <2> QED
    BY <2>7, <2>8, <2>9 DEF d
<1> QED
  BY <1>1, <1>2

(* Three sequences in a row.                                               *)
InARow(a, b, c) == FlattenSeq(<<a, b, c>>)

LEMMA FlattenThree ==
  ASSUME NEW S, NEW a \in Seq(S), NEW b \in Seq(S), NEW c \in Seq(S)
  PROVE  InARow(a, b, c) \in Seq(S) /\ ToSet(InARow(a, b, c)) = ToSet(a) \cup ToSet(b) \cup ToSet(c)
<1> DEFINE q == <<a, b, c>>
           P(f) == f = [i \in 1..Len(q) |-> IF i = 1 THEN q[i] ELSE f[i-1] \o q[i]]
           g == [i \in 1..3 |-> IF i = 1 THEN a ELSE IF i = 2 THEN a \o b ELSE (a \o b) \o c]
<1>1. Len(q) = 3 /\ q[1] = a /\ q[2] = b /\ q[3] = c
  OBVIOUS
<1>2. P(g)
  BY <1>1
<1>3. P(CHOOSE f : P(f))
  <2> HIDE DEF P
  <2> QED
    BY <1>2
<1> DEFINE h == CHOOSE f : P(f)
<1>4. FlattenSeq(q) = h[Len(q)]
  BY <1>1 DEF FlattenSeq
<1>5. h = [i \in 1..Len(q) |-> IF i = 1 THEN q[i] ELSE h[i-1] \o q[i]]
  BY <1>3
<1> HIDE DEF h
<1>6. h[1] = a
  BY <1>1, <1>5
<1>7. h[2] = h[1] \o b
  BY <1>1, <1>5
<1>8. h[3] = h[2] \o c
  <2>1. 3 \in 1..Len(q) /\ 3 # 1 /\ 3 - 1 = 2
    BY <1>1
  <2> HIDE DEF q
  <2>2. h[3] = IF 3 = 1 THEN q[3] ELSE h[3-1] \o q[3]
    BY <1>5, <2>1
  <2> QED
    BY <1>1, <2>1, <2>2
<1>9. InARow(a, b, c) = (a \o b) \o c
  BY <1>1, <1>4, <1>6, <1>7, <1>8 DEF InARow
<1> DEFINE ab == a \o b
<1>10. ab \in Seq(S) /\ ToSet(ab) = ToSet(a) \cup ToSet(b)
  BY RangesConcatenated
<1> HIDE DEF ab
<1>11. ab \o c \in Seq(S) /\ ToSet(ab \o c) = ToSet(ab) \cup ToSet(c)
  BY <1>10, RangesConcatenated
<1> QED
  BY <1>9, <1>10, <1>11 DEF ab

(* batch, of three.                                                        *)
BatchOf(a, b, c) == Batch(<<a, b, c>>)

LEMMA BatchCarries ==
  ASSUME NEW who, NEW path, NEW a \in Carriers(who, path), NEW b \in Carriers(who, path),
         NEW c \in Carriers(who, path), Torn(a) = {}, Torn(b) = {}, Torn(c) = {},
         NEW d, d = BatchOf(a, b, c)
  PROVE  d \in Carriers(who, path) /\ Torn(d) = {} /\ d.redraw = (a.redraw \/ b.redraw \/ c.redraw)
<1> DEFINE q == <<a, b, c>>
<1>0. d = Batch(q)
  BY DEF BatchOf
<1>1. /\ a.cancels \in Seq(Id) /\ b.cancels \in Seq(Id) /\ c.cancels \in Seq(Id)
      /\ a.teardowns \in Seq(Path) /\ b.teardowns \in Seq(Path) /\ c.teardowns \in Seq(Path)
      /\ a.cleanups \in Seq(CleanupsOf(who, path)) /\ b.cleanups \in Seq(CleanupsOf(who, path))
      /\ c.cleanups \in Seq(CleanupsOf(who, path))
      /\ a.leaves \in Seq(LeavesOf(who, path)) /\ b.leaves \in Seq(LeavesOf(who, path))
      /\ c.leaves \in Seq(LeavesOf(who, path))
      /\ a.redraw \in BOOLEAN /\ b.redraw \in BOOLEAN /\ c.redraw \in BOOLEAN
  BY DEF Carriers
<1>2. /\ q # <<>> /\ DOMAIN q = {1, 2, 3} /\ q[1] = a /\ q[2] = b /\ q[3] = c
      /\ [i \in DOMAIN q |-> q[i].cancels] = <<a.cancels, b.cancels, c.cancels>>
      /\ [i \in DOMAIN q |-> q[i].teardowns] = <<a.teardowns, b.teardowns, c.teardowns>>
      /\ [i \in DOMAIN q |-> q[i].cleanups] = <<a.cleanups, b.cleanups, c.cleanups>>
      /\ [i \in DOMAIN q |-> q[i].leaves] = <<a.leaves, b.leaves, c.leaves>>
  OBVIOUS
<1>3. d = [redraw    |-> \E i \in DOMAIN q : q[i].redraw,
           cancels   |-> InARow(a.cancels, b.cancels, c.cancels),
           teardowns |-> InARow(a.teardowns, b.teardowns, c.teardowns),
           cleanups  |-> InARow(a.cleanups, b.cleanups, c.cleanups),
           leaves    |-> InARow(a.leaves, b.leaves, c.leaves)]
  <2> HIDE DEF q
  <2> QED
    BY <1>0, <1>2 DEF Batch, InARow
<1>4. InARow(a.cancels, b.cancels, c.cancels) \in Seq(Id)
  BY <1>1, FlattenThree
<1>5. /\ InARow(a.teardowns, b.teardowns, c.teardowns) \in Seq(Path)
      /\ ToSet(InARow(a.teardowns, b.teardowns, c.teardowns)) = {}
  <2>1. ToSet(a.teardowns) = {} /\ ToSet(b.teardowns) = {} /\ ToSet(c.teardowns) = {}
    BY DEF Torn
  <2> DEFINE t == InARow(a.teardowns, b.teardowns, c.teardowns)
  <2>2. t \in Seq(Path) /\ ToSet(t) = ToSet(a.teardowns) \cup ToSet(b.teardowns) \cup ToSet(c.teardowns)
    BY <1>1, FlattenThree
  <2> QED
    BY <2>1, <2>2
<1>6. InARow(a.cleanups, b.cleanups, c.cleanups) \in Seq(CleanupsOf(who, path))
  BY <1>1, FlattenThree
<1>7. InARow(a.leaves, b.leaves, c.leaves) \in Seq(LeavesOf(who, path))
  BY <1>1, FlattenThree
<1> DEFINE redraw == \E i \in DOMAIN q : q[i].redraw
<1>8. redraw = (a.redraw \/ b.redraw \/ c.redraw) /\ redraw \in BOOLEAN
  BY <1>1, <1>2
<1> DEFINE t == InARow(a.teardowns, b.teardowns, c.teardowns)
           u == InARow(a.cancels, b.cancels, c.cancels)
           v == InARow(a.cleanups, b.cleanups, c.cleanups)
           w == InARow(a.leaves, b.leaves, c.leaves)
<1>9. d = [redraw |-> redraw, cancels |-> u, teardowns |-> t, cleanups |-> v, leaves |-> w]
  BY <1>3
<1>10. redraw \in BOOLEAN /\ u \in Seq(Id) /\ t \in Seq(Path)
       /\ v \in Seq(CleanupsOf(who, path)) /\ w \in Seq(LeavesOf(who, path))
  BY <1>4, <1>5, <1>6, <1>7, <1>8
<1> HIDE DEF redraw, t, u, v, w
<1>11. d \in Carriers(who, path) /\ d.redraw = redraw /\ d.teardowns = t
  BY <1>9, <1>10 DEF Carriers
<1>12. Torn(d) = {}
  BY <1>5, <1>11 DEF Torn, t
<1> QED
  BY <1>8, <1>11, <1>12

(* What an instance returns is its own, and unqualified.                   *)
LEMMA AnswerCarries ==
  ASSUME NEW who, NEW m, m.answer \in Answers, m.redraw = (m.answer = "Start")
  PROVE  /\ Answer(who, m) \in Carriers(who, Empty)
         /\ Torn(Answer(who, m)) = {}
         /\ Answer(who, m).redraw = m.redraw
<1>1. NewId("load") \in Id /\ NewId("load") = [scope |-> Empty, name |-> "load"]
  BY PlacesArePaths DEF NewId, Id, Place
<1>2. None \in Carriers(who, Empty) /\ Torn(None) = {} /\ None.redraw = TRUE
  BY NoneCarries
<1>3. EffectCommand(who) \in Carriers(who, Empty) /\ Torn(EffectCommand(who)) = {}
      /\ EffectCommand(who).redraw = TRUE
  <2> DEFINE leaf == [kind |-> "Effect", key |-> NoKey, scope |-> Empty, payload |-> who]
             d == EffectCommand(who)
  <2>1. leaf \in LeavesOf(who, Empty)
    BY DEF LeavesOf
  <2> HIDE DEF leaf
  <2>2. <<leaf>> \in Seq(LeavesOf(who, Empty))
    BY <2>1
  <2>3. d = [None EXCEPT !.leaves = <<leaf>>]
    BY DEF EffectCommand, leaf
  <2> HIDE DEF d
  <2>4. d \in Carriers(who, Empty) /\ d.teardowns = None.teardowns /\ d.redraw = None.redraw
    BY <1>2, <2>2, <2>3 DEF Carriers
  <2> QED
    BY <1>2, <2>4 DEF Torn, d
<1>4. Cancellable(EffectCommand(who), NewId("load")) \in Carriers(who, Empty)
      /\ Torn(Cancellable(EffectCommand(who), NewId("load"))) = {}
      /\ Cancellable(EffectCommand(who), NewId("load")).redraw = TRUE
  <2> DEFINE leaf == [kind |-> "Effect", key |-> NoKey, scope |-> Empty, payload |-> who]
             keyed == [kind |-> "Effect", key |-> NewId("load"), scope |-> Empty, payload |-> who]
             d == Cancellable(EffectCommand(who), NewId("load"))
  <2>1. keyed \in LeavesOf(who, Empty)
    BY <1>1 DEF LeavesOf
  <2>2. EffectCommand(who).leaves = <<leaf>>
    BY DEF EffectCommand, None
  <2>3. [leaf EXCEPT !.key = NewId("load")] = keyed
    OBVIOUS
  <2> HIDE DEF leaf, keyed
  <2>4. [<<leaf>> EXCEPT ![1] = keyed] = <<keyed>>
    OBVIOUS
  <2>5. <<keyed>> \in Seq(LeavesOf(who, Empty))
    BY <2>1
  <2>6. d = [EffectCommand(who) EXCEPT !.leaves = <<keyed>>]
    BY <2>2, <2>3, <2>4 DEF Cancellable
  <2> HIDE DEF d
  <2>7. /\ d \in Carriers(who, Empty) /\ d.redraw = EffectCommand(who).redraw
        /\ d.teardowns = EffectCommand(who).teardowns
    BY <1>3, <2>5, <2>6 DEF Carriers
  <2> QED
    BY <1>3, <2>7 DEF Torn, d
<1>5. OnTeardown(who) \in Carriers(who, Empty) /\ Torn(OnTeardown(who)) = {}
      /\ OnTeardown(who).redraw = TRUE
  <2> DEFINE hook == [scope |-> Empty, payload |-> who]
             d == OnTeardown(who)
  <2>1. <<hook>> \in Seq(CleanupsOf(who, Empty))
    BY DEF CleanupsOf
  <2>2. d = [None EXCEPT !.cleanups = <<hook>>]
    BY DEF OnTeardown
  <2> HIDE DEF d, hook
  <2>3. d \in Carriers(who, Empty) /\ d.teardowns = None.teardowns /\ d.redraw = None.redraw
    BY <1>2, <2>1, <2>2 DEF Carriers
  <2> QED
    BY <1>2, <2>3 DEF Torn, d
<1>6. Cancel(NewId("load")) \in Carriers(who, Empty) /\ Torn(Cancel(NewId("load"))) = {}
      /\ Cancel(NewId("load")).redraw = TRUE
  <2> DEFINE d == Cancel(NewId("load"))
             q == <<NewId("load")>>
  <2>1. q \in Seq(Id)
    BY <1>1
  <2>2. d = [None EXCEPT !.cancels = q]
    BY DEF Cancel
  <2> HIDE DEF d, q
  <2>3. d \in Carriers(who, Empty) /\ d.teardowns = None.teardowns /\ d.redraw = None.redraw
    BY <1>2, <2>1, <2>2 DEF Carriers
  <2> QED
    BY <1>2, <2>3 DEF Torn, d
<1> DEFINE c == CASE m.answer = "Start" ->
                       Batch(<<Cancellable(EffectCommand(who), NewId("load")), EffectCommand(who),
                               OnTeardown(who)>>)
                  [] m.answer = "Cancel" -> Cancel(NewId("load"))
                  [] m.answer = "Quiet"  -> None
<1>7. c \in Carriers(who, Empty) /\ Torn(c) = {} /\ c.redraw = TRUE
  <2>1. CASE m.answer = "Start"
    <3>1. c = Batch(<<Cancellable(EffectCommand(who), NewId("load")), EffectCommand(who),
                      OnTeardown(who)>>)
      BY <2>1
    <3> QED
      <4> DEFINE x == Cancellable(EffectCommand(who), NewId("load"))
                 y == EffectCommand(who)
                 z == OnTeardown(who)
      <4>1. /\ c = BatchOf(x, y, z)
            /\ x \in Carriers(who, Empty) /\ Torn(x) = {} /\ x.redraw = TRUE
            /\ y \in Carriers(who, Empty) /\ Torn(y) = {} /\ y.redraw = TRUE
            /\ z \in Carriers(who, Empty) /\ Torn(z) = {} /\ z.redraw = TRUE
        BY <1>3, <1>4, <1>5, <3>1 DEF BatchOf
      <4> HIDE DEF c, x, y, z
      <4> QED
        BY <4>1, BatchCarries
  <2>2. CASE m.answer = "Cancel"
    BY <1>6, <2>2
  <2>3. CASE m.answer = "Quiet"
    BY <1>2, <2>3
  <2> QED
    BY <2>1, <2>2, <2>3 DEF Answers
<1>8. Answer(who, m) = IF m.redraw THEN c ELSE WithoutRedraw(c)
  BY DEF Answer
<1> HIDE DEF c
<1>9. /\ WithoutRedraw(c) \in Carriers(who, Empty) /\ WithoutRedraw(c).redraw = FALSE
      /\ WithoutRedraw(c).teardowns = c.teardowns
  BY <1>7 DEF WithoutRedraw, Carriers
<1> QED
  BY <1>7, <1>8, <1>9 DEF Torn

-----------------------------------------------------------------------------
(* The drains: what the state owed, the command tears down.                *)

(* What a boundary has made of an edited state e and an update of who's.   *)
Reduced(e, r, who, path) ==
  /\ r.state \in StateType /\ Placed(r.state) /\ Instances(r.state) = Instances(e)
  /\ r.command \in Carriers(who, path)
  /\ Owed(r.state) \cup Torn(r.command) = Owed(e)

(* One teardown per dismissal: that of the slot's prefix, if any.          *)
LEMMA DismissalsTear ==
  ASSUME NEW who, NEW path \in Path, NEW c \in Carriers(who, path), NEW slot \in Slot,
         NEW a \in Segment, NEW d, d = Merge(c, Dismissals(slot, a))
  PROVE  /\ d \in Carriers(who, path) /\ Torn(d) = Torn(c) \cup SlotOwed(slot, <<a>>)
         /\ d.redraw = c.redraw
<1> DEFINE q == Dismissals(slot, a)
<1>1. slot.dismissals \in Nat
  BY DEF Slot
<1>2. q \in Seq(Segment) /\ DOMAIN q = 1..slot.dismissals /\ \A i \in DOMAIN q : q[i] = a
  BY <1>1 DEF Dismissals
<1> HIDE DEF q
<1>3. {<<q[i]>> : i \in DOMAIN q} = SlotOwed(slot, <<a>>)
  <2>1. CASE slot.dismissals > 0
    <3>1. 1 \in DOMAIN q
      BY <1>1, <1>2, <2>1
    <3> QED
      BY <1>2, <2>1, <3>1 DEF SlotOwed
  <2>2. CASE ~ (slot.dismissals > 0)
    <3>1. DOMAIN q = {}
      BY <1>1, <1>2, <2>2
    <3> QED
      BY <2>2, <3>1 DEF SlotOwed
  <2> QED
    BY <2>1, <2>2
<1>4. /\ Merge(c, q) \in Carriers(who, path)
      /\ Torn(Merge(c, q)) = Torn(c) \cup {<<q[i]>> : i \in DOMAIN q}
      /\ Merge(c, q).redraw = c.redraw
  BY <1>2, MergeCarries
<1>5. d = Merge(c, q)
  BY DEF q
<1> QED
  BY <1>3, <1>4, <1>5

(* A dialog's slot that is drained, and nothing else.                      *)
WithoutDismissals(e, k) == [e EXCEPT !.rows[k].dialog.dismissals = 0]

LEMMA DialogDrained ==
  ASSUME NEW e \in StateType, Placed(e), NEW k \in Key, e.rows[k] # Nobody,
         NEW t, t = WithoutDismissals(e, k)
  PROVE  /\ t \in StateType /\ Placed(t) /\ Instances(t) = Instances(e)
         /\ Owed(t) \cup SlotOwed(e.rows[k].dialog, <<k, "dialog">>) = Owed(e)
         /\ RowOwed(k, t.rows[k]) = {} /\ t.rows[k] # Nobody /\ t.rows[k].who = e.rows[k].who
<1> DEFINE old == e.rows[k]
           n == [old.dialog EXCEPT !.dismissals = 0]
           r == [old EXCEPT !.dialog = n]
<1>1. /\ old \in Row /\ old.who \in Child /\ old.who.place = <<k>> /\ old.dialog \in Slot
      /\ old.dialog.value # Nobody => old.dialog.value.place = <<k, "dialog">>
  BY RowAt
<1>2. n \in Slot /\ n.value = old.dialog.value /\ n.dismissals = 0
  BY <1>1 DEF Slot
<1>3. r \in Row /\ r.who = old.who /\ r.dialog = n
  BY <1>1, <1>2, WithDialog
<1>4. t.removals = e.removals
  BY DEF StateType, WithoutDismissals
<1>5. RowEdited(e, k, r, t)
  BY <1>4 DEF RowEdited, StateType, WithoutDismissals
<1>6. r # Nobody
  BY <1>3, BoundariesAssumption
<1> HIDE DEF n, r
<1>7. /\ t \in StateType /\ t.rows[k] = r /\ \A j \in Key : j # k => t.rows[j] = e.rows[j]
      /\ t.modal = e.modal /\ Journal(t) = Journal(e)
  <2>1. r \in Row \cup {Nobody}
    BY <1>3
  <2>2. /\ t \in StateType /\ t.rows[k] = r /\ \A j \in Key : j # k => t.rows[j] = e.rows[j]
        /\ t.modal = e.modal
        /\ Journal(t) = Journal(e) \cup (IF t.removals = e.removals THEN {} ELSE {<<k>>})
    BY <1>5, <2>1, RowEdit
  <2> QED
    BY <1>4, <2>2
<1>8. RowChildren(r) = RowChildren(old) /\ RowOwed(k, r) = {}
      /\ RowOwed(k, old) = SlotOwed(old.dialog, <<k, "dialog">>)
      /\ RowPlaced(k, r)
  BY <1>1, <1>2, <1>3, <1>6 DEF RowChildren, RowOwed, SlotOwed, RowPlaced
<1>9. Placed(t)
  BY <1>7, <1>8, PlacedByRow
<1>10. \A w : w \in Instances(t) <=> w \in Instances(e)
  <2> TAKE w
  <2>1. \A j \in Key : w \in RowChildren(t.rows[j]) <=> w \in RowChildren(e.rows[j])
    BY <1>7, <1>8
  <2> QED
    BY <1>7, <2>1, ChildrenByRow
<1>11. \A p : p \in Owed(t) \cup SlotOwed(old.dialog, <<k, "dialog">>) <=> p \in Owed(e)
  <2> TAKE p
  <2>1. (\E j \in Key : p \in RowOwed(j, t.rows[j])) \/ p \in SlotOwed(old.dialog, <<k, "dialog">>)
          <=> \E j \in Key : p \in RowOwed(j, e.rows[j])
    BY <1>7, <1>8
  <2>2. p \in Owed(t) <=> p \in Journal(t) \cup SlotOwed(t.modal, <<"modal">>)
                            \/ \E j \in Key : p \in RowOwed(j, t.rows[j])
    BY <1>7, OwedByRow
  <2>3. p \in Owed(e) <=> p \in Journal(e) \cup SlotOwed(e.modal, <<"modal">>)
                            \/ \E j \in Key : p \in RowOwed(j, e.rows[j])
    BY OwedByRow
  <2> QED
    BY <1>7, <2>1, <2>2, <2>3
<1> QED
  BY <1>3, <1>6, <1>7, <1>8, <1>9, <1>10, <1>11

(* pane.presented(dialog), below for_each: the dismissals are torn down    *)
(* under the row's key.                                                    *)
DialogDrains(e, k, c, d, who, path) ==
  /\ Reduced(e, d, who, Prefixed(k, path))
  /\ RowOwed(k, d.state.rows[k]) = {}
  /\ d.command.redraw = c.redraw

LEMMA DrainDialogReduces ==
  ASSUME NEW e \in StateType, Placed(e), NEW k \in Key, e.rows[k] # Nobody,
         NEW who, NEW path \in Path, NEW c \in Carriers(who, path), Torn(c) = {},
         NEW r, r = DrainDialog(Result(e, c), k),
         NEW d, d = Result(r.state, Scoped(r.command, k))
  PROVE  DialogDrains(e, k, c, d, who, path)
<1>0. k \in Segment /\ "dialog" \in Segment
  BY DEF Segment
<1>1. e.rows[k] \in Row /\ e.rows[k].dialog \in Slot
  BY RowAt
<1> DEFINE t == WithoutDismissals(e, k)
           slot == e.rows[k].dialog
           m == Merge(c, Dismissals(slot, "dialog"))
<1>2. r.state = t /\ r.command = m
  BY DEF DrainDialog, Result, WithoutDismissals
<1>3. d.state = t /\ d.command = Scoped(m, k)
  BY <1>2 DEF Result
<1>4. /\ t \in StateType /\ Placed(t) /\ Instances(t) = Instances(e)
      /\ Owed(t) \cup SlotOwed(slot, <<k, "dialog">>) = Owed(e)
      /\ RowOwed(k, t.rows[k]) = {}
  BY DialogDrained
<1>5. m \in Carriers(who, path) /\ Torn(m) = SlotOwed(slot, <<"dialog">>) /\ m.redraw = c.redraw
  BY <1>0, <1>1, DismissalsTear
<1> HIDE DEF t, m, slot
<1>6. /\ Scoped(m, k) \in Carriers(who, Prefixed(k, path))
      /\ Torn(Scoped(m, k)) = {Prefixed(k, p) : p \in Torn(m)}
      /\ Scoped(m, k).redraw = m.redraw
  BY <1>0, <1>5, ScopedCarries
<1>7. Torn(Scoped(m, k)) = SlotOwed(slot, <<k, "dialog">>)
  <2>1. Prefixed(k, <<"dialog">>) = <<k, "dialog">>
    BY <1>0, PrefixedIs
  <2> QED
    BY <1>5, <1>6, <2>1 DEF SlotOwed
<1> QED
  BY <1>3, <1>4, <1>5, <1>6, <1>7 DEF DialogDrains, Reduced

(* for_each: one teardown per removal of the journal.                      *)
RemovalsDrained(e, r, d, who, path) ==
  /\ Reduced(e, d, who, path) /\ d.command.redraw = r.command.redraw
  /\ Journal(d.state) = {} /\ d.state.rows = r.state.rows

LEMMA DrainRemovalsReduces ==
  ASSUME NEW e, NEW who, NEW path \in Path, NEW r, Reduced(e, r, who, path),
         NEW d, d = DrainRemovals(r)
  PROVE  RemovalsDrained(e, r, d, who, path)
<1> DEFINE s == r.state
           t == [s EXCEPT !.removals = <<>>]
           c == r.command
           m == Merge(c, s.removals)
<1>1. d.state = t /\ d.command = m
  BY DEF DrainRemovals, Result
<1>2. s \in StateType /\ Placed(s) /\ c \in Carriers(who, path) /\ s.removals \in Seq(Segment)
  BY DEF Reduced, StateType, Segment
<1>3. /\ t \in StateType /\ t.rows = s.rows /\ t.modal = s.modal /\ Journal(t) = {}
  <2>1. <<>> \in Seq(Key) /\ DOMAIN <<>> = {}
    OBVIOUS
  <2> HIDE DEF s
  <2>2. t \in StateType /\ t.rows = s.rows /\ t.modal = s.modal /\ t.removals = <<>>
    BY <1>2, <2>1 DEF StateType
  <2> HIDE DEF t
  <2> QED
    BY <2>1, <2>2 DEF Journal
<1>4. m \in Carriers(who, path) /\ Torn(m) = Torn(c) \cup Journal(s) /\ m.redraw = c.redraw
  BY <1>2, MergeCarries DEF Journal
<1> HIDE DEF s, t, c, m
<1>5. Placed(t)
  BY <1>2, <1>3, PlacedByRow
<1>6. \A w : w \in Instances(t) <=> w \in Instances(s)
  BY <1>2, <1>3, ChildrenByRow
<1>7. \A p : p \in Owed(t) \cup Journal(s) <=> p \in Owed(s)
  BY <1>2, <1>3, OwedByRow
<1> QED
  BY <1>1, <1>3, <1>4, <1>5, <1>6, <1>7 DEF RemovalsDrained, Reduced, s, c

(* presented, at the top: the dismissals of the modal.                     *)
ModalDrained(e, r, d, who, path) ==
  /\ Reduced(e, d, who, path) /\ d.command.redraw = r.command.redraw
  /\ SlotOwed(d.state.modal, <<"modal">>) = {} /\ d.state.rows = r.state.rows
  /\ Journal(d.state) = Journal(r.state)

LEMMA DrainModalReduces ==
  ASSUME NEW e, NEW who, NEW path \in Path, NEW r, Reduced(e, r, who, path),
         NEW d, d = DrainModal(r)
  PROVE  ModalDrained(e, r, d, who, path)
<1> DEFINE s == r.state
           t == [s EXCEPT !.modal.dismissals = 0]
           c == r.command
           m == Merge(c, Dismissals(s.modal, "modal"))
<1>1. d.state = t /\ d.command = m
  BY DEF DrainModal, Result
<1>2. s \in StateType /\ Placed(s) /\ c \in Carriers(who, path) /\ s.modal \in Slot
      /\ "modal" \in Segment
  BY DEF Reduced, StateType, Segment
<1>3. /\ t \in StateType /\ t.rows = s.rows /\ t.removals = s.removals
      /\ t.modal.value = s.modal.value /\ t.modal.dismissals = 0
  <2> DEFINE n == [s.modal EXCEPT !.dismissals = 0]
  <2>1. n \in Slot /\ n.value = s.modal.value /\ n.dismissals = 0
    BY <1>2 DEF Slot
  <2>2. t = [s EXCEPT !.modal = n]
    BY <1>2 DEF StateType
  <2> HIDE DEF n, t, s
  <2>3. t \in StateType /\ t.rows = s.rows /\ t.removals = s.removals /\ t.modal = n
    BY <1>2, <2>1, <2>2 DEF StateType
  <2> QED
    BY <2>1, <2>3
<1>4. m \in Carriers(who, path) /\ Torn(m) = Torn(c) \cup SlotOwed(s.modal, <<"modal">>)
      /\ m.redraw = c.redraw
  BY <1>2, DismissalsTear
<1>5. Journal(t) = Journal(s) /\ SlotOwed(t.modal, <<"modal">>) = {}
  BY <1>3 DEF Journal, SlotOwed
<1> HIDE DEF s, t, c, m
<1>6. Placed(t)
  BY <1>2, <1>3, PlacedByRow
<1>7. \A w : w \in Instances(t) <=> w \in Instances(s)
  BY <1>2, <1>3, ChildrenByRow
<1>8. \A p : p \in Owed(t) \cup SlotOwed(s.modal, <<"modal">>) <=> p \in Owed(s)
  BY <1>2, <1>3, <1>5, OwedByRow
<1> QED
  BY <1>1, <1>3, <1>4, <1>5, <1>6, <1>7, <1>8 DEF ModalDrained, Reduced, s, c

-----------------------------------------------------------------------------
(* The dispatch.                                                           *)

(* What a command leaves held is its instance's, where the instance is.    *)
LEMMA SentHeld ==
  ASSUME NEW who \in Child, NEW c \in Carriers(who, who.place)
  PROVE  /\ IsFiniteSet(Leaves(c)) /\ IsFiniteSet(Cleanups(c))
         /\ Leaves(c) \cup Cleanups(c) \in SUBSET HoldType
         /\ \A x \in Leaves(c) \cup Cleanups(c) :
              /\ x.owner = who /\ x.scope = who.place
              /\ x.id # NoKey => x.id.scope = who.place
<1> DEFINE path == who.place
           loading == [scope |-> path, name |-> "load"]
<1>1. path \in Place /\ path \in Path
  BY PlacesArePaths DEF Child
<1>2. NoKey \in Id /\ loading \in Id /\ NoKey # loading /\ loading.scope = path
  BY <1>1, PlacesArePaths DEF NoKey, Id, Place
<1>3. c.leaves \in Seq(LeavesOf(who, path)) /\ c.cleanups \in Seq(CleanupsOf(who, path))
  BY DEF Carriers
<1>4. ASSUME NEW leaf \in LeavesOf(who, path)
      PROVE  /\ LeafHold(leaf) \in HoldType
             /\ LeafHold(leaf).owner = who /\ LeafHold(leaf).scope = path
             /\ LeafHold(leaf).id # NoKey => LeafHold(leaf).id.scope = path
  <2>1. leaf.key \in {NoKey, loading} /\ leaf.scope = path /\ leaf.payload = who
    BY DEF LeavesOf
  <2> DEFINE kind == IF leaf.key = NoKey THEN "Anonymous" ELSE "Keyed"
  <2>2. LeafHold(leaf) = [kind |-> kind, scope |-> path, id |-> leaf.key, owner |-> who]
    BY <2>1 DEF LeafHold, Hold
  <2>3. kind \in Kind
    BY DEF Kind
  <2> HIDE DEF kind, loading
  <2>4. leaf.key \in Id /\ (leaf.key # NoKey => leaf.key.scope = path)
    BY <1>2, <2>1
  <2> HIDE DEF path
  <2>5. [kind |-> kind, scope |-> path, id |-> leaf.key, owner |-> who] \in HoldType
    BY <1>1, <2>3, <2>4 DEF HoldType
  <2> QED
    BY <2>2, <2>4, <2>5
<1>5. ASSUME NEW cleanup \in CleanupsOf(who, path)
      PROVE  /\ Hold("Cleanup", cleanup.scope, NoKey, cleanup.payload) \in HoldType
             /\ Hold("Cleanup", cleanup.scope, NoKey, cleanup.payload).owner = who
             /\ Hold("Cleanup", cleanup.scope, NoKey, cleanup.payload).scope = path
             /\ Hold("Cleanup", cleanup.scope, NoKey, cleanup.payload).id = NoKey
  BY <1>1, <1>2 DEF CleanupsOf, Hold, HoldType, Kind
<1> HIDE DEF path, loading
<1>6. \A i \in DOMAIN c.leaves : c.leaves[i] \in LeavesOf(who, path)
  BY <1>3
<1>7. \A i \in DOMAIN c.cleanups : c.cleanups[i] \in CleanupsOf(who, path)
  BY <1>3
<1>8. IsFiniteSet(Leaves(c))
  <2> DEFINE f == [i \in DOMAIN c.leaves |-> LeafHold(c.leaves[i])]
             D == DOMAIN c.leaves
  <2>1. IsFiniteSet(D)
    <3>1. D = 1..Len(c.leaves) /\ Len(c.leaves) \in Nat
      BY <1>3
    <3> QED
      BY <3>1, FS_Interval
  <2>2. f \in Surjection(D, Leaves(c))
    BY DEF Surjection, Leaves
  <2> HIDE DEF f, D
  <2> QED
    BY <2>1, <2>2, FS_Surjection
<1>9. IsFiniteSet(Cleanups(c))
  <2> DEFINE D == DOMAIN c.cleanups
             f == [i \in D |-> Hold("Cleanup", c.cleanups[i].scope, NoKey, c.cleanups[i].payload)]
  <2>1. IsFiniteSet(D)
    <3>1. D = 1..Len(c.cleanups) /\ Len(c.cleanups) \in Nat
      BY <1>3
    <3> QED
      BY <3>1, FS_Interval
  <2>2. f \in Surjection(D, Cleanups(c))
    BY DEF Surjection, Cleanups
  <2> HIDE DEF f, D
  <2> QED
    BY <2>1, <2>2, FS_Surjection
<1>10. \A x \in Leaves(c) : /\ x \in HoldType /\ x.owner = who /\ x.scope = path
                            /\ x.id # NoKey => x.id.scope = path
  BY <1>4, <1>6 DEF Leaves
<1>11. \A x \in Cleanups(c) : /\ x \in HoldType /\ x.owner = who /\ x.scope = path
                              /\ x.id = NoKey
  BY <1>5, <1>7 DEF Cleanups
<1> QED
  BY <1>8, <1>9, <1>10, <1>11 DEF path

(* What is dispatched: what the command leaves, and what it did not take.  *)
LEMMA DispatchIs ==
  ASSUME HeldWell, NEW c, NEW d, d = Dispatch(held, c)
  PROVE  /\ Leaves(c) \cup Cleanups(c) \subseteq d
         /\ \A x \in d : \/ x \in Leaves(c) \cup Cleanups(c)
                         \/ x \in held /\ ~ Covered(x.scope, Torn(c))
         /\ \A x \in held \ d :
              x.kind \in {"Anonymous", "Cleanup"} => Covered(x.scope, Torn(c))
<1>1. \A x : Covered(x.scope, Torn(c)) <=> \E i \in DOMAIN c.teardowns : Under(x.scope, c.teardowns[i])
  BY DEF Covered, Torn, ToSet
<1> QED
  BY <1>1 DEF Dispatch

(* A set of what is held of which the owners can be counted.               *)
LEMMA OwnersOf ==
  ASSUME NEW H, IsFiniteSet(H)
  PROVE  IsFiniteSet({x.owner : x \in H})
<1> DEFINE f == [x \in H |-> x.owner]
           R == {x.owner : x \in H}
<1>1. f \in Surjection(H, R)
  BY DEF Surjection
<1> HIDE DEF f, R
<1>2. IsFiniteSet(R)
  BY <1>1, FS_Surjection
<1> QED
  BY <1>2 DEF R

(* An update keeps the promises: the teardowns the edited state owed are   *)
(* those its command has and those its state still owes.                   *)
LEMMA UpdateKeeps ==
  ASSUME BoundaryInv, NEW e \in StateType, Ready(e, Owed(e)),
         NEW r, NEW who \in Instances(e), Reduced(e, r, who, who.place),
         ~ Covered(who.place, Owed(r.state)),
         state' = r.state, held' = Dispatch(held, r.command), Bounded(state', held'), intact' = TRUE
  PROVE  /\ BoundaryInv'
         /\ \A x \in held \ held' :
              x.kind \in {"Anonymous", "Cleanup"} => x.owner \notin Instances(state')
<1> DEFINE c == r.command
           s == r.state
           sent == Leaves(c) \cup Cleanups(c)
<1>1. HeldWell /\ Placed(e) /\ Kept(e, Owed(e)) /\ Spared(e, Owed(e))
  BY DEF BoundaryInv, Ready
<1>2. /\ s \in StateType /\ Placed(s) /\ Instances(s) = Instances(e)
      /\ c \in Carriers(who, who.place) /\ Owed(s) \cup Torn(c) = Owed(e)
  BY DEF Reduced
<1>3. who \in Child
  BY <1>1, OnePerPlace
<1>4. /\ IsFiniteSet(Leaves(c)) /\ IsFiniteSet(Cleanups(c)) /\ sent \in SUBSET HoldType
      /\ \A x \in sent : /\ x.owner = who /\ x.scope = who.place
                         /\ x.id # NoKey => x.id.scope = who.place
  BY <1>2, <1>3, SentHeld
<1>5. /\ \A x \in held' : x \in sent \/ (x \in held /\ ~ Covered(x.scope, Torn(c)))
      /\ \A x \in held \ held' :
           x.kind \in {"Anonymous", "Cleanup"} => Covered(x.scope, Torn(c))
  <2> DEFINE d == Dispatch(held, c)
  <2>1. /\ \A x \in d : x \in sent \/ (x \in held /\ ~ Covered(x.scope, Torn(c)))
        /\ \A x \in held \ d : x.kind \in {"Anonymous", "Cleanup"} => Covered(x.scope, Torn(c))
    BY <1>1, DispatchIs
  <2>2. held' = d
    OBVIOUS
  <2> HIDE DEF d
  <2> QED
    BY <2>1, <2>2
<1> HIDE DEF c, s, sent
<1>6. \A place : Covered(place, Owed(e)) <=> Covered(place, Owed(s)) \/ Covered(place, Torn(c))
  BY <1>2 DEF Covered
<1>7. /\ held \in SUBSET HoldType /\ IsFiniteSet(held)
      /\ \A x \in held : x.scope = x.owner.place /\ (x.id # NoKey => x.id.scope = x.owner.place)
  BY <1>1 DEF HeldWell
<1>8. held' \in SUBSET HoldType
      /\ \A x \in held' : x.scope = x.owner.place /\ (x.id # NoKey => x.id.scope = x.owner.place)
  BY <1>4, <1>5, <1>7
<1>9. IsFiniteSet(held')
  <2>1. IsFiniteSet(sent)
    BY <1>4, FS_Union DEF sent
  <2>2. IsFiniteSet(sent \cup held)
    BY <1>7, <2>1, FS_Union
  <2>3. held' \subseteq sent \cup held
    BY <1>5
  <2> QED
    BY <2>2, <2>3, FS_Subset
<1>10. HeldWell'
  BY <1>8, <1>9 DEF HeldWell, Bounded, Owners
<1>11. \A x \in held' : x.owner \in Instances(s) \/ Covered(x.scope, Owed(s))
  BY <1>1, <1>2, <1>4, <1>5, <1>6 DEF Kept
<1>12. \A x \in held' : x.kind # "Subscription" /\ Covered(x.scope, Owed(s)) => x.owner \notin Instances(s)
  <2> SUFFICES ASSUME NEW x \in held', x.kind # "Subscription", Covered(x.scope, Owed(s))
               PROVE  x.owner \notin Instances(s)
    OBVIOUS
  <2>1. x \notin sent
    BY <1>4 DEF s
  <2>2. x \in held /\ Covered(x.scope, Owed(e))
    BY <1>5, <1>6, <2>1
  <2> QED
    BY <1>1, <1>2, <2>2 DEF Spared
<1>13. state' = s
  BY DEF s
<1>14. BoundaryInv'
  BY <1>2, <1>10, <1>11, <1>12, <1>13 DEF BoundaryInv, Ready, Kept, Spared
<1>15. ASSUME NEW x \in held, x \notin held', x.kind \in {"Anonymous", "Cleanup"}
       PROVE  x.owner \notin Instances(state')
  <2>1. Covered(x.scope, Owed(e))
    BY <1>5, <1>6, <1>15
  <2>2. x.kind # "Subscription"
    BY <1>15
  <2> QED
    BY <1>1, <1>2, <1>13, <2>1, <2>2 DEF Spared
<1> QED
  BY <1>14, <1>15

-----------------------------------------------------------------------------
(* The messages.                                                           *)

(* What a reduction of the stack must come to.                             *)
Sound(r) ==
  \E e \in StateType : \E who \in Instances(e) :
    Ready(e, Owed(e)) /\ Reduced(e, r, who, who.place) /\ ~ Covered(who.place, Owed(r.state))

(* What the drains leave owed covers no instance that just ran.            *)
LEMMA LeftUncovered ==
  ASSUME NEW s \in StateType
  PROVE  /\ ~ Covered(Empty, Owed(s)) /\ ~ Covered(<<"header">>, Owed(s))
         /\ SlotOwed(s.modal, <<"modal">>) = {} => ~ Covered(<<"modal">>, Owed(s))
         /\ SlotOwed(s.modal, <<"modal">>) = {} /\ Journal(s) = {} =>
              \A k \in Key : /\ ~ Covered(<<k>>, Owed(s))
                             /\ RowOwed(k, s.rows[k]) = {} => ~ Covered(<<k, "dialog">>, Owed(s))
<1>1. \A p \in Owed(s) : p \in Removable
  BY OwedByRow
<1>2. ~ Covered(Empty, Owed(s)) /\ ~ Covered(<<"header">>, Owed(s))
  BY <1>1, FixedUncovered DEF Covered
<1>3. ASSUME SlotOwed(s.modal, <<"modal">>) = {} PROVE ~ Covered(<<"modal">>, Owed(s))
  <2> SUFFICES ASSUME NEW p \in Owed(s), Under(<<"modal">>, p) PROVE FALSE
    BY DEF Covered
  <2>1. <<"modal">> \in Place
    BY DEF Place
  <2>2. p \in Journal(s) \/ \E j \in Key : p \in RowOwed(j, s.rows[j])
    BY <1>3, OwedByRow
  <2>3. \E j \in Key : p = <<j>> \/ p = <<j, "dialog">>
    <3>1. CASE p \in Journal(s)
      BY <3>1 DEF Journal, StateType
    <3>2. CASE \E j \in Key : p \in RowOwed(j, s.rows[j])
      BY <3>2 DEF RowOwed, SlotOwed
    <3> QED
      BY <2>2, <3>1, <3>2
  <2>4. PICK j \in Key : p = <<j>> \/ p = <<j, "dialog">>
    BY <2>3
  <2>5. /\ Under(<<"modal">>, <<j>>) <=> <<"modal">> \in {<<j>>, <<j, "dialog">>}
        /\ Under(<<"modal">>, <<j, "dialog">>) <=> <<"modal">> = <<j, "dialog">>
    BY <2>1, Covers
  <2> QED
    BY <2>4, <2>5, PlacesDiffer
<1>4. ASSUME SlotOwed(s.modal, <<"modal">>) = {}, Journal(s) = {}, NEW k \in Key, NEW p \in Owed(s)
      PROVE  ~ Under(<<k>>, p) /\ (RowOwed(k, s.rows[k]) = {} => ~ Under(<<k, "dialog">>, p))
  <2>1. PICK j \in Key : p \in RowOwed(j, s.rows[j])
    BY <1>4, OwedByRow
  <2>2. p = <<j, "dialog">>
    BY <2>1 DEF RowOwed, SlotOwed
  <2>3. <<k>> \in Place /\ <<k, "dialog">> \in Place
    BY DEF Place
  <2>4. /\ Under(<<k>>, <<j, "dialog">>) <=> <<k>> = <<j, "dialog">>
        /\ Under(<<k, "dialog">>, <<j, "dialog">>) <=> <<k, "dialog">> = <<j, "dialog">>
    BY <2>3, Covers
  <2>5. <<k>> # <<j, "dialog">> /\ (<<k, "dialog">> = <<j, "dialog">> => k = j)
    BY PlacesDiffer
  <2> QED
    BY <2>1, <2>2, <2>4, <2>5
<1> QED
  BY <1>2, <1>3, <1>4 DEF Covered

(* The two outer drains.                                                   *)
Drained(e, b, r, who, path) ==
  /\ Reduced(e, r, who, path) /\ r.command.redraw = b.command.redraw
  /\ SlotOwed(r.state.modal, <<"modal">>) = {} /\ Journal(r.state) = {}
  /\ r.state.rows = b.state.rows

LEMMA OuterDrains ==
  ASSUME NEW e, NEW who, NEW path \in Path, NEW b, Reduced(e, b, who, path),
         NEW r, r = DrainModal(DrainRemovals(b))
  PROVE  Drained(e, b, r, who, path)
<1> DEFINE d == DrainRemovals(b)
<1>1. r = DrainModal(d) /\ d = DrainRemovals(b)
  OBVIOUS
<1> HIDE DEF d
<1>2. RemovalsDrained(e, b, d, who, path)
  BY <1>1, DrainRemovalsReduces
<1>3. Reduced(e, d, who, path)
  BY <1>2 DEF RemovalsDrained
<1>4. ModalDrained(e, d, r, who, path)
  BY <1>1, <1>3, DrainModalReduces
<1> QED
  BY <1>2, <1>4 DEF RemovalsDrained, ModalDrained, Drained

(* The edited state and the command of a reducer, before any drain.        *)
LEMMA Undrained ==
  ASSUME NEW e \in StateType, Placed(e), NEW who, NEW path, NEW c \in Carriers(who, path), Torn(c) = {},
         NEW r, r = Result(e, c)
  PROVE  Reduced(e, r, who, path) /\ r.state = e /\ r.command = c
  BY DEF Result, Reduced

(* A message for the root, or for the header.                              *)
LEMMA ReduceRoot ==
  ASSUME NEW s, NEW m, m.to = "Root", m.answer \in Answers, m.redraw = (m.answer = "Start"),
         m.edited \in StateType, Ready(m.edited, Owed(m.edited)), NEW r, r = Reduce(s, m)
  PROVE  Sound(r) /\ r.command.redraw = m.redraw
<1> DEFINE e == m.edited
           c == Answer(Root, m)
           b == Result(e, c)
<1>1. Root \in Child /\ Root.place = Empty /\ Empty \in Path
  BY FixedChildren, PlacesArePaths DEF Place
<1>2. c \in Carriers(Root, Empty) /\ Torn(c) = {} /\ c.redraw = m.redraw
  BY AnswerCarries
<1>3. r = DrainModal(DrainRemovals(b))
  BY DEF Reduce, RowsStack, RowOrHeader, HeaderStack
<1>4. e \in StateType /\ Ready(e, Owed(e)) /\ Placed(e)
  BY DEF Ready
<1> HIDE DEF c, e
<1>5. Reduced(e, b, Root, Empty) /\ b.command = c
  BY <1>2, <1>4, Undrained
<1> HIDE DEF b
<1>6. Reduced(e, r, Root, Empty) /\ r.command.redraw = c.redraw
  <2>1. Drained(e, b, r, Root, Empty)
    BY <1>1, <1>3, <1>5, OuterDrains
  <2> QED
    BY <1>5, <2>1 DEF Drained
<1>7. ~ Covered(Empty, Owed(r.state))
  BY <1>6, LeftUncovered DEF Reduced
<1>8. Root \in Instances(e)
  BY <1>4, ChildrenAre
<1> QED
  BY <1>1, <1>2, <1>4, <1>6, <1>7, <1>8 DEF Sound

LEMMA ReduceHeader ==
  ASSUME NEW s \in StateType, Ready(s, Owed(s)),
         NEW m, m.to = "Header", m.answer \in Answers, m.redraw = (m.answer = "Start"),
         NEW r, r = Reduce(s, m)
  PROVE  Sound(r) /\ r.command.redraw = m.redraw
<1> DEFINE own == Answer(Header, m)
           c == Scoped(own, "header")
           b == Result(s, c)
<1>1. Header.place = <<"header">> /\ Empty \in Path /\ <<"header">> \in Path /\ "header" \in Segment
  BY FixedChildren, PlacesArePaths DEF Place, Segment
<1>2. own \in Carriers(Header, Empty) /\ Torn(own) = {} /\ own.redraw = m.redraw
  BY AnswerCarries
<1>3. r = DrainModal(DrainRemovals(b))
  BY DEF Reduce, RowsStack, RowOrHeader, HeaderStack
<1> HIDE DEF own
<1>4. c \in Carriers(Header, Prefixed("header", Empty)) /\ Torn(c) = {} /\ c.redraw = own.redraw
  BY <1>1, <1>2, ScopedCarries
<1>5. Prefixed("header", Empty) = <<"header">>
  BY <1>1, PrefixedIs
<1>6. Placed(s)
  BY DEF Ready
<1> HIDE DEF c
<1>7. Reduced(s, b, Header, <<"header">>) /\ b.command = c
  BY <1>4, <1>5, <1>6, Undrained
<1> HIDE DEF b
<1>8. Reduced(s, r, Header, <<"header">>) /\ r.command.redraw = c.redraw
  <2>1. Drained(s, b, r, Header, <<"header">>)
    BY <1>1, <1>3, <1>7, OuterDrains
  <2> QED
    BY <1>7, <2>1 DEF Drained
<1>9. ~ Covered(<<"header">>, Owed(r.state))
  BY <1>8, LeftUncovered DEF Reduced
<1>10. Header \in Instances(s)
  BY ChildrenAre
<1> QED
  BY <1>1, <1>2, <1>4, <1>8, <1>9, <1>10 DEF Sound

(* A message for a row that is not there.                                  *)
NoRow(s, m) == m.to \in {"Pane", "Dialog"} /\ s.rows[m.key] = Nobody

LEMMA ReduceNoRow ==
  ASSUME NEW s \in StateType, Ready(s, Owed(s)), NEW m, NoRow(s, m),
         NEW r, r = Reduce(s, m)
  PROVE  Sound(r) /\ r.command.redraw = TRUE
<1> DEFINE b == Result(s, None)
<1>1. Root.place = Empty /\ Empty \in Path
  BY FixedChildren, PlacesArePaths DEF Place
<1>2. None \in Carriers(Root, Empty) /\ Torn(None) = {} /\ None.redraw = TRUE
  BY NoneCarries
<1>3. r = DrainModal(DrainRemovals(b))
  BY DEF NoRow, Reduce, RowsStack, RowOrHeader
<1>4. Placed(s)
  BY DEF Ready
<1>5. Reduced(s, b, Root, Empty) /\ b.command = None
  BY <1>2, <1>4, Undrained
<1> HIDE DEF b
<1>6. Reduced(s, r, Root, Empty) /\ r.command.redraw = TRUE
  <2>1. Drained(s, b, r, Root, Empty)
    BY <1>1, <1>3, <1>5, OuterDrains
  <2> QED
    BY <1>2, <1>5, <2>1 DEF Drained
<1>7. ~ Covered(Empty, Owed(r.state))
  BY <1>6, LeftUncovered DEF Reduced
<1>8. Root \in Instances(s)
  BY ChildrenAre
<1> QED
  BY <1>1, <1>6, <1>7, <1>8 DEF Sound

(* A message for a row that is there, or for its dialog.                   *)
LEMMA ReduceRow ==
  ASSUME NEW e \in StateType, Ready(e, Owed(e)), NEW k \in Key, e.rows[k] # Nobody,
         NEW who \in Instances(e), NEW path \in Path, Prefixed(k, path) = who.place,
         who.place \in {<<k>>, <<k, "dialog">>},
         NEW c \in Carriers(who, path), Torn(c) = {},
         NEW i, i = DrainDialog(Result(e, c), k),
         NEW r, r = DrainModal(DrainRemovals(Result(i.state, Scoped(i.command, k))))
  PROVE  Sound(r) /\ r.command.redraw = c.redraw
<1> DEFINE b == Result(i.state, Scoped(i.command, k))
<1>1. Placed(e) /\ who.place \in Path
  <2>1. Placed(e)
    BY DEF Ready
  <2> QED
    BY <2>1, OnePerPlace, PlacesArePaths DEF Child
<1>2. b = Result(i.state, Scoped(i.command, k)) /\ r = DrainModal(DrainRemovals(b))
  OBVIOUS
<1> HIDE DEF b
<1>3. Reduced(e, b, who, who.place) /\ RowOwed(k, b.state.rows[k]) = {} /\ b.command.redraw = c.redraw
  <2>1. DialogDrains(e, k, c, b, who, path)
    BY <1>1, <1>2, DrainDialogReduces
  <2> QED
    BY <2>1 DEF DialogDrains
<1>4. /\ Reduced(e, r, who, who.place) /\ r.command.redraw = c.redraw
      /\ SlotOwed(r.state.modal, <<"modal">>) = {} /\ Journal(r.state) = {}
      /\ r.state.rows = b.state.rows
  <2>1. Drained(e, b, r, who, who.place)
    BY <1>1, <1>2, <1>3, OuterDrains
  <2> QED
    BY <1>3, <2>1 DEF Drained
<1>5. r.state \in StateType
  BY <1>4 DEF Reduced
<1>6. ~ Covered(who.place, Owed(r.state))
  BY <1>3, <1>4, <1>5, LeftUncovered
<1> QED
  BY <1>4, <1>6 DEF Sound

LEMMA ReducePane ==
  ASSUME NEW s, NEW m, m.to = "Pane", m.key \in Key, m.answer \in Answers,
         m.redraw = (m.answer = "Start"), s.rows[m.key] # Nobody,
         m.edited \in StateType, Ready(m.edited, Owed(m.edited)),
         m.edited.rows[m.key] # Nobody, m.edited.rows[m.key].who = s.rows[m.key].who,
         NEW r, r = Reduce(s, m)
  PROVE  Sound(r) /\ r.command.redraw = m.redraw
<1> DEFINE e == m.edited
           k == m.key
           who == s.rows[k].who
           c == Answer(who, m)
           i == DrainDialog(Result(e, c), k)
<1>1. c \in Carriers(who, Empty) /\ Torn(c) = {} /\ c.redraw = m.redraw
  BY AnswerCarries
<1>2. r = DrainModal(DrainRemovals(Result(i.state, Scoped(i.command, k))))
  BY DEF Reduce, RowsStack, RowOrHeader, PaneStack, PaneOrDialog, Result
<1>3. i = DrainDialog(Result(e, c), k)
  OBVIOUS
<1>4. /\ e \in StateType /\ Ready(e, Owed(e)) /\ Placed(e) /\ k \in Key /\ e.rows[k] # Nobody
      /\ who = e.rows[k].who
  BY DEF Ready
<1> HIDE DEF c, e, i, k, who
<1>5. who.place = <<k>> /\ who \in Instances(e) /\ who.place \in {<<k>>, <<k, "dialog">>}
  BY <1>4, RowAt, ChildrenAre DEF Rows
<1>6. Prefixed(k, Empty) = who.place /\ Empty \in Path
  BY <1>4, <1>5, PrefixedIs, PlacesArePaths DEF Place, Segment
<1>7. Sound(r) /\ r.command.redraw = c.redraw
  BY <1>1, <1>2, <1>3, <1>4, <1>5, <1>6, ReduceRow
<1> QED
  BY <1>1, <1>7

LEMMA ReduceDialog ==
  ASSUME NEW s \in StateType, Ready(s, Owed(s)),
         NEW m, m.to = "Dialog", m.key \in Key, m.answer \in Answers,
         m.redraw = (m.answer = "Start"), s.rows[m.key] # Nobody,
         NEW r, r = Reduce(s, m)
  PROVE  /\ Sound(r)
         /\ r.command.redraw = (IF s.rows[m.key].dialog.value = Nobody THEN TRUE ELSE m.redraw)
<1> DEFINE k == m.key
           row == s.rows[k].who
           who == s.rows[k].dialog.value
           own == Answer(who, m)
           c == IF who = Nobody THEN None ELSE Scoped(own, "dialog")
           i == DrainDialog(Result(s, c), k)
<1>1. own \in Carriers(who, Empty) /\ Torn(own) = {} /\ own.redraw = m.redraw
  BY AnswerCarries
<1>2. r = DrainModal(DrainRemovals(Result(i.state, Scoped(i.command, k))))
  BY DEF Reduce, RowsStack, RowOrHeader, PaneStack, PaneOrDialog, ToOccupant, Result
<1>3. i = DrainDialog(Result(s, c), k)
  OBVIOUS
<1>4. Placed(s) /\ k \in Key /\ k \in Segment /\ "dialog" \in Segment /\ Empty \in Path
      /\ <<"dialog">> \in Path
  BY PlacesArePaths DEF Ready, Segment, Place, Path
<1>5. /\ row.place = <<k>> /\ row \in Instances(s)
      /\ who # Nobody => who.place = <<k, "dialog">> /\ who \in Instances(s)
  BY <1>4, RowAt, ChildrenAre DEF Rows
<1>6. /\ Prefixed(k, Empty) = <<k>> /\ Prefixed(k, <<"dialog">>) = <<k, "dialog">>
      /\ Prefixed("dialog", Empty) = <<"dialog">>
  BY <1>4, PrefixedIs
<1>7. CASE who = Nobody
  <2>1. c = None
    BY <1>7
  <2>2. c \in Carriers(row, Empty) /\ Torn(c) = {} /\ c.redraw = TRUE
    BY <2>1, NoneCarries
  <2> HIDE DEF c, i, k, row
  <2>3. s.rows[k] # Nobody
    BY DEF k
  <2>4. Prefixed(k, Empty) = row.place /\ row.place \in {<<k>>, <<k, "dialog">>}
    BY <1>5, <1>6
  <2>5. Sound(r) /\ r.command.redraw = c.redraw
    BY <1>2, <1>3, <1>4, <1>5, <2>2, <2>3, <2>4, ReduceRow
  <2> QED
    BY <1>7, <2>2, <2>5 DEF k
<1>8. CASE who # Nobody
  <2>1. c = Scoped(own, "dialog")
    BY <1>8
  <2> HIDE DEF c, i, own
  <2>2. c \in Carriers(who, Prefixed("dialog", Empty)) /\ Torn(c) = {} /\ c.redraw = own.redraw
    BY <1>1, <1>4, <2>1, ScopedCarries
  <2>3. c \in Carriers(who, <<"dialog">>)
    BY <1>6, <2>2
  <2> HIDE DEF k, who, row
  <2>4. s.rows[k] # Nobody
    BY DEF k
  <2>5. Prefixed(k, <<"dialog">>) = who.place /\ who.place \in {<<k>>, <<k, "dialog">>}
    BY <1>5, <1>6, <1>8
  <2>6. Sound(r) /\ r.command.redraw = c.redraw
    BY <1>2, <1>3, <1>4, <1>5, <1>8, <2>2, <2>3, <2>4, <2>5, ReduceRow
  <2> QED
    BY <1>1, <1>8, <2>2, <2>6 DEF k, who
<1> QED
  BY <1>7, <1>8

(* A message for the modal.                                                *)
LEMMA ReduceModal ==
  ASSUME NEW s \in StateType, Ready(s, Owed(s)),
         NEW m, m.to = "Modal", m.answer \in Answers, m.redraw = (m.answer = "Start"),
         NEW r, r = Reduce(s, m)
  PROVE  /\ Sound(r)
         /\ r.command.redraw = (IF s.modal.value = Nobody THEN TRUE ELSE m.redraw)
<1> DEFINE who == s.modal.value
           own == Answer(who, m)
           c == IF who = Nobody THEN None ELSE Scoped(own, "modal")
           b == Result(s, c)
<1>1. own \in Carriers(who, Empty) /\ Torn(own) = {} /\ own.redraw = m.redraw
  BY AnswerCarries
<1>2. r = DrainModal(b) /\ b = Result(s, c)
  BY DEF Reduce, ToOccupant
<1>3. Placed(s) /\ "modal" \in Segment /\ Empty \in Path /\ <<"modal">> \in Path /\ Root.place = Empty
  BY PlacesArePaths, FixedChildren DEF Ready, Segment, Place, Path
<1>4. who # Nobody => who.place = <<"modal">> /\ who \in Instances(s)
  BY <1>3, ChildrenAre DEF Placed
<1>5. Root \in Instances(s)
  BY ChildrenAre
<1>6. CASE who = Nobody
  <2>1. c = None
    BY <1>6
  <2>2. c \in Carriers(Root, Empty) /\ Torn(c) = {} /\ c.redraw = TRUE
    BY <2>1, NoneCarries
  <2> HIDE DEF b, c
  <2>3. Reduced(s, b, Root, Empty) /\ b.command = c
    BY <1>2, <1>3, <2>2, Undrained
  <2>4. ModalDrained(s, b, r, Root, Empty)
    BY <1>2, <1>3, <2>3, DrainModalReduces
  <2>5. Reduced(s, r, Root, Root.place) /\ r.command.redraw = TRUE
    BY <1>3, <2>2, <2>3, <2>4 DEF ModalDrained
  <2>6. ~ Covered(Root.place, Owed(r.state))
    BY <1>3, <2>5, LeftUncovered DEF Reduced
  <2> QED
    BY <1>5, <1>6, <2>5, <2>6 DEF Sound
<1>7. CASE who # Nobody
  <2>1. c = Scoped(own, "modal")
    BY <1>7
  <2> HIDE DEF b, c, own
  <2>2. c \in Carriers(who, Prefixed("modal", Empty)) /\ Torn(c) = {} /\ c.redraw = own.redraw
    BY <1>1, <1>3, <2>1, ScopedCarries
  <2>3. Prefixed("modal", Empty) = <<"modal">>
    BY <1>3, PrefixedIs
  <2> HIDE DEF who
  <2>4. Reduced(s, b, who, <<"modal">>) /\ b.command = c
    BY <1>2, <1>3, <2>2, <2>3, Undrained
  <2>5. ModalDrained(s, b, r, who, <<"modal">>)
    BY <1>2, <1>3, <2>4, DrainModalReduces
  <2>6. /\ Reduced(s, r, who, who.place) /\ r.command.redraw = m.redraw
        /\ SlotOwed(r.state.modal, <<"modal">>) = {}
    BY <1>1, <1>4, <1>7, <2>2, <2>4, <2>5 DEF ModalDrained
  <2>7. ~ Covered(who.place, Owed(r.state))
    BY <1>4, <1>7, <2>6, LeftUncovered DEF Reduced
  <2>8. Sound(r)
    BY <1>4, <1>7, <2>6, <2>7 DEF Sound
  <2> QED
    BY <1>7, <2>6, <2>8 DEF who
<1> QED
  BY <1>6, <1>7

-----------------------------------------------------------------------------
(* The steps.                                                              *)

(* No anonymous effect and no hook of an instance that stays goes.         *)
StepSpares ==
  \A x \in held \ held' : x.kind \in {"Anonymous", "Cleanup"} => x.owner \notin Instances(state')

LEMMA UpdateSound ==
  ASSUME BoundaryInv, NEW m, NEW discarded, Update(m, discarded), Sound(Reduce(state, m)),
         Reduce(state, m).command.redraw = (discarded \/ m.redraw)
  PROVE  BoundaryInv' /\ StepSpares
<1> DEFINE q == Reduce(state, m)
<1>1. PICK r : r = q
  OBVIOUS
<1>2. /\ state' = r.state /\ held' = Dispatch(held, r.command) /\ Bounded(state', held')
      /\ intact' = (r.command.redraw = (discarded \/ m.redraw))
  BY <1>1 DEF Update
<1>3. intact' = TRUE
  BY <1>1, <1>2
<1>4. PICK e \in StateType : \E who \in Instances(e) :
        Ready(e, Owed(e)) /\ Reduced(e, r, who, who.place) /\ ~ Covered(who.place, Owed(r.state))
  BY <1>1 DEF Sound
<1>5. PICK who \in Instances(e) :
        Ready(e, Owed(e)) /\ Reduced(e, r, who, who.place) /\ ~ Covered(who.place, Owed(r.state))
  BY <1>4
<1> HIDE DEF q
<1> QED
  BY <1>2, <1>3, <1>5, UpdateKeeps DEF StepSpares

(* A message is what it says.                                              *)
LEMMA MessageIs ==
  ASSUME NEW to, NEW k, NEW edited, NEW answer, NEW m, m = Message(to, k, edited, answer)
  PROVE  /\ m.to = to /\ m.key = k /\ m.edited = edited /\ m.answer = answer
         /\ m.redraw = (answer = "Start") /\ m.redraw \in BOOLEAN
  BY DEF Message

LEMMA ToRootSound == ASSUME BoundaryInv, ToRoot PROVE BoundaryInv' /\ StepSpares
<1>1. PICK s \in RootEdits(state) : Update(Message("Root", Nobody, s, "Quiet"), FALSE)
  BY DEF ToRoot
<1>2. PICK m : m = Message("Root", Nobody, s, "Quiet")
  OBVIOUS
<1>3. s \in StateType /\ Ready(s, Owed(s))
  BY RootEditsKeep DEF BoundaryInv, Ready
<1>4. /\ m.to = "Root" /\ m.edited = s /\ m.answer = "Quiet"
      /\ m.redraw = (m.answer = "Start") /\ m.redraw \in BOOLEAN
  BY <1>2, MessageIs
<1>5. Sound(Reduce(state, m)) /\ Reduce(state, m).command.redraw = m.redraw
  BY <1>3, <1>4, ReduceRoot DEF Answers
<1> QED
  BY <1>1, <1>2, <1>4, <1>5, UpdateSound

LEMMA ToHeaderSound == ASSUME BoundaryInv, ToHeader PROVE BoundaryInv' /\ StepSpares
<1>1. PICK answer \in Answers : Update(Message("Header", Nobody, state, answer), FALSE)
  BY DEF ToHeader
<1>2. PICK m : m = Message("Header", Nobody, state, answer)
  OBVIOUS
<1>3. state \in StateType /\ Ready(state, Owed(state))
  BY DEF BoundaryInv, Ready
<1>4. /\ m.to = "Header" /\ m.answer \in Answers
      /\ m.redraw = (m.answer = "Start") /\ m.redraw \in BOOLEAN
  BY <1>2, MessageIs
<1>5. Sound(Reduce(state, m)) /\ Reduce(state, m).command.redraw = m.redraw
  BY <1>3, <1>4, ReduceHeader
<1> QED
  BY <1>1, <1>2, <1>4, <1>5, UpdateSound

LEMMA ToPaneSound ==
  ASSUME BoundaryInv, NEW k \in Key, ToPane(k)
  PROVE  BoundaryInv' /\ StepSpares
<1>1. PICK s \in PaneEdits(state, k), answer \in Answers :
        Update(Message("Pane", k, s, answer), k \notin Rows(state))
  BY DEF ToPane
<1>2. PICK m : m = Message("Pane", k, s, answer)
  OBVIOUS
<1>3. HeldWell /\ state \in StateType /\ Ready(state, Owed(state))
  BY DEF BoundaryInv, Ready
<1>4. /\ m.to = "Pane" /\ m.key = k /\ m.edited = s /\ m.answer \in Answers
      /\ m.redraw = (m.answer = "Start") /\ m.redraw \in BOOLEAN
  BY <1>2, MessageIs
<1>5. CASE state.rows[k] = Nobody
  <2>0. NoRow(state, m)
    BY <1>4, <1>5 DEF NoRow
  <2>1. Sound(Reduce(state, m)) /\ Reduce(state, m).command.redraw = TRUE
    BY <1>3, <2>0, ReduceNoRow
  <2>2. k \notin Rows(state)
    BY <1>5 DEF Rows
  <2> QED
    BY <1>1, <1>2, <2>1, <2>2, UpdateSound
<1>6. CASE state.rows[k] # Nobody
  <2>1. /\ s \in StateType /\ Ready(s, Owed(s)) /\ s.rows[k] # Nobody
        /\ s.rows[k].who = state.rows[k].who
    BY <1>3, <1>6, PaneEditsKeep
  <2>2. Sound(Reduce(state, m)) /\ Reduce(state, m).command.redraw = m.redraw
    BY <1>4, <1>6, <2>1, ReducePane
  <2>3. k \in Rows(state)
    BY <1>6 DEF Rows
  <2> QED
    BY <1>1, <1>2, <1>4, <2>2, <2>3, UpdateSound
<1> QED
  BY <1>5, <1>6

LEMMA ToDialogSound ==
  ASSUME BoundaryInv, NEW k \in Key, ToDialog(k)
  PROVE  BoundaryInv' /\ StepSpares
<1> DEFINE discarded == k \notin Rows(state) \/ state.rows[k].dialog.value = Nobody
<1>1. PICK answer \in Answers : Update(Message("Dialog", k, state, answer), discarded)
  BY DEF ToDialog
<1>2. PICK m : m = Message("Dialog", k, state, answer)
  OBVIOUS
<1>3. state \in StateType /\ Ready(state, Owed(state))
  BY DEF BoundaryInv, Ready
<1>4. /\ m.to = "Dialog" /\ m.key = k /\ m.answer \in Answers
      /\ m.redraw = (m.answer = "Start") /\ m.redraw \in BOOLEAN
  BY <1>2, MessageIs
<1>5. Sound(Reduce(state, m)) /\ Reduce(state, m).command.redraw = (discarded \/ m.redraw)
  <2>1. CASE state.rows[k] = Nobody
    <3>0. NoRow(state, m)
      BY <1>4, <2>1 DEF NoRow
    <3>1. Sound(Reduce(state, m)) /\ Reduce(state, m).command.redraw = TRUE
      BY <1>3, <3>0, ReduceNoRow
    <3> QED
      BY <2>1, <3>1 DEF Rows
  <2>2. CASE state.rows[k] # Nobody
    <3>1. /\ Sound(Reduce(state, m))
          /\ Reduce(state, m).command.redraw =
               (IF state.rows[k].dialog.value = Nobody THEN TRUE ELSE m.redraw)
      BY <1>3, <1>4, <2>2, ReduceDialog
    <3> QED
      BY <1>4, <2>2, <3>1 DEF Rows
  <2> QED
    BY <2>1, <2>2
<1> HIDE DEF discarded
<1> QED
  BY <1>1, <1>2, <1>5, UpdateSound

LEMMA ToModalSound == ASSUME BoundaryInv, ToModal PROVE BoundaryInv' /\ StepSpares
<1> DEFINE discarded == state.modal.value = Nobody
<1>1. PICK answer \in Answers : Update(Message("Modal", Nobody, state, answer), discarded)
  BY DEF ToModal
<1>2. PICK m : m = Message("Modal", Nobody, state, answer)
  OBVIOUS
<1>3. state \in StateType /\ Ready(state, Owed(state))
  BY DEF BoundaryInv, Ready
<1>4. /\ m.to = "Modal" /\ m.answer \in Answers
      /\ m.redraw = (m.answer = "Start") /\ m.redraw \in BOOLEAN
  BY <1>2, MessageIs
<1>5. Sound(Reduce(state, m)) /\ Reduce(state, m).command.redraw = (discarded \/ m.redraw)
  <2>1. /\ Sound(Reduce(state, m))
        /\ Reduce(state, m).command.redraw =
             (IF state.modal.value = Nobody THEN TRUE ELSE m.redraw)
    BY <1>3, <1>4, ReduceModal
  <2> QED
    BY <1>4, <2>1
<1> HIDE DEF discarded
<1> QED
  BY <1>1, <1>2, <1>5, UpdateSound

(* Fewer things held owe no more.                                          *)
LEMMA StopSound ==
  ASSUME BoundaryInv, StopSubscriptions
  PROVE  BoundaryInv' /\ StepSpares
<1>1. /\ held' \subseteq held /\ \A x \in held \ held' : x.kind = "Subscription"
      /\ state' = state /\ intact' = intact
  BY DEF StopSubscriptions, Undeclared
<1>2. /\ held \in SUBSET HoldType /\ IsFiniteSet(held)
      /\ \A x \in held : x.scope = x.owner.place /\ (x.id # NoKey => x.id.scope = x.owner.place)
      /\ Cardinality(Owners) <= MaxHolders
  BY DEF BoundaryInv, HeldWell
<1>3. IsFiniteSet(held')
  BY <1>1, <1>2, FS_Subset
<1>4. Cardinality(Owners') <= MaxHolders
  <2> DEFINE R == {x.owner : x \in held'}
  <2>1. R \subseteq Owners
    BY <1>1 DEF Owners
  <2>2. IsFiniteSet(Owners)
    BY <1>2, OwnersFinite
  <2>3. Owners' = R
    BY DEF Owners
  <2> HIDE DEF R
  <2>4. IsFiniteSet(R) /\ Cardinality(R) <= Cardinality(Owners)
    BY <2>1, <2>2, FS_Subset
  <2>5. Cardinality(R) \in Nat /\ Cardinality(Owners) \in Nat /\ MaxHolders \in Nat
    BY <2>2, <2>4, FS_CardinalityType, BoundariesAssumption
  <2> QED
    BY <1>2, <2>3, <2>4, <2>5
<1>5. HeldWell'
  BY <1>1, <1>2, <1>3, <1>4 DEF HeldWell
<1>6. Ready(state, Owed(state))'
  BY <1>1 DEF BoundaryInv, Ready, Kept, Spared
<1> QED
  BY <1>1, <1>5, <1>6 DEF BoundaryInv, StepSpares

LEMMA AdmitSound == ASSUME BoundaryInv, Admit PROVE BoundaryInv' /\ StepSpares
<1>0. state \in StateType /\ Placed(state) /\ Kept(state, Owed(state)) /\ Spared(state, Owed(state))
  BY DEF BoundaryInv, Ready
<1>1. PICK who \in Instances(state) :
        /\ held' = held \cup {Hold("Subscription", who.place, NoKey, who)}
        /\ state' = state /\ intact' = intact /\ Bounded(state, held')
  BY DEF Admit
<1> DEFINE h == Hold("Subscription", who.place, NoKey, who)
<1>2. who \in Child /\ who.place \in Place
  BY <1>0, OnePerPlace DEF Child
<1>3. /\ h \in HoldType /\ h.kind = "Subscription" /\ h.scope = who.place /\ h.id = NoKey
      /\ h.owner = who
  <2>1. NoKey \in Id
    BY PlacesArePaths DEF NoKey, Id, Place
  <2> QED
    BY <1>2, <2>1 DEF Hold, HoldType, Kind
<1> HIDE DEF h
<1>4. held' = held \cup {h}
  BY <1>1 DEF h
<1>5. /\ held \in SUBSET HoldType /\ IsFiniteSet(held)
      /\ \A x \in held : x.scope = x.owner.place /\ (x.id # NoKey => x.id.scope = x.owner.place)
  BY DEF BoundaryInv, HeldWell
<1>6. IsFiniteSet(held')
  BY <1>4, <1>5, FS_AddElement
<1>7. Cardinality(Owners') <= MaxHolders
  BY <1>1 DEF Bounded, Owners
<1>8. HeldWell'
  BY <1>3, <1>4, <1>5, <1>6, <1>7 DEF HeldWell
<1>9. Kept(state, Owed(state))' /\ Spared(state, Owed(state))'
  BY <1>0, <1>1, <1>3, <1>4 DEF Kept, Spared
<1> QED
  BY <1>0, <1>1, <1>4, <1>8, <1>9 DEF BoundaryInv, Ready, StepSpares

LEMMA BoundaryInit == Init => BoundaryInv
<1> SUFFICES ASSUME Init PROVE BoundaryInv
  OBVIOUS
<1>1. held = {} /\ intact = TRUE
  BY DEF Init
<1>2. HeldWell
  <2>1. Owners = {}
    BY <1>1 DEF Owners
  <2> QED
    BY <1>1, <2>1, FS_EmptySet, BoundariesAssumption DEF HeldWell
<1>3. NewState \in StateType
  <2>1. EmptySlot \in Slot
    BY DEF EmptySlot, Slot
  <2>2. <<>> \in Seq(Key)
    OBVIOUS
  <2> QED
    BY <2>1, <2>2 DEF NewState, StateType
<1>4. Placed(NewState)
  <2>1. /\ \A k \in Key : NewState.rows[k] = Nobody
        /\ NewState.modal.value = Nobody
    BY DEF NewState, EmptySlot
  <2> QED
    BY <2>1 DEF Placed, Rows
<1>5. Ready(NewState, Owed(NewState))
  BY <1>1, <1>3, <1>4 DEF Ready, Kept, Spared
<1>6. state = NewState \/ state \in RootEdits(NewState)
  BY DEF Init
<1>7. Ready(state, Owed(state))
  BY <1>2, <1>3, <1>5, <1>6, RootEditsKeep
<1> QED
  BY <1>1, <1>2, <1>7 DEF BoundaryInv

LEMMA BoundaryStep == BoundaryInv /\ [Next]_vars => BoundaryInv' /\ (StepSpares \/ UNCHANGED vars)
<1> SUFFICES ASSUME BoundaryInv, [Next]_vars
             PROVE  BoundaryInv' /\ (StepSpares \/ UNCHANGED vars)
  OBVIOUS
<1>1. CASE UNCHANGED vars
  BY <1>1 DEF vars, BoundaryInv, HeldWell, Owners, Ready, Kept, Spared
<1>2. CASE Next
  BY <1>2, ToRootSound, ToHeaderSound, ToModalSound, StopSound, AdmitSound, ToPaneSound,
     ToDialogSound DEF Next
<1> QED
  BY <1>1, <1>2

-----------------------------------------------------------------------------
(* What a dispatch may stop, and what it must, in every state.             *)
THEOREM BoundaryInvariance == Spec => []BoundaryInv
<1>1. BoundaryInv /\ [Next]_vars => BoundaryInv'
  BY BoundaryStep
<1> QED
  BY BoundaryInit, <1>1, PTL DEF Spec

(* INV-RC3, for any number of rows and any edits: what is held belongs to  *)
(* an instance that is there, or a boundary owes its teardown.             *)
THEOREM NothingOrphaned == Spec => []NoOrphan
<1>1. BoundaryInv => NoOrphan
  BY DEF BoundaryInv, Ready, Kept, Covered, NoOrphan
<1> QED
  BY BoundaryInvariance, <1>1, PTL

(* INV-RC2: every boundary qualifies by its own segment, once.             *)
THEOREM QualifiedOnce == Spec => []BoundariesOnlyQualify
<1>1. BoundaryInv => BoundariesOnlyQualify
  BY DEF BoundaryInv, HeldWell, BoundariesOnlyQualify
<1> QED
  BY BoundaryInvariance, <1>1, PTL

(* A late teardown takes no effect and no hook of an instance that stays:  *)
(* the paths torn down are paths that were owed, and Spared holds of them. *)
THEOREM SuccessorsSpared == Spec => SuccessorSpared
<1>1. BoundaryInv /\ [Next]_vars => StepSpares \/ UNCHANGED vars
  BY BoundaryStep
<1>2. StepSpares => \A x \in held \ held' :
                      x.kind \in {"Anonymous", "Cleanup"} => x.owner \notin Instances(state')
  BY DEF StepSpares
<1> QED
  BY BoundaryInvariance, <1>1, <1>2, PTL DEF Spec, SuccessorSpared
=============================================================================
