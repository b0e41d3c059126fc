----------------------------- MODULE QueryProofs -----------------------------
(***************************************************************************)
(* Single-flight of a query cell, for any streams, any number of           *)
(* invalidations and either runtime.                                       *)
(*                                                                         *)
(* SingleFlight is not inductive: eviction replaces the slot, so one must  *)
(* know that no stream is left when subscribers is zero, which the count   *)
(* in TypeOK says, and that a stream that is sending a snapshot goes on to *)
(* live, which Sending says.                                               *)
(***************************************************************************)
EXTENDS QueryProperties, FiniteSetTheorems, TLAPS

(* TypeOK in parts, without the count of subscribers.                      *)
CellTypes ==
  /\ current \in Gen
  /\ dataGen \in Gen \cup {NoGen}
  /\ aged \in BOOLEAN
  /\ status \in Status
  /\ fetching \in BOOLEAN
  /\ inFlight \in Gen \cup {NoGen}
  /\ errorGen \in Gen \cup {NoGen}

PlaceTypes ==
  /\ pc \in [Stream -> Points]
  /\ after \in [Stream -> Points]
  /\ target \in [Stream -> Gen \cup {NoGen}]
  /\ starts \in 0..MaxStarts
  /\ inactive \in BOOLEAN
  /\ invalidator \in {"Idle", "Number", "Notify"}

FlavourType == parallel \in Flavours

VersionTypes ==
  /\ unseen \in [Stream -> BOOLEAN]
  /\ passed \in [Stream -> BOOLEAN]
  /\ notice \in [Stream -> BOOLEAN]

EmittedType == emitted \in [Stream -> Snapshots]

Types == CellTypes /\ PlaceTypes /\ VersionTypes /\ EmittedType

LiveStreams == {s \in Stream : pc[s] # "Off"}

Counted == subscribers = Cardinality(LiveStreams)

(* A fetch has a generation.                                               *)
Targeted == \A s \in Stream : Fetcher(s) => target[s] # NoGen

Sending ==
  \A s \in Stream :
    pc[s] \in {"Number", "Notify"} => after[s] \in {"Fetching", "Watching", "Recheck"}

QueryInv == Types /\ Counted /\ SingleFlight /\ Targeted /\ Sending

(* TypeOK is its parts.                                                    *)
LEMMA TypeOKSplit == TypeOK <=> Types /\ Counted /\ FlavourType
  BY DEF TypeOK, FlavourType, Types, CellTypes, PlaceTypes, VersionTypes, EmittedType, Counted,
         LiveStreams, Live

(* The live streams can be counted.                                        *)
LEMMA LiveFinite == IsFiniteSet(LiveStreams) /\ Cardinality(LiveStreams) \in Nat
<1>1. LiveStreams \subseteq Stream
  BY DEF LiveStreams
<1>2. IsFiniteSet(LiveStreams)
  BY <1>1, QueryAssumption, FS_Subset
<1> QED
  BY <1>2, FS_CardinalityType

(* The count stands while each stream stays on or off.                     *)
LEMMA SameLive ==
  ASSUME Counted, subscribers' = subscribers,
         \A s \in Stream : (pc'[s] = "Off") <=> (pc[s] = "Off")
  PROVE  Counted'
<1>1. LiveStreams' = LiveStreams
  BY DEF LiveStreams
<1> QED
  BY <1>1 DEF Counted

(* The observed snapshot is one.                                           *)
LEMMA SnapshotType == CellTypes => Snapshot \in Snapshots
  BY DEF CellTypes, Snapshot, Snapshots, Gen, NoGen

(* And so is the one after a step.                                         *)
LEMMA SnapshotTypeNext == ASSUME CellTypes' PROVE Snapshot' \in Snapshots
  BY DEF CellTypes, Snapshot, Snapshots, Gen, NoGen

(* Init establishes the invariant.                                         *)
LEMMA InitInv == Init => QueryInv
<1> SUFFICES ASSUME Init PROVE QueryInv
  OBVIOUS
<1>1. CellTypes
  <2>1. 0 \in Gen
    BY QueryAssumption DEF Gen
  <2> QED
    BY <2>1 DEF Init, CellTypes, Status
<1>2. PlaceTypes
  <2>1. 0 \in 0..MaxStarts
    BY QueryAssumption
  <2>2. "Off" \in Points
    BY DEF Points
  <2> QED
    BY <2>1, <2>2 DEF Init, PlaceTypes
<1>3. VersionTypes
  BY DEF Init, VersionTypes
<1>4. EmittedType
  <2>1. NewSnapshot \in Snapshots
    BY DEF NewSnapshot, Snapshots, Status
  <2> QED
    BY <2>1 DEF Init, EmittedType
<1>5. Counted
  <2>1. LiveStreams = {}
    BY DEF Init, LiveStreams
  <2> QED
    BY <2>1, FS_EmptySet DEF Init, Counted
<1>6. SingleFlight /\ Targeted /\ Sending
  BY DEF Init, SingleFlight, Targeted, Sending, Fetcher
<1> QED
  BY <1>1, <1>2, <1>3, <1>4, <1>5, <1>6 DEF QueryInv, Types

(* Steps that leave each stream on or off as it was, and the slot and the  *)
(* fetchers alone.                                                         *)
LEMMA QuietFetch ==
  ASSUME SingleFlight, Targeted,
         inFlight' = inFlight, target' = target,
         \A s \in Stream : Fetcher(s)' => Fetcher(s)
  PROVE  SingleFlight' /\ Targeted'
  BY DEF SingleFlight, Targeted

(* Advance keeps the version comparisons typed.                            *)
LEMMA AdvanceTypes ==
  ASSUME NEW given, Advance(given)
  PROVE  unseen' \in [Stream -> BOOLEAN] /\ passed' \in [Stream -> BOOLEAN]
<1>1. \A u \in Stream : Live(u) \in BOOLEAN /\ (Live(u) /\ u \notin given) \in BOOLEAN
  BY DEF Live
<1> QED
  BY <1>1 DEF Advance

(* Taking the slot: it was free, so nobody fetched.                        *)
LEMMA ReconcileStep ==
  ASSUME QueryInv, NEW s \in Stream, Reconcile(s)
  PROVE  QueryInv'
<1> USE DEF QueryInv, Types
<1>0. pc[s] \in {"Observe", "Changed", "Recheck"} /\ emitted' = [emitted EXCEPT ![s] = Snapshot']
  BY DEF Reconcile
<1>1. /\ UNCHANGED <<current, dataGen, aged, errorGen, passed, notice, starts, invalidator>>
      /\ UNCHANGED <<subscribers, inactive>>
  BY DEF Reconcile, lifeVars
<1>2. CASE ShouldFetch(s)
  <2>1. /\ inFlight' = current
        /\ target' = [target EXCEPT ![s] = current]
        /\ fetching' = TRUE
        /\ status' = IF dataGen = NoGen THEN "Pending" ELSE status
        /\ pc' = [pc EXCEPT ![s] = "Number"]
        /\ after' = [after EXCEPT ![s] = "Fetching"]
        /\ unseen' = unseen
    BY <1>2 DEF Reconcile
  <2>2. CellTypes'
    BY <1>1, <2>1 DEF CellTypes, Status
  <2>3. PlaceTypes'
    BY <1>1, <2>1 DEF PlaceTypes, CellTypes, Points
  <2>4. VersionTypes'
    BY <1>1, <2>1 DEF VersionTypes
  <2>5. EmittedType'
    BY <1>0, <2>2, SnapshotTypeNext DEF EmittedType
  <2>6. Counted'
    <3>1. \A u \in Stream : (pc'[u] = "Off") <=> (pc[u] = "Off")
      BY <1>0, <2>1 DEF PlaceTypes
    <3> QED
      BY <1>1, <3>1, SameLive
  <2>7. current # NoGen
    BY QueryAssumption DEF CellTypes, Gen, NoGen
  <2>8. \A u \in Stream : ~ Fetcher(u)
    BY <1>2 DEF ShouldFetch, SingleFlight, Targeted
  <2>9. \A u \in Stream : Fetcher(u)' => u = s
    BY <2>1, <2>8 DEF Fetcher, PlaceTypes
  <2>10. SingleFlight' /\ Targeted'
    BY <2>1, <2>7, <2>9 DEF SingleFlight, Targeted, PlaceTypes
  <2>11. Sending'
    BY <2>1 DEF Sending, PlaceTypes
  <2> QED
    BY <2>2, <2>3, <2>4, <2>5, <2>6, <2>10, <2>11
<1>3. CASE ~ ShouldFetch(s)
  <2>1. /\ pc' = [pc EXCEPT ![s] = "Watching"]
        /\ unseen' = IF pc[s] = "Changed" THEN [unseen EXCEPT ![s] = passed[s]] ELSE unseen
        /\ UNCHANGED <<inFlight, target, fetching, status, after>>
    BY <1>3 DEF Reconcile
  <2>2. CellTypes'
    BY <1>1, <2>1 DEF CellTypes
  <2>3. PlaceTypes'
    BY <1>1, <2>1 DEF PlaceTypes, Points
  <2>4. VersionTypes'
    BY <1>1, <2>1 DEF VersionTypes
  <2>5. EmittedType'
    BY <1>0, <2>2, SnapshotTypeNext DEF EmittedType
  <2>6. Counted'
    <3>1. \A u \in Stream : (pc'[u] = "Off") <=> (pc[u] = "Off")
      BY <1>0, <2>1 DEF PlaceTypes
    <3> QED
      BY <1>1, <3>1, SameLive
  <2>7. \A u \in Stream : Fetcher(u)' => Fetcher(u)
    BY <2>1 DEF Fetcher, PlaceTypes
  <2>8. SingleFlight' /\ Targeted'
    BY <2>1, <2>7, QuietFetch
  <2>9. Sending'
    BY <2>1 DEF Sending, PlaceTypes
  <2> QED
    BY <2>2, <2>3, <2>4, <2>5, <2>6, <2>8, <2>9
<1> QED
  BY <1>2, <1>3

(* Sending a snapshot and reading versions move the program counter only.  *)
LEMMA NumberStep ==
  ASSUME QueryInv, NEW s \in Stream, Number(s)
  PROVE  QueryInv'
<1> USE DEF QueryInv, Types
<1>1. /\ pc[s] = "Number" /\ pc' = [pc EXCEPT ![s] = "Notify"] /\ Advance({s})
      /\ UNCHANGED cellVars /\ UNCHANGED lifeVars
      /\ UNCHANGED <<after, target, notice, emitted, starts, invalidator>>
  BY DEF Number
<1>2. CellTypes' /\ inFlight' = inFlight
  BY <1>1 DEF CellTypes, cellVars
<1>3. PlaceTypes'
  BY <1>1 DEF PlaceTypes, Points, lifeVars
<1>4. VersionTypes' /\ EmittedType'
  BY <1>1, AdvanceTypes DEF VersionTypes, EmittedType
<1>5. Counted'
  <2>1. \A u \in Stream : (pc'[u] = "Off") <=> (pc[u] = "Off")
    BY <1>1 DEF PlaceTypes
  <2> QED
    BY <1>1, <2>1, SameLive DEF lifeVars
<1>6. SingleFlight' /\ Targeted'
  <2>1. \A u \in Stream : Fetcher(u)' => Fetcher(u)
    BY <1>1 DEF Fetcher, PlaceTypes
  <2> QED
    BY <1>1, <1>2, <2>1, QuietFetch
<1>7. Sending'
  BY <1>1 DEF Sending, PlaceTypes
<1> QED
  BY <1>2, <1>3, <1>4, <1>5, <1>6, <1>7

(* After it the stream goes on to what follows, alive.                     *)
LEMMA NotifyStep ==
  ASSUME QueryInv, NEW s \in Stream, Notify(s)
  PROVE  QueryInv'
<1> USE DEF QueryInv, Types
<1>1. /\ pc[s] = "Notify" /\ pc' = [pc EXCEPT ![s] = after[s]]
      /\ notice' = [u \in Stream |-> Live(u)]
      /\ unseen' = IF after[s] = "Recheck" THEN unseen ELSE [unseen EXCEPT ![s] = passed[s]]
      /\ UNCHANGED cellVars /\ UNCHANGED lifeVars
      /\ UNCHANGED <<after, target, passed, emitted, starts, invalidator>>
  BY DEF Notify
<1>0. after[s] \in {"Fetching", "Watching", "Recheck"}
  BY <1>1 DEF Sending
<1>2. CellTypes' /\ inFlight' = inFlight
  BY <1>1 DEF CellTypes, cellVars
<1>3. PlaceTypes'
  BY <1>1, <1>0 DEF PlaceTypes, Points, lifeVars
<1>4. VersionTypes' /\ EmittedType'
  BY <1>1 DEF VersionTypes, EmittedType, Live
<1>5. Counted'
  <2>1. \A u \in Stream : (pc'[u] = "Off") <=> (pc[u] = "Off")
    BY <1>1, <1>0 DEF PlaceTypes
  <2> QED
    BY <1>1, <2>1, SameLive DEF lifeVars
<1>6. SingleFlight' /\ Targeted'
  <2>1. \A u \in Stream : Fetcher(u)' => Fetcher(u)
    BY <1>1, <1>0 DEF Fetcher, PlaceTypes
  <2> QED
    BY <1>1, <1>2, <2>1, QuietFetch
<1>7. Sending'
  BY <1>1, <1>0 DEF Sending, PlaceTypes
<1> QED
  BY <1>2, <1>3, <1>4, <1>5, <1>6, <1>7

(* Reading the version on joining.                                         *)
LEMMA ReadVersionStep ==
  ASSUME QueryInv, NEW s \in Stream, ReadVersion(s)
  PROVE  QueryInv'
<1> USE DEF QueryInv, Types
<1>1. /\ pc[s] = "Joined" /\ pc' = [pc EXCEPT ![s] = "Observe"]
      /\ unseen' = [unseen EXCEPT ![s] = FALSE]
      /\ UNCHANGED cellVars /\ UNCHANGED lifeVars
      /\ UNCHANGED <<after, target, passed, notice, emitted, starts, invalidator>>
  BY DEF ReadVersion
<1>2. CellTypes' /\ inFlight' = inFlight
  BY <1>1 DEF CellTypes, cellVars
<1>3. PlaceTypes'
  BY <1>1 DEF PlaceTypes, Points, lifeVars
<1>4. VersionTypes' /\ EmittedType'
  BY <1>1 DEF VersionTypes, EmittedType
<1>5. Counted'
  <2>1. \A u \in Stream : (pc'[u] = "Off") <=> (pc[u] = "Off")
    BY <1>1 DEF PlaceTypes
  <2> QED
    BY <1>1, <2>1, SameLive DEF lifeVars
<1>6. SingleFlight' /\ Targeted'
  <2>1. \A u \in Stream : Fetcher(u)' => Fetcher(u)
    BY <1>1 DEF Fetcher, PlaceTypes
  <2> QED
    BY <1>1, <1>2, <2>1, QuietFetch
<1>7. Sending'
  BY <1>1 DEF Sending, PlaceTypes
<1> QED
  BY <1>2, <1>3, <1>4, <1>5, <1>6, <1>7

(* A wake and its version check.                                           *)
LEMMA WakeStep ==
  ASSUME QueryInv, NEW s \in Stream, Wake(s) \/ CheckVersion(s)
  PROVE  QueryInv'
<1> USE DEF QueryInv, Types
<1>1. /\ pc[s] \in {"Watching", "Woken"}
      /\ \E p \in {"Woken", "Changed", "Watching"} : pc' = [pc EXCEPT ![s] = p]
      /\ notice' = notice \/ notice' = [notice EXCEPT ![s] = FALSE]
      /\ passed' = passed \/ passed' = [passed EXCEPT ![s] = FALSE]
      /\ UNCHANGED cellVars /\ UNCHANGED lifeVars
      /\ UNCHANGED <<after, target, unseen, emitted, starts, invalidator>>
  BY DEF Wake, CheckVersion
<1>2. CellTypes' /\ inFlight' = inFlight
  BY <1>1 DEF CellTypes, cellVars
<1>3. PlaceTypes'
  BY <1>1 DEF PlaceTypes, Points, lifeVars
<1>4. VersionTypes' /\ EmittedType'
  BY <1>1 DEF VersionTypes, EmittedType
<1>5. Counted'
  <2>1. \A u \in Stream : (pc'[u] = "Off") <=> (pc[u] = "Off")
    BY <1>1 DEF PlaceTypes
  <2> QED
    BY <1>1, <2>1, SameLive DEF lifeVars
<1>6. SingleFlight' /\ Targeted'
  <2>1. \A u \in Stream : Fetcher(u)' => Fetcher(u)
    BY <1>1 DEF Fetcher, PlaceTypes
  <2> QED
    BY <1>1, <1>2, <2>1, QuietFetch
<1>7. Sending'
  BY <1>1 DEF Sending, PlaceTypes
<1> QED
  BY <1>2, <1>3, <1>4, <1>5, <1>6, <1>7

(* A start is counted.                                                     *)
LEMMA SubscribeStep ==
  ASSUME QueryInv, NEW s \in Stream, Subscribe(s)
  PROVE  QueryInv'
<1> USE DEF QueryInv, Types
<1>1. /\ pc[s] = "Off" /\ pc' = [pc EXCEPT ![s] = "Joined"]
      /\ subscribers' = subscribers + 1 /\ inactive' = FALSE
      /\ starts < MaxStarts /\ starts' = starts + 1
      /\ notice' = [notice EXCEPT ![s] = FALSE]
      /\ UNCHANGED cellVars
      /\ UNCHANGED <<after, target, unseen, passed, emitted, invalidator>>
  BY DEF Subscribe, CountSubscriber
<1>2. CellTypes' /\ inFlight' = inFlight
  BY <1>1 DEF CellTypes, cellVars
<1>3. PlaceTypes'
  <2>1. starts' \in 0..MaxStarts
    BY <1>1, QueryAssumption DEF PlaceTypes
  <2>2. pc' \in [Stream -> Points]
    BY <1>1 DEF PlaceTypes, Points
  <2> QED
    BY <1>1, <2>1, <2>2 DEF PlaceTypes
<1>4. VersionTypes' /\ EmittedType'
  BY <1>1 DEF VersionTypes, EmittedType
<1>5. Counted'
  <2>1. LiveStreams' = LiveStreams \cup {s} /\ s \notin LiveStreams
    BY <1>1 DEF LiveStreams, PlaceTypes
  <2>2. Cardinality(LiveStreams') = Cardinality(LiveStreams) + 1
    BY <2>1, LiveFinite, FS_AddElement
  <2> QED
    BY <1>1, <2>2 DEF Counted
<1>6. SingleFlight' /\ Targeted'
  <2>1. \A u \in Stream : Fetcher(u)' => Fetcher(u)
    BY <1>1 DEF Fetcher, PlaceTypes
  <2> QED
    BY <1>1, <1>2, <2>1, QuietFetch
<1>7. Sending'
  BY <1>1 DEF Sending, PlaceTypes
<1> QED
  BY <1>2, <1>3, <1>4, <1>5, <1>6, <1>7

(* A drop is counted; an orphaned slot stays taken.                        *)
LEMMA DropStep ==
  ASSUME QueryInv, NEW s \in Stream, Drop(s)
  PROVE  QueryInv'
<1> USE DEF QueryInv, Types
<1>1. /\ pc[s] \in {"Fetching", "Watching"} /\ pc' = [pc EXCEPT ![s] = "Off"]
      /\ subscribers' = IF subscribers = 0 THEN 0 ELSE subscribers - 1
      /\ inactive' = FALSE
      /\ after' = [after EXCEPT ![s] = "Off"]
      /\ target' = [target EXCEPT ![s] = NoGen]
      /\ unseen' = [unseen EXCEPT ![s] = FALSE]
      /\ passed' = [passed EXCEPT ![s] = FALSE]
      /\ notice' = [notice EXCEPT ![s] = FALSE]
      /\ emitted' = [emitted EXCEPT ![s] = NewSnapshot]
      /\ UNCHANGED cellVars /\ UNCHANGED <<starts, invalidator>>
  BY DEF Drop
<1>2. CellTypes' /\ inFlight' = inFlight
  BY <1>1 DEF CellTypes, cellVars
<1>3. PlaceTypes'
  BY <1>1 DEF PlaceTypes, Points
<1>4. VersionTypes'
  BY <1>1 DEF VersionTypes
<1>5. EmittedType'
  <2>1. NewSnapshot \in Snapshots
    BY DEF NewSnapshot, Snapshots, Status
  <2> QED
    BY <1>1, <2>1 DEF EmittedType
<1>6. Counted'
  <2>1. LiveStreams' = LiveStreams \ {s} /\ s \in LiveStreams
    BY <1>1 DEF LiveStreams, PlaceTypes
  <2>2. Cardinality(LiveStreams') = Cardinality(LiveStreams) - 1
    BY <2>1, LiveFinite, FS_RemoveElement
  <2>3. Cardinality(LiveStreams) # 0
    BY <2>1, LiveFinite, FS_EmptySet
  <2> QED
    BY <1>1, <2>2, <2>3 DEF Counted
<1>7. SingleFlight' /\ Targeted'
  <2>1. \A u \in Stream : Fetcher(u)' => Fetcher(u) /\ u # s
    BY <1>1 DEF Fetcher, PlaceTypes
  <2>2. \A u \in Stream : u # s => target'[u] = target[u]
    BY <1>1 DEF PlaceTypes
  <2> QED
    BY <1>2, <2>1, <2>2 DEF SingleFlight, Targeted
<1>8. Sending'
  BY <1>1 DEF Sending, PlaceTypes
<1> QED
  BY <1>2, <1>3, <1>4, <1>5, <1>6, <1>7, <1>8

(* A completion frees the slot its stream held, and that stream was the    *)
(* only fetcher.                                                           *)
LEMMA CompleteStep ==
  ASSUME QueryInv, NEW s \in Stream, CompleteSuccess(s) \/ CompleteError(s)
  PROVE  QueryInv' /\ inFlight' = NoGen
<1> USE DEF QueryInv, Types
<1>1. /\ pc[s] = "Fetching" /\ pc' = [pc EXCEPT ![s] = "Number"]
      /\ after' = [after EXCEPT ![s] = AfterCompletion(s)]
      /\ inFlight' = IF inFlight = target[s] THEN NoGen ELSE inFlight
      /\ current' = current
      /\ dataGen' = dataGen \/ dataGen' = target[s]
      /\ aged' = aged \/ aged' = FALSE
      /\ status' = status \/ status' \in {"Success", "Error"}
      /\ fetching' = fetching \/ fetching' = FALSE
      /\ errorGen' = errorGen \/ errorGen' \in {NoGen, target[s]}
      /\ emitted' = emitted \/ emitted' = [emitted EXCEPT ![s] = Snapshot']
      /\ UNCHANGED lifeVars
      /\ UNCHANGED <<target, unseen, passed, notice, starts, invalidator>>
  BY DEF CompleteSuccess, CompleteError, Release
<1>0. AfterCompletion(s) \in {"Watching", "Recheck"}
  BY DEF AfterCompletion
<1>a. Fetcher(s)
  BY <1>1 DEF Fetcher
<1>b. inFlight' = NoGen
  BY <1>1, <1>a DEF SingleFlight
<1>c. target[s] \in Gen \cup {NoGen}
  BY DEF PlaceTypes
<1>2. CellTypes'
  BY <1>1, <1>b, <1>c DEF CellTypes, Status
<1>3. PlaceTypes'
  BY <1>1, <1>0 DEF PlaceTypes, Points, lifeVars
<1>4. VersionTypes'
  BY <1>1 DEF VersionTypes
<1>5. EmittedType'
  BY <1>1, <1>2, SnapshotTypeNext DEF EmittedType
<1>6. Counted'
  <2>1. \A u \in Stream : (pc'[u] = "Off") <=> (pc[u] = "Off")
    BY <1>1 DEF PlaceTypes
  <2> QED
    BY <1>1, <2>1, SameLive DEF lifeVars
<1>7. SingleFlight' /\ Targeted'
  <2>1. \A u \in Stream : Fetcher(u)' => Fetcher(u) /\ u # s
    BY <1>1, <1>0 DEF Fetcher, PlaceTypes
  <2>2. \A u \in Stream : ~ Fetcher(u)'
    BY <2>1, <1>a DEF SingleFlight
  <2> QED
    BY <2>2 DEF SingleFlight, Targeted
<1>8. Sending'
  BY <1>1, <1>0 DEF Sending, PlaceTypes
<1> QED
  BY <1>b, <1>2, <1>3, <1>4, <1>5, <1>6, <1>7, <1>8

(* invalidate and time touch neither the slot nor the streams' places.     *)
LEMMA InvalidateStep ==
  ASSUME QueryInv,
         Invalidate \/ InvalidateNumber \/ InvalidateNotify \/ DataAges \/ CacheTimeElapses
  PROVE  QueryInv'
<1> USE DEF QueryInv, Types
<1>1. /\ UNCHANGED <<dataGen, status, fetching, inFlight, errorGen, subscribers>>
      /\ UNCHANGED <<pc, after, target, emitted, starts>>
  BY DEF Invalidate, InvalidateNumber, InvalidateNotify, DataAges, CacheTimeElapses,
         cellVars, lifeVars, streamVars
<1>2. current' = current \/ (current < MaxGen /\ current' = current + 1)
  BY DEF Invalidate, InvalidateNumber, InvalidateNotify, DataAges, CacheTimeElapses,
         cellVars
<1>3. (aged' = aged \/ aged' = TRUE) /\ (inactive' = inactive \/ inactive' = TRUE)
  BY DEF Invalidate, InvalidateNumber, InvalidateNotify, DataAges, CacheTimeElapses,
         cellVars, lifeVars
<1>4. invalidator' \in {"Idle", "Number", "Notify"}
  BY DEF Invalidate, InvalidateNumber, InvalidateNotify, DataAges, CacheTimeElapses,
         PlaceTypes
<1>5. current' \in Gen
  BY <1>2, QueryAssumption DEF CellTypes, Gen
<1>6. CellTypes'
  BY <1>1, <1>3, <1>5 DEF CellTypes
<1>7. PlaceTypes'
  BY <1>1, <1>3, <1>4 DEF PlaceTypes
<1>8. VersionTypes'
  <2>1. CASE InvalidateNumber
    BY <2>1, AdvanceTypes DEF InvalidateNumber, VersionTypes
  <2>2. CASE InvalidateNotify
    BY <2>2 DEF InvalidateNotify, VersionTypes, Live
  <2>3. CASE Invalidate \/ DataAges \/ CacheTimeElapses
    BY <2>3 DEF Invalidate, DataAges, CacheTimeElapses, VersionTypes, streamVars
  <2> QED
    BY <2>1, <2>2, <2>3
<1>9. EmittedType'
  BY <1>1 DEF EmittedType
<1>10. Counted'
  BY <1>1, SameLive
<1>11. SingleFlight' /\ Targeted'
  BY <1>1, QuietFetch DEF Fetcher
<1>12. Sending'
  BY <1>1 DEF Sending
<1> QED
  BY <1>6, <1>7, <1>8, <1>9, <1>10, <1>11, <1>12

(* Eviction replaces the slot when no stream is left.                      *)
LEMMA GcStep ==
  ASSUME QueryInv, Gc
  PROVE  QueryInv' /\ LiveStreams = {}
<1> USE DEF QueryInv, Types
<1>1. /\ subscribers = 0 /\ subscribers' = subscribers /\ inactive' = FALSE
      /\ current' = 0 /\ dataGen' = NoGen /\ aged' = FALSE /\ status' = "Pending"
      /\ fetching' = FALSE /\ inFlight' = NoGen /\ errorGen' = NoGen
      /\ UNCHANGED <<pc, after, target, unseen, passed, notice, emitted, starts>>
      /\ invalidator' = invalidator
  BY DEF Gc, streamVars
<1>2. LiveStreams = {}
  BY <1>1, LiveFinite, FS_EmptySet DEF Counted
<1>3. 0 \in Gen
  BY QueryAssumption DEF Gen
<1>4. CellTypes'
  BY <1>1, <1>3 DEF CellTypes, Status
<1>5. PlaceTypes' /\ VersionTypes' /\ EmittedType'
  BY <1>1 DEF PlaceTypes, VersionTypes, EmittedType
<1>6. Counted'
  BY <1>1, SameLive
<1>7. SingleFlight' /\ Targeted'
  <2>1. \A u \in Stream : ~ Fetcher(u)'
    BY <1>1, <1>2 DEF Fetcher, LiveStreams
  <2> QED
    BY <2>1 DEF SingleFlight, Targeted
<1>8. Sending'
  BY <1>1 DEF Sending
<1> QED
  BY <1>2, <1>4, <1>5, <1>6, <1>7, <1>8

(* A step that changes nothing.                                            *)
LEMMA StutterStep ==
  ASSUME QueryInv, UNCHANGED vars
  PROVE  QueryInv'
<1>1. UNCHANGED <<current, dataGen, aged, status, fetching, inFlight, errorGen>>
  BY DEF vars, cellVars
<1>2. UNCHANGED <<subscribers, inactive, pc, after, target, starts, invalidator>>
  BY DEF vars, lifeVars, streamVars
<1>3. UNCHANGED <<unseen, passed, notice, emitted>>
  BY DEF vars, streamVars
<1> USE DEF QueryInv, Types
<1>4. CellTypes' /\ PlaceTypes' /\ VersionTypes' /\ EmittedType'
  BY <1>1, <1>2, <1>3 DEF CellTypes, PlaceTypes, VersionTypes, EmittedType
<1>5. Counted'
  BY <1>2, SameLive
<1>6. SingleFlight' /\ Targeted'
  BY <1>1, <1>2, QuietFetch DEF Fetcher
<1>7. Sending'
  BY <1>2 DEF Sending
<1> QED
  BY <1>4, <1>5, <1>6, <1>7

(* Every step keeps the invariant.                                         *)
LEMMA NextInv == QueryInv /\ [Next]_<<vars, parallel>> => QueryInv'
<1> SUFFICES ASSUME QueryInv, [Next]_<<vars, parallel>> PROVE QueryInv'
  OBVIOUS
<1>1. ASSUME NEW s \in Stream,
             StreamNext(s) \/ Subscribe(s) \/ CompleteSuccess(s) \/ CompleteError(s) \/ Drop(s)
      PROVE  QueryInv'
  BY <1>1, ReconcileStep, NumberStep, NotifyStep, ReadVersionStep, WakeStep, SubscribeStep,
     CompleteStep, DropStep DEF StreamNext
<1>2. CASE ClientNext
  BY <1>2, InvalidateStep, GcStep DEF ClientNext
<1>3. CASE Idle \/ UNCHANGED vars
  BY <1>3, StutterStep DEF Idle
<1> QED
  BY <1>1, <1>2, <1>3 DEF Next

(* The invariant holds in every reachable state.                           *)
THEOREM QueryInvariance == Spec => []QueryInv
  BY InitInv, NextInv, PTL DEF Spec

(* The subscriber count is exact, and every variable has its type.         *)
THEOREM SubscribersCounted == Spec => []TypeOK
<1>1. QueryInv /\ FlavourType => TypeOK
  BY TypeOKSplit DEF QueryInv
<1>2. Spec => []FlavourType
  <2>1. Init => FlavourType
    BY DEF Init, FlavourType
  <2>2. FlavourType /\ [Next]_<<vars, parallel>> => FlavourType'
    BY DEF FlavourType, Next
  <2> QED
    BY <2>1, <2>2, PTL DEF Spec
<1> QED
  BY <1>1, <1>2, QueryInvariance, PTL

(* INV-2: at most one stream of a cell fetches, and it holds the slot.     *)
THEOREM OneFetch == Spec => []SingleFlight
<1>1. QueryInv => SingleFlight
  BY DEF QueryInv
<1> QED
  BY <1>1, QueryInvariance, PTL

(* INV-8: a fetch that ends frees the slot, since the slot is its own.     *)
THEOREM SlotFreed == Spec => CompletionReleases
<1>1. QueryInv /\ [Next]_<<vars, parallel>> =>
        [\A s \in Stream : pc[s] = "Fetching" /\ pc'[s] = "Number" => inFlight' = NoGen]_vars
  <2> SUFFICES ASSUME QueryInv, [Next]_<<vars, parallel>>, NEW s \in Stream,
                      pc[s] = "Fetching", pc'[s] = "Number"
               PROVE  inFlight' = NoGen
    OBVIOUS
  <2>1. pc \in [Stream -> Points]
    BY DEF QueryInv, Types, PlaceTypes
  <2>2. PICK u \in Stream : CompleteSuccess(u) \/ CompleteError(u)
    <3>1. ~ UNCHANGED pc
      OBVIOUS
    <3>2. ~ ClientNext /\ ~ Idle /\ ~ UNCHANGED vars
      BY <3>1 DEF ClientNext, Invalidate, InvalidateNumber, InvalidateNotify, Gc, DataAges,
                  CacheTimeElapses, Idle, vars, streamVars
    <3>3. ASSUME NEW u \in Stream, StreamNext(u) \/ Subscribe(u) \/ Drop(u)
          PROVE  FALSE
      <4>1. pc'[s] = pc[s] \/ pc[u] # "Fetching" \/ pc'[u] = "Off"
        BY <3>3, <2>1 DEF StreamNext, Reconcile, Number, Notify, ReadVersion, Wake, CheckVersion,
                          Subscribe, Drop
      <4>2. u = s
        BY <3>3, <2>1 DEF StreamNext, Reconcile, Number, Notify, ReadVersion, Wake, CheckVersion,
                          Subscribe, Drop
      <4> QED
        BY <4>1, <4>2
    <3> QED
      BY <3>2, <3>3 DEF Next
  <2> QED
    BY <2>2, CompleteStep
<1> QED
  BY <1>1, QueryInvariance, PTL DEF Spec, CompletionReleases

(* INV-6: a cell that a stream observes keeps its data.                    *)
THEOREM DataKept == Spec => ActiveKeepsData
<1>1. QueryInv /\ [Next]_<<vars, parallel>> =>
        [(\E s \in Stream : Live(s)) /\ dataGen # NoGen => dataGen' # NoGen]_vars
  <2> SUFFICES ASSUME QueryInv, [Next]_<<vars, parallel>>, NEW s \in Stream, Live(s), dataGen # NoGen
               PROVE  dataGen' # NoGen
    OBVIOUS
  <2>1. CASE ClientNext \/ Idle \/ UNCHANGED vars
    <3>1. ~ Gc
      BY GcStep DEF LiveStreams, Live
    <3> QED
      BY <2>1, <3>1 DEF ClientNext, Invalidate, InvalidateNumber, InvalidateNotify, DataAges,
                        CacheTimeElapses, Idle, vars, cellVars
  <2>2. ASSUME NEW u \in Stream, CompleteSuccess(u) \/ CompleteError(u)
        PROVE  dataGen' # NoGen
    <3>1. Fetcher(u)
      BY <2>2 DEF CompleteSuccess, CompleteError, Fetcher
    <3>2. target[u] # NoGen
      BY <3>1 DEF QueryInv, Targeted
    <3> QED
      BY <2>2, <3>2 DEF CompleteSuccess, CompleteError
  <2>3. ASSUME NEW u \in Stream, StreamNext(u) \/ Subscribe(u) \/ Drop(u)
        PROVE  dataGen' # NoGen
    BY <2>3 DEF StreamNext, Reconcile, Number, Notify, ReadVersion, Wake, CheckVersion,
                Subscribe, Drop, cellVars
  <2> QED
    BY <2>1, <2>2, <2>3 DEF Next
<1> QED
  BY <1>1, QueryInvariance, PTL DEF Spec, ActiveKeepsData

-----------------------------------------------------------------------------
(* On a current-thread runtime, one of the streams and invalidate runs at  *)
(* a time, from one await to the next.                                     *)
Running(s) == pc[s] \notin AwaitPoints

OneTurn ==
  \A s \in Stream : Running(s) =>
    invalidator = "Idle" /\ \A u \in Stream : Running(u) => u = s

(* The last invalidation has been answered, or is being answered.          *)
Heeded == dataGen = current \/ errorGen = current \/ inFlight # NoGen

(* A stream that has nothing to do: it yielded the state the cell is in.   *)
Settled(s) == Heeded /\ emitted[s] = Snapshot

(* A snapshot was numbered and is not sent yet, or is about to be.         *)
Numbering == invalidator = "Number" \/ \E s \in Stream : pc[s] = "Number"
Notifying == invalidator = "Notify" \/ \E s \in Stream : pc[s] = "Notify"

(* A stream that has something to do will be woken, and then sees a later  *)
(* version than its own.                                                   *)
Told(s) == Numbering \/ (unseen[s] /\ (Notifying \/ notice[s]))

Turns ==
  /\ OneTurn
  /\ dataGen <= current
  /\ \A s \in Stream :
       /\ pc[s] = "Watching" => Settled(s) \/ Told(s)
       /\ pc[s] = "Woken" => Settled(s) \/ unseen[s]
       /\ pc[s] \in {"Number", "Notify"} /\ after[s] = "Watching" => Settled(s)

TurnInv == ~parallel => Turns

(* Whoever runs, runs alone.                                               *)
LEMMA Alone ==
  ASSUME OneTurn, NEW s \in Stream, Running(s)
  PROVE  /\ invalidator = "Idle"
         /\ \A u \in Stream : u # s => pc[u] \in AwaitPoints
  BY DEF OneTurn, Running

(* A step of the stream whose turn it is leaves the others waiting.        *)
LEMMA TurnPassed ==
  ASSUME pc \in [Stream -> Points], NEW s \in Stream, NEW p \in Points,
         invalidator' = "Idle", pc' = [pc EXCEPT ![s] = p],
         \A u \in Stream : u # s => pc[u] \in AwaitPoints
  PROVE  /\ OneTurn'
         /\ \A u \in Stream : pc'[u] = IF u = s THEN p ELSE pc[u]
         /\ \A u \in Stream : pc'[u] \in {"Woken", "Number", "Notify"} => u = s
<1>1. \A u \in Stream : pc'[u] = IF u = s THEN p ELSE pc[u]
  OBVIOUS
<1>2. OneTurn'
  BY <1>1 DEF OneTurn, Running, AwaitPoints
<1>3. \A u \in Stream : pc'[u] \in {"Woken", "Number", "Notify"} => u = s
  BY <1>1 DEF AwaitPoints
<1> QED
  BY <1>1, <1>2, <1>3

(* A stream that starts to fetch tells the others; one that does not has   *)
(* found the cell answered, and yields its state.                          *)
LEMMA ReconcileTurn ==
  ASSUME QueryInv, Turns, NEW s \in Stream, Reconcile(s)
  PROVE  Turns'
<1> USE DEF Turns
<1>0. /\ pc \in [Stream -> Points] /\ after \in [Stream -> Points]
      /\ emitted \in [Stream -> Snapshots]
      /\ current \in Gen /\ dataGen \in Gen \cup {NoGen}
  BY DEF QueryInv, Types, PlaceTypes, CellTypes, EmittedType
<1>1. /\ pc[s] \in {"Observe", "Changed", "Recheck"}
      /\ emitted' = [emitted EXCEPT ![s] = Snapshot']
      /\ UNCHANGED <<current, dataGen, errorGen, notice, invalidator>>
  BY DEF Reconcile
<1>2. Running(s)
  BY <1>1 DEF Running, AwaitPoints
<1>3. invalidator' = "Idle" /\ \A u \in Stream : u # s => pc[u] \in AwaitPoints
  BY <1>1, <1>2, Alone
<1>4. dataGen' <= current'
  BY <1>1
<1>5. CASE ShouldFetch(s)
  <2>1. pc' = [pc EXCEPT ![s] = "Number"] /\ after' = [after EXCEPT ![s] = "Fetching"]
    BY <1>5 DEF Reconcile
  <2>2. "Number" \in Points
    BY DEF Points
  <2>3. /\ OneTurn' /\ pc'[s] = "Number" /\ after'[s] = "Fetching"
        /\ \A u \in Stream : pc'[u] \in {"Woken", "Number", "Notify"} => u = s
    BY <1>0, <1>3, <2>1, <2>2, TurnPassed
  <2>4. Numbering'
    BY <2>3 DEF Numbering
  <2> QED
    BY <1>4, <2>3, <2>4 DEF Told
<1>6. CASE ~ ShouldFetch(s)
  <2>1. /\ pc' = [pc EXCEPT ![s] = "Watching"]
        /\ unseen' = IF pc[s] = "Changed" THEN [unseen EXCEPT ![s] = passed[s]] ELSE unseen
        /\ UNCHANGED <<inFlight, fetching, status, after>>
    BY <1>6 DEF Reconcile
  <2>2. "Watching" \in Points
    BY DEF Points
  <2>3. /\ OneTurn' /\ pc'[s] = "Watching"
        /\ \A u \in Stream : u # s => pc'[u] = pc[u]
        /\ \A u \in Stream : pc'[u] \in {"Woken", "Number", "Notify"} => u = s
    BY <1>0, <1>3, <2>1, <2>2, TurnPassed
  <2>4. Snapshot' = Snapshot /\ (Heeded' <=> Heeded)
    BY <1>1, <2>1 DEF Snapshot, Heeded
  <2>5. Heeded
    <3>1. ~ (dataGen < current) \/ inFlight # NoGen \/ errorGen = current
      BY <1>6 DEF ShouldFetch
    <3>2. ~ (dataGen < current) => dataGen = current
      BY <1>0, QueryAssumption DEF Gen, NoGen
    <3> QED
      BY <3>1, <3>2 DEF Heeded
  <2>6. Settled(s)'
    BY <1>0, <1>1, <2>4, <2>5 DEF Settled
  <2>7. ~ Numbering /\ ~ Notifying
    BY <1>1, <1>3 DEF Numbering, Notifying, AwaitPoints
  <2>8. ASSUME NEW u \in Stream, pc'[u] = "Watching", u # s
        PROVE  Settled(u)' \/ Told(u)'
    <3>1. Settled(u) \/ Told(u)
      BY <2>3, <2>8
    <3>2. emitted'[u] = emitted[u]
      BY <1>0, <1>1, <2>8
    <3>3. CASE Settled(u)
      BY <2>4, <3>2, <3>3 DEF Settled
    <3>4. CASE unseen[u] /\ notice[u]
      <4>1. unseen'[u] = unseen[u]
        BY <2>1, <2>8 DEF QueryInv, Types, VersionTypes
      <4> QED
        BY <1>1, <3>4, <4>1 DEF Told
    <3> QED
      BY <2>7, <3>1, <3>3, <3>4 DEF Told
  <2> QED
    BY <1>4, <2>3, <2>6, <2>8
<1> QED
  BY <1>5, <1>6

(* The numbering passes every version held.                                *)
LEMMA NumberTurn ==
  ASSUME QueryInv, Turns, NEW s \in Stream, Number(s)
  PROVE  Turns'
<1> USE DEF Turns
<1>0. pc \in [Stream -> Points]
  BY DEF QueryInv, Types, PlaceTypes
<1>1. /\ pc[s] = "Number" /\ pc' = [pc EXCEPT ![s] = "Notify"]
      /\ unseen' = [u \in Stream |-> Live(u)]
      /\ UNCHANGED <<current, dataGen, status, fetching, inFlight, errorGen>>
      /\ UNCHANGED <<after, notice, emitted, invalidator>>
  BY DEF Number, Advance, cellVars
<1>2. invalidator' = "Idle" /\ \A u \in Stream : u # s => pc[u] \in AwaitPoints
  BY <1>1, Alone DEF Running, AwaitPoints
<1>3. "Notify" \in Points
  BY DEF Points
<1>4. /\ OneTurn' /\ pc'[s] = "Notify"
      /\ \A u \in Stream : u # s => pc'[u] = pc[u]
      /\ \A u \in Stream : pc'[u] \in {"Woken", "Number", "Notify"} => u = s
  BY <1>0, <1>1, <1>2, <1>3, TurnPassed
<1>5. Notifying'
  BY <1>4 DEF Notifying
<1>6. ASSUME NEW u \in Stream, pc'[u] = "Watching"
      PROVE  Told(u)'
  <2>1. unseen'[u]
    BY <1>1, <1>4, <1>6 DEF Live
  <2> QED
    BY <1>5, <2>1 DEF Told
<1>7. after'[s] = "Watching" => Settled(s)'
  <2>1. Settled(s)' <=> Settled(s)
    BY <1>1 DEF Settled, Heeded, Snapshot
  <2> QED
    BY <1>1, <2>1
<1> QED
  BY <1>1, <1>4, <1>6, <1>7

(* The send reaches every stream.  Its own stream yielded the state.       *)
LEMMA NotifyTurn ==
  ASSUME QueryInv, Turns, NEW s \in Stream, Notify(s)
  PROVE  Turns'
<1> USE DEF Turns
<1>0. /\ pc \in [Stream -> Points] /\ unseen \in [Stream -> BOOLEAN]
      /\ after[s] \in Points
  BY DEF QueryInv, Types, PlaceTypes, VersionTypes
<1>1. /\ pc[s] = "Notify" /\ pc' = [pc EXCEPT ![s] = after[s]]
      /\ notice' = [u \in Stream |-> Live(u)]
      /\ unseen' = IF after[s] = "Recheck" THEN unseen ELSE [unseen EXCEPT ![s] = passed[s]]
      /\ UNCHANGED <<current, dataGen, status, fetching, inFlight, errorGen>>
      /\ UNCHANGED <<after, emitted, invalidator>>
  BY DEF Notify, cellVars
<1>2. invalidator' = "Idle" /\ \A u \in Stream : u # s => pc[u] \in AwaitPoints
  BY <1>1, Alone DEF Running, AwaitPoints
<1>3. /\ OneTurn' /\ pc'[s] = after[s]
      /\ \A u \in Stream : u # s => pc'[u] = pc[u]
      /\ \A u \in Stream : pc'[u] \in {"Woken", "Number", "Notify"} => u = s
  BY <1>0, <1>1, <1>2, TurnPassed
<1>4. after[s] \in {"Fetching", "Watching", "Recheck"}
  BY <1>1 DEF QueryInv, Sending
<1>5. \A u \in Stream : Settled(u)' <=> Settled(u)
  BY <1>1 DEF Settled, Heeded, Snapshot
<1>6. ASSUME NEW u \in Stream, pc'[u] = "Watching"
      PROVE  Settled(u)' \/ Told(u)'
  <2>1. CASE u = s
    BY <1>1, <1>3, <1>5, <1>6, <2>1
  <2>2. CASE u # s
    <3>1. pc[u] = "Watching"
      BY <1>3, <1>6, <2>2
    <3>2. notice'[u]
      BY <1>1, <3>1 DEF Live
    <3>3. ~ Numbering
      BY <1>1, <1>2 DEF Numbering, AwaitPoints
    <3>4. Settled(u) \/ unseen[u]
      BY <3>1, <3>3 DEF Told
    <3>5. unseen'[u] = unseen[u]
      BY <1>0, <1>1, <2>2
    <3> QED
      BY <1>5, <3>2, <3>4, <3>5 DEF Told
  <2> QED
    BY <2>1, <2>2
<1>7. pc'[s] \notin {"Woken", "Number", "Notify"}
  BY <1>3, <1>4
<1> QED
  BY <1>1, <1>3, <1>6, <1>7

(* A step that sends nothing disturbs nobody else.                         *)
LEMMA QuietTurn ==
  ASSUME pc \in [Stream -> Points], Turns,
         NEW s \in Stream, NEW p \in Points \ {"Number", "Notify"},
         pc[s] \notin {"Number", "Notify"}, pc' = [pc EXCEPT ![s] = p],
         invalidator = "Idle", invalidator' = "Idle",
         \A u \in Stream : u # s => pc[u] \in AwaitPoints,
         UNCHANGED <<current, dataGen, status, fetching, inFlight, errorGen>>,
         \A u \in Stream : u # s =>
           emitted'[u] = emitted[u] /\ unseen'[u] = unseen[u] /\ notice'[u] = notice[u],
         p = "Watching" => Settled(s)',
         p = "Woken" => Settled(s)' \/ unseen'[s]
  PROVE  Turns'
<1>1. /\ OneTurn' /\ pc'[s] = p
      /\ \A u \in Stream : u # s => pc'[u] = pc[u]
      /\ \A u \in Stream : pc'[u] \in {"Woken", "Number", "Notify"} => u = s
  BY TurnPassed
<1>2. \A u \in Stream : u # s => (Settled(u)' <=> Settled(u))
  BY DEF Settled, Heeded, Snapshot
<1>3. ~ Numbering /\ ~ Notifying
  BY DEF Numbering, Notifying, AwaitPoints
<1>4. ASSUME NEW u \in Stream, pc'[u] = "Watching"
      PROVE  Settled(u)' \/ Told(u)'
  <2>1. CASE u = s
    BY <1>1, <1>4, <2>1
  <2>2. CASE u # s
    <3>1. Settled(u) \/ (unseen[u] /\ notice[u])
      BY <1>1, <1>3, <1>4, <2>2 DEF Turns, Told
    <3> QED
      BY <1>2, <2>2, <3>1 DEF Told
  <2> QED
    BY <2>1, <2>2
<1>5. pc'[s] \notin {"Number", "Notify"}
  BY <1>1
<1>6. dataGen' <= current'
  BY DEF Turns
<1> QED
  BY <1>1, <1>4, <1>5, <1>6 DEF Turns

(* A stream wakes for a later version, or has nothing to do.               *)
LEMMA WakeTurn ==
  ASSUME QueryInv, Turns, ~ parallel, NEW s \in Stream,
         ReadVersion(s) \/ Wake(s) \/ CheckVersion(s)
  PROVE  Turns'
<1>0. /\ pc \in [Stream -> Points] /\ notice \in [Stream -> BOOLEAN]
      /\ unseen \in [Stream -> BOOLEAN]
  BY DEF QueryInv, Types, PlaceTypes, VersionTypes
<1>1. /\ UNCHANGED <<current, dataGen, status, fetching, inFlight, errorGen>>
      /\ UNCHANGED <<emitted, invalidator>>
  BY DEF ReadVersion, Wake, CheckVersion, cellVars
<1>2. Settled(s)' <=> Settled(s)
  BY <1>1 DEF Settled, Heeded, Snapshot
<1>3. invalidator = "Idle" /\ \A u \in Stream : u # s => pc[u] \in AwaitPoints
  <2>1. CASE NobodyRuns
    BY <2>1 DEF NobodyRuns
  <2>2. CASE Running(s)
    BY <2>2, Alone DEF Turns
  <2> QED
    BY <2>1, <2>2 DEF ReadVersion, Wake, CheckVersion, MayRun, Running, AwaitPoints
<1>4. ~ Numbering /\ (pc[s] \notin {"Number", "Notify"} => ~ Notifying)
  BY <1>3 DEF Numbering, Notifying, AwaitPoints, ReadVersion, Wake, CheckVersion
<1>5. CASE ReadVersion(s)
  <2>1. pc[s] = "Joined" /\ pc' = [pc EXCEPT ![s] = "Observe"]
    BY <1>5 DEF ReadVersion
  <2>2. unseen' = [unseen EXCEPT ![s] = FALSE] /\ notice' = notice
    BY <1>5 DEF ReadVersion
  <2>3. "Observe" \in Points
    BY DEF Points
  <2> QED
    BY <1>0, <1>1, <1>3, <2>1, <2>2, <2>3, QuietTurn
<1>6. CASE Wake(s)
  <2>1. pc[s] = "Watching" /\ pc' = [pc EXCEPT ![s] = "Woken"]
    BY <1>6 DEF Wake
  <2>2. unseen' = unseen /\ notice' = [notice EXCEPT ![s] = FALSE]
    BY <1>6 DEF Wake
  <2>3. "Woken" \in Points
    BY DEF Points
  <2>4. Settled(s)' \/ unseen'[s]
    BY <1>2, <1>4, <2>1, <2>2 DEF Turns, Told
  <2> QED
    BY <1>0, <1>1, <1>3, <2>1, <2>2, <2>3, <2>4, QuietTurn
<1>7. CASE CheckVersion(s)
  <2>1. pc[s] = "Woken" /\ pc' = [pc EXCEPT ![s] = IF unseen[s] THEN "Changed" ELSE "Watching"]
    BY <1>7 DEF CheckVersion
  <2>2. unseen' = unseen /\ notice' = notice
    BY <1>7 DEF CheckVersion
  <2>3. CASE unseen[s]
    <3>1. "Changed" \in Points /\ pc' = [pc EXCEPT ![s] = "Changed"]
      BY <2>1, <2>3 DEF Points
    <3> QED
      BY <1>0, <1>1, <1>3, <2>1, <2>2, <3>1, QuietTurn
  <2>4. CASE ~ unseen[s]
    <3>1. "Watching" \in Points /\ pc' = [pc EXCEPT ![s] = "Watching"]
      BY <2>1, <2>4 DEF Points
    <3>2. Settled(s)'
      BY <1>2, <2>1, <2>4 DEF Turns
    <3> QED
      BY <1>0, <1>1, <1>3, <2>1, <2>2, <3>1, <3>2, QuietTurn
  <2> QED
    BY <2>3, <2>4
<1> QED
  BY <1>5, <1>6, <1>7

(* Coming and going.                                                       *)
LEMMA ComeTurn ==
  ASSUME QueryInv, Turns, ~ parallel, NEW s \in Stream, Subscribe(s) \/ Drop(s)
  PROVE  Turns'
<1>0. /\ pc \in [Stream -> Points] /\ notice \in [Stream -> BOOLEAN]
      /\ unseen \in [Stream -> BOOLEAN] /\ emitted \in [Stream -> Snapshots]
  BY DEF QueryInv, Types, PlaceTypes, VersionTypes, EmittedType
<1>1. /\ UNCHANGED <<current, dataGen, status, fetching, inFlight, errorGen>>
      /\ invalidator' = invalidator
  BY DEF Subscribe, Drop, cellVars
<1>2. invalidator = "Idle" /\ \A u \in Stream : pc[u] \in AwaitPoints
  BY DEF Subscribe, Drop, MayRun, NobodyRuns
<1>3. \A u \in Stream : u # s =>
        emitted'[u] = emitted[u] /\ unseen'[u] = unseen[u] /\ notice'[u] = notice[u]
  BY <1>0 DEF Subscribe, Drop
<1>4. PICK p \in {"Joined", "Off"} : pc' = [pc EXCEPT ![s] = p]
  BY DEF Subscribe, Drop
<1>5. p \in Points \ {"Number", "Notify"} /\ p # "Watching" /\ p # "Woken"
  BY DEF Points
<1>6. pc[s] \notin {"Number", "Notify"}
  BY <1>2 DEF AwaitPoints
<1> QED
  BY <1>0, <1>1, <1>2, <1>3, <1>4, <1>5, <1>6, QuietTurn

(* A fetch that ends tells the others; one that commits answers the last   *)
(* invalidation.                                                           *)
LEMMA CompleteTurn ==
  ASSUME QueryInv, Turns, ~ parallel, NEW s \in Stream,
         CompleteSuccess(s) \/ CompleteError(s)
  PROVE  Turns'
<1>0. /\ pc \in [Stream -> Points] /\ after \in [Stream -> Points]
      /\ emitted \in [Stream -> Snapshots] /\ current \in Gen
  BY DEF QueryInv, Types, PlaceTypes, CellTypes, EmittedType
<1>1. /\ pc' = [pc EXCEPT ![s] = "Number"]
      /\ after' = [after EXCEPT ![s] = AfterCompletion(s)]
      /\ UNCHANGED <<current, invalidator>>
  BY DEF CompleteSuccess, CompleteError
<1>2. invalidator' = "Idle" /\ \A u \in Stream : u # s => pc[u] \in AwaitPoints
  BY <1>1 DEF CompleteSuccess, CompleteError, MayRun, NobodyRuns
<1>3. "Number" \in Points
  BY DEF Points
<1>4. /\ OneTurn' /\ pc'[s] = "Number"
      /\ \A u \in Stream : pc'[u] \in {"Woken", "Number", "Notify"} => u = s
  BY <1>0, <1>1, <1>2, <1>3, TurnPassed
<1>5. Numbering'
  BY <1>4 DEF Numbering
<1>6. dataGen' <= current'
  <2>1. dataGen' = dataGen \/ dataGen' = current
    BY DEF CompleteSuccess, CompleteError, Committed
  <2> QED
    BY <1>0, <1>1, <2>1, QueryAssumption DEF Turns, Gen
<1>7. after'[s] = "Watching" => Settled(s)'
  <2> SUFFICES ASSUME after'[s] = "Watching" PROVE Settled(s)'
    OBVIOUS
  <2>1. Committed(s)
    BY <1>0, <1>1 DEF AfterCompletion
  <2>2. dataGen' = current \/ errorGen' = current
    BY <2>1 DEF CompleteSuccess, CompleteError, Committed
  <2>3. emitted' = [emitted EXCEPT ![s] = Snapshot']
    BY <2>1 DEF CompleteSuccess, CompleteError
  <2> QED
    BY <1>0, <1>1, <2>2, <2>3 DEF Settled, Heeded
<1> QED
  BY <1>4, <1>5, <1>6, <1>7 DEF Turns, Told

(* invalidate runs in one turn and reaches every stream.                   *)
LEMMA InvalidateTurn ==
  ASSUME QueryInv, Turns, ~ parallel, Invalidate \/ InvalidateNumber \/ InvalidateNotify
  PROVE  Turns'
<1>0. current \in Gen /\ dataGen \in Gen \cup {NoGen}
  BY DEF QueryInv, Types, CellTypes
<1>1. /\ UNCHANGED <<dataGen, status, fetching, inFlight, errorGen>>
      /\ UNCHANGED <<pc, after, emitted>>
  BY DEF Invalidate, InvalidateNumber, InvalidateNotify, cellVars, streamVars
<1>2. \A u \in Stream : pc[u] \in AwaitPoints
  BY DEF Invalidate, InvalidateNumber, InvalidateNotify, MayRun, NobodyRuns, Turns, OneTurn,
         Running
<1>3. OneTurn' /\ \A u \in Stream : pc'[u] \notin {"Woken", "Number", "Notify"}
  BY <1>1, <1>2 DEF OneTurn, Running, AwaitPoints
<1>4. dataGen' <= current'
  <2>1. current' = current \/ current' = current + 1
    BY DEF Invalidate, InvalidateNumber, InvalidateNotify, cellVars
  <2> QED
    BY <1>0, <1>1, <2>1, QueryAssumption DEF Turns, Gen, NoGen
<1>5. ASSUME NEW u \in Stream, pc'[u] = "Watching"
      PROVE  Settled(u)' \/ Told(u)'
  <2>1. CASE Invalidate
    BY <2>1 DEF Invalidate, Told, Numbering
  <2>2. CASE InvalidateNumber
    <3>1. invalidator' = "Notify" /\ unseen'[u]
      BY <1>1, <1>5, <2>2 DEF InvalidateNumber, Advance, Live
    <3> QED
      BY <3>1 DEF Told, Notifying
  <2>3. CASE InvalidateNotify
    <3>1. notice'[u]
      BY <1>1, <1>5, <2>3 DEF InvalidateNotify, Live
    <3>2. ~ Numbering
      BY <1>2, <2>3 DEF InvalidateNotify, Numbering, AwaitPoints
    <3>3. Settled(u) \/ unseen[u]
      BY <1>1, <1>5, <3>2 DEF Turns, Told
    <3>4. (Settled(u)' <=> Settled(u)) /\ unseen'[u] = unseen[u]
      BY <1>1, <2>3 DEF InvalidateNotify, Settled, Heeded, Snapshot, cellVars
    <3> QED
      BY <3>1, <3>3, <3>4 DEF Told
  <2> QED
    BY <2>1, <2>2, <2>3
<1> QED
  BY <1>3, <1>4, <1>5 DEF Turns

(* Time, and a step that changes nothing.                                  *)
LEMMA RestTurn ==
  ASSUME QueryInv, Turns, DataAges \/ CacheTimeElapses \/ UNCHANGED vars
  PROVE  Turns'
<1>1. /\ UNCHANGED <<current, dataGen, status, fetching, inFlight, errorGen>>
      /\ UNCHANGED <<pc, after, unseen, notice, emitted, invalidator>>
  BY DEF DataAges, CacheTimeElapses, cellVars, streamVars, vars
<1> QED
  BY <1>1 DEF Turns, OneTurn, Running, Settled, Told, Numbering, Notifying, Heeded, Snapshot

(* Eviction: nobody observes the cell.                                     *)
LEMMA GcTurn ==
  ASSUME QueryInv, Turns, Gc
  PROVE  Turns'
<1>1. \A u \in Stream : pc[u] = "Off"
  BY GcStep DEF LiveStreams
<1>2. pc' = pc /\ dataGen' = NoGen /\ current' = 0
  BY DEF Gc, streamVars
<1>3. dataGen' <= current'
  BY <1>2 DEF NoGen
<1> QED
  BY <1>1, <1>2, <1>3 DEF Turns, OneTurn, Running, AwaitPoints

(* No step between two awaits loses a change.                              *)
LEMMA NextTurn == QueryInv /\ TurnInv /\ [Next]_<<vars, parallel>> => TurnInv'
<1> SUFFICES ASSUME QueryInv, Turns, ~ parallel, [Next]_<<vars, parallel>> PROVE Turns'
  BY DEF TurnInv, Next
<1>1. ASSUME NEW s \in Stream,
             StreamNext(s) \/ Subscribe(s) \/ CompleteSuccess(s) \/ CompleteError(s) \/ Drop(s)
      PROVE  Turns'
  BY <1>1, ReconcileTurn, NumberTurn, NotifyTurn, WakeTurn, ComeTurn, CompleteTurn DEF StreamNext
<1>2. CASE ClientNext
  BY <1>2, InvalidateTurn, RestTurn, GcTurn DEF ClientNext
<1>3. CASE Idle \/ UNCHANGED vars
  BY <1>3, RestTurn DEF Idle
<1> QED
  BY <1>1, <1>2, <1>3 DEF Next

(* INV-1 and section 5.10 on a current-thread runtime, for any streams and *)
(* invalidations: at rest the last invalidation is answered and every live *)
(* stream has yielded the state of the cell.                               *)
THEOREM TurnsComplete == Spec => []TurnsConverge
<1>1. Init => TurnInv
  BY DEF Init, TurnInv, Turns, OneTurn, Running, AwaitPoints, NoGen
<1>2. TurnInv => TurnsConverge
  <2> SUFFICES ASSUME Turns, AtRest, NEW s \in Stream, Live(s) PROVE Settled(s)
    BY DEF TurnInv, TurnsConverge, InvalidationHeeded, Settled, Heeded
  <2>1. pc[s] = "Watching" /\ ~ notice[s] /\ ~ Numbering /\ ~ Notifying
    BY DEF AtRest, Live, Numbering, Notifying
  <2> QED
    BY <2>1 DEF Turns, Told
<1> QED
  BY <1>1, <1>2, NextTurn, QueryInvariance, PTL DEF Spec
=============================================================================
