------------------------------ MODULE QueryCell ------------------------------
(***************************************************************************)
(* One retained query cell and the Query streams that observe it           *)
(* (src/subscription/http/cell.rs, reconcile.rs, and the stream and the    *)
(* garbage collection of query.rs).                                        *)
(*                                                                         *)
(* The state mutex, the version counter and the watch channel are three    *)
(* synchronisation points, so an operation of a stream or of invalidate is *)
(* cut at each: its section under the mutex, then the numbering of the     *)
(* snapshot it sends, then the send.  On a multi-thread runtime the steps  *)
(* of a stream and of invalidate interleave; on a current-thread one a     *)
(* stream is interrupted at its await points only.                         *)
(*                                                                         *)
(* Versions are compared, never shown, so each stream keeps the outcome of *)
(* the comparisons: whether the counter passed the version it has seen,    *)
(* and whether it passed the one it read or was given last.                *)
(***************************************************************************)
EXTENDS Integers, FiniteSets

CONSTANTS
  Stream,      \* the Query streams of this cell's key
  MaxGen,      \* bound: how many invalidations match the cell
  MaxStarts,   \* bound: how many streams start
  Flavours     \* the runtimes considered: the values parallel may have

ASSUME QueryAssumption ==
  /\ IsFiniteSet(Stream)
  /\ MaxGen \in Nat
  /\ MaxStarts \in Nat
  /\ Flavours \subseteq BOOLEAN

NoGen == -1    \* None, which Option orders before every generation
Gen == 0..MaxGen

VARIABLES
  current,     \* current_generation
  dataGen,     \* data_generation; there is data exactly when it is not NoGen
  aged,        \* stale_time has elapsed since data_timestamp
  status,      \* status
  fetching,    \* fetch_status is Fetching
  inFlight,    \* in_flight_generation
  errorGen,    \* last_error_generation
  subscribers, \* lifecycle.subscribers
  inactive,    \* cache_time has elapsed since lifecycle.inactive_since
  pc,          \* where each stream is
  after,       \* where it goes once its snapshot is sent
  target,      \* the generation it fetches at
  unseen,      \* version > seen_version
  passed,      \* version > the version it read or was given last
  notice,      \* its watch receiver has a change to report
  emitted,     \* history: what it yielded last
  starts,      \* streams started so far, against MaxStarts
  invalidator, \* where invalidate is
  parallel     \* the runtime polls streams on several threads; it never changes

cellVars == <<current, dataGen, aged, status, fetching, inFlight, errorGen>>
lifeVars == <<subscribers, inactive>>
streamVars == <<pc, after, target, unseen, passed, notice, emitted, starts>>
vars == <<cellVars, lifeVars, streamVars, invalidator>>

Points == {"Off", "Joined", "Observe", "Number", "Notify", "Fetching", "Recheck",
           "Watching", "Woken", "Changed"}

Status == {"Pending", "Success", "Error"}

Snapshots == [status : Status, data : Gen \cup {NoGen}, stale : BOOLEAN, fetching : BOOLEAN]

(* Its observed snapshot.  Time staleness is left out of stale: no message *)
(* is sent when data merely ages.                                          *)
Snapshot == [status |-> status, data |-> dataGen,
             stale |-> dataGen # NoGen /\ dataGen < current, fetching |-> fetching]

NewSnapshot == [status |-> "Pending", data |-> NoGen, stale |-> FALSE, fetching |-> FALSE]

Init ==
  /\ current = 0
  /\ dataGen = NoGen
  /\ aged = FALSE
  /\ status = "Pending"
  /\ fetching = FALSE
  /\ inFlight = NoGen
  /\ errorGen = NoGen
  /\ subscribers = 0
  /\ inactive = FALSE
  /\ pc = [s \in Stream |-> "Off"]
  /\ after = [s \in Stream |-> "Off"]
  /\ target = [s \in Stream |-> NoGen]
  /\ unseen = [s \in Stream |-> FALSE]
  /\ passed = [s \in Stream |-> FALSE]
  /\ notice = [s \in Stream |-> FALSE]
  /\ emitted = [s \in Stream |-> NewSnapshot]
  /\ starts = 0
  /\ invalidator = "Idle"
  /\ parallel \in Flavours

(* Where a stream waits: before its first poll, in its fetcher, or in the  *)
(* watch channel.  Between two of these it runs without an await.          *)
AwaitPoints == {"Off", "Fetching", "Watching"}

NobodyRuns == invalidator = "Idle" /\ \A s \in Stream : pc[s] \in AwaitPoints

(* A stream or a caller may start to run.                                  *)
MayRun == parallel \/ NobodyRuns

Live(s) == pc[s] # "Off"

-----------------------------------------------------------------------------
(* Reconcile (reconcile.rs should_fetch, cell.rs reconcile).               *)

AlwaysTimeStale(s) == TRUE       \* mutant: a change refetches aged data as well

(* Aged data is refetched where a stream starts to observe only.           *)
TimeStaleCanFetch(s) == pc[s] = "Observe"

UnguardedFetch(s) ==             \* mutant: the in-flight slot is not consulted
  /\ dataGen < current \/ (aged /\ TimeStaleCanFetch(s))
  /\ errorGen # current

(* No data is NoGen, which is before every generation.                     *)
ShouldFetch(s) ==
  /\ dataGen < current \/ (aged /\ TimeStaleCanFetch(s))
  /\ inFlight = NoGen
  /\ errorGen # current

Reconcile(s) ==
  /\ pc[s] \in {"Observe", "Changed", "Recheck"}
  /\ IF ShouldFetch(s)
     THEN /\ inFlight' = current
          /\ target' = [target EXCEPT ![s] = current]
          /\ fetching' = TRUE
          /\ status' = IF dataGen = NoGen THEN "Pending" ELSE status
          /\ pc' = [pc EXCEPT ![s] = "Number"]
          /\ after' = [after EXCEPT ![s] = "Fetching"]
          /\ UNCHANGED unseen
     ELSE /\ pc' = [pc EXCEPT ![s] = "Watching"]
          /\ unseen' = IF pc[s] = "Changed" THEN [unseen EXCEPT ![s] = passed[s]] ELSE unseen
          /\ UNCHANGED <<inFlight, target, fetching, status, after>>
  /\ UNCHANGED <<current, dataGen, aged, errorGen, lifeVars, passed, notice, starts,
                 invalidator>>
  /\ emitted' = [emitted EXCEPT ![s] = Snapshot']

-----------------------------------------------------------------------------
(* Sending a snapshot (cell.rs send_snapshot).                             *)

(* The counter moves on: past every version held, but the one just given.  *)
Advance(given) ==
  /\ unseen' = [s \in Stream |-> Live(s)]
  /\ passed' = [s \in Stream |-> Live(s) /\ s \notin given]

Number(s) ==
  /\ pc[s] = "Number"
  /\ Advance({s})
  /\ pc' = [pc EXCEPT ![s] = "Notify"]
  /\ UNCHANGED <<cellVars, lifeVars, after, target, notice, emitted, starts, invalidator>>

(* The stream has seen the version it sent, unless it will reconcile anew. *)
Notify(s) ==
  /\ pc[s] = "Notify"
  /\ notice' = [u \in Stream |-> Live(u)]
  /\ unseen' = IF after[s] = "Recheck" THEN unseen ELSE [unseen EXCEPT ![s] = passed[s]]
  /\ pc' = [pc EXCEPT ![s] = after[s]]
  /\ UNCHANGED <<cellVars, lifeVars, after, target, passed, emitted, starts, invalidator>>

-----------------------------------------------------------------------------
(* A Query stream (query.rs stream, perform_fetch, watch_cell).            *)

LostCount == IF subscribers = 0 THEN 1 ELSE subscribers   \* mutant: a reuse is not counted

CountSubscriber == subscribers + 1

(* The shard lock of the cell map: a subscribing stream and invalidate     *)
(* hold it throughout, and gc waits for it.                                *)
ShardFree == invalidator = "Idle" /\ \A s \in Stream : pc[s] # "Joined"

Subscribe(s) ==
  /\ MayRun
  /\ pc[s] = "Off"
  /\ ShardFree
  /\ starts < MaxStarts
  /\ starts' = starts + 1
  /\ subscribers' = CountSubscriber
  /\ inactive' = FALSE
  /\ notice' = [notice EXCEPT ![s] = FALSE]
  /\ pc' = [pc EXCEPT ![s] = "Joined"]
  /\ UNCHANGED <<cellVars, after, target, unseen, passed, emitted, invalidator>>

ReadVersion(s) ==
  /\ pc[s] = "Joined"
  /\ unseen' = [unseen EXCEPT ![s] = FALSE]
  /\ pc' = [pc EXCEPT ![s] = "Observe"]
  /\ UNCHANGED <<cellVars, lifeVars, after, target, passed, notice, emitted, starts,
                 invalidator>>

Committed(s) == current = target[s]

AlwaysWatch(s) == "Watching"     \* mutant: a discarded result is not followed up

AfterCompletion(s) == IF Committed(s) THEN "Watching" ELSE "Recheck"

Release(s) == inFlight' = IF inFlight = target[s] THEN NoGen ELSE inFlight

CompleteSuccess(s) ==
  /\ MayRun
  /\ pc[s] = "Fetching"
  /\ Release(s)
  /\ IF Committed(s)
     THEN /\ dataGen' = target[s]
          /\ aged' = FALSE
          /\ status' = "Success"
          /\ fetching' = FALSE
          /\ errorGen' = NoGen
     ELSE UNCHANGED <<dataGen, aged, status, fetching, errorGen>>
  /\ pc' = [pc EXCEPT ![s] = "Number"]
  /\ after' = [after EXCEPT ![s] = AfterCompletion(s)]
  /\ UNCHANGED <<current, lifeVars, target, unseen, passed, notice, starts, invalidator>>
  /\ emitted' = IF Committed(s) THEN [emitted EXCEPT ![s] = Snapshot'] ELSE emitted

(* Retained data survives the error.                                       *)
CompleteError(s) ==
  /\ MayRun
  /\ pc[s] = "Fetching"
  /\ Release(s)
  /\ IF Committed(s)
     THEN /\ status' = "Error"
          /\ fetching' = FALSE
          /\ errorGen' = target[s]
     ELSE UNCHANGED <<status, fetching, errorGen>>
  /\ pc' = [pc EXCEPT ![s] = "Number"]
  /\ after' = [after EXCEPT ![s] = AfterCompletion(s)]
  /\ UNCHANGED <<current, dataGen, aged, lifeVars, target, unseen, passed, notice, starts,
                 invalidator>>
  /\ emitted' = IF Committed(s) THEN [emitted EXCEPT ![s] = Snapshot'] ELSE emitted

(* changed() resolves, and marks the channel's value as read.              *)
Wake(s) ==
  /\ MayRun
  /\ pc[s] = "Watching"
  /\ notice[s]
  /\ notice' = [notice EXCEPT ![s] = FALSE]
  /\ pc' = [pc EXCEPT ![s] = "Woken"]
  /\ UNCHANGED <<cellVars, lifeVars, after, target, unseen, passed, emitted, starts,
                 invalidator>>

CheckVersion(s) ==
  /\ pc[s] = "Woken"
  /\ pc' = [pc EXCEPT ![s] = IF unseen[s] THEN "Changed" ELSE "Watching"]
  /\ passed' = [passed EXCEPT ![s] = FALSE]
  /\ UNCHANGED <<cellVars, lifeVars, after, target, unseen, notice, emitted, starts,
                 invalidator>>

(* The stream is dropped at an await point, with all it holds; a later     *)
(* start of the same query is a new stream.                                *)
Drop(s) ==
  /\ MayRun
  /\ pc[s] \in {"Fetching", "Watching"}
  /\ subscribers' = IF subscribers = 0 THEN 0 ELSE subscribers - 1
  /\ inactive' = FALSE
  /\ pc' = [pc EXCEPT ![s] = "Off"]
  /\ after' = [after EXCEPT ![s] = "Off"]
  /\ target' = [target EXCEPT ![s] = NoGen]
  /\ unseen' = [unseen EXCEPT ![s] = FALSE]
  /\ passed' = [passed EXCEPT ![s] = FALSE]
  /\ notice' = [notice EXCEPT ![s] = FALSE]
  /\ emitted' = [emitted EXCEPT ![s] = NewSnapshot]
  /\ UNCHANGED <<cellVars, starts, invalidator>>

StreamNext(s) ==
  \/ Reconcile(s) \/ Number(s) \/ Notify(s) \/ ReadVersion(s)
  \/ Wake(s) \/ CheckVersion(s)

-----------------------------------------------------------------------------
(* The client (query.rs invalidate and gc) and time.                       *)

Invalidate ==
  /\ MayRun
  /\ ShardFree
  /\ current < MaxGen
  /\ current' = current + 1
  /\ invalidator' = "Number"
  /\ UNCHANGED <<dataGen, aged, status, fetching, inFlight, errorGen, lifeVars, streamVars>>

InvalidateNumber ==
  /\ invalidator = "Number"
  /\ Advance({})
  /\ invalidator' = "Notify"
  /\ UNCHANGED <<cellVars, lifeVars, pc, after, target, notice, emitted, starts>>

InvalidateNotify ==
  /\ invalidator = "Notify"
  /\ notice' = [u \in Stream |-> Live(u)]
  /\ invalidator' = "Idle"
  /\ UNCHANGED <<cellVars, lifeVars, pc, after, target, unseen, passed, emitted, starts>>

(* Eviction: the next stream of the key starts from a new cell.  Nobody    *)
(* else holds this one.                                                    *)
Gc ==
  /\ MayRun
  /\ ShardFree
  /\ subscribers = 0
  /\ inactive
  /\ inactive' = FALSE
  /\ current' = 0
  /\ dataGen' = NoGen
  /\ aged' = FALSE
  /\ status' = "Pending"
  /\ fetching' = FALSE
  /\ inFlight' = NoGen
  /\ errorGen' = NoGen
  /\ UNCHANGED <<subscribers, streamVars, invalidator>>

DataAges ==
  /\ dataGen # NoGen
  /\ ~aged
  /\ aged' = TRUE
  /\ UNCHANGED <<current, dataGen, status, fetching, inFlight, errorGen, lifeVars,
                 streamVars, invalidator>>

CacheTimeElapses ==
  /\ subscribers = 0
  /\ ~inactive
  /\ inactive' = TRUE
  /\ UNCHANGED <<cellVars, subscribers, streamVars, invalidator>>

ClientNext ==
  \/ Invalidate \/ InvalidateNumber \/ InvalidateNotify
  \/ Gc \/ DataAges \/ CacheTimeElapses

-----------------------------------------------------------------------------

(* Every stream waits and has nothing to wake for.                         *)
AtRest ==
  /\ invalidator = "Idle"
  /\ \A s \in Stream : pc[s] = "Off" \/ (pc[s] = "Watching" /\ ~notice[s])

Idle == AtRest /\ UNCHANGED vars

Next ==
  /\ \/ \E s \in Stream :
          StreamNext(s) \/ Subscribe(s) \/ CompleteSuccess(s) \/ CompleteError(s) \/ Drop(s)
     \/ ClientNext
     \/ Idle
  /\ UNCHANGED parallel

(* A stream that runs or was notified is polled again, and invalidate      *)
(* returns.  No fetcher has to answer, and nobody has to come or go.       *)
Fairness ==
  /\ \A s \in Stream : WF_vars(StreamNext(s))
  /\ WF_vars(InvalidateNumber \/ InvalidateNotify)

Spec == Init /\ [][Next]_<<vars, parallel>> /\ Fairness
=============================================================================
