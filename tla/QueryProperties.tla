--------------------------- MODULE QueryProperties ---------------------------
(***************************************************************************)
(* What a query cell promises its streams.  INV numbers are those of       *)
(* docs/rfcs/0001-http-module-redesign.md.                                 *)
(***************************************************************************)
EXTENDS QueryCell

(* Every variable has its type, and the subscriber count is the number of  *)
(* live streams, so that its decrement never underflows.                   *)
TypeOK ==
  /\ current \in Gen
  /\ dataGen \in Gen \cup {NoGen}
  /\ aged \in BOOLEAN
  /\ status \in Status
  /\ fetching \in BOOLEAN
  /\ inFlight \in Gen \cup {NoGen}
  /\ errorGen \in Gen \cup {NoGen}
  /\ subscribers = Cardinality({s \in Stream : Live(s)})
  /\ inactive \in BOOLEAN
  /\ pc \in [Stream -> Points]
  /\ after \in [Stream -> Points]
  /\ target \in [Stream -> Gen \cup {NoGen}]
  /\ unseen \in [Stream -> BOOLEAN]
  /\ passed \in [Stream -> BOOLEAN]
  /\ notice \in [Stream -> BOOLEAN]
  /\ emitted \in [Stream -> Snapshots]
  /\ starts \in 0..MaxStarts
  /\ invalidator \in {"Idle", "Number", "Notify"}
  /\ parallel \in Flavours

(* The streams that hold the in-flight slot: about to fetch, or fetching.  *)
Fetcher(s) ==
  pc[s] = "Fetching" \/ (pc[s] \in {"Number", "Notify"} /\ after[s] = "Fetching")

(* INV-2: at most one stream fetches, and the slot holds its generation,   *)
(* over invalidations, discarded results, drops and evictions.             *)
SingleFlight ==
  \A s \in Stream : Fetcher(s) =>
    /\ inFlight = target[s]
    /\ \A u \in Stream : Fetcher(u) => u = s

(* INV-8: a fetch that ends, in success, error or discard, frees the slot, *)
(* however many invalidations have passed since it took it.                *)
CompletionReleases ==
  [][\A s \in Stream : pc[s] = "Fetching" /\ pc'[s] = "Number" => inFlight' = NoGen]_vars

(* INV-1: a live stream does not lose an invalidation.  When everything is *)
(* at rest the cell has data or an error of the current generation, unless *)
(* the slot is taken.                                                      *)
InvalidationHeeded ==
  AtRest /\ (\E s \in Stream : Live(s)) =>
    dataGen = current \/ errorGen = current \/ inFlight # NoGen

(* INV-8: no cell holds an in-flight slot without completing.  At rest no  *)
(* stream is left that could release it.                                   *)
SlotReleased == AtRest => inFlight = NoGen

(* On a current-thread runtime, where nothing comes between a commit and   *)
(* the send of its snapshot, every invalidation is heeded, and the version *)
(* check only suppresses redundant re-emission (section 5.10): at rest all *)
(* live streams have yielded the state the cell is in.                     *)
TurnsConverge ==
  ~parallel =>
    /\ InvalidationHeeded
    /\ AtRest => \A s \in Stream : Live(s) => emitted[s] = Snapshot

(* INV-6: a cell with a live stream keeps its data.                        *)
ActiveKeepsData ==
  [][(\E s \in Stream : Live(s)) /\ dataGen # NoGen => dataGen' # NoGen]_vars

(* INV-9, INV-10: no stream refetches for ever.  Once nobody subscribes or *)
(* invalidates any more every stream waits, whatever its fetcher answers   *)
(* and however soon its data ages.                                         *)
QueryRests == <>[](\A s \in Stream : pc[s] \in AwaitPoints)
=============================================================================
