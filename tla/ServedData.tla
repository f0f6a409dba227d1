---- MODULE ServedData ----
(***************************************************************************)
(* What the live-update machinery promises to whoever reads the engine's   *)
(* two bundles (internal/engine: the graph bundle and the timetable        *)
(* bundle), whatever threads, locks, caches and failures lie behind it.    *)
(*                                                                         *)
(* A bundle changes in one step.  A graph is replaced only by one at a     *)
(* later replication sequence.  A timetable is replaced only by one        *)
(* compiled from no older version of every feed, against no older graph,   *)
(* and never from data nobody has published.                               *)
(***************************************************************************)
EXTENDS Naturals

CONSTANT Feeds         \* the configured GTFS sources

VARIABLES
  upstream,            \* upstream[f]: newest version its agency has published
  remoteSeq,           \* newest OSM diff the replication server has published
  graphSeq,            \* replication sequence of the graph bundle
  ttFeeds,             \* ttFeeds[f]: version of f inside the timetable bundle
  ttAnchor             \* sequence of the graph its stops are anchored to

vars == <<upstream, remoteSeq, graphSeq, ttFeeds, ttAnchor>>

Init ==
  /\ upstream \in [Feeds -> Nat]
  /\ remoteSeq \in Nat
  /\ graphSeq \in Nat
  /\ ttFeeds \in [Feeds -> Nat]
  /\ ttAnchor = graphSeq
  /\ graphSeq <= remoteSeq
  /\ \A f \in Feeds : ttFeeds[f] <= upstream[f]

\* The outside world publishes: what is served does not change.
Publish ==
  /\ upstream' \in [Feeds -> Nat]
  /\ \A f \in Feeds : upstream[f] <= upstream'[f]
  /\ remoteSeq' \in Nat
  /\ remoteSeq <= remoteSeq'
  /\ UNCHANGED <<graphSeq, ttFeeds, ttAnchor>>

ReplaceGraph ==
  /\ graphSeq' \in Nat
  /\ graphSeq < graphSeq'
  /\ graphSeq' <= remoteSeq
  /\ UNCHANGED <<upstream, remoteSeq, ttFeeds, ttAnchor>>

ReplaceTimetable ==
  /\ ttFeeds' \in [Feeds -> Nat]
  /\ \A f \in Feeds : ttFeeds[f] <= ttFeeds'[f] /\ ttFeeds'[f] <= upstream[f]
  /\ ttAnchor' \in Nat
  /\ ttAnchor <= ttAnchor'
  /\ ttAnchor' <= graphSeq
  /\ UNCHANGED <<upstream, remoteSeq, graphSeq>>

Next == Publish \/ ReplaceGraph \/ ReplaceTimetable

Spec == Init /\ [][Next]_vars
====
