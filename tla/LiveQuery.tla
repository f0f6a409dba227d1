---- MODULE LiveQuery ----
(***************************************************************************)
(* A routing query (internal/engine planTransit) reading the engine's two  *)
(* bundles while the loops of internal/updater swap them.  The bundles are *)
(* separate atomic pointers, loaded one after the other; an arrive-by      *)
(* query loads both again for its search of the departure, and once more   *)
(* for the forward plan that ends it.                                      *)
(***************************************************************************)
EXTENDS Updater

CONSTANT MaxQueries   \* bound: queries in a run

VARIABLES
  queries,   \* Engine.Queries, the queries started so far
  qpc,       \* where the query stands
  arriveBy,  \* does it have an arrive-by search before it?
  qGraph,    \* sequence of the graph bundle it computes with
  qTT,       \* the timetable bundle it computes with
  access     \* the timetable its access sets index the stops of

queryVars == <<queries, qpc, arriveBy, qGraph, qTT, access>>
liveVars == <<vars, queryVars>>

Timetable == [feeds |-> ttFeeds, anchor |-> ttAnchor]
NoTimetable == [feeds |-> [f \in Feeds |-> 0], anchor |-> 0]

QueryInit ==
  /\ Init
  /\ queries = 0 /\ qpc = "idle" /\ arriveBy = FALSE
  /\ qGraph = 0 /\ qTT = NoTimetable /\ access = NoTimetable

\* Plan, planTransit: gb, then tb.
LoadGraphBundle ==
  /\ qpc = "idle"
  /\ queries < MaxQueries
  /\ queries' = queries + 1
  /\ arriveBy' \in BOOLEAN
  /\ qGraph' = graph.seq
  /\ qpc' = "graph"
  /\ UNCHANGED <<qTT, access>>

LoadTTBundle ==
  /\ qpc = "graph"
  /\ qTT' = Timetable
  /\ qpc' = "reach"
  /\ UNCHANGED <<queries, arriveBy, qGraph, access>>

\* reachStops walks the graph from the query's ends to the timetable's stops;
\* a depart-at query goes on with the same bundles.
ReachStops ==
  /\ qpc = "reach"
  /\ access' = qTT
  /\ qpc' = IF arriveBy THEN "reload" ELSE "search"
  /\ UNCHANGED <<queries, arriveBy, qGraph, qTT>>

\* planTransitArriveBy loads both bundles anew; the access sets stay.
ReloadGraphBundle ==
  /\ qpc = "reload"
  /\ qGraph' = graph.seq
  /\ qpc' = "reloadTT"
  /\ UNCHANGED <<queries, arriveBy, qTT, access>>

ReloadTTBundle ==
  /\ qpc = "reloadTT"
  /\ qTT' = Timetable
  /\ qpc' = "bracket"
  /\ UNCHANGED <<queries, arriveBy, qGraph, access>>

\* The departure is found: planTransit again, now depart-at.
PlanForward ==
  /\ qpc = "bracket"
  /\ arriveBy' = FALSE
  /\ qGraph' = graph.seq
  /\ qpc' = "graph"
  /\ UNCHANGED <<queries, qTT, access>>

\* The itineraries, or an error: nothing reachable, nothing by the deadline.
Answer ==
  /\ qpc \in {"reach", "bracket", "search"}
  /\ qpc' = "idle"
  /\ qGraph' = 0 /\ qTT' = NoTimetable /\ access' = NoTimetable
  /\ UNCHANGED <<queries, arriveBy>>

Query ==
  \/ LoadGraphBundle \/ LoadTTBundle \/ ReachStops
  \/ ReloadGraphBundle \/ ReloadTTBundle \/ PlanForward
  \/ Answer

QueryNext ==
  \/ Next /\ UNCHANGED queryVars
  \/ Query /\ UNCHANGED vars

QuerySpec == QueryInit /\ [][QueryNext]_liveVars

-----------------------------------------------------------------------------
\* "queries grab a consistent snapshot" (engine.go's package comment): the
\* timetable a query computes with is anchored to the graph it walks, and its
\* access sets name stops of that timetable.
SnapshotConsistent ==
  /\ qpc \in {"reach", "search", "bracket"} => qTT.anchor = qGraph
  /\ qpc \in {"search", "bracket"} => access = qTT
====
