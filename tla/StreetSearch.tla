---- MODULE StreetSearch ----
(***************************************************************************)
(* Searches over the street network: the bounded Dijkstra that finds the   *)
(* stops around a point and the footpaths between stops (graph/search.go   *)
(* NearSearch, transit/transfers.go), and the weighted A* of the road      *)
(* modes (RoadSearch).  Search states are reused from query to query: what *)
(* they hold counts only when stamped with the epoch of the current run.   *)
(*                                                                         *)
(* A street network is [nodes, edges], an edge [from, to, modes, meters,   *)
(* speed].                                                                 *)
(***************************************************************************)
EXTENDS Integers, Sequences, FiniteSets, SequencesExt

CONSTANTS
  Frac,       \* the fixed point one of speed factors (2^16)
  Word,       \* the word in which an edge's cost is computed (2^32)
  Epochs,     \* the stamps of a search state (2^16 and 2^32)
  MaxNearDs,  \* the longest bounded search
  Far         \* larger than any cost

ASSUME WidthsAssumption ==
  /\ Frac \in Nat \ {0} /\ Word \in Nat \ {0} /\ Epochs \in Nat \ {0} /\ MaxNearDs \in Nat /\ Far \in Nat
  /\ MaxNearDs < Word \div Frac /\ Word \div Frac <= Far

Least(S) == CHOOSE x \in S : \A y \in S : x <= y

-----------------------------------------------------------------------------
(* Costs in deciseconds; sf is a speed factor, 36 / km/h in fixed point.   *)

\* EdgeDs, foot and bike: the product is taken in the width of a word.
EdgeDs(edge, sf) ==
  LET ds == ((edge.meters * sf) % Word) \div Frac
  IN  IF ds = 0 THEN 1 ELSE ds

\* EdgeDs of a car: rounded up.
CarDs(edge) ==
  LET v == IF edge.speed = 0 THEN 30 ELSE edge.speed
  IN  (edge.meters * 36 + v - 1) \div v

CostOf(edge, mode, sf) == IF mode = "car" THEN CarDs(edge) ELSE EdgeDs(edge, sf)

\* fixedSpeedDs, metersToDs: in twice the width.
FixedSpeedDs(meters, sf) == (meters * sf) \div Frac
PartialDs(edge, meters, mode, sf) ==
  IF mode = "car" THEN (meters * 36) \div (IF edge.speed = 0 THEN 30 ELSE edge.speed)
  ELSE FixedSpeedDs(meters, sf)

\* The edges that the mode may take out of a node.
EdgesOf(g, n, mode) == {e \in 1..Len(g.edges) : g.edges[e].from = n /\ mode \in g.edges[e].modes}

\* Their ends, at the cost ds of the node and that of the edge.
EndsOf(g, n, ds, mode, sf) ==
  {[node |-> g.edges[e].to, ds |-> ds + CostOf(g.edges[e], mode, sf)] : e \in EdgesOf(g, n, mode)}

-----------------------------------------------------------------------------
(* A snap is [fwd, bwd, u, v, alongU, alongV, perp]: the edges between u   *)
(* and v in both directions, 0 where there is none.                        *)

SeedAt(g, node, edge, meters, mode, sf) ==
  [node |-> node, ds |-> PartialDs(g.edges[edge], meters, mode, sf)]

Either(a, b) == IF a # 0 THEN a ELSE b
Takes(g, e, mode) == e # 0 /\ mode \in g.edges[e].modes

\* srcSeeds: along the snapped edge in the directions that the mode may take;
\* to both ends when it may take none.
SrcSeeds(g, sn, mode, sf) ==
  LET toV == SeedAt(g, sn.v, Either(sn.fwd, 1), sn.alongV + sn.perp, mode, sf)
      toU == SeedAt(g, sn.u, Either(sn.bwd, 1), sn.alongU + sn.perp, mode, sf)
      fwd == Takes(g, sn.fwd, mode)
      bwd == Takes(g, sn.bwd, mode)
  IN  IF fwd \/ bwd THEN (IF fwd THEN <<toV>> ELSE <<>>) \o (IF bwd THEN <<toU>> ELSE <<>>)
      ELSE <<SeedAt(g, sn.u, Either(sn.fwd, 1), sn.alongU + sn.perp, mode, sf),
             SeedAt(g, sn.v, Either(sn.fwd, 1), sn.alongV + sn.perp, mode, sf)>>

\* dstSeeds: from the ends where the destination's edge may be entered.
TurnedSnap(sn) ==
  [fwd |-> sn.fwd, bwd |-> sn.bwd, u |-> sn.v, v |-> sn.u, alongU |-> sn.alongV, alongV |-> sn.alongU, perp |-> sn.perp]
DstSeeds(g, sn, mode, sf) == SrcSeeds(g, TurnedSnap(sn), mode, sf)

-----------------------------------------------------------------------------
(* NearSearch: a search state is [dist, stamp, epoch, heap].                 *)

NewSearch(g) ==
  [dist |-> [n \in 1..g.nodes |-> 0], stamp |-> [n \in 1..g.nodes |-> 0], epoch |-> 0,
   heap |-> {}]

\* Mutant: a wrapped epoch revives the stamps of a run long ago.
MutNextEpoch(s) == [s EXCEPT !.epoch = (s.epoch + 1) % Epochs, !.heap = {}]

\* Epoch 0 is never used: at the wrap all stamps are cleared.
NextEpoch(s) ==
  LET epoch == (s.epoch + 1) % Epochs
  IN  IF epoch # 0 THEN [s EXCEPT !.epoch = epoch, !.heap = {}]
      ELSE [s EXCEPT !.epoch = 1, !.stamp = [n \in DOMAIN s.stamp |-> 0], !.heap = {}]

Reached(s, n) == s.stamp[n] = s.epoch

\* improve, and the push that follows it, for all seeds, or for all edges out of a
\* node: h[n] is added to the key.  Where several improve the same node only the
\* least remains; the pushes of the others would be stale.
Entered(s, ends, h) ==
  LET Better(n) == {end.ds : end \in {x \in ends : x.node = n /\ ~(Reached(s, n) /\ s.dist[n] <= x.ds)}}
      nodes == {n \in DOMAIN s.dist : Better(n) # {}}
  IN  [s EXCEPT !.stamp = [n \in DOMAIN @ |-> IF n \in nodes THEN s.epoch ELSE @[n]],
                !.dist = [n \in DOMAIN @ |-> IF n \in nodes THEN Least(Better(n)) ELSE @[n]],
                !.heap = @ \cup {<<Least(Better(n)) + h[n], n>> : n \in nodes}]

Within(ends, limit) == {end \in ends : end.ds <= limit}

Before(a, b) == a[1] < b[1] \/ (a[1] = b[1] /\ a[2] <= b[2])
Top(heap) == CHOOSE x \in heap : \A y \in heap : Before(x, y)

\* One turn of Run's loop: settle the node on top, unless the entry is stale.
\* run: [g, mode, sf, limit, h], what a run goes by; h is nothing.
Settle(s, run) ==
  LET top == Top(s.heap)
      popped == [s EXCEPT !.heap = @ \ {top}]
  IN  IF s.heap = {} THEN s
      ELSE IF ~Reached(s, top[2]) \/ s.dist[top[2]] # top[1] THEN popped
      ELSE Entered(popped, Within(EndsOf(run.g, top[2], top[1], run.mode, run.sf), run.limit), run.h)

\* The seeds, and each edge once, its source being settled once, can push.
Turns(g) == Len(g.edges) + 2

Settled(s, run) ==
  LET turn[i \in 0..Turns(run.g)] == IF i = 0 THEN s ELSE Settle(turn[i - 1], run)
  IN  IF s.heap = {} THEN s ELSE turn[Turns(run.g)]

RunNear(s, g, seeds, mode, sf, maxDs) ==
  LET run == [g |-> g, mode |-> mode, sf |-> sf, limit |-> Least({maxDs, MaxNearDs}),
              h |-> [n \in 1..g.nodes |-> 0]]
  IN  Settled(Entered(NextEpoch(s), Within(ToSet(seeds), run.limit), run.h), run)

-----------------------------------------------------------------------------
(* Stops: anchors[s] is a sequence of [node, meters], the ends of the edge *)
(* that the stop was snapped to; empty for a stop without street access.   *)

\* The cost from the run's seeds to stop s; Far when it is out of reach.
StopDs(s, anchors, stop, sf, maxDs) ==
  LET totals == {s.dist[a.node] + FixedSpeedDs(a.meters, sf) :
                   a \in {x \in ToSet(anchors[stop]) : Reached(s, x.node)}}
      within == {d \in totals : d <= maxDs}
  IN  IF within = {} THEN Far ELSE Least(within)

\* reachStops: the seconds to each stop within reach, and the search after it.
StopsAfter(run, anchors, sf, maxDs) ==
  LET Ds(stop) == StopDs(run, anchors, stop, sf, maxDs)
  IN  [search |-> run, sec |-> [stop \in {x \in DOMAIN anchors : Ds(x) < Far} |-> (Ds(stop) + 5) \div 10]]

ReachStops(s, g, anchors, seeds, mode, sf, maxDs) ==
  StopsAfter(RunNear(s, g, seeds, mode, sf, maxDs), anchors, sf, maxDs)

\* computeTransfers: per stop the footpaths to the others, in deciseconds, by
\* one search state after the other stop's.
TransfersOf(g, anchors, sf, radius) ==
  LET maxDs == FixedSpeedDs(radius, sf)
      walk[s \in 0..Len(anchors)] ==
        IF s = 0 THEN [search |-> NewSearch(g), ds |-> <<>>]
        ELSE LET before == walk[s - 1]
                 seeds  == [i \in 1..Len(anchors[s]) |->
                              [node |-> anchors[s][i].node, ds |-> FixedSpeedDs(anchors[s][i].meters, sf)]]
                 run    == RunNear(before.search, g, seeds, "foot", sf, maxDs)
             IN  IF anchors[s] = <<>>
                 THEN [before EXCEPT !.ds = Append(@, [d \in 1..Len(anchors) |-> Far])]
                 ELSE [search |-> run,
                       ds |-> Append(before.ds, [d \in 1..Len(anchors) |->
                                IF d = s THEN Far ELSE StopDs(run, anchors, d, sf, maxDs)])]
  IN  walk[Len(anchors)].ds

-----------------------------------------------------------------------------
(* RoadSearch: A* with the heuristic h(n), the least cost that the         *)
(* straight line to the target may have, weighted.                         *)

\* Mutant: the first complete route is taken for the best.
MutDone(run, key) == run.best < Far

\* No path through a node with this key can improve the best complete route.
Done(run, key) == key >= run.best

SettleRoad(run, g, targets, mode, sf, h) ==
  LET top == Top(run.s.heap)
      n   == top[2]
      s   == [run.s EXCEPT !.heap = @ \ {top}]
      ds  == s.dist[n]
      ends == {ds + t.ds : t \in {x \in ToSet(targets) : x.node = n}}
  IN  IF top[1] # ds + h[n] THEN [run EXCEPT !.s = s]
      ELSE IF Done(run, top[1]) THEN [run EXCEPT !.s.heap = {}]
      ELSE [s |-> Entered(s, EndsOf(g, n, ds, mode, sf), h), best |-> Least({run.best} \cup ends)]

\* Route, without the cap on settled nodes; heap entries carry cost and h.  A
\* weighted heuristic may settle a node again: twice the turns, which RoadBounded
\* shows to be enough.
RoadRoute(s0, g, sources, targets, mode, sf, h) ==
  LET start == Entered(NextEpoch(s0), ToSet(sources), h)
      turn[i \in 0..(2 * Turns(g))] ==
        IF i = 0 THEN [s |-> start, best |-> Far]
        ELSE LET before == turn[i - 1]
             IN  IF before.s.heap = {} THEN before ELSE SettleRoad(before, g, targets, mode, sf, h)
  IN  IF start.heap = {} THEN [s |-> start, best |-> Far] ELSE turn[2 * Turns(g)]

-----------------------------------------------------------------------------
(* The reference: the shortest of all walks.                               *)

\* The cost of an edge, were the word wide enough.
WideDs(edge, mode, sf) ==
  IF mode = "car" THEN CarDs(edge) ELSE LET ds == FixedSpeedDs(edge.meters, sf) IN IF ds = 0 THEN 1 ELSE ds

\* The ends and costs of all walks from the seeds over at most so many edges.
WalksFrom(g, seeds, mode, sf) ==
  LET edges == {e \in ToSet(g.edges) : mode \in e.modes}
      Onward(w) == {[node |-> e.to, ds |-> w.ds + WideDs(e, mode, sf)] : e \in {x \in edges : x.from = w.node}}
      walks[k \in 0..g.nodes] ==
        IF k = 0 THEN ToSet(seeds) ELSE LET before == walks[k - 1] IN before \cup UNION {Onward(w) : w \in before}
  IN  walks[g.nodes]

ShortestDs(g, seeds, mode, sf) ==
  LET walks == WalksFrom(g, seeds, mode, sf)
  IN  [n \in 1..g.nodes |-> Least({Far} \cup {w.ds : w \in {x \in walks : x.node = n}})]

\* No edge is so long that its cost does not fit the word: at 5 km/h 9.1 km,
\* though edges of up to 65 km are built (build.go:238).
EdgesFit(g, mode, sf) == \A e \in ToSet(g.edges) : mode \in e.modes => e.meters * sf < Word
====
