---- MODULE SharedRides ----
(***************************************************************************)
(* Rides on streets that the planner asks for: the road modes (engine/     *)
(* plan.go planRoad), and the rentals (engine/shared.go): estimated as the *)
(* crow flies while the access sets are built, routed and checked again    *)
(* once a journey uses them.  The GBFS manager may have published another  *)
(* snapshot in between.                                                    *)
(*                                                                         *)
(* A network brings systems, the snapshots of one bike share, and stopAt,  *)
(* the points of its stops.                                                *)
(***************************************************************************)
EXTENDS Journeys, StreetSearch, Rental

CONSTANT Cfg  \* the configuration, see MCPlanner

VARIABLES
  bikes,   \* the published snapshot: which of net.systems
  before   \* history: the one before it, within this network

System == net.systems[bikes]

\* A position, or none, at whole metres along the streets that it is snapped to: Far is
\* beyond every one.
Place(p) ==
  /\ p.x \in -1..(Far - 1)
  /\ \A mode \in StreetModes : LET sn == p.snaps[mode]
                               IN  sn # NoSnap => {sn.alongU, sn.alongV, sn.perp} \in SUBSET Nat

\* Rules in the order in which they count, with speeds that are not negative.
Ruled(rules) == rules \in Seq(ToSet(rules)) /\ \A rule \in ToSet(rules) : rule.cap \in Nat

\* What parse.go makes of the documents: entities without an id are left out,
\* a type is filed under its own, and a feed without a catalogue has the legacy
\* type, which every vehicle of an unknown type then gets.
WellFormed(f) ==
  /\ IsFiniteSet(DOMAIN f.types) /\ IsFiniteSet(DOMAIN f.pool) /\ IsFiniteSet(DOMAIN f.fleet)
  /\ "" \notin (DOMAIN f.types) \cup (DOMAIN f.pool) \cup (DOMAIN f.fleet)
  /\ \A id \in DOMAIN f.types : f.types[id].id = id /\ f.types[id].motor \in BOOLEAN
  /\ \A id \in DOMAIN f.pool : Place(f.pool[id].at) /\ f.pool[id].bikes \in Nat
  /\ \A id \in DOMAIN f.fleet :
       LET v == f.fleet[id]
       IN  /\ Place(v.at) /\ v.range \in Nat /\ v.type # ""
           /\ LegacyType \in DOMAIN f.types => v.type \in DOMAIN f.types
  /\ Ruled(f.rules) /\ f.zones \in Seq(ToSet(f.zones)) /\ \A z \in ToSet(f.zones) : Ruled(z.rules)

\* What Load checks (config.go:500): speeds and durations are not negative.
ASSUME RentalConfigAssumption ==
  /\ \A mode \in {"foot", "bike", "scooter"} : Cfg.speed[mode] \in Nat
  /\ Cfg.maxTransfers \in Nat /\ Cfg.candidates \in Nat
  /\ Cfg.unlock \in Nat /\ Cfg.park \in Nat
  /\ {Cfg.slack, Cfg.railEntry, Cfg.railTransfer} \in SUBSET Nat /\ Cfg.margin \in Int /\ Cfg.widen \in Int

\* What the graph is built from (build.go), and the stops' anchors to it; x[i] is where
\* its node i lies.
ASSUME StreetsAssumption ==
  \A n \in Networks :
    /\ n.street.nodes \in Nat /\ Len(n.street.edges) \in Nat
    /\ \A e \in 1..Len(n.street.edges) : LET edge == n.street.edges[e]
                                       IN  edge.to \in 1..n.street.nodes /\ {edge.meters, edge.speed} \in SUBSET Nat
    /\ n.x \in Seq(Int) /\ Len(n.x) = n.street.nodes /\ \A i \in 2..Len(n.x) : n.x[i - 1] < n.x[i]
    /\ DOMAIN n.anchors = 1..n.tt.nstops
    /\ \A s \in DOMAIN n.anchors : \A a \in ToSet(n.anchors[s]) : a.node \in 1..n.street.nodes /\ a.meters \in Nat

ASSUME FeedsAssumption ==
  \A n \in Networks : \A id \in DOMAIN n.systems : n.systems[id] = NoFeed \/ WellFormed(n.systems[id])

-----------------------------------------------------------------------------
(* planRoad: A* towards the destination, its straight line weighted.       *)

\* Scooters ride where bikes may.
StreetMode(mode) == IF mode = "scooter" THEN "bike" ELSE mode

\* Per hundred of the least cost that the straight line may have.
Weight(mode) == IF mode = "car" THEN 120 ELSE IF mode = "foot" THEN 105 ELSE 110

Beeline(n, point) == LET d == net.x[n] - point.x IN IF d < 0 THEN -d ELSE d

\* A car goes at most 130 km/h, the other modes at their own speed.
HeuristicTo(point, mode) ==
  [n \in 1..net.street.nodes |->
     IF mode = "car" THEN (Weight(mode) * 36 * Beeline(n, point)) \div (100 * 130)
     ELSE (Weight(mode) * Cfg.speed[mode] * Beeline(n, point)) \div (100 * Frac)]

RoadFrom(search, from, to, mode) ==
  LET on == StreetMode(mode)
      sf == Cfg.speed[mode]
  IN  IF from.snaps[on] = NoSnap \/ to.snaps[on] = NoSnap THEN [s |-> search, best |-> Far]
      ELSE RoadRoute(search, net.street, SrcSeeds(net.street, from.snaps[on], on, sf),
                     DstSeeds(net.street, to.snaps[on], on, sf), on, sf, HeuristicTo(to, mode))

-----------------------------------------------------------------------------
(* Estimates                                                               *)

\* What is asked of the bike search: the faster of both when any will do.
RideMode(class) == IF class = "scooter" THEN "scooter" ELSE "bike"
ReachMode(class) ==
  IF class = "any" /\ Cfg.speed["scooter"] < Cfg.speed["bike"] THEN "scooter" ELSE RideMode(class)

Ceil(n, d) == (n + d - 1) \div d
WalkRadius(sec) == (sec * 10 * Frac) \div Cfg.speed["foot"]

\* Metres with the reserve, of hundredths of a metre.
Required(hundredths) == Ceil(hundredths * (100 + Cfg.reserveRatio), 10000) + Cfg.reserve

\* Seconds to walk, unlock, ride, park and walk, with allowances for detours.
EstimateSec(a, from, to) ==
  Ceil(115 * Cfg.speed["foot"] * (Metres(from, a.from) + Metres(a.to, to))
         + 125 * Cfg.speed[RideMode(a.class)] * Metres(a.from, a.to), 1000 * Frac)
  + Cfg.unlock + Cfg.park

\* The nearest few; the order of equals is that of a map.
Nearest(offers, point, PlaceIn(_)) ==
  CHOOSE few \in kSubset(Less(Cardinality(offers), Cfg.candidates), offers) :
    \A a \in few, b \in offers \ few : Metres(point, PlaceIn(a)) <= Metres(point, PlaceIn(b))

\* Chains that pass the check as the crow flies.
Chains(from, to, class, at) ==
  LET starts == Nearest(Pickups(System, class, from, WalkRadius(Cfg.pickupWalk), at), from, LAMBDA a : a.from)
      ends   == UNION {Nearest(Dropoffs(System, a, to, WalkRadius(Cfg.dropoffWalk), at), to, LAMBDA d : d.to)
                         : a \in starts}
  IN  {a \in ends : /\ Available(System, a, Required(125 * Metres(a.from, a.to)), at)
                    /\ PathAllowed(System, a.type, <<a.from.x, a.to.x>>, at)}

NoPlan == [sec |-> Far]
Quickest(plans) == IF plans = {} THEN NoPlan ELSE CHOOSE x \in plans : \A y \in plans : x.sec <= y.sec

\* estimateShared
EstimateShared(from, to, class, at) ==
  Quickest({[sec |-> EstimateSec(a, from, to), a |-> a] : a \in Chains(from, to, class, at)})

InReach(plans, stops) ==
  Restrict(plans, {s \in stops : plans[s] # NoPlan /\ plans[s].sec * 10 <= Cfg.reach["bike"]})

\* sharedAccessSet: for the stops that a bike of one's own could reach.
SharedPlans(stops, point, toStop, class, at) ==
  InReach([s \in stops |-> EstimateShared(IF toStop THEN point ELSE net.stopAt[s],
                                          IF toStop THEN net.stopAt[s] ELSE point, class, at)], stops)

-----------------------------------------------------------------------------
(* sharedLegs: the chain, leg by leg, at the time at which it is ridden.   *)

\* The streets of these networks keep to the line: a route passes the nodes
\* between its ends.
Polyline(a, b) ==
  LET between == Among(net.x, {n \in ToSet(net.x) : (a < n /\ n < b) \/ (b < n /\ n < a)})
  IN  <<a>> \o (IF a < b THEN between ELSE Reverse(between)) \o <<b>>

\* geofencedRideSeconds: no faster than the rule in the middle of each segment.
RideUnits(a, xs, at) ==
  LET sf == Cfg.speed[RideMode(a.class)]
      Slowest(cap) == IF cap > sf THEN cap ELSE sf
      Units(i) == (IF xs[i] < xs[i + 1] THEN xs[i + 1] - xs[i] ELSE xs[i] - xs[i + 1])
                  * Slowest(MaximumSpeed(System, a.type, (xs[i] + xs[i + 1]) \div 2, at))
  IN  FoldLeft(LAMBDA sum, i : sum + Units(i), 0, [i \in 1..(Len(xs) - 1) |-> i])

\* Mutant: what the estimate found is taken for granted.
MutStillHolds(a, metres, xs, at) == TRUE

\* The range must do for the routed distance.
StillHolds(a, metres, xs, at) ==
  Available(System, a, Required(100 * metres), at) /\ PathAllowed(System, a.type, xs, at)

\* Legs are added to a chain [s, ok, at, rental]: the road search after it,
\* whether it holds, when it ends.  A step that fails ends it.
Strolled(chain, route, limit) ==
  [chain EXCEPT !.s = route.s, !.ok = route.best < Far /\ route.best \div 10 <= limit,
                !.at = @ + route.best \div 10]

\* A walk of at most so many seconds, none when the ends are a step apart.
ThenWalk(chain, from, to, limit) ==
  IF ~chain.ok \/ Metres(from, to) < 2 THEN chain
  ELSE Strolled(chain, RoadFrom(chain.s, from, to, "foot"), limit)

\* range: the metres of the route.
Rolled(chain, a, goal, start, route, range, xs) ==
  IF route.best >= Far THEN [chain EXCEPT !.s = route.s, !.ok = FALSE]
  ELSE [chain EXCEPT !.s = route.s, !.ok = StillHolds(a, range, xs, start),
                     !.at = @ + Ceil(RideUnits(a, xs, start), 10 * Frac) + Cfg.unlock + Cfg.park,
                     !.rental = <<[a |-> a, range |-> Required(100 * range), goal |-> goal,
                                   start |-> start, on |-> bikes]>>]

OnRoad(chain, a, goal, start, route) ==
  Rolled(chain, a, goal, start, route, (route.best * Frac) \div Cfg.speed[RideMode(a.class)],
         Polyline(a.from.x, a.to.x))

ThenRide(chain, a, goal, start) ==
  IF ~chain.ok \/ Metres(a.from, a.to) < 2 THEN [chain EXCEPT !.ok = FALSE]
  ELSE OnRoad(chain, a, goal, start, RoadFrom(chain.s, a.from, a.to, RideMode(a.class)))

SharedLegs(search, plan, from, to, start) ==
  ThenWalk(ThenRide(ThenWalk([s |-> search, ok |-> TRUE, at |-> start, rental |-> <<>>],
                             from, plan.a.from, Cfg.pickupWalk),
                    plan.a, to, start),
           plan.a.to, to, Cfg.dropoffWalk)

\* What tells rentals apart, and itineraries that use them.
RentalSignature(a) == <<a.vehicle, a.type, a.station, a.dock>>
====
