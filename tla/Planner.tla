---- MODULE Planner ----
(***************************************************************************)
(* The engine's planner (engine/plan.go, live.go, legs.go): a request      *)
(* searches the streets around its ends, runs RAPTOR for each variant of   *)
(* access and egress, ranks what comes back and answers.  An arrive-by     *)
(* request looks for its departure by bisection over such runs.  One       *)
(* pooled search state of each kind serves request after request, until    *)
(* the updater installs another network with pools of its own.             *)
(*                                                                         *)
(* Instants count in seconds from day 0 of the network's time zone.        *)
(***************************************************************************)
EXTENDS SharedRides

CONSTANTS
  Requests(_),   \* the requests that a network gets
  Fragility(_),  \* the expected cost of missing a trip's connection (risk.go)
  MaxAsked,      \* requests answered by one network (a bound)
  MaxSwaps       \* overlays swapped while they are (a bound)

\* A request is [kind, from, to, when, bike, class, num, est], kind being
\* "forward", "arriveBy", "onboard" or "road"; class that of a shared vehicle,
\* "" when there is to be none; est the arrive-by search's first estimate of
\* the travel time.  An onboard one has seeds (stop -> arrival) and current,
\* the ride [trip, from]; a road one a mode and arriveBy.
\* A point is [x, snaps]: where it lies, and its snap for each mode.

ASSUME PointsAssumption ==
  \A n \in Networks :
    /\ \A s \in DOMAIN n.anchors : Place(n.stopAt[s])
    /\ \A look \in n.looks : Place(look.from) /\ Place(look.to)
    /\ \A r \in Requests(n.name) : Place(r.to) /\ (r.kind # "onboard" => Place(r.from))

\* Instants are whole seconds; the seeds of an onboard request are stops of the timetable.
Snapped(n, point) ==
  \A mode \in StreetModes :
    LET sn == point.snaps[mode]
    IN  sn # NoSnap => /\ {sn.u, sn.v} \in SUBSET (1..n.street.nodes)
                       /\ {Either(sn.fwd, 1), Either(sn.bwd, 1)} \in SUBSET (1..Len(n.street.edges))

ASSUME RequestsAssumption ==
  \A n \in Networks : \A r \in Requests(n.name) :
    /\ r.when \in Int /\ Snapped(n, r.to)
    /\ IF r.kind = "onboard" THEN DOMAIN r.seeds \in SUBSET (1..n.tt.nstops) /\ \A s \in DOMAIN r.seeds : r.seeds[s] \in Int
       ELSE /\ Snapped(n, r.from) /\ (r.kind = "arriveBy" => r.est \in Int)
            /\ r.kind = "road" => r.mode \in StreetModes \cup {"scooter"}

VARIABLES
  asked, swaps,        \* requests and swaps so far, of this network
  req, phase,          \* the request, and whether it is being answered
  near, road,          \* the pooled street searches
  access,              \* the access sets, see AccessSets
  todo, depart,        \* the variants still to run, and for which departure
  found,               \* the itineraries assembled so far
  walkBest,            \* the best arrival of the walking variant, 0 when unknown
  hunt,                \* the arrive-by search
  answer

bounds == <<asked, swaps>>
searches == <<near, road>>
progress == <<access, todo, depart, found, walkBest, hunt>>
planVars == <<bounds, req, phase, searches, progress, answer>>
published == <<bikes, before>>
vars == <<net, heard, ov, swapped, published, raptorVars, planVars>>

NoHunt == [stage |-> "none", lo |-> 0, hi |-> 0, tries |-> 0]
NoRequest == [kind |-> "none"]
Pending == [kind |-> "pending", its |-> <<>>]
None == [kind |-> "none", its |-> <<>>]
Itineraries(its) == [kind |-> "found", its |-> its]

-----------------------------------------------------------------------------
(* Access and egress                                                       *)

\* The searches of planTransit in order: on foot from both ends, then, when a
\* bike may be taken, by bike from both ends.
Reach(search, point, mode, maxDs) ==
  LET on == StreetMode(mode)
  IN  IF point.snaps[on] = NoSnap THEN [search |-> search, sec |-> <<>>]
      ELSE ReachStops(search, net.street, net.anchors,
                      SrcSeeds(net.street, point.snaps[on], on, Cfg.speed[mode]),
                      on, Cfg.speed[mode], maxDs)

Searches(r) ==
  LET OfMode(mode) == <<[point |-> r.from, mode |-> mode], [point |-> r.to, mode |-> mode]>>
  IN  OfMode("foot") \o (IF r.bike THEN OfMode(ReachMode(r.class)) ELSE <<>>)

\* Their results in that order: access and egress on foot, access and egress by bike.
AddReach(sets, reach) == [search |-> reach.search, sets |-> Append(sets, reach.sec)]
ReachAll(search, r) ==
  FoldLeft(LAMBDA acc, x : AddReach(acc.sets, Reach(acc.search, x.point, x.mode, Cfg.reach[StreetMode(x.mode)])),
           [search |-> search, sets |-> <<>>], Searches(r))

\* A way to or from the stops: seconds per stop, and the rental when it is one.
Way(sec, plans) == [sec |-> sec, plans |-> plans]
Own(sec) == Way(sec, <<>>)
Shared(plans) == Way([s \in DOMAIN plans |-> plans[s].sec], plans)

\* A shared vehicle replaces the imaginary bike of one's own.
WaysOf(sets, r, at) ==
  LET Rented(i, point, toStop) == Shared(SharedPlans(DOMAIN sets[i], point, toStop, r.class, at))
  IN  IF ~r.bike \/ r.class = "" THEN [i \in DOMAIN sets |-> Own(sets[i])]
      ELSE <<Own(sets[1]), Own(sets[2]), Rented(3, r.from, TRUE), Rented(4, r.to, FALSE)>>

AccessSets(search, r, at) ==
  LET reach == ReachAll(search, r)
  IN  [search |-> reach.search, sets |-> WaysOf(reach.sets, r, at)]

Variant(tag, acc, egr) == [tag |-> tag, acc |-> acc, egr |-> egr]
Runs(variant) == DOMAIN variant.acc.sec # {} /\ DOMAIN variant.egr.sec # {}

\* Those with an empty access or egress are passed over.
Variants(sets) ==
  LET IfRuns(v) == Only(v, Runs(v))
  IN  IfRuns(Variant("walk", sets[1], sets[2]))
      \o (IF Len(sets) = 2 THEN <<>>
          ELSE IfRuns(Variant("bike", sets[3], sets[2])) \o IfRuns(Variant("bike", sets[1], sets[4])))

-----------------------------------------------------------------------------
(* runRaptor                                                               *)

Day(t) == t \div DaySec
BaseOf(t) == Day(t) * DaySec
ActiveOn(day) == net.calendar[day]

\* Only the departure's service day and the one before are looked at.
QueryAt(t, sources, targets) ==
  [sources |-> sources, targets |-> targets,
   today |-> ActiveOn(Day(t)), yesterday |-> ActiveOn(Day(t) - 1),
   maxRides |-> Cfg.maxTransfers + 1,
   slack |-> Cfg.slack, entry |-> Cfg.railEntry, change |-> Cfg.railTransfer]

AccessSources(t, sec) ==
  [s \in DOMAIN sec |-> [sec |-> t - BaseOf(t) + sec[s], rail |-> FALSE, arr |-> 0]]

\* PlanFromStops: seeds of the day only, each ready a moment after its arrival.
OnboardSources(r) ==
  LET base == BaseOf(r.when)
  IN  [s \in {x \in DOMAIN r.seeds : r.seeds[x] >= base} |->
         [sec |-> r.seeds[s] - base + Cfg.slack, rail |-> r.current.rail,
          arr |-> IF r.current.rail THEN r.seeds[s] - base ELSE 0]]

\* A ride that the journey times anew, from the overlay of this moment, after so many
\* seconds on foot.
TimedRide(leg, base, foot) ==
  [trip |-> leg.trip, board |-> leg.board, alight |-> leg.alight, boarded |-> FALSE, foot |-> foot,
   realtime |-> ov.hasRT[leg.trip],
   dep |-> base + TripDep(tt, ov, leg.trip, leg.board) + leg.day,
   arr |-> base + TripArr(tt, ov, leg.trip, leg.alight) + leg.day]

\* Mutant: a ride is compared with the one before, whatever leg leads to it.
MutTooLate(so, ride) == so.rides # <<>> /\ so.rides[Len(so.rides)].arr > ride.dep

\* The leg before ends after the ride leaves.  An onboard replan has no leg
\* before its first.
TooLate(so, ride) == so.timed /\ so.at > ride.dep

\* The leg to or from a stop: in the seconds that were counted on, or a rental,
\* routed and checked now.
EndLeg(search, way, stop, from, to, start) ==
  IF stop \in DOMAIN way.plans THEN SharedLegs(search, way.plans[stop], from, to, start)
  ELSE [s |-> search, ok |-> TRUE, at |-> start + way.sec[stop], rental |-> <<>>]

SignatureOf(rental) == [i \in 1..Len(rental) |-> RentalSignature(rental[i].a)]

\* assemble: the legs one after the other, timed from the access leg on.
\* street: seconds on foot since the last ride, or since the access leg.
SourceOf(j) ==
  IF j.legs[1].ride THEN tt.trips[j.legs[1].trip].stops[j.legs[1].board] ELSE j.legs[1].from

Entry(search, source, variant, t) ==
  IF variant.tag = "onboard"
  THEN [s |-> search, ok |-> TRUE, at |-> BaseOf(t) + variant.acc.sec[source].sec, rental |-> <<>>]
  ELSE EndLeg(search, variant.acc, source, req.from, net.stopAt[source], t)

AddLeg(so, leg, ride) ==
  IF leg.ride
  THEN [so EXCEPT !.ok = @ /\ ~TooLate(so, ride), !.rides = Append(@, ride), !.at = ride.arr,
                  !.timed = TRUE, !.street = 0]
  ELSE [so EXCEPT !.at = @ + leg.sec, !.timed = TRUE, !.street = @ + leg.sec]

AllLegs(entry, j, variant, t) ==
  FoldLeft(LAMBDA so, leg : AddLeg(so, leg, TimedRide(leg, BaseOf(t), so.street)),
           [ok |-> entry.ok, timed |-> variant.tag # "onboard", rides |-> <<>>, street |-> 0,
            at |-> entry.at, entry |-> entry], j.legs)

Egress(end, j, variant) ==
  IF end.ok THEN EndLeg(end.entry.s, variant.egr, j.target, net.stopAt[j.target], req.to, end.at)
  ELSE [s |-> end.entry.s, ok |-> FALSE, at |-> end.at, rental |-> <<>>]

\* out: when the access leg ends, which a rider who is aboard has not; tail: seconds
\* after the last ride.
Composed(j, variant, end, egress) ==
  [s |-> egress.s,
   it |-> [ok |-> egress.ok, arr |-> egress.at, transfers |-> j.rides - 1, rides |-> end.rides,
           sig |-> SignatureOf(end.entry.rental)
                   \o [i \in 1..Len(end.rides) |-> <<end.rides[i].trip>>] \o SignatureOf(egress.rental),
           live |-> FALSE, from |-> SourceOf(j), aboard |-> variant.tag = "onboard", out |-> end.entry.at,
           tail |-> end.street + egress.at - end.at, rentals |-> end.entry.rental \o egress.rental]]

WithEgress(j, variant, end) == Composed(j, variant, end, Egress(end, j, variant))

Assembled(search, j, variant, t) ==
  WithEgress(j, variant, AllLegs(Entry(search, SourceOf(j), variant, t), j, variant, t))

-----------------------------------------------------------------------------
(* Onboard: the ride that goes on is put back in front.                    *)

\* The ways from the stops ahead without another ride, which RAPTOR cannot
\* return: on foot, or by a rental where there is a plan.
TailOf(r, stop, at, rental, tag) ==
  [ok |-> TRUE, arr |-> at, transfers |-> 0, rides |-> <<>>, sig |-> tag, live |-> FALSE,
   from |-> stop, aboard |-> TRUE, out |-> r.seeds[stop], tail |-> at - r.seeds[stop], rentals |-> rental]

WalkTail(r, stop, way) == TailOf(r, stop, r.seeds[stop] + way.sec[stop], <<>>, <<>>)

\* Stop by stop, on the pooled road search.
AddTail(acc, r, s, chain) ==
  [s |-> chain.s,
   its |-> IF ~chain.ok THEN acc.its
           ELSE Append(acc.its, TailOf(r, s, chain.at, chain.rental, SignatureOf(chain.rental)))]

Tails(search, r, walk, rented) ==
  LET AddWalk(acc, s) == IF s \in DOMAIN walk.sec THEN [acc EXCEPT !.its = Append(@, WalkTail(r, s, walk))] ELSE acc
      AddRental(acc, s) ==
        IF s \notin DOMAIN rented.plans THEN acc
        ELSE AddTail(acc, r, s, SharedLegs(acc.s, rented.plans[s], net.stopAt[s], r.to, r.seeds[s]))
  IN  FoldLeft(LAMBDA acc, s : AddRental(AddWalk(acc, s), s),
               [s |-> search, its |-> <<>>], AscendingIn(tt.nstops, DOMAIN r.seeds))

\* retainOnboard: an itinerary continues the rider's trip as it now runs, from
\* the stop where its first leg begins; a first ride on the same trip is merged
\* into it.  Not ok when the trip no longer gets there.
RiddenOn(t, board, exit, base) ==
  [trip |-> t, board |-> board, alight |-> exit, boarded |-> TRUE, foot |-> 0, realtime |-> ov.hasRT[t],
   dep |-> base + TripDep(tt, ov, t, board), arr |-> base + TripArr(tt, ov, t, exit)]

Prepended(it, ride, rest) ==
  LET rides   == <<ride>> \o rest
      Stop(x) == PatternStops(tt, x.trip)[x.alight]
  IN  [it EXCEPT !.rides = rides, !.aboard = TRUE, !.transfers = Len(rides) - 1,
                 !.arr = IF rest = <<>> THEN ride.arr + it.tail ELSE @,
                 !.sig = [i \in 1..Len(rides) |-> <<rides[i].trip, Stop(rides[i])>>]]

\* seat: the position on the trip at which the itinerary began.
Continued(it, r, t, board, seat, merges) ==
  LET exits == IF ~merges THEN {seat}
               ELSE {p \in seat..TripLen(tt, t) : PatternStops(tt, t)[p] = PatternStops(tt, t)[it.rides[1].alight]}
  IN  IF exits = {} THEN [it EXCEPT !.ok = FALSE]
      ELSE Prepended(it, RiddenOn(t, board, MinOf(exits), r.seeds[it.from] - TripArr(tt, ov, t, seat)),
                     IF merges THEN Tail(it.rides) ELSE it.rides)

Retained(it, r) ==
  LET t     == TripIdx(tt, r.current.trip)
      stops == PatternStops(tt, t)
      board == SelectInSeq(stops, LAMBDA s : s = r.current.from)
      seats == {p \in (board + 1)..Len(stops) : stops[p] = it.from /\ stops[p] \in DOMAIN r.seeds
                                                  /\ r.seeds[stops[p]] >= r.when}
      merges == it.rides # <<>> /\ it.rides[1].foot = 0 /\ it.rides[1].trip = t
  IN  IF t = 0 THEN [it EXCEPT !.ok = FALSE]
      ELSE IF board = 0 \/ seats = {} THEN [it EXCEPT !.ok = FALSE]
      ELSE Continued(it, r, t, board, MinOf(seats), merges)

-----------------------------------------------------------------------------
(* planRoad                                                                *)

\* In whole seconds.
RoadItinerary(depart0, ds) ==
  [ok |-> TRUE, arr |-> depart0 + ds \div 10, transfers |-> 0, rides |-> <<>>, sig |-> <<>>,
   live |-> TRUE, from |-> 0, aboard |-> FALSE, out |-> depart0, tail |-> ds \div 10, rentals |-> <<>>]

-----------------------------------------------------------------------------
(* Rank                                                                    *)

\* riskOne: what the connections of its rides may cost.
MissCost(it) ==
  FoldLeft(LAMBDA sum, ride : IF ride.boarded THEN sum ELSE sum + Fragility(tt.trips[ride.trip].key),
           0, it.rides)
ExpectedArrive(it) == it.arr + MissCost(it)

RanksBefore(a, b) ==
  \/ ExpectedArrive(a) < ExpectedArrive(b)
  \/ ExpectedArrive(a) = ExpectedArrive(b) /\ a.transfers < b.transfers
  \/ ExpectedArrive(a) = ExpectedArrive(b) /\ a.transfers = b.transfers /\ a.arr < b.arr

InRank(its) ==
  FoldLeft(LAMBDA sorted, it :
             LET after == SelectInSeq(sorted, LAMBDA x : RanksBefore(it, x))
             IN  IF after = 0 THEN Append(sorted, it) ELSE InsertAt(sorted, after, it), <<>>, its)

\* dedupeRank: the first num of different signatures.
DedupeRank(its, num) ==
  FoldLeft(LAMBDA kept, it :
             IF Len(kept) >= num \/ \E i \in 1..Len(kept) : kept[i].sig = it.sig THEN kept
             ELSE Append(kept, it), <<>>, InRank(its))

\* annotateLive: a rider can count on the first ride, and on those that leave soon.
LiveEligible(ride) == ride.realtime \/ Rail(ride.trip)
Live(it, when) ==
  \A i \in 1..Len(it.rides) :
    IF i = 1 THEN LiveEligible(it.rides[1]) /\ it.rides[1].dep - when <= Cfg.liveFirst
    ELSE it.rides[i].dep - when <= Cfg.liveHorizon => LiveEligible(it.rides[i])

Annotated(its, when) == [i \in 1..Len(its) |-> [its[i] EXCEPT !.live = Live(its[i], when)]]

-----------------------------------------------------------------------------
(* Steps                                                                   *)

FreshPlanner(n) ==
  /\ asked' = 0 /\ swaps' = 0 /\ req' = NoRequest /\ phase' = "idle"
  /\ near' = NewSearch(n.street) /\ road' = NewSearch(n.street)
  /\ access' = <<>> /\ todo' = <<>> /\ depart' = 0 /\ found' = <<>> /\ walkBest' = 0
  /\ hunt' = NoHunt /\ answer' = Pending

Init ==
  /\ net \in Networks /\ heard \in net.messages /\ ov = BuildOverlay(tt, heard, net.now) /\ swapped = FALSE
  /\ bikes \in DOMAIN net.systems /\ before = bikes
  /\ RaptorInit
  /\ asked = 0 /\ swaps = 0 /\ req = NoRequest /\ phase = "idle"
  /\ near = NewSearch(net.street) /\ road = NewSearch(net.street)
  /\ access = <<>> /\ todo = <<>> /\ depart = 0 /\ found = <<>> /\ walkBest = 0
  /\ hunt = NoHunt /\ answer = Pending

\* What a query's start leaves to later steps.
Accept(r) ==
  /\ phase = "idle" /\ asked < MaxAsked
  /\ asked' = asked + 1 /\ req' = r /\ swapped' = FALSE
  /\ UNCHANGED <<net, heard, ov, swaps, published, raptorVars>>

\* Runs of RAPTOR for a departure, from nothing found.
RunFor(t, variants) ==
  /\ phase' = "run" /\ todo' = variants /\ depart' = t /\ found' = <<>> /\ walkBest' = 0

Refuse ==
  /\ phase' = "idle" /\ answer' = None
  /\ todo' = <<>> /\ depart' = 0 /\ found' = <<>> /\ walkBest' = 0 /\ hunt' = NoHunt

Unreachable(sets, bike) == ~bike /\ (DOMAIN sets[1].sec = {} \/ DOMAIN sets[2].sec = {})

FirstRuns(r, sets) ==
  LET first == r.when - r.est - Cfg.margin
  IN  /\ access' = sets
      /\ IF Unreachable(sets, r.bike) THEN Refuse
         ELSE IF r.kind = "forward" THEN RunFor(r.when, Variants(sets)) /\ hunt' = NoHunt /\ answer' = Pending
         ELSE /\ RunFor(first, Variants(sets)) /\ answer' = Pending
              /\ hunt' = [stage |-> "bracket", lo |-> first, hi |-> r.when, tries |-> 0]

\* planTransit: the access sets, then the first runs.
AskTransit(r) ==
  /\ r.kind \in {"forward", "arriveBy"} /\ Accept(r)
  /\ LET reach == AccessSets(near, r, r.when)
     IN  near' = reach.search /\ FirstRuns(r, reach.sets)
  /\ UNCHANGED road

BoardFrom(r, sources, search, foot, rented) ==
  LET Board(egr) == Variant("onboard", Own(sources), egr)
  IN  /\ near' = search /\ access' = <<Own(<<>>), foot, rented>>
      /\ IF DOMAIN foot.sec = {} /\ r.class = "" THEN Refuse
         ELSE /\ RunFor(r.when, Only(Board(foot), Runs(Board(foot))) \o Only(Board(rented), Runs(Board(rented))))
              /\ hunt' = NoHunt /\ answer' = Pending

AlsoRented(r, foot) ==
  IF r.class = "" THEN [search |-> foot.search, sec |-> <<>>]
  ELSE Reach(foot.search, r.to, ReachMode(r.class), Cfg.reach["bike"])

\* PlanFromStops: a walk to the destination, or a rental for a rider who would
\* take one.
AskOnboard(r) ==
  /\ r.kind = "onboard" /\ Accept(r)
  /\ LET sources == OnboardSources(r)
         foot    == Reach(near, r.to, "foot", Cfg.reach["foot"])
         ride    == AlsoRented(r, foot)
     IN  IF DOMAIN sources = {} THEN Refuse /\ UNCHANGED <<near, access>>
         ELSE BoardFrom(r, sources, ride.search, Own(foot.sec),
                        Shared(SharedPlans(DOMAIN ride.sec, r.to, FALSE, r.class, r.when)))
  /\ UNCHANGED road

\* planRoad
AskRoad(r) ==
  /\ r.kind = "road" /\ Accept(r)
  /\ LET route == RoadFrom(road, r.from, r.to, r.mode)
     IN  /\ road' = route.s
         /\ answer' = IF route.best >= Far THEN None
                      ELSE Itineraries(<<RoadItinerary(IF r.arriveBy THEN r.when - route.best \div 10 ELSE r.when,
                                                       route.best)>>)
  /\ phase' = "idle" /\ access' = <<>>
  /\ UNCHANGED <<near, todo, depart, found, walkBest, hunt>>

RunVariant ==
  /\ phase = "run" /\ todo # <<>>
  /\ LET v == Head(todo)
     IN  Seed(QueryAt(depart, IF v.tag = "onboard" THEN v.acc.sec ELSE AccessSources(depart, v.acc.sec), v.egr.sec))
  /\ UNCHANGED <<published, planVars>>

Running == RaptorStep /\ UNCHANGED <<published, planVars>>

Hunting == hunt.stage \in {"bracket", "check", "bisect"}
BestOf(its) == MinOf({its[i].arr : i \in 1..Len(its)})

\* A bike variant must beat the classic plan clearly.
Saves(it) == walkBest = 0 \/ it.arr + Cfg.saving <= walkBest

Gather(v, search, its) ==
  /\ found' = found \o (IF v.tag = "bike" /\ ~Hunting THEN Among(its, {it \in ToSet(its) : Saves(it)}) ELSE its)
  /\ walkBest' = IF v.tag = "walk" /\ its # <<>> THEN BestOf(its) ELSE walkBest
  /\ road' = search

SoundOf(its) == Among(its, {it \in ToSet(its) : it.ok})
GatherSound(v, all) == Gather(v, all.s, SoundOf(all.its))
Gathered(acc, x) == [s |-> x.s, its |-> Append(acc.its, x.it)]

Collect ==
  /\ phase = "run" /\ pc = "answered"
  /\ GatherSound(Head(todo), FoldLeft(LAMBDA acc, j : Gathered(acc, Assembled(acc.s, j, Head(todo), depart)),
                                      [s |-> road, its |-> <<>>], journeys))
  /\ todo' = Tail(todo) /\ pc' = "idle"
  /\ UNCHANGED <<net, heard, ov, swapped, q, round, scratch, answers>>
  /\ UNCHANGED <<published, bounds, req, phase, near, access, depart, hunt, answer>>

Collected == phase = "run" /\ todo = <<>> /\ pc = "idle"

-----------------------------------------------------------------------------
(* planTransitArriveBy                                                     *)

InTime == found # <<>> /\ BestOf(found) <= req.when

\* arrivalFor, at the departure that the hunt looks at next.
Probe(h) ==
  LET t == IF h.stage = "bisect" THEN h.lo + (h.hi - h.lo) \div 2 ELSE h.lo
  IN  /\ RunFor(t, Variants(access)) /\ hunt' = h
      /\ UNCHANGED <<net, heard, ov, swapped, published, raptorVars, bounds, req, searches, access, answer>>

\* The plan that is answered, from access sets of its own.
PlanAt(t) ==
  /\ LET reach == AccessSets(near, req, t)
         Plan(sets) == access' = sets /\ RunFor(t, Variants(sets))
     IN  near' = reach.search /\ Plan(reach.sets)
  /\ UNCHANGED <<net, heard, ov, swapped, published, raptorVars, bounds, req, road, answer>>

Narrow(h) ==
  IF h.hi - h.lo > Cfg.tolerance THEN Probe([h EXCEPT !.stage = "bisect"])
  ELSE PlanAt(h.lo) /\ hunt' = [h EXCEPT !.stage = "final"]

\* The bracket is widened up to four times, then looked at once more.
Bracket ==
  /\ Collected /\ hunt.stage = "bracket"
  /\ IF InTime THEN Probe([hunt EXCEPT !.stage = "check"])
     ELSE Probe([hunt EXCEPT !.lo = @ - Cfg.widen, !.tries = @ + 1,
                             !.stage = IF hunt.tries = 3 THEN "check" ELSE "bracket"])

Check ==
  /\ Collected /\ hunt.stage = "check"
  /\ IF InTime THEN Narrow(hunt)
     ELSE /\ phase' = "idle" /\ answer' = None
          /\ UNCHANGED <<net, heard, ov, swapped, published, raptorVars, bounds, req, searches, progress>>

\* Mutant: the bracket closes in from the wrong side.
MutHalf(h, mid, intime) == IF intime THEN [h EXCEPT !.hi = mid] ELSE [h EXCEPT !.lo = mid]

Half(h, mid, intime) == IF intime THEN [h EXCEPT !.lo = mid] ELSE [h EXCEPT !.hi = mid]

Bisect ==
  /\ Collected /\ hunt.stage = "bisect"
  /\ Narrow(Half(hunt, depart, InTime))

-----------------------------------------------------------------------------
(* The end of planTransit and of PlanFromStops.                            *)

\* Multimodal plans are compared with the direct ride, if that is short and
\* not much later: by a bike of one's own, or by another checked rental.
OwnRide ==
  LET ride == RoadFrom(road, req.from, req.to, "bike")
  IN  [s |-> ride.s, its |-> IF ride.best >= Far THEN <<>> ELSE <<RoadItinerary(depart, ride.best)>>]

AsDirect(chain) ==
  [s |-> chain.s,
   its |-> IF ~chain.ok THEN <<>>
           ELSE <<[RoadItinerary(depart, 10 * (chain.at - depart)) EXCEPT
                     !.rentals = chain.rental, !.sig = SignatureOf(chain.rental)]>>]

RideOn(plan) ==
  IF plan = NoPlan THEN [s |-> road, its |-> <<>>]
  ELSE AsDirect(SharedLegs(road, plan, req.from, req.to, depart))

WorthRiding(ride) ==
  [s |-> ride.s,
   its |-> Among(ride.its, {it \in ToSet(ride.its) :
                              /\ it.tail <= Cfg.maxDirect
                              /\ walkBest = 0 \/ it.arr <= walkBest + Cfg.directWithin})]

DirectRide ==
  WorthRiding(IF req.class = "" THEN OwnRide
              ELSE RideOn(EstimateShared(req.from, req.to, req.class, depart)))

Reply(its) ==
  LET ranked == Annotated(DedupeRank(its, req.num), depart)
      kept   == IF hunt.stage = "final" THEN Among(ranked, {it \in ToSet(ranked) : it.arr <= req.when}) ELSE ranked
  IN  answer' = IF kept = <<>> /\ req.kind # "onboard" THEN None ELSE Itineraries(kept)

Rank ==
  /\ Collected /\ ~Hunting /\ req.kind # "onboard"
  /\ LET Answered(direct) == road' = direct.s /\ Reply(found \o direct.its)
     IN  Answered(IF req.bike THEN DirectRide ELSE [s |-> road, its |-> <<>>])
  /\ phase' = "idle"
  /\ UNCHANGED <<net, heard, ov, swapped, published, raptorVars, bounds, req, near, progress>>

RetainAll(search, its) ==
  /\ road' = search
  /\ Reply(SoundOf([i \in 1..Len(its) |-> Retained(its[i], req)]))

RankOnboard ==
  /\ Collected /\ req.kind = "onboard"
  /\ LET Answered(tails) == RetainAll(tails.s, found \o tails.its)
     IN  Answered(Tails(road, req, access[2], access[3]))
  /\ phase' = "idle"
  /\ UNCHANGED <<net, heard, ov, swapped, published, raptorVars, bounds, req, near, progress>>

-----------------------------------------------------------------------------
(* Between and under requests.                                             *)

\* SetRT: at any moment, also in the middle of a scan.
SwapOverlay ==
  /\ swaps < MaxSwaps /\ swaps' = swaps + 1
  /\ heard' \in net.messages \ {heard} /\ ov' = BuildOverlay(tt, heard', net.now) /\ swapped' = TRUE
  /\ UNCHANGED <<net, published, raptorVars, asked, req, phase, searches, progress, answer>>

\* publishLocked: the GBFS manager installs another snapshot, at any moment.
SwapRentals ==
  /\ swaps < MaxSwaps /\ swaps' = swaps + 1
  /\ bikes' \in (DOMAIN net.systems) \ {bikes} /\ before' = bikes
  /\ UNCHANGED <<net, heard, ov, swapped, raptorVars, asked, req, phase, searches, progress, answer>>

\* SetGraph, SetTimetable: new bundles with new pools; what was heard is projected
\* anew (messages about other networks say nothing).
SwapBundles ==
  /\ phase = "idle" /\ (asked = MaxAsked \/ Requests(net.name) = {})
  /\ net' \in Networks /\ heard' \in {heard, <<>>} \cap net'.messages
  /\ ov' = BuildOverlay(net'.tt, heard', net'.now) /\ swapped' = FALSE
  /\ bikes' \in DOMAIN net'.systems /\ before' = bikes'
  /\ FreshRaptor(net') /\ FreshPlanner(net')

Ask == \E r \in Requests(net.name) : AskTransit(r) \/ AskOnboard(r) \/ AskRoad(r)

Next ==
  \/ Ask \/ RunVariant \/ Running \/ Collect
  \/ Bracket \/ Check \/ Bisect
  \/ Rank \/ RankOnboard
  \/ SwapOverlay \/ SwapRentals \/ SwapBundles

Spec == Init /\ [][Next]_vars

-----------------------------------------------------------------------------
(* What a request may expect.                                              *)

\* What a run costs: within the bound, the shortest walk to a stop's anchors.
ExactSec(seeds, mode, maxDs) ==
  LET d == ShortestDs(net.street, seeds, mode, Cfg.speed[mode])
      limit == Least({maxDs, MaxNearDs})
      Ds(s) == Least({Far} \cup {d[a.node] + FixedSpeedDs(a.meters, Cfg.speed[mode]) :
                                   a \in {x \in ToSet(net.anchors[s]) : d[x.node] <= limit}})
  IN  [s \in {x \in DOMAIN net.anchors : Ds(x) <= maxDs} |-> (Ds(s) + 5) \div 10]

ExactReach(point, mode, maxDs) ==
  IF point.snaps[mode] = NoSnap THEN <<>>
  ELSE ExactSec(SrcSeeds(net.street, point.snaps[mode], mode, Cfg.speed[mode]), mode, maxDs)

Fits(mode) == EdgesFit(net.street, mode, Cfg.speed[mode])

\* The pooled searches find the stops around a point, and the cheapest way to
\* each, whatever they were used for before.
WalksExact ==
  phase = "idle" /\ req.kind \in {"forward", "arriveBy"} =>
    \A i \in 1..Len(access) :
      LET x == Searches(req)[i]
      IN  (i <= 2 \/ req.class = "") /\ Fits(x.mode) => access[i].sec = ExactReach(x.point, x.mode, Cfg.reach[x.mode])

OptimalDs(r) ==
  IF r.from.snaps[r.mode] = NoSnap \/ r.to.snaps[r.mode] = NoSnap THEN Far
  ELSE LET sf == Cfg.speed[r.mode]
           d  == ShortestDs(net.street, SrcSeeds(net.street, r.from.snaps[r.mode], r.mode, sf), r.mode, sf)
       IN  Least({Far} \cup {d[t.node] + t.ds :
                   t \in {x \in ToSet(DstSeeds(net.street, r.to.snaps[r.mode], r.mode, sf)) : d[x.node] < Far}})

\* A road route is found when there is one, and costs at most its mode's weight
\* times the best ("exact" for a weight of one).
RoadBounded ==
  req.kind = "road" /\ Fits(req.mode) =>
    LET least == OptimalDs(req)
    IN  /\ (answer.kind = "none") = (least = Far)
        /\ road.heap = {}
        /\ answer.kind = "found" =>
             answer.its[1].tail \in (least \div 10)..((Weight(req.mode) * least) \div 1000)

\* An itinerary's legs follow each other in time, whatever the overlay and the GBFS
\* snapshots did while it was put together: a ride is never boarded before the walk
\* to it has ended that begins when the access leg, or the routed rental, brought the
\* rider to the first stop, or when the ride before arrived ("no longer catches this
\* ride", legs.go:79).  The change off the ride that the rider is already on is not
\* among them: its own times are put in after the connections were checked.
ItinerariesKeepTime ==
  answer.kind = "found" =>
    \A n \in 1..Len(answer.its) :
      LET it == answer.its[n]
          Leaves(i) == it.rides[i].dep - it.rides[i].foot
      IN  /\ it.rides # <<>> /\ ~it.aboard => it.out <= Leaves(1)
          /\ \A i \in 1..(Len(it.rides) - 1) : ~it.rides[i].boarded => it.rides[i].arr <= Leaves(i + 1)

-----------------------------------------------------------------------------
(* Rentals                                                                 *)

\* What Check does not look at: a vehicle docked, moved a little or without a
\* position since; other terms; a station that moved, or whose vehicles are counted
\* elsewhere; that a free-floating vehicle need no longer go to a dock.
Overlooked(f, a, to, at) ==
  LET TermsOf(type, station, home) == <<type.form, InferConstraint(type, station), home>>
      Since(station, home) == <<a.class, a.returns, a.home>> # TermsOf(f.types[a.type], station, home)
  IN  \/ a.returns = "free_floating" /\ a.dock # "" /\ ~StationOnly(f, a.type, to, at)
      \/ IF a.vehicle # ""
         THEN LET v == f.fleet[a.vehicle]
              IN  v.station # a.station \/ PlaceOf(f, v) # a.from \/ Since(v.station, v.home)
         ELSE \/ f.pool[a.station].at # a.from \/ f.pool[a.station].bikes = 0
              \/ f.types[a.type].motor \/ Since(a.station, "")
              \/ \E id \in DOMAIN f.fleet : f.fleet[id].station = a.station /\ f.fleet[id].type = a.type

OfferedBy(f, class, a, to, at) ==
  \E o \in Offers(f, class, a.from, to, Far, at) : RentalSignature(o) = RentalSignature(a)

\* "GBFS may update between the estimate and here" (shared.go): whatever was
\* published meanwhile, a rental that is answered is one that a search of the
\* snapshot of that moment offers, with the range that the routed ride needs.
RentalsStillOffered ==
  answer.kind = "found" =>
    \A n \in 1..Len(answer.its) : \A i \in 1..Len(answer.its[n].rentals) :
      LET rental == answer.its[n].rentals[i]
          f      == net.systems[rental.on]
          a      == rental.a
      IN  /\ OfferedBy(f, req.class, a, rental.goal, rental.start) \/ Overlooked(f, a, rental.goal, rental.start)
          /\ a.vehicle # "" /\ f.types[a.type].motor => f.fleet[a.vehicle].range >= rental.range

\* Pickups and Dropoffs agree with Check, which a session repeats against every
\* new snapshot: what they offer passes, unless its type is unknown; what they
\* once offered and still passes is offered still, but for what is overlooked.
CheckMatchesSearch ==
  Requests(net.name) = {} =>
    \A look \in net.looks :
      LET OffersOf(f) == Offers(f, "any", look.from, look.to, Far, look.at)
      IN  /\ \A a \in OffersOf(System) :
               Available(System, a, 0, look.at) \/ a.type \notin DOMAIN System.types
          /\ \A a \in OffersOf(net.systems[before]) :
               Available(System, a, 0, look.at) =>
                 OfferedBy(System, "any", a, look.to, look.at) \/ Overlooked(System, a, look.to, look.at)

-----------------------------------------------------------------------------
(* Arriving by a deadline                                                  *)

\* Earliest arrival of the classic plan, for a departure at t.
ClassicArrival(t) ==
  LET query  == QueryAt(t, AccessSources(t, access[1].sec), access[2].sec)
      riders == Riders(query)
  IN  BaseOf(t) + MinOf({Earliest(query, riders, k) : k \in 1..query.maxRides})

\* "latest departure whose arrival stays <= the deadline" (plan.go:436), for a
\* walking rider on one service day: nothing that leaves a tolerance later
\* would arrive in time, and when there is no answer nothing in the bracket
\* would, unless the rank had no place for it.
ArriveByLatest ==
  /\ req.kind = "arriveBy" /\ phase = "idle" /\ ~req.bike /\ ~swapped
  /\ PlainNetwork /\ hunt.stage # "none" /\ Day(hunt.lo) = Day(req.when)
  => IF answer.kind = "found"
     THEN /\ \A i \in 1..Len(answer.its) : answer.its[i].arr <= req.when
          /\ hunt.hi - hunt.lo <= Cfg.tolerance
          /\ hunt.hi < req.when => ClassicArrival(hunt.hi) > req.when
     ELSE IF hunt.stage = "final" THEN InTime
          ELSE \A t \in hunt.lo..req.when : ClassicArrival(t) > req.when

-----------------------------------------------------------------------------
(* Realtime                                                                *)

\* Whatever else was heard, a trip's delays are those of its first update, which
\* hold "from its stop onward until the next update" (overlay.go:129), a
\* cancelled trip does not run, and of a vehicle's positions the newest counts.
OverlayFaithful ==
  \A t \in Trips :
    /\ \A m \in 1..Len(heard) : \A i \in 1..Len(heard[m].trips) :
         LET tu == heard[m].trips[i]
         IN  FirstUpdate(tt, heard, t, m, i) /\ InOrder(tt, t, tu.stus) =>
               \A pos \in 1..TripLen(tt, t) :
                 ov.delta[t][pos].dep = DelayAt(tt, t, tu, pos, ServiceBase(tu.startDay, net.now))
    /\ ov.skip[t] = CancelledIn(tt, heard, t)
    /\ ov.vehTime[t] = MaxOf({0} \cup StampsOf(tt, heard, t))
====
