---- MODULE MCPlanner ----
EXTENDS Planner

-----------------------------------------------------------------------------
(* Feeds, messages, streets                                                *)

Trip(id, route, service, stops, times) ==
  [id |-> id, route |-> route, service |-> service, offMap |-> FALSE, stops |-> stops,
   arr |-> times, dep |-> times, seq |-> [i \in 1..Len(stops) |-> 10 * i]]
Off(trip) == [trip EXCEPT !.offMap = TRUE]
Feed(stops, rail, trips) == [stops |-> stops, outside |-> {}, rail |-> rail, trips |-> trips]

Update(trip, stus) == [trip |-> trip, cancelled |-> FALSE, delay |-> Absent, startDay |-> Absent, stus |-> stus]
Cancel(trip) == [Update(trip, <<>>) EXCEPT !.cancelled = TRUE]
Stu(seq) == [seq |-> seq, stop |-> 0, skipped |-> FALSE, arrDelay |-> Absent, depDelay |-> Absent,
             arrTime |-> 0, depTime |-> 0]
Late(seq, sec) == [Stu(seq) EXCEPT !.depDelay = sec]
Skips(seq) == [Stu(seq) EXCEPT !.skipped = TRUE]
ArrivesAt(stop, time) == [Stu(Absent) EXCEPT !.stop = stop, !.arrTime = time]
Bus(trip, stamp, seq) == [trip |-> trip, stamp |-> stamp, seq |-> seq]
Hears(trips, vehicles) == [feed |-> 1, timestamp |-> 4, received |-> 5, trips |-> trips, vehicles |-> vehicles]

All == {"foot", "bike", "car"}
Wheels == {"bike", "car"}
Edge(u, v, meters, modes) == [from |-> u, to |-> v, modes |-> modes, meters |-> meters, speed |-> 30]
\* A two-way street, as its two edges.
Street(u, v, meters, modes) == <<Edge(u, v, meters, modes), Edge(v, u, meters, modes)>>
At(node, meters) == [node |-> node, meters |-> meters]

\* A point beside the street of edges e (from u to v) and e + 1.
Beside(e, u, v, alongU, alongV) ==
  [fwd |-> e, bwd |-> e + 1, u |-> u, v |-> v, alongU |-> alongU, alongV |-> alongV, perp |-> 1]
Point(x, foot, wheels) == [x |-> x, snaps |-> [foot |-> foot, bike |-> wheels, car |-> wheels]]

Footpaths(street, anchors, radius) ==
  LET ds == TransfersOf(street, anchors, 56, radius)
  IN  [s \in 1..Len(anchors) |-> [d \in 1..Len(anchors) |->
        IF ds[s][d] >= Far THEN Inf ELSE (ds[s][d] \div 10) + ((ds[s][d] % 10) \div 5)]]

\* What an instance gives: messages is the set of what may have been heard,
\* systems the snapshots of its bike share; looks are made where nobody asks.
Data(name, feeds, street, x, anchors, calendar, messages) ==
  [name |-> name, feeds |-> feeds, street |-> street, x |-> x, anchors |-> anchors,
   calendar |-> calendar, messages |-> messages, systems |-> [none |-> NoFeed], stopAt |-> <<>>, looks |-> {}]

Compiled(d) ==
  [name |-> d.name, street |-> d.street, x |-> d.x, anchors |-> d.anchors, calendar |-> d.calendar,
   now |-> 5, messages |-> d.messages, systems |-> d.systems, looks |-> d.looks,
   stopAt |-> [s \in 1..Len(d.anchors) |-> IF s \in DOMAIN d.stopAt THEN d.stopAt[s] ELSE NoPoint],
   tt |-> Compile(d.feeds), foot |-> Footpaths(d.street, d.anchors, 20)]

-----------------------------------------------------------------------------
(* A town on a line: bus lines, a loop, an express, a bus at night.        *)

TownTrips ==
  <<Trip("b2", "bus", "daily", <<1, 2, 3>>, <<20, 30, 40>>),
    Trip("b1", "bus", "daily", <<1, 2, 3>>, <<10, 20, 30>>),
    Trip("l1", "loop", "daily", <<2, 4, 2, 5>>, <<22, 32, 42, 52>>),
    Trip("l2", "loop", "daily", <<2, 4, 2, 5>>, <<34, 44, 54, 64>>),
    Trip("x1", "express", "daily", <<3, 5>>, <<36, 41>>),
    Trip("x2", "express", "daily", <<3, 5>>, <<28, 34>>),
    Off(Trip("x0", "express", "daily", <<3, 5>>, <<31, 33>>)),
    Trip("w1", "west", "daily", <<3, 2, 1>>, <<10, 12, 30>>),
    Trip("n1", "night", "owl", <<1, 5>>, <<1012, 1040>>)>>

\* A ring of car roads leads to the far end of the last street.
TownStreet ==
  [nodes |-> 8,
   edges |-> Street(1, 2, 10, All) \o Street(2, 3, 150, Wheels) \o Street(3, 4, 10, All)
             \o Street(4, 5, 150, Wheels) \o Street(5, 6, 10, All) \o Street(6, 7, 10, All)
             \o Street(5, 8, 90, {"car"}) \o Street(7, 8, 135, {"car"})]

Town ==
  Data("town", <<Feed(5, {}, TownTrips)>>, TownStreet, <<0, 10, 160, 170, 320, 330, 340, 400>>,
            <<<<At(1, 6), At(2, 4)>>, <<At(3, 0)>>, <<At(4, 0)>>, <<At(5, 0)>>, <<At(6, 2), At(7, 8)>>>>,
            [d \in -2..3 |-> IF d = 0 THEN {<<1, "daily">>, <<1, "owl">>} ELSE {<<1, "daily">>}],
            {<<>>,
              <<Hears(<<Update("b1", <<Late(10, 10), Late(30, 8)>>), Update("b1", <<Late(10, 1)>>)>>,
                      <<Bus("b1", 3, 10), Bus("b1", 2, 20)>>)>>,
              <<Hears(<<Update("l1", <<Skips(20), ArrivesAt(2, 46)>>), Update("b1", <<Skips(30)>>), Cancel("x1")>>, <<>>)>>})

-----------------------------------------------------------------------------
(* A valley: a line, a branch, a bus; platforms farther apart than a       *)
(* footpath is long, and a path too long for its cost.                     *)

ValleyTrips ==
  <<Trip("r1", "line", "daily", <<1, 2, 3>>, <<0, 20, 30>>),
    Trip("r2", "branch", "daily", <<3, 4>>, <<38, 60>>),
    Trip("r3", "branch", "daily", <<3, 4>>, <<44, 66>>),
    Trip("r4", "shuttle", "daily", <<6, 4>>, <<58, 70>>),
    Trip("v1", "bus", "daily", <<2, 4>>, <<23, 64>>)>>

ValleyStreet ==
  [nodes |-> 6,
   edges |-> Street(1, 2, 10, All) \o Street(2, 3, 15, {"foot"}) \o Street(3, 4, 15, {"foot"})
             \o Street(4, 5, 80, All) \o Street(5, 6, 10, All)]

Valley ==
  Data("valley", <<Feed(6, {"line", "branch", "shuttle"}, ValleyTrips)>>, ValleyStreet, <<0, 10, 25, 40, 120, 130>>,
            <<<<>>, <<At(1, 0)>>, <<At(2, 0)>>, <<At(5, 5), At(6, 5)>>, <<At(3, 0)>>, <<At(4, 0)>>>>,
            [d \in -2..3 |-> {<<1, "daily">>}],
            {<<>>,
              <<Hears(<<Update("r1", <<Late(20, 4)>>), Update("r2", <<Late(10, 3)>>)>>, <<>>)>>})

-----------------------------------------------------------------------------
(* A junction: a line on which the later trip of two overtakes, and lines  *)
(* to its first stops, of which the slower leaves no time for a change.    *)

JunctionTrips ==
  <<Trip("c1", "c", "daily", <<1, 3>>, <<63, 68>>),
    Trip("a1", "a", "daily", <<1, 2>>, <<65, 75>>),
    Trip("e1", "e", "daily", <<2, 5>>, <<76, 90>>),
    Trip("j1", "line", "daily", <<3, 4, 5, 6>>, <<70, 80, 90, 120>>),
    Trip("j2", "line", "daily", <<3, 4, 5, 6>>, <<71, 81, 95, 110>>)>>

JunctionStreet ==
  [nodes |-> 5, edges |-> Street(1, 2, 10, All) \o Street(2, 3, 15, {"foot"}) \o Street(4, 5, 10, All)]

Junction ==
  Data("junction", <<Feed(6, {}, JunctionTrips)>>, JunctionStreet, <<0, 10, 25, 500, 510>>,
            <<<<At(1, 0)>>, <<At(3, 0)>>, <<>>, <<>>, <<>>, <<At(4, 0)>>>>,
            [d \in -2..3 |-> {<<1, "daily">>}], {<<>>})

-----------------------------------------------------------------------------
(* A depot whose one loop trip is heard of in every way; nobody asks.      *)

DepotTrips == <<Trip("d1", "loop", "daily", <<1, 2, 1>>, <<10, 20, 30>>)>>
DepotUpdates ==
  {Late(10, 4), Late(20, -3), Skips(20), ArrivesAt(2, 26), ArrivesAt(1, 38), [Late(30, 2) EXCEPT !.arrDelay = 6]}
DepotVehicles == {<<>>, <<Bus("d1", 3, 20)>>, <<Bus("d1", 3, 20), Bus("d1", 2, 10)>>, <<Bus("d1", 0, 10), Bus("d1", 3, Absent)>>}
DepotHeard ==
  {<<>>} \cup {<<Hears(<<Update("d1", stus)>>, <<>>)>> : stus \in UNION {[1..n -> DepotUpdates] : n \in 0..2}}
  \cup {<<Hears(first, <<>>), Hears(<<Update("d1", <<Skips(20)>>)>>, vehicles)>> :
          first \in {<<Cancel("d1")>>, <<Update("d1", <<Late(10, 7)>>)>>}, vehicles \in DepotVehicles}

Depot ==
  Data("depot", <<Feed(2, {}, DepotTrips)>>, [nodes |-> 1, edges |-> <<>>], <<0>>, <<<<>>, <<>>>>,
       [d \in -2..3 |-> {}], DepotHeard)

-----------------------------------------------------------------------------
(* A harbour: rented bikes and mopeds to a ferry and from it.              *)

Station(at, count, free) ==
  [installed |-> TRUE, renting |-> TRUE, returning |-> TRUE, seen |-> 48, at |-> at, bikes |-> count,
   counts |-> [city |-> count], docks |-> <<>>, free |-> free]
Vehicle(type, at) ==
  [type |-> type, reserved |-> FALSE, disabled |-> FALSE, seen |-> 0, station |-> "", home |-> "",
   at |-> at, known |-> TRUE, range |-> 500]
Type(id, form, motor, returns) == [id |-> id, form |-> form, motor |-> motor, returns |-> returns]
BikeTypes == [city |-> Type("city", "bike", FALSE, ""), moped |-> Type("moped", "scooter", TRUE, "free_floating")]
BikeShare(pool, fleet) ==
  [fetched |-> 49, stations |-> 48, vehicles |-> 48, data |-> 0, maxAge |-> 10,
   types |-> BikeTypes, pool |-> pool, fleet |-> fleet, zones |-> <<>>, rules |-> <<>>]
Rule == [types |-> {}, start |-> "unset", end |-> "unset", through |-> "unset", parking |-> "unset", cap |-> 0]
Zone(lo, hi, rule) == [lo |-> lo, hi |-> hi, from |-> 0, till |-> 0, rules |-> <<rule>>]

\* A point between the nodes u and u + 1 of the line, beside the edges e and e + 1.
Along(x, e, u, lo, hi) == Point(x, Beside(e, u, u + 1, x - lo, hi - x), Beside(e, u, u + 1, x - lo, hi - x))

HarbourStreet ==
  [nodes |-> 7,
   edges |-> Street(1, 2, 10, All) \o Street(2, 3, 90, Wheels) \o Street(3, 4, 10, All)
             \o Street(5, 6, 10, All) \o Street(6, 7, 90, Wheels)]

Cottage == Along(5, 1, 1, 0, 10)
Market == Along(106, 5, 3, 100, 110)
Quay == Along(304, 7, 5, 300, 310)
Lighthouse == Along(392, 9, 6, 310, 400)

HarbourShare ==
  BikeShare([a |-> Station(Along(10, 1, 1, 0, 10), 1, 4), b |-> Station(Along(100, 5, 3, 100, 110), 2, 3),
             c |-> Station(Along(310, 7, 5, 300, 310), 1, 2), d |-> Station(Along(398, 9, 6, 310, 400), 0, 2)],
            [m1 |-> Vehicle("moped", Along(308, 7, 5, 300, 310))])

HarbourSystems ==
  [base   |-> HarbourShare,
   taken  |-> [HarbourShare EXCEPT !.pool.a.counts.city = 0, !.fleet.m1.range = 120],
   full   |-> [HarbourShare EXCEPT !.pool.b.free = 0, !.pool.c.renting = FALSE,
                                   !.zones = <<Zone(390, 395, [Rule EXCEPT !.parking = "yes"])>>],
   slow   |-> [HarbourShare EXCEPT !.fleet.m1.reserved = TRUE, !.zones = <<Zone(20, 90, [Rule EXCEPT !.cap = 40])>>],
   walled |-> [HarbourShare EXCEPT !.zones = <<Zone(340, 350, [Rule EXCEPT !.through = "no"])>>]]

Harbour ==
  [Data("harbour", <<Feed(2, {}, <<Trip("f1", "ferry", "daily", <<1, 2>>, <<98, 120>>),
                                   Trip("f2", "ferry", "daily", <<1, 2>>, <<140, 162>>)>>)>>,
        HarbourStreet, <<0, 10, 100, 110, 300, 310, 400>>, <<<<At(3, 0)>>, <<At(5, 0)>>>>,
        [d \in -2..3 |-> {<<1, "daily">>}], {<<>>})
     EXCEPT !.systems = HarbourSystems,
            !.stopAt = <<Along(100, 5, 3, 100, 110), Along(300, 7, 5, 300, 310)>>]

-----------------------------------------------------------------------------
(* A park in which nobody asks: a bike share as it may change.             *)

ParkShare ==
  [BikeShare([a |-> Station(Spot(0), 1, 2), b |-> Station(Spot(200), 1, 2)],
             [m1 |-> Vehicle("moped", Spot(10)), m2 |-> [Vehicle("moped", Spot(0)) EXCEPT !.station = "a"],
              t1 |-> Vehicle("tandem", Spot(20)), h1 |-> [Vehicle("hybrid", Spot(5)) EXCEPT !.home = "a"]])
     EXCEPT !.types = @ @@ [hybrid |-> Type("hybrid", "bike", FALSE, "hybrid"),
                            tandem |-> Type("tandem", "bike", FALSE, "roundtrip_station")]]

At200(rule) == [ParkShare EXCEPT !.zones = <<Zone(150, 250, rule)>>]
At0(rule) == [ParkShare EXCEPT !.zones = <<Zone(0, 50, rule)>>]

ParkSystems ==
  <<NoFeed, ParkShare,
    [ParkShare EXCEPT !.pool.a.at = Spot(60)], [ParkShare EXCEPT !.pool.a.installed = FALSE], [ParkShare EXCEPT !.pool.a.renting = FALSE],
    [ParkShare EXCEPT !.pool.a.seen = 30], [ParkShare EXCEPT !.pool.a.bikes = 0, !.pool.a.counts.city = 0],
    [ParkShare EXCEPT !.pool.b.returning = FALSE], [ParkShare EXCEPT !.pool.b.free = 0],
    [ParkShare EXCEPT !.pool.b.free = -1], [ParkShare EXCEPT !.pool.b.docks = [moped |-> 1]],
    [ParkShare EXCEPT !.pool.b.docks = [city |-> 1]], [ParkShare EXCEPT !.pool.a.bikes = 0],
    [ParkShare EXCEPT !.fleet.m1.reserved = TRUE], [ParkShare EXCEPT !.fleet.m1.disabled = TRUE],
    [ParkShare EXCEPT !.fleet.m1.seen = 30], [ParkShare EXCEPT !.fleet.m1.station = "b"],
    [ParkShare EXCEPT !.fleet.m1.at = Spot(60)], [ParkShare EXCEPT !.fleet.m1.at = Spot(150)],
    [ParkShare EXCEPT !.fleet.m1.at = NoPoint], [ParkShare EXCEPT !.fleet.m2.at = NoPoint],
    [ParkShare EXCEPT !.fleet.m1.type = "city"], [ParkShare EXCEPT !.fleet.m1.type = "gone"],
    [ParkShare EXCEPT !.fleet.m1.known = FALSE], [ParkShare EXCEPT !.fleet.h1.station = "a", !.fleet.h1.type = "city"],
    [ParkShare EXCEPT !.fleet.t1.home = "b"], [ParkShare EXCEPT !.fleet = [id \in {"m2", "t1"} |-> @[id]]],
    [ParkShare EXCEPT !.types.hybrid.returns = "any_station"], [ParkShare EXCEPT !.types.city.form = "scooter"],
    [ParkShare EXCEPT !.types = [city |-> BikeTypes.city], !.pool.a.counts = <<>>],
    [ParkShare EXCEPT !.stations = 30], [ParkShare EXCEPT !.vehicles = 30],
    [ParkShare EXCEPT !.stations = 0, !.fetched = 38], [ParkShare EXCEPT !.stations = 0, !.vehicles = 0, !.data = 30],
    At200([Rule EXCEPT !.end = "no"]), At200([Rule EXCEPT !.end = "no", !.types = {"moped"}]),
    At200([Rule EXCEPT !.parking = "yes"]), At0([Rule EXCEPT !.start = "no"]),
    [At0([Rule EXCEPT !.start = "no", !.types = {"hybrid"}]) EXCEPT !.zones[1].from = 60, !.zones[1].till = 70],
    [At200([Rule EXCEPT !.end = "yes"]) EXCEPT !.rules = <<[Rule EXCEPT !.end = "no", !.start = "no"]>>]>>

Park ==
  [Data("park", <<Feed(1, {}, <<>>)>>, [nodes |-> 1, edges |-> <<>>], <<0>>, <<<<>>>>, [d \in -2..3 |-> {}], {<<>>})
     EXCEPT !.systems = ParkSystems,
            !.looks = {[from |-> Spot(0), to |-> Spot(210), at |-> at] : at \in {45, 50, 65}}]

MCNetworks == {Compiled(d) : d \in {Town, Valley, Junction, Depot, Harbour, Park}}

-----------------------------------------------------------------------------

MCCfg ==
  [speed |-> [foot |-> 56, bike |-> 24, scooter |-> 16, car |-> 0], reach |-> [foot |-> 200, bike |-> 480],
   maxTransfers |-> 2, slack |-> 2, railEntry |-> 3, railTransfer |-> 6,
   margin |-> 10, widen |-> 15, tolerance |-> 4, saving |-> 3, directWithin |-> 10, maxDirect |-> 90,
   liveFirst |-> 15, liveHorizon |-> 30,
   pickupWalk |-> 15, dropoffWalk |-> 15, candidates |-> 2, unlock |-> 2, park |-> 2, reserveRatio |-> 20, reserve |-> 5]

\* A tight connection to the express.
MCFragility(key) == IF key = <<1, "x1">> THEN 15 ELSE 0

Request(kind, from, to, when) ==
  [kind |-> kind, from |-> from, to |-> to, when |-> when, bike |-> FALSE, class |-> "", num |-> 3, est |-> 10]
Home == Point(3, Beside(1, 1, 2, 3, 7), Beside(1, 1, 2, 3, 7))
Mill == Point(168, Beside(5, 3, 4, 8, 2), Beside(5, 3, 4, 8, 2))
Office == Point(335, Beside(11, 6, 7, 5, 5), Beside(11, 6, 7, 5, 5))
Quarry == Point(395, NoSnap, Beside(15, 7, 8, 130, 5))
Corner == Point(325, Beside(9, 5, 6, 5, 5), Beside(9, 5, 6, 5, 5))
Inn == Point(505, Beside(5, 4, 5, 5, 5), Beside(5, 4, 5, 5, 5))
Hut == Point(125, Beside(9, 5, 6, 5, 5), NoSnap)
Road(mode, from, to, arriveBy) ==
  [kind |-> "road", from |-> from, to |-> to, mode |-> mode, when |-> 500, arriveBy |-> arriveBy, bike |-> FALSE, class |-> ""]
Riding(when, seeds) ==
  [kind |-> "onboard", to |-> Hut, when |-> when, num |-> 3, bike |-> FALSE, class |-> "", seeds |-> seeds,
   current |-> [trip |-> <<1, "r1">>, from |-> 1, rail |-> TRUE]]
Renting(from, to) == [Request("forward", from, to, 53) EXCEPT !.bike = TRUE, !.class = "any"]
Sailing ==
  [Riding(100, 2 :> 120) EXCEPT !.to = Lighthouse, !.class = "any",
     !.current = [trip |-> <<1, "f1">>, from |-> 1, rail |-> FALSE]]

MCRequests(n) ==
  IF n = "town"
  THEN {Request("forward", Home, Office, 3),
        [Request("forward", Home, Office, 3) EXCEPT !.bike = TRUE, !.num = 2],
        Request("forward", Mill, Home, 3), Request("forward", Office, Mill, 3),
        Request("forward", Home, Office, 1004),
        Request("arriveBy", Home, Office, 75), [Request("arriveBy", Home, Office, 60) EXCEPT !.num = 1],
        Road("car", Corner, Quarry, TRUE), Road("bike", Office, Home, FALSE), Road("foot", Home, Office, FALSE)}
  ELSE IF n = "valley"
  THEN {Riding(5, (2 :> 20) @@ (3 :> 30)), Riding(5, (2 :> 24) @@ (3 :> 34)), Road("bike", Hut, Hut, FALSE)}
  ELSE IF n = "junction" THEN {Request("forward", Home, Inn, 60)}
  ELSE IF n = "harbour"
  THEN {Renting(Cottage, Quay), Renting(Market, Lighthouse), Renting(Cottage, Market), Sailing}
  ELSE {}
====
