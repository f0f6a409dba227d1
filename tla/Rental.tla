---- MODULE Rental ----
(***************************************************************************)
(* internal/gbfs/query.go: what may be rented near a point, where it may   *)
(* be returned, and whether an assignment made from one snapshot holds in  *)
(* another.  The functions are about one system; a feed is                 *)
(*   [fetched, stations, vehicles, data: when it was read, and the times   *)
(*    that its documents bear, 0 for none; maxAge;                         *)
(*    types, pool (the stations), fleet (the vehicles): by id;             *)
(*    zones, rules: the geofences, the first that says something counts].  *)
(* A point is [x, snaps] on a line, see Planner.                           *)
(***************************************************************************)
EXTENDS Integers, Sequences, SequencesExt, FiniteSetsExt, Selection

CONSTANTS
  Now,      \* the wall clock: an instance lasts a moment
  Moved,    \* metres within which a vehicle counts as where it was (75)
  Sample    \* metres between the looks at a path (25)

ASSUME MetresAssumption == Moved \in Nat /\ Sample \in Nat \ {0}

NoFeed == <<>>
NoSnap == <<>>
StreetModes == {"foot", "bike", "car"}
Spot(x) == [x |-> x, snaps |-> [mode \in StreetModes |-> NoSnap]]
NoPoint == Spot(-1)
Metres(a, b) == IF a.x < b.x THEN b.x - a.x ELSE a.x - b.x
OrElse(value, default) == IF value = "" THEN default ELSE value

-----------------------------------------------------------------------------
(* Freshness                                                               *)

\* availabilityTime: an observation ages to this day, not to a planned one.
ObservedAt(at) == IF at > Now THEN Now ELSE at

TooOld(f, stamp, at) == f.maxAge > 0 /\ ObservedAt(at) - stamp > f.maxAge
EntityStale(f, stamp, at) == stamp # 0 /\ TooOld(f, stamp, at)
EndpointStale(f, stamp, at) == TooOld(f, IF stamp = 0 THEN f.fetched ELSE stamp, at)

\* Fresh: by its newest availability document, any of them.
Fresh(f, at) ==
  LET newest == Max({f.stations, f.vehicles})
      stamp  == IF newest = 0 THEN f.data ELSE newest
  IN  f.fetched # 0 /\ ~EntityStale(f, stamp, at)

-----------------------------------------------------------------------------
(* Geofences: a zone is [lo, hi, from, till, rules], a rule [types, start, *)
(* end, through, parking] of "yes", "no" or "unset", and cap, 0 for none.  *)

Covers(z, x, at) == z.lo <= x /\ x <= z.hi /\ (z.from = 0 \/ z.from <= at) /\ (z.till = 0 \/ at <= z.till)
Concerns(rule, type) == rule.types = {} \/ type \in rule.types

\* The rules for a type at a place and time, in the order in which they count.
RulesAt(f, type, x, at) ==
  LET zones == SelectSeq(f.zones, LAMBDA z : Covers(z, x, at))
  IN  SelectSeq(FlattenSeq([i \in 1..Len(zones) |-> zones[i].rules]) \o f.rules,
                LAMBDA rule : Concerns(rule, type))

Says(f, type, x, at, field) ==
  LET said == SelectSeq(RulesAt(f, type, x, at), LAMBDA rule : rule[field] # "unset")
  IN  IF said = <<>> THEN "unset" ELSE said[1][field]

PointAllows(f, type, p, at, field) == Says(f, type, p.x, at, field) # "no"
StationOnly(f, type, p, at) == Says(f, type, p.x, at, "parking") = "yes"

\* maximumSpeedRule: the first cap for a type among rules, 0 for none.
CapAmong(rules, type) ==
  FoldLeft(LAMBDA cap, rule : IF cap = 0 /\ Concerns(rule, type) THEN rule.cap ELSE cap, 0, rules)

\* The first one of a zone there, or that of the whole system.
MaximumSpeed(f, type, x, at) ==
  LET fenced == FoldLeft(LAMBDA cap, z : IF cap = 0 /\ Covers(z, x, at) THEN CapAmong(z.rules, type) ELSE cap,
                         0, f.zones)
  IN  IF fenced = 0 THEN CapAmong(f.rules, type) ELSE fenced

\* The places at which a path from x to y is looked at, x excluded.
Samples(x, y) ==
  LET d     == IF x < y THEN y - x ELSE x - y
      steps == (d + Sample - 1) \div Sample
  IN  {x + (k * (y - x)) \div steps : k \in 1..(steps - 1)} \cup {y}

PathAllowed(f, type, xs, at) ==
  /\ f # NoFeed
  /\ \A x \in {xs[1]} \cup UNION {Samples(xs[i - 1], xs[i]) : i \in 2..Len(xs)} :
       Says(f, type, x, at, "through") # "no"

-----------------------------------------------------------------------------
(* Types and stations                                                      *)

LegacyType == "default"   \* the type of a feed that has no catalogue
NoType == [id |-> "", form |-> "", motor |-> FALSE, returns |-> ""]

TypeOf(f, id) ==
  IF id \in DOMAIN f.types THEN f.types[id]
  ELSE IF LegacyType \in DOMAIN f.types THEN f.types[LegacyType] ELSE NoType
ClassMatches(class, type) == class = "any" \/ type.form = class

InferConstraint(type, station) ==
  OrElse(type.returns, IF station # "" THEN "any_station" ELSE "free_floating")

\* inferredCounts, where there is no breakdown by type: with several types,
\* never guess.
CountsOf(f, st) ==
  IF DOMAIN st.counts # {} THEN st.counts
  ELSE IF Cardinality(DOMAIN f.types) = 1 THEN [id \in DOMAIN f.types |-> st.bikes]
  ELSE <<>>

StationCount(f, st, type) == LET counts == CountsOf(f, st) IN IF type \in DOMAIN counts THEN counts[type] ELSE 0

Rents(f, id, at) ==
  /\ id \in DOMAIN f.pool
  /\ f.pool[id].installed /\ f.pool[id].renting /\ ~EntityStale(f, f.pool[id].seen, at)

\* A station that lists docks by type, by those; otherwise by their number, if
\* it is known.
StationAccepts(f, id, type, at) ==
  LET st == f.pool[id]
  IN  /\ st.installed /\ st.returning /\ ~EntityStale(f, st.seen, at)
      /\ IF DOMAIN st.docks # {} THEN type \in DOMAIN st.docks /\ st.docks[type] > 0
         ELSE st.free # 0

-----------------------------------------------------------------------------
(* Pickups                                                                 *)

\* Where a vehicle is: at its station, when it does not say.
PlaceOf(f, v) ==
  IF v.at = NoPoint /\ v.station \in DOMAIN f.pool THEN f.pool[v.station].at ELSE v.at

InService(f, v, at) == ~v.reserved /\ ~v.disabled /\ ~EntityStale(f, v.seen, at)

StationFresh(f, v, at) == v.station # "" => ~EndpointStale(f, f.stations, at) /\ Rents(f, v.station, at)

\* Vehicles that count as seen at their station, whatever the geofences say.
Counted(f, id, class, at) ==
  LET v == f.fleet[id]
  IN  /\ ~EndpointStale(f, f.vehicles, at)
      /\ ClassMatches(class, TypeOf(f, v.type)) /\ InService(f, v, at) /\ StationFresh(f, v, at)

VehicleOffers(f, class, from, radius, at) ==
  LET Offered(id) ==
        LET v == f.fleet[id]
            p == PlaceOf(f, v)
        IN  /\ Counted(f, id, class, at)
            /\ p # NoPoint /\ Metres(from, p) <= radius /\ PointAllows(f, v.type, p, at, "start")
            /\ TypeOf(f, v.type).motor => v.known
  IN  {LET v == f.fleet[id]
           type == TypeOf(f, v.type)
       IN  [vehicle |-> id, type |-> type.id, class |-> type.form, station |-> v.station, home |-> v.home,
            from |-> PlaceOf(f, v), returns |-> InferConstraint(type, v.station)]
         : id \in {x \in DOMAIN f.fleet : Offered(x)}}

\* Vehicles without a battery, of which a station only knows the number, for
\* those types of which it has no vehicle by name.
PoolOffers(f, class, from, radius, at) ==
  LET Named(id) == {f.fleet[v].type : v \in {x \in DOMAIN f.fleet :
                                               f.fleet[x].station = id /\ Counted(f, x, class, at)}}
      Offered(id, type) ==
        LET st == f.pool[id]
        IN  /\ ~EndpointStale(f, f.stations, at) /\ Rents(f, id, at) /\ st.bikes > 0
            /\ Metres(from, st.at) <= radius
            /\ StationCount(f, st, type) > 0 /\ type \notin Named(id)
            /\ PointAllows(f, type, st.at, at, "start")
            /\ ClassMatches(class, f.types[type]) /\ ~f.types[type].motor
  IN  {[vehicle |-> "", type |-> x[2], class |-> f.types[x[2]].form, station |-> x[1], home |-> "",
        from |-> f.pool[x[1]].at, returns |-> InferConstraint(f.types[x[2]], x[1])]
         : x \in {y \in (DOMAIN f.pool) \X (DOMAIN f.types) : Offered(y[1], y[2])}}

Pickups(f, class, from, radius, at) ==
  IF f = NoFeed THEN {}
  ELSE IF ~Fresh(f, at) THEN {}
  ELSE VehicleOffers(f, class, from, radius, at) \cup PoolOffers(f, class, from, radius, at)

-----------------------------------------------------------------------------
(* Dropoffs                                                                *)

ReturnedAt(a, station, p) ==
  [vehicle |-> a.vehicle, type |-> a.type, class |-> a.class, station |-> a.station, home |-> a.home,
   from |-> a.from, returns |-> a.returns, to |-> p, dock |-> station]

ReturnsTo(a, id) == a.returns = "roundtrip_station" => id = OrElse(a.home, a.station)

Dropoffs(f, a, to, radius, at) ==
  LET station == f # NoFeed /\ StationOnly(f, a.type, to, at)
      floats  == a.returns \in {"free_floating", "hybrid"} /\ ~station /\ PointAllows(f, a.type, to, at, "end")
      docks   == {id \in DOMAIN f.pool :
                    /\ ReturnsTo(a, id) /\ StationAccepts(f, id, a.type, at)
                    /\ PointAllows(f, a.type, f.pool[id].at, at, "end")
                    /\ Metres(to, f.pool[id].at) <= radius}
      there   == IF floats THEN {ReturnedAt(a, "", to)} ELSE {}
  IN  IF f = NoFeed THEN {}
      ELSE IF ~Fresh(f, at) THEN {}
      ELSE IF a.returns = "free_floating" /\ ~station THEN there
      ELSE IF EndpointStale(f, f.stations, at) THEN there
      ELSE there \cup {ReturnedAt(a, id, f.pool[id].at) : id \in docks}

-----------------------------------------------------------------------------
(* Check: does an assignment, made from another snapshot, still hold?      *)

\* range: metres that the ride needs, with the reserve.
VehicleStillThere(f, a, range, at) ==
  /\ ~EndpointStale(f, f.vehicles, at)
  /\ a.vehicle \in DOMAIN f.fleet
  /\ LET v == f.fleet[a.vehicle]
         p == PlaceOf(f, v)
     IN  /\ v.type \in {"", a.type} /\ InService(f, v, at)
         /\ a.station # "" => ~EndpointStale(f, f.stations, at) /\ v.station = a.station /\ Rents(f, a.station, at)
         /\ p # NoPoint => Metres(p, a.from) <= Moved
         /\ f.types[a.type].motor => v.known /\ v.range >= range

PoolStillThere(f, a, at) ==
  /\ ~EndpointStale(f, f.stations, at)
  /\ Rents(f, a.station, at) /\ StationCount(f, f.pool[a.station], a.type) > 0

\* Mutant: where parking means a station, a vehicle may still be left outside.
MutReturnStillLegal(f, a, at) ==
  IF a.dock # ""
  THEN /\ ~EndpointStale(f, f.stations, at)
       /\ a.dock \in DOMAIN f.pool /\ StationAccepts(f, a.dock, a.type, at)
       /\ PointAllows(f, a.type, f.pool[a.dock].at, at, "end")
  ELSE PointAllows(f, a.type, a.to, at, "end")

ReturnStillLegal(f, a, at) ==
  IF a.dock # ""
  THEN /\ ~EndpointStale(f, f.stations, at)
       /\ a.dock \in DOMAIN f.pool /\ StationAccepts(f, a.dock, a.type, at)
       /\ PointAllows(f, a.type, f.pool[a.dock].at, at, "end")
  ELSE PointAllows(f, a.type, a.to, at, "end") /\ ~StationOnly(f, a.type, a.to, at)

Available(f, a, range, at) ==
  /\ f # NoFeed
  /\ Fresh(f, at) /\ a.type \in DOMAIN f.types
  /\ IF a.vehicle # "" THEN VehicleStillThere(f, a, range, at) ELSE PoolStillThere(f, a, at)
  /\ PointAllows(f, a.type, a.from, at, "start")
  /\ ReturnStillLegal(f, a, at)

\* What the search would offer for a ride from around one point to around another.
Offers(f, class, from, to, walk, at) ==
  UNION {Dropoffs(f, a, to, walk, at) : a \in Pickups(f, class, from, walk, at)}
====
