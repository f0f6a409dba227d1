---- MODULE PlannerProofs ----
(***************************************************************************)
(* Theorems about the planner (Planner), for every network, every request  *)
(* and every snapshot of the bike shares.                                  *)
(***************************************************************************)
EXTENDS Planner, RaptorProofs

-----------------------------------------------------------------------------
(* What a search of a snapshot offers, and what Check says of it           *)

\* Far is a number.
LEMMA FarIs == Far \in Nat
BY WidthsAssumption

\* A distance between two places is a number of metres (geo.Haversine on its grid).
LEMMA MetresIs ==
  ASSUME NEW p, NEW r, Place(p), Place(r)
  PROVE  Metres(p, r) \in Nat /\ Metres(p, r) <= Far /\ (p = r => Metres(p, r) = 0)
<1>1. p.x \in Int /\ -1 <= p.x /\ p.x < Far /\ r.x \in Int /\ -1 <= r.x /\ r.x < Far
  BY FarIs DEF Place
<1> QED BY <1>1, FarIs DEF Metres

\* Terms on which some search offered a rental: from a position, of the class
\* that was asked for, left at the destination when it floats, and returned
\* where a round trip ends otherwise.
Genuine(a, class, to) ==
  /\ Place(a.from)
  /\ a.vehicle # "" => a.from # NoPoint
  /\ class = "any" \/ a.class = class
  /\ a.dock = "" => a.to = to /\ a.returns \in {"free_floating", "hybrid"}
  /\ a.dock # "" => ReturnsTo(a, a.dock)

\* An offer that is left at its destination, or at a station.
LeftThere(f, b, a, to, at) ==
  /\ a = ReturnedAt(b, "", to) /\ b.returns \in {"free_floating", "hybrid"}
  /\ ~StationOnly(f, b.type, to, at) /\ PointAllows(f, b.type, to, at, "end")
Docked(f, b, a, id, at) ==
  /\ id \in DOMAIN f.pool /\ id # "" /\ a = ReturnedAt(b, id, f.pool[id].at)
  /\ ReturnsTo(b, id) /\ StationAccepts(f, id, b.type, at)
  /\ PointAllows(f, b.type, f.pool[id].at, at, "end")
  /\ ~EndpointStale(f, f.stations, at)

\* A pickup that is one vehicle, or one of a station's.
OneVehicle(f, class, b, id, at) ==
  LET v == f.fleet[id]
      type == TypeOf(f, v.type)
  IN  /\ id \in DOMAIN f.fleet
      /\ b = [vehicle |-> id, type |-> type.id, class |-> type.form, station |-> v.station, home |-> v.home,
              from |-> PlaceOf(f, v), returns |-> InferConstraint(type, v.station)]
      /\ Counted(f, id, class, at) /\ PlaceOf(f, v) # NoPoint /\ Place(PlaceOf(f, v))
      /\ PointAllows(f, v.type, PlaceOf(f, v), at, "start") /\ (type.motor => v.known)
OfStation(f, class, b, id, type, at) ==
  /\ id \in DOMAIN f.pool /\ type \in DOMAIN f.types
  /\ b = [vehicle |-> "", type |-> type, class |-> f.types[type].form, station |-> id, home |-> "",
          from |-> f.pool[id].at, returns |-> InferConstraint(f.types[type], id)]
  /\ ~EndpointStale(f, f.stations, at) /\ Rents(f, id, at) /\ Place(f.pool[id].at)
  /\ StationCount(f, f.pool[id], type) > 0
  /\ PointAllows(f, type, f.pool[id].at, at, "start") /\ ClassMatches(class, f.types[type])

\* A drop-off of the snapshot is the traveller's own end, where the feed lets a vehicle be left, or a dock.
LEMMA DropoffIs ==
  ASSUME NEW f, WellFormed(f), NEW b, NEW to, NEW walk, NEW at, NEW a \in Dropoffs(f, b, to, walk, at)
  PROVE  LeftThere(f, b, a, to, at) \/ \E id : Docked(f, b, a, id, at)
BY Zenon DEF Dropoffs, WellFormed, LeftThere, Docked

\* A pickup of a fresh snapshot is a vehicle of its pool, or one of a type that a station still has.
LEMMA PickupIs ==
  ASSUME NEW f, WellFormed(f), NEW class, NEW from, NEW walk, NEW at,
         NEW b \in Pickups(f, class, from, walk, at)
  PROVE  /\ f # NoFeed /\ Fresh(f, at)
         /\ \/ \E id : OneVehicle(f, class, b, id, at)
            \/ \E id, type : OfStation(f, class, b, id, type, at)
<1>1. CASE b \in VehicleOffers(f, class, from, walk, at)
  <2>1. \E id : OneVehicle(f, class, b, id, at)
    BY Zenon, <1>1 DEF VehicleOffers, WellFormed, PlaceOf, OneVehicle
  <2> QED BY <2>1 DEF Pickups
<1>2. CASE b \in PoolOffers(f, class, from, walk, at)
  <2>1. \E id, type : OfStation(f, class, b, id, type, at)
    BY Zenon, <1>2 DEF PoolOffers, WellFormed, OfStation
  <2> QED BY <2>1 DEF Pickups
<1> QED BY <1>1, <1>2 DEF Pickups

\* Whatever a search offers is on genuine terms.
LEMMA OffersGenuine ==
  ASSUME NEW f, f = NoFeed \/ WellFormed(f), NEW class, NEW from, NEW to, NEW walk, NEW pick, NEW at,
         NEW b \in Pickups(f, class, from, pick, at), NEW a \in Dropoffs(f, b, to, walk, at)
  PROVE  Genuine(a, class, to)
<1>0. WellFormed(f)
  BY DEF Pickups
<1>1. /\ Place(b.from) /\ (b.vehicle # "" => b.from # NoPoint)
      /\ class = "any" \/ b.class = class
  <2>1. ASSUME NEW id, OneVehicle(f, class, b, id, at) PROVE <1>1!:
    BY Zenon, <2>1 DEF OneVehicle, Counted, ClassMatches
  <2>2. ASSUME NEW id, NEW type, OfStation(f, class, b, id, type, at) PROVE <1>1!:
    BY Zenon, <2>2 DEF OfStation, ClassMatches
  <2> QED BY Zenon, <1>0, <2>1, <2>2, PickupIs
<1>2. CASE LeftThere(f, b, a, to, at)
  BY Zenon, <1>1, <1>2 DEF Genuine, ReturnedAt, LeftThere
<1>3. ASSUME NEW id, Docked(f, b, a, id, at) PROVE Genuine(a, class, to)
  BY Zenon, <1>1, <1>3 DEF Genuine, ReturnedAt, ReturnsTo, Docked
<1> QED BY <1>0, <1>2, <1>3, DropoffIs

\* Where a rental may end is judged alike by Dropoffs and by Check.
LEMMA DropoffLegal ==
  ASSUME NEW f, WellFormed(f), NEW b, NEW to, NEW walk, NEW at, NEW a \in Dropoffs(f, b, to, walk, at)
  PROVE  /\ ReturnStillLegal(f, a, at)
         /\ a.vehicle = b.vehicle /\ a.type = b.type /\ a.station = b.station /\ a.from = b.from
<1>1. CASE LeftThere(f, b, a, to, at)
  BY Zenon, <1>1 DEF ReturnedAt, ReturnStillLegal, LeftThere
<1>2. ASSUME NEW id, Docked(f, b, a, id, at)
      PROVE  /\ ReturnStillLegal(f, a, at)
             /\ a.vehicle = b.vehicle /\ a.type = b.type /\ a.station = b.station /\ a.from = b.from
  <2>1. /\ a.dock = id /\ id # "" /\ a.type = b.type
        /\ a.vehicle = b.vehicle /\ a.station = b.station /\ a.from = b.from
    BY Zenon, <1>2 DEF ReturnedAt, Docked
  <2> QED BY Zenon, <1>2, <2>1 DEF ReturnStillLegal, Docked
<1> QED BY <1>1, <1>2, DropoffIs

\* The first half of CheckMatchesSearch: what a search offers passes Check
\* against the same snapshot, unless the feed does not know its type.
LEMMA OffersHold ==
  ASSUME NEW f, f = NoFeed \/ WellFormed(f), NEW class, NEW from, NEW to, NEW walk, NEW at,
         NEW a \in Offers(f, class, from, to, walk, at), a.type \in DOMAIN f.types
  PROVE  Available(f, a, 0, at)
<1>1. PICK b \in Pickups(f, class, from, walk, at) : a \in Dropoffs(f, b, to, walk, at)
  BY DEF Offers
<1>2. WellFormed(f)
  BY <1>1 DEF Pickups
<1>3. f # NoFeed /\ Fresh(f, at)
  BY <1>2, PickupIs
<1>4. /\ ReturnStillLegal(f, a, at)
      /\ a.vehicle = b.vehicle /\ a.type = b.type /\ a.station = b.station /\ a.from = b.from
  BY <1>1, <1>2, DropoffLegal
<1>5. ASSUME NEW id, OneVehicle(f, class, b, id, at) PROVE Available(f, a, 0, at)
  <2> DEFINE v == f.fleet[id]
  <2>1. TypeOf(f, v.type).id = a.type /\ id # "" /\ v.range \in Nat /\ v.type # ""
    BY Zenon, <1>2, <1>4, <1>5 DEF WellFormed, OneVehicle
  <2>2. v.type = a.type /\ TypeOf(f, v.type) = f.types[a.type]
    BY Zenon, <1>2, <1>5, <2>1 DEF WellFormed, TypeOf, NoType, OneVehicle
  <2>3. Metres(PlaceOf(f, v), a.from) <= Moved
    BY <1>4, <1>5, MetresIs, MetresAssumption DEF OneVehicle
  <2>0. /\ a.vehicle = id /\ a.station = v.station /\ id \in DOMAIN f.fleet
        /\ ~EndpointStale(f, f.vehicles, at) /\ InService(f, v, at) /\ StationFresh(f, v, at)
        /\ f.types[a.type].motor => v.known
    BY <1>4, <1>5, <2>2 DEF OneVehicle, Counted
  <2>4. VehicleStillThere(f, a, 0, at)
    <3>0. v.range >= 0
      <4>1. v.range \in Nat
        BY Zenon, <2>1
      <4> QED BY <4>1
    <3>1. f.types[a.type].motor => v.known /\ v.range >= 0
      BY <2>0, <3>0, Zenon
    <3>2. a.station # "" => ~EndpointStale(f, f.stations, at) /\ v.station = a.station /\ Rents(f, a.station, at)
      BY Zenon, <2>0 DEF StationFresh
    <3>3. v = f.fleet[a.vehicle] /\ v.type \in {"", a.type} /\ a.vehicle \in DOMAIN f.fleet
      BY <2>0, <2>2
    <3> HIDE DEF v
    <3> QED BY <2>0, <2>3, <3>1, <3>2, <3>3, Zenon DEF VehicleStillThere
  <2>5. PointAllows(f, a.type, a.from, at, "start") /\ a.vehicle # ""
    BY Zenon, <1>4, <1>5, <2>1, <2>2 DEF OneVehicle
  <2> QED BY Zenon, <1>3, <1>4, <2>4, <2>5 DEF Available
<1>6. ASSUME NEW id, NEW type, OfStation(f, class, b, id, type, at) PROVE Available(f, a, 0, at)
  <2>1. PoolStillThere(f, a, at)
    BY Zenon, <1>4, <1>6 DEF PoolStillThere, OfStation
  <2>2. PointAllows(f, a.type, a.from, at, "start") /\ a.vehicle = ""
    BY Zenon, <1>4, <1>6 DEF OfStation
  <2> QED BY Zenon, <1>3, <1>4, <2>1, <2>2 DEF Available
<1> QED BY <1>2, <1>5, <1>6, PickupIs

\* The second half: terms that once were genuine and pass Check now are those of
\* an offer of this moment, but for what Check does not look at.
LEMMA StillOffered ==
  ASSUME NEW f, f = NoFeed \/ WellFormed(f), NEW class, NEW a, NEW to, NEW range, NEW at,
         Place(to), Genuine(a, class, to), Available(f, a, range, at), ~Overlooked(f, a, to, at)
  PROVE  OfferedBy(f, class, a, to, at)
<1> DEFINE type == f.types[a.type]
           b == [vehicle |-> a.vehicle, type |-> a.type, class |-> type.form, station |-> a.station,
                 home |-> a.home, from |-> a.from, returns |-> a.returns]
<1>1. WellFormed(f) /\ f # NoFeed /\ Fresh(f, at) /\ a.type \in DOMAIN f.types
  BY Zenon DEF Available
<1>2. PointAllows(f, a.type, a.from, at, "start") /\ ReturnStillLegal(f, a, at)
  BY Zenon DEF Available
<1>3. Metres(a.from, a.from) <= Far
  BY Zenon, MetresIs DEF Genuine
<1>4. b \in Pickups(f, class, a.from, Far, at)
  <2>1. CASE a.vehicle # ""
    <3> DEFINE v == f.fleet[a.vehicle]
    <3>1. VehicleStillThere(f, a, range, at)
      BY Zenon, <2>1 DEF Available
    <3>2. /\ v.station = a.station /\ PlaceOf(f, v) = a.from
          /\ a.class = type.form /\ a.returns = InferConstraint(type, v.station) /\ a.home = v.home
      BY Zenon, <2>1 DEF Overlooked
    <3>3. /\ a.vehicle \in DOMAIN f.fleet /\ v.type \in {"", a.type} /\ InService(f, v, at)
          /\ ~EndpointStale(f, f.vehicles, at) /\ StationFresh(f, v, at)
      BY Zenon, <3>1, <3>2 DEF VehicleStillThere, StationFresh
    <3>4. type.motor => v.known
      BY Zenon, <3>1 DEF VehicleStillThere
    <3>5. v.type = a.type /\ TypeOf(f, v.type) = type /\ type.id = a.type
      BY Zenon, <1>1, <3>3 DEF WellFormed, TypeOf
    <3>6. Counted(f, a.vehicle, class, at)
      BY Zenon, <3>2, <3>3, <3>5 DEF Counted, ClassMatches, Genuine
    <3>7. /\ PlaceOf(f, v) # NoPoint /\ Metres(a.from, PlaceOf(f, v)) <= Far
          /\ PointAllows(f, v.type, PlaceOf(f, v), at, "start")
      BY Zenon, <1>2, <1>3, <2>1, <3>2, <3>5 DEF Genuine
    <3>8. b = [vehicle |-> a.vehicle, type |-> TypeOf(f, v.type).id, class |-> TypeOf(f, v.type).form,
               station |-> v.station, home |-> v.home,
               from |-> PlaceOf(f, v), returns |-> InferConstraint(TypeOf(f, v.type), v.station)]
      BY <3>2, <3>5
    <3> QED BY <1>1, <3>3, <3>4, <3>5, <3>6, <3>7, <3>8 DEF Pickups, VehicleOffers
  <2>2. CASE a.vehicle = ""
    <3> DEFINE st == f.pool[a.station]
    <3>1. PoolStillThere(f, a, at)
      BY Zenon, <2>2 DEF Available
    <3>0. ~type.motor
      BY Zenon, <2>2 DEF Overlooked
    <3>2. /\ st.at = a.from /\ st.bikes # 0
          /\ a.class = type.form /\ a.returns = InferConstraint(type, a.station) /\ a.home = ""
          /\ \A id \in DOMAIN f.fleet : ~(f.fleet[id].station = a.station /\ f.fleet[id].type = a.type)
      BY Zenon, <2>2 DEF Overlooked
    <3>3. ~EndpointStale(f, f.stations, at) /\ Rents(f, a.station, at) /\ StationCount(f, st, a.type) > 0
      BY <3>1 DEF PoolStillThere
    <3>4. a.station \in DOMAIN f.pool /\ st.bikes > 0
      <4>1. a.station \in DOMAIN f.pool
        BY <3>3 DEF Rents
      <4>2. st.bikes \in Nat
        BY Zenon, <1>1, <4>1 DEF WellFormed
      <4>3. st.bikes # 0
        BY Zenon, <3>2
      <4> HIDE DEF st
      <4> QED BY <4>1, <4>2, <4>3
    <3>5. ClassMatches(class, type)
      BY Zenon, <3>2 DEF ClassMatches, Genuine
    <3>6. b = [vehicle |-> "", type |-> a.type, class |-> f.types[a.type].form, station |-> a.station,
               home |-> "", from |-> st.at, returns |-> InferConstraint(f.types[a.type], a.station)]
      BY Zenon, <2>2, <3>2
    <3>7. Metres(a.from, st.at) <= Far /\ PointAllows(f, a.type, st.at, at, "start")
      BY Zenon, <1>2, <1>3, <3>2
    <3> DEFINE x == <<a.station, a.type>>
    <3>8. x \in (DOMAIN f.pool) \X (DOMAIN f.types) /\ x[1] = a.station /\ x[2] = a.type
      BY <1>1, <3>4
    <3> HIDE DEF b, x, st, type
    <3>9. b \in PoolOffers(f, class, a.from, Far, at)
      BY <1>1, <3>0, <3>2, <3>3, <3>4, <3>5, <3>6, <3>7, <3>8, Zenon DEF PoolOffers, st, type
    <3> QED BY <1>1, <3>9 DEF Pickups
  <2> QED BY Zenon, <2>1, <2>2
<1>5. PICK o \in Dropoffs(f, b, to, Far, at) : RentalSignature(o) = RentalSignature(a)
  <2>1. CASE a.dock = ""
    <3>1. ReturnedAt(b, "", to) \in Dropoffs(f, b, to, Far, at)
      BY Zenon, <1>1, <1>2, <2>1 DEF Dropoffs, Genuine, ReturnStillLegal
    <3>2. RentalSignature(ReturnedAt(b, "", to)) = RentalSignature(a)
      BY Zenon, <2>1 DEF RentalSignature, ReturnedAt
    <3> QED BY Zenon, <3>1, <3>2
  <2>2. CASE a.dock # ""
    <3> DEFINE o == ReturnedAt(b, a.dock, f.pool[a.dock].at)
    <3>1. /\ ~EndpointStale(f, f.stations, at) /\ a.dock \in DOMAIN f.pool
          /\ StationAccepts(f, a.dock, a.type, at) /\ PointAllows(f, a.type, f.pool[a.dock].at, at, "end")
      BY Zenon, <1>2, <2>2 DEF ReturnStillLegal
    <3>2. ReturnsTo(b, a.dock)
      BY Zenon, <2>2 DEF Genuine, ReturnsTo
    <3>3. Metres(to, f.pool[a.dock].at) <= Far
      BY Zenon, <1>1, <3>1, MetresIs DEF WellFormed
    <3>4. a.returns = "free_floating" => StationOnly(f, a.type, to, at)
      BY Zenon, <2>2 DEF Overlooked
    <3>5. o \in Dropoffs(f, b, to, Far, at)
      BY Zenon, <1>1, <3>1, <3>2, <3>3, <3>4 DEF Dropoffs
    <3>6. RentalSignature(o) = RentalSignature(a)
      BY DEF RentalSignature, ReturnedAt
    <3> QED BY <3>5, <3>6
  <2> QED BY Zenon, <2>1, <2>2
<1> HIDE DEF b
<1> QED BY <1>4, <1>5 DEF OfferedBy, Offers

-----------------------------------------------------------------------------
(* What is published                                                       *)

\* One of the networks is served, with two of its bike share's snapshots.
Published == net \in Networks /\ bikes \in DOMAIN net.systems /\ before \in DOMAIN net.systems

\* The network is one that was loaded.
LEMMA LoadedIs == Published => Loaded
BY DEF Published, Loaded

\* Published snapshots are well formed.
LEMMA SnapshotsWellFormed ==
  ASSUME Published
  PROVE  \A id \in DOMAIN net.systems : net.systems[id] = NoFeed \/ WellFormed(net.systems[id])
BY FeedsAssumption DEF Published

\* The engine answers from one of the networks it loads, on a snapshot of that
\* network's bike shares (engine/bundle.go), whatever is swapped meanwhile.
THEOREM PublishedInvariance == Spec => []Published
<1>1. Init => Published
  BY DEF Init, Published
<1>2. Published /\ [Next]_vars => Published'
  <2> SUFFICES ASSUME Published, [Next]_vars PROVE Published'
    OBVIOUS
  <2>1. CASE UNCHANGED <<net, bikes, before>>
    BY <2>1 DEF Published
  <2>2. CASE SwapRentals
    BY <2>2 DEF SwapRentals, Published
  <2>3. CASE SwapBundles
    BY <2>3 DEF SwapBundles, Published
  <2>4. CASE SwapOverlay
    BY <2>1, <2>4 DEF SwapOverlay, published
  <2>5. CASE Ask
    BY ZenonT(30), <2>1, <2>5 DEF Ask, AskTransit, AskOnboard, AskRoad, Accept, published
  <2>6. CASE RunVariant
    BY Zenon, <2>1, <2>6 DEF RunVariant, Seed, published
  <2>7. CASE Running
    BY Zenon, <2>1, <2>7 DEF Running, RaptorStep, SourceWalks, BeginRound, Scan, WalkOn, Finish, published
  <2>8. CASE Collect
    BY Zenon, <2>1, <2>8 DEF Collect, published
  <2>9. CASE Bracket \/ Check \/ Bisect
    BY <2>1, <2>9 DEF Bracket, Check, Bisect, Narrow, Probe, PlanAt, published
  <2>10. CASE Rank \/ RankOnboard
    BY <2>1, <2>10 DEF Rank, RankOnboard, published
  <2> QED
    BY <2>1, <2>2, <2>3, <2>4, <2>5, <2>6, <2>7, <2>8, <2>9, <2>10 DEF Next, vars, published
<1> QED
  BY <1>1, <1>2, PTL DEF Spec

\* Pickups, Dropoffs and Check judge alike (gbfs/query.go), whatever the
\* snapshots: what a search offers passes, unless its type is unknown, and what
\* another snapshot offered and still passes is offered still, but for what
\* Check does not look at.
THEOREM CheckAgrees == Spec => []CheckMatchesSearch
<1>1. ASSUME Published PROVE CheckMatchesSearch
  <2> SUFFICES ASSUME NEW look \in net.looks
               PROVE  /\ \A a \in Offers(System, "any", look.from, look.to, Far, look.at) :
                           Available(System, a, 0, look.at) \/ a.type \notin DOMAIN System.types
                      /\ \A a \in Offers(net.systems[before], "any", look.from, look.to, Far, look.at) :
                           Available(System, a, 0, look.at) =>
                             OfferedBy(System, "any", a, look.to, look.at) \/ Overlooked(System, a, look.to, look.at)
    BY DEF CheckMatchesSearch
  <2>1. \A id \in {bikes, before} : net.systems[id] = NoFeed \/ WellFormed(net.systems[id])
    BY <1>1, SnapshotsWellFormed DEF Published
  <2>2. System = NoFeed \/ WellFormed(System)
    BY <2>1 DEF System
  <2>3. \A a \in Offers(System, "any", look.from, look.to, Far, look.at) :
          Available(System, a, 0, look.at) \/ a.type \notin DOMAIN System.types
    BY <2>2, OffersHold
  <2>4. Place(look.to)
    BY <1>1, PointsAssumption DEF Published
  <2>5. ASSUME NEW a \in Offers(net.systems[before], "any", look.from, look.to, Far, look.at)
        PROVE  Genuine(a, "any", look.to)
    BY <2>1, <2>5, OffersGenuine DEF Offers
  <2> QED BY <2>2, <2>3, <2>4, <2>5, StillOffered
<1> QED
  BY <1>1, PublishedInvariance, PTL

-----------------------------------------------------------------------------
(* The nearest offers                                                      *)

\* Of a finite set whose elements have a rank, some k are the least.
LEMMA FewestExist ==
  ASSUME NEW S, IsFiniteSet(S), NEW f \in [S -> Nat], NEW k \in Nat, k <= Cardinality(S)
  PROVE  \E few \in kSubset(k, S) : \A a \in few, b \in S \ few : f[a] <= f[b]
<1> DEFINE T == {m \in Nat : m <= Cardinality(S) =>
                   \E few \in SUBSET S : Cardinality(few) = m /\ \A a \in few, b \in S \ few : f[a] <= f[b]}
<1>1. 0 \in T
  <2>1. Cardinality({}) = 0
    BY FS_EmptySet
  <2> QED BY <2>1
<1>2. ASSUME NEW m \in T PROVE m + 1 \in T
  <2> SUFFICES ASSUME m + 1 <= Cardinality(S)
               PROVE \E few \in SUBSET S : Cardinality(few) = m + 1 /\ \A a \in few, b \in S \ few : f[a] <= f[b]
    OBVIOUS
  <2>0. Cardinality(S) \in Nat
    BY FS_CardinalityType
  <2>1. PICK few \in SUBSET S : Cardinality(few) = m /\ \A a \in few, b \in S \ few : f[a] <= f[b]
    BY <2>0
  <2>2. IsFiniteSet(few) /\ S \ few # {}
    <3>1. IsFiniteSet(few) /\ (few = S => m = Cardinality(S))
      BY <2>1, FS_Subset
    <3> QED BY <2>0, <3>1
  <2> DEFINE ranks == {f[b] : b \in S \ few}
  <2>3. PICK r \in ranks : \A y \in ranks : r <= y
    <3>1. ranks \in SUBSET Nat /\ ranks # {}
      BY <2>2
    <3> HIDE DEF ranks
    <3> QED BY <3>1, LeastExists
  <2>4. PICK x \in S \ few : \A b \in S \ few : f[x] <= f[b]
    BY <2>3
  <2>5. Cardinality(few \cup {x}) = m + 1
    BY <2>1, <2>2, <2>4, FS_AddElement
  <2>6. few \cup {x} \in SUBSET S /\ \A a \in few \cup {x}, b \in S \ (few \cup {x}) : f[a] <= f[b]
    BY <2>1, <2>4
  <2> QED BY <2>5, <2>6
<1>3. T = Nat
  <2> HIDE DEF T
  <2>1. T \in SUBSET Nat BY DEF T
  <2> QED BY <1>1, <1>2, <2>1, NatsFrom
<1>4. \E few \in SUBSET S : Cardinality(few) = k /\ \A a \in few, b \in S \ few : f[a] <= f[b]
  BY <1>3
<1> QED BY <1>4 DEF kSubset

\* What is listed by the elements of a finite set is finite.
LEMMA ListedFinite ==
  ASSUME NEW S, IsFiniteSet(S), NEW f, NEW T, \A t \in T : \E x \in S : t = f[x]
  PROVE  IsFiniteSet(T)
<1> DEFINE R == {x \in S : f[x] \in T}
           g == [x \in R |-> f[x]]
<1>1. IsFiniteSet(R)
  BY FS_Subset
<1>2. g \in Surjection(R, T)
  BY DEF Surjection
<1> QED BY <1>1, <1>2, FS_Surjection

\* A snapshot offers finitely many pickups ...
LEMMA PickupsFinite ==
  ASSUME NEW f, f = NoFeed \/ WellFormed(f), NEW class, NEW from, NEW walk, NEW at
  PROVE  IsFiniteSet(Pickups(f, class, from, walk, at))
<1>1. CASE Pickups(f, class, from, walk, at) = {}
  BY <1>1, FS_EmptySet
<1>2. CASE Pickups(f, class, from, walk, at) # {}
  <2>1. WellFormed(f) /\ Pickups(f, class, from, walk, at) =
          VehicleOffers(f, class, from, walk, at) \cup PoolOffers(f, class, from, walk, at)
    BY <1>2 DEF Pickups
  <2>2. IsFiniteSet(DOMAIN f.types) /\ IsFiniteSet(DOMAIN f.pool) /\ IsFiniteSet(DOMAIN f.fleet)
    BY Zenon, <2>1 DEF WellFormed
  <2>3. IsFiniteSet(VehicleOffers(f, class, from, walk, at))
    <3> DEFINE g == [id \in DOMAIN f.fleet |->
                       LET v == f.fleet[id]
                           type == TypeOf(f, v.type)
                       IN  [vehicle |-> id, type |-> type.id, class |-> type.form, station |-> v.station, home |-> v.home,
                            from |-> PlaceOf(f, v), returns |-> InferConstraint(type, v.station)]]
    <3>1. \A t \in VehicleOffers(f, class, from, walk, at) : \E id \in DOMAIN f.fleet : t = g[id]
      BY DEF VehicleOffers
    <3> HIDE DEF g
    <3> QED BY <2>2, <3>1, ListedFinite
  <2>4. IsFiniteSet(PoolOffers(f, class, from, walk, at))
    <3> DEFINE g == [x \in (DOMAIN f.pool) \X (DOMAIN f.types) |->
                       [vehicle |-> "", type |-> x[2], class |-> f.types[x[2]].form, station |-> x[1], home |-> "",
                        from |-> f.pool[x[1]].at, returns |-> InferConstraint(f.types[x[2]], x[1])]]
    <3>1. \A t \in PoolOffers(f, class, from, walk, at) : \E x \in (DOMAIN f.pool) \X (DOMAIN f.types) : t = g[x]
      BY Zenon DEF PoolOffers
    <3>2. IsFiniteSet((DOMAIN f.pool) \X (DOMAIN f.types))
      BY <2>2, FS_Product
    <3> HIDE DEF g
    <3> QED BY <3>1, <3>2, ListedFinite
  <2> QED BY <2>1, <2>3, <2>4, FS_Union
<1> QED BY <1>1, <1>2

\* ... and as many drop-offs, so the nearest few of them exist.
LEMMA DropoffsFinite ==
  ASSUME NEW f, f = NoFeed \/ WellFormed(f), NEW a, NEW to, NEW walk, NEW at
  PROVE  IsFiniteSet(Dropoffs(f, a, to, walk, at))
<1> DEFINE D == Dropoffs(f, a, to, walk, at)
<1>1. CASE D = {}
  BY <1>1, FS_EmptySet
<1>2. CASE D # {}
  <2>1. WellFormed(f)
    BY Zenon, <1>2 DEF Dropoffs
  <2> DEFINE g == [id \in DOMAIN f.pool |-> ReturnedAt(a, id, f.pool[id].at)]
             E == {t \in D : \E id \in DOMAIN f.pool : t = g[id]}
             there == {ReturnedAt(a, "", to)}
  <2>2. IsFiniteSet(E)
    <3>1. IsFiniteSet(DOMAIN f.pool) /\ \A t \in E : \E id \in DOMAIN f.pool : t = g[id]
      BY Zenon, <2>1 DEF WellFormed
    <3> HIDE DEF E, g
    <3> QED BY <3>1, ListedFinite
  <2>3. D \in SUBSET (E \cup there)
    BY Zenon DEF Dropoffs
  <2>4. IsFiniteSet(E \cup there)
    BY Zenon, <2>2, FS_Singleton, FS_Union
  <2> HIDE DEF D, E, there
  <2> QED BY <2>3, <2>4, FS_Subset DEF D
<1> QED BY <1>1, <1>2

\* The nearest of a finite set are of it, for points with positions.
LEMMA NearestPickups ==
  ASSUME NEW S, IsFiniteSet(S), NEW point, Place(point), \A a \in S : Place(a.from)
  PROVE  Nearest(S, point, LAMBDA a : a.from) \in SUBSET S
<1> DEFINE f == [a \in S |-> Metres(point, a.from)]
           k == Less(Cardinality(S), Cfg.candidates)
<1>1. f \in [S -> Nat]
  BY MetresIs
<1>2. k \in Nat /\ k <= Cardinality(S)
  BY FS_CardinalityType, RentalConfigAssumption DEF Less
<1>3. \E few \in kSubset(k, S) : \A a \in few, b \in S \ few : f[a] <= f[b]
  <2> HIDE DEF f, k
  <2> QED BY <1>1, <1>2, FewestExist
<1>4. \E few \in kSubset(k, S) : \A a \in few, b \in S \ few : Metres(point, a.from) <= Metres(point, b.from)
  <2>1. \A few \in kSubset(k, S) : few \in SUBSET S
    BY DEF kSubset
  <2> QED BY <1>3, <2>1
<1>5. Nearest(S, point, LAMBDA a : a.from) \in kSubset(k, S)
  BY <1>4 DEF Nearest
<1> QED BY <1>5 DEF kSubset

\* The nearest drop-offs are drop-offs.
LEMMA NearestDropoffs ==
  ASSUME NEW S, IsFiniteSet(S), NEW point, Place(point), \A a \in S : Place(a.to)
  PROVE  Nearest(S, point, LAMBDA d : d.to) \in SUBSET S
<1> DEFINE f == [a \in S |-> Metres(point, a.to)]
           k == Less(Cardinality(S), Cfg.candidates)
<1>1. f \in [S -> Nat]
  BY MetresIs
<1>2. k \in Nat /\ k <= Cardinality(S)
  BY FS_CardinalityType, RentalConfigAssumption DEF Less
<1>3. \E few \in kSubset(k, S) : \A a \in few, b \in S \ few : f[a] <= f[b]
  <2> HIDE DEF f, k
  <2> QED BY <1>1, <1>2, FewestExist
<1>4. \E few \in kSubset(k, S) : \A a \in few, b \in S \ few : Metres(point, a.to) <= Metres(point, b.to)
  <2>1. \A few \in kSubset(k, S) : few \in SUBSET S
    BY DEF kSubset
  <2> QED BY <1>3, <2>1
<1>5. Nearest(S, point, LAMBDA d : d.to) \in kSubset(k, S)
  BY <1>4 DEF Nearest
<1> QED BY <1>5 DEF kSubset

\* Dividing rounds down to a natural number ...
LEMMA QuotientIs ==
  ASSUME NEW n \in Nat, NEW d \in Nat \ {0}
  PROVE  n \div d \in Nat
OBVIOUS

\* ... and Ceil rounds up to one.
LEMMA CeilIs ==
  ASSUME NEW n \in Nat, NEW d \in Nat \ {0}
  PROVE  Ceil(n, d) \in Nat
<1>1. n + d - 1 \in Nat
  OBVIOUS
<1> QED BY <1>1, QuotientIs DEF Ceil

\* A rental starts and ends at places.
LEMMA PlacesOf ==
  ASSUME NEW f, f = NoFeed \/ WellFormed(f), NEW class, NEW from, NEW to, Place(to), NEW walk, NEW pick, NEW at,
         NEW b \in Pickups(f, class, from, pick, at)
  PROVE  Place(b.from) /\ \A a \in Dropoffs(f, b, to, walk, at) : Place(a.to) /\ a.from = b.from
<1>0. WellFormed(f)
  BY DEF Pickups
<1>1. Place(b.from)
  <2>1. ASSUME NEW id, OneVehicle(f, class, b, id, at) PROVE Place(b.from)
    BY <2>1 DEF OneVehicle
  <2>2. ASSUME NEW id, NEW type, OfStation(f, class, b, id, type, at) PROVE Place(b.from)
    BY Zenon, <2>2 DEF OfStation
  <2> QED BY <1>0, <2>1, <2>2, PickupIs
<1>2. ASSUME NEW a \in Dropoffs(f, b, to, walk, at) PROVE Place(a.to) /\ a.from = b.from
  <2>1. CASE LeftThere(f, b, a, to, at)
    BY Zenon, <2>1 DEF LeftThere, ReturnedAt
  <2>2. ASSUME NEW id, Docked(f, b, a, id, at) PROVE Place(a.to) /\ a.from = b.from
    BY Zenon, <1>0, <2>2 DEF Docked, ReturnedAt, WellFormed
  <2> QED BY <1>0, <2>1, <2>2, DropoffIs
<1> QED BY <1>1, <1>2

\* What a chain is made of: terms that some search offered, between positions.
Offered(a, class, goal) == Genuine(a, class, goal) /\ Place(a.to) /\ Place(goal)

\* Every chain of pickup and drop-off that EstimateShared compares is on offer at its time.
LEMMA ChainsOffered ==
  ASSUME System = NoFeed \/ WellFormed(System), NEW from, Place(from), NEW to, Place(to), NEW class, NEW at
  PROVE  \A a \in Chains(from, to, class, at) : Offered(a, class, to)
<1> DEFINE picks == Pickups(System, class, from, WalkRadius(Cfg.pickupWalk), at)
           starts == Nearest(picks, from, LAMBDA a : a.from)
           drops(b) == Dropoffs(System, b, to, WalkRadius(Cfg.dropoffWalk), at)
           last(b) == Nearest(drops(b), to, LAMBDA d : d.to)
<1>1. IsFiniteSet(picks) /\ \A b \in picks : Place(b.from)
  BY PickupsFinite, PlacesOf
<1>2. starts \in SUBSET picks
  <2> HIDE DEF picks
  <2> QED BY <1>1, NearestPickups
<1>3. ASSUME NEW b \in starts PROVE last(b) \in SUBSET drops(b) /\ \A a \in drops(b) : Offered(a, class, to)
  <2>1. b \in picks
    BY <1>2
  <2>2. IsFiniteSet(drops(b)) /\ \A a \in drops(b) : Place(a.to)
    BY <2>1, DropoffsFinite, PlacesOf
  <2>3. \A a \in drops(b) : Genuine(a, class, to)
    BY <2>1, OffersGenuine
  <2>4. last(b) \in SUBSET drops(b)
    <3> HIDE DEF drops
    <3> QED BY <2>2, NearestDropoffs
  <2> QED BY <2>2, <2>3, <2>4 DEF Offered
<1>4. \A a \in Chains(from, to, class, at) : \E b \in starts : a \in last(b)
  BY DEF Chains
<1> HIDE DEF starts, last, drops
<1> QED BY <1>3, <1>4

\* How long a chain takes is a number.
LEMMA EstimateIs ==
  ASSUME NEW a, NEW class, NEW from, Place(from), NEW to, Place(to), Offered(a, class, to)
  PROVE  EstimateSec(a, from, to) \in Nat
<1>1. /\ Metres(from, a.from) \in Nat /\ Metres(a.to, to) \in Nat /\ Metres(a.from, a.to) \in Nat
  BY Zenon, MetresIs DEF Offered, Genuine
<1>2. RideMode(a.class) \in {"foot", "bike", "scooter"} /\ "foot" \in {"foot", "bike", "scooter"}
  BY DEF RideMode
<1>3. /\ Cfg.speed["foot"] \in Nat /\ Cfg.speed[RideMode(a.class)] \in Nat
      /\ Cfg.unlock \in Nat /\ Cfg.park \in Nat
  BY <1>2, RentalConfigAssumption
<1>4. 1000 * Frac \in Nat \ {0}
  <2>1. Frac \in Nat \ {0}
    BY WidthsAssumption
  <2> QED BY <2>1
<1> DEFINE w == Metres(from, a.from) + Metres(a.to, to)
           n == 115 * Cfg.speed["foot"] * w + 125 * Cfg.speed[RideMode(a.class)] * Metres(a.from, a.to)
<1>5. n \in Nat
  <2>1. w \in Nat
    BY <1>1
  <2>2. \A x, y, z \in Nat : x * y * z \in Nat
    OBVIOUS
  <2> HIDE DEF w
  <2>3. 115 * Cfg.speed["foot"] * w \in Nat
    BY <1>3, <2>1, <2>2
  <2>4. 125 * Cfg.speed[RideMode(a.class)] * Metres(a.from, a.to) \in Nat
    BY <1>1, <1>3, <2>2
  <2> QED BY <2>3, <2>4
<1>6. Ceil(n, 1000 * Frac) \in Nat
  <2> HIDE DEF n
  <2> QED BY <1>4, <1>5, CeilIs
<1>7. EstimateSec(a, from, to) = Ceil(n, 1000 * Frac) + Cfg.unlock + Cfg.park
  BY DEF EstimateSec
<1> HIDE DEF n
<1> QED BY <1>3, <1>6, <1>7

\* The chain that EstimateShared picks is on offer.
LEMMA EstimateOffered ==
  ASSUME System = NoFeed \/ WellFormed(System), NEW from, Place(from), NEW to, Place(to), NEW class, NEW at,
         NEW plan, plan = EstimateShared(from, to, class, at), plan # NoPlan
  PROVE  Offered(plan.a, class, to) /\ plan.sec \in Nat
<1> DEFINE plans == {[sec |-> EstimateSec(a, from, to), a |-> a] : a \in Chains(from, to, class, at)}
<1>1. \A x \in plans : x.sec \in Nat /\ Offered(x.a, class, to)
  BY ChainsOffered, EstimateIs
<1>2. plan = Quickest(plans)
  BY DEF EstimateShared
<1> HIDE DEF plans
<1>3. plans # {}
  BY <1>2 DEF Quickest
<1> DEFINE secs == {x.sec : x \in plans}
<1>4. PICK r \in secs : \A y \in secs : r <= y
  <2>1. secs \in SUBSET Nat /\ secs # {}
    BY <1>1, <1>3
  <2> HIDE DEF secs
  <2> QED BY <2>1, LeastExists
<1>5. \E x \in plans : \A y \in plans : x.sec <= y.sec
  BY <1>4
<1>6. plan \in plans
  BY <1>2, <1>3, <1>5 DEF Quickest
<1> QED BY <1>1, <1>6

\* The way by rentals from a point to stops, or from stops to a point.
LEMMA PlansToStops ==
  ASSUME System = NoFeed \/ WellFormed(System), NEW stops, NEW point, Place(point),
         \A s \in stops : Place(net.stopAt[s]), NEW class, NEW at
  PROVE  \A s \in DOMAIN SharedPlans(stops, point, TRUE, class, at) :
           /\ Offered(SharedPlans(stops, point, TRUE, class, at)[s].a, class, net.stopAt[s])
           /\ s \in stops /\ SharedPlans(stops, point, TRUE, class, at)[s].sec \in Nat
<1> DEFINE plans == [s \in stops |-> EstimateShared(point, net.stopAt[s], class, at)]
<1>1. SharedPlans(stops, point, TRUE, class, at) = InReach(plans, stops)
  BY DEF SharedPlans
<1>2. ASSUME NEW s \in DOMAIN InReach(plans, stops)
      PROVE s \in stops /\ plans[s] # NoPlan /\ InReach(plans, stops)[s] = plans[s]
  BY DEF InReach, Restrict
<1>3. ASSUME NEW s \in stops, plans[s] # NoPlan PROVE Offered(plans[s].a, class, net.stopAt[s]) /\ plans[s].sec \in Nat
  BY <1>3, EstimateOffered
<1> HIDE DEF plans
<1> QED BY <1>1, <1>2, <1>3

\* The plans from the stops to the traveller's end, too.
LEMMA PlansFromStops ==
  ASSUME System = NoFeed \/ WellFormed(System), NEW stops, NEW point, Place(point),
         \A s \in stops : Place(net.stopAt[s]), NEW class, NEW at
  PROVE  \A s \in DOMAIN SharedPlans(stops, point, FALSE, class, at) :
           /\ Offered(SharedPlans(stops, point, FALSE, class, at)[s].a, class, point)
           /\ s \in stops /\ SharedPlans(stops, point, FALSE, class, at)[s].sec \in Nat
<1> DEFINE plans == [s \in stops |-> EstimateShared(net.stopAt[s], point, class, at)]
<1>1. SharedPlans(stops, point, FALSE, class, at) = InReach(plans, stops)
  BY DEF SharedPlans
<1>2. ASSUME NEW s \in DOMAIN InReach(plans, stops)
      PROVE s \in stops /\ plans[s] # NoPlan /\ InReach(plans, stops)[s] = plans[s]
  BY DEF InReach, Restrict
<1>3. ASSUME NEW s \in stops, plans[s] # NoPlan PROVE Offered(plans[s].a, class, point) /\ plans[s].sec \in Nat
  BY <1>3, EstimateOffered
<1> HIDE DEF plans
<1> QED BY <1>1, <1>2, <1>3

-----------------------------------------------------------------------------
(* Chains, leg by leg                                                      *)

\* What RentalsStillOffered says of a rental of an answer to a request of a class.
StillOffers(x, class) ==
  LET f == net.systems[x.on]
      a == x.a
  IN  /\ OfferedBy(f, class, a, x.goal, x.start) \/ Overlooked(f, a, x.goal, x.start)
      /\ a.vehicle # "" /\ f.types[a.type].motor => f.fleet[a.vehicle].range >= x.range

Rented(rental, class) == IsSeq(rental) /\ \A x \in ToSet(rental) : StillOffers(x, class)

\* A chain of legs that holds so far: its rentals are offered.
IsChain(c) == DOMAIN c = {"s", "ok", "at", "rental"}
Holds(c, class) == IsChain(c) /\ (c.ok => Rented(c.rental, class))

\* A leg without a rental carries none that has gone.
LEMMA NoRental ==
  ASSUME NEW class
  PROVE  Rented(<<>>, class)
BY NoneIs DEF Rented

\* A rental on offer may be carried.
LEMMA OneRental ==
  ASSUME NEW x, NEW class, StillOffers(x, class)
  PROVE  Rented(<<x>>, class)
BY OneIs DEF Rented

\* Two legs carry what each carries.
LEMMA RentalsJoin ==
  ASSUME NEW r, NEW t, NEW class, Rented(r, class), Rented(t, class)
  PROVE  Rented(r \o t, class)
BY ConcatIs DEF Rented

\* Walking on changes no rental of the chain.
LEMMA WalkHolds ==
  ASSUME NEW c, NEW class, Holds(c, class), NEW from, NEW to, NEW limit
  PROVE  Holds(ThenWalk(c, from, to, limit), class)
<1> DEFINE route == RoadFrom(c.s, from, to, "foot")
           w == ThenWalk(c, from, to, limit)
<1>1. CASE ~c.ok \/ Metres(from, to) < 2
  BY <1>1 DEF ThenWalk
<1>2. CASE ~(~c.ok \/ Metres(from, to) < 2)
  <2>1. w = Strolled(c, route, limit)
    BY <1>2 DEF ThenWalk
  <2>2. DOMAIN w = {"s", "ok", "at", "rental"} /\ w.rental = c.rental
    BY <2>1 DEF Strolled, Holds, IsChain
  <2>3. c.ok
    BY <1>2
  <2> QED BY <2>2, <2>3 DEF Holds, IsChain
<1> QED BY <1>1, <1>2

\* StillHolds and the prover's StillOffered: the rental is offered at this moment.
LEMMA RolledHolds ==
  ASSUME System = NoFeed \/ WellFormed(System),
         NEW c, IsChain(c), NEW a, NEW class, NEW goal, Offered(a, class, goal),
         NEW start, NEW route, NEW range, NEW xs
  PROVE  Holds(Rolled(c, a, goal, start, route, range, xs), class)
<1> DEFINE r == Rolled(c, a, goal, start, route, range, xs)
           x == [a |-> a, range |-> Required(100 * range), goal |-> goal, start |-> start, on |-> bikes]
<1>1. CASE route.best >= Far
  <2>1. DOMAIN r = {"s", "ok", "at", "rental"} /\ r.ok = FALSE
    BY <1>1 DEF Rolled, IsChain
  <2> QED BY <2>1 DEF Holds, IsChain
<1>2. CASE ~(route.best >= Far)
  <2>1. DOMAIN r = {"s", "ok", "at", "rental"} /\ r.rental = <<x>> /\ r.ok = StillHolds(a, range, xs, start)
    BY <1>2 DEF Rolled, IsChain
  <2>2. ASSUME StillHolds(a, range, xs, start) PROVE StillOffers(x, class)
    <3>1. Available(System, a, Required(100 * range), start)
      BY <2>2 DEF StillHolds
    <3>2. OfferedBy(System, class, a, goal, start) \/ Overlooked(System, a, goal, start)
      BY <3>1, StillOffered DEF Offered
    <3>3. a.vehicle # "" /\ System.types[a.type].motor => System.fleet[a.vehicle].range >= Required(100 * range)
      BY Zenon, <3>1 DEF Available, VehicleStillThere
    <3>4. x.on = bikes /\ x.a = a /\ x.goal = goal /\ x.start = start /\ x.range = Required(100 * range)
      OBVIOUS
    <3> HIDE DEF x
    <3> QED BY Zenon, <3>2, <3>3, <3>4 DEF StillOffers, System
  <2>3. ASSUME r.ok PROVE Rented(r.rental, class)
    <3>1. StillHolds(a, range, xs, start)
      BY <2>1, <2>3
    <3> QED BY <2>1, <2>2, <3>1, OneRental
  <2>4. Holds(r, class)
    <3> HIDE DEF r, x
    <3> QED BY <2>1, <2>3 DEF Holds, IsChain
  <2> QED BY <2>4
<1> QED BY <1>1, <1>2

\* A rental that the snapshot offers is added, whole, or the chain fails.
LEMMA RideHolds ==
  ASSUME System = NoFeed \/ WellFormed(System),
         NEW c, IsChain(c), NEW a, NEW class, NEW goal, Offered(a, class, goal), NEW start
  PROVE  Holds(ThenRide(c, a, goal, start), class)
<1> DEFINE r == ThenRide(c, a, goal, start)
<1>1. CASE ~c.ok \/ Metres(a.from, a.to) < 2
  <2>1. DOMAIN r = {"s", "ok", "at", "rental"} /\ r.ok = FALSE
    BY <1>1 DEF ThenRide, IsChain
  <2> QED BY <2>1 DEF Holds, IsChain
<1>2. CASE ~(~c.ok \/ Metres(a.from, a.to) < 2)
  BY <1>2, RolledHolds DEF ThenRide, OnRoad
<1> QED BY <1>1, <1>2

\* A chain that holds when it is ridden has one rental, offered at that moment.
LEMMA LegsHold ==
  ASSUME System = NoFeed \/ WellFormed(System),
         NEW search, NEW plan, NEW class, NEW from, NEW to, Offered(plan.a, class, to), NEW start
  PROVE  Holds(SharedLegs(search, plan, from, to, start), class)
<1> DEFINE c0 == [s |-> search, ok |-> TRUE, at |-> start, rental |-> <<>>]
           c1 == ThenWalk(c0, from, plan.a.from, Cfg.pickupWalk)
           c2 == ThenRide(c1, plan.a, to, start)
<1>1. Holds(c0, class)
  BY NoRental DEF Holds, IsChain
<1>2. Holds(c1, class)
  <2> HIDE DEF c0
  <2> QED BY <1>1, WalkHolds
<1>3. Holds(c2, class)
  <2> HIDE DEF c1
  <2> QED BY <1>2, RideHolds DEF Holds
<1>4. Holds(ThenWalk(c2, plan.a.to, to, Cfg.dropoffWalk), class)
  <2> HIDE DEF c2
  <2> QED BY <1>3, WalkHolds
<1> QED BY <1>4 DEF SharedLegs

-----------------------------------------------------------------------------
(* Ways to and from the stops                                              *)

\* A way to the stops, or from them to where the request goes: a plan's rental
\* is one that a search offered for that ride.
AccWay(r, way) == \A s \in DOMAIN way.plans : Offered(way.plans[s].a, r.class, net.stopAt[s])
EgrWay(r, way) == \A s \in DOMAIN way.plans : Offered(way.plans[s].a, r.class, r.to)
Travels(r, v) == (v.tag # "onboard" => AccWay(r, v.acc)) /\ EgrWay(r, v.egr)

\* The access sets of a request: on foot, and by bike if there are more.
SetsOf(r, sets) ==
  /\ AccWay(r, sets[1]) /\ EgrWay(r, sets[2])
  /\ Len(sets) # 2 => AccWay(r, sets[3]) /\ EgrWay(r, sets[4])

\* A reach assigns seconds to stops of the network.
LEMMA ReachIs ==
  ASSUME NEW search, NEW point, NEW mode, NEW maxDs
  PROVE  DOMAIN Reach(search, point, mode, maxDs).sec \in SUBSET DOMAIN net.anchors
BY DEF Reach, ReachStops, StopsAfter

ReachStep(p, acc, x) == AddReach(acc.sets, Reach(acc.search, x.point, x.mode, Cfg.reach[StreetMode(x.mode)]))
ReachGood(h, k, acc) ==
  IsSeq(acc.sets) /\ Len(acc.sets) = k /\ \A i \in 1..k : DOMAIN acc.sets[i] \in SUBSET DOMAIN net.anchors
Reaching == INSTANCE FoldLaws WITH Step <- ReachStep, Good <- ReachGood

\* One reach per mode, each over stops of the network.
LEMMA ReachAllIs ==
  ASSUME NEW search, NEW r
  PROVE  LET sets == ReachAll(search, r).sets
             n == IF r.bike THEN 4 ELSE 2
         IN  /\ IsSeq(sets) /\ DOMAIN sets = 1..n /\ Len(sets) = n
             /\ \A i \in 1..n : DOMAIN sets[i] \in SUBSET DOMAIN net.anchors
<1> DEFINE n == IF r.bike THEN 4 ELSE 2
           base == [search |-> search, sets |-> <<>>]
<1>1. DOMAIN Searches(r) = 1..n /\ n \in Nat
  BY DEF Searches
<1>2. ReachGood(0, 0, base)
  BY NoneIs DEF ReachGood
<1>3. ASSUME NEW k \in 1..n, NEW acc, ReachGood(0, k - 1, acc)
      PROVE  ReachGood(0, k, ReachStep(0, acc, Searches(r)[k]))
  <2> DEFINE reach == Reach(acc.search, Searches(r)[k].point, Searches(r)[k].mode,
                            Cfg.reach[StreetMode(Searches(r)[k].mode)])
             sets == Append(acc.sets, reach.sec)
  <2>0. k \in Nat /\ k >= 1
    BY <1>1
  <2>1. acc.sets \in Seq(ToSet(acc.sets)) /\ Len(acc.sets) = k - 1
    BY <1>3 DEF ReachGood, IsSeq
  <2>2. IsSeq(sets)
    BY <1>3, AppendIs DEF ReachGood
  <2>3. Len(sets) = k /\ sets[k] = reach.sec /\ \A i \in 1..(k - 1) : sets[i] = acc.sets[i]
    <3> HIDE DEF reach
    <3> QED BY <2>0, <2>1
  <2>4. \A i \in 1..k : DOMAIN sets[i] \in SUBSET DOMAIN net.anchors
    <3>1. DOMAIN reach.sec \in SUBSET DOMAIN net.anchors
      BY ReachIs
    <3>2. \A i \in 1..k : i = k \/ i \in 1..(k - 1)
      BY <2>0
    <3>3. \A i \in 1..(k - 1) : DOMAIN acc.sets[i] \in SUBSET DOMAIN net.anchors
      BY <1>3 DEF ReachGood
    <3> HIDE DEF sets, reach
    <3> QED BY <2>3, <3>1, <3>2, <3>3
  <2>5. ReachStep(0, acc, Searches(r)[k]).sets = sets
    BY DEF ReachStep, AddReach
  <2> HIDE DEF sets
  <2> QED BY <2>2, <2>3, <2>4, <2>5 DEF ReachGood
<1>4. ReachGood(0, n, Reaching!Folded(0, base, Searches(r)))
  <2> HIDE DEF n, base
  <2> QED BY <1>1, <1>2, <1>3, Reaching!FoldKeeps, NatsFrom
<1>5. ReachAll(search, r) = Reaching!Folded(0, base, Searches(r))
  BY DEF ReachAll, ReachStep, Reaching!Folded,
         FoldLeft, MapThenFoldSet, Max, Reaching!Largest
<1>6. ReachGood(0, n, ReachAll(search, r))
  BY <1>4, <1>5
<1> HIDE DEF n
<1>7. /\ IsSeq(ReachAll(search, r).sets) /\ DOMAIN ReachAll(search, r).sets = 1..n
      /\ Len(ReachAll(search, r).sets) = n
      /\ \A i \in 1..n : DOMAIN ReachAll(search, r).sets[i] \in SUBSET DOMAIN net.anchors
  BY <1>6, IsSeqHas DEF ReachGood
<1> QED BY <1>7 DEF n

\* The ways of a request lead along rentals that are on offer.
LEMMA AccessSetsAre ==
  ASSUME Published, NEW r \in Requests(net.name), r.kind # "onboard", NEW search, NEW at
  PROVE  SetsOf(r, AccessSets(search, r, at).sets)
<1> DEFINE sets == ReachAll(search, r).sets
           ways == WaysOf(sets, r, at)
<1>1. AccessSets(search, r, at).sets = ways
  BY DEF AccessSets
<1>2. /\ IsSeq(sets) /\ DOMAIN sets = 1..(IF r.bike THEN 4 ELSE 2)
      /\ \A i \in 1..(IF r.bike THEN 4 ELSE 2) : DOMAIN sets[i] \in SUBSET DOMAIN net.anchors
  BY ReachAllIs
<1> HIDE DEF sets
<1>3. CASE ~r.bike \/ r.class = ""
  <2>1. ways = [i \in DOMAIN sets |-> Own(sets[i])]
    BY Zenon, <1>3 DEF WaysOf
  <2>2. \A i \in DOMAIN sets : DOMAIN ways[i].plans = {}
    BY <2>1 DEF Own, Way
  <2>3. Len(ways) = IF r.bike THEN 4 ELSE 2
    <3>1. CASE r.bike
      <4>1. ways = [i \in 1..4 |-> ways[i]]
        BY <1>2, <2>1, <3>1
      <4> HIDE DEF ways
      <4> QED BY <3>1, <4>1, ListIs
    <3>2. CASE ~r.bike
      <4>1. ways = [i \in 1..2 |-> ways[i]]
        BY <1>2, <2>1, <3>2
      <4> HIDE DEF ways
      <4> QED BY <3>2, <4>1, ListIs
    <3> QED BY <3>1, <3>2
  <2>4. Len(ways) # 2 => r.bike
    BY <2>3
  <2>5. 1 \in DOMAIN sets /\ 2 \in DOMAIN sets /\ (r.bike => 3 \in DOMAIN sets /\ 4 \in DOMAIN sets)
    BY <1>2
  <2>6. SetsOf(r, ways)
    <3> HIDE DEF ways
    <3> QED BY <2>2, <2>4, <2>5 DEF SetsOf, AccWay, EgrWay
  <2> QED BY <1>1, <2>6
<1>4. CASE ~(~r.bike \/ r.class = "")
  <2> DEFINE there == SharedPlans(DOMAIN sets[3], r.from, TRUE, r.class, at)
             back == SharedPlans(DOMAIN sets[4], r.to, FALSE, r.class, at)
  <2>1. ways = <<Own(sets[1]), Own(sets[2]), Shared(there), Shared(back)>>
    BY Zenon, <1>4 DEF WaysOf
  <2>2. DOMAIN ways[1].plans = {} /\ DOMAIN ways[2].plans = {} /\ ways[3].plans = there /\ ways[4].plans = back
    <3>1. ways[1] = Own(sets[1]) /\ ways[2] = Own(sets[2]) /\ ways[3] = Shared(there) /\ ways[4] = Shared(back)
      <4> HIDE DEF there, back
      <4> QED BY <2>1
    <3> HIDE DEF ways, there, back
    <3> QED BY <3>1 DEF Own, Shared, Way
  <2>3. System = NoFeed \/ WellFormed(System)
    BY SnapshotsWellFormed DEF Published, System
  <2>4. Place(r.from) /\ Place(r.to) /\ \A s \in DOMAIN net.anchors : Place(net.stopAt[s])
    BY PointsAssumption DEF Published
  <2>5. DOMAIN sets[3] \in SUBSET DOMAIN net.anchors /\ DOMAIN sets[4] \in SUBSET DOMAIN net.anchors
    <3>1. r.bike
      BY Zenon, <1>4
    <3>2. \A i \in 1..4 : DOMAIN sets[i] \in SUBSET DOMAIN net.anchors
      BY <1>2, <3>1
    <3> QED BY <3>2
  <2>6. \A s \in DOMAIN there : Offered(there[s].a, r.class, net.stopAt[s])
    BY <2>3, <2>4, <2>5, PlansToStops
  <2>7. \A s \in DOMAIN back : Offered(back[s].a, r.class, r.to)
    BY <2>3, <2>4, <2>5, PlansFromStops
  <2>8. SetsOf(r, ways)
    <3> HIDE DEF ways, there, back
    <3> QED BY <2>2, <2>6, <2>7 DEF SetsOf, AccWay, EgrWay
  <2> QED BY <1>1, <2>8
<1> QED BY Zenon, <1>3, <1>4

\* Every variant of a request is one access way and one egress way.
LEMMA VariantsTravel ==
  ASSUME NEW r, NEW sets, SetsOf(r, sets)
  PROVE  IsSeq(Variants(sets)) /\ \A v \in ToSet(Variants(sets)) : Travels(r, v)
<1> DEFINE walk == Variant("walk", sets[1], sets[2])
           away == Variant("bike", sets[3], sets[2])
           home == Variant("bike", sets[1], sets[4])
           One(v) == Only(v, Runs(v))
<1>1. Travels(r, walk) /\ (Len(sets) # 2 => Travels(r, away) /\ Travels(r, home))
  BY DEF Travels, Variant, SetsOf, AccWay, EgrWay
<1>2. ASSUME NEW v PROVE IsSeq(One(v)) /\ ToSet(One(v)) \in SUBSET {v}
  <2>1. Runs(v) \in BOOLEAN
    BY DEF Runs
  <2> QED BY <2>1, OnlyIs
<1>3. Variants(sets) = One(walk) \o (IF Len(sets) = 2 THEN <<>> ELSE One(away) \o One(home))
  BY DEF Variants
<1> HIDE DEF walk, away, home, One
<1>4. CASE Len(sets) = 2
  <2>1. Variants(sets) = One(walk) \o <<>>
    BY <1>3, <1>4
  <2>2. IsSeq(One(walk) \o <<>>) /\ ToSet(One(walk) \o <<>>) \in SUBSET {walk}
    BY <1>2, ConcatIs, NoneIs
  <2> QED BY <1>1, <2>1, <2>2
<1>5. CASE Len(sets) # 2
  <2>1. Variants(sets) = One(walk) \o (One(away) \o One(home))
    BY <1>3, <1>5
  <2>2. IsSeq(One(away) \o One(home)) /\ ToSet(One(away) \o One(home)) \in SUBSET {away, home}
    BY <1>2, ConcatIs
  <2>3. /\ IsSeq(One(walk) \o (One(away) \o One(home)))
        /\ ToSet(One(walk) \o (One(away) \o One(home))) \in SUBSET {walk, away, home}
    BY <1>2, <2>2, ConcatIs
  <2> QED BY <1>1, <1>5, <2>1, <2>3
<1> QED BY <1>4, <1>5

-----------------------------------------------------------------------------
(* Itineraries                                                             *)

\* An itinerary whose rentals are offered, and those of a list that is sound.
Carries(it, class) == "rentals" \in DOMAIN it /\ Rented(it.rentals, class)
Kept(its, class) == IsSeq(its) /\ \A it \in ToSet(its) : Carries(it, class)
KeptIfOk(its, class) == IsSeq(its) /\ \A it \in ToSet(its) : it.ok => Carries(it, class)

\* An empty list keeps the promise ...
LEMMA KeptNone ==
  ASSUME NEW class
  PROVE  Kept(<<>>, class) /\ KeptIfOk(<<>>, class)
BY NoneIs DEF Kept, KeptIfOk

\* ... a list of one that keeps it does ...
LEMMA KeptOne ==
  ASSUME NEW it, NEW class, Carries(it, class)
  PROVE  Kept(<<it>>, class)
BY OneIs DEF Kept

\* ... two lists that keep it do, joined ...
LEMMA KeptJoin ==
  ASSUME NEW a, NEW b, NEW class, Kept(a, class), Kept(b, class)
  PROVE  Kept(a \o b, class)
BY ConcatIs DEF Kept

\* ... and so does what is chosen of a list that keeps it.
LEMMA KeptAmong ==
  ASSUME NEW its, NEW class, Kept(its, class), NEW S
  PROVE  Kept(Among(its, S), class)
BY AmongIs DEF Kept

\* Of assembled itineraries, those that are sound are kept.
LEMMA KeptSound ==
  ASSUME NEW its, NEW class, KeptIfOk(its, class)
  PROVE  Kept(SoundOf(its), class)
BY AmongIs DEF Kept, KeptIfOk, SoundOf

\* The access leg of a journey, and its egress.
LEMMA EndHolds ==
  ASSUME System = NoFeed \/ WellFormed(System), NEW search, NEW way, NEW stop, NEW class, NEW from, NEW to,
         stop \in DOMAIN way.plans => Offered(way.plans[stop].a, class, to), NEW start
  PROVE  Holds(EndLeg(search, way, stop, from, to, start), class)
<1>1. CASE stop \in DOMAIN way.plans
  BY <1>1, LegsHold DEF EndLeg
<1>2. CASE stop \notin DOMAIN way.plans
  BY <1>2, NoRental DEF EndLeg, Holds, IsChain
<1> QED BY <1>1, <1>2

\* The access leg of a variant.
LEMMA EntryHolds ==
  ASSUME System = NoFeed \/ WellFormed(System), NEW search, NEW source, NEW v, Travels(req, v), NEW t
  PROVE  Holds(Entry(search, source, v, t), req.class)
<1>1. CASE v.tag = "onboard"
  BY <1>1, NoRental DEF Entry, Holds, IsChain
<1>2. CASE v.tag # "onboard"
  BY <1>2, EndHolds DEF Entry, Travels, AccWay
<1> QED BY <1>1, <1>2

\* The legs in between keep the entry, and are sound only if that was.
LegStep(t, so, leg) == AddLeg(so, leg, TimedRide(leg, BaseOf(t), so.street))
LegGood(entry, k, so) ==
  /\ DOMAIN so = {"ok", "timed", "rides", "street", "at", "entry"}
  /\ so.entry = entry /\ (so.ok => entry.ok)
LegByLeg == INSTANCE FoldLaws WITH Step <- LegStep, Good <- LegGood

\* The legs in between change nothing of the access leg, and are sound only if it is.
LEMMA LegsKeepEntry ==
  ASSUME NEW entry, NEW j, IsSeq(j.legs), NEW v, NEW t
  PROVE  AllLegs(entry, j, v, t).entry = entry /\ (AllLegs(entry, j, v, t).ok => entry.ok)
<1> DEFINE base == [ok |-> entry.ok, timed |-> v.tag # "onboard", rides |-> <<>>, street |-> 0,
                    at |-> entry.at, entry |-> entry]
           n == Len(j.legs)
<1>1. n \in Nat /\ DOMAIN j.legs = 1..n
  BY IsSeqHas
<1>2. LegGood(entry, 0, base)
  BY DEF LegGood
<1>3. ASSUME NEW k \in 1..n, NEW so, LegGood(entry, k - 1, so)
      PROVE  LegGood(entry, k, LegStep(t, so, j.legs[k]))
  <2> DEFINE leg == j.legs[k]
             ride == TimedRide(leg, BaseOf(t), so.street)
  <2>1. CASE leg.ride
    <3>1. LegStep(t, so, leg) = [so EXCEPT !.ok = @ /\ ~TooLate(so, ride), !.rides = Append(@, ride), !.at = ride.arr,
                                   !.timed = TRUE, !.street = 0]
      BY <2>1 DEF LegStep, AddLeg
    <3> HIDE DEF leg, ride
    <3>2. LegStep(t, so, leg).entry = so.entry /\ (LegStep(t, so, leg).ok => so.ok)
      BY <1>3, <3>1 DEF LegGood
    <3>3. DOMAIN LegStep(t, so, leg) = DOMAIN so
      BY <3>1
    <3>4. LegGood(entry, k, LegStep(t, so, leg))
      BY <1>3, <3>2, <3>3 DEF LegGood
    <3> QED BY <3>4 DEF leg
  <2>2. CASE ~leg.ride
    <3>1. LegStep(t, so, leg) = [so EXCEPT !.at = @ + leg.sec, !.timed = TRUE, !.street = @ + leg.sec]
      BY <2>2 DEF LegStep, AddLeg
    <3> HIDE DEF leg, ride
    <3>2. LegStep(t, so, leg).entry = so.entry /\ LegStep(t, so, leg).ok = so.ok
      BY <1>3, <3>1 DEF LegGood
    <3>3. DOMAIN LegStep(t, so, leg) = DOMAIN so
      BY <3>1
    <3>4. LegGood(entry, k, LegStep(t, so, leg))
      BY <1>3, <3>2, <3>3 DEF LegGood
    <3> QED BY <3>4 DEF leg
  <2> QED BY <2>1, <2>2
<1>4. LegGood(entry, n, LegByLeg!Folded(t, base, j.legs))
  <2> HIDE DEF n, base
  <2> QED BY <1>1, <1>2, <1>3, LegByLeg!FoldKeeps, NatsFrom
<1>5. AllLegs(entry, j, v, t) = LegByLeg!Folded(t, base, j.legs)
  BY DEF AllLegs, LegStep, LegByLeg!Folded,
         FoldLeft, MapThenFoldSet, Max, LegByLeg!Largest
<1> QED BY <1>4, <1>5 DEF LegGood

\* An itinerary assembled from a journey carries the rentals of its access and egress.
LEMMA AssembledCarries ==
  ASSUME System = NoFeed \/ WellFormed(System), NEW search, NEW j, IsSeq(j.legs), NEW v, Travels(req, v), NEW t
  PROVE  Assembled(search, j, v, t).it.ok => Carries(Assembled(search, j, v, t).it, req.class)
<1> DEFINE entry == Entry(search, SourceOf(j), v, t)
           end == AllLegs(entry, j, v, t)
           egress == Egress(end, j, v)
           it == Assembled(search, j, v, t).it
<1>1. Holds(entry, req.class)
  BY EntryHolds
<1>2. end.entry = entry /\ (end.ok => entry.ok)
  <2> HIDE DEF entry
  <2> QED BY LegsKeepEntry
<1> HIDE DEF entry, end
<1>3. Holds(egress, req.class) /\ (egress.ok => end.ok)
  <2>1. CASE end.ok
    <3>1. egress = EndLeg(end.entry.s, v.egr, j.target, net.stopAt[j.target], req.to, end.at)
      BY <2>1 DEF Egress
    <3> QED BY <2>1, <3>1, EndHolds DEF Travels, EgrWay
  <2>2. CASE ~end.ok
    <3>1. egress = [s |-> end.entry.s, ok |-> FALSE, at |-> end.at, rental |-> <<>>]
      BY <2>2 DEF Egress
    <3> QED BY <3>1, NoRental DEF Holds, IsChain
  <2> QED BY <2>1, <2>2
<1>4. "rentals" \in DOMAIN it /\ it.ok = egress.ok /\ it.rentals = entry.rental \o egress.rental
  BY <1>2 DEF Assembled, WithEgress, Composed, entry, end
<1> HIDE DEF it, egress
<1>5. ASSUME it.ok PROVE Carries(it, req.class)
  <2>1. entry.ok /\ egress.ok
    BY <1>2, <1>3, <1>4, <1>5
  <2>2. Rented(entry.rental, req.class) /\ Rented(egress.rental, req.class)
    BY <1>1, <1>3, <2>1 DEF Holds
  <2> QED BY <1>4, <2>2, RentalsJoin DEF Carries
<1> QED BY <1>5 DEF it

-----------------------------------------------------------------------------
(* Lists of itineraries: what a run returns, what is added and ranked      *)

\* Collect: one journey after the other, on one search.
CollectStep(p, acc, j) == Gathered(acc, Assembled(acc.s, j, Head(todo), depart))
CollectGood(class, k, acc) == KeptIfOk(acc.its, class)
Collecting == INSTANCE FoldLaws WITH Step <- CollectStep, Good <- CollectGood
Assembly == FoldLeft(LAMBDA acc, j : Gathered(acc, Assembled(acc.s, j, Head(todo), depart)),
                     [s |-> road, its |-> <<>>], journeys)

\* One more assembled itinerary.
LEMMA KeptIfOkAppend ==
  ASSUME NEW its, NEW class, KeptIfOk(its, class), NEW it, it.ok => Carries(it, class)
  PROVE  KeptIfOk(Append(its, it), class)
BY AppendIs DEF KeptIfOk

\* What Collect assembles.
LEMMA AssemblyKept ==
  ASSUME System = NoFeed \/ WellFormed(System), Travels(req, Head(todo)),
         NEW n \in Nat, DOMAIN journeys = 1..n, \A i \in 1..n : IsSeq(journeys[i].legs)
  PROVE  KeptIfOk(Assembly.its, req.class)
<1> DEFINE base == [s |-> road, its |-> <<>>]
<1>1. CollectGood(req.class, 0, base)
  BY KeptNone DEF CollectGood
<1>2. ASSUME NEW k \in 1..n, NEW acc, CollectGood(req.class, k - 1, acc)
      PROVE  CollectGood(req.class, k, CollectStep(0, acc, journeys[k]))
  <2> DEFINE x == Assembled(acc.s, journeys[k], Head(todo), depart)
  <2>1. x.it.ok => Carries(x.it, req.class)
    BY AssembledCarries
  <2> HIDE DEF x
  <2>2. KeptIfOk(Append(acc.its, x.it), req.class)
    BY <1>2, <2>1, KeptIfOkAppend DEF CollectGood
  <2>3. CollectStep(0, acc, journeys[k]).its = Append(acc.its, x.it)
    BY DEF CollectStep, Gathered, x
  <2> QED BY <2>2, <2>3 DEF CollectGood
<1>3. CollectGood(req.class, n, Collecting!Folded(0, base, journeys))
  <2> HIDE DEF base
  <2> QED BY <1>1, <1>2, Collecting!FoldKeeps, NatsFrom
<1>4. Assembly = Collecting!Folded(0, base, journeys)
  BY DEF Assembly, CollectStep, Collecting!Folded,
         FoldLeft, MapThenFoldSet, Max, Collecting!Largest
<1> QED BY <1>3, <1>4 DEF CollectGood

\* InRank keeps what it sorts, and DedupeRank what it keeps of it.
RankStep(p, sorted, it) ==
  LET after == SelectInSeq(sorted, LAMBDA x : RanksBefore(it, x))
  IN  IF after = 0 THEN Append(sorted, it) ELSE InsertAt(sorted, after, it)
RankGood(its, k, sorted) == IsSeq(sorted) /\ ToSet(sorted) \in SUBSET ToSet(its)
Ranking == INSTANCE FoldLaws WITH Step <- RankStep, Good <- RankGood

\* Ranking an answer adds no itinerary ...
LEMMA InRankIs ==
  ASSUME NEW its, IsSeq(its)
  PROVE  IsSeq(InRank(its)) /\ ToSet(InRank(its)) \in SUBSET ToSet(its)
<1> DEFINE n == Len(its)
<1>1. n \in Nat /\ DOMAIN its = 1..n /\ \A i \in 1..n : its[i] \in ToSet(its)
  BY IsSeqHas
<1>2. RankGood(its, 0, <<>>)
  BY NoneIs DEF RankGood
<1>3. ASSUME NEW k \in 1..n, NEW sorted, RankGood(its, k - 1, sorted)
      PROVE  RankGood(its, k, RankStep(0, sorted, its[k]))
  <2> DEFINE it == its[k]
             I == {i \in 1..Len(sorted) : RanksBefore(it, sorted[i])}
  <2>1. IsSeq(sorted) /\ ToSet(sorted) \in SUBSET ToSet(its) /\ it \in ToSet(its) /\ Len(sorted) \in Nat
    BY <1>1, <1>3, IsSeqHas DEF RankGood
  <2>2. CASE I = {}
    <3>1. RankStep(0, sorted, it) = Append(sorted, it)
      BY <2>2 DEF RankStep, SelectInSeq
    <3>2. IsSeq(Append(sorted, it)) /\ ToSet(Append(sorted, it)) = ToSet(sorted) \cup {it}
      BY <2>1, AppendIs
    <3> QED BY <2>1, <3>1, <3>2 DEF RankGood
  <2>3. CASE I # {}
    <3>1. Min(I) \in I
      <4>1. I \in SUBSET Nat
        BY <2>1
      <4> HIDE DEF I
      <4> QED BY <2>3, <4>1, MinIs
    <3>2. Min(I) \in 1..Len(sorted) /\ Min(I) # 0
      BY <2>1, <3>1
    <3>3. RankStep(0, sorted, it) = InsertAt(sorted, Min(I), it)
      BY <2>3, <3>2 DEF RankStep, SelectInSeq
    <3>4. /\ IsSeq(InsertAt(sorted, Min(I), it))
          /\ ToSet(InsertAt(sorted, Min(I), it)) \in SUBSET (ToSet(sorted) \cup {it})
      <4> HIDE DEF I
      <4> QED BY <2>1, <3>2, InsertIs
    <3> HIDE DEF I
    <3> QED BY <2>1, <3>3, <3>4 DEF RankGood
  <2> QED BY <2>2, <2>3
<1>4. RankGood(its, n, Ranking!Folded(0, <<>>, its))
  <2> HIDE DEF n
  <2> QED BY <1>1, <1>2, <1>3, Ranking!FoldKeeps, NatsFrom
<1>5. InRank(its) = Ranking!Folded(0, <<>>, its)
  BY DEF InRank, RankStep, Ranking!Folded,
         FoldLeft, MapThenFoldSet, Max, Ranking!Largest
<1> QED BY <1>4, <1>5 DEF RankGood

DedupeStep(num, kept, it) ==
  IF Len(kept) >= num \/ \E i \in 1..Len(kept) : kept[i].sig = it.sig THEN kept ELSE Append(kept, it)
DedupeGood(its, k, kept) == IsSeq(kept) /\ ToSet(kept) \in SUBSET ToSet(its)
Deduping == INSTANCE FoldLaws WITH Step <- DedupeStep, Good <- DedupeGood

\* ... and neither does dropping what is dominated.
LEMMA DedupeRankIs ==
  ASSUME NEW its, IsSeq(its), NEW num
  PROVE  IsSeq(DedupeRank(its, num)) /\ ToSet(DedupeRank(its, num)) \in SUBSET ToSet(its)
<1> DEFINE ranked == InRank(its)
           n == Len(ranked)
<1>0. IsSeq(ranked) /\ ToSet(ranked) \in SUBSET ToSet(its)
  BY InRankIs
<1> HIDE DEF ranked
<1>1. n \in Nat /\ DOMAIN ranked = 1..n /\ \A i \in 1..n : ranked[i] \in ToSet(its)
  BY <1>0, IsSeqHas
<1>2. DedupeGood(its, 0, <<>>)
  BY NoneIs DEF DedupeGood
<1>3. ASSUME NEW k \in 1..n, NEW kept, DedupeGood(its, k - 1, kept)
      PROVE  DedupeGood(its, k, DedupeStep(num, kept, ranked[k]))
  <2>1. IsSeq(kept) /\ ToSet(kept) \in SUBSET ToSet(its) /\ ranked[k] \in ToSet(its)
    BY <1>1, <1>3 DEF DedupeGood
  <2>2. IsSeq(Append(kept, ranked[k])) /\ ToSet(Append(kept, ranked[k])) = ToSet(kept) \cup {ranked[k]}
    BY <2>1, AppendIs
  <2>3. DedupeStep(num, kept, ranked[k]) \in {kept, Append(kept, ranked[k])}
    BY DEF DedupeStep
  <2> QED BY <2>1, <2>2, <2>3 DEF DedupeGood
<1>4. DedupeGood(its, n, Deduping!Folded(num, <<>>, ranked))
  <2> HIDE DEF n
  <2> QED BY <1>1, <1>2, <1>3, Deduping!FoldKeeps, NatsFrom
<1>5. DedupeRank(its, num) = Deduping!Folded(num, <<>>, ranked)
  BY DEF DedupeRank, DedupeStep, Deduping!Folded, ranked,
         FoldLeft, MapThenFoldSet, Max, Deduping!Largest
<1> QED BY <1>4, <1>5 DEF DedupeGood

\* Annotating an answer leaves its rentals.
LEMMA AnnotatedKept ==
  ASSUME NEW its, NEW class, Kept(its, class), NEW when
  PROVE  Kept(Annotated(its, when), class)
<1> DEFINE n == Len(its)
           all == Annotated(its, when)
<1>1. n \in Nat /\ \A i \in 1..n : Carries(its[i], class)
  BY IsSeqHas DEF Kept
<1>2. all = [i \in 1..n |-> [its[i] EXCEPT !.live = Live(its[i], when)]]
  BY DEF Annotated
<1>3. all = [i \in 1..n |-> all[i]]
  BY <1>2
<1>4. IsSeq(all) /\ ToSet(all) = {all[i] : i \in 1..n}
  <2> HIDE DEF all, n
  <2> QED BY <1>1, <1>3, ListIs
<1>5. \A i \in 1..n : Carries(all[i], class)
  <2> HIDE DEF all
  <2> QED BY <1>1, <1>2 DEF Carries
<1> HIDE DEF all
<1>6. Kept(all, class)
  BY <1>4, <1>5 DEF Kept
<1> QED BY <1>6 DEF all

\* What an answer is made of.
LEMMA ReplyKept ==
  ASSUME NEW its, Kept(its, req.class), Reply(its)
  PROVE  answer'.kind = "found" => Kept(answer'.its, req.class)
<1> DEFINE ranked == Annotated(DedupeRank(its, req.num), depart)
           kept   == IF hunt.stage = "final" THEN Among(ranked, {it \in ToSet(ranked) : it.arr <= req.when}) ELSE ranked
<1>1. Kept(DedupeRank(its, req.num), req.class)
  BY DedupeRankIs DEF Kept
<1>2. Kept(ranked, req.class)
  BY <1>1, AnnotatedKept
<1>3. Kept(kept, req.class)
  <2> HIDE DEF ranked
  <2> QED BY <1>2, KeptAmong
<1>4. answer' = IF kept = <<>> /\ req.kind # "onboard" THEN None ELSE Itineraries(kept)
  BY DEF Reply
<1> HIDE DEF kept
<1> QED BY <1>3, <1>4 DEF None, Itineraries

\* A vehicle that is ridden all the way.
LEMMA DirectRideKept ==
  ASSUME System = NoFeed \/ WellFormed(System), Place(req.from), Place(req.to)
  PROVE  Kept(DirectRide.its, req.class)
<1> DEFINE plan == EstimateShared(req.from, req.to, req.class, depart)
           ride == IF req.class = "" THEN OwnRide ELSE RideOn(plan)
<1>1. Kept(OwnRide.its, req.class)
  <2> DEFINE it == RoadItinerary(depart, RoadFrom(road, req.from, req.to, "bike").best)
  <2>1. Carries(it, req.class)
    BY NoRental DEF RoadItinerary, Carries
  <2> HIDE DEF it
  <2>2. OwnRide.its \in {<<>>, <<it>>}
    BY DEF OwnRide, it
  <2> QED BY <2>1, <2>2, KeptNone, KeptOne
<1>2. Kept(RideOn(plan).its, req.class)
  <2>1. CASE plan = NoPlan
    BY <2>1, KeptNone DEF RideOn
  <2>2. CASE plan # NoPlan
    <3> DEFINE chain == SharedLegs(road, plan, req.from, req.to, depart)
               it == [RoadItinerary(depart, 10 * (chain.at - depart)) EXCEPT
                         !.rentals = chain.rental, !.sig = SignatureOf(chain.rental)]
    <3>1. Offered(plan.a, req.class, req.to)
      BY <2>2, EstimateOffered
    <3>2. Holds(chain, req.class)
      <4> HIDE DEF plan
      <4> QED BY <3>1, LegsHold
    <3>3. RideOn(plan).its = IF ~chain.ok THEN <<>> ELSE <<it>>
      BY <2>2 DEF RideOn, AsDirect
    <3>4. "rentals" \in DOMAIN it /\ it.rentals = chain.rental
      <4> HIDE DEF chain
      <4> QED BY DEF RoadItinerary
    <3> HIDE DEF chain, it
    <3>5. chain.ok => Carries(it, req.class)
      BY <3>2, <3>4 DEF Holds, Carries
    <3> QED BY <3>3, <3>5, KeptNone, KeptOne
  <2> QED BY <2>1, <2>2
<1>3. Kept(ride.its, req.class)
  BY Zenon, <1>1, <1>2
<1>4. DirectRide = WorthRiding(ride)
  BY DEF DirectRide
<1> HIDE DEF ride
<1> QED BY <1>3, <1>4, KeptAmong DEF WorthRiding

\* The ways from the stops ahead of an onboard rider.
TailStep(p, acc, s) ==
  LET AddWalk(a, x) == IF x \in DOMAIN access[2].sec THEN [a EXCEPT !.its = Append(@, WalkTail(req, x, access[2]))] ELSE a
      AddRental(a, x) ==
        IF x \notin DOMAIN access[3].plans THEN a
        ELSE AddTail(a, req, x, SharedLegs(a.s, access[3].plans[x], net.stopAt[x], req.to, req.seeds[x]))
  IN  AddRental(AddWalk(acc, s), s)
TailGood(class, k, acc) == DOMAIN acc = {"s", "its"} /\ Kept(acc.its, class)
Tailing == INSTANCE FoldLaws WITH Step <- TailStep, Good <- TailGood

\* The last leg from a stop to the destination carries that stop's rental.
LEMMA TailCarries ==
  ASSUME NEW r, NEW stop, NEW at, NEW rental, NEW tag, NEW class, Rented(rental, class)
  PROVE  Carries(TailOf(r, stop, at, rental, tag), class)
BY DEF TailOf, Carries

\* A list that keeps the promise, with one more that does.
LEMMA KeptAppend ==
  ASSUME NEW its, NEW class, Kept(its, class), NEW it, Carries(it, class)
  PROVE  Kept(Append(its, it), class)
BY AppendIs DEF Kept

\* The ways from the ridden trip's stops to the destination.
LEMMA TailsKept ==
  ASSUME System = NoFeed \/ WellFormed(System), tt.nstops \in Nat, EgrWay(req, access[3])
  PROVE  Kept(Tails(road, req, access[2], access[3]).its, req.class)
<1> DEFINE base == [s |-> road, its |-> <<>>]
           seq == AscendingIn(tt.nstops, DOMAIN req.seeds)
           n == Len(seq)
<1>1. n \in Nat /\ DOMAIN seq = 1..n
  BY AscendingInIs, IsSeqHas
<1>2. TailGood(req.class, 0, base)
  BY KeptNone DEF TailGood
<1>3. ASSUME NEW k \in 1..n, NEW acc, TailGood(req.class, k - 1, acc)
      PROVE  TailGood(req.class, k, TailStep(0, acc, seq[k]))
  <2> DEFINE s == seq[k]
             walked == IF s \in DOMAIN access[2].sec
                       THEN [acc EXCEPT !.its = Append(@, WalkTail(req, s, access[2]))] ELSE acc
             chain == SharedLegs(walked.s, access[3].plans[s], net.stopAt[s], req.to, req.seeds[s])
             ridden == IF s \notin DOMAIN access[3].plans THEN walked ELSE AddTail(walked, req, s, chain)
  <2>1. Carries(WalkTail(req, s, access[2]), req.class)
    BY NoRental, TailCarries DEF WalkTail
  <2>2. TailGood(req.class, k, walked)
    <3>1. CASE s \in DOMAIN access[2].sec
      <4> DEFINE it == WalkTail(req, s, access[2])
      <4>1. walked = [acc EXCEPT !.its = Append(@, it)]
        BY <3>1
      <4>2. Kept(Append(acc.its, it), req.class)
        <5> HIDE DEF it
        <5> QED BY <1>3, <2>1, KeptAppend DEF TailGood, it
      <4> HIDE DEF it, walked
      <4>3. DOMAIN walked = {"s", "its"} /\ walked.its = Append(acc.its, it)
        BY <1>3, <4>1 DEF TailGood
      <4> QED BY <4>2, <4>3 DEF TailGood
    <3>2. CASE s \notin DOMAIN access[2].sec
      BY <1>3, <3>2 DEF TailGood
    <3> QED BY <3>1, <3>2
  <2> HIDE DEF walked
  <2>3. TailGood(req.class, k, ridden)
    <3>1. CASE s \in DOMAIN access[3].plans
      <4>1. Holds(chain, req.class)
        BY <3>1, LegsHold DEF EgrWay
      <4> HIDE DEF chain
      <4>2. ridden = [s |-> chain.s,
                      its |-> IF ~chain.ok THEN walked.its
                              ELSE Append(walked.its, TailOf(req, s, chain.at, chain.rental, SignatureOf(chain.rental)))]
        BY <3>1 DEF AddTail
      <4>3. chain.ok => Carries(TailOf(req, s, chain.at, chain.rental, SignatureOf(chain.rental)), req.class)
        BY <4>1, TailCarries DEF Holds
      <4>4. Kept(ridden.its, req.class)
        <5>1. CASE chain.ok
          <6> DEFINE it == TailOf(req, s, chain.at, chain.rental, SignatureOf(chain.rental))
          <6>1. ridden.its = Append(walked.its, it)
            BY <4>2, <5>1
          <6> HIDE DEF ridden, it
          <6> QED BY <2>2, <4>3, <5>1, <6>1, KeptAppend DEF TailGood, it
        <5>2. CASE ~chain.ok
          <6>1. ridden.its = walked.its
            BY <4>2, <5>2
          <6> HIDE DEF ridden
          <6> QED BY <2>2, <6>1 DEF TailGood
        <5> QED BY <5>1, <5>2
      <4>5. DOMAIN ridden = {"s", "its"}
        BY <4>2
      <4> HIDE DEF ridden
      <4> QED BY <4>4, <4>5 DEF TailGood
    <3>2. CASE s \notin DOMAIN access[3].plans
      BY <2>2, <3>2
    <3> QED BY <3>1, <3>2
  <2>4. TailStep(0, acc, s) = ridden
    BY DEF TailStep, walked
  <2> HIDE DEF ridden
  <2> QED BY <2>3, <2>4
<1>4. TailGood(req.class, n, Tailing!Folded(0, base, seq))
  <2> HIDE DEF n, base, seq
  <2> QED BY <1>1, <1>2, <1>3, Tailing!FoldKeeps, NatsFrom
<1>5. Tails(road, req, access[2], access[3]) = Tailing!Folded(0, base, seq)
  BY DEF Tails, TailStep, Tailing!Folded,
         FoldLeft, MapThenFoldSet, Max, Tailing!Largest
<1> QED BY <1>4, <1>5 DEF TailGood

\* An itinerary that is put behind the ride that goes on keeps its rentals.
LEMMA RetainedCarries ==
  ASSUME NEW it, NEW class, Carries(it, class), NEW r
  PROVE  Carries(Retained(it, r), class)
<1>1. ASSUME NEW v PROVE Carries([it EXCEPT !.ok = v], class)
  BY DEF Carries
<1>2. ASSUME NEW ride, NEW rest PROVE Carries(Prepended(it, ride, rest), class)
  BY DEF Carries, Prepended
<1>3. ASSUME NEW t, NEW board, NEW seat, NEW merges PROVE Carries(Continued(it, r, t, board, seat, merges), class)
  BY <1>1, <1>2 DEF Continued
<1> QED BY <1>1, <1>3 DEF Retained

\* Retaining the ridden trip adds no rental.
LEMMA RetainAllKept ==
  ASSUME NEW its, Kept(its, req.class), NEW search, RetainAll(search, its)
  PROVE  answer'.kind = "found" => Kept(answer'.its, req.class)
<1> DEFINE all == [i \in 1..Len(its) |-> Retained(its[i], req)]
           n == Len(its)
<1>1. n \in Nat /\ \A i \in 1..n : Carries(its[i], req.class)
  BY IsSeqHas DEF Kept
<1>2. \A i \in 1..n : all[i] = Retained(its[i], req)
  OBVIOUS
<1>3. \A i \in 1..n : Carries(all[i], req.class)
  <2> HIDE DEF all
  <2> QED BY <1>1, <1>2, RetainedCarries
<1>4. IsSeq(all) /\ ToSet(all) = {all[i] : i \in 1..n}
  <2>1. all = [i \in 1..n |-> all[i]]
    OBVIOUS
  <2> HIDE DEF all, n
  <2> QED BY <1>1, <2>1, ListIs
<1>5. KeptIfOk(all, req.class)
  <2> HIDE DEF all
  <2> QED BY <1>3, <1>4 DEF KeptIfOk
<1>6. Kept(SoundOf(all), req.class)
  <2> HIDE DEF all
  <2> QED BY <1>5, KeptSound
<1>7. Reply(SoundOf(all))
  BY DEF RetainAll
<1> HIDE DEF all
<1> QED BY <1>6, <1>7, ReplyKept

-----------------------------------------------------------------------------
(* What an answer rests on                                                 *)

\* RAPTOR's answers are lists of legs.
LegsListed ==
  /\ q.maxRides \in Nat
  /\ Len(journeys) \in Nat /\ DOMAIN journeys = 1..Len(journeys)
  /\ \A i \in 1..Len(journeys) : IsSeq(journeys[i].legs)

\* The walk back from a label (raptor.go's extract) ends, whatever the labels, with
\* a list of legs.
THEOREM LegsListedInvariance == Spec => []LegsListed
<1>1. Init => LegsListed
  BY DEF Init, RaptorInit, NoQuery, LegsListed
<1>2. LegsListed /\ Published /\ [Next]_vars => LegsListed'
  <2> SUFFICES ASSUME LegsListed, Published, [Next]_vars PROVE LegsListed'
    OBVIOUS
  <2>0. tt.nstops \in Nat
    BY TimetablesAssumption DEF Published, tt, IsCompiled
  <2>1. CASE UNCHANGED <<q, journeys>>
    BY <2>1 DEF LegsListed
  <2>2. CASE SwapBundles
    BY <2>2 DEF SwapBundles, FreshRaptor, NoQuery, LegsListed
  <2>3. CASE RunVariant
    <3>1. PICK sources, targets : Seed(QueryAt(depart, sources, targets))
      BY <2>3 DEF RunVariant
    <3>2. q'.maxRides = Cfg.maxTransfers + 1 /\ journeys' = <<>>
      BY Zenon, <3>1 DEF Seed, QueryAt
    <3>3. q'.maxRides \in Nat
      BY <3>2, RentalConfigAssumption
    <3> QED BY <3>2, <3>3 DEF LegsListed
  <2>4. CASE Finish
    <3> DEFINE found_ == {k \in 1..q.maxRides : Improves(k) /\ Extract(k, targetAt[k]).ok}
               rounds == AscendingIn(q.maxRides, found_)
               n == Len(rounds)
    <3>0. q.maxRides \in Nat /\ q' = q
      BY <2>4 DEF Finish, LegsListed
    <3>1. IsSeq(rounds) /\ ToSet(rounds) \in SUBSET (1..q.maxRides)
      BY <3>0, AscendingInIs
    <3>2. n \in Nat /\ \A i \in 1..n : rounds[i] \in Nat
      <4>1. n \in Nat /\ \A i \in 1..n : rounds[i] \in ToSet(rounds)
        BY <3>1, IsSeqHas
      <4> HIDE DEF n, rounds
      <4> QED BY <3>0, <3>1, <4>1
    <3>3. journeys' = [i \in 1..n |-> LET k == rounds[i]
                                         legs == Extract(k, targetAt[k]).legs
                                     IN  [rides |-> RideCount(legs), arr |-> arrAt[k],
                                          target |-> targetAt[k], legs |-> legs]]
      BY <2>4 DEF Finish
    <3> HIDE DEF rounds, n
    <3>4. Len(journeys') = n /\ DOMAIN journeys' = 1..n
      <4>1. journeys' = [i \in 1..n |-> journeys'[i]]
        BY <3>3
      <4> QED BY <3>2, <4>1, ListIs
    <3>5. ASSUME NEW i \in 1..n PROVE IsSeq(journeys'[i].legs)
      <4>1. journeys'[i].legs = Extract(rounds[i], targetAt[rounds[i]]).legs
        BY <3>3
      <4> QED BY <2>0, <3>2, <4>1, ExtractIs
    <3> QED BY <3>0, <3>2, <3>4, <3>5 DEF LegsListed
  <2>5. CASE Running /\ ~Finish
    BY <2>1, <2>5 DEF Running, RaptorStep, SourceWalks, BeginRound, Scan, WalkOn, answers, EvalTargets
  <2>6. CASE Ask
    BY <2>1, <2>6 DEF Ask, AskTransit, AskOnboard, AskRoad, Accept, raptorVars, answers
  <2>7. CASE Collect
    BY Zenon, <2>1, <2>7 DEF Collect, answers
  <2>8. CASE Bracket \/ Check \/ Bisect
    BY <2>1, <2>8 DEF Bracket, Check, Bisect, Narrow, Probe, PlanAt, raptorVars, answers
  <2>9. CASE Rank \/ RankOnboard \/ SwapOverlay \/ SwapRentals
    BY <2>1, <2>9 DEF Rank, RankOnboard, SwapOverlay, SwapRentals, raptorVars, answers
  <2> QED
    BY <2>1, <2>2, <2>3, <2>4, <2>5, <2>6, <2>7, <2>8, <2>9 DEF Next, vars, raptorVars, answers
<1> QED
  BY <1>1, <1>2, PublishedInvariance, PTL DEF Spec

\* While a request is answered: what was found so far is sound, and so are the
\* ways that the runs still to come will use.
Underway ==
  phase = "run" =>
    /\ req \in Requests(net.name)
    /\ Kept(found, req.class)
    /\ IsSeq(todo) /\ \A v \in ToSet(todo) : Travels(req, v)
    /\ IF req.kind = "onboard" THEN EgrWay(req, access[3]) /\ hunt.stage = "none"
       ELSE SetsOf(req, access)

\* And so is what was answered.
AnswerKept == answer.kind = "found" => Kept(answer.its, req.class)

\* The same after a step that leaves the network as it is, of which they depend.
UnderwayNext ==
  phase' = "run" =>
    /\ req' \in Requests(net.name)
    /\ Kept(found', req'.class)
    /\ IsSeq(todo') /\ \A v \in ToSet(todo') : Travels(req', v)
    /\ IF req'.kind = "onboard" THEN EgrWay(req', access'[3]) /\ hunt'.stage = "none"
       ELSE SetsOf(req', access')
AnswerKeptNext == answer'.kind = "found" => Kept(answer'.its, req'.class)

\* When the network stays, what was shown of the next state is shown.
LEMMA SameNetwork ==
  ASSUME net' = net, UnderwayNext, AnswerKeptNext
  PROVE  Underway' /\ AnswerKept'
<1>1. (phase = "run" => Kept(found, req.class))'
  BY Zenon DEF UnderwayNext, Kept, Carries, Rented, StillOffers
<1>2. (phase = "run" => IsSeq(todo) /\ \A v \in ToSet(todo) : Travels(req, v))'
  BY DEF UnderwayNext, Travels, AccWay, EgrWay
<1>3. (phase = "run" => /\ req \in Requests(net.name)
                        /\ IF req.kind = "onboard" THEN EgrWay(req, access[3]) /\ hunt.stage = "none"
                           ELSE SetsOf(req, access))'
  BY DEF UnderwayNext, SetsOf, AccWay, EgrWay
<1>4. AnswerKept'
  BY Zenon DEF AnswerKeptNext, AnswerKept, Kept, Carries, Rented, StillOffers
<1> QED BY <1>1, <1>2, <1>3, <1>4 DEF Underway

\* A request of a kind that is searched from its streets.
LEMMA AskTransitSound ==
  ASSUME Published, NEW r \in Requests(net.name), AskTransit(r)
  PROVE  UnderwayNext /\ AnswerKeptNext
<1> DEFINE reach == AccessSets(near, r, r.when)
           sets == reach.sets
<1>1. r.kind # "onboard" /\ req' = r /\ FirstRuns(r, sets)
  BY DEF AskTransit, Accept
<1>2. SetsOf(r, sets)
  BY <1>1, AccessSetsAre
<1> HIDE DEF reach, sets
<1>3. IsSeq(Variants(sets)) /\ \A v \in ToSet(Variants(sets)) : Travels(r, v)
  BY <1>2, VariantsTravel
<1>4. CASE Unreachable(sets, r.bike)
  BY <1>1, <1>4 DEF FirstRuns, Refuse, None, UnderwayNext, AnswerKeptNext
<1>5. CASE ~Unreachable(sets, r.bike)
  <2>1. access' = sets /\ todo' = Variants(sets) /\ found' = <<>> /\ answer' = Pending
    BY <1>1, <1>5 DEF FirstRuns, RunFor
  <2>2. UnderwayNext
    BY <1>1, <1>2, <1>3, <2>1, KeptNone DEF UnderwayNext
  <2>3. AnswerKeptNext
    BY <2>1 DEF AnswerKeptNext, Pending
  <2> QED BY <2>2, <2>3
<1> QED BY <1>4, <1>5

\* One of a rider who is on board.
LEMMA AskOnboardSound ==
  ASSUME Published, NEW r \in Requests(net.name), AskOnboard(r)
  PROVE  UnderwayNext /\ AnswerKeptNext
<1> DEFINE sources == OnboardSources(r)
           foot == Reach(near, r.to, "foot", Cfg.reach["foot"])
           ride == AlsoRented(r, foot)
           plans == SharedPlans(DOMAIN ride.sec, r.to, FALSE, r.class, r.when)
<1>1. r.kind = "onboard" /\ req' = r
  BY DEF AskOnboard, Accept
<1>2. CASE DOMAIN sources = {}
  <2>1. Refuse
    BY <1>2 DEF AskOnboard
  <2> QED BY <2>1 DEF Refuse, None, UnderwayNext, AnswerKeptNext
<1>3. CASE DOMAIN sources # {}
  <2>1. BoardFrom(r, sources, ride.search, Own(foot.sec), Shared(plans))
    BY <1>3 DEF AskOnboard
  <2>2. \A s \in DOMAIN plans : Offered(plans[s].a, r.class, r.to)
    <3>1. DOMAIN ride.sec \in SUBSET DOMAIN net.anchors
      <4>1. CASE r.class = ""
        <5>1. ride.sec = <<>>
          BY Zenon, <4>1 DEF AlsoRented
        <5>2. DOMAIN <<>> = {}
          OBVIOUS
        <5> QED BY <5>1, <5>2
      <4>2. CASE r.class # ""
        BY Zenon, <4>2, ReachIs DEF AlsoRented
      <4> QED BY Zenon, <4>1, <4>2
    <3>2. Place(r.to) /\ \A s \in DOMAIN net.anchors : Place(net.stopAt[s])
      BY PointsAssumption DEF Published
    <3>3. System = NoFeed \/ WellFormed(System)
      BY SnapshotsWellFormed DEF Published, System
    <3> HIDE DEF ride
    <3> QED BY <3>1, <3>2, <3>3, PlansFromStops
  <2> HIDE DEF plans, sources, foot, ride
  <2> DEFINE walker == Variant("onboard", Own(sources), Own(foot.sec))
             renter == Variant("onboard", Own(sources), Shared(plans))
             One(v) == Only(v, Runs(v))
  <2>3. EgrWay(r, Shared(plans)) /\ Travels(r, renter) /\ Travels(r, walker)
    BY <2>2 DEF Travels, EgrWay, AccWay, Variant, Own, Shared, Way
  <2>4. CASE DOMAIN Own(foot.sec).sec = {} /\ r.class = ""
    <3>1. Refuse
      BY Zenon, <2>1, <2>4 DEF BoardFrom
    <3> QED BY <3>1 DEF Refuse, None, UnderwayNext, AnswerKeptNext
  <2>5. CASE ~(DOMAIN Own(foot.sec).sec = {} /\ r.class = "")
    <3>1. /\ todo' = One(walker) \o One(renter) /\ found' = <<>> /\ hunt' = NoHunt /\ answer' = Pending
          /\ access' = <<Own(<<>>), Own(foot.sec), Shared(plans)>>
      BY Zenon, <2>1, <2>5 DEF BoardFrom, RunFor
    <3>2. ASSUME NEW v PROVE IsSeq(One(v)) /\ ToSet(One(v)) \in SUBSET {v}
      <4>1. Runs(v) \in BOOLEAN
        BY DEF Runs
      <4> QED BY <4>1, OnlyIs
    <3> HIDE DEF walker, renter, One
    <3>3. IsSeq(todo') /\ \A v \in ToSet(todo') : Travels(r, v)
      BY <2>3, <3>1, <3>2, ConcatIs
    <3>4. EgrWay(r, access'[3]) /\ hunt'.stage = "none"
      BY <2>3, <3>1 DEF NoHunt
    <3>5. UnderwayNext
      BY <1>1, <3>1, <3>3, <3>4, KeptNone DEF UnderwayNext
    <3>6. AnswerKeptNext
      BY <3>1 DEF AnswerKeptNext, Pending
    <3> QED BY <3>5, <3>6
  <2> QED BY Zenon, <2>4, <2>5
<1> QED BY <1>2, <1>3

\* One for a road.
LEMMA AskRoadSound ==
  ASSUME NEW r, AskRoad(r)
  PROVE  UnderwayNext /\ AnswerKeptNext
<1> DEFINE route == RoadFrom(road, r.from, r.to, r.mode)
           it == RoadItinerary(IF r.arriveBy THEN r.when - route.best \div 10 ELSE r.when, route.best)
<1>1. phase' = "idle" /\ answer' = IF route.best >= Far THEN None ELSE Itineraries(<<it>>)
  BY DEF AskRoad
<1>2. Carries(it, req'.class)
  BY NoRental DEF RoadItinerary, Carries
<1> HIDE DEF route, it
<1>3. AnswerKeptNext
  BY <1>1, <1>2, KeptOne DEF AnswerKeptNext, None, Itineraries
<1> QED BY <1>1, <1>3 DEF UnderwayNext

\* What a run of RAPTOR returns is added.
LEMMA CollectSound ==
  ASSUME Published, LegsListed, Underway, AnswerKept, Collect, todo # <<>>
  PROVE  UnderwayNext /\ AnswerKeptNext
<1> DEFINE v == Head(todo)
           its == SoundOf(Assembly.its)
           more == IF v.tag = "bike" /\ ~Hunting THEN Among(its, {it \in ToSet(its) : Saves(it)}) ELSE its
<1>1. /\ phase = "run" /\ todo' = Tail(todo) /\ found' = found \o more
      /\ UNCHANGED <<net, req, phase, access, hunt, answer>>
  BY Zenon DEF Collect, GatherSound, Gather, Assembly
<1>2. IsSeq(todo) /\ (\A x \in ToSet(todo) : Travels(req, x)) /\ Kept(found, req.class)
  BY <1>1 DEF Underway
<1>3. v \in ToSet(todo) /\ IsSeq(Tail(todo)) /\ ToSet(Tail(todo)) \in SUBSET ToSet(todo)
  <2>1. todo \in Seq(ToSet(todo)) /\ todo # <<>>
    BY <1>2 DEF IsSeq
  <2>2. v \in ToSet(todo) /\ Tail(todo) \in Seq(ToSet(todo))
    BY <2>1
  <2> HIDE DEF v
  <2> QED BY <2>2, SeqIs
<1>4. Kept(its, req.class)
  <2>1. System = NoFeed \/ WellFormed(System)
    BY SnapshotsWellFormed DEF Published, System
  <2>2. KeptIfOk(Assembly.its, req.class)
    BY Zenon, <1>2, <1>3, <2>1, AssemblyKept DEF LegsListed
  <2> QED BY <2>2, KeptSound
<1>5. Kept(found \o more, req.class)
  <2> HIDE DEF its
  <2>1. Kept(more, req.class)
    BY <1>4, KeptAmong
  <2> HIDE DEF more
  <2> QED BY <1>2, <2>1, KeptJoin
<1> HIDE DEF more
<1>6. UnderwayNext
  BY <1>1, <1>2, <1>3, <1>5 DEF Underway, UnderwayNext
<1> QED BY <1>1, <1>6 DEF AnswerKept, AnswerKeptNext

\* The departures that an arrive-by search looks at.
LEMMA ProbeSound ==
  ASSUME NEW h, phase = "run", Underway, AnswerKept, Probe(h), req.kind # "onboard"
  PROVE  UnderwayNext /\ AnswerKeptNext
<1>1. SetsOf(req, access) /\ req \in Requests(net.name)
  BY DEF Underway
<1>2. todo' = Variants(access) /\ found' = <<>> /\ UNCHANGED <<req, access, answer>>
  BY DEF Probe, RunFor
<1>3. IsSeq(Variants(access)) /\ \A v \in ToSet(Variants(access)) : Travels(req, v)
  BY <1>1, VariantsTravel
<1>4. UnderwayNext
  BY <1>1, <1>2, <1>3, KeptNone DEF UnderwayNext
<1> QED BY <1>2, <1>4 DEF AnswerKept, AnswerKeptNext

\* Starting a run.
LEMMA PlanAtSound ==
  ASSUME Published, NEW t, phase = "run", Underway, AnswerKept, PlanAt(t), req.kind # "onboard"
  PROVE  UnderwayNext /\ AnswerKeptNext
<1> DEFINE reach == AccessSets(near, req, t)
           sets == reach.sets
<1>1. req \in Requests(net.name)
  BY DEF Underway
<1>2. access' = sets /\ todo' = Variants(sets) /\ found' = <<>> /\ UNCHANGED <<req, answer>>
  BY DEF PlanAt, RunFor
<1>3. SetsOf(req, sets)
  BY <1>1, AccessSetsAre
<1> HIDE DEF sets
<1>4. IsSeq(Variants(sets)) /\ \A v \in ToSet(Variants(sets)) : Travels(req, v)
  BY <1>3, VariantsTravel
<1>5. UnderwayNext
  BY <1>1, <1>2, <1>3, <1>4, KeptNone DEF UnderwayNext
<1> QED BY <1>2, <1>5 DEF AnswerKept, AnswerKeptNext

\* The hunt for the latest departure plans again, on the ways of its request.
LEMMA HuntSound ==
  ASSUME Published, Underway, AnswerKept, Bracket \/ Check \/ Bisect
  PROVE  UnderwayNext /\ AnswerKeptNext
<1>1. phase = "run" /\ hunt.stage # "none"
  BY DEF Bracket, Check, Bisect, Collected
<1>2. req.kind # "onboard"
  BY <1>1 DEF Underway
<1>3. ASSUME NEW h, Narrow(h) PROVE UnderwayNext /\ AnswerKeptNext
  BY <1>1, <1>2, <1>3, ProbeSound, PlanAtSound DEF Narrow
<1>4. CASE Bracket
  <2>1. \E h : Probe(h)
    BY <1>4 DEF Bracket
  <2> QED BY <1>1, <1>2, <2>1, ProbeSound
<1>5. CASE Check
  <2>1. CASE InTime
    BY <1>3, <1>5, <2>1 DEF Check
  <2>2. CASE ~InTime
    BY <1>5, <2>2 DEF Check, None, UnderwayNext, AnswerKeptNext
  <2> QED BY <2>1, <2>2
<1>6. CASE Bisect
  BY <1>3, <1>6 DEF Bisect
<1> QED BY <1>4, <1>5, <1>6

\* The answers.
LEMMA RankSound ==
  ASSUME Published, Underway, Rank \/ RankOnboard
  PROVE  UnderwayNext /\ AnswerKeptNext
<1>0. /\ phase = "run" /\ phase' = "idle" /\ req' = req /\ req \in Requests(net.name)
      /\ Kept(found, req.class)
  BY DEF Rank, RankOnboard, Collected, Underway
<1>1. System = NoFeed \/ WellFormed(System)
  BY SnapshotsWellFormed DEF Published, System
<1>2. UnderwayNext
  BY <1>0 DEF UnderwayNext
<1>3. CASE Rank
  <2> DEFINE direct == IF req.bike THEN DirectRide ELSE [s |-> road, its |-> <<>>]
  <2>1. Reply(found \o direct.its) /\ req.kind # "onboard"
    BY <1>3 DEF Rank
  <2>2. Place(req.from) /\ Place(req.to)
    BY <1>0, <2>1, PointsAssumption DEF Published
  <2>3. Kept(direct.its, req.class)
    <3>1. CASE req.bike
      BY <1>1, <2>2, <3>1, DirectRideKept
    <3>2. CASE ~req.bike
      BY <3>2, KeptNone
    <3> QED BY <3>1, <3>2
  <2> HIDE DEF direct
  <2>4. Kept(found \o direct.its, req.class)
    BY <1>0, <2>3, KeptJoin
  <2> QED BY <1>0, <1>2, <2>1, <2>4, ReplyKept DEF AnswerKeptNext
<1>4. CASE RankOnboard
  <2> DEFINE tails == Tails(road, req, access[2], access[3])
  <2>1. RetainAll(tails.s, found \o tails.its) /\ req.kind = "onboard"
    BY <1>4 DEF RankOnboard
  <2>2. tt.nstops \in Nat
    BY TimetablesAssumption DEF Published, tt, IsCompiled
  <2>3. Kept(tails.its, req.class)
    BY <1>0, <1>1, <2>1, <2>2, TailsKept DEF Underway
  <2> HIDE DEF tails
  <2>4. Kept(found \o tails.its, req.class)
    BY <1>0, <2>3, KeptJoin
  <2> QED BY <1>0, <1>2, <2>1, <2>4, RetainAllKept DEF AnswerKeptNext
<1> QED BY <1>3, <1>4

\* RAPTOR works for the run that is first, and only while a request is answered.
Scheduled == pc # "idle" => phase = "run" /\ todo # <<>>

\* Rounds are run for a request that is being answered, and for the first run it
\* still waits for: no run outlives its request (engine/plan.go).
THEOREM ScheduledInvariance == Spec => []Scheduled
<1>1. Init => Scheduled
  BY DEF Init, RaptorInit, Scheduled
<1>2. Scheduled /\ [Next]_vars => Scheduled'
  <2> SUFFICES ASSUME Scheduled, [Next]_vars PROVE Scheduled'
    OBVIOUS
  <2>1. CASE UNCHANGED <<pc, phase, todo>>
    BY <2>1 DEF Scheduled
  <2>2. CASE Ask
    <3>1. pc = "idle" /\ pc' = pc
      BY <2>2 DEF Ask, AskTransit, AskOnboard, AskRoad, Accept, raptorVars, Scheduled
    <3> QED BY <3>1 DEF Scheduled
  <2>3. CASE RunVariant
    BY <2>3 DEF RunVariant, planVars, progress, Scheduled
  <2>4. CASE Running
    <3>1. pc # "idle" /\ UNCHANGED <<phase, todo>>
      BY Zenon, <2>4 DEF Running, RaptorStep, SourceWalks, BeginRound, Scan, WalkOn, Finish, planVars, progress
    <3> QED BY <3>1 DEF Scheduled
  <2>5. CASE Collect \/ SwapBundles
    BY Zenon, <2>5 DEF Collect, SwapBundles, FreshRaptor, Scheduled
  <2>6. CASE Bracket \/ Check \/ Bisect
    BY <2>6 DEF Bracket, Check, Bisect, Narrow, Probe, PlanAt, Collected, raptorVars, Scheduled
  <2>7. CASE Rank \/ RankOnboard
    BY <2>7 DEF Rank, RankOnboard, Collected, raptorVars, Scheduled
  <2>8. CASE SwapOverlay \/ SwapRentals
    BY <2>1, <2>8 DEF SwapOverlay, SwapRentals, raptorVars, progress
  <2> QED
    BY <2>1, <2>2, <2>3, <2>4, <2>5, <2>6, <2>7, <2>8 DEF Next, vars, raptorVars, planVars, progress
<1> QED
  BY <1>1, <1>2, PTL DEF Spec

\* The inductive invariant of the rentals: every access and egress way of the runs
\* to come, and every itinerary found so far, carries rentals that the snapshot
\* offers, and so does the answer (engine/shared.go).
THEOREM RentalsInvariance == Spec => [](Underway /\ AnswerKept)
<1>1. Init => Underway /\ AnswerKept
  BY DEF Init, Pending, Underway, AnswerKept
<1>2. Underway /\ AnswerKept /\ Published /\ LegsListed /\ Scheduled /\ [Next]_vars => (Underway /\ AnswerKept)'
  <2> SUFFICES ASSUME Underway, AnswerKept, Published, LegsListed, Scheduled, [Next]_vars
               PROVE Underway' /\ AnswerKept'
    OBVIOUS
  <2>1. CASE UNCHANGED <<net, req, phase, found, todo, access, hunt, answer>>
    <3>1. UnderwayNext /\ AnswerKeptNext
      BY <2>1 DEF Underway, AnswerKept, UnderwayNext, AnswerKeptNext
    <3> QED BY <2>1, <3>1, SameNetwork
  <2>2. CASE Ask
    <3>1. net' = net
      BY <2>2 DEF Ask, AskTransit, AskOnboard, AskRoad, Accept
    <3>2. UnderwayNext /\ AnswerKeptNext
      BY <2>2, AskTransitSound, AskOnboardSound, AskRoadSound DEF Ask
    <3> QED BY <3>1, <3>2, SameNetwork
  <2>3. CASE RunVariant
    BY ZenonT(30), <2>1, <2>3 DEF RunVariant, Seed, planVars, progress
  <2>4. CASE Running
    BY Zenon, <2>1, <2>4 DEF Running, RaptorStep, SourceWalks, BeginRound, Scan, WalkOn, Finish, planVars, progress
  <2>5. CASE Collect
    <3>1. net' = net /\ todo # <<>>
      BY Zenon, <2>5 DEF Collect, Scheduled
    <3>2. UnderwayNext /\ AnswerKeptNext
      BY <2>5, <3>1, CollectSound
    <3> QED BY <3>1, <3>2, SameNetwork
  <2>6. CASE Bracket \/ Check \/ Bisect
    <3>1. net' = net
      BY <2>6 DEF Bracket, Check, Bisect, Narrow, Probe, PlanAt
    <3>2. UnderwayNext /\ AnswerKeptNext
      BY <2>6, HuntSound
    <3> QED BY <3>1, <3>2, SameNetwork
  <2>7. CASE Rank \/ RankOnboard
    <3>1. net' = net
      BY <2>7 DEF Rank, RankOnboard
    <3>2. UnderwayNext /\ AnswerKeptNext
      BY <2>7, RankSound
    <3> QED BY <3>1, <3>2, SameNetwork
  <2>8. CASE SwapOverlay \/ SwapRentals
    BY <2>1, <2>8 DEF SwapOverlay, SwapRentals, progress
  <2>9. CASE SwapBundles
    BY <2>9 DEF SwapBundles, FreshPlanner, Pending, Underway, AnswerKept
  <2> QED
    BY <2>1, <2>2, <2>3, <2>4, <2>5, <2>6, <2>7, <2>8, <2>9 DEF Next, vars, planVars, progress
<1> QED
  BY <1>1, <1>2, PublishedInvariance, LegsListedInvariance, ScheduledInvariance, PTL DEF Spec

\* Whatever the GBFS manager publishes between the estimate of a rental, its check
\* and the answer (engine/shared.go), each rental that is answered is one that a
\* search of the snapshot that was checked offers, but for what Check does not look
\* at, with the range that the routed ride needs.
THEOREM RentalsAreOffered == Spec => []RentalsStillOffered
<1>1. AnswerKept => RentalsStillOffered
  <2> SUFFICES ASSUME AnswerKept, answer.kind = "found",
                      NEW n \in 1..Len(answer.its), NEW i \in 1..Len(answer.its[n].rentals)
               PROVE  StillOffers(answer.its[n].rentals[i], req.class)
    BY Zenon DEF RentalsStillOffered, StillOffers
  <2>1. Carries(answer.its[n], req.class)
    BY IsSeqHas DEF AnswerKept, Kept
  <2> QED BY <2>1, IsSeqHas DEF Carries, Rented
<1> QED
  BY <1>1, RentalsInvariance, PTL

-----------------------------------------------------------------------------
(* The overlay                                                             *)

\* The overlay is the projection of messages of this network, at its moment.
Projected == heard \in net.messages /\ ov = BuildOverlay(tt, heard, net.now)

\* SetRT (engine/bundle.go) installs what buildOverlay makes of messages of the served
\* network, and a new network gets an overlay of its own: at no moment does a search
\* read delays that were projected onto another timetable (rt/overlay.go:129).
THEOREM ProjectedInvariance == Spec => []Projected
<1>1. Init => Projected
  BY DEF Init, Projected
<1>2. Projected /\ [Next]_vars => Projected'
  <2> SUFFICES ASSUME Projected, [Next]_vars PROVE Projected'
    OBVIOUS
  <2>1. CASE UNCHANGED <<net, heard, ov>>
    BY <2>1 DEF Projected, tt
  <2>2. CASE SwapRentals
    BY <2>1, <2>2 DEF SwapRentals
  <2>3. CASE SwapBundles
    BY <2>3 DEF SwapBundles, Projected, tt
  <2>4. CASE SwapOverlay
    BY <2>4 DEF SwapOverlay, Projected, tt
  <2>5. CASE Ask
    BY ZenonT(30), <2>1, <2>5 DEF Ask, AskTransit, AskOnboard, AskRoad, Accept
  <2>6. CASE RunVariant
    BY Zenon, <2>1, <2>6 DEF RunVariant, Seed
  <2>7. CASE Running
    BY Zenon, <2>1, <2>7 DEF Running, RaptorStep, SourceWalks, BeginRound, Scan, WalkOn, Finish
  <2>8. CASE Collect
    BY Zenon, <2>1, <2>8 DEF Collect
  <2>9. CASE Bracket \/ Check \/ Bisect
    BY <2>1, <2>9 DEF Bracket, Check, Bisect, Narrow, Probe, PlanAt
  <2>10. CASE Rank \/ RankOnboard
    BY <2>1, <2>10 DEF Rank, RankOnboard
  <2> QED
    BY <2>1, <2>2, <2>3, <2>4, <2>5, <2>6, <2>7, <2>8, <2>9, <2>10 DEF Next, vars
<1> QED
  BY <1>1, <1>2, PTL DEF Spec

\* Of the feeds' entities, in whatever order and number they come: each trip runs as
\* its first update says at every stop (applyTripUpdate, overlay.go:123-210), is
\* skipped exactly when a cancellation of it was heard, and its vehicle's entry is
\* the newest heard.
THEOREM OverlaysAreFaithful == Spec => []OverlayFaithful
<1>1. ASSUME Published, Projected PROVE OverlayFaithful
  <2>1. AreMessages(heard)
    BY <1>1, MessagesAssumption DEF Published, Projected
  <2>2. Trips = 1..Len(tt.trips)
    BY DEF Trips
  <2> SUFFICES ASSUME NEW t \in Trips
               PROVE  /\ \A m \in 1..Len(heard) : \A i \in 1..Len(heard[m].trips) :
                           LET tu == heard[m].trips[i]
                           IN  FirstUpdate(tt, heard, t, m, i) /\ InOrder(tt, t, tu.stus) =>
                                 \A pos \in 1..TripLen(tt, t) :
                                   ov.delta[t][pos].dep = DelayAt(tt, t, tu, pos, ServiceBase(tu.startDay, net.now))
                      /\ ov.skip[t] = CancelledIn(tt, heard, t)
                      /\ ov.vehTime[t] = MaxOf({0} \cup StampsOf(tt, heard, t))
    BY DEF OverlayFaithful
  <2> DEFINE h == [t |-> t, messages |-> heard]
             n == Len(heard)
  <2>3. MessagesHeard(h, n, ov)
    BY <1>1, <2>1, <2>2, LoadedIs, BuiltFaithful DEF Projected
  <2>4. h.t = t /\ h.messages = heard
    OBVIOUS
  <2> HIDE DEF h
  <2>5. ASSUME NEW m \in 1..n, NEW i \in 1..Len(heard[m].trips), FirstUpdate(tt, heard, t, m, i), InOrder(tt, t, heard[m].trips[i].stus),
               NEW pos \in 1..TripLen(tt, t)
        PROVE  ov.delta[t][pos].dep = DelayAt(tt, t, heard[m].trips[i], pos, ServiceBase(heard[m].trips[i].startDay, net.now))
    <3>1. i \in UpdatesIn(tt, heard[m], t)
      BY <2>5 DEF FirstUpdate
    <3>2. Follows(t, heard[m].trips[i], ov.delta[t])
      BY <2>3, <2>4, <2>5, <3>1 DEF MessagesHeard
    <3> QED BY <2>5, <3>2 DEF Follows
  <2>6. ov.skip[t] = CancelledIn(tt, heard, t)
    <3>1. CancelledBy(heard, t, n) <=> CancelledIn(tt, heard, t)
      BY DEF CancelledBy, CancelledIn, About
    <3>2. CancelledIn(tt, heard, t) \in BOOLEAN
      BY DEF CancelledIn
    <3>3. ov.skip[t] \in BOOLEAN /\ (ov.skip[t] <=> CancelledBy(heard, t, n))
      BY <2>3, <2>4 DEF MessagesHeard
    <3> QED BY <3>1, <3>2, <3>3
  <2>7. ov.vehTime[t] = MaxOf({0} \cup StampsOf(tt, heard, t))
    <3> DEFINE T == {0} \cup StampsOf(tt, heard, t)
               v == ov.vehTime[t]
    <3>1. StampsUpTo(heard, t, n) = StampsOf(tt, heard, t)
      BY DEF StampsUpTo, StampsTo, StampsOf, About
    <3>2. Newest(v, T)
      BY <2>3, <2>4, <3>1 DEF MessagesHeard
    <3> HIDE DEF T, v
    <3>3. v \in T /\ (\A y \in T : v >= y) /\ \A x \in T : (\A y \in T : x >= y) => x = v
      BY <3>2 DEF Newest
    <3>4. MaxOf(T) = v
      BY <3>3 DEF MaxOf
    <3> QED BY <3>4 DEF T, v
  <2> QED BY <2>5, <2>6, <2>7
<1> QED BY <1>1, PublishedInvariance, ProjectedInvariance, PTL

-----------------------------------------------------------------------------
(* The pooled street search                                                *)

\* A search over the nodes of the network, in deciseconds.
IsSearch(s) ==
  /\ DOMAIN s = {"dist", "stamp", "epoch", "heap"}
  /\ DOMAIN s.dist = 1..net.street.nodes /\ \A n \in 1..net.street.nodes : s.dist[n] \in Nat
  /\ \A x \in s.heap : x[1] \in Nat /\ x[2] \in 1..net.street.nodes

\* A mode of the streets; a car goes by the speed of each edge.
Rated(mode, sf) == mode \in StreetModes /\ (mode # "car" => sf \in Nat)

\* A run by such a mode, towards somewhere.
IsRun(run) ==
  /\ run.g = net.street /\ Rated(run.mode, run.sf)
  /\ \A n \in 1..net.street.nodes : run.h[n] \in Nat

Costed(ends) == \A end \in ends : end.ds \in Nat

\* The least of a set of costs.
LEMMA LeastIs ==
  ASSUME NEW S \in SUBSET Nat, S # {}
  PROVE  Least(S) \in S /\ \A x \in S : Least(S) <= x
BY LeastExists DEF Least

\* The top of a heap is in it.
LEMMA TopIs ==
  ASSUME NEW heap, heap # {}, \A x \in heap : x[1] \in Nat /\ x[2] \in Nat
  PROVE  Top(heap) \in heap
<1> DEFINE keys == {x[1] : x \in heap}
           k == Least(keys)
           nodes == {x[2] : x \in {y \in heap : y[1] = k}}
           n == Least(nodes)
<1>1. keys \in SUBSET Nat /\ keys # {}
  OBVIOUS
<1>2. k \in keys /\ \A x \in keys : k <= x
  <2> HIDE DEF keys
  <2> QED BY <1>1, LeastIs
<1>3. nodes \in SUBSET Nat /\ nodes # {}
  <2> HIDE DEF k
  <2> QED BY <1>2
<1>4. n \in nodes /\ \A x \in nodes : n <= x
  <2> HIDE DEF nodes
  <2> QED BY <1>3, LeastIs
<1> HIDE DEF k, n
<1>5. PICK x \in heap : x[1] = k /\ x[2] = n
  BY <1>4
<1>6. ASSUME NEW y \in heap PROVE Before(x, y)
  <2>1. k <= y[1] /\ (y[1] = k => n <= y[2])
    BY <1>2, <1>4
  <2>2. k \in Nat /\ y[1] \in Nat
    BY <1>1, <1>2
  <2> QED BY <1>5, <2>1, <2>2 DEF Before
<1> QED BY <1>6 DEF Top

\* Entering costs keeps a search one.
LEMMA EnteredIs ==
  ASSUME Published, NEW s, IsSearch(s), NEW ends, Costed(ends), NEW h, \A n \in 1..net.street.nodes : h[n] \in Nat
  PROVE  IsSearch(Entered(s, ends, h))
<1> DEFINE Better(n) == {end.ds : end \in {x \in ends : x.node = n /\ ~(Reached(s, n) /\ s.dist[n] <= x.ds)}}
           nodes == {n \in DOMAIN s.dist : Better(n) # {}}
           stamp == [n \in DOMAIN s.stamp |-> IF n \in nodes THEN s.epoch ELSE s.stamp[n]]
           dist == [n \in DOMAIN s.dist |-> IF n \in nodes THEN Least(Better(n)) ELSE s.dist[n]]
           heap == s.heap \cup {<<Least(Better(n)) + h[n], n>> : n \in nodes}
           after == [s EXCEPT !.stamp = stamp, !.dist = dist, !.heap = heap]
<1>1. Entered(s, ends, h) = after
  BY DEF Entered
<1>2. \A n : Better(n) \in SUBSET Nat
  BY DEF Costed
<1>3. nodes \in SUBSET (1..net.street.nodes) /\ \A n \in nodes : Better(n) # {}
  BY DEF IsSearch
<1> HIDE DEF Better, nodes
<1>4. \A n \in nodes : Least(Better(n)) \in Nat
  BY <1>2, <1>3, LeastIs
<1>5. DOMAIN dist = 1..net.street.nodes /\ \A n \in 1..net.street.nodes : dist[n] \in Nat
  BY <1>4 DEF IsSearch
<1>6. \A x \in heap : x[1] \in Nat /\ x[2] \in 1..net.street.nodes
  <2>1. \A n \in nodes : Least(Better(n)) + h[n] \in Nat /\ n \in 1..net.street.nodes
    BY <1>3, <1>4
  <2> QED BY <2>1 DEF IsSearch
<1> HIDE DEF stamp, dist, heap
<1>7. DOMAIN after = {"dist", "stamp", "epoch", "heap"} /\ after.dist = dist /\ after.heap = heap
  BY DEF IsSearch
<1> HIDE DEF after
<1>8. IsSearch(after)
  BY <1>5, <1>6, <1>7 DEF IsSearch
<1> QED BY <1>1, <1>8

\* The cost of an edge, of a part of one.
LEMMA CostsAre ==
  ASSUME NEW meters \in Nat, NEW sf \in Nat
  PROVE  ((meters * sf) % Word) \div Frac \in Nat /\ FixedSpeedDs(meters, sf) \in Nat
<1>1. Word \in Nat \ {0} /\ Frac \in Nat \ {0}
  BY WidthsAssumption
<1> DEFINE m == meters * sf
<1>2. m \in Nat
  OBVIOUS
<1>3. FixedSpeedDs(meters, sf) = m \div Frac
  BY DEF FixedSpeedDs
<1> HIDE DEF m
<1>4. m % Word \in Nat
  BY <1>1, <1>2
<1>5. (m % Word) \div Frac \in Nat /\ m \div Frac \in Nat
  BY <1>1, <1>2, <1>4, QuotientIs
<1> QED BY <1>3, <1>5 DEF m

\* The time by car over so many metres of an edge, rounded down or up.
LEMMA CarIs ==
  ASSUME NEW speed \in Nat, NEW meters \in Nat
  PROVE  LET v == IF speed = 0 THEN 30 ELSE speed
         IN  (meters * 36) \div v \in Nat /\ (meters * 36 + v - 1) \div v \in Nat
<1> DEFINE v == IF speed = 0 THEN 30 ELSE speed
           m == meters * 36
<1>1. v \in Nat \ {0} /\ m \in Nat
  OBVIOUS
<1> HIDE DEF v, m
<1>2. m + v - 1 \in Nat
  BY <1>1
<1>3. m \div v \in Nat /\ (m + v - 1) \div v \in Nat
  BY <1>1, <1>2, QuotientIs
<1> QED BY <1>3 DEF v, m

\* Going on over the edges out of a node.
LEMMA EndsCosted ==
  ASSUME Published, NEW n, NEW ds \in Nat, NEW mode, NEW sf, Rated(mode, sf)
  PROVE  Costed(EndsOf(net.street, n, ds, mode, sf))
<1> SUFFICES ASSUME NEW end \in EndsOf(net.street, n, ds, mode, sf) PROVE end.ds \in Nat
  BY DEF Costed
<1>1. PICK e \in EdgesOf(net.street, n, mode) : end.ds = ds + CostOf(net.street.edges[e], mode, sf)
  BY DEF EndsOf
<1> DEFINE edge == net.street.edges[e]
<1>2. edge.meters \in Nat /\ edge.speed \in Nat
  <2>1. e \in 1..Len(net.street.edges)
    BY <1>1 DEF EdgesOf
  <2> QED BY <2>1, StreetsAssumption DEF Published
<1>3. end.ds = ds + CostOf(edge, mode, sf)
  BY <1>1
<1> HIDE DEF edge
<1>4. CostOf(edge, mode, sf) \in Nat
  <2>1. CASE mode = "car"
    BY <1>2, <2>1, CarIs DEF CostOf, CarDs
  <2>2. CASE mode # "car"
    <3>1. ((edge.meters * sf) % Word) \div Frac \in Nat
      BY <1>2, <2>2, CostsAre DEF Rated
    <3> QED BY <2>2, <3>1 DEF CostOf, EdgeDs
  <2> QED BY <2>1, <2>2
<1> QED BY <1>3, <1>4

\* One turn of a run.
LEMMA SettleIs ==
  ASSUME Published, NEW s, IsSearch(s), NEW run, IsRun(run)
  PROVE  IsSearch(Settle(s, run))
<1> DEFINE top == Top(s.heap)
           popped == [s EXCEPT !.heap = s.heap \ {top}]
           ends == Within(EndsOf(run.g, top[2], top[1], run.mode, run.sf), run.limit)
<1>1. Settle(s, run) = IF s.heap = {} THEN s
                       ELSE IF ~Reached(s, top[2]) \/ s.dist[top[2]] # top[1] THEN popped
                       ELSE Entered(popped, ends, run.h)
  BY DEF Settle
<1>2. CASE s.heap = {}
  BY <1>1, <1>2
<1>3. CASE s.heap # {}
  <2>1. net.street.nodes \in Nat
    BY StreetsAssumption DEF Published
  <2>2. top \in s.heap
    <3>1. \A x \in s.heap : x[1] \in Nat /\ x[2] \in Nat
      BY <2>1 DEF IsSearch
    <3> QED BY <1>3, <3>1, TopIs
  <2>3. IsSearch(popped)
    <3> HIDE DEF top
    <3> QED BY DEF IsSearch
  <2>4. Costed(ends)
    <3>1. top[1] \in Nat
      BY <2>2 DEF IsSearch
    <3> HIDE DEF top
    <3>2. Costed(EndsOf(net.street, top[2], top[1], run.mode, run.sf))
      BY <3>1, EndsCosted DEF IsRun
    <3> QED BY <3>2 DEF Costed, Within, IsRun
  <2> HIDE DEF popped, ends
  <2>5. IsSearch(Entered(popped, ends, run.h))
    BY <2>3, <2>4, EnteredIs DEF IsRun
  <2> QED BY <1>1, <1>3, <2>3, <2>5
<1> QED BY <1>2, <1>3

TurnStep(p, s, k) == Settle(s, p)
TurnGood(h, k, s) == IsSearch(s)
Turning == INSTANCE FoldLaws WITH Step <- TurnStep, Good <- TurnGood

\* All of them.
LEMMA SettledIs ==
  ASSUME Published, NEW s, IsSearch(s), NEW run, IsRun(run)
  PROVE  IsSearch(Settled(s, run))
<1> DEFINE turn == Turning!Path(run, s, Turns(run.g))
<1>1. Turns(run.g) \in Nat
  BY StreetsAssumption DEF Turns, IsRun, Published
<1>2. TurnGood(0, 0, s)
  BY DEF TurnGood
<1>3. ASSUME NEW k \in 1..Turns(run.g), NEW acc, TurnGood(0, k - 1, acc)
      PROVE  TurnGood(0, k, TurnStep(run, acc, k))
  BY <1>3, SettleIs DEF TurnGood, TurnStep
<1>4. \A k \in 0..Turns(run.g) : TurnGood(0, k, turn[k])
  BY <1>1, <1>2, <1>3, Turning!PathKeeps, NatsFrom
<1>5. IsSearch(turn[Turns(run.g)])
  BY <1>1, <1>4 DEF TurnGood
<1>6. Settled(s, run) = IF s.heap = {} THEN s ELSE turn[Turns(run.g)]
  BY DEF Settled, TurnStep, Turning!Path
<1> QED BY <1>5, <1>6

\* A run from seeds.
LEMMA RunNearIs ==
  ASSUME Published, NEW s, IsSearch(s), NEW seeds, Costed(ToSet(seeds)),
         NEW mode, NEW sf, Rated(mode, sf), NEW maxDs
  PROVE  IsSearch(RunNear(s, net.street, seeds, mode, sf, maxDs))
<1> DEFINE run == [g |-> net.street, mode |-> mode, sf |-> sf, limit |-> Least({maxDs, MaxNearDs}),
                   h |-> [n \in 1..net.street.nodes |-> 0]]
           ends == Within(ToSet(seeds), run.limit)
           fresh == NextEpoch(s)
<1>1. IsRun(run) /\ \A n \in 1..net.street.nodes : run.h[n] \in Nat
  BY DEF IsRun
<1>2. Costed(ends)
  BY DEF Costed, Within
<1>3. IsSearch(fresh)
  BY DEF NextEpoch, IsSearch
<1>4. RunNear(s, net.street, seeds, mode, sf, maxDs) = Settled(Entered(fresh, ends, run.h), run)
  BY DEF RunNear
<1> HIDE DEF run, ends, fresh
<1> QED BY <1>1, <1>2, <1>3, <1>4, EnteredIs, SettledIs

\* Beside streets of the network, so many metres from their ends.
Aside(sn, mode) ==
  /\ {sn.alongU, sn.alongV, sn.perp} \in SUBSET Nat
  /\ mode = "car" => {Either(sn.fwd, 1), Either(sn.bwd, 1)} \in SUBSET (1..Len(net.street.edges))

\* What a run starts from around a snapped point.
LEMMA SeedsAre ==
  ASSUME Published, NEW mode, NEW sf, Rated(mode, sf), NEW sn, Aside(sn, mode)
  PROVE  Costed(ToSet(SrcSeeds(net.street, sn, mode, sf)))
<1> DEFINE SeedOf(node, edge, meters) == SeedAt(net.street, node, edge, meters, mode, sf)
<1>1. ASSUME NEW node, NEW e \in {Either(sn.fwd, 1), Either(sn.bwd, 1)}, NEW meters \in Nat
      PROVE  SeedOf(node, e, meters).ds \in Nat
  <2> DEFINE edge == net.street.edges[e]
  <2>0. SeedOf(node, e, meters).ds = PartialDs(edge, meters, mode, sf)
    BY DEF SeedAt
  <2>1. CASE mode = "car"
    <3>1. e \in 1..Len(net.street.edges)
      BY <2>1 DEF Aside
    <3>2. edge.speed \in Nat
      BY <3>1, StreetsAssumption DEF Published
    <3> HIDE DEF edge
    <3> QED BY <2>0, <2>1, <3>2, CarIs DEF PartialDs
  <2>2. CASE mode # "car"
    BY <2>0, <2>2, CostsAre DEF PartialDs, Rated
  <2> QED BY <2>1, <2>2
<1>2. sn.alongU + sn.perp \in Nat /\ sn.alongV + sn.perp \in Nat
  BY DEF Aside
<1> DEFINE toV == SeedOf(sn.v, Either(sn.fwd, 1), sn.alongV + sn.perp)
           toU == SeedOf(sn.u, Either(sn.bwd, 1), sn.alongU + sn.perp)
           orU == SeedOf(sn.u, Either(sn.fwd, 1), sn.alongU + sn.perp)
           fwd == Takes(net.street, sn.fwd, mode)
           bwd == Takes(net.street, sn.bwd, mode)
<1>3. toV.ds \in Nat /\ toU.ds \in Nat /\ orU.ds \in Nat
  BY <1>1, <1>2
<1>4. SrcSeeds(net.street, sn, mode, sf) =
        IF fwd \/ bwd THEN (IF fwd THEN <<toV>> ELSE <<>>) \o (IF bwd THEN <<toU>> ELSE <<>>)
        ELSE <<orU, toV>>
  BY DEF SrcSeeds
<1> HIDE DEF toV, toU, orU, fwd, bwd
<1>5. ToSet(<<orU, toV>>) = {orU, toV}
  BY DEF ToSet
<1>6. IsSeq(<<toV>>) /\ IsSeq(<<toU>>) /\ IsSeq(<<>>) /\ ToSet(<<toV>>) = {toV} /\ ToSet(<<toU>>) = {toU} /\ ToSet(<<>>) = {}
  BY OneIs, NoneIs
<1> DEFINE a == IF fwd THEN <<toV>> ELSE <<>>
           b == IF bwd THEN <<toU>> ELSE <<>>
<1>7. IsSeq(a) /\ IsSeq(b) /\ ToSet(a) \in SUBSET {toV} /\ ToSet(b) \in SUBSET {toU}
  BY <1>6
<1> HIDE DEF a, b
<1>8. ToSet(a \o b) \in SUBSET {toV, toU}
  BY <1>7, ConcatIs
<1>9. ToSet(SrcSeeds(net.street, sn, mode, sf)) \in SUBSET {toV, toU, orU}
  BY <1>4, <1>5, <1>8 DEF a, b
<1> QED BY <1>3, <1>9 DEF Costed

-----------------------------------------------------------------------------
(* Ways in seconds                                                         *)

\* Seconds to or from stops of the timetable, and sources a query starts from.
Seconds(sec) == DOMAIN sec \in SUBSET Stops /\ \A s \in DOMAIN sec : sec[s] \in Nat
Starts(sources) ==
  DOMAIN sources \in SUBSET Stops /\ \A s \in DOMAIN sources : sources[s].sec \in Nat /\ sources[s].arr \in Int

\* What is read off a search.
LEMMA StopsAfterIs ==
  ASSUME Published, NEW s, IsSearch(s), NEW sf \in Nat, NEW maxDs
  PROVE  Seconds(StopsAfter(s, net.anchors, sf, maxDs).sec)
<1> DEFINE Ds(stop) == StopDs(s, net.anchors, stop, sf, maxDs)
           sec == StopsAfter(s, net.anchors, sf, maxDs).sec
<1>1. ASSUME NEW stop \in DOMAIN net.anchors PROVE Ds(stop) \in Nat
  <2> DEFINE totals == {s.dist[a.node] + FixedSpeedDs(a.meters, sf) :
                          a \in {x \in ToSet(net.anchors[stop]) : Reached(s, x.node)}}
             within == {d \in totals : d <= maxDs}
  <2>1. \A a \in ToSet(net.anchors[stop]) : a.node \in 1..net.street.nodes /\ a.meters \in Nat
    BY StreetsAssumption DEF Published
  <2>2. \A a \in ToSet(net.anchors[stop]) : s.dist[a.node] \in Nat /\ FixedSpeedDs(a.meters, sf) \in Nat
    BY <2>1, CostsAre DEF IsSearch
  <2>3. within \in SUBSET Nat
    BY <2>2
  <2>4. Ds(stop) = IF within = {} THEN Far ELSE Least(within)
    BY DEF StopDs
  <2> HIDE DEF within, Ds
  <2> QED BY <2>3, <2>4, LeastIs, FarIs
<1>2. DOMAIN net.anchors = Stops
  BY StreetsAssumption DEF Published, Stops, StopsOf, tt
<1>3. sec = [stop \in {x \in DOMAIN net.anchors : Ds(x) < Far} |-> (Ds(stop) + 5) \div 10]
  BY DEF StopsAfter
<1> HIDE DEF sec, Ds
<1>4. \A stop \in DOMAIN sec : stop \in DOMAIN net.anchors /\ sec[stop] = (Ds(stop) + 5) \div 10
  BY <1>3
<1>5. ASSUME NEW stop \in DOMAIN sec PROVE sec[stop] \in Nat
  <2>1. Ds(stop) + 5 \in Nat
    BY <1>1, <1>4
  <2>2. (Ds(stop) + 5) \div 10 \in Nat
    BY <2>1, QuotientIs
  <2> QED BY <1>4, <2>2
<1>6. Seconds(sec)
  BY <1>2, <1>4, <1>5 DEF Seconds
<1> QED BY <1>6 DEF sec

Modes == {"foot", "bike", "scooter"}

\* A search around a point of the network.
LEMMA ReachCounts ==
  ASSUME Published, NEW s, IsSearch(s), NEW point, Place(point), NEW mode \in Modes, NEW maxDs
  PROVE  IsSearch(Reach(s, point, mode, maxDs).search) /\ Seconds(Reach(s, point, mode, maxDs).sec)
<1> DEFINE on == StreetMode(mode)
           sf == Cfg.speed[mode]
           seeds == SrcSeeds(net.street, point.snaps[on], on, sf)
           after == RunNear(s, net.street, seeds, on, sf, maxDs)
<1>1. on \in {"foot", "bike"} /\ sf \in Nat /\ Rated(on, sf)
  BY RentalConfigAssumption DEF Modes, StreetMode, Rated, StreetModes
<1>2. CASE point.snaps[on] = NoSnap
  <2>1. Reach(s, point, mode, maxDs) = [search |-> s, sec |-> <<>>]
    BY <1>2 DEF Reach
  <2>2. DOMAIN <<>> = {}
    OBVIOUS
  <2>3. Seconds(<<>>)
    BY <2>2 DEF Seconds
  <2> QED BY <2>1, <2>3
<1>3. CASE point.snaps[on] # NoSnap
  <2>1. Costed(ToSet(seeds))
    <3> HIDE DEF sf
    <3>1. {point.snaps[on].alongU, point.snaps[on].alongV, point.snaps[on].perp} \in SUBSET Nat
      BY <1>1, <1>3 DEF Place, StreetModes
    <3>2. Aside(point.snaps[on], on)
      BY <1>1, <3>1 DEF Aside
    <3> QED BY <1>1, <3>2, SeedsAre
  <2>2. IsSearch(after)
    <3> HIDE DEF seeds, on, sf
    <3> QED BY <1>1, <2>1, RunNearIs
  <2>3. Reach(s, point, mode, maxDs) = StopsAfter(after, net.anchors, sf, maxDs)
    BY <1>3 DEF Reach, ReachStops
  <2> HIDE DEF after, sf
  <2>4. StopsAfter(after, net.anchors, sf, maxDs).search = after
    BY DEF StopsAfter
  <2> QED BY <1>1, <2>2, <2>3, <2>4, StopsAfterIs
<1> QED BY <1>2, <1>3

CountGood(h, k, acc) ==
  IsSearch(acc.search) /\ IsSeq(acc.sets) /\ Len(acc.sets) = k /\ \A i \in 1..k : Seconds(acc.sets[i])
Counting == INSTANCE FoldLaws WITH Step <- ReachStep, Good <- CountGood

\* All the searches of a request.
LEMMA ReachAllCounts ==
  ASSUME Published, NEW s, IsSearch(s), NEW r, Place(r.from), Place(r.to)
  PROVE  LET reach == ReachAll(s, r)
         IN  IsSearch(reach.search) /\ \A i \in 1..(IF r.bike THEN 4 ELSE 2) : Seconds(reach.sets[i])
<1> DEFINE n == IF r.bike THEN 4 ELSE 2
           base == [search |-> s, sets |-> <<>>]
<1>1. DOMAIN Searches(r) = 1..n /\ n \in Nat
  BY DEF Searches
<1>2. CountGood(0, 0, base)
  BY NoneIs DEF CountGood
<1>3. ASSUME NEW k \in 1..n PROVE Place(Searches(r)[k].point) /\ Searches(r)[k].mode \in Modes
  <2>1. ReachMode(r.class) \in Modes /\ "foot" \in Modes
    BY DEF ReachMode, RideMode, Modes
  <2> DEFINE ms == ReachMode(r.class)
             foot == <<[point |-> r.from, mode |-> "foot"], [point |-> r.to, mode |-> "foot"]>>
             bike == <<[point |-> r.from, mode |-> ms], [point |-> r.to, mode |-> ms]>>
  <2> HIDE DEF ms
  <2>2. Searches(r) = foot \o (IF r.bike THEN bike ELSE <<>>)
    BY DEF Searches, ms
  <2>3. ASSUME NEW a, NEW b PROVE IsSeq(<<a, b>>) /\ ToSet(<<a, b>>) = {a, b}
    <3>1. <<a, b>> \in Seq({a, b}) /\ ToSet(<<a, b>>) = {a, b}
      BY DEF ToSet
    <3> QED BY <3>1 DEF IsSeq
  <2>4. \A x \in ToSet(foot) \cup ToSet(bike) : Place(x.point) /\ x.mode \in Modes
    <3>1. /\ ToSet(foot) = {[point |-> r.from, mode |-> "foot"], [point |-> r.to, mode |-> "foot"]}
          /\ ToSet(bike) = {[point |-> r.from, mode |-> ms], [point |-> r.to, mode |-> ms]}
      BY <2>3
    <3>2. ms \in Modes
      BY <2>1 DEF ms
    <3> HIDE DEF foot, bike
    <3> QED BY <2>1, <3>1, <3>2
  <2>5. IsSeq(foot) /\ IsSeq(bike) /\ IsSeq(<<>>) /\ ToSet(<<>>) = {}
    BY <2>3, NoneIs
  <2> HIDE DEF foot, bike
  <2>6. IsSeq(Searches(r)) /\ ToSet(Searches(r)) \in SUBSET (ToSet(foot) \cup ToSet(bike))
    <3>1. CASE r.bike
      BY <2>2, <2>5, <3>1, ConcatIs
    <3>2. CASE ~r.bike
      BY <2>2, <2>5, <3>2, ConcatIs
    <3> QED BY <3>1, <3>2
  <2>7. Searches(r)[k] \in ToSet(Searches(r))
    BY <1>1 DEF ToSet
  <2> QED BY <2>4, <2>6, <2>7
<1>4. ASSUME NEW k \in 1..n, NEW acc, CountGood(0, k - 1, acc)
      PROVE  CountGood(0, k, ReachStep(0, acc, Searches(r)[k]))
  <2> DEFINE x == Searches(r)[k]
             reach == Reach(acc.search, x.point, x.mode, Cfg.reach[StreetMode(x.mode)])
             sets == Append(acc.sets, reach.sec)
             after == ReachStep(0, acc, x)
  <2>0. k \in Nat /\ k >= 1
    BY <1>1
  <2>1. IsSearch(reach.search) /\ Seconds(reach.sec)
    <3>1. Place(x.point) /\ x.mode \in Modes
      BY <1>3
    <3> HIDE DEF x
    <3> QED BY <1>4, <3>1, ReachCounts DEF CountGood
  <2>2. after.search = reach.search /\ after.sets = sets
    <3> HIDE DEF x
    <3> QED BY DEF ReachStep, AddReach
  <2> HIDE DEF reach, after
  <2>3. acc.sets \in Seq(ToSet(acc.sets)) /\ Len(acc.sets) = k - 1
    BY <1>4 DEF CountGood, IsSeq
  <2>4. IsSeq(sets)
    BY <1>4, AppendIs DEF CountGood
  <2>5. Len(sets) = k /\ sets[k] = reach.sec /\ \A i \in 1..(k - 1) : sets[i] = acc.sets[i]
    BY <2>0, <2>3
  <2>6. \A i \in 1..k : i = k \/ i \in 1..(k - 1)
    BY <2>0
  <2>7. \A i \in 1..(k - 1) : Seconds(acc.sets[i])
    BY <1>4 DEF CountGood
  <2> HIDE DEF sets
  <2>8. CountGood(0, k, after)
    BY <2>1, <2>2, <2>4, <2>5, <2>6, <2>7 DEF CountGood
  <2> QED BY <2>8 DEF after, x
<1>5. CountGood(0, n, Counting!Folded(0, base, Searches(r)))
  <2> HIDE DEF n, base
  <2> QED BY <1>1, <1>2, <1>4, Counting!FoldKeeps, NatsFrom
<1>6. ReachAll(s, r) = Counting!Folded(0, base, Searches(r))
  BY DEF ReachAll, ReachStep, Counting!Folded,
         FoldLeft, MapThenFoldSet, Max, Counting!Largest
<1>7. CountGood(0, n, ReachAll(s, r))
  BY <1>5, <1>6
<1> QED BY <1>7 DEF CountGood

\* A run of RAPTOR goes between stops, in seconds.
Counts(v) ==
  Seconds(v.egr.sec) /\ IF v.tag = "onboard" THEN Starts(v.acc.sec) ELSE Seconds(v.acc.sec)
SetsCount(sets) ==
  /\ Seconds(sets[1].sec) /\ Seconds(sets[2].sec)
  /\ Len(sets) # 2 => Seconds(sets[3].sec) /\ Seconds(sets[4].sec)

\* Plans in seconds.
LEMMA SharedCounts ==
  ASSUME NEW plans, \A s \in DOMAIN plans : s \in Stops /\ plans[s].sec \in Nat
  PROVE  Seconds(Shared(plans).sec)
BY DEF Shared, Way, Seconds

\* The access sets of a request.
LEMMA AccessCounts ==
  ASSUME Published, NEW r \in Requests(net.name), r.kind # "onboard", NEW s, IsSearch(s), NEW at
  PROVE  IsSearch(AccessSets(s, r, at).search) /\ SetsCount(AccessSets(s, r, at).sets)
<1> DEFINE sets == ReachAll(s, r).sets
           ways == WaysOf(sets, r, at)
<1>1. AccessSets(s, r, at).search = ReachAll(s, r).search /\ AccessSets(s, r, at).sets = ways
  BY DEF AccessSets
<1>2. Place(r.from) /\ Place(r.to)
  BY PointsAssumption DEF Published
<1>3. IsSearch(ReachAll(s, r).search) /\ \A i \in 1..(IF r.bike THEN 4 ELSE 2) : Seconds(sets[i])
  BY <1>2, ReachAllCounts
<1>4. DOMAIN sets = 1..(IF r.bike THEN 4 ELSE 2) /\ Len(sets) = IF r.bike THEN 4 ELSE 2
  BY ReachAllIs
<1>45. /\ Seconds(sets[1]) /\ Seconds(sets[2]) /\ 1 \in DOMAIN sets /\ 2 \in DOMAIN sets
       /\ r.bike => Seconds(sets[3]) /\ Seconds(sets[4]) /\ 3 \in DOMAIN sets /\ 4 \in DOMAIN sets
  <2> HIDE DEF sets
  <2>1. CASE r.bike
    <3>1. (\A i \in 1..4 : Seconds(sets[i])) /\ DOMAIN sets = 1..4
      BY <1>3, <1>4, <2>1
    <3> QED BY <3>1
  <2>2. CASE ~r.bike
    <3>1. (\A i \in 1..2 : Seconds(sets[i])) /\ DOMAIN sets = 1..2
      BY <1>3, <1>4, <2>2
    <3> QED BY <2>2, <3>1
  <2> QED BY <2>1, <2>2
<1> HIDE DEF sets
<1>5. CASE ~r.bike \/ r.class = ""
  <2>1. ways = [i \in DOMAIN sets |-> Own(sets[i])]
    BY Zenon, <1>5 DEF WaysOf
  <2>2. \A i \in DOMAIN sets : ways[i].sec = sets[i]
    BY <2>1 DEF Own, Way
  <2>3. ways = [i \in 1..(IF r.bike THEN 4 ELSE 2) |-> ways[i]]
    BY <1>4, <2>1
  <2> HIDE DEF ways
  <2>4. Len(ways) = IF r.bike THEN 4 ELSE 2
    BY <2>3, ListIs
  <2>5. Len(ways) # 2 => r.bike
    BY <2>4
  <2>6. SetsCount(ways)
    BY <1>45, <2>2, <2>5 DEF SetsCount
  <2> QED BY <1>1, <1>3, <2>6
<1>6. CASE ~(~r.bike \/ r.class = "")
  <2> DEFINE there == SharedPlans(DOMAIN sets[3], r.from, TRUE, r.class, at)
             back == SharedPlans(DOMAIN sets[4], r.to, FALSE, r.class, at)
  <2>1. ways = <<Own(sets[1]), Own(sets[2]), Shared(there), Shared(back)>>
    BY Zenon, <1>6 DEF WaysOf
  <2>2. System = NoFeed \/ WellFormed(System)
    BY SnapshotsWellFormed DEF Published, System
  <2>3. Place(r.from) /\ Place(r.to) /\ \A x \in Stops : Place(net.stopAt[x])
    BY PointsAssumption, StreetsAssumption DEF Published, Stops, StopsOf, tt
  <2>4. Seconds(sets[1]) /\ Seconds(sets[2]) /\ Seconds(sets[3]) /\ Seconds(sets[4])
    BY Zenon, <1>45, <1>6
  <2>5. DOMAIN sets[3] \in SUBSET Stops /\ DOMAIN sets[4] \in SUBSET Stops
    BY <2>4 DEF Seconds
  <2>6. \A x \in DOMAIN there : x \in Stops /\ there[x].sec \in Nat
    BY <2>2, <2>3, <2>5, PlansToStops
  <2>7. \A x \in DOMAIN back : x \in Stops /\ back[x].sec \in Nat
    BY <2>2, <2>3, <2>5, PlansFromStops
  <2> HIDE DEF there, back
  <2>8. Seconds(Shared(there).sec) /\ Seconds(Shared(back).sec)
    BY <2>6, <2>7, SharedCounts
  <2>9. ways[1] = Own(sets[1]) /\ ways[2] = Own(sets[2]) /\ ways[3] = Shared(there) /\ ways[4] = Shared(back)
    BY <2>1
  <2> HIDE DEF ways
  <2>10. SetsCount(ways)
    BY <2>4, <2>8, <2>9 DEF SetsCount, Own, Way
  <2> QED BY <1>1, <1>3, <2>10
<1> QED BY Zenon, <1>5, <1>6

\* And its variants.
LEMMA VariantsCount ==
  ASSUME NEW sets, SetsCount(sets)
  PROVE  IsSeq(Variants(sets)) /\ \A v \in ToSet(Variants(sets)) : Counts(v)
<1> DEFINE walk == Variant("walk", sets[1], sets[2])
           away == Variant("bike", sets[3], sets[2])
           home == Variant("bike", sets[1], sets[4])
           One(v) == Only(v, Runs(v))
<1>1. Counts(walk) /\ (Len(sets) # 2 => Counts(away) /\ Counts(home))
  BY DEF Counts, Variant, SetsCount
<1>2. ASSUME NEW v PROVE IsSeq(One(v)) /\ ToSet(One(v)) \in SUBSET {v}
  <2>1. Runs(v) \in BOOLEAN
    BY DEF Runs
  <2> QED BY <2>1, OnlyIs
<1>3. Variants(sets) = One(walk) \o (IF Len(sets) = 2 THEN <<>> ELSE One(away) \o One(home))
  BY DEF Variants
<1> HIDE DEF walk, away, home, One
<1>4. CASE Len(sets) = 2
  <2>1. IsSeq(One(walk) \o <<>>) /\ ToSet(One(walk) \o <<>>) \in SUBSET {walk}
    BY <1>2, ConcatIs, NoneIs
  <2> QED BY <1>1, <1>3, <1>4, <2>1
<1>5. CASE Len(sets) # 2
  <2>1. IsSeq(One(away) \o One(home)) /\ ToSet(One(away) \o One(home)) \in SUBSET {away, home}
    BY <1>2, ConcatIs
  <2>2. /\ IsSeq(One(walk) \o (One(away) \o One(home)))
        /\ ToSet(One(walk) \o (One(away) \o One(home))) \in SUBSET {walk, away, home}
    BY <1>2, <2>1, ConcatIs
  <2> QED BY <1>1, <1>3, <1>5, <2>2
<1> QED BY <1>4, <1>5

-----------------------------------------------------------------------------
(* The clock of a request                                                  *)

HuntIs(h) == DOMAIN h = {"stage", "lo", "hi", "tries"} /\ h.lo \in Int /\ h.hi \in Int

\* The pooled search is one of this network, and a request under way counts in
\* seconds between its stops.
QueriesCounted ==
  /\ IsSearch(near)
  /\ phase = "run" =>
       /\ depart \in Int /\ HuntIs(hunt) /\ \A v \in ToSet(todo) : Counts(v)
       /\ req.kind # "onboard" => SetsCount(access)

CountedNext ==
  /\ IsSearch(near')
  /\ phase' = "run" =>
       /\ depart' \in Int /\ HuntIs(hunt') /\ \A v \in ToSet(todo') : Counts(v)
       /\ req'.kind # "onboard" => SetsCount(access')

\* When the network stays, what was shown of the next state is shown.
LEMMA SameCount ==
  ASSUME net' = net, CountedNext
  PROVE  QueriesCounted'
<1>1. IsSearch(near)'
  BY DEF CountedNext, IsSearch
<1>2. (phase = "run" => \A v \in ToSet(todo) : Counts(v))'
  BY DEF CountedNext, Counts, Seconds, Starts, Stops, StopsOf, tt
<1>3. (phase = "run" => (req.kind # "onboard" => SetsCount(access)))'
  BY DEF CountedNext, SetsCount, Seconds, Stops, StopsOf, tt
<1>4. (phase = "run" => depart \in Int /\ HuntIs(hunt))'
  BY DEF CountedNext, HuntIs
<1> QED BY <1>1, <1>2, <1>3, <1>4 DEF QueriesCounted

\* A fresh search.
LEMMA NewSearchIs ==
  ASSUME NEW g
  PROVE  LET s == NewSearch(g)
         IN  /\ DOMAIN s = {"dist", "stamp", "epoch", "heap"} /\ s.heap = {}
             /\ DOMAIN s.dist = 1..g.nodes /\ \A n \in 1..g.nodes : s.dist[n] \in Nat
BY DEF NewSearch

\* A request from its streets.
LEMMA AskTransitCounts ==
  ASSUME Published, QueriesCounted, NEW r \in Requests(net.name), AskTransit(r)
  PROVE  CountedNext
<1> DEFINE reach == AccessSets(near, r, r.when)
           sets == reach.sets
           first == r.when - r.est - Cfg.margin
<1>1. r.kind \in {"forward", "arriveBy"} /\ req' = r /\ near' = reach.search /\ FirstRuns(r, sets)
  BY DEF AskTransit, Accept
<1>2. IsSearch(reach.search) /\ SetsCount(sets)
  BY <1>1, AccessCounts DEF QueriesCounted
<1>3. r.when \in Int /\ (r.kind = "arriveBy" => first \in Int)
  <2>1. r.when \in Int /\ (r.kind = "arriveBy" => r.est \in Int) /\ Cfg.margin \in Int
    BY <1>1, RequestsAssumption, RentalConfigAssumption DEF Published
  <2> QED BY <2>1
<1> HIDE DEF sets, reach
<1>4. \A v \in ToSet(Variants(sets)) : Counts(v)
  BY <1>2, VariantsCount
<1>5. CASE Unreachable(sets, r.bike)
  BY <1>1, <1>2, <1>5 DEF FirstRuns, Refuse, CountedNext
<1>6. CASE ~Unreachable(sets, r.bike)
  <2>1. access' = sets /\ todo' = Variants(sets)
    BY <1>1, <1>6 DEF FirstRuns, RunFor
  <2>2. CASE r.kind = "forward"
    <3>1. depart' = r.when /\ hunt' = NoHunt
      BY <1>1, <1>6, <2>2 DEF FirstRuns, RunFor
    <3>2. HuntIs(NoHunt)
      BY DEF HuntIs, NoHunt
    <3> QED BY <1>1, <1>2, <1>3, <1>4, <2>1, <3>1, <3>2 DEF CountedNext
  <2>3. CASE r.kind = "arriveBy"
    <3>1. depart' = first /\ hunt' = [stage |-> "bracket", lo |-> first, hi |-> r.when, tries |-> 0]
      BY <1>1, <1>6, <2>3 DEF FirstRuns, RunFor
    <3> HIDE DEF first
    <3>2. HuntIs(hunt')
      BY <1>3, <2>3, <3>1 DEF HuntIs
    <3> QED BY <1>1, <1>2, <1>3, <1>4, <2>1, <2>3, <3>1, <3>2 DEF CountedNext
  <2> QED BY <1>1, <2>2, <2>3
<1> QED BY <1>5, <1>6

\* A rider's stops ahead.
LEMMA OnboardStarts ==
  ASSUME Published, NEW r \in Requests(net.name), r.kind = "onboard"
  PROVE  Starts(OnboardSources(r))
<1> DEFINE base == BaseOf(r.when)
           sources == OnboardSources(r)
<1>1. r.when \in Int /\ DOMAIN r.seeds \in SUBSET Stops /\ \A s \in DOMAIN r.seeds : r.seeds[s] \in Int
  BY RequestsAssumption DEF Published, Stops, StopsOf, tt
<1>2. base \in Int
  <2>1. DaySec \in Nat \ {0}
    BY TimesAssumption
  <2>2. r.when \div DaySec \in Int
    BY <1>1, <2>1
  <2>3. \A a, b \in Int : a * b \in Int
    OBVIOUS
  <2> QED BY <2>1, <2>2, <2>3 DEF BaseOf, Day
<1>3. Cfg.slack \in Nat
  BY RentalConfigAssumption
<1>4. sources = [s \in {x \in DOMAIN r.seeds : r.seeds[x] >= base} |->
                   [sec |-> r.seeds[s] - base + Cfg.slack, rail |-> r.current.rail,
                    arr |-> IF r.current.rail THEN r.seeds[s] - base ELSE 0]]
  BY DEF OnboardSources
<1> HIDE DEF base, sources
<1>5. \A s \in DOMAIN sources : /\ s \in DOMAIN r.seeds /\ r.seeds[s] >= base /\ sources[s].sec = r.seeds[s] - base + Cfg.slack
                                /\ sources[s].arr \in {0, r.seeds[s] - base}
  BY <1>4
<1>6. Starts(sources)
  BY <1>1, <1>2, <1>3, <1>5 DEF Starts
<1> QED BY <1>6 DEF sources

\* A request of a rider on board.
LEMMA AskOnboardCounts ==
  ASSUME Published, QueriesCounted, NEW r \in Requests(net.name), AskOnboard(r)
  PROVE  CountedNext
<1> DEFINE sources == OnboardSources(r)
           foot == Reach(near, r.to, "foot", Cfg.reach["foot"])
           ride == AlsoRented(r, foot)
           plans == SharedPlans(DOMAIN ride.sec, r.to, FALSE, r.class, r.when)
<1>1. r.kind = "onboard" /\ req' = r /\ IsSearch(near)
  BY DEF AskOnboard, Accept, QueriesCounted
<1>2. r.when \in Int /\ Place(r.to) /\ \A s \in Stops : Place(net.stopAt[s])
  BY RequestsAssumption, PointsAssumption, StreetsAssumption DEF Published, Stops, StopsOf, tt
<1>3. CASE DOMAIN sources = {}
  <2>1. Refuse /\ near' = near
    BY <1>3 DEF AskOnboard
  <2> QED BY <1>1, <2>1 DEF Refuse, CountedNext
<1>4. CASE DOMAIN sources # {}
  <2>1. BoardFrom(r, sources, ride.search, Own(foot.sec), Shared(plans))
    BY <1>4 DEF AskOnboard
  <2>2. IsSearch(foot.search) /\ Seconds(foot.sec)
    <3>1. "foot" \in Modes
      BY DEF Modes
    <3> QED BY <1>1, <1>2, <3>1, ReachCounts
  <2>3. IsSearch(ride.search) /\ Seconds(ride.sec)
    <3> HIDE DEF foot
    <3>1. CASE r.class = ""
      <4>1. ride = [search |-> foot.search, sec |-> <<>>]
        BY Zenon, <3>1 DEF AlsoRented
      <4>2. DOMAIN <<>> = {}
        OBVIOUS
      <4>3. Seconds(<<>>)
        BY <4>2 DEF Seconds
      <4> QED BY <2>2, <4>1, <4>3
    <3>2. CASE r.class # ""
      <4>1. ride = Reach(foot.search, r.to, ReachMode(r.class), Cfg.reach["bike"])
        BY Zenon, <3>2 DEF AlsoRented
      <4>2. ReachMode(r.class) \in Modes
        BY DEF ReachMode, RideMode, Modes
      <4> QED BY <1>2, <2>2, <4>1, <4>2, ReachCounts
    <3> QED BY Zenon, <3>1, <3>2
  <2>4. Starts(sources)
    BY <1>1, OnboardStarts
  <2> HIDE DEF sources, foot, ride
  <2>5. Seconds(Shared(plans).sec)
    <3>1. System = NoFeed \/ WellFormed(System)
      BY SnapshotsWellFormed DEF Published, System
    <3>2. DOMAIN ride.sec \in SUBSET Stops
      BY <2>3 DEF Seconds
    <3>3. \A s \in DOMAIN plans : s \in Stops /\ plans[s].sec \in Nat
      BY <1>2, <3>1, <3>2, PlansFromStops
    <3> HIDE DEF plans
    <3> QED BY <3>3, SharedCounts
  <2> HIDE DEF plans
  <2> DEFINE walker == Variant("onboard", Own(sources), Own(foot.sec))
             renter == Variant("onboard", Own(sources), Shared(plans))
             One(v) == Only(v, Runs(v))
  <2>6. Counts(walker) /\ Counts(renter)
    BY <2>2, <2>4, <2>5 DEF Counts, Variant, Own, Way
  <2>7. near' = ride.search
    BY Zenon, <2>1 DEF BoardFrom
  <2>8. CASE DOMAIN Own(foot.sec).sec = {} /\ r.class = ""
    <3>1. Refuse
      BY Zenon, <2>1, <2>8 DEF BoardFrom
    <3> QED BY <2>3, <2>7, <3>1 DEF Refuse, CountedNext
  <2>9. CASE ~(DOMAIN Own(foot.sec).sec = {} /\ r.class = "")
    <3>1. todo' = One(walker) \o One(renter) /\ hunt' = NoHunt /\ depart' = r.when
      BY Zenon, <2>1, <2>9 DEF BoardFrom, RunFor
    <3>2. ASSUME NEW v PROVE IsSeq(One(v)) /\ ToSet(One(v)) \in SUBSET {v}
      <4>1. Runs(v) \in BOOLEAN
        BY DEF Runs
      <4> QED BY <4>1, OnlyIs
    <3> HIDE DEF walker, renter, One
    <3>3. \A v \in ToSet(todo') : Counts(v)
      BY <2>6, <3>1, <3>2, ConcatIs
    <3>4. HuntIs(hunt')
      BY <3>1 DEF NoHunt, HuntIs
    <3> QED BY <1>1, <1>2, <2>3, <2>7, <3>1, <3>3, <3>4 DEF CountedNext
  <2> QED BY Zenon, <2>8, <2>9
<1> QED BY <1>3, <1>4

\* A departure of the hunt.
LEMMA ProbeCounts ==
  ASSUME QueriesCounted, phase = "run", req.kind # "onboard", NEW h, HuntIs(h), Probe(h)
  PROVE  CountedNext
<1> DEFINE t == IF h.stage = "bisect" THEN h.lo + (h.hi - h.lo) \div 2 ELSE h.lo
<1>1. todo' = Variants(access) /\ depart' = t /\ hunt' = h /\ UNCHANGED <<near, req, access>>
  BY DEF Probe, RunFor, searches
<1>2. t \in Int
  BY DEF HuntIs
<1> HIDE DEF t
<1>3. \A v \in ToSet(Variants(access)) : Counts(v)
  BY VariantsCount DEF QueriesCounted
<1> QED BY <1>1, <1>2, <1>3 DEF QueriesCounted, CountedNext

\* The departure that is answered.
LEMMA PlanAtCounts ==
  ASSUME Published, Underway, QueriesCounted, phase = "run", req.kind # "onboard", NEW t \in Int, PlanAt(t), HuntIs(hunt')
  PROVE  CountedNext
<1> DEFINE reach == AccessSets(near, req, t)
           sets == reach.sets
<1>1. near' = reach.search /\ access' = sets /\ todo' = Variants(sets) /\ depart' = t /\ req' = req
  BY DEF PlanAt, RunFor
<1>2. IsSearch(reach.search) /\ SetsCount(sets)
  BY AccessCounts DEF QueriesCounted, Underway
<1> HIDE DEF sets, reach
<1>3. \A v \in ToSet(Variants(sets)) : Counts(v)
  BY <1>2, VariantsCount
<1> QED BY <1>1, <1>2, <1>3 DEF CountedNext

\* The hunt counts on in whole seconds.
LEMMA HuntCounts ==
  ASSUME Published, Underway, QueriesCounted, Bracket \/ Check \/ Bisect
  PROVE  CountedNext
<1>1. phase = "run" /\ hunt.stage # "none" /\ HuntIs(hunt) /\ depart \in Int
  BY DEF Bracket, Check, Bisect, Collected, QueriesCounted
<1>2. req.kind # "onboard"
  BY <1>1 DEF Underway
<1>3. ASSUME NEW h, HuntIs(h), Narrow(h) PROVE CountedNext
  <2>1. CASE h.hi - h.lo > Cfg.tolerance
    <3>1. Probe([h EXCEPT !.stage = "bisect"]) /\ HuntIs([h EXCEPT !.stage = "bisect"])
      BY <1>3, <2>1 DEF Narrow, HuntIs
    <3> QED BY <1>1, <1>2, <3>1, ProbeCounts
  <2>2. CASE ~(h.hi - h.lo > Cfg.tolerance)
    <3>1. PlanAt(h.lo) /\ hunt' = [h EXCEPT !.stage = "final"]
      BY <1>3, <2>2 DEF Narrow
    <3>2. HuntIs(hunt') /\ h.lo \in Int
      BY <1>3, <3>1 DEF HuntIs
    <3> QED BY <1>1, <1>2, <3>1, <3>2, PlanAtCounts
  <2> QED BY <2>1, <2>2
<1>4. CASE Bracket
  <2>1. PICK h : Probe(h) /\ \/ h = [hunt EXCEPT !.stage = "check"]
                             \/ h = [hunt EXCEPT !.lo = @ - Cfg.widen, !.tries = @ + 1,
                                                 !.stage = IF hunt.tries = 3 THEN "check" ELSE "bracket"]
    BY <1>4 DEF Bracket
  <2>2. DOMAIN h = DOMAIN hunt /\ h.hi = hunt.hi /\ (h.lo = hunt.lo \/ h.lo = hunt.lo - Cfg.widen)
    BY <1>1, <2>1 DEF HuntIs
  <2>3. HuntIs(h)
    BY <1>1, <2>2, RentalConfigAssumption DEF HuntIs
  <2> QED BY <1>1, <1>2, <2>1, <2>3, ProbeCounts
<1>5. CASE Check
  <2>1. CASE InTime
    BY <1>1, <1>3, <1>5, <2>1 DEF Check
  <2>2. CASE ~InTime
    BY <1>5, <2>2 DEF Check, QueriesCounted, CountedNext, searches
  <2> QED BY <2>1, <2>2
<1>6. CASE Bisect
  <2>1. Narrow(Half(hunt, depart, InTime))
    BY <1>6 DEF Bisect
  <2>2. HuntIs(Half(hunt, depart, InTime))
    BY <1>1 DEF Half, HuntIs
  <2> QED BY <1>3, <2>1, <2>2
<1> QED BY <1>4, <1>5, <1>6

\* A request counts from real stops in whole, non-negative seconds, whatever the
\* pooled search held before.
THEOREM CountedInvariance == Spec => []QueriesCounted
<1>1. Init => QueriesCounted
  BY NewSearchIs DEF Init, QueriesCounted, IsSearch
<1>2. QueriesCounted /\ Underway /\ Published /\ Scheduled /\ [Next]_vars => QueriesCounted'
  <2> SUFFICES ASSUME QueriesCounted, Underway, Published, Scheduled, [Next]_vars PROVE QueriesCounted'
    OBVIOUS
  <2>1. CASE UNCHANGED <<net, near, phase, depart, hunt, todo, req, access>>
    <3>1. CountedNext
      BY <2>1 DEF QueriesCounted, CountedNext
    <3> QED BY <2>1, <3>1, SameCount
  <2>2. CASE Ask
    <3>1. net' = net
      BY <2>2 DEF Ask, AskTransit, AskOnboard, AskRoad, Accept
    <3>2. CountedNext
      <4>1. ASSUME NEW r, AskRoad(r) PROVE CountedNext
        BY <4>1 DEF AskRoad, QueriesCounted, CountedNext
      <4> QED BY <2>2, <4>1, AskTransitCounts, AskOnboardCounts DEF Ask
    <3> QED BY <3>1, <3>2, SameCount
  <2>3. CASE RunVariant
    BY ZenonT(30), <2>1, <2>3 DEF RunVariant, Seed, planVars, progress, searches
  <2>4. CASE Running
    BY Zenon, <2>1, <2>4 DEF Running, RaptorStep, SourceWalks, BeginRound, Scan, WalkOn, Finish, planVars, progress, searches
  <2>5. CASE Collect
    <3>1. net' = net /\ todo' = Tail(todo) /\ todo # <<>> /\ phase = "run" /\ UNCHANGED <<near, phase, depart, hunt, req, access>>
      BY Zenon, <2>5 DEF Collect, Scheduled
    <3>2. ToSet(Tail(todo)) \in SUBSET ToSet(todo)
      <4>1. todo \in Seq(ToSet(todo)) /\ todo # <<>>
        BY <3>1 DEF IsSeq, Underway
      <4>2. Tail(todo) \in Seq(ToSet(todo))
        BY <4>1
      <4> QED BY <4>2, SeqIs
    <3>3. CountedNext
      BY <3>1, <3>2 DEF QueriesCounted, CountedNext
    <3> QED BY <3>1, <3>3, SameCount
  <2>6. CASE Bracket \/ Check \/ Bisect
    <3>1. net' = net
      BY <2>6 DEF Bracket, Check, Bisect, Narrow, Probe, PlanAt
    <3> QED BY <2>6, <3>1, HuntCounts, SameCount
  <2>7. CASE Rank \/ RankOnboard
    <3>1. net' = net /\ phase' = "idle" /\ near' = near
      BY <2>7 DEF Rank, RankOnboard
    <3>2. CountedNext
      BY <3>1 DEF QueriesCounted, CountedNext
    <3> QED BY <3>1, <3>2, SameCount
  <2>8. CASE SwapOverlay \/ SwapRentals
    BY <2>1, <2>8 DEF SwapOverlay, SwapRentals, progress, searches
  <2>9. CASE SwapBundles
    <3>1. phase' = "idle" /\ near' = NewSearch(net'.street)
      BY <2>9 DEF SwapBundles, FreshPlanner
    <3>2. IsSearch(near)'
      BY <3>1, NewSearchIs DEF IsSearch
    <3> QED BY <3>1, <3>2 DEF QueriesCounted
  <2> QED
    BY <2>1, <2>2, <2>3, <2>4, <2>5, <2>6, <2>7, <2>8, <2>9 DEF Next, vars, planVars, progress, searches
<1> QED
  BY <1>1, <1>2, PublishedInvariance, ScheduledInvariance, RentalsInvariance, PTL DEF Spec

-----------------------------------------------------------------------------
(* Riders along a list of legs                                             *)

Rides(rr, legs) == \A i \in 1..Len(legs) : rr[i] \in RideLeg(rr[i - 1], legs[i], Strict(rr[i - 1], legs, i))
Leads(r, legs, k, target) == \E rr : rr[0] = r /\ Rides(rr, legs) /\ Speaks(rr[Len(legs)], k, target)

\* A list with one more leg in front.
LEMMA FrontIs ==
  ASSUME NEW legs, IsSeq(legs), NEW leg
  PROVE  LET all == <<leg>> \o legs
         IN  Len(legs) \in Nat /\ Len(all) = Len(legs) + 1 /\ all[1] = leg /\ \A i \in 1..Len(legs) : all[i + 1] = legs[i]
<1>1. legs \in Seq(ToSet(legs) \cup {leg}) /\ <<leg>> \in Seq(ToSet(legs) \cup {leg})
  BY DEF IsSeq
<1> QED BY <1>1

\* Who follows the other legs after one more follows them all.
LEMMA LeadsLonger ==
  ASSUME NEW legs, IsSeq(legs), NEW leg, NEW r, NEW x, NEW k, NEW target,
         x \in RideLeg(r, leg, Strict(r, <<leg>> \o legs, 1)), Leads(x, legs, k, target)
  PROVE  Leads(r, <<leg>> \o legs, k, target)
<1> DEFINE n == Len(legs)
           all == <<leg>> \o legs
<1>1. PICK rr : rr[0] = x /\ Rides(rr, legs) /\ Speaks(rr[n], k, target)
  BY DEF Leads
<1> DEFINE ss == [i \in 0..(n + 1) |-> IF i = 0 THEN r ELSE rr[i - 1]]
<1>2. n \in Nat /\ Len(all) = n + 1 /\ all[1] = leg /\ \A i \in 1..n : all[i + 1] = legs[i]
  BY FrontIs
<1>3. ss[0] = r /\ \A i \in 1..(n + 1) : ss[i] = rr[i - 1]
  BY <1>2
<1>e. x \in RideLeg(r, leg, Strict(r, all, 1))
  OBVIOUS
<1> HIDE DEF ss, all, n
<1>4. ASSUME NEW i \in 1..(n + 1) PROVE ss[i] \in RideLeg(ss[i - 1], all[i], Strict(ss[i - 1], all, i))
  <2>1. CASE i = 1
    <3>1. ss[1] = x /\ ss[0] = r /\ all[1] = leg
      BY <1>1, <1>2, <1>3
    <3> QED BY <1>e, <2>1, <3>1
  <2>2. CASE i # 1
    <3>1. i - 1 \in 1..n /\ (i - 1) + 1 = i /\ i - 1 \in 1..(n + 1)
      BY <1>2, <2>2
    <3>2. ss[i] = rr[i - 1] /\ ss[i - 1] = rr[(i - 1) - 1] /\ all[i] = legs[i - 1]
      BY <1>2, <1>3, <3>1
    <3>3. rr[i - 1] \in RideLeg(rr[(i - 1) - 1], legs[i - 1], Strict(rr[(i - 1) - 1], legs, i - 1))
      BY <1>1, <3>1 DEF Rides, n
    <3>4. (\A m \in (i + 1)..Len(all) : ~all[m].ride) <=> (\A m \in ((i - 1) + 1)..Len(legs) : ~legs[m].ride)
      <4>1. ASSUME \A m \in (i + 1)..Len(all) : ~all[m].ride, NEW m \in ((i - 1) + 1)..Len(legs) PROVE ~legs[m].ride
        <5>1. m \in 1..n /\ m + 1 \in (i + 1)..Len(all)
          BY <1>2, <3>1 DEF n
        <5> QED BY <1>2, <4>1, <5>1
      <4>2. ASSUME \A m \in ((i - 1) + 1)..Len(legs) : ~legs[m].ride, NEW m \in (i + 1)..Len(all) PROVE ~all[m].ride
        <5>1. m - 1 \in 1..n /\ m - 1 \in ((i - 1) + 1)..Len(legs) /\ (m - 1) + 1 = m
          BY <1>2, <3>1 DEF n
        <5>2. all[m] = legs[m - 1]
          BY <1>2, <5>1
        <5> QED BY <4>2, <5>1, <5>2
      <4> QED BY <4>1, <4>2
    <3>5. Strict(rr[(i - 1) - 1], legs, i - 1) = Strict(rr[(i - 1) - 1], all, i)
      BY <3>4 DEF Strict
    <3> QED BY <3>2, <3>3, <3>5
  <2> QED BY <2>1, <2>2
<1>5. ss[n + 1] = rr[n] /\ n + 1 = Len(all)
  BY <1>2, <1>3
<1>6. Rides(ss, all) /\ Speaks(ss[Len(all)], k, target)
  BY <1>1, <1>2, <1>4, <1>5 DEF Rides
<1> QED BY <1>3, <1>6 DEF Leads, all

\* What was extracted so far can be ridden to the target by whoever is where it begins.
WayRidden(h, n, b) ==
  /\ WayBack(h, n, b)
  /\ b.k # h.k => \E i \in 1..Len(b.legs) : b.legs[i].ride = TRUE
  /\ WalksClosed /\ b.k = h.k => Bettered(lab[h.k], lab[h.k - 1], b.s)
  /\ \A r : Speaks(r, b.k, b.s) => Leads(r, b.legs, h.k, h.target)
RiddenBack == INSTANCE FoldLaws WITH Step <- BackStep, Good <- WayRidden

\* One step back.
LEMMA StepRidden ==
  ASSUME Loaded, Labelled, pc = "extract", Rows, LoopsPlain, ArrivalsKnown, DeparturesKnown,
         NEW k \in 1..round, NEW target, NEW i, NEW b, NEW h, h.k = k, h.target = target, WayRidden(h, i - 1, b)
  PROVE  WayRidden(h, i, BackStep(0, b, i))
<1> DEFINE l == lab[b.k][b.s]
<1>0. /\ WayBack(h, i, BackStep(0, b, i))
      /\ b.k \in 0..k /\ b.k \in 0..round /\ b.s \in Stops /\ l.kind # "none" /\ IsSeq(b.legs) /\ k \in Nat \ {0}
      /\ DOMAIN b = {"k", "s", "legs"}
  <2>1. WayBack(h, i - 1, b)
    BY DEF WayRidden
  <2>2. WayBack(h, i, BackStep(0, b, i))
    BY <2>1, StepBack
  <2> QED BY <2>1, <2>2 DEF WayBack, Chain, Rows
<1>1. CASE b.k < 0 \/ l.kind \in {"access", "none"}
  BY <1>0, <1>1 DEF BackStep, WayRidden
<1>2. CASE ~(b.k < 0 \/ l.kind \in {"access", "none"}) /\ l.kind = "xfer"
  <2> DEFINE leg == [ride |-> FALSE, from |-> l.from, to |-> b.s, sec |-> l.time - lab[b.k][l.from].time]
             c == [b EXCEPT !.s = l.from, !.legs = <<leg>> \o @]
  <2>1. BackStep(0, b, i) = c
    BY <1>2 DEF BackStep, ParentOf
  <2>2. c.k = b.k /\ c.s = l.from /\ c.legs = <<leg>> \o b.legs
    BY <1>0
  <2>3. leg.ride = FALSE /\ leg.from = l.from /\ leg.to = b.s
    OBVIOUS
  <2> HIDE DEF leg, c
  <2>4. Len(b.legs) \in Nat /\ Len(c.legs) = Len(b.legs) + 1 /\ \A m \in 1..Len(b.legs) : c.legs[m + 1] = b.legs[m]
    BY <1>0, <2>2, FrontIs
  <2>5. c.k # h.k => \E m \in 1..Len(c.legs) : c.legs[m].ride = TRUE
    <3> SUFFICES ASSUME c.k # h.k PROVE \E m \in 1..Len(c.legs) : c.legs[m].ride = TRUE
      OBVIOUS
    <3>1. PICK m \in 1..Len(b.legs) : b.legs[m].ride = TRUE
      BY <2>2 DEF WayRidden
    <3>2. m + 1 \in 1..Len(c.legs) /\ c.legs[m + 1] = b.legs[m]
      BY <2>4
    <3> QED BY <3>1, <3>2
  <2>6. WalksClosed /\ c.k = h.k => Bettered(lab[h.k], lab[h.k - 1], c.s)
    <3> SUFFICES ASSUME WalksClosed, b.k = k PROVE Bettered(lab[k], lab[k - 1], l.from)
      BY <2>2
    <3>1. Bettered(lab[k], lab[k - 1], b.s)
      BY DEF WayRidden
    <3>2. WalkTimed(lab[k], lab[k - 1], upper, "ride")
      BY <1>0, RowOf DEF RowTimed
    <3> QED BY <1>0, <1>2, <3>1, <3>2 DEF WalkTimed
  <2>7. ASSUME NEW r, Speaks(r, c.k, c.s) PROVE Leads(r, c.legs, h.k, h.target)
    <3> DEFINE x == Walked(r, b.s)
               strict == Strict(r, c.legs, 1)
    <3>1. x \in WalksOf(r) /\ x.stop = b.s /\ r.stop = l.from /\ Speaks(x, b.k, b.s)
      BY <1>0, <1>2, <2>2, <2>7, WalkSpeaks
    <3> HIDE DEF x, strict, l
    <3>2. x \in RideLeg(r, leg, strict)
      BY <2>3, <3>1 DEF RideLeg
    <3>3. Leads(x, b.legs, h.k, h.target)
      BY <3>1 DEF WayRidden
    <3> QED BY <1>0, <2>2, <3>2, <3>3, LeadsLonger DEF strict
  <2>8. WayRidden(h, i, c)
    BY <1>0, <2>1, <2>5, <2>6, <2>7 DEF WayRidden
  <2> QED BY <2>1, <2>8
<1>3. CASE ~(b.k < 0 \/ l.kind \in {"access", "none"}) /\ l.kind # "xfer"
  <2> DEFINE at == PosInPattern(PatternOfTrip(tt, l.trip), b.s, l.board)
             leg == [ride |-> TRUE, trip |-> l.trip, board |-> l.board, day |-> l.day, alight |-> at]
             c == [b EXCEPT !.s = l.from, !.k = @ - 1, !.legs = <<leg>> \o @]
  <2>1. BackStep(0, b, i) = c
    BY <1>3 DEF BackStep, ParentOf
  <2>2. c.k = b.k - 1 /\ c.s = l.from /\ c.legs = <<leg>> \o b.legs
    BY <1>0
  <2> HIDE DEF at
  <2>3. leg.ride = TRUE /\ leg.trip = l.trip /\ leg.board = l.board /\ leg.day = l.day /\ leg.alight = at
    OBVIOUS
  <2>a. b.k # 0 /\ b.k \in 1..round
    <3>1. SourceRow(lab[0])
      BY DEF Rows, RoundsAre
    <3>2. b.k # 0
      BY <1>0, <1>3, <3>1 DEF SourceRow, SourceLabel
    <3> QED BY <1>0, <3>2 DEF Rows
  <2>b. l.kind = "ride"
    <3>1. RowIs(lab[b.k])
      BY <1>0, RowOf
    <3> QED BY <1>0, <1>3, <3>1 DEF RowIs
  <2> HIDE DEF leg, c
  <2>4. Len(b.legs) \in Nat /\ Len(c.legs) = Len(b.legs) + 1 /\ c.legs[1] = leg
        /\ \A m \in 1..Len(b.legs) : c.legs[m + 1] = b.legs[m]
    BY <1>0, <2>2, FrontIs
  <2>5. \E m \in 1..Len(c.legs) : c.legs[m].ride = TRUE
    BY <2>3, <2>4
  <2>6. c.k # h.k
    BY <1>0, <2>2
  <2>7. ASSUME NEW r, Speaks(r, c.k, c.s) PROVE Leads(r, c.legs, h.k, h.target)
    <3> DEFINE strict == Strict(r, c.legs, 1)
    <3>1. strict => Regular /\ (r.trip = 0 \/ Bettered(lab[b.k], lab[b.k - 1], b.s))
      <4> SUFFICES ASSUME strict, r.trip # 0 PROVE Regular /\ Bettered(lab[b.k], lab[b.k - 1], b.s)
        BY DEF Strict
      <4>1. Regular /\ \A m \in (1 + 1)..Len(c.legs) : ~c.legs[m].ride
        BY DEF Strict
      <4>2. ~ \E m \in 1..Len(b.legs) : b.legs[m].ride = TRUE
        <5> SUFFICES ASSUME NEW m \in 1..Len(b.legs), b.legs[m].ride = TRUE PROVE FALSE
          OBVIOUS
        <5>1. m + 1 \in (1 + 1)..Len(c.legs) /\ c.legs[m + 1] = b.legs[m]
          BY <2>4
        <5> QED BY <4>1, <5>1
      <4>3. b.k = k
        BY <4>2 DEF WayRidden
      <4> QED BY <4>1, <4>3 DEF WayRidden, Regular
    <3> HIDE DEF strict
    <3>2. Speaks(r, b.k - 1, lab[b.k][b.s].from)
      BY <2>2, <2>7
    <3>3. PICK x \in RideLeg(r, leg, strict) : Speaks(x, b.k, b.s)
      BY <1>0, <2>3, <2>a, <2>b, <3>1, <3>2, RideSpeaks DEF at
    <3>4. Leads(x, b.legs, h.k, h.target)
      BY <3>3 DEF WayRidden
    <3> QED BY <1>0, <2>2, <3>3, <3>4, LeadsLonger DEF strict
  <2>8. WayRidden(h, i, c)
    BY <1>0, <2>1, <2>5, <2>6, <2>7 DEF WayRidden
  <2> QED BY <2>1, <2>8
<1> QED BY <1>1, <1>2, <1>3

\* What is extracted can be ridden from a source to the target, and the target's label
\* is new in its row.
LEMMA ExtractRidden ==
  ASSUME Loaded, Labelled, pc = "extract", Rows, LoopsPlain, ArrivalsKnown, DeparturesKnown, ArrivesBy(lab, arrAt, round),
         NEW k \in 1..q.maxRides, Improves(k), Extract(k, targetAt[k]).ok
  PROVE  /\ \E s \in DOMAIN q.sources : Leads(AtSource(q, s), Extract(k, targetAt[k]).legs, k, targetAt[k])
         /\ k \in 1..round /\ targetAt[k] \in DOMAIN q.targets /\ targetAt[k] \in Stops
         /\ arrAt[k] = lab[k][targetAt[k]].time + q.targets[targetAt[k]]
         /\ Bettered(lab[k], lab[k - 1], targetAt[k])
<1> DEFINE target == targetAt[k]
           n == (tt.nstops + 2) * (k + 1)
           base == [k |-> k, s |-> target, legs |-> <<>>]
           h == [k |-> k, target |-> target]
           end == RiddenBack!Path(0, base, n)[n]
<1>1. /\ arrAt[k] < Inf /\ k \in 1..round /\ target \in DOMAIN q.targets /\ target \in Stops
      /\ arrAt[k] = lab[k][target].time + q.targets[target]
      /\ WayBack(h, 0, base)
  BY BackStarts
<1>2. q.targets[target] \in Nat /\ k \in Nat \ {0} /\ k - 1 \in 0..(k - 1) /\ k \in 0..round /\ k - 1 \in 0..round
  BY <1>1 DEF Rows, QueryIs
<1>3. lab[k][target].time \in Nat /\ lab[k - 1][target].time \in Nat
  BY <1>1, <1>2, RowOf DEF RowIs
<1>4. Bettered(lab[k], lab[k - 1], target)
  <2>1. arrAt[k] < arrAt[k - 1]
    BY <1>2 DEF Improves
  <2>2. lab[k - 1][target].time < Inf => arrAt[k - 1] <= lab[k - 1][target].time + q.targets[target]
    BY <1>1, <1>2 DEF ArrivesBy
  <2>3. arrAt[k - 1] \in Nat /\ Inf \in Nat
    <3>1. k - 1 \in 0..q.maxRides
      BY <1>2 DEF Rows, QueryIs
    <3> QED BY <3>1, TimesAssumption DEF Labelled, ArrivalsAre
  <2> DEFINE new == lab[k][target].time
             old == lab[k - 1][target].time
             egress == q.targets[target]
             known == arrAt[k - 1]
  <2>4. new \in Nat /\ old \in Nat /\ egress \in Nat /\ known \in Nat /\ new + egress < Inf /\ new + egress < known
    BY <1>1, <1>2, <1>3, <2>1, <2>3
  <2>5. old < Inf => known <= old + egress
    BY <2>2
  <2> HIDE DEF new, old, egress, known
  <2>6. new < old
    BY <2>3, <2>4, <2>5
  <2> QED BY <2>6 DEF Bettered, new, old
<1>5. n \in Nat
  BY <1>2, StepsAre
<1>h. h.k = k /\ h.target = target /\ base.k = k /\ base.s = target /\ base.legs = <<>>
  OBVIOUS
<1> HIDE DEF n, h, base, target
<1>6. WayRidden(h, 0, base)
  <2>1. ASSUME NEW r, Speaks(r, k, target) PROVE Leads(r, <<>>, k, target)
    <3> DEFINE rr == [i \in {0} |-> r]
    <3>1. rr[0] = r /\ Len(<<>>) = 0 /\ 1..Len(<<>>) = {}
      OBVIOUS
    <3> HIDE DEF rr
    <3>2. Rides(rr, <<>>) /\ Speaks(rr[Len(<<>>)], k, target)
      BY <2>1, <3>1 DEF Rides
    <3> QED BY <3>1, <3>2 DEF Leads
  <2> QED BY <1>h, <1>1, <1>4, <2>1 DEF WayRidden
<1>7. ASSUME NEW i \in 1..n, NEW b, WayRidden(h, i - 1, b) PROVE WayRidden(h, i, BackStep(0, b, i))
  BY <1>h, <1>1, <1>7, StepRidden
<1>8. WayRidden(h, n, end)
  <2>1. n \in 0..n
    BY <1>5
  <2> QED BY <1>5, <1>6, <1>7, <2>1, RiddenBack!PathKeeps, NatsFrom
<1>9. /\ Extract(k, target).legs = end.legs
      /\ Extract(k, target).ok = (end.k >= 0 /\ lab[end.k][end.s].kind = "access")
  BY Zenon DEF Extract, BackStep, RiddenBack!Path, n, base
<1> HIDE DEF end
<1>10. lab[end.k][end.s].kind = "access"
  BY <1>9 DEF target
<1>11. end.k \in 0..round /\ end.s \in Stops
  BY <1>h, <1>1, <1>8 DEF WayRidden, WayBack, Rows
<1>12. end.s \in DOMAIN q.sources /\ Speaks(AtSource(q, end.s), end.k, end.s)
  BY <1>10, <1>11, SourceSpeaks
<1>13. Leads(AtSource(q, end.s), end.legs, k, target)
  BY <1>h, <1>8, <1>12 DEF WayRidden
<1> QED BY <1>1, <1>4, <1>9, <1>12, <1>13 DEF target

\* A journey that a rider follows from a source to its target, on time.
Realised(j) ==
  LoopsPlain =>
    /\ Len(j.legs) \in Nat
    /\ \E s \in DOMAIN q.sources : \E rr :
         /\ rr[0] = AtSource(q, s) /\ Rides(rr, j.legs)
         /\ LET r == rr[Len(j.legs)]
            IN  /\ r.stop = j.target
                /\ IF WalksClosed THEN r.time + q.targets[r.stop] = j.arr
                   ELSE r.time + q.targets[r.stop] <= j.arr

\* What JourneysRealisable gathers leg by leg, and the rider who is among them.
RiddenStep(p, acc, i) == UNION {RideLeg(r, p.legs[i], Strict(r, p.legs, i)) : r \in acc}
RiddenGood(h, n, acc) == h[n] \in acc
RiddenFold == INSTANCE FoldLaws WITH Step <- RiddenStep, Good <- RiddenGood

\* Who follows the legs from a source is gathered.
LEMMA RiddenHas ==
  ASSUME NEW j, Len(j.legs) \in Nat, NEW rr, NEW s \in DOMAIN q.sources, rr[0] = AtSource(q, s), Rides(rr, j.legs)
  PROVE  rr[Len(j.legs)] \in Ridden(j)
<1> DEFINE n == Len(j.legs)
           base == {AtSource(q, x) : x \in DOMAIN q.sources}
           seq == [i \in 1..n |-> i]
<1>1. RiddenGood(rr, 0, base)
  BY DEF RiddenGood
<1> HIDE DEF base
<1>2. ASSUME NEW k \in 1..n, NEW acc, RiddenGood(rr, k - 1, acc) PROVE RiddenGood(rr, k, RiddenStep(j, acc, seq[k]))
  <2>1. seq[k] = k /\ rr[k - 1] \in acc
    BY <1>2 DEF RiddenGood
  <2>2. rr[k] \in RideLeg(rr[k - 1], j.legs[k], Strict(rr[k - 1], j.legs, k))
    BY DEF Rides
  <2> HIDE DEF seq
  <2> QED BY <2>1, <2>2 DEF RiddenGood, RiddenStep
<1>3. DOMAIN seq = 1..n
  OBVIOUS
<1>4. RiddenGood(rr, n, RiddenFold!Folded(j, base, seq))
  <2> HIDE DEF n, seq
  <2>1. n \in Nat
    BY DEF n
  <2> QED BY <1>1, <1>2, <1>3, <2>1, RiddenFold!FoldKeeps, NatsFrom
<1>5. Ridden(j) = RiddenFold!Folded(j, base, seq)
  BY DEF Ridden, RiddenStep, RiddenFold!Folded, base,
         FoldLeft, MapThenFoldSet, Max, RiddenFold!Largest
<1> QED BY <1>4, <1>5 DEF RiddenGood

\* The journeys of an answer that no overlay disturbed.
AnswerRealised ==
  pc = "answered" /\ ~swapped => \A j \in {journeys[i] : i \in 1..Len(journeys)} : Realised(j)

\* Such an answer is realisable as the property says.
LEMMA RealisedMeans ==
  ASSUME AnswerRealised
  PROVE  JourneysRealisable
<1> SUFFICES ASSUME Complete, LoopsPlain, NEW i \in 1..Len(journeys)
             PROVE  \E r \in Ridden(journeys[i]) :
                      /\ r.stop = journeys[i].target
                      /\ IF WalksClosed THEN r.time + q.targets[r.stop] = journeys[i].arr
                         ELSE r.time + q.targets[r.stop] <= journeys[i].arr
  BY DEF JourneysRealisable
<1> DEFINE j == journeys[i]
<1>1. Realised(j)
  BY DEF AnswerRealised, Complete
<1> HIDE DEF j
<1>2. PICK s, rr :
         /\ Len(j.legs) \in Nat /\ s \in DOMAIN q.sources
         /\ rr[0] = AtSource(q, s) /\ Rides(rr, j.legs)
         /\ LET r == rr[Len(j.legs)]
            IN  /\ r.stop = j.target
                /\ IF WalksClosed THEN r.time + q.targets[r.stop] = j.arr
                   ELSE r.time + q.targets[r.stop] <= j.arr
  BY <1>1 DEF Realised
<1>3. rr[Len(j.legs)] \in Ridden(j)
  BY <1>2, RiddenHas
<1> QED BY <1>2, <1>3 DEF j

\* An answer's journeys can be ridden.
LEMMA FinishRealises ==
  ASSUME Loaded, Labelled, ArrivalsKnown, DeparturesKnown, TimesAre(lab, upper, arrAt, pc, round, markList), Finish,
         NEW j \in {journeys'[i] : i \in 1..Len(journeys')}
  PROVE  Realised(j)
<1> DEFINE improving == {k \in 1..q.maxRides : Improves(k) /\ Extract(k, targetAt[k]).ok}
           rounds == AscendingIn(q.maxRides, improving)
           n == Len(rounds)
           journey(k) == LET legs == Extract(k, targetAt[k]).legs
                         IN  [rides |-> RideCount(legs), arr |-> arrAt[k], target |-> targetAt[k], legs |-> legs]
<1>0. pc = "extract" /\ q.maxRides \in Nat /\ ArrivesBy(lab, arrAt, round)
  BY Zenon DEF Finish, Labelled, QueryIs, TimesAre
<1>r. Rows
  BY <1>0 DEF Rows, Labelled, Completed, Stage, QueryIs, TimesAre
<1>1. IsSeq(rounds) /\ ToSet(rounds) = (1..q.maxRides) \cap improving
  BY <1>0, AscendingInIs
<1>2. n \in Nat /\ \A i \in 1..n : rounds[i] \in ToSet(rounds)
  BY Zenon, <1>1, IsSeqHas
<1>3. journeys' = [i \in 1..n |-> journey(rounds[i])]
  BY Zenon DEF Finish
<1>4. Len(journeys') = n
  <2> HIDE DEF n, rounds, journey
  <2>1. journeys' = [i \in 1..n |-> journeys'[i]]
    BY <1>3
  <2> QED BY <1>2, <2>1, ListIs
<1>5. \E k \in improving : j = journey(k)
  <2> HIDE DEF journey, improving, rounds, n
  <2>1. PICK i \in 1..n : j = journeys'[i]
    BY <1>4
  <2>2. rounds[i] \in improving /\ j = journey(rounds[i])
    BY <1>1, <1>2, <1>3, <2>1
  <2> QED BY <2>2
<1>6. PICK k \in improving : j = journey(k)
  BY <1>5
<1>7. k \in 1..q.maxRides /\ Improves(k) /\ Extract(k, targetAt[k]).ok
  OBVIOUS
<1>8. j.legs = Extract(k, targetAt[k]).legs /\ j.target = targetAt[k] /\ j.arr = arrAt[k]
  BY <1>6
<1> HIDE DEF improving, rounds, n, journey
<1> SUFFICES ASSUME LoopsPlain
             PROVE  /\ Len(j.legs) \in Nat
                    /\ \E s \in DOMAIN q.sources : \E rr :
                         /\ rr[0] = AtSource(q, s) /\ Rides(rr, j.legs)
                         /\ LET r == rr[Len(j.legs)]
                            IN  /\ r.stop = j.target
                                /\ IF WalksClosed THEN r.time + q.targets[r.stop] = j.arr
                                   ELSE r.time + q.targets[r.stop] <= j.arr
  BY DEF Realised
<1>9. /\ \E s \in DOMAIN q.sources : Leads(AtSource(q, s), j.legs, k, j.target)
      /\ k \in 1..round /\ j.target \in DOMAIN q.targets /\ j.target \in Stops
      /\ j.arr = lab[k][j.target].time + q.targets[j.target]
      /\ Bettered(lab[k], lab[k - 1], j.target)
  BY <1>0, <1>r, <1>7, <1>8, ExtractRidden
<1>10. Len(j.legs) \in Nat
  <2>1. \E s \in Stops : Chain(j.legs, s, targetAt[k])
    BY <1>0, <1>7, <1>8, ExtractConnects
  <2> QED BY <2>1, IsSeqHas DEF Chain
<1>11. PICK s, rr : s \in DOMAIN q.sources /\ rr[0] = AtSource(q, s) /\ Rides(rr, j.legs)
                     /\ Speaks(rr[Len(j.legs)], k, j.target)
  BY <1>9 DEF Leads
<1>12. k # 0 /\ k \in 0..round /\ q.targets[j.target] \in Nat /\ lab[k][j.target].time \in Nat
  <2>1. k # 0 /\ k \in 0..round
    BY <1>9 DEF Rows, QueryIs
  <2>2. RowIs(lab[k])
    BY <1>r, <2>1, RowOf
  <2> QED BY <1>9, <1>r, <2>1, <2>2 DEF Rows, QueryIs, RowIs
<1>13. LET r == rr[Len(j.legs)]
       IN  /\ r.stop = j.target
           /\ IF WalksClosed THEN r.time + q.targets[r.stop] = j.arr
              ELSE r.time + q.targets[r.stop] <= j.arr
  BY <1>9, <1>11, <1>12 DEF Speaks
<1> QED BY <1>10, <1>11, <1>13

\* What a rider may do is the same after a step that leaves network, overlay and query alone.
LEMMA SameLeg ==
  ASSUME net' = net, ov' = ov, q' = q, NEW r, NEW leg, NEW strict
  PROVE  RideLeg(r, leg, strict)' = RideLeg(r, leg, strict)
<1>1. Stops' = Stops /\ tt' = tt /\ Days(q)' = Days(q)
  BY SameRules
<1>2. DayOf(leg)' = DayOf(leg)
  BY <1>1 DEF DayOf
<1>3. ReadyFor(q, r, leg.trip)' = ReadyFor(q, r, leg.trip)
  BY <1>1 DEF ReadyFor
<1>4. ASSUME NEW day
      PROVE  /\ AlightsFrom(leg.trip, leg.board, day)' = AlightsFrom(leg.trip, leg.board, day)
             /\ \A ready : MayBoard(r, leg.trip, leg.board, day, ready)' = MayBoard(r, leg.trip, leg.board, day, ready)
  BY <1>1 DEF AlightsFrom, MayBoard
<1>5. WalksOf(r)' = WalksOf(r)
  BY <1>1 DEF WalksOf, Walked
<1> QED BY <1>1, <1>2, <1>3, <1>4, <1>5 DEF RideLeg

\* What can be ridden depends on the network, the overlay and the query only.
LEMMA SameRealised ==
  ASSUME net' = net, ov' = ov, q' = q, NEW j, Realised(j)
  PROVE  Realised(j)'
<1>1. WalksClosed' = WalksClosed /\ Regular' = Regular /\ LoopsPlain' = LoopsPlain
  BY SameRules
<1> SUFFICES ASSUME LoopsPlain
             PROVE  (/\ Len(j.legs) \in Nat
                     /\ \E s \in DOMAIN q.sources : \E rr :
                          /\ rr[0] = AtSource(q, s) /\ Rides(rr, j.legs)
                          /\ LET r == rr[Len(j.legs)]
                             IN  /\ r.stop = j.target
                                 /\ IF WalksClosed THEN r.time + q.targets[r.stop] = j.arr
                                    ELSE r.time + q.targets[r.stop] <= j.arr)'
  BY <1>1 DEF Realised
<1>2. PICK s, rr :
         /\ Len(j.legs) \in Nat /\ s \in DOMAIN q.sources
         /\ rr[0] = AtSource(q, s) /\ Rides(rr, j.legs)
         /\ LET r == rr[Len(j.legs)]
            IN  /\ r.stop = j.target
                /\ IF WalksClosed THEN r.time + q.targets[r.stop] = j.arr
                   ELSE r.time + q.targets[r.stop] <= j.arr
  BY DEF Realised
<1>3. ASSUME NEW i \in 1..Len(j.legs)
      PROVE  (rr[i] \in RideLeg(rr[i - 1], j.legs[i], Strict(rr[i - 1], j.legs, i)))'
  <2>1. rr[i] \in RideLeg(rr[i - 1], j.legs[i], Strict(rr[i - 1], j.legs, i))
    BY <1>2 DEF Rides
  <2>2. Strict(rr[i - 1], j.legs, i)' = Strict(rr[i - 1], j.legs, i)
    BY <1>1 DEF Strict
  <2>3. \A strict : RideLeg(rr[i - 1], j.legs[i], strict)' = RideLeg(rr[i - 1], j.legs[i], strict)
    BY SameLeg
  <2> QED BY <2>1, <2>2, <2>3
<1>4. Rides(rr, j.legs)'
  BY <1>3 DEF Rides
<1>5. AtSource(q, s)' = AtSource(q, s)
  BY DEF AtSource
<1> QED BY <1>1, <1>2, <1>4, <1>5

-----------------------------------------------------------------------------
(* The invariant                                                           *)

\* A query is asked in seconds between stops.
QueriesAre ==
  (phase = "run" /\ todo # <<>>) =>
     LET v == Head(todo)
     IN  QueryIs(QueryAt(depart, IF v.tag = "onboard" THEN v.acc.sec ELSE AccessSources(depart, v.acc.sec), v.egr.sec))

\* A request is taken between queries, and leaves RAPTOR and what it reads as they are.
LEMMA AskStays ==
  ASSUME Ask
  PROVE  phase = "idle" /\ swapped' = FALSE /\ UNCHANGED <<net, heard, ov, raptorVars>>
<1>1. PICK r \in Requests(net.name) : AskTransit(r) \/ AskOnboard(r) \/ AskRoad(r)
  BY DEF Ask
<1>2. Accept(r)
  BY <1>1 DEF AskTransit, AskOnboard, AskRoad
<1> QED BY <1>2 DEF Accept

\* The overlay states arrivals for every stop of every trip.
LEMMA ProjectedArrivals ==
  ASSUME Published, Projected
  PROVE  ArrivalsKnown
<1>1. OverlayIs(ov)
  BY LoadedIs, BuiltIs DEF Projected
<1> SUFFICES ASSUME NEW t \in 1..Len(tt.trips), NEW i \in 1..Len(tt.trips[t].stops)
             PROVE  TripArr(tt, ov, t, i) \in Int
  BY DEF ArrivalsKnown
<1>2. TripLen(tt, t) = Len(tt.trips[t].stops) /\ tt.trips[t].arr[i] \in Nat
  BY LoadedIs, TripIs
<1>3. ov.delta[t] # <<>> => ov.delta[t][i].arr \in Int
  BY <1>1, <1>2 DEF OverlayIs, DelaysAre
<1> QED BY <1>2, <1>3 DEF TripArr, AddDelta

\* An instant is at most a day after its service day began.
LEMMA WithinDay ==
  ASSUME NEW t \in Int
  PROVE  t - BaseOf(t) \in Nat
<1>1. DaySec \in Nat \ {0}
  BY TimesAssumption
<1> QED BY <1>1 DEF BaseOf, Day

\* A query that is asked is one.
LEMMA AskedIs ==
  ASSUME Published, QueriesCounted, Underway
  PROVE  QueriesAre
<1> DEFINE v == Head(todo)
           sources == IF v.tag = "onboard" THEN v.acc.sec ELSE AccessSources(depart, v.acc.sec)
           x == QueryAt(depart, sources, v.egr.sec)
<1> SUFFICES ASSUME phase = "run", todo # <<>> PROVE QueryIs(x)
  BY DEF QueriesAre
<1>1. v \in ToSet(todo)
  <2>1. todo \in Seq(ToSet(todo)) /\ todo # <<>>
    BY DEF Underway, IsSeq
  <2> QED BY <2>1
<1>2. Counts(v) /\ depart \in Int
  BY <1>1 DEF QueriesCounted
<1> HIDE DEF v
<1>3. Starts(sources)
  <2>1. CASE v.tag = "onboard"
    BY <1>2, <2>1 DEF Counts
  <2>2. CASE v.tag # "onboard"
    <3>1. sources = [s \in DOMAIN v.acc.sec |-> [sec |-> depart - BaseOf(depart) + v.acc.sec[s], rail |-> FALSE, arr |-> 0]]
      BY <2>2 DEF AccessSources
    <3>2. depart - BaseOf(depart) \in Nat /\ Seconds(v.acc.sec)
      BY <1>2, <2>2, WithinDay DEF Counts
    <3>3. \A s \in DOMAIN v.acc.sec : depart - BaseOf(depart) + v.acc.sec[s] \in Nat
      BY <3>2 DEF Seconds
    <3>4. DOMAIN sources = DOMAIN v.acc.sec /\ \A s \in DOMAIN v.acc.sec : /\ sources[s].sec = depart - BaseOf(depart) + v.acc.sec[s]
                                                                          /\ sources[s].arr = 0
      BY <3>1
    <3> HIDE DEF sources
    <3> QED BY <3>2, <3>3, <3>4 DEF Starts, Seconds
  <2> QED BY <2>1, <2>2
<1> HIDE DEF sources
<1>4. /\ x.sources = sources /\ x.targets = v.egr.sec /\ x.maxRides = Cfg.maxTransfers + 1
      /\ x.slack = Cfg.slack /\ x.entry = Cfg.railEntry /\ x.change = Cfg.railTransfer
  BY DEF QueryAt
<1>5. Cfg.maxTransfers \in Nat /\ Cfg.slack \in Nat /\ Cfg.railEntry \in Nat /\ Cfg.railTransfer \in Nat
  BY RentalConfigAssumption
<1> HIDE DEF x
<1> QED BY <1>2, <1>3, <1>4, <1>5 DEF QueryIs, Starts, Counts, Seconds

\* The inductive invariant of RAPTOR: at every step of every query, each label of a
\* round says how its rider came, on foot from a stop labelled no later in this round,
\* by a ride from a stop labelled in the round before; what rides bring nearer beats
\* the sources' round; and each arrival kept is the time of its target's label
\* (raptor.go:282-440), whatever the overlay does meanwhile.
THEOREM LabelledInvariance == Spec => []Labelled
<1>1. Init /\ Published => Labelled
  <2> SUFFICES ASSUME Init, Published PROVE Labelled
    OBVIOUS
  <2>1. pc = "idle" /\ patMin = [p \in Pats |-> 0] /\ patList = <<>>
    BY DEF Init, RaptorInit
  <2>2. IsSeq(<<>>) /\ ToSet(<<>>) = {} /\ Len(<<>>) = 0
    BY NoneIs
  <2>3. QueueIs(patMin, patList)
    BY <2>1, <2>2 DEF QueueIs
  <2> QED BY <2>1, <2>3 DEF Labelled
<1>2. Labelled /\ Published /\ Published' /\ ArrivalsKnown /\ QueriesAre /\ Scheduled /\ [Next]_vars => Labelled'
  <2> SUFFICES ASSUME Labelled, Published, Published', ArrivalsKnown, QueriesAre, Scheduled, [Next]_vars PROVE Labelled'
    OBVIOUS
  <2>0. Loaded /\ Loaded'
    BY DEF Published, Loaded
  <2>1. CASE net' = net /\ UNCHANGED raptorVars
    BY <2>0, <2>1, IdleLabelled
  <2>2. CASE Ask
    BY <2>1, <2>2, AskStays
  <2>3. CASE RunVariant
    BY <2>0, <2>3, SeedLabelled DEF RunVariant, QueriesAre
  <2>4. CASE Running
    BY <2>0, <2>4, RaptorStepLabelled DEF Running
  <2>5. CASE Collect
    <3>1. pc = "answered" /\ pc' = "idle" /\ net' = net /\ patMin' = patMin /\ patList' = patList
      BY Zenon, <2>5 DEF Collect, scratch
    <3>2. UNCHANGED <<patMin, patList>>
      BY <3>1
    <3> QED BY <3>1, <3>2, PooledLabelled
  <2>6. CASE Bracket \/ Check \/ Bisect
    BY <2>1, <2>6 DEF Bracket, Check, Bisect, Narrow, Probe, PlanAt
  <2>7. CASE Rank \/ RankOnboard
    BY <2>1, <2>7 DEF Rank, RankOnboard
  <2>8. CASE SwapOverlay \/ SwapRentals
    BY <2>1, <2>8 DEF SwapOverlay, SwapRentals
  <2>9. CASE SwapBundles
    BY <2>0, <2>9, FreshLabelled DEF SwapBundles
  <2> QED
    BY <2>1, <2>2, <2>3, <2>4, <2>5, <2>6, <2>7, <2>8, <2>9 DEF Next, vars
<1>3. Published /\ Projected /\ QueriesCounted /\ Underway => ArrivalsKnown /\ QueriesAre
  BY ProjectedArrivals, AskedIs
<1>4. Published /\ Projected /\ QueriesCounted /\ Underway /\ Scheduled /\ Published' /\ Labelled /\ [Next]_vars => Labelled'
  BY <1>2, <1>3
<1> QED
  BY <1>1, <1>4, PublishedInvariance, ProjectedInvariance, CountedInvariance, RentalsInvariance,
     ScheduledInvariance, PTL DEF Spec

\* Even when the overlay changes under a query (raptor.go reads it position by
\* position), what extract follows back hangs together: from a source to the target,
\* each leg where the last one ended, no more rides than rounds.
THEOREM JourneysAreConnected == Spec => []JourneysConnected
<1>1. Init => JourneysConnected
  BY DEF Init, RaptorInit, JourneysConnected
<1>2. JourneysConnected /\ Published /\ Labelled /\ [Next]_vars => JourneysConnected'
  <2> SUFFICES ASSUME JourneysConnected, Published, Labelled, [Next]_vars PROVE JourneysConnected'
    OBVIOUS
  <2>1. CASE UNCHANGED <<net, q, pc, journeys>>
    <3>1. CASE pc = "answered"
      <4>1. \A i \in 1..Len(journeys') : JourneyIs(journeys'[i])
        BY <2>1, <3>1, ConnectedIs
      <4> QED BY <2>1, <4>1, ConnectedNext
    <3>2. CASE pc # "answered"
      BY Zenon, <2>1, <3>2 DEF JourneysConnected
    <3> QED BY <3>1, <3>2
  <2>2. CASE Ask
    BY <2>1, <2>2, AskStays DEF raptorVars, answers
  <2>3. CASE RunVariant
    BY Zenon, <2>3 DEF RunVariant, Seed, JourneysConnected
  <2>4. CASE Running
    <3>1. CASE Finish
      <4>1. \A i \in 1..Len(journeys') : JourneyIs(journeys'[i])
        BY <3>1, LoadedIs, FinishConnects
      <4> QED BY Zenon, <3>1, <4>1, ConnectedNext DEF Finish
    <3>2. CASE ~Finish
      <4>1. pc' # "answered"
        BY <2>4, <3>2 DEF Running, RaptorStep, SourceWalks, BeginRound, Scan, WalkOn
      <4> QED BY Zenon, <4>1 DEF JourneysConnected
    <3> QED BY <3>1, <3>2
  <2>5. CASE Collect \/ SwapBundles
    BY Zenon, <2>5 DEF Collect, SwapBundles, FreshRaptor, JourneysConnected
  <2>6. CASE Bracket \/ Check \/ Bisect
    BY <2>1, <2>6 DEF Bracket, Check, Bisect, Narrow, Probe, PlanAt, raptorVars, answers
  <2>7. CASE Rank \/ RankOnboard
    BY <2>1, <2>7 DEF Rank, RankOnboard, raptorVars, answers
  <2>8. CASE SwapOverlay \/ SwapRentals
    BY <2>1, <2>8 DEF SwapOverlay, SwapRentals, raptorVars, answers
  <2> QED
    BY <2>1, <2>2, <2>3, <2>4, <2>5, <2>6, <2>7, <2>8 DEF Next, vars, raptorVars, answers
<1> QED
  BY <1>1, <1>2, PublishedInvariance, LabelledInvariance, PTL DEF Spec

\* The overlay states departures for every stop of every trip.
LEMMA ProjectedDepartures ==
  ASSUME Published, Projected
  PROVE  DeparturesKnown
<1>1. OverlayIs(ov)
  BY LoadedIs, BuiltIs DEF Projected
<1> SUFFICES ASSUME NEW t \in 1..Len(tt.trips), NEW i \in 1..Len(tt.trips[t].stops)
             PROVE  TripDep(tt, ov, t, i) \in Int
  BY DEF DeparturesKnown
<1>2. TripLen(tt, t) = Len(tt.trips[t].stops) /\ tt.trips[t].dep[i] \in Nat
  BY LoadedIs, TripIs
<1>3. ov.delta[t] # <<>> => ov.delta[t][i].dep \in Int
  BY <1>1, <1>2 DEF OverlayIs, DelaysAre
<1> QED BY <1>2, <1>3 DEF TripDep, AddDelta

\* The times of a query's labels, while the overlay does not change under it: none of a
\* round is later than in the round before, a ride that was written leaves after the
\* rider was ready and reaches its label when it says, no trip held or stop marked is
\* ahead of the labels, and no target is reached earlier than was kept (raptor.go:282-440).
THEOREM TimedInvariance == Spec => []Timed
<1>1. Init => Timed
  BY DEF Init, RaptorInit, Timed
<1>2. Timed /\ Labelled /\ Published /\ ArrivalsKnown /\ DeparturesKnown /\ QueriesAre /\ Scheduled /\ [Next]_vars => Timed'
  <2> SUFFICES ASSUME Timed, Labelled, Published, ArrivalsKnown, DeparturesKnown, QueriesAre, Scheduled, [Next]_vars
               PROVE  Timed'
    OBVIOUS
  <2>0. Loaded
    BY DEF Published, Loaded
  <2>1. CASE net' = net /\ ov' = ov /\ swapped' = swapped /\ UNCHANGED raptorVars
    BY <2>1, IdleTimed
  <2>2. CASE Ask
    <3>1. phase = "idle" /\ swapped' = FALSE /\ UNCHANGED <<net, heard, ov, raptorVars>>
      BY <2>2, AskStays
    <3>2. pc = "idle"
      BY <3>1 DEF Scheduled
    <3> QED BY <3>1, <3>2 DEF Timed, raptorVars
  <2>3. CASE RunVariant
    <3>1. PICK x : QueryIs(x) /\ Seed(x)
      BY <2>3 DEF RunVariant, QueriesAre
    <3>2. TimesAre(lab, upper, arrAt, pc, round, markList)'
      BY <2>0, <3>1, SeedTimed
    <3> QED BY <3>2 DEF Timed
  <2>4. CASE Running
    BY <2>0, <2>4, RaptorStepTimed DEF Running
  <2>5. CASE Collect \/ SwapBundles
    BY Zenon, <2>5 DEF Collect, SwapBundles, FreshRaptor, Timed
  <2>6. CASE Bracket \/ Check \/ Bisect
    BY <2>1, <2>6 DEF Bracket, Check, Bisect, Narrow, Probe, PlanAt
  <2>7. CASE Rank \/ RankOnboard
    BY <2>1, <2>7 DEF Rank, RankOnboard
  <2>8. CASE SwapOverlay
    BY <2>8 DEF SwapOverlay, Timed
  <2>9. CASE SwapRentals
    BY <2>1, <2>9 DEF SwapRentals
  <2> QED
    BY <2>1, <2>2, <2>3, <2>4, <2>5, <2>6, <2>7, <2>8, <2>9 DEF Next, vars
<1>3. Published /\ Projected /\ QueriesCounted /\ Underway => ArrivalsKnown /\ DeparturesKnown /\ QueriesAre
  BY ProjectedArrivals, ProjectedDepartures, AskedIs
<1>4. Published /\ Projected /\ QueriesCounted /\ Underway /\ Scheduled /\ Labelled /\ Timed /\ [Next]_vars => Timed'
  BY <1>2, <1>3
<1> QED
  BY <1>1, <1>4, PublishedInvariance, ProjectedInvariance, CountedInvariance, RentalsInvariance,
     ScheduledInvariance, LabelledInvariance, PTL DEF Spec

\* Every journey of an answer can be ridden as it says, from a source to its target by the
\* promised time, unless the overlay changed under it (extract, raptor.go:455-520): the
\* labels it follows back were caught from the labels before them, or from earlier ones
\* at the same stop.
THEOREM JourneysAreRealisable == Spec => []JourneysRealisable
<1>1. Init => AnswerRealised
  BY DEF Init, RaptorInit, AnswerRealised
<1>2. AnswerRealised /\ Published /\ Labelled /\ Timed /\ ArrivalsKnown /\ DeparturesKnown /\ Scheduled /\ [Next]_vars
        => AnswerRealised'
  <2> SUFFICES ASSUME AnswerRealised, Published, Labelled, Timed, ArrivalsKnown, DeparturesKnown, Scheduled, [Next]_vars
               PROVE  AnswerRealised'
    OBVIOUS
  <2>1. CASE net' = net /\ ov' = ov /\ swapped' = swapped /\ UNCHANGED raptorVars
    <3>1. q' = q /\ pc' = pc /\ journeys' = journeys
      BY <2>1 DEF raptorVars, answers
    <3> SUFFICES ASSUME pc = "answered", ~swapped, NEW j \in {journeys[i] : i \in 1..Len(journeys)} PROVE Realised(j)'
      BY <2>1, <3>1 DEF AnswerRealised
    <3>2. Realised(j)
      BY DEF AnswerRealised
    <3> QED BY <2>1, <3>1, <3>2, SameRealised
  <2>2. CASE Ask
    <3>1. phase = "idle" /\ UNCHANGED <<net, heard, ov, raptorVars>>
      BY <2>2, AskStays
    <3>2. pc = "idle"
      BY <3>1 DEF Scheduled
    <3> QED BY <3>1, <3>2 DEF AnswerRealised, raptorVars
  <2>3. CASE RunVariant
    BY Zenon, <2>3 DEF RunVariant, Seed, AnswerRealised
  <2>4. CASE Running
    <3>1. CASE Finish
      <4> SUFFICES ASSUME ~swapped, NEW j \in {journeys'[i] : i \in 1..Len(journeys')} PROVE Realised(j)'
        BY ZenonT(30), <3>1 DEF AnswerRealised, Finish
      <4>1. TimesAre(lab, upper, arrAt, pc, round, markList)
        BY Zenon, <3>1 DEF Timed, Finish
      <4>2. Realised(j)
        BY <3>1, <4>1, LoadedIs, FinishRealises
      <4>3. net' = net /\ ov' = ov /\ q' = q
        BY Zenon, <3>1 DEF Finish
      <4> QED BY <4>2, <4>3, SameRealised
    <3>2. CASE ~Finish
      <4>1. pc' # "answered"
        BY <2>4, <3>2 DEF Running, RaptorStep, SourceWalks, BeginRound, Scan, WalkOn
      <4> QED BY <4>1 DEF AnswerRealised
    <3> QED BY <3>1, <3>2
  <2>5. CASE Collect \/ SwapBundles
    BY <2>5 DEF Collect, SwapBundles, FreshRaptor, AnswerRealised
  <2>6. CASE Bracket \/ Check \/ Bisect
    BY <2>1, <2>6 DEF Bracket, Check, Bisect, Narrow, Probe, PlanAt
  <2>7. CASE Rank \/ RankOnboard
    BY <2>1, <2>7 DEF Rank, RankOnboard
  <2>8. CASE SwapOverlay
    BY <2>8 DEF SwapOverlay, AnswerRealised
  <2>9. CASE SwapRentals
    BY <2>1, <2>9 DEF SwapRentals
  <2> QED
    BY <2>1, <2>2, <2>3, <2>4, <2>5, <2>6, <2>7, <2>8, <2>9 DEF Next, vars
<1>3. Published /\ Projected => ArrivalsKnown /\ DeparturesKnown
  BY ProjectedArrivals, ProjectedDepartures
<1>4. AnswerRealised => JourneysRealisable
  BY RealisedMeans
<1> QED
  BY <1>1, <1>2, <1>3, <1>4, PublishedInvariance, ProjectedInvariance, LabelledInvariance, TimedInvariance,
     ScheduledInvariance, PTL DEF Spec

-----------------------------------------------------------------------------
(* The times of an itinerary                                               *)

\* When a rider has to set out for a ride.
Leaves(ride) == ride.dep - ride.foot

\* Off each ride, the walk to the next one can be begun, but for the rider who is
\* aboard that one already.
OneByOne(rides) == \A i \in 1..(Len(rides) - 1) : ~rides[i].boarded => rides[i].arr <= Leaves(rides[i + 1])

\* And so can the walk to the first, once the access leg has ended.
LegsInTurn(aboard, out, rides) == OneByOne(rides) /\ (rides # <<>> /\ ~aboard => out <= Leaves(rides[1]))

KeepsTime(it) ==
  /\ {"rides", "aboard", "out", "arr"} \subseteq DOMAIN it
  /\ IsSeq(it.rides) /\ LegsInTurn(it.aboard, it.out, it.rides)

KeepTime(its) == IsSeq(its) /\ \A it \in ToSet(its) : KeepsTime(it)
KeepTimeIfOk(its) == IsSeq(its) /\ \A it \in ToSet(its) : it.ok => KeepsTime(it)

\* The rides of the legs so far, each off the leg before it by the time it leaves; in
\* the end on foot, since the last ride or the start.
OnTheWay(start, k, so) ==
  /\ DOMAIN so = {"ok", "timed", "rides", "street", "at", "entry"}
  /\ IsSeq(so.rides) /\ so.street \in Nat
  /\ \A i \in 1..Len(so.rides) : {so.rides[i].arr, so.rides[i].dep, so.rides[i].foot} \in SUBSET Int
  /\ so.rides # <<>> => so.timed /\ so.at = so.rides[Len(so.rides)].arr + so.street
  /\ ~start.aboard => so.timed
  /\ ~start.aboard /\ so.ok => start.out \in Int /\ (so.rides = <<>> => so.at = start.out + so.street)
  /\ so.ok => LegsInTurn(start.aboard, start.out, so.rides)
LegAfterLeg == INSTANCE FoldLaws WITH Step <- LegStep, Good <- OnTheWay

\* A list with one more at its end.
LEMMA AppendedAre ==
  ASSUME NEW s, IsSeq(s), NEW x
  PROVE  /\ Len(Append(s, x)) = Len(s) + 1 /\ Append(s, x)[Len(s) + 1] = x
         /\ \A i \in 1..Len(s) : Append(s, x)[i] = s[i]
<1>1. s \in Seq(ToSet(s) \cup {x})
  <2>1. s \in Seq(ToSet(s))
    BY DEF IsSeq
  <2> QED BY <2>1
<1> QED BY <1>1

\* A ride is timed in whole seconds.
LEMMA RideCounts ==
  ASSUME ArrivalsKnown, DeparturesKnown, NEW leg, LegIs(leg), leg.ride, NEW t \in Int,
         NEW foot
  PROVE  LET ride == TimedRide(leg, BaseOf(t), foot) IN ride.arr \in Int /\ ride.dep \in Int /\ ride.foot = foot
<1>1. BaseOf(t) \in Int
  <2>1. DaySec \in Nat \ {0}
    BY TimesAssumption
  <2> QED BY <2>1 DEF BaseOf, Day
<1>2. /\ leg.trip \in 1..Len(tt.trips) /\ leg.board \in 1..Len(tt.trips[leg.trip].stops)
      /\ leg.alight \in 1..Len(tt.trips[leg.trip].stops) /\ leg.day \in Int
  BY DEF LegIs, Trips
<1>3. TripArr(tt, ov, leg.trip, leg.alight) \in Int /\ TripDep(tt, ov, leg.trip, leg.board) \in Int
  BY <1>2 DEF ArrivalsKnown, DeparturesKnown
<1> QED BY <1>1, <1>2, <1>3 DEF TimedRide

\* One more leg: a ride that leaves too early ends it.
LEMMA LegOnTheWay ==
  ASSUME ArrivalsKnown, DeparturesKnown, NEW leg, LegIs(leg), NEW t \in Int, NEW k, NEW start, start.aboard \in BOOLEAN,
         NEW so, OnTheWay(start, k - 1, so)
  PROVE  OnTheWay(start, k, LegStep(t, so, leg))
<1> DEFINE ride == TimedRide(leg, BaseOf(t), so.street)
           rides == Append(so.rides, ride)
           n == Len(so.rides)
           next == LegStep(t, so, leg)
<1>1. n \in Nat /\ IsSeq(so.rides) /\ so.street \in Nat
  BY IsSeqHas DEF OnTheWay
<1>2. so.rides = <<>> <=> n = 0
  BY <1>1, NoneIs
<1>3. CASE leg.ride
  <2>1. next = [so EXCEPT !.ok = so.ok /\ ~TooLate(so, ride), !.rides = rides, !.at = ride.arr,
                          !.timed = TRUE, !.street = 0]
    BY <1>3 DEF LegStep, AddLeg
  <2>2. ride.arr \in Int /\ ride.dep \in Int /\ ride.foot = so.street
    BY <1>3, RideCounts
  <2> HIDE DEF ride
  <2>3. IsSeq(rides) /\ Len(rides) = n + 1 /\ rides[n + 1] = ride /\ \A i \in 1..n : rides[i] = so.rides[i]
    BY <1>1, AppendIs, AppendedAre
  <2> HIDE DEF rides, next
  <2>4. /\ DOMAIN next = {"ok", "timed", "rides", "street", "at", "entry"}
        /\ next.rides = rides /\ next.at = ride.arr /\ next.timed = TRUE /\ next.street = 0
        /\ next.ok = (so.ok /\ ~TooLate(so, ride))
    BY <2>1 DEF OnTheWay
  <2>5. \A i \in 1..Len(rides) : {rides[i].arr, rides[i].dep, rides[i].foot} \in SUBSET Int
    <3>1. \A i \in 1..Len(rides) : i = n + 1 \/ i \in 1..n
      BY <1>1, <2>3
    <3>2. \A i \in 1..n : {so.rides[i].arr, so.rides[i].dep, so.rides[i].foot} \in SUBSET Int
      BY DEF OnTheWay
    <3> QED BY <1>1, <2>2, <2>3, <3>1, <3>2
  <2>6. rides # <<>> /\ (~start.aboard /\ next.ok => start.out \in Int)
    BY <1>1, <2>3, <2>4, NoneIs DEF OnTheWay
  <2>7. ASSUME next.ok PROVE LegsInTurn(start.aboard, start.out, rides)
    <3>1. so.ok /\ ~TooLate(so, ride) /\ LegsInTurn(start.aboard, start.out, so.rides)
      BY <2>4, <2>7 DEF OnTheWay
    <3>2. so.timed /\ so.at \in Int => so.at - so.street <= Leaves(ride)
      BY <1>1, <2>2, <3>1 DEF TooLate, Leaves
    <3>3. ASSUME NEW i \in 1..n, ~rides[i].boarded PROVE rides[i].arr <= Leaves(rides[i + 1])
      <4>1. CASE i = n
        <5>1. so.timed /\ so.at = so.rides[n].arr + so.street /\ so.rides[n].arr \in Int
          BY <1>1, <1>2, <3>3, <4>1 DEF OnTheWay
        <5> QED BY <1>1, <2>3, <3>2, <4>1, <5>1
      <4>2. CASE i # n
        <5>1. i \in 1..(n - 1) /\ i + 1 \in 1..n
          BY <1>1, <4>2
        <5> QED BY <2>3, <3>1, <3>3, <5>1 DEF LegsInTurn, OneByOne
      <4> QED BY <4>1, <4>2
    <3>4. ASSUME ~start.aboard PROVE start.out <= Leaves(rides[1])
      <4>1. CASE n = 0
        <5>1. so.timed /\ start.out \in Int /\ so.at = start.out + so.street
          BY <1>2, <3>1, <3>4, <4>1 DEF OnTheWay
        <5> QED BY <1>1, <2>3, <3>2, <4>1, <5>1
      <4>2. CASE n # 0
        <5>1. 1 \in 1..n /\ so.rides # <<>>
          BY <1>1, <1>2, <4>2
        <5> QED BY <2>3, <3>1, <3>4, <5>1 DEF LegsInTurn
      <4> QED BY <4>1, <4>2
    <3>5. Len(rides) - 1 = n
      BY <1>1, <2>3
    <3> QED BY <3>3, <3>4, <3>5 DEF LegsInTurn, OneByOne
  <2>8. next.rides # <<>> => next.timed /\ next.at = next.rides[Len(next.rides)].arr + next.street
    BY <2>2, <2>3, <2>4
  <2>9. OnTheWay(start, k, next)
    BY <2>3, <2>4, <2>5, <2>6, <2>7, <2>8 DEF OnTheWay
  <2> QED BY <2>9 DEF next
<1>4. CASE ~leg.ride
  <2>1. next = [so EXCEPT !.at = so.at + leg.sec, !.timed = TRUE, !.street = so.street + leg.sec]
    BY <1>4 DEF LegStep, AddLeg
  <2>2. leg.sec \in Nat
    BY <1>4 DEF LegIs
  <2> HIDE DEF next
  <2>3. /\ DOMAIN next = {"ok", "timed", "rides", "street", "at", "entry"}
        /\ next.rides = so.rides /\ next.at = so.at + leg.sec /\ next.timed = TRUE
        /\ next.street = so.street + leg.sec /\ next.ok = so.ok
    BY <2>1 DEF OnTheWay
  <2>4. so.rides # <<>> => n \in 1..n
    BY <1>1, <1>2
  <2>5. ASSUME so.rides # <<>> PROVE next.at = so.rides[n].arr + next.street
    <3>1. so.at = so.rides[n].arr + so.street /\ so.rides[n].arr \in Int
      BY <2>4, <2>5 DEF OnTheWay
    <3> QED BY <1>1, <2>2, <2>3, <3>1
  <2>6. ASSUME ~start.aboard, so.ok
        PROVE  start.out \in Int /\ (so.rides = <<>> => next.at = start.out + next.street)
    <3>1. start.out \in Int /\ (so.rides = <<>> => so.at = start.out + so.street)
      BY <2>6 DEF OnTheWay
    <3> QED BY <1>1, <2>2, <2>3, <3>1
  <2>7. OnTheWay(start, k, next)
    BY <1>1, <2>2, <2>3, <2>5, <2>6 DEF OnTheWay
  <2> QED BY <2>7 DEF next
<1> QED BY <1>3, <1>4

\* The legs of a journey: no ride is kept that leaves before the leg before it ends.
LEMMA LegsKeepTime ==
  ASSUME ArrivalsKnown, DeparturesKnown, NEW entry, NEW j, IsSeq(j.legs), \A i \in 1..Len(j.legs) : LegIs(j.legs[i]),
         NEW v, v.tag # "onboard" /\ entry.ok => entry.at \in Int, NEW t \in Int
  PROVE  LET start == [aboard |-> v.tag = "onboard", out |-> entry.at]
         IN  OnTheWay(start, Len(j.legs), AllLegs(entry, j, v, t))
<1> DEFINE base == [ok |-> entry.ok, timed |-> v.tag # "onboard", rides |-> <<>>, street |-> 0,
                    at |-> entry.at, entry |-> entry]
           start == [aboard |-> v.tag = "onboard", out |-> entry.at]
           n == Len(j.legs)
<1>1. n \in Nat /\ DOMAIN j.legs = 1..n
  BY IsSeqHas
<1>0. start.aboard \in BOOLEAN /\ (start.aboard <=> v.tag = "onboard") /\ start.out = entry.at
  BY Zenon
<1>2. OnTheWay(start, 0, base)
  <2>1. /\ DOMAIN base = {"ok", "timed", "rides", "street", "at", "entry"} /\ base.rides = <<>>
        /\ base.street = 0 /\ base.at = entry.at /\ base.ok = entry.ok
    OBVIOUS
  <2>2. base.timed <=> v.tag # "onboard"
    BY Zenon
  <2>3. Len(<<>>) = 0 /\ IsSeq(<<>>)
    BY NoneIs
  <2> HIDE DEF base, start
  <2>4. LegsInTurn(start.aboard, start.out, <<>>)
    BY <2>3 DEF OneByOne, LegsInTurn
  <2>5. ~start.aboard /\ entry.ok => start.out \in Int /\ base.at = start.out + base.street
    BY <1>0, <2>1
  <2> QED BY <1>0, <2>1, <2>2, <2>3, <2>4, <2>5 DEF OnTheWay
<1>3. ASSUME NEW k \in 1..n, NEW so, OnTheWay(start, k - 1, so)
      PROVE  OnTheWay(start, k, LegStep(t, so, j.legs[k]))
  <2> HIDE DEF start
  <2> QED BY <1>0, <1>3, LegOnTheWay
<1>4. OnTheWay(start, n, LegAfterLeg!Folded(t, base, j.legs))
  <2> HIDE DEF n, base, start
  <2> QED BY <1>1, <1>2, <1>3, LegAfterLeg!FoldKeeps, NatsFrom
<1>5. AllLegs(entry, j, v, t) = LegAfterLeg!Folded(t, base, j.legs)
  BY DEF AllLegs, LegStep, LegAfterLeg!Folded,
         FoldLeft, MapThenFoldSet, Max, LegAfterLeg!Largest
<1> QED BY <1>4, <1>5

\* Lists that keep time: none, one, one more, two joined, what is chosen, what is sound.
LEMMA TimeNone == KeepTime(<<>>) /\ KeepTimeIfOk(<<>>)
BY NoneIs DEF KeepTime, KeepTimeIfOk

LEMMA TimeOne ==
  ASSUME NEW it, KeepsTime(it)
  PROVE  KeepTime(<<it>>)
BY OneIs DEF KeepTime

LEMMA TimeAppend ==
  ASSUME NEW its, NEW it
  PROVE  /\ KeepTime(its) /\ KeepsTime(it) => KeepTime(Append(its, it))
         /\ KeepTimeIfOk(its) /\ (it.ok => KeepsTime(it)) => KeepTimeIfOk(Append(its, it))
BY AppendIs DEF KeepTime, KeepTimeIfOk

LEMMA TimeJoin ==
  ASSUME NEW a, NEW b, KeepTime(a), KeepTime(b)
  PROVE  KeepTime(a \o b)
BY ConcatIs DEF KeepTime

LEMMA TimeAmong ==
  ASSUME NEW its, KeepTime(its), NEW S
  PROVE  KeepTime(Among(its, S))
BY AmongIs DEF KeepTime

LEMMA TimeSound ==
  ASSUME NEW its, KeepTimeIfOk(its)
  PROVE  KeepTime(SoundOf(its))
BY AmongIs DEF KeepTime, KeepTimeIfOk, SoundOf

\* An itinerary without a ride keeps time.
LEMMA OnFoot ==
  ASSUME NEW it, {"rides", "aboard", "out", "arr"} \subseteq DOMAIN it, it.rides = <<>>
  PROVE  KeepsTime(it)
<1>1. Len(<<>>) - 1 = -1
  BY NoneIs
<1>2. LegsInTurn(it.aboard, it.out, <<>>)
  BY <1>1 DEF OneByOne, LegsInTurn
<1> QED BY <1>2, NoneIs DEF KeepsTime

\* Ranking and annotating an answer change no times.
LEMMA ReplyKeepsTime ==
  ASSUME NEW its, KeepTime(its), Reply(its)
  PROVE  answer'.kind = "found" => KeepTime(answer'.its)
<1> DEFINE ranked == DedupeRank(its, req.num)
           n == Len(ranked)
           all == Annotated(ranked, depart)
           kept == IF hunt.stage = "final" THEN Among(all, {it \in ToSet(all) : it.arr <= req.when}) ELSE all
<1>1. KeepTime(ranked)
  BY DedupeRankIs DEF KeepTime
<1>2. n \in Nat /\ \A i \in 1..n : KeepsTime(ranked[i])
  <2> HIDE DEF ranked
  <2> QED BY <1>1, IsSeqHas DEF KeepTime
<1>3. all = [i \in 1..n |-> [ranked[i] EXCEPT !.live = Live(ranked[i], depart)]]
  BY DEF Annotated
<1>4. all = [i \in 1..n |-> all[i]] /\ \A i \in 1..n : all[i] = [ranked[i] EXCEPT !.live = Live(ranked[i], depart)]
  BY <1>3
<1>5. \A i \in 1..n : KeepsTime(all[i])
  <2> SUFFICES ASSUME NEW i \in 1..n PROVE KeepsTime(all[i])
    OBVIOUS
  <2> DEFINE a == all[i]
             b == ranked[i]
  <2>1. KeepsTime(b) /\ a = [b EXCEPT !.live = Live(b, depart)]
    BY <1>2, <1>4
  <2> HIDE DEF a, b
  <2>2. DOMAIN a = DOMAIN b /\ \A f \in DOMAIN b \ {"live"} : a[f] = b[f]
    BY <2>1
  <2>3. a.rides = b.rides /\ a.aboard = b.aboard /\ a.out = b.out
    BY <2>1, <2>2 DEF KeepsTime
  <2> QED BY <2>1, <2>2, <2>3 DEF KeepsTime, a
<1>6. IsSeq(all) /\ ToSet(all) = {all[i] : i \in 1..n}
  <2> HIDE DEF all, n
  <2> QED BY <1>2, <1>4, ListIs
<1> HIDE DEF all
<1>7. KeepTime(all)
  BY <1>5, <1>6 DEF KeepTime
<1>8. KeepTime(kept)
  BY <1>7, TimeAmong
<1>9. answer' = IF kept = <<>> /\ req.kind # "onboard" THEN None ELSE Itineraries(kept)
  BY DEF Reply, all
<1> HIDE DEF kept
<1> QED BY <1>8, <1>9 DEF None, Itineraries

\* A ride in front of others, by a rider who is aboard.
LEMMA FrontKeepsTime ==
  ASSUME NEW ride, ride.boarded, NEW rest, IsSeq(rest), OneByOne(rest)
  PROVE  IsSeq(<<ride>> \o rest) /\ OneByOne(<<ride>> \o rest)
<1> DEFINE rides == <<ride>> \o rest
           n == Len(rest)
<1>1. rest \in Seq(ToSet(rest) \cup {ride}) /\ n \in Nat
  <2>1. rest \in Seq(ToSet(rest))
    BY DEF IsSeq
  <2> QED BY <2>1
<1>2. IsSeq(rides)
  BY OneIs, ConcatIs
<1>3. Len(rides) = n + 1 /\ rides[1] = ride /\ \A i \in 1..n : rides[i + 1] = rest[i]
  BY <1>1
<1> HIDE DEF rides
<1>4. OneByOne(rides)
  <2> SUFFICES ASSUME NEW i \in 1..n, ~rides[i].boarded PROVE rides[i].arr <= Leaves(rides[i + 1])
    BY <1>1, <1>3 DEF OneByOne
  <2>1. i # 1
    BY <1>3
  <2>2. i - 1 \in 1..(n - 1) /\ (i - 1) + 1 = i /\ i - 1 \in 1..n
    BY <1>1, <2>1
  <2>3. rides[i] = rest[i - 1] /\ rides[i + 1] = rest[i]
    BY <1>3, <2>2
  <2>4. ~rest[i - 1].boarded => rest[i - 1].arr <= Leaves(rest[(i - 1) + 1])
    BY <2>2 DEF OneByOne
  <2> QED BY <2>2, <2>3, <2>4
<1> QED BY <1>2, <1>4 DEF rides

\* The rides but the first.
LEMMA TailKeepsTime ==
  ASSUME NEW rides, IsSeq(rides), OneByOne(rides), rides # <<>>
  PROVE  IsSeq(Tail(rides)) /\ OneByOne(Tail(rides))
<1> DEFINE rest == Tail(rides)
           n == Len(rides)
<1>1. rides \in Seq(ToSet(rides)) /\ n \in Nat /\ n >= 1
  <2>1. rides \in Seq(ToSet(rides))
    BY DEF IsSeq
  <2> QED BY <2>1
<1>2. rest \in Seq(ToSet(rides)) /\ Len(rest) = n - 1 /\ \A i \in 1..(n - 1) : rest[i] = rides[i + 1]
  BY <1>1
<1> HIDE DEF rest
<1>3. IsSeq(rest)
  BY <1>2, SeqIs
<1>4. OneByOne(rest)
  <2> SUFFICES ASSUME NEW i \in 1..(n - 2), ~rest[i].boarded PROVE rest[i].arr <= Leaves(rest[i + 1])
    BY <1>1, <1>2 DEF OneByOne
  <2>1. i \in 1..(n - 1) /\ i + 1 \in 1..(n - 1)
    BY <1>1
  <2>2. rest[i] = rides[i + 1] /\ rest[i + 1] = rides[(i + 1) + 1]
    BY <1>2, <2>1
  <2> QED BY <2>1, <2>2 DEF OneByOne
<1> QED BY <1>3, <1>4 DEF rest

\* The ride that goes on, in front of an itinerary that keeps time.
LEMMA RetainedKeepsTime ==
  ASSUME NEW it, KeepsTime(it), NEW r
  PROVE  KeepsTime(Retained(it, r))
<1>1. ASSUME NEW v PROVE KeepsTime([it EXCEPT !.ok = v])
  <2> DEFINE a == [it EXCEPT !.ok = v]
  <2>1. DOMAIN a = DOMAIN it /\ a.rides = it.rides /\ a.aboard = it.aboard /\ a.out = it.out
    BY DEF KeepsTime
  <2> HIDE DEF a
  <2>2. KeepsTime(a)
    BY <2>1 DEF KeepsTime
  <2> QED BY <2>2 DEF a
<1>2. ASSUME NEW ride, ride.boarded, NEW rest \in {it.rides, Tail(it.rides)}, rest = it.rides \/ it.rides # <<>>
      PROVE  KeepsTime(Prepended(it, ride, rest))
  <2> DEFINE rides == <<ride>> \o rest
             a == Prepended(it, ride, rest)
  <2>1. IsSeq(rest) /\ OneByOne(rest)
    BY <1>2, TailKeepsTime DEF KeepsTime, LegsInTurn
  <2>2. IsSeq(rides) /\ OneByOne(rides)
    BY <1>2, <2>1, FrontKeepsTime
  <2> HIDE DEF rides
  <2>3. DOMAIN a = DOMAIN it /\ a.rides = rides /\ a.aboard = TRUE
    BY DEF Prepended, KeepsTime, rides
  <2> HIDE DEF a
  <2>4. KeepsTime(a)
    BY <2>2, <2>3 DEF KeepsTime, LegsInTurn
  <2> QED BY <2>4 DEF a
<1>3. ASSUME NEW t, NEW board, NEW seat, NEW merges, merges => it.rides # <<>>
      PROVE  KeepsTime(Continued(it, r, t, board, seat, merges))
  <2> DEFINE exits == IF ~merges THEN {seat}
                      ELSE {p \in seat..TripLen(tt, t) : PatternStops(tt, t)[p] = PatternStops(tt, t)[it.rides[1].alight]}
             ride == RiddenOn(t, board, MinOf(exits), r.seeds[it.from] - TripArr(tt, ov, t, seat))
             rest == IF merges THEN Tail(it.rides) ELSE it.rides
  <2>1. Continued(it, r, t, board, seat, merges) =
          IF exits = {} THEN [it EXCEPT !.ok = FALSE] ELSE Prepended(it, ride, rest)
    BY DEF Continued
  <2>2. ride.boarded
    BY DEF RiddenOn
  <2>3. rest \in {it.rides, Tail(it.rides)} /\ (rest = it.rides \/ it.rides # <<>>)
    BY <1>3
  <2> HIDE DEF exits, ride, rest
  <2> QED BY <1>1, <1>2, <2>1, <2>2, <2>3
<1> QED BY <1>1, <1>3 DEF Retained

\* All of them, in front of which it is put.
LEMMA RetainAllKeepsTime ==
  ASSUME NEW its, KeepTime(its), NEW search, RetainAll(search, its)
  PROVE  answer'.kind = "found" => KeepTime(answer'.its)
<1> DEFINE all == [i \in 1..Len(its) |-> Retained(its[i], req)]
           n == Len(its)
<1>1. n \in Nat /\ \A i \in 1..n : KeepsTime(its[i])
  BY IsSeqHas DEF KeepTime
<1>2. all = [i \in 1..n |-> all[i]] /\ \A i \in 1..n : all[i] = Retained(its[i], req)
  OBVIOUS
<1>3. Reply(SoundOf(all))
  BY DEF RetainAll
<1> HIDE DEF all, n
<1>4. IsSeq(all) /\ ToSet(all) = {all[i] : i \in 1..n}
  BY <1>1, <1>2, ListIs
<1>5. KeepTimeIfOk(all)
  BY <1>1, <1>2, <1>4, RetainedKeepsTime DEF KeepTimeIfOk
<1> QED BY <1>3, <1>5, TimeSound, ReplyKeepsTime

\* A road all the way has no ride on it.
LEMMA DirectKeepsTime == KeepTime(DirectRide.its)
<1> DEFINE plan == EstimateShared(req.from, req.to, req.class, depart)
           ride == IF req.class = "" THEN OwnRide ELSE RideOn(plan)
<1>1. KeepTime(OwnRide.its)
  <2> DEFINE it == RoadItinerary(depart, RoadFrom(road, req.from, req.to, "bike").best)
  <2>1. {"rides", "aboard", "out", "arr"} \subseteq DOMAIN it /\ it.rides = <<>>
    BY DEF RoadItinerary
  <2> HIDE DEF it
  <2>2. OwnRide.its \in {<<>>, <<it>>}
    BY DEF OwnRide, it
  <2> QED BY <2>1, <2>2, OnFoot, TimeNone, TimeOne
<1>2. KeepTime(RideOn(plan).its)
  <2> DEFINE chain == SharedLegs(road, plan, req.from, req.to, depart)
             it == [RoadItinerary(depart, 10 * (chain.at - depart)) EXCEPT
                       !.rentals = chain.rental, !.sig = SignatureOf(chain.rental)]
  <2>1. {"rides", "aboard", "out", "arr"} \subseteq DOMAIN it /\ it.rides = <<>>
    <3> HIDE DEF chain
    <3> QED BY DEF RoadItinerary
  <2> HIDE DEF it
  <2>2. RideOn(plan).its \in {<<>>, <<it>>}
    BY DEF RideOn, AsDirect, it
  <2> QED BY <2>1, <2>2, OnFoot, TimeNone, TimeOne
<1>3. DirectRide = WorthRiding(ride) /\ KeepTime(ride.its)
  BY Zenon, <1>1, <1>2 DEF DirectRide
<1> HIDE DEF ride
<1> QED BY <1>3, TimeAmong DEF WorthRiding

-----------------------------------------------------------------------------
(* Roads and rentals, in whole seconds                                     *)

\* The straight line to a point, weighted, costs a number.
LEMMA HeuristicIs ==
  ASSUME Published, NEW point, Place(point), NEW mode \in Modes \cup {"car"}
  PROVE  \A n \in 1..net.street.nodes : HeuristicTo(point, mode)[n] \in Nat
<1> SUFFICES ASSUME NEW n \in 1..net.street.nodes PROVE HeuristicTo(point, mode)[n] \in Nat
  OBVIOUS
<1> DEFINE d == Beeline(n, point)
           w == Weight(mode)
           v == Cfg.speed[mode]
<1>1. HeuristicTo(point, mode)[n] =
        IF mode = "car" THEN (w * 36 * d) \div (100 * 130) ELSE (w * v * d) \div (100 * Frac)
  BY DEF HeuristicTo
<1>2. d \in Nat
  <2>1. net.x[n] \in Int
    BY StreetsAssumption DEF Published
  <2>2. point.x \in Int
    BY FarIs DEF Place
  <2> QED BY <2>1, <2>2 DEF Beeline
<1>3. w \in Nat /\ (mode # "car" => v \in Nat)
  BY RentalConfigAssumption DEF Weight, Modes
<1>4. 100 * 130 \in Nat \ {0} /\ 100 * Frac \in Nat \ {0}
  BY WidthsAssumption
<1> HIDE DEF d, w, v
<1>5. \A a, b, c \in Nat : a * b * c \in Nat
  OBVIOUS
<1>6. w * 36 * d \in Nat /\ (mode # "car" => w * v * d \in Nat)
  BY <1>2, <1>3, <1>5
<1>7. (w * 36 * d) \div (100 * 130) \in Nat /\ (mode # "car" => (w * v * d) \div (100 * Frac) \in Nat)
  BY <1>4, <1>6, QuotientIs
<1> QED BY <1>1, <1>7

\* A route so far: a search, and a cost.
RouteIs(run) == DOMAIN run = {"s", "best"} /\ IsSearch(run.s) /\ run.best \in Nat

\* One turn of the search for a road.
LEMMA SettleRoadIs ==
  ASSUME Published, NEW run, RouteIs(run), run.s.heap # {}, NEW targets, Costed(ToSet(targets)),
         NEW mode, NEW sf, Rated(mode, sf), NEW h, \A n \in 1..net.street.nodes : h[n] \in Nat
  PROVE  RouteIs(SettleRoad(run, net.street, targets, mode, sf, h))
<1> DEFINE top == Top(run.s.heap)
           n == top[2]
           s == [run.s EXCEPT !.heap = run.s.heap \ {top}]
           ds == s.dist[n]
           ends == {ds + t.ds : t \in {x \in ToSet(targets) : x.node = n}}
           entered == Entered(s, EndsOf(net.street, n, ds, mode, sf), h)
           on == [s |-> entered, best |-> Least({run.best} \cup ends)]
           after == SettleRoad(run, net.street, targets, mode, sf, h)
           popped == [run EXCEPT !.s = s]
           emptied == [run EXCEPT !.s.heap = {}]
<1>1. after \in {popped, emptied, on}
  BY DEF SettleRoad
<1>2. top \in run.s.heap
  <2>1. net.street.nodes \in Nat
    BY StreetsAssumption DEF Published
  <2>2. \A x \in run.s.heap : x[1] \in Nat /\ x[2] \in Nat
    BY <2>1 DEF RouteIs, IsSearch
  <2> QED BY <2>2, TopIs
<1>3. n \in 1..net.street.nodes
  BY <1>2 DEF RouteIs, IsSearch
<1> HIDE DEF top
<1>4. IsSearch(s)
  BY DEF RouteIs, IsSearch
<1>5. RouteIs(popped)
  <2> HIDE DEF s
  <2>1. DOMAIN popped = {"s", "best"} /\ popped.s = s /\ popped.best = run.best
    BY DEF RouteIs
  <2> QED BY <1>4, <2>1 DEF RouteIs
<1>6. RouteIs(emptied)
  <2> DEFINE e == [run.s EXCEPT !.heap = {}]
  <2>1. DOMAIN emptied = {"s", "best"} /\ emptied.s = e /\ emptied.best = run.best
    BY DEF RouteIs
  <2>2. IsSearch(e)
    BY DEF RouteIs, IsSearch
  <2> HIDE DEF e, emptied
  <2> QED BY <2>1, <2>2 DEF RouteIs
<1>7. RouteIs(on)
  <2>1. ds \in Nat
    BY <1>3, <1>4 DEF IsSearch
  <2> HIDE DEF s
  <2>2. \A x \in ends : x \in Nat
    BY <2>1 DEF Costed
  <2> HIDE DEF ds
  <2>3. Costed(EndsOf(net.street, n, ds, mode, sf))
    BY <2>1, EndsCosted
  <2>4. IsSearch(entered)
    BY <1>4, <2>3, EnteredIs
  <2> HIDE DEF ends, entered
  <2>5. Least({run.best} \cup ends) \in Nat
    <3>1. {run.best} \cup ends \in SUBSET Nat /\ {run.best} \cup ends # {}
      BY <2>2 DEF RouteIs
    <3> DEFINE S == {run.best} \cup ends
    <3> HIDE DEF S
    <3>2. S \in SUBSET Nat /\ S # {}
      BY <3>1 DEF S
    <3>3. Least(S) \in Nat
      BY <3>2, LeastIs
    <3> QED BY <3>3 DEF S
  <2> QED BY <2>4, <2>5 DEF RouteIs
<1> HIDE DEF after, popped, emptied, on
<1>8. RouteIs(after)
  BY <1>1, <1>5, <1>6, <1>7
<1> QED BY <1>8 DEF after

RouteStep(p, run, k) == IF run.s.heap = {} THEN run ELSE SettleRoad(run, p.g, p.targets, p.mode, p.sf, p.h)
RouteGood(h, k, run) == RouteIs(run)
Routing == INSTANCE FoldLaws WITH Step <- RouteStep, Good <- RouteGood

\* All of them, from sources to targets.
LEMMA RouteFound ==
  ASSUME Published, NEW s, IsSearch(s), NEW p, p.g = net.street, Costed(ToSet(p.sources)), Costed(ToSet(p.targets)),
         Rated(p.mode, p.sf), \A n \in 1..net.street.nodes : p.h[n] \in Nat
  PROVE  RouteIs(RoadRoute(s, p.g, p.sources, p.targets, p.mode, p.sf, p.h))
<1> DEFINE start == Entered(NextEpoch(s), ToSet(p.sources), p.h)
           base == [s |-> start, best |-> Far]
           n == 2 * Turns(p.g)
<1>1. RouteIs(base)
  <2>1. IsSearch(NextEpoch(s))
    BY DEF NextEpoch, IsSearch
  <2>2. IsSearch(start)
    BY <2>1, EnteredIs
  <2> HIDE DEF start
  <2> QED BY <2>2, FarIs DEF RouteIs
<1>2. n \in Nat
  BY StreetsAssumption DEF Turns, Published
<1>3. RoadRoute(s, p.g, p.sources, p.targets, p.mode, p.sf, p.h) =
        IF start.heap = {} THEN base ELSE Routing!Path(p, base, n)[n]
  BY DEF RoadRoute, RouteStep, Routing!Path
<1> HIDE DEF start, base, n
<1>4. RouteGood(0, 0, base)
  BY <1>1 DEF RouteGood
<1>5. ASSUME NEW k \in 1..n, NEW run, RouteGood(0, k - 1, run)
      PROVE  RouteGood(0, k, RouteStep(p, run, k))
  BY <1>5, SettleRoadIs DEF RouteGood, RouteStep
<1>6. \A k \in 0..n : RouteGood(0, k, Routing!Path(p, base, n)[k])
  BY <1>2, <1>4, <1>5, Routing!PathKeeps, NatsFrom
<1>7. RouteIs(Routing!Path(p, base, n)[n])
  BY <1>2, <1>6 DEF RouteGood
<1> QED BY <1>1, <1>3, <1>7

\* A road between two points; by car, between streets of the network.
LEMMA RoadIs ==
  ASSUME Published, NEW s, IsSearch(s), NEW from, Place(from), NEW to, Place(to), NEW mode \in Modes \cup {"car"},
         mode = "car" => Snapped(net, from) /\ Snapped(net, to)
  PROVE  RouteIs(RoadFrom(s, from, to, mode))
<1> DEFINE on == StreetMode(mode)
           sf == Cfg.speed[mode]
           there == from.snaps[on]
           back == to.snaps[on]
           p == [g |-> net.street, sources |-> SrcSeeds(net.street, there, on, sf),
                 targets |-> DstSeeds(net.street, back, on, sf), mode |-> on, sf |-> sf, h |-> HeuristicTo(to, mode)]
<1>1. on \in StreetModes /\ (on = "car" => mode = "car") /\ Rated(on, sf)
  BY RentalConfigAssumption DEF Modes, StreetMode, Rated, StreetModes
<1>2. RoadFrom(s, from, to, mode) =
        IF there = NoSnap \/ back = NoSnap THEN [s |-> s, best |-> Far]
        ELSE RoadRoute(s, net.street, SrcSeeds(net.street, there, on, sf), DstSeeds(net.street, back, on, sf),
                       on, sf, HeuristicTo(to, mode))
  BY DEF RoadFrom
<1>3. CASE there = NoSnap \/ back = NoSnap
  BY <1>2, <1>3, FarIs DEF RouteIs
<1>4. CASE there # NoSnap /\ back # NoSnap
  <2>1. ASSUME NEW point \in {from, to} PROVE Aside(point.snaps[on], on)
    <3> HIDE DEF on
    <3>1. Place(point) /\ (on = "car" => Snapped(net, point)) /\ point.snaps[on] # NoSnap
      BY <1>1, <1>4
    <3> QED BY <1>1, <3>1 DEF Place, Snapped, Aside
  <2>2. Aside(there, on) /\ Aside(TurnedSnap(back), on)
    <3>1. Aside(there, on) /\ Aside(back, on)
      BY <2>1
    <3> HIDE DEF there, back, on
    <3>2. Aside(TurnedSnap(back), on)
      BY <3>1 DEF Aside, TurnedSnap
    <3> QED BY <3>1, <3>2
  <2> HIDE DEF there, back, on, sf
  <2>3. Costed(ToSet(p.sources)) /\ Costed(ToSet(p.targets))
    BY <1>1, <2>2, SeedsAre DEF DstSeeds
  <2>4. \A n \in 1..net.street.nodes : p.h[n] \in Nat
    BY HeuristicIs
  <2>5. /\ p.g = net.street /\ p.mode = on /\ p.sf = sf /\ p.h = HeuristicTo(to, mode)
        /\ p.sources = SrcSeeds(net.street, there, on, sf) /\ p.targets = DstSeeds(net.street, back, on, sf)
    OBVIOUS
  <2> HIDE DEF p
  <2>6. RouteIs(RoadRoute(s, p.g, p.sources, p.targets, p.mode, p.sf, p.h))
    BY <1>1, <2>3, <2>4, <2>5, RouteFound
  <2> QED BY <1>2, <1>4, <2>5, <2>6
<1> QED BY <1>3, <1>4

\* The caps of a list of rules, and of the zones of a system: folds of numbers.
IsCap(h, k, cap) == cap \in Nat
CapStep(type, cap, rule) == IF cap = 0 /\ Concerns(rule, type) THEN rule.cap ELSE cap
FenceStep(p, cap, z) == IF cap = 0 /\ Covers(z, p.x, p.at) THEN CapAmong(z.rules, p.type) ELSE cap
CapsInTurn == INSTANCE FoldLaws WITH Step <- CapStep, Good <- IsCap
FencesInTurn == INSTANCE FoldLaws WITH Step <- FenceStep, Good <- IsCap

LEMMA CapAmongIs ==
  ASSUME NEW rules, IsSeq(rules), \A rule \in ToSet(rules) : rule.cap \in Nat, NEW type
  PROVE  CapAmong(rules, type) \in Nat
<1> DEFINE n == Len(rules)
<1>1. n \in Nat /\ DOMAIN rules = 1..n /\ \A i \in 1..n : rules[i].cap \in Nat
  BY IsSeqHas
<1> HIDE DEF n
<1>2. IsCap(0, 0, 0)
  BY DEF IsCap
<1>3. \A k \in 1..n : \A cap : IsCap(0, k - 1, cap) => IsCap(0, k, CapStep(type, cap, rules[k]))
  BY <1>1 DEF IsCap, CapStep
<1>4. IsCap(0, n, CapsInTurn!Folded(type, 0, rules))
  BY <1>1, <1>2, <1>3, CapsInTurn!FoldKeeps, NatsFrom
<1>5. CapAmong(rules, type) = CapsInTurn!Folded(type, 0, rules)
  BY DEF CapAmong, CapStep, CapsInTurn!Folded, FoldLeft, MapThenFoldSet, Max, CapsInTurn!Largest
<1> QED BY <1>4, <1>5 DEF IsCap

\* The speed that geofences allow is a number, 0 for none.
LEMMA MaximumSpeedIs ==
  ASSUME NEW f, WellFormed(f), NEW type, NEW x, NEW at
  PROVE  MaximumSpeed(f, type, x, at) \in Nat
<1> DEFINE p == [type |-> type, x |-> x, at |-> at]
           n == Len(f.zones)
           fenced == FencesInTurn!Folded(p, 0, f.zones)
<1>0. p.type = type /\ p.x = x /\ p.at = at
  OBVIOUS
<1> HIDE DEF p
<1>1. /\ IsSeq(f.zones) /\ \A z \in ToSet(f.zones) : IsSeq(z.rules) /\ \A rule \in ToSet(z.rules) : rule.cap \in Nat
      /\ IsSeq(f.rules) /\ \A rule \in ToSet(f.rules) : rule.cap \in Nat
  BY Zenon DEF WellFormed, Ruled, IsSeq
<1>2. n \in Nat /\ DOMAIN f.zones = 1..n /\ \A i \in 1..n : f.zones[i] \in ToSet(f.zones)
  BY <1>1, IsSeqHas
<1>3. \A i \in 1..n : CapAmong(f.zones[i].rules, type) \in Nat
  BY <1>1, <1>2, CapAmongIs
<1> HIDE DEF n
<1>4. IsCap(0, 0, 0)
  BY DEF IsCap
<1>5. \A k \in 1..n : \A cap : IsCap(0, k - 1, cap) => IsCap(0, k, FenceStep(p, cap, f.zones[k]))
  BY <1>0, <1>3 DEF IsCap, FenceStep
<1>6. fenced \in Nat
  BY <1>2, <1>4, <1>5, FencesInTurn!FoldKeeps, NatsFrom DEF IsCap
<1>7. MaximumSpeed(f, type, x, at) = IF fenced = 0 THEN CapAmong(f.rules, type) ELSE fenced
  BY <1>0 DEF MaximumSpeed, FenceStep, FencesInTurn!Folded, FoldLeft, MapThenFoldSet, Max, FencesInTurn!Largest
<1>8. CapAmong(f.rules, type) \in Nat
  BY <1>1, CapAmongIs
<1> HIDE DEF fenced
<1> QED BY <1>6, <1>7, <1>8

\* A route on these streets is a list of places.
LEMMA PolylineIs ==
  ASSUME Published, NEW a \in Int, NEW b \in Int
  PROVE  Polyline(a, b) \in Seq(Int) /\ Len(Polyline(a, b)) \in Nat \ {0}
<1> DEFINE between == Among(net.x, {n \in ToSet(net.x) : (a < n /\ n < b) \/ (b < n /\ n < a)})
           way == IF a < b THEN between ELSE Reverse(between)
<1>1. net.x \in Seq(Int)
  BY StreetsAssumption DEF Published
<1>2. IsSeq(net.x) /\ ToSet(net.x) \in SUBSET Int
  BY <1>1, SeqIs
<1>3. IsSeq(between) /\ ToSet(between) \in SUBSET ToSet(net.x)
  BY <1>2, AmongIs
<1>4. Polyline(a, b) = <<a>> \o way \o <<b>>
  BY DEF Polyline
<1> HIDE DEF between
<1>5. between \in Seq(Int)
  BY <1>2, <1>3, InSeq
<1>6. Reverse(between) \in Seq(Int)
  BY <1>5 DEF Reverse
<1>7. way \in Seq(Int)
  BY <1>5, <1>6
<1> HIDE DEF way
<1>8. <<a>> \in Seq(Int) /\ <<b>> \in Seq(Int) /\ Len(<<a>>) = 1 /\ Len(<<b>>) = 1
  OBVIOUS
<1>9. <<a>> \o way \in Seq(Int) /\ Len(<<a>> \o way) = 1 + Len(way) /\ Len(way) \in Nat
  BY <1>7, <1>8
<1> DEFINE front == <<a>> \o way
<1> HIDE DEF front
<1>10. front \o <<b>> \in Seq(Int) /\ Len(front \o <<b>>) = Len(front) + 1 /\ Len(front) \in Nat
  BY <1>8, <1>9 DEF front
<1> QED BY <1>4, <1>9, <1>10 DEF front

UnitStep(p, sum, i) ==
  LET sf == Cfg.speed[RideMode(p.a.class)]
      Slowest(cap) == IF cap > sf THEN cap ELSE sf
      Units(k) == (IF p.xs[k] < p.xs[k + 1] THEN p.xs[k + 1] - p.xs[k] ELSE p.xs[k] - p.xs[k + 1])
                  * Slowest(MaximumSpeed(System, p.a.type, (p.xs[k] + p.xs[k + 1]) \div 2, p.at))
  IN  sum + Units(i)
UnitGood(h, k, sum) == sum \in Nat
Metering == INSTANCE FoldLaws WITH Step <- UnitStep, Good <- UnitGood

\* How long a ride takes, with its geofences.
LEMMA RideUnitsIs ==
  ASSUME WellFormed(System), NEW p, p.xs \in Seq(Int), Len(p.xs) # 0
  PROVE  RideUnits(p.a, p.xs, p.at) \in Nat
<1> DEFINE n == Len(p.xs) - 1
           seq == [i \in 1..n |-> i]
           sf == Cfg.speed[RideMode(p.a.class)]
<1>1. n \in Nat /\ DOMAIN seq = 1..n
  OBVIOUS
<1>2. UnitGood(0, 0, 0)
  BY DEF UnitGood
<1>3. ASSUME NEW k \in 1..n, NEW sum, UnitGood(0, k - 1, sum) PROVE UnitGood(0, k, UnitStep(p, sum, seq[k]))
  <2> DEFINE x == p.xs[k]
             y == p.xs[k + 1]
             d == IF x < y THEN y - x ELSE x - y
             cap == MaximumSpeed(System, p.a.type, (x + y) \div 2, p.at)
             slow == IF cap > sf THEN cap ELSE sf
  <2>1. UnitStep(p, sum, seq[k]) = sum + d * slow
    BY DEF UnitStep
  <2>2. x \in Int /\ y \in Int
    BY <1>1
  <2>3. cap \in Nat
    BY MaximumSpeedIs
  <2>4. sf \in Nat
    BY RentalConfigAssumption DEF RideMode
  <2> HIDE DEF x, y, cap, sf
  <2>5. d \in Nat /\ slow \in Nat
    BY <2>2, <2>3, <2>4
  <2> HIDE DEF d, slow
  <2>6. \A a, b, c \in Nat : a + b * c \in Nat
    OBVIOUS
  <2>7. sum \in Nat
    BY <1>3 DEF UnitGood
  <2>8. sum + d * slow \in Nat
    BY <2>5, <2>6, <2>7
  <2> QED BY <2>1, <2>8 DEF UnitGood
<1>4. UnitGood(0, n, Metering!Folded(p, 0, seq))
  <2> HIDE DEF n, seq
  <2> QED BY <1>1, <1>2, <1>3, Metering!FoldKeeps, NatsFrom
<1>5. RideUnits(p.a, p.xs, p.at) = Metering!Folded(p, 0, seq)
  BY DEF RideUnits, UnitStep, Metering!Folded,
         FoldLeft, MapThenFoldSet, Max, Metering!Largest
<1> QED BY <1>4, <1>5 DEF UnitGood

\* A chain of legs that starts at an instant ends at one, if it holds.
ChainTimed(c, start) == IsChain(c) /\ IsSearch(c.s) /\ (c.ok /\ start \in Int => c.at \in Int)

\* A walk takes whole seconds.
LEMMA StrollTimed ==
  ASSUME Published, NEW c, NEW start, ChainTimed(c, start), NEW from, Place(from), NEW to, Place(to), NEW limit
  PROVE  ChainTimed(ThenWalk(c, from, to, limit), start)
<1> DEFINE route == RoadFrom(c.s, from, to, "foot")
           w == ThenWalk(c, from, to, limit)
<1>1. CASE ~c.ok \/ Metres(from, to) < 2
  BY <1>1 DEF ThenWalk
<1>2. CASE ~(~c.ok \/ Metres(from, to) < 2)
  <2>1. w = [c EXCEPT !.s = route.s, !.ok = route.best < Far /\ route.best \div 10 <= limit,
                      !.at = c.at + route.best \div 10]
    BY <1>2 DEF ThenWalk, Strolled
  <2>2. RouteIs(route)
    BY RoadIs DEF ChainTimed, Modes
  <2> HIDE DEF route, w
  <2>3. DOMAIN w = {"s", "ok", "at", "rental"} /\ w.s = route.s /\ w.at = c.at + route.best \div 10
    BY <2>1 DEF ChainTimed, IsChain
  <2>4. route.best \div 10 \in Nat
    BY <2>2, QuotientIs DEF RouteIs
  <2>5. start \in Int => w.at \in Int
    BY <1>2, <2>3, <2>4 DEF ChainTimed
  <2>6. ChainTimed(w, start)
    BY <2>2, <2>3, <2>5 DEF ChainTimed, IsChain, RouteIs
  <2> QED BY <2>6 DEF w
<1> QED BY <1>1, <1>2

\* So does a ride that still holds.
LEMMA RideTakes ==
  ASSUME Published, NEW c, NEW start, ChainTimed(c, start), NEW a, Place(a.from), Place(a.to), NEW goal
  PROVE  ChainTimed(ThenRide(c, a, goal, start), start)
<1> DEFINE route == RoadFrom(c.s, a.from, a.to, RideMode(a.class))
           range == (route.best * Frac) \div Cfg.speed[RideMode(a.class)]
           xs == Polyline(a.from.x, a.to.x)
           r == ThenRide(c, a, goal, start)
           lasts == Ceil(RideUnits(a, xs, start), 10 * Frac)
<1>1. CASE ~c.ok \/ Metres(a.from, a.to) < 2
  <2>1. r = [c EXCEPT !.ok = FALSE]
    BY <1>1 DEF ThenRide
  <2> HIDE DEF r
  <2>2. DOMAIN r = {"s", "ok", "at", "rental"} /\ r.s = c.s /\ r.ok = FALSE
    BY <2>1 DEF ChainTimed, IsChain
  <2>3. ChainTimed(r, start)
    BY <2>2 DEF ChainTimed, IsChain
  <2> QED BY <2>3 DEF r
<1>2. CASE ~(~c.ok \/ Metres(a.from, a.to) < 2)
  <2>1. r = Rolled(c, a, goal, start, route, range, xs)
    BY <1>2 DEF ThenRide, OnRoad
  <2>2. RouteIs(route)
    <3>1. RideMode(a.class) \in Modes /\ RideMode(a.class) # "car"
      BY DEF RideMode, Modes
    <3> QED BY <3>1, RoadIs DEF ChainTimed
  <2> HIDE DEF route, range, r
  <2>3. CASE route.best >= Far
    <3>1. r = [c EXCEPT !.s = route.s, !.ok = FALSE]
      BY <2>1, <2>3 DEF Rolled
    <3>2. DOMAIN r = {"s", "ok", "at", "rental"} /\ r.s = route.s /\ r.ok = FALSE
      BY <3>1 DEF ChainTimed, IsChain
    <3>3. ChainTimed(r, start)
      BY <2>2, <3>2 DEF ChainTimed, IsChain, RouteIs
    <3> QED BY <3>3 DEF r
  <2>4. CASE ~(route.best >= Far)
    <3> DEFINE rental == <<[a |-> a, range |-> Required(100 * range), goal |-> goal, start |-> start, on |-> bikes]>>
    <3> HIDE DEF rental
    <3>1. r = [c EXCEPT !.s = route.s, !.ok = StillHolds(a, range, xs, start),
                        !.at = c.at + lasts + Cfg.unlock + Cfg.park, !.rental = rental]
      BY <2>1, <2>4 DEF Rolled, rental
    <3> HIDE DEF xs, lasts
    <3>2. /\ DOMAIN r = {"s", "ok", "at", "rental"} /\ r.s = route.s /\ r.ok = StillHolds(a, range, xs, start)
          /\ r.at = c.at + lasts + Cfg.unlock + Cfg.park
      BY <3>1 DEF ChainTimed, IsChain
    <3>3. ASSUME r.ok, start \in Int PROVE r.at \in Int
      <4>1. WellFormed(System)
        <5>1. System # NoFeed
          BY Zenon, <3>2, <3>3 DEF StillHolds, Available
        <5> QED BY <5>1, SnapshotsWellFormed DEF Published, System
      <4>2. xs \in Seq(Int) /\ Len(xs) # 0
        <5>1. a.from.x \in Int /\ a.to.x \in Int
          BY FarIs DEF Place
        <5> QED BY <5>1, PolylineIs DEF xs
      <4> DEFINE p == [a |-> a, xs |-> xs, at |-> start]
      <4>3. p.a = a /\ p.xs = xs /\ p.at = start
        OBVIOUS
      <4> HIDE DEF p
      <4>4. RideUnits(a, xs, start) \in Nat
        BY <4>1, <4>2, <4>3, RideUnitsIs
      <4>5. 10 * Frac \in Nat \ {0}
        BY WidthsAssumption
      <4>6. lasts \in Nat
        BY <4>4, <4>5, CeilIs DEF lasts
      <4>7. c.at \in Int
        BY <1>2, <3>3 DEF ChainTimed
      <4>8. Cfg.unlock \in Nat /\ Cfg.park \in Nat
        BY RentalConfigAssumption
      <4> QED BY <3>2, <4>6, <4>7, <4>8
    <3>4. ChainTimed(r, start)
      BY <2>2, <3>2, <3>3 DEF ChainTimed, IsChain, RouteIs
    <3> QED BY <3>4 DEF r
  <2> QED BY <2>3, <2>4
<1> QED BY <1>1, <1>2

\* And so does a whole rental.
LEMMA LegsTimed ==
  ASSUME Published, NEW search, IsSearch(search), NEW plan, NEW class, NEW from, Place(from), NEW to,
         Offered(plan.a, class, to), NEW start
  PROVE  ChainTimed(SharedLegs(search, plan, from, to, start), start)
<1> DEFINE c0 == [s |-> search, ok |-> TRUE, at |-> start, rental |-> <<>>]
           c1 == ThenWalk(c0, from, plan.a.from, Cfg.pickupWalk)
           c2 == ThenRide(c1, plan.a, to, start)
<1>0. Place(plan.a.from) /\ Place(plan.a.to) /\ Place(to)
  BY Zenon DEF Offered, Genuine
<1>1. ChainTimed(c0, start)
  BY DEF ChainTimed, IsChain
<1>2. ChainTimed(c1, start)
  <2> HIDE DEF c0
  <2> QED BY <1>0, <1>1, StrollTimed
<1>3. ChainTimed(c2, start)
  <2> HIDE DEF c1
  <2> QED BY <1>0, <1>2, RideTakes
<1>4. ChainTimed(ThenWalk(c2, plan.a.to, to, Cfg.dropoffWalk), start)
  <2> HIDE DEF c2
  <2> QED BY <1>0, <1>3, StrollTimed
<1> QED BY <1>4 DEF SharedLegs

\* The leg to or from a stop.
LEMMA EndTimed ==
  ASSUME Published, NEW search, IsSearch(search), NEW way, NEW stop, NEW class, NEW from, Place(from), NEW to,
         stop \in DOMAIN way.plans => Offered(way.plans[stop].a, class, to), NEW start
  PROVE  /\ IsSearch(EndLeg(search, way, stop, from, to, start).s)
         /\ way.sec[stop] \in Nat => ChainTimed(EndLeg(search, way, stop, from, to, start), start)
<1>1. CASE stop \in DOMAIN way.plans
  BY <1>1, LegsTimed DEF EndLeg, ChainTimed
<1>2. CASE stop \notin DOMAIN way.plans
  <2> DEFINE c == EndLeg(search, way, stop, from, to, start)
  <2>1. c = [s |-> search, ok |-> TRUE, at |-> start + way.sec[stop], rental |-> <<>>]
    BY <1>2 DEF EndLeg
  <2> HIDE DEF c
  <2>2. DOMAIN c = {"s", "ok", "at", "rental"} /\ c.s = search /\ c.at = start + way.sec[stop]
    BY <2>1
  <2>3. way.sec[stop] \in Nat => ChainTimed(c, start)
    BY <2>2 DEF ChainTimed, IsChain
  <2> QED BY <2>2, <2>3 DEF c
<1> QED BY <1>1, <1>2

-----------------------------------------------------------------------------
(* Itineraries that keep time                                              *)

\* A journey ends in time at its target, and then where the request goes.
LEMMA AssembledKeepsTime ==
  ASSUME Published, ArrivalsKnown, DeparturesKnown, req \in Requests(net.name), NEW search, IsSearch(search),
         NEW j, IsSeq(j.legs), \A i \in 1..Len(j.legs) : LegIs(j.legs[i]),
         NEW v, Travels(req, v), v.tag # "onboard" => req.kind # "onboard",
         v.tag # "onboard" => Seconds(v.acc.sec) /\ SourceOf(j) \in DOMAIN v.acc.sec,
         Seconds(v.egr.sec), j.target \in DOMAIN v.egr.sec, NEW t \in Int
  PROVE  /\ IsSearch(Assembled(search, j, v, t).s)
         /\ Assembled(search, j, v, t).it.ok => KeepsTime(Assembled(search, j, v, t).it)
<1> DEFINE entry == Entry(search, SourceOf(j), v, t)
           end == AllLegs(entry, j, v, t)
           egress == Egress(end, j, v)
           it == Assembled(search, j, v, t).it
           start == [aboard |-> v.tag = "onboard", out |-> entry.at]
<1>1. IsSearch(entry.s) /\ (v.tag # "onboard" /\ entry.ok => entry.at \in Int)
  <2>1. CASE v.tag = "onboard"
    BY <2>1 DEF Entry
  <2>2. CASE v.tag # "onboard"
    <3> DEFINE stop == SourceOf(j)
    <3>1. Place(req.from) /\ Place(net.stopAt[stop])
      <4>1. stop \in 1..net.tt.nstops
        BY <2>2 DEF Seconds, Stops, StopsOf, tt
      <4> QED BY <2>2, <4>1, PointsAssumption, StreetsAssumption DEF Published
    <3>2. v.acc.sec[stop] \in Nat
      BY <2>2 DEF Seconds
    <3>3. entry = EndLeg(search, v.acc, stop, req.from, net.stopAt[stop], t)
      BY <2>2 DEF Entry
    <3>4. stop \in DOMAIN v.acc.plans => Offered(v.acc.plans[stop].a, req.class, net.stopAt[stop])
      BY <2>2 DEF Travels, AccWay
    <3> HIDE DEF stop
    <3>5. ChainTimed(entry, t)
      BY <3>1, <3>2, <3>3, <3>4, EndTimed
    <3> QED BY <3>5 DEF ChainTimed
  <2> QED BY <2>1, <2>2
<1>2. end.entry = entry /\ OnTheWay(start, Len(j.legs), end)
  <2> HIDE DEF entry
  <2>1. end.entry = entry
    BY LegsKeepEntry
  <2>2. OnTheWay(start, Len(j.legs), end)
    BY <1>1, LegsKeepTime
  <2> QED BY <2>1, <2>2
<1> HIDE DEF entry, end
<1>3. IsSearch(egress.s) /\ (egress.ok => end.ok)
  <2>1. CASE end.ok
    <3>1. egress = EndLeg(end.entry.s, v.egr, j.target, net.stopAt[j.target], req.to, end.at)
      BY <2>1 DEF Egress
    <3>2. v.egr.sec[j.target] \in Nat /\ j.target \in 1..net.tt.nstops
      BY DEF Seconds, Stops, StopsOf, tt
    <3>3. Place(net.stopAt[j.target])
      BY <3>2, PointsAssumption, StreetsAssumption DEF Published
    <3>4. j.target \in DOMAIN v.egr.plans => Offered(v.egr.plans[j.target].a, req.class, req.to)
      BY DEF Travels, EgrWay
    <3>5. ChainTimed(egress, end.at)
      BY <1>1, <1>2, <3>1, <3>2, <3>3, <3>4, EndTimed
    <3> HIDE DEF egress
    <3> QED BY <2>1, <3>5 DEF ChainTimed
  <2>2. CASE ~end.ok
    <3>1. egress = [s |-> end.entry.s, ok |-> FALSE, at |-> end.at, rental |-> <<>>]
      BY <2>2 DEF Egress
    <3> HIDE DEF egress
    <3> QED BY <1>1, <1>2, <3>1
  <2> QED BY <2>1, <2>2
<1>4. /\ Assembled(search, j, v, t).s = egress.s
      /\ {"rides", "aboard", "out", "arr"} \subseteq DOMAIN it /\ it.ok = egress.ok /\ it.rides = end.rides
      /\ it.aboard = (v.tag = "onboard") /\ it.out = entry.at
  BY <1>2 DEF Assembled, WithEgress, Composed, entry, end
<1> HIDE DEF it, egress
<1>5. ASSUME it.ok PROVE KeepsTime(it)
  <2>1. end.ok /\ start.aboard = it.aboard /\ start.out = it.out
    BY <1>3, <1>4, <1>5
  <2> HIDE DEF start
  <2> QED BY <1>2, <1>4, <2>1 DEF OnTheWay, KeepsTime
<1> QED BY <1>3, <1>4, <1>5 DEF it

\* A list with its search, on which the next is put together.
Searched(h, k, acc) == IsSearch(acc.s) /\ KeepTimeIfOk(acc.its)
Assembling == INSTANCE FoldLaws WITH Step <- CollectStep, Good <- Searched

\* What Collect assembles.
LEMMA AssemblyKeepsTime ==
  ASSUME Published, ArrivalsKnown, DeparturesKnown, req \in Requests(net.name), IsSearch(road), depart \in Int,
         Travels(req, Head(todo)), Head(todo).tag # "onboard" => req.kind # "onboard", Seconds(Head(todo).egr.sec),
         Head(todo).tag # "onboard" => Seconds(Head(todo).acc.sec),
         NEW n \in Nat, DOMAIN journeys = 1..n, n = Len(journeys),
         \A i \in 1..n : /\ IsSeq(journeys[i].legs) /\ journeys[i].target \in DOMAIN Head(todo).egr.sec
                         /\ Head(todo).tag # "onboard" => SourceOf(journeys[i]) \in DOMAIN Head(todo).acc.sec
                         /\ \A m \in 1..Len(journeys[i].legs) : LegIs(journeys[i].legs[m])
  PROVE  IsSearch(Assembly.s) /\ KeepTimeIfOk(Assembly.its)
<1> DEFINE base == [s |-> road, its |-> <<>>]
<1>1. Searched(0, 0, base)
  BY TimeNone DEF Searched
<1>2. ASSUME NEW k \in 1..n, NEW acc, Searched(0, k - 1, acc)
      PROVE  Searched(0, k, CollectStep(0, acc, journeys[k]))
  <2> DEFINE x == Assembled(acc.s, journeys[k], Head(todo), depart)
  <2>1. IsSearch(x.s) /\ (x.it.ok => KeepsTime(x.it))
    <3> DEFINE j == journeys[k]
               v == Head(todo)
    <3>1. /\ IsSeq(j.legs) /\ j.target \in DOMAIN v.egr.sec /\ \A i \in 1..Len(j.legs) : LegIs(j.legs[i])
          /\ v.tag # "onboard" => Seconds(v.acc.sec) /\ SourceOf(j) \in DOMAIN v.acc.sec
      OBVIOUS
    <3>2. IsSearch(acc.s) /\ Travels(req, v) /\ (v.tag # "onboard" => req.kind # "onboard") /\ Seconds(v.egr.sec)
      BY <1>2 DEF Searched
    <3> HIDE DEF j, v
    <3>3. LET y == Assembled(acc.s, j, v, depart) IN IsSearch(y.s) /\ (y.it.ok => KeepsTime(y.it))
      BY <3>1, <3>2, AssembledKeepsTime
    <3> QED BY <3>3 DEF j, v
  <2> HIDE DEF x
  <2>2. KeepTimeIfOk(Append(acc.its, x.it))
    BY <1>2, <2>1, TimeAppend DEF Searched
  <2> DEFINE next == CollectStep(0, acc, journeys[k])
  <2>3. next = [s |-> x.s, its |-> Append(acc.its, x.it)]
    BY DEF CollectStep, Gathered, x
  <2>4. next.s = x.s /\ next.its = Append(acc.its, x.it)
    BY <2>3
  <2> HIDE DEF next
  <2>5. Searched(0, k, next)
    BY <2>1, <2>2, <2>4 DEF Searched
  <2> QED BY <2>5 DEF next
<1>3. Searched(0, n, Assembling!Folded(0, base, journeys))
  <2> HIDE DEF base
  <2> QED BY <1>1, <1>2, Assembling!FoldKeeps, NatsFrom
<1>4. Assembly = Assembling!Folded(0, base, journeys)
  BY DEF Assembly, CollectStep, Assembling!Folded,
         FoldLeft, MapThenFoldSet, Max, Assembling!Largest
<1> QED BY <1>3, <1>4 DEF Searched

\* A rental all the way, or a bike of one's own, is routed on the pooled search.
LEMMA DirectSearches ==
  ASSUME Published, IsSearch(road), Place(req.from), Place(req.to)
  PROVE  IsSearch(DirectRide.s)
<1> DEFINE plan == EstimateShared(req.from, req.to, req.class, depart)
           ride == IF req.class = "" THEN OwnRide ELSE RideOn(plan)
<1>1. IsSearch(OwnRide.s)
  <2>1. RouteIs(RoadFrom(road, req.from, req.to, "bike"))
    BY RoadIs DEF Modes
  <2> QED BY <2>1 DEF OwnRide, RouteIs
<1>2. IsSearch(RideOn(plan).s)
  <2>1. CASE plan = NoPlan
    BY <2>1 DEF RideOn
  <2>2. CASE plan # NoPlan
    <3> DEFINE chain == SharedLegs(road, plan, req.from, req.to, depart)
    <3>1. Offered(plan.a, req.class, req.to)
      <4>1. System = NoFeed \/ WellFormed(System)
        BY SnapshotsWellFormed DEF Published, System
      <4> QED BY <2>2, <4>1, EstimateOffered
    <3>2. RideOn(plan) = AsDirect(chain)
      BY <2>2 DEF RideOn
    <3> HIDE DEF plan
    <3>3. IsSearch(chain.s)
      BY <3>1, LegsTimed DEF ChainTimed
    <3> HIDE DEF chain
    <3> QED BY <3>2, <3>3 DEF AsDirect
  <2> QED BY <2>1, <2>2
<1> HIDE DEF plan
<1> QED BY Zenon, <1>1, <1>2 DEF DirectRide, WorthRiding, plan

\* The ways from the stops ahead have no ride on them.
Strolling(h, k, acc) == DOMAIN acc = {"s", "its"} /\ IsSearch(acc.s) /\ KeepTime(acc.its)
Trailing == INSTANCE FoldLaws WITH Step <- TailStep, Good <- Strolling

LEMMA TailOfKeepsTime ==
  ASSUME NEW r, NEW stop, NEW at, NEW rental, NEW tag
  PROVE  KeepsTime(TailOf(r, stop, at, rental, tag))
<1> DEFINE it == TailOf(r, stop, at, rental, tag)
<1>1. {"rides", "aboard", "out", "arr"} \subseteq DOMAIN it /\ it.rides = <<>>
  BY DEF TailOf
<1> HIDE DEF it
<1>2. KeepsTime(it)
  BY <1>1, OnFoot
<1> QED BY <1>2 DEF it

LEMMA TailsKeepTime ==
  ASSUME Published, IsSearch(road), tt.nstops \in Nat, EgrWay(req, access[3])
  PROVE  LET tails == Tails(road, req, access[2], access[3]) IN IsSearch(tails.s) /\ KeepTime(tails.its)
<1> DEFINE base == [s |-> road, its |-> <<>>]
           seq == AscendingIn(tt.nstops, DOMAIN req.seeds)
           n == Len(seq)
<1>1. n \in Nat /\ DOMAIN seq = 1..n /\ \A k \in 1..n : seq[k] \in 1..tt.nstops
  <2>1. IsSeq(seq) /\ ToSet(seq) \in SUBSET (1..tt.nstops)
    BY AscendingInIs
  <2> HIDE DEF seq
  <2> QED BY <2>1, IsSeqHas
<1>2. Strolling(0, 0, base)
  BY TimeNone DEF Strolling
<1>3. ASSUME NEW k \in 1..n, NEW acc, Strolling(0, k - 1, acc)
      PROVE  Strolling(0, k, TailStep(0, acc, seq[k]))
  <2> DEFINE s == seq[k]
             walked == IF s \in DOMAIN access[2].sec
                       THEN [acc EXCEPT !.its = Append(@, WalkTail(req, s, access[2]))] ELSE acc
             chain == SharedLegs(walked.s, access[3].plans[s], net.stopAt[s], req.to, req.seeds[s])
             ridden == IF s \notin DOMAIN access[3].plans THEN walked ELSE AddTail(walked, req, s, chain)
  <2>1. Place(net.stopAt[s])
    <3>1. s \in 1..net.tt.nstops
      BY <1>1 DEF tt
    <3> QED BY <3>1, PointsAssumption, StreetsAssumption DEF Published
  <2>2. TailStep(0, acc, seq[k]) = ridden
    BY DEF TailStep
  <2> HIDE DEF s
  <2>3. Strolling(0, k, walked)
    <3>1. CASE s \in DOMAIN access[2].sec
      <4> DEFINE it == WalkTail(req, s, access[2])
      <4>1. walked = [acc EXCEPT !.its = Append(@, it)]
        BY <3>1
      <4>2. KeepsTime(it)
        BY TailOfKeepsTime DEF WalkTail
      <4> HIDE DEF it, walked
      <4>3. DOMAIN walked = {"s", "its"} /\ walked.s = acc.s /\ walked.its = Append(acc.its, it)
        BY <1>3, <4>1 DEF Strolling
      <4> QED BY <1>3, <4>2, <4>3, TimeAppend DEF Strolling
    <3>2. CASE s \notin DOMAIN access[2].sec
      BY <1>3, <3>2 DEF Strolling
    <3> QED BY <3>1, <3>2
  <2> HIDE DEF walked
  <2>4. Strolling(0, k, ridden)
    <3>1. CASE s \in DOMAIN access[3].plans
      <4> DEFINE it == TailOf(req, s, chain.at, chain.rental, SignatureOf(chain.rental))
      <4>1. IsSearch(chain.s)
        BY <2>1, <2>3, <3>1, LegsTimed DEF EgrWay, Strolling, ChainTimed
      <4>2. KeepsTime(it)
        BY TailOfKeepsTime
      <4> HIDE DEF chain
      <4>3. ridden = [s |-> chain.s, its |-> IF ~chain.ok THEN walked.its ELSE Append(walked.its, it)]
        BY <3>1 DEF AddTail
      <4> HIDE DEF it, ridden
      <4>4. /\ DOMAIN ridden = {"s", "its"} /\ ridden.s = chain.s
            /\ ridden.its = IF ~chain.ok THEN walked.its ELSE Append(walked.its, it)
        BY <4>3
      <4> QED BY <2>3, <4>1, <4>2, <4>4, TimeAppend DEF Strolling
    <3>2. CASE s \notin DOMAIN access[3].plans
      BY <2>3, <3>2 DEF Strolling
    <3> QED BY <3>1, <3>2
  <2> HIDE DEF ridden
  <2> QED BY <2>2, <2>4
<1>4. Strolling(0, n, Trailing!Folded(0, base, seq))
  <2> HIDE DEF n, base, seq
  <2> QED BY <1>1, <1>2, <1>3, Trailing!FoldKeeps, NatsFrom
<1>5. Tails(road, req, access[2], access[3]) = Trailing!Folded(0, base, seq)
  BY DEF Tails, TailStep, Trailing!Folded,
         FoldLeft, MapThenFoldSet, Max, Trailing!Largest
<1> QED BY <1>4, <1>5 DEF Strolling

-----------------------------------------------------------------------------
(* What a run aims at                                                      *)

\* A query starts and ends where its run does, and a rider on board only continues from there.
Aimed ==
  /\ pc # "idle" => /\ q.targets = Head(todo).egr.sec
                    /\ Head(todo).tag # "onboard" => DOMAIN q.sources = DOMAIN Head(todo).acc.sec
  /\ phase = "run" /\ req.kind = "onboard" => \A v \in ToSet(todo) : v.tag = "onboard"

\* A list that is empty or holds one variant.
LEMMA OnboardOnly ==
  ASSUME NEW r, NEW sources, NEW search, NEW foot, NEW rented, BoardFrom(r, sources, search, foot, rented), phase' = "run"
  PROVE  \A v \in ToSet(todo') : v.tag = "onboard"
<1> DEFINE walker == Variant("onboard", Own(sources), foot)
           renter == Variant("onboard", Own(sources), rented)
           One(v) == Only(v, Runs(v))
<1>1. todo' = One(walker) \o One(renter)
  BY Zenon DEF BoardFrom, Refuse, RunFor
<1>2. walker.tag = "onboard" /\ renter.tag = "onboard"
  BY DEF Variant
<1>3. ASSUME NEW v PROVE IsSeq(One(v)) /\ ToSet(One(v)) \in SUBSET {v}
  <2>1. Runs(v) \in BOOLEAN
    BY DEF Runs
  <2> QED BY <2>1, OnlyIs
<1> HIDE DEF walker, renter, One
<1> QED BY <1>1, <1>2, <1>3, ConcatIs

\* The runs of a request are planned for its rider, and RAPTOR searches for the first
\* of them until its journeys are collected (engine/plan.go's runRaptor).
THEOREM AimedInvariance == Spec => []Aimed
<1>1. Init => Aimed
  BY DEF Init, RaptorInit, Aimed
<1>2. Aimed /\ Scheduled /\ Underway /\ [Next]_vars => Aimed'
  <2> SUFFICES ASSUME Aimed, Scheduled, Underway, [Next]_vars PROVE Aimed'
    OBVIOUS
  <2>1. CASE UNCHANGED <<pc, q, todo, phase, req>>
    BY <2>1 DEF Aimed
  <2>2. CASE Ask
    <3>1. pc' = "idle"
      <4>1. phase = "idle" /\ pc' = pc
        BY <2>2, AskStays DEF raptorVars
      <4> QED BY <4>1 DEF Scheduled
    <3>2. PICK r \in Requests(net.name) : AskTransit(r) \/ AskOnboard(r) \/ AskRoad(r)
      BY <2>2 DEF Ask
    <3>3. CASE AskTransit(r) \/ AskRoad(r)
      <4>1. req' = r /\ r.kind # "onboard"
        BY <3>3 DEF AskTransit, AskRoad, Accept
      <4> QED BY <3>1, <4>1 DEF Aimed
    <3>4. CASE AskOnboard(r)
      <4>1. phase' = "run" => \A v \in ToSet(todo') : v.tag = "onboard"
        BY <3>4, OnboardOnly DEF AskOnboard, Refuse
      <4> QED BY <3>1, <4>1 DEF Aimed
    <3> QED BY <3>2, <3>3, <3>4
  <2>3. CASE RunVariant
    <3>1. PICK sources : /\ q' = QueryAt(depart, sources, Head(todo).egr.sec)
                         /\ sources = IF Head(todo).tag = "onboard" THEN Head(todo).acc.sec
                                      ELSE AccessSources(depart, Head(todo).acc.sec)
      BY Zenon, <2>3 DEF RunVariant, Seed
    <3>2. q'.targets = Head(todo).egr.sec /\ q'.sources = sources
      BY <3>1 DEF QueryAt
    <3>3. Head(todo).tag # "onboard" => DOMAIN sources = DOMAIN Head(todo).acc.sec
      BY <3>1 DEF AccessSources
    <3> QED BY <2>3, <3>2, <3>3 DEF RunVariant, planVars, progress, Aimed
  <2>4. CASE Running
    <3>1. pc # "idle" /\ q' = q /\ UNCHANGED <<todo, phase, req>>
      BY Zenon, <2>4 DEF Running, RaptorStep, SourceWalks, BeginRound, Scan, WalkOn, Finish, planVars, progress
    <3> QED BY <3>1 DEF Aimed
  <2>5. CASE Collect
    <3>1. pc' = "idle" /\ todo' = Tail(todo) /\ todo # <<>> /\ phase = "run" /\ UNCHANGED <<phase, req>>
      BY Zenon, <2>5 DEF Collect, Scheduled
    <3>2. ToSet(Tail(todo)) \in SUBSET ToSet(todo)
      <4>1. todo \in Seq(ToSet(todo)) /\ todo # <<>>
        BY <3>1 DEF IsSeq, Underway
      <4>2. Tail(todo) \in Seq(ToSet(todo))
        BY <4>1
      <4> QED BY <4>2, SeqIs
    <3> QED BY <3>1, <3>2 DEF Aimed
  <2>6. CASE Bracket \/ Check \/ Bisect
    <3>1. phase = "run" /\ hunt.stage # "none" /\ pc = "idle" /\ pc' = pc /\ req' = req
      BY <2>6 DEF Bracket, Check, Bisect, Narrow, Probe, PlanAt, Collected, raptorVars
    <3>2. req.kind # "onboard"
      BY <3>1 DEF Underway
    <3> QED BY <3>1, <3>2 DEF Aimed
  <2>7. CASE Rank \/ RankOnboard
    <3>1. phase' = "idle" /\ pc = "idle" /\ pc' = pc
      BY <2>7 DEF Rank, RankOnboard, Collected, raptorVars
    <3> QED BY <3>1 DEF Aimed
  <2>8. CASE SwapOverlay \/ SwapRentals
    BY <2>1, <2>8 DEF SwapOverlay, SwapRentals, raptorVars, progress
  <2>9. CASE SwapBundles
    BY <2>9 DEF SwapBundles, FreshRaptor, FreshPlanner, Aimed
  <2> QED
    BY <2>1, <2>2, <2>3, <2>4, <2>5, <2>6, <2>7, <2>8, <2>9 DEF Next, vars, raptorVars, planVars, progress
<1> QED
  BY <1>1, <1>2, ScheduledInvariance, RentalsInvariance, PTL DEF Spec

\* The legs of what was found can be timed.
LegsKnown == pc = "answered" => \A i \in 1..Len(journeys) : LegsAre(journeys[i])

\* Each leg that extract follows back (raptor.go) is a ride between two stops of a
\* trip or a walk of whole seconds, whatever the overlay does until it is timed.
THEOREM LegsKnownInvariance == Spec => []LegsKnown
<1>0. ASSUME net' = net, q' = q, \A i \in 1..Len(journeys') : LegsAre(journeys'[i])
      PROVE  LegsKnown'
  <2>1. ASSUME NEW i \in 1..Len(journeys') PROVE LegsAre(journeys[i])'
    BY Zenon, <1>0, <2>1 DEF LegsAre, LegIs, Trips, tt
  <2> QED BY <2>1 DEF LegsKnown
<1>1. Init => LegsKnown
  BY DEF Init, RaptorInit, LegsKnown
<1>2. LegsKnown /\ Published /\ Labelled /\ [Next]_vars => LegsKnown'
  <2> SUFFICES ASSUME LegsKnown, Published, Labelled, [Next]_vars PROVE LegsKnown'
    OBVIOUS
  <2>1. CASE UNCHANGED <<net, q, pc, journeys>>
    <3>1. CASE pc = "answered"
      <4>1. \A i \in 1..Len(journeys') : LegsAre(journeys'[i])
        BY <2>1, <3>1 DEF LegsKnown
      <4> QED BY <1>0, <2>1, <4>1
    <3>2. CASE pc # "answered"
      BY <2>1, <3>2 DEF LegsKnown
    <3> QED BY <3>1, <3>2
  <2>2. CASE Ask
    BY <2>1, <2>2, AskStays DEF raptorVars, answers
  <2>3. CASE RunVariant
    BY Zenon, <2>3 DEF RunVariant, Seed, LegsKnown
  <2>4. CASE Running
    <3>1. CASE Finish
      <4>1. \A i \in 1..Len(journeys') : LegsAre(journeys'[i])
        BY <3>1, LoadedIs, FinishConnects
      <4> QED BY Zenon, <1>0, <3>1, <4>1 DEF Finish
    <3>2. CASE ~Finish
      <4>1. pc' # "answered"
        BY <2>4, <3>2 DEF Running, RaptorStep, SourceWalks, BeginRound, Scan, WalkOn
      <4> QED BY <4>1 DEF LegsKnown
    <3> QED BY <3>1, <3>2
  <2>5. CASE Collect \/ SwapBundles
    BY <2>5 DEF Collect, SwapBundles, FreshRaptor, LegsKnown
  <2>6. CASE Bracket \/ Check \/ Bisect
    BY <2>1, <2>6 DEF Bracket, Check, Bisect, Narrow, Probe, PlanAt, raptorVars, answers
  <2>7. CASE Rank \/ RankOnboard
    BY <2>1, <2>7 DEF Rank, RankOnboard, raptorVars, answers
  <2>8. CASE SwapOverlay \/ SwapRentals
    BY <2>1, <2>8 DEF SwapOverlay, SwapRentals, raptorVars, answers
  <2> QED
    BY <2>1, <2>2, <2>3, <2>4, <2>5, <2>6, <2>7, <2>8 DEF Next, vars, raptorVars, answers
<1> QED
  BY <1>1, <1>2, PublishedInvariance, LabelledInvariance, PTL DEF Spec

-----------------------------------------------------------------------------
(* What is found and answered keeps time                                   *)

\* The road search is one of this network; what was found, and answered, keeps time.
TimeKept ==
  /\ IsSearch(road)
  /\ phase = "run" => KeepTime(found)
  /\ answer.kind = "found" => KeepTime(answer.its)

TimeKeptNext ==
  /\ IsSearch(road')
  /\ phase' = "run" => KeepTime(found')
  /\ answer'.kind = "found" => KeepTime(answer'.its)

\* When the network stays, what was shown of the next state is shown.
LEMMA SameTime ==
  ASSUME net' = net, TimeKeptNext
  PROVE  TimeKept'
<1>1. IsSearch(road)'
  BY DEF TimeKeptNext, IsSearch
<1> QED BY <1>1 DEF TimeKeptNext, TimeKept

\* A request that is planned starts with nothing found.
LEMMA PlannedAsk ==
  ASSUME NEW r, TimeKept, AskTransit(r) \/ AskOnboard(r)
  PROVE  TimeKeptNext
<1>1. road' = road
  BY DEF AskTransit, AskOnboard
<1>2. Refuse => TimeKeptNext
  BY <1>1 DEF Refuse, None, TimeKept, TimeKeptNext
<1>3. ASSUME NEW t, NEW variants, RunFor(t, variants), answer' = Pending PROVE TimeKeptNext
  BY <1>1, <1>3, TimeNone DEF RunFor, Pending, TimeKept, TimeKeptNext
<1>4. CASE AskTransit(r)
  <2>1. PICK sets : FirstRuns(r, sets)
    BY <1>4 DEF AskTransit
  <2> QED BY <1>2, <1>3, <2>1 DEF FirstRuns
<1>5. CASE AskOnboard(r)
  <2>1. Refuse \/ \E sources, search, foot, rented : BoardFrom(r, sources, search, foot, rented)
    BY <1>5 DEF AskOnboard
  <2>2. CASE Refuse
    BY <1>2, <2>2
  <2>3. ASSUME NEW sources, NEW search, NEW foot, NEW rented, BoardFrom(r, sources, search, foot, rented)
        PROVE  TimeKeptNext
    BY Zenon, <1>2, <1>3, <2>3 DEF BoardFrom
  <2> QED BY <2>1, <2>2, <2>3
<1> QED BY <1>4, <1>5

\* A road has no ride on it.
LEMMA RoadAsk ==
  ASSUME Published, TimeKept, NEW r \in Requests(net.name), AskRoad(r)
  PROVE  TimeKeptNext
<1> DEFINE route == RoadFrom(road, r.from, r.to, r.mode)
           it == RoadItinerary(IF r.arriveBy THEN r.when - route.best \div 10 ELSE r.when, route.best)
<1>1. RouteIs(route)
  <2>1. r.kind = "road"
    BY DEF AskRoad
  <2>2. Place(r.from) /\ Place(r.to)
    BY <2>1, PointsAssumption DEF Published
  <2>3. Snapped(net, r.from) /\ Snapped(net, r.to) /\ r.mode \in StreetModes \cup {"scooter"}
    BY <2>1, RequestsAssumption DEF Published
  <2>4. r.mode \in Modes \cup {"car"}
    BY <2>3 DEF Modes, StreetModes
  <2> QED BY <2>2, <2>3, <2>4, RoadIs DEF TimeKept
<1>2. KeepsTime(it)
  <2>1. {"rides", "aboard", "out", "arr"} \subseteq DOMAIN it /\ it.rides = <<>>
    <3> HIDE DEF route
    <3> QED BY DEF RoadItinerary
  <2> HIDE DEF it
  <2> QED BY <2>1, OnFoot
<1>3. phase' = "idle" /\ road' = route.s /\ answer' = IF route.best >= Far THEN None ELSE Itineraries(<<it>>)
  BY DEF AskRoad
<1> HIDE DEF route, it
<1> QED BY <1>1, <1>2, <1>3, TimeOne DEF RouteIs, None, Itineraries, TimeKeptNext

\* What a run of RAPTOR returns is timed, and dropped where it cannot be kept.
LEMMA CollectKeepsTime ==
  ASSUME Published, ArrivalsKnown, DeparturesKnown, LegsListed, LegsKnown, JourneysConnected, Underway, QueriesCounted,
         Aimed, TimeKept, Collect, todo # <<>>
  PROVE  TimeKeptNext
<1> DEFINE v == Head(todo)
           its == SoundOf(Assembly.its)
           more == IF v.tag = "bike" /\ ~Hunting THEN Among(its, {it \in ToSet(its) : Saves(it)}) ELSE its
           n == Len(journeys)
<1>1. /\ phase = "run" /\ pc = "answered" /\ road' = Assembly.s /\ found' = found \o more
      /\ UNCHANGED <<phase, answer>>
  BY Zenon DEF Collect, GatherSound, Gather, Assembly
<1>2. v \in ToSet(todo)
  <2>1. todo \in Seq(ToSet(todo)) /\ todo # <<>>
    BY <1>1 DEF IsSeq, Underway
  <2> QED BY <2>1
<1>3. Travels(req, v) /\ Counts(v) /\ req \in Requests(net.name) /\ depart \in Int
  BY <1>1, <1>2 DEF Underway, QueriesCounted
<1>4. q.targets = v.egr.sec /\ (v.tag # "onboard" => req.kind # "onboard" /\ DOMAIN q.sources = DOMAIN v.acc.sec)
  <2>1. v.tag # "onboard" => req.kind # "onboard"
    BY <1>1, <1>2 DEF Aimed
  <2>2. pc # "idle" => q.targets = v.egr.sec /\ (v.tag # "onboard" => DOMAIN q.sources = DOMAIN v.acc.sec)
    BY Zenon DEF Aimed
  <2> QED BY <1>1, <2>1, <2>2
<1>5. n \in Nat /\ DOMAIN journeys = 1..n /\ n = Len(journeys)
  BY DEF LegsListed
<1>6. \A i \in 1..n : /\ IsSeq(journeys[i].legs) /\ journeys[i].target \in DOMAIN v.egr.sec
                      /\ v.tag # "onboard" => SourceOf(journeys[i]) \in DOMAIN v.acc.sec
                      /\ \A m \in 1..Len(journeys[i].legs) : LegIs(journeys[i].legs[m])
  <2>1. \A i \in 1..n : SourceOf(journeys[i]) \in DOMAIN q.sources
    <3>1. \A i \in 1..Len(journeys) :
            LET l == journeys[i].legs[1]
            IN  (IF l.ride THEN tt.trips[l.trip].stops[l.board] ELSE l.from) \in DOMAIN q.sources
      BY Zenon, <1>1 DEF JourneysConnected
    <3> QED BY <3>1 DEF SourceOf
  <2>2. \A i \in 1..n : /\ IsSeq(journeys[i].legs) /\ journeys[i].target \in DOMAIN v.egr.sec
                        /\ \A m \in 1..Len(journeys[i].legs) : LegIs(journeys[i].legs[m])
    BY <1>1, <1>4 DEF LegsListed, LegsKnown, LegsAre
  <2> HIDE DEF n, v
  <2> QED BY <1>4, <2>1, <2>2
<1>7. Seconds(v.egr.sec) /\ (v.tag # "onboard" => Seconds(v.acc.sec))
  BY <1>3 DEF Counts
<1>8. IsSearch(Assembly.s) /\ KeepTimeIfOk(Assembly.its)
  <2> HIDE DEF n
  <2> QED BY Zenon, <1>3, <1>4, <1>5, <1>6, <1>7, AssemblyKeepsTime DEF TimeKept
<1>9. KeepTime(found \o more)
  <2>1. KeepTime(its)
    BY <1>8, TimeSound
  <2> HIDE DEF its
  <2>2. KeepTime(more)
    BY <2>1, TimeAmong
  <2> HIDE DEF more
  <2> QED BY <1>1, <2>2, TimeJoin DEF TimeKept
<1> HIDE DEF more
<1> QED BY <1>1, <1>8, <1>9 DEF TimeKept, TimeKeptNext

\* Another departure starts with nothing found.
LEMMA HuntKeepsTime ==
  ASSUME TimeKept, Bracket \/ Check \/ Bisect
  PROVE  TimeKeptNext
<1>1. ASSUME NEW h, Probe(h) PROVE TimeKeptNext
  BY <1>1, TimeNone DEF Probe, RunFor, searches, TimeKept, TimeKeptNext
<1>2. ASSUME NEW t, PlanAt(t) PROVE TimeKeptNext
  <2>1. road' = road /\ answer' = answer /\ found' = <<>>
    BY <1>2 DEF PlanAt, RunFor
  <2> QED BY <2>1, TimeNone DEF TimeKept, TimeKeptNext
<1>3. ASSUME NEW h, Narrow(h) PROVE TimeKeptNext
  BY <1>1, <1>2, <1>3 DEF Narrow
<1>4. CASE Bracket
  <2>1. \E h : Probe(h)
    BY <1>4 DEF Bracket
  <2> QED BY <1>1, <2>1
<1>5. CASE Check
  <2>1. CASE InTime
    BY <1>3, <1>5, <2>1 DEF Check
  <2>2. CASE ~InTime
    BY <1>5, <2>2 DEF Check, None, searches, TimeKept, TimeKeptNext
  <2> QED BY <2>1, <2>2
<1>6. CASE Bisect
  BY <1>3, <1>6 DEF Bisect
<1> QED BY <1>4, <1>5, <1>6

\* The answers.
LEMMA RankKeepsTime ==
  ASSUME Published, Underway, TimeKept, Rank \/ RankOnboard
  PROVE  TimeKeptNext
<1>0. phase = "run" /\ phase' = "idle" /\ req \in Requests(net.name) /\ KeepTime(found) /\ IsSearch(road)
  BY DEF Rank, RankOnboard, Collected, Underway, TimeKept
<1>1. CASE Rank
  <2> DEFINE direct == IF req.bike THEN DirectRide ELSE [s |-> road, its |-> <<>>]
  <2>1. Reply(found \o direct.its) /\ road' = direct.s /\ req.kind # "onboard"
    BY <1>1 DEF Rank
  <2>2. IsSearch(direct.s) /\ KeepTime(direct.its)
    <3>1. Place(req.from) /\ Place(req.to)
      BY <1>0, <2>1, PointsAssumption DEF Published
    <3> QED BY <1>0, <3>1, DirectSearches, DirectKeepsTime, TimeNone
  <2> HIDE DEF direct
  <2>3. KeepTime(found \o direct.its)
    BY <1>0, <2>2, TimeJoin
  <2> QED BY <1>0, <2>1, <2>2, <2>3, ReplyKeepsTime DEF TimeKeptNext
<1>2. CASE RankOnboard
  <2> DEFINE tails == Tails(road, req, access[2], access[3])
  <2>1. RetainAll(tails.s, found \o tails.its) /\ req.kind = "onboard"
    BY <1>2 DEF RankOnboard
  <2>2. IsSearch(tails.s) /\ KeepTime(tails.its)
    <3>1. tt.nstops \in Nat
      BY TimetablesAssumption DEF Published, tt, IsCompiled
    <3>2. EgrWay(req, access[3])
      BY <1>0, <2>1 DEF Underway
    <3> QED BY <1>0, <3>1, <3>2, TailsKeepTime
  <2> HIDE DEF tails
  <2>3. KeepTime(found \o tails.its)
    BY <1>0, <2>2, TimeJoin
  <2>4. road' = tails.s
    BY <2>1 DEF RetainAll
  <2> QED BY <1>0, <2>1, <2>2, <2>3, <2>4, RetainAllKeepsTime DEF TimeKeptNext
<1> QED BY <1>1, <1>2

\* While a request is answered the pooled road search stays one of its network, and
\* every itinerary that assemble puts together has its legs one after the other
\* (engine/plan.go), though the overlay may be another by then.
THEOREM TimeKeptInvariance == Spec => []TimeKept
<1>1. Init => TimeKept
  <2> SUFFICES ASSUME Init PROVE TimeKept
    OBVIOUS
  <2>1. road = NewSearch(net.street) /\ phase = "idle" /\ answer = Pending
    BY DEF Init
  <2>2. IsSearch(road)
    BY <2>1, NewSearchIs DEF IsSearch
  <2> QED BY <2>1, <2>2 DEF TimeKept, Pending
<1>2. TimeKept /\ Published /\ ArrivalsKnown /\ DeparturesKnown /\ LegsListed /\ LegsKnown /\ JourneysConnected
        /\ Underway /\ QueriesCounted /\ Aimed /\ Scheduled /\ [Next]_vars => TimeKept'
  <2> SUFFICES ASSUME TimeKept, Published, ArrivalsKnown, DeparturesKnown, LegsListed, LegsKnown, JourneysConnected,
                      Underway, QueriesCounted, Aimed, Scheduled, [Next]_vars
               PROVE  TimeKept'
    OBVIOUS
  <2>1. CASE UNCHANGED <<net, road, phase, found, answer>>
    <3>1. TimeKeptNext
      BY <2>1 DEF TimeKept, TimeKeptNext
    <3> QED BY <2>1, <3>1, SameTime
  <2>2. CASE Ask
    <3>1. net' = net
      BY <2>2, AskStays
    <3>2. TimeKeptNext
      BY <2>2, PlannedAsk, RoadAsk DEF Ask
    <3> QED BY <3>1, <3>2, SameTime
  <2>3. CASE RunVariant
    BY ZenonT(30), <2>1, <2>3 DEF RunVariant, Seed, planVars, progress, searches
  <2>4. CASE Running
    BY Zenon, <2>1, <2>4 DEF Running, RaptorStep, SourceWalks, BeginRound, Scan, WalkOn, Finish, planVars, progress, searches
  <2>5. CASE Collect
    <3>1. net' = net /\ todo # <<>>
      BY Zenon, <2>5 DEF Collect, Scheduled
    <3>2. TimeKeptNext
      BY <2>5, <3>1, CollectKeepsTime
    <3> QED BY <3>1, <3>2, SameTime
  <2>6. CASE Bracket \/ Check \/ Bisect
    <3>1. net' = net
      BY <2>6 DEF Bracket, Check, Bisect, Narrow, Probe, PlanAt
    <3> QED BY <2>6, <3>1, HuntKeepsTime, SameTime
  <2>7. CASE Rank \/ RankOnboard
    <3>1. net' = net
      BY <2>7 DEF Rank, RankOnboard
    <3> QED BY <2>7, <3>1, RankKeepsTime, SameTime
  <2>8. CASE SwapOverlay \/ SwapRentals
    BY <2>1, <2>8 DEF SwapOverlay, SwapRentals, progress, searches
  <2>9. CASE SwapBundles
    <3>1. phase' = "idle" /\ road' = NewSearch(net'.street) /\ answer' = Pending
      BY <2>9 DEF SwapBundles, FreshPlanner
    <3>2. IsSearch(road)'
      BY <3>1, NewSearchIs DEF IsSearch
    <3> QED BY <3>1, <3>2 DEF TimeKept, Pending
  <2> QED
    BY <2>1, <2>2, <2>3, <2>4, <2>5, <2>6, <2>7, <2>8, <2>9 DEF Next, vars, planVars, progress, searches
<1>3. Published /\ Projected => ArrivalsKnown /\ DeparturesKnown
  BY ProjectedArrivals, ProjectedDepartures
<1>4. TimeKept /\ Published /\ Projected /\ LegsListed /\ LegsKnown /\ JourneysConnected /\ Underway /\ QueriesCounted
        /\ Aimed /\ Scheduled /\ [Next]_vars => TimeKept'
  BY <1>2, <1>3
<1> QED
  BY <1>1, <1>4, PublishedInvariance, ProjectedInvariance, LegsListedInvariance, LegsKnownInvariance,
     JourneysAreConnected, RentalsInvariance, CountedInvariance, AimedInvariance, ScheduledInvariance, PTL DEF Spec

\* Whatever the updater and the GBFS manager publish between the scan of a pattern and
\* the moment at which a journey is timed (plan.go's assemble reads the overlay anew,
\* shared.go routes the rental anew), an answer never has a ride boarded before the
\* access leg, or the ride before, and the walk from there have ended.
THEOREM ItinerariesAreOnTime == Spec => []ItinerariesKeepTime
<1>1. TimeKept => ItinerariesKeepTime
  <2> SUFFICES ASSUME TimeKept, answer.kind = "found", NEW n \in 1..Len(answer.its)
               PROVE  KeepsTime(answer.its[n])
    BY DEF ItinerariesKeepTime, KeepsTime, LegsInTurn, OneByOne, Leaves
  <2> QED BY IsSeqHas DEF TimeKept, KeepTime
<1> QED
  BY <1>1, TimeKeptInvariance, PTL

=============================================================================
