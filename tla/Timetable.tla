---- MODULE Timetable ----
(***************************************************************************)
(* The timetable that internal/transit compiles from GTFS feeds            *)
(* (compile.go, model.go) and what a query reads of it through the         *)
(* realtime overlay.  Positions and indices count from 1.                  *)
(*                                                                         *)
(* A feed is [stops, outside, rail, trips]: the number of its stops, those *)
(* outside the street graph, its rail routes, and its trips                *)
(*   [id, route, service, offMap, stops, arr, dep, seq]                    *)
(* where offMap says that the trip's shape leaves the street graph.        *)
(***************************************************************************)
EXTENDS Integers, Sequences, FiniteSets, SequencesExt, Selection

CONSTANTS
  DaySec,   \* the length of a service day
  Inf       \* raptor.go: the time of what is not reached

ASSUME TimesAssumption == DaySec \in Nat \ {0} /\ Inf \in Nat /\ DaySec < Inf

-----------------------------------------------------------------------------
(* Compile: trips that stay on the map, grouped by route and stop sequence *)
(* and sorted by first departure.                                          *)

StopOffset(feeds, f) ==
  LET off[i \in 0..Len(feeds)] == IF i = 0 THEN 0 ELSE off[i - 1] + feeds[i].stops
  IN  off[f - 1]

StopCount(feeds) == StopOffset(feeds, Len(feeds) + 1)

Covered(feed, trip) ==
  /\ Len(trip.stops) >= 2
  /\ \A i \in 1..Len(trip.stops) : trip.stops[i] \notin feed.outside
  /\ ~trip.offMap

Merged(feeds, f, trip) ==
  [key |-> <<f, trip.id>>, route |-> <<f, trip.route>>, rail |-> trip.route \in feeds[f].rail,
   service |-> <<f, trip.service>>,
   stops |-> [i \in 1..Len(trip.stops) |-> StopOffset(feeds, f) + trip.stops[i]],
   arr |-> trip.arr, dep |-> trip.dep, seq |-> trip.seq]

\* The trips of all feeds that are kept, in the order of the feeds.
KeptTrips(feeds) ==
  FlattenSeq([f \in 1..Len(feeds) |->
    LET kept == SelectSeq(feeds[f].trips, LAMBDA t : Covered(feeds[f], t))
    IN  [i \in 1..Len(kept) |-> Merged(feeds, f, kept[i])]])

PatternKey(trip) == <<trip.route, trip.stops>>

PatternKeys(kept) ==
  FoldLeft(LAMBDA keys, t : IF Contains(keys, PatternKey(t)) THEN keys
                            ELSE Append(keys, PatternKey(t)),
           <<>>, kept)

\* Ties in sort.Slice keep their order (so few trips are sorted by insertion).
DepartsBefore(a, b) == a.dep[1] < b.dep[1]

\* Mutant: trips stay in the order of the feed.
MutTripsOf(kept, key) == SelectSeq(kept, LAMBDA t : PatternKey(t) = key)

TripsOf(kept, key) ==
  FoldLeft(LAMBDA sorted, t :
             LET later == SelectInSeq(sorted, LAMBDA u : DepartsBefore(t, u))
             IN  IF later = 0 THEN Append(sorted, t) ELSE InsertAt(sorted, later, t),
           <<>>, SelectSeq(kept, LAMBDA t : PatternKey(t) = key))

Compile(feeds) ==
  LET kept   == KeptTrips(feeds)
      keys   == PatternKeys(kept)
      groups == [p \in 1..Len(keys) |-> TripsOf(kept, keys[p])]
      first[p \in 1..(Len(keys) + 1)] ==
        IF p = 1 THEN 1 ELSE first[p - 1] + Len(groups[p - 1])
  IN  [nstops |-> StopCount(feeds),
       trips  |-> FlattenSeq(groups),
       pats   |-> [p \in 1..Len(keys) |->
                     [rail |-> groups[p][1].rail, stops |-> groups[p][1].stops,
                      lo |-> first[p], hi |-> first[p + 1] - 1]]]

\* What it makes of feeds that are in order: trips of one id and stops of one
\* sequence number only once, a time at each of a trip's stops, each trip in the
\* range of a pattern, along its stops, and a rail line's where the pattern is.
IsCompiled(tt) ==
  /\ tt.nstops \in Nat /\ Len(tt.pats) \in Nat /\ DOMAIN tt.pats = 1..Len(tt.pats)
  /\ Len(tt.trips) \in Nat /\ DOMAIN tt.trips = 1..Len(tt.trips)
  /\ \A t \in 1..Len(tt.trips) :
       LET trip == tt.trips[t]
       IN  /\ trip.stops \in Seq(1..tt.nstops)
           /\ {trip.arr, trip.dep} \in SUBSET [1..Len(trip.stops) -> Nat]
           /\ trip.seq \in [1..Len(trip.stops) -> Int] /\ Len(trip.stops) >= 2
           /\ \A i, j \in 1..Len(trip.stops) : trip.seq[i] = trip.seq[j] => i = j
           /\ \A u \in 1..Len(tt.trips) : tt.trips[u].key = trip.key => u = t
           /\ \E p \in 1..Len(tt.pats) : t \in tt.pats[p].lo..tt.pats[p].hi
  /\ \A p \in 1..Len(tt.pats) :
       LET pat == tt.pats[p]
       IN  /\ pat.stops \in Seq(1..tt.nstops) /\ pat.lo \in Nat /\ pat.hi \in Nat
           /\ \A t \in pat.lo..pat.hi : /\ t \in 1..Len(tt.trips) /\ tt.trips[t].stops = pat.stops
                                        /\ tt.trips[t].rail = pat.rail

-----------------------------------------------------------------------------
(* Accessors                                                               *)

StopsOf(tt) == 1..tt.nstops
PatternOfTrip(tt, t) == CHOOSE p \in 1..Len(tt.pats) : t \in tt.pats[p].lo..tt.pats[p].hi
PatternStops(tt, t) == tt.pats[PatternOfTrip(tt, t)].stops
TripLen(tt, t) == Len(tt.trips[t].arr)

\* TripIdx: 0 when the timetable has no such trip.
TripIdx(tt, key) == SelectInSeq(tt.trips, LAMBDA t : t.key = key)

\* 0 when the trip has no such stop_sequence.
TripSeqPos(tt, t, seq) == SelectInSeq(tt.trips[t].seq, LAMBDA x : x = seq)

\* The patterns that serve stop s, with each of its positions in them.
PatternsOf(tt, s) ==
  Joined([p \in 1..Len(tt.pats) |->
    LET at == AscendingIn(Len(tt.pats[p].stops), {i \in 1..Len(tt.pats[p].stops) : tt.pats[p].stops[i] = s})
    IN  [i \in 1..Len(at) |-> [pat |-> p, pos |-> at[i]]]])

\* An overlay is [delta, skip, hasRT, passed, vehPos, vehTime], per trip;
\* delta[t] is empty for a trip without an update, else [arr, dep, skip] per
\* position; no position passed and no vehicle is 0.
NoOverlay(tt) ==
  LET All(v) == [t \in 1..Len(tt.trips) |-> v]
  IN  [delta |-> All(<<>>), skip |-> All(FALSE), hasRT |-> All(FALSE),
       passed |-> All(0), vehPos |-> All(0), vehTime |-> All(0)]

AddDelta(v, d) == IF v + d < 0 THEN 0 ELSE v + d

TripArr(tt, ov, t, pos) ==
  IF ov.delta[t] = <<>> THEN tt.trips[t].arr[pos]
  ELSE AddDelta(tt.trips[t].arr[pos], ov.delta[t][pos].arr)

TripDep(tt, ov, t, pos) ==
  IF ov.delta[t] = <<>> THEN tt.trips[t].dep[pos]
  ELSE AddDelta(tt.trips[t].dep[pos], ov.delta[t][pos].dep)

TripSkipped(ov, t) == ov.skip[t]
StopSkipped(ov, t, pos) == ov.delta[t] # <<>> /\ ov.delta[t][pos].skip

\* raptor.go, addDay: yesterday's trips before midnight cannot be used.
AddDay(sec, off) == IF sec + off < 0 THEN Inf ELSE sec + off

====
