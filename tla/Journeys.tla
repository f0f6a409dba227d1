---- MODULE Journeys ----
(***************************************************************************)
(* What RAPTOR's answers are worth: an exhaustive reference over riders    *)
(* who board any trip, alight anywhere and walk one footpath per ride, and *)
(* what the answers must have in common with it.                           *)
(***************************************************************************)
EXTENDS Raptor

Trips == 1..Len(tt.trips)
Days(qy) == {[off |-> -DaySec, active |-> qy.yesterday], [off |-> 0, active |-> qy.today]}

\* A rider: where, since when, off which trip (0: none yet), whether that or
\* what came before was a train and when it arrived, and whether they walked since.
AtSource(qy, s) ==
  [stop |-> s, time |-> qy.sources[s].sec, trip |-> 0, train |-> qy.sources[s].rail,
   arr |-> qy.sources[s].arr, walked |-> FALSE]

Walked(r, d) == [r EXCEPT !.stop = d, !.time = @ + net.foot[r.stop][d], !.walked = TRUE]
WalksOf(r) == {Walked(r, d) : d \in {s \in Stops : net.foot[r.stop][s] < Inf}}

\* "Crossing the road does not remove the boarding allowance" (raptor.go:366);
\* a change between trains is measured from the arrival of the first.
ReadyFor(qy, r, t) ==
  LET rail  == tt.trips[t].rail
      slack == IF r.trip # 0 /\ ~(rail /\ r.walked) THEN qy.slack ELSE 0
  IN  IF rail /\ r.train THEN MaxOf({r.time + slack, r.arr + qy.change})
      ELSE r.time + (IF rail THEN MaxOf({slack, qy.entry}) ELSE slack)

MayBoard(r, t, b, day, ready) ==
  /\ tt.trips[t].stops[b] = r.stop
  /\ tt.trips[t].service \in day.active
  /\ ~ov.skip[t] /\ ~StopSkipped(ov, t, b)
  /\ TripDep(tt, ov, t, b) + day.off >= ready

AlightsFrom(t, b, day) ==
  {[stop |-> tt.trips[t].stops[a], time |-> AddDay(TripArr(tt, ov, t, a), day.off), trip |-> t,
    train |-> tt.trips[t].rail, arr |-> AddDay(TripArr(tt, ov, t, a), day.off), walked |-> FALSE]
     : a \in {i \in (b + 1)..TripLen(tt, t) : ~StopSkipped(ov, t, i)}}

RidesOf(qy, r) ==
  UNION {UNION {UNION {AlightsFrom(t, b, day) :
                         b \in {i \in 1..TripLen(tt, t) : MayBoard(r, t, i, day, ReadyFor(qy, r, t))}}
                  : t \in Trips} : day \in Days(qy)}

\* The riders after each number of rides.
Riders(qy) ==
  LET Start == {AtSource(qy, s) : s \in DOMAIN qy.sources}
      f[k \in 0..qy.maxRides] ==
        IF k = 0 THEN Start \cup UNION {WalksOf(r) : r \in {x \in Start : x.train}}
        ELSE LET off == {r \in UNION {RidesOf(qy, x) : x \in f[k - 1]} : r.time < Inf}
             IN  off \cup UNION {WalksOf(r) : r \in off}
  IN  f

\* The earliest arrival of the riders with k rides.
Earliest(qy, riders, k) ==
  MinOf({Inf} \cup {r.time + qy.targets[r.stop] : r \in {x \in riders[k] : x.stop \in DOMAIN qy.targets}})

-----------------------------------------------------------------------------
(* A journey, ridden leg by leg.                                           *)

DayOf(leg) == CHOOSE day \in Days(q) : day.off = leg.day

\* With the allowances of a change, or just in time.
RideLeg(r, leg, allowances) ==
  IF leg.ride
  THEN {x \in IF MayBoard(r, leg.trip, leg.board, DayOf(leg),
                          IF allowances THEN ReadyFor(q, r, leg.trip) ELSE r.time)
              THEN AlightsFrom(leg.trip, leg.board, DayOf(leg)) ELSE {}
          : /\ ~StopSkipped(ov, leg.trip, leg.alight)
            /\ x.time = AddDay(TripArr(tt, ov, leg.trip, leg.alight), leg.day)
            /\ x.stop = tt.trips[leg.trip].stops[leg.alight]}
  ELSE {x \in WalksOf(r) : r.stop = leg.from /\ x.stop = leg.to}

\* No path of two walks is shorter than the footpath between its ends.
WalksClosed ==
  \A a, b, c \in Stops : (a # c /\ net.foot[a][b] < Inf /\ net.foot[b][c] < Inf) =>
                           net.foot[a][c] <= net.foot[a][b] + net.foot[b][c]

\* Nowhere does a trip arrive before it has left, or arrived, earlier on its way.
Ascends(t) == \A i, j \in 1..TripLen(tt, t) : i < j => /\ TripDep(tt, ov, t, i) <= TripArr(tt, ov, t, j)
                                                       /\ TripArr(tt, ov, t, i) <= TripArr(tt, ov, t, j)
VisitsTwice(t) == ~IsInjective(tt.trips[t].stops)
LoopsPlain == \A t \in Trips : VisitsTwice(t) => Ascends(t) /\ \A i \in 1..TripLen(tt, t) : ~StopSkipped(ov, t, i)

\* The networks in which the first ride and the last keep their allowances.
Regular == WalksClosed /\ \A t \in Trips : Ascends(t)
Strict(r, legs, i) == Regular /\ (r.trip = 0 \/ \A n \in (i + 1)..Len(legs) : ~legs[n].ride)

\* The riders who follow a journey's legs to their end.
Ridden(j) ==
  FoldLeft(LAMBDA riders, i : UNION {RideLeg(r, j.legs[i], Strict(r, j.legs, i)) : r \in riders},
           {AtSource(q, s) : s \in DOMAIN q.sources}, [i \in 1..Len(j.legs) |-> i])

Complete == pc = "answered" /\ ~swapped

\* Every journey can be ridden as it says: its rides run that day, serve both ends and
\* are caught, and bring the rider to the target at the promised time.  The first ride
\* and the last leave the time that the rules require for the change before them;
\* one between may not (a label that is kept from an earlier round was caught from a
\* place that a later round has reached otherwise), nor any where two footpaths lead
\* farther than the radius allows one to, since the code may chain them.
JourneysRealisable ==
  Complete /\ LoopsPlain =>
    \A i \in 1..Len(journeys) :
      \E r \in Ridden(journeys[i]) :
        /\ r.stop = journeys[i].target
        /\ IF WalksClosed THEN r.time + q.targets[r.stop] = journeys[i].arr
           ELSE r.time + q.targets[r.stop] <= journeys[i].arr

\* No trip of a pattern is ahead of one that leaves before it by the timetable, or
\* with it and comes first in the feed (the later one could then not be searched for).
Ahead(t, u) == \A i \in 1..TripLen(tt, t) : /\ TripArr(tt, ov, t, i) <= TripArr(tt, ov, u, i)
                                            /\ TripDep(tt, ov, t, i) <= TripDep(tt, ov, u, i)
LeavesBefore(t, u) ==
  IF t <= u THEN ~DepartsBefore(tt.trips[u], tt.trips[t]) ELSE DepartsBefore(tt.trips[t], tt.trips[u])
NoOvertaking == \A p \in Pats : \A t, u \in tt.pats[p].lo..tt.pats[p].hi : LeavesBefore(t, u) => Ahead(t, u)

\* What earliest arrivals rest on; with trains, skipped stops or chained walks the
\* first arrival at a stop need not be the best one to go on from.
PlainNetwork ==
  /\ WalksClosed /\ NoOvertaking
  /\ \A t \in Trips : ~tt.trips[t].rail /\ \A i \in 1..TripLen(tt, t) : ~StopSkipped(ov, t, i)
Plain == PlainNetwork /\ \A s \in DOMAIN q.sources : ~q.sources[s].rail

\* For each number of rides, the journeys with at most so many rides include
\* the earliest arrival there is: "earliest-arrival", "pareto" (raptor.go).
ParetoOptimal ==
  Complete /\ Plain =>
    LET riders == Riders(q)
        Found(k) == MinOf({Inf, arrAt[0]} \cup {journeys[i].arr : i \in {j \in 1..Len(journeys) : journeys[j].rides <= k}})
    IN  \A k \in 1..q.maxRides : Found(k) = MinOf({Earliest(q, riders, j) : j \in 0..k})

\* Even when the overlay changes under a query, its journeys hang together:
\* from a source to the target, each leg where the last one ended.
JourneysConnected ==
  pc = "answered" =>
    \A i \in 1..Len(journeys) :
      LET legs == journeys[i].legs
          From(l) == IF l.ride THEN tt.trips[l.trip].stops[l.board] ELSE l.from
          To(l)   == IF l.ride THEN tt.trips[l.trip].stops[l.alight] ELSE l.to
      IN  /\ legs # <<>> /\ From(legs[1]) \in DOMAIN q.sources
          /\ To(legs[Len(legs)]) = journeys[i].target
          /\ \A n \in 1..(Len(legs) - 1) : To(legs[n]) = From(legs[n + 1])
          /\ \A n \in 1..Len(legs) : legs[n].ride => legs[n].board < legs[n].alight
          /\ journeys[i].rides \in 1..q.maxRides
====
