---- MODULE Overlay ----
(***************************************************************************)
(* The realtime overlay that internal/rt/overlay.go projects from decoded  *)
(* GTFS-Realtime feeds onto a compiled timetable.                          *)
(*                                                                         *)
(* A feed message is [feed, timestamp, received, trips, vehicles], in the  *)
(* order in which the projection visits them (per source the trip update   *)
(* endpoint, then the vehicle endpoint).  A trip update is                 *)
(*   [trip, cancelled, delay, startDay, stus]                              *)
(* and a stop time update [seq, stop, skipped, arrDelay, depDelay,         *)
(* arrTime, depTime]; a vehicle is [trip, stamp, seq].  Absolute times     *)
(* count from day 0; 0 is a missing time and Absent any missing number.    *)
(***************************************************************************)
EXTENDS Timetable

CONSTANT Absent   \* proto.go: a field that the producer left out

ASSUME AbsentAssumption == Absent \in Int

\* What proto.go decodes: lists of entities, their fields numbers or absent.
Listed(s) == Len(s) \in Nat /\ DOMAIN s = 1..Len(s)
IsUpdate(tu) ==
  /\ Listed(tu.stus) /\ {tu.delay, tu.startDay} \in SUBSET Int
  /\ \A i \in 1..Len(tu.stus) : LET stu == tu.stus[i]
                               IN  {stu.arrDelay, stu.depDelay, stu.arrTime, stu.depTime} \in SUBSET Int
AreMessages(messages) ==
  /\ Listed(messages)
  /\ \A m \in 1..Len(messages) : LET msg == messages[m]
                                 IN  /\ Listed(msg.trips) /\ Listed(msg.vehicles) /\ {msg.timestamp, msg.received} \in SUBSET Nat
                                     /\ \A i \in 1..Len(msg.trips) : IsUpdate(msg.trips[i])
                                     /\ \A i \in 1..Len(msg.vehicles) : msg.vehicles[i].stamp \in Nat

-----------------------------------------------------------------------------
(* One trip update                                                         *)

\* serviceBase: without a start date, the day it is now.
ServiceBase(startDay, now) ==
  (IF startDay # Absent THEN startDay ELSE now \div DaySec) * DaySec

\* Mutant: the stop id is looked for from the start of the trip.
MutMatchSTU(tt, t, stu, cursor) ==
  IF stu.seq # Absent /\ TripSeqPos(tt, t, stu.seq) # 0 THEN TripSeqPos(tt, t, stu.seq)
  ELSE SelectInSeq(PatternStops(tt, t), LAMBDA s : s = stu.stop)

\* matchSTU: 0 when the update fits no position.
MatchSTU(tt, t, stu, cursor) ==
  IF stu.seq # Absent /\ TripSeqPos(tt, t, stu.seq) # 0 THEN TripSeqPos(tt, t, stu.seq)
  ELSE LET at == {p \in cursor..TripLen(tt, t) : PatternStops(tt, t)[p] = stu.stop}
       IN  IF at = {} THEN 0 ELSE CHOOSE p \in at : \A x \in at : p <= x

\* stuDeltas: a delay that is not given follows from the absolute time.
StuDelta(delay, time, scheduled) ==
  IF delay = Absent /\ time > 0 THEN time - scheduled ELSE delay

Or(d, other) == IF d # Absent THEN d ELSE other

\* When the vehicle leaves (or reached) the position, as far as is known.
EventTime(tt, t, pos, stu, dep, base) ==
  IF stu.depTime # 0 THEN stu.depTime
  ELSE IF stu.arrTime # 0 THEN stu.arrTime ELSE base + tt.trips[t].dep[pos] + dep

\* Positions from cursor to before pos take the running delay.
FillTo(acc, pos) ==
  [acc EXCEPT !.delta = [i \in DOMAIN @ |-> IF i \in acc.cursor..(pos - 1)
                                            THEN [@[i] EXCEPT !.arr = acc.prop, !.dep = acc.prop]
                                            ELSE @[i]]]

\* The running delay stays what it was when the update states none.
SetAt(acc, pos, stu, arr, dep, evt, now) ==
  [acc EXCEPT
     !.delta[pos] = [arr |-> arr, dep |-> dep, skip |-> @.skip \/ stu.skipped],
     !.prop = dep, !.cursor = pos + 1,
     !.passed = IF evt > 0 /\ evt <= now /\ pos > @ THEN pos ELSE @]

ApplySTU(tt, t, acc0, stu, base, now) ==
  LET pos == MatchSTU(tt, t, stu, acc0.cursor)
      At(acc) ==
        LET arr == Or(StuDelta(stu.arrDelay, stu.arrTime, base + tt.trips[t].arr[pos]), acc.prop)
            dep == Or(StuDelta(stu.depDelay, stu.depTime, base + tt.trips[t].dep[pos]), arr)
        IN  SetAt(acc, pos, stu, arr, dep, EventTime(tt, t, pos, stu, dep, base), now)
  IN  IF pos = 0 THEN acc0 ELSE At(FillTo(acc0, pos))

\* applyTripUpdate
ApplyTripUpdate(tt, t, tu, passed, now) ==
  LET none == [arr |-> 0, dep |-> 0, skip |-> FALSE]
      acc  == FoldLeft(LAMBDA a, stu : ApplySTU(tt, t, a, stu, ServiceBase(tu.startDay, now), now),
                       [delta |-> [i \in 1..TripLen(tt, t) |-> none], prop |-> Or(tu.delay, 0),
                        cursor |-> 1, passed |-> passed], tu.stus)
  IN  FillTo(acc, TripLen(tt, t) + 1)

-----------------------------------------------------------------------------
(* All messages                                                            *)

Deltas(ov, t, applied) == [ov EXCEPT !.hasRT[t] = TRUE, !.delta[t] = applied.delta, !.passed[t] = applied.passed]

AddTrip(tt, ov, msg, tu, now) ==
  LET t == TripIdx(tt, <<msg.feed, tu.trip>>)
  IN  IF t = 0 THEN ov
      ELSE IF tu.cancelled THEN [ov EXCEPT !.hasRT[t] = TRUE, !.skip[t] = TRUE]
      ELSE IF ov.delta[t] # <<>> THEN [ov EXCEPT !.hasRT[t] = TRUE]
      ELSE Deltas(ov, t, ApplyTripUpdate(tt, t, tu, ov.passed[t], now))

\* A vehicle's own time, else its feed's, else when that was received.
StampOf(msg, v) ==
  IF v.stamp # 0 THEN v.stamp ELSE IF msg.timestamp # 0 THEN msg.timestamp ELSE msg.received

\* A late response must not roll the vehicle back.
Older(previous, stamp) == previous # 0 /\ (stamp = 0 \/ stamp < previous)

AddVehicle(tt, ov, msg, v) ==
  LET t     == TripIdx(tt, <<msg.feed, v.trip>>)
      stamp == StampOf(msg, v)
      pos   == IF v.seq = Absent THEN 0 ELSE TripSeqPos(tt, t, v.seq)
  IN  IF t = 0 \/ Older(ov.vehTime[t], stamp) THEN ov
      ELSE [ov EXCEPT !.vehTime[t] = stamp, !.hasRT[t] = TRUE,
                      !.vehPos[t] = IF pos = 0 THEN @ ELSE pos,
                      !.passed[t] = IF pos - 1 > @ THEN pos - 1 ELSE @]

\* buildOverlay: trips first, then vehicles, message by message.
BuildOverlay(tt, messages, now) ==
  FoldLeft(LAMBDA ov, msg :
             FoldLeft(LAMBDA o, v : AddVehicle(tt, o, msg, v),
                      FoldLeft(LAMBDA o, tu : AddTrip(tt, o, msg, tu, now), ov, msg.trips),
                      msg.vehicles),
           NoOverlay(tt), messages)

-----------------------------------------------------------------------------
(* What the projection promises.                                           *)

\* The updates in a message that the projection may apply to a trip: no
\* cancellations.
UpdatesIn(tt, msg, t) ==
  {i \in 1..Len(msg.trips) : <<msg.feed, msg.trips[i].trip>> = tt.trips[t].key /\ ~msg.trips[i].cancelled}

\* The i-th update of the m-th message is the first of them.
FirstUpdate(tt, messages, t, m, i) ==
  /\ i \in UpdatesIn(tt, messages[m], t) /\ \A j \in UpdatesIn(tt, messages[m], t) : i <= j
  /\ \A k \in 1..(m - 1) : UpdatesIn(tt, messages[k], t) = {}

\* The positions that stop time updates name: by stop_sequence, or the next visit
\* to the stop after the one named before; 0 from the first that names none.
Named(tt, t, stus) ==
  LET next(stu, after) ==
        {p \in (after + 1)..TripLen(tt, t) : IF stu.seq # Absent THEN tt.trips[t].seq[p] = stu.seq
                                             ELSE tt.trips[t].stops[p] = stu.stop}
      at[i \in 0..Len(stus)] ==
        IF i = 0 THEN 0
        ELSE LET later == next(stus[i], at[i - 1])
             IN  IF (i > 1 /\ at[i - 1] = 0) \/ later = {} THEN 0 ELSE CHOOSE p \in later : \A x \in later : p <= x
  IN  [i \in 1..Len(stus) |-> at[i]]

\* They name ever later positions.
InOrder(tt, t, stus) == \A i \in 1..Len(stus) : Named(tt, t, stus)[i] # 0

\* "a StopTimeUpdate's delay holds from its stop onward until the next update"
\* (overlay.go:129): the departure delay in force at a position.
DelayAt(tt, t, tu, pos, base) ==
  LET at     == Named(tt, t, tu.stus)
      before == {i \in 1..Len(tu.stus) : at[i] <= pos}
      Stated(i) ==
        LET stu == tu.stus[i]
            arr == StuDelta(stu.arrDelay, stu.arrTime, base + tt.trips[t].arr[at[i]])
        IN  Or(StuDelta(stu.depDelay, stu.depTime, base + tt.trips[t].dep[at[i]]), arr)
      stating == {i \in before : Stated(i) # Absent}
  IN  IF stating = {} THEN Or(tu.delay, 0)
      ELSE Stated(CHOOSE i \in stating : \A j \in stating : j <= i)

\* A cancellation of the trip was heard.
CancelledIn(tt, messages, t) ==
  \E m \in 1..Len(messages) : \E i \in 1..Len(messages[m].trips) :
    messages[m].trips[i].cancelled /\ <<messages[m].feed, messages[m].trips[i].trip>> = tt.trips[t].key

\* Vehicle entities of a trip, with their stamps.
StampsOf(tt, messages, t) ==
  UNION {{StampOf(messages[m], messages[m].vehicles[i]) :
            i \in {n \in 1..Len(messages[m].vehicles) :
                     <<messages[m].feed, messages[m].vehicles[n].trip>> = tt.trips[t].key}}
           : m \in 1..Len(messages)}
====
