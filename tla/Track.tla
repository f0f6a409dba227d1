---- MODULE Track ----
(***************************************************************************)
(* internal/track, one session: Run waits for news, a fix or its ticker    *)
(* and evaluates.  An evaluation advances the virtual rider along the plan *)
(* by clock, feed and GPS evidence, and then looks for a reason to replan, *)
(* in a fixed order: at most one a cycle.  Evaluations are not interrupted:*)
(* the timetable and overlay they read are those of their beginning.       *)
(*                                                                         *)
(* Of the clock it is said which of its conditions hold eventually: how    *)
(* late a leg is may be chosen anew at every look at it.  Distances and    *)
(* the time for which they hold are classified by what the session makes   *)
(* of them.  Rail readiness times, statistics and the texts of events are  *)
(* left out.                                                               *)
(***************************************************************************)
EXTENDS Naturals, Sequences

CONSTANTS
  Trips,      \* trips the planner may use
  RailTrips,  \* those of rail-like routes
  Plans,      \* itineraries: sequences of legs
  TryGap,     \* the pause between two attempts of reroute (10 s)
  Cooldown,   \* betterArrivalCooldown
  Sightings,  \* bound: the fixes a rider may send
  MaxNews,    \* bound: news of trips
  MaxEvents   \* bound: news of trips and fixes of the rider

NoTrip == "none"
Modes == {"walk", "rental", "transit"}
Legs == [mode : Modes, trip : Trips \cup {NoTrip}, boarded : BOOLEAN]

NoFix == [at |-> "nowhere", trip |-> NoTrip]
\* At a stop, following the shape away from it (100 m or less, or more), with
\* the vehicle, or far beyond the alighting stop on the shape.
Places == {"stop", "following", "away", "vehicle", "alight", "beyond"}
Fixes == [at : {"plan", "end", "off"}, trip : {NoTrip}] \cup [at : Places, trip : Trips]

ASSUME ConstantsAssumption ==
  /\ NoTrip \notin Trips /\ RailTrips \subseteq Trips /\ Sightings \subseteq Fixes
  /\ TryGap \in Nat /\ Cooldown \in Nat /\ MaxNews \in Nat /\ MaxEvents \in Nat
  /\ \A p \in Plans :
       /\ p \in Seq(Legs) /\ p # <<>>
       /\ \A i \in 1..Len(p) : /\ p[i].mode = "transit" <=> p[i].trip \in Trips
                               /\ p[i].boarded => i = 1 /\ p[i].mode = "transit"

VARIABLES
  trip,     \* what timetable and overlay say of a trip (external)
  news, fixes,
  pc,       \* Run's select, or a stage of evaluate
  why,      \* the reason of the replan under way
  it, legIdx, boarded, boardedByShape, atStop, liveMode, opaque,
  started,  \* the rental leg whose last check succeeded
  gps,      \* where the last fresh fix is, if there is one
  reached,  \* gps.reachedStops, by the trip that is boarded there
  deviated, \* gps.deviated, by leg
  sinceTry, \* age of lastTry
  sinceRR,  \* age of lastRR
  calm,     \* history: time since the last reroute event
  on,       \* history: the trip the rider was last promoted onto
  lost,     \* history: the trip boarded vanished and the clock ended its leg
  owed      \* history: a deviation was announced, no reroute has followed

world == <<trip, news, fixes>>
plan == <<it, liveMode, started>>
rider == <<legIdx, boarded, boardedByShape, atStop, on, lost>>
evidence == <<opaque, gps, reached, deviated>>
pace == <<sinceTry, sinceRR, calm>>
vars == <<world, pc, why, plan, rider, evidence, pace, owed>>

\* Of a trip there is no live data, or it is known to be before the boarding
\* stop, past it, or past the alighting stop; it is cancelled, or seen but
\* skipping a stop of the plan; it is not in the timetable.
TripStates == {"unknown", "before", "board", "alight", "cancelled", "skipping", "gone"}

Hard == {"shared", "stayed_on_vehicle", "off_route", "too_slow", "left_stop", "missed",
         "cancelled"}
Soft == {"connection_risk", "unconfirmed_trip"}
Reasons == Hard \cup Soft \cup {"better_arrival"}

Ahead == legIdx..Len(it)
Ride(i) == it[i].mode = "transit"
Rail(i) == Ride(i) /\ it[i].trip \in RailTrips
State(i) == trip[it[i].trip]
Resolved(i) == State(i) # "gone"
Skipped(i) == State(i) \in {"cancelled", "skipping"}
Fresh == gps # NoFix
Fix(place, t) == gps = [at |-> place, trip |-> t]

First(S) == CHOOSE i \in S : \A j \in S : i <= j
Last(S) == CHOOSE i \in S : \A j \in S : j <= i
RidesFrom(i) == {j \in i..Len(it) : Ride(j)}
RidesBefore(i) == {j \in 1..(i - 1) : Ride(j)}

\* The rides still to be boarded, and the one to be boarded next.
Boardings == {i \in RidesFrom(legIdx) : ~(i = legIdx /\ boarded)}
NextBoarding == {i \in Boardings : i = First(RidesFrom(legIdx))}

\* A rail ride whose vehicle nobody has seen lately.
Assumed(i) == Rail(i) /\ State(i) \in {"unknown", "cancelled", "gone"}
Tracked(i) == Ride(i) /\ Resolved(i) /\ ~Skipped(i) /\ ~Assumed(i)

\* An assumed ride, or the walk between two rail rides one of which is.
OpaqueAt(i) ==
  IF Ride(i) THEN Assumed(i)
  ELSE /\ RidesBefore(i) # {} /\ RidesFrom(i) # {}
       /\ LET prev == Last(RidesBefore(i))
              next == First(RidesFrom(i))
          IN  Rail(prev) /\ Rail(next) /\ (Assumed(prev) \/ Assumed(next))

SetOpaque(o) ==
  /\ opaque' = o
  /\ IF o /\ ~opaque THEN gps' = NoFix /\ reached' = {} /\ deviated' = {}
     ELSE UNCHANGED <<gps, reached, deviated>>

\* gpsShapeBoarding: moving along the shape from a stop that was reached.
Following(i) ==
  /\ it[i].trip \in reached /\ Resolved(i)
  /\ Fix("following", it[i].trip) \/ Fix("away", it[i].trip)
ShapeBoarded(i) == Following(i) /\ Fix("away", it[i].trip)
ShapeBoardingInProgress == \E i \in NextBoarding : Following(i)

-----------------------------------------------------------------------------
Init ==
  /\ trip = [t \in Trips |-> "before"] /\ news = 0 /\ fixes = 0
  /\ pc = "wake" /\ why = "none"
  /\ it \in Plans /\ liveMode \in BOOLEAN /\ started = 0
  /\ legIdx = 1 /\ boarded = it[1].boarded /\ boardedByShape = FALSE /\ atStop = NoTrip
  /\ opaque = FALSE /\ gps = NoFix /\ reached = {} /\ deviated = {}
  /\ sinceTry = TryGap /\ sinceRR = Cooldown /\ calm = Cooldown
  /\ on = it[1].trip /\ lost = FALSE /\ owed = FALSE

-----------------------------------------------------------------------------
(* Between two evaluations.                                                *)

News(t, s) ==
  /\ pc = "select" /\ news < MaxNews /\ news + fixes < MaxEvents
  /\ trip[t] # s
  /\ trip' = [trip EXCEPT ![t] = s] /\ news' = news + 1
  /\ UNCHANGED <<fixes, pc, why, plan, rider, evidence, pace, owed>>

\* Fixes are ignored where the position is assumed.
FixArrives(f) ==
  /\ pc = "select" /\ news + fixes < MaxEvents
  /\ gps' = IF opaque THEN gps ELSE f
  /\ fixes' = fixes + 1
  /\ pc' = "wake"
  /\ UNCHANGED <<trip, news, why, plan, rider, opaque, reached, deviated, pace, owed>>

FixExpires ==
  /\ pc = "select" /\ Fresh
  /\ gps' = NoFix
  /\ UNCHANGED <<world, pc, why, plan, rider, opaque, reached, deviated, pace, owed>>

Older(age, limit) == IF age < limit THEN age + 1 ELSE age

Tick ==
  /\ pc = "select"
  /\ sinceTry' = Older(sinceTry, TryGap)
  /\ sinceRR' = Older(sinceRR, Cooldown)
  /\ calm' = Older(calm, Cooldown)
  /\ UNCHANGED <<world, pc, why, plan, rider, evidence, owed>>

\* arriveAtBoardingStop: a fix at the next boarding stop completes the access.
Begin ==
  /\ pc \in {"select", "wake"}
  /\ pc' = "advance"
  /\ LET here == {i \in RidesFrom(legIdx) :
                    /\ ~boarded /\ ~OpaqueAt(legIdx)
                    /\ i \in NextBoarding /\ Fix("stop", it[i].trip)}
     IN  IF here = {} THEN UNCHANGED <<legIdx, atStop, reached>>
         ELSE \E i \in here : /\ legIdx' = i
                              /\ atStop' = it[i].trip
                              /\ reached' = reached \cup {it[i].trip}
  /\ UNCHANGED <<world, why, plan, boarded, boardedByShape, opaque, gps, deviated, on, lost, pace, owed>>

-----------------------------------------------------------------------------
(* advance: the virtual rider.  What waits for a clock may happen at any   *)
(* look; a rail ride may be held back by its readiness time at any look.   *)

Advancing == pc = "advance" /\ legIdx <= Len(it)
StaysInLoop == UNCHANGED <<world, pc, why, plan, pace, owed>>

Arrive ==
  /\ pc = "advance" /\ legIdx > Len(it)
  /\ pc' = "done"
  /\ UNCHANGED <<world, why, plan, rider, evidence, pace, owed>>

PickedUp ==
  /\ legIdx < Len(it) /\ Ride(legIdx + 1) /\ ~Assumed(legIdx + 1)
  /\ ShapeBoarded(legIdx + 1)

\* Picked up by the vehicle while the walk to it was still the current leg.
BoardNextRideFromAccessShape ==
  /\ Advancing /\ ~Ride(legIdx) /\ PickedUp
  /\ legIdx' = legIdx + 1
  /\ boarded' = TRUE /\ boardedByShape' = TRUE /\ atStop' = NoTrip
  /\ on' = it[legIdx + 1].trip
  /\ SetOpaque(FALSE)
  /\ pc' = "checks"
  /\ lost' = FALSE
  /\ UNCHANGED <<world, why, plan, pace, owed>>

AtEnd ==
  /\ ~OpaqueAt(legIdx)
  /\ \/ gps.at = "end"
     \/ legIdx < Len(it) /\ Ride(legIdx + 1) /\ Fix("stop", it[legIdx + 1].trip)

CompleteStreet ==
  /\ Advancing /\ ~Ride(legIdx) /\ ~PickedUp
  /\ legIdx' = legIdx + 1
  /\ boarded' = FALSE /\ boardedByShape' = FALSE /\ lost' = FALSE
  /\ UNCHANGED <<atStop, evidence, on>>
  /\ StaysInLoop

\* An unseen train is boarded, and left, by the clock alone.
AssumeBoard ==
  /\ Advancing /\ Assumed(legIdx) /\ ~Skipped(legIdx) /\ ~boarded
  /\ boarded' = TRUE /\ boardedByShape' = FALSE
  /\ on' = it[legIdx].trip
  /\ SetOpaque(TRUE)
  /\ UNCHANGED <<legIdx, atStop, lost>>
  /\ StaysInLoop

\* Mutant: the next leg inherits "on board".
MutAlightKeepsBoarded ==
  /\ legIdx' = legIdx + 1
  /\ boardedByShape' = FALSE /\ atStop' = NoTrip
  /\ UNCHANGED <<boarded, on, lost>>

CompleteAlight ==
  /\ legIdx' = legIdx + 1
  /\ boarded' = FALSE /\ boardedByShape' = FALSE /\ atStop' = NoTrip
  /\ lost' = FALSE
  /\ UNCHANGED on

AssumeAlight ==
  /\ Advancing /\ Assumed(legIdx) /\ ~Skipped(legIdx) /\ boarded
  /\ CompleteAlight
  /\ SetOpaque(TRUE)
  /\ StaysInLoop

\* The trip is not in the new timetable: its leg ends by the clock.
VanishedFallback ==
  /\ Advancing /\ Ride(legIdx) /\ ~Rail(legIdx) /\ ~Resolved(legIdx)
  /\ legIdx' = legIdx + 1
  /\ lost' = (lost \/ boarded)
  /\ UNCHANGED <<boarded, boardedByShape, atStop, evidence, on>>
  /\ StaysInLoop

SeenToBoard(i) == ShapeBoarded(i) \/ State(i) \in {"board", "alight"}

Board ==
  /\ Advancing /\ Tracked(legIdx) /\ ~boarded
  /\ \/ SeenToBoard(legIdx) \/ State(legIdx) = "unknown"
     \/ Fix("vehicle", it[legIdx].trip)
  /\ boarded' = TRUE /\ boardedByShape' = ShapeBoarded(legIdx) /\ atStop' = NoTrip
  /\ on' = it[legIdx].trip
  /\ UNCHANGED <<legIdx, evidence, lost>>
  /\ StaysInLoop

\* Mutant: without a fix only the feed ends a ride.
MutOnlyFeedAlights(i) ==
  State(i) = "alight" /\ (Fresh => gps.at \in {"alight", "beyond", "end", "off"})

\* A fix elsewhere outweighs the clock; on the ride's shape it outweighs the feed.
FixAllowsAlight(i) ==
  \/ ~Fresh \/ Fix("alight", it[i].trip)
  \/ /\ State(i) = "alight"
     /\ ~(gps.trip = it[i].trip /\ gps.at \in {"stop", "following", "away", "vehicle"})

Alight ==
  /\ Advancing /\ Tracked(legIdx) /\ boarded
  /\ FixAllowsAlight(legIdx)
  /\ CompleteAlight
  /\ UNCHANGED evidence
  /\ StaysInLoop

MustAdvance ==
  \/ ~Ride(legIdx) /\ (PickedUp \/ AtEnd)
  \/ /\ Tracked(legIdx) /\ ~Rail(legIdx)
     /\ IF boarded THEN ~Fresh /\ State(legIdx) = "alight" ELSE SeenToBoard(legIdx)

Settle ==
  /\ Advancing /\ ~MustAdvance
  /\ SetOpaque(OpaqueAt(legIdx))
  /\ pc' = "checks"
  /\ UNCHANGED <<world, why, plan, rider, pace, owed>>

ByClock ==
  \/ CompleteStreet \/ AssumeBoard \/ AssumeAlight \/ VanishedFallback \/ Board \/ Alight

Advance == Arrive \/ BoardNextRideFromAccessShape \/ ByClock \/ Settle

-----------------------------------------------------------------------------
(* The reasons to replan, in the order in which evaluate looks for them.   *)

Propose(reason) ==
  /\ pc' = "reroute"
  /\ why' = reason
  /\ UNCHANGED <<world, it, liveMode, pace, opaque, gps>>

\* sharedUnavailable: a rental under way is no longer looked up.
Rentals == {i \in Ahead : it[i].mode = "rental" /\ ~(i = legIdx /\ started = i)}
RentalsPass(before) ==
  started' \in {started} \cup {i \in Rentals : i = legIdx /\ i < before}
AllRentalsPass == RentalsPass(Len(it) + 1)

SharedUnavailable ==
  /\ \E i \in Rentals : RentalsPass(i)
  /\ Propose("shared")
  /\ UNCHANGED <<rider, reached, deviated, owed>>

Announce(i) ==
  /\ ~opaque /\ Fresh /\ i \notin deviated
  /\ deviated' = deviated \cup {i}
  /\ owed' = TRUE
  /\ AllRentalsPass
  /\ UNCHANGED reached

\* rodePastCheck on the ride under way, and on the ride just left, whose
\* vehicle the rider is put back on.
StayedOnVehicle ==
  /\ Ride(legIdx) /\ boarded
  /\ Resolved(legIdx) /\ Fix("beyond", it[legIdx].trip)
  /\ Announce(legIdx)
  /\ Propose("stayed_on_vehicle")
  /\ UNCHANGED rider

NeverAlighted ==
  /\ ~(Ride(legIdx) /\ boarded)
  /\ RidesBefore(legIdx) # {}
  /\ LET prev == Last(RidesBefore(legIdx))
     IN  /\ Resolved(prev) /\ Fix("beyond", it[prev].trip)
         /\ Announce(prev)
         /\ legIdx' = prev
         /\ on' = it[prev].trip
  /\ boarded' = TRUE
  /\ Propose("stayed_on_vehicle")
  /\ UNCHANGED <<boardedByShape, atStop, lost>>

OffRoute ==
  /\ ~Ride(legIdx) /\ gps.at \in {"off", "beyond"}
  /\ Announce(legIdx)
  /\ Propose("off_route")
  /\ UNCHANGED rider

\* What a check that comes after these has found them to pass.
PositionPasses ==
  /\ AllRentalsPass
  /\ reached' = reached \cup {it[i].trip : i \in {j \in NextBoarding :
                                              ~opaque /\ Fix("stop", it[j].trip)}}
  /\ UNCHANGED <<deviated, owed>>

Guarded(i) == i \in NextBoarding /\ ~opaque /\ Fresh /\ ~Fix("stop", it[i].trip)

TooSlow ==
  /\ \E i \in Ahead : Guarded(i) /\ it[i].trip \notin reached
  /\ PositionPasses
  /\ Propose("too_slow")
  /\ UNCHANGED rider

LeftStop ==
  /\ \E i \in Ahead : Guarded(i) /\ it[i].trip \in reached /\ ~Following(i)
  /\ PositionPasses
  /\ atStop' = NoTrip
  /\ Propose("left_stop")
  /\ UNCHANGED <<legIdx, boarded, boardedByShape, on, lost>>

\* Mutant: only the next boarding is looked at.
MutNextRideSkipped == \E i \in NextBoarding : i = legIdx /\ Skipped(i)

\* refreshTimes, with "cancelled" for "stop_skipped" too.
SkippedAhead == \E i \in RidesFrom(legIdx) : Skipped(i)

Cancelled ==
  /\ SkippedAhead
  /\ PositionPasses
  /\ Propose("cancelled")
  /\ UNCHANGED rider

\* Mutant: a departure is missed even while its vehicle carries the rider.
MutMissedMidBoarding ==
  /\ ~SkippedAhead
  /\ \E i \in Boardings : State(i) \in {"board", "alight"} \/ Rail(i)
  /\ PositionPasses
  /\ Propose("missed")
  /\ UNCHANGED rider

Missed ==
  /\ ~SkippedAhead /\ ~ShapeBoardingInProgress
  /\ \E i \in Boardings : State(i) \in {"board", "alight"} \/ Rail(i)
  /\ PositionPasses
  /\ Propose("missed")
  /\ UNCHANGED rider

RerouteAllowed ==
  \/ liveMode
  \/ /\ RidesFrom(legIdx) # {}
     /\ LET next == First(RidesFrom(legIdx))
        IN  Rail(next) \/ State(next) \notin {"unknown", "gone"}

MayImprove ==
  /\ ~SkippedAhead /\ ~ShapeBoardingInProgress
  /\ sinceRR >= Cooldown
  /\ PositionPasses
  /\ UNCHANGED rider

ConnectionRisk ==
  /\ \E i \in Boardings : i = legIdx => atStop = NoTrip
  /\ RerouteAllowed
  /\ MayImprove
  /\ Propose("connection_risk")

UnconfirmedTrip ==
  /\ liveMode
  /\ \E i \in Boardings : ~Rail(i) /\ State(i) = "unknown"
  /\ MayImprove
  /\ Propose("unconfirmed_trip")

BetterArrival ==
  /\ ~boardedByShape /\ RerouteAllowed
  /\ MayImprove
  /\ Propose("better_arrival")

Quiet ==
  /\ pc' = "select"
  /\ ~SkippedAhead
  /\ PositionPasses
  /\ UNCHANGED <<world, why, it, liveMode, rider, opaque, gps, pace>>

Checks ==
  /\ pc = "checks"
  /\ \/ SharedUnavailable \/ StayedOnVehicle \/ NeverAlighted \/ OffRoute
     \/ TooSlow \/ LeftStop \/ Cancelled \/ Missed
     \/ ConnectionRisk \/ UnconfirmedTrip \/ BetterArrival \/ Quiet

-----------------------------------------------------------------------------
(* reroute, tryBetterArrival and switchTo                                  *)

Paced == why # "better_arrival"
Tried == sinceTry' = IF Paced THEN 0 ELSE sinceTry
MayTry == Paced => sinceTry >= TryGap

Throttled ==
  /\ Paced /\ sinceTry < TryGap
  /\ pc' = "select" /\ why' = "none"
  /\ UNCHANGED <<world, plan, rider, evidence, pace, owed>>

\* None, none feasible, or for an optional replan none that is worth it.
NoAnswer ==
  /\ MayTry
  /\ Tried
  /\ pc' = "select" /\ why' = "none"
  /\ UNCHANGED <<world, plan, rider, evidence, sinceRR, calm, owed>>

RidesOf(p) == SelectSeq(p, LAMBDA leg : leg.mode = "transit")

\* replan: on a vehicle the plans that begin on it, else those that begin on foot.
Answers ==
  {p \in Plans :
     /\ IF Ride(legIdx) /\ boarded
        THEN Resolved(legIdx) /\ p[1].boarded /\ p[1].trip = it[legIdx].trip
        ELSE ~p[1].boarded
     /\ \A i \in 1..Len(p) :
          p[i].mode = "transit" /\ ~p[i].boarded =>
            trip[p[i].trip] \notin {"cancelled", "skipping", "gone"}
     \* (plans that use the same trips use them between the same stops)
     /\ why \in Soft => RidesOf(p) # RidesOf(SubSeq(it, legIdx, Len(it)))}

KeepsVehicle(p) == boarded => p[1].boarded /\ p[1].trip = it[legIdx].trip

\* Mutant: only an improvement starts the cooldown.
MutStampImprovement == sinceRR' = IF why = "better_arrival" THEN 0 ELSE sinceRR

StampReroute == sinceRR' = 0

\* switchTo returns without a word, and its caller does not learn of it.
Refused ==
  /\ MayTry
  /\ \E p \in Answers : ~KeepsVehicle(p)
  /\ Tried /\ StampReroute
  /\ pc' = "select" /\ why' = "none"
  /\ UNCHANGED <<world, plan, rider, evidence, calm, owed>>

FreshSlate == opaque' = FALSE /\ deviated' = {}

SwitchTo(p) ==
  /\ MayTry
  /\ p \in Answers /\ KeepsVehicle(p)
  /\ Tried /\ StampReroute
  /\ calm' = 0
  /\ it' = p /\ legIdx' = 1 /\ started' = 0 /\ liveMode' \in {liveMode, TRUE}
  /\ boarded' = p[1].boarded
  /\ boardedByShape' = (p[1].boarded /\ boardedByShape)
  /\ LET there == ~p[1].boarded /\ atStop # NoTrip /\ p[1].trip = atStop
     IN  /\ atStop' = IF there THEN atStop ELSE NoTrip
         /\ reached' = IF there THEN reached \cup {atStop} ELSE reached
  /\ FreshSlate
  /\ on' = IF p[1].boarded THEN p[1].trip ELSE on
  /\ lost' = FALSE /\ owed' = FALSE
  /\ pc' = "told"
  /\ UNCHANGED <<world, why, gps>>

Return ==
  /\ pc = "told" /\ pc' = "select"
  /\ why' = "none"
  /\ UNCHANGED <<world, plan, rider, evidence, pace, owed>>

Reroute ==
  \/ pc = "reroute" /\ (Throttled \/ NoAnswer \/ Refused \/ \E p \in Plans : SwitchTo(p))
  \/ Return

-----------------------------------------------------------------------------
Evaluate == Begin \/ Advance \/ Checks \/ Reroute

Next ==
  \/ \E t \in Trips, s \in TripStates : News(t, s)
  \/ \E f \in Sightings : FixArrives(f)
  \/ FixExpires \/ Tick
  \/ Evaluate

Spec == Init /\ [][Next]_vars

HardSwitch == pc = "reroute" /\ why \in Hard /\ \E p \in Plans : SwitchTo(p)

\* Run's ticker never stops and an evaluation ends; a time that is waited for
\* comes; a planner asked over and over again has an answer in the end.
Fairness ==
  /\ WF_vars(Evaluate) /\ SF_vars(Tick)
  /\ SF_vars(ByClock) /\ SF_vars(HardSwitch)
FairSpec == Spec /\ Fairness

-----------------------------------------------------------------------------
\* The type of the state.
TypeOK ==
  /\ trip \in [Trips -> TripStates] /\ news \in 0..MaxNews /\ fixes \in 0..MaxEvents
  /\ pc \in {"select", "wake", "advance", "checks", "reroute", "told", "done"}
  /\ why \in Reasons \cup {"none"}
  /\ it \in Plans /\ liveMode \in BOOLEAN /\ started \in 0..Len(it)
  /\ legIdx \in 1..(Len(it) + 1)
  /\ boarded \in BOOLEAN /\ boardedByShape \in BOOLEAN /\ atStop \in Trips \cup {NoTrip}
  /\ opaque \in BOOLEAN /\ gps \in Sightings \cup {NoFix}
  /\ reached \subseteq Trips /\ deviated \subseteq 1..Len(it)
  /\ sinceTry \in 0..TryGap /\ sinceRR \in 0..Cooldown /\ calm \in 0..Cooldown
  /\ on \in Trips \cup {NoTrip} /\ lost \in BOOLEAN /\ owed \in BOOLEAN

\* Whatever replaced the plan or moved the rider, "on board" speaks of the
\* current leg, a ride, and of the vehicle the rider was promoted onto, except
\* after a leg whose trip vanished (track.go:134, 512-518).
BoardedIsRiding ==
  boarded /\ ~lost => legIdx <= Len(it) /\ Ride(legIdx) /\ on = it[legIdx].trip

RerouteEvent == pc' = "told" /\ pc # "told"

\* An optional replan never reaches the client within the cooldown of any
\* other replan, whichever path that one took (track.go:322-325, 425-427).
SoftPaced ==
  [][RerouteEvent /\ why \in Soft \cup {"better_arrival"} => calm >= Cooldown]_vars

\* A rider who is being carried along the planned ride's shape is not sent
\* elsewhere as late, gone, at risk or better off (track.go:398-402).
BoardingProtected ==
  [][RerouteEvent /\ why \in Soft \cup {"better_arrival", "missed", "too_slow", "left_stop"}
       => ~ShapeBoardingInProgress]_vars

\* No more fixes, no more replans, and no ride that the feed holds back.
Undisturbed ==
  /\ gps = NoFix /\ calm = Cooldown
  /\ \A i \in RidesFrom(legIdx) : ~Skipped(i) /\ State(i) # "before"

\* The clock alone brings the virtual rider to the end of a plan that nobody
\* disturbs, vanished and unseen trips included (track.go:452-602).
Arrives == <>[]Undisturbed => <>(pc = "done")

\* A plan with a cancelled or skipping ride ahead of the rider does not last:
\* "Replans keep retrying (throttled) until an alternative exists"
\* (track.go:1162-1164).
BrokenIsReplaced ==
  []<>(pc = "done" \/ \A i \in Boardings : ~Skipped(i))

\* "evDeviation [...] is always followed by a reroute" (track.go:106-107).
DeviationRecovered == owed ~> ~owed

-----------------------------------------------------------------------------
(* The inductive invariant behind the safety properties (TrackProofs).     *)

\* The checks look at a leg of the plan.
CheckInv == pc = "checks" => legIdx \in 1..Len(it)

\* The cooldown has seen every replan, and an optional one waited for it.
PaceInv ==
  /\ sinceRR <= calm
  /\ pc = "reroute" /\ why \in Soft \cup {"better_arrival"} => sinceRR >= Cooldown

\* Nobody who is boarding is about to be sent elsewhere.
BoardingInv ==
  pc = "reroute" /\ why \in Soft \cup {"better_arrival", "missed", "too_slow", "left_stop"}
    => ~ShapeBoardingInProgress

IInv == TypeOK /\ CheckInv /\ BoardedIsRiding /\ PaceInv /\ BoardingInv
====
