---- MODULE TrackProofs ----
(***************************************************************************)
(* What a tracking session promises its rider, for any trips, plans,       *)
(* fixes, news and throttles.                                              *)
(***************************************************************************)
EXTENDS Track, TLAPS, WellFoundedInduction

USE DEF Reasons, Hard, Soft, Places

-----------------------------------------------------------------------------
(* Plans                                                                   *)

(* A bounded set of numbers that is not empty has a last one. *)
LEMMA LastIsMember ==
  ASSUME NEW S \in SUBSET Nat, S # {}, NEW n \in Nat, \A j \in S : j <= n
  PROVE  Last(S) \in S
<1> DEFINE T == {n - j : j \in S}
<1>1. \A j \in S : n - j \in Nat
  OBVIOUS
<1>2. T \subseteq Nat /\ T # {}
  BY <1>1
<1>3. PICK x \in T : \A y \in T : ~(<<y, x>> \in OpToRel(<, Nat))
  BY <1>2, NatLessThanWellFounded, WFMin
<1>4. \A y \in T : ~(y < x)
  BY <1>2, <1>3 DEF OpToRel
<1>5. PICK i \in S : x = n - i
  OBVIOUS
<1>6. ASSUME NEW j \in S
      PROVE  j <= i
  <2>1. ~(n - j < n - i)
    BY <1>4, <1>5
  <2> QED
    BY <2>1
<1> QED
  BY <1>6 DEF Last

(* A plan has a first leg, its rides have trips, and only its first leg may  *)
(* start aboard.                                                             *)
LEMMA PlanLegs ==
  ASSUME NEW p \in Plans
  PROVE  /\ p \in Seq(Legs) /\ Len(p) \in Nat /\ 1 \in 1..Len(p)
         /\ \A i \in 1..Len(p) :
              /\ p[i].trip \in Trips \cup {NoTrip} /\ p[i].boarded \in BOOLEAN
              /\ p[i].mode = "transit" <=> p[i].trip \in Trips
              /\ p[i].boarded => p[i].mode = "transit"
<1>1. p \in Seq(Legs) /\ p # <<>>
  BY ConstantsAssumption
<1>2. Len(p) \in Nat /\ 1 \in 1..Len(p)
  BY <1>1
<1>3. \A i \in 1..Len(p) : p[i] \in Legs
  BY <1>1
<1> QED
  BY <1>1, <1>2, <1>3, ConstantsAssumption DEF Legs

(* The next boarding is a ride of the plan, that is ahead. *)
LEMMA NextBoardingIsRide ==
  ASSUME TypeOK, NEW i \in NextBoarding
  PROVE  /\ i \in 1..Len(it) /\ Ride(i) /\ it[i].trip \in Trips
         /\ NextBoarding = {i}
<1>1. i \in 1..Len(it) /\ Ride(i)
  BY PlanLegs DEF TypeOK, NextBoarding, Boardings, RidesFrom
<1> QED
  BY <1>1, PlanLegs DEF TypeOK, NextBoarding, Ride

(* The ride before a leg is a ride of the plan. *)
LEMMA RideBefore ==
  ASSUME TypeOK, RidesBefore(legIdx) # {}
  PROVE  /\ Last(RidesBefore(legIdx)) \in 1..Len(it)
         /\ Ride(Last(RidesBefore(legIdx)))
         /\ it[Last(RidesBefore(legIdx))].trip \in Trips
<1>1. legIdx \in Nat /\ legIdx <= Len(it) + 1 /\ Len(it) \in Nat /\ it \in Plans
  BY PlanLegs DEF TypeOK
<1>2. RidesBefore(legIdx) \in SUBSET Nat /\ \A j \in RidesBefore(legIdx) : j <= legIdx
  BY <1>1 DEF RidesBefore
<1>3. Last(RidesBefore(legIdx)) \in RidesBefore(legIdx)
  BY <1>1, <1>2, LastIsMember
<1> QED
  BY <1>1, <1>3, PlanLegs DEF RidesBefore, Ride

-----------------------------------------------------------------------------
(* The initial states                                                      *)

\* A session begins in the invariant.
LEMMA InitIInv == Init => IInv
<1> SUFFICES ASSUME Init
             PROVE  IInv
  OBVIOUS
<1>1. /\ it \in Plans /\ 1 \in 1..Len(it) /\ Len(it) \in Nat
      /\ it[1].trip \in Trips \cup {NoTrip} /\ it[1].boarded \in BOOLEAN
      /\ it[1].boarded => it[1].mode = "transit"
  BY PlanLegs DEF Init
<1>2. TypeOK
  <2>1. /\ trip \in [Trips -> TripStates] /\ news \in 0..MaxNews /\ fixes \in 0..MaxEvents
        /\ sinceTry \in 0..TryGap /\ sinceRR \in 0..Cooldown /\ calm \in 0..Cooldown
    BY ConstantsAssumption DEF Init, TripStates
  <2>2. /\ legIdx \in 1..(Len(it) + 1) /\ started \in 0..Len(it)
        /\ reached \subseteq Trips /\ deviated \subseteq 1..Len(it)
    BY <1>1 DEF Init
  <2> QED
    BY <1>1, <2>1, <2>2 DEF Init, TypeOK
<1>3. CheckInv /\ PaceInv /\ BoardingInv
  BY ConstantsAssumption DEF Init, CheckInv, PaceInv, BoardingInv
<1>4. BoardedIsRiding
  BY <1>1 DEF Init, BoardedIsRiding, Ride
<1> QED
  BY <1>2, <1>3, <1>4 DEF IInv

-----------------------------------------------------------------------------
(* Between two evaluations                                                 *)

(* The world and the clock disturb nothing that is promised. *)
LEMMA WaitStep ==
  ASSUME IInv, \/ \E t \in Trips, s \in TripStates : News(t, s)
               \/ \E f \in Sightings : FixArrives(f)
               \/ FixExpires \/ Tick
  PROVE  IInv'
<1> USE ConstantsAssumption DEF IInv
<1>1. TypeOK /\ pc = "select" /\ pc' \in {"select", "wake"}
  BY DEF News, FixArrives, FixExpires, Tick
<1>2. TypeOK'
  <2>1. CASE \E t \in Trips, s \in TripStates : News(t, s)
    BY <1>1, <2>1 DEF News, TypeOK, plan, rider, evidence, pace
  <2>2. CASE \E f \in Sightings : FixArrives(f)
    BY <1>1, <2>2 DEF FixArrives, TypeOK, plan, rider, pace
  <2>3. CASE FixExpires
    BY <1>1, <2>3 DEF FixExpires, TypeOK, world, plan, rider, pace
  <2>4. CASE Tick
    BY <1>1, <2>4 DEF Tick, Older, TypeOK, world, plan, rider, evidence
  <2> QED
    BY <2>1, <2>2, <2>3, <2>4
<1>3. BoardedIsRiding'
  <2>1. UNCHANGED <<plan, rider>>
    BY DEF News, FixArrives, FixExpires, Tick
  <2> QED
    BY <2>1 DEF BoardedIsRiding, Ride, plan, rider
<1>4. PaceInv'
  <2>1. CASE Tick
    BY <1>1, <2>1 DEF Tick, Older, PaceInv, TypeOK
  <2>2. CASE ~Tick
    BY <1>1, <2>2 DEF News, FixArrives, FixExpires, PaceInv, pace
  <2> QED
    BY <2>1, <2>2
<1> QED
  BY <1>1, <1>2, <1>3, <1>4 DEF CheckInv, BoardingInv

(* A fix at the boarding stop moves a rider on foot to the ride. *)
LEMMA BeginStep ==
  ASSUME IInv, Begin
  PROVE  IInv'
<1> USE DEF IInv
<1>1. /\ pc' = "advance" /\ it' = it /\ boarded' = boarded
      /\ UNCHANGED <<world, why, plan, boardedByShape, opaque, gps, deviated, on, lost, pace, owed>>
  BY DEF Begin, plan
<1>2. \/ UNCHANGED <<legIdx, atStop, reached>>
      \/ /\ ~boarded
         /\ \E i \in NextBoarding : legIdx' = i /\ atStop' = it[i].trip /\ reached' = reached \cup {it[i].trip}
  <2> DEFINE here == {i \in RidesFrom(legIdx) :
                       /\ ~boarded /\ ~OpaqueAt(legIdx)
                       /\ i \in NextBoarding /\ Fix("stop", it[i].trip)}
  <2>1. CASE here = {}
    BY <2>1 DEF Begin
  <2>2. CASE here # {}
    <3>1. PICK i \in here : legIdx' = i /\ atStop' = it[i].trip /\ reached' = reached \cup {it[i].trip}
      BY <2>2 DEF Begin
    <3> QED
      BY <3>1
  <2> QED
    BY <2>1, <2>2
<1>3. legIdx' \in 1..(Len(it) + 1) /\ atStop' \in Trips \cup {NoTrip} /\ reached' \subseteq Trips
  BY <1>2, NextBoardingIsRide, PlanLegs DEF TypeOK
<1>4. TypeOK'
  BY <1>1, <1>3 DEF TypeOK, world, plan, pace
<1>5. BoardedIsRiding'
  <2>1. ~boarded \/ legIdx' = legIdx
    BY <1>2
  <2>2. lost' = lost /\ on' = on
    BY <1>1
  <2> QED
    BY <1>1, <2>1, <2>2 DEF BoardedIsRiding, Ride
<1>6. PaceInv' /\ CheckInv' /\ BoardingInv'
  BY <1>1 DEF PaceInv, CheckInv, BoardingInv, pace
<1> QED
  BY <1>4, <1>5, <1>6

-----------------------------------------------------------------------------
(* advance                                                                 *)

(* What an advancing rider leaves alone, and what the stages do not say. *)
LEMMA AdvanceKeeps ==
  ASSUME TypeOK, Advance
  PROVE  /\ pc = "advance" /\ pc' \in {"advance", "checks", "done"}
         /\ UNCHANGED <<trip, news, fixes, why, it, liveMode, started, sinceTry, sinceRR, calm, owed>>
<1> USE DEF StaysInLoop, world, plan, pace
<1>1. CASE Arrive
  BY <1>1 DEF Arrive
<1>2. CASE BoardNextRideFromAccessShape
  BY <1>2 DEF BoardNextRideFromAccessShape, Advancing
<1>3. CASE CompleteStreet \/ AssumeBoard \/ AssumeAlight \/ VanishedFallback \/ Board \/ Alight
  BY <1>3 DEF CompleteStreet, AssumeBoard, AssumeAlight, VanishedFallback, Board, Alight, Advancing
<1>4. CASE Settle
  BY <1>4 DEF Settle, Advancing
<1> QED
  BY <1>1, <1>2, <1>3, <1>4 DEF Advance, ByClock

(* Losing sight of the rider forgets the fixes. *)
LEMMA OpaqueTypes ==
  ASSUME TypeOK, NEW o \in BOOLEAN, SetOpaque(o), it' = it
  PROVE  /\ opaque' \in BOOLEAN /\ gps' \in Sightings \cup {NoFix}
         /\ reached' \subseteq Trips /\ deviated' \subseteq 1..Len(it')
BY DEF SetOpaque, TypeOK

(* On the way the rider stays within the plan, and aboard only what rides. *)
LEMMA AdvanceStep ==
  ASSUME IInv, Advance
  PROVE  IInv'
<1> USE DEF IInv
<1>1. /\ pc = "advance" /\ pc' \in {"advance", "checks", "done"}
      /\ UNCHANGED <<trip, news, fixes, why, it, liveMode, started, sinceTry, sinceRR, calm, owed>>
  BY AdvanceKeeps
<1> DEFINE Shown == /\ opaque' \in BOOLEAN /\ gps' \in Sightings \cup {NoFix}
                    /\ reached' \subseteq Trips /\ deviated' \subseteq 1..Len(it')
           Rider == /\ legIdx' \in 1..(Len(it) + 1) /\ boarded' \in BOOLEAN
                    /\ boardedByShape' \in BOOLEAN /\ atStop' \in Trips \cup {NoTrip}
                    /\ on' \in Trips \cup {NoTrip} /\ lost' \in BOOLEAN
           Aboard == boarded' /\ ~lost' => /\ legIdx' <= Len(it) /\ it[legIdx'].mode = "transit"
                                           /\ on' = it[legIdx'].trip
           Leg == pc' = "checks" => legIdx' \in 1..Len(it)
<1>2. /\ Len(it) \in Nat /\ legIdx \in 1..(Len(it) + 1)
      /\ \A i \in 1..Len(it) : it[i].trip \in Trips \cup {NoTrip}
      /\ boarded \in BOOLEAN /\ boardedByShape \in BOOLEAN
      /\ atStop \in Trips \cup {NoTrip} /\ on \in Trips \cup {NoTrip} /\ lost \in BOOLEAN
  BY PlanLegs DEF TypeOK
<1>3. Shown /\ Rider /\ Aboard /\ Leg
  <2>1. CASE Arrive
    <3>1. UNCHANGED <<rider, evidence>> /\ pc' = "done"
      BY <2>1 DEF Arrive
    <3> QED
      BY <1>1, <1>2, <3>1 DEF rider, evidence, TypeOK, BoardedIsRiding, Ride
  <2>2. CASE BoardNextRideFromAccessShape
    <3>1. /\ legIdx + 1 \in 1..Len(it) /\ Ride(legIdx + 1)
          /\ it[legIdx + 1].trip \in Trips \cup {NoTrip}
      BY <1>2, <2>2 DEF BoardNextRideFromAccessShape, PickedUp
    <3>2. Shown
      BY <1>1, <2>2, OpaqueTypes DEF BoardNextRideFromAccessShape
    <3>3. /\ legIdx' = legIdx + 1 /\ boarded' = TRUE /\ boardedByShape' = TRUE /\ atStop' = NoTrip
          /\ on' = it[legIdx + 1].trip /\ lost' = FALSE
      BY <2>2 DEF BoardNextRideFromAccessShape
    <3>4. Rider
      <4>1. legIdx' \in 1..(Len(it) + 1)
        BY <1>2, <3>1, <3>3
      <4>2. on' \in Trips \cup {NoTrip}
        BY <3>1, <3>3
      <4> QED
        BY <3>3, <4>1, <4>2
    <3> QED
      BY <1>2, <3>1, <3>2, <3>3, <3>4 DEF Ride
  <2>3. CASE CompleteStreet
    <3>1. legIdx + 1 \in 1..(Len(it) + 1)
      BY <1>2, <2>3 DEF CompleteStreet, Advancing
    <3> QED
      BY <1>1, <1>2, <2>3, <3>1 DEF CompleteStreet, StaysInLoop, evidence, TypeOK
  <2>4. CASE AssumeBoard
    <3>1. legIdx \in 1..Len(it) /\ Ride(legIdx)
      BY <1>2, <2>4 DEF AssumeBoard, Advancing, Assumed, Rail
    <3>2. Shown
      BY <1>1, <2>4, OpaqueTypes DEF AssumeBoard
    <3>3. /\ boarded' = TRUE /\ boardedByShape' = FALSE /\ on' = it[legIdx].trip
          /\ UNCHANGED <<legIdx, atStop, lost, pc>>
      BY <2>4 DEF AssumeBoard, StaysInLoop
    <3>4. Rider
      BY <1>2, <3>1, <3>3
    <3> QED
      BY <1>1, <1>2, <3>1, <3>2, <3>3, <3>4 DEF Ride
  <2>5. CASE AssumeAlight
    <3>1. legIdx + 1 \in 1..(Len(it) + 1)
      BY <1>2, <2>5 DEF AssumeAlight, Advancing
    <3>2. Shown
      BY <1>1, <2>5, OpaqueTypes DEF AssumeAlight
    <3>3. pc' = pc
      BY <2>5 DEF AssumeAlight, StaysInLoop
    <3> QED
      BY <1>1, <1>2, <2>5, <3>1, <3>2, <3>3 DEF AssumeAlight, CompleteAlight
  <2>6. CASE VanishedFallback
    <3>1. legIdx + 1 \in 1..(Len(it) + 1)
      BY <1>2, <2>6 DEF VanishedFallback, Advancing
    <3> QED
      BY <1>1, <1>2, <2>6, <3>1 DEF VanishedFallback, StaysInLoop, evidence, TypeOK
  <2>7. CASE Board
    <3>1. legIdx \in 1..Len(it) /\ Ride(legIdx)
      BY <1>2, <2>7 DEF Board, Advancing, Tracked
    <3> QED
      BY <1>1, <1>2, <2>7, <3>1 DEF Board, Ride, ShapeBoarded, StaysInLoop, evidence, TypeOK
  <2>8. CASE Alight
    <3>1. legIdx + 1 \in 1..(Len(it) + 1)
      BY <1>2, <2>8 DEF Alight, Advancing
    <3>2. pc' = pc /\ UNCHANGED evidence /\ CompleteAlight
      BY <2>8 DEF Alight, StaysInLoop
    <3> QED
      BY <1>1, <1>2, <3>1, <3>2 DEF CompleteAlight, evidence, TypeOK
  <2>9. CASE Settle
    <3>1. UNCHANGED rider /\ SetOpaque(OpaqueAt(legIdx)) /\ legIdx \in 1..Len(it)
      BY <1>2, <2>9 DEF Settle, Advancing
    <3>2. OpaqueAt(legIdx) \in BOOLEAN
      BY DEF OpaqueAt, Assumed, Rail, Ride
    <3>3. Shown
      BY <1>1, <3>1, <3>2, OpaqueTypes
    <3> QED
      BY <1>2, <3>1, <3>3 DEF rider, BoardedIsRiding, Ride
  <2> QED
    BY <2>1, <2>2, <2>3, <2>4, <2>5, <2>6, <2>7, <2>8, <2>9 DEF Advance, ByClock
<1>4. TypeOK'
  BY <1>1, <1>3 DEF TypeOK
<1>5. BoardedIsRiding' /\ CheckInv'
  BY <1>1, <1>3 DEF BoardedIsRiding, Ride, CheckInv
<1>6. PaceInv' /\ BoardingInv'
  BY <1>1 DEF PaceInv, BoardingInv
<1> QED
  BY <1>4, <1>5, <1>6

-----------------------------------------------------------------------------
(* The checks                                                              *)

(* What the checks before the one that finds a reason leave behind. *)
LEMMA PassedTypes ==
  ASSUME TypeOK
  PROVE  /\ \A n \in Nat : RentalsPass(n) => started' \in 0..Len(it)
         /\ AllRentalsPass => started' \in 0..Len(it)
         /\ PositionPasses => /\ started' \in 0..Len(it) /\ reached' \subseteq Trips
                              /\ UNCHANGED <<deviated, owed>>
<1>1. Len(it) \in Nat /\ legIdx \in 1..(Len(it) + 1) /\ started \in 0..Len(it) /\ reached \subseteq Trips
  BY PlanLegs DEF TypeOK
<1>2. ASSUME NEW n, RentalsPass(n)
      PROVE  started' \in 0..Len(it)
  BY <1>1, <1>2 DEF RentalsPass, Rentals, Ahead
<1>3. AllRentalsPass => started' \in 0..Len(it)
  BY <1>2 DEF AllRentalsPass
<1>4. ASSUME PositionPasses
      PROVE  reached' \subseteq Trips /\ UNCHANGED <<deviated, owed>>
  BY <1>1, <1>4, NextBoardingIsRide DEF PositionPasses
<1> QED
  BY <1>2, <1>3, <1>4 DEF PositionPasses

(* A stop that is noticed as reached is not one that the rider moves away from. *)
LEMMA NotBoardingStill ==
  ASSUME TypeOK, PositionPasses, ~ShapeBoardingInProgress, UNCHANGED <<trip, it, legIdx, boarded, gps>>
  PROVE  ~ShapeBoardingInProgress'
<1> SUFFICES ASSUME NEW i \in NextBoarding, Following(i)'
             PROVE  FALSE
  BY DEF ShapeBoardingInProgress, NextBoarding, Boardings, RidesFrom, Ride
<1>1. it[i].trip \in reached' /\ Resolved(i) /\ gps.at \in {"following", "away"}
  BY DEF Following, Fix, Resolved, State
<1>2. reached' = reached
  BY <1>1 DEF PositionPasses, Fix
<1>3. Following(i)
  BY <1>2 DEF Following, Resolved, State, Fix
<1> QED
  BY <1>3 DEF ShapeBoardingInProgress

(* A reason is found only for a rider to whom it applies, and an optional     *)
(* one only after the cooldown.                                               *)
LEMMA ChecksStep ==
  ASSUME IInv, Checks
  PROVE  IInv'
<1> USE DEF IInv
<1>1. /\ pc = "checks" /\ legIdx \in 1..Len(it) /\ Len(it) \in Nat /\ it \in Plans
      /\ it[legIdx].trip \in Trips \cup {NoTrip}
  BY PlanLegs DEF Checks, CheckInv, TypeOK
<1> DEFINE Kept == UNCHANGED <<trip, news, fixes, it, liveMode, sinceTry, sinceRR, calm, opaque, gps>>
           Seen == started' \in 0..Len(it) /\ reached' \subseteq Trips /\ deviated' \subseteq 1..Len(it)
                   /\ owed' \in BOOLEAN
           Rider == /\ legIdx' \in 1..Len(it) /\ boarded' \in BOOLEAN
                    /\ boardedByShape' \in BOOLEAN /\ atStop' \in Trips \cup {NoTrip}
                    /\ on' \in Trips \cup {NoTrip} /\ lost' \in BOOLEAN
                    /\ boarded' /\ ~lost' => it[legIdx'].mode = "transit" /\ on' = it[legIdx'].trip
           Quits == pc' = "select" /\ why' = why
           Hardly == pc' = "reroute" /\ why' \in {"shared", "stayed_on_vehicle", "off_route", "cancelled"}
           Gently == /\ pc' = "reroute" /\ why' \in Reasons
                     /\ ~ShapeBoardingInProgress'
                     /\ sinceRR >= Cooldown \/ why' \in {"too_slow", "left_stop", "missed"}
<1>2. UNCHANGED rider => Rider
  BY <1>1 DEF rider, TypeOK, BoardedIsRiding, Ride
<1>3. ASSUME NEW reason, Propose(reason)
      PROVE  Kept /\ pc' = "reroute" /\ why' = reason
  BY <1>3 DEF Propose, world, pace
<1>4. PositionPasses => Seen
  BY PassedTypes DEF TypeOK
<1>5. ASSUME NEW i \in 1..Len(it), Announce(i)
      PROVE  Seen
  BY <1>5, PassedTypes DEF Announce, TypeOK
<1>6. Kept /\ Seen /\ Rider /\ (Quits \/ Hardly \/ Gently)
  <2>1. CASE SharedUnavailable
    <3>1. PICK i \in Rentals : RentalsPass(i)
      BY <2>1 DEF SharedUnavailable
    <3>2. started' \in 0..Len(it)
      BY <1>1, <3>1, PassedTypes DEF Rentals, Ahead
    <3>3. Propose("shared") /\ UNCHANGED <<rider, reached, deviated, owed>>
      BY <2>1 DEF SharedUnavailable
    <3> QED
      BY <1>2, <1>3, <3>2, <3>3 DEF TypeOK
  <2>2. CASE StayedOnVehicle
    <3>1. Announce(legIdx) /\ Propose("stayed_on_vehicle") /\ UNCHANGED rider
      BY <2>2 DEF StayedOnVehicle
    <3> QED
      BY <1>1, <1>2, <1>3, <1>5, <3>1
  <2>3. CASE NeverAlighted
    <3> DEFINE prev == Last(RidesBefore(legIdx))
    <3>1. /\ RidesBefore(legIdx) # {} /\ Announce(prev) /\ Propose("stayed_on_vehicle")
          /\ legIdx' = prev /\ on' = it[prev].trip /\ boarded' = TRUE
          /\ UNCHANGED <<boardedByShape, atStop, lost>>
      BY <2>3 DEF NeverAlighted
    <3>2. prev \in 1..Len(it) /\ Ride(prev) /\ it[prev].trip \in Trips
      BY <3>1, RideBefore
    <3>3. Rider
      BY <3>1, <3>2 DEF Ride, TypeOK
    <3> QED
      BY <1>3, <1>5, <3>1, <3>2, <3>3
  <2>4. CASE OffRoute
    <3>1. Announce(legIdx) /\ Propose("off_route") /\ UNCHANGED rider
      BY <2>4 DEF OffRoute
    <3> QED
      BY <1>1, <1>2, <1>3, <1>5, <3>1
  <2>5. CASE TooSlow
    <3>1. PositionPasses /\ Propose("too_slow") /\ UNCHANGED rider
      BY <2>5 DEF TooSlow
    <3>2. PICK i \in Ahead : Guarded(i) /\ it[i].trip \notin reached
      BY <2>5 DEF TooSlow
    <3>3. NextBoarding = {i}
      BY <3>2, NextBoardingIsRide DEF Guarded
    <3>4. ~ShapeBoardingInProgress
      BY <3>2, <3>3 DEF ShapeBoardingInProgress, Following
    <3>5. ~ShapeBoardingInProgress'
      BY <1>3, <3>1, <3>4, NotBoardingStill DEF rider
    <3> QED
      BY <1>2, <1>3, <1>4, <3>1, <3>5
  <2>6. CASE LeftStop
    <3>1. PositionPasses /\ Propose("left_stop") /\ atStop' = NoTrip
          /\ UNCHANGED <<legIdx, boarded, boardedByShape, on, lost>>
      BY <2>6 DEF LeftStop
    <3>2. PICK i \in Ahead : Guarded(i) /\ ~Following(i)
      BY <2>6 DEF LeftStop
    <3>3. NextBoarding = {i}
      BY <3>2, NextBoardingIsRide DEF Guarded
    <3>4. ~ShapeBoardingInProgress
      BY <3>2, <3>3 DEF ShapeBoardingInProgress
    <3>5. ~ShapeBoardingInProgress'
      BY <1>3, <3>1, <3>4, NotBoardingStill
    <3>6. Rider
      BY <1>1, <3>1 DEF TypeOK, BoardedIsRiding, Ride
    <3> QED
      BY <1>3, <1>4, <3>1, <3>5, <3>6
  <2>7. CASE Cancelled
    <3>1. PositionPasses /\ Propose("cancelled") /\ UNCHANGED rider
      BY <2>7 DEF Cancelled
    <3> QED
      BY <1>2, <1>3, <1>4, <3>1
  <2>8. CASE Missed
    <3>1. PositionPasses /\ Propose("missed") /\ UNCHANGED rider /\ ~ShapeBoardingInProgress
      BY <2>8 DEF Missed
    <3>2. ~ShapeBoardingInProgress'
      BY <1>3, <3>1, NotBoardingStill DEF rider
    <3> QED
      BY <1>2, <1>3, <1>4, <3>1, <3>2
  <2>9. CASE ConnectionRisk \/ UnconfirmedTrip \/ BetterArrival
    <3>1. PICK reason \in {"connection_risk", "unconfirmed_trip", "better_arrival"} : Propose(reason)
      BY <2>9 DEF ConnectionRisk, UnconfirmedTrip, BetterArrival
    <3>2. PositionPasses /\ UNCHANGED rider /\ ~ShapeBoardingInProgress /\ sinceRR >= Cooldown
      BY <2>9 DEF ConnectionRisk, UnconfirmedTrip, BetterArrival, MayImprove
    <3>3. ~ShapeBoardingInProgress'
      BY <1>3, <3>1, <3>2, NotBoardingStill DEF rider
    <3> QED
      BY <1>2, <1>3, <1>4, <3>1, <3>2, <3>3
  <2>10. CASE Quiet
    <3>1. PositionPasses /\ pc' = "select" /\ UNCHANGED <<world, why, it, liveMode, rider, opaque, gps, pace>>
      BY <2>10 DEF Quiet
    <3> QED
      BY <1>2, <1>4, <3>1 DEF world, pace
  <2> QED
    BY <2>1, <2>2, <2>3, <2>4, <2>5, <2>6, <2>7, <2>8, <2>9, <2>10 DEF Checks
<1>7. TypeOK'
  BY <1>1, <1>6 DEF TypeOK
<1>8. BoardedIsRiding' /\ CheckInv'
  BY <1>1, <1>6 DEF BoardedIsRiding, Ride, CheckInv
<1>9. PaceInv' /\ BoardingInv'
  BY <1>6 DEF PaceInv, BoardingInv
<1> QED
  BY <1>7, <1>8, <1>9

-----------------------------------------------------------------------------
(* reroute and switchTo                                                    *)

(* A replan that is not made leaves the rider as he was. *)
LEMMA NoSwitchStep ==
  ASSUME IInv, (pc = "reroute" /\ (Throttled \/ NoAnswer \/ Refused)) \/ Return
  PROVE  IInv'
<1> USE ConstantsAssumption DEF IInv
<1>1. /\ pc' = "select" /\ why' = "none"
      /\ UNCHANGED <<world, plan, rider, evidence, calm, owed>>
  BY DEF Throttled, NoAnswer, Refused, Return, pace
<1>2. sinceTry' \in 0..TryGap /\ sinceRR' \in 0..Cooldown /\ sinceRR' <= calm
  BY DEF Throttled, NoAnswer, Refused, Return, Tried, StampReroute, pace, TypeOK, PaceInv
<1>3. TypeOK'
  BY <1>1, <1>2 DEF TypeOK, world, plan, rider, evidence
<1>4. BoardedIsRiding'
  BY <1>1 DEF BoardedIsRiding, Ride, plan, rider
<1>5. CheckInv' /\ PaceInv' /\ BoardingInv'
  BY <1>1, <1>2 DEF CheckInv, PaceInv, BoardingInv
<1> QED
  BY <1>3, <1>4, <1>5

(* A new plan keeps a rider who is aboard on the vehicle, and starts the      *)
(* cooldown.                                                                  *)
LEMMA SwitchStep ==
  ASSUME IInv, pc = "reroute", NEW p \in Plans, SwitchTo(p)
  PROVE  IInv'
<1> USE ConstantsAssumption DEF IInv
<1>1. /\ Len(p) \in Nat /\ 1 \in 1..Len(p) /\ p[1].trip \in Trips \cup {NoTrip} /\ p[1].boarded \in BOOLEAN
      /\ p[1].boarded => p[1].mode = "transit"
  BY PlanLegs
<1>2. /\ it' = p /\ legIdx' = 1 /\ started' = 0 /\ liveMode' \in BOOLEAN
      /\ boarded' = p[1].boarded /\ boardedByShape' \in BOOLEAN
      /\ on' = (IF p[1].boarded THEN p[1].trip ELSE on) /\ lost' = FALSE /\ owed' = FALSE
      /\ opaque' = FALSE /\ deviated' = {} /\ pc' = "told"
      /\ UNCHANGED <<world, why, gps>>
  BY <1>1 DEF SwitchTo, FreshSlate, TypeOK
<1>3. atStop' \in Trips \cup {NoTrip} /\ reached' \subseteq Trips
  BY DEF SwitchTo, TypeOK
<1>4. sinceTry' \in 0..TryGap /\ sinceRR' = 0 /\ calm' = 0
  BY DEF SwitchTo, Tried, StampReroute, TypeOK
<1>5. TypeOK'
  <2>1. on' \in Trips \cup {NoTrip}
    BY <1>1, <1>2 DEF TypeOK
  <2>2. legIdx' \in 1..(Len(it') + 1) /\ started' \in 0..Len(it') /\ deviated' \subseteq 1..Len(it')
    BY <1>1, <1>2
  <2>3. sinceRR' \in 0..Cooldown /\ calm' \in 0..Cooldown
    BY <1>4
  <2> QED
    BY <1>1, <1>2, <1>3, <1>4, <2>1, <2>2, <2>3 DEF TypeOK, world
<1>6. BoardedIsRiding'
  BY <1>1, <1>2 DEF BoardedIsRiding, Ride
<1>7. CheckInv' /\ PaceInv' /\ BoardingInv'
  BY <1>2, <1>4 DEF CheckInv, PaceInv, BoardingInv
<1> QED
  BY <1>5, <1>6, <1>7

-----------------------------------------------------------------------------
(* The theorems                                                            *)

(* Every step, and every stutter, preserves the inductive invariant. *)
LEMMA NextIInv == IInv /\ [Next]_vars => IInv'
<1> SUFFICES ASSUME IInv, [Next]_vars
             PROVE  IInv'
  OBVIOUS
<1>1. CASE UNCHANGED vars
  <2> USE <1>1 DEF vars, world, plan, rider, evidence, pace, IInv
  <2>1. TypeOK'
    BY DEF TypeOK
  <2>2. CheckInv' /\ BoardedIsRiding' /\ PaceInv'
    BY DEF CheckInv, BoardedIsRiding, Ride, PaceInv
  <2>3. BoardingInv'
    BY DEF BoardingInv, ShapeBoardingInProgress, NextBoarding, Boardings, RidesFrom, Ride, Following,
           Resolved, State, Fix
  <2> QED
    BY <2>1, <2>2, <2>3
<1>2. CASE \/ \E t \in Trips, s \in TripStates : News(t, s)
           \/ \E f \in Sightings : FixArrives(f)
           \/ FixExpires \/ Tick
  BY <1>2, WaitStep
<1>3. CASE Begin
  BY <1>3, BeginStep
<1>4. CASE Advance
  BY <1>4, AdvanceStep
<1>5. CASE Checks
  BY <1>5, ChecksStep
<1>6. CASE Reroute
  BY <1>6, NoSwitchStep, SwitchStep DEF Reroute
<1> QED
  BY <1>1, <1>2, <1>3, <1>4, <1>5, <1>6 DEF Next, Evaluate

(* The inductive invariant: checks look at a leg, the cooldown has seen every *)
(* replan, and no optional one is under way while the rider boards.           *)
THEOREM Invariance == Spec => []IInv
BY InitIInv, NextIInv, PTL DEF Spec

(* The session's variables keep their types; its leg stays within the plan. *)
THEOREM TypeCorrect == Spec => []TypeOK
<1>1. IInv => TypeOK
  BY DEF IInv
<1> QED
  BY <1>1, Invariance, PTL

(* "On board" speaks of the current leg and of the vehicle boarded, whatever  *)
(* put the rider there, unless the trip has vanished under the rider.         *)
THEOREM Boarding == Spec => []BoardedIsRiding
<1>1. IInv => BoardedIsRiding
  BY DEF IInv
<1> QED
  BY <1>1, Invariance, PTL

(* A step that tells the rider of a new plan is a switch. *)
LEMMA EventIsSwitch ==
  ASSUME IInv, [Next]_vars, RerouteEvent
  PROVE  pc = "reroute"
<1>1. pc' = "told" /\ pc # "told" /\ Next
  BY DEF RerouteEvent, vars
<1>2. CASE \/ \E t \in Trips, s \in TripStates : News(t, s)
           \/ \E f \in Sightings : FixArrives(f)
           \/ FixExpires \/ Tick \/ Begin
  BY <1>1, <1>2 DEF News, FixArrives, FixExpires, Tick, Begin
<1>3. CASE Advance
  BY <1>1, <1>3, AdvanceKeeps DEF IInv
<1>4. CASE Checks
  BY <1>1, <1>4 DEF Checks, SharedUnavailable, StayedOnVehicle, NeverAlighted, OffRoute, TooSlow, LeftStop,
                    Cancelled, Missed, ConnectionRisk, UnconfirmedTrip, BetterArrival, Quiet, Propose
<1>5. CASE Reroute
  BY <1>1, <1>5 DEF Reroute, Return
<1> QED
  BY <1>1, <1>2, <1>3, <1>4, <1>5 DEF Next, Evaluate

(* No optional replan reaches the rider within the cooldown of another. *)
THEOREM Pacing == Spec => SoftPaced
<1>1. IInv /\ [Next]_vars => [RerouteEvent /\ why \in Soft \cup {"better_arrival"} => calm >= Cooldown]_vars
  <2> SUFFICES ASSUME IInv, [Next]_vars, RerouteEvent, why \in Soft \cup {"better_arrival"}
               PROVE  calm >= Cooldown
    OBVIOUS
  <2>1. sinceRR >= Cooldown /\ sinceRR <= calm
    BY EventIsSwitch DEF IInv, PaceInv
  <2> QED
    BY <2>1, ConstantsAssumption DEF IInv, TypeOK
<1> QED
  BY <1>1, Invariance, PTL DEF Spec, SoftPaced

(* Nobody who is being carried along the planned ride is sent elsewhere as   *)
(* late, gone, at risk or better off.                                        *)
THEOREM Protection == Spec => BoardingProtected
<1>1. IInv /\ [Next]_vars
      => [RerouteEvent /\ why \in Soft \cup {"better_arrival", "missed", "too_slow", "left_stop"}
            => ~ShapeBoardingInProgress]_vars
  BY EventIsSwitch DEF IInv, BoardingInv
<1> QED
  BY <1>1, Invariance, PTL DEF Spec, BoardingProtected
====
