---- MODULE MCTrack ----
EXTENDS Track

Bus == "bus"
Train == "train"
TripsDef == {Bus, Train}
RailDef == {Train}

Walk == [mode |-> "walk", trip |-> NoTrip, boarded |-> FALSE]
Bike == [mode |-> "rental", trip |-> NoTrip, boarded |-> FALSE]
RideOn(t) == [mode |-> "transit", trip |-> t, boarded |-> FALSE]
Aboard(t) == [mode |-> "transit", trip |-> t, boarded |-> TRUE]

PlansDef == {<<Bike, RideOn(Train)>>, <<Walk, RideOn(Bus), Walk>>,
             <<Aboard(Bus), Walk>>, <<Aboard(Train), Walk>>, <<Aboard(Train), RideOn(Bus)>>}

SightingsDef ==
  {[at |-> place, trip |-> NoTrip] : place \in {"end", "off"}}
    \cup {[at |-> place, trip |-> Bus] : place \in {"stop", "following", "away", "vehicle", "alight",
                                             "beyond"}}
    \cup {[at |-> place, trip |-> Train] : place \in {"stop", "away", "beyond"}}
====
