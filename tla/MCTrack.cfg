SPECIFICATION FairSpec
CONSTANTS
  Trips <- TripsDef
  RailTrips <- RailDef
  Plans <- PlansDef
  Sightings <- SightingsDef
  TryGap = 1
  Cooldown = 1
  MaxNews = 1
  MaxEvents = 2
INVARIANT BoardedIsRiding
PROPERTIES SoftPaced BoardingProtected Arrives BrokenIsReplaced
CHECK_DEADLOCK FALSE
