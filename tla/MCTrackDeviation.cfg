SPECIFICATION FairSpec
CONSTANTS
  Trips <- TripsDef
  RailTrips <- RailDef
  Plans <- PlansDef
  Sightings <- SightingsDef
  TryGap = 1
  Cooldown = 1
  MaxNews = 1
  MaxEvents = 2

PROPERTIES DeviationRecovered
CHECK_DEADLOCK FALSE
