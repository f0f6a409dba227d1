SPECIFICATION Spec
CONSTANTS
  Nodes = {1, 2, 3, 4, 5, 6}
  Outside = {6}
  Ways = {1, 2, 3}
  Maps <- MCMaps
  Versions <- MCVersions
  Places = {16}
  MaxMeters = 8
  EdgeRange = 10
  MinComponent = 3
  Share = 1
  MaxEdits = 3
  MaxDiffs = 2
INVARIANTS DiffsLikeExtract EdgesFollowWays SnapsLeadSomewhere EveryStreetSnaps
CHECK_DEADLOCK FALSE
