SPECIFICATION FairSpec
CONSTANTS
  Layouts <- MCLayouts
  Stamped <- MCStamped
  MaxAge = 1
  StaticAge = 2
  DiscoveryAge = 3
  MaxMoves = 2
  MaxFaults = 1
INVARIANTS CompleteSnapshots OfferedIsRecent MixedHasCause
PROPERTY CatchesUp
