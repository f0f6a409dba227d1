SPECIFICATION Spec
CONSTANTS
  Layouts <- MCLayouts
  Stamped <- MCStamped
  MaxAge = 1
  StaticAge = 2
  DiscoveryAge = 3
  MaxMoves = 1
  MaxFaults = 1
INVARIANT HalfUpdateNeverPublished
