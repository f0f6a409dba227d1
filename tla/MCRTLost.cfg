SPECIFICATION Spec
CONSTANTS
  NSources = 1
  VPSources <- MCNoVPSources
  MaxTimetable = 2
  MaxEvents = 1
INVARIANT LatestFeedsProjected
