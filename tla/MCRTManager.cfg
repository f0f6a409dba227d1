SPECIFICATION FairSpec
CONSTANTS
  NSources = 1
  VPSources <- MCVPSources
  MaxTimetable = 2
  MaxEvents = 1
INVARIANTS OverlayFitsTimetable ReprojectedAfterSwap LostOnlyByClash NoSilentChange WakeupFetches
PROPERTY SessionCatchesUp
