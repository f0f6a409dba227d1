SPECIFICATION Spec
CONSTANTS
  URLs <- MCURLs
  LiveURLs <- MCLiveURLs
  Setups <- MCFeedOnly
  MaxVersion = 2
  MaxSwitches = 2
  MaxCrashes = 2
  MaxFaults = 0
INVARIANT SwitchNeverServesStale
CHECK_DEADLOCK FALSE
