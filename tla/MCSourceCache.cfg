SPECIFICATION FairSpec
CONSTANTS
  URLs <- MCURLs
  LiveURLs <- MCLiveURLs
  Setups <- MCSetups
  MaxVersion = 2
  MaxSwitches = 2
  MaxCrashes = 2
  MaxFaults = 2
INVARIANTS StaleHasCause ValidatorsHonest
PROPERTIES ExtractOrImage Recovers
CHECK_DEADLOCK FALSE
