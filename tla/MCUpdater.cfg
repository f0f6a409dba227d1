SPECIFICATION FairSpec
CONSTANTS
  NFeeds = 2
  LocalFeeds <- MCLocalFeeds
  CacheEnabled = TRUE
  MaxVersion = 2
  MaxSeq = 3
  MaxFaults = 2
INVARIANTS FreshWhenSettled AnchoredWhenSettled ValidatorsMatchData NoDiffSkipped
PROPERTIES ImplementsServedData Converges
CHECK_DEADLOCK FALSE
