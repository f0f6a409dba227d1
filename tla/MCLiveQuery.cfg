SPECIFICATION QuerySpec
CONSTANTS
  NFeeds = 1
  LocalFeeds <- MCLocalFeeds
  CacheEnabled = TRUE
  MaxVersion = 1
  MaxSeq = 2
  MaxFaults = 0
  MaxQueries = 1
INVARIANT SnapshotConsistent
CHECK_DEADLOCK FALSE
