SPECIFICATION Spec
CONSTANTS
  DaySec = 1000
  Inf = 9000
  Absent = 9999
  Frac = 8
  Word = 4096
  Epochs = 4
  MaxNearDs = 500
  Far = 99999
  Now = 50
  Moved = 75
  Sample = 25
  MaxAsked = 2
  MaxSwaps = 1
  Networks <- MCNetworks
  Cfg <- MCCfg
  Requests <- MCRequests
  Fragility <- MCFragility
INVARIANTS WalksExact RoadBounded OverlayFaithful JourneysRealisable ParetoOptimal JourneysConnected ItinerariesKeepTime ArriveByLatest RentalsStillOffered CheckMatchesSearch
