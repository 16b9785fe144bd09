CONSTANTS
  Algos = {"ecal","sac","veto","cells","island","radius"}
  Events <- SomeEvents
  NRows = 3
  NCols = 5
  HitThr = 2
  SeedThr = 3
  DtMax = 5
  TLow = 0
  THigh = 20
  CellMax = 3
  CrySize = 85
  Radius = 200
  MaxEvHits = 5
  MaxHits = 3
  MaxClusters = 2
SPECIFICATION ClSpec
INVARIANTS
  HitsAddUp
  SeedsLead
  ShapesAsMeant
PROPERTIES
  SearchEnds
CHECK_DEADLOCK FALSE
