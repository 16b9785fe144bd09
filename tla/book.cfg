CONSTANTS
  s1 = s1
  s2 = s2
  s3 = s3
  x1 = x1
  x2 = x2
  good = good
  other = other
  bad = bad
  NoOne = NoOne
  NoConfig = NoConfig
  Servers <- TheServers
  Sites <- TheSites
  Setups <- TheSetups
  Good <- GoodSetups
  MaxRuns = 3
SPECIFICATION Spec
SYMMETRY Symmetry
INVARIANTS
  SiteInOrder
  NumbersInOrder
  RunsAsNamed
CHECK_DEADLOCK FALSE
