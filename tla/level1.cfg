CONSTANTS
  NGroups = 2
  ChPerGroup = 2
  NSamples = 5
  TrLen = 1
  Zs1Head = 1
  Zs1Tail = 1
  Zs1NAbove = 2
  Zs2Tail = 1
  Zs2MinRms = 2
  NBoards = 2
  Setups <- SomeSetups
  Contents <- SomeContents
  NEvents = 2
SPECIFICATION FairSpec
INVARIANTS
  FilesKeepOrder
  KnownLosses
PROPERTIES
  SavedIsAcquired
  Level1Ends
CHECK_DEADLOCK FALSE
