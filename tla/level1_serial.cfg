CONSTANTS
  NGroups = 2
  ChPerGroup = 2
  NSamples = 5
  TrLen = 1
  Zs1Head = 1
  Zs1Tail = 1
  Zs1NAbove = 2
  Zs2Tail = 1
  Zs2MinRms = 2
  NBoards = 2
  Setups <- OneSetup
  Contents <- OneContent
  NEvents = 1
SPECIFICATION Spec
INVARIANTS
  SerialNumbersTrue
CHECK_DEADLOCK FALSE
