CONSTANTS
  b1 = b1
  b2 = b2
  l1 = l1
  NoBoard = NoBoard
  Boards <- TwoBoards
  Level1s <- OneLevel1
  MaxRuns = 1
  Remote <- AllLocal
  Faults = {"sigint"}
SPECIFICATION FairSpec
PROPERTIES
  StopIsEnough
CHECK_DEADLOCK FALSE
