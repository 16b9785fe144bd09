CONSTANTS
  b1 = b1
  b2 = b2
  l1 = l1
  NoBoard = NoBoard
  Boards <- OneBoard
  Level1s <- NoLevel1
  MaxRuns = 1
  Remote <- AllLocal
  Faults = {}
SPECIFICATION Spec
INVARIANTS
  ShutdownAbortsRun
CHECK_DEADLOCK FALSE
