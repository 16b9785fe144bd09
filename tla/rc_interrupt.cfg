CONSTANTS
  b1 = b1
  b2 = b2
  l1 = l1
  NoBoard = NoBoard
  Boards <- TwoBoards
  Level1s <- NoLevel1
  MaxRuns = 1
  Remote <- BoardsRemote
  Faults = {"sigint", "kill", "popen", "hang"}
SPECIFICATION Spec
INVARIANTS
  TerminateOkMeansGone
  NothingLeftHere
PROPERTIES
  AcqSpec
CHECK_DEADLOCK FALSE
