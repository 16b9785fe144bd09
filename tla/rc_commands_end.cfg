CONSTANTS
  b1 = b1
  b2 = b2
  l1 = l1
  NoBoard = NoBoard
  Boards <- OneBoard
  Level1s <- OneLevel1
  MaxRuns = 1
  Remote <- BoardsRemote
  Faults = {"client", "sigint", "kill", "popen", "hang", "crash"}
SPECIFICATION FairSpec
INVARIANTS
  DaqStreamsToZsup
  InitokIsEarned
PROPERTIES
  CommandsEnd
CHECK_DEADLOCK FALSE
