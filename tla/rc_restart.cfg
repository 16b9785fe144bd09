CONSTANTS
  b1 = b1
  b2 = b2
  l1 = l1
  NoBoard = NoBoard
  Boards <- OneBoard
  Level1s <- NoLevel1
  MaxRuns = 2
  Remote <- AllLocal
  Faults = {"kill"}
SPECIFICATION Spec
INVARIANTS
  TypeOK
  OneHolder
  StartImpliesInitok
  InitializedIsTrue
PROPERTIES
  ReadyFindsNoStart
  TriggerAfterDaqs
CHECK_DEADLOCK FALSE
