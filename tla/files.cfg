CONSTANTS
  MaxFiles = 2
  MaxDuration = 2
  MaxSize = 5
  MaxEvents = 2
  TotalTime = 3
  HeadSize = 1
  TailSize = 1
  EvSizes <- Sizes
  TrigSize = 1
  MaxBatch = 2
  Faults = {"device", "write", "kill"}
  MaxClock = 3
  MaxSeen = 4
SPECIFICATION FairSpec
INVARIANTS
  ClosedFilesTell
  TotalsTell
  FilesJoin
PROPERTIES
  OnlyHasteFails
  WritesLog
  StopsWhenTold
CHECK_DEADLOCK FALSE
