CONSTANTS
  b1 = b1
  b2 = b2
  Boards <- TwoBoards
  NOut = 2
  Tick = 2
  Wrap = 8
  TrigWrap = 20
  Tol = 3
  MaxTests = 1
  NTrig = 4
  Lens = {3, 4}
  Gaps = {6, 11}
  Phases = {3}
  Odd = 2
  Kinds = {"none", "good", "late", "bad"}
  Cuts <- SomeCuts
  Junk = {5}
SPECIFICATION FairSpec
INVARIANTS
  Aligned
  Complete
  AllMerged
  StreamsDrained
PROPERTIES
  MergerEnds
CHECK_DEADLOCK FALSE
