CONSTANTS
  c1 = c1
  c2 = c2
  NoClient = NoClient
  Clients <- TwoClients
  MaxProgress = 1
  MaxTyped = 3
  Sigint = TRUE
SPECIFICATION ProtoFairSpec
INVARIANTS
  MutualWaitKnown
  InStep
  ToldIsTrue
PROPERTIES
  TakesTurns
  Answered
CHECK_DEADLOCK FALSE
