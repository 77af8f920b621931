SPECIFICATION FairSpec
CONSTANTS
  NMessages = 2
  PipeCap = 1
  Backlog = 1
  FaultKinds = {"body"}
  MaxFaults = 1
PROPERTY StartReturns
