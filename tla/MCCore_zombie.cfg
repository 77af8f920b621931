SPECIFICATION Spec
CONSTANTS
  NMessages = 2
  PipeCap = 1
  Backlog = 1
  FaultKinds = {"close"}
  MaxFaults = 1
INVARIANT NoZombies
