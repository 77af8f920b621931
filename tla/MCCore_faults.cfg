SPECIFICATION FairSpec
CONSTANTS
  NMessages = 5
  PipeCap = 2
  Backlog = 2
  FaultKinds = {"log", "pipe", "fork", "close", "dup2", "io", "wait", "body", "worker"}
  MaxFaults = 3
INVARIANTS
  EndsConsistent
  OkIsClean
  ErrorIsClean
PROPERTIES
  ImplementsJob
  EveryoneEnds
\* Main waits for good for a child that returned into the user's program, or whose
\* threads wait for each other.
CHECK_DEADLOCK FALSE
