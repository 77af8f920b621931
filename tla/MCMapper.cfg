SPECIFICATION FairSpec
CONSTANTS
  Workers = {w1, w2}
  Lines = {l1, l2}
  Capacity = 1
  MaxPairs = 2
  MaxUserFails = 1
  MaxFaults = 2
  None = None
INVARIANTS
  LineInOnePlace
  PipeConsistent
  DestroyedUnused
  AbortEmitsNothing
  SuccessIsComplete
PROPERTY ExitsUnlessStuck
\* The process may be stuck for good, in the ways that Stuck lists.
CHECK_DEADLOCK FALSE
