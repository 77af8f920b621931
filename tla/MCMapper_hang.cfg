SPECIFICATION FairSpec
CONSTANTS
  Workers = {w1, w2}
  Lines = {l1, l2, l3, l4}
  Capacity = 1
  MaxPairs = 0
  MaxUserFails = 2
  MaxFaults = 0
  None = None
PROPERTY Terminates
\* The controller may block in mr_queue_push for good.
CHECK_DEADLOCK FALSE
