SPECIFICATION Spec
CONSTANTS
  Workers = {w1, w2}
  Lines = {l1, l2, l3}
  Capacity = 1
  MaxPairs = 0
  MaxUserFails = 2
  MaxFaults = 0
  None = None
INVARIANT SuccessMeansMapped
