SPECIFICATION FairSpec
CONSTANTS
  a = a
  b = b
  c = c
  a1 = a1
  a2 = a2
  b1 = b1
  c1 = c1
  Workers = {w1, w2}
  Tokens <- MCTokens
  Pairs <- MCPairs
  TokenOf <- MCTokenOf
  Hash <- MCHash
  NBuckets = 2
  InitialCapacity = 1
  Capacity = 1
  MaxResults = 1
  MaxFaults = 2
  None = None
INVARIANTS
  TableConsistent
  ReducedAfterAll
  FreedOnce
  LiveWhenUsed
  NothingLeaks
  FramesWhole
  SuccessIsComplete
PROPERTY ExitsUnlessStuck
\* The process may be stuck for good, in the ways that Stuck lists.
CHECK_DEADLOCK FALSE
