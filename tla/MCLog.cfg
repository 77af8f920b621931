SPECIFICATION FairSpec
CONSTANTS
  Jobs = {j1, j2}
  MaxRuns = 2
  Threads = {t1}
  MaxLines = 2
  FaultKinds = {"open", "wait", "write", "flush", "post", "run", "close", "signal"}
  MaxFaults = 1
  None = None
INVARIANTS
  SemConsistent
  LinesWhole
  QuietJobsSucceed
  NameRemoved
PROPERTY EveryJobEnds
\* When all jobs have returned nothing is left to do, and a job may wait for good for a
\* semaphore that a dead process holds.
CHECK_DEADLOCK FALSE
