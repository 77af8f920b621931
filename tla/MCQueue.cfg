SPECIFICATION FairSpec
CONSTANTS
  Producers = {p1, p2}
  Consumers = {c1, c2}
  Closer = main
  Items = {i1, i2, i3}
  Capacity = 1
  MaxFaults = 1
  MaxSpurious = 1
  None = None
INVARIANTS
  TypeOK
  ExactlyOnce
  NothingLost
  FreedNeverQueued
  NoLostWakeup
  DestroyedUnused
PROPERTIES
  Implements
  Drained
\* A failing call may leave the mutex locked or end every consumer: the threads
\* that need it then stop for good.
CHECK_DEADLOCK FALSE
