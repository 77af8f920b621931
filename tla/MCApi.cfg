SPECIFICATION Spec
CONSTANTS
  Handles = {h1, h2}
  Sizes = {0, 1}
  Names = {default_log, other_log}
  Default = default_log
  Blocks = {b1, b2, b3, b4}
  MaxFaults = 2
  NULL = NULL
SYMMETRY Symmetry
INVARIANTS
  JobsConsistent
  NoCrash
  NothingLeaks
\* The program stops after an invalid use of memory.
CHECK_DEADLOCK FALSE
