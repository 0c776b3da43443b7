\* The clock call fails.  With timespec_get (C11 builds) a failure returns
\* 0, which detect_events does not take for an error: ClockReadsReal fails.
CONSTANTS
  Formats = {"timespec", "timeval"}
  MaxSec = 1
  IntMax = 1500000
  DwordMax = 1500
  Epoch1601 = 2
  LongMax = 2147483647
  ClockFails = TRUE
SPECIFICATION Spec
\* The computation of one timeout ends.
CHECK_DEADLOCK FALSE
INVARIANT ClockReadsReal
