\* A timer primed through each wrapper of primetime.c, the clock read
\* through each call a build may use, and detect_events' timeout for the
\* timer, formats {"timespec", "timeval"}.
CONSTANTS
  Formats = {"timespec", "timeval"}
  MaxSec = 1
  IntMax = 1500000
  DwordMax = 1500
  Epoch1601 = 2
  LongMax = 2147483647
  ClockFails = FALSE
SPECIFICATION Spec
\* The computation of one timeout ends.
CHECK_DEADLOCK FALSE
INVARIANTS
  TypeOK
  CmpMatchesReference
  TimeoutMatchesTimer
  PrimeMatchesRequest
