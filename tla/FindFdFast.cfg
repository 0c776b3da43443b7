\* The glibc branch of react_findfd inside the scan loop of hunt_fd_events.
\* ScanNotifiesAll fails: with descriptors 0 and 1 set, only 0 is notified.
\* The scan ends with pc = "done" and the model stops there.
CONSTANTS
  FdSetSize = 6
  NFDBITS = 2
  FastPath = TRUE
INIT Init
NEXT Next
INVARIANT ScanNotifiesAll
CHECK_DEADLOCK FALSE
