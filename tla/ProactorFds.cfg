\* Two handles on the poll backend's react_prime_fds over two descriptors,
\* each caller set NULL or holding at most one descriptor; poll() may
\* report a hangup.
CONSTANTS
  h1 = h1
  h2 = h2
  Handles <- MCHandles
  NoHandle = NoHandle
  NFds = 2
  Limit = 3
  Ops = {"fds"}
  FatalEvs = {"hup"}
SYMMETRY HandleSymmetry
VIEW View
INIT Init
NEXT Next
INVARIANTS
  FdsReportsRequested
