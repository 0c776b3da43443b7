\* Two handles on react_prime_fd, the wrappers of fd.c and socket.c that arm
\* the readiness their call needs, and the two-sided splice, over two descriptors.
CONSTANTS
  h1 = h1
  h2 = h2
  Handles <- MCHandles
  NoHandle = NoHandle
  NFds = 2
  Limit = 4
  Ops = {"fd", "read", "write", "readv", "writev", "recv", "recvfrom", "recvmsg", "send", "sendto", "sendmsg", "accept", "accept4", "splice_dual"}
  FatalEvs = {}
SYMMETRY HandleSymmetry
VIEW View
INIT Init
NEXT Next
INVARIANTS
  TypeOK
  ChainIntegrity
  MonitorExclusive
  FreshRevents
