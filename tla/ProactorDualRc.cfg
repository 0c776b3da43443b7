\* Two handles splicing on both sides: when poll() reports both slots of a
\* dual splice, the first act re-primes for output, which frees the other
\* reported slot and lowers lim before the scan reaches it.
CONSTANTS
  h1 = h1
  h2 = h2
  Handles <- MCHandles
  NoHandle = NoHandle
  NFds = 2
  Limit = 4
  Ops = {"splice_dual"}
  FatalEvs = {}
SYMMETRY HandleSymmetry
VIEW View
INIT Init
NEXT Next
INVARIANTS
  ScanCountHolds
