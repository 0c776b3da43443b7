\* A continuation triggers a handle of a more urgent level than the one
\* being drained; react_yield must not then report EAGAIN while it is queued.
CONSTANTS
  h1 = h1
  h2 = h2
  fd1 = fd1
  Handles <- MCHandles
  Fds = {}
  NoHandle = NoHandle
  MaxPrios = 2
  MaxSubprios = 2
  MaxTime = 0
  MaxContSteps = 1
  ContinuationMayTrigger = TRUE
  IdlePrimeOnlyWhenUnprimed = TRUE
  ConnectCalls = FALSE
SYMMETRY HandleSymmetry
INIT Init
NEXT Next
PROPERTIES
  NoSpuriousWouldBlock
