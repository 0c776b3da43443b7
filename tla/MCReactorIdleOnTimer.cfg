\* react_prime_idle called directly on a timer-primed handle: every call
\* of react_yield must still return.
CONSTANTS
  h1 = h1
  h2 = h2
  fd1 = fd1
  Handles <- MCHandles
  Fds = {fd1}
  NoHandle = NoHandle
  MaxPrios = 1
  MaxSubprios = 1
  MaxTime = 1
  MaxContSteps = 1
  ContinuationMayTrigger = FALSE
  IdlePrimeOnlyWhenUnprimed = FALSE
  ConnectCalls = FALSE
SPECIFICATION Spec
PROPERTIES
  YieldReturns

