\* Liveness of react_yield under the fairness of a main loop that keeps
\* calling it: every call returns, and every due timer fires, with handles
\* also primed through react_prime_connect (on_connect in the scan).
CONSTANTS
  h1 = h1
  h2 = h2
  fd1 = fd1
  Handles <- MCHandles
  Fds = {fd1}
  NoHandle = NoHandle
  MaxPrios = 1
  MaxSubprios = 1
  MaxTime = 1
  MaxContSteps = 1
  ContinuationMayTrigger = FALSE
  IdlePrimeOnlyWhenUnprimed = TRUE
  ConnectCalls = TRUE
SPECIFICATION Spec
PROPERTIES
  YieldReturns
  DueTimerFires
