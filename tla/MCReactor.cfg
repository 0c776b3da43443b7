\* Registration of handles with the idle list, the timer heap, a poll slot
\* and sig_ev, and the queues and top across two major levels of two
\* subqueues each, across priming, cancelling, triggering, closing,
\* detection with fatal events, signals, react_prime_connect (immediate or
\* in progress, on_connect freeing the slot at detection) and
\* react_closecore; continuations
\* prime, cancel, close and reprioritise but do not trigger.
CONSTANTS
  h1 = h1
  h2 = h2
  fd1 = fd1
  Handles <- MCHandles
  Fds = {fd1}
  NoHandle = NoHandle
  MaxPrios = 2
  MaxSubprios = 2
  MaxTime = 0
  MaxContSteps = 1
  ContinuationMayTrigger = FALSE
  IdlePrimeOnlyWhenUnprimed = TRUE
  ConnectCalls = TRUE
SYMMETRY HandleSymmetry
INIT Init
NEXT Next
INVARIANTS
  TypeOK
  RegistrationIntegrity
  QueueIntegrity
PROPERTIES
  DispatchInPriorityOrder
