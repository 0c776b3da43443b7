\* A fatal event then a cancellation: trim_array lowers lim below an allocated slot.
CONSTANTS
  h1 = h1
  h2 = h2
  Handles <- MCHandles
  NoHandle = NoHandle
  NFds = 2
  Evs = {"in", "out"}
  Masks = {{"in"}, {"out"}}
  MaxEntries = 2
  Limit = 4
  FatalEvents = TRUE
  RepeatedFds = FALSE
  AllocFails = FALSE
SYMMETRY HandleSymmetry
VIEW View
INIT Init
NEXT Next
INVARIANTS
  LimAssertionsHold
