\* The poll backend with fatal events: allocator, chains and pollrec.
CONSTANTS
  h1 = h1
  h2 = h2
  Handles <- MCHandles
  NoHandle = NoHandle
  NFds = 2
  Evs = {"in", "out"}
  Masks = {{"in"}, {"out"}}
  MaxEntries = 2
  Limit = 4
  FatalEvents = TRUE
  RepeatedFds = FALSE
  AllocFails = TRUE
SYMMETRY HandleSymmetry
VIEW View
INIT Init
NEXT Next
INVARIANTS
  TypeOK
  FreeListWellFormed
  LiveBelowLim
  ChainIntegrity
  MonitorExclusive
  PollrecCovers
  EnsurePollrecsPost
