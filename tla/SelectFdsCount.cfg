\* Two handles priming with react_prime_fd and react_prime_fds on two
\* descriptors in two modes, the portable react_findfd, size_t as 16 bits;
\* the asserts of the select backend, which abort the program, must hold.
CONSTANTS
  h1 = h1
  h2 = h2
  Handles <- MCHandles
  NoHandle = NoHandle
  FdSetSize = 2
  NFDBITS = 2
  FastPath = FALSE
  ModeSeq <- MCModeSeq
  SizeMod = 65536
  Ops = {"fd", "fds"}
SYMMETRY HandleSymmetry
INIT Init
NEXT Next
INVARIANT
  AssertionsHold
