\* The Windows backend, all three HANDLEs hashed to one bucket (HashShared).
CONSTANTS
  r1 = r1  r2 = r2  r3 = r3  s1 = s1  href1 = href1  h1 = h1  h2 = h2  w1 = w1
  b1 = b1  b2 = b2  b3 = b3
  Unused = Unused  None = None
  Users <- MCUsers  Sockets <- MCSockets  HRef <- MCHRef
  UserHdls <- MCUserHdls  WsaHdl <- MCWsaHdl
  Buckets = {b1, b2, b3}  Hash <- HashShared
  NetEvs = {"read", "write"}
  Limit = 2
  WsaFails = TRUE
SPECIFICATION Spec
VIEW View
SYMMETRY UserSymmetry
INVARIANT NoDuplicateWait
