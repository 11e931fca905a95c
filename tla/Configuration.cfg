SPECIFICATION StoreSpec
CONSTANTS
  Providers = {q1, q2}
  Models = {k1, k2}
  Binds = {b1}
  Loopback = b1
  Devices = {d1, d2}
  Commands = {p1, p2}
  None = None
  Broken = Broken
  MaxWrites = 3
INVARIANTS ConfigResolves RevocationSticks
CHECK_DEADLOCK FALSE
SYMMETRY Alike
