SPECIFICATION FairSpec
CONSTANTS
  Providers = {}
  Models = {}
  Binds = {b1}
  Loopback = b1
  Devices = {d1}
  Commands = {p1}
  None = None
  Broken = Broken
  MaxWrites = 3
  Servers = {s1, s2}
INVARIANTS TypeOK ServerIsCurrent PidFindsServer
PROPERTIES RevocationArrives
CHECK_DEADLOCK FALSE
