SPECIFICATION FairSpec
CONSTANTS
  Devices = {d1}
  Conns = {c1}
  None = None
  Capacity = 2
  MaxConnects = 1
  MaxRequests = 1
  MaxRuns = 1
  MaxEdits = 1
PROPERTIES CutSessionEnds
CHECK_DEADLOCK FALSE
