SPECIFICATION FairSpec
CONSTANTS
  Devices = {d1, d2}
  Conns = {c1}
  None = None
  Capacity = 1
  MaxConnects = 2
  MaxRequests = 1
  MaxRuns = 1
  MaxEdits = 1
INVARIANTS GoneIsUnlisted
PROPERTIES ClosedSessionEnds CloseFrameEndsSession
CHECK_DEADLOCK FALSE
