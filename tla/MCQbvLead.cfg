CONSTANTS
  NumPorts = 2
  NumDomains = 2
  Enabled = {0, 1}
  MaxRequests = 2
  MaxClockOps = 1
  T64 = 1024
  T32 = 64
  NS_PER_SEC = 8
  MaxTime = 120
  MaxCycle = 7
SPECIFICATION MCSpec
INVARIANTS ChangeTenAhead
CHECK_DEADLOCK FALSE
