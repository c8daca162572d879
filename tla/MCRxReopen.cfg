CONSTANTS
  Half = 2
  Budget = 2
  MsixModes = {TRUE}
  MaxPkts = 3
  MaxOpens = 2
SPECIFICATION Spec
INVARIANTS NoBugOn
CHECK_DEADLOCK FALSE
