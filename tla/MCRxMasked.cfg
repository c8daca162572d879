CONSTANTS
  Half = 2
  Budget = 2
  MsixModes = {FALSE}
  MaxPkts = 3
  MaxOpens = 2
SPECIFICATION Spec
INVARIANTS MaskedIsServed
CHECK_DEADLOCK FALSE
