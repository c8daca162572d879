CONSTANTS
  Half = 2
  Budget = 2
  MsixModes = {TRUE, FALSE}
  MaxPkts = 6
  MaxOpens = 2
SPECIFICATION FairSpec
INVARIANTS EngineRunsOrWillRestart DeliveredInOrder NoLostWakeup
PROPERTY EveryPacketDelivered
CHECK_DEADLOCK FALSE
