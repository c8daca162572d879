CONSTANTS
  Half = 2
  MaxPkts = 4
  MaxErrors = 1
SPECIFICATION FairSpec
INVARIANTS EngineIdleAtStart StoppedQueueHasWaker RingInv SkbOutlivesCopy
PROPERTIES HwOwnsItsList ImplementsTxFifo EveryPacketLeaves TimestampQueueDrains
CHECK_DEADLOCK FALSE
