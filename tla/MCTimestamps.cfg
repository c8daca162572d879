CONSTANTS
  Ports = 1
  NumSeqs = 3
  QSize = 2
  RxSlots = 3
  TxSlots = 3
  Retries = 2
  MaxFrames = 4
  MaxIoctls = 1
SPECIFICATION Spec
INVARIANTS RxStampExact TxStampExact
CHECK_DEADLOCK FALSE
