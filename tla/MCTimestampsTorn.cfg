CONSTANTS
  Ports = 1
  NumSeqs = 2
  QSize = 2
  RxSlots = 2
  TxSlots = 2
  Retries = 2
  MaxFrames = 4
  MaxIoctls = 0
SPECIFICATION Spec
INVARIANT CaptureIntact
CHECK_DEADLOCK FALSE
