CONSTANTS
  UserMax = 2
  MaxOpens = 2
  Layouts <- SomeLayouts
  Faults = {"enable", "regions", "iomap", "dma", "msix", "engine", "request_irq", "slot_reset"}
  Cards = {c1, c2}
  ProbeFaults = {"pcidev", "open", "engines", "etherdev", "switch", "mac", "netdev", "mdio", "mdiodev", "ptp", "proc", "dsa"}
  NPorts = 2
  Own <- AllModes
  Abilities <- Partners
  MaxChanges = 1
  MaxTimeouts = 1
SPECIFICATION MCSpec
INVARIANTS FailedOpenReturns
CHECK_DEADLOCK FALSE
