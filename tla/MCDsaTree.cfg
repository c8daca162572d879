CONSTANTS
  Cards = {c1, c2}
  UserPorts = {p1, p2}
  NoCard = NoCard
SPECIFICATION Spec
SYMMETRY Symmetric
INVARIANTS NotifierSafe ConduitTracked Balanced UserUpHasConduit
CHECK_DEADLOCK FALSE
