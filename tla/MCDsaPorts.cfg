CONSTANTS
  UserPorts = {0, 1, 3}
  OtherPorts = {4, 31, 33, 1023}
  Payloads <- SomePayloads
  SwitchIndex = 0
  Users = {u1, u2}
  Addrs = {a, b}
  Groups = {g, h}
  Extra = {b, g, h}
  AX_MAX_MCAST = 1
  MaxTrees = 1
  MaxAsks = 2
  BrPorts = {p1, p2}
  Bridges = {br0, br1, br2}
  MstBridges = {br2}
  NoBridge = NoBridge
  MaxPend = 3
  VlanPorts = {v1, v2}
  Cpu = cpu
  Vids = {1, 9}
  Table = {1}
  MaxUppers = 2
  MaxRenotify = 2
SYMMETRY Symmetry
SPECIFICATION MCSpec
INVARIANTS FramesIntact FiltersBalanced HearsItsUsers PortFollowsBridge
           HostRefsBalanced TableMatches NoSharedVid
