SPECIFICATION IpSpec
CONSTANTS
  Device = {d1, d2}
  NoDevice = NoDevice
  MaxWork = 10
  Node = {n1, n2}
  NoNode = NoNode
  LossyNodes = {}
  SilentNodes = {}
  NFd = 6
  FdSetSize = 5
  SigintThreads = {"main", "worker"}
SYMMETRY Symmetry
INVARIANTS
  IpIInv
  IpTypeOK
  SocketsIdentifyDevices
  OnlyReusedIsLost
  UnregistersKnownDevice
CHECK_DEADLOCK FALSE
