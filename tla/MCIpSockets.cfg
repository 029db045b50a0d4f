SPECIFICATION IpSpec
CONSTANTS
  Device = {d1, d2}
  NoDevice = NoDevice
  MaxWork = 10
  Node = {n1, n2}
  NoNode = NoNode
  LossyNodes = {}
  SilentNodes = {}
  NFd = 5
  FdSetSize = 5
  SigintThreads = {"main"}
INVARIANTS
  ClientKeepsConnection
