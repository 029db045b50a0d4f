SPECIFICATION IpFairSpec
CONSTANTS
  Device = {d1}
  NoDevice = NoDevice
  MaxWork = 10
  Node = {n1}
  NoNode = NoNode
  LossyNodes = {n1}
  SilentNodes = {}
  NFd = 4
  FdSetSize = 5
  SigintThreads = {"main"}
PROPERTIES
  NodeDiscovered
