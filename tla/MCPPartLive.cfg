SPECIFICATION PpFairSpec
CONSTANTS
  Device = {d1}
  NoDevice = NoDevice
  MaxWork = 4
  Particle = {p1}
  NoParticle = NoParticle
  Kinds = {"event"}
  Retries = 1
  MaxReq = 1
  MaxInbox = 1
  LateInSecond = TRUE
PROPERTIES
  RequestEnds
  Termination
