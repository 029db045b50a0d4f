SPECIFICATION PpSpec
CONSTANTS
  Device = {d1}
  NoDevice = NoDevice
  MaxWork = 4
  Particle = {p1}
  NoParticle = NoParticle
  Kinds = {"event"}
  Retries = 2
  MaxReq = 1
  MaxInbox = 2
  LateInSecond = TRUE
PROPERTIES
  RetriesAreSpaced
