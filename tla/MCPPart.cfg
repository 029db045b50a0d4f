SPECIFICATION PpSpec
CONSTANTS
  Device = {d1, d2}
  NoDevice = NoDevice
  MaxWork = 5
  Particle = {p1}
  NoParticle = NoParticle
  Kinds = {"event", "beacon"}
  Retries = 0
  MaxReq = 3
  MaxInbox = 1
  LateInSecond = TRUE
SYMMETRY Symmetry
INVARIANTS
  PpTypeOK
  PacketStaysPut
  OneProxyPerParticle
  CallKeepsProxy
  PpNoDeadlock
  PpIInv
PROPERTIES
  AnswerUsedOnce
