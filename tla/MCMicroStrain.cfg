SPECIFICATION MsSpec
CONSTANTS
  Device = {d1, d2}
  NoDevice = NoDevice
  MaxWork = 4
  Ops = {"ldc", "info", "stop", "log", "download", "erase", "count"}
  Stray = {}
  EepromReads = 1
  EepromWrites = 1
  QueueLength = 2
  GetsStale = TRUE
  LastPage = 4
  MaxLine = 1
  MaxCalls = 2
  MaxPackets = 1
SYMMETRY Symmetry
CHECK_DEADLOCK FALSE
INVARIANTS
  MsIInv
  StartsIdleNode
  BusyIsTrue
  DownloadHasNode
  OnlyKnownDeadlocks
  BlockedOnlyByLocks
  SessionsDecoded
