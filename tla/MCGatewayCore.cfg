SPECIFICATION EvFairSpec
CONSTANTS
  Device = {d1, d2}
  NoDevice = NoDevice
  MaxWork = 1
  Subscription = {s1, s2, s3}
  NoSubscription = NoSubscription
  Interested = {s1, s2}
INVARIANTS
  TypeOK
  MainUsesOnlyLive
  SoapSetFits
  NoLostWakeup
  NoOrphan
  IInv
  EvIInv
  EventOncePerDelivery
  EventReachesAll
  WalkKeepsItsPlace
  NoDeadlock
PROPERTIES
  RegistrySpec
  EventSourceSpec
  EvTermination
