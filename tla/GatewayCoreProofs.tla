------------------------- MODULE GatewayCoreProofs -------------------------
(***************************************************************************)
(* Proofs about GatewayCore for any finite set of devices and any bound on *)
(* the work of a pass: the invariant IInv is inductive, the safety         *)
(* properties follow from it, and the list is a DeviceRegistry.            *)
(***************************************************************************)
EXTENDS GatewayCore, FiniteSetTheorems, TLAPS

(* The number of listed devices is a number: there are finitely many.      *)
LEMMA ListedCount ==
  ASSUME TypeOK
  PROVE  Cardinality(listed) \in Nat
  <1>1. IsFiniteSet(Device)
    BY DeviceAssumption
  <1>2. listed \in SUBSET Device
    BY DEF TypeOK
  <1>3. IsFiniteSet(listed)
    BY <1>1, <1>2, FS_Subset
  <1> QED
    BY <1>3, FS_CardinalityType

(* The state in which main has just started the worker satisfies IInv.     *)
LEMMA InitIInv == Init => IInv
  <1> SUFFICES ASSUME Init PROVE IInv
    OBVIOUS
  <1> USE DEF Init
  <1>1. TypeOK
    <2>1. mem \in [Device -> Memory]
      BY DEF Memory
    <2>2. work \in 0 .. MaxWork
      BY MaxWorkAssumption
    <2> QED
      BY <2>1, <2>2 DEF TypeOK, MainPC, WorkerPC
  <1>2. Owner /\ InHand /\ ListedAreUp /\ Owned
    BY DEF Owner, InHand, ListedAreUp, Owned, MainHoldsMutex, WorkerHoldsMutex
  <1>3. Snapshot /\ Closing /\ NoLostWakeup
    BY DEF Snapshot, Closing, NoLostWakeup, MainHasSnapshot
  <1> QED
    BY <1>1, <1>2, <1>3 DEF IInv

(* Every step of the main thread preserves IInv.                           *)
LEMMA MainIInv == IInv /\ (Main \/ MSpuriousWakeup) => IInv'
  <1> SUFFICES ASSUME IInv, Main \/ MSpuriousWakeup PROVE IInv'
    OBVIOUS
  <1> USE DEF IInv, TypeOK, Owner, InHand, ListedAreUp, Owned, Snapshot, Closing,
              NoLostWakeup, MainHoldsMutex, WorkerHoldsMutex, MainHasSnapshot,
              MainPC, workerVars, MainAt, Acquire, Release
  <1>1. CASE MLoop
    BY <1>1 DEF MLoop
  <1>2. CASE MLock
    BY <1>2 DEF MLock
  <1>3. CASE MWait
    BY <1>3 DEF MWait
  <1>4. CASE MGoOn
    BY <1>4 DEF MGoOn
  <1>5. CASE MSpuriousWakeup
    BY <1>5 DEF MSpuriousWakeup
  <1>6. CASE MReacquire
    BY <1>6 DEF MReacquire
  <1>7. CASE MCount
    BY <1>7, ListedCount DEF MCount
  <1>8. CASE MCollect
    BY <1>8 DEF MCollect
  <1>9. CASE MTimeout
    BY <1>9 DEF MTimeout
  <1>10. CASE MAccept
    BY <1>10 DEF MAccept
  <1>11. CASE MSend
    BY <1>11 DEF MSend
  <1>12. CASE MServed
    BY <1>12 DEF MServed
  <1>13. CASE MUnlock
    BY <1>13 DEF MUnlock
  <1>14. CASE MSweepLock
    BY <1>14 DEF MSweepLock
  <1>15. CASE MSweep
    BY <1>15 DEF MSweep
  <1>16. CASE MSweepUnlock
    BY <1>16 DEF MSweepUnlock
  <1>17. CASE MJoin
    BY <1>17 DEF MJoin
  <1> QED
    BY <1>1, <1>2, <1>3, <1>4, <1>5, <1>6, <1>7, <1>8, <1>9, <1>10, <1>11,
       <1>12, <1>13, <1>14, <1>15, <1>16, <1>17 DEF Main

(* Every step of the worker that leaves the devices alone preserves IInv.  *)
LEMMA WorkerControlIInv ==
  ASSUME IInv,
         \/ WCheck \/ WSelect \/ WStop \/ WScanned \/ WNothing
         \/ WAddLock \/ WAddUnlock \/ WDelivered \/ WLost \/ WNotify \/ WDelLock
         \/ WDelUnlock \/ WCleaned \/ WBcastLock \/ WBcast \/ WBcastUnlock
  PROVE  IInv'
  <1> USE DEF IInv, TypeOK, Owner, InHand, ListedAreUp, Owned, Snapshot, Closing,
              NoLostWakeup, MainHoldsMutex, WorkerHoldsMutex, MainHasSnapshot,
              WorkerPC, mainVars, WorkerAt, Acquire, Release
  <1>0. work \in Nat /\ MaxWork \in Nat
    BY MaxWorkAssumption
  <1>1. CASE WCheck
    BY <1>1 DEF WCheck
  <1>2. CASE WSelect
    BY <1>2 DEF WSelect
  <1>3. CASE WStop
    BY <1>3 DEF WStop
  <1>4. CASE WScanned
    BY <1>0, <1>4 DEF WScanned
  <1>5. CASE WNothing
    BY <1>0, <1>5 DEF WNothing
  <1>6. CASE WAddLock
    BY <1>6 DEF WAddLock
  <1>7. CASE WAddUnlock
    BY <1>7 DEF WAddUnlock
  <1>8. CASE WDelivered
    BY <1>8 DEF WDelivered
  <1>9. CASE WLost
    BY <1>9 DEF WLost
  <1>10. CASE WNotify
    BY <1>10 DEF WNotify
  <1>11. CASE WDelLock
    BY <1>11 DEF WDelLock
  <1>12. CASE WDelUnlock
    BY <1>12 DEF WDelUnlock
  <1>13. CASE WCleaned
    BY <1>13 DEF WCleaned
  <1>14. CASE WBcastLock
    BY <1>14 DEF WBcastLock
  <1>15. CASE WBcast
    BY <1>15 DEF WBcast, Broadcast, MainPC
  <1>16. CASE WBcastUnlock
    BY <1>16 DEF WBcastUnlock
  <1> QED
    BY <1>1, <1>2, <1>3, <1>4, <1>5, <1>6, <1>7, <1>8, <1>9, <1>10, <1>11,
       <1>12, <1>13, <1>14, <1>15, <1>16

(* Every step of the worker in the life of a device preserves IInv.        *)
LEMMA WorkerDeviceIInv ==
  ASSUME IInv,
         \/ \E d \in Device : WBuild(d) \/ WMessage(d) \/ WCleanup(d)
         \/ WAdd \/ WDel \/ WDeactivate \/ WFree
  PROVE  IInv'
  <1> USE DEF IInv, TypeOK, Owner, InHand, ListedAreUp, Owned, Snapshot, Closing,
              NoLostWakeup, MainHoldsMutex, WorkerHoldsMutex, MainHasSnapshot,
              WorkerPC, Memory, mainVars, WorkerAt
  <1>0. work \in Nat /\ MaxWork \in Nat
    BY MaxWorkAssumption
  <1>1. CASE \E d \in Device : WBuild(d)
    BY <1>0, <1>1, DeviceAssumption DEF WBuild
  <1>2. CASE \E d \in Device : WMessage(d)
    BY <1>0, <1>2, DeviceAssumption DEF WMessage
  <1>3. CASE \E d \in Device : WCleanup(d)
    BY <1>3, DeviceAssumption DEF WCleanup
  <1>4. CASE WAdd
    BY <1>4 DEF WAdd, Broadcast, MainPC
  <1>5. CASE WDel
    BY <1>5 DEF WDel
  <1>6. CASE WDeactivate
    BY <1>6 DEF WDeactivate
  <1>7. CASE WFree
    BY <1>7 DEF WFree
  <1> QED
    BY <1>1, <1>2, <1>3, <1>4, <1>5, <1>6, <1>7

(* So does every step of the gateway. *)
LEMMA NextIInv ==
  ASSUME IInv, [Next]_vars
  PROVE  IInv'
  <1>1. CASE Main \/ MSpuriousWakeup
    BY <1>1, MainIInv
  <1>2. CASE Worker
    BY <1>2, WorkerControlIInv, WorkerDeviceIInv DEF Worker
  <1>3. CASE Sigint
    BY <1>3 DEF Sigint, IInv, TypeOK, Owner, InHand, ListedAreUp, Owned, Snapshot,
                Closing, NoLostWakeup, mainVars, workerVars
  <1>4. CASE UNCHANGED vars
    BY <1>4 DEF vars, mainVars, workerVars, IInv, TypeOK, Owner, InHand, ListedAreUp,
                Owned, Snapshot, Closing, NoLostWakeup
  <1> QED
    BY <1>1, <1>2, <1>3, <1>4 DEF Next, Terminated

(* IInv is inductive: it holds in every reachable state.                   *)
THEOREM InductiveInvariant == Spec => []IInv
  BY InitIInv, NextIInv, PTL DEF Spec

(* Each variable keeps its type, the slots of soap_set and the work of a   *)
(* pass within their bounds included.                                      *)
THEOREM TypeCorrect == Spec => []TypeOK
  <1>1. IInv => TypeOK
    BY DEF IInv
  <1> QED
    BY InductiveInvariant, <1>1, PTL

(* proxy_mutex and the order of dpws_device_unregister protect main: what   *)
(* it works on in dpws_device_check_handles and in the sweep over the       *)
(* subscriptions is never torn down under it.                              *)
THEOREM MainSafe == Spec => []MainUsesOnlyLive
  <1>1. IInv => MainUsesOnlyLive
    BY DEF IInv, Snapshot, ListedAreUp, MainUsesOnlyLive
  <1> QED
    BY InductiveInvariant, <1>1, PTL

(* The array proxy_structures_maccept allocates is large enough for what it *)
(* writes to it.                                                           *)
THEOREM SoapSetLargeEnough == Spec => []SoapSetFits
  <1>1. IInv => SoapSetFits
    BY ListedCount DEF IInv, Snapshot, MainHasSnapshot, SoapSetFits
  <1> QED
    BY InductiveInvariant, <1>1, PTL

(* A main thread in gateway_wait is always woken for a device or for the    *)
(* end of the worker.                                                      *)
THEOREM WakeupsNotLost == Spec => []NoLostWakeup
  <1>1. IInv => NoLostWakeup
    BY DEF IInv
  <1> QED
    BY InductiveInvariant, <1>1, PTL

(* Neither the mutex nor gateway_wait nor the join at the end ever stops     *)
(* both threads: who has the mutex waits for nothing, and a worker that has *)
(* ended leaves no main behind that waits to be woken.                     *)
THEOREM ThreadsNotDeadlocked == Spec => []NoDeadlock
  <1>1. IInv => NoDeadlock
    <2> SUFFICES ASSUME IInv PROVE NoDeadlock
      OBVIOUS
    <2>1. pcM \in { "lock", "woken", "sweep_lock", "waiting", "join", "done" } => mutex # "main"
      BY DEF IInv, Owner, MainHoldsMutex
    <2>2. pcW \in { "add_lock", "del_lock", "bcast_lock", "done" } => mutex # "worker"
      BY DEF IInv, Owner, WorkerHoldsMutex
    <2>3. pcM = "waiting" => pcW # "done"
      BY DEF IInv, NoLostWakeup
    <2> QED
      BY <2>1, <2>2, <2>3 DEF NoDeadlock, MainWaits, WorkerWaits, IInv, TypeOK
  <1> QED
    BY InductiveInvariant, <1>1, PTL

(* No device object is lost on any path through registration, loss of the   *)
(* connection and shutdown.                                                *)
THEOREM NothingOrphaned == Spec => []NoOrphan
  <1>1. IInv => NoOrphan
    <2> SUFFICES ASSUME IInv PROVE NoOrphan
      OBVIOUS
    <2>1. pcW = "done" => listed = {} /\ curW = NoDevice
      BY DEF IInv, Closing, InHand
    <2> QED
      BY <2>1, DeviceAssumption DEF IInv, Owned, NoOrphan
  <1> QED
    BY InductiveInvariant, <1>1, PTL

-----------------------------------------------------------------------------
(* A step changes the list or the snapshot only as a registry may.         *)
LEMMA StepRefinesRegistry ==
  ASSUME IInv, [Next]_vars
  PROVE  [Registry!Next]_Registry!vars
  <1> USE DEF Registry!Next, Registry!vars, IInv, Snapshot, MainHasSnapshot
  <1>1. CASE MCollect \/ MSweep
    BY <1>1 DEF MCollect, MSweep, MainAt, Registry!Pin
  <1>2. CASE MTimeout \/ MServed \/ MSweepUnlock
    BY <1>2 DEF MTimeout, MServed, MSweepUnlock, MainAt, Registry!Release
  <1>3. CASE WAdd
    <2>1. curW \in Device \ listed /\ pinned = {}
      BY <1>3 DEF WAdd, WorkerAt, InHand, Owner, MainHoldsMutex, WorkerHoldsMutex
    <2>2. Registry!Register(curW)
      BY <1>3, <2>1 DEF WAdd, Registry!Register
    <2> QED
      BY <2>1, <2>2
  <1>4. CASE WDel
    <2>1. curW \in listed /\ pinned = {}
      BY <1>4 DEF WDel, WorkerAt, InHand, Owner, MainHoldsMutex, WorkerHoldsMutex
    <2>2. curW \in Device
      BY <2>1 DEF TypeOK
    <2>3. Registry!Unregister(curW)
      BY <1>4, <2>1 DEF WDel, mainVars, Registry!Unregister
    <2> QED
      BY <2>2, <2>3
  <1>5. CASE \/ MLoop \/ MLock \/ MWait \/ MGoOn \/ MSpuriousWakeup \/ MReacquire
             \/ MCount \/ MAccept \/ MSend \/ MUnlock \/ MSweepLock \/ MJoin
    BY <1>5 DEF MLoop, MLock, MWait, MGoOn, MSpuriousWakeup, MReacquire, MCount,
                MAccept, MSend, MUnlock, MSweepLock, MJoin
  <1>6. CASE \/ WCheck \/ WSelect \/ WStop \/ WScanned \/ WNothing
             \/ WAddLock \/ WAddUnlock \/ WDelivered \/ WLost \/ WNotify \/ WDelLock
             \/ WDelUnlock \/ WCleaned \/ WBcastLock \/ WBcast \/ WBcastUnlock
    BY <1>6 DEF WCheck, WSelect, WStop, WScanned, WNothing, WAddLock, WAddUnlock,
                WDelivered, WLost, WNotify, WDelLock, WDelUnlock, WCleaned, WBcastLock,
                WBcast, WBcastUnlock, mainVars
  <1>7. CASE \E d \in Device : WBuild(d) \/ WMessage(d) \/ WCleanup(d)
    BY <1>7 DEF WBuild, WMessage, WCleanup, mainVars
  <1>8. CASE WDeactivate \/ WFree \/ Sigint \/ UNCHANGED vars
    BY <1>8 DEF WDeactivate, WFree, Sigint, vars, mainVars
  <1> QED
    BY <1>1, <1>2, <1>3, <1>4, <1>5, <1>6, <1>7, <1>8
    DEF Next, Main, Worker, Terminated

(* The two threads implement the registry of DeviceRegistry: while main has *)
(* a snapshot, the worker neither lists nor unlists a device.              *)
THEOREM ImplementsRegistry == Spec => RegistrySpec
  <1>1. Init => Registry!Init
    BY DEF Init, Registry!Init
  <1> QED
    BY InductiveInvariant, StepRefinesRegistry, <1>1, PTL
    DEF Spec, RegistrySpec, Registry!Spec
=============================================================================
