-------------------------- MODULE IpGatewayProofs --------------------------
(***************************************************************************)
(* IpGateway implements GatewayCore, for any number of devices, nodes and   *)
(* descriptors: the sockets of the IP platform add conditions to the steps *)
(* of the two threads and never a step of their own.                       *)
(* Who has which descriptor is an inductive invariant (IpIInv); from it      *)
(* follow what the worker may unregister, that descriptors tell devices     *)
(* apart, and which client can lose its connection to the double close.     *)
(***************************************************************************)
EXTENDS IpGateway, GatewayCoreProofs, WellFoundedInduction

(* Every step of the worker of ip/discover.c is one of the core's worker.   *)
LEMMA IpWorkerRefines == IpWorker => Worker
  <1> SUFFICES ASSUME IpWorker PROVE Worker
    OBVIOUS
  <1>1. CASE IpCheck \/ IpSelect \/ IpStop \/ IpScanned
    BY <1>1 DEF IpCheck, IpSelect, IpStop, IpScanned, Worker
  <1>2. CASE \E n \in Node : IpHelloNotBuilt(n) \/ IpHelloHalf(n) \/ IpHelloFailed(n)
    BY <1>2 DEF IpHelloNotBuilt, IpHelloHalf, IpHelloFailed, Worker
  <1>3. CASE \E n \in Node, d \in Device : IpHello(n, d)
    BY <1>3 DEF IpHello, Worker
  <1>4. CASE \E d \in Device : IpMessage(d) \/ IpCleanup(d)
    BY <1>4 DEF IpMessage, IpCleanup, Worker
  <1>5. CASE IpAddLock \/ IpAdd \/ IpAddUnlock \/ IpDelivered \/ IpLost
    BY <1>5 DEF IpAddLock, IpAdd, IpAddUnlock, IpDelivered, IpLost, Worker
  <1>6. CASE IpNotify \/ IpDelLock \/ IpDel \/ IpDelUnlock \/ IpDeactivate \/ IpFree
    BY <1>6 DEF IpNotify, IpDelLock, IpDel, IpDelUnlock, IpDeactivate, IpFree, Worker
  <1>7. CASE IpError \/ IpBcast
    BY <1>7 DEF IpError, IpBcast, Worker
  <1> QED
    BY <1>1, <1>2, <1>3, <1>4, <1>5, <1>6, <1>7 DEF IpWorker

(* Every step of main on the IP platform is one of the core's main.         *)
LEMMA IpMainRefines == IpMain => Main
  BY DEF IpMain, IpAccept, IpSend, IpServed, IpMainElse, Main

(* The gateway with the IP platform implements the two threads of           *)
(* GatewayCore: what discover.c does with its sockets is, for the list and  *)
(* the mutex, a step of the core or none.                                  *)
THEOREM IpImplementsCore == IpSpec => Spec
  <1>1. IpInit => Init
    BY DEF IpInit
  <1>2. [IpNext]_ipVars => [Next]_vars
    <2> SUFFICES ASSUME [IpNext]_ipVars PROVE [Next]_vars
      OBVIOUS
    <2>1. CASE IpMain
      BY <2>1, IpMainRefines DEF Next
    <2>2. CASE IpWorker
      BY <2>2, IpWorkerRefines DEF Next
    <2>3. CASE IpSigint \/ IpSpurious \/ IpTerminated
      BY <2>3 DEF IpSigint, IpSpurious, IpTerminated, Next
    <2>4. CASE \E n \in Node : IpNode(n)
      BY <2>4 DEF IpNode
    <2>5. CASE UNCHANGED ipVars
      BY <2>5 DEF ipVars
    <2> QED
      BY <2>1, <2>2, <2>3, <2>4, <2>5 DEF IpNext
  <1> QED
    BY <1>1, <1>2, PTL DEF IpSpec, Spec

(* With any number of nodes that come, fall silent and leave, main never    *)
(* has a device in hand that the worker tears down.                        *)
THEOREM IpMainSafe == IpSpec => []MainUsesOnlyLive
  BY IpImplementsCore, MainSafe, PTL

(* The proxy list of the IP gateway is a DeviceRegistry.                    *)
THEOREM IpImplementsRegistry == IpSpec => RegistrySpec
  BY IpImplementsCore, ImplementsRegistry, PTL
-----------------------------------------------------------------------------
(* The parts of IpIInv that the core does not give: those that hold in any  *)
(* case, and those that hold until a node is connected on a number that     *)
(* main is about to close.                                                 *)
IpParts    == IpTypeOK /\ Addressed /\ ScanPosition /\ Watched
IpSockets  == OwnSockets /\ StaysClosed /\ ClientIsOwn

(* Min of FiniteSetsExt is a member of every set of numbers but the empty   *)
(* one.                                                                    *)
LEMMA MinInSet ==
  ASSUME NEW S, S \subseteq Nat, S # {}
  PROVE  Min(S) \in S
  <1>1. PICK x \in S : \A y \in S : ~ (<< y, x >> \in OpToRel(<, Nat))
    BY WFMin, NatLessThanWellFounded, Zenon
  <1>2. \A y \in S : x =< y
    <2> SUFFICES ASSUME NEW y \in S, y < x PROVE FALSE
      OBVIOUS
    <2>1. << y, x >> \in OpToRel(<, Nat)
      BY Zenon DEF OpToRel
    <2> QED
      BY <1>1, <2>1, Zenon
  <1> QED
    BY <1>2, Zenon DEF Min

(* A set of two or more has something left when one is taken.               *)
LEMMA TwoOrMore ==
  ASSUME NEW S, IsFiniteSet(S), Cardinality(S) >= 2, NEW x
  PROVE  S \ { x } # {}
  <1>1. S # {}
    BY FS_EmptySet
  <1>2. Cardinality({ x }) = 1
    BY FS_Singleton
  <1>3. S # { x }
    BY <1>2
  <1> QED
    BY <1>1, <1>3

(* The descriptors a new socket gets are free ones.                        *)
LEMMA FreeDescriptors ==
  /\ FreeFds # {} => FirstFree \in Fd /\ fdt[FirstFree] = Closed
  /\ Cardinality(FreeFds) >= 2 =>
       /\ FreeFds # {}
       /\ SecondFree \in Fd \ { FirstFree } /\ fdt[SecondFree] = Closed
  /\ Cardinality(FreeFds) = 1 => FreeFds # {}
  <1>1. FreeFds \subseteq Nat /\ FreeFds \subseteq Fd
    BY IpAssumption DEF FreeFds, Fd
  <1>2. IsFiniteSet(FreeFds)
    <2>1. IsFiniteSet(Fd)
      BY IpAssumption, FS_Interval DEF Fd
    <2> QED
      BY <1>1, <2>1, FS_Subset
  <1>3. ASSUME FreeFds # {} PROVE FirstFree \in FreeFds
    BY <1>1, <1>3, MinInSet DEF FirstFree
  <1>4. ASSUME Cardinality(FreeFds) >= 2
        PROVE  FreeFds # {} /\ SecondFree \in FreeFds \ { FirstFree }
    <2>1. FreeFds \ { FirstFree } # {}
      BY <1>2, <1>4, TwoOrMore
    <2>2. FreeFds \ { FirstFree } \subseteq Nat
      BY <1>1
    <2> QED
      BY <2>1, <2>2, MinInSet DEF SecondFree
  <1>5. Cardinality(FreeFds) = 1 => FreeFds # {}
    BY FS_EmptySet
  <1> QED
    BY <1>1, <1>3, <1>4, <1>5 DEF FreeFds

(* The process starts with its discovery socket and nothing else.          *)
LEMMA InitIp == IpInit => IpParts /\ IpSockets
  <1> SUFFICES ASSUME IpInit PROVE IpParts /\ IpSockets
    OBVIOUS
  <1> USE DEF IpInit, Init
  <1>1. TypeOK
    BY InitIInv DEF IInv
  <1>2. NodeTypeOK
    BY DEF NodeInit, NodeTypeOK, NodeState
  <1>3. Disc \in Fd
    BY IpAssumption DEF Disc, Fd
  <1>4. Closed \in [kind : FdKind, node : Node \cup { NoNode }]
        /\ Conn("disc", NoNode) \in [kind : FdKind, node : Node \cup { NoNode }]
    BY DEF Closed, Conn, FdKind
  <1>5. IpTypeOK
    BY <1>1, <1>2, <1>3, <1>4 DEF IpTypeOK, NoAddr
  <1>6. Addressed /\ ScanPosition /\ Watched
    BY DEF Addressed, Allocated, ScanPosition, TearingDown, Watched
  <1>7. OwnSockets /\ ClientIsOwn
    BY DEF OwnSockets, Allocated, ClientIsOwn
  <1>8. StaysClosed
    BY <1>3 DEF StaysClosed, BetweenCloses
  <1> QED
    BY <1>5, <1>6, <1>7, <1>8 DEF IpParts, IpSockets

(* What a step of any thread or node leaves is of the right type.          *)
LEMMA IpTypeStep ==
  ASSUME IInv, IInv', IpTypeOK, Addressed, [IpNext]_ipVars
  PROVE  IpTypeOK'
  <1>0. TypeOK /\ TypeOK' /\ InHand
    BY DEF IInv
  <1> USE <1>0, NodeAssumption
      DEF IpTypeOK, NodeTypeOK, nodeVars, fdVars, watchVars
  <1>1. \A k \in FdKind, n \in Node \cup { NoNode } :
           Conn(k, n) \in [kind : FdKind, node : Node \cup { NoNode }]
    BY DEF Conn
  <1>2. /\ Closed \in [kind : FdKind, node : Node \cup { NoNode }]
        /\ Conn("client", NoNode) \in [kind : FdKind, node : Node \cup { NoNode }]
        /\ \A n \in Node :
             /\ Conn("ev", n) \in [kind : FdKind, node : Node \cup { NoNode }]
             /\ Conn("op", n) \in [kind : FdKind, node : Node \cup { NoNode }]
    BY <1>1 DEF Closed, FdKind
  <1>3. ASSUME NEW f, CloseFd(f)
        PROVE  fdt' \in [Fd -> [kind : FdKind, node : Node \cup { NoNode }]]
    BY <1>2, <1>3 DEF CloseFd
  <1>4. CASE IpCheck
    BY <1>4 DEF IpCheck
  <1>5. CASE IpSelect
    BY <1>5 DEF IpSelect
  <1>6. CASE IpStop
    BY <1>3, <1>6 DEF IpStop
  <1>7. CASE IpScanned
    BY <1>7 DEF IpScanned
  <1>8. ASSUME NEW n \in Node, NEW d \in Device, IpHello(n, d) PROVE IpTypeOK'
    <2>1. FirstFree \in Fd /\ SecondFree \in Fd
      BY <1>8, FreeDescriptors DEF IpHello
    <2>2. fdt' \in [Fd -> [kind : FdKind, node : Node \cup { NoNode }]]
      BY <1>2, <1>8, <2>1 DEF IpHello, ConnectedTo
    <2>3. addr' \in [Device -> [op : Fd \cup {0}, ev : Fd \cup {0}]]
      BY <1>8, <2>1 DEF IpHello
    <2> QED
      BY <1>8, <2>2, <2>3 DEF IpHello, ConnectedTo, NodeGets, HelloFrom, ReadAt, NodeState
  <1>9. ASSUME NEW n \in Node, IpHelloNotBuilt(n) PROVE IpTypeOK'
    <2>1. fdt' \in [Fd -> [kind : FdKind, node : Node \cup { NoNode }]]
      BY <1>2, <1>9, FreeDescriptors DEF IpHelloNotBuilt, ConnectedTo
    <2> QED
      BY <1>9, <2>1 DEF IpHelloNotBuilt, ConnectedTo, NodeGets, HelloFrom, ReadAt, NodeState
  <1>10. ASSUME NEW n \in Node, IpHelloHalf(n) PROVE IpTypeOK'
    <2>1. fdt' \in [Fd -> [kind : FdKind, node : Node \cup { NoNode }]]
      BY <1>2, <1>10, FreeDescriptors DEF IpHelloHalf
    <2> QED
      BY <1>10, <2>1 DEF IpHelloHalf, NodeGets, HelloFrom, ReadAt, NodeState
  <1>11. ASSUME NEW n \in Node, IpHelloFailed(n) PROVE IpTypeOK'
    BY <1>11 DEF IpHelloFailed, HelloFrom, ReadAt
  <1>12. CASE IpAddLock \/ IpAdd \/ IpLost \/ IpDelLock \/ IpDel \/ IpDelUnlock
              \/ IpDeactivate \/ IpBcast \/ \E d \in Device : IpCleanup(d)
    BY <1>12 DEF IpAddLock, IpAdd, IpLost, IpDelLock, IpDel, IpDelUnlock, IpDeactivate,
                 IpBcast, IpCleanup
  <1>13. CASE IpAddUnlock
    <2>1. addr[curW].ev \in Fd
      BY <1>13 DEF IpAddUnlock, WAddUnlock, WorkerAt, InHand, IInv, TypeOK, ListedAreUp,
                   Addressed, Allocated
    <2> QED
      BY <1>13, <2>1 DEF IpAddUnlock
  <1>14. ASSUME NEW d \in Device, IpMessage(d) PROVE IpTypeOK'
    BY <1>14 DEF IpMessage, ReadAt
  <1>15. CASE IpDelivered
    BY <1>15 DEF IpDelivered, MessageRead
  <1>16. CASE IpNotify
    BY <1>3, <1>16 DEF IpNotify
  <1>17. CASE IpFree
    <2>1. /\ addr' \in [Device -> [op : Fd \cup {0}, ev : Fd \cup {0}]]
          /\ serial' \in [Device -> Node \cup { NoNode }]
      BY <1>17 DEF IpFree, ForgetDevice, NoAddr
    <2> QED
      BY <1>3, <1>17, <2>1 DEF IpFree
  <1>18. CASE IpError
    BY <1>18 DEF IpError
  <1>19. CASE IpAccept
    <2>1. CASE FreeFds = {}
      BY <1>19, <2>1 DEF IpAccept
    <2>2. CASE FreeFds # {}
      <3>1. FirstFree \in Fd
        BY <2>2, FreeDescriptors
      <3>2. clientFd' = FirstFree /\ fdt' = [fdt EXCEPT ![FirstFree] = Conn("client", NoNode)]
        BY <1>19, <2>2 DEF IpAccept
      <3> QED
        BY <1>2, <1>19, <3>1, <3>2 DEF IpAccept
    <2> QED
      BY <2>1, <2>2
  <1>20. CASE IpSend
    BY <1>20 DEF IpSend
  <1>21. CASE IpServed
    <2>1. opq' \in [Node -> { "idle", "request", "reply" }]
      BY <1>21 DEF IpServed
    <2> QED
      BY <1>3, <1>21, <2>1 DEF IpServed
  <1>22. CASE IpMainElse
    BY <1>22 DEF IpMainElse
  <1>23. CASE IpSigint
    BY <1>23, IpAssumption DEF IpSigint
  <1>24. ASSUME NEW n \in Node, IpNode(n) PROVE IpTypeOK'
    BY <1>24 DEF IpNode, NodeStep, NodeStart, NodeEvent, NodeAnswer, NodeExit, NodeState
  <1>25. CASE IpSpurious \/ IpTerminated \/ UNCHANGED ipVars
    BY <1>25 DEF IpSpurious, IpTerminated, ipVars
  <1> QED
    BY <1>4, <1>5, <1>6, <1>7, <1>8, <1>9, <1>10, <1>11, <1>12, <1>13, <1>14, <1>15,
       <1>16, <1>17, <1>18, <1>19, <1>20, <1>21, <1>22, <1>23, <1>24, <1>25
       DEF IpNext, IpMain, IpWorker

(* Main, the nodes and the signal leave alone what the worker keeps of its  *)
(* devices and of the descriptors it watches.                              *)
LEMMA MainLeavesWatch ==
  ASSUME \/ IpMain \/ IpSigint \/ IpSpurious \/ IpTerminated \/ UNCHANGED ipVars
         \/ \E n \in Node : IpNode(n)
  PROVE  UNCHANGED << listed, mem, pcW, curW, closing, addr, serial, watchVars >>
  <1> USE DEF fdVars, watchVars
  <1>1. CASE IpAccept
    BY <1>1 DEF IpAccept, MAccept, workerVars
  <1>2. CASE IpSend
    BY <1>2 DEF IpSend, MSend, workerVars
  <1>3. CASE IpServed
    BY <1>3 DEF IpServed, MServed, workerVars
  <1>4. CASE IpMainElse
    BY <1>4 DEF IpMainElse, MLoop, MLock, MWait, MGoOn, MReacquire, MCount, MCollect,
                MTimeout, MUnlock, MSweepLock, MSweep, MSweepUnlock, MJoin, workerVars
  <1>5. CASE IpSigint \/ IpSpurious
    BY <1>5 DEF IpSigint, Sigint, IpSpurious, MSpuriousWakeup, workerVars
  <1>6. CASE IpTerminated \/ UNCHANGED ipVars
    BY <1>6 DEF IpTerminated, ipVars, vars, workerVars
  <1>7. CASE \E n \in Node : IpNode(n)
    BY <1>7 DEF IpNode, vars, workerVars
  <1> QED
    BY <1>1, <1>2, <1>3, <1>4, <1>5, <1>6, <1>7 DEF IpMain

(* The steps of the worker keep the descriptors it watches, the one it has  *)
(* in hand and the addresses of the devices together.                      *)
LEMMA WorkerIpParts ==
  ASSUME IInv, IInv', IpParts, IpTypeOK', IpWorker
  PROVE  (Addressed /\ ScanPosition /\ Watched)'
  <1>0. TypeOK /\ TypeOK' /\ InHand /\ InHand' /\ ListedAreUp /\ ListedAreUp' /\ Closing
    BY DEF IInv
  <1> USE <1>0
      DEF IpParts, Addressed, Allocated, ScanPosition, Watched, DevicesAt, TearingDown,
          WorkerAt, fdVars, watchVars
  <1>a. 0 \notin master
    BY IpAssumption DEF IpTypeOK, Fd
  <1>1. CASE IpCheck
    BY <1>1 DEF IpCheck, WCheck
  <1>2. CASE IpSelect
    <2> USE <1>2 DEF IpSelect, WSelect
    <2>1. Addressed' /\ Watched'
      OBVIOUS
    <2>2. curFd' = 0 /\ readfds' \subseteq master' /\ 0 \notin master'
      BY <1>a
    <2>3. ~ closing /\ pcW' = "scan"
      BY DEF Closing
    <2>4. ScanPosition'
      BY <2>2, <2>3
    <2> QED
      BY <2>1, <2>4
  <1>3. CASE IpStop
    BY <1>3 DEF IpStop, WStop
  <1>4. CASE IpScanned
    BY <1>4 DEF IpScanned, WScanned
  <1>5. ASSUME NEW n \in Node, NEW d \in Device, IpHello(n, d)
        PROVE  (Addressed /\ ScanPosition /\ Watched)'
    <2> USE <1>5 DEF IpHello, HelloFrom, ReadAt, WBuild
    <2>1. d \notin listed /\ curFd = 0
      BY DEF ListedAreUp
    <2>2. FirstFree \in Fd /\ SecondFree \in Fd
      BY FreeDescriptors
    <2>3. Addressed'
      BY <2>1, <2>2 DEF IpTypeOK
    <2>4. ScanPosition'
      BY <2>1, <2>2 DEF IpTypeOK, Fd
    <2>5. Watched'
      <3>1. \A e \in listed : addr'[e] = addr[e]
        BY <2>1 DEF IpTypeOK
      <3>2. UNCHANGED << listed, master, closing >> /\ curFd = 0 /\ curFd' = 0
        BY <2>1
      <3> QED
        BY <1>a, <3>1, <3>2
    <2> QED
      BY <2>3, <2>4, <2>5
  <1>6. CASE \E n \in Node : IpHelloNotBuilt(n) \/ IpHelloHalf(n) \/ IpHelloFailed(n)
    BY <1>6 DEF IpHelloNotBuilt, IpHelloHalf, IpHelloFailed, HelloFrom, ReadAt, WNothing
  <1>7. CASE IpAddLock
    BY <1>7 DEF IpAddLock, WAddLock
  <1>8. CASE IpAdd
    BY <1>8 DEF IpAdd, WAdd
  <1>9. CASE IpAddUnlock
    <2> USE <1>9 DEF IpAddUnlock, WAddUnlock
    <2>1. Addressed'
      OBVIOUS
    <2>2. curFd = 0 /\ readfds \subseteq master' /\ 0 \notin master'
      <3>1. addr[curW].ev \in Fd
        BY DEF InHand, TypeOK, ListedAreUp
      <3> QED
        BY <1>a, <3>1, IpAssumption DEF Fd
    <2>3. ScanPosition'
      BY <2>2
    <2>4. \A f \in master' : f \in master \/ (curW \in listed /\ addr[curW].ev = f)
      BY DEF InHand
    <2>5. Watched'
      BY <2>4
    <2> QED
      BY <2>1, <2>3, <2>5
  <1>10. ASSUME NEW d \in Device, IpMessage(d)
         PROVE  (Addressed /\ ScanPosition /\ Watched)'
    BY <1>10 DEF IpMessage, ReadAt, WMessage
  <1>11. CASE IpDelivered
    BY <1>a, <1>11 DEF IpDelivered, WDelivered
  <1>12. CASE IpLost
    BY <1>12 DEF IpLost, WLost
  <1>13. CASE IpNotify
    BY <1>13 DEF IpNotify, WNotify
  <1>14. CASE IpDelLock
    BY <1>14 DEF IpDelLock, WDelLock
  <1>15. CASE IpDel
    BY <1>15 DEF IpDel, WDel
  <1>16. CASE IpDelUnlock
    BY <1>16 DEF IpDelUnlock, WDelUnlock
  <1>17. CASE IpDeactivate
    <2> USE <1>17 DEF IpDeactivate, WDeactivate
    <2>1. Addressed'
      BY DEF InHand, TypeOK
    <2>2. ScanPosition' /\ Watched'
      OBVIOUS
    <2> QED
      BY <2>1, <2>2
  <1>18. CASE IpFree
    <2> USE <1>18 DEF IpFree, WFree, ForgetDevice
    <2>1. \A d \in Device \ { curW } :
             mem'[d] = mem[d] /\ addr'[d] = addr[d] /\ serial'[d] = serial[d]
      BY DEF IpTypeOK, TypeOK
    <2>2. mem'[curW] = "unalloc" /\ curW \notin listed
      BY DEF InHand, TypeOK
    <2>3. Addressed'
      BY <2>1, <2>2
    <2>4. ScanPosition'
      BY <1>a
    <2>5. Watched'
      BY <2>1, <2>2
    <2> QED
      BY <2>3, <2>4, <2>5
  <1>19. CASE IpError
    BY <1>19 DEF IpError, WNothing
  <1>20. ASSUME NEW d \in Device, IpCleanup(d)
         PROVE  (Addressed /\ ScanPosition /\ Watched)'
    <2> USE <1>20 DEF IpCleanup, WCleanup
    <2>1. closing
      BY DEF Closing
    <2>2. Addressed' /\ Watched'
      BY <2>1
    <2>3. ScanPosition'
      BY <2>1
    <2> QED
      BY <2>2, <2>3
  <1>21. CASE IpBcast
    BY <1>21 DEF IpBcast, WCleaned, WBcastLock, WBcast, WBcastUnlock
  <1> QED
    BY <1>1, <1>2, <1>3, <1>4, <1>5, <1>6, <1>7, <1>8, <1>9, <1>10, <1>11, <1>12,
       <1>13, <1>14, <1>15, <1>16, <1>17, <1>18, <1>19, <1>20, <1>21
       DEF IpWorker

(* A step that touches no descriptor, does not allocate a device, keeps a   *)
(* teardown in hand and leaves main with its client.                       *)
Quiet ==
  /\ UNCHANGED << fdt, clientFd, reused, addr, serial, closing >>
  /\ pcM \in { "serve", "await" } => pcM' \in { "serve", "await" }
  /\ Allocated' \subseteq Allocated
  /\ TearingDown => TearingDown' /\ curW' = curW
  /\ BetweenCloses' => BetweenCloses /\ curFd' = curFd

(* Nothing happens to the sockets in such a step.                          *)
LEMMA QuietStep == IpSockets /\ Quiet => IpSockets'
  <1> SUFFICES ASSUME IpSockets, Quiet PROVE IpSockets'
    OBVIOUS
  <1> USE DEF Quiet, IpSockets
  <1>1. OwnSockets'
    BY DEF OwnSockets, Conn
  <1>2. StaysClosed'
    BY DEF StaysClosed, Conn, Closed
  <1>3. ClientIsOwn'
    BY DEF ClientIsOwn, Conn, Closed
  <1> QED
    BY <1>1, <1>2, <1>3

(* Most of the steps are such steps.                                       *)
LEMMA QuietSteps ==
  ASSUME IInv, IpParts,
         \/ IpCheck \/ IpSelect \/ IpScanned \/ IpAddLock \/ IpAdd \/ IpAddUnlock
         \/ IpDelivered \/ IpLost \/ IpDelLock \/ IpDel \/ IpDelUnlock \/ IpDeactivate
         \/ IpError \/ IpBcast \/ \E d \in Device : IpMessage(d) \/ IpCleanup(d)
         \/ \E n \in Node : IpHelloFailed(n) \/ IpNode(n)
         \/ IpSend \/ IpMainElse \/ IpSigint \/ IpSpurious \/ IpTerminated
         \/ UNCHANGED ipVars
  PROVE  Quiet
  <1>0. TypeOK
    BY DEF IInv
  <1> USE <1>0 DEF Quiet, Allocated, TearingDown, BetweenCloses, WorkerAt, fdVars, watchVars, mainVars
  <1>1. CASE IpCheck \/ IpSelect \/ IpScanned
    BY <1>1 DEF IpCheck, WCheck, IpSelect, WSelect, IpScanned, WScanned
  <1>2. CASE IpAddLock \/ IpAdd \/ IpAddUnlock
    BY <1>2 DEF IpAddLock, WAddLock, IpAdd, WAdd, IpAddUnlock, WAddUnlock, Broadcast
  <1>3. CASE IpDelivered \/ IpLost \/ IpDelLock \/ IpDel \/ IpDelUnlock
    BY <1>3 DEF IpDelivered, WDelivered, IpLost, WLost, IpDelLock, WDelLock, IpDel, WDel,
                IpDelUnlock, WDelUnlock
  <1>4. CASE IpDeactivate
    <2>1. Allocated' \subseteq Allocated
      BY <1>4 DEF IpDeactivate, WDeactivate, IInv, InHand, TypeOK
    <2> QED
      BY <1>4, <2>1 DEF IpDeactivate, WDeactivate
  <1>5. CASE IpError \/ IpBcast \/ \E n \in Node : IpHelloFailed(n)
    BY <1>5 DEF IpError, IpHelloFailed, HelloFrom, ReadAt, WNothing, IpBcast, WCleaned,
                WBcastLock, WBcast, WBcastUnlock, Broadcast
  <1>6. CASE \E d \in Device : IpMessage(d) \/ IpCleanup(d)
    BY <1>6 DEF IpMessage, WMessage, IpCleanup, WCleanup
  <1>7. CASE \/ IpSend \/ IpMainElse \/ IpSigint \/ IpSpurious \/ IpTerminated
             \/ UNCHANGED ipVars \/ \E n \in Node : IpNode(n)
    <2>1. UNCHANGED << mem, pcW, curW, closing, curFd >>
      BY <1>7, MainLeavesWatch DEF IpMain
    <2>2. UNCHANGED << fdt, clientFd, reused, addr, serial >>
      BY <1>7 DEF IpSend, IpMainElse, IpSigint, IpSpurious, IpTerminated, IpNode, ipVars
    <2>3. pcM \in { "serve", "await" } => pcM' \in { "serve", "await" }
      <3>1. CASE IpMainElse
        BY <3>1 DEF IpMainElse, MLoop, MLock, MWait, MGoOn, MReacquire, MCount, MCollect,
                    MTimeout, MUnlock, MSweepLock, MSweep, MSweepUnlock, MJoin, MainAt
      <3>2. CASE ~ IpMainElse
        BY <1>7, <3>2 DEF IpSend, MSend, IpSigint, Sigint, IpSpurious, MSpuriousWakeup,
                          IpTerminated, Terminated, IpNode, ipVars, vars, mainVars, MainAt
      <3> QED
        BY <3>1, <3>2
    <2> QED
      BY <2>1, <2>2, <2>3
  <1> QED
    BY <1>1, <1>2, <1>3, <1>4, <1>5, <1>6, <1>7

(* The other steps open or close sockets.  When no node gets the number of  *)
(* a client, the second close of the scan closes nothing or that client.    *)
LEMMA SocketSteps ==
  ASSUME IInv, IpParts, IpSockets, [IpNext]_ipVars, ~ Quiet,
         reused # "node", reused' # "node"
  PROVE  IpSockets'
  <1>0. TypeOK /\ InHand /\ ListedAreUp
    BY DEF IInv
  <1>1. \A f \in Fd :
          /\ \A n \in Node : /\ fdt[f] = Conn("op", n) => fdt[f].kind = "op"
                            /\ fdt[f] = Conn("ev", n) => fdt[f].kind = "ev"
          /\ fdt[f] = Conn("disc", NoNode) => fdt[f].kind = "disc"
          /\ fdt[f] = Conn("client", NoNode) => fdt[f].kind = "client"
          /\ fdt[f] = Closed => fdt[f].kind = "free"
    BY DEF Conn, Closed
  <1>2. /\ fdt \in [Fd -> [kind : FdKind, node : Node \cup { NoNode }]]
        /\ 0 \notin Fd /\ Disc \in Fd
        /\ reused \in { "none", "client" }
        /\ clientFd \in Fd \cup {0} /\ curFd \in Fd \cup {0}
    BY IpAssumption DEF IpParts, IpTypeOK, Fd, Disc
  <1>3. \A d \in Allocated : addr[d].op \in Fd /\ addr[d].ev \in Fd /\ serial[d] \in Node
    BY DEF IpParts, Addressed
  <1>3a. \A d \in Allocated :
           /\ fdt[addr[d].op].kind = "op"
           /\ fdt[addr[d].ev].kind = "ev" \/ (d = curW /\ TearingDown)
    <2>1. \A k \in { "op", "ev" }, n \in Node : Conn(k, n).kind = k
      BY DEF Conn
    <2> QED
      BY <1>3, <2>1 DEF IpSockets, OwnSockets
  <1>3b. clientFd # 0 => clientFd \in Fd /\ fdt[clientFd].kind \in { "client", "free" }
    BY <1>1, <1>2 DEF IpSockets, ClientIsOwn
  (* When the descriptors in use stay what they are, but for main's own,    *)
  (* the sockets of the devices stay too.                                   *)
  <1>4. ASSUME UNCHANGED << addr, serial, mem, curW, pcW, closing >>,
               \A f \in Fd : fdt[f].kind \notin { "free", "client" } => fdt'[f] = fdt[f]
        PROVE  OwnSockets' /\ (~ closing => fdt'[Disc] = Conn("disc", NoNode))
    <2> USE <1>4 DEF IpSockets
    <2>1. OwnSockets'
      BY <1>3, <1>3a DEF OwnSockets, Allocated, TearingDown
    <2>2. ~ closing => fdt'[Disc] = Conn("disc", NoNode)
      BY <1>1, <1>2 DEF StaysClosed
    <2> QED
      BY <2>1, <2>2
  <1>5. CASE IpStop
    <2> USE <1>5 DEF IpStop, WStop, WorkerAt
    <2>1. UNCHANGED << addr, serial, mem, curW, curFd, clientFd, reused, pcM >> /\ closing'
          /\ ~ TearingDown /\ ~ TearingDown'
      BY DEF watchVars, mainVars, TearingDown
    <2>2. ~ closing
      BY DEF IInv, Closing
    <2>3. \A f \in Fd : fdt[f].kind \in { "op", "ev", "client", "free" } => fdt'[f] = fdt[f]
      BY <1>1, <1>2, <2>2 DEF CloseFd, IpSockets, StaysClosed
    <2>4. OwnSockets'
      BY <1>3, <1>3a, <2>1, <2>3 DEF IpSockets, OwnSockets, Allocated
    <2>5. StaysClosed'
      BY <2>1 DEF StaysClosed, BetweenCloses
    <2>6. ClientIsOwn'
      BY <1>3b, <2>1, <2>3 DEF IpSockets, ClientIsOwn, Conn, Closed
    <2> QED
      BY <2>4, <2>5, <2>6 DEF IpSockets
  <1>6. ASSUME NEW n \in Node, NEW d \in Device, IpHello(n, d) PROVE IpSockets'
    <2> USE <1>6 DEF IpHello, HelloFrom, ReadAt, WBuild, WorkerAt
    <2>1. /\ FirstFree \in Fd /\ fdt[FirstFree] = Closed
          /\ SecondFree \in Fd \ { FirstFree } /\ fdt[SecondFree] = Closed
      BY FreeDescriptors
    <2>2. /\ \A f \in Fd \ { FirstFree, SecondFree } : fdt'[f] = fdt[f]
          /\ \A f \in Fd : fdt[f] # Closed => fdt'[f] = fdt[f]
          /\ fdt'[FirstFree] = Conn("ev", n) /\ fdt'[SecondFree] = Conn("op", n)
      BY <1>2, <2>1 DEF ConnectedTo
    <2>3. ~ TearingDown /\ ~ TearingDown'
      BY DEF TearingDown
    <2>4. /\ d \notin Allocated /\ Allocated' = Allocated \cup { d }
          /\ \A e \in Allocated : addr'[e] = addr[e] /\ serial'[e] = serial[e]
          /\ addr'[d] = [op |-> SecondFree, ev |-> FirstFree] /\ serial'[d] = n
      BY <1>0 DEF Allocated, TypeOK, IpParts, IpTypeOK
    <2>5. \A e \in Allocated :
            /\ fdt[addr[e].op] = Conn("op", serial[e]) /\ fdt[addr[e].ev] = Conn("ev", serial[e])
            /\ fdt[addr[e].op] # Closed /\ fdt[addr[e].ev] # Closed
      BY <1>1, <1>3, <2>3 DEF IpSockets, OwnSockets, Closed, Conn
    <2>6. OwnSockets'
      <3>1. \A e \in Allocated' :
              fdt'[addr'[e].op] = Conn("op", serial'[e]) /\ fdt'[addr'[e].ev] = Conn("ev", serial'[e])
        BY <1>3, <2>2, <2>4, <2>5
      <3>2. \A e \in Allocated : addr'[e].ev # addr'[d].ev
        BY <2>1, <2>4, <2>5
      <3>3. \A e, g \in Allocated' : addr'[e].ev = addr'[g].ev => e = g
        BY <2>4, <3>2 DEF IpSockets, OwnSockets
      <3> QED
        BY <3>1, <3>3 DEF OwnSockets
    <2>7. StaysClosed'
      <3>1. fdt[Disc] # Closed => fdt'[Disc] = fdt[Disc]
        BY <1>2, <2>2
      <3> QED
        BY <1>1, <1>2, <2>3, <3>1 DEF IpSockets, StaysClosed, BetweenCloses
    <2>8. ClientIsOwn'
      <3>1. clientFd \notin { FirstFree, SecondFree } /\ reused' = reused
        BY DEF ConnectedTo, NodeGets
      <3>2. UNCHANGED << clientFd, pcM >>
        BY DEF mainVars
      <3> QED
        BY <1>3b, <2>2, <3>1, <3>2 DEF IpSockets, ClientIsOwn, Conn, Closed
    <2> QED
      BY <2>6, <2>7, <2>8 DEF IpSockets
  <1>7. ASSUME NEW n \in Node, IpHelloNotBuilt(n) \/ IpHelloHalf(n) PROVE IpSockets'
    <2>1. /\ UNCHANGED << addr, serial, mem, curW, pcW, curFd, closing, clientFd, pcM >>
          /\ ~ BetweenCloses
      BY <1>7 DEF IpHelloNotBuilt, IpHelloHalf, HelloFrom, ReadAt, WNothing, BetweenCloses,
                  TearingDown, mainVars
    <2>2. /\ FirstFree \in Fd /\ fdt[FirstFree] = Closed
          /\ IpHelloNotBuilt(n) => SecondFree \in Fd /\ fdt[SecondFree] = Closed
      BY <1>7, FreeDescriptors DEF IpHelloNotBuilt, IpHelloHalf
    <2>3. \A f \in Fd : fdt[f] # Closed => fdt'[f] = fdt[f]
      BY <1>2, <1>7, <2>2 DEF IpHelloNotBuilt, IpHelloHalf, ConnectedTo
    <2>4. OwnSockets' /\ StaysClosed'
      BY <1>1, <1>4, <2>1, <2>3 DEF StaysClosed, BetweenCloses, TearingDown
    <2>5. ClientIsOwn'
      <3>1. reused' = reused /\ (clientFd # 0 => fdt'[clientFd] = fdt[clientFd])
        <4>1. CASE IpHelloNotBuilt(n)
          BY <1>2, <2>2, <4>1 DEF IpHelloNotBuilt, ConnectedTo, NodeGets
        <4>2. CASE IpHelloHalf(n)
          BY <1>2, <2>2, <4>2 DEF IpHelloHalf, NodeGets
        <4> QED
          BY <1>7, <4>1, <4>2
      <3> QED
        BY <2>1, <3>1 DEF IpSockets, ClientIsOwn, Conn, Closed
    <2> QED
      BY <2>4, <2>5 DEF IpSockets
  <1>8. CASE IpNotify
    <2> USE <1>8 DEF IpNotify, WNotify, WorkerAt
    <2>1. /\ UNCHANGED << addr, serial, mem, curW, curFd, closing, clientFd, reused, pcM >>
          /\ ~ TearingDown /\ TearingDown'
      BY DEF TearingDown, watchVars, mainVars
    <2>2. curW \in Allocated /\ fdt[addr[curW].ev] = Conn("ev", serial[curW])
      BY <1>0, <2>1 DEF InHand, ListedAreUp, TypeOK, Allocated, IpSockets, OwnSockets
    <2>3. /\ \A f \in Fd \ { addr[curW].ev } : fdt'[f] = fdt[f]
          /\ addr[curW].ev \in Fd /\ fdt'[addr[curW].ev] = Closed
      BY <1>2, <1>3, <2>2 DEF CloseFd
    <2>4. OwnSockets'
      <3>1. Allocated' = Allocated
        BY <2>1 DEF Allocated
      <3>2. \A e \in Allocated : fdt'[addr[e].op] = Conn("op", serial[e])
        <4> SUFFICES ASSUME NEW e \in Allocated PROVE fdt'[addr[e].op] = Conn("op", serial[e])
          OBVIOUS
        <4>1. fdt[addr[e].op] = Conn("op", serial[e])
          BY DEF IpSockets, OwnSockets
        <4>2. addr[e].op # addr[curW].ev
          BY <2>2, <4>1 DEF Conn
        <4> QED
          BY <1>3, <2>3, <4>1, <4>2
      <3>3. \A e \in Allocated \ { curW } : fdt'[addr[e].ev] = Conn("ev", serial[e])
        BY <1>3, <2>1, <2>2, <2>3 DEF IpSockets, OwnSockets
      <3> QED
        BY <2>1, <3>1, <3>2, <3>3 DEF IpSockets, OwnSockets
    <2>5. StaysClosed'
      <3>1. curFd # 0 => curFd = addr[curW].ev
        BY DEF IpParts, ScanPosition
      <3> QED
        BY <1>1, <1>2, <2>1, <2>2, <2>3, <3>1
           DEF IpSockets, StaysClosed, BetweenCloses, Conn
    <2>6. ClientIsOwn'
      <3>1. clientFd # 0 => fdt'[clientFd] = fdt[clientFd]
        BY <1>3a, <1>3b, <2>1, <2>2, <2>3
      <3> QED
        BY <2>1, <3>1 DEF IpSockets, ClientIsOwn, Conn, Closed
    <2> QED
      BY <2>4, <2>5, <2>6 DEF IpSockets
  <1>9. CASE IpFree
    <2> USE <1>9 DEF IpFree, WFree
    <2>1. /\ closing' = closing /\ TearingDown /\ ~ TearingDown'
          /\ UNCHANGED << clientFd, reused, pcM >>
      BY DEF TearingDown, mainVars
    <2>2. /\ \A f \in Fd : fdt[f].kind # "client" => fdt'[f] = fdt[f]
          /\ \A f \in Fd : fdt'[f] # fdt[f] => /\ fdt'[f] = Closed
                                               /\ f = clientFd /\ reused = "client"
      <3>1. \A f \in Fd \ { curFd } : fdt'[f] = fdt[f]
        BY <1>2 DEF CloseFd
      <3>2. CASE curFd = 0
        BY <1>2, <3>1, <3>2
      <3>3. CASE curFd # 0
        <4>1. curFd \in Fd /\ fdt'[curFd] = Closed
          BY <1>2, <3>3 DEF CloseFd
        <4>2. \/ fdt[curFd] = Closed
              \/ /\ reused = "client" /\ curFd = clientFd
                 /\ fdt[curFd] = Conn("client", NoNode)
          BY <2>1, <3>3 DEF IpSockets, StaysClosed, BetweenCloses
        <4> QED
          BY <1>1, <3>1, <4>1, <4>2
      <3> QED
        BY <3>2, <3>3
    <2>3. /\ Allocated' = Allocated \ { curW }
          /\ \A e \in Allocated' : addr'[e] = addr[e] /\ serial'[e] = serial[e]
      BY <1>0 DEF Allocated, ForgetDevice, TypeOK, IpParts, IpTypeOK
    <2>4. OwnSockets'
      <3>1. \A e \in Allocated' : /\ fdt[addr[e].op].kind = "op"
                                  /\ fdt[addr[e].ev].kind = "ev"
        BY <1>3a, <2>3
      <3>2. \A e \in Allocated' : /\ fdt'[addr[e].op] = fdt[addr[e].op]
                                  /\ fdt'[addr[e].ev] = fdt[addr[e].ev]
        BY <1>3, <2>2, <2>3, <3>1
      <3> QED
        BY <2>3, <3>2 DEF IpSockets, OwnSockets
    <2>5. StaysClosed'
      BY <1>1, <1>2, <2>1, <2>2 DEF IpSockets, StaysClosed, BetweenCloses
    <2>6. ClientIsOwn'
      <3>1. clientFd # 0 => fdt'[clientFd] = fdt[clientFd]
                             \/ (fdt'[clientFd] = Closed /\ reused = "client")
        BY <1>3b, <2>2
      <3> QED
        BY <2>1, <3>1 DEF IpSockets, ClientIsOwn, Conn, Closed
    <2> QED
      BY <2>4, <2>5, <2>6 DEF IpSockets
  <1>10. CASE IpAccept
    <2>1. UNCHANGED << addr, serial, mem, curW, pcW, curFd, closing >>
      BY <1>10, MainLeavesWatch DEF IpMain, watchVars
    <2>2. clientFd = 0 /\ reused = "none" /\ pcM' = "serve"
      <3>1. pcM \notin { "serve", "await" } /\ pcM' = "serve"
        BY <1>10 DEF IpAccept, MAccept, MainAt
      <3> QED
        BY <1>2, <3>1 DEF IpSockets, ClientIsOwn
    <2>3. BetweenCloses' <=> BetweenCloses
      BY <2>1 DEF BetweenCloses, TearingDown
    <2>4. BetweenCloses => curFd \in Fd /\ fdt[curFd] = Closed
      BY <1>2, <2>2 DEF BetweenCloses, IpSockets, StaysClosed
    <2>5. CASE FreeFds = {}
      <3>1. UNCHANGED << fdt, reused >> /\ clientFd' = 0
        BY <1>10, <2>5 DEF IpAccept
      <3>2. OwnSockets' /\ StaysClosed'
        BY <1>4, <2>1, <2>3, <2>4, <3>1 DEF StaysClosed, Closed, Conn
      <3> QED
        BY <2>2, <3>1, <3>2 DEF IpSockets, ClientIsOwn
    <2>6. CASE FreeFds # {}
      <3>1. FirstFree \in Fd /\ fdt[FirstFree] = Closed
        BY <2>6, FreeDescriptors
      <3>2. /\ clientFd' = FirstFree
            /\ fdt' = [fdt EXCEPT ![FirstFree] = Conn("client", NoNode)]
            /\ reused' = IF BetweenCloses /\ FirstFree = curFd THEN "client" ELSE "none"
        BY <1>10, <2>2, <2>6 DEF IpAccept
      <3>3. /\ \A f \in Fd \ { FirstFree } : fdt'[f] = fdt[f]
            /\ fdt'[FirstFree] = Conn("client", NoNode)
        BY <1>2, <3>1, <3>2
      <3>4. OwnSockets' /\ (~ closing => fdt'[Disc] = Conn("disc", NoNode))
        BY <1>1, <1>4, <2>1, <3>1, <3>3
      <3>5. StaysClosed'
        BY <2>1, <2>3, <2>4, <3>2, <3>3, <3>4 DEF StaysClosed, Closed, Conn
      <3>6. ClientIsOwn'
        BY <1>2, <2>2, <3>1, <3>2, <3>3 DEF ClientIsOwn, Conn
      <3> QED
        BY <3>4, <3>5, <3>6 DEF IpSockets
    <2> QED
      BY <2>5, <2>6
  <1>11. CASE IpServed
    <2> USE <1>11 DEF IpServed
    <2>1. /\ UNCHANGED << addr, serial, mem, curW, pcW, curFd, closing >>
          /\ clientFd' = 0 /\ reused' = "none"
      BY <1>2, MainLeavesWatch DEF IpMain, watchVars
    <2>2. \A f \in Fd : fdt'[f] = IF f = clientFd THEN Closed ELSE fdt[f]
      BY <1>2 DEF CloseFd
    <2>3. OwnSockets' /\ (~ closing => fdt'[Disc] = Conn("disc", NoNode))
      BY <1>2, <1>3b, <1>4, <2>1, <2>2
    <2>4. StaysClosed'
      <3>1. ASSUME BetweenCloses PROVE fdt'[curFd] = Closed
        BY <1>2, <2>2, <3>1 DEF BetweenCloses, IpSockets, StaysClosed
      <3> QED
        BY <2>1, <2>3, <3>1 DEF StaysClosed, BetweenCloses, TearingDown, Closed, Conn
    <2>5. ClientIsOwn'
      BY <2>1 DEF ClientIsOwn
    <2> QED
      BY <2>3, <2>4, <2>5 DEF IpSockets
  <1> QED
    BY <1>5, <1>6, <1>7, <1>8, <1>9, <1>10, <1>11, QuietSteps DEF IpNext, IpMain, IpWorker

(* That a node has got the number of a client is never forgotten.           *)
LEMMA ReuseStays ==
  ASSUME IInv, IpParts, [IpNext]_ipVars, reused = "node"
  PROVE  reused' = "node"
  <1> USE DEF fdVars
  <1>1. CASE Quiet
    BY <1>1 DEF Quiet
  <1>2. CASE IpStop \/ IpNotify \/ IpFree \/ IpAccept \/ IpServed
    BY <1>2 DEF IpStop, IpNotify, IpFree, IpAccept, IpServed
  <1>3. CASE \E n \in Node : \/ IpHelloNotBuilt(n) \/ IpHelloHalf(n)
                             \/ \E d \in Device : IpHello(n, d)
    BY <1>3 DEF IpHelloNotBuilt, IpHelloHalf, IpHello, ConnectedTo, NodeGets
  <1> QED
    BY <1>1, <1>2, <1>3, QuietSteps DEF IpNext, IpMain, IpWorker

(* The invariant of the IP platform holds in every state, for any number of *)
(* devices, nodes and descriptors, whenever clients are accepted and on      *)
(* whichever thread SIGINT arrives.                                        *)
THEOREM IpInductiveInvariant == IpSpec => []IpIInv
  <1> DEFINE Inv == IpParts /\ (reused # "node" => IpSockets)
  <1>1. IpInit => Inv
    BY InitIp
  <1>2. IInv /\ IInv' /\ Inv /\ [IpNext]_ipVars => Inv'
    <2> SUFFICES ASSUME IInv, IInv', Inv, [IpNext]_ipVars PROVE Inv'
      OBVIOUS
    <2>1. IpTypeOK'
      BY IpTypeStep DEF IpParts
    <2>2. (Addressed /\ ScanPosition /\ Watched)'
      <3>1. CASE IpWorker
        BY <2>1, <3>1, WorkerIpParts
      <3>2. CASE ~ IpWorker
        <4>1. UNCHANGED << listed, mem, pcW, curW, closing, addr, serial, watchVars >>
          BY <3>2, MainLeavesWatch DEF IpNext
        <4> QED
          BY <4>1 DEF IpParts, Addressed, Allocated, ScanPosition, Watched, DevicesAt,
                      TearingDown, watchVars
      <3> QED
        BY <3>1, <3>2
    <2>3. reused' # "node" => IpSockets'
      BY QuietStep, SocketSteps, ReuseStays
    <2> QED
      BY <2>1, <2>2, <2>3 DEF IpParts
  <1>3. IInv /\ Inv => IpIInv
    BY DEF IpParts, IpSockets, IpIInv
  <1>4. IpSpec => []IInv
    BY IpImplementsCore, InductiveInvariant, PTL
  <1> HIDE DEF Inv
  <1> QED
    BY <1>1, <1>2, <1>3, <1>4, PTL DEF IpSpec

(* Every variable of the platform keeps its type: in particular the         *)
(* descriptors a new connection gets are descriptors of the table.         *)
THEOREM IpTypeCorrect == IpSpec => []IpTypeOK
  <1>1. IpIInv => IpTypeOK
    BY DEF IpIInv
  <1> QED
    BY IpInductiveInvariant, <1>1, PTL

(* Whatever becomes of the descriptors, a readable one that the scan takes  *)
(* for an event socket is that of a listed device: the assertion in         *)
(* remote_device_get_dpws_device does not fail.                            *)
THEOREM UnregistersKnown == IpSpec => []UnregistersKnownDevice
  <1>1. IpIInv => UnregistersKnownDevice
    <2> SUFFICES ASSUME IpIInv, NEW f \in readfds \ { Disc } PROVE DevicesAt(f) # {}
      BY DEF UnregistersKnownDevice
    <2>1. ~ closing
      BY DEF IpIInv, ScanPosition
    <2>2. f \in master \ { Disc } /\ f # curFd
      BY DEF IpIInv, ScanPosition
    <2> QED
      BY <2>1, <2>2 DEF IpIInv, Watched
  <1> QED
    BY IpInductiveInvariant, <1>1, PTL

(* Every listed device has the sockets of its own node, whatever is closed  *)
(* twice and whoever is accepted in between, until a node is connected on    *)
(* the number of a client that lost its connection so.                     *)
THEOREM SocketsAreOwn == IpSpec => []SocketsIdentifyDevices
  <1>1. IpIInv => SocketsIdentifyDevices
    <2> SUFFICES ASSUME IpIInv, reused # "node", NEW d \in listed
                 PROVE  /\ fdt[addr[d].op] = Conn("op", serial[d])
                        /\ \/ fdt[addr[d].ev] = Conn("ev", serial[d])
                           \/ d = curW /\ pcW \in { "del_lock", "del" }
      BY DEF SocketsIdentifyDevices
    <2>1. d \in Allocated
      BY DEF IpIInv, IInv, TypeOK, ListedAreUp, Allocated
    <2>2. d = curW /\ TearingDown => pcW \in { "del_lock", "del" }
      BY DEF IpIInv, IInv, InHand, TearingDown
    <2> QED
      BY <2>1, <2>2 DEF IpIInv, OwnSockets
  <1> QED
    BY IpInductiveInvariant, <1>1, PTL

(* A client whose connection somebody but main closes was given, between    *)
(* the two closes of an event socket, the number of this socket; there is   *)
(* no other way to lose it.                                                *)
THEOREM OthersAreKept == IpSpec => []OnlyReusedIsLost
  <1>1. IpIInv => OnlyReusedIsLost
    BY DEF IpIInv, OnlyReusedIsLost, ClientKeepsConnection, ClientIsOwn, Conn
  <1> QED
    BY IpInductiveInvariant, <1>1, PTL
=============================================================================
