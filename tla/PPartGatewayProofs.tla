------------------------- MODULE PPartGatewayProofs -------------------------
(***************************************************************************)
(* PPartGateway implements GatewayCore, for any number of devices,         *)
(* particles, requests and retries: what pPart/discover.c does with its    *)
(* packets and with pkt_received is, for the list and proxy_mutex, a step  *)
(* of the core or none.                                                    *)
(***************************************************************************)
EXTENDS PPartGateway, GatewayCoreProofs

(* Every step of the worker of pPart/discover.c is one of the core's worker *)
(* or leaves the core alone.                                               *)
LEMMA PpWorkerRefines == PpWorker => Worker \/ UNCHANGED vars
  <1> SUFFICES ASSUME PpWorker PROVE Worker \/ UNCHANGED vars
    OBVIOUS
  <1>1. CASE PpCheck \/ PpRecv \/ PpScanned \/ PpStop
    BY <1>1 DEF PpCheck, PpRecv, PpScanned, PpStop, Worker
  <1>2. CASE PpNotBuilt \/ PpDelivered \/ PpLost \/ PpFree
    BY <1>2 DEF PpNotBuilt, PpDelivered, PpLost, PpFree, Worker
  <1>3. CASE \E d \in Device : PpNew(d) \/ PpDeliver(d) \/ PpExpire(d)
    BY <1>3 DEF PpNew, PpDeliver, PpExpire, Worker
  <1>4. CASE PpWorkerElse
    BY <1>4 DEF PpWorkerElse, Worker
  <1>5. CASE \/ PpKnown \/ PpNoOperation \/ PpHandle \/ PpUnknown
             \/ PpAnswerTaken \/ PpReset \/ PpTime
    BY <1>5 DEF PpKnown, PpNoOperation, PpHandle, PpUnknown, PpAnswerTaken,
                PpReset, PpTime
  <1> QED
    BY <1>1, <1>2, <1>3, <1>4, <1>5 DEF PpWorker

(* In rcv_buf main waits and resends without touching the list.            *)
LEMMA PpMainRefines == PpMain => Main \/ UNCHANGED vars
  <1> SUFFICES ASSUME PpMain PROVE Main \/ UNCHANGED vars
    OBVIOUS
  <1>1. CASE PpSend \/ RpcGiveUp \/ RpcAnswer \/ RpcNone
    BY <1>1 DEF PpSend, RpcGiveUp, RpcAnswer, RpcNone, Main
  <1>2. CASE PpMainElse
    BY <1>2 DEF PpMainElse, Main
  <1>3. CASE RpcEnter \/ RpcTimeout \/ RpcWoken \/ RpcRetry
    BY <1>3 DEF RpcEnter, RpcTimeout, RpcWoken, RpcRetry
  <1> QED
    BY <1>1, <1>2, <1>3 DEF PpMain

(* The gateway with the pPart platform implements the two threads of       *)
(* GatewayCore, whatever the particles and the radio do.                   *)
THEOREM PpImplementsCore == PpSpec => Spec
  <1>1. PpInit => Init
    BY DEF PpInit
  <1>2. [PpNext]_ppVars => [Next]_vars
    <2> SUFFICES ASSUME [PpNext]_ppVars PROVE [Next]_vars
      OBVIOUS
    <2>1. CASE PpMain
      BY <2>1, PpMainRefines DEF Next
    <2>2. CASE PpWorker
      BY <2>2, PpWorkerRefines DEF Next
    <2>3. CASE Environment
      BY <2>3 DEF Environment, ParticleAnswers, ParticleSends, Silence, RpcSpurious, Next
    <2>4. CASE PpTerminated \/ UNCHANGED ppVars
      BY <2>4 DEF PpTerminated, ppVars
    <2> QED
      BY <2>1, <2>2, <2>3, <2>4 DEF PpNext
  <1> QED
    BY <1>1, <1>2, PTL DEF PpSpec, Spec

(* With any number of particles that send, fall silent and return, main    *)
(* never has a device in hand that the worker tears down: a request that   *)
(* is waiting or being sent again keeps its device alive.                  *)
THEOREM PpMainSafe == PpSpec => []MainUsesOnlyLive
  BY PpImplementsCore, MainSafe, PTL

(* The proxy list of the pPart gateway is a DeviceRegistry.                 *)
THEOREM PpImplementsRegistry == PpSpec => RegistrySpec
  BY PpImplementsCore, ImplementsRegistry, PTL
-----------------------------------------------------------------------------
(* The parts of PpIInv that the core does not give. *)
PpParts ==
  /\ PpTypeOK /\ PassControl /\ InCall /\ Senders /\ SenderKnown
  /\ OneProxyPerParticle

(* ... and those that concern pkt_received and the answers.                 *)
Answers == MatchStays /\ PacketStaysPut /\ OnePlace

(* Nothing has been sent and nothing is listed when the worker starts.      *)
LEMMA InitPpParts == PpInit => PpParts
  <1> SUFFICES ASSUME PpInit PROVE PpParts
    OBVIOUS
  <1> USE DEF PpInit, Init
  <1>1. TypeOK
    BY InitIInv DEF IInv
  <1>2. PpTypeOK
    <2>1. NoPacket \in Packet({ "event", "beacon", "reply", "none" })
      BY PPartAssumption DEF Packet, NoPacket
    <2>2. 0 \in 0 .. MaxReq /\ 0 \in 0 .. Retries
      BY PPartAssumption
    <2> QED
      BY <1>1, <2>1, <2>2 DEF PpTypeOK
  <1>3. PassControl /\ InCall /\ Senders /\ SenderKnown
    BY DEF PassControl, InCall, Senders, SenderKnown
  <1>4. OneProxyPerParticle
    BY DEF OneProxyPerParticle
  <1> QED
    BY <1>2, <1>3, <1>4 DEF PpParts

(* The steps of the worker that concern a packet or its own list of         *)
(* expired devices.                                                        *)
LEMMA WorkerPpParts ==
  ASSUME IInv, IInv', PpParts, PpWorker
  PROVE  PpParts'
  <1> USE PPartAssumption, DeviceAssumption
      DEF PpParts, PpTypeOK, PassControl, InCall, Senders, SenderKnown,
          OneProxyPerParticle, ProxiesOf, InPass, WorkerAt,
          particleVars, passVars, callVars, ptrVars, mainVars, workerVars
  <1>0. TypeOK /\ TypeOK' /\ InHand /\ Closing
    BY DEF IInv
  <1> USE <1>0
  <1>1. CASE PpCheck
    BY <1>1 DEF PpCheck, WCheck, Packet, NoPacket
  <1>2. CASE PpRecv
    BY <1>2 DEF PpRecv, WSelect, Packet, NoPacket
  <1>3. CASE PpKnown
    BY <1>3 DEF PpKnown, vars
  <1>4. ASSUME NEW d \in Device, PpNew(d) PROVE PpParts'
    <2> USE <1>4 DEF PpNew, WBuild
    <2>1. d \notin listed
      BY DEF IInv, ListedAreUp
    <2>2. pid' \in [Device -> Particle \cup { NoParticle }]
      OBVIOUS
    <2>3. /\ pid'[d] = wbuf.src
          /\ \A e \in listed : pid'[e] = pid[e]
      BY <2>1
    <2> QED
      BY <2>1, <2>2, <2>3
  <1>5. CASE PpNotBuilt
    BY <1>5 DEF PpNotBuilt, WNothing
  <1>6. CASE PpNoOperation
    BY <1>6 DEF PpNoOperation, vars
  <1>7. CASE PpHandle
    BY <1>7 DEF PpHandle, vars
  <1>8. ASSUME NEW d \in Device, PpDeliver(d) PROVE PpParts'
    BY <1>8 DEF PpDeliver, WMessage
  <1>9. CASE PpUnknown
    BY <1>9 DEF PpUnknown, vars
  <1>10. CASE PpAnswerTaken
    BY <1>10 DEF PpAnswerTaken, vars
  <1>11. CASE PpDelivered
    BY <1>11 DEF PpDelivered, WDelivered
  <1>12. CASE PpReset
    BY <1>12 DEF PpReset, vars
  <1>13. CASE PpTime
    BY <1>13 DEF PpTime, vars
  <1>14. ASSUME NEW d \in Device, PpExpire(d) PROVE PpParts'
    BY <1>14 DEF PpExpire, WMessage
  <1>15. CASE PpLost
    BY <1>15 DEF PpLost, WLost, Closing
  <1>16. CASE PpFree
    BY <1>16 DEF PpFree, WFree, InHand
  <1>17. CASE PpScanned
    BY <1>17 DEF PpScanned, WScanned
  <1>18. CASE PpStop
    BY <1>18 DEF PpStop, WStop
  <1>19. CASE PpWorkerElse
    <2> USE <1>19 DEF PpWorkerElse
    <2>1. CASE WAddLock \/ WDelLock \/ WDelUnlock \/ WNotify \/ WDeactivate
      BY <2>1 DEF WAddLock, WDelLock, WDelUnlock, WNotify, WDeactivate
    <2>2. CASE WAdd
      BY <2>2 DEF WAdd, Broadcast, InHand
    <2>3. CASE WAddUnlock
      BY <2>3 DEF WAddUnlock
    <2>4. CASE WDel
      BY <2>4 DEF WDel
    <2>5. CASE WCleaned \/ WBcastLock \/ WBcast \/ WBcastUnlock
      BY <2>5 DEF WCleaned, WBcastLock, WBcast, WBcastUnlock, Broadcast
    <2>6. ASSUME NEW d \in Device, WCleanup(d) PROVE PpParts'
      BY <2>6 DEF WCleanup, Closing
    <2> QED
      BY <2>1, <2>2, <2>3, <2>4, <2>5, <2>6 DEF PpWorkerElse
  <1> QED
    BY <1>1, <1>2, <1>3, <1>4, <1>5, <1>6, <1>7, <1>8, <1>9, <1>10, <1>11, <1>12,
       <1>13, <1>14, <1>15, <1>16, <1>17, <1>18, <1>19 DEF PpWorker
(* The steps of main: a request stays within its bounds, and main is in     *)
(* rcv_buf only with a device it has looked up.                            *)
LEMMA MainPpParts ==
  ASSUME IInv, IInv', PpParts, PpMain
  PROVE  PpParts'
  <1> USE PPartAssumption, DeviceAssumption
      DEF PpParts, PpTypeOK, PassControl, InCall, Senders, SenderKnown,
          OneProxyPerParticle, ProxiesOf, MainAt,
          particleVars, passVars, callVars, ptrVars, mainVars, workerVars
  <1>0. TypeOK /\ TypeOK' /\ Snapshot
    BY DEF IInv
  <1> USE <1>0
  <1>1. ASSUME NEW tx \in Packet({ "request" }), tx.src \in Particle, Transmit(tx)
        PROVE  air' \subseteq Packet({ "request" }) /\ \A m \in air' : m \in air \/ m = tx
    BY <1>1 DEF Transmit
  <1>2. LookOrWait => rpc' \in { "match", "wait", "einval" }
    BY DEF LookOrWait, TimedWait
  <1>3. CASE PpSend
    <2> USE <1>3 DEF PpSend, MSend
    <2>1. CASE lastRem' = NoDevice
      BY <2>1
    <2>2. CASE lastRem' # NoDevice
      <3>1. lastRem' \in listed /\ pid[lastRem'] \in Particle
        BY <2>2
      <3> DEFINE tx == Request(pid[lastRem'], req', 0)
      <3>2. tx \in Packet({ "request" }) /\ tx.src \in Particle
        BY <2>2, <3>1 DEF Request, Packet
      <3>3. Transmit(tx)
        BY <2>2
      <3> HIDE DEF tx
      <3>4. air' \subseteq Packet({ "request" }) /\ \A m \in air' : m.src \in Particle
        BY <1>1, <3>2, <3>3
      <3> QED
        BY <2>2, <3>4
    <2> QED
      BY <2>1, <2>2
  <1>4. CASE RpcEnter
    BY <1>4 DEF RpcEnter, TimedWait, vars
  <1>5. CASE RpcTimeout
    BY <1>5 DEF RpcTimeout, vars
  <1>6. CASE RpcWoken
    BY <1>2, <1>6 DEF RpcWoken, vars
  <1>7. CASE RpcRetry
    <2> USE <1>7 DEF RpcRetry, vars
    <2>1. lastRem \in listed /\ pid[lastRem] \in Particle
      BY DEF Snapshot
    <2> DEFINE tx == Request(pid[lastRem], req, tries')
    <2>2. tries' \in 0 .. Retries
      OBVIOUS
    <2>3. tx \in Packet({ "request" }) /\ tx.src \in Particle
      BY <2>1, <2>2 DEF Request, Packet
    <2>4. Transmit(tx)
      OBVIOUS
    <2> HIDE DEF tx
    <2>5. air' \subseteq Packet({ "request" }) /\ \A m \in air' : m.src \in Particle
      BY <1>1, <2>3, <2>4
    <2> QED
      BY <1>2, <2>2, <2>5
  <1>8. CASE RpcGiveUp
    <2>1. tries' \in 0 .. Retries
      BY <1>8 DEF RpcGiveUp
    <2> QED
      BY <1>8, <2>1 DEF RpcGiveUp, MServed
  <1>9. CASE RpcAnswer
    <2>1. tries' \in 0 .. Retries
      BY <1>9 DEF RpcAnswer
    <2> QED
      BY <1>9, <2>1 DEF RpcAnswer, MServed
  <1>10. CASE RpcNone
    BY <1>10 DEF RpcNone, MServed
  <1>11. CASE PpMainElse
    BY <1>11 DEF PpMainElse, MLoop, MLock, MWait, MGoOn, MReacquire, MCount, MCollect,
                 MTimeout, MAccept, MUnlock, MSweepLock, MSweep, MSweepUnlock, MJoin
  <1> QED
    BY <1>3, <1>4, <1>5, <1>6, <1>7, <1>8, <1>9, <1>10, <1>11 DEF PpMain

(* What the particles and the radio do brings packets of particles only.    *)
LEMMA EnvironmentPpParts ==
  ASSUME IInv', PpParts, Environment
  PROVE  PpParts'
  <1> USE PPartAssumption
      DEF PpParts, PpTypeOK, PassControl, InCall, Senders, SenderKnown,
          OneProxyPerParticle, ProxiesOf,
          particleVars, passVars, callVars, ptrVars, mainVars, workerVars
  <1>0. TypeOK'
    BY DEF IInv
  <1> USE <1>0
  <1>1. ASSUME NEW m, m \in Packet({ "event", "beacon", "reply" }), m.src \in Particle,
               Arrives(m)
        PROVE  /\ inbox' \subseteq Packet({ "event", "beacon", "reply" })
               /\ \A n \in inbox' : n.src \in Particle
    BY <1>1 DEF Arrives
  <1>2. ASSUME NEW tx \in air, ParticleAnswers(tx) PROVE PpParts'
    <2>1. ReplyTo(tx) \in Packet({ "event", "beacon", "reply" }) /\ ReplyTo(tx).src \in Particle
      BY DEF ReplyTo, Packet
    <2> QED
      BY <1>1, <1>2, <2>1 DEF ParticleAnswers, vars
  <1>3. ASSUME NEW p \in Particle, ParticleSends(p) PROVE PpParts'
    <2>1. \A k \in Kinds : /\ Unasked(p, k) \in Packet({ "event", "beacon", "reply" })
                           /\ Unasked(p, k).src \in Particle
      BY DEF Unasked, Packet
    <2> QED
      BY <1>1, <1>3, <2>1 DEF ParticleSends, vars
  <1>4. ASSUME NEW d \in Device, Silence(d) PROVE PpParts'
    BY <1>4 DEF Silence, vars
  <1>5. CASE RpcSpurious
    BY <1>5 DEF RpcSpurious, vars
  <1>6. CASE (MSpuriousWakeup \/ Sigint) /\ UNCHANGED << particleVars, passVars, callVars, ptrVars >>
    BY <1>6 DEF MSpuriousWakeup, Sigint, MainAt
  <1> QED
    BY <1>2, <1>3, <1>4, <1>5, <1>6 DEF Environment

(* Every request, and every answer to one, is of a request so far: what     *)
(* main transmits next is new.                                             *)
LEMMA StampedStep ==
  ASSUME PpTypeOK, Stamped, [PpNext]_ppVars
  PROVE  Stamped'
  <1> USE DEF Stamped, OfRequestSoFar, particleVars, passVars, callVars, ptrVars
  <1>0. req \in Nat /\ tries \in Nat
        /\ \A m \in air \cup inbox \cup used \cup { wbuf } : m.req \in Nat /\ m.try \in Nat
    BY PPartAssumption DEF PpTypeOK, Packet
  <1>1. CASE PpSend
    <2> USE <1>1 DEF PpSend
    <2>1. CASE lastRem' = NoDevice
      BY <2>1
    <2>2. CASE lastRem' # NoDevice
      <3>1. req' = req + 1 /\ tries' = 0
            /\ air' = air \cup { Request(pid[lastRem'], req', 0) }
            /\ UNCHANGED << inbox, used, wbuf >>
        BY <2>2 DEF Transmit
      <3>2. \A m \in air \cup inbox \cup used \cup { wbuf } :
              m.kind \in { "request", "reply" } => m.req < req'
        BY <1>0, <3>1
      <3>3. Request(pid[lastRem'], req', 0).req = req' /\ Request(pid[lastRem'], req', 0).try = 0
        BY DEF Request
      <3> QED
        BY <1>0, <3>1, <3>2, <3>3
    <2> QED
      BY <2>1, <2>2
  <1>2. CASE RpcRetry
    <2> DEFINE tx == Request(pid[lastRem], req, tries')
    <2>1. /\ UNCHANGED << inbox, used, wbuf, req >> /\ tries' = tries + 1
          /\ air' = air \cup { tx } /\ rpc # "none"
      BY <1>2 DEF RpcRetry, Transmit
    <2>2. tx.req = req /\ tx.try = tries'
      BY DEF Request
    <2> HIDE DEF tx
    <2> QED
      BY <1>0, <2>1, <2>2
  <1>3. CASE RpcGiveUp \/ RpcAnswer
    BY <1>3 DEF RpcGiveUp, RpcAnswer
  <1>4. CASE RpcEnter \/ RpcTimeout \/ RpcWoken \/ RpcSpurious
    BY <1>4 DEF RpcEnter, RpcTimeout, RpcWoken, RpcSpurious
  <1>5. ASSUME NEW tx \in air, ParticleAnswers(tx) PROVE Stamped'
    <2>1. ReplyTo(tx).req = tx.req /\ ReplyTo(tx).try = tx.try /\ tx.kind = "request"
      BY DEF ReplyTo, PpTypeOK, Packet
    <2>2. \A m \in inbox' : m \in inbox \/ m = ReplyTo(tx)
      BY <1>5 DEF ParticleAnswers, Arrives
    <2> QED
      BY <1>5, <2>1, <2>2 DEF ParticleAnswers
  <1>6. ASSUME NEW p \in Particle, ParticleSends(p) PROVE Stamped'
    <2>1. \A m \in inbox' : m \in inbox \/ m.kind \in Kinds
      BY <1>6 DEF ParticleSends, Arrives, Unasked
    <2> QED
      BY <1>6, <2>1, PPartAssumption DEF ParticleSends
  <1>7. CASE PpRecv
    BY <1>7 DEF PpRecv, NoPacket
  <1>8. CASE PpCheck \/ PpStop
    BY <1>8 DEF PpCheck, PpStop, NoPacket
  <1>9. CASE PpHandle
    BY <1>9 DEF PpHandle
  <1>10. CASE \/ PpScanned \/ PpKnown \/ PpNotBuilt \/ PpNoOperation \/ PpUnknown
              \/ PpAnswerTaken \/ PpDelivered \/ PpReset \/ PpTime \/ PpLost \/ PpFree
              \/ PpWorkerElse \/ RpcNone \/ PpMainElse \/ PpTerminated \/ UNCHANGED ppVars
    BY <1>10 DEF PpScanned, PpKnown, PpNotBuilt, PpNoOperation, PpUnknown, PpAnswerTaken,
                 PpDelivered, PpReset, PpTime, PpLost, PpFree, PpWorkerElse, RpcNone,
                 PpMainElse, PpTerminated, ppVars
  <1>11. CASE \E d \in Device : PpNew(d) \/ PpDeliver(d) \/ PpExpire(d) \/ Silence(d)
    BY <1>11 DEF PpNew, PpDeliver, PpExpire, Silence
  <1>12. CASE (MSpuriousWakeup \/ Sigint) /\ UNCHANGED << particleVars, passVars, callVars, ptrVars >>
    BY <1>12
  <1> QED
    BY <1>1, <1>2, <1>3, <1>4, <1>5, <1>6, <1>7, <1>8, <1>9, <1>10, <1>11, <1>12
       DEF PpNext, PpMain, PpWorker, Environment

(* What pkt_received points to, also when it was left set, is an answer main *)
(* waits for only while the worker cannot end the part of its pass it is in. *)
LEMMA MatchStep ==
  ASSUME IInv, PpParts, MatchStays, PacketStaysPut, [PpNext]_ppVars
  PROVE  MatchStays' /\ PacketStaysPut'
  <1> USE DEF MatchStays, PacketStaysPut, ProxiesOf, InPass, WorkerAt, MainAt,
              particleVars, passVars, callVars, ptrVars, mainVars, workerVars
  <1>0. /\ rpc # "none" => lastRem \in listed /\ pcM = "await"
        /\ PassControl
        /\ wstep \in { "recv", "process", "handle", "check", "reset", "time", "expire" }
        /\ pid \in [Device -> Particle \cup { NoParticle }] /\ listed \subseteq Device
    BY DEF IInv, TypeOK, Snapshot, PpParts, PpTypeOK, InCall
  <1>1. CASE PpCheck
    BY <1>0, <1>1 DEF PpCheck, WCheck, PassControl, NoPacket
  <1>2. CASE PpRecv
    BY <1>0, <1>2 DEF PpRecv, WSelect, PassControl
  <1>3. CASE PpKnown \/ PpNoOperation \/ PpAnswerTaken \/ PpTime
    BY <1>3 DEF PpKnown, PpNoOperation, PpAnswerTaken, PpTime, vars
  <1>4. ASSUME NEW d \in Device, PpNew(d) PROVE MatchStays' /\ PacketStaysPut'
    <2>1. d \notin listed
      BY <1>4 DEF PpNew, WBuild, IInv, ListedAreUp
    <2> QED
      BY <1>0, <1>4, <2>1 DEF PpNew, WBuild
  <1>5. CASE PpNotBuilt \/ PpDelivered
    BY <1>5 DEF PpNotBuilt, WNothing, PpDelivered, WDelivered
  <1>6. CASE PpHandle
    BY <1>6 DEF PpHandle, PacketMutexFree, vars
  <1>7. CASE PpReset
    BY <1>7 DEF PpReset, PacketMutexFree, vars
  <1>8. CASE PpUnknown
    BY <1>0, <1>8 DEF PpUnknown, vars
  <1>9. ASSUME NEW d \in Device, PpDeliver(d) \/ PpExpire(d)
        PROVE  MatchStays' /\ PacketStaysPut'
    BY <1>9 DEF PpDeliver, PpExpire, WMessage
  <1>10. CASE PpLost \/ PpScanned \/ PpStop
    BY <1>10 DEF PpLost, WLost, PpScanned, WScanned, PpStop, WStop
  <1>11. CASE PpFree
    <2>1. curW \notin listed
      BY <1>11 DEF PpFree, WFree, IInv, InHand
    <2> QED
      BY <1>0, <1>11, <2>1 DEF PpFree, WFree
  <1>12. CASE PpWorkerElse
    <2>1. CASE WAdd
      BY <1>0, <1>12, <2>1 DEF PpWorkerElse, WAdd, PassControl
    <2>2. CASE ~ WAdd
      <3>1. listed' \subseteq listed /\ lastRem' = lastRem
        BY <1>12, <2>2
           DEF PpWorkerElse, WAddLock, WAddUnlock, WNotify, WDelLock, WDel, WDelUnlock,
               WDeactivate, WCleaned, WBcastLock, WBcast, WBcastUnlock, WCleanup
      <3> QED
        BY <1>12, <3>1 DEF PpWorkerElse
    <2> QED
      BY <2>1, <2>2
  <1>13. CASE PpSend
    BY <1>0, <1>13 DEF PpSend, MSend
  <1>14. CASE RpcEnter \/ RpcTimeout \/ RpcSpurious
    BY <1>14 DEF RpcEnter, RpcTimeout, RpcSpurious, TimedWait, vars
  <1>15. CASE RpcWoken \/ RpcRetry
    <2>1. /\ UNCHANGED << vars, pid, wbuf, wstep, used, taken, dangling >>
          /\ rpc # "none" /\ LookOrWait
      BY <1>15 DEF RpcWoken, RpcRetry
    <2>2. rpc' = "match" => Matching
      BY <2>1 DEF LookOrWait, TimedWait
    <2>3. Matching => wstep \notin { "time", "expire", "recv" }
      BY <1>0, <2>1 DEF Matching
    <2> QED
      BY <1>0, <2>1, <2>2, <2>3 DEF Matching, vars
  <1>16. CASE RpcGiveUp \/ RpcAnswer
    BY <1>16 DEF RpcGiveUp, RpcAnswer, MServed
  <1>17. CASE RpcNone
    BY <1>17 DEF RpcNone, MServed
  <1>18. CASE PpMainElse
    <2>1. UNCHANGED << listed, lastRem >>
      BY <1>18 DEF PpMainElse, MLoop, MLock, MWait, MGoOn, MReacquire, MCount, MCollect,
                   MTimeout, MAccept, MUnlock, MSweepLock, MSweep, MSweepUnlock, MJoin
    <2> QED
      BY <1>18, <2>1 DEF PpMainElse
  <1>19. CASE \/ \E tx \in air : ParticleAnswers(tx)
              \/ \E p \in Particle : ParticleSends(p)
              \/ \E d \in Device : Silence(d)
    BY <1>19 DEF ParticleAnswers, ParticleSends, Silence, vars
  <1>20. CASE (MSpuriousWakeup \/ Sigint) /\ UNCHANGED << particleVars, passVars, callVars, ptrVars >>
    BY <1>20 DEF MSpuriousWakeup, Sigint
  <1>21. CASE PpTerminated \/ UNCHANGED ppVars
    BY <1>21 DEF PpTerminated, ppVars, vars
  <1> QED
    BY <1>1, <1>2, <1>3, <1>4, <1>5, <1>6, <1>7, <1>8, <1>9, <1>10, <1>11, <1>12, <1>13,
       <1>14, <1>15, <1>16, <1>17, <1>18, <1>19, <1>20, <1>21
       DEF PpNext, PpMain, PpWorker, Environment

(* An answer is at one place at a time: a request with a new stamp has none, *)
(* and what main has taken is handed over no more.                         *)
LEMMA OnePlaceStep ==
  ASSUME PpTypeOK, PassControl, Stamped, Answers, [PpNext]_ppVars
  PROVE  OnePlace'
  <1> USE DEF Answers, OnePlace, MatchStays, particleVars, passVars, callVars, ptrVars
  <1>0. /\ req \in Nat /\ tries \in Nat
        /\ \A m \in air \cup inbox \cup used \cup { wbuf } : m.req \in Nat /\ m.try \in Nat
        /\ air \subseteq Packet({ "request" })
    BY PPartAssumption DEF PpTypeOK, Packet
  <1>1. \A tx \in air : ReplyTo(tx).kind = "reply"
    BY <1>0 DEF ReplyTo, Packet
  <1>2. \A t1, t2 \in air : ReplyTo(t1) = ReplyTo(t2) => t1 = t2
    BY <1>0 DEF ReplyTo, Packet
  (* A request with a new stamp has no answer anywhere.                     *)
  <1>3. ASSUME NEW tx, tx.kind = "request", ~ OfRequestSoFar(tx),
               ReplyTo(tx).req = tx.req, ReplyTo(tx).try = tx.try, ReplyTo(tx).kind = "reply"
        PROVE  ReplyTo(tx) \notin inbox \cup used \cup { wbuf }
    BY <1>3 DEF Stamped, OfRequestSoFar
  <1>4. CASE PpSend
    <2>1. UNCHANGED << inbox, used, wbuf, wstep, taken >> /\ (rpc' = rpc \/ rpc' = "enter")
      BY <1>4 DEF PpSend
    <2>2. CASE lastRem' = NoDevice
      BY <1>4, <2>1, <2>2 DEF PpSend
    <2>3. CASE lastRem' # NoDevice
      <3> DEFINE tx == Request(pid[lastRem'], req', 0)
      <3>1. air' = air \cup { tx } /\ req' = req + 1
        BY <1>4, <2>3 DEF PpSend, Transmit
      <3>2. /\ tx.kind = "request" /\ tx.req = req' /\ ReplyTo(tx).kind = "reply"
            /\ ReplyTo(tx).req = tx.req /\ ReplyTo(tx).try = tx.try
        BY DEF Request, ReplyTo
      <3> HIDE DEF tx
      <3>3. ~ OfRequestSoFar(tx)
        BY <1>0, <3>1, <3>2 DEF OfRequestSoFar
      <3>4. ReplyTo(tx) \notin inbox \cup used \cup { wbuf }
        BY <1>3, <3>2, <3>3
      <3> QED
        BY <2>1, <3>1, <3>4
    <2> QED
      BY <2>2, <2>3
  <1>5. CASE RpcRetry
    <2> DEFINE tx == Request(pid[lastRem], req, tries')
    <2>1. /\ UNCHANGED << inbox, used, wbuf, wstep, taken, req >>
          /\ tries' = tries + 1 /\ rpc # "none"
          /\ air' = air \cup { tx }
      BY <1>5 DEF RpcRetry, Transmit
    <2>2. /\ tx.kind = "request" /\ tx.req = req /\ tx.try = tries'
          /\ ReplyTo(tx).kind = "reply"
          /\ ReplyTo(tx).req = tx.req /\ ReplyTo(tx).try = tx.try
      BY DEF Request, ReplyTo
    <2> HIDE DEF tx
    <2>4. ~ OfRequestSoFar(tx)
      BY <1>0, <2>1, <2>2 DEF OfRequestSoFar
    <2>5. ReplyTo(tx) \notin inbox \cup used \cup { wbuf }
      BY <1>3, <2>2, <2>4
    <2> QED
      BY <2>1, <2>5
  <1>6. CASE RpcGiveUp
    BY <1>6 DEF RpcGiveUp
  <1>7. CASE RpcAnswer
    <2>1. /\ UNCHANGED << air, inbox, wbuf, wstep >>
          /\ ~ taken' /\ taken /\ wbuf \notin used
      BY <1>7 DEF RpcAnswer, PacketStaysPut
    <2>2. CASE dangling
      <3>1. used' = used
        BY <1>7, <2>2 DEF RpcAnswer
      <3> QED
        BY <2>1, <3>1
    <2>3. CASE ~ dangling
      <3>1. used' = used \cup { wbuf } /\ wstep \in { "check", "reset" }
        BY <1>7, <2>1, <2>3 DEF RpcAnswer
      <3> QED
        BY <2>1, <3>1
    <2> QED
      BY <2>2, <2>3
  <1>8. CASE RpcEnter \/ RpcTimeout \/ RpcWoken \/ RpcSpurious
    BY <1>8 DEF RpcEnter, RpcTimeout, RpcWoken, RpcSpurious, LookOrWait, Matching, TimedWait
  <1>9. ASSUME NEW tx \in air, ParticleAnswers(tx) PROVE OnePlace'
    <2>1. \A m \in inbox' : m \in inbox \/ m = ReplyTo(tx)
      BY <1>9 DEF ParticleAnswers, Arrives
    <2>2. air' = air \ { tx } /\ UNCHANGED << used, wbuf, wstep, taken, rpc >>
      BY <1>9 DEF ParticleAnswers
    <2>3. \A t \in air' : ReplyTo(t) # ReplyTo(tx)
      BY <1>2, <2>2
    <2> QED
      BY <2>1, <2>2, <2>3
  <1>10. ASSUME NEW p \in Particle, ParticleSends(p) PROVE OnePlace'
    <2>1. \A m \in inbox' : m \in inbox \/ m.kind \in Kinds
      BY <1>10 DEF ParticleSends, Arrives, Unasked
    <2>2. UNCHANGED << air, used, wbuf, wstep, taken, rpc >>
      BY <1>10 DEF ParticleSends
    <2> QED
      BY <1>1, <2>1, <2>2, PPartAssumption
  <1>11. CASE PpRecv
    <2>1. UNCHANGED << air, used >>
      BY <1>11 DEF PpRecv
    <2>2. ASSUME NEW m \in inbox, wbuf' = m, inbox' = inbox \ { m }, wstep' = "process"
          PROVE  OnePlace'
      BY <1>11, <2>1, <2>2 DEF PpRecv
    <2>3. CASE inbox = {} /\ wstep' = "time" /\ UNCHANGED << inbox, wbuf >>
      BY <1>11, <2>1, <2>3 DEF PpRecv
    <2> QED
      BY <1>11, <2>2, <2>3 DEF PpRecv
  <1>12. CASE PpCheck
    BY <1>1, <1>12 DEF PpCheck, NoPacket
  <1>13. CASE PpStop
    BY <1>13 DEF PpStop
  <1>14. CASE PpHandle
    BY <1>14 DEF PpHandle, InPass, PacketMutexFree
  <1>15. CASE PpReset
    BY <1>15 DEF PpReset, PacketMutexFree
  <1>16. CASE \/ PpKnown \/ PpNotBuilt \/ PpNoOperation \/ PpUnknown \/ PpAnswerTaken
              \/ PpDelivered \/ PpTime
    BY <1>16 DEF PpKnown, PpNotBuilt, PpNoOperation, PpUnknown, PpAnswerTaken, PpDelivered,
                 PpTime, InPass
  <1>17. CASE \E d \in Device : PpNew(d) \/ PpDeliver(d) \/ PpExpire(d) \/ Silence(d)
    BY <1>17 DEF PpNew, PpDeliver, PpExpire, Silence, InPass
  <1>18. CASE \/ PpScanned \/ PpLost \/ PpFree \/ PpWorkerElse \/ RpcNone \/ PpMainElse
              \/ PpTerminated \/ UNCHANGED ppVars
              \/ (MSpuriousWakeup \/ Sigint)
                   /\ UNCHANGED << particleVars, passVars, callVars, ptrVars >>
    BY <1>18 DEF PpScanned, PpLost, PpFree, PpWorkerElse, RpcNone, PpMainElse, PpTerminated,
                 ppVars
  <1> QED
    BY <1>4, <1>5, <1>6, <1>7, <1>8, <1>9, <1>10, <1>11, <1>12, <1>13, <1>14, <1>15,
       <1>16, <1>17, <1>18 DEF PpNext, PpMain, PpWorker, Environment

(* The invariant of the pPart platform holds in every state, for any number *)
(* of devices, particles, requests, retries and packets at the socket.      *)
THEOREM PpInductiveInvariant == PpSpec => []PpIInv
  <1> DEFINE Inv == PpParts /\ Stamped /\ Answers
  <1>1. PpInit => Inv
    <2>1. PpInit => Stamped /\ Answers
      BY DEF PpInit, Stamped, Answers, OnePlace, MatchStays, PacketStaysPut, NoPacket
    <2> QED
      BY <2>1, InitPpParts
  <1>2. IInv /\ IInv' /\ Inv /\ [PpNext]_ppVars => Inv'
    <2> SUFFICES ASSUME IInv, IInv', Inv, [PpNext]_ppVars PROVE Inv'
      OBVIOUS
    <2>1. PpParts'
      <3>1. CASE PpTerminated \/ UNCHANGED ppVars
        BY <3>1 DEF PpTerminated, ppVars, vars, mainVars, workerVars, particleVars, passVars,
           callVars, ptrVars, PpParts, PpTypeOK, TypeOK, PassControl, InCall, Senders, SenderKnown,
           OneProxyPerParticle, ProxiesOf
      <3> QED
        BY <3>1, WorkerPpParts, MainPpParts, EnvironmentPpParts DEF PpNext
    <2>2. Stamped'
      BY StampedStep DEF PpParts
    <2>3. Answers'
      BY MatchStep, OnePlaceStep DEF PpParts, Answers
    <2> QED
      BY <2>1, <2>2, <2>3
  <1>3. IInv /\ Inv => PpIInv
    BY DEF PpParts, Answers, PpIInv
  <1>4. PpSpec => []IInv
    BY PpImplementsCore, InductiveInvariant, PTL
  <1> HIDE DEF Inv
  <1> QED
    BY <1>1, <1>2, <1>3, <1>4, PTL DEF PpSpec

(* Every variable of the platform keeps its type: the retries, the requests *)
(* and the packets within their bounds.                                    *)
THEOREM PpTypeCorrect == PpSpec => []PpTypeOK
  <1>1. PpIInv => PpTypeOK
    BY DEF PpIInv
  <1> QED
    BY PpInductiveInvariant, <1>1, PTL

(* discovery_process_pkt looks a particle up and lists it in two steps, yet *)
(* no particle ever has two proxies.                                       *)
THEOREM ParticleHasOneProxy == PpSpec => []OneProxyPerParticle
  <1>1. PpIInv => OneProxyPerParticle
    BY DEF PpIInv
  <1> QED
    BY PpInductiveInvariant, <1>1, PTL

(* The device rcv_buf takes from last_rem_dev stays listed, and its address *)
(* stays the particle's, until rcv_buf returns.                            *)
THEOREM CallHasProxy == PpSpec => []CallKeepsProxy
  <1>1. PpIInv => CallKeepsProxy
    BY DEF PpIInv, IInv, Snapshot, InCall, Senders, CallKeepsProxy
  <1> QED
    BY PpInductiveInvariant, <1>1, PTL

(* Main takes pkt_received_mutex, and waits for an answer the worker has to   *)
(* hand over, with proxy_mutex in hand; the worker needs both, one after    *)
(* the other.  Still there is always a thread that waits for neither.       *)
THEOREM PpThreadsNotDeadlocked == PpSpec => []PpNoDeadlock
  <1>1. PpIInv => (WaitsForPacketMutex => ~ MainWaits /\ pcM # "done")
    BY DEF PpIInv, IInv, Owner, MainHoldsMutex, InCall, WaitsForPacketMutex, PacketMutexFree, MainWaits
  <1>2. PpSpec => []NoDeadlock
    BY PpImplementsCore, ThreadsNotDeadlocked, PTL
  <1>3. NoDeadlock /\ (WaitsForPacketMutex => ~ MainWaits /\ pcM # "done") => PpNoDeadlock
    BY DEF PpNoDeadlock
  <1> QED
    BY PpInductiveInvariant, <1>1, <1>2, <1>3, PTL

(* The packet in which main has found its answer stays where it is, and what *)
(* it is, until main has copied it, whatever devices could not be built and  *)
(* whatever pkt_received was left pointing to.                             *)
THEOREM PacketIsStable == PpSpec => []PacketStaysPut
  <1>1. PpIInv => PacketStaysPut
    BY DEF PpIInv
  <1> QED
    BY PpInductiveInvariant, <1>1, PTL

(* No packet that was handed over answers two requests, although the        *)
(* requests of one operation look alike to packet_getmatching, main looks    *)
(* at the packet while the worker still has it, and pkt_received may be left *)
(* set.                                                                    *)
THEOREM AnswersUsedOnce == PpSpec => AnswerUsedOnce
  <1>1. PpIInv => (rpc = "match" => wbuf \notin used)
    BY DEF PpIInv, OnePlace, PacketStaysPut
  <1>2. PpIInv => [rpc = "match" /\ rpc' = "none" => wbuf \notin used]_ppVars
    BY <1>1
  <1> QED
    BY PpInductiveInvariant, <1>2, PTL DEF AnswerUsedOnce
=============================================================================
