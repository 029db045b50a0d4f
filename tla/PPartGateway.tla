---------------------------- MODULE PPartGateway ----------------------------
(***************************************************************************)
(* The gateway with its pPart platform (platform/pPart/discover.c) and the *)
(* particles behind the radio.  All packets of all particles come in on    *)
(* one UDP socket that only the worker reads.  A request of main is        *)
(* broadcast; main then waits, with a timeout and a number of retries,     *)
(* for the worker to hand it the packet with the answer through            *)
(* pkt_received, which points to the packet in the worker's own frame and   *)
(* has a mutex and a condition variable of its own.  Every action that     *)
(* touches the list or proxy_mutex is a step of GatewayCore.               *)
(***************************************************************************)
EXTENDS GatewayCore

CONSTANTS
  Particle,
  NoParticle,
  Kinds,         \* what particles send without being asked
  Retries,       \* PARTICLE_RETRIES
  MaxReq,        \* bound on the requests of main
  MaxInbox,      \* packets the socket buffer holds
  LateInSecond   \* may gettimeofday answer in the last fifth of a second?

ASSUME PPartAssumption ==
  /\ NoParticle \notin Particle
  /\ Kinds \subseteq { "event", "beacon" }
  /\ Retries \in Nat /\ MaxReq \in Nat /\ MaxInbox \in Nat
  /\ LateInSecond \in BOOLEAN

VARIABLES
  pid,      \* the particle a device object stands for
  late,     \* devices not heard of for PARTICLE_CONNECTION_TIMEOUT
  expired,  \* devices the worker still has to unregister in this pass
  inbox,    \* packets at the socket
  wbuf,     \* the packet p in the frame of the worker's loop
  wstep,    \* what the worker does next in its pass
  taken,    \* pkt_received # NULL
  dangling, \* history: pkt_received was left set when its packet was done with
  rpc,      \* where main is in rcv_buf
  req,      \* requests of main so far
  tries,    \* retries used up for the current request
  air,      \* requests on the radio
  used      \* history: packets main has taken as answers when handed to it

particleVars == << inbox, air >>
passVars     == << pid, late, expired, wbuf, wstep >>
callVars     == << rpc, req, tries, used >>
ptrVars      == << taken, dangling >>
ppVars       == << vars, particleVars, passVars, callVars, ptrVars >>

(* What a packet is to the gateway: who sent it, what it is, and, for the   *)
(* particle's part, to which request and which try it belongs.             *)
Unasked(p, k)    == [src |-> p, kind |-> k, req |-> 0, try |-> 0]
Request(p, r, t) == [src |-> p, kind |-> "request", req |-> r, try |-> t]
ReplyTo(tx)      == [tx EXCEPT !.kind = "reply"]
NoPacket         == [src |-> NoParticle, kind |-> "none", req |-> 0, try |-> 0]

Packet(kinds) ==
  [src : Particle \cup { NoParticle }, kind : kinds, req : 0 .. MaxReq, try : 0 .. Retries]

PpTypeOK ==
  /\ TypeOK
  /\ pid \in [Device -> Particle \cup { NoParticle }]
  /\ late \in SUBSET Device
  /\ expired \in SUBSET Device
  /\ inbox \subseteq Packet({ "event", "beacon", "reply" })
  /\ air \subseteq Packet({ "request" })
  /\ { wbuf } \cup used \subseteq Packet({ "event", "beacon", "reply", "none" })
  /\ wstep \in { "recv", "process", "handle", "check", "reset", "time", "expire" }
  /\ taken \in BOOLEAN /\ dangling \in BOOLEAN
  /\ rpc \in { "none", "enter", "wait", "woken", "late", "einval", "match" }
  /\ req \in 0 .. MaxReq
  /\ tries \in 0 .. Retries

PpInit ==
  /\ Init
  /\ pid = [d \in Device |-> NoParticle]
  /\ late = {} /\ expired = {}
  /\ inbox = {} /\ air = {}
  /\ wbuf = NoPacket
  /\ wstep = "recv"
  /\ taken = FALSE /\ dangling = FALSE
  /\ rpc = "none"
  /\ req = 0 /\ tries = 0
  /\ used = {}

-----------------------------------------------------------------------------
(* The worker.                                                             *)

InPass(step) == pcW = "scan" /\ wstep = step

(* device_proxy_list_get_device_by_id *)
ProxiesOf(p) == { d \in listed : pid[d] = p }

(* Main holds pkt_received_mutex from one step of rcv_buf to the next. *)
PacketMutexFree == rpc \notin { "einval", "match" }

(* cc_pkt p={}: until then the frame holds the packet of the last pass.     *)
PpCheck ==
  /\ WCheck
  /\ wbuf' = NoPacket
  /\ UNCHANGED << particleVars, pid, late, expired, wstep, callVars, ptrVars >>

(* The select watches nothing - its first argument is sock - and waits for  *)
(* 13 ms; recv does not block.                                             *)
PpRecv ==
  /\ WSelect
  /\ work' = MaxWork
  /\ \/ \E m \in inbox :
          wbuf' = m /\ inbox' = inbox \ { m } /\ wstep' = "process"
     \/ inbox = {} /\ wstep' = "time" /\ UNCHANGED << inbox, wbuf >>
  /\ UNCHANGED << pid, late, expired, air, callVars, ptrVars >>

(* discovery_process_pkt: a known particle has been heard of ... *)
PpKnown ==
  /\ InPass("process")
  /\ ProxiesOf(wbuf.src) # {}
  /\ late' = late \ ProxiesOf(wbuf.src)
  /\ wstep' = "handle"
  /\ UNCHANGED << vars, pid, expired, wbuf, particleVars, callVars, ptrVars >>

PpNew_NoLookup(d) ==
  /\ InPass("process")
  /\ WBuild(d)
  /\ pid' = [pid EXCEPT ![d] = wbuf.src]
  /\ wstep' = "handle"
  /\ UNCHANGED << late, expired, wbuf, particleVars, callVars, ptrVars >>

(* ... and a new one gets a device ... *)
PpNew(d) ==
  /\ InPass("process")
  /\ ProxiesOf(wbuf.src) = {}
  /\ WBuild(d)
  /\ pid' = [pid EXCEPT ![d] = wbuf.src]
  /\ wstep' = "handle"
  /\ UNCHANGED << late, expired, wbuf, particleVars, callVars, ptrVars >>

(* ... unless the device cannot be built. *)
PpNotBuilt ==
  /\ InPass("process")
  /\ ProxiesOf(wbuf.src) = {}
  /\ WNothing
  /\ wstep' = "handle"
  /\ UNCHANGED << pid, late, expired, wbuf, particleVars, callVars, ptrVars >>

(* handle_node_message: a packet without an operation tells the gateway     *)
(* only that the particle is there.                                        *)
PpNoOperation ==
  /\ InPass("handle")
  /\ wbuf.kind = "beacon"
  /\ wstep' = "time"
  /\ UNCHANGED << vars, pid, late, expired, wbuf, particleVars, callVars, ptrVars >>

(* Point pkt_received to the packet and wake main. *)
PpHandle ==
  /\ InPass("handle")
  /\ wbuf.kind # "beacon"
  /\ PacketMutexFree
  /\ taken' = TRUE /\ dangling' = FALSE
  /\ rpc' = IF rpc = "wait" THEN "woken" ELSE rpc
  /\ wstep' = "check"
  /\ UNCHANGED << vars, pid, late, expired, wbuf, particleVars, req, tries, used >>

(* if (pkt_received), without the mutex: main has not taken the packet yet,  *)
(* so it is delivered as an event.                                         *)
PpDeliver(d) ==
  /\ InPass("check")
  /\ taken
  /\ d \in ProxiesOf(wbuf.src)
  /\ WMessage(d)
  /\ UNCHANGED << particleVars, passVars, callVars, ptrVars >>

(* No device has that particle: return -1 leaves pkt_received as it is.     *)
PpUnknown ==
  /\ InPass("check")
  /\ taken
  /\ ProxiesOf(wbuf.src) = {}
  /\ wstep' = "time"
  /\ dangling' = TRUE
  /\ UNCHANGED << vars, pid, late, expired, wbuf, particleVars, callVars, taken >>

PpAnswerTaken ==
  /\ InPass("check")
  /\ ~ taken
  /\ wstep' = "reset"
  /\ UNCHANGED << vars, pid, late, expired, wbuf, particleVars, callVars, ptrVars >>

PpDelivered ==
  /\ WDelivered
  /\ wstep = "check"
  /\ wstep' = "reset"
  /\ UNCHANGED << pid, late, expired, wbuf, particleVars, callVars, ptrVars >>

PpReset_Forgotten ==
  /\ InPass("reset")
  /\ wstep' = "time"
  /\ UNCHANGED << vars, pid, late, expired, wbuf, particleVars, callVars, ptrVars >>

PpReset ==
  /\ InPass("reset")
  /\ PacketMutexFree
  /\ taken' = FALSE /\ dangling' = FALSE
  /\ wstep' = "time"
  /\ UNCHANGED << vars, pid, late, expired, wbuf, particleVars, callVars >>

(* updateCurTime; has_timedout compares with this time from now on. *)
PpTime ==
  /\ InPass("time")
  /\ expired' = late \cap listed
  /\ wstep' = "expire"
  /\ UNCHANGED << vars, pid, late, wbuf, particleVars, callVars, ptrVars >>

(* while ((d = device_proxy_list_get_device(has_timedout, NULL)))           *)
(*   dpws_device_unregister(d)                                             *)
PpExpire(d) ==
  /\ InPass("expire")
  /\ d \in expired
  /\ WMessage(d)
  /\ UNCHANGED << particleVars, passVars, callVars, ptrVars >>

PpLost ==
  /\ WLost
  /\ wstep = "expire"
  /\ UNCHANGED << particleVars, passVars, callVars, ptrVars >>

PpFree ==
  /\ WFree
  /\ expired' = expired \ { curW }
  /\ late' = late \ { curW }
  /\ pid' = [pid EXCEPT ![curW] = NoParticle]
  /\ UNCHANGED << wbuf, wstep, particleVars, callVars, ptrVars >>

PpScanned ==
  /\ WScanned
  /\ wstep = "expire"
  /\ expired = {}
  /\ wstep' = "recv"
  /\ UNCHANGED << pid, late, expired, wbuf, particleVars, callVars, ptrVars >>

(* The socket is closed before the list is cleared. *)
PpStop ==
  /\ WStop
  /\ inbox' = {}
  /\ UNCHANGED << air, passVars, callVars, ptrVars >>

(* Steps of the core that do not concern the packets. *)
PpWorkerElse ==
  /\ \/ WAddLock \/ WAdd \/ WAddUnlock \/ WNotify \/ WDelLock \/ WDel \/ WDelUnlock
     \/ WDeactivate \/ WCleaned \/ WBcastLock \/ WBcast \/ WBcastUnlock
     \/ \E d \in Device : WCleanup(d)
  /\ UNCHANGED << particleVars, passVars, callVars, ptrVars >>

PpWorker ==
  \/ PpCheck \/ PpRecv \/ PpKnown \/ PpNotBuilt \/ PpNoOperation \/ PpHandle
  \/ PpUnknown \/ PpAnswerTaken \/ PpDelivered \/ PpReset \/ PpTime \/ PpLost \/ PpFree
  \/ PpScanned \/ PpStop \/ PpWorkerElse
  \/ \E d \in Device : PpNew(d) \/ PpDeliver(d) \/ PpExpire(d)

-----------------------------------------------------------------------------
(* The main thread: send_buf and rcv_buf.                                   *)

(* sendto.  A request the radio loses stays in air: nobody ever answers it. *)
Transmit(tx) == air' = air \cup { tx }

(* packet_getmatching on what pkt_received points to: the particle and the  *)
(* operation are compared, nothing that tells two requests apart.          *)
Matching == taken /\ wbuf.kind = "reply" /\ wbuf.src = pid[lastRem]

(* pthread_cond_timedwait gives the mutex up and waits.  When the           *)
(* nanoseconds computed from the time of day exceed a second it returns     *)
(* EINVAL at once, the mutex held.                                         *)
TimedWait == rpc' = "wait" \/ (LateInSecond /\ rpc' = "einval")

(* The end of the do loop: has the packet come?  *)
LookOrWait == IF Matching THEN rpc' = "match" ELSE TimedWait

PpSend ==
  /\ MSend
  /\ IF lastRem' = NoDevice
       THEN UNCHANGED << req, tries, rpc, air >>
       ELSE /\ req < MaxReq
            /\ req' = req + 1
            /\ tries' = 0
            /\ rpc' = "enter"
            /\ Transmit(Request(pid[lastRem'], req', 0))
  /\ UNCHANGED << inbox, passVars, used, ptrVars >>

(* rcv_buf waits before it looks. *)
RpcEnter ==
  /\ rpc = "enter"
  /\ TimedWait
  /\ UNCHANGED << vars, particleVars, passVars, req, tries, used, ptrVars >>

RpcTimeout ==
  /\ rpc = "wait"
  /\ rpc' = "late"
  /\ UNCHANGED << vars, particleVars, passVars, req, tries, used, ptrVars >>

RpcWoken ==
  /\ rpc = "woken"
  /\ LookOrWait
  /\ UNCHANGED << vars, particleVars, passVars, req, tries, used, ptrVars >>

RpcRetry_ForEver ==
  /\ rpc \in { "late", "einval" }
  /\ Transmit(Request(pid[lastRem], req, tries))
  /\ LookOrWait
  /\ UNCHANGED << vars, inbox, passVars, req, tries, used, ptrVars >>

RpcRetry_Unchecked ==
  /\ rpc \in { "late", "einval" }
  /\ tries' = tries + 1
  /\ Transmit(Request(pid[lastRem], req, tries'))
  /\ LookOrWait
  /\ UNCHANGED << vars, inbox, passVars, req, used, ptrVars >>

(* ETIMEDOUT and EINVAL are taken the same way: resendLastPkt. *)
RpcRetry ==
  /\ rpc \in { "late", "einval" }
  /\ tries < Retries
  /\ tries' = tries + 1
  /\ Transmit(Request(pid[lastRem], req, tries'))
  /\ LookOrWait
  /\ UNCHANGED << vars, inbox, passVars, req, used, ptrVars >>

(* No retry is left: buf_len = -1.  *)
RpcGiveUp ==
  /\ rpc \in { "late", "einval" }
  /\ tries = Retries
  /\ MServed
  /\ rpc' = "none"
  /\ tries' = 0
  /\ taken' = FALSE /\ dangling' = FALSE
  /\ UNCHANGED << particleVars, passVars, req, used >>

RpcAnswer_KeepsPacket ==
  /\ rpc = "match"
  /\ MServed
  /\ rpc' = "none"
  /\ tries' = 0
  /\ used' = IF dangling THEN used ELSE used \cup { wbuf }
  /\ UNCHANGED << particleVars, passVars, req, ptrVars >>

RpcAnswer_KeepsMutex ==
  /\ rpc = "match"
  /\ MServed
  /\ tries' = 0
  /\ used' = IF dangling THEN used ELSE used \cup { wbuf }
  /\ taken' = FALSE /\ dangling' = FALSE
  /\ UNCHANGED << rpc, particleVars, passVars, req >>

(* The answer is copied and pkt_received reset. *)
RpcAnswer ==
  /\ rpc = "match"
  /\ MServed
  /\ rpc' = "none"
  /\ tries' = 0
  /\ used' = IF dangling THEN used ELSE used \cup { wbuf }
  /\ taken' = FALSE /\ dangling' = FALSE
  /\ UNCHANGED << particleVars, passVars, req >>

(* The request needed no node, or there is no such device. *)
RpcNone ==
  /\ rpc = "none"
  /\ MServed
  /\ UNCHANGED << particleVars, passVars, callVars, ptrVars >>

PpMainElse ==
  /\ MLoop \/ MLock \/ MWait \/ MGoOn \/ MReacquire \/ MCount \/ MCollect
     \/ MTimeout \/ MAccept \/ MUnlock \/ MSweepLock \/ MSweep \/ MSweepUnlock \/ MJoin
  /\ UNCHANGED << particleVars, passVars, callVars, ptrVars >>

PpMain ==
  \/ PpSend \/ RpcEnter \/ RpcTimeout \/ RpcWoken \/ RpcRetry \/ RpcGiveUp
  \/ RpcAnswer \/ RpcNone \/ PpMainElse

-----------------------------------------------------------------------------
(* The particles, the radio and the passing of time.                       *)

Arrives(m) ==
  IF closing \/ Cardinality(inbox) >= MaxInbox
    THEN UNCHANGED inbox
    ELSE inbox' = inbox \cup { m }

(* A particle gets a request and answers. *)
ParticleAnswers(tx) ==
  /\ air' = air \ { tx }
  /\ Arrives(ReplyTo(tx))
  /\ UNCHANGED << vars, passVars, callVars, ptrVars >>

ParticleSends(p) ==
  /\ \E k \in Kinds : Unasked(p, k) \notin inbox /\ Arrives(Unasked(p, k))
  /\ UNCHANGED << vars, air, passVars, callVars, ptrVars >>

(* Ten seconds without a packet of the particle have passed. *)
Silence(d) ==
  /\ mem[d] = "up"
  /\ late' = late \cup { d }
  /\ UNCHANGED << vars, particleVars, pid, expired, wbuf, wstep, callVars, ptrVars >>

(* pthread_cond_timedwait may return without a broadcast. *)
RpcSpurious ==
  /\ rpc = "wait"
  /\ rpc' = "woken"
  /\ UNCHANGED << vars, particleVars, passVars, req, tries, used, ptrVars >>

Environment ==
  \/ \E tx \in air : ParticleAnswers(tx)
  \/ \E p \in Particle : ParticleSends(p)
  \/ \E d \in Device : Silence(d)
  \/ RpcSpurious
  \/ (MSpuriousWakeup \/ Sigint) /\ UNCHANGED << particleVars, passVars, callVars, ptrVars >>

PpTerminated == Terminated /\ UNCHANGED ppVars

PpNext == PpMain \/ PpWorker \/ Environment \/ PpTerminated

PpSpec == PpInit /\ [][PpNext]_ppVars

(* Both threads run, and the worker gets proxy_mutex now and then.  The     *)
(* deadline of a timed wait is absolute: wakeups in between do not move it, *)
(* so it passes however often main is woken.                               *)
PpFairSpec ==
  /\ PpSpec
  /\ WF_ppVars(PpMain)
  /\ SF_ppVars(RpcTimeout)
  /\ SF_ppVars(PpWorker)

-----------------------------------------------------------------------------
(* The packet main has found to be its answer stays, while main copies it,   *)
(* in the frame of the worker's loop and behind pkt_received: no recv       *)
(* fills, no pass clears and no reset drops it, even when pkt_received was  *)
(* left set by the return for a packet of no device.                       *)
PacketStaysPut ==
  rpc = "match" => taken /\ wbuf.kind = "reply" /\ wbuf.src = pid[lastRem]

(* No packet that was handed to main answers two requests, before or after   *)
(* such a return.  (One that main has read through the pointer left set,    *)
(* before the worker handed it over, may answer once more.)                *)
AnswerUsedOnce == [][ rpc = "match" /\ rpc' = "none" => wbuf \notin used ]_ppVars

(* A particle has one proxy at most, however its packets, its silence and   *)
(* its return fall together.                                               *)
OneProxyPerParticle ==
  \A d, e \in listed : pid[d] = pid[e] => d = e

(* Main is in rcv_buf with a mutex of the worker's only while it holds      *)
(* proxy_mutex, and the particle it waits for keeps its proxy.             *)
CallKeepsProxy ==
  rpc # "none" => lastRem \in listed /\ pid[lastRem] \in Particle

(* The worker also waits for pkt_received_mutex, and main waits for an       *)
(* answer with proxy_mutex in hand; the two do not stop each other.         *)
WaitsForPacketMutex ==
  /\ pcW = "scan" /\ ~ PacketMutexFree
  /\ wstep = "reset" \/ (wstep = "handle" /\ wbuf.kind # "beacon")

PpNoDeadlock ==
  /\ NoDeadlock
  /\ WaitsForPacketMutex => ~ MainWaits /\ pcM # "done"

(* Why: the invariant that is inductive, on top of the core's.  Where the   *)
(* worker is in its pass, ...                                              *)
PassControl ==
  /\ pcW = "scan" => wstep # "recv"
  /\ pcW \in { "add_lock", "add", "add_unlock" } => wstep = "handle"
  /\ pcW = "deliver" => wstep \in { "check", "expire" }
  /\ pcW \in { "notify", "del_lock", "del", "del_unlock", "deactivate", "free" } =>
       wstep = IF closing THEN "recv" ELSE "expire"
  /\ pcW \in { "loop", "select", "cleanup", "bcast_lock", "bcast", "bcast_unlock", "done" } =>
       wstep = "recv"

(* ... where main is while it waits for an answer, ...                     *)
InCall == rpc # "none" => pcM = "await" /\ lastRem # NoDevice

(* ... that packets and listed devices belong to particles, ...            *)
Senders ==
  /\ \A m \in inbox \cup air : m.src \in Particle
  /\ \A d \in listed : pid[d] \in Particle
  /\ wstep \in { "process", "handle", "check" } => wbuf.src \in Particle

(* ... and what discovery_process_pkt leaves to handle_node_message.       *)
SenderKnown ==
  pcW \in { "add_lock", "add" } => pid[curW] = wbuf.src /\ ProxiesOf(wbuf.src) = {}

(* Where there is a request or an answer to one, it is of a request so far  *)
(* and of a try so far, so what is transmitted next is new, ...            *)
OfRequestSoFar(m) ==
  m.req < req \/ (m.req = req /\ (rpc = "none" \/ m.try <= tries))

Stamped ==
  \A m \in air \cup inbox \cup used \cup { wbuf } :
    m.kind \in { "request", "reply" } => OfRequestSoFar(m)

(* ... and an answer is at one place at a time: to be given, on its way, in *)
(* the hands of the worker or taken by main.  The packet main has taken may *)
(* still be in the frame of the worker, which hands it over no more.       *)
OnePlace ==
  /\ \A tx \in air : ReplyTo(tx) \notin inbox \cup used \cup { wbuf }
  /\ \A m \in inbox : m.kind = "reply" => m \notin used \cup { wbuf }
  /\ wbuf \in used => ~ taken /\ wstep \notin { "process", "handle" }

(* pkt_received is set while the worker handles a packet; afterwards it may  *)
(* only have been left set, and then shows nothing that main waits for.     *)
(* So an answer is found only in a part of the pass that cannot end before  *)
(* main has released the mutex.                                            *)
MatchStays ==
  /\ taken /\ ~ dangling => wstep \in { "check", "reset" }
  /\ dangling => taken
  /\ taken /\ wstep \in { "time", "expire", "recv" } =>
       wbuf.kind # "reply" \/ ProxiesOf(wbuf.src) = {}
  /\ rpc = "match" => wstep \in { "process", "handle", "check", "reset" }
  /\ \A m \in used : m.kind = "reply"

(* The conjunction is preserved by every step.                             *)
PpIInv ==
  /\ IInv /\ PpTypeOK /\ PassControl /\ InCall /\ Senders /\ SenderKnown
  /\ OneProxyPerParticle /\ Stamped /\ MatchStays /\ PacketStaysPut /\ OnePlace

(* A request comes to an end, with an answer or without one.               *)
RequestEnds == pcM = "await" ~> pcM = "unlock"

(* A request is sent again only after main has waited for the answer, as    *)
(* PARTICLE_RETRY_TIMEOUT says.                                            *)
RetriesAreSpaced == [][ tries' > tries => rpc = "late" ]_ppVars

(* What goes to the subscribers is an event: the assertion in               *)
(* SensorValues_deliver_event.c takes the other operations for unreachable. *)
OnlyEventsDelivered ==
  pcW = "deliver" /\ wstep = "check" => wbuf.kind = "event"
=============================================================================
