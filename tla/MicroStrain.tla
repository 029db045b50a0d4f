---------------------------- MODULE MicroStrain ----------------------------
(***************************************************************************)
(* The gateway with its MicroStrain platform (platform/microstrain/        *)
(* discover.c).  All nodes are behind one base station on a serial line.   *)
(* Whoever talks to the base station holds gw_mutex: main, which calls     *)
(* send_buf and rcv_buf with proxy_mutex already held, and the worker,     *)
(* which may need proxy_mutex while it holds gw_mutex.  What is read from  *)
(* the line goes into a queue of ten slots; a thread that waits for an     *)
(* answer reads until the queue has one of the right type, whoever it was  *)
(* meant for.                                                              *)
(*                                                                         *)
(* A node and its device are one member of Device: the platform never      *)
(* unregisters a node, and looks for it in the list before it registers it.*)
(***************************************************************************)
EXTENDS GatewayCore, MsLogging, Sequences

CONSTANTS
  Ops,          \* operations the clients call
  Stray,        \* what the rest of a packet may be mistaken for
  EepromReads,  \* values registerNode reads (44)
  EepromWrites, \* values initLDC and initLogging write (3)
  QueueLength,  \* QUEUELENGTH (10)
  GetsStale,    \* whether a message may lie in the queue for 30 seconds
  LastPage,     \* pages of a node's memory (8192)
  MaxLine,      \* bound: nothing arrives as long as so much is not read
  MaxCalls,     \* bound on the operations main is called for
  MaxPackets    \* bound on what nodes send without being asked

Operations == { "ldc", "info", "stop", "log", "download", "erase", "count" }
OneByte    == { "ping", "write", "erase", "trigger", "bs", "stop", "failure" }
Replies    == OneByte \cup { "value", "page" }
Packets    == { "discovery", "ldc" }

ASSUME MsAssumption ==
  /\ Ops \subseteq Operations /\ Stray \subseteq Replies \cup Packets
  /\ EepromReads \in Nat \ {0} /\ EepromWrites \in Nat \ {0}
  /\ QueueLength \in Nat \ {0} /\ GetsStale \in BOOLEAN /\ LastPage \in Nat /\ LastPage > 2
  /\ MaxLine \in Nat /\ MaxCalls \in Nat /\ MaxPackets \in Nat /\ MaxWork >= 4

VARIABLES
  gwMutex,  \* who holds gw_mutex
  nstate,   \* msdev->state
  gwState,  \* gw_state
  cur,      \* gw_cur_device: the node whose memory is downloaded
  page,     \* session.page of this node; nobody reads that of another one, it is 0
  queue,    \* msgqueue
  line,     \* what has arrived on the serial line and is not read
  asked,    \* commands the base station still has to answer
  section,  \* what the holder of gw_mutex does with the base station
  want,     \* the type of answer it waits for
  left,     \* commands of this type it still has to get through
  phase,    \* "ask": it is about to write the command; "read"
  target,   \* the node concerned
  op,       \* the operation main has been called for
  mstep,    \* where main is in send_buf and rcv_buf
  wstep,    \* where the worker is in its loop
  todo,     \* nodes stopDevice still has to be called for
  calls,    \* operations main has been called for so far
  packets   \* packets sent without being asked so far

nodeVars     == << nstate, gwState, cur, page >>
serialVars   == << queue, line, asked >>
exchangeVars == << section, want, left, phase, target >>
callVars     == << op, mstep, calls >>
passVars     == << wstep, todo, packets >>
msVars == << vars, gwMutex, nodeVars, serialVars, exchangeVars, callVars, passVars >>

-----------------------------------------------------------------------------
(* The message queue.                                                      *)

Msg(kind, d) == [kind |-> kind, node |-> d]
Reply(kind)  == Msg(kind, NoDevice)
NoMsg        == Reply("none")
Junk         == Reply("junk")

Slots   == 1 .. QueueLength
Message == [kind : Replies \cup Packets \cup { "none", "junk" }, node : Device \cup { NoDevice }]

(* inMessageQueue, and the message getMessageFromQueue finds first *)
Holds(q, kind)   == \E i \in Slots : q[i].kind = kind
SlotOf(q, kind)  == CHOOSE i \in Slots : q[i].kind = kind /\ \A j \in 1 .. i-1 : q[j].kind # kind
Take(q, kind)    == [q EXCEPT ![SlotOf(q, kind)] = NoMsg]
Put(q, m)        == IF m = NoMsg THEN q ELSE [q EXCEPT ![SlotOf(q, "none")] = m]

(* Messages older than 30 seconds are dropped. *)
WithoutStale(q) ==
  { [i \in Slots |-> IF i \in old THEN NoMsg ELSE q[i]] : old \in IF GetsStale THEN SUBSET Slots ELSE { {} } }

(* What bytes inside a packet may be taken for; packets only by a thread    *)
(* that expects them.                                                      *)
Mistaken(multiple) ==
  { Reply(k) : k \in (Stray \ Packets) \cup { "none" } }
    \cup { Msg(k, d) : k \in { s \in Stray \cap Packets : multiple }, d \in Device }

(* What is left when two bytes were read: of answers of one byte, the next  *)
(* may have been swallowed, too.                                           *)
AfterTwoBytes(s) ==
  { << Junk >> \o t : t \in
      IF Head(s).kind \in OneByte \cup { "junk" } /\ Tail(s) # << >>
        THEN { Tail(s), Tail(Tail(s)) } ELSE { Tail(s) } }

(* What the next bytes on the line are taken for, and what is left of the   *)
(* line.  A thread that waits for an answer takes the first byte of a       *)
(* packet for the acknowledgement of the base station and reads the other   *)
(* bytes one by one; the worker's loop takes the first bytes of what comes  *)
(* after an acknowledgement for a header.  VMIN is 0, so a read of more     *)
(* than one byte may return too early.                                     *)
Parse(multiple) ==
  LET m    == Head(line)
      more == Tail(line)
  IN  CASE m.kind = "junk"                     -> Mistaken(multiple) \X { line, more }
        [] m.kind \in Packets /\ ~ multiple    -> { << Reply("bs"), << Junk >> \o more >> }
        [] m.kind = "bs" /\ multiple /\ more # << >> -> { m } \X AfterTwoBytes(more)
        [] m.kind \in Packets \cup { "value", "page" } /\ (m.kind \in Packets => multiple) ->
             { << m, more >>, << NoMsg, << Junk >> \o more >> }
        [] OTHER                               -> { << m, more >> }

(* A read from the line that waits until something comes. *)
Read_Waits(multiple) ==
  UNION { IF ~ Holds(q, "none")
            THEN { << q, line >> }
            ELSE IF line = << >> THEN {}
            ELSE { << Put(q, p[1]), p[2] >> : p \in Parse(multiple) } : q \in WithoutStale(queue) }

(* readMessage: the queue and the line after it.  There may be no free     *)
(* slot, and nothing may come for a second.                                *)
Read(multiple) ==
  UNION { IF ~ Holds(q, "none") \/ line = << >>
            THEN { << q, line >> }
            ELSE { << Put(q, p[1]), p[2] >> : p \in Parse(multiple) } : q \in WithoutStale(queue) }

-----------------------------------------------------------------------------
(* State of the gateway.                                                   *)

NodeState == { "idle", "ldc", "logging", "sending" }

(* updateGWState takes the first node in the list that is neither idle nor  *)
(* logging; the order of the list is not modelled.                         *)
Busy(states) == { d \in listed : states[d] \in { "ldc", "sending" } }

GatewayStates(states) ==
  IF Busy(states) = {} THEN { "idle" }
  ELSE { IF states[d] = "ldc" THEN "ldc" ELSE "receiving" : d \in Busy(states) }

SetState(d, s) == nstate' = [nstate EXCEPT ![d] = s]

MsTypeOK ==
  /\ TypeOK
  /\ gwMutex \in { "none", "main", "worker" }
  /\ nstate \in [Device -> NodeState]
  /\ gwState \in { "idle", "ldc", "receiving" }
  /\ cur \in Device \cup { NoDevice }
  /\ page \in 0 .. LastPage
  /\ queue \in [Slots -> Message]
  /\ line \in Seq(Message)
  /\ asked \in Seq(Replies)
  /\ section \in Operations \cup { "none", "sessions", "register" }
  /\ want \in Replies \cup { "none" }
  /\ left \in Nat
  /\ phase \in { "ask", "read" }
  /\ target \in Device \cup { NoDevice }
  /\ op \in Operations \cup { "none" }
  /\ mstep \in { "none", "node", "gw", "lock", "relock", "run", "unlock", "unlock_go", "rcv", "end" }
  /\ wstep \in { "out", "read", "disc", "disc_update", "disc_computed", "register", "drop", "ldc",
                 "page", "page_done", "page_update", "page_computed", "page_direct",
                 "first", "first_done", "unlock", "left", "stopping", "stop", "stop_unlock", "close" }
  /\ todo \in SUBSET Device
  /\ calls \in 0 .. MaxCalls
  /\ packets \in 0 .. MaxPackets

(* discovery_worker_init opens the line, pings every address and registers  *)
(* the nodes that answer before it starts the worker.                      *)
MsInit ==
  /\ listed \in SUBSET Device
  /\ mem = [d \in Device |-> IF d \in listed THEN "up" ELSE "unalloc"]
  /\ running = TRUE
  /\ mutex = "none"
  /\ pcM = "loop" /\ slots = 0 /\ pinned = {} /\ lastRem = NoDevice
  /\ pcW = "loop" /\ curW = NoDevice /\ work = 0 /\ closing = FALSE
  /\ gwMutex = "none"
  /\ nstate = [d \in Device |-> "idle"]
  /\ gwState = "idle"
  /\ cur = NoDevice
  /\ page = 0
  /\ queue = [i \in Slots |-> NoMsg]
  /\ line = << >> /\ asked = << >>
  /\ section = "none" /\ want = "none" /\ left = 0 /\ phase = "ask" /\ target = NoDevice
  /\ op = "none" /\ mstep = "none"
  /\ wstep = "out" /\ todo = {}
  /\ calls = 0 /\ packets = 0

-----------------------------------------------------------------------------
(* Talking to the base station: the holder of gw_mutex writes a command and *)
(* reads until the queue has the answer.                                   *)

FirstWant(s) ==
  CASE s \in { "ldc", "log" }                    -> "write"
    [] s \in { "sessions", "count", "register" } -> "value"
    [] s = "info"                                -> "ping"
    [] s = "stop"                                -> "bs"
    [] s = "download"                            -> "page"
    [] s = "erase"                               -> "erase"

NextWant ==
  CASE section = "ldc" /\ want = "write" -> "bs"
    [] section = "log" /\ want = "write" -> "trigger"
    [] section = "stop" /\ want = "bs"   -> "stop"
    [] OTHER                             -> "none"

Times(s) == CASE s \in { "ldc", "log" } -> EepromWrites
              [] s = "register"         -> EepromReads
              [] OTHER                  -> 1

Begin(s, d) ==
  /\ section' = s
  /\ want' = FirstWant(s)
  /\ left' = Times(s)
  /\ phase' = "ask"
  /\ target' = d

LastAnswer == left = 1 /\ NextWant = "none"

NothingWanted ==
  section' = "none" /\ want' = "none" /\ left' = 0 /\ phase' = "ask" /\ target' = NoDevice

(* write(handle, ...).  stopNode flushes the line before, and its command   *)
(* is acknowledged before it is answered.                                  *)
MsAsk ==
  /\ want # "none" /\ phase = "ask"
  /\ asked' = asked \o IF section = "stop" THEN << "bs", "stop" >> ELSE << want >>
  /\ line' = IF section = "stop" THEN << >> ELSE line
  /\ phase' = "read"
  /\ UNCHANGED << vars, gwMutex, nodeVars, queue, section, want, left, target, callVars, passVars >>

(* The start of LDC and of logging is not given up when the base station    *)
(* reports a failure.                                                      *)
FailureEnds == want \notin { "bs", "trigger" }

Reading == want # "none" /\ phase = "read"

Answered ==
  /\ Reading
  /\ \E r \in Read(FALSE) :
       /\ Holds(r[1], want)
       /\ queue' = Take(r[1], want)
       /\ line' = r[2]

Failed ==
  /\ Reading
  /\ FailureEnds
  /\ \E r \in Read(FALSE) :
       /\ ~ Holds(r[1], want) /\ Holds(r[1], "failure")
       /\ queue' = Take(r[1], "failure")
       /\ line' = r[2]

MsReadOn ==
  /\ Reading
  /\ \E r \in Read(FALSE) :
       /\ ~ Holds(r[1], want)
       /\ FailureEnds => ~ Holds(r[1], "failure")
       /\ queue' = r[1]
       /\ line' = r[2]
  /\ UNCHANGED << vars, gwMutex, nodeVars, asked, exchangeVars, callVars, passVars >>

(* One of several commands is through; whether it failed makes no           *)
(* difference.                                                             *)
MsNextCommand ==
  /\ ~ LastAnswer
  /\ Answered \/ Failed
  /\ IF left > 1
       THEN left' = left - 1 /\ want' = want
       ELSE left' = left /\ want' = NextWant
  /\ phase' = IF section = "stop" THEN "read" ELSE "ask"
  /\ UNCHANGED << vars, gwMutex, nodeVars, asked, section, target, callVars, passVars >>

-----------------------------------------------------------------------------
(* What the last answer of each operation means.                           *)

ExchangeEnds(s) ==
  /\ section = s
  /\ LastAnswer
  /\ NothingWanted
  /\ UNCHANGED << gwMutex, asked, op, calls, todo, packets >>

MainGoesOn(to) == mstep' = to /\ UNCHANGED wstep

(* initLDC: what the writes of the EEPROM came to is not looked at.         *)
MsLdcStarted ==
  /\ ExchangeEnds("ldc")
  /\ Answered
  /\ SetState(target, "ldc")
  /\ gwState' \in GatewayStates(nstate')
  /\ MainGoesOn("unlock")
  /\ UNCHANGED << vars, cur, page >>

(* GetDeviceInfo: a node that answers a ping has finished logging. *)
MsPinged ==
  /\ ExchangeEnds("info")
  /\ Answered
  /\ SetState(target, "idle")
  /\ MainGoesOn("unlock")
  /\ UNCHANGED << vars, gwState, cur, page >>

(* stopNode, called for StopDevice or when the gateway shuts down (main may *)
(* then read gw_state in the middle of updateGWState; left out).           *)
AfterStop ==
  IF gwMutex = "main" THEN mstep' = "unlock" /\ UNCHANGED wstep
                      ELSE wstep' = "stop_unlock" /\ UNCHANGED mstep

MsStopped ==
  /\ ExchangeEnds("stop")
  /\ Answered
  /\ SetState(target, "idle")
  /\ gwState' \in GatewayStates(nstate')
  /\ AfterStop
  /\ UNCHANGED << vars, cur, page >>

(* getSavedSessions: logging needs a node without sessions, a download one  *)
(* with sessions; a failure counts as no session.                          *)
MsSessions ==
  /\ ExchangeEnds("sessions")
  /\ \/ \E next \in { "unlock_go", "unlock" } : MainGoesOn(next) /\ Answered
     \/ Failed /\ MainGoesOn(IF op = "log" THEN "unlock_go" ELSE "unlock")
  /\ UNCHANGED << vars, nodeVars >>

(* initLogging *)
MsLoggingStarted ==
  /\ ExchangeEnds("log")
  /\ Answered
  /\ SetState(target, "logging")
  /\ MainGoesOn("unlock")
  /\ UNCHANGED << vars, gwState, cur, page >>

(* initDownload: a page with a session header ...  *)
MsDownloadStarted ==
  /\ ExchangeEnds("download")
  /\ Answered
  /\ page' = 2
  /\ SetState(target, "sending")
  /\ gwState' \in GatewayStates(nstate')
  /\ cur' = target
  /\ MainGoesOn("unlock")
  /\ UNCHANGED vars

(* ... one without, or one with a wrong checksum.  *)
MsNoDownload ==
  /\ ExchangeEnds("download")
  /\ Answered
  /\ page' \in { page, IF target = cur THEN 0 ELSE page }
  /\ MainGoesOn("unlock")
  /\ UNCHANGED << vars, nstate, gwState, cur >>

(* The operation failed, or its answer changes nothing. *)
MsExchangeOver ==
  /\ \/ Answered /\ (ExchangeEnds("erase") \/ ExchangeEnds("count"))
     \/ Failed /\ \E s \in { "info", "stop", "download", "erase", "count" } : ExchangeEnds(s)
  /\ AfterStop
  /\ UNCHANGED << vars, nodeVars >>

Exchange ==
  \/ MsAsk \/ MsReadOn \/ MsNextCommand
  \/ MsLdcStarted \/ MsPinged \/ MsStopped \/ MsSessions \/ MsLoggingStarted
  \/ MsDownloadStarted \/ MsNoDownload \/ MsExchangeOver

-----------------------------------------------------------------------------
(* Main: send_buf and rcv_buf, in dpws_mserve.                              *)

(* send_buf looks the node up; without one it returns, and so does rcv_buf. *)
MsSend ==
  /\ MSend
  /\ IF lastRem' = NoDevice
       THEN UNCHANGED callVars
       ELSE /\ calls < MaxCalls /\ calls' = calls + 1
            /\ \E o \in Ops : op' = o /\ mstep' = IF o = "info" THEN "gw" ELSE "node"
  /\ UNCHANGED << gwMutex, nodeVars, serialVars, exchangeVars, passVars >>

(* The states are read before gw_mutex is taken. *)
NodeFits ==
  nstate[lastRem] \in CASE op = "info" -> { "logging" }
                        [] op = "stop" -> NodeState \ { "idle" }
                        [] OTHER       -> { "idle" }

GatewayFits ==
  gwState \in CASE op = "ldc" -> { "idle", "ldc" }
                [] op = "log" -> { "idle", "receiving" }
                [] OTHER      -> { "idle" }

MsTestNode_Skipped ==
  /\ mstep = "node"
  /\ mstep' = IF op \in { "info", "stop" } THEN "lock" ELSE "gw"
  /\ UNCHANGED << vars, gwMutex, nodeVars, serialVars, exchangeVars, op, calls, passVars >>

MsTestNode ==
  /\ mstep = "node"
  /\ mstep' = IF ~ NodeFits THEN "rcv"
              ELSE IF op \in { "info", "stop" } THEN "lock" ELSE "gw"
  /\ UNCHANGED << vars, gwMutex, nodeVars, serialVars, exchangeVars, op, calls, passVars >>

(* GetSessionCount does nothing more in send_buf. *)
MsTestGateway ==
  /\ mstep = "gw"
  /\ mstep' = IF ~ GatewayFits \/ op = "count" THEN "rcv"
              ELSE IF op = "info" THEN "node" ELSE "lock"
  /\ UNCHANGED << vars, gwMutex, nodeVars, serialVars, exchangeVars, op, calls, passVars >>

(* Logging and download take gw_mutex twice.  rcv_buf asks for the number   *)
(* of sessions whatever send_buf returned.                                 *)
MsLock ==
  /\ \/ mstep \in { "lock", "relock" }
     \/ mstep = "rcv" /\ op = "count"
  /\ gwMutex = "none" /\ gwMutex' = "main"
  /\ mstep' = "run"
  /\ Begin(IF mstep = "lock" /\ op \in { "log", "download" } THEN "sessions" ELSE op, lastRem)
  /\ UNCHANGED << vars, nodeVars, serialVars, op, calls, passVars >>

MsUnlock_Forgotten ==
  /\ mstep \in { "unlock", "unlock_go" }
  /\ mstep' = IF mstep = "unlock_go" THEN "relock" ELSE IF op = "count" THEN "end" ELSE "rcv"
  /\ UNCHANGED << vars, gwMutex, nodeVars, serialVars, exchangeVars, op, calls, passVars >>

MsUnlock ==
  /\ mstep \in { "unlock", "unlock_go" }
  /\ gwMutex' = "none"
  /\ mstep' = IF mstep = "unlock_go" THEN "relock" ELSE IF op = "count" THEN "end" ELSE "rcv"
  /\ UNCHANGED << vars, nodeVars, serialVars, exchangeVars, op, calls, passVars >>

MsReturn ==
  /\ mstep \in { "none", "end" } \/ (mstep = "rcv" /\ op # "count")
  /\ MServed
  /\ op' = "none" /\ mstep' = "none"
  /\ UNCHANGED << gwMutex, nodeVars, serialVars, exchangeVars, calls, passVars >>

MsMainElse ==
  /\ MLoop \/ MLock \/ MWait \/ MGoOn \/ MReacquire \/ MCount \/ MCollect
     \/ MTimeout \/ MAccept \/ MUnlock \/ MSweepLock \/ MSweep \/ MSweepUnlock
  /\ UNCHANGED << gwMutex, nodeVars, serialVars, exchangeVars, callVars, passVars >>

MsMain ==
  \/ MsSend \/ MsTestNode \/ MsTestGateway \/ MsLock \/ MsUnlock \/ MsReturn \/ MsMainElse
  \/ (gwMutex = "main" /\ Exchange)

-----------------------------------------------------------------------------
(* The worker.                                                             *)

InLoop(step) == pcW = "scan" /\ wstep = step

MsCheck ==
  /\ WCheck
  /\ UNCHANGED << gwMutex, nodeVars, serialVars, exchangeVars, callVars, passVars >>

(* The pass begins with gw_mutex. *)
MsPass ==
  /\ WSelect
  /\ work' = MaxWork
  /\ gwMutex = "none" /\ gwMutex' = "worker"
  /\ wstep' = "read"
  /\ UNCHANGED << nodeVars, serialVars, exchangeVars, callVars, todo, packets >>

MsRead ==
  /\ InLoop("read")
  /\ \E r \in Read(TRUE) : queue' = r[1] /\ line' = r[2]
  /\ wstep' = "disc"
  /\ UNCHANGED << vars, gwMutex, nodeVars, asked, exchangeVars, callVars, todo, packets >>

(* A discovery message comes with a second one, which is read first; when   *)
(* that drops the message as stale, an id nobody set is used.              *)
Announced(d) ==
  /\ InLoop("disc")
  /\ Holds(queue, "discovery")
  /\ \E r \in Read(TRUE) :
       /\ Holds(r[1], "discovery") => d = r[1][SlotOf(r[1], "discovery")].node
       /\ queue' = IF Holds(r[1], "discovery") THEN Take(r[1], "discovery") ELSE r[1]
       /\ line' = r[2]
  /\ UNCHANGED << vars, gwMutex, asked, callVars, todo, packets >>

(* processDiscovery: a known node has been switched on again ...           *)
MsKnown(d) ==
  /\ Announced(d)
  /\ d \in listed
  /\ SetState(d, "idle")
  /\ wstep' = "disc_update"
  /\ UNCHANGED << gwState, cur, page, exchangeVars >>

(* ... and a new one is asked for its EEPROM (registerNode).               *)
MsNew(d) ==
  /\ Announced(d)
  /\ d \notin listed
  /\ Begin("register", d)
  /\ wstep' = "register"
  /\ UNCHANGED nodeVars

MsNoDiscovery ==
  /\ InLoop("disc")
  /\ ~ Holds(queue, "discovery")
  /\ wstep' = "ldc"
  /\ UNCHANGED << vars, gwMutex, nodeVars, serialVars, exchangeVars, callVars, todo, packets >>

(* updateGWState clears gw_state before it looks at the nodes, and main     *)
(* reads gw_state without gw_mutex.                                        *)
MsClearGWState ==
  /\ pcW = "scan"
  /\ \/ wstep = "disc_update" /\ wstep' = "disc_computed"
     \/ wstep = "page_update" /\ wstep' = "page_computed"
  /\ gwState' = "idle"
  /\ UNCHANGED << vars, gwMutex, nstate, cur, page, serialVars, exchangeVars, callVars, todo, packets >>

MsUpdateGWState ==
  /\ pcW = "scan"
  /\ \/ wstep = "disc_computed" /\ wstep' = "drop"
     \/ wstep = "page_computed" /\ wstep' = "unlock"
  /\ gwState' \in GatewayStates(nstate)
  /\ UNCHANGED << vars, gwMutex, nstate, cur, page, serialVars, exchangeVars, callVars, todo, packets >>

(* The EEPROM is read.  A node of a model the gateway was built for gets a  *)
(* device: device_proxy_list_add_device takes proxy_mutex.                 *)
MsRegistered ==
  /\ ExchangeEnds("register")
  /\ Answered \/ Failed
  /\ WBuild(target) \/ UNCHANGED vars
  /\ wstep' = "drop"
  /\ UNCHANGED << nodeVars, mstep >>

(* The second message of the pair, or the first of another. *)
MsDrop ==
  /\ InLoop("drop")
  /\ queue' = IF Holds(queue, "discovery") THEN Take(queue, "discovery") ELSE queue
  /\ wstep' = "ldc"
  /\ UNCHANGED << vars, gwMutex, nodeVars, line, asked, exchangeVars, callVars, todo, packets >>

(* processLDC delivers the values of a node as an event. *)
MsLdc ==
  /\ InLoop("ldc")
  /\ IF Holds(queue, "ldc")
       THEN /\ queue' = Take(queue, "ldc")
            /\ LET d == queue[SlotOf(queue, "ldc")].node
               IN  (d \in listed /\ WMessage(d)) \/ UNCHANGED vars
       ELSE UNCHANGED << vars, queue >>
  /\ wstep' = "page"
  /\ UNCHANGED << gwMutex, nodeVars, line, asked, exchangeVars, callVars, todo, packets >>

MsNoPage ==
  /\ InLoop("page")
  /\ ~ Holds(queue, "page")
  /\ wstep' = "first"
  /\ UNCHANGED << vars, gwMutex, nodeVars, serialVars, exchangeVars, callVars, todo, packets >>

(* No node is known to send pages: break leaves the loop with gw_mutex, and *)
(* what comes after the loop waits for gw_mutex.                           *)
MsPageOfNobody ==
  /\ InLoop("page")
  /\ Holds(queue, "page")
  /\ cur = NoDevice
  /\ queue' = Take(queue, "page")
  /\ wstep' = "left"
  /\ UNCHANGED << vars, gwMutex, nodeVars, line, asked, exchangeVars, callVars, todo, packets >>

(* processLogging delivers the samples of the page, if it is right. *)
Deliver == WMessage(cur) \/ UNCHANGED vars

MsPage ==
  /\ InLoop("page")
  /\ Holds(queue, "page")
  /\ cur # NoDevice
  /\ Deliver
  /\ queue' = Take(queue, "page")
  /\ wstep' = "page_done"
  /\ UNCHANGED << gwMutex, nodeVars, line, asked, exchangeVars, callVars, todo, packets >>

(* The page with which the download began is left to the worker. *)
MsFirst ==
  /\ InLoop("first")
  /\ cur # NoDevice /\ page = 2
  /\ Deliver
  /\ wstep' = "first_done"
  /\ UNCHANGED << gwMutex, nodeVars, serialVars, exchangeVars, callVars, todo, packets >>

MsNotFirst ==
  /\ InLoop("first")
  /\ ~ (cur # NoDevice /\ page = 2)
  /\ wstep' = "unlock"
  /\ UNCHANGED << vars, gwMutex, nodeVars, serialVars, exchangeVars, callVars, todo, packets >>

PageDone == wstep \in { "page_done", "first_done" }

MsNextPage_OneTooFar ==
  /\ pcW = "scan" /\ PageDone
  /\ page < LastPage
  /\ page' = page + 1
  /\ asked' = Append(asked, "page")
  /\ wstep' = IF wstep = "page_done" THEN "first" ELSE "unlock"
  /\ UNCHANGED << vars, gwMutex, nstate, gwState, cur, queue, line, exchangeVars, callVars, todo, packets >>

(* The next page is requested; sleep(1). *)
MsNextPage ==
  /\ pcW = "scan" /\ PageDone
  /\ page + 1 < LastPage
  /\ page' = page + 1
  /\ asked' = Append(asked, "page")
  /\ wstep' = IF wstep = "page_done" THEN "first" ELSE "unlock"
  /\ UNCHANGED << vars, gwMutex, nstate, gwState, cur, queue, line, exchangeVars, callVars, todo, packets >>

DownloadOver ==
  /\ SetState(cur, "idle")
  /\ cur' = NoDevice
  /\ UNCHANGED << vars, gwMutex, gwState, serialVars, exchangeVars, callVars, todo, packets >>

(* The memory is at its end: one of the two branches calls updateGWState,   *)
(* the other one writes gw_state.                                          *)
MsLastPage ==
  /\ pcW = "scan" /\ PageDone
  /\ page + 1 = LastPage
  /\ page' = 0
  /\ DownloadOver
  /\ wstep' = IF wstep = "page_done" THEN "page_update" ELSE "page_direct"

MsSessionOver_NoUpdate ==
  /\ pcW = "scan" /\ PageDone
  /\ DownloadOver
  /\ page' = 0
  /\ wstep' = "unlock"

(* The session is at its end, or the page is wrong: the other way round.    *)
MsSessionOver ==
  /\ pcW = "scan" /\ PageDone
  /\ DownloadOver
  /\ page' = 0
  /\ wstep' = IF wstep = "page_done" THEN "page_direct" ELSE "page_update"

MsGWIdle ==
  /\ InLoop("page_direct")
  /\ gwState' = "idle"
  /\ wstep' = "unlock"
  /\ UNCHANGED << vars, gwMutex, nstate, cur, page, serialVars, exchangeVars, callVars, todo, packets >>

MsEndPass ==
  /\ WScanned
  /\ wstep = "unlock"
  /\ gwMutex' = "none"
  /\ wstep' = "out"
  /\ UNCHANGED << nodeVars, serialVars, exchangeVars, callVars, todo, packets >>

(* After the loop stopDevice is called for every node. *)
MsLeave ==
  /\ WStop
  /\ wstep' = "stopping"
  /\ todo' = listed
  /\ UNCHANGED << gwMutex, nodeVars, serialVars, exchangeVars, callVars, packets >>

MsStopDevice(d) ==
  /\ wstep = "stopping"
  /\ d \in todo /\ todo' = todo \ { d }
  /\ gwMutex = "none" /\ gwMutex' = "worker"
  /\ Begin("stop", d)
  /\ wstep' = "stop"
  /\ UNCHANGED << vars, nodeVars, serialVars, callVars, packets >>

MsStopUnlock_Forgotten ==
  /\ wstep = "stop_unlock"
  /\ wstep' = "stopping"
  /\ UNCHANGED << vars, gwMutex, nodeVars, serialVars, exchangeVars, callVars, todo, packets >>

MsStopUnlock ==
  /\ wstep = "stop_unlock"
  /\ gwMutex' = "none"
  /\ wstep' = "stopping"
  /\ UNCHANGED << vars, nodeVars, serialVars, exchangeVars, callVars, todo, packets >>

(* The worker locks gw_mutex and calls closeSerial, which locks it again:   *)
(* there is no step after this one, and main joins a thread that never ends.*)
MsClose ==
  /\ wstep = "stopping"
  /\ todo = {}
  /\ gwMutex = "none" /\ gwMutex' = "worker"
  /\ wstep' = "close"
  /\ UNCHANGED << vars, nodeVars, serialVars, exchangeVars, callVars, todo, packets >>

MsWorkerElse ==
  /\ WAddLock \/ WAdd \/ WAddUnlock \/ WDelivered
  /\ UNCHANGED << gwMutex, nodeVars, serialVars, exchangeVars, callVars, passVars >>

MsWorker ==
  \/ MsCheck \/ MsPass \/ MsRead \/ MsNoDiscovery \/ MsClearGWState \/ MsUpdateGWState
  \/ MsRegistered \/ MsDrop \/ MsLdc \/ MsNoPage \/ MsPageOfNobody \/ MsPage
  \/ MsFirst \/ MsNotFirst \/ MsNextPage \/ MsLastPage \/ MsSessionOver \/ MsGWIdle
  \/ MsEndPass \/ MsLeave \/ MsStopUnlock \/ MsClose \/ MsWorkerElse
  \/ \E d \in Device : MsKnown(d) \/ MsNew(d) \/ MsStopDevice(d)
  \/ (gwMutex = "worker" /\ Exchange)

-----------------------------------------------------------------------------
(* The base station and the nodes.                                         *)

Arrives(ms) == Len(line) < MaxLine /\ line' = line \o ms

(* The base station answers the commands one after the other; all but the   *)
(* acknowledgement may be a failure, when the node does not answer it.     *)
BaseAnswers ==
  /\ asked # << >>
  /\ asked' = Tail(asked)
  /\ \E k \in { Head(asked), "failure" } :
       (Head(asked) = "bs" => k = "bs") /\ Arrives(<< Reply(k) >>)
  /\ UNCHANGED queue

(* A node is switched on; one of its two messages may be lost. *)
NodeStarts(d) ==
  /\ \E n \in 1 .. 2 : Arrives([i \in 1 .. n |-> Msg("discovery", d)])
  /\ UNCHANGED << queue, asked >>

(* A node streams, perhaps since before the gateway was started. *)
NodeStreams(d) ==
  /\ Arrives(<< Msg("ldc", d) >>)
  /\ UNCHANGED << queue, asked >>

MsEnvironment ==
  \/ /\ \/ BaseAnswers /\ UNCHANGED packets
        \/ /\ packets < MaxPackets /\ packets' = packets + 1
           /\ \E d \in Device : NodeStarts(d) \/ NodeStreams(d)
     /\ UNCHANGED << vars, gwMutex, nodeVars, exchangeVars, callVars, wstep, todo >>
  \/ /\ MSpuriousWakeup \/ Sigint
     /\ UNCHANGED << gwMutex, nodeVars, serialVars, exchangeVars, callVars, passVars >>

MsNext == MsMain \/ MsWorker \/ MsEnvironment

MsSpec == MsInit /\ [][MsNext]_msVars

-----------------------------------------------------------------------------
Starts == { "ldc", "log", "download", "erase" }

(* The node a start command is meant for is idle when main gets through to  *)
(* the base station, although its state was read before gw_mutex was taken *)
(* and perhaps given up in between.                                        *)
StartsIdleNode == mstep = "run" /\ op \in Starts => nstate[lastRem] = "idle"

BusyHasNode ==
  /\ gwState = "ldc" => \E d \in listed : nstate[d] = "ldc"
  /\ gwState = "receiving" => \E d \in listed : nstate[d] = "sending"

(* The gateway refuses no operation as busy for nothing: when nobody is at  *)
(* work on it, a busy gw_state has its node.                               *)
BusyIsTrue == gwMutex = "none" => BusyHasNode

(* The pages of a download belong to a node that is listed, and there is    *)
(* always a further one to ask for.                                        *)
DownloadHasNode ==
  cur # NoDevice => cur \in listed /\ page < LastPage

(* When neither thread can go on it is for one of three reasons: each waits *)
(* for the mutex the other one has, the worker has left its loop with       *)
(* gw_mutex, or it closes the line and waits for itself.                   *)
WaitsForGWMutex ==
  /\ gwMutex # "none"
  /\ mstep \in { "lock", "relock" } \/ (mstep = "rcv" /\ op = "count")

MainBlocked == MainWaits \/ WaitsForGWMutex \/ pcM \in { "join", "done" }

WorkerBlocked ==
  \/ mutex # "none" /\ pcW = "add_lock"
  \/ gwMutex # "none" /\ (pcW = "select" \/ wstep = "stopping")
  \/ wstep \in { "left", "close" }

Abba == mutex = "main" /\ gwMutex = "worker" /\ pcW = "add_lock"

OnlyKnownDeadlocks ==
  MainBlocked /\ WorkerBlocked => Abba \/ wstep \in { "left", "close" }

(* Each thread can go on unless it waits for a mutex, for the condition     *)
(* variable or for the other one: nothing else of send_buf, rcv_buf or of   *)
(* the loop ever stops it.                                                 *)
BlockedOnlyByLocks ==
  /\ MainBlocked <=> ~ ENABLED MsMain
  /\ WorkerBlocked <=> ~ ENABLED MsWorker

(* However the pages cut a session, a download decodes it (processLogging    *)
(* and its requests for pages).  The code needs two channels and a sample.  *)
(* No variable is in it, so the initial states are enough.                 *)
SessionsDecoded == MsInit => Undecoded = {}

(* One download at a time: "Gateway is busy. Please stop all other nodes    *)
(* first."                                                                 *)
OneDownload == \A d \in Device : nstate[d] = "sending" => d = cur

-----------------------------------------------------------------------------
(* Why: the invariant that is inductive.                                   *)

MsOwner ==
  /\ gwMutex = "main" <=> mstep \in { "run", "unlock", "unlock_go" }
  /\ gwMutex = "worker" <=> wstep \notin { "out", "stopping" }

(* Where the threads are in the core tells where they are in the platform.  *)
MsControl ==
  /\ mstep # "none" => pcM = "await" /\ lastRem # NoDevice /\ op \in Operations
  /\ wstep = "out" <=> pcW \in { "loop", "select" }
  /\ wstep \in { "stopping", "stop", "stop_unlock" } => pcW = "cleanup"

(* An exchange with the base station belongs to the thread that began it.   *)
MsExchange ==
  /\ mstep = "run" => section \in { op, "sessions" } /\ target = lastRem
  /\ wstep \in { "register", "stop" } => section = wstep
  /\ section # "none" <=> mstep = "run" \/ wstep \in { "register", "stop" }
  /\ section # "none" <=> want # "none"
  /\ section # "none" => left > 0 /\ target \in Device
  /\ section = "sessions" \/ mstep \in { "unlock_go", "relock" } => op \in { "log", "download" }

(* From the test of its state on, the node main works on can only become    *)
(* idle.                                                                   *)
StaysIdle ==
  /\ op \in Starts /\ mstep \in { "gw", "lock", "run", "unlock_go", "relock" } =>
       nstate[lastRem] = "idle"
  /\ op = "info" /\ mstep \in { "lock", "run" } => nstate[lastRem] \in { "idle", "logging" }

(* gw_state is out of date only between two writes of the worker.           *)
BusyUnlessUpdated ==
  wstep \notin { "disc_update", "page_update", "page_direct" } => BusyHasNode

MsIInv ==
  /\ IInv /\ MsTypeOK /\ MsOwner /\ MsControl /\ MsExchange
  /\ StaysIdle /\ BusyUnlessUpdated /\ DownloadHasNode
=============================================================================
