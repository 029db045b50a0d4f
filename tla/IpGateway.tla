----------------------------- MODULE IpGateway -----------------------------
(***************************************************************************)
(* The gateway with its IP platform (gateway/src/platform/ip/discover.c)   *)
(* and the nodes it talks to.  Every action is a step of GatewayCore, which *)
(* it refines with what happens to file descriptors: the descriptor table  *)
(* of the process, the sockets a device keeps in its address, the sets the *)
(* worker's select works on, and the connection of the client that main    *)
(* serves.  The soap listeners of the devices are not among the            *)
(* descriptors here.                                                       *)
(***************************************************************************)
EXTENDS GatewayCore, DummyNode, FiniteSetsExt

CONSTANTS
  NFd,             \* size of the descriptor table
  FdSetSize,       \* FD_SETSIZE: the worker watches only smaller descriptors
  NoNode,
  SigintThreads    \* threads the kernel may run the SIGINT handler on

ASSUME IpAssumption ==
  /\ NFd \in Nat \ {0} /\ FdSetSize \in Nat
  /\ NoNode \notin Node
  /\ SigintThreads \in SUBSET { "main", "worker" } /\ SigintThreads # {}

VARIABLES
  fdt,       \* the descriptor table
  addr,      \* socket_connection of each device: its two sockets
  serial,    \* the node a device object stands for (its serial number)
  master,    \* descriptors the worker selects on
  readfds,   \* descriptors of this pass still to be read
  errfds,    \* descriptors of this pass still to be checked for errors
  curFd,     \* loop variable i while a message is handled
  clientFd,  \* the connection of the client main serves, 0 for none
  eintr,     \* the thread whose blocking call a signal has interrupted
  reused     \* history: who got the number of a socket that is still to be closed

fdVars    == << fdt, addr, serial, clientFd, reused >>
watchVars == << master, readfds, errfds, curFd >>
ipVars    == << vars, nodeVars, fdVars, watchVars, eintr >>

Fd   == 1 .. NFd
Disc == 1                               \* discovery_sock

(* What an open descriptor is connected to. *)
FdKind == { "free", "disc", "ev", "op", "client" }
Conn(kind, n) == [kind |-> kind, node |-> n]
Closed == Conn("free", NoNode)
NoAddr == [op |-> 0, ev |-> 0]

IpTypeOK ==
  /\ TypeOK /\ NodeTypeOK
  /\ fdt \in [Fd -> [kind : FdKind, node : Node \cup { NoNode }]]
  /\ addr \in [Device -> [op : Fd \cup {0}, ev : Fd \cup {0}]]
  /\ serial \in [Device -> Node \cup { NoNode }]
  /\ master \in SUBSET Fd
  /\ readfds \in SUBSET Fd
  /\ errfds \in SUBSET Fd
  /\ curFd \in Fd \cup {0}
  /\ clientFd \in Fd \cup {0}
  /\ eintr \in { "none", "main", "worker" }
  /\ reused \in { "none", "client", "node" }

(* The discovery socket is set up before the loop; setup_discovery_sock    *)
(* ends the process when that fails.                                       *)
IpInit ==
  /\ Init /\ NodeInit
  /\ fdt = [f \in Fd |-> IF f = Disc THEN Conn("disc", NoNode) ELSE Closed]
  /\ addr = [d \in Device |-> NoAddr]
  /\ serial = [d \in Device |-> NoNode]
  /\ master = { Disc }
  /\ readfds = {}
  /\ errfds = {}
  /\ curFd = 0
  /\ clientFd = 0
  /\ eintr = "none"
  /\ reused = "none"

-----------------------------------------------------------------------------
(* Descriptors.                                                            *)

IsOpen(f)  == f # 0 /\ fdt[f] # Closed
FreeFds    == { f \in Fd : fdt[f] = Closed }
(* A new socket gets the lowest free descriptor. *)
FirstFree  == Min(FreeFds)
SecondFree == Min(FreeFds \ { FirstFree })
CloseFd(f) == fdt' = [g \in Fd |-> IF g = f THEN Closed ELSE fdt[g]]

(* What a descriptor has to read: a client sends its request at once. *)
HasData(f) ==
  \/ fdt[f].kind = "disc" /\ helloq # {}
  \/ fdt[f].kind = "ev" /\ fdt[f].node \in evq
  \/ fdt[f].kind = "op" /\ opq[fdt[f].node] = "reply"
  \/ fdt[f].kind = "client"

Ended(f) == fdt[f].kind \in { "ev", "op" } /\ node[fdt[f].node] = "gone"

(* select reports a descriptor with data or with a connection at its end. *)
Readable(f) == HasData(f) \/ Ended(f)

(* History: a node is connected on a number that main still takes for the   *)
(* connection of its client, and will close.                               *)
NodeGets(fs) == reused' = IF clientFd \in fs THEN "node" ELSE reused

(* for (i = 0; i <= fd_max; i++): the descriptor the scan has come to. *)
Scanned == Min(readfds \cup errfds)

(* device_proxy_list_get_device_by_ev_sock *)
DevicesAt(f) == { d \in listed : addr[d].ev = f }

-----------------------------------------------------------------------------
(* The worker.                                                             *)

IpCheck == WCheck /\ UNCHANGED << nodeVars, fdVars, watchVars, eintr >>

(* select returns -1 when a signal interrupts it or a watched descriptor   *)
(* is closed, and then leaves both sets as they were: copies of master.    *)
SelectFails == eintr = "worker" \/ \E f \in master : ~ IsOpen(f)

IpSelect_NoCopy ==
  /\ WSelect
  /\ readfds' = IF SelectFails THEN readfds ELSE { f \in readfds : Readable(f) }
  /\ errfds' = IF SelectFails THEN master ELSE {}
  /\ work' = Cardinality(readfds') + Cardinality(errfds')
  /\ eintr' = IF eintr = "worker" THEN "none" ELSE eintr
  /\ UNCHANGED << nodeVars, fdVars, master, curFd >>

IpSelect ==
  /\ WSelect
  /\ readfds' = IF SelectFails THEN master ELSE { f \in master : Readable(f) }
  /\ errfds' = IF SelectFails THEN master ELSE {}
  /\ work' = Cardinality(readfds') + Cardinality(errfds')
  /\ eintr' = IF eintr = "worker" THEN "none" ELSE eintr
  /\ UNCHANGED << nodeVars, fdVars, master, curFd >>

IpStop ==
  /\ WStop
  /\ CloseFd(Disc)
  /\ UNCHANGED << nodeVars, addr, serial, clientFd, reused, watchVars, eintr >>

IpScanned ==
  /\ WScanned
  /\ readfds \cup errfds = {}
  /\ UNCHANGED << nodeVars, fdVars, watchVars, eintr >>

(* The read part of the scan for descriptor i. *)
ReadAt(i) ==
  /\ pcW = "scan"
  /\ readfds # {}
  /\ i = Scanned /\ i \in readfds
  /\ readfds' = readfds \ { i }

(* recvfrom on the discovery socket blocks until there is a Hello.  *)
HelloFrom(n) ==
  /\ ReadAt(Disc)
  /\ n \in helloq
  /\ helloq' = helloq \ { n }

ConnectedTo(n) ==
  /\ fdt' = [fdt EXCEPT ![FirstFree] = Conn("ev", n), ![SecondFree] = Conn("op", n)]
  /\ NodeGets({ FirstFree, SecondFree })
  /\ node' = [node EXCEPT ![n] = "up"]

IpHello_SwapsSockets(n, d) ==
  /\ HelloFrom(n)
  /\ node[n] = "listening"
  /\ Cardinality(FreeFds) >= 2
  /\ WBuild(d)
  /\ ConnectedTo(n)
  /\ addr' = [addr EXCEPT ![d] = [op |-> FirstFree, ev |-> SecondFree]]
  /\ serial' = [serial EXCEPT ![d] = n]
  /\ UNCHANGED << evq, opq, clientFd, master, errfds, curFd, eintr >>

(* process_discovery: both connections are made - events first - and the    *)
(* device is built.                                                        *)
IpHello(n, d) ==
  /\ HelloFrom(n)
  /\ node[n] = "listening"
  /\ Cardinality(FreeFds) >= 2
  /\ WBuild(d)
  /\ ConnectedTo(n)
  /\ addr' = [addr EXCEPT ![d] = [op |-> SecondFree, ev |-> FirstFree]]
  /\ serial' = [serial EXCEPT ![d] = n]
  /\ UNCHANGED << evq, opq, clientFd, master, errfds, curFd, eintr >>

(* Both connections are made and the device cannot be built: the two       *)
(* sockets stay open and nobody knows them any more.                       *)
IpHelloNotBuilt(n) ==
  /\ HelloFrom(n)
  /\ node[n] = "listening"
  /\ Cardinality(FreeFds) >= 2
  /\ WNothing
  /\ ConnectedTo(n)
  /\ UNCHANGED << evq, opq, addr, serial, clientFd, master, errfds, curFd, eintr >>

(* The connection for operations fails; the socket of the one for events   *)
(* stays open.                                                             *)
IpHelloHalf(n) ==
  /\ HelloFrom(n)
  /\ node[n] = "listening"
  /\ Cardinality(FreeFds) = 1
  /\ WNothing
  /\ fdt' = [fdt EXCEPT ![FirstFree] = Conn("ev", n)]
  /\ NodeGets({ FirstFree })
  /\ node' = [node EXCEPT ![n] = "half"]
  /\ UNCHANGED << evq, opq, addr, serial, clientFd, master, errfds, curFd, eintr >>

IpHelloFailed_ReturnsZero(n) ==
  /\ HelloFrom(n)
  /\ node[n] # "listening" \/ FreeFds = {}
  /\ WNothing
  /\ master' = master \cup { 0 }
  /\ UNCHANGED << node, evq, opq, fdVars, errfds, curFd, eintr >>

(* Neither connection can be made.                                         *)
IpHelloFailed(n) ==
  /\ HelloFrom(n)
  /\ node[n] # "listening" \/ FreeFds = {}
  /\ WNothing
  /\ UNCHANGED << node, evq, opq, fdVars, master, errfds, curFd, eintr >>

IpAddLock == WAddLock /\ UNCHANGED << nodeVars, fdVars, watchVars, eintr >>
IpAdd     == WAdd /\ UNCHANGED << nodeVars, fdVars, watchVars, eintr >>

IpAddUnlock_NotWatched ==
  /\ WAddUnlock
  /\ UNCHANGED << nodeVars, fdVars, watchVars, eintr >>

(* The new device is listed; now its event socket is watched, if it fits.  *)
IpAddUnlock ==
  /\ WAddUnlock
  /\ master' = IF addr[curW].ev < FdSetSize THEN master \cup { addr[curW].ev } ELSE master
  /\ UNCHANGED << nodeVars, fdVars, readfds, errfds, curFd, eintr >>

(* handle_node_message finds the device by its socket. *)
IpMessage(d) ==
  /\ ReadAt(Scanned)
  /\ d \in DevicesAt(Scanned)
  /\ WMessage(d)
  /\ curFd' = Scanned
  /\ UNCHANGED << nodeVars, fdVars, master, errfds, eintr >>

(* The header and what it announces are read; an answer of a node has the   *)
(* same form as an event.                                                  *)
MessageRead ==
  /\ HasData(curFd)
  /\ \/ /\ fdt[curFd].kind = "ev"
        /\ evq' = evq \ { fdt[curFd].node }
        /\ UNCHANGED opq
     \/ /\ fdt[curFd].kind = "op"
        /\ opq' = [opq EXCEPT ![fdt[curFd].node] = "idle"]
        /\ UNCHANGED evq

IpDelivered_ClosesSocket ==
  /\ WDelivered
  /\ MessageRead
  /\ CloseFd(curFd)
  /\ curFd' = 0
  /\ UNCHANGED << node, helloq, addr, serial, clientFd, reused, master, readfds, errfds, eintr >>

(* recv gets the header and the event, and the event is delivered. *)
IpDelivered ==
  /\ WDelivered
  /\ MessageRead
  /\ curFd' = 0
  /\ UNCHANGED << node, helloq, fdVars, master, readfds, errfds, eintr >>

(* recv gets less than it asked for, or nothing, or the descriptor is bad. *)
(* As long as nothing comes and the node is there, recv blocks.            *)
IpLost ==
  /\ WLost
  /\ ~ IsOpen(curFd) \/ Readable(curFd)
  /\ UNCHANGED << nodeVars, fdVars, watchVars, eintr >>

IpNotify_LeavesOpen ==
  /\ WNotify
  /\ UNCHANGED << nodeVars, fdVars, watchVars, eintr >>

(* discovery_notify_unregister closes the event socket of the device.      *)
IpNotify ==
  /\ WNotify
  /\ CloseFd(addr[curW].ev)
  /\ UNCHANGED << nodeVars, addr, serial, clientFd, reused, watchVars, eintr >>

IpDelLock    == WDelLock /\ UNCHANGED << nodeVars, fdVars, watchVars, eintr >>
IpDel        == WDel /\ UNCHANGED << nodeVars, fdVars, watchVars, eintr >>
IpDelUnlock  == WDelUnlock /\ UNCHANGED << nodeVars, fdVars, watchVars, eintr >>
IpDeactivate == WDeactivate /\ UNCHANGED << nodeVars, fdVars, watchVars, eintr >>

(* What the freed memory held is gone. *)
ForgetDevice ==
  /\ addr' = [addr EXCEPT ![curW] = NoAddr]
  /\ serial' = [serial EXCEPT ![curW] = NoNode]

IpFree_StaysInMaster ==
  /\ WFree
  /\ CloseFd(curFd)
  /\ curFd' = 0
  /\ ForgetDevice
  /\ UNCHANGED << nodeVars, clientFd, reused, master, readfds, errfds, eintr >>

(* After the item is freed the scan takes the descriptor out of master and *)
(* closes it, which discovery_notify_unregister has done before; the clean *)
(* up at the end (no descriptor, curFd = 0) does neither.                  *)
IpFree ==
  /\ WFree
  /\ CloseFd(curFd)
  /\ master' = master \ { curFd }
  /\ curFd' = 0
  /\ ForgetDevice
  /\ UNCHANGED << nodeVars, clientFd, reused, readfds, errfds, eintr >>

(* FD_ISSET(i, &err_fds): the descriptor is no longer watched. *)
IpError ==
  /\ pcW = "scan"
  /\ errfds # {}
  /\ Scanned \notin readfds
  /\ WNothing
  /\ master' = master \ { Scanned }
  /\ errfds' = errfds \ { Scanned }
  /\ UNCHANGED << nodeVars, fdVars, readfds, curFd, eintr >>

IpCleanup(d) == WCleanup(d) /\ UNCHANGED << nodeVars, fdVars, watchVars, eintr >>

IpBcast ==
  /\ WCleaned \/ WBcastLock \/ WBcast \/ WBcastUnlock
  /\ UNCHANGED << nodeVars, fdVars, watchVars, eintr >>

IpWorker ==
  \/ IpCheck \/ IpSelect \/ IpStop \/ IpScanned
  \/ \E n \in Node : IpHelloNotBuilt(n) \/ IpHelloHalf(n) \/ IpHelloFailed(n)
  \/ \E n \in Node, d \in Device : IpHello(n, d)
  \/ \E d \in Device : IpMessage(d) \/ IpCleanup(d)
  \/ IpAddLock \/ IpAdd \/ IpAddUnlock \/ IpDelivered \/ IpLost
  \/ IpNotify \/ IpDelLock \/ IpDel \/ IpDelUnlock \/ IpDeactivate \/ IpFree
  \/ IpError \/ IpBcast

-----------------------------------------------------------------------------
(* The main thread.                                                        *)

TearingDown == pcW \in { "del_lock", "del", "del_unlock", "deactivate", "free" }

(* The event socket is closed and the scan will close its descriptor once   *)
(* more.                                                                   *)
BetweenCloses == TearingDown /\ curFd # 0

(* soap_accept gives the client's connection a descriptor, if there is one; *)
(* between the two closes it may be the one that is to be closed again.    *)
IpAccept ==
  /\ MAccept
  /\ IF FreeFds = {}
       THEN clientFd' = 0 /\ UNCHANGED << fdt, reused >>
       ELSE /\ clientFd' = FirstFree
            /\ fdt' = [fdt EXCEPT ![FirstFree] = Conn("client", NoNode)]
            /\ reused' = IF reused = "none" /\ BetweenCloses /\ FirstFree = curFd
                           THEN "client" ELSE reused
  /\ UNCHANGED << nodeVars, addr, serial, watchVars, eintr >>

(* Where the operation socket of a device leads to. *)
OpConn(d) == fdt[addr[d].op]

(* send_buf: the request reaches the node the operation socket leads to.  *)
IpSend ==
  /\ MSend
  /\ IF lastRem' # NoDevice /\ OpConn(lastRem').kind = "op"
       THEN opq' = [opq EXCEPT ![OpConn(lastRem').node] = "request"]
       ELSE UNCHANGED opq
  /\ UNCHANGED << node, helloq, evq, fdVars, watchVars, eintr >>

Received_OnlyFromReply ==
  lastRem # NoDevice /\ OpConn(lastRem).kind = "op" =>
    opq[OpConn(lastRem).node] = "reply"

(* rcv_buf blocks, with proxy_mutex held, until the node has answered, has *)
(* closed the connection, or a signal interrupts recv.  Without a device   *)
(* it returns at once.                                                     *)
Received ==
  lastRem # NoDevice /\ OpConn(lastRem).kind = "op" =>
    LET n == OpConn(lastRem).node
    IN  opq[n] = "reply" \/ node[n] = "gone" \/ eintr = "main"

(* The request is answered, from the node's reply or, for what needs no    *)
(* node, from main itself, and the client's connection is closed.          *)
IpServed ==
  /\ MServed
  /\ IF pcM = "await" THEN Received ELSE TRUE
  /\ opq' = IF pcM = "await" /\ lastRem # NoDevice /\ OpConn(lastRem).kind = "op"
              THEN [opq EXCEPT ![OpConn(lastRem).node] = IF @ = "reply" THEN "idle" ELSE @]
              ELSE opq
  /\ CloseFd(clientFd)
  /\ clientFd' = 0
  /\ reused' = IF reused = "client" THEN "none" ELSE reused
  /\ eintr' = IF eintr = "main" THEN "none" ELSE eintr
  /\ UNCHANGED << node, helloq, evq, addr, serial, watchVars >>

IpMainElse ==
  /\ MLoop \/ MLock \/ MWait \/ MGoOn \/ MReacquire \/ MCount \/ MCollect
     \/ MTimeout \/ MUnlock \/ MSweepLock \/ MSweep \/ MSweepUnlock \/ MJoin
  /\ UNCHANGED << nodeVars, fdVars, watchVars, eintr >>

IpMain == IpAccept \/ IpSend \/ IpServed \/ IpMainElse

-----------------------------------------------------------------------------
(* SIGINT: the thread the handler runs on has its blocking call, if it is  *)
(* in one, interrupted.                                                    *)
IpSigint ==
  /\ Sigint
  /\ \E t \in SigintThreads :
       eintr' = IF \/ t = "worker" /\ pcW = "select"
                   \/ t = "main" /\ pcM = "await"
                  THEN t ELSE eintr
  /\ UNCHANGED << nodeVars, fdVars, watchVars >>

IpNode(n) == NodeStep(n) /\ UNCHANGED << vars, fdVars, watchVars, eintr >>

IpSpurious == MSpuriousWakeup /\ UNCHANGED << nodeVars, fdVars, watchVars, eintr >>

IpTerminated == Terminated /\ UNCHANGED ipVars

IpNext ==
  \/ IpMain \/ IpWorker \/ IpSigint \/ IpSpurious \/ IpTerminated
  \/ \E n \in Node : IpNode(n)

IpSpec == IpInit /\ [][IpNext]_ipVars

(* Both threads run; a worker that waits for the mutex gets it now and     *)
(* then, which the sched_yield in main's loop is there for; and a node     *)
(* that is there answers a request.                                        *)
IpFairSpec ==
  /\ IpSpec
  /\ WF_ipVars(IpMain)
  /\ SF_ipVars(IpWorker)
  /\ WF_ipVars(\E n \in Node : NodeAnswer(n) /\ IpNode(n))

-----------------------------------------------------------------------------
(* A device in the list is the proxy of the node both its sockets lead to, *)
(* except while the worker, having closed the event socket, is about to    *)
(* take the device out of the list.  The double close can end this in one   *)
(* way only: it takes the descriptor from a client that was accepted since *)
(* the first close, and a node is connected on it before main has served   *)
(* that client.                                                            *)
SocketsIdentifyDevices ==
  reused # "node" =>
    \A d \in listed :
      /\ fdt[addr[d].op] = Conn("op", serial[d])
      /\ \/ fdt[addr[d].ev] = Conn("ev", serial[d])
         \/ d = curW /\ pcW \in { "del_lock", "del" }

(* The connection main serves a client on is closed by main and by nobody   *)
(* else.                                                                   *)
ClientKeepsConnection ==
  clientFd # 0 => fdt[clientFd].kind = "client"

(* The only client whose connection somebody else closes is one that got,   *)
(* between the two closes of an event socket, the number of this socket;   *)
(* every other one keeps it, whenever it comes and whatever the worker      *)
(* does, as long as no node was connected on the number of such a client.  *)
OnlyReusedIsLost ==
  reused = "none" => ClientKeepsConnection

(* The assertion in remote_device_get_dpws_device never fails for the      *)
(* worker: a descriptor of the pass that is no longer, or not yet, the     *)
(* event socket of a listed device is never read.                          *)
UnregistersKnownDevice ==
  \A f \in readfds \ { Disc } : DevicesAt(f) # {}

(* Why: the invariant that is inductive, on top of the core's.  A device    *)
(* that is allocated has its two sockets and its node, ...                 *)
Allocated == { d \in Device : mem[d] # "unalloc" }

Addressed ==
  \A d \in Allocated : { addr[d].op, addr[d].ev } \subseteq Fd /\ serial[d] \in Node

(* ... the scan has, until the item is freed, the descriptor of the device  *)
(* it works on, and only reads what is watched, ...                        *)
ScanPosition ==
  /\ curFd = IF ~ closing /\ (pcW \in { "deliver", "notify" } \/ TearingDown)
               THEN addr[curW].ev ELSE 0
  /\ readfds \subseteq master \ { curFd }
  /\ closing \/ pcW \in { "loop", "select" } => readfds \cup errfds = {}

(* ... what is watched belongs to a listed device or to the one that is     *)
(* being discarded, ...                                                    *)
Watched ==
  ~ closing => \A f \in master \ { Disc } :
    \/ DevicesAt(f) # {}
    \/ f = curFd /\ pcW \in { "del_unlock", "deactivate", "free" }

(* ... the sockets of all devices, listed or not, are their own, ...        *)
OwnSockets ==
  \A d \in Allocated :
    /\ fdt[addr[d].op] = Conn("op", serial[d])
    /\ fdt[addr[d].ev] = Conn("ev", serial[d]) \/ (d = curW /\ TearingDown)
    /\ \A e \in Allocated : addr[d].ev = addr[e].ev => d = e

(* ... between the two closes nobody but a client of main has the            *)
(* descriptor, ...                                                         *)
StaysClosed ==
  /\ ~ closing => fdt[Disc] = Conn("disc", NoNode)
  /\ BetweenCloses => \/ fdt[curFd] = Closed
                     \/ /\ reused = "client" /\ curFd = clientFd
                        /\ fdt[curFd] = Conn("client", NoNode)

(* ... and what main closes is the connection of its client, or, when the   *)
(* scan was quicker, nothing.                                              *)
ClientIsOwn ==
  /\ clientFd # 0 => pcM \in { "serve", "await" }
  /\ reused = "client" => clientFd # 0
  /\ clientFd # 0 => \/ fdt[clientFd] = Conn("client", NoNode)
                     \/ reused = "client" /\ fdt[clientFd] = Closed

(* The conjunction is preserved by every step.                             *)
IpIInv ==
  /\ IInv /\ IpTypeOK /\ Addressed /\ ScanPosition /\ Watched
  /\ reused # "node" => OwnSockets /\ StaysClosed /\ ClientIsOwn

ListedFor(n) == \E d \in listed : serial[d] = n

(* The proxy of a node that has gone disappears.                           *)
LostNodeDiscarded ==
  \A n \in Node :
    node[n] = "gone" /\ ListedFor(n) ~> ~ ListedFor(n)

(* A node whose Hello has arrived gets its connections, unless the gateway *)
(* stops, the node leaves or there are no descriptors left.                *)
HelloAnswered ==
  \A n \in Node :
    node[n] = "listening" /\ n \in helloq ~>
      node[n] # "listening" \/ ~ running \/ Cardinality(FreeFds) < 2

(* A node nobody has discovered yet goes on saying Hello (the comment in    *)
(* node_discovery_listen), so it is discovered whatever the network does   *)
(* to a single datagram.                                                   *)
NodeDiscovered ==
  \A n \in Node :
    node[n] = "listening" ~> node[n] # "listening" \/ ~ running
=============================================================================
