# dpwsGW: a TLA+ model of the gateway

dpwsGW (TecO, KIT) makes small sensor nodes visible as DPWS devices. A gateway
process finds nodes on a platform (IP, pPart and uPart particles, MicroStrain
wireless nodes), creates one proxy device per node, answers web-service requests
by talking to the node, and turns node messages into WS-Eventing events. This
directory models that process, checks it with TLC on small instances, and proves
its central properties with TLAPS for instances of any size.

Source paths below are relative to `src/`; `IP` is
`gateway/src/platform/ip/discover.c`.

## Inventory

| Part | State | Operations | Interacts with | Hard behaviour | What makes it correct |
|---|---|---|---|---|---|
| Main thread (`gateway/src/main.c`, `proxy_handler.c`) | position in its loop, the handles it has collected, `last_rem_dev` | wait for a device, collect handles, accept, serve, expire subscriptions, join | list and mutex; nodes through `send_buf`, `rcv_buf` | blocks on a node with the mutex held | works on live devices only; ends after SIGINT |
| Proxy list (`proxy_structures.c`, `mutex_handling.c`) | the linked list, `proxy_mutex`, `proxy_cond` | add, delete, find, count, collect, clean up | both threads | finds without the mutex; the wakeup of main | never changes under a walk of main; no lost wakeup; nothing leaked |
| Discovery worker, IP (`IP`) | `master`, `read_fds`, `err_fds`, sockets of each device | Hello, connect, build, event, loss, shutdown | list, kernel, nodes | stale descriptors in a pass, failing `select`, double `close` | sockets identify devices; lost nodes disappear |
| Simulated node (`dummynode_SSimp/src`) | listeners, two connections, sensor settings | Hello, send event, answer operation, configure | gateway | lost datagram, silent node, exit | gets discovered; answers match the operation |
| pPart platform (`platform/pPart/discover.c`) | pending operation and packet, mutex and condition of its own, time of last packet | send, resend, await reply, deliver event, time out | main, worker, particles | reply against timeout and resend | one reply per request; no device unregistered while it talks |
| uPart platform (`platform/uPart/discover.c`) | remaining time per device | event, time out | worker | timeout against packet | as above |
| MicroStrain platform (`platform/microstrain/discover.c`) | `gw_mutex`, message queue, gateway state, node states | command, reply, download, stream, register | both threads, serial line | two mutexes, missing replies | no deadlock; states match the base station |
| Service cache (`service_cache.c`) | reference-counted services | register, unregister | proxy handler (calls are commented out) | counts | freed with the last reference |
| Eventing (`contrib/ws4d-gsoap/src/libdpws`) | the list of subscriptions of each device | subscribe, unsubscribe, renew, expire, deliver | main changes the lists, the worker walks over them | the walk takes no lock; a subscription that cannot be reached is ended in the middle of it | every subscriber gets an event once; the walk stays in the list |
| Services (`*Service/src`) | none | convert, `send_buf`, `rcv_buf` | main | results ignored | answers are the node's |
| USB bridge and particle firmware (`pPart/`) | packet buffers, protocol state | escape, forward, acknowledge | radio, USB | interrupts | frames survive |

Not part of the program's own logic: `contrib/gsoap`, generated code
(`SSimpDevice`, `src-gen`), `minIni`, the C# discovery client.

## Modules

| Module | Models | Role |
|---|---|---|
| `DeviceRegistry` | what the proxy list promises | abstract specification: the list changes only while main has no snapshot |
| `EventSource` | what subscribers are promised | abstract specification: subscriptions come and go during a delivery, which tells everyone who asked, nobody twice, and is not over before |
| `GatewayCore` | `main.c`, `proxy_handler.c`, `proxy_structures.c`, `mutex_handling.c` | the two threads, the mutex, the condition variable, the life of each device |
| `DummyNode` | `dummynode.c`, `operations.c` | the node processes and what is under way between them and the gateway |
| `IpGateway` | `IP` | extends `GatewayCore` and `DummyNode`: descriptors, `select`, Hello, events, operations, signals |
| `PPartGateway` | `platform/pPart/discover.c` | extends `GatewayCore`: packets, `pkt_received`, requests with timeout and resend, silence of particles |
| `MicroStrain` | `platform/microstrain/discover.c` | extends `GatewayCore` and `MsLogging`: `gw_mutex`, the message queue and the serial line, exchanges with the base station, states of nodes and gateway, download, shutdown |
| `MsLogging` | `processLogging` in the same file | the decoder of logged samples, as functions |
| `Eventing` | `ws4d_subsmanager.c`, `ws-eventing.c`, `ws4d_list.h`, `SensorValues_deliver_event.c` | extends `GatewayCore`: the subscriptions of each device under main and worker |
| `MCGatewayCore` (an instance of `Eventing`), `MCIpGateway`, `MCPPartGateway`, `MCMicroStrain` | - | instances for TLC |
| `GatewayCoreProofs`, `IpGatewayProofs`, `PPartGatewayProofs`, `MicroStrainProofs`, `MsLoggingProofs`, `EventingProofs` | - | theorems and proofs |

Each platform module and `Eventing` is a composition with the core: its actions
conjoin actions of `GatewayCore` with what they do to its own state, so the
platform and the subscriptions run under the same two threads and the same mutex.

### How state and actions correspond to the code

*GatewayCore.* `pcM` and `pcW` are the positions of the two threads; an action is
the code between two points where the other thread may interfere: a lock, an
unlock, a wait, a blocking call, or an access to what both can reach. `mutex` is
`proxy_mutex`; `pthread_cond_wait` releases it and waits in one step (`MWait`)
and takes it again later (`MReacquire`), and may return spuriously
(`MSpuriousWakeup`). `listed` is the list at `head`; `mem[d]` is `"up"` from
`init_device_structure` to `dpws_deactivate_hosting_service`, then `"down"`, and
`"unalloc"` after `device_proxy_item_free`. `pinned` is what main has a pointer
to: the devices of `soap_set` while it selects, accepts and serves, and the whole
list while it sweeps. The worker is what every platform's worker has in common: a pass over some number
of ready messages (`work`, at most `MaxWork`), each of which registers a device
(`WBuild` to `WAddUnlock`), is delivered to one (`WMessage`, `WDelivered`),
leads to its loss (`WLost`, `WNotify` to `WFree`, that is
`dpws_device_unregister`), or comes to nothing (`WNothing`). After the flag is
seen the same teardown runs for every device (`WCleanup`).

*IpGateway.* Every action conjoins an action of the core with its effect on
descriptors. `fdt` is the descriptor table, in which a new socket gets the
lowest free number; this is what makes reuse visible. `master`, `readfds` and
`errfds` are the sets of the worker's loop; the scan goes through them in
ascending order (`Scanned`). A `select` that fails, because of a signal or of a
closed descriptor in `master`, leaves both sets equal to `master`, as the code
does. Calls that block are guards: `recvfrom` needs a Hello, `recv` on an event
socket an event or the end of the connection, `recv` in `rcv_buf` an answer, the
end of the connection, or a signal. `eintr` records that SIGINT came to a thread
in a blocking call (`sigaction` is used without `SA_RESTART`). The event socket of a
discarded device is closed twice (634 and 612), and main may accept a client at any
time in between; the history variable `reused` says what has become of the number:
`"client"` while main has a client on it, `"node"` once a node was connected on the
number of a client that had lost its connection, which main then closes.

*DummyNode.* A node goes from `"off"` to `"listening"` (listeners open, one
Hello sent), `"up"` when the gateway has made both connections, and `"gone"`.
`"half"` is a node whose event connection only was made. Nodes in
`SilentNodes` run with `simerror`.

*PPartGateway.* The worker owns the one socket; a pass takes at most one packet
(`PpRecv`) through `discovery_process_pkt` (`PpKnown`, `PpNew`, `PpNotBuilt`) and
`handle_node_message` (`PpNoOperation` to `PpReset`), reads the clock (`PpTime`)
and unregisters the devices that are late by then (`PpExpire`, `PpLost`,
`PpFree`). `wstep` is the position in the pass, `wbuf` the packet in the worker's
frame, which is cleared when a pass begins (`PpCheck`, 549), `taken` stands for
`pkt_received # NULL`. The build of a device may fail and nobody looks at the result
(492): then `handle_node_message` returns without a reset (433, `PpUnknown`), and the
pointer stays on the frame; the history variable `dangling` tells this from a packet
that was handed over. Main is in `rcv_buf` while
`rpc` is not `"none"`. `pthread_cond_timedwait` has four outcomes: woken by the
worker (`PpHandle`), woken by nobody (`RpcSpurious`), timed out (`RpcTimeout`),
and `EINVAL` with the mutex held (`TimedWait`), which the code treats as a timeout
(`RpcRetry`, `RpcGiveUp`). `pkt_received_mutex` matters only where main holds it
from one step to the next (`PacketMutexFree`). The history variable `used` holds
the packets main took as answers after they were handed to it; a packet carries the request and the try it
answers, which the code cannot see (`Matching` compares particle and operation).
A request that stays in `air` is lost. What
particles send is modelled after `PRSSendSensorValues` (`pPart/XMLPRS/prs74.c`): a packet
with the operation asked for in answer to a request (`ParticleAnswers`), events, and
packets without an operation (`ParticleSends`). The radio and UDP lose and reorder
packets but do not duplicate them; particles know every operation. `late` is what `timeout < curtimemilli`
says of a device at the next reading of the clock. Requests use one operation,
and a packet of the operation service is well formed.

*Eventing.* `next` is `list.next` of `ws4d_list.h`: the list of a device is a
ring through the head in its subscription manager, for which the device itself
stands, and a subscription that has ended is linked to itself. `owner` says in
whose list a subscription is. Main adds one when it serves Subscribe
(`EvSubscribe`), ends one for Unsubscribe (`EvUnsubscribe`) and ends what has
expired when it sweeps (`EvExpire`). Times of expiration are left open:
`ws4d_subsm_regsubs` inserts by time, but Renew changes times without moving
anything, so a new subscription may come in anywhere, and which ones have expired
is open too. Renew, GetStatus, refused requests and requests for a node leave the
lists alone (`EvServed`). When the new subscription expires last,
`ws4d_subsm_regsubs` (169) compares its time with a pointer in the list's head,
and on most builds does not link it: `Register` has both outcomes. The worker
delivers an event in `dpws_for_each_subs`: `walk` is `"first"` and `"next"` while
it looks for the first and the next subscription to the action, one node of the
list per step (`EvSkip`), `"send"` while it sends to `cur` with `nxt` already
looked up, and `"over"` when there is no further one. A client that cannot be
reached has its subscription ended (`EvSendFailed`). The filter of a subscription
that has ended is freed memory: it may match or not. That the event was sent
(`EvSend`, `tried`) means that the loop has tried and gone on with the subscription
listed: failures after which the code only goes on with the loop
(`SensorValues_deliver_event.c:71-74`, `108-112`) count as sent. Memory for new subscriptions
is what the walk has no memory of (`Fresh`). `tried`, `owed` and `disturbed` are
history variables. Changes of a list are made under the lock of its manager, one
at a time, and are single steps; reading one pointer is one too. That the process
may crash on the freed filter is not modelled, nor are sockets of clients.

*MicroStrain.* A node and its device are one member of `Device`, because the
platform never unregisters a node. `gwMutex` is `gw_mutex`; main takes it in
`send_buf` with `proxy_mutex` held (`MsLock`), the worker around each pass of its
loop (`MsPass`), during which it may need `proxy_mutex` to list a device. `nstate`,
`gwState`, `cur` and `page` are `msdev->state`, `gw_state`, `gw_cur_device` and its
`session.page`. The serial line is a sequence of messages (`line`) and of answers
the base station still owes (`asked`). `Read` is `readMessage`: it drops messages
older than 30 seconds, puts what it reads into the queue if there is a free slot,
and may take a message for something else: a thread that waits for an answer takes
the first byte of a packet for the acknowledgement of the base station, the loop
takes the byte after an acknowledgement for a header, and since `VMIN` is 0 a read of several
bytes may return with less. What is left of such a message is `"junk"`, which may
be taken for any answer and, by the loop, for any packet in `Stray` (`Mistaken`). The loop
reads two bytes after an acknowledgement and may swallow short answers that way
(`AfterTwoBytes`). Left out are the pings nobody waits for (`MS_BSPING`, `MS_LONGPING`), which
only take a place in the queue, and that a page or value read out of junk may swallow the
messages behind it. Whoever waits takes the first message of the
right type, whoever it was for. Commands are exchanges: `section` is which one,
`want` the type of answer, `left` how many commands of this type are to come,
`phase` whether the command is to be written or its answer to be read
(`MsAsk` to `MsExchangeOver`). `mstep` is the position of main in `send_buf` and
`rcv_buf`, `wstep` that of the worker in its pass: registering a node that
announces itself (`MsKnown`, `MsNew`, `MsRegistered`), streaming (`MsLdc`), a page
of a download (`MsPage` to `MsGWIdle`), shutdown (`MsStopDevice`, `MsClose`).
`MsInit` is the state after the scan of addresses at the start, which may have
listed some nodes already.

*MsLogging.* `processLogging` without variables: a page is a sequence of bytes, a
channel mask a set of channels. `wrapped` holds the bytes of an unfinished sample
that are decoded again with the next page (`Replay`) before those of the page
(`ReadPage`); `Download` is the sequence of pages the worker asks for. The search for headers (`Headers`,
`Start`, `Ends`) and for the next channel (`NextChannel`) is that of the code, its
limits included. The three are recursive functions, not RECURSIVE operators, so that
they can be proved about. `HoldsSession` says of a memory that it has a session of `n`
samples: a header, the samples and behind them another header or memory never written,
in pages of even length, the header beginning at an even address and complete on the
first page (the node writes words), and no two bytes of the samples that look like a
header, the last byte together with the first one behind it included. `SessionDecoded`
says what a download of its `Pages` has to come to.

### Abstractions

Contents of messages, the build of a device (metadata, WSDL, activation) as
single step, HTTP and SOAP, and memory that leaks without consequence (the
service structure is never freed; a failed build leaks) are left out. Messages
that are not well-formed Hellos are `WNothing`; the code goes on to build an identifier
from the port it has not found (`IP:525`, `strcat` of NULL at `IP:503`) and may crash there,
which is not modelled, nor is a SIGPIPE from `send` to a node that has gone. SIGINT is taken once.
The soap listeners of the devices have no descriptors in the model. On
MicroStrain, the order of the list, by which `updateGWState` picks one of several
busy nodes, failed writes, checksums, and the conversions of rates and values are
left out, and during the shutdown main does not read `gw_state` in the middle of
`updateGWState`.

## Runs

| Run | Instance | Question | Result |
|---|---|---|---|
| `core` | 2 devices, 3 subscriptions (2 to the action), passes of one message | Do the two threads keep the list, the handles, the subscriptions and the shutdown in order? | holds |
| `ip_safety` | 2 devices, 2 nodes, 6 descriptors, `FD_SETSIZE` 5, SIGINT to either thread | Are descriptors, devices and clients ever confused, and how far does the double close reach? | holds |
| `ip_live` | 1 device, 2 nodes, 4 descriptors, SIGINT to main | Do lost nodes disappear, are Hellos answered, does SIGINT end the gateway? | holds |
| `ip_sigint` | 1 device, 1 node, SIGINT to either thread | as `ip_live`, `Termination` | violated: finding 1 |
| `ip_hello` | 1 device, 1 node whose Hello may be lost | Is every node found? | violated: finding 2 |
| `ip_sockets` | 2 devices, 2 nodes, 5 descriptors, SIGINT to main | Does main keep its client's connection? | violated: finding 3 |
| `ppart` | 2 devices, 1 particle, 3 requests, no retry, one packet at the socket, `EINVAL` and failed builds possible | Are packet, answer, proxy and mutexes kept in order between main and worker, also when `pkt_received` is left set? | holds |
| `ppart_live` | 1 device, 1 particle, 1 request, 1 retry, `EINVAL` and failed builds possible | Does every request end, and does SIGINT end the gateway? | holds |
| `ppart_retry` | 1 device, 2 retries | Does main wait before it resends? | violated: finding 4 |
| `ppart_events` | 1 device, 1 request | Is only an event delivered as one? | violated: finding 5 |
| `ms` | 2 nodes, queue of 2, 4 pages, all operations, messages may be stale | Do the states of nodes and gateway stay true, where do the threads block each other, are samples decoded? | holds |
| `ms_download` | as `ms`, downloads only | Is there one download at a time? | violated: finding 6 |

Bounds. `MaxWork` bounds a pass of the core; the IP platform's own bound is the
number of descriptors, so its configurations set it out of the way. In `core` two
devices let one be registered or torn down while the other is served, and three
subscriptions let one be sent to, one be looked up and one be ended or listed
between them; the proofs cover any number. Two nodes on
four descriptors leave the second node with one descriptor (`IpHelloHalf`); six
descriptors and a set of five reach a socket that is open and not watched. A client that
loses its connection occurs in `ip_safety`. A node on the number of this client
(`reused` is `"node"`) takes a third node - one that was lost, one whose device main serves, and
one that says Hello - and is beyond the run, in which `SocketsIdentifyDevices` and
`UnregistersKnownDevice` therefore hold without exception; the proofs have any number of nodes. With the one
device of `ip_live` no client is hit. Device
objects are reused after they are freed, so a bound on objects is not one on
registrations; nodes do not restart (a restarted process
is another node). On pPart, `MaxWork` is what a pass can need (one new device, one
delivery, each device expired); two device objects are what a particle with two
proxies takes; two requests let an answer come for the wrong one; one packet at
the socket is enough for a packet to be lost or to come at any moment, since
particles send again. `Retries` stands for ten. `Kinds` is what particles send
unasked, events and packets without an operation; `ppart_live` leaves the latter
out to keep the graph for liveness small. In all these runs
any build may fail (`PpNotBuilt`). With three requests a packet can be read early by one
request, through a pointer left set by a failed build, and be handed over to the next, the case
`AnswerUsedOnce` excepts. On MicroStrain two nodes are what a conflict
about the gateway takes; no property tells them apart, so they are symmetric. A
queue of two (the code's has ten) can be full and can hold an old answer beside the
new one; four pages (8192) are a first, a middle and a last one and the end of the
memory; `EepromReads` and `EepromWrites` stand for 44 and 3; `MaxLine` is what may
be unread on the line, `MaxCalls` and `MaxPackets` bound the operations and what
nodes send unasked. `Stray` is empty in the runs, which leaves junk
unrecognised; the proofs have any. `SessionsDecoded` tries masks of two to eight
channels, sessions of one to three samples and pages of 14 to 30 bytes, so that
samples and values are cut at every place; the values are numbers of their bytes, some
of them the 255 of which a header has two, and memories whose values hold a header
are left out.
`ms` sets `CHECK_DEADLOCK FALSE` because the two threads really do block each
other (`OnlyKnownDeadlocks`). `ip_safety` and `ip_sigint` set `CHECK_DEADLOCK FALSE`:
after finding 1 the gateway really stops.

### Properties

* `MainUsesOnlyLive`: what main has in hand is never torn down under it.
* `SoapSetFits`: the second walk over the list finds no more than the first.
* `NoLostWakeup`: main never sleeps while a device is listed or the worker has
  gone.
* `NoDeadlock`, `PpNoDeadlock`: with one mutex and a condition variable the two threads
  never wait for each other, except that main waits for the worker to list something
  or to end; with the pPart platform's second mutex and condition neither, although main takes
  them with `proxy_mutex` in hand.
* `NoOrphan`: every device object is listed or in the worker's hand; all are
  freed at the end.
* `RegistrySpec`: the list implements `DeviceRegistry`.
* `SocketsIdentifyDevices`, `ClientKeepsConnection`, `OnlyReusedIsLost`, `UnregistersKnownDevice`:
  descriptors lead where the device's address says, and the assertion in
  `remote_device_get_dpws_device` does not fail in the worker. The double close of an event
  socket breaks `ClientKeepsConnection` (finding 3); `OnlyReusedIsLost` says that it can hit
  no client but one accepted between the two closes, and `SocketsIdentifyDevices` that it
  confuses no device until a node gets the number of such a client.
  `UnregistersKnownDevice` holds in any case.
* `PacketStaysPut`: while main copies its answer, the packet stays in the worker's frame
  and behind `pkt_received`, although main may have looked at it before it was handed over.
* `AnswerUsedOnce`: no packet handed to main answers two requests. After a return that left
  `pkt_received` set, main can also read the next packet while the worker is still
  looking for its device; such a packet is then handed over as well and can
  answer a second request. The property excepts what was read that way
  (`dangling`); no document of the repository says that it cannot happen.
* `OneProxyPerParticle`, `CallKeepsProxy`: a particle that times out and returns
  never has two proxies; the device main waits for is not the one that times out.
* `RequestEnds`: main comes back from `rcv_buf`, and gives up `proxy_mutex`.
* `RetriesAreSpaced`, `OnlyEventsDelivered`: violated, see the findings.
* `EventOncePerDelivery`, `EventReachesAll`: a delivery sends the event to nobody
  twice and to everyone who had subscribed before it and is subscribed still, while
  main lists and ends subscriptions under it and the worker ends those it cannot
  reach.
* `EventSourceSpec`: the lists and the walks over them implement `EventSource`. Beyond the
  two properties above: a subscription still listed is sent only events of its own device
  that it asked for; a delivery loses one it owes the event to only by sending to it or by
  its end; lists change only by a subscription, an end, or the end of a device, and not
  that of the device whose event is delivered.
* `WalkKeepsItsPlace`: the worker's walk stays in the list unless main ends a
  subscription of this device (`disturbed`). In that case it may stand on a node that
  is linked to itself and never leave it.
* `EvTermination`: SIGINT ends both threads, except in that case. (Plain
  `Termination` is checked in `ip_live` and `ppart_live`, where deliveries are one
  step.)
* `StartsIdleNode` (of the node only; for the gateway see finding 6): main starts logging, streaming or a download only on a node that
  is idle then, although it read the state before it took `gw_mutex`.
* `BusyIsTrue`: the gateway calls itself busy only for a node that is.
* `DownloadHasNode`: a download has a listed node and a next page.
* `OnlyKnownDeadlocks`: neither thread can go on only if each waits for the mutex of
  the other, or the worker left its loop with `gw_mutex` held, or closes the line and
  waits for itself.
* `BlockedOnlyByLocks`: what the previous property calls blocked is just when a thread has
  no step.
* `SessionsDecoded`: however pages cut a session, its samples come out whole, once, in order
  and with their number; none is lost and none is made of what lies behind the session.
  It is stated for two channels or more and sessions of at least
  one sample: with one channel the code finds no end of a sample, and it does not
  see the end of an empty session. Nor is it stated for values that hold a header: the
  code takes any two bytes 255 for one, so that a session ends a byte early, and
  without its last sample, even when only its last byte is 255. No variable occurs in it
  (`Undecoded` are the sessions of `Tried` that come out wrong), so the run evaluates it
  where the program starts.
* `OneDownload`: violated, see the findings.
* `IInv`, `IpIInv`, `PpIInv`, `MsIInv`, `EvIInv`: the inductive invariants of the proofs.
* `LostNodeDiscarded`, `HelloAnswered`, `NodeDiscovered`, `Termination`:
  liveness.

### Fairness

Both threads are scheduled as long as they can run (`WF`). In the IP platform the
worker's steps are strongly fair: main gives `proxy_mutex` up and takes it again
in a loop, and `sched_yield` (`main.c:140`) is there for the other thread to get
it. A node that is up answers a request (unless it is silent); nodes start, send
and exit at will, without fairness. A pass
of the core ends because `work` falls and the pass may end at any time. On pPart
the worker is strongly fair for the same reason, and so is the timeout of a timed
wait: its deadline is absolute, so it passes however often main is woken before.
Particles, radio and clock are not fair at all. With subscriptions (`EvFairSpec`)
main and worker are weakly fair; that includes that a client the worker has
connected to takes the event, as gSOAP has no send timeout here. No liveness is
stated for MicroStrain, where the threads deadlock.

### Findings

1. `ip_sigint`: the comment at `IP:571` says the timeout of `select` is needed to
   shut the gateway down. If SIGINT arrives on the worker while it is in
   `select`, the call fails, the sets still hold all watched descriptors, and
   `recvfrom` on the discovery socket blocks: the gateway does not end until a
   datagram comes.
2. `ip_hello`: `dummynode.c:281` says "send further hello messages", but the Hello
   is sent once.
3. `ip_sockets`: the event socket is closed by `discovery_notify_unregister`
   (`IP:634`) and again by the loop (`IP:612`); main can have got the number for a
   client in between (`BetweenCloses`), and the second close takes this connection.
4. `ppart_retry`: the deadlines of `rcv_buf` (`platform/pPart/discover.c:349` and
   `375`) add 200 ms to the microseconds without a carry. In the last fifth of a
   second `tv_nsec` is out of range, `pthread_cond_timedwait` returns `EINVAL` at
   once, and since that is handled as a timeout all retries are sent back to back,
   although `PARTICLE_RETRY_TIMEOUT` (42) is the time to wait.
5. `ppart_events`: `handle_node_message` (414-437) wakes main for a packet and then
   looks, without the mutex, whether main has taken it. Main needs to be scheduled
   first, so the answer is delivered as an event too, as is every answer that comes
   too late. `SensorValues_deliver_event.c:97` asserts that the operations with
   answers are unreachable there; it is reached if a subscription names the action.
6. `ms_download`: a client is told "Gateway is busy. Please stop all other nodes
   first." (`VLink_DataLoggingService/src/DataLoggingServer.c:108`) while a node is
   downloading. `updateGWState` writes `GATEWAY_IDLE` first
   (`platform/microstrain/discover.c:1919`) and then looks for a busy node, and
   `send_buf` reads `gw_state` without `gw_mutex` (2084): when a known node is
   switched on during a download, a second one can begin in between and takes over
   `gw_cur_device`.

## Proofs

`GatewayCoreProofs` proves about `Spec` of `GatewayCore`, for every finite
`Device`, every `NoDevice` outside it and every natural `MaxWork`
(`DeviceAssumption`, `MaxWorkAssumption`):

* `InductiveInvariant`: `IInv` holds in every reachable state. `TypeOK` is not
  inductive on its own (`WAdd` lists whatever the worker has in hand), nor are
  the safety properties (that a device is not torn down under main depends on who
  holds the mutex). `IInv` adds who holds the mutex at which position (`Owner`),
  what the worker has in hand at which position (`InHand`, `Owned`), that listed
  devices are up, that main's handles are exactly the list while it holds them
  (`Snapshot`), and the order of the shutdown (`Closing`).
  One step of the proof per action; the worker's actions are split into those that
  change a device and those that do not.
* `TypeCorrect`, `MainSafe`, `SoapSetLargeEnough`, `WakeupsNotLost`,
  `ThreadsNotDeadlocked`, `NothingOrphaned` follow from it.
* `ImplementsRegistry`: each step is a step of `DeviceRegistry` or leaves the list
  and the snapshot alone. Listing and unlisting need `pinned = {}`, which the
  mutex gives.

`IpGatewayProofs` assumes `IpAssumption` and proves `IpImplementsCore`: `IpSpec => Spec`, for
any number of nodes and descriptors, hence `IpMainSafe` and `IpImplementsRegistry`, and
`IpInductiveInvariant`: `[]IpIInv`. That the descriptors lead to the right nodes is not
inductive: a listed device keeps its sockets because what the loop closes is the
socket of the device it discards and not a number that has been given out again, and
that depends on where the loop is. `IpIInv` says that descriptors are descriptors of
the table (`Addressed`), what the scan has in hand at which position
(`ScanPosition`), that a watched descriptor belongs to a listed device or to the
one being discarded (`Watched`) and, until a node was connected on the number of a lost client (`reused`), that the sockets of a
device are its own and no other's (`OwnSockets`), that between the two
closes of a socket its descriptor is free or has a client of main (`StaysClosed`), and that
what main will close is its client's or nothing (`ClientIsOwn`). Once a node has such a number,
main closes the socket of this node, and the three do not hold any more. `SocketsAreOwn` and
`OthersAreKept` (`OnlyReusedIsLost`) rest on them, `IpTypeCorrect` and `UnregistersKnown` do
not.

`PPartGatewayProofs` proves `PpImplementsCore`: `PpSpec => Spec` (and hence
`PpMainSafe`, `PpImplementsRegistry`) and, on top of the core's `IInv`,
`PpInductiveInvariant`: `[]PpIInv` for any number of devices, particles, requests,
retries and packets at the socket (`PPartAssumption`). `PpIInv` adds to the types
the position of the worker in its pass (`PassControl`), main in `rcv_buf` only
with a device it has looked up (`InCall`), that packets and listed devices belong
to particles (`Senders`), and that the device being listed is the one of the packet in hand, whose
particle has no other (`SenderKnown`). `PpTypeCorrect`,
`ParticleHasOneProxy`, `CallHasProxy` and `PpThreadsNotDeadlocked` follow. For
`AnswerUsedOnce` it says of every packet which request and which try it can answer
(`Stamped`), that an answer is at one place at a time: not yet given, at the socket, in the
worker's hand or used (`OnePlace`), and where in the pass `pkt_received` may be set
(`MatchStays`): a pointer that was left set shows, at the end of the pass, no answer of a
listed device, and at the beginning of the next an empty frame, so main finds its answer only
in a part of the pass that cannot end before it has released the mutex.
`PacketIsStable` and `AnswersUsedOnce` follow. Nothing is assumed of the builds.

`MicroStrainProofs` assumes `MsAssumption` and proves that each step of
`MsNext` is a step of the core or a stutter, given the parts of `MsIInv` that tie
`mstep` and `wstep` to `pcM` and `pcW`. `MsInit` may have nodes listed already, so
`MsSpec` does not imply `Spec`; instead the core's `IInv` and the parts of
`MsIInv` are shown inductive together (`MsInductiveInvariant`). The rest of `MsIInv` says
who holds `gw_mutex` where (`MsOwner`), whose exchange is going on (`MsExchange`),
that the node main works on can only become idle after its test (`StaysIdle`), and
at which steps `gw_state` may be out of date (`BusyUnlessUpdated`).
`StartsFindNodeIdle`, `GatewayBusyIsTrue`, `DownloadsStayInMemory`, `MsMainSafe` and
`DeadlocksAreKnown` follow, whatever messages arrive on the line and for whichever
answers and packets the rest of one is taken (`Stray` is any set of them). `StartsFindNodeIdle` is about the
node; that the gateway is free as well is what finding 6 refutes.
For the last one: a worker that waits for `proxy_mutex` has `gw_mutex`, and main has the
other; while main has `gw_mutex` it waits for nothing. `MsKeepsRegistry` says
that from whatever the scan has listed each step is one of `DeviceRegistry`.

`MsLoggingProofs` is about the decoder, for every mask of two or more channels (`Masks`).
Its main result is `SessionIsDecoded`: every download of a memory that holds a session
(`HoldsSession`) decodes it (`SessionDecoded`), wherever the session lies, however long
it is and however long the pages are. `SessionsAreDecoded` in `MicroStrainProofs` is the
property of the run.
It has two halves. The search for headers: `HeadersFound` and `PageCut` say that the
values of each page are the next bytes of the session, from behind the header on the
first page up to the header behind the session, `PageNumbers` and `SessionEnd` which page
this is; since addresses are even that page has both bytes of the header. And the
decoding: `DownloadTellsSamples` says of any sequence of pages, as the worker asks for
them (`Asked`), that the events tell consecutive samples, sample
`k` is made of the bytes `Width * (k - 1) + 1` to `Width * k` of the session, and what is
left over is less than a sample, so it fits into `wrappedval`. `PageSamplesFit`: a page
of 264 bytes completes at most the 132 samples there is room for. The induction
theorems of the library take an operator as parameter, so induction is done on sets of
numbers (`NatInduct`, `InductTo`, from the well-ordering of `Nat`), and that a recursive
function satisfies its equation is shown once for any next-state function (`Recursion`,
`RecursionTo`). The invariants of the recursions are `HasDecoded` (bytes), `HasRead`
(bytes and what is kept) and `HasDownloaded` (pages). The heart is `ReplayOfKept`:
decoding the kept bytes again leads to the decoder that kept them and completes no
sample.

`EventingProofs` assumes `SubscriptionAssumption` and proves `EvImplementsCore`:
`EvSpec => Spec`, hence `EvMainSafe` and `EvImplementsRegistry`, and
`EvInductiveInvariant`: `[]EvIInv`, that the lists are rings (`Rings`) and where the
worker is in its walk (`WalkControl`). That the walk meets everybody once needs the
order of the lists, about which `next` says something only from node to node. `OrderInv`
says that there are numbers for the nodes that grow along each list (`Ranks`), such
that those the walk has tried lie behind it (`Behind`) and those it owes the event
lie ahead (`Ahead`). A new subscription finds room between two numbers after all are
doubled; the end of one leaves the numbers as they are. `EvKeepsItsPlace`,
`EvSendsOnce` and `EvReachesAll` follow. `EvImplementsSource`: `EvSpec => EventSourceSpec`.
The mapping takes `owner` for the subscriptions, `tried` and `owed` for those told and
those still to be told, and `curW` for the device that delivers while a walk is on; the
pointers of the lists and of the walk have no counterpart. A search step is a stutter,
`EvSend` and `EvSendFailed` are `Send`, which needs `EventOncePerDelivery` and that whom
the walk has found asked for the event (`Asking`); the end of the walk is `Finish`, which
needs `EventReachesAll`.

Only model-checked: all liveness, because fairness and ENABLED are beyond the prover, and
`BlockedOnlyByLocks`, which is about ENABLED. The violated properties are TLC's alone.

## Not modelled

* uPart platform: its loop is the pass of `PPartGateway` without requests (a packet
  finds or registers a device and is delivered; late devices are unregistered). Its
  countdown counts passes instead of milliseconds, which the set `late` abstracts.
* Service cache: its calls in `proxy_handler.c` are commented out (116, 222), so it is
  empty.
* Sensor values and sensor configuration, Acceleration, DataLogging, DeviceInfo and VLink services:
  conversions and request handlers around `send_buf` and `rcv_buf`; rates, times and
  samples are contents of messages. A Config for a sensor that is on
  already writes through NULL in the simulated node
  (`dummynode_SSimp/src/sensorvalues_service.c:105`); for the gateway it is a node
  that leaves during an operation, which `DummyNode` has.
* The build of a device is one step: metadata, WSDL, HTTP and SOAP, and what a
  failure in the middle leaves behind in the library (`proxy_handler.c:178`).
* USB bridge and particle firmware: interrupt timing and hardware registers decide what
  they do. Of the particle's application only what it sends is modelled, as the environment
  of `PPartGateway`.
* minIni, generated code, vendored gSOAP, the discovery client: not the program's own
  logic, or input and output only.

## Plan

`UPart`, with the arithmetic of its timeouts; `DeviceBuild`, the failure paths of
`init_device_structure`; `SensorConfig` of the simulated node.
