---------------------------- MODULE GatewayCore ----------------------------
(***************************************************************************)
(* The two threads of the gateway process and the list of proxy devices    *)
(* they share (gateway/src/main.c, proxy_handler.c, proxy_structures.c,    *)
(* mutex_handling.c).                                                      *)
(*                                                                         *)
(*  main    serves the web-service clients: it waits until the list is not *)
(*          empty, collects the handles of all listed devices, selects on  *)
(*          them, serves one request, and then looks for expired           *)
(*          subscriptions.  All of that happens under proxy_mutex.         *)
(*  worker  is the discovery thread of the platform: it builds and lists   *)
(*          devices, delivers their events, tears lost devices down, and   *)
(*          clears the list when the gateway shuts down.                   *)
(*                                                                         *)
(* A member of Device stands for the memory of one remote_device together  *)
(* with its dpws_device.  A freed one can be allocated again.  The failure *)
(* paths of init_device_structure and the soap service nobody ever frees   *)
(* lose memory no thread can reach any more; that memory is not modelled.  *)
(***************************************************************************)
EXTENDS Naturals, FiniteSets

CONSTANTS Device,    \* memory for the device objects
          NoDevice,  \* the NULL pointer
          MaxWork    \* bound on the messages of one pass (fd_max + 1 sockets)

ASSUME DeviceAssumption == IsFiniteSet(Device) /\ NoDevice \notin Device
ASSUME MaxWorkAssumption == MaxWork \in Nat

VARIABLES
  running,  \* !shutdownFlag_discovery
  mutex,    \* who holds proxy_mutex: "none", "main" or "worker"
  listed,   \* devices linked into the list at head
  mem,      \* life of the memory of each device object
  pcM,      \* where the main thread is
  slots,    \* devices counted when soap_set was allocated
  pinned,   \* devices whose handles the main thread has in hand
  lastRem,  \* last_rem_dev: the device the last request was sent to
  pcW,      \* where the worker is
  curW,     \* the device the worker is working on
  work,     \* bound on the messages left in this pass of the worker's loop
  closing   \* the worker has left its loop and clears the list

mainVars   == << pcM, slots, pinned, lastRem >>
workerVars == << pcW, curW, work, closing >>
vars       == << running, mutex, listed, mem, mainVars, workerVars >>

MainPC == { "loop", "lock", "test", "waiting", "woken", "count", "collect",
            "select", "serve", "await", "unlock", "sweep_lock", "sweep",
            "sweep_unlock", "join", "done" }
WorkerPC == { "loop", "select", "scan", "add_lock", "add", "add_unlock", "deliver",
              "notify", "del_lock", "del", "del_unlock", "deactivate", "free",
              "cleanup", "bcast_lock", "bcast", "bcast_unlock", "done" }
Memory == { "unalloc", "up", "down" }

TypeOK ==
  /\ running \in BOOLEAN
  /\ mutex \in { "none", "main", "worker" }
  /\ listed \in SUBSET Device
  /\ mem \in [Device -> Memory]
  /\ pcM \in MainPC
  /\ slots \in Nat
  /\ pinned \in SUBSET Device
  /\ lastRem \in Device \cup { NoDevice }
  /\ pcW \in WorkerPC
  /\ curW \in Device \cup { NoDevice }
  /\ work \in 0 .. MaxWork
  /\ closing \in BOOLEAN

(* main starts the worker before its own loop; nothing is listed yet. *)
Init ==
  /\ running = TRUE
  /\ mutex = "none"
  /\ listed = {}
  /\ mem = [d \in Device |-> "unalloc"]
  /\ pcM = "loop"
  /\ slots = 0
  /\ pinned = {}
  /\ lastRem = NoDevice
  /\ pcW = "loop"
  /\ curW = NoDevice
  /\ work = 0
  /\ closing = FALSE

-----------------------------------------------------------------------------
(* Steps both threads are made of.                                         *)

MainAt(from, to)   == pcM = from /\ pcM' = to
WorkerAt(from, to) == pcW = from /\ pcW' = to

Acquire(thread) == mutex = "none" /\ mutex' = thread
Release         == mutex' = "none"

(* pthread_cond_broadcast: a main thread in gateway_wait is woken; it still *)
(* has to get the mutex back before it goes on.                            *)
Broadcast == pcM' = IF pcM = "waiting" THEN "woken" ELSE pcM

-----------------------------------------------------------------------------
(* The main thread.                                                        *)

(* while (gateway_running()) *)
MLoop ==
  /\ pcM = "loop"
  /\ pcM' = IF running THEN "lock" ELSE "join"
  /\ UNCHANGED << running, mutex, listed, mem, slots, pinned, lastRem, workerVars >>

MLock ==
  /\ MainAt("lock", "test")
  /\ Acquire("main")
  /\ UNCHANGED << running, listed, mem, slots, pinned, lastRem, workerVars >>

(* while (device_proxy_list_empty() && gateway_running()) gateway_wait();   *)
(* pthread_cond_wait gives the mutex up in the same step.                  *)
MWait ==
  /\ listed = {} /\ running
  /\ MainAt("test", "waiting")
  /\ Release
  /\ UNCHANGED << running, listed, mem, slots, pinned, lastRem, workerVars >>

MGoOn ==
  /\ ~ (listed = {} /\ running)
  /\ MainAt("test", "count")
  /\ UNCHANGED << running, mutex, listed, mem, slots, pinned, lastRem, workerVars >>

(* POSIX lets pthread_cond_wait return without a broadcast. *)
MSpuriousWakeup ==
  /\ MainAt("waiting", "woken")
  /\ UNCHANGED << running, mutex, listed, mem, slots, pinned, lastRem, workerVars >>

MReacquire ==
  /\ MainAt("woken", "test")
  /\ Acquire("main")
  /\ UNCHANGED << running, listed, mem, slots, pinned, lastRem, workerVars >>

(* proxy_structures_maccept: count the devices, allocate that many slots... *)
MCount ==
  /\ MainAt("count", "collect")
  /\ slots' = Cardinality(listed)
  /\ UNCHANGED << running, mutex, listed, mem, pinned, lastRem, workerVars >>

MCollect_ReadsPastEnd ==
  /\ MainAt("collect", "select")
  /\ pinned' = listed \cup { NoDevice }
  /\ UNCHANGED << running, mutex, listed, mem, slots, lastRem, workerVars >>

(* ... and fill them by walking the list a second time. *)
MCollect ==
  /\ MainAt("collect", "select")
  /\ pinned' = listed
  /\ UNCHANGED << running, mutex, listed, mem, slots, lastRem, workerVars >>

(* select times out after one second and no handle comes back; soap_set is *)
(* freed.                                                                  *)
MTimeout ==
  /\ MainAt("select", "unlock")
  /\ slots' = 0
  /\ pinned' = {}
  /\ UNCHANGED << running, mutex, listed, mem, lastRem, workerVars >>

(* The handle of some device is readable: accept, free soap_set, and go to *)
(* dpws_mserve.                                                            *)
MAccept ==
  /\ MainAt("select", "serve")
  /\ pinned # {}
  /\ slots' = 0
  /\ UNCHANGED << running, mutex, listed, mem, pinned, lastRem, workerVars >>

(* send_buf looks the addressed device up in the list and remembers it for *)
(* rcv_buf; there may be none.                                             *)
MSend ==
  /\ MainAt("serve", "await")
  /\ lastRem' \in listed \cup { NoDevice }
  /\ UNCHANGED << running, mutex, listed, mem, slots, pinned, workerVars >>

(* rcv_buf returns, or the request needed no node; soap_end(handle). *)
MServed ==
  /\ pcM \in { "serve", "await" }
  /\ pcM' = "unlock"
  /\ pinned' = {}
  /\ UNCHANGED << running, mutex, listed, mem, slots, lastRem, workerVars >>

MUnlock ==
  /\ MainAt("unlock", "sweep_lock")
  /\ Release
  /\ UNCHANGED << running, listed, mem, slots, pinned, lastRem, workerVars >>

(* device_proxy_list_check_subscriptions: dpws_check_subscriptions on every *)
(* listed device under the mutex.                                          *)
MSweepLock ==
  /\ MainAt("sweep_lock", "sweep")
  /\ Acquire("main")
  /\ UNCHANGED << running, listed, mem, slots, pinned, lastRem, workerVars >>

MSweep ==
  /\ MainAt("sweep", "sweep_unlock")
  /\ pinned' = listed
  /\ UNCHANGED << running, mutex, listed, mem, slots, lastRem, workerVars >>

MSweepUnlock ==
  /\ MainAt("sweep_unlock", "loop")
  /\ pinned' = {}
  /\ Release
  /\ UNCHANGED << running, listed, mem, slots, lastRem, workerVars >>

(* discovery_worker_wait joins the worker, then the process ends. *)
MJoin ==
  /\ MainAt("join", "done")
  /\ pcW = "done"
  /\ UNCHANGED << running, mutex, listed, mem, slots, pinned, lastRem, workerVars >>

Main ==
  \/ MLoop \/ MLock \/ MWait \/ MGoOn \/ MReacquire \/ MCount \/ MCollect
  \/ MTimeout \/ MAccept \/ MSend \/ MServed \/ MUnlock
  \/ MSweepLock \/ MSweep \/ MSweepUnlock \/ MJoin

-----------------------------------------------------------------------------
(* The discovery worker.                                                   *)

(* while (!shutdownFlag_discovery) *)
WCheck ==
  /\ WorkerAt("loop", "select")
  /\ running
  /\ UNCHANGED << running, mutex, listed, mem, mainVars, curW, work, closing >>

(* select reports what there is to look after in this pass; work bounds it. *)
WSelect ==
  /\ WorkerAt("select", "scan")
  /\ work' \in 0 .. MaxWork
  /\ UNCHANGED << running, mutex, listed, mem, mainVars, curW, closing >>

(* Once the flag is seen, the loop is left for good. *)
WStop ==
  /\ WorkerAt("loop", "cleanup")
  /\ ~ running
  /\ closing' = TRUE
  /\ UNCHANGED << running, mutex, listed, mem, mainVars, curW, work >>

(* The pass ends; the platform knows when.                                 *)
WScanned ==
  /\ WorkerAt("scan", "loop")
  /\ work' = 0
  /\ UNCHANGED << running, mutex, listed, mem, mainVars, curW, closing >>

(* A node announced itself: dpws_device_build_and_register allocates and   *)
(* activates the device before anybody can see it.                         *)
WBuild(d) ==
  /\ WorkerAt("scan", "add_lock")
  /\ work > 0 /\ work' = work - 1
  /\ mem[d] = "unalloc"
  /\ mem' = [mem EXCEPT ![d] = "up"]
  /\ curW' = d
  /\ UNCHANGED << running, mutex, listed, mainVars, closing >>

(* A message nothing comes of: an ill-formed Hello, a failed connection or  *)
(* a device init_device_structure could not build.                         *)
WNothing ==
  /\ pcW = "scan"
  /\ work > 0 /\ work' = work - 1
  /\ UNCHANGED << running, mutex, listed, mem, mainVars, pcW, curW, closing >>

WAddLock_Forgotten ==
  /\ WorkerAt("add_lock", "add")
  /\ UNCHANGED << running, mutex, listed, mem, mainVars, curW, work, closing >>

(* device_proxy_list_add_device *)
WAddLock ==
  /\ WorkerAt("add_lock", "add")
  /\ Acquire("worker")
  /\ UNCHANGED << running, listed, mem, mainVars, curW, work, closing >>

WAdd_NoBroadcast ==
  /\ WorkerAt("add", "add_unlock")
  /\ listed' = listed \cup { curW }
  /\ UNCHANGED << running, mutex, mem, mainVars, curW, work, closing >>

WAdd ==
  /\ WorkerAt("add", "add_unlock")
  /\ listed' = listed \cup { curW }
  /\ Broadcast
  /\ UNCHANGED << running, mutex, mem, slots, pinned, lastRem, curW, work, closing >>

WAddUnlock ==
  /\ WorkerAt("add_unlock", "scan")
  /\ Release
  /\ curW' = NoDevice
  /\ UNCHANGED << running, listed, mem, mainVars, work, closing >>

(* handle_node_message finds the sender in the list, without the mutex. *)
WMessage(d) ==
  /\ WorkerAt("scan", "deliver")
  /\ work > 0 /\ work' = work - 1
  /\ d \in listed
  /\ curW' = d
  /\ UNCHANGED << running, mutex, listed, mem, mainVars, closing >>

(* deliver_event, still without the mutex. *)
WDelivered ==
  /\ WorkerAt("deliver", "scan")
  /\ curW' = NoDevice
  /\ UNCHANGED << running, mutex, listed, mem, mainVars, work, closing >>

(* The connection is gone: dpws_device_unregister(rem_device). *)
WLost ==
  /\ WorkerAt("deliver", "notify")
  /\ UNCHANGED << running, mutex, listed, mem, mainVars, curW, work, closing >>

(* discovery_notify_unregister: the platform gives up its connection. *)
WNotify ==
  /\ WorkerAt("notify", "del_lock")
  /\ UNCHANGED << running, mutex, listed, mem, mainVars, curW, work, closing >>

WDelLock_Forgotten ==
  /\ WorkerAt("del_lock", "del")
  /\ UNCHANGED << running, mutex, listed, mem, mainVars, curW, work, closing >>

(* device_proxy_list_del_device; the broadcast in it is commented out. *)
WDelLock ==
  /\ WorkerAt("del_lock", "del")
  /\ Acquire("worker")
  /\ UNCHANGED << running, listed, mem, mainVars, curW, work, closing >>

WDel_TearsDownListed ==
  /\ WorkerAt("del", "del_unlock")
  /\ mem' = [mem EXCEPT ![curW] = "down"]
  /\ UNCHANGED << running, mutex, listed, mainVars, curW, work, closing >>

WDel ==
  /\ WorkerAt("del", "del_unlock")
  /\ listed' = listed \ { curW }
  /\ UNCHANGED << running, mutex, mem, mainVars, curW, work, closing >>

WDelUnlock ==
  /\ WorkerAt("del_unlock", "deactivate")
  /\ Release
  /\ UNCHANGED << running, listed, mem, mainVars, curW, work, closing >>

(* dpws_deactivate_hosting_service, soap_free(hosting_handle) and          *)
(* dpws_device_proxy_done: the handles are no longer valid.                *)
WDeactivate ==
  /\ WorkerAt("deactivate", "free")
  /\ mem' = [mem EXCEPT ![curW] = "down"]
  /\ UNCHANGED << running, mutex, listed, mainVars, curW, work, closing >>

WFree_OnlyWhenRunning ==
  /\ pcW = "free"
  /\ pcW' = IF closing THEN "cleanup" ELSE "scan"
  /\ mem' = [mem EXCEPT ![curW] = IF running THEN "unalloc" ELSE @]
  /\ curW' = NoDevice
  /\ UNCHANGED << running, mutex, listed, mainVars, work, closing >>

(* device_proxy_item_free; back to the loop that called unregister. *)
WFree ==
  /\ pcW = "free"
  /\ pcW' = IF closing THEN "cleanup" ELSE "scan"
  /\ mem' = [mem EXCEPT ![curW] = "unalloc"]
  /\ curW' = NoDevice
  /\ UNCHANGED << running, mutex, listed, mainVars, work, closing >>

(* device_proxy_list_cleanup: unregister every device in the list ... *)
WCleanup(d) ==
  /\ WorkerAt("cleanup", "notify")
  /\ d \in listed
  /\ curW' = d
  /\ UNCHANGED << running, mutex, listed, mem, mainVars, work, closing >>

WCleaned ==
  /\ WorkerAt("cleanup", "bcast_lock")
  /\ listed = {}
  /\ UNCHANGED << running, mutex, listed, mem, mainVars, curW, work, closing >>

(* ... and wake a main thread that waits for a device to appear. *)
WBcastLock ==
  /\ WorkerAt("bcast_lock", "bcast")
  /\ Acquire("worker")
  /\ UNCHANGED << running, listed, mem, mainVars, curW, work, closing >>

WBcast_Skipped ==
  /\ WorkerAt("bcast", "bcast_unlock")
  /\ UNCHANGED << running, mutex, listed, mem, mainVars, curW, work, closing >>

WBcast ==
  /\ WorkerAt("bcast", "bcast_unlock")
  /\ Broadcast
  /\ UNCHANGED << running, mutex, listed, mem, slots, pinned, lastRem, curW, work, closing >>

WBcastUnlock ==
  /\ WorkerAt("bcast_unlock", "done")
  /\ Release
  /\ UNCHANGED << running, listed, mem, mainVars, curW, work, closing >>

Worker ==
  \/ WCheck \/ WSelect \/ WStop \/ WScanned \/ WNothing
  \/ \E d \in Device : WBuild(d) \/ WMessage(d) \/ WCleanup(d)
  \/ WAddLock \/ WAdd \/ WAddUnlock
  \/ WDelivered \/ WLost
  \/ WNotify \/ WDelLock \/ WDel \/ WDelUnlock \/ WDeactivate \/ WFree
  \/ WCleaned \/ WBcastLock \/ WBcast \/ WBcastUnlock

(* SIGINT, on either thread: service_exit sets the flag without the mutex. *)
Sigint ==
  /\ running
  /\ running' = FALSE
  /\ UNCHANGED << mutex, listed, mem, mainVars, workerVars >>

(* Both threads have ended. *)
Terminated == pcM = "done" /\ pcW = "done" /\ UNCHANGED vars

Next == Main \/ MSpuriousWakeup \/ Worker \/ Sigint \/ Terminated

Spec == Init /\ [][Next]_vars

(* Each thread keeps running as long as it can take a step; a mutex that    *)
(* stays free is got in the end.  The platform's rcv_buf returns.           *)
FairSpec == Spec /\ WF_vars(Main) /\ WF_vars(Worker)

-----------------------------------------------------------------------------
(* What the mutex and the order of the teardown have to ensure.            *)

(* Whatever the main thread has in hand - the handles it selects on, the   *)
(* device it awaits an answer of, the devices whose subscriptions it       *)
(* checks - is a device the worker has not begun to tear down.             *)
MainUsesOnlyLive ==
  /\ \A d \in pinned : mem[d] = "up"
  /\ pcM = "await" /\ lastRem # NoDevice => mem[lastRem] = "up"

(* soap_set is filled by a second walk over the list: the walk must not    *)
(* find more devices than the first one counted.                           *)
SoapSetFits ==
  pcM = "select" => Cardinality(pinned) <= slots

(* A main thread that waits on the condition variable is never forgotten:  *)
(* while a device is listed, or when the worker has gone, nobody would     *)
(* broadcast any more.                                                     *)
NoLostWakeup ==
  pcM = "waiting" => listed = {} /\ pcW \notin { "bcast_unlock", "done" }

(* Memory of a device is in the list or in the worker's hand; when the     *)
(* worker has ended nothing is left.                                       *)
NoOrphan ==
  /\ \A d \in Device : mem[d] # "unalloc" => d \in listed \/ d = curW
  /\ pcW = "done" => \A d \in Device : mem[d] = "unalloc"

(* A thread waits for the mutex, or main for the worker; then the other one *)
(* has not ended and does not wait itself.                                 *)
MainWaits ==
  \/ mutex # "none" /\ pcM \in { "lock", "woken", "sweep_lock" }
  \/ pcM = "waiting"
  \/ pcM = "join" /\ pcW # "done"

WorkerWaits == mutex # "none" /\ pcW \in { "add_lock", "del_lock", "bcast_lock" }

NoDeadlock ==
  /\ MainWaits => ~ WorkerWaits /\ pcW # "done"
  /\ WorkerWaits => pcM # "done"

-----------------------------------------------------------------------------
(* Why: the invariant that is inductive.  Each part says what one of the    *)
(* program counters promises about the shared state.                       *)

MainHoldsMutex   == { "test", "count", "collect", "select", "serve", "await",
                      "unlock", "sweep", "sweep_unlock" }
WorkerHoldsMutex == { "add", "add_unlock", "del", "del_unlock", "bcast", "bcast_unlock" }
MainHasSnapshot  == { "select", "serve", "await", "sweep_unlock" }

Owner ==
  /\ mutex = "main" <=> pcM \in MainHoldsMutex
  /\ mutex = "worker" <=> pcW \in WorkerHoldsMutex

(* The life of a device as the worker's position tells it. *)
InHand ==
  /\ pcW \in { "add_lock", "add", "del_unlock", "deactivate" } =>
       curW \in Device \ listed /\ mem[curW] = "up"
  /\ pcW \in { "add_unlock", "deliver", "notify", "del_lock", "del" } => curW \in listed
  /\ pcW = "free" => curW \in Device \ listed /\ mem[curW] = "down"
  /\ pcW \in { "loop", "select", "scan", "cleanup",
               "bcast_lock", "bcast", "bcast_unlock", "done" } => curW = NoDevice

ListedAreUp == \A d \in listed : mem[d] = "up"

Owned == \A d \in Device : mem[d] # "unalloc" => d \in listed \/ d = curW

Snapshot ==
  /\ pinned = IF pcM \in MainHasSnapshot THEN listed ELSE {}
  /\ pcM \in { "collect", "select" } => slots = Cardinality(listed)
  /\ pcM = "await" => lastRem \in listed \cup { NoDevice }

Closing ==
  /\ closing => ~ running
  /\ pcW \in { "cleanup", "bcast_lock", "bcast", "bcast_unlock", "done" } => closing
  /\ pcW \in { "bcast_lock", "bcast", "bcast_unlock", "done" } => listed = {}
  /\ pcW \in { "loop", "select", "scan", "add_lock", "add", "add_unlock", "deliver" } =>
       ~ closing

(* The conjunction is preserved by every step of either thread: the mutex   *)
(* of mutex_handling.c is held by at most one of them, and nobody works on  *)
(* a device another one is about to free.                                  *)
IInv ==
  /\ TypeOK /\ Owner /\ InHand /\ ListedAreUp /\ Owned /\ Snapshot /\ Closing
  /\ NoLostWakeup

(* The threads implement the registry: the list never changes under the    *)
(* main thread's snapshot of it.                                           *)
Registry == INSTANCE DeviceRegistry WITH registered <- listed
RegistrySpec == Registry!Spec

(* After SIGINT both threads come to an end. *)
Termination == ~ running ~> (pcM = "done" /\ pcW = "done")
=============================================================================
