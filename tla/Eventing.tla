------------------------------ MODULE Eventing ------------------------------
(***************************************************************************)
(* The gateway with the subscriptions of its devices (contrib/ws4d-gsoap/  *)
(* src/libdpws, and the deliver_event functions of the services).          *)
(*                                                                         *)
(*  main    lists a subscription when a client subscribes, ends one when a *)
(*          client unsubscribes, and ends those that have expired when it  *)
(*          sweeps the list of devices.                                    *)
(*  worker  walks over the subscriptions of a device to deliver an event,  *)
(*          and ends those it cannot deliver it to.                        *)
(*                                                                         *)
(* Changes of a list are made under the lock of its manager, one at a time;*)
(* the walk takes no lock at all.  A subscription that has ended keeps its *)
(* memory and is linked to itself.                                         *)
(***************************************************************************)
EXTENDS GatewayCore

CONSTANTS Subscription,    \* memory for the subscriptions
          NoSubscription,  \* the NULL pointer
          Interested       \* those that ask for the event that is delivered

ASSUME SubscriptionAssumption ==
  /\ Subscription \cap (Device \cup { NoDevice }) = {}
  /\ NoSubscription \notin Subscription \cup Device
  /\ Interested \subseteq Subscription

VARIABLES
  next,      \* list.next of each subscription and of each device's subs_list
  owner,     \* the device in whose list a subscription is
  walk,      \* where the worker is in dpws_for_each_subs
  at,        \* res: the node of the list the search has come to
  cur,       \* subs: the subscription the event is sent to
  nxt,       \* next: the one after it
  tried,     \* history: whom the event was sent to
  owed,      \* history: who was there when the walk began and is still owed the event
  disturbed  \* history: main ended a subscription of the device during the walk

listVars == << next, owner >>
walkVars == << walk, at, cur, nxt, tried, owed, disturbed >>
evVars   == << vars, listVars, walkVars >>

Node == Device \cup Subscription

EvTypeOK ==
  /\ next \in [Node -> Node]
  /\ owner \in [Subscription -> Device \cup { NoDevice }]
  /\ walk \in { "none", "first", "next", "send", "over" }
  /\ at \in Node \cup { NoDevice }
  /\ { cur, nxt } \subseteq Subscription \cup { NoSubscription }
  /\ tried \in SUBSET Subscription
  /\ owed \in SUBSET Interested
  /\ disturbed \in BOOLEAN

EvInit ==
  /\ Init
  /\ next = [n \in Node |-> n]
  /\ owner = [s \in Subscription |-> NoDevice]
  /\ walk = "none" /\ at = NoDevice /\ cur = NoSubscription /\ nxt = NoSubscription
  /\ tried = {} /\ owed = {} /\ disturbed = FALSE

-----------------------------------------------------------------------------
(* The list of a device (ws4d_list.h): a ring through its head.             *)

Listed(s)   == owner[s] # NoDevice
ListOf(d)   == { s \in Subscription : owner[s] = d }

(* The memory of a subscription is not used again while the device is up;   *)
(* here it may be as soon as the walk has no memory of it.                  *)
Fresh == { s \in Subscription : ~ Listed(s) } \ ({ at, cur, nxt } \cup tried)

Link(s, d, before) ==
  /\ next' = [next EXCEPT ![before] = s, ![s] = next[before]]
  /\ owner' = [owner EXCEPT ![s] = d]

Unlink_KeepsPrevious(s) ==
  /\ next' = [next EXCEPT ![s] = s]
  /\ owner' = [owner EXCEPT ![s] = NoDevice]

Unlink(s) ==
  /\ next' = [n \in Node |-> IF n = s THEN s ELSE IF next[n] = s THEN next[s] ELSE next[n]]
  /\ owner' = [owner EXCEPT ![s] = NoDevice]

-----------------------------------------------------------------------------
(* Main: requests to the event source and to the subscription manager.     *)

(* ws4d_subsm_regsubs.  The list is ordered by the time of expiration, but  *)
(* not any more once a subscription was renewed, so the new one may come in *)
(* anywhere.  When it expires last, the code compares its time with a field *)
(* of the list's head, which is a pointer, and depending on the value of    *)
(* the pointer does not link it at all.                                     *)
Register(s, d) ==
  \/ \E before \in { d } \cup ListOf(d) : Link(s, d, before)
  \/ ListOf(d) # {} /\ UNCHANGED listVars

(* Subscribe, for a device whose handle main has.                           *)
EvSubscribe(d) ==
  /\ pcM = "serve" /\ d \in pinned
  /\ MServed
  /\ \E s \in Fresh : Register(s, d)
  /\ UNCHANGED walkVars

(* What main's ending of a subscription means for the worker's walk.        *)
Disturb(s) ==
  /\ owed' = owed \ { s }
  /\ disturbed' = (disturbed \/ (walk # "none" /\ owner[s] = curW))
  /\ UNCHANGED << walk, at, cur, nxt, tried >>

EvUnsubscribe(s) ==
  /\ pcM = "serve" /\ owner[s] \in pinned
  /\ MServed
  /\ Unlink(s)
  /\ Disturb(s)

(* ws4d_subsm_check_allsubs, on every device of the sweep: which ones have  *)
(* expired by now is left open.                                             *)
EvExpire(s) ==
  /\ pcM = "sweep_unlock" /\ owner[s] \in pinned
  /\ Unlink(s)
  /\ Disturb(s)
  /\ UNCHANGED vars

(* Any other request, also GetStatus and Renew, which changes nothing but   *)
(* the time, one that is refused, and one for a node.                       *)
EvServed == MServed /\ UNCHANGED << listVars, walkVars >>

EvMainElse ==
  /\ \/ MLoop \/ MLock \/ MWait \/ MGoOn \/ MReacquire \/ MCount \/ MCollect
     \/ MTimeout \/ MAccept \/ MSend \/ MUnlock
     \/ MSweepLock \/ MSweep \/ MSweepUnlock \/ MJoin
  /\ UNCHANGED << listVars, walkVars >>

EvMain ==
  \/ EvServed \/ EvMainElse
  \/ \E d \in Device : EvSubscribe(d)
  \/ \E s \in Subscription : EvUnsubscribe(s) \/ EvExpire(s)

-----------------------------------------------------------------------------
(* The worker: dpws_for_each_subs.                                          *)

Head(s)    == IF s = NoSubscription THEN curW ELSE s

EvBegin_PastFirst ==
  /\ pcW = "deliver" /\ walk = "none"
  /\ walk' = "first"
  /\ at' = next[curW]
  /\ tried' = {} /\ owed' = ListOf(curW) \cap Interested /\ disturbed' = FALSE
  /\ UNCHANGED << vars, listVars, cur, nxt >>

(* The message of the node is an event of one of its services.              *)
EvBegin ==
  /\ pcW = "deliver" /\ walk = "none"
  /\ walk' = "first"
  /\ at' = curW
  /\ tried' = {} /\ owed' = ListOf(curW) \cap Interested /\ disturbed' = FALSE
  /\ UNCHANGED << vars, listVars, cur, nxt >>

(* dpws_subsm_get_nextelem_by_action, one node of the list at a time.  It   *)
(* comes back to the head, finds a subscription, or goes on.  The filter of *)
(* a subscription that has ended is freed memory: it may match or not.      *)
Finds_Unfiltered(s) ==
  \/ next[at] = curW /\ s = NoSubscription
  \/ next[at] = s /\ s \in Subscription

Finds(s) ==
  \/ next[at] = curW /\ s = NoSubscription
  \/ next[at] = s /\ s \in Subscription /\ (s \in Interested \/ ~ Listed(s))

GoesOn == next[at] \in Subscription /\ (next[at] \notin Interested \/ ~ Listed(next[at]))

EvSkip ==
  /\ walk \in { "first", "next" }
  /\ GoesOn
  /\ at' = next[at]
  /\ UNCHANGED << vars, listVars, walk, cur, nxt, tried, owed, disturbed >>

(* The first one; the search for the next one begins there - or at the head *)
(* once more, if there is none.                                             *)
EvFirst(s) ==
  /\ walk = "first" /\ Finds(s)
  /\ cur' = s
  /\ walk' = "next"
  /\ at' = Head(s)
  /\ UNCHANGED << vars, listVars, nxt, tried, owed, disturbed >>

EvNextOne(s) ==
  /\ walk = "next" /\ Finds(s)
  /\ nxt' = IF cur = NoSubscription THEN NoSubscription ELSE s
  /\ walk' = IF cur = NoSubscription THEN "over" ELSE "send"
  /\ at' = NoDevice
  /\ UNCHANGED << vars, listVars, cur, tried, owed, disturbed >>

Advance_FromSame ==
  /\ walk' = "next"
  /\ cur' = nxt
  /\ nxt' = NoSubscription
  /\ at' = cur
  /\ tried' = tried \cup { cur }
  /\ owed' = owed \ { cur }
  /\ UNCHANGED << vars, disturbed >>

Advance_FromStart ==
  /\ walk' = "next"
  /\ cur' = nxt
  /\ nxt' = NoSubscription
  /\ at' = curW
  /\ tried' = tried \cup { cur }
  /\ owed' = owed \ { cur }
  /\ UNCHANGED << vars, disturbed >>

Advance ==
  /\ walk' = "next"
  /\ cur' = nxt
  /\ nxt' = NoSubscription
  /\ at' = Head(nxt)
  /\ tried' = tried \cup { cur }
  /\ owed' = owed \ { cur }
  /\ UNCHANGED << vars, disturbed >>

(* The loop has tried to send the event and leaves the subscription listed, *)
(* whether the client got it or a failure only made the loop go on.        *)
EvSend ==
  /\ walk = "send"
  /\ Advance
  /\ UNCHANGED listVars

(* The client cannot be reached: dpws_end_subscription.  Main may have ended *)
(* the subscription before.                                                 *)
EvSendFailed ==
  /\ walk = "send"
  /\ Advance
  /\ IF Listed(cur) THEN Unlink(cur) ELSE UNCHANGED listVars

EvDelivered ==
  /\ walk \in { "none", "over" }
  /\ WDelivered
  /\ walk' = "none" /\ tried' = {} /\ owed' = {} /\ disturbed' = FALSE
  /\ UNCHANGED << listVars, at, cur, nxt >>

EvLost ==
  /\ walk = "none"
  /\ WLost
  /\ UNCHANGED << listVars, walkVars >>

(* The handle of the device goes, and with it its subscription manager.     *)
EvDeactivate ==
  /\ WDeactivate
  /\ next' = [n \in Node |-> IF n \in ListOf(curW) \cup { curW } THEN n ELSE next[n]]
  /\ owner' = [s \in Subscription |-> IF s \in ListOf(curW) THEN NoDevice ELSE owner[s]]
  /\ UNCHANGED walkVars

EvWorkerElse ==
  /\ \/ WCheck \/ WSelect \/ WStop \/ WScanned \/ WNothing
     \/ \E d \in Device : WBuild(d) \/ WMessage(d) \/ WCleanup(d)
     \/ WAddLock \/ WAdd \/ WAddUnlock
     \/ WNotify \/ WDelLock \/ WDel \/ WDelUnlock \/ WFree
     \/ WCleaned \/ WBcastLock \/ WBcast \/ WBcastUnlock
  /\ UNCHANGED << listVars, walkVars >>

EvWorker ==
  \/ EvBegin \/ EvSkip \/ EvSend \/ EvSendFailed
  \/ \E s \in Subscription \cup { NoSubscription } : EvFirst(s) \/ EvNextOne(s)
  \/ EvDelivered \/ EvLost \/ EvDeactivate \/ EvWorkerElse

EvEnvironment ==
  /\ MSpuriousWakeup \/ Sigint \/ Terminated
  /\ UNCHANGED << listVars, walkVars >>

EvNext == EvMain \/ EvWorker \/ EvEnvironment

EvSpec == EvInit /\ [][EvNext]_evVars

(* As in the core; a client the worker has connected to takes the event.    *)
EvFairSpec == EvSpec /\ WF_evVars(EvMain) /\ WF_evVars(EvWorker)

-----------------------------------------------------------------------------
(* However main changes the list under the walk, no client gets the event   *)
(* twice.                                                                  *)
EventOncePerDelivery == walk = "send" /\ Listed(cur) => cur \notin tried

(* Who had subscribed when the delivery began, and is subscribed still, has *)
(* been sent the event when it is over.                                    *)
EventReachesAll == walk = "over" => owed = {}

(* The walk is on, sends to, and goes on from subscriptions that are in the  *)
(* list, unless main has ended one: the worker does not cut off its own way *)
(* when it ends one itself.                                                *)
WalkKeepsItsPlace ==
  ~ disturbed => \A s \in { at, cur, nxt } \cap Subscription : Listed(s)

(* After SIGINT both threads end - or the worker may be on a subscription   *)
(* that is linked to itself, which it never leaves.                         *)
EvTermination == ~ running ~> (pcM = "done" /\ pcW = "done") \/ disturbed

(* The walks over the lists implement the event source: nobody gets an      *)
(* event of another device, or one not asked for, or one twice, and no      *)
(* delivery is over too early.                                             *)
Source == INSTANCE EventSource WITH
            source     <- owner,
            delivering <- IF walk = "none" THEN NoDevice ELSE curW,
            told       <- tried,
            pending    <- owed
EventSourceSpec == Source!Spec

-----------------------------------------------------------------------------
(* Why: the invariant that is inductive.                                   *)

DeviceOf(n) == IF n \in Device THEN n ELSE owner[n]

(* Each list is a ring, what has ended is linked to itself, and no list is  *)
(* left of a device that is torn down.                                      *)
Rings ==
  /\ \A m, n \in Node : next[m] = next[n] => m = n
  /\ \A n \in Node : DeviceOf(next[n]) = DeviceOf(n)
  /\ \A s \in Subscription : ~ Listed(s) => next[s] = s
  /\ \A s \in Subscription : Listed(s) => mem[owner[s]] = "up"

WalkControl ==
  /\ walk # "none" => pcW = "deliver"
  /\ walk \in { "first", "next" } => at \in Subscription \cup { curW }
  /\ walk \notin { "first", "next" } => at = NoDevice
  /\ walk = "send" => cur # NoSubscription
  /\ walk \notin { "next", "send" } => cur = NoSubscription
  /\ walk # "send" => nxt = NoSubscription
  /\ \A s \in { at, cur, nxt } \cap Subscription : Listed(s) => owner[s] = curW

EvIInv == IInv /\ EvTypeOK /\ Rings /\ WalkControl
=============================================================================
