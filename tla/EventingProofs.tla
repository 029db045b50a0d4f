--------------------------- MODULE EventingProofs ---------------------------
(***************************************************************************)
(* Proofs about Eventing for any number of devices and subscriptions: the   *)
(* subscriptions take only steps of the core, and the lists stay rings     *)
(* whatever main and the walk of the worker do to them.                    *)
(***************************************************************************)
EXTENDS Eventing, GatewayCoreProofs

(* Memory of a device is none of a subscription. *)
LEMMA NodesDiffer ==
  /\ \A d \in Device : d \in Node /\ d \notin Subscription /\ d # NoDevice /\ d # NoSubscription
  /\ \A s \in Subscription : s \in Node /\ s \notin Device /\ s # NoDevice /\ s # NoSubscription
  /\ NoDevice \notin Node /\ NoDevice \notin Device /\ NoSubscription \notin Node
  BY DeviceAssumption, SubscriptionAssumption DEF Node

-----------------------------------------------------------------------------
(* Eventing and the core. *)

(* With WS-Eventing, main's steps are main's steps of the core, or none.   *)
LEMMA EvMainRefines == EvMain => Main \/ UNCHANGED vars
  BY DEF EvMain, EvServed, EvMainElse, EvSubscribe, EvUnsubscribe, EvExpire, Main

(* The worker's steps are the worker's steps of the core, or none.         *)
LEMMA EvWorkerRefines == EvWorker => Worker \/ UNCHANGED vars
  <1>1. CASE EvBegin \/ EvSkip \/ EvSend \/ EvSendFailed
    BY <1>1 DEF EvBegin, EvSkip, EvSend, EvSendFailed, Advance
  <1>2. ASSUME NEW s, EvFirst(s) \/ EvNextOne(s) PROVE UNCHANGED vars
    BY <1>2 DEF EvFirst, EvNextOne
  <1>3. CASE EvDelivered \/ EvLost \/ EvDeactivate \/ EvWorkerElse
    BY <1>3 DEF EvDelivered, EvLost, EvDeactivate, EvWorkerElse, Worker
  <1> QED
    BY <1>1, <1>2, <1>3 DEF EvWorker

(* So every step of the composition is a step of the core or stutters.     *)
LEMMA EvStepRefinesCore == [EvNext]_evVars => [Next]_vars
  <1>1. CASE EvEnvironment
    BY <1>1 DEF EvEnvironment, Next
  <1>2. CASE UNCHANGED evVars
    BY <1>2 DEF evVars
  <1> QED
    BY <1>1, <1>2, EvMainRefines, EvWorkerRefines DEF EvNext, Next

(* What subscriptions and deliveries do is, for the list of devices and its *)
(* mutex, a step of the core or none.                                      *)
THEOREM EvImplementsCore == EvSpec => Spec
  <1>1. EvInit => Init
    BY DEF EvInit
  <1> QED
    BY <1>1, EvStepRefinesCore, PTL DEF EvSpec, Spec

(* The subscriptions main ends or lists are those of a device that is not   *)
(* torn down under it.                                                     *)
THEOREM EvMainSafe == EvSpec => []MainUsesOnlyLive
  BY EvImplementsCore, MainSafe, PTL

(* With subscriptions the list of devices still is a DeviceRegistry.        *)
THEOREM EvImplementsRegistry == EvSpec => RegistrySpec
  BY EvImplementsCore, ImplementsRegistry, PTL

-----------------------------------------------------------------------------
(* The lists are rings. *)

(* The parts of EvIInv that the core does not give. *)
EvParts == EvTypeOK /\ Rings /\ WalkControl

(* Linking a record that is in no list leaves every list a ring.           *)
LEMMA LinkRings ==
  ASSUME EvTypeOK, Rings,
         NEW s \in Subscription, ~ Listed(s),
         NEW d \in Device, mem[d] = "up", UNCHANGED mem,
         NEW before \in { d } \cup ListOf(d), Link(s, d, before)
  PROVE  /\ next' \in [Node -> Node]
         /\ owner' \in [Subscription -> Device \cup { NoDevice }]
         /\ Rings'
  <1> USE NodesDiffer DEF EvTypeOK, Listed, ListOf
  <1>1. before \in Node /\ before # s /\ DeviceOf(before) = d
    BY DEF DeviceOf
  <1>2. next' \in [Node -> Node] /\ owner' \in [Subscription -> Device \cup { NoDevice }]
    BY <1>1 DEF Link
  <1>3. next[s] = s /\ \A n \in Node : n # s => next[n] # s
    BY DEF Rings
  <1>4. /\ next'[before] = s /\ next'[s] = next[before]
        /\ \A n \in Node \ { s, before } : next'[n] = next[n]
    BY <1>1 DEF Link
  <1>5. /\ owner'[s] = d
        /\ \A t \in Subscription \ { s } : owner'[t] = owner[t]
    BY DEF Link
  <1>6. \A n \in Node \ { s } : DeviceOf(n)' = DeviceOf(n)
    BY <1>5 DEF DeviceOf, Node
  <1>7. DeviceOf(s)' = d
    BY <1>5 DEF DeviceOf
  <1>8. \A m, n \in Node : next'[m] = next'[n] => m = n
    BY <1>1, <1>3, <1>4 DEF Rings
  <1>9. \A n \in Node : DeviceOf(next[n]) = DeviceOf(n)
    BY DEF Rings
  <1>10. ASSUME NEW n \in Node PROVE (DeviceOf(next[n]) = DeviceOf(n))'
    <2>1. CASE n = s
      <3>1. next[before] \in Node \ { s } /\ DeviceOf(next[before]) = d
        BY <1>1, <1>3, <1>9
      <3> QED
        BY <1>4, <1>5, <1>7, <3>1, <2>1 DEF DeviceOf, Node
    <2>2. CASE n = before
      BY <1>1, <1>4, <1>6, <1>7, <2>2 DEF DeviceOf
    <2>3. CASE n \notin { s, before }
      <3>1. next'[n] = next[n] /\ next[n] \in Node \ { s }
        BY <1>3, <1>4, <2>3
      <3>2. DeviceOf(next[n]) = DeviceOf(n)
        BY <1>9
      <3> QED
        BY <1>5, <3>1, <3>2, <2>3 DEF DeviceOf, Node
    <2> QED
      BY <2>1, <2>2, <2>3
  <1>11. \A t \in Subscription : ~ Listed(t)' => next'[t] = t
    BY <1>1, <1>3, <1>4, <1>5 DEF Rings
  <1>12. \A t \in Subscription : Listed(t)' => (mem[owner[t]] = "up")'
    BY <1>5 DEF Rings
  <1> QED
    BY <1>2, <1>8, <1>10, <1>11, <1>12 DEF Rings

(* So does unlinking one.                                                  *)
LEMMA UnlinkRings ==
  ASSUME EvTypeOK, Rings, UNCHANGED mem,
         NEW s \in Subscription, Listed(s), Unlink(s)
  PROVE  /\ next' \in [Node -> Node]
         /\ owner' \in [Subscription -> Device \cup { NoDevice }]
         /\ Rings'
  <1> USE NodesDiffer DEF EvTypeOK, Listed
  <1>1. next' \in [Node -> Node] /\ owner' \in [Subscription -> Device \cup { NoDevice }]
    BY DEF Unlink
  <1>2. /\ next'[s] = s
        /\ \A n \in Node \ { s } : next'[n] = IF next[n] = s THEN next[s] ELSE next[n]
    BY DEF Unlink
  <1>3. /\ owner'[s] = NoDevice
        /\ \A t \in Subscription \ { s } : owner'[t] = owner[t]
    BY DEF Unlink
  <1>4. \A m, n \in Node : next[m] = next[n] => m = n
    BY DEF Rings
  <1>5. \A n \in Node \ { s } : next'[n] # s
    BY <1>2, <1>4
  <1>6. \A m, n \in Node : next'[m] = next'[n] => m = n
    BY <1>2, <1>4, <1>5
  <1>7. \A n \in Node : DeviceOf(next[n]) = DeviceOf(n)
    BY DEF Rings
  <1>8. ASSUME NEW n \in Node \ { s }
        PROVE  (DeviceOf(next[n]) = DeviceOf(n))'
    <2>1. next'[n] \in Node \ { s } /\ DeviceOf(next'[n]) = DeviceOf(n)
      BY <1>2, <1>5, <1>7
    <2> QED
      BY <1>3, <2>1 DEF DeviceOf, Node
  <1>9. (DeviceOf(next[s]) = DeviceOf(s))'
    BY <1>2
  <1>10. \A t \in Subscription : ~ Listed(t)' => next'[t] = t
    <2>1. \A t \in Subscription : ~ Listed(t) => next[t] = t
      BY DEF Rings
    <2> QED
      BY <1>2, <1>3, <2>1
  <1>11. \A t \in Subscription : Listed(t)' => (mem[owner[t]] = "up")'
    BY <1>3 DEF Rings
  <1> QED
    BY <1>1, <1>6, <1>8, <1>9, <1>10, <1>11 DEF Rings

(* The subscription manager goes with its device: the ring is taken apart.  *)
LEMMA DeactivateRings ==
  ASSUME IInv, EvTypeOK, Rings, EvDeactivate
  PROVE  /\ next' \in [Node -> Node]
         /\ owner' \in [Subscription -> Device \cup { NoDevice }]
         /\ Rings'
  <1> USE NodesDiffer DEF EvTypeOK, Listed, ListOf
  <1>1. curW \in Device /\ mem' = [mem EXCEPT ![curW] = "down"] /\ mem \in [Device -> Memory]
    BY DEF EvDeactivate, WDeactivate, WorkerAt, IInv, InHand, TypeOK
  <1>2. next' \in [Node -> Node] /\ owner' \in [Subscription -> Device \cup { NoDevice }]
    BY DEF EvDeactivate
  <1>3. \A n \in Node : next'[n] = IF DeviceOf(n) = curW THEN n ELSE next[n]
    BY <1>1 DEF EvDeactivate, DeviceOf, Node
  <1>4. \A t \in Subscription : owner'[t] = IF owner[t] = curW THEN NoDevice ELSE owner[t]
    BY DEF EvDeactivate
  <1>5. \A m, n \in Node : next[m] = next[n] => m = n
    BY DEF Rings
  <1>6. \A n \in Node : DeviceOf(next[n]) = DeviceOf(n)
    BY DEF Rings
  <1>7. \A m, n \in Node : next'[m] = next'[n] => m = n
    BY <1>3, <1>5, <1>6
  <1>8. ASSUME NEW n \in Node
        PROVE  (DeviceOf(next[n]) = DeviceOf(n))'
    BY <1>3, <1>4, <1>6 DEF DeviceOf, Node
  <1>9. \A t \in Subscription : ~ Listed(t)' => next'[t] = t
    BY <1>1, <1>3, <1>4 DEF DeviceOf, Rings, Node
  <1>10. \A t \in Subscription : Listed(t)' => (mem[owner[t]] = "up")'
    BY <1>1, <1>4 DEF Rings
  <1> QED
    BY <1>2, <1>7, <1>8, <1>9, <1>10 DEF Rings

-----------------------------------------------------------------------------
(* EvIInv is inductive. *)

(* The list is empty and every record is free to begin with.               *)
LEMMA InitEvIInv == EvInit => EvIInv
  <1> SUFFICES ASSUME EvInit PROVE EvIInv
    OBVIOUS
  <1> USE NodesDiffer DEF EvInit
  <1>1. IInv
    BY InitIInv
  <1>2. EvTypeOK
    BY DEF EvTypeOK
  <1>3. Rings
    BY DEF Rings, DeviceOf, Listed, Node
  <1>4. WalkControl
    BY DEF WalkControl, Listed
  <1> QED
    BY <1>1, <1>2, <1>3, <1>4 DEF EvIInv

(* A step that leaves the lists and the walk alone; a device the worker     *)
(* builds or frees then has no list.                                       *)
LEMMA ListsUntouched ==
  ASSUME EvIInv, UNCHANGED << listVars, walkVars >>,
         walk = "none" \/ UNCHANGED << pcW, curW >>,
         \A d \in Device : mem[d] = "up" => mem'[d] = "up"
  PROVE  EvParts'
  <1> USE DEF EvIInv, listVars, walkVars
  <1>1. EvTypeOK'
    BY DEF EvTypeOK
  <1>2. Rings'
    <2>1. \A s \in Subscription : Listed(s) => owner[s] \in Device
      BY DEF EvTypeOK, Listed
    <2> QED
      BY <2>1 DEF Rings, DeviceOf, Listed
  <1>3. WalkControl'
    <2>1. CASE walk = "none"
      BY <2>1, NodesDiffer DEF WalkControl, Listed
    <2>2. CASE UNCHANGED << pcW, curW >>
      BY <2>2 DEF WalkControl, Listed
    <2> QED
      BY <2>1, <2>2
  <1> QED
    BY <1>1, <1>2, <1>3 DEF EvParts

(* Steps that leave the list alone leave its invariant alone.              *)
LEMMA EvElseParts ==
  ASSUME EvIInv, EvServed \/ EvMainElse \/ EvLost \/ EvWorkerElse \/ EvEnvironment
  PROVE  EvParts'
  <1>1. UNCHANGED << listVars, walkVars >>
    BY DEF EvServed, EvMainElse, EvLost, EvWorkerElse, EvEnvironment
  <1>2. CASE EvServed \/ EvMainElse \/ EvEnvironment
    <2>1. UNCHANGED << pcW, curW, mem >>
      BY <1>2 DEF EvServed, EvMainElse, EvEnvironment, MLoop, MLock, MWait, MGoOn, MReacquire,
                  MCount, MCollect, MTimeout, MAccept, MSend, MServed, MUnlock, MSweepLock,
                  MSweep, MSweepUnlock, MJoin, MSpuriousWakeup, Sigint, Terminated,
                  workerVars, vars
    <2> QED
      BY <1>1, <2>1, ListsUntouched
  <1>3. CASE EvLost
    BY <1>1, <1>3, ListsUntouched DEF EvLost, WLost
  <1>4. CASE EvWorkerElse
    <2>1. walk = "none"
      BY <1>4 DEF EvWorkerElse, EvIInv, WalkControl, WCheck, WSelect, WStop, WScanned, WNothing,
                  WBuild, WMessage, WCleanup, WAddLock, WAdd, WAddUnlock, WNotify, WDelLock,
                  WDel, WDelUnlock, WFree, WCleaned, WBcastLock, WBcast, WBcastUnlock, WorkerAt
    <2>2. CASE \E d \in Device : WBuild(d)
      <3>1. \A d \in Device : mem[d] = "up" => mem'[d] = "up"
        BY <2>2 DEF WBuild, EvIInv, IInv, TypeOK
      <3> QED
        BY <1>1, <2>1, <3>1, ListsUntouched
    <2>3. CASE WFree
      <3>1. \A d \in Device : mem[d] = "up" => mem'[d] = "up"
        BY <2>3 DEF WFree, EvIInv, IInv, TypeOK, InHand
      <3> QED
        BY <1>1, <2>1, <3>1, ListsUntouched
    <2>4. CASE ~ (WFree \/ \E d \in Device : WBuild(d))
      <3>1. UNCHANGED mem
        BY <1>4, <2>4
           DEF EvWorkerElse, WCheck, WSelect, WStop, WScanned, WNothing,
               WMessage, WCleanup, WAddLock, WAdd, WAddUnlock, WNotify, WDelLock,
               WDel, WDelUnlock, WCleaned, WBcastLock, WBcast, WBcastUnlock
      <3> QED
        BY <1>1, <2>1, <3>1, ListsUntouched
    <2> QED
      BY <2>2, <2>3, <2>4
  <1> QED
    BY <1>2, <1>3, <1>4

(* What main has in hand is up. *)
LEMMA PinnedAreUp ==
  ASSUME IInv
  PROVE  \A d \in pinned : d \in Device /\ mem[d] = "up"
  BY DEF IInv, TypeOK, Snapshot, ListedAreUp

(* Main lists and ends subscriptions, also under the walk. *)
LEMMA EvMainParts ==
  ASSUME EvIInv,
         \/ \E d \in Device : EvSubscribe(d)
         \/ \E s \in Subscription : EvUnsubscribe(s) \/ EvExpire(s)
  PROVE  EvParts'
  <1> USE NodesDiffer DEF EvIInv
  <1>1. UNCHANGED << pcW, curW, mem >>
    BY DEF EvSubscribe, EvUnsubscribe, EvExpire, MServed, workerVars, vars
  <1>2. ASSUME NEW d \in Device, EvSubscribe(d)
        PROVE  EvParts'
    <2>1. PICK s \in Fresh : Register(s, d)
      BY <1>2 DEF EvSubscribe
    <2>2. s \in Subscription /\ ~ Listed(s) /\ s \notin { at, cur, nxt } /\ mem[d] = "up"
      BY <1>2, <2>1, PinnedAreUp DEF Fresh, EvSubscribe
    <2>3. CASE UNCHANGED listVars
      BY <1>1, <1>2, <2>3, ListsUntouched DEF EvSubscribe
    <2>4. CASE \E before \in { d } \cup ListOf(d) : Link(s, d, before)
      <3>1. /\ next' \in [Node -> Node]
            /\ owner' \in [Subscription -> Device \cup { NoDevice }]
            /\ Rings'
        BY <1>1, <2>2, <2>4, LinkRings
      <3>2. \A t \in Subscription \ { s } : owner'[t] = owner[t]
        BY <2>4 DEF Link, EvTypeOK
      <3>3. EvTypeOK'
        BY <1>2, <3>1 DEF EvTypeOK, EvSubscribe, walkVars
      <3>4. WalkControl'
        BY <1>1, <1>2, <2>2, <3>2 DEF WalkControl, EvSubscribe, walkVars, Listed
      <3> QED
        BY <3>1, <3>3, <3>4 DEF EvParts
    <2> QED
      BY <2>1, <2>3, <2>4 DEF Register
  <1>3. ASSUME NEW s \in Subscription, EvUnsubscribe(s) \/ EvExpire(s)
        PROVE  EvParts'
    <2>1. Listed(s) /\ Unlink(s) /\ Disturb(s)
      BY <1>3, PinnedAreUp DEF EvUnsubscribe, EvExpire, Listed
    <2>2. /\ next' \in [Node -> Node]
          /\ owner' \in [Subscription -> Device \cup { NoDevice }]
          /\ Rings'
      BY <1>1, <2>1, UnlinkRings
    <2>3. \A t \in Subscription : owner'[t] = IF t = s THEN NoDevice ELSE owner[t]
      BY <2>1 DEF Unlink, EvTypeOK
    <2>4. EvTypeOK'
      BY <2>1, <2>2 DEF EvTypeOK, Disturb
    <2>5. WalkControl'
      BY <1>1, <2>1, <2>3 DEF WalkControl, Disturb, Listed
    <2> QED
      BY <2>2, <2>4, <2>5 DEF EvParts
  <1> QED
    BY <1>2, <1>3

(* From a node of the ring, or from what has ended, the list leads to one   *)
(* of the same device.                                                     *)
LEMMA NextIsOfSameDevice ==
  ASSUME EvIInv, walk \in { "first", "next" }
  PROVE  /\ next[at] \in Node
         /\ next[at] \in Subscription /\ Listed(next[at]) => owner[next[at]] = curW
         /\ at = curW \/ Listed(at) <=> DeviceOf(at) = curW
         /\ DeviceOf(next[at]) = DeviceOf(at)
  <1> USE NodesDiffer DEF EvIInv
  <1>1. curW \in Device
    BY DEF WalkControl, IInv, InHand, TypeOK
  <1>2. at \in Subscription \cup { curW } /\ at \in Node
    BY <1>1 DEF WalkControl
  <1>3. next[at] \in Node /\ DeviceOf(next[at]) = DeviceOf(at)
    BY <1>2 DEF EvTypeOK, Rings
  <1>4. at = curW \/ Listed(at) <=> DeviceOf(at) = curW
    BY <1>1, <1>2 DEF WalkControl, DeviceOf, Listed, EvTypeOK
  <1>5. next[at] \in Subscription /\ Listed(next[at]) => owner[next[at]] = curW
    BY <1>1, <1>2, <1>3, <1>4 DEF DeviceOf, Listed
  <1> QED
    BY <1>3, <1>4, <1>5

(* The walk of the worker. *)
LEMMA EvWalkParts ==
  ASSUME EvIInv,
         \/ EvBegin \/ EvSkip \/ EvDelivered \/ EvSend \/ EvSendFailed \/ EvDeactivate
         \/ \E s \in Subscription \cup { NoSubscription } : EvFirst(s) \/ EvNextOne(s)
  PROVE  EvParts'
  <1> USE NodesDiffer DEF EvIInv, EvParts
  <1>0. walk # "none" => pcW = "deliver" /\ curW \in Device
    BY DEF WalkControl, IInv, InHand, TypeOK
  <1>1. CASE EvBegin
    <2>1. curW \in Device
      BY <1>1 DEF EvBegin, IInv, InHand, TypeOK
    <2>2. EvTypeOK'
      BY <1>1, <2>1, SubscriptionAssumption DEF EvTypeOK, EvBegin, listVars
    <2>3. Rings'
      BY <1>1 DEF EvBegin, Rings, DeviceOf, Listed, listVars, vars
    <2>4. WalkControl'
      BY <1>1, <2>1 DEF EvBegin, WalkControl, Listed, listVars, vars, workerVars
    <2> QED
      BY <2>2, <2>3, <2>4
  <1>2. ASSUME EvSkip \/ \E s \in Subscription \cup { NoSubscription } : EvFirst(s) \/ EvNextOne(s)
        PROVE  EvParts'
    <2>0. walk \in { "first", "next" } /\ UNCHANGED << vars, listVars >>
      BY <1>2 DEF EvSkip, EvFirst, EvNextOne
    <2>1. Rings'
      BY <2>0 DEF Rings, DeviceOf, Listed, listVars, vars
    <2>2. EvTypeOK'
      BY <1>0, <1>2, <2>0, NextIsOfSameDevice
         DEF EvTypeOK, EvSkip, EvFirst, EvNextOne, listVars, Head
    <2>3. CASE EvSkip
      BY <2>0, <2>1, <2>2, <2>3, NextIsOfSameDevice
         DEF EvSkip, GoesOn, WalkControl, Listed, listVars, vars, workerVars
    <2>4. ASSUME NEW s \in Subscription \cup { NoSubscription }, EvFirst(s)
          PROVE  EvParts'
      BY <1>0, <2>0, <2>1, <2>2, <2>4, NextIsOfSameDevice
         DEF EvFirst, Finds, Head, WalkControl, Listed, listVars, vars, workerVars
    <2>5. ASSUME NEW s \in Subscription \cup { NoSubscription }, EvNextOne(s)
          PROVE  EvParts'
      BY <1>0, <2>0, <2>1, <2>2, <2>5, NextIsOfSameDevice
         DEF EvNextOne, Finds, WalkControl, Listed, listVars, vars, workerVars
    <2> QED
      BY <1>2, <2>3, <2>4, <2>5
  <1>3. CASE EvDelivered
    <2>1. Rings'
      BY <1>3 DEF EvDelivered, WDelivered, Rings, DeviceOf, Listed, listVars
    <2>2. EvTypeOK'
      BY <1>3 DEF EvDelivered, EvTypeOK, listVars
    <2>3. WalkControl'
      BY <1>3 DEF EvDelivered, WalkControl, Listed, listVars
    <2> QED
      BY <2>1, <2>2, <2>3
  <1>4. CASE EvSend \/ EvSendFailed
    <2>1. walk = "send" /\ Advance /\ cur \in Subscription
      BY <1>4 DEF EvSend, EvSendFailed, WalkControl, EvTypeOK
    <2>2. UNCHANGED mem
      BY <2>1 DEF Advance, vars
    <2>3. CASE UNCHANGED listVars
      <3>1. Rings'
        BY <2>2, <2>3 DEF Rings, DeviceOf, Listed, listVars
      <3>2. EvTypeOK'
        BY <1>0, <2>1, <2>3 DEF Advance, EvTypeOK, listVars, Head
      <3>3. WalkControl'
        BY <1>0, <2>1, <2>3
           DEF Advance, WalkControl, Listed, listVars, Head, vars, workerVars, EvTypeOK
      <3> QED
        BY <3>1, <3>2, <3>3
    <2>4. CASE Listed(cur) /\ Unlink(cur)
      <3>1. /\ next' \in [Node -> Node]
            /\ owner' \in [Subscription -> Device \cup { NoDevice }]
            /\ Rings'
        BY <2>1, <2>2, <2>4, UnlinkRings
      <3>2. EvTypeOK'
        BY <1>0, <2>1, <3>1 DEF Advance, EvTypeOK, Head
      <3>3. \A t \in Subscription : owner'[t] = IF t = cur THEN NoDevice ELSE owner[t]
        BY <2>1, <2>4 DEF Unlink, EvTypeOK
      <3>4. WalkControl'
        BY <1>0, <2>1, <3>3
           DEF Advance, WalkControl, Listed, Head, vars, workerVars, EvTypeOK
      <3> QED
        BY <3>1, <3>2, <3>4
    <2> QED
      BY <1>4, <2>3, <2>4 DEF EvSend, EvSendFailed
  <1>5. CASE EvDeactivate
    <2>1. walk = "none"
      BY <1>5 DEF EvDeactivate, WDeactivate, WorkerAt, WalkControl
    <2>2. /\ next' \in [Node -> Node]
          /\ owner' \in [Subscription -> Device \cup { NoDevice }]
          /\ Rings'
      BY <1>5, DeactivateRings
    <2>3. EvTypeOK'
      BY <1>5, <2>2 DEF EvTypeOK, EvDeactivate, walkVars
    <2>4. WalkControl'
      BY <1>5, <2>1 DEF WalkControl, EvDeactivate, walkVars, Listed
    <2> QED
      BY <2>2, <2>3, <2>4
  <1> QED
    BY <1>1, <1>2, <1>3, <1>4, <1>5

(* Every step preserves the inductive invariant.                           *)
LEMMA NextEvIInv ==
  ASSUME EvIInv, [EvNext]_evVars
  PROVE  EvIInv'
  <1>1. IInv'
    BY EvStepRefinesCore, NextIInv DEF EvIInv
  <1>2. EvParts'
    <2>1. CASE UNCHANGED evVars
      BY <2>1, ListsUntouched DEF evVars, vars, workerVars
    <2> QED
      BY <2>1, EvElseParts, EvMainParts, EvWalkParts DEF EvNext, EvMain, EvWorker
  <1> QED
    BY <1>1, <1>2 DEF EvIInv, EvParts

(* Whatever main and the walk of the worker do to the lists, and in whatever *)
(* order: each stays a ring with its device, what has ended is linked to    *)
(* itself, and the walk holds on to no subscription of another device.     *)
THEOREM EvInductiveInvariant == EvSpec => []EvIInv
  BY InitEvIInv, NextEvIInv, PTL DEF EvSpec

-----------------------------------------------------------------------------
(* The order of the lists.                                                 *)

(* Numbers for the nodes that grow along each list: the device has 0, and   *)
(* the node after n is the one with the next larger number, if there is one.*)
Together(m, n) == DeviceOf(m) = DeviceOf(n) /\ DeviceOf(m) # NoDevice

Ranks(pos) ==
  /\ \A d \in Device : pos[d] = 0
  /\ \A s \in Subscription : Listed(s) => pos[s] > 0
  /\ \A m, n \in Node : Together(m, n) /\ pos[m] = pos[n] => m = n
  /\ \A m, n \in Node : Together(m, n) /\ next[m] = n /\ n \in Subscription => pos[m] < pos[n]
  /\ \A m, n \in Node :
       Together(m, n) /\ pos[m] < pos[n] => next[m] \in Subscription /\ pos[next[m]] <= pos[n]

(* Where the walk is among them: behind it are those it has tried, before   *)
(* it those it still owes the event.                                       *)
Behind(pos) ==
  /\ walk \in { "none", "first" } => tried = {}
  /\ walk = "next" /\ cur # NoSubscription =>
       at \in Subscription /\ (Listed(cur) /\ Listed(at) => pos[cur] <= pos[at])
  /\ walk = "send" /\ nxt # NoSubscription /\ Listed(cur) /\ Listed(nxt) => pos[cur] < pos[nxt]
  /\ cur # NoSubscription =>
       \A t \in tried, s \in { at, cur, nxt } \cap Subscription :
         Listed(t) /\ Listed(s) => pos[t] < pos[s]

Ahead(pos) ==
  /\ \A s \in owed : owner[s] = curW
  /\ walk = "first" /\ (at = curW \/ Listed(at)) => \A s \in owed : pos[at] < pos[s]
  /\ walk = "next" /\ cur # NoSubscription /\ Listed(at) =>
       \A s \in owed : s = cur \/ pos[at] < pos[s]
  /\ walk = "send" /\ nxt = NoSubscription => owed \subseteq { cur }
  /\ walk = "send" /\ nxt # NoSubscription /\ Listed(nxt) =>
       \A s \in owed : s \in { cur, nxt } \/ pos[nxt] < pos[s]
  /\ walk \in { "next", "over", "none" } /\ cur = NoSubscription => owed = {}

(* What EvIInv does not say: there are such numbers.                       *)
OrderInv ==
  \E pos \in [Node -> Nat] : Ranks(pos) /\ Behind(pos) /\ Ahead(pos)

(* A record that is linked gets the odd number behind 'before'; the others double.  *)
LEMMA LinkRanks ==
  ASSUME EvIInv, NEW pos \in [Node -> Nat], Ranks(pos),
         NEW s \in Subscription, ~ Listed(s), NEW d \in Device,
         NEW before \in { d } \cup ListOf(d), Link(s, d, before),
         NEW new, new = [n \in Node |-> IF n = s THEN 2 * pos[before] + 1 ELSE 2 * pos[n]]
  PROVE  new \in [Node -> Nat] /\ Ranks(new)'
  <1> USE NodesDiffer DEF EvIInv, EvTypeOK, Listed, ListOf
  <1>1. before \in Node /\ before # s /\ DeviceOf(before) = d
    BY DEF DeviceOf
  <1>2. new \in [Node -> Nat]
    BY <1>1
  <1>3. next[s] = s /\ \A n \in Node : n # s => next[n] # s
    BY DEF Rings
  <1>4. /\ next'[before] = s /\ next'[s] = next[before]
        /\ \A n \in Node \ { s, before } : next'[n] = next[n]
    BY <1>1 DEF Link
  <1>5. /\ DeviceOf(s)' = d
        /\ \A n \in Node \ { s } : DeviceOf(n)' = DeviceOf(n)
    BY DEF Link, DeviceOf, Node
  <1>6. /\ new[s] = 2 * pos[before] + 1
        /\ \A n \in Node \ { s } : new[n] = 2 * pos[n]
    OBVIOUS
  <1>7. /\ \A n \in Node : pos[n] \in Nat
        /\ \A m, n \in Node : Together(m, n) /\ pos[m] = pos[n] => m = n
        /\ \A m, n \in Node : Together(m, n) /\ next[m] = n /\ n \in Subscription => pos[m] < pos[n]
        /\ \A m, n \in Node :
             Together(m, n) /\ pos[m] < pos[n] => next[m] \in Subscription /\ pos[next[m]] <= pos[n]
    BY DEF Ranks
  <1>8. \A n \in Node : Together(s, n)' <=> n = s \/ Together(before, n)
    BY <1>1, <1>5 DEF Together, Node, DeviceOf
  <1>9. \A m, n \in Node \ { s } : Together(m, n)' <=> Together(m, n)
    BY <1>5 DEF Together
  <1>10. \A m, n \in Node : Together(m, n) <=> Together(n, m)
    BY DEF Together
  <1>11. \A m, n \in Node : Together(m, n)' <=> Together(n, m)'
    BY DEF Together
  <1>12. ASSUME NEW m \in Node, NEW n \in Node, Together(m, n)', new[m] = new[n]
         PROVE  m = n
    <2>1. CASE m # s /\ n # s
      BY <1>6, <1>7, <1>9, <1>12, <2>1
    <2>2. CASE m = s \/ n = s
      <3>1. \A i, j \in Nat : 2 * i + 1 # 2 * j
        OBVIOUS
      <3> QED
        BY <1>1, <1>6, <1>7, <1>12, <2>2, <3>1
    <2> QED
      BY <2>1, <2>2
  <1>13. ASSUME NEW m \in Node, NEW n \in Subscription, Together(m, n)', next'[m] = n
         PROVE  new[m] < new[n]
    <2>1. CASE m = s
      <3>1. n = next[before] /\ n # s /\ Together(before, n)
        BY <1>1, <1>3, <1>4, <1>8, <1>13, <2>1
      <3>2. pos[before] < pos[n]
        BY <1>1, <1>7, <3>1
      <3> QED
        BY <1>1, <1>6, <1>7, <2>1, <3>1, <3>2
    <2>2. CASE m = before
      BY <1>1, <1>4, <1>6, <1>7, <1>13, <2>2
    <2>3. CASE m \notin { s, before }
      BY <1>3, <1>4, <1>6, <1>7, <1>9, <1>13, <2>3
    <2> QED
      BY <2>1, <2>2, <2>3
  <1>14. ASSUME NEW m \in Node, NEW n \in Node, Together(m, n)', new[m] < new[n]
         PROVE  next'[m] \in Subscription /\ new[next'[m]] <= new[n]
    <2>1. CASE m = s
      <3>1. n # s /\ Together(before, n) /\ pos[before] < pos[n]
        BY <1>1, <1>6, <1>7, <1>8, <1>14, <2>1
      <3>2. next'[m] = next[before] /\ next[before] # s
        BY <1>1, <1>3, <1>4, <2>1
      <3> QED
        BY <1>1, <1>6, <1>7, <3>1, <3>2
    <2>2. CASE m = before
      <3>1. next'[m] = s
        BY <1>4, <2>2
      <3>2. CASE n = s
        BY <3>1, <3>2, <1>6, <1>7, <1>1
      <3>3. CASE n # s
        <4>1. pos[before] < pos[n]
          BY <1>1, <1>6, <1>7, <1>14, <2>2, <3>3
        <4> QED
          BY <1>1, <1>6, <1>7, <3>1, <3>3, <4>1
      <3> QED
        BY <3>2, <3>3
    <2>3. CASE m \notin { s, before }
      <3>1. next'[m] = next[m] /\ next[m] # s
        BY <1>3, <1>4, <2>3
      <3>2. CASE n = s
        <4>1. Together(m, before)
          BY <1>8, <1>10, <1>11, <1>14, <3>2, <2>3
        <4>2. pos[m] < pos[before]
          <5>1. pos[m] <= pos[before]
            BY <1>1, <1>6, <1>7, <1>14, <2>3, <3>2
          <5> QED
            BY <1>1, <1>7, <2>3, <4>1, <5>1
        <4> QED
          BY <1>1, <1>6, <1>7, <3>1, <3>2, <4>1, <4>2
      <3>3. CASE n # s
        BY <1>6, <1>7, <1>9, <1>14, <2>3, <3>1, <3>3
      <3> QED
        BY <3>2, <3>3
    <2> QED
      BY <2>1, <2>2, <2>3
  <1>15. \A e \in Device : new[e] = 0
    BY <1>6 DEF Ranks
  <1>16. \A t \in Subscription : Listed(t)' => new[t] > 0
    <2>1. \A t \in Subscription \ { s } : Listed(t)' => Listed(t)
      BY DEF Link
    <2> QED
      BY <1>1, <1>6, <1>7, <2>1 DEF Ranks
  <1> QED
    BY <1>2, <1>12, <1>13, <1>14, <1>15, <1>16 DEF Ranks

(* Unlinking a record needs no new numbers.                                *)
LEMMA UnlinkRanks ==
  ASSUME EvIInv, NEW pos \in [Node -> Nat], Ranks(pos),
         NEW s \in Subscription, Listed(s), Unlink(s)
  PROVE  Ranks(pos)'
  <1> USE NodesDiffer DEF EvIInv, EvTypeOK, Listed
  <1>1. /\ next'[s] = s
        /\ \A n \in Node \ { s } : next'[n] = IF next[n] = s THEN next[s] ELSE next[n]
    BY DEF Unlink
  <1>2. \A m, n \in Node : Together(m, n)' => Together(m, n) /\ s \notin { m, n }
    <2>1. DeviceOf(s)' = NoDevice /\ \A n \in Node \ { s } : DeviceOf(n)' = DeviceOf(n)
      BY DEF Unlink, DeviceOf, Node
    <2> QED
      BY <2>1 DEF Together
  <1>3. /\ \A n \in Node : pos[n] \in Nat
        /\ \A m, n \in Node : Together(m, n) /\ pos[m] = pos[n] => m = n
        /\ \A m, n \in Node : Together(m, n) /\ next[m] = n /\ n \in Subscription => pos[m] < pos[n]
        /\ \A m, n \in Node :
             Together(m, n) /\ pos[m] < pos[n] => next[m] \in Subscription /\ pos[next[m]] <= pos[n]
    BY DEF Ranks
  <1>4. \A n \in Node : DeviceOf(n) # NoDevice => Together(n, next[n])
    BY DEF Rings, Together
  <1>5. ASSUME NEW m \in Node, NEW n \in Subscription, Together(m, n)', next'[m] = n
        PROVE  pos[m] < pos[n]
    <2>1. CASE next[m] = s
      <3>1. Together(m, s) /\ Together(s, n) /\ n = next[s]
        BY <1>1, <1>2, <1>4, <1>5, <2>1 DEF Together
      <3> QED
        BY <1>3, <2>1, <3>1
    <2>2. CASE next[m] # s
      BY <1>1, <1>2, <1>3, <1>5, <2>2
    <2> QED
      BY <2>1, <2>2
  <1>6. ASSUME NEW m \in Node, NEW n \in Node, Together(m, n)', pos[m] < pos[n]
        PROVE  next'[m] \in Subscription /\ pos[next'[m]] <= pos[n]
    <2>1. CASE next[m] = s
      <3>1. Together(s, n) /\ n # s
        BY <1>2, <1>4, <1>6, <2>1 DEF Together
      <3>2. pos[s] <= pos[n]
        BY <1>2, <1>3, <1>6, <2>1
      <3>3. pos[s] < pos[n]
        BY <1>3, <3>1, <3>2
      <3> QED
        BY <1>1, <1>2, <1>3, <1>6, <2>1, <3>1, <3>3
    <2>2. CASE next[m] # s
      BY <1>1, <1>2, <1>3, <1>6, <2>2
    <2> QED
      BY <2>1, <2>2
  <1>7. \A t \in Subscription : Listed(t)' => Listed(t)
    BY DEF Unlink
  <1> QED
    BY <1>2, <1>3, <1>5, <1>6, <1>7 DEF Ranks

(* Nor does emptying the list of a device.                                 *)
LEMMA DeactivateRanks ==
  ASSUME EvIInv, NEW pos \in [Node -> Nat], Ranks(pos), EvDeactivate
  PROVE  Ranks(pos)'
  <1> USE NodesDiffer DEF EvIInv, EvTypeOK, Listed, ListOf
  <1>1. curW \in Device
    BY DEF EvDeactivate, WDeactivate, WorkerAt, IInv, InHand, TypeOK
  <1>2. \A n \in Node : next'[n] = IF DeviceOf(n) = curW THEN n ELSE next[n]
    BY <1>1 DEF EvDeactivate, DeviceOf, Node
  <1>3. \A t \in Subscription : owner'[t] = IF owner[t] = curW THEN NoDevice ELSE owner[t]
    BY DEF EvDeactivate
  <1>4. \A m, n \in Node : Together(m, n)' =>
          Together(m, n) /\ (DeviceOf(m) = curW => m = curW /\ n = curW)
    BY <1>1, <1>3 DEF Together, DeviceOf, Node
  <1> QED
    BY <1>1, <1>2, <1>3, <1>4 DEF Ranks

(* Nor does anything that leaves the lists alone.                          *)
LEMMA RanksUntouched ==
  ASSUME NEW pos \in [Node -> Nat], Ranks(pos), UNCHANGED listVars
  PROVE  Ranks(pos)'
  BY DEF Ranks, Together, DeviceOf, Listed, listVars

(* One step along the list: it leads to the next larger number, to the head *)
(* when there is none, or from what has ended to itself.                   *)
LEMMA NextRank ==
  ASSUME EvIInv, walk \in { "first", "next" }, NEW pos \in [Node -> Nat], Ranks(pos)
  PROVE  /\ at = curW \/ Listed(at) =>
              /\ next[at] = curW => \A s \in ListOf(curW) : ~ pos[at] < pos[s]
              /\ next[at] # curW =>
                   /\ next[at] \in ListOf(curW) /\ pos[at] < pos[next[at]]
                   /\ \A s \in ListOf(curW) :
                        pos[at] < pos[s] => s = next[at] \/ pos[next[at]] < pos[s]
         /\ at # curW /\ ~ Listed(at) => at \in Subscription /\ next[at] = at
         /\ at \in Node /\ next[at] \in Node /\ curW \in Device
  <1> USE NodesDiffer DEF EvIInv, ListOf
  <1>1. curW \in Device /\ at \in Subscription \cup { curW }
    BY DEF WalkControl, IInv, InHand, TypeOK
  <1>2. /\ next[at] \in Node /\ DeviceOf(next[at]) = DeviceOf(at)
        /\ at = curW \/ Listed(at) <=> DeviceOf(at) = curW
    BY NextIsOfSameDevice
  <1>3. ASSUME at = curW \/ Listed(at), next[at] = curW, NEW s \in ListOf(curW)
        PROVE  ~ pos[at] < pos[s]
    BY <1>1, <1>2, <1>3 DEF Ranks, Together, DeviceOf
  <1>4. ASSUME at = curW \/ Listed(at), next[at] # curW
        PROVE  /\ next[at] \in ListOf(curW) /\ pos[at] < pos[next[at]]
               /\ \A s \in ListOf(curW) :
                    pos[at] < pos[s] => s = next[at] \/ pos[next[at]] < pos[s]
    <2>1. next[at] \in ListOf(curW)
      BY <1>1, <1>2, <1>4 DEF DeviceOf, Node
    <2>2. Together(at, next[at])
      BY <1>1, <1>2, <1>4 DEF Together
    <2>3. pos[at] < pos[next[at]]
      BY <1>1, <1>2, <2>1, <2>2 DEF Ranks
    <2>4. ASSUME NEW s \in ListOf(curW), pos[at] < pos[s]
          PROVE  s = next[at] \/ pos[next[at]] < pos[s]
      <3>1. Together(at, s) /\ Together(next[at], s)
        BY <1>1, <1>2, <1>4, <2>4 DEF Together, DeviceOf
      <3>2. pos[next[at]] <= pos[s]
        BY <1>1, <2>4, <3>1 DEF Ranks
      <3>3. pos[next[at]] = pos[s] => next[at] = s
        BY <1>2, <3>1 DEF Ranks
      <3> QED
        BY <1>2, <3>2, <3>3
    <2> QED
      BY <2>1, <2>3, <2>4
  <1>5. at # curW /\ ~ Listed(at) => at \in Subscription /\ next[at] = at
    BY <1>1 DEF Rings
  <1> QED
    BY <1>1, <1>2, <1>3, <1>4, <1>5

-----------------------------------------------------------------------------
(* The walk keeps its place in the order, whatever main does to the lists.  *)

(* The numbers of those the walk remembers may change, not their order.     *)
LEMMA WalkCarried ==
  ASSUME EvIInv, NEW pos \in [Node -> Nat], Behind(pos), Ahead(pos),
         UNCHANGED << walk, at, cur, nxt, tried >>, owed' \subseteq owed,
         walk = "none" \/ UNCHANGED curW,
         NEW Kept, Kept \subseteq Node,
         { at, cur, nxt, curW } \cap Node \subseteq Kept,
         tried \subseteq Kept, owed' \subseteq Kept,
         \A s \in Subscription \cap Kept : Listed(s)' => Listed(s),
         \A s \in owed' : owner'[s] = owner[s],
         NEW new \in [Node -> Nat],
         \A m, n \in Kept :
           (pos[m] < pos[n] => new[m] < new[n]) /\ (pos[m] <= pos[n] => new[m] <= new[n])
  PROVE  Behind(new)' /\ Ahead(new)'
  <1> USE NodesDiffer DEF EvIInv
  <1>1. tried \subseteq Subscription /\ owed \subseteq Subscription
    BY SubscriptionAssumption DEF EvTypeOK
  <1>2. { cur, nxt } \subseteq Subscription \cup { NoSubscription }
    BY DEF EvTypeOK
  <1>3. walk = "none" => cur = NoSubscription /\ nxt = NoSubscription /\ owed = {}
    BY DEF WalkControl, Ahead
  <1>4. /\ { at, cur, nxt } \cap Subscription \subseteq Kept /\ tried \subseteq Kept
        /\ \A s \in Subscription : s \in { at, cur, nxt } \cup tried => (Listed(s)' => Listed(s))
    BY <1>1
  <1>5. Behind(new)'
    <2>1. ASSUME walk = "next", cur # NoSubscription
          PROVE  at \in Subscription /\ (Listed(cur)' /\ Listed(at)' => new[cur] <= new[at])
      BY <1>2, <1>4, <2>1 DEF Behind
    <2>2. ASSUME walk = "send", nxt # NoSubscription, Listed(cur)', Listed(nxt)'
          PROVE  new[cur] < new[nxt]
      <3>1. cur \in Subscription
        BY <1>2, <2>2 DEF WalkControl
      <3> QED
        BY <1>2, <1>4, <2>2, <3>1 DEF Behind
    <2>3. ASSUME cur # NoSubscription, NEW u \in tried,
                 NEW s \in { at, cur, nxt } \cap Subscription, Listed(u)', Listed(s)'
          PROVE  new[u] < new[s]
      <3>1. pos[u] < pos[s]
        BY <1>1, <1>4, <2>3 DEF Behind
      <3> QED
        BY <1>4, <3>1
    <2>4. walk \in { "none", "first" } => tried = {}
      BY DEF Behind
    <2> QED
      BY <2>1, <2>2, <2>3, <2>4 DEF Behind, Listed
  <1>6. Ahead(new)'
    <2>1. \A s \in owed' : s \in Kept /\ s \in owed /\ owner'[s] = curW'
      BY <1>3 DEF Ahead
    <2>2. ASSUME walk = "first", at = curW \/ Listed(at)', NEW s \in owed'
          PROVE  new[at] < new[s]
      <3>1. curW \in Node /\ at \in Node
        BY <2>2 DEF WalkControl, IInv, InHand, TypeOK
      <3>2. at = curW \/ Listed(at)
        BY <1>4, <2>2, <3>1 DEF WalkControl
      <3>3. pos[at] < pos[s]
        BY <2>1, <2>2, <3>2 DEF Ahead
      <3> QED
        BY <2>1, <3>1, <3>3
    <2>3. ASSUME walk = "next", cur # NoSubscription, Listed(at)', NEW s \in owed'
          PROVE  s = cur \/ new[at] < new[s]
      <3>1. at \in Subscription
        BY <2>3 DEF Behind
      <3>2. s = cur \/ pos[at] < pos[s]
        BY <1>4, <2>1, <2>3, <3>1 DEF Ahead
      <3> QED
        BY <1>4, <2>1, <3>1, <3>2
    <2>4. ASSUME walk = "send", nxt # NoSubscription, Listed(nxt)', NEW s \in owed'
          PROVE  s \in { cur, nxt } \/ new[nxt] < new[s]
      <3>1. s \in { cur, nxt } \/ pos[nxt] < pos[s]
        BY <1>2, <1>4, <2>1, <2>4 DEF Ahead
      <3> QED
        BY <1>2, <1>4, <2>1, <2>4, <3>1
    <2>5. /\ walk = "send" /\ nxt = NoSubscription => owed \subseteq { cur }
          /\ walk \in { "next", "over", "none" } /\ cur = NoSubscription => owed = {}
      BY DEF Ahead
    <2>6. walk = "first" => UNCHANGED curW
      OBVIOUS
    <2> QED
      BY <2>1, <2>2, <2>3, <2>4, <2>5, <2>6 DEF Ahead, Listed
  <1> QED
    BY <1>5, <1>6

(* A step that leaves the lists alone and the walk too, but for what it     *)
(* owes.                                                                   *)
LEMMA OrderUntouched ==
  ASSUME EvIInv, OrderInv, UNCHANGED << listVars, walk, at, cur, nxt, tried >>,
         owed' \subseteq owed,
         walk = "none" \/ UNCHANGED curW
  PROVE  OrderInv'
  <1> USE NodesDiffer DEF EvIInv, EvTypeOK
  <1>1. PICK pos \in [Node -> Nat] : Ranks(pos) /\ Behind(pos) /\ Ahead(pos)
    BY DEF OrderInv
  <1>2. Ranks(pos)'
    BY <1>1, RanksUntouched
  <1>3. Behind(pos)' /\ Ahead(pos)'
    <2>1. Behind(pos)'
      BY <1>1 DEF Behind, Listed, listVars
    <2>2. walk = "none" => owed' = {}
      BY <1>1 DEF Ahead, WalkControl
    <2>3. Ahead(pos)'
      BY <1>1, <2>2 DEF Ahead, Listed, listVars
    <2> QED
      BY <2>1, <2>3
  <1> QED
    BY <1>1, <1>2, <1>3 DEF OrderInv

(* After a new subscription there are such numbers, and the walk is among them.  *)
LEMMA SubscribeOrder ==
  ASSUME EvIInv, OrderInv, NEW d \in Device, EvSubscribe(d)
  PROVE  OrderInv'
  <1> USE NodesDiffer
  <1>1. PICK s \in Fresh : Register(s, d)
    BY DEF EvSubscribe
  <1>2. UNCHANGED walkVars /\ UNCHANGED curW
    BY DEF EvSubscribe, MServed, workerVars
  <1>3. s \in Subscription /\ ~ Listed(s) /\ s \notin { at, cur, nxt } \cup tried
    BY <1>1 DEF Fresh
  <1>4. CASE UNCHANGED listVars
    BY <1>2, <1>4, OrderUntouched DEF walkVars
  <1>5. CASE \E before \in { d } \cup ListOf(d) : Link(s, d, before)
    <2>1. PICK before \in { d } \cup ListOf(d) : Link(s, d, before)
      BY <1>5
    <2>2. PICK pos \in [Node -> Nat] : Ranks(pos) /\ Behind(pos) /\ Ahead(pos)
      BY DEF OrderInv
    <2> DEFINE new  == [n \in Node |-> IF n = s THEN 2 * pos[before] + 1 ELSE 2 * pos[n]]
               Kept == Node \ { s }
    <2>3. new \in [Node -> Nat] /\ Ranks(new)'
      BY <1>3, <2>1, <2>2, LinkRanks
    <2>4. \A m, n \in Kept :
            (pos[m] < pos[n] => new[m] < new[n]) /\ (pos[m] <= pos[n] => new[m] <= new[n])
      OBVIOUS
    <2>5. s # curW
      BY <1>3 DEF EvIInv, IInv, TypeOK
    <2>6. owed \subseteq Subscription /\ tried \subseteq Subscription
      BY SubscriptionAssumption DEF EvIInv, EvTypeOK
    <2>7. s \notin owed
      <3>1. curW = NoDevice => owed = {}
        BY <2>2 DEF Ahead, EvIInv, WalkControl, IInv, InHand, TypeOK
      <3> QED
        BY <1>3, <2>2, <3>1 DEF Ahead, Listed
    <2>8. \A t \in Subscription \ { s } : owner'[t] = owner[t]
      BY <2>1 DEF Link, EvIInv, EvTypeOK
    <2>9. UNCHANGED << walk, at, cur, nxt, tried, owed >>
      BY <1>2 DEF walkVars
    <2>10. /\ Kept \subseteq Node /\ { at, cur, nxt, curW } \cap Node \subseteq Kept
           /\ tried \subseteq Kept /\ owed' \subseteq Kept
           /\ \A t \in Subscription \cap Kept : Listed(t)' => Listed(t)
           /\ \A t \in owed' : owner'[t] = owner[t]
      BY <1>3, <2>5, <2>6, <2>7, <2>8, <2>9 DEF Listed, Node
    <2> HIDE DEF new, Kept
    <2>11. Behind(new)' /\ Ahead(new)'
      BY <1>2, <2>2, <2>3, <2>4, <2>9, <2>10, WalkCarried
    <2> QED
      BY <2>3, <2>11 DEF OrderInv
  <1> QED
    BY <1>1, <1>4, <1>5 DEF Register

(* So there are after one ended, wherever the walk is.                     *)
LEMMA EndOrder ==
  ASSUME EvIInv, OrderInv, NEW s \in Subscription, EvUnsubscribe(s) \/ EvExpire(s)
  PROVE  OrderInv'
  <1> USE NodesDiffer
  <1>1. Listed(s) /\ Unlink(s) /\ Disturb(s) /\ UNCHANGED curW
    BY PinnedAreUp DEF EvUnsubscribe, EvExpire, Listed, EvIInv, MServed, workerVars, vars
  <1>2. PICK pos \in [Node -> Nat] : Ranks(pos) /\ Behind(pos) /\ Ahead(pos)
    BY DEF OrderInv
  <1>3. Ranks(pos)'
    BY <1>1, <1>2, UnlinkRanks
  <1>4. /\ UNCHANGED << walk, at, cur, nxt, tried >>
        /\ owed' = owed \ { s }
    BY <1>1 DEF Disturb
  <1>5. \A t \in Subscription : owner'[t] = IF t = s THEN NoDevice ELSE owner[t]
    BY <1>1 DEF Unlink, EvIInv, EvTypeOK
  <1>6. tried \subseteq Node /\ owed \subseteq Subscription
    BY SubscriptionAssumption DEF EvIInv, EvTypeOK, Node
  <1>7. /\ \A t \in Subscription : Listed(t)' => Listed(t)
        /\ \A t \in owed' : owner'[t] = owner[t]
    BY <1>4, <1>5, <1>6 DEF Listed
  <1>8. Behind(pos)' /\ Ahead(pos)'
    <2> DEFINE Kept == Node
    <2>1. \A m, n \in Kept :
            (pos[m] < pos[n] => pos[m] < pos[n]) /\ (pos[m] <= pos[n] => pos[m] <= pos[n])
      OBVIOUS
    <2>2. owed' \subseteq Kept /\ owed' \subseteq owed /\ tried \subseteq Kept
      BY <1>4, <1>6 DEF Node
    <2>3. { at, cur, nxt, curW } \cap Node \subseteq Kept /\ Kept \subseteq Node
      OBVIOUS
    <2>4. \A t \in Subscription \cap Kept : Listed(t)' => Listed(t)
      BY <1>7
    <2> HIDE DEF Kept
    <2> QED
      BY <1>1, <1>2, <1>4, <1>7, <2>1, <2>2, <2>3, <2>4, WalkCarried
  <1> QED
    BY <1>2, <1>3, <1>8 DEF OrderInv

(* A walk begins at the head: all records of the list are ahead of it.     *)
LEMMA BeginOrder ==
  ASSUME EvIInv, OrderInv, EvBegin
  PROVE  OrderInv'
  <1> USE NodesDiffer DEF EvIInv
  <1>1. PICK pos \in [Node -> Nat] : Ranks(pos) /\ Behind(pos) /\ Ahead(pos)
    BY DEF OrderInv
  <1>2. curW \in Device /\ cur = NoSubscription /\ nxt = NoSubscription
    BY DEF EvBegin, IInv, InHand, TypeOK, WalkControl
  <1>3. Ranks(pos)'
    BY <1>1, RanksUntouched DEF EvBegin
  <1>4. Behind(pos)'
    BY <1>2 DEF EvBegin, Behind
  <1>5. Ahead(pos)'
    <2>1. \A s \in owed' : s \in Subscription /\ Listed(s) /\ owner[s] = curW
      BY <1>2 DEF EvBegin, ListOf, Listed
    <2>2. \A s \in owed' : pos[curW] < pos[s]
      BY <1>1, <1>2, <2>1 DEF Ranks
    <2>3. /\ walk' = "first" /\ at' = curW
          /\ UNCHANGED << owner, curW >>
      BY DEF EvBegin, listVars, vars, workerVars
    <2> QED
      BY <2>1, <2>2, <2>3 DEF Ahead
  <1> QED
    BY <1>1, <1>3, <1>4, <1>5 DEF OrderInv

(* Looking for the next record goes forward along the list.                *)
LEMMA SearchOrder ==
  ASSUME EvIInv, OrderInv,
         EvSkip \/ \E s \in Subscription \cup { NoSubscription } : EvFirst(s) \/ EvNextOne(s)
  PROVE  OrderInv'
  <1> USE NodesDiffer DEF EvIInv
  <1>1. PICK pos \in [Node -> Nat] : Ranks(pos) /\ Behind(pos) /\ Ahead(pos)
    BY DEF OrderInv
  <1>2. walk \in { "first", "next" } /\ UNCHANGED << listVars, owner, curW, tried, owed >>
    BY DEF EvSkip, EvFirst, EvNextOne, vars, workerVars, listVars
  <1>3. Ranks(pos)'
    BY <1>1, <1>2, RanksUntouched
  <1>4. /\ owed \subseteq Subscription /\ tried \subseteq Subscription
        /\ owed \subseteq Interested
        /\ { cur, nxt } \subseteq Subscription \cup { NoSubscription }
    BY SubscriptionAssumption DEF EvTypeOK
  <1>5. \A s \in owed : s \in ListOf(curW) /\ Listed(s) /\ pos[s] \in Nat
    BY <1>1, <1>2, <1>4, NextRank DEF Ahead, ListOf, Listed
  <1>6. /\ at = curW \/ Listed(at) =>
             /\ next[at] = curW => \A s \in ListOf(curW) : ~ pos[at] < pos[s]
             /\ next[at] # curW =>
                  /\ next[at] \in ListOf(curW) /\ Listed(next[at]) /\ pos[at] < pos[next[at]]
                  /\ \A s \in ListOf(curW) :
                       pos[at] < pos[s] => s = next[at] \/ pos[next[at]] < pos[s]
        /\ at # curW /\ ~ Listed(at) => at \in Subscription /\ next[at] = at
        /\ at \in Node /\ next[at] \in Node /\ curW \in Device
        /\ pos[at] \in Nat /\ pos[next[at]] \in Nat
        /\ \A s \in Subscription : pos[s] \in Nat
    BY <1>1, <1>2, NextRank DEF ListOf, Listed
  <1>7. (cur = NoSubscription /\ nxt = NoSubscription) \/ walk = "next"
    BY <1>2 DEF WalkControl
  <1>8. nxt = NoSubscription
    BY <1>2 DEF WalkControl
  <1>9. \A s : Listed(s)' <=> Listed(s)
    BY <1>2 DEF Listed
  <1>10. CASE EvSkip
    <2>1. /\ UNCHANGED << walk, cur, nxt >> /\ at' = next[at]
          /\ at' \in Subscription /\ (at' \notin Interested \/ ~ Listed(at'))
      BY <1>10 DEF EvSkip, GoesOn
    <2>2. Listed(at') => (at = curW \/ Listed(at)) /\ pos[at] < pos[at']
      BY <1>6, <2>1
    <2>3. Behind(pos)'
      <3>1. ASSUME walk = "next", cur # NoSubscription
            PROVE  Listed(cur) /\ Listed(at') => pos[cur] <= pos[at']
        <4>1. at \in Subscription /\ (Listed(cur) /\ Listed(at) => pos[cur] <= pos[at])
          BY <1>1, <3>1 DEF Behind
        <4> QED
          BY <1>4, <1>6, <2>1, <2>2, <3>1, <4>1
      <3>2. ASSUME cur # NoSubscription, NEW u \in tried,
                   NEW s \in { at', cur, nxt } \cap Subscription, Listed(u), Listed(s)
            PROVE  pos[u] < pos[s]
        <4>1. at \in Subscription
          BY <1>1, <1>2, <1>7, <3>2 DEF Behind
        <4>2. CASE s \in { cur, nxt }
          BY <1>1, <3>2, <4>2 DEF Behind
        <4>3. CASE s = at'
          <5>1. Listed(at) /\ pos[at] < pos[at']
            BY <1>6, <2>2, <3>2, <4>1, <4>3
          <5>2. pos[u] < pos[at]
            BY <1>1, <3>2, <4>1, <5>1 DEF Behind
          <5> QED
            BY <1>4, <1>6, <2>1, <4>3, <5>1, <5>2
        <4> QED
          BY <3>2, <4>2, <4>3
      <3>3. walk = "first" => tried = {}
        BY <1>1 DEF Behind
      <3> QED
        BY <1>2, <1>9, <2>1, <3>1, <3>2, <3>3 DEF Behind
    <2>4. Ahead(pos)'
      <3>1. ASSUME walk = "first", at' = curW \/ Listed(at'), NEW s \in owed
            PROVE  pos[at'] < pos[s]
        <4>1. pos[at] < pos[s]
          BY <1>1, <1>6, <2>1, <2>2, <3>1 DEF Ahead
        <4> QED
          BY <1>4, <1>5, <1>6, <2>1, <2>2, <3>1, <4>1
      <3>2. ASSUME walk = "next", cur # NoSubscription, Listed(at'), NEW s \in owed
            PROVE  s = cur \/ pos[at'] < pos[s]
        <4>1. at \in Subscription
          BY <1>1, <3>2 DEF Behind
        <4>2. s = cur \/ pos[at] < pos[s]
          BY <1>1, <1>6, <2>2, <3>2, <4>1 DEF Ahead
        <4> QED
          BY <1>4, <1>5, <1>6, <2>1, <2>2, <3>2, <4>2
      <3>3. walk = "next" /\ cur = NoSubscription => owed = {}
        BY <1>1 DEF Ahead
      <3> QED
        BY <1>1, <1>2, <1>9, <2>1, <3>1, <3>2, <3>3 DEF Ahead
    <2> QED
      BY <1>1, <1>3, <2>3, <2>4 DEF OrderInv
  <1>11. ASSUME NEW s \in Subscription \cup { NoSubscription }, EvFirst(s)
         PROVE  OrderInv'
    <2>1. /\ walk = "first" /\ walk' = "next" /\ cur' = s /\ at' = Head(s) /\ nxt' = nxt
          /\ tried = {}
      BY <1>1, <1>11 DEF EvFirst, Behind
    <2>2. Behind(pos)'
      BY <1>2, <1>6, <1>11, <2>1 DEF Behind, Head
    <2>3. CASE s = NoSubscription
      <3>1. next[at] = curW /\ (at = curW \/ Listed(at))
        BY <1>6, <1>11, <2>3 DEF EvFirst, Finds
      <3>2. owed = {}
        BY <1>1, <1>5, <1>6, <2>1, <3>1 DEF Ahead
      <3> QED
        BY <1>1, <1>2, <1>3, <2>1, <2>2, <2>3, <3>2 DEF Ahead, OrderInv
    <2>4. CASE s \in Subscription
      <3>1. next[at] = s
        BY <1>11, <2>4 DEF EvFirst, Finds
      <3>2. ASSUME Listed(s), NEW o \in owed PROVE o = s \/ pos[s] < pos[o]
        <4>1. at = curW \/ Listed(at)
          BY <1>6, <3>1, <3>2
        <4>2. pos[at] < pos[o]
          BY <1>1, <2>1, <3>2, <4>1 DEF Ahead
        <4> QED
          BY <1>5, <1>6, <2>4, <3>1, <3>2, <4>1, <4>2
      <3>3. at' = s
        BY <2>1, <2>4 DEF Head
      <3>4. Ahead(pos)'
        BY <1>1, <1>2, <1>9, <2>1, <2>4, <3>2, <3>3 DEF Ahead
      <3> QED
        BY <1>1, <1>3, <2>2, <3>4 DEF OrderInv
    <2> QED
      BY <2>3, <2>4
  <1>12. ASSUME NEW s \in Subscription \cup { NoSubscription }, EvNextOne(s)
         PROVE  OrderInv'
    <2>1. walk = "next" /\ UNCHANGED cur /\ at' = NoDevice
      BY <1>12 DEF EvNextOne
    <2>2. CASE cur = NoSubscription
      <3>1. walk' = "over" /\ nxt' = NoSubscription /\ owed = {}
        BY <1>1, <1>12, <2>1, <2>2 DEF EvNextOne, Ahead
      <3> QED
        BY <1>1, <1>2, <1>3, <2>1, <2>2, <3>1 DEF Behind, Ahead, OrderInv
    <2>3. CASE cur # NoSubscription
      <3>1. walk' = "send" /\ nxt' = s /\ cur \in Subscription
        BY <1>4, <1>12, <2>1, <2>3 DEF EvNextOne
      <3>2. at \in Subscription /\ (Listed(cur) /\ Listed(at) => pos[cur] <= pos[at])
        BY <1>1, <2>1, <2>3 DEF Behind
      <3>3. \A u \in tried, x \in { at, cur } \cap Subscription :
              Listed(u) /\ Listed(x) => pos[u] < pos[x]
        BY <1>1, <2>3 DEF Behind
      <3>4. Listed(at) => \A o \in owed : o = cur \/ pos[at] < pos[o]
        BY <1>1, <2>1, <2>3 DEF Ahead
      <3>5. CASE s = NoSubscription
        <4>1. next[at] = curW /\ Listed(at)
          BY <1>6, <1>12, <3>2, <3>5 DEF EvNextOne, Finds
        <4>2. owed \subseteq { cur }
          BY <1>5, <1>6, <3>4, <4>1
        <4>3. Behind(pos)'
          BY <1>2, <1>9, <2>1, <2>3, <3>1, <3>3, <3>5 DEF Behind
        <4>4. Ahead(pos)'
          BY <1>1, <1>2, <2>1, <2>3, <3>1, <3>5, <4>2 DEF Ahead
        <4> QED
          BY <1>1, <1>3, <4>3, <4>4 DEF OrderInv
      <3>6. CASE s \in Subscription
        <4>1. next[at] = s
          BY <1>12, <3>6 DEF EvNextOne, Finds
        <4>2. Listed(s) => Listed(at) /\ pos[at] < pos[s]
          BY <1>6, <3>2, <3>6, <4>1
        <4>3. Listed(cur) /\ Listed(s) => pos[cur] < pos[s]
          BY <1>6, <3>1, <3>2, <3>6, <4>2
        <4>4. \A u \in tried : Listed(u) /\ Listed(s) => pos[u] < pos[s]
          BY <1>4, <1>6, <3>2, <3>3, <3>6, <4>2
        <4>5. Listed(s) => \A o \in owed : o \in { cur, s } \/ pos[s] < pos[o]
          BY <1>5, <1>6, <3>4, <4>1, <4>2
        <4>6. Behind(pos)'
          BY <1>2, <1>9, <2>1, <2>3, <3>1, <3>3, <4>3, <4>4 DEF Behind
        <4>7. Ahead(pos)'
          BY <1>1, <1>2, <1>9, <2>1, <2>3, <3>1, <3>6, <4>5 DEF Ahead
        <4> QED
          BY <1>1, <1>3, <4>6, <4>7 DEF OrderInv
      <3> QED
        BY <3>5, <3>6
    <2> QED
      BY <2>2, <2>3
  <1> QED
    BY <1>10, <1>11, <1>12

(* The walk does not cut off its own way: it ends cur when it goes on to    *)
(* another one.                                                            *)
LEMMA SendOrder ==
  ASSUME EvIInv, OrderInv, EvSend \/ EvSendFailed
  PROVE  /\ OrderInv'
         /\ nxt # NoSubscription /\ Listed(nxt) => owner'[nxt] # NoDevice
  <1> USE NodesDiffer DEF EvIInv
  <1>1. PICK pos \in [Node -> Nat] : Ranks(pos) /\ Behind(pos) /\ Ahead(pos)
    BY DEF OrderInv
  <1>2. /\ walk = "send" /\ Advance /\ cur \in Subscription
        /\ nxt \in Subscription \cup { NoSubscription }
        /\ owed \subseteq Subscription /\ tried \subseteq Subscription
        /\ curW \in Device
    BY SubscriptionAssumption
    DEF EvSend, EvSendFailed, WalkControl, EvTypeOK, IInv, InHand, TypeOK
  <1>3. /\ walk' = "next" /\ cur' = nxt /\ nxt' = NoSubscription /\ at' = Head(nxt)
        /\ tried' = tried \cup { cur } /\ owed' = owed \ { cur } /\ UNCHANGED curW
    BY <1>2 DEF Advance, vars, workerVars
  <1>4. nxt # NoSubscription /\ Listed(cur) /\ Listed(nxt) => pos[cur] < pos[nxt]
    BY <1>1, <1>2 DEF Behind
  <1>5. /\ Ranks(pos)'
        /\ \A t \in Subscription : Listed(t)' => Listed(t)
        /\ \A t \in Subscription \ { cur } : owner'[t] = owner[t]
    <2>1. CASE UNCHANGED listVars
      BY <1>1, <2>1, RanksUntouched DEF Listed, listVars
    <2>2. CASE Listed(cur) /\ Unlink(cur)
      <3>1. \A t \in Subscription : owner'[t] = IF t = cur THEN NoDevice ELSE owner[t]
        BY <2>2 DEF Unlink, EvTypeOK
      <3> QED
        BY <1>1, <1>2, <2>2, <3>1, UnlinkRanks DEF Listed
    <2> QED
      BY <2>1, <2>2 DEF EvSend, EvSendFailed
  <1>6. nxt # NoSubscription /\ Listed(nxt) => owner'[nxt] # NoDevice
    <2>1. CASE nxt = cur
      <3>1. ~ Listed(cur) \/ nxt = NoSubscription
        BY <1>1, <1>2, <1>4, <2>1
      <3> QED
        BY <2>1, <3>1
    <2>2. CASE nxt # cur
      BY <1>2, <1>5, <2>2 DEF Listed
    <2> QED
      BY <2>1, <2>2
  <1>7. /\ pos[cur] \in Nat
        /\ nxt # NoSubscription => pos[nxt] \in Nat /\ Head(nxt) = nxt
    BY <1>2 DEF Head
  <1>8. Behind(pos)'
    <2>1. ASSUME nxt # NoSubscription, NEW u \in tried \cup { cur }, Listed(u), Listed(nxt)
          PROVE  pos[u] < pos[nxt]
      <3>1. CASE u = cur
        BY <1>4, <2>1, <3>1
      <3>2. CASE u \in tried
        BY <1>1, <1>2, <2>1, <3>2 DEF Behind
      <3> QED
        BY <2>1, <3>1, <3>2
    <2> QED
      BY <1>2, <1>3, <1>5, <1>7, <2>1 DEF Behind
  <1>9. Ahead(pos)'
    <2>1. \A o \in owed' : owner'[o] = curW
      BY <1>1, <1>2, <1>3, <1>5 DEF Ahead
    <2>2. nxt = NoSubscription => owed' = {}
      BY <1>1, <1>2, <1>3 DEF Ahead
    <2>3. ASSUME nxt # NoSubscription, Listed(nxt), NEW o \in owed'
          PROVE  o = nxt \/ pos[nxt] < pos[o]
      BY <1>1, <1>2, <1>3, <2>3 DEF Ahead
    <2> QED
      BY <1>2, <1>3, <1>5, <1>7, <2>1, <2>2, <2>3 DEF Ahead
  <1> QED
    BY <1>1, <1>5, <1>6, <1>8, <1>9 DEF OrderInv

(* A walk that is over has nothing behind or ahead of it.                  *)
LEMMA DeliveredOrder ==
  ASSUME EvIInv, OrderInv, EvDelivered \/ EvDeactivate
  PROVE  OrderInv'
  <1> USE NodesDiffer DEF EvIInv
  <1>1. PICK pos \in [Node -> Nat] : Ranks(pos) /\ Behind(pos) /\ Ahead(pos)
    BY DEF OrderInv
  <1>2. Ranks(pos)'
    BY <1>1, RanksUntouched, DeactivateRanks DEF EvDelivered
  <1>3. walk' = "none" /\ cur' = NoSubscription /\ tried' = {} /\ owed' = {}
    <2>1. CASE EvDelivered
      BY <2>1 DEF EvDelivered, WalkControl
    <2>2. CASE EvDeactivate
      BY <1>1, <2>2 DEF EvDeactivate, WDeactivate, WorkerAt, WalkControl, walkVars, Behind, Ahead
    <2> QED
      BY <2>1, <2>2
  <1>4. Behind(pos)' /\ Ahead(pos)'
    BY <1>3 DEF Behind, Ahead
  <1> QED
    BY <1>1, <1>2, <1>4 DEF OrderInv

(* What the core's own steps do to the walk: nothing. *)
LEMMA WalkUntouched ==
  ASSUME EvIInv, \/ EvServed \/ EvMainElse \/ EvLost \/ EvWorkerElse \/ EvEnvironment
                 \/ UNCHANGED evVars
  PROVE  UNCHANGED << listVars, walkVars >> /\ (walk = "none" \/ UNCHANGED curW)
  <1>1. CASE EvServed \/ EvMainElse \/ EvEnvironment \/ UNCHANGED evVars
    BY <1>1 DEF EvServed, EvMainElse, EvEnvironment, MLoop, MLock, MWait, MGoOn, MReacquire,
                MCount, MCollect, MTimeout, MAccept, MSend, MServed, MUnlock, MSweepLock,
                MSweep, MSweepUnlock, MJoin, MSpuriousWakeup, Sigint, Terminated,
                workerVars, vars, evVars
  <1>2. CASE EvLost
    BY <1>2 DEF EvLost
  <1>3. CASE EvWorkerElse
    <2>1. walk = "none"
      BY <1>3 DEF EvWorkerElse, EvIInv, WalkControl, WCheck, WSelect, WStop, WScanned, WNothing,
                  WBuild, WMessage, WCleanup, WAddLock, WAdd, WAddUnlock, WNotify, WDelLock,
                  WDel, WDelUnlock, WFree, WCleaned, WBcastLock, WBcast, WBcastUnlock, WorkerAt
    <2> QED
      BY <1>3, <2>1 DEF EvWorkerElse
  <1> QED
    BY <1>1, <1>2, <1>3

(* Every step preserves the order of the walk.                             *)
LEMMA NextOrder ==
  ASSUME EvIInv, OrderInv, [EvNext]_evVars
  PROVE  OrderInv'
  <1>1. CASE \/ EvServed \/ EvMainElse \/ EvLost \/ EvWorkerElse \/ EvEnvironment
             \/ UNCHANGED evVars
    BY <1>1, WalkUntouched, OrderUntouched DEF walkVars
  <1>2. CASE EvSend \/ EvSendFailed
    BY <1>2, SendOrder
  <1>3. CASE EvDelivered \/ EvDeactivate
    BY <1>3, DeliveredOrder
  <1> QED
    BY <1>1, <1>2, <1>3, SubscribeOrder, EndOrder, BeginOrder, SearchOrder
    DEF EvNext, EvMain, EvWorker

(* Every step preserves that the walk keeps its place.                     *)
LEMMA NextKeepsItsPlace ==
  ASSUME EvIInv, OrderInv, WalkKeepsItsPlace, [EvNext]_evVars
  PROVE  WalkKeepsItsPlace'
  <1> USE NodesDiffer DEF EvIInv, WalkKeepsItsPlace, Listed
  <1>1. CASE \/ EvServed \/ EvMainElse \/ EvLost \/ EvWorkerElse \/ EvEnvironment
             \/ UNCHANGED evVars
    BY <1>1, WalkUntouched DEF walkVars, listVars
  <1>2. ASSUME NEW d \in Device, EvSubscribe(d)
        PROVE  WalkKeepsItsPlace'
    <2>1. PICK s \in Fresh : Register(s, d)
      BY <1>2 DEF EvSubscribe
    <2>2. \A t \in Subscription : Listed(t) => owner'[t] = owner[t]
      BY <2>1 DEF Register, Link, EvTypeOK, Fresh, listVars
    <2> QED
      BY <1>2, <2>2 DEF EvSubscribe, walkVars
  <1>3. ASSUME NEW s \in Subscription, EvUnsubscribe(s) \/ EvExpire(s)
        PROVE  WalkKeepsItsPlace'
    <2>1. Listed(s) /\ Unlink(s) /\ Disturb(s)
      BY <1>3, PinnedAreUp DEF EvUnsubscribe, EvExpire
    <2>2. \A t \in Subscription : owner'[t] = IF t = s THEN NoDevice ELSE owner[t]
      BY <2>1 DEF Unlink, EvTypeOK
    <2> QED
      BY <2>1, <2>2 DEF Disturb, WalkControl
  <1>4. CASE EvBegin
    BY <1>4 DEF EvBegin, WalkControl, IInv, InHand, TypeOK, listVars
  <1>5. ASSUME NEW s \in Subscription \cup { NoSubscription },
               EvSkip \/ EvFirst(s) \/ EvNextOne(s)
        PROVE  WalkKeepsItsPlace'
    <2>1. /\ walk \in { "first", "next" } /\ UNCHANGED << disturbed, owner >>
      BY <1>5 DEF EvSkip, EvFirst, EvNextOne, listVars
    <2>2. PICK pos \in [Node -> Nat] : Ranks(pos)
      BY DEF OrderInv
    <2>3. ~ disturbed => next[at] = curW \/ next[at] \in ListOf(curW)
      <3>1. ~ disturbed => at = curW \/ Listed(at)
        BY <2>1 DEF WalkControl
      <3> QED
        BY <2>1, <2>2, <3>1, NextRank
    <2>4. curW \in Device
      BY <2>1, <2>2, NextRank
    <2> QED
      <3>1. CASE EvSkip
        BY <2>1, <2>3, <2>4, <3>1 DEF EvSkip, ListOf
      <3>2. CASE EvFirst(s)
        <4>1. s \in Subscription => s = next[at]
          BY <3>2 DEF EvFirst, Finds
        <4>2. /\ cur' = s /\ nxt' = nxt /\ at' = IF s = NoSubscription THEN curW ELSE s
          BY <3>2 DEF EvFirst, Head
        <4> QED
          BY <2>1, <2>3, <2>4, <4>1, <4>2 DEF ListOf
      <3>3. CASE EvNextOne(s)
        <4>1. s \in Subscription => s = next[at]
          BY <3>3 DEF EvNextOne, Finds
        <4>2. cur' = cur /\ nxt' \in { s, NoSubscription } /\ at' = NoDevice
          BY <3>3 DEF EvNextOne
        <4> QED
          BY <2>1, <2>3, <2>4, <4>1, <4>2 DEF ListOf
      <3> QED
        BY <1>5, <3>1, <3>2, <3>3
  <1>6. CASE EvSend \/ EvSendFailed
    <2>1. walk = "send" /\ Advance /\ curW \in Device
      BY <1>6 DEF EvSend, EvSendFailed, WalkControl, IInv, InHand, TypeOK
    <2>2. nxt \in Subscription /\ Listed(nxt) => owner'[nxt] # NoDevice
      BY <1>6, SendOrder
    <2> QED
      BY <2>1, <2>2 DEF Advance, Head, EvTypeOK
  <1>7. CASE EvDelivered \/ EvDeactivate
    <2>1. walk \in { "none", "over" }
      BY <1>7 DEF EvDelivered, EvDeactivate, WDeactivate, WorkerAt, WalkControl
    <2> QED
      BY <1>7, <2>1 DEF EvDelivered, EvDeactivate, WalkControl, walkVars
  <1> QED
    BY <1>1, <1>2, <1>3, <1>4, <1>5, <1>6, <1>7 DEF EvNext, EvMain, EvWorker

(* No walk is under way to begin with, and all lists are empty.            *)
LEMMA InitOrder == EvInit => OrderInv /\ WalkKeepsItsPlace
  <1> SUFFICES ASSUME EvInit PROVE OrderInv /\ WalkKeepsItsPlace
    OBVIOUS
  <1> USE NodesDiffer DEF EvInit
  <1> DEFINE pos == [n \in Node |-> 0]
  <1>1. pos \in [Node -> Nat] /\ \A n \in Node : pos[n] = 0
    OBVIOUS
  <1> HIDE DEF pos
  <1>2. Ranks(pos)
    BY <1>1 DEF Ranks, Together, DeviceOf, Listed, Node
  <1>3. Behind(pos) /\ Ahead(pos)
    BY DEF Behind, Ahead
  <1>4. WalkKeepsItsPlace
    BY DEF WalkKeepsItsPlace
  <1> QED
    BY <1>1, <1>2, <1>3, <1>4 DEF OrderInv

(* The numbers exist in every reachable state, and a walk main did not      *)
(* disturb is in the list.                                                 *)
LEMMA EvOrder == EvSpec => [](OrderInv /\ WalkKeepsItsPlace)
  BY EvInductiveInvariant, InitOrder, NextOrder, NextKeepsItsPlace, PTL DEF EvSpec

(* Unless main ends a subscription of the device meanwhile, the walk of the *)
(* worker stays in the list, also where it ends subscriptions itself.      *)
THEOREM EvKeepsItsPlace == EvSpec => []WalkKeepsItsPlace
  BY EvOrder, PTL

(* No delivery sends an event to a subscription twice, however main changes *)
(* the list under the walk.                                                *)
THEOREM EvSendsOnce == EvSpec => []EventOncePerDelivery
  <1>1. EvIInv /\ OrderInv => EventOncePerDelivery
    <2> SUFFICES ASSUME EvIInv, OrderInv, walk = "send", Listed(cur), cur \in tried
                 PROVE  FALSE
      BY DEF EventOncePerDelivery
    <2>1. PICK pos \in [Node -> Nat] : Behind(pos)
      BY DEF OrderInv
    <2>2. cur \in Subscription /\ cur # NoSubscription
      BY DEF EvIInv, EvTypeOK, WalkControl
    <2>3. pos[cur] < pos[cur] /\ pos[cur] \in Nat
      BY <2>1, <2>2 DEF Behind, Node
    <2> QED
      BY <2>3
  <1> QED
    BY EvInductiveInvariant, EvOrder, <1>1, PTL

(* A delivery that ends has sent the event to everyone who had subscribed   *)
(* when it began and whose subscription main has not ended meanwhile.      *)
THEOREM EvReachesAll == EvSpec => []EventReachesAll
  <1>1. EvIInv /\ OrderInv => EventReachesAll
    BY DEF EvIInv, WalkControl, OrderInv, Ahead, EventReachesAll
  <1> QED
    BY EvInductiveInvariant, EvOrder, <1>1, PTL

-----------------------------------------------------------------------------
(* The walks implement the event source.                                   *)

(* Whom the walk has found and is still in the list has asked for the event. *)
Asking == \A s \in { cur, nxt } \cap Subscription : Listed(s) => s \in Interested

(* Every step preserves it.                                                *)
LEMMA NextAsking ==
  ASSUME EvIInv, Asking, [EvNext]_evVars
  PROVE  Asking'
  <1> USE NodesDiffer DEF EvIInv, Asking, Listed
  <1>1. CASE \/ EvServed \/ EvMainElse \/ EvLost \/ EvWorkerElse \/ EvEnvironment
             \/ UNCHANGED evVars
    BY <1>1, WalkUntouched DEF walkVars, listVars
  <1>2. ASSUME NEW d \in Device, EvSubscribe(d)
        PROVE  Asking'
    <2>1. PICK s \in Fresh : Register(s, d)
      BY <1>2 DEF EvSubscribe
    <2>2. \A t \in Subscription : t # s => owner'[t] = owner[t]
      BY <2>1 DEF Register, Link, EvTypeOK, listVars
    <2>3. s \notin { cur, nxt } /\ UNCHANGED << cur, nxt >>
      BY <1>2 DEF EvSubscribe, walkVars, Fresh
    <2> QED
      BY <2>2, <2>3
  <1>3. ASSUME NEW s \in Subscription, EvUnsubscribe(s) \/ EvExpire(s)
        PROVE  Asking'
    <2>1. Unlink(s) /\ Disturb(s)
      BY <1>3 DEF EvUnsubscribe, EvExpire
    <2>2. \A t \in Subscription : owner'[t] = IF t = s THEN NoDevice ELSE owner[t]
      BY <2>1 DEF Unlink, EvTypeOK
    <2> QED
      BY <2>1, <2>2 DEF Disturb
  <1>4. CASE EvBegin \/ EvSkip \/ EvDelivered
    BY <1>4 DEF EvBegin, EvSkip, EvDelivered, listVars
  <1>5. ASSUME NEW s \in Subscription \cup { NoSubscription }, EvFirst(s) \/ EvNextOne(s)
        PROVE  Asking'
    <2>1. s \in Subscription /\ Listed(s) => s \in Interested
      BY <1>5 DEF EvFirst, EvNextOne, Finds
    <2>2. cur' \in { cur, s } /\ nxt' \in { nxt, s, NoSubscription } /\ UNCHANGED owner
      BY <1>5 DEF EvFirst, EvNextOne, listVars
    <2> QED
      BY <2>1, <2>2
  <1>6. CASE EvSend \/ EvSendFailed
    <2>1. walk = "send" /\ Advance
      BY <1>6 DEF EvSend, EvSendFailed
    <2>2. \A t \in Subscription : owner'[t] \in { owner[t], NoDevice }
      BY <1>6, <2>1 DEF EvSend, EvSendFailed, Unlink, EvTypeOK, listVars, WalkControl
    <2>3. cur' = nxt /\ nxt' = NoSubscription
      BY <2>1 DEF Advance
    <2> QED
      BY <2>2, <2>3
  <1>7. CASE EvDeactivate
    <2>1. \A t \in Subscription : owner'[t] \in { owner[t], NoDevice }
      BY <1>7 DEF EvDeactivate, EvTypeOK
    <2> QED
      BY <1>7, <2>1 DEF EvDeactivate, walkVars
  <1> QED
    BY <1>1, <1>2, <1>3, <1>4, <1>5, <1>6, <1>7 DEF EvNext, EvMain, EvWorker

(* The walk has found nobody to begin with.                                *)
LEMMA EvAsking == EvSpec => []Asking
  <1>1. EvInit => Asking
    BY NodesDiffer DEF EvInit, Asking
  <1> QED
    BY <1>1, EvInductiveInvariant, NextAsking, PTL DEF EvSpec

(* The event source of the model is that of its definition.                *)
delivering == IF walk = "none" THEN NoDevice ELSE curW

(* A step of the walk or of a thread that the event source does not see.    *)
LEMMA SourceStutters ==
  ASSUME UNCHANGED << owner, tried, owed >>, UNCHANGED delivering
  PROVE  UNCHANGED Source!vars
  BY DEF Source!vars, delivering

(* Main's changes of the lists are the comings and goings of subscriptions.  *)
LEMMA MainImplementsSource ==
  ASSUME EvIInv,
         \/ \E d \in Device : EvSubscribe(d)
         \/ \E s \in Subscription : EvUnsubscribe(s) \/ EvExpire(s)
  PROVE  [Source!Next]_Source!vars
  <1> USE DEF EvIInv
  <1>1. ASSUME NEW d \in Device, EvSubscribe(d)
        PROVE  [Source!Next]_Source!vars
    <2>1. PICK s \in Fresh : Register(s, d)
      BY <1>1 DEF EvSubscribe
    <2>2. UNCHANGED << delivering, tried, owed >>
      BY <1>1 DEF EvSubscribe, MServed, workerVars, walkVars, delivering
    <2>3. CASE UNCHANGED owner
      BY <2>2, <2>3, SourceStutters
    <2>4. CASE owner' = [owner EXCEPT ![s] = d]
      <3>1. s \in Subscription /\ owner[s] = NoDevice /\ s \notin tried
        BY DEF Fresh, Listed
      <3>2. Source!Subscribe(s, d)
        BY <2>2, <2>4, <3>1 DEF Source!Subscribe, Source!Subscribed, delivering
      <3> QED
        BY <3>1, <3>2 DEF Source!Next
    <2> QED
      BY <2>1, <2>3, <2>4 DEF Register, Link, listVars
  <1>2. ASSUME NEW s \in Subscription, EvUnsubscribe(s) \/ EvExpire(s)
        PROVE  [Source!Next]_Source!vars
    <2>1. Listed(s) /\ Unlink(s) /\ Disturb(s)
      BY <1>2, PinnedAreUp, NodesDiffer DEF EvUnsubscribe, EvExpire, Listed
    <2>2. UNCHANGED << delivering, tried >> /\ owed' = owed \ { s }
      BY <1>2, <2>1 DEF EvUnsubscribe, EvExpire, MServed, workerVars, vars, Disturb, delivering
    <2>3. owner' = [owner EXCEPT ![s] = NoDevice]
      BY <2>1 DEF Unlink
    <2>4. Source!End(s)
      BY <2>1, <2>2, <2>3 DEF Source!End, Source!Subscribed, Listed, delivering
    <2> QED
      BY <2>4 DEF Source!Next
  <1> QED
    BY <1>1, <1>2

(* Delivery by the worker is that of the event source, and the end of the   *)
(* device closes it.                                                       *)
LEMMA WorkerImplementsSource ==
  ASSUME EvIInv, OrderInv, EventOncePerDelivery, EventReachesAll, Asking,
         \/ EvBegin \/ EvSkip \/ EvSend \/ EvSendFailed \/ EvDelivered \/ EvDeactivate
         \/ \E s \in Subscription \cup { NoSubscription } : EvFirst(s) \/ EvNextOne(s)
  PROVE  [Source!Next]_Source!vars
  <1> USE NodesDiffer DEF EvIInv
  <1>1. CASE EvBegin
    <2>1. curW \in Device
      BY <1>1 DEF EvBegin, IInv, InHand, TypeOK
    <2>2. delivering = NoDevice /\ delivering' = curW
      BY <1>1 DEF EvBegin, delivering, vars, workerVars
    <2>3. tried' = {} /\ owed' = { s \in Interested : owner[s] = curW } /\ UNCHANGED owner
      BY <1>1, SubscriptionAssumption DEF EvBegin, ListOf, listVars
    <2>4. Source!Begin(curW)
      BY <2>2, <2>3 DEF Source!Begin, delivering
    <2> QED
      BY <2>1, <2>4 DEF Source!Next
  <1>2. CASE EvSkip \/ \E s \in Subscription \cup { NoSubscription } : EvFirst(s) \/ EvNextOne(s)
    <2>1. walk # "none" /\ walk' # "none" /\ UNCHANGED << curW, owner, tried, owed >>
      BY <1>2 DEF EvSkip, EvFirst, EvNextOne, vars, workerVars, listVars
    <2> QED
      BY <2>1, SourceStutters DEF delivering
  <1>3. CASE EvSend \/ EvSendFailed
    <2>1. walk = "send" /\ Advance
      BY <1>3 DEF EvSend, EvSendFailed
    <2>2. curW \in Device /\ cur \in Subscription
      BY <2>1 DEF WalkControl, IInv, InHand, TypeOK, EvTypeOK
    <2>3. delivering = curW /\ delivering' = curW
      BY <2>1 DEF Advance, delivering, vars, workerVars
    <2>4. Listed(cur) => owner[cur] = curW /\ cur \in Interested /\ cur \notin tried
      BY <2>1, <2>2 DEF WalkControl, Asking, EventOncePerDelivery
    <2>5. tried' = tried \cup { cur } /\ owed' = owed \ { cur }
      BY <2>1 DEF Advance
    <2>6. owner' \in { owner, [owner EXCEPT ![cur] = NoDevice] }
      BY <1>3 DEF EvSend, EvSendFailed, Unlink, listVars
    <2>7. Source!Send(cur)
      BY <2>2, <2>3, <2>4, <2>5, <2>6 DEF Source!Send, Source!Subscribed, Listed, delivering
    <2> QED
      BY <2>2, <2>7 DEF Source!Next
  <1>4. CASE EvDelivered
    <2>1. /\ walk' = "none" /\ tried' = {} /\ owed' = {} /\ UNCHANGED owner
          /\ walk \in { "none", "over" } /\ pcW = "deliver"
      BY <1>4 DEF EvDelivered, WDelivered, WorkerAt, listVars
    <2>2. delivering' = NoDevice
      BY <2>1 DEF delivering
    <2>3. CASE walk = "none"
      <3>1. tried = {} /\ owed = {}
        <4>1. PICK pos \in [Node -> Nat] : Behind(pos) /\ Ahead(pos)
          BY DEF OrderInv
        <4> QED
          BY <2>3, <4>1 DEF WalkControl, Behind, Ahead
      <3> QED
        BY <2>1, <2>2, <2>3, <3>1, SourceStutters DEF delivering
    <2>4. CASE walk = "over"
      <3>1. delivering = curW /\ curW \in Device /\ owed = {}
        BY <2>1, <2>4 DEF delivering, EventReachesAll, IInv, InHand, TypeOK
      <3>2. Source!Finish
        BY <2>1, <2>2, <3>1 DEF Source!Finish, delivering
      <3> QED
        BY <3>2 DEF Source!Next
    <2> QED
      BY <2>1, <2>3, <2>4
  <1>5. CASE EvDeactivate
    <2>1. walk = "none" /\ UNCHANGED << walk, tried, owed >> /\ curW \in Device
      BY <1>5 DEF EvDeactivate, WDeactivate, WorkerAt, walkVars, WalkControl, IInv, InHand, TypeOK
    <2>2. owner' = [s \in Subscription |-> IF owner[s] = curW THEN NoDevice ELSE owner[s]]
      BY <1>5 DEF EvDeactivate, ListOf
    <2>3. delivering = NoDevice /\ delivering' = NoDevice
      BY <2>1 DEF delivering
    <2>4. Source!Close(curW)
      BY <2>1, <2>2, <2>3 DEF Source!Close, delivering
    <2> QED
      BY <2>1, <2>4 DEF Source!Next
  <1> QED
    BY <1>1, <1>2, <1>3, <1>4, <1>5

(* Whatever main does to the lists during a delivery, what clients see is    *)
(* an event source: subscriptions come and go, a delivery sends to nobody   *)
(* who did not ask and to nobody twice, and ends when nobody is owed the    *)
(* event any more (dpws_for_each_subs, ws4d_subsm).                        *)
THEOREM EvImplementsSource == EvSpec => EventSourceSpec
  <1>1. EvInit => Source!Init
    BY DEF EvInit, Source!Init
  <1>2. ASSUME EvIInv, OrderInv, EventOncePerDelivery, EventReachesAll, Asking, [EvNext]_evVars
        PROVE  [Source!Next]_Source!vars
    <2>1. CASE \/ EvServed \/ EvMainElse \/ EvLost \/ EvWorkerElse \/ EvEnvironment
               \/ UNCHANGED evVars
      <3>1. UNCHANGED << listVars, walkVars >> /\ (walk = "none" \/ UNCHANGED curW)
        BY <1>2, <2>1, WalkUntouched
      <3>2. UNCHANGED << owner, tried, owed >> /\ UNCHANGED delivering
        BY <3>1 DEF listVars, walkVars, delivering
      <3> QED
        BY <3>2, SourceStutters
    <2>2. CASE \/ \E d \in Device : EvSubscribe(d)
               \/ \E s \in Subscription : EvUnsubscribe(s) \/ EvExpire(s)
      BY <1>2, <2>2, MainImplementsSource
    <2>3. CASE \/ EvBegin \/ EvSkip \/ EvSend \/ EvSendFailed \/ EvDelivered \/ EvDeactivate
               \/ \E s \in Subscription \cup { NoSubscription } : EvFirst(s) \/ EvNextOne(s)
      BY <1>2, <2>3, WorkerImplementsSource
    <2> QED
      BY <1>2, <2>1, <2>2, <2>3 DEF EvNext, EvMain, EvWorker
  <1> QED
    BY <1>1, <1>2, EvInductiveInvariant, EvOrder, EvSendsOnce, EvReachesAll, EvAsking, PTL
    DEF EvSpec, EventSourceSpec, Source!Spec
=============================================================================
