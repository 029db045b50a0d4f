---------------------------- MODULE EventSource ----------------------------
(***************************************************************************)
(* What the gateway promises those who subscribe to the events of its      *)
(* devices, whatever the lists of subscriptions look like and whoever      *)
(* works on them.  Subscriptions come and go at any time, also while an     *)
(* event is delivered.  A delivery sends the event to nobody who has not   *)
(* asked for it and to nobody twice, and it is not over before everyone    *)
(* who was there when it began has been sent the event or has gone.        *)
(***************************************************************************)
CONSTANTS Device,         \* the event sources
          NoDevice,
          Subscription,   \* memory for the subscriptions
          Interested      \* those that ask for the event that is delivered

VARIABLES source,         \* the device a subscription is for
          delivering,     \* the device whose event is delivered
          told,           \* whom it was sent to
          pending         \* who is still to get it

vars == << source, delivering, told, pending >>

Subscribed(s) == source[s] # NoDevice

TypeOK ==
  /\ source \in [Subscription -> Device \cup { NoDevice }]
  /\ delivering \in Device \cup { NoDevice }
  /\ told \in SUBSET Subscription
  /\ pending \in SUBSET Interested

Init ==
  /\ source = [s \in Subscription |-> NoDevice]
  /\ delivering = NoDevice
  /\ told = {} /\ pending = {}

(* A subscription that has ended and was sent the event is not used again   *)
(* before the delivery is over.                                            *)
Subscribe(s, d) ==
  /\ ~ Subscribed(s) /\ s \notin told
  /\ source' = [source EXCEPT ![s] = d]
  /\ UNCHANGED << delivering, told, pending >>

(* The client takes it back, or its time is over. *)
End(s) ==
  /\ Subscribed(s)
  /\ source' = [source EXCEPT ![s] = NoDevice]
  /\ pending' = pending \ { s }
  /\ UNCHANGED << delivering, told >>

Begin(d) ==
  /\ delivering = NoDevice
  /\ delivering' = d
  /\ told' = {}
  /\ pending' = { s \in Interested : source[s] = d }
  /\ UNCHANGED source

(* A subscription that ended a moment ago may still be sent the event; one   *)
(* whose client cannot be reached is ended.                                *)
Send(s) ==
  /\ delivering # NoDevice
  /\ Subscribed(s) => source[s] = delivering /\ s \in Interested /\ s \notin told
  /\ told' = told \cup { s }
  /\ pending' = pending \ { s }
  /\ source' \in { source, [source EXCEPT ![s] = NoDevice] }
  /\ UNCHANGED delivering

Finish ==
  /\ delivering # NoDevice
  /\ pending = {}
  /\ delivering' = NoDevice /\ told' = {} /\ pending' = {}
  /\ UNCHANGED source

(* The device goes, and all subscriptions to it end. *)
Close(d) ==
  /\ delivering # d
  /\ source' = [s \in Subscription |-> IF source[s] = d THEN NoDevice ELSE source[s]]
  /\ UNCHANGED << delivering, told, pending >>

Next ==
  \/ \E s \in Subscription : End(s) \/ Send(s)
  \/ \E d \in Device : Begin(d) \/ Close(d) \/ \E s \in Subscription : Subscribe(s, d)
  \/ Finish

Spec == Init /\ [][Next]_vars
=============================================================================
