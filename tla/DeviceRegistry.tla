--------------------------- MODULE DeviceRegistry ---------------------------
(***************************************************************************)
(* What the gateway's proxy list promises its two threads, whatever the    *)
(* threads do inside.  Devices are registered and unregistered by the      *)
(* discovery worker; the main thread takes a snapshot of the whole list,   *)
(* works on the handles in it, and gives it back.  While a snapshot is     *)
(* out the registry does not change at all: the array of handles was sized *)
(* by counting the list, and every handle in it belongs to a device that   *)
(* must still exist.                                                       *)
(***************************************************************************)
CONSTANT Device         \* device objects the gateway can ever have at once

VARIABLES registered,   \* devices in the proxy list
          pinned        \* devices the main thread is working on

vars == << registered, pinned >>

TypeOK ==
  /\ registered \in SUBSET Device
  /\ pinned \in SUBSET Device

Init ==
  /\ registered = {}
  /\ pinned = {}

(* The worker adds a device while no snapshot is out. *)
Register(d) ==
  /\ d \notin registered
  /\ pinned = {}
  /\ registered' = registered \cup {d}
  /\ UNCHANGED pinned

(* The worker removes a device while no snapshot is out. *)
Unregister(d) ==
  /\ d \in registered
  /\ pinned = {}
  /\ registered' = registered \ {d}
  /\ UNCHANGED pinned

(* The main thread takes the whole list. *)
Pin ==
  /\ pinned = {}
  /\ pinned' = registered
  /\ UNCHANGED registered

Release ==
  /\ pinned' = {}
  /\ UNCHANGED registered

Next ==
  \/ \E d \in Device : Register(d) \/ Unregister(d)
  \/ Pin
  \/ Release

Spec == Init /\ [][Next]_vars
=============================================================================
