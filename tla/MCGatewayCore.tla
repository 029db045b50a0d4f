--------------------------- MODULE MCGatewayCore ---------------------------
(* The core with its subscriptions on a small instance: the values are in   *)
(* the configuration.                                                       *)
EXTENDS Eventing
=============================================================================
