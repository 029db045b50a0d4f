--------------------------- MODULE MCIpGateway ---------------------------
(* IpGateway on a small instance: the values are in the configurations.     *)
EXTENDS IpGateway, TLC

(* No configuration with this symmetry tells two nodes or two devices       *)
(* apart.                                                                  *)
Symmetry == Permutations(Node) \cup Permutations(Device)
=============================================================================
