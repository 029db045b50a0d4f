--------------------------- MODULE MCPPartGateway ---------------------------
(* PPartGateway on a small instance: the values are in the configurations.  *)
EXTENDS PPartGateway, TLC

(* No configuration with this symmetry tells two particles or two devices   *)
(* apart.                                                                  *)
Symmetry == Permutations(Particle) \cup Permutations(Device)
=============================================================================
