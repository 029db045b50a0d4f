--------------------------- MODULE MCMicroStrain ---------------------------
(* MicroStrain on a small instance: the values are in the configurations.   *)
(* No property tells the nodes apart, and none is about a single one.       *)
EXTENDS MicroStrain, TLC

Symmetry == Permutations(Device)
=============================================================================
