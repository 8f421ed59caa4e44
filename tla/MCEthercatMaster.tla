--------------------------- MODULE MCEthercatMaster ---------------------------
(* Model values for the drives and the callers of EthercatMaster.          *)
EXTENDS EthercatMaster, TLC

CONSTANTS s1, s2, c1, c2

Symmetry == Permutations(Slaves) \cup Permutations(Callers)
=============================================================================
