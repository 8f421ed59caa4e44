---------------------------- MODULE MCTorqueReports ----------------------------
(* TorqueReports with two overlapping report runs. *)
EXTENDS TorqueReports, TLC
CONSTANTS p1, p2
Symmetry == Permutations({p1, p2})
==============================================================================
