----------------------------- MODULE MCOtaRelease -----------------------------
(* OtaRelease with two publishing runs and three persistent files. *)
EXTENDS OtaRelease
==============================================================================
