---------------------------- MODULE MCYiyouFrontend ----------------------------
(* YiyouFrontend with an ordinary axis and the fourth axis; each of the drives
   may be mounted at either. *)
EXTENDS YiyouFrontend
CONSTANTS s1, s4, d1, d2
==============================================================================
