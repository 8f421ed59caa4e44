---------------------------- MODULE MCVisionSession ----------------------------
(* VisionSession with small bounds. *)
EXTENDS VisionSession
==============================================================================
