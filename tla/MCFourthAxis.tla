----------------------------- MODULE MCFourthAxis -----------------------------
(***************************************************************************)
(* Instances of FourthAxisSystem for TLC: b1 and b2 are device bindings.   *)
(***************************************************************************)
EXTENDS FourthAxisInvariant

CONSTANTS b1, b2

\* Holds without a reference may lead the shaft anywhere: so far it is followed.
\* Of a shaft that went astray only the way back to a reference is.
Followed ==
    /\ shaft \in -2..6 /\ unsaved \in -6..6
    /\ astray => ~ready /\ prog # "controller"
=============================================================================
