---------------------------- MODULE MCRemoteControl ----------------------------
(* Instances of RemoteControl for TLC: one chassis stick stands for the three. *)
(* The arm lever is neutral or fully pushed; with the tracking button also a   *)
(* little beyond neutral on the other side.                                    *)
EXTENDS RemoteControl

OnOff == {0, 1}
MCHands == {
    [step |-> {-2, 0}, next |-> OnOff],
    [step |-> {-2, 0, 1}, tracking |-> OnOff],
    [linear |-> OnOff, tracking |-> OnOff],
    [plus |-> OnOff, minus |-> OnOff, stop |-> OnOff],
    [start |-> OnOff, emergency |-> OnOff]}
MCLiveHands == {[linear |-> OnOff, emergency |-> OnOff]}
================================================================================
