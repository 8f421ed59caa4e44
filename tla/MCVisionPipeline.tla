---------------------------- MODULE MCVisionPipeline ----------------------------
(* VisionPipeline with images of the wanted pair in line with the arm, beside it and
   far beside it, of the pair without depth, and with one of its markers seen twice. *)
EXTENDS VisionPipeline
Code(id, y) == [id |-> id, y |-> y]
Pair(y) == <<Code("a", y - 1), Code("b", y + 1)>>
MCViews == {
    [codes |-> Pair(0), depth |-> 1],
    [codes |-> Pair(1), depth |-> 1],
    [codes |-> Pair(0), depth |-> None],
    [codes |-> Pair(0) \o <<Code("c", 5)>>, depth |-> 3],
    [codes |-> Pair(0) \o <<Code("a", 3)>>, depth |-> 1]}
MCWanted == <<"a", "b">>

\* A goal takes the longest to come about: the other modes are followed less far, and
\* so is a session that is renewed too late for one.
Horizon ==
    /\ mode # "approach" => now <= MaxTime - 2
    /\ now > MaxTime - 4 => approach.after < MaxTime - 4
==============================================================================
