----------------------------- MODULE TurnReference -----------------------------
(***************************************************************************)
(* What the position memory promises, without files, records or encoders:  *)
(* an axis that has turned several times, and a program that either knows  *)
(* where it is or knows that it does not.  Knowledge comes only from the   *)
(* place itself, follows it, and is lost as a whole; the origin is moved   *)
(* only while nobody relies on the old one.  Only a program that knows     *)
(* sends the axis anywhere; any other command tells it to hold where it    *)
(* was just seen.  Holding is not part of the promise: the axis may come   *)
(* to rest a little beside the place it was told to hold, beyond what the  *)
(* memory covers, and from then on nothing is promised until somebody who  *)
(* relies on nothing sets a new origin.                                    *)
(***************************************************************************)
EXTENDS Integers

CONSTANT Unknown     \* not an integer

VARIABLES
    place,      \* the accumulated position of the axis
    known,      \* what the program takes it to be, or Unknown
    seen,       \* where a program that starts has just seen the axis
    sent,       \* where the axis has been sent while it moves under command
    kept,       \* where it has been told to hold, until it rests or is halted
    astray      \* an axis that was holding has left what the memory covers

TRInit ==
    /\ place \in Int
    /\ known = Unknown /\ seen = Unknown /\ sent = Unknown /\ kept = Unknown
    /\ astray = FALSE

\* The axis turns, or stops; or its origin is moved while nobody knows it.
Turn ==
    /\ place' \in Int
    /\ known' = IF known = Unknown THEN Unknown ELSE place'
    /\ sent' \in {sent, Unknown}
    /\ kept' \in {kept, Unknown}
    /\ seen' \in {seen, Unknown}
    /\ UNCHANGED astray

\* Whoever starts to know, knows the place.
Learn ==
    /\ known = Unknown
    /\ known' = place
    /\ UNCHANGED <<place, seen, sent, kept, astray>>

See ==
    /\ known = place
    /\ seen' = place
    /\ sent' = Unknown
    /\ kept' = Unknown
    /\ UNCHANGED <<place, known, astray>>

\* Sent by a program that knows; this ends a hold.
Send ==
    /\ known = place
    /\ sent' \in Int
    /\ kept' = Unknown
    /\ UNCHANGED <<place, known, seen, astray>>

\* Told to hold, by a program that knows or not; a new origin may be known now.
Hold ==
    /\ kept' \in {place, seen} \ {Unknown}
    /\ known' \in {known, place}
    /\ seen' = Unknown
    /\ sent' = Unknown
    /\ UNCHANGED <<place, astray>>

\* Whoever knew is gone, and the axis may be stopped by it.
Lose ==
    /\ known' = Unknown
    /\ seen' = Unknown
    /\ sent' \in {sent, Unknown}
    /\ kept' \in {kept, Unknown}
    /\ UNCHANGED <<place, astray>>

\* The axis rests beside the place it was told to hold.
Stray ==
    /\ kept # Unknown
    /\ place' \in Int
    /\ known' = IF known = Unknown THEN Unknown ELSE place'
    /\ kept' = Unknown
    /\ astray' = TRUE
    /\ UNCHANGED <<seen, sent>>

\* Nothing is promised of an axis that went astray ...
Anything == astray /\ astray'

\* ... until its origin is moved while nobody knows it and it rests.
Renew ==
    /\ known = Unknown /\ sent = Unknown /\ kept = Unknown
    /\ place' \in Int
    /\ astray' = FALSE
    /\ UNCHANGED <<known, seen, sent, kept>>

TRNext ==
    \/ Turn \/ Learn \/ See \/ Send \/ Hold \/ Lose
    \/ Stray \/ Anything \/ Renew

TRSpec == TRInit /\ [][TRNext]_<<place, known, seen, sent, kept, astray>>
=============================================================================
