----------------------------- MODULE JoystickLink -----------------------------
(***************************************************************************)
(* The joystick's radio link and the thread that keeps asking the pad for  *)
(* a report (JoystickLinkMonitor).  The remote control never waits for     *)
(* that thread: it reads a snapshot.  A probe takes any time, for ever     *)
(* included, so the thread's steps are its two ways to end a probe, and    *)
(* `age` is the 500 ms clock that runs whatever the probe does.            *)
(***************************************************************************)
EXTENDS Naturals

CONSTANT MaxGeneration   \* bound: recoveries of the link

VARIABLES
    reach,       \* the pad is switched on and within radio range (external)
    healthy,     \* healthy_
    age,         \* of last_success_ns_: "fresh"; "due", 500 ms have just passed
                 \* but a probe that ended earlier may still wait for the lock; "old"
    generation   \* generation_

linkVars == <<reach, healthy, age, generation>>

LinkInit ==
    /\ reach \in BOOLEAN
    /\ healthy = FALSE
    /\ age = "old"
    /\ generation = 0

\* mutant: a success counts until a probe fails
SnapshotHealthyOnce == healthy

\* snapshot().healthy: a success that is 500 ms old counts for nothing.
SnapshotHealthy == healthy /\ age = "fresh"

\* mutant: only a failed probe ends a generation, not an expired one
RecoveringFailed == IF healthy THEN {FALSE} ELSE {TRUE}

\* mark_success: does this success begin a new generation?
Recovering ==
    CASE healthy /\ age = "fresh" -> {FALSE}
      [] healthy /\ age = "due"   -> {TRUE, FALSE}
      [] OTHER                    -> {TRUE}

ProbeSucceeds(recovering) ==
    /\ reach
    /\ recovering \in Recovering
    /\ recovering => generation < MaxGeneration
    /\ healthy' = TRUE
    /\ age' = "fresh"
    /\ generation' = IF recovering THEN generation + 1 ELSE generation
    /\ UNCHANGED reach

\* A refused, mismatching, late or failed probe.
ProbeFails ==
    /\ healthy' = FALSE
    /\ UNCHANGED <<reach, age, generation>>

Expire ==
    /\ age # "old"
    /\ age' = IF age = "fresh" THEN "due" ELSE "old"
    /\ UNCHANGED <<reach, healthy, generation>>
===============================================================================
