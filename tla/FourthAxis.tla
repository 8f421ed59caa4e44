------------------------------ MODULE FourthAxis ------------------------------
(***************************************************************************)
(* The fourth arm axis: its shaft and drive, the position memory, and the  *)
(* two programs that move it -- the controller (arm/control.cpp) and the   *)
(* jog tool (tools/arm_yiyou_control.cpp), one of which runs at a time.    *)
(*                                                                         *)
(* Time is not measured.  Every deadline of the code (one second for a     *)
(* write, one for a PP acknowledgement, the tool's --timeout) may expire   *)
(* whenever it is armed.  The shaft moves, the writer thread runs, and     *)
(* crashes and power cuts come between any two steps of a program.         *)
(***************************************************************************)
EXTENDS PositionMemory

CONSTANTS
    Upper,       \* 1200 degrees in counts
    Step,        \* counts in half a second at the jog speed
    ToolStep,    \* the tool's 100 degrees
    Slack,       \* how far from its target the shaft may come to rest
    InitShaft,   \* positions the shaft may have when the system is first seen
    Programs,    \* which of {"controller", "tool"} are ever started
    NoTarget

ASSUME AxisAssumption ==
    /\ Upper \in Nat \ {0}
    /\ Step \in Nat \ {0}
    /\ ToolStep \in Nat \ {0}
    /\ Slack \in 0..Tol
    /\ InitShaft \subseteq Int
    /\ NoTarget \notin Int

VARIABLES
    \* the machine
    id,          \* the binding of the drive that is installed
    powered,     \* the motor supply relay
    shaft,       \* the accumulated position of the output shaft
    frame,       \* shaft minus what the encoder reports, whole turns
    goal,        \* the set-point the drive is moving to; the shaft's own
                 \* position when it is at rest
    motion,      \* "still", "run" to a reserved goal, "hold": to the place
                 \* it was told to hold, or "halt": decelerating
    unsaved,     \* what to add to the coordinate when the supply goes off:
                 \* not zero after a zero that is not yet in EEPROM
    astray,      \* history: a hold let the shaft come to rest outside a record
                 \* of it, and no new reference has been set since
    \* the running program
    prog,        \* "none", "controller", "tool", or "exiting": stopped
                 \* but not yet out of ~PositionMemory
    pc,          \* where the program is
    dir,         \* fourth_direction_
    phase,       \* fourth_phase_
    wait,        \* fourth_waiting_for_stop_
    target,      \* fourth_target_; the tool's local `target`
    base,        \* history: the reading fourth_target_ was computed from
    pos,         \* fourth_axis_position_pulses_; logical, as last read
    slow,        \* |fourth_axis_rpm_| < 0.1 in that reading
    held,        \* the tool's axis.target, raw
    fault        \* what stopped the program: "none", "outside" or "inside"

driveVars == <<id, powered, shaft, frame, goal, motion, unsaved, astray>>
progVars  == <<prog, pc, dir, phase, wait, target, base, pos, slow, held, fault>>
vars == <<diskVars, memVars, driveVars, progVars>>

Raw == shaft - frame                  \* 0x6064 as the drive reports it

-----------------------------------------------------------------------------
(***************************************************************************)
(* The shaft and the drive (external).  The shaft moves steadily to its    *)
(* goal and comes to rest within Slack of it; a halted shaft stops         *)
(* somewhere on that way.  This, Slack <= Tol, and an axis that does not   *)
(* move once it is at rest without a command, are what the saved interval  *)
(* relies on.  A shaft that is told to hold where it rests is commanded    *)
(* again, and may come to rest within Slack of that place again.           *)
(***************************************************************************)
MoveShaft ==
    /\ motion # "still"
    /\ shaft # goal
    /\ shaft' = IF shaft < goal THEN shaft + 1 ELSE shaft - 1
    /\ UNCHANGED <<id, powered, frame, goal, motion, unsaved, astray,
                   diskVars, memVars, progVars>>

\* restore() would accept this record for the drive that is installed.
Accepted(rec) == rec.valid /\ rec.binding = id

\* A set-point that only holds is not reserved: where the shaft rests within
\* Slack of it may be outside the record.
Settle ==
    /\ \/ motion = "halt" /\ shaft' = shaft
       \/ motion \in {"run", "hold"} /\ shaft = goal /\ shaft' \in (goal - Slack)..(goal + Slack)
    /\ motion' = "still"
    /\ goal' = shaft'
    /\ astray' = \/ astray
                 \/ motion = "hold" /\ \E rec \in survivors : Accepted(rec) /\ ~Contains(rec, shaft')
    /\ UNCHANGED <<id, powered, frame, unsaved, diskVars, memVars, progVars>>

Halted == IF motion = "still" THEN "still" ELSE "halt"

\* With no master on the bus the drive's own watchdog stops it, sooner or later.
BusWatchdog ==
    /\ prog = "none" /\ motion \in {"run", "hold"}
    /\ motion' = "halt"
    /\ UNCHANGED <<id, powered, shaft, frame, goal, unsaved, astray, diskVars, memVars, progVars>>

\* The supply goes off: a zero that was not saved is gone, the coordinate is
\* the old one again.
SupplyOff ==
    /\ powered' = FALSE
    /\ motion' = Halted
    /\ shaft' = shaft + unsaved
    /\ goal' = goal + unsaved
    /\ unsaved' = 0

SupplyKept == UNCHANGED <<powered, shaft, goal, unsaved>>

\* A drive that comes up reports either the same count or only the position
\* within the turn.
SupplyOn ==
    /\ powered' = TRUE
    /\ IF powered THEN frame' = frame
       ELSE frame' \in {frame, (shaft \div Period) * Period}

-----------------------------------------------------------------------------
Controller(at) == prog = "controller" /\ pc = at
Tool(at)       == prog = "tool" /\ pc = at

ClearedProgram ==
    /\ dir' = 0 /\ phase' = "idle" /\ wait' = FALSE /\ target' = NoTarget /\ base' = 0
    /\ pos' = 0 /\ slow' = FALSE /\ held' = 0

(***************************************************************************)
(* latch_fault, on_fault and the orderly end of either program: the motor  *)
(* is stopped and the shared supply cut; each of the two may fail.  The    *)
(* process then waits in ~PositionMemory for a write that is outstanding,  *)
(* still holding the lock on the record.                                   *)
(***************************************************************************)
Leave(why) ==
    /\ prog' = "exiting"
    /\ pc' = "end"
    /\ fault' = why
    /\ ClearedProgram
    /\ \/ SupplyOff
       \/ SupplyKept /\ motion' \in {Halted, motion}
    /\ UNCHANGED <<id, frame, astray>>

Throw(why) == Leave(why) /\ UNCHANGED <<diskVars, memVars>>

\* mutant: a destructor that waits for a poll() nobody makes any more
ExitAfterPoll ==
    /\ prog = "exiting"
    /\ ~Pending
    /\ prog' = "none"
    /\ pc' = "start"
    /\ fault' = "none"
    /\ Forget
    /\ UNCHANGED <<diskVars, driveVars, dir, phase, wait, target, base, pos, slow, held>>

Exit ==
    /\ prog = "exiting"
    /\ job.st \notin {"writing", "renamed"}
    /\ prog' = "none"
    /\ pc' = "start"
    /\ fault' = "none"
    /\ Forget
    /\ UNCHANGED <<diskVars, driveVars, dir, phase, wait, target, base, pos, slow, held>>

\* SIGKILL, a segmentation fault: nothing is stopped, the relay stays on.
Crash ==
    /\ prog # "none"
    /\ prog' = "none" /\ pc' = "start" /\ fault' = "none"
    /\ ClearedProgram
    /\ Forget
    /\ UNCHANGED <<diskVars, driveVars>>

\* The whole car loses power: the file keeps one of the surviving records.
PowerCut ==
    /\ prog' = "none" /\ pc' = "start" /\ fault' = "none"
    /\ ClearedProgram
    /\ Forget
    /\ disk' \in survivors
    /\ survivors' = {disk'}
    /\ SupplyOff
    /\ UNCHANGED <<id, frame, astray>>

\* Another drive is fitted while the car is off, its shaft anywhere.
ReplaceMotor ==
    /\ prog = "none" /\ ~powered /\ motion = "still"
    /\ id' \in {b \in Bindings : \A r \in survivors : r.binding # b}
    /\ shaft' \in InitShaft
    /\ goal' = shaft'
    /\ frame' = 0
    /\ astray' = FALSE
    /\ UNCHANGED <<powered, motion, unsaved, diskVars, memVars, progVars>>

\* Any read, write or status check on the drive can throw; so can a cancelled
\* or timed-out wait of the tool.  Synchronous writes are not interrupted.
DriveFault ==
    /\ prog \in {"controller", "tool"}
    /\ pc \notin {"invalidating", "referencing"}
    /\ Throw("outside")

\* SIGINT, SIGTERM, an emergency stop.
Shutdown ==
    /\ prog \in {"controller", "tool"}
    /\ pc \notin {"invalidating", "referencing"}
    /\ Throw("none")

-----------------------------------------------------------------------------
(***************************************************************************)
(* The controller (ArmController).                                         *)
(***************************************************************************)
Start(program) ==
    /\ prog = "none"
    /\ program \in Programs
    /\ prog' = program
    /\ pc' = "boot"
    /\ SupplyOn
    /\ UNCHANGED <<id, shaft, goal, motion, unsaved, astray, diskVars, memVars,
                   dir, phase, wait, target, base, pos, slow, held, fault>>

\* initialize(), first half: read the encoder, restore or refuse.
ControllerRestore ==
    /\ Controller("boot")
    /\ IF Restorable(id, Raw)
       THEN /\ Restore(Raw)
            /\ pc' = "enable"
            /\ UNCHANGED <<driveVars, prog, dir, phase, wait, target, base, pos, slow, held, fault>>
       ELSE Throw("outside")

\* Enabling takes the voltage off first; then the encoder is read again ...
ControllerEnable ==
    /\ Controller("enable")
    /\ IF Live(Raw)
       THEN /\ motion' = Halted
            /\ pos' = Logical(Raw)
            /\ slow' = FALSE
            /\ pc' = "hold"
            /\ UNCHANGED <<id, powered, shaft, frame, goal, unsaved, astray, diskVars, memVars,
                           prog, dir, phase, wait, target, base, held, fault>>
       ELSE Throw("inside")

\* ... what it reads is triggered as a set-point, neither reserved nor marked ...
ControllerHold ==
    /\ Controller("hold")
    /\ goal' = RawTarget(pos) + frame
    /\ motion' = "hold"
    /\ pc' = "halting"
    /\ UNCHANGED <<id, powered, shaft, frame, unsaved, astray, diskVars, memVars,
                   prog, dir, phase, wait, target, base, pos, slow, held, fault>>

HaltFourthAxis ==
    /\ dir' = 0
    /\ phase' = "idle"
    /\ target' = NoTarget /\ base' = 0
    /\ wait' = TRUE
    /\ motion' = Halted

\* ... and the axis is halted.
ControllerHalts ==
    /\ Controller("halting")
    /\ HaltFourthAxis
    /\ pc' = "run"
    /\ UNCHANGED <<id, powered, shaft, frame, goal, unsaved, astray, diskVars, memVars,
                   prog, pos, slow, held, fault>>

Blocked(at, d) == (at <= 0 /\ d < 0) \/ (at >= Upper /\ d > 0)

\* mutant: a changed direction leaves the queued target alone
JogKeepsTarget(d) ==
    /\ Controller("run")
    /\ IF Live(Raw)
       THEN /\ dir' = IF Blocked(Logical(Raw), d) THEN 0 ELSE d
            /\ pos' = Logical(Raw)
            /\ UNCHANGED <<diskVars, memVars, driveVars,
                           prog, pc, phase, wait, target, base, slow, held, fault>>
       ELSE Throw("inside")

\* set_fourth_axis_jog(d), from any of its callers.
Jog(d) ==
    /\ Controller("run")
    /\ IF Live(Raw)
       THEN LET e == IF Blocked(Logical(Raw), d) THEN 0 ELSE d
            IN  /\ pos' = Logical(Raw)
                /\ IF e = dir
                   THEN UNCHANGED <<dir, phase, target, base, wait, motion>>
                   ELSE /\ dir' = e
                        /\ phase' = "idle"
                        /\ target' = NoTarget /\ base' = 0
                        /\ wait' = TRUE
                        /\ motion' = Halted
                /\ UNCHANGED <<id, powered, shaft, frame, goal, unsaved, astray,
                               diskVars, memVars, prog, pc, slow, held, fault>>
       ELSE Throw("inside")

\* mutant: a limit reached while the button is held does not halt the axis
UpdateFeedbackUnlimited ==
    /\ Controller("run")
    /\ Poll
    /\ IF ready /\ Contains(committed', Logical(Raw))
       THEN /\ pos' = Logical(Raw)
            /\ slow' = (motion = "still")
            /\ pc' = "advance"
            /\ UNCHANGED <<driveVars, prog, dir, phase, wait, target, base, held, fault>>
       ELSE Leave("inside")

\* update(), first half: the outstanding write, then the feedback, against the
\* interval that write may just have replaced.
UpdateFeedback ==
    /\ Controller("run")
    /\ Poll
    /\ LET now == committed'
       IN  IF ready /\ Contains(now, Logical(Raw))
           THEN /\ pos' = Logical(Raw)
                /\ slow' = (motion = "still")
                /\ pc' = "advance"
                /\ IF Blocked(Logical(Raw), dir)
                   THEN HaltFourthAxis
                   ELSE UNCHANGED <<dir, phase, target, base, wait, motion>>
                /\ UNCHANGED <<id, powered, shaft, frame, goal, unsaved, astray, prog, held, fault>>
           ELSE Leave("inside")

UpdatePollFails ==
    /\ Controller("run")
    /\ PollFailure
    /\ Leave("outside")

\* update(), second half: advance_fourth_position.  Its common guard:
MayAdvance == Controller("advance") /\ dir # 0 /\ (wait => slow /\ motion = "still")

Advanced == pc' = "run" /\ wait' = FALSE

AdvanceNothing ==
    /\ Controller("advance")
    /\ dir = 0 \/ (wait /\ ~(slow /\ motion = "still"))
    /\ pc' = "run"
    /\ UNCHANGED <<diskVars, memVars, driveVars,
                   prog, dir, phase, wait, target, base, pos, slow, held, fault>>

\* Half a second ahead of the measured position, never past a limit.
NextTarget ==
    IF dir > 0 THEN Least(pos + Step, Upper) ELSE Greatest(pos - Step, 0)

\* mutant: a new target is queued while the last write is outstanding
AdvanceIdleEager ==
    /\ MayAdvance
    /\ phase = "idle"
    /\ IF target = NextTarget
       THEN /\ Advanced
            /\ UNCHANGED <<diskVars, memVars, driveVars,
                           prog, dir, phase, target, base, pos, slow, held, fault>>
       ELSE IF MayQueue(id, pos - offset, NextTarget)
       THEN /\ Advanced
            /\ QueueTarget(id, pos - offset, NextTarget)
            /\ target' = NextTarget /\ base' = pos
            /\ phase' = "queued"
            /\ UNCHANGED <<driveVars, prog, dir, pos, slow, held, fault>>
       ELSE Throw("inside")

AdvanceIdle ==
    /\ MayAdvance
    /\ phase = "idle"
    /\ IF Pending \/ target = NextTarget
       THEN /\ Advanced
            /\ UNCHANGED <<diskVars, memVars, driveVars,
                           prog, dir, phase, target, base, pos, slow, held, fault>>
       ELSE IF MayQueue(id, pos - offset, NextTarget)
       THEN /\ Advanced
            /\ QueueTarget(id, pos - offset, NextTarget)
            /\ target' = NextTarget /\ base' = pos
            /\ phase' = "queued"
            /\ UNCHANGED <<driveVars, prog, dir, pos, slow, held, fault>>
       ELSE Throw("inside")

AdvanceQueued ==
    /\ MayAdvance
    /\ phase = "queued"
    /\ IF Pending \/ MayTarget(target)
       THEN /\ Advanced
            /\ phase' = IF Pending THEN "queued" ELSE "staging"
            /\ UNCHANGED <<diskVars, memVars, driveVars,
                           prog, dir, target, base, pos, slow, held, fault>>
       ELSE Throw("inside")

\* stage_position_command: the target is written and read back, or the drive's
\* acknowledge bit is not yet clear.
AdvanceStaging ==
    /\ MayAdvance
    /\ phase = "staging"
    /\ Advanced
    /\ phase' \in {"staging", "triggering"}
    /\ UNCHANGED <<diskVars, memVars, driveVars,
                   prog, dir, target, base, pos, slow, held, fault>>

\* mark_target and trigger_position_command, which also releases halt.
AdvanceTriggering ==
    /\ MayAdvance
    /\ phase = "triggering"
    /\ IF MayMark(target)
       THEN /\ Advanced
            /\ lastTriggered' = target
            /\ goal' = RawTarget(target) + frame
            /\ motion' = "run"
            /\ phase' = "acknowledging"
            /\ UNCHANGED <<diskVars, ready, committed, offset, job, writeError,
                           id, powered, shaft, frame, unsaved, astray,
                           prog, dir, target, base, pos, slow, held, fault>>
       ELSE Throw("inside")

AdvanceAcknowledging ==
    /\ MayAdvance
    /\ phase = "acknowledging"
    /\ Advanced
    /\ phase' \in {"acknowledging", "idle"}
    /\ UNCHANGED <<diskVars, memVars, driveVars,
                   prog, dir, target, base, pos, slow, held, fault>>

-----------------------------------------------------------------------------
FlagsTypeOK ==
    {ready, writeError, powered, astray, wait, slow} \subseteq BOOLEAN

DriveTypeOK ==
    /\ id \in Bindings
    /\ shaft \in Int /\ frame \in Int /\ goal \in Int /\ unsaved \in Int
    /\ motion \in {"still", "run", "hold", "halt"}

ProgramTypeOK ==
    /\ prog \in {"none", "controller", "tool", "exiting"}
    /\ pc \in {"start", "boot", "enable", "hold", "halting", "run", "advance", "end",
               "holding", "serving", "stopping", "reserving", "triggering", "moving", "invalidating",
               "zeroing", "saving", "saved", "referencing"}
    /\ dir \in {-1, 0, 1}
    /\ phase \in {"idle", "queued", "staging", "triggering", "acknowledging"}
    /\ target \in Int \cup {NoTarget}
    /\ base \in Int /\ pos \in Int /\ held \in Int
    /\ fault \in {"none", "outside", "inside"}
=============================================================================
