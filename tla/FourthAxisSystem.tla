--------------------------- MODULE FourthAxisSystem ---------------------------
(***************************************************************************)
(* The fourth axis with the programs that drive it, and what must be true  *)
(* of them together.                                                       *)
(***************************************************************************)
EXTENDS YiyouJogTool

Init ==
    /\ id \in Bindings
    /\ shaft \in InitShaft
    /\ frame = 0 /\ goal = shaft /\ motion = "still"
    /\ powered = FALSE /\ unsaved = 0 /\ astray = FALSE
    /\ disk \in {Invalid(id), Interval(id, shaft, shaft)}
    /\ survivors = {disk}
    /\ ready = FALSE /\ committed = NoJob.rec /\ offset = 0 /\ lastTriggered = 0
    /\ job = NoJob /\ writeError = FALSE
    /\ prog = "none" /\ pc = "start" /\ fault = "none"
    /\ dir = 0 /\ phase = "idle" /\ wait = FALSE /\ target = NoTarget /\ base = 0
    /\ pos = 0 /\ slow = FALSE /\ held = 0

Machine == MoveShaft \/ Settle \/ BusWatchdog

Writer ==
    /\ WriterRename \/ WriterSync \/ WriterFail
    /\ UNCHANGED <<driveVars, progVars>>

Update ==
    \/ UpdateFeedback \/ UpdatePollFails
    \/ AdvanceNothing \/ AdvanceIdle \/ AdvanceQueued
    \/ AdvanceStaging \/ AdvanceTriggering \/ AdvanceAcknowledging

ControllerRuns ==
    \/ ControllerRestore \/ ControllerEnable \/ ControllerHold \/ ControllerHalts
    \/ \E d \in {-1, 0, 1} : Jog(d)
    \/ Update

ToolRuns ==
    \/ ToolRestore \/ ToolRefuses \/ ToolHold \/ ToolMonitor
    \/ \E sign \in {-1, 1} : ToolStepCommand(sign)
    \/ ToolReserve \/ ToolPoll \/ ToolPollFails \/ ToolMove \/ ToolReached
    \/ ToolZeroBegin \/ ToolInvalidated \/ ToolWriteFails
    \/ ToolSetZero \/ ToolSaveZero \/ ToolSetReference \/ ToolReferenced

Lifecycle ==
    \/ \E program \in {"controller", "tool"} : Start(program)
    \/ Exit \/ Crash \/ PowerCut \/ ReplaceMotor \/ DriveFault \/ Shutdown

Next == Machine \/ Writer \/ ControllerRuns \/ ToolRuns \/ Lifecycle

Spec == Init /\ [][Next]_vars

\* What the environment and the scheduling provide to a controller that is left
\* alone: the drive moves, the disk answers, the 20 ms timer keeps firing, the
\* process gets to its end, and a drive that is asked often enough acknowledges
\* (if it does not, the one-second deadline ends the program).
Fairness ==
    /\ WF_vars(MoveShaft) /\ WF_vars(Settle)
    /\ WF_vars(Writer) /\ WF_vars(Exit)
    /\ WF_vars(ControllerRestore) /\ WF_vars(ControllerEnable)
    /\ WF_vars(ControllerHold) /\ WF_vars(ControllerHalts) /\ WF_vars(Update)
    /\ SF_vars(AdvanceStaging /\ phase' = "triggering")
    /\ SF_vars(AdvanceAcknowledging /\ phase' = "idle")

FairSpec == Spec /\ Fairness

-----------------------------------------------------------------------------
\* Every variable has its type. (the members of PositionMemory::Impl and of
\* ArmController, the tool's axis and locals)
TypeOK == FlagsTypeOK /\ MemoryTypeOK /\ DriveTypeOK /\ ProgramTypeOK

\* A record tells the truth about the installed drive: it is narrower than a
\* turn, the shaft is in it and is going to a place in it -- with its margin, if
\* it is sent there.
Covers(rec) ==
    /\ CheckWindow(rec)
    /\ Contains(rec, shaft)
    /\ motion # "still" => Contains(rec, goal)
    /\ motion = "run" => rec.lower + Tol <= goal /\ goal <= rec.upper - Tol

\* Whatever the file may contain after the next crash or power cut, if restore()
\* would accept it for this drive then it locates the shaft -- unless one of the
\* holds both programs command without a reservation took the shaft out of a
\* record, and no zero has been set since.
\* (write-ahead reservation, position_memory.cpp:335 and control.cpp:594; the
\* holds, control.cpp:180 and arm_yiyou_control.cpp:331)
FileTellsTheTruth ==
    ~astray => \A rec \in survivors : Accepted(rec) => Covers(rec)

\* While the reference is trusted, the accumulated position the program
\* computes from the encoder is the shaft's own, however often the drive lost
\* its turns -- again unless a hold has led the shaft astray.
\* (position_memory.cpp:285, 310)
TrustedIsTrue == ~astray /\ prog # "none" /\ ready => Logical(Raw) = shaft

\* The drive gets a set-point: a new one, or the same one again after a stop.
Triggered == motion' \in {"run", "hold"} /\ (motion' # motion \/ goal' # goal)

\* A drive is triggered to a set-point that every surviving record covers with
\* its margin -- or, by the three unreserved triggers of the code, to a place in
\* every such record, where the program has just seen the shaft: then nothing
\* else is known of the place, and nothing is marked as triggered.  The manual
\* (docs/arm_cartesian_control.md:207) says that an interval is saved before each
\* trigger, which is not so for these.
\* (control.cpp:180, 615; arm_yiyou_control.cpp:331, 397)
TriggerIsReserved ==
    [][Triggered /\ ~astray =>
          \/ /\ motion' = "run" /\ lastTriggered' = goal' /\ ready
             /\ \A rec \in survivors' :
                   Accepted(rec) /\ rec.lower + Tol <= goal' /\ goal' <= rec.upper - Tol
          \/ /\ motion' = "hold"
             /\ \A rec \in survivors' : Accepted(rec) => Contains(rec, goal')]_vars

\* The controller sends the axis only the way the operator holds the button now,
\* at most Step ahead of a position it has read since then, and never further out
\* of 0..Upper: a target cancelled by release or reversal is never triggered.
\* The one other trigger is that of the start, to the place it has just read,
\* after the voltage was off. (control.cpp:176-181, 535-566, 589-592)
MovesAsHeld ==
    [][Triggered /\ prog = "controller" /\ ~astray =>
          \/ motion' = "hold" /\ motion # "run" /\ dir = 0 /\ goal' = pos
          \/ /\ motion' = "run" /\ dir # 0 /\ dir' = dir
             /\ (goal' - base) * dir \in 1..Step
             /\ dir > 0 => goal' <= Upper
             /\ dir < 0 => goal' >= 0]_vars

\* A reversal waits for standstill: a drive that still moves is triggered again
\* only if it was neither halted nor told to hold since, whatever came between
\* the look at the drive and the trigger. (control.cpp:571-576)
ReversalWaits ==
    [][Triggered /\ prog = "controller" /\ motion # "still" /\ pc = "advance" =>
          motion = "run"]_vars

\* The next target is more than a turn away from where the shaft may still be:
\* no interval that holds both selects one position.
TooWide ==
    \/ Controller("advance") /\ ~CheckWindow(Reservation(id, pos - offset, NextTarget))
    \/ Tool("stopping") /\ ~CheckWindow(Reservation(id, Raw, target))

\* Whatever the speed and the drive, nothing in this code refuses itself but for
\* that: live feedback never leaves the committed interval, and no call on the
\* memory is made in the wrong order -- unless a hold led the shaft astray.
\* (position_memory.cpp:234-254, 310-383)
RefusesOnlyWideMoves ==
    [][fault' = "inside" /\ fault # "inside" => astray \/ TooWide]_vars

\* A held jog is never starved by the write-ahead protocol, the handshake or the
\* wait for standstill: unless the operator intervenes it ends by itself, at a
\* software limit or in a fault. (control.cpp:568-624)
HeldJogEnds == \A d \in {-1, 1} : (dir = d) ~> (dir # d)

\* A program that has stopped releases the record in the end, whatever write
\* was outstanding, so that the next one can be started. (~PositionMemory)
ExitEnds == (prog = "exiting") ~> (prog = "none")

\* The promise of TurnReference, kept by the record, the encoder and both
\* programs together. (position_memory.cpp:285-406, control.cpp:128-194,
\* arm_yiyou_control.cpp:321-510)
NoReading == NoTarget

Reference == INSTANCE TurnReference WITH
    Unknown <- NoReading,
    place   <- shaft,
    known   <- IF ready THEN Logical(Raw) ELSE NoReading,
    seen    <- IF Controller("hold") THEN pos ELSE NoReading,
    sent    <- IF motion = "run" THEN goal ELSE NoReading,
    kept    <- IF motion = "hold" THEN goal ELSE NoReading

KeepsReference == Reference!TRSpec
=============================================================================
