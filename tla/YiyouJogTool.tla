----------------------------- MODULE YiyouJogTool -----------------------------
(***************************************************************************)
(* The jog tool (tools/arm_yiyou_control.cpp) on slave 4: hold, step and   *)
(* zero.  It shares the state file, its lock and the drive with the        *)
(* controller of FourthAxis and is the only program that may replace an    *)
(* untrusted reference.                                                    *)
(***************************************************************************)
EXTENDS FourthAxis

\* main(): a moving or enabled drive is refused; a reference that cannot be
\* restored leaves position_valid = FALSE (here: ~ready) and the tool running.
ToolRestore ==
    /\ Tool("boot")
    /\ motion = "still"
    /\ pc' = "holding"
    /\ IF Restorable(id, Raw) THEN Restore(Raw) ELSE UNCHANGED <<diskVars, memVars>>
    /\ UNCHANGED <<driveVars, prog, dir, phase, wait, target, base, pos, slow, held, fault>>

ToolRefuses == Tool("boot") /\ motion # "still" /\ Throw("outside")

\* enable_hold: the measured position becomes axis.target and is triggered as a
\* set-point, neither reserved nor marked, also without a trusted reference.
Hold ==
    /\ held' = Raw
    /\ goal' = shaft
    /\ motion' = "hold"

ToolHold ==
    /\ Tool("holding")
    /\ IF ready => Live(Raw)
       THEN /\ Hold
            /\ pc' = "moving"
            /\ UNCHANGED <<id, powered, shaft, frame, unsaved, astray, diskVars, memVars,
                           prog, dir, phase, wait, target, base, pos, slow, fault>>
       ELSE Throw("inside")

\* monitor_all() runs on every turn of serve() and of each waiting loop.
Monitored == ready => Live(Raw)

ToolMonitor ==
    /\ prog = "tool"
    /\ pc \in {"serving", "stopping", "reserving", "moving"}
    /\ IF Monitored THEN UNCHANGED vars ELSE Throw("inside")

\* command "step": a limit refuses an outward step, an untrusted reference any.
MayStep(sign) == ready /\ ~Blocked(Logical(Raw), sign)

StepTarget(sign) ==
    IF sign > 0 THEN Least(Logical(held) + ToolStep, Upper)
                ELSE Greatest(Logical(held) - ToolStep, 0)

ToolStepCommand(sign) ==
    /\ Tool("serving")
    /\ Monitored
    /\ MayStep(sign)
    /\ IF Live(held)
       THEN /\ target' = StepTarget(sign)
            /\ pc' = "stopping"
            /\ UNCHANGED <<diskVars, memVars, driveVars,
                           prog, dir, phase, wait, base, pos, slow, held, fault>>
       ELSE Throw("inside")

\* move_fourth: once the shaft is at rest at the held target, reserve ...
ToolReserve ==
    /\ Tool("stopping")
    /\ motion = "still"
    /\ IF MayQueue(id, Raw, target)
       THEN /\ QueueTarget(id, Raw, target)
            /\ pc' = "reserving"
            /\ UNCHANGED <<driveVars, prog, dir, phase, wait, target, base, pos, slow, held, fault>>
       ELSE Throw("inside")

\* ... wait for the write ...
ToolPoll ==
    /\ Tool("reserving")
    /\ Monitored
    /\ PollTakes
    /\ Poll
    /\ pc' = "triggering"
    /\ UNCHANGED <<driveVars, prog, dir, phase, wait, target, base, pos, slow, held, fault>>

ToolPollFails ==
    /\ Tool("reserving")
    /\ PollFailure
    /\ Leave("outside")

\* ... and mark and move.
ToolMove ==
    /\ Tool("triggering")
    /\ IF Monitored /\ MayMark(target)
       THEN /\ lastTriggered' = target
            /\ held' = RawTarget(target)
            /\ goal' = RawTarget(target) + frame
            /\ motion' = "run"
            /\ pc' = "moving"
            /\ UNCHANGED <<diskVars, ready, committed, offset, job, writeError,
                           id, powered, shaft, frame, unsaved, astray,
                           prog, dir, phase, wait, target, base, pos, slow, fault>>
       ELSE Throw("inside")

ToolReached ==
    /\ Tool("moving")
    /\ motion = "still"
    /\ pc' = "serving"
    /\ UNCHANGED <<diskVars, memVars, driveVars,
                   prog, dir, phase, wait, target, base, pos, slow, held, fault>>

(***************************************************************************)
(* command "zero": stop and disable the motor, invalidate the record, set  *)
(* and save the drive's zero, and write a new reference.                   *)
(***************************************************************************)
\* mutant: the old record is left in place while the zero is moved
ToolZeroInPlace ==
    /\ Tool("serving")
    /\ motion = "still"
    /\ Monitored
    /\ ready' = FALSE
    /\ pc' = "zeroing"
    /\ UNCHANGED <<diskVars, committed, offset, lastTriggered, job, writeError, driveVars,
                   prog, dir, phase, wait, target, base, pos, slow, held, fault>>

ToolZeroBegin ==
    /\ Tool("serving")
    /\ motion = "still"
    /\ Monitored
    /\ Invalidate(id)
    /\ pc' = "invalidating"
    /\ UNCHANGED <<driveVars, prog, dir, phase, wait, target, base, pos, slow, held, fault>>

ToolInvalidated ==
    /\ Tool("invalidating")
    /\ job.st = "done"
    /\ job' = NoJob
    /\ pc' = "zeroing"
    /\ UNCHANGED <<diskVars, ready, committed, offset, lastTriggered, writeError, driveVars,
                   prog, dir, phase, wait, target, base, pos, slow, held, fault>>

\* A synchronous write that fails throws out of either call.
ToolWriteFails ==
    /\ prog = "tool" /\ pc \in {"invalidating", "referencing"}
    /\ job.st = "failed"
    /\ job' = NoJob
    /\ UNCHANGED <<diskVars, ready, committed, offset, lastTriggered, writeError>>
    /\ Leave("outside")

\* save_zero_position: control word 0x0010 makes this place zero ...
ToolSetZero ==
    /\ Tool("zeroing")
    /\ unsaved' = unsaved + Raw
    /\ shaft' = 0
    /\ goal' = 0
    /\ frame' = 0
    /\ astray' = FALSE
    /\ pc' = "saving"
    /\ UNCHANGED <<id, powered, motion, diskVars, memVars,
                   prog, dir, phase, wait, target, base, pos, slow, held, fault>>

\* ... and 0x2130 keeps it in EEPROM.
ToolSaveZero ==
    /\ Tool("saving")
    /\ unsaved' = 0
    /\ held' = 0
    /\ pc' = "saved"
    /\ UNCHANGED <<id, powered, shaft, frame, goal, motion, astray, diskVars, memVars,
                   prog, dir, phase, wait, target, base, pos, slow, fault>>

ToolSetReference ==
    /\ Tool("saved")
    /\ IF Idle
       THEN /\ SetReference(id, Raw, Raw)
            /\ pc' = "referencing"
            /\ UNCHANGED <<driveVars, prog, dir, phase, wait, target, base, pos, slow, held, fault>>
       ELSE Throw("inside")

\* The new reference is in force: hold, then move to the new zero.
ToolReferenced ==
    /\ Tool("referencing")
    /\ ReferenceSet(Raw, Raw)
    /\ Hold
    /\ target' = 0
    /\ pc' = "stopping"
    /\ UNCHANGED <<id, powered, shaft, frame, unsaved, astray,
                   prog, dir, phase, wait, base, pos, slow, fault>>
=============================================================================
