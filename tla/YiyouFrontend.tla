---------------------------- MODULE YiyouFrontend ----------------------------
(***************************************************************************)
(* The terminal tool for the Yiyou drives: tools/yiyou_control.py, which   *)
(* reads the keyboard and keeps the file of zero records, and the backend  *)
(* process it starts (arm_yiyou_control), which drives the motors.  They   *)
(* exchange one-line commands and events over pipes; either may end, be    *)
(* interrupted or be killed at any time, and the power may be cut.         *)
(*                                                                         *)
(* A record of a position names the drive (identity and scale) whose zero  *)
(* was written to its EEPROM there; homing moves only drives with a record.*)
(* One tool runs at a time.  A new one starts when the old backend ended.  *)
(* Between two runs any drive may be mounted at any position.              *)
(***************************************************************************)
EXTENDS Naturals, Sequences, FiniteSets, TLC

CONSTANTS
    Slaves,      \* positions on the bus
    Fourth,      \* the position of the fourth axis, which is never homed
    Drives,      \* the drives there are
    NoDrive      \* a position without a record

VARIABLES
    fe,        \* the frontend
    be,        \* the backend
    line,      \* commands the backend has not read
    events,    \* events the frontend has not read
    stop,      \* the backend was sent SIGINT or SIGTERM
    file,      \* [Slaves -> Drives \cup {NoDrive}]: the zero records in the file
    synced,    \* the zero records a power cut leaves
    drive,     \* the drive mounted at each position
    zeroed,    \* drives whose EEPROM holds a zero that was completely written
    begun,     \* history: where a zero of each drive was begun and not finished, if so
    on         \* motors are enabled, and have power
zeroVars == <<zeroed, begun>>
feVars == <<fe, file, synced>>
beVars == <<be, stop, zeroVars, on>>
vars == <<fe, be, line, events, stop, file, synced, drive, zeroed, begun, on>>

\* What is mounted where: a drive is in one place.
Mounted == {f \in [Slaves -> Drives] : \A s, t \in Slaves : f[s] = f[t] => s = t}
Command(name, s) == [name |-> name, s |-> s]
All == "all"                            \* a command to every selected position
NoCommand == Command("quit", All)
Keys == {"none", "quit", "step", "zero"}

Off == [at |-> "off", mode |-> "jog", asked |-> {}, known |-> {}, busy |-> FALSE,
        was |-> FALSE, key |-> "none", s |-> All]
Ended(how) == [at |-> "off", cmd |-> NoCommand, end |-> how]

Init ==
    /\ fe = Off /\ be = Ended("orderly")
    /\ line = <<>> /\ events = <<>> /\ stop = FALSE
    /\ file = [s \in Slaves |-> NoDrive] /\ synced = file
    /\ drive \in Mounted
    /\ zeroed = {} /\ begun = [d \in Drives |-> {}] /\ on = FALSE

------------------------------------------------------------------------------
(* The frontend *)

\* What one round of the loop found is forgotten outside of it.
InRound == {"act", "keys", "persist", "persisted"}
Ending == {"leaving", "cleanup", "exit", "term"}
FeAt(step) ==
    fe' = [fe EXCEPT !.at = step, !.key = IF step \in InRound THEN @ ELSE "none",
                     !.was = @ /\ step \in InRound, !.busy = @ /\ step \notin Ending]
Gone == fe' = Off /\ events' = <<>>

\* send() raises when the backend has ended.
Send(name, s) ==
    IF be.at = "off" THEN FeAt("cleanup") /\ UNCHANGED line
    ELSE /\ line' = Append(line, Command(name, s))
         /\ fe' = [fe EXCEPT !.at = "loop", !.busy = TRUE, !.key = "none", !.was = FALSE]

\* run(): homing wants a record of every position, and keeps what it read.
\* known: the positions whose record, when it was read, named the mounted drive.
FeStarts ==
    /\ fe.at = "off" /\ be.at = "off"
    /\ \E mode \in {"jog", "home"}, asked \in SUBSET Slaves \ {{}} :
          /\ mode = "home" => \A s \in asked : file[s] # NoDrive
          /\ fe' = [Off EXCEPT !.at = "ready", !.mode = mode, !.asked = asked,
                               !.known = {s \in asked : mode = "home" /\ file[s] = drive[s]}]
    /\ be' = [be EXCEPT !.at = "starting", !.end = "orderly"]
    /\ line' = <<>> /\ events' = <<>> /\ stop' = FALSE
    /\ UNCHANGED <<file, synced, drive, zeroVars, on>>

\* Mutant: the record says that a zero was written, not in which drive.
HomeVerifiedByPosition == Fourth \notin fe.asked

\* verify_home_records: the drives are those of the records; never the fourth.
HomeVerified == Fourth \notin fe.asked /\ fe.asked = fe.known

\* wait_ready(), which gives up after 30 s, at an error or when the backend ended.
FeReady ==
    /\ fe.at = "ready"
    /\ \/ /\ events # <<>> /\ Head(events) = "ready"
          /\ events' = Tail(events)
          /\ IF fe.mode = "jog" THEN Send("hold", All)
             ELSE IF HomeVerified THEN Send("home", All)
             ELSE FeAt("cleanup") /\ UNCHANGED line
       \/ FeAt("cleanup") /\ UNCHANGED <<events, line>>
    /\ UNCHANGED <<beVars, file, synced, drive>>

\* One round of the loop: whether a command is outstanding is looked up before
\* the keys are read.
FeReads ==
    /\ fe.at = "loop"
    /\ \E key \in Keys : fe' = [fe EXCEPT !.at = "act", !.was = fe.busy, !.key = key]
    /\ UNCHANGED <<beVars, line, events, file, synced, drive>>

\* While a command is outstanding, and always when homing, quit interrupts it
\* before the events are read.
QuitsAtOnce == fe.key = "quit" /\ (fe.was \/ fe.mode = "home")

FeQuits ==
    /\ fe.at = "act" /\ QuitsAtOnce
    /\ IF fe.was THEN FeAt("cleanup") /\ UNCHANGED line
       ELSE line' = Append(line, Command("quit", All)) /\ FeAt("leaving")
    /\ UNCHANGED <<beVars, events, file, synced, drive>>

\* handle_backend_events(), one event at a time.  A zero that is done is recorded.
FeHandles ==
    /\ fe.at = "act" /\ ~ QuitsAtOnce /\ events # <<>>
    /\ LET e == Head(events)
       IN CASE e = "error" -> FeAt("cleanup")
            [] e = "zero done" -> FeAt("persist")
            [] OTHER -> fe' = [fe EXCEPT !.busy = FALSE]
    /\ events' = Tail(events)
    /\ UNCHANGED <<beVars, line, file, synced, drive>>

\* Mutant: keys pressed during a command are kept.
KeysCountWhileBusy == fe.mode = "jog"

\* The events are handled.  Keys count only if no command was outstanding.
KeysCount == fe.mode = "jog" /\ ~ fe.was

FeHandled ==
    /\ fe.at = "act" /\ ~ QuitsAtOnce /\ events = <<>>
    /\ FeAt(IF be.at = "off" THEN "cleanup" ELSE IF KeysCount THEN "keys" ELSE "loop")
    /\ UNCHANGED <<beVars, line, events, file, synced, drive>>

FeKeys ==
    /\ fe.at = "keys"
    /\ \/ fe.key = "none" /\ FeAt("loop") /\ UNCHANGED line
       \/ fe.key = "quit" /\ be.at # "off"
          /\ line' = Append(line, Command("quit", All)) /\ FeAt("leaving")
       \/ fe.key = "quit" /\ be.at = "off" /\ FeAt("cleanup") /\ UNCHANGED line
       \/ fe.key = "step" /\ \E s \in fe.asked : Send("step", s)
       \/ fe.key = "zero" /\ UNCHANGED line
          /\ \E s \in fe.asked : fe' = [fe EXCEPT !.at = "remove", !.s = s]
    /\ UNCHANGED <<beVars, events, file, synced, drive>>

\* atomic_write_json(): the new file replaces the old one, then the directory is
\* synced.  Until then a power cut may bring the old one back.
Replace(record, next) == file' = [file EXCEPT ![fe.s] = record] /\ FeAt(next) /\ UNCHANGED synced
Sync(next) == synced' = file /\ FeAt(next) /\ UNCHANGED file

\* Mutant: the directory is not synced.
FeRemovesUnsynced ==
    /\ fe.at \in {"remove", "removed"} /\ Replace(NoDrive, "zero")
    /\ UNCHANGED <<beVars, line, events, drive>>

\* remove_record_before_zero(), and only then the command.
FeRemoves ==
    /\ \/ fe.at = "remove" /\ Replace(NoDrive, "removed")
       \/ fe.at = "removed" /\ Sync("zero")
    /\ UNCHANGED <<beVars, line, events, drive>>

FeZeroes ==
    /\ fe.at = "zero"
    /\ Send("zero", fe.s)
    /\ UNCHANGED <<beVars, events, file, synced, drive>>

\* apply_done_event(), persist_record()
FePersists ==
    /\ \/ fe.at = "persist" /\ Replace(drive[fe.s], "persisted")
       \/ /\ fe.at = "persisted" /\ synced' = file /\ UNCHANGED file
          /\ fe' = [fe EXCEPT !.at = "act", !.busy = FALSE]
    /\ UNCHANGED <<beVars, line, events, drive>>

\* run(): after a quit the backend is waited for; one that does not end is sent
\* SIGTERM, and the tool cleans up as if something had been raised.  Whatever was
\* raised, the backend is interrupted and waited for; then it is sent SIGTERM and
\* waited for again; then the tool ends and closes its pipes.
FeCleansUp ==
    \/ fe.at = "cleanup" /\ FeAt("exit") /\ stop' = (be.at # "off")
       /\ UNCHANGED <<be, line, zeroVars, on, events, file, synced, drive>>
    \/ fe.at \in {"leaving", "exit", "term"} /\ be.at = "off" /\ Gone
       /\ UNCHANGED <<beVars, line, file, synced, drive>>
FeWaitsNoLonger ==
    \/ /\ \/ fe.at = "leaving" /\ FeAt("cleanup")
          \/ fe.at = "exit" /\ FeAt("term")
       /\ stop' = (be.at # "off")
       /\ UNCHANGED <<be, line, zeroVars, on, events, file, synced, drive>>
    \/ fe.at = "term" /\ Gone
       /\ UNCHANGED <<beVars, line, file, synced, drive>>

\* Ctrl-C reaches both processes; SIGTERM, SIGHUP, a disk error or the end of the
\* terminal only the frontend.  Once it is cleaning up, a second signal ends it.
Cleaning == fe.at \in {"cleanup", "exit", "term"}
FeInterrupted ==
    /\ fe.at # "off"
    /\ \E both \in BOOLEAN : stop' = (stop \/ (both /\ be.at # "off"))
    /\ IF Cleaning THEN Gone ELSE FeAt("cleanup") /\ UNCHANGED events
    /\ UNCHANGED <<be, line, file, synced, drive, zeroVars, on>>

FeKilled ==
    /\ fe.at # "off" /\ Gone
    /\ UNCHANGED <<beVars, line, file, synced, drive>>

Frontend ==
    FeReady \/ FeReads \/ FeQuits \/ FeHandles \/ FeHandled \/ FeKeys \/ FeRemoves \/ FeZeroes
    \/ FePersists \/ FeCleansUp \/ FeWaitsNoLonger

------------------------------------------------------------------------------
(* The backend *)

BeAt(step) ==
    be' = [be EXCEPT !.at = step, !.cmd = IF step \in {"moving", "saving", "saved"} THEN @
                                          ELSE NoCommand]

\* An event to a frontend that is gone is an error; an error stops the motors.
Tell(e, step) == IF fe.at = "off" THEN BeAt("stopping") /\ UNCHANGED events
                 ELSE BeAt(step) /\ events' = Append(events, e)
Fail == Tell("error", "stopping")

\* check_cancelled() at each step of the start and of a command.
BeCancelled ==
    /\ be.at \in {"starting", "begin", "moving", "saved"} /\ (stop \/ fe.at = "off")
    /\ Fail
    /\ UNCHANGED <<feVars, line, stop, drive, zeroVars, on>>

\* A refused request of a drive, a fault, a motion that takes too long.
BeFails ==
    /\ be.at \in {"starting", "serving", "begin", "moving", "saving", "saved"}
    /\ Fail
    /\ UNCHANGED <<feVars, line, stop, drive, zeroVars, on>>

\* A drive that is enabled or moves is refused.
BeStarts ==
    /\ be.at = "starting" /\ ~ stop /\ fe.at # "off" /\ ~ on
    /\ Tell("ready", "serving")
    /\ UNCHANGED <<feVars, line, stop, drive, zeroVars, on>>

\* Mutant: the end of the input is not noticed.
BeServesForEver ==
    /\ be.at = "serving"
    /\ \/ line # <<>> /\ line' = Tail(line) /\ be' = [be EXCEPT !.at = "begin", !.cmd = Head(line)]
       \/ stop /\ BeAt("stopping") /\ UNCHANGED line
    /\ UNCHANGED <<feVars, events, stop, drive, zeroVars, on>>

\* serve(): a command, the end of the input, or a signal.
BeServes ==
    /\ be.at = "serving"
    /\ \/ line # <<>> /\ line' = Tail(line) /\ be' = [be EXCEPT !.at = "begin", !.cmd = Head(line)]
       \/ (stop \/ (fe.at = "off" /\ line = <<>>)) /\ BeAt("stopping") /\ UNCHANGED line
    /\ UNCHANGED <<feVars, events, stop, drive, zeroVars, on>>

\* A command begins: quit ends serve(); homing the fourth axis, and a step of it
\* without a reference or at its limit, are refused; otherwise the motors move.
BeBegins ==
    /\ be.at = "begin"
    /\ \/ be.cmd.name = "quit" /\ BeAt("stopping") /\ UNCHANGED <<events, on>>
       \/ /\ (be.cmd.name = "home" /\ Fourth \in fe.asked) \/ be.cmd = Command("step", Fourth)
          /\ Tell("rejected", "serving") /\ UNCHANGED on
       \/ /\ be.cmd.name # "quit" /\ ~ (be.cmd.name = "home" /\ Fourth \in fe.asked)
          /\ ~ stop /\ fe.at # "off"
          /\ BeAt("moving") /\ on' = TRUE /\ UNCHANGED events
    /\ UNCHANGED <<feVars, line, stop, drive, zeroVars>>

\* The motion ends.  For a zero, the position is held, then the drive is disabled
\* and its EEPROM written: from now on it holds no zero that can be trusted.
BeMoves ==
    /\ be.at = "moving" /\ ~ stop /\ fe.at # "off"
    /\ IF be.cmd.name = "zero"
       THEN /\ BeAt("saving") /\ UNCHANGED events
            /\ zeroed' = zeroed \ {drive[be.cmd.s]}
            /\ begun' = [begun EXCEPT ![drive[be.cmd.s]] = {be.cmd.s}]
       ELSE Tell("done", "serving") /\ UNCHANGED zeroVars
    /\ UNCHANGED <<feVars, line, stop, drive, on>>

BeSaves ==
    /\ be.at = "saving"
    /\ BeAt("saved")
    /\ zeroed' = zeroed \cup {drive[be.cmd.s]} /\ begun' = [begun EXCEPT ![drive[be.cmd.s]] = {}]
    /\ UNCHANGED <<feVars, line, events, stop, drive, on>>

\* The drive was checked at its new zero, enabled and held there.
BeZeroed ==
    /\ be.at = "saved" /\ ~ stop /\ fe.at # "off"
    /\ Tell("zero done", "serving")
    /\ UNCHANGED <<feVars, line, stop, drive, zeroVars, on>>

\* Every motor is stopped, then the supply is switched off; either may fail, and
\* if both do, motors stay enabled.
BeStops ==
    /\ be.at = "stopping"
    /\ on' \in {FALSE, on}
    /\ be' = [be EXCEPT !.at = "ending", !.end = IF on' THEN "failed" ELSE @]
    /\ UNCHANGED <<feVars, line, events, stop, drive, zeroVars>>

\* What it has not read is lost.
Exits(how) == be' = Ended(how) /\ line' = <<>> /\ stop' = FALSE

\* A writer of the position memory that is stalled delays the end.
BeEnds ==
    /\ be.at = "ending" /\ Exits(be.end)
    /\ UNCHANGED <<feVars, events, drive, zeroVars, on>>

\* Killed: what was commanded last stays in the drives, and their supply on.
BeKilled ==
    /\ be.at # "off" /\ Exits("killed")
    /\ UNCHANGED <<feVars, events, drive, zeroVars, on>>

Backend ==
    BeStarts \/ BeServes \/ BeBegins \/ BeMoves \/ BeSaves \/ BeZeroed \/ BeCancelled
    \/ BeStops \/ BeEnds

------------------------------------------------------------------------------
\* The power of the computer and of the drives fails.
PowerCut ==
    /\ Gone /\ Exits("orderly") /\ on' = FALSE
    /\ file' = synced
    /\ UNCHANGED <<synced, drive, zeroVars>>

\* Drives are exchanged, or mounted at other positions, while nothing runs.
Exchange ==
    /\ fe.at = "off" /\ be.at = "off"
    /\ drive' \in Mounted
    /\ UNCHANGED <<feVars, beVars, line, events>>

Next ==
    \/ FeStarts \/ Frontend \/ FeInterrupted \/ FeKilled
    \/ Backend \/ BeFails \/ BeKilled \/ PowerCut \/ Exchange

\* The scheduler runs both processes; a motion that goes on for long ends as one that
\* arrived, or as one that failed; a stalled write of the position memory ends.
Spec == Init /\ [][Next]_vars
        /\ WF_vars(FeCleansUp) /\ WF_vars(FeWaitsNoLonger) /\ WF_vars(Backend)

------------------------------------------------------------------------------
(* Properties *)

\* The drive has a zero that was completely written, as far as a record of this
\* position can tell: only a zero begun at another position may have spoilt it.
Vouched(d, s) == d \in zeroed \/ \E t \in begun[d] : t # s

\* A record, also one that a power cut brings back, names a drive whose EEPROM
\* holds a zero that was completely written: no interruption between the removal,
\* the writing and the new record leaves one that lies -- unless the drive was
\* zeroed again at another position, whose record is another one.
\* (record_key and remove_record_before_zero, yiyou_control.py:469, 551)
RecordTruthful ==
    \A s \in Slaves : \A d \in {file[s], synced[s]} \ {NoDrive} : Vouched(d, s)

\* Motors are homed only when each selected drive, as it is mounted now, has a
\* zero of its own, with the same exception, and the fourth axis never.
\* (verify_home_records, yiyou_control.py:637)
HomeIsTrusted ==
    be.at = "moving" /\ be.cmd.name = "home" /\ fe.at # "off" =>
        \A s \in fe.asked : Vouched(drive[s], s) /\ s # Fourth

\* When the tool is ending, or was killed, both processes end and the motors are
\* disabled or without power -- unless the backend was killed, or could neither
\* stop a motor nor switch the supply off. (arm_yiyou_control.cpp:642-660)
MotorsStop ==
    (fe.at \in Ending \cup {"off"}) ~>
        (fe.at = "off" /\ be.at = "off" /\ (on => be.end # "orderly"))
==============================================================================
