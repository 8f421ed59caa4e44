# Verification of the BXI car

TLA+ models of the control software in `car2/` (a ROS 2 car: a swerve chassis on
CANopen drives, an arm on EtherCAT drives, a joystick, an app and a vision program)
and of the Python tools around it (release, installation, reports, drive service),
the TLC runs that check them on small instances and the theorems TLAPS proves about
them. `PROJECT.json` holds the same information for tools: the map from every
definition to its source lines, the runs, the mutants that break each checked
property, the hazards and the theorems.

    tlc -workers 2 -config MCFourthAxis_both.cfg MCFourthAxis     # a run
    tlapm FourthAxis_proofs.tla                                   # the proofs

Paths below are relative to `src/car2/src/` unless they start with `car2/` or
`scripts/`; `yiyou/`, `iswv/`, `arm/` and `chassis/` stand for
`thirdparty/motor/yiyou/`, `thirdparty/motor/iswv/`, `thirdparty/arm/` and
`thirdparty/chassis/`.

## 1. Inventory

| component | source | state | operations | status |
|---|---|---|---|---|
| Position memory | `yiyou/position_memory.cpp` | a file with an interval, volatile reference, one asynchronous write | restore, logical_position, raw_target, queue_target, poll, mark_target, invalidate, set_reference | modelled, proved |
| Arm controller | `arm/control.cpp` | four axes, two PP hand-shakes (planar group, fourth axis), fault latch | initialize, update, set_fourth_axis_jog, set_target_pose, return_to_zero, stop | fourth axis modelled, proved |
| Jog tool, backend | `car2/tools/arm_yiyou_control.cpp` | axes, held target, unsaved zero | hold, step, home, zero, quit | slave 4 modelled in detail, every slave as the frontend sees it |
| Jog tool, frontend | `car2/tools/yiyou_control.py` | the file of zero records, the command under way, pipes and signals | start, read keys, handle events, remove and persist a record, clean up | modelled, proved |
| Yiyou drive | `yiyou/motor.cpp` | none of its own | enable, PP hand-shake, halt, zero | as its callers see it |
| EtherCAT master | `yiyou/communication.cpp`, `cyclic_health.h` | process image, generations, debounce counters, fault latch | cycle thread, read, write, close | modelled, proved |
| CANopen master | `iswv/communication.cpp` | request queues, event queue, receive queue, three flags, two threads | upload, download, protocol and event threads, stop; heartbeat, guarding, PDO, SYNC | SDO part modelled, proved |
| CANopen drives | `iswv/motor.cpp`, `iswv/protocol/src/` | CiA 402 state, units, faults | enable, velocity, position, fault reset | left |
| Torque recordings | `arm/torque_log.cpp`, `car2/tools/arm_torque_report.py` | a directory of recordings, pictures and summaries; a lock per recording | record, complete; recover, prune, draw | the directory modelled, proved |
| Diagnostic log | `iswv/diagnostic_log.cpp` | a bounded queue, a writer thread | record, trigger, flush | left |
| Chassis | `chassis/control.cpp` | phase of four wheels, zero refresh, calibration runner | initialize, set_velocity, update, stop, calibrate | left |
| Steering configuration | `chassis/steering_*.hpp` | two YAML files | load, persist atomically | left |
| Swerve and arm kinematics | `chassis/*kinematics.hpp`, `arm/kinematics.cpp` | none | real-valued functions | not modelled |
| Car node | `example/main.cpp`, `arm_visual_tracking.h`, `app_arm_control.h`, `arm_position_remote.h`, `velocity_command_watchdog.hpp` | leases, watchdog, owner of the chassis | one update every period | visual tracking modelled, proved |
| Remote control | `example/remote_control.cpp`, `joystick_link_monitor.cpp`, `arm/joystick.hpp` | link state, arming latch, tracking request, arm request, startup stage; the monitor's thread | joystick events, timer, arm answers, probes | modelled, proved |
| Vision | `thirdparty/vision/*.py`, `example/arm_tracking.py`, `example/qr_midpoint.py` | camera, clock anchor, tracker, approach, session | read, evaluate, capture a goal; enable, publish, stop, disable | modelled, proved |
| Board | `thirdparty/bxi/board.cpp` | vendor handle, registry | open, send, receive callback | not modelled |
| Release | `scripts/publish_ota.py`, `car2/scripts/package_ota.py`, `car2/scripts/postinstall.py` | the pair of files, the site and its transfer tasks, the persistent files of a robot | pack, publish, install | modelled, proved |

How they interact. The car node owns an arm controller and a chassis controller and
calls both from one timer. The arm controller owns the EtherCAT master through its
drives and the position memory of the fourth axis. The chassis controller drives
eight CANopen drives through two CANopen masters, each with a protocol thread and an
event thread of its own. The remote control, the app and the vision node are
processes that publish velocity commands, leases and targets; whichever is fresh and
allowed owns the arm and the chassis for one update. The jog tool is a second program
for the same drives; the lock on the position record keeps it and the controller
apart. Its Python frontend owns a second file, of zero records, and talks to it over
two pipes. The vision program enables tracking through the parameter service of the
car node and publishes targets and one goal on topics of depth one. The car program
starts the torque report before and after its work. A release is packed, uploaded to a
download site that works on its own, and installed by robots that see only the site.

What makes it correct, and what is hard about it:

* Position memory. The drive loses its whole turns with its power, so the file must
  at every moment, including between a rename and the sync of the directory, hold an
  interval that contains the shaft wherever it stops. Writes are asynchronous, may
  fail or hang, and outlive the program that started them.
* Fourth axis. Press, release and reversal arrive at any time inside a hand-shake of
  reservation, staging, trigger and acknowledgement, while an old target is still
  being decelerated from.
* EtherCAT master. Callers and the cyclic thread share an image under a lock but a
  frame is sent without it; a wait may expire when its acknowledgement arrives; a
  latch must be final.
* CANopen master. Any thread submits, sends and completes; answers carry no number;
  `stop()` runs against all of them; callers wait without a timeout.
* Chassis. All wheels must pass zero before any reverses; zero is refreshed; a
  calibration moves four axes through five phases and one may fail.
* Car node and remote control. Leases, watchdogs and reconnects: nothing may move
  from a stale command, a stick that was held during a reconnect, or an answer to a
  request that was given up.
* Drive service. The frontend, the backend, the file and the EEPROM are four places
  that cannot change together; either process may be gone at any step.
* Reports. Three programs rename, link, lock and remove files of one directory.
* Vision. Images are late, repeated or wrong; the camera has a clock of its own; the
  operator, the parameter service and the topics act while the program waits.
* Release. An archive becomes visible with its checksum, transfers outlive the run that
  asked for them, and a file that was seeded once is never replaced.

The hazards, with lines and the properties that cover them, are in `PROJECT.json`.

## 2. Plan

Ordered by how much damage a mistake would do. Done: 1 to 8.

1. `PositionMemory`, `FourthAxis`, `YiyouJogTool`, `FourthAxisSystem` composed, with
   the abstract `TurnReference`; proofs.
2. `EthercatMaster`; proofs.
3. `CanopenSdo`: the request engine of the CANopen master; proofs.
4. `RemoteControl` with `JoystickLink`: no motion from a connection that was not seen
   centred, one owner, steps and jogs only as they are held; proofs.
5. `YiyouFrontend`: the records of zeros, homing, and a tool that ends; proofs.
6. `VisionPipeline` and `VisionSession`: from an image to a target, and from the
   operator's button to an enabled session; proofs.
7. `OtaPublish`, `Postinstall` and their composition `OtaRelease`; proofs.
8. `TorqueReports`: the directory of recordings; proofs.

Every invariant and action property the runs check has its theorem. Left: the planar axes
and the leases of `main.cpp`; the chassis (reversal through zero, calibration of four axes);
node supervision and the CiA 402 sequences; the two files of the steering configuration; the
diagnostic log. Of what is modelled, worth stating abstractly: a session as the operator
sees it, implemented by `VisionSession`; a directory that keeps the newest recordings,
implemented by `TorqueReports`.

## 3. Modules

No module declares a RECURSIVE operator. The proofs about a module `M` are in
`M_proofs`; those about `OtaRelease` and its parts and about `TorqueReports`, the two that
follow files, are together in `Files_proofs`.

### Fourth axis

| module | models |
|---|---|
| `PositionMemory` | the class: `disk` (what a reader sees), `survivors` (what a power cut may leave), the members `ready`, `committed`, `offset`, `last_triggered`, `write_error`, and `job`, the future and its thread. One operator per method; `WriterRename`, `WriterSync`, `WriterFail` are the thread |
| `FourthAxis` | the shaft and its drive (external), the controller (`initialize` with the set-point it holds at, `update`, jog, the five-state `advance_fourth_position`, `stop`/`latch_fault`), crashes, power cuts, a replaced drive |
| `YiyouJogTool` | the tool on slave 4: start with or without a reference, hold (also at a place nobody knows), step, and the zero in its seven steps with the hold that ends it |
| `FourthAxisSystem` | Init, Next, fairness and the properties of the composition |
| `TurnReference` | the abstract promise: an axis and a program that either knows its place or knows that it does not; what it is sent to, what it is only told to hold, and what becomes of the promise when a hold ends elsewhere |
| `FourthAxisInvariant` | the inductive invariant `IInv`, `Ordered` and `Truthful`, in named parts, and `InvAimed` and `InvLive`, which rest on it |
| `FourthAxis_proofs` | the theorems |

Positions are counts of the encoder as unbounded integers; the code uses 64-bit
integers and refuses a raw target outside `int32`. A record is valid or not: the
text, its checks and the temporary file are one Boolean. Device binding (interface,
slave, identity, scale) is one value. Time is not measured: every deadline may
expire whenever it is armed. A controller update is two steps:
the poll, which may throw, with the feedback and its limits; then one step of the
hand-shake. Between them the shaft, the writer and crashes interleave. SDO traffic inside
one call of the drive is part of that call.

Two kinds of set-point are told apart by `motion`. `"run"` is a target that went through
reservation, staging and trigger. `"hold"` is what the code triggers without any of that:
the controller at its start, to the place it has read after enabling
(`arm/control.cpp:172-182`: `ControllerEnable`, `ControllerHold`, `ControllerHalts`), the
tool when it is told to hold (`car2/tools/arm_yiyou_control.cpp:321-332`: `ToolHold`, also
while the position is not valid) and after a zero (`:502`: `ToolReferenced`).
`car2/docs/arm_cartesian_control.md:207` says that an interval is saved before each target is
triggered; the code does that for targets, not for these holds. A shaft that comes to rest
within `Slack` of a held place has used some of the margin of its record, and the next
start holds it there: starts alone can lead it out of its record. The history variable
`astray` says that this has happened; until the next zero nothing is claimed of the record
and of the trust in it, and the properties say so. In the code the next feedback or restore
outside the window is refused, but a shaft that is led on by further holds, while no
reference is trusted, can end a turn away, where the old record fits again.

Assumed of the world: the shaft moves straight to its set-point and rests within `Slack <=
Tol` of it, also when it is told to hold where it rests (`Tol` is two degrees); a halted
shaft stops on its way; a shaft without a command does not move, also while the power is
off. These are what the code's margin rests on, and the first is an `ASSUME`.

### Terminal tool of the drives

`YiyouFrontend` is one step per round of the frontend's loop and per event, key and
file operation in it (`fe.at`), and one per stage of a command in the backend
(`be.at`); the pipes are sequences, a signal is `stop`. `file` is what a reader sees and
`synced` what a power cut leaves; `zeroed` are the drives whose EEPROM holds a completely
written zero, and `begun` where a zero of a drive was begun and not finished. While
nothing runs, drives are exchanged or mounted at any other position. The backend here is
the same program as in `YiyouJogTool`, seen from its pipes: a motion is one stage, and a
command of the fourth axis may be refused. It may be killed at any step (`BeKilled`): the
motors then stay as they are, with their supply on, and the next tool refuses them. At its
end it stops every motor and switches the supply off, either of which may fail
(`BeStops`), and then destroys the position memory, which a stalled writer delays
(`BeEnds`); `be.end` is how it ended. After a quit the frontend waits for the backend
(`leaving`), and every wait may expire.

### EtherCAT master

`EthercatMaster` has one action per critical section of `cycle()` (`Prepare`,
`Publish`) and, between them, `Exchange` and `Poll` on the wire; `Write`,
`WriteReturns`, `WriteTimesOut`, `WriteRefused` for a mapped object;
`MailboxBegin`/`MailboxEnd` for the others; `Close`, `Die`, `Open` and the drives' own
`Watchdog`. What a drive is told is the number of the newest write in the image, 0
after `zero_output`. The one race of the code is kept: a caller that gives up zeroes
the buffers of SOEM while a frame is being sent, so any part of that frame may be
zero. `open()` is one step; reads of the cached image have no effect and are left out.

### CANopen SDO

`CanopenSdo` gives every thread a sequence of tasks, the rest of the call it is in; a
step does the first task, and is one critical section, one atomic access or one call
of the transport. So `enqueue_sdo`, `activate_next_sdo`, `send_frame`, `pop_sdo`,
`complete_sdo`, `enqueue_event`, `process_sdo`, `check_sdo_timeouts` and `stop()`
interleave in every order the locks allow. Each request has a thread of its own, the
protocol and event threads are the code's, and `stop()` is called from outside. The
nodes are external: a request on the bus is answered or missed, in order; the receive
queue drops its oldest frame when it is full. The contents of an answer, aborts and
an answer of the wrong kind are all "the answer to request q". A `stop()` called from
a worker thread detaches it instead of joining; that variant is not modelled.

### Remote control

`JoystickLink` is the monitor: `healthy_`, `generation_` and the age of the last
success. A probe may take for ever, so the thread's steps are the ways a probe ends,
and the 500 ms run independently (`Expire`). The age has a middle value because the
monitor compares the time it took before it had the lock: a success that ended just
before the deadline may be recorded just after.

`RemoteControl` holds the node in one record `n`, and writes each method of
`RemoteCtrl` and `ArmJoystick` as an operator from the record to the record, so that
a method that calls five others is the composition of five operators. A timer tick is
cut into three steps: the link gate (`TickUnhealthy`, `TickReconnected`, `Tick`),
`read_joystick_events` with one step per event, and the rest of the callback (the five
`Act...` actions are its returns). Between them the operator, the radio link and the
monitor's thread go on; subscriptions, the answers of the arm and `main()` run on the
same executor and wait for the end of the tick. The INIT events of a file that was
just opened are one step, `HandleInit`.

What is data: an axis is at rest or not (the lever of the arm has also the band
between its two thresholds), the filter and the ramp are two Booleans that follow the
stick with any delay, a step is its coordinate, direction and whether it is a
repetition. The published velocity is `n.moving`, the jog `n.jog`, the tracking
request `n.tracking`. `rested` and `blocked` are history variables: which controls the
operator had at rest since the link's generation began, and whether both jog buttons
were down.

Assumed of the world: a pad that comes back into range reports its present state; the
read of an open device fails only when the pad is out of range. Not modelled: an
enable button (there is none by default), the mode without arm controls, speech, and
the HID exchange inside one probe.

### Vision

`VisionPipeline` is one run of the vision program up to a target, in one of five modes:
looking only, `pixel` (the default of the program), `pixel-depth`, `depth` with a camera on
the tool, and the approach. An image shows markers (left to right), a depth or none; it has
the time it was taken, and is delivered up to `MaxLate` later, again, or out of order.
`Received` is the program's estimate of that time; it errs by the delay of the first image,
to which it is set. `ArmTracker` is `Track` and `Lost`, `ArmApproach` is `EvaluateApproach`
and below; an evaluation takes any pose the arm may have reported. Lengths are small
integers: a lateral offset is its distance from zero, in the pixel modes a correction is its
sign. The camera's start may fail after it already delivers images, and its stop may raise:
the program has then forgotten a pipeline that still runs (`"abandoned"`). `streak`, `last`
and `atRest` are history.

`VisionSession` takes of the gate only its results, and adds the operator's button with
its cancel (`Observe`), the two calls that enable and the one that disables, served in
order by the car node, lost or served after they were given up, the messages of depth one, and
`ArmVisualTracking` (`ctl`) with its callbacks. The time of an image here is the program's
own estimate of it; how far that can be off is the matter of `VisionPipeline`. `"left"` is a
session that a program left enabled which was killed, or which closed without an answer to
its only request to disable. A tick is about the age at which a target
is too old.

### Release

`OtaPublish` is packing (with what a failed or killed one leaves), the download site with
its transfer tasks, and any number of overlapping publishing runs, one step per request. A
transfer writes its target in place; it may begin, land or be dropped at any time, also when
the run that asked for it has failed. Bytes are "ours", "partial", "torn" or "other".
`Postinstall` is `copy_missing` on three stages with failures and kills between the creation
of a file and its filling. Nothing is synced there: `cached` are the files that are not
written back, which a power cut may lose or empty, also after the installation; `caught` is
history, the files a kill or a power cut came upon. `OtaRelease` composes them: a robot
installs what it downloaded and found intact. The two parts share no state once that is
decided, so the robot is followed after the last run has published.

### Torque recordings

`TorqueReports` follows the names of each session: `.part`, `.csv`, `.json`, `.png`, and
the lock of the file itself. `ArmTorqueLog` is the recorder; a report run is one step per
system call that another program can observe, with its lists read once, as in the code.
`broken` is history: sessions at which a report failed or was killed, or which one run
pruned while another drew them.

## 4. Runs

| run | instance | shows |
|---|---|---|
| `axis_both` | a turn of 4 counts, limit 4, step 1, slack 1, both programs, two drives; the shaft is followed in -2..6, and one that went astray only while nobody trusts a reference and the controller does not run | the record on disk and the trust are right under every interleaving of crash, power cut, slow and failed writes, zeroing, holds and exchange of the drive; targets are reserved and as the button is held; only a move of a turn or more is refused; the whole implements `TurnReference` |
| `axis_jog` | a turn of 7, limit 5, step 2, start above the limit, controller only, slack 0 | a held jog ends; a stopped program releases the record |
| `master` | 2 drives, 2 callers with one write each, limits 2 and 1 | an acknowledged write was received; a fault stops the drives; a waiting caller is answered |
| `sdo` | pairs of requests: one object, two objects, two nodes, one refused; a queue of 2 and one of 1, all other queues 1, an observer of raw frames | each completion exactly once, nobody left behind, answers confused only for one object and after a timeout |
| `sdo_late` | 2 requests for one object | **violation**: a late answer is taken for the next request |
| `remote` | five groups of controls (lever and selection, lever and tracking, stick and tracking, jog and stop, start and emergency), waiting and running, 1 recovery, 1 unread event | nothing acts from a control that was not at rest on the verified link; one owner; jogs and steps as they are held |
| `remote_live` | one stick, emergency stop | a loss stops the car, an emergency stop is heard, a pad at rest arms |
| `yiyou_frontend` | an ordinary position and the fourth axis, two drives, each mountable at either | a record names a drive with a completely written zero, unless another position began one since; homing moves only such drives; an ending tool leaves the motors off, unless the backend was killed or could switch nothing off |
| `vision_pipeline` | five modes: look, pixel, pixel-depth, depth, approach; 5 images: good, beside, without depth, far, one marker twice; 3 images to confirm; 6 time steps for the approach, 4 for the others | a target is confirmed and recent; the goal is seen at rest; the camera is released, unless the SDK cannot stop it |
| `vision_session` | 1 fault, 2 calls waiting, 3 times | nothing is left enabled, the goal comes after the hold, a cancel wins, a withdrawn session is disabled |
| `release` | 2 overlapping runs, 1 setting, 1 state file, power cuts | an offered pair is complete, other files are kept, runs end, files are seeded whole and the older machine first |
| `torque_reports` | 2 recordings, 2 report runs, 1 kept | a live recording is left alone, the newest are kept, a kept summary names a picture that is there |

Why the bounds are enough. In `axis_both` a turn of 4 counts has a margin of 1; two steps
and two margins are a whole turn, so a reversal at full speed is too wide and is refused, as
it may be in the code at 59.3 to 60 rpm: `TooWide` is reached, and that nothing else is
refused is what `RefusesOnlyWideMoves` says. In `axis_jog` a turn of 7 leaves room for an
interval with margins, a reversal and the next turn. The limit and the start make the axis
cross a turn in both directions, with negative remainders. A shaft that nobody can rely on
may wander without end; `Followed` bounds where it is followed, and of one that went astray
only the way to a new reference. Two drives make a partly received frame; one write in the
whole process (`MaxWrites`) meets every fault and every stage of a frame, but not a second
write in flight: that is only proved, for any number of writes and callers. The debounce
limit of 2 needs repeated failures. A queue of 2 has a request behind the one in service and
a queue of 1 overflows with the second; the receive and event queues of 1 are full as soon
as anything waits; which requests are made in one behaviour is bounded by `Together`. In a
behaviour of the remote control the operator uses one of the groups of controls in `Hands`,
those whose combination a property is about; the others stay at rest. The lever is neutral
or fully pushed, with the tracking button also between the two thresholds. One stick stands
for the three, which the code treats alike. The link has one recovery: it is verified once,
and lost for good at any step after that. A reconnect with a new generation does not occur
in the runs; `FreshInput`, `OneOwner` and `ActsAsHeld` are proved for any number of them,
`LossStops`, `EmergencyHeard` and `Rearms` are checked for the first connection. In the
terminal tool the commands that can be in the pipe are bounded by the code. Three confirming
images let an outlier stand first, between and last; images up to two steps late with an age
limit of one separate arrival from exposure, and six time steps have room for a goal from a
late image, after a late first image and after a renewed request (`Horizon` follows the
other modes, and a session that is renewed too late for a goal, for fewer steps). One fault
of the session loses any one of the requests or answers, or kills the program once; two
calls are one that was given up and the next. Two publishing runs are a timed-out one and
its repetition; two recordings with one kept make every listing old when it is used. Every
invariant of these runs, and every action property, is in addition proved for all values of
the constants, so beyond these bounds only the liveness properties rest on them.

`sdo_late` is a finding. The test
`late_reply_after_timeout_is_logged_as_unmatched` covers a late reply with nothing in
service. When the next request for the same object is in service, `process_sdo`
cannot tell the two and completes it with the late answer. `ConfusedOnlyByLateAnswers`
says that this is all that can be confused.

### Fairness

* `axis_jog`: weak fairness of the shaft, the writer and the update loop, which the timer of
  the car node and the operating system give; the shaft stops where it is sent (slack 0).
  Strong fairness of two answers of the drive (set-point staged, set-point acknowledged):
  the code polls them in every update, and a drive that never gives them is covered by the
  deadline, which is a fault and also ends the jog. Nothing is assumed of the operator, and
  no power cut is assumed.
* `master`: the cyclic thread runs, because its receive has a timeout; a notified caller
  wakes up; 20 ms pass when nothing is published; a drive without frames trips its watchdog,
  which `open()` programs. Nothing is assumed of the bus, and no wait is assumed to expire.
* `sdo`: threads are scheduled, a call of the transport returns, deadlines pass. Nothing is
  assumed of the node, and `stop()` need not be called.
* `remote_live`: the timer fires and `main()` goes on. 500 ms pass while the pad is out of
  reach, whatever the probe does. An open of the device that is tried again and again
  succeeds at last (strong fairness: each attempt may fail, and attempts stop while the link
  is down). Nothing is assumed of the operator or of the probes; that a link works is the
  premise of `EmergencyHeard` and `Rearms`.
* `release`: a publishing run goes on (every request has a timeout, a task has its 15
  minutes). Nothing is assumed of the site.
* `yiyou_frontend`: the scheduler runs both processes, waits expire, and a motion ends
  because the backend bounds it in time; a stalled write of the position memory ends.
  Nothing is assumed of the drives' answers beyond that, a motor and the supply need not
  obey, and no kill or signal is assumed.
* `vision_session`: the program's loop runs, its half second between two attempts to disable
  passes (strong fairness: the attempt is possible at three places of each round), the car
  node serves its parameters.

## 5. Proofs

The assumptions are the named `ASSUME`s of the modules, which TLC evaluates in the runs:

* `ScaleAssumption` (a turn is wider than two margins, which the constructor checks),
  `BindingsAssumption`, `AxisAssumption` (limits and steps are positive, slack at most the
  margin);
* `LimitAssumption` of the master and of `CanopenSdo` (counts, and queues that hold
  something), `RequestAssumption` and `NameAssumption` (a request has a node; a request
  is not called like a thread);
* `ControlsAssumption` (axes, buttons and the lever are different controls, and a group in
  use is finite);
* `SessionAssumption`, `VisionAssumption` and `ViewsAssumption` (limits and what an image
  shows are numbers; two different markers are wanted);
* `SettingsAssumption`, `RunsAssumption`, `SessionsAssumption` (recordings are numbered
  from one), `ReportersAssumption`, `KeepAssumption` (how many recordings are kept is
  a number, also 0, which the program accepts).

Each module states one inductive invariant in named parts; one lemma per action shows
that it is kept, and the theorems about what the runs check follow from it. What each
invariant needs beyond the property is what makes the property true:

**`FourthAxis_proofs`.** `FileTellsTheTruth` alone is not inductive: a step of the writer
publishes a record that some program asked for earlier, and a trigger relies on a
reservation made several steps before. `IInv` has two halves. `Ordered` holds whatever the
shaft does: how the write in flight shows in the file (`InvJob`), when a reference may be
trusted (`InvReady`), what a zero that is not saved allows (`InvUnsaved`), and how the
programs' phases, the writer and the drive follow each other (`InvStart`, `InvPhase`,
`InvZero`). `Truthful` holds until a hold leads the shaft astray: the surviving records
and the one in flight cover the shaft (`TrueFile`, `TrueJob`), the offset is the drive's
lost turns (`TrueReference`), and each program knows where the shaft can be, between the
last reading and the last triggered target, and under which reservation
(`TrueController`, `TrueTool`). A hold goes to a place in every surviving record, so until
the shaft rests it keeps `Truthful`; where it then rests decides `astray`.
Restoring rests on `RestoredUnique`: in an interval narrower than a turn one number is
congruent to the reading, and for both signs of the remainder `Distance` finds it. From
`Spec => []IInv` follow type correctness, `FileTellsTheTruth`, `TrustedIsTrue`, the action
properties `TriggerIsReserved` and `ReversalWaits` (a shaft that is being stopped or held is
not triggered by the update loop), and, by a step simulation, that the system implements
`TurnReference`, whose `Hold` and `Stray` are the holds and what may become of them.

Two more parts go beyond the file, and are proved for every slack, speed and pair of
programs. `InvAimed`: a target that waits for its trigger was computed in the direction that
is still held, from a position read since, and within the limit. It gives `MovesAsHeld`, in
which `base` is that position. `InvLive`: while a reference is trusted, the committed
interval covers the shaft and what was read of it. It gives `RefusesOnlyWideMoves`: the only
guard of its own memory a program runs into is the one against a move of a turn or more
(`TooWide`). A reversal at speed spans up to two steps and two margins; at the real scale
that is a turn above about 59.3 rpm, and accepted speeds end below 60 rpm. With slack the
shaft may settle a little further with each reversal, and beside the jog tool longer moves
occur; both end in the same refusal, which is a fault and not a wrong position. The
conditions "until astray" are needed: without them TLC refutes `FileTellsTheTruth`,
`TrustedIsTrue` and that every trigger, holds included, keeps the margin of a record.

**`EthercatMaster_proofs`.** `AcknowledgedIsDelivered` needs where a waiting write can be:
in the image, in the frame if that was prepared after it, at its drive if that frame
came back complete, or taken back by the latch (`OnItsWay`). With the order of the
three generations this is inductive; `FailedIsFinal`, `LatchedIsOff` and
`LateStaysLate` follow.

**`CanopenSdo_proofs`.** Four invariants, each on the ones before. `Base`: what a thread
still has to do concerns requests that were made, and a request is taken out of its queue
only by a thread that completes it and then serves the queue. `AllOnce`: a completion is
with one thread, in one place of the event queue, or was called once; this is
`AnsweredOnce`. `Remembered`: a request that is not completed is queued or about to be
completed, and a queue whose first request is not in service is about to be served; this
is `NobodyForgotten`. `Lineage` follows the frame of each request: it is in one place, and
if it outlives its request, another request for the same object has timed out before
(`Departed`); what is completed with it is explained by that (`AllExplained`), which is
`ConfusedOnlyByLateAnswers`.

**`RemoteControl_proofs`.** `FreshInput` speaks of the end of a tick. Inductive is that
everything the node believes of the operator or has asked for rests on controls it saw at
rest, and that the operator had those at rest in the link's present generation
(`NothingOlder`), also for events that are still in the queue, and except for a velocity
between the gate and the publication of the tick that notices a new generation. `OneOwner`
needs only `Owned`. `ActsAsHeld` for the lever follows from `Held`; for the jog buttons it
needs that the queue leads from what the node has read to what the driver knows
(`QueueLeadsToKnown`) and that two buttons held together are seen before the node jogs
(`BlockedIsSeen`). Methods are operators on the node's record, so each has a lemma of
its own, and an action is a chain of them.

**`YiyouFrontend_proofs`.** Nothing is assumed of where drives are mounted. A record tells
the truth because a position whose zero was commanded has no record, in the file or after a
power cut, until the drive has it (`ZeroCommanded`), which the frontend learns from a reply
(`ZeroKnown`). That the reply belongs to this command is `OneOutstanding` and `QuietFirst`:
the pipes hold at most one command or its reply, and none where the frontend chooses the
next. `HomeIsTrusted` follows from `HomeCovered`: who homes has verified each record, and a
verified drive keeps its zero. A record is kept for a position, so a zero that is begun at
another position and broken off spoils a drive behind its record: `Vouched` excepts exactly
such drives, by the history `begun`.

**`VisionPipeline_proofs`.** `TargetIsConfirmed` needs that the candidate was confirmed by
images of the running streak only (`CandidateOfStreak`), `TargetIsRecent` that the estimate
of an image's age errs by at most the delay of the first image (`ImageIsDated`),
`GoalSeenAtRest` since when the chassis holds (`RestsSince`); it has the same allowance,
which `car2/docs/arm_height_tracking.md:157` does not make: an image that was buffered as
long as the first one counts as new. `CameraReleased` needs at which steps of its start the
camera may already deliver (`CameraStops`), and excepts a pipeline the SDK did not stop
(`"abandoned"`).

**`VisionSession_proofs`.** `LeavesNothingOn` must survive an answer that belongs to the
request before: `NotedFirst` says that a session is noted before it is asked for,
`DisableIsLast` that the answer a disabling program hears is the one to its own request and
that no enabling request is behind it. `GoalAfterHold` compares the program's estimate of an
image's time with the car node's clock, through a chain: the enabling answer the program
hears is its own (`EnableIsLast`), so the gate was made when the car node held the arm or
was about to (`GateAfterHold`); the goal comes after the gate (`GoalAfterGate`), and a goal
of an earlier session that is still on its way is older than what the car node takes
(`GoalOnItsWay`). `CancelWins` needs that a session under control has a request that stands
(`RequestStands`, `Withdrawn`).

**`Files_proofs`, installation.** `SeededWhole` needs that at most one file is open and that
nothing is open when no installation runs (`OneIsOpen`); a power cut is excepted for the
files it came upon before they were written back (`caught`), and for no others.
`OldMachineFirst` speaks of the end of an installation only; `OldOnItsWay` says of every
stage where a file of the older tree is: copied, being copied, or still to come with nothing
in its place.

**`Files_proofs`, release**, for any finite set of runs. `PairIsComplete` rests on
`ArchiveFirst` (who sends a checksum has verified the archive, and a verified archive is
spoilt by a second transfer only), which needs where bytes of this release come from
(`Uploaded`), that a run sends each file once (`SentOnce`) and that nothing packs once a
run has looked (`PackedFirst`). `OthersAreKept` follows from `OthersUntouched`: nobody has
a transfer for a file of somebody else, or is about to ask for one.
`RobotImplementsPostinstall` is a step simulation; the theorems about the installation
hold for the composition.

**`Files_proofs`, recordings.** A report run works from a listing that is old, so "among the
newest" is not stable. `Superseded` is: a recording that has `Keep` newer ones with their
final name keeps that many, because one that is pruned has as many newer ones itself, and
those are newer than the first as well (`SupersededStays`, for any `Keep`). Everything a run
is about to remove is superseded (`RunOK`), so what lost its last name, or its picture under
a summary, is superseded (`NamesKept`); `NothingLost` and `KeptReportIsWhole` follow.
`LiveIsLeftAlone` rests on the lock and on the order in which names are given
(`NamesInOrder`).

Only model-checked: liveness, that is `HeldJogEnds`, `ExitEnds`, `WaitsEnd`,
`FaultStopsDrives`, `EveryRequestEnds`, `LossStops`, `EmergencyHeard`, `Rearms`, `MotorsStop`,
`WithdrawnIsDisabled` and `RunsEnd`: fairness and ENABLED are out of the prover's reach.

## 6. Not modelled, and why

* Kinematics, detection of codes, depth and the geometry of a target are real-valued
  functions, out of TLC's reach; the models take their results from small sets.
* The vendor board library, SOEM, the Orbbec SDK and the download site are not part of this
  code; what the models need of them is external and nondeterministic.
* Formatting, arguments, console output, the curses screen, the preview window and the
  drawing of a picture have no effect on what is checked. `open()` of the EtherCAT master is
  one sequence with no concurrency.
* Jog tool: two frontends at once share the file of zero records without a lock. A record is
  keyed by interface and position (`car2/tools/yiyou_control.py:469`) and names the drive
  with its serial number: a drive that is moved away, zeroed half-way elsewhere and moved
  back has a record that lies. The model has it, and `RecordTruthful` and `HomeIsTrusted`
  except exactly that.
* Torque recordings: the recorder failing before its file has a name; the queue in memory. A
  picture that a kill leaves without its summary is never replaced nor pruned afterwards,
  which is why `PictureHasItsSummary`, which is proved and not a run's, excepts `broken`
  sessions.
* Vision: a camera on a fixed mount and still pictures (`--image`); `--execute` and the
  sessions without an approach as far as their gate differs, a refused parameter set, the
  lateral hand-over of the chassis, manual poses. A program that is killed with a session
  enabled, or closes without an answer, leaves the parameter set: the model has it
  (`"left"`), and every later program is refused until somebody clears it. That is what the
  code's check for a foreign session means, and `LeavesNothingOn` speaks of `"mine"` only.
* Release: `PairIsComplete` excepts a second transfer of the same archive. An offline
  download cannot be told not to overwrite, so a transfer of a run that timed out may
  rewrite an archive that its repetition has already published; robots compare the checksum
  before they install. `run_app_control.sh` is not modelled.
* Car node, chassis, CANopen supervision, CiA 402 sequences, steering persistence and the
  diagnostic log are left, as section 2 lists. Their hazards are known: wheels that reverse
  at different speeds must all pass zero before any takes the new direction
  (`chassis/control.cpp:439`), a lost zero frame must be repeated (`:571`), four axes are
  calibrated in different phases (`:1108`) from frames of different times
  (`chassis/calibration_feedback.hpp:56`), one of two files is replaced
  (`chassis/steering_tuning_persistence.hpp:277`), supervision changes between the choice of
  a node and its request (`iswv/communication.cpp:1254`), and a 300 ms lease is renewed by a
  message that is older than the release (`example/arm_position_remote.h:40`).
