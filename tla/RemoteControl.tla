----------------------------- MODULE RemoteControl -----------------------------
(***************************************************************************)
(* The remote control node (example/remote_control.cpp, arm/joystick.hpp)  *)
(* with the joystick it reads and the link monitor it asks.                *)
(*                                                                         *)
(* The node is one record, n: a function of the code that changes several  *)
(* members is an operator from the record to the record.  A timer tick is  *)
(* three steps -- the link gate, one step per joystick event, the rest --  *)
(* and everything else may happen between them, except what runs on the    *)
(* node's own executor, which waits for pc = "idle".                       *)
(*                                                                         *)
(* A control is an axis or a button.  The driver keeps the last value it   *)
(* received (`known`), answers the first read after an open with one INIT  *)
(* event per control -- one step here -- and then queues the changes.      *)
(***************************************************************************)
EXTENDS JoystickLink, Integers, SequencesExt

CONSTANTS
    Axes,        \* the chassis sticks: axis_linear_, axis_lateral_, axis_angular_
    Hands,       \* bound: what the operator uses, each a function from some controls
                 \* to where he may have them.  A stick or a button is at 0 or 1;
                 \* axis7 at 0 neutral, or +-2 beyond the active threshold
    Stages,      \* "waiting" with a startup session, "running" without
    HasTimeout,  \* timeout_sec > 0
    MaxQueue     \* bound: joystick events not yet read

VARIABLES
    hands,       \* bound: the one of Hands he uses in this behaviour
    pads,        \* [Controls -> Int]: where the operator has them (external)
    known,       \* what the driver received last (external)
    queue,       \* events the driver holds for the open file (external)
    fd,          \* joy_fd_: "closed"; "opened", INIT not read yet; "read"
    pc,          \* "idle", "read" (read_joystick_events), "act" (what follows)
    n,           \* the node, see Node
    wasHealthy,  \* link_was_healthy_
    linkGen,     \* link_generation_
    pose,        \* arm_feedback_fresh()
    rested,      \* history: controls the operator had at rest since the link's
                 \* present generation began
    blocked      \* history: both jog buttons were down, and one still is

padVars == <<hands, pads, known, queue>>
nodeVars == <<fd, pc, n, wasHealthy, linkGen>>
vars == <<linkVars, padVars, nodeVars, pose, rested, blocked>>

JogButtons == {"plus", "minus"}              \* button0, button4
StepControls == {"step", "previous", "next"} \* axis7, button3, button1
Buttons == JogButtons \cup {"previous", "next", "tracking", "start", "emergency", "stop"}
Controls == Axes \cup {"step"} \cup Buttons

ASSUME ControlsAssumption ==
    /\ Axes \cap (Buttons \cup {"step"}) = {}
    /\ \A h \in Hands : /\ DOMAIN h \subseteq Controls /\ IsFiniteSet(DOMAIN h)
                        /\ \A c \in DOMAIN h :
                              0 \in h[c] /\ h[c] \subseteq (IF c = "step" THEN -2..2 ELSE 0..1)
    /\ Stages \subseteq {"waiting", "running"}
    /\ HasTimeout \in BOOLEAN
    /\ MaxQueue \in Nat \ {0}

Coordinates == 0..2                          \* x, z, pitch
Step == [coord: Coordinates, dir: {-1, 0, 1}, repeated: BOOLEAN]
NoStep == [coord |-> 0, dir |-> 0, repeated |-> FALSE]

\* ArmJoystick; its seen_ and pressed members are n.seen and n.at.
Joy == [armed: BOOLEAN, ready: BOOLEAN, dir: {-1, 0, 1}, coord: Coordinates]

Node ==
    [ at: [Controls -> -2..2],        \* axes_, buttons_
      seen: SUBSET Controls,          \* axis_seen_, arm_jog_seen_, ArmJoystick's
      released: SUBSET Buttons,       \* start_, emergency_stop_, arm_tracking_released_
      armed: BOOLEAN,                 \* joystick_armed_
      toggle: BOOLEAN,                \* arm_tracking_toggle_pending_
      tracking: BOOLEAN,              \* arm_tracking_requested_, as published
      jogReady: BOOLEAN,              \* arm_jog_ready_
      jog: {-1, 0, 1},                \* last_arm_jog_, as published
      moving: BOOLEAN,                \* smooth_twist_ is not zero, as published
      filtered: BOOLEAN,              \* a filtered axis is beyond the dead zone
      joy: Joy,                       \* arm_joystick_
      action: Step,                   \* arm_action_, NoStep if empty
      request: {"none", "get", "set"},     \* arm_get_request_, arm_set_request_
      answer: {"none", "good", "bad"},     \* of that request, once received
      asked: Step,                    \* arm_requested_* of that request
      stage: {"waiting", "requested", "starting", "running"},  \* session_->stage
      alive: BOOLEAN ]                \* rclcpp::ok()

-----------------------------------------------------------------------------
(***************************************************************************)
(* ArmJoystick                                                             *)
(***************************************************************************)
Active(v) == v \notin -1..1
Neutral(v) == v = 0

Disarm(m) == [m EXCEPT !.joy = [@ EXCEPT !.armed = FALSE, !.ready = FALSE, !.dir = 0]]
SuspendRepeat(m) == [m EXCEPT !.joy.dir = 0]
ResetJoy(m) == Disarm([m EXCEPT !.joy.coord = 0])

NeutralReady(m) == StepControls \subseteq m.seen /\ \A c \in StepControls : Neutral(m.at[c])

\* arm(), where it succeeds.
ArmJoy(m) == [m EXCEPT !.joy = [@ EXCEPT !.armed = TRUE, !.ready = TRUE]]

RepeatActive(m) == m.joy.armed /\ Active(m.at["step"]) /\ m.joy.dir * m.at["step"] < 0

-----------------------------------------------------------------------------
(***************************************************************************)
(* The node's own functions                                                *)
(***************************************************************************)
Busy(m) == m.request # "none"
Pressed(m, b) == m.at[b] # 0
Centred(m) == \A a \in Axes : m.at[a] = 0
StartupPending(m) == m.stage # "running"

NoRequest(m) == [m EXCEPT !.request = "none", !.answer = "none", !.asked = NoStep]

CancelAdjustment(m) == [NoRequest(m) EXCEPT !.action = NoStep]

\* mutant: tracking begins with an arm step still under way
SetTrackingBeside(m, requested) ==
    LET dropped == [m EXCEPT !.toggle = FALSE]
    IN  IF m.tracking = requested THEN dropped
        ELSE Disarm([dropped EXCEPT !.tracking = requested])

\* set_arm_tracking_requested
SetTracking(m, requested) ==
    LET dropped == [m EXCEPT !.toggle = FALSE]
    IN  IF m.tracking = requested THEN dropped
        ELSE CancelAdjustment(Disarm([dropped EXCEPT !.tracking = requested]))

CancelTracking(m) == SetTracking(m, FALSE)

\* mutant: a jog button that is still down jogs on when the feedback is back
UpdateJogAnyway(m, enabled) ==
    LET ready == enabled /\ pose
    IN  [m EXCEPT !.jogReady = ready, !.jog = IF ready THEN m.at["plus"] - m.at["minus"] ELSE 0]

UpdateJog(m, enabled) ==
    LET both  == Pressed(m, "plus") /\ Pressed(m, "minus")
        none  == JogButtons \subseteq m.seen /\ ~Pressed(m, "plus") /\ ~Pressed(m, "minus")
        ready == enabled /\ pose /\ ~both /\ (none \/ m.jogReady)
    IN  [m EXCEPT !.jogReady = ready,
                  !.jog = IF ready THEN m.at["plus"] - m.at["minus"] ELSE 0]

PublishZero(m) == [m EXCEPT !.moving = FALSE, !.filtered = FALSE]

\* handle_arm_action for a step; a change of the selection is SelectEvent's.
HandleStep(m, dir, repeated) ==
    IF m.armed /\ ~m.tracking /\ dir # 0 /\ ~Busy(m) /\ m.action = NoStep
    THEN [m EXCEPT !.action = [coord |-> m.joy.coord, dir |-> dir, repeated |-> repeated]]
    ELSE m

Released(m) == [c \in Controls |-> 0]

\* invalidate_joystick; the file is closed by the step that uses it.
Invalidate(m) ==
    LET cleared == [m EXCEPT !.armed = FALSE, !.released = {}, !.at = Released(m), !.seen = {}]
        pending == IF m.stage = "starting" THEN [cleared EXCEPT !.alive = FALSE]
                   ELSE IF m.stage = "requested" THEN [cleared EXCEPT !.stage = "waiting"]
                   ELSE cleared
    IN  CancelAdjustment(UpdateJog(ResetJoy(CancelTracking(pending)), FALSE))

EmergencyStop(m) ==
    [PublishZero(CancelAdjustment(Disarm(UpdateJog(CancelTracking(m), FALSE))))
        EXCEPT !.alive = FALSE]

-----------------------------------------------------------------------------
(***************************************************************************)
(* read_joystick_events: what an event does                                *)
(***************************************************************************)
Observed(m, e) == [m EXCEPT !.at[e.ctl] = e.val, !.seen = @ \cup {e.ctl}]

\* mutant: a repetition that was asked for is submitted after the release
StepEventPatient(m, e) ==
    LET o == Observed(m, e)
        flipped == IF o.joy.dir * e.val > 0 THEN SuspendRepeat(o) ELSE o
        dir == IF e.val < 0 THEN 1 ELSE -1
    IN  CASE ~o.joy.armed -> o
          [] o.joy.armed /\ Neutral(e.val) -> [SuspendRepeat(o) EXCEPT !.joy.ready = TRUE]
          [] o.joy.armed /\ Active(e.val) /\ o.joy.ready ->
               HandleStep([flipped EXCEPT !.joy.ready = FALSE, !.joy.dir = dir], dir, FALSE)
          [] OTHER -> flipped

\* handle_event on axis7, with ArmJoystick::observe.
StepEvent(m, e) ==
    LET o == Observed(m, e)
        flipped == IF o.joy.dir * e.val > 0 THEN SuspendRepeat(o) ELSE o
        dir == IF e.val < 0 THEN 1 ELSE -1
        moved ==
            CASE ~o.joy.armed -> o
              [] o.joy.armed /\ Neutral(e.val) -> [SuspendRepeat(o) EXCEPT !.joy.ready = TRUE]
              [] o.joy.armed /\ Active(e.val) /\ o.joy.ready ->
                   HandleStep([flipped EXCEPT !.joy.ready = FALSE, !.joy.dir = dir], dir, FALSE)
              [] OTHER -> flipped
    IN  IF ~RepeatActive(moved) /\ moved.request = "get" /\ moved.asked.repeated
        THEN CancelAdjustment(moved)
        ELSE moved

NextCoordinate(c) == (c + 1) % 3
PreviousCoordinate(c) == (c + 2) % 3

\* handle_event on button1 and button3, with ArmJoystick::observe_button: a step
\* that is not yet submitted does not follow the selection.
SelectEvent(m, e) ==
    LET o == Observed(m, e)
        chosen == IF e.ctl = "previous" THEN PreviousCoordinate(m.joy.coord)
                                        ELSE NextCoordinate(m.joy.coord)
        selected == [SuspendRepeat(o) EXCEPT
            !.joy.coord = chosen, !.joy.ready = @ /\ Neutral(m.at["step"]), !.action = NoStep]
    IN  CASE ~(m.joy.armed /\ e.val # 0 /\ ~Pressed(m, e.ctl)) -> o
          [] OTHER -> IF m.request = "get" THEN CancelAdjustment(selected) ELSE selected

MarkReleased(set, b, value) == IF value = 0 THEN set \cup {b} ELSE set \ {b}

TrackingEvent(m, e) ==
    LET press == /\ e.val # 0 /\ ~Pressed(m, "tracking")
                 /\ "tracking" \in m.released /\ ~StartupPending(m)
    IN  [Observed(m, e) EXCEPT !.released = MarkReleased(@, "tracking", e.val),
                               !.toggle = IF press THEN ~@ ELSE @]

JogEvent(m, e) ==
    LET o == Observed(m, e)
    IN  IF \A b \in JogButtons : Pressed(o, b) THEN UpdateJog(o, FALSE) ELSE o

Stopped(m) == CancelAdjustment(Disarm(UpdateJog(CancelTracking(m), FALSE)))

StopEvent(m, e) == IF e.val # 0 THEN Stopped(Observed(m, e)) ELSE Observed(m, e)

EmergencyEvent(m, e) ==
    CASE e.val # 0 -> EmergencyStop(Observed(m, e))
      [] e.val = 0 /\ m.stage = "waiting" ->
           [Observed(m, e) EXCEPT !.released = MarkReleased(@, "emergency", e.val)]
      [] OTHER -> Observed(m, e)

StartEvent(m, e) ==
    IF m.stage = "waiting"
    THEN [Observed(m, e) EXCEPT
             !.released = MarkReleased(@, "start", e.val),
             !.stage = IF e.val # 0 /\ {"start", "emergency"} \subseteq m.released
                       THEN "requested" ELSE @]
    ELSE Observed(m, e)

HandleEvent(m, e) ==
    CASE e.ctl \in Axes -> Observed(m, e)
      [] e.ctl = "step" -> StepEvent(m, e)
      [] e.ctl \in {"previous", "next"} -> SelectEvent(m, e)
      [] e.ctl = "tracking" -> TrackingEvent(m, e)
      [] e.ctl \in JogButtons -> JogEvent(m, e)
      [] e.ctl = "stop" -> StopEvent(m, e)
      [] e.ctl = "emergency" -> EmergencyEvent(m, e)
      [] e.ctl = "start" -> StartEvent(m, e)

\* mutant: an emergency-stop button found pressed is not an event
HandleInitQuietly(m, values) ==
    LET watched == IF m.stage = "waiting" THEN {"start", "emergency", "tracking"} ELSE {"tracking"}
        o == [m EXCEPT !.at = values, !.seen = Controls,
                       !.released = {b \in watched : values[b] = 0}]
    IN  Stopped(o)

\* mutant: a start button found pressed starts the chassis
HandleInitStarts(m, values) ==
    LET watched == IF m.stage = "waiting" THEN {"start", "emergency", "tracking"} ELSE {"tracking"}
        o == [m EXCEPT !.at = values, !.seen = Controls,
                       !.released = {b \in watched : values[b] = 0},
                       !.stage = IF @ = "waiting" /\ values["start"] # 0 THEN "requested" ELSE @]
    IN  IF Pressed(o, "emergency") THEN EmergencyStop(o) ELSE Stopped(o)

\* mutant: only a stick that moves counts as seen
HandleInitBlind(m, values) ==
    LET watched == IF m.stage = "waiting" THEN {"start", "emergency", "tracking"} ELSE {"tracking"}
        o == [m EXCEPT !.at = values, !.seen = Controls \ Axes,
                       !.released = {b \in watched : values[b] = 0}]
    IN  IF Pressed(o, "emergency") THEN EmergencyStop(o) ELSE Stopped(o)

\* All INIT events: none moves, starts or toggles anything, each cancels.
HandleInit(m, values) ==
    LET watched == IF m.stage = "waiting" THEN {"start", "emergency", "tracking"} ELSE {"tracking"}
        o == [m EXCEPT !.at = values, !.seen = Controls,
                       !.released = {b \in watched : values[b] = 0}]
    IN  IF Pressed(o, "emergency") THEN EmergencyStop(o) ELSE Stopped(o)

-----------------------------------------------------------------------------
(***************************************************************************)
(* The rest of the timer callback                                          *)
(***************************************************************************)
\* update_arm_adjustment.  late: the two seconds are over; available: both
\* services are.  "good" for a step: accepted, or refused because a handshake
\* of the arm is pending, which does not suspend the repetition.
Adjust(m, late, available) ==
    CASE Busy(m) /\ late -> CancelAdjustment(SuspendRepeat(m))
      [] Busy(m) /\ ~late /\ m.answer = "none" -> m
      [] m.request = "set" /\ ~late /\ m.answer = "good" -> NoRequest(m)
      [] m.request = "set" /\ ~late /\ m.answer = "bad" -> SuspendRepeat(NoRequest(m))
      [] m.request = "get" /\ ~late /\ m.answer = "good" /\ pose ->
           [m EXCEPT !.request = "set", !.answer = "none"]
      [] m.request = "get" /\ ~late /\ m.answer # "none" /\ ~(m.answer = "good" /\ pose) ->
           CancelAdjustment(SuspendRepeat(m))
      [] ~Busy(m) /\ m.action = NoStep -> m
      [] ~Busy(m) /\ m.action # NoStep /\ pose /\ available ->
           [m EXCEPT !.action = NoStep, !.request = "get", !.asked = m.action]
      [] ~Busy(m) /\ m.action # NoStep /\ ~(pose /\ available) ->
           [SuspendRepeat(m) EXCEPT !.action = NoStep]

\* The previous answer first, then a repetition that is due (100 ms).
Adjusted(m, late, available, due) ==
    LET first == Adjust(m, late, available)
    IN  IF due /\ RepeatActive(first)
        THEN Adjust(HandleStep(first, first.joy.dir, TRUE), FALSE, available)
        ELSE first

ArmControls(m, late, available, due) ==
    CASE m.tracking -> [Disarm(m) EXCEPT !.action = NoStep]
      [] ~m.tracking /\ ~m.joy.armed /\ ~NeutralReady(m) -> CancelAdjustment(Disarm(m))
      [] OTHER -> Adjusted(IF m.joy.armed THEN m ELSE ArmJoy(m), late, available, due)

ArmOutcomes(m) == {ArmControls(m, late, available, due) : late, available, due \in BOOLEAN}

ToggleTracking(m) ==
    CASE ~m.toggle -> m
      [] m.toggle /\ m.tracking -> CancelTracking(m)
      [] m.toggle /\ ~m.tracking /\ Centred(m) -> PublishZero(SetTracking(m, TRUE))
      [] OTHER -> CancelTracking(m)

Intervene(m) == IF m.tracking /\ ~Centred(m) THEN CancelTracking(m) ELSE m

\* update_target_twist and limit_rate: the filter follows the sticks, the
\* velocity follows the filter, each with a delay.
Drive(m, enabled) ==
    \E f \in IF enabled /\ (~Centred(m) \/ m.filtered) THEN BOOLEAN ELSE {FALSE} :
    \E v \in IF f \/ m.moving THEN BOOLEAN ELSE {FALSE} :
        n' = [m EXCEPT !.filtered = f, !.moving = v]

DriveUnlessTracking(m) ==
    \/ m.tracking /\ n' = PublishZero(m)
    \/ ~m.tracking /\ Drive(m, TRUE)

\* joystick_armed_: once every stick and the arm controls were seen at rest.
Armed(m) ==
    [m EXCEPT !.armed = @ \/ (Axes \subseteq m.seen /\ Centred(m) /\ NeutralReady(m))]

-----------------------------------------------------------------------------
(***************************************************************************)
(* A timer tick                                                            *)
(***************************************************************************)
TickStarts == [n EXCEPT !.action = NoStep, !.toggle = FALSE]

\* No healthy link: everything is cancelled and zero is published.
TickUnhealthy ==
    /\ pc = "idle" /\ n.alive /\ n.stage # "requested"
    /\ ~SnapshotHealthy
    /\ n' = PublishZero(CancelTracking(
                IF fd # "closed" \/ wasHealthy THEN Invalidate(TickStarts) ELSE TickStarts))
    /\ fd' = "closed"
    /\ queue' = <<>>
    /\ wasHealthy' = FALSE
    /\ UNCHANGED <<linkVars, hands, pads, known, pc, linkGen, pose, rested, blocked>>

\* A link that is back, or was away between two ticks: start from nothing.
TickReconnected ==
    /\ pc = "idle" /\ n.alive /\ n.stage # "requested"
    /\ SnapshotHealthy
    /\ ~wasHealthy \/ linkGen # generation
    /\ n' = Invalidate(TickStarts)
    /\ fd' = "closed"
    /\ queue' = <<>>
    /\ wasHealthy' = TRUE
    /\ linkGen' = generation
    /\ pc' = IF n'.alive THEN "read" ELSE "idle"
    /\ UNCHANGED <<linkVars, hands, pads, known, pose, rested, blocked>>

Tick ==
    /\ pc = "idle" /\ n.alive /\ n.stage # "requested"
    /\ SnapshotHealthy
    /\ wasHealthy /\ linkGen = generation
    /\ n' = TickStarts
    /\ pc' = "read"
    /\ UNCHANGED <<linkVars, padVars, fd, wasHealthy, linkGen, pose, rested, blocked>>

\* open_joystick: not yet due, refused, or refused for good.
OpenFails ==
    /\ pc = "read" /\ fd = "closed"
    /\ \/ pc' = "act" /\ UNCHANGED n
       \/ pc' = "idle" /\ n' = [n EXCEPT !.alive = FALSE]
    /\ UNCHANGED <<linkVars, padVars, fd, wasHealthy, linkGen, pose, rested, blocked>>

OpenSucceeds ==
    /\ pc = "read" /\ fd = "closed"
    /\ fd' = "opened"
    /\ n' = [ResetJoy(n) EXCEPT !.released = {}, !.toggle = FALSE, !.at = Released(n),
                                !.seen = {}, !.armed = FALSE, !.jogReady = FALSE]
    /\ pc' = "act"
    /\ UNCHANGED <<linkVars, padVars, wasHealthy, linkGen, pose, rested, blocked>>

ReadInit ==
    /\ pc = "read" /\ fd = "opened"
    /\ n' = HandleInit(n, known)
    /\ fd' = "read"
    /\ pc' = IF n'.alive THEN "read" ELSE "idle"
    /\ UNCHANGED <<linkVars, padVars, wasHealthy, linkGen, pose, rested, blocked>>

ReadEvent ==
    /\ pc = "read" /\ fd = "read"
    /\ queue # <<>>
    /\ n' = HandleEvent(n, Head(queue))
    /\ queue' = Tail(queue)
    /\ pc' = IF n'.alive THEN "read" ELSE "idle"
    /\ UNCHANGED <<linkVars, hands, pads, known, fd, wasHealthy, linkGen, pose, rested, blocked>>

ReadAgain ==
    /\ pc = "read" /\ fd = "read"
    /\ queue = <<>>
    /\ pc' = "act"
    /\ UNCHANGED <<linkVars, padVars, fd, n, wasHealthy, linkGen, pose, rested, blocked>>

\* End of file, ENODEV, or any other error: the driver has lost the device.
ReadFails ==
    /\ pc = "read" /\ fd # "closed"
    /\ ~reach
    /\ n' = Invalidate(n)
    /\ fd' = "closed"
    /\ queue' = <<>>
    /\ pc' = IF n'.alive THEN "act" ELSE "idle"
    /\ UNCHANGED <<linkVars, hands, pads, known, wasHealthy, linkGen, pose, rested, blocked>>

Act ==
    /\ pc = "act"
    /\ pc' = "idle"
    /\ UNCHANGED <<linkVars, padVars, fd, wasHealthy, linkGen, pose, rested, blocked>>

ActStartup ==
    /\ Act
    /\ StartupPending(n)
    /\ n' = PublishZero([Disarm(UpdateJog(CancelTracking(n), FALSE)) EXCEPT
                            !.armed = FALSE, !.action = NoStep])

\* No file, nothing read from it yet, or nothing for timeout_sec.
ActStale ==
    /\ Act
    /\ ~StartupPending(n)
    /\ fd = "closed" \/ n.seen = {} \/ HasTimeout
    /\ n' = PublishZero(Stopped([n EXCEPT !.armed = FALSE]))

ActNotCentred ==
    /\ Act
    /\ ~StartupPending(n) /\ fd # "closed" /\ n.seen # {}
    /\ ~Armed(n).armed
    /\ n' = PublishZero(Stopped(n))

ActInactive ==
    /\ Act
    /\ ~StartupPending(n) /\ fd # "closed" /\ n.seen # {}
    /\ Armed(n).armed /\ Pressed(n, "stop")
    /\ Drive(CancelAdjustment(Disarm(CancelTracking(UpdateJog(Armed(n), FALSE)))), FALSE)

ActEnabled ==
    /\ Act
    /\ ~StartupPending(n) /\ fd # "closed" /\ n.seen # {}
    /\ Armed(n).armed /\ ~Pressed(n, "stop")
    /\ LET ready == Intervene(ToggleTracking(UpdateJog(Armed(n), TRUE)))
       IN  \E m \in ArmOutcomes(ready) : DriveUnlessTracking(m)

Timer ==
    \/ TickUnhealthy \/ TickReconnected \/ Tick
    \/ OpenFails \/ OpenSucceeds \/ ReadInit \/ ReadEvent \/ ReadAgain \/ ReadFails
    \/ ActStartup \/ ActStale \/ ActNotCentred \/ ActInactive \/ ActEnabled

-----------------------------------------------------------------------------
(***************************************************************************)
(* What else happens                                                       *)
(***************************************************************************)
OnExecutor == pc = "idle" /\ n.alive

\* main(): the request ends the waiting loop, the chassis is initialised and
\* calibrated while the remote control is served, or that fails.
MainStarts ==
    /\ OnExecutor
    /\ n.stage = "requested"
    /\ n' = [n EXCEPT !.stage = "starting"]
    /\ UNCHANGED <<linkVars, padVars, fd, pc, wasHealthy, linkGen, pose, rested, blocked>>

MainRuns ==
    /\ OnExecutor
    /\ n.stage = "starting"
    /\ \/ n' = [n EXCEPT !.stage = "running"]
       \/ n' = [n EXCEPT !.alive = FALSE]
    /\ UNCHANGED <<linkVars, padVars, fd, pc, wasHealthy, linkGen, pose, rested, blocked>>

\* observe_arm_pose: a usable pose, or one that is not; and the last one ages.
PoseArrives ==
    /\ OnExecutor /\ n.stage # "requested"
    /\ ~pose /\ pose' = TRUE
    /\ UNCHANGED <<linkVars, padVars, nodeVars, rested, blocked>>

PoseFades ==
    /\ pc # "read"                  \* nothing reads it there
    /\ pose /\ pose' = FALSE
    /\ UNCHANGED <<linkVars, padVars, nodeVars, rested, blocked>>

\* The arm's node answers the request that is outstanding (a late answer to one
\* that was removed is dropped).
Answer ==
    /\ OnExecutor /\ n.stage # "requested"
    /\ Busy(n) /\ n.answer = "none"
    /\ \E a \in {"good", "bad"} : n' = [n EXCEPT !.answer = a]
    /\ UNCHANGED <<linkVars, padVars, fd, pc, wasHealthy, linkGen, pose, rested, blocked>>

JogConflict(values) ==
    CASE \A b \in JogButtons : values[b] # 0 -> TRUE
      [] \A b \in JogButtons : values[b] = 0 -> FALSE
      [] OTHER -> blocked

Queued(events) ==
    /\ queue' = IF fd = "closed" THEN queue ELSE queue \o events
    /\ Len(queue') <= MaxQueue

Operate(c, v) ==
    /\ v # pads[c]
    /\ pads' = [pads EXCEPT ![c] = v]
    /\ IF reach
       THEN /\ known' = pads'
            /\ Queued(<<[ctl |-> c, val |-> v]>>)
            /\ blocked' = JogConflict(known')
       ELSE UNCHANGED <<known, queue, blocked>>
    /\ rested' = IF v = 0 THEN rested \cup {c} ELSE rested
    /\ UNCHANGED <<linkVars, hands, nodeVars, pose>>

\* Out of range the pad's changes do not arrive; back in range it reports them.
RangeLost ==
    /\ reach /\ reach' = FALSE
    /\ UNCHANGED <<healthy, age, generation, padVars, nodeVars, pose, rested, blocked>>

RangeBack ==
    /\ ~reach /\ reach' = TRUE
    /\ known' = pads
    /\ \E order \in SetToSeqs({c \in DOMAIN hands : known[c] # pads[c]}) :
         Queued([i \in DOMAIN order |-> [ctl |-> order[i], val |-> pads[order[i]]]])
    /\ blocked' = JogConflict(known')
    /\ UNCHANGED <<healthy, age, generation, hands, pads, nodeVars, pose, rested>>

\* rested starts anew with the first success after a loss.
MonitorSucceeds ==
    /\ \E recovering \in BOOLEAN : ProbeSucceeds(recovering)
    /\ rested' = IF ~healthy \/ age = "old" THEN {c \in Controls : pads[c] = 0} ELSE rested
    /\ UNCHANGED <<padVars, nodeVars, pose, blocked>>

MonitorFails == ProbeFails /\ UNCHANGED <<padVars, nodeVars, pose, rested, blocked>>

MonitorExpires == Expire /\ UNCHANGED <<padVars, nodeVars, pose, rested, blocked>>

Environment ==
    \/ MainStarts \/ MainRuns \/ PoseArrives \/ PoseFades \/ Answer
    \/ \E c \in DOMAIN hands : \E v \in hands[c] : Operate(c, v)
    \/ RangeLost \/ RangeBack \/ MonitorSucceeds \/ MonitorFails \/ MonitorExpires

AtRest == [c \in Controls |-> 0]

FreshNode ==
    [ at |-> AtRest, seen |-> {}, released |-> {}, armed |-> FALSE, toggle |-> FALSE,
      tracking |-> FALSE, jogReady |-> FALSE, jog |-> 0, moving |-> FALSE, filtered |-> FALSE,
      joy |-> [armed |-> FALSE, ready |-> FALSE, dir |-> 0, coord |-> 0],
      action |-> NoStep, request |-> "none", answer |-> "none", asked |-> NoStep,
      stage |-> "waiting", alive |-> TRUE ]

\* The constructor has tried to open the device.
Init ==
    /\ LinkInit
    /\ hands \in Hands
    /\ \E p \in [DOMAIN hands -> -2..2] :
          /\ \A c \in DOMAIN hands : p[c] \in hands[c]
          /\ pads = [c \in Controls |-> IF c \in DOMAIN hands THEN p[c] ELSE 0]
    /\ known = pads
    /\ queue = <<>>
    /\ fd \in {"closed", "opened"}
    /\ pc = "idle"
    /\ n \in {[FreshNode EXCEPT !.stage = stage] : stage \in Stages}
    /\ wasHealthy = FALSE
    /\ linkGen = 0
    /\ pose = FALSE
    /\ rested = {c \in Controls : pads[c] = 0}
    /\ blocked = (\A b \in JogButtons : pads[b] # 0)

Next == Timer \/ Environment

Spec == Init /\ [][Next]_vars

\* The timer keeps firing, time passes, and an open of a device that is there
\* succeeds in the end.
Fairness ==
    /\ WF_vars(Timer) /\ SF_vars(OpenSucceeds)
    /\ WF_vars(MainStarts) /\ WF_vars(~reach /\ MonitorExpires)

FairSpec == Spec /\ Fairness

-----------------------------------------------------------------------------
\* Whatever the node commands after a tick on a verified link comes from
\* controls the operator had at rest at some time since that link was verified:
\* a stick or button that was held through a loss, or since before the start,
\* commands nothing, however the loss, the probes and the ticks interleave.
\* (remote_control.cpp:851, joystick_link_monitor.cpp:289)
FreshInput ==
    pc = "idle" /\ n.alive /\ linkGen = generation =>
        /\ n.moving => Axes \subseteq rested
        /\ n.jog # 0 => JogButtons \subseteq rested
        /\ n.tracking => Axes \cup {"tracking"} \subseteq rested
        /\ Busy(n) => StepControls \subseteq rested
        /\ n.stage \in {"requested", "starting"} => {"start", "emergency"} \subseteq rested

\* While visual tracking owns the chassis and the arm, the remote control asks
\* neither for a velocity nor for an arm step, and only an armed, running one
\* lets tracking own them. (remote_control.cpp:325, 962)
OneOwner ==
    n.tracking => /\ ~n.moving /\ ~Busy(n)
                  /\ n.armed /\ n.stage = "running" /\ n.alive

\* What an arm request was asked for, it is still asked for when it is sent.  A
\* step is submitted for the coordinate that is selected when it is submitted,
\* and a repetition only while the lever is still held that way.  A fourth-axis
\* jog starts only as the buttons stand, and after both have been down only
\* when both were released. (remote_control.cpp:377, 522, 699)
ActsAsHeld ==
    [][/\ n.request # "set" /\ n'.request = "set" =>
             /\ n'.asked.coord = n'.joy.coord
             /\ n'.asked.repeated => RepeatActive(n') /\ n'.asked.dir = n'.joy.dir
       /\ n'.jog # n.jog /\ n'.jog # 0 /\ queue = <<>> =>
             ~blocked /\ n'.jog = known["plus"] - known["minus"]]_vars

\* A pad that stays out of reach stops everything, even if the probe that would
\* notice never returns. (joystick_link_monitor.cpp:235, remote_control.cpp:839)
LossStops ==
    <>[]~reach => <>[](n.alive => ~n.moving /\ n.jog = 0 /\ ~n.tracking /\ ~Busy(n))

\* On a link that works, an emergency-stop button that is held stops the
\* program, also if it was pressed before the device was opened.
\* (remote_control.cpp:731)
EmergencyHeard ==
    <>[](reach /\ SnapshotHealthy /\ pads["emergency"] = 1) => <>~n.alive

\* On a link that works, controls that are left at rest arm the remote control.
\* (remote_control.cpp:903)
Rearms ==
    <>[](reach /\ SnapshotHealthy /\ pads = AtRest /\ n.stage = "running" /\ n.alive)
        => <>[]n.armed
===============================================================================
