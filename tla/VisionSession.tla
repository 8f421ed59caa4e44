---------------------------- MODULE VisionSession ----------------------------
(***************************************************************************)
(* Sessions of visual tracking: the operator's button, the vision program  *)
(* (the loop of example/arm_tracking.py with its TrackingRosLink) and the  *)
(* tracking of the car node (ArmVisualTracking), which exchange topics of  *)
(* depth one and calls of the car node's parameter service.                *)
(*                                                                         *)
(* Sessions of the approach: live targets align the chassis, then one goal *)
(* is committed.  The other modes publish live targets only.               *)
(*                                                                         *)
(* The gate of VisionPipeline is reduced here to its results: no target, a *)
(* live target, or the goal captured from one image, named by the time the *)
(* program takes it for.  A tick is about the age at which a target is no  *)
(* longer fresh; the update of the car node runs many times in it.         *)
(***************************************************************************)
EXTENDS Integers, Sequences, FiniteSets

CONSTANTS
    MaxFaults,   \* bound: requests that are lost, and kills of the vision program
    MaxCalls,    \* bound: requests that wait for the car node
    MaxTime      \* bound: the clock

ASSUME SessionAssumption ==
    {MaxFaults, MaxCalls, MaxTime} \subseteq Nat

VARIABLES
    now,
    tool,            \* the vision program
    calls, answer,   \* requests to the car node, and its answer to the last of them
    faults,
    target, goal, stop,   \* messages not yet taken by the car node
    param,           \* arm_tracking_enabled: "off", "mine", or "left" by a program that ended
    ctl,             \* the fields of ArmVisualTracking
    wanted           \* history: a request was accepted, and no OFF taken since
vars == <<now, tool, calls, answer, target, goal, stop, param, ctl, wanted, faults>>

None == -9
Done == -8         \* an approach that is complete or cancelled
NoGoal == [of |-> None, stamp |-> None]
Off == [at |-> "off", ctrl |-> FALSE, released |-> FALSE, request |-> FALSE,
        cancel |-> FALSE, pending |-> FALSE, enabled |-> FALSE, asked |-> FALSE,
        sending |-> FALSE, after |-> None, goal |-> None, frame |-> None, next |-> "off"]
Idle == [enabled |-> FALSE, latched |-> FALSE, base |-> FALSE, goal |-> None, target |-> None,
         sent |-> None, min |-> None, last |-> None, held |-> None]

Init ==
    /\ now = 0
    /\ tool = Off /\ calls = <<>> /\ answer = "none" /\ faults = 0
    /\ target = None /\ goal = NoGoal /\ stop = FALSE /\ param = "off" /\ ctl = Idle
    /\ wanted = FALSE

------------------------------------------------------------------------------
\* A tick; the update loop of the car node keeps up with its parameter.
Tick ==
    /\ now < MaxTime /\ ctl.enabled = (param # "off") /\ now' = now + 1
    /\ UNCHANGED <<tool, calls, answer, target, goal, stop, param, ctl, wanted, faults>>

------------------------------------------------------------------------------
(* TrackingRosLink: the button as the vision program hears it *)

\* require_joystick_release()
Release(t) == [t EXCEPT !.cancel = @ \/ t.request, !.released = FALSE, !.request = FALSE]

\* Mutant: only the last message counts.
ObserveLast(t, m) ==
    IF m = "none" THEN t ELSE [t EXCEPT !.released = (m = "off"), !.request = (m = "on")]

\* _observe_joystick(): an OFF is kept in "cancel" even when an ON follows it, and an ON
\* counts only after an OFF of the same stream.
Observe(t, m) ==
    CASE m = "none" -> t
      [] m = "on" -> [t EXCEPT !.request = @ \/ t.released]
      [] m = "off" -> [t EXCEPT !.released = TRUE, !.request = FALSE, !.cancel = @ \/ t.request]

\* spin(): nothing, or a message of the button; and the stream may have been silent for
\* more than 0.3 s.  The remote node repeats what the operator asks for, and of a queue
\* of depth one only the newest is heard: it may be any.
Messages == {"none", "on", "off"}
Heard(gap, m) == Observe(IF gap THEN Release(tool) ELSE tool, m)
StillWanted(gap, m) == wanted /\ ~ gap /\ m # "off"

\* While a service is awaited messages are taken too.
Awaiting == tool.at \in {"get", "on", "disable"}
HearWaiting ==
    /\ Awaiting
    /\ \E gap \in BOOLEAN, m \in Messages :
          tool' = Heard(gap, m) /\ wanted' = StillWanted(gap, m)
    /\ UNCHANGED <<now, calls, answer, target, goal, stop, param, ctl, faults>>

------------------------------------------------------------------------------
(* Requests to the car node.  They are served in order; one that was given up may *)
(* still be served, and one or its answer may be lost.                            *)

Ask(op) == Len(calls) < MaxCalls /\ calls' = Append(calls, op) /\ answer' = "none"

\* disable(): stop at once, then the parameters.  Nothing to do if no session was asked for.
BeginDisable(t, next) ==
    IF t.asked
    THEN /\ tool' = [t EXCEPT !.at = "disable", !.next = next, !.sending = FALSE]
         /\ stop' = TRUE /\ Ask("off")
    ELSE /\ tool' = [t EXCEPT !.at = next, !.pending = FALSE]
         /\ UNCHANGED <<stop, calls, answer>>

\* The program ends, killed, or closed without an answer to its only request to disable:
\* nobody is responsible for what it still has under way.
Ends ==
    /\ tool' = Off /\ answer' = "none" /\ wanted' = FALSE
    /\ param' = IF param = "mine" THEN "left" ELSE param
    /\ calls' = [i \in DOMAIN calls |-> IF calls[i] = "on" THEN "orphan" ELSE calls[i]]

Disabled ==
    /\ tool.at = "disable" /\ answer # "none"
    /\ LET t == [tool EXCEPT !.enabled = FALSE, !.asked = FALSE, !.pending = FALSE, !.at = tool.next]
       IN tool' = IF tool.next = "off" THEN Off ELSE IF tool.pending THEN Release(t) ELSE t
    /\ answer' = "none"
    /\ UNCHANGED <<now, calls, target, goal, stop, param, ctl, wanted, faults>>

\* Mutant: a request to disable that failed is not repeated.
DisableGivenUp ==
    /\ tool.at = "disable" /\ answer = "none"
    /\ IF tool.next = "off" THEN Ends
       ELSE tool' = [Release(tool) EXCEPT !.at = tool.next] /\ UNCHANGED <<answer, wanted, param, calls>>
    /\ UNCHANGED <<now, target, goal, stop, ctl, faults>>

\* disable_control(): after 2 s it is given up, to be repeated.
DisableFails ==
    /\ tool.at = "disable" /\ answer = "none"
    /\ IF tool.next = "off" THEN Ends
       ELSE /\ tool' = [Release(tool) EXCEPT !.at = tool.next, !.pending = TRUE]
            /\ UNCHANGED <<answer, wanted, param, calls>>
    /\ UNCHANGED <<now, target, goal, stop, ctl, faults>>

------------------------------------------------------------------------------
(* The loop of the vision program *)

\* make_tracker()
NewGate(t) == [t EXCEPT !.after = now, !.goal = None]

\* refresh_request(): what is requested now.  A cancel that was heard wins over it.
Requested(t) == t.request /\ ~ t.cancel /\ ~ t.pending
Taken(t) ==
    LET u == [t EXCEPT !.cancel = FALSE]
    IN IF t.cancel /\ t.request THEN Release(u) ELSE u

\* camera.read() and the time the program takes the image for, its "captured": now or the
\* last tick, an older one passes no gate.  The camera took it then or earlier, by at most
\* the delay of the first image, as VisionPipeline has it; no time here is the camera's.
Images == IF tool.at = "ready" THEN {now - 1, now} \cap Nat ELSE {tool.frame}

\* spin() and refresh_request(), before and after an image is read and after enabling.
Places == {"spin", "ready", "enabled"}
After(at) == CASE at = "spin" -> "ready" [] at = "ready" -> "act" [] at = "enabled" -> "armed"

Refreshed(gap, m, image, next) ==
    LET t == Heard(gap, m)
        u == [Taken(t) EXCEPT !.frame = image]
    IN \/ /\ t.pending \/ Requested(t) = t.ctrl
          /\ tool' = [(IF t.pending THEN Release(u) ELSE u) EXCEPT !.at = next]
          /\ wanted' = StillWanted(gap, m) /\ UNCHANGED <<stop, calls, answer>>
       \/ /\ ~ t.pending /\ Requested(t) /\ ~ t.ctrl
          /\ tool' = [NewGate(u) EXCEPT !.ctrl = TRUE, !.at = next]
          /\ wanted' = TRUE /\ UNCHANGED <<stop, calls, answer>>
       \/ /\ ~ t.pending /\ ~ Requested(t) /\ t.ctrl
          /\ BeginDisable([NewGate(u) EXCEPT !.ctrl = FALSE], next)
          /\ wanted' = StillWanted(gap, m)

Refresh ==
    /\ tool.at \in Places
    /\ \E gap \in BOOLEAN, m \in IF tool.at = "enabled" THEN {"none"} ELSE Messages,
          image \in Images : Refreshed(gap, m, image, After(tool.at))
    /\ UNCHANGED <<now, target, goal, param, ctl, faults>>

\* refresh_request(), when 0.5 s have passed since the last attempt.
Retry ==
    /\ tool.at \in Places /\ tool.pending
    /\ \E image \in Images : BeginDisable([Taken(tool) EXCEPT !.frame = image], After(tool.at))
    /\ UNCHANGED <<now, target, goal, param, ctl, wanted, faults>>

\* The gate: an approach captures its goal from an image after the gate was made.
Captures == tool.goal = None /\ tool.frame > tool.after
GoalAfter == IF Captures THEN tool.frame ELSE tool.goal
MayPass == tool.frame > tool.after
Back(t) == [t EXCEPT !.at = "spin", !.frame = None]

\* No target: a stream of targets is stopped.  An approach with a goal may be over.
ActNone ==
    /\ tool.at = "act"
    /\ \E over \in BOOLEAN :
          tool' = [Back(tool) EXCEPT !.goal = IF over /\ @ # None THEN Done ELSE @,
                                     !.sending = IF tool.ctrl THEN FALSE ELSE @]
    /\ stop' = (stop \/ (tool.ctrl /\ tool.asked /\ tool.sending))
    /\ UNCHANGED <<now, calls, answer, target, goal, param, ctl, wanted, faults>>

\* A target in a session that is not enabled: enable(), which first asks whether it is free.
ActEnable ==
    /\ tool.at = "act" /\ tool.ctrl /\ ~ tool.enabled /\ tool.goal # Done /\ MayPass
    /\ \E g \in {tool.goal, GoalAfter} : tool' = [tool EXCEPT !.at = "get", !.goal = g]
    /\ Ask("get")
    /\ UNCHANGED <<now, target, goal, stop, param, ctl, wanted, faults>>

\* Mutant: what was asked for is noted when it was granted.
EnableNotedLate ==
    /\ tool.at = "get" /\ answer = "free"
    /\ tool' = [tool EXCEPT !.at = "on"] /\ Ask("on")
    /\ UNCHANGED <<now, target, goal, stop, param, ctl, wanted, faults>>

\* The answer may be lost after the request was granted: noted before.
Enable ==
    /\ tool.at = "get" /\ answer = "free"
    /\ tool' = [tool EXCEPT !.at = "on", !.asked = TRUE] /\ Ask("on")
    /\ UNCHANGED <<now, target, goal, stop, param, ctl, wanted, faults>>

Enabled ==
    /\ tool.at = "on" /\ answer # "none"
    /\ tool' = [tool EXCEPT !.at = "enabled", !.enabled = TRUE, !.asked = TRUE]
    /\ answer' = "none"
    /\ UNCHANGED <<now, calls, target, goal, stop, param, ctl, wanted, faults>>

\* Mutant: the approach goes on with the gate it had.
ArmedAsBefore ==
    /\ tool.at = "armed" /\ tool' = Back(tool)
    /\ UNCHANGED <<now, calls, answer, target, goal, stop, param, ctl, wanted, faults>>

\* After enabling, an approach starts again, and this image is not used.
Armed ==
    /\ tool.at = "armed"
    /\ tool' = Back(IF tool.ctrl THEN NewGate(tool) ELSE tool)
    /\ UNCHANGED <<now, calls, answer, target, goal, stop, param, ctl, wanted, faults>>

\* enable() failed: not free, or no answer within 2 s.
EnableFails ==
    /\ \/ tool.at = "get" /\ answer \in {"none", "taken"}
       \/ tool.at = "on" /\ answer = "none"
    /\ BeginDisable([Back(NewGate(Release(tool))) EXCEPT !.ctrl = FALSE], "spin")
    /\ UNCHANGED <<now, target, goal, param, ctl, wanted, faults>>

\* A target in an enabled session is published; a goal with the time of the command.
ActPublish ==
    /\ tool.at = "act" /\ tool.ctrl /\ tool.enabled /\ tool.goal # Done
    /\ \/ /\ tool.goal = None /\ MayPass /\ target' = tool.frame /\ UNCHANGED goal
          /\ tool' = [Back(tool) EXCEPT !.sending = TRUE]
       \/ /\ GoalAfter # None /\ goal' = [of |-> GoalAfter, stamp |-> now] /\ UNCHANGED target
          /\ tool' = [Back(tool) EXCEPT !.sending = TRUE, !.goal = GoalAfter]
    /\ UNCHANGED <<now, calls, answer, stop, param, ctl, wanted, faults>>

\* The session is closed, also when the camera or the window fails: disable() once.
Close ==
    /\ tool.at \in {"spin", "ready", "act"}
    /\ IF tool.asked THEN BeginDisable(tool, "off") /\ UNCHANGED wanted
       ELSE tool' = Off /\ wanted' = FALSE /\ UNCHANGED <<stop, calls, answer>>
    /\ UNCHANGED <<now, target, goal, param, ctl, faults>>

Start ==
    /\ tool.at = "off" /\ tool' = [Off EXCEPT !.at = "spin", !.after = now]
    /\ UNCHANGED <<now, calls, answer, target, goal, stop, param, ctl, wanted, faults>>

Kill ==
    /\ tool.at # "off" /\ faults < MaxFaults /\ faults' = faults + 1
    /\ Ends
    /\ UNCHANGED <<now, target, goal, stop, ctl>>

Tool ==
    Refresh \/ ActNone \/ ActEnable \/ Enable \/ Enabled \/ Armed \/ EnableFails
    \/ ActPublish \/ Disabled \/ DisableFails

------------------------------------------------------------------------------
(* The car node.  Every callback first brings the mode up to date. *)

\* halt_and_clear(): with a goal the session is over.
Halt(c, explicit) ==
    LET l == [c EXCEPT !.latched = @ \/ c.goal # None]
    IN IF ~ explicit /\ c.target = None /\ c.sent = None THEN l
       ELSE [l EXCEPT !.target = None, !.sent = None, !.min = now]

\* before_update(): a change of the mode, and the age of the target.
Current(c) ==
    LET on == param # "off"
        c1 == IF on = c.enabled THEN c
              ELSE [Halt([c EXCEPT !.goal = None], TRUE)
                      EXCEPT !.enabled = on, !.base = FALSE, !.held = now,
                             !.latched = IF on THEN FALSE ELSE @]
    IN IF c1.target # None /\ now - c1.target > 1 THEN Halt(c1, FALSE) ELSE c1

Cancel(c) == IF c.latched THEN c ELSE [Halt(c, TRUE) EXCEPT !.latched = TRUE]

\* after_update(), while the halted arm stands or not.  The pose is reached or not;
\* the arm refuses a target or takes it.
Reached(c) == IF c.goal # None THEN Halt(c, TRUE)
              ELSE IF c.sent # None THEN Halt(c, FALSE) ELSE c
Submit(c) == [c EXCEPT !.sent = IF c.goal # None THEN c.goal ELSE c.target]
AfterUpdate(c) ==
    IF ~ c.enabled \/ c.latched THEN {c}
    ELSE LET b == [c EXCEPT !.base = TRUE]
         IN IF b.target = None \/ b.goal = None THEN {c, b}
            ELSE {c, Reached(b), Submit(b), Halt(b, FALSE)}

Update ==
    /\ ctl' \in AfterUpdate(Current(ctl))
    /\ UNCHANGED <<now, tool, calls, answer, target, goal, stop, param, wanted, faults>>

\* observe_target()
Acceptable(c, stamp) == now - stamp <= 1 /\ stamp > c.last /\ stamp > c.min
ObserveTarget ==
    /\ target # None /\ target' = None
    /\ LET c == Current(ctl)
       IN ctl' \in IF ~ c.enabled \/ c.latched \/ c.goal # None THEN {c}
                   ELSE IF ~ Acceptable(c, target) THEN {Halt(c, FALSE)}
                   ELSE {[c EXCEPT !.last = target, !.target = target],
                         Halt([c EXCEPT !.last = target], FALSE)}
    /\ UNCHANGED <<now, tool, calls, answer, goal, stop, param, wanted, faults>>

\* observe_goal(): the first acceptable point is the goal of the session.
ObserveGoal ==
    /\ goal # NoGoal /\ goal' = NoGoal
    /\ LET c == Current(ctl)
           same == c.goal \in {None, goal.of}
       IN ctl' \in IF ~ c.enabled \/ c.latched \/ ~ c.base THEN {c}
                   ELSE IF ~ Acceptable(c, goal.stamp) \/ ~ same THEN {Cancel(c)}
                   ELSE {[c EXCEPT !.goal = goal.of, !.last = goal.stamp, !.target = goal.stamp],
                         Cancel(c), c}
    /\ UNCHANGED <<now, tool, calls, answer, target, stop, param, wanted, faults>>

\* stop_tracking(), and cancel_tracking() at a manual command or a lost heartbeat.
Stop ==
    /\ \/ stop /\ stop' = FALSE /\ ctl' = Halt(Current(ctl), TRUE)
       \/ ctl.enabled /\ ctl' = Cancel(Current(ctl)) /\ UNCHANGED stop
    /\ UNCHANGED <<now, tool, calls, answer, target, goal, param, wanted, faults>>

\* The parameter service.  The program hears the answer if it still waits for it.
Answered == Awaiting /\ Len(calls) = 1
Serve ==
    /\ calls # <<>> /\ calls' = Tail(calls)
    /\ param' = CASE Head(calls) = "on" -> "mine" [] Head(calls) = "orphan" -> "left"
                  [] Head(calls) = "off" -> "off" [] Head(calls) = "get" -> param
    /\ answer' = IF ~ Answered THEN answer
                 ELSE IF Head(calls) = "get" /\ param # "off" THEN "taken" ELSE "free"
    /\ UNCHANGED <<now, tool, target, goal, stop, ctl, wanted, faults>>

\* A request, or the answer to it, is lost; a message is overtaken by its age.
Lose ==
    \/ /\ calls # <<>> /\ faults < MaxFaults /\ faults' = faults + 1
       /\ calls' = Tail(calls)
       /\ \E done \in BOOLEAN :
             param' = IF ~ done \/ Head(calls) = "get" THEN param
                      ELSE IF Head(calls) = "on" THEN "mine"
                      ELSE IF Head(calls) = "orphan" THEN "left" ELSE "off"
       /\ UNCHANGED <<target, goal>>
    \/ /\ target # None \/ goal # NoGoal
       /\ target' = None /\ goal' = NoGoal /\ UNCHANGED <<calls, param, faults>>

LoseAny ==
    /\ Lose
    /\ UNCHANGED <<now, tool, answer, stop, ctl, wanted>>

Car == Update \/ ObserveTarget \/ ObserveGoal \/ Stop \/ Serve

Next == Tick \/ HearWaiting \/ Tool \/ Retry \/ Close \/ Start \/ Kill
        \/ Car \/ LoseAny

\* The vision program runs, its 0.5 s pass, and the car node serves its parameters.
Spec == Init /\ [][Next]_vars /\ WF_vars(Tool) /\ SF_vars(Retry) /\ WF_vars(Serve)

------------------------------------------------------------------------------
(* Properties *)

\* Once an OFF was heard, or the stream of the button was broken, no target and no goal
\* is published before the operator's next request, whatever was heard meanwhile.
CancelWins ==
    [][(target' # target /\ target' # None) \/ (goal' # goal /\ goal' # NoGoal) => wanted]_vars

\* A program that no longer notes that it asked for a session has left none enabled, and
\* no request that would enable one, whatever answers were lost.  What a program left
\* behind that was killed, or closed without an answer, is excepted as "left".
LeavesNothingOn ==
    ~ tool.asked => param # "mine" /\ \A i \in DOMAIN calls : calls[i] # "on"

\* The goal the arm is sent to was captured from an image that, by the program's estimate
\* of its time, was taken after the car node held the arm for this session.
GoalAfterHold == ctl.goal # None => ctl.goal > ctl.held

\* A session that the program withdrew is disabled at the car node in the end.
WithdrawnIsDisabled ==
    (tool.asked /\ ~ tool.ctrl)
        ~> (param # "mine" /\ \A i \in DOMAIN calls : calls[i] # "on")
==============================================================================
