------------------------- MODULE RemoteControl_proofs -------------------------
(***************************************************************************)
(* Proofs about the remote control for every set of axes and of hands,     *)
(* every length of the event queue and every number of link losses: what   *)
(* it commands rests on controls that were at rest since the link came     *)
(* back, tracking owns the chassis and the arm alone, and a step or a jog  *)
(* is sent as the operator holds it.                                       *)
(*                                                                         *)
(* The node is a record, so most lemmas say what one function of it does   *)
(* to the fields (...Fields), then that it keeps the node sound            *)
(* (...Sound); each action's lemma (...Preserves) is a chain of them.      *)
(***************************************************************************)
EXTENDS RemoteControl, FiniteSetTheorems, TLAPS

(* The node's fields, and what one function leaves of them. *)

Positions == {f \in [Controls -> -2..2] : \A c \in Controls : c # "step" => f[c] \in 0..1}
Changes == {e \in [ctl : Controls, val : -2..2] : e.ctl # "step" => e.val \in 0..1}
Nodes == {m \in Node : m.at \in Positions}

SameInput(m, r) == r.at = m.at /\ r.seen = m.seen /\ r.released = m.released
SameStage(m, r) == r.stage = m.stage /\ r.alive = m.alive
SameDrive(m, r) == r.moving = m.moving /\ r.filtered = m.filtered
SameJog(m, r) == r.jogReady = m.jogReady /\ r.jog = m.jog
SameRequest(m, r) ==
    r.action = m.action /\ r.request = m.request /\ r.answer = m.answer /\ r.asked = m.asked
SameModes(m, r) == r.armed = m.armed /\ r.toggle = m.toggle /\ r.tracking = m.tracking

SameElse(m, r) ==
    SameStage(m, r) /\ SameDrive(m, r) /\ SameJog(m, r) /\ SameRequest(m, r) /\ SameModes(m, r)

\* What each function of the node does: the fields it sets, and those it leaves.
LEMMA DisarmFields ==
    ASSUME NEW m \in Nodes
    PROVE  LET r == Disarm(m)
           IN  /\ r \in Nodes
               /\ r.joy = [m.joy EXCEPT !.armed = FALSE, !.ready = FALSE, !.dir = 0]
               /\ SameInput(m, r) /\ SameStage(m, r) /\ SameDrive(m, r) /\ SameJog(m, r)
               /\ SameRequest(m, r) /\ SameModes(m, r)
  BY DEF Nodes, Node, Joy, Disarm, SameInput, SameStage, SameDrive, SameJog, SameRequest, SameModes

LEMMA NoStepIsStep == NoStep \in Step
  BY DEF NoStep, Step, Coordinates

LEMMA NoRequestFields ==
    ASSUME NEW m \in Nodes
    PROVE  LET r == NoRequest(m)
           IN  /\ r \in Nodes
               /\ r.joy = m.joy /\ r.action = m.action
               /\ SameInput(m, r) /\ SameStage(m, r) /\ SameDrive(m, r) /\ SameJog(m, r)
               /\ ~ Busy(r) /\ SameModes(m, r)
  BY NoStepIsStep
  DEF Nodes, Node, NoRequest, Busy, SameInput, SameStage, SameDrive, SameJog, SameModes

\* Nothing of an adjustment is left.
LEMMA CancelFields ==
    ASSUME NEW m \in Nodes
    PROVE  LET r == CancelAdjustment(m)
           IN  /\ r \in Nodes
               /\ r.joy = m.joy
               /\ SameInput(m, r) /\ SameStage(m, r) /\ SameDrive(m, r) /\ SameJog(m, r)
               /\ ~ Busy(r) /\ r.action = NoStep /\ SameModes(m, r)
  <1> DEFINE o == NoRequest(m)
             r == [o EXCEPT !.action = NoStep]
  <1>1. /\ o \in Nodes /\ o.joy = m.joy /\ ~ Busy(o)
        /\ SameInput(m, o) /\ SameStage(m, o) /\ SameDrive(m, o) /\ SameJog(m, o)
        /\ SameModes(m, o)
    BY NoRequestFields
  <1> HIDE DEF o
  <1>2. /\ r \in Nodes
        /\ r.joy = o.joy /\ r.action = NoStep /\ r.request = o.request
        /\ SameInput(o, r) /\ SameStage(o, r) /\ SameDrive(o, r) /\ SameJog(o, r)
        /\ SameModes(o, r)
    BY <1>1, NoStepIsStep
    DEF Nodes, Node, SameInput, SameStage, SameDrive, SameJog, SameModes
  <1>3. r = CancelAdjustment(m)
    BY DEF CancelAdjustment, o
  <1> HIDE DEF r
  <1> QED
    BY <1>1, <1>2, <1>3 DEF Busy, SameInput, SameStage, SameDrive, SameJog, SameModes

\* A jog follows the buttons, and starts from both released.
LEMMA JogFields ==
    ASSUME NEW m \in Nodes, NEW enabled \in BOOLEAN, pose \in BOOLEAN
    PROVE  LET r == UpdateJog(m, enabled)
           IN  /\ r \in Nodes
               /\ r.joy = m.joy
               /\ SameInput(m, r) /\ SameStage(m, r) /\ SameDrive(m, r) /\ SameRequest(m, r)
               /\ SameModes(m, r)
               /\ r.jog # 0 => r.jogReady /\ r.jog = m.at["plus"] - m.at["minus"]
               /\ r.jogReady => enabled /\ ~ (Pressed(m, "plus") /\ Pressed(m, "minus"))
               /\ r.jogReady /\ ~ m.jogReady =>
                      JogButtons \subseteq m.seen /\ ~ Pressed(m, "plus") /\ ~ Pressed(m, "minus")
  <1> DEFINE both == Pressed(m, "plus") /\ Pressed(m, "minus")
             none == JogButtons \subseteq m.seen /\ ~ Pressed(m, "plus") /\ ~ Pressed(m, "minus")
             ready == enabled /\ pose /\ ~ both /\ (none \/ m.jogReady)
             jog == IF ready THEN m.at["plus"] - m.at["minus"] ELSE 0
             r == [m EXCEPT !.jogReady = ready, !.jog = jog]
  <1>1. m.at["plus"] \in 0..1 /\ m.at["minus"] \in 0..1
    BY DEF Nodes, Positions, Controls, Buttons, JogButtons
  <1>2. jog \in {-1, 0, 1} /\ ready \in BOOLEAN
    BY <1>1
  <1> DEFINE q == ready
             j == jog
  <1>3. r = [m EXCEPT !.jogReady = q, !.jog = j] /\ q \in BOOLEAN /\ j \in {-1, 0, 1}
    BY <1>2
  <1>4. r = UpdateJog(m, enabled)
    BY DEF UpdateJog
  <1>5. (j # 0 => q /\ j = m.at["plus"] - m.at["minus"])
    OBVIOUS
  <1>6. q => enabled /\ ~ both /\ (none \/ m.jogReady)
    OBVIOUS
  <1> HIDE DEF r, q, j
  <1>7. /\ r \in Nodes /\ r.joy = m.joy
        /\ SameInput(m, r) /\ SameStage(m, r) /\ SameDrive(m, r) /\ SameRequest(m, r)
        /\ SameModes(m, r) /\ r.jogReady = q /\ r.jog = j
    BY <1>3 DEF Nodes, Node, SameInput, SameStage, SameDrive, SameModes, SameRequest
  <1> QED
    BY <1>4, <1>5, <1>6, <1>7

\* The lever alone changes.
LEMMA LeverFields ==
    ASSUME NEW m \in Nodes, NEW j \in Joy
    PROVE  LET r == [m EXCEPT !.joy = j]
           IN  /\ r \in Nodes /\ r.joy = j
               /\ SameInput(m, r) /\ SameStage(m, r) /\ SameDrive(m, r) /\ SameJog(m, r)
               /\ SameRequest(m, r) /\ SameModes(m, r)
  BY DEF Nodes, Node, SameInput, SameStage, SameDrive, SameJog, SameRequest, SameModes

JoyOff(r) == ~ r.joy.armed /\ ~ r.joy.ready /\ r.joy.dir = 0
NoArm(r) == ~ Busy(r) /\ r.action = NoStep
Rests(r) ==
    /\ ~ r.tracking /\ ~ r.toggle
    /\ NoArm(r) /\ JoyOff(r)
    /\ ~ r.jogReady /\ r.jog = 0

LEMMA SuspendFields ==
    ASSUME NEW m \in Nodes
    PROVE  LET r == SuspendRepeat(m)
           IN  /\ r \in Nodes
               /\ r.joy = [m.joy EXCEPT !.dir = 0]
               /\ SameInput(m, r) /\ SameStage(m, r) /\ SameDrive(m, r) /\ SameJog(m, r)
               /\ SameRequest(m, r) /\ SameModes(m, r)
  BY DEF Nodes, Node, Joy, SuspendRepeat, SameInput, SameStage, SameDrive, SameJog, SameRequest,
         SameModes

LEMMA ArmJoyFields ==
    ASSUME NEW m \in Nodes
    PROVE  LET r == ArmJoy(m)
           IN  /\ r \in Nodes
               /\ r.joy = [m.joy EXCEPT !.armed = TRUE, !.ready = TRUE]
               /\ SameInput(m, r) /\ SameStage(m, r) /\ SameDrive(m, r) /\ SameJog(m, r)
               /\ SameRequest(m, r) /\ SameModes(m, r)
  BY DEF Nodes, Node, Joy, ArmJoy, SameInput, SameStage, SameDrive, SameJog, SameRequest,
         SameModes

LEMMA ZeroFields ==
    ASSUME NEW m \in Nodes
    PROVE  LET r == PublishZero(m)
           IN  /\ r \in Nodes
               /\ ~ r.moving /\ ~ r.filtered
               /\ r.joy = m.joy
               /\ SameInput(m, r) /\ SameStage(m, r) /\ SameJog(m, r)
               /\ SameRequest(m, r) /\ SameModes(m, r)
  BY DEF Nodes, Node, PublishZero, SameInput, SameStage, SameJog, SameRequest, SameModes

\* Tracking that begins or ends drops the step that is under way.
LEMMA TrackingFields ==
    ASSUME NEW m \in Nodes, NEW requested \in BOOLEAN
    PROVE  LET r == SetTracking(m, requested)
           IN  /\ r \in Nodes
               /\ r.tracking = requested /\ ~ r.toggle /\ r.armed = m.armed
               /\ SameInput(m, r) /\ SameStage(m, r) /\ SameDrive(m, r) /\ SameJog(m, r)
               /\ m.tracking = requested => r.joy = m.joy /\ SameRequest(m, r)
               /\ m.tracking # requested => JoyOff(r) /\ r.joy.coord = m.joy.coord /\ NoArm(r)
  <1> DEFINE dropped == [m EXCEPT !.toggle = FALSE]
             changed == [dropped EXCEPT !.tracking = requested]
             r == SetTracking(m, requested)
  <1>1. /\ dropped \in Nodes /\ ~ dropped.toggle /\ dropped.armed = m.armed
        /\ dropped.tracking = m.tracking /\ dropped.joy = m.joy
        /\ SameInput(m, dropped) /\ SameStage(m, dropped) /\ SameDrive(m, dropped)
        /\ SameJog(m, dropped) /\ SameRequest(m, dropped)
    BY DEF Nodes, Node, SameInput, SameStage, SameDrive, SameJog, SameRequest
  <1>2. CASE m.tracking = requested
    <2>1. r = dropped
      BY <1>2 DEF SetTracking
    <2> HIDE DEF dropped, r
    <2> QED
      BY <1>1, <1>2, <2>1 DEF r
  <1>3. CASE m.tracking # requested
    <2>1. r = CancelAdjustment(Disarm(changed))
      BY <1>3 DEF SetTracking
    <2> HIDE DEF dropped
    <2>2. /\ changed \in Nodes /\ changed.toggle = dropped.toggle /\ changed.armed = dropped.armed
          /\ changed.tracking = requested /\ changed.joy = dropped.joy
          /\ SameInput(dropped, changed) /\ SameStage(dropped, changed)
          /\ SameDrive(dropped, changed) /\ SameJog(dropped, changed)
      BY <1>1 DEF Nodes, Node, SameInput, SameStage, SameDrive, SameJog
    <2> HIDE DEF changed, r
    <2> DEFINE off == Disarm(changed)
    <2>3. /\ off \in Nodes
          /\ off.joy = [changed.joy EXCEPT !.armed = FALSE, !.ready = FALSE, !.dir = 0]
          /\ SameInput(changed, off) /\ SameStage(changed, off) /\ SameDrive(changed, off)
          /\ SameJog(changed, off) /\ SameModes(changed, off)
      BY <2>2, DisarmFields
    <2>4. JoyOff(off) /\ off.joy.coord = changed.joy.coord
      BY <2>2, <2>3 DEF JoyOff, Nodes, Node, Joy
    <2> HIDE DEF off
    <2>5. /\ r \in Nodes /\ r.joy = off.joy
          /\ SameInput(off, r) /\ SameStage(off, r) /\ SameDrive(off, r) /\ SameJog(off, r)
          /\ NoArm(r) /\ SameModes(off, r)
      BY <2>1, <2>3, CancelFields DEF off, NoArm
    <2> QED
      BY <1>1, <1>3, <2>2, <2>3, <2>4, <2>5
      DEF r, SameInput, SameStage, SameDrive, SameJog, SameModes, JoyOff
  <1> QED
    BY <1>2, <1>3

\* A stop leaves nothing under way.
LEMMA StoppedFields ==
    ASSUME NEW m \in Nodes, pose \in BOOLEAN
    PROVE  LET r == Stopped(m)
           IN  /\ r \in Nodes /\ Rests(r)
               /\ r.joy.coord = m.joy.coord /\ r.armed = m.armed
               /\ SameInput(m, r) /\ SameStage(m, r) /\ SameDrive(m, r)
  <1> DEFINE a == CancelTracking(m)
             b == UpdateJog(a, FALSE)
             c == Disarm(b)
             r == Stopped(m)
  <1>1. /\ a \in Nodes /\ ~ a.tracking /\ ~ a.toggle /\ a.armed = m.armed
        /\ SameInput(m, a) /\ SameStage(m, a) /\ SameDrive(m, a)
        /\ a.joy.coord = m.joy.coord
    BY TrackingFields DEF CancelTracking
  <1> HIDE DEF a
  <1>2. /\ b \in Nodes /\ b.joy = a.joy
        /\ SameInput(a, b) /\ SameStage(a, b) /\ SameDrive(a, b) /\ SameModes(a, b)
        /\ ~ b.jogReady /\ b.jog = 0
    BY <1>1, JogFields DEF Nodes, Node
  <1> HIDE DEF b
  <1>3. /\ c \in Nodes
        /\ c.joy = [b.joy EXCEPT !.armed = FALSE, !.ready = FALSE, !.dir = 0]
        /\ SameInput(b, c) /\ SameStage(b, c) /\ SameDrive(b, c) /\ SameJog(b, c)
        /\ SameModes(b, c)
    BY <1>2, DisarmFields
  <1>4. JoyOff(c) /\ c.joy.coord = b.joy.coord
    BY <1>2, <1>3 DEF JoyOff, Nodes, Node, Joy
  <1>5. r = CancelAdjustment(c)
    BY DEF Stopped, a, b
  <1> HIDE DEF c, r
  <1>6. /\ r \in Nodes /\ r.joy = c.joy
        /\ SameInput(c, r) /\ SameStage(c, r) /\ SameDrive(c, r) /\ SameJog(c, r)
        /\ NoArm(r) /\ SameModes(c, r)
    BY <1>3, <1>5, CancelFields DEF NoArm
  <1> QED
    BY <1>1, <1>2, <1>3, <1>4, <1>6
    DEF Rests, SameInput, SameStage, SameDrive, SameJog, SameModes, JoyOff, r

\* So does an emergency stop, and the program ends.
LEMMA EmergencyFields ==
    ASSUME NEW m \in Nodes, pose \in BOOLEAN
    PROVE  LET r == EmergencyStop(m)
           IN  /\ r \in Nodes /\ Rests(r) /\ ~ r.moving /\ ~ r.filtered
               /\ ~ r.alive /\ r.stage = m.stage /\ r.armed = m.armed
               /\ SameInput(m, r)
  <1> DEFINE a == Stopped(m)
             b == PublishZero(a)
             r == [b EXCEPT !.alive = FALSE]
  <1>1. /\ a \in Nodes /\ Rests(a) /\ a.armed = m.armed
        /\ SameInput(m, a) /\ SameStage(m, a)
    BY StoppedFields
  <1>2. /\ b \in Nodes /\ ~ b.moving /\ ~ b.filtered /\ b.joy = a.joy
        /\ SameInput(a, b) /\ SameStage(a, b) /\ SameJog(a, b)
        /\ SameRequest(a, b) /\ SameModes(a, b)
    BY <1>1, ZeroFields
  <1>3. r = EmergencyStop(m)
    BY DEF EmergencyStop, Stopped
  <1> HIDE DEF a, b
  <1>4. /\ r \in Nodes /\ ~ r.alive /\ r.stage = b.stage /\ r.joy = b.joy
        /\ SameInput(b, r) /\ SameDrive(b, r) /\ SameJog(b, r)
        /\ SameRequest(b, r) /\ SameModes(b, r)
    BY <1>2 DEF Nodes, Node, SameInput, SameDrive, SameJog, SameRequest, SameModes
  <1> HIDE DEF r
  <1>5. Rests(r)
    BY <1>1, <1>2, <1>4
    DEF Rests, NoArm, Busy, JoyOff, SameJog, SameRequest, SameModes
  <1> QED
    BY <1>1, <1>2, <1>3, <1>4, <1>5 DEF SameInput, SameStage, SameDrive, SameModes

LEMMA ResetFields ==
    ASSUME NEW m \in Nodes
    PROVE  LET r == ResetJoy(m)
           IN  /\ r \in Nodes /\ JoyOff(r)
               /\ SameInput(m, r) /\ SameStage(m, r) /\ SameDrive(m, r) /\ SameJog(m, r)
               /\ SameRequest(m, r) /\ SameModes(m, r)
  <1> DEFINE a == [m EXCEPT !.joy.coord = 0]
  <1>1. /\ a \in Nodes
        /\ SameInput(m, a) /\ SameStage(m, a) /\ SameDrive(m, a) /\ SameJog(m, a)
        /\ SameRequest(m, a) /\ SameModes(m, a)
    BY DEF Nodes, Node, Joy, Coordinates, SameInput, SameStage, SameDrive, SameJog, SameRequest,
           SameModes
  <1>2. ResetJoy(m) = Disarm(a)
    BY DEF ResetJoy
  <1> HIDE DEF a
  <1> DEFINE r == Disarm(a)
  <1>3. /\ r \in Nodes
        /\ r.joy = [a.joy EXCEPT !.armed = FALSE, !.ready = FALSE, !.dir = 0]
        /\ SameInput(a, r) /\ SameStage(a, r) /\ SameDrive(a, r) /\ SameJog(a, r)
        /\ SameRequest(a, r) /\ SameModes(a, r)
    BY <1>1, DisarmFields
  <1> HIDE DEF r
  <1>4. JoyOff(r)
    BY <1>1, <1>3 DEF JoyOff, Nodes, Node, Joy
  <1> QED
    BY <1>1, <1>2, <1>3, <1>4
    DEF SameInput, SameStage, SameDrive, SameJog, SameRequest, SameModes, r

\* Nothing that was read or asked for outlives the device.
LEMMA InvalidateFields ==
    ASSUME NEW m \in Nodes, pose \in BOOLEAN
    PROVE  LET r == Invalidate(m)
           IN  /\ r \in Nodes /\ Rests(r) /\ SameDrive(m, r)
               /\ ~ r.armed /\ r.released = {} /\ r.seen = {} /\ r.at = Released(m)
               /\ r.alive => m.alive /\ r.stage \notin {"requested", "starting"}
               /\ r.stage = "running" <=> m.stage = "running"
  <1> DEFINE a == [m EXCEPT !.armed = FALSE, !.released = {}, !.at = Released(m), !.seen = {}]
             b == IF a.stage = "starting" THEN [a EXCEPT !.alive = FALSE]
                  ELSE IF a.stage = "requested" THEN [a EXCEPT !.stage = "waiting"] ELSE a
             c == CancelTracking(b)
             d == ResetJoy(c)
             e == UpdateJog(d, FALSE)
             r == CancelAdjustment(e)
  <1>0. Released(m) \in Positions /\ Released(m) \in [Controls -> -2..2]
    BY DEF Released, Positions
  <1>1. /\ a \in Nodes /\ ~ a.armed /\ a.released = {} /\ a.at = Released(m) /\ a.seen = {}
        /\ SameStage(m, a) /\ SameDrive(m, a)
    BY <1>0 DEF Nodes, Node, SameStage, SameDrive
  <1>9. a.stage = m.stage
    BY <1>1 DEF SameStage
  <1>10. r = Invalidate(m)
    BY <1>9, Zenon DEF Invalidate
  <1> HIDE DEF a
  <1>2. /\ b \in Nodes /\ b.armed = a.armed /\ SameInput(a, b) /\ SameDrive(a, b)
        /\ b.alive => a.alive /\ b.stage \notin {"requested", "starting"}
        /\ b.stage = "running" <=> a.stage = "running"
    <2>1. CASE a.stage = "starting"
      BY <1>1, <2>1 DEF Nodes, Node, SameInput, SameDrive
    <2>2. CASE a.stage = "requested"
      BY <1>1, <2>2 DEF Nodes, Node, SameInput, SameDrive
    <2>3. CASE a.stage \notin {"starting", "requested"}
      BY <1>1, <2>3 DEF Nodes, Node, SameInput, SameDrive
    <2> QED
      BY <2>1, <2>2, <2>3
  <1> HIDE DEF b
  <1>3. /\ c \in Nodes /\ ~ c.tracking /\ ~ c.toggle /\ c.armed = b.armed
        /\ SameInput(b, c) /\ SameStage(b, c) /\ SameDrive(b, c)
    BY <1>2, TrackingFields DEF CancelTracking
  <1> HIDE DEF c
  <1>4. /\ d \in Nodes /\ JoyOff(d)
        /\ SameInput(c, d) /\ SameStage(c, d) /\ SameDrive(c, d) /\ SameModes(c, d)
    BY <1>3, ResetFields
  <1> HIDE DEF d
  <1>5. /\ e \in Nodes /\ e.joy = d.joy /\ ~ e.jogReady /\ e.jog = 0
        /\ SameInput(d, e) /\ SameStage(d, e) /\ SameDrive(d, e) /\ SameModes(d, e)
    BY <1>4, JogFields DEF Nodes, Node
  <1> HIDE DEF e
  <1>6. /\ r \in Nodes /\ r.joy = e.joy /\ NoArm(r) /\ SameJog(e, r)
        /\ SameInput(e, r) /\ SameStage(e, r) /\ SameDrive(e, r) /\ SameModes(e, r)
    BY <1>5, CancelFields DEF NoArm
  <1> HIDE DEF r
  <1>7. Rests(r)
    BY <1>3, <1>4, <1>5, <1>6 DEF Rests, JoyOff, SameJog, SameModes
  <1>8. SameDrive(m, r) /\ SameInput(b, r) /\ SameStage(b, r) /\ r.armed = b.armed
    BY <1>1, <1>2, <1>3, <1>4, <1>5, <1>6 DEF SameDrive, SameInput, SameStage, SameModes
  <1> QED
    BY <1>1, <1>2, <1>6, <1>7, <1>8, <1>10 DEF SameInput, SameStage

------------------------------------------------------------------------------
(* The inductive invariant *)

TypeOK ==
    /\ hands \in Hands
    /\ pads \in Positions /\ known \in Positions
    /\ queue \in Seq(Changes)
    /\ fd \in {"closed", "opened", "read"} /\ pc \in {"idle", "read", "act"}
    /\ n \in Nodes
    /\ wasHealthy \in BOOLEAN /\ reach \in BOOLEAN /\ healthy \in BOOLEAN
    /\ pose \in BOOLEAN /\ blocked \in BOOLEAN
    /\ linkGen \in Nat /\ generation \in Nat /\ linkGen <= generation
    /\ rested \in SUBSET Controls

\* Only an armed, running remote control asks for a step or for tracking, and
\* tracking never beside a step or a velocity.
Owned(m) ==
    /\ m.armed \/ ~ NoArm(m) => m.stage = "running"
    /\ m.tracking => ~ m.moving /\ ~ Busy(m) /\ m.armed /\ m.stage = "running" /\ m.alive

\* A step that is not submitted yet is for the selected coordinate, a repetition
\* of it for a lever that is still held; a lever that repeats has to return to
\* neutral before it asks for a first step again.
Held(m) ==
    /\ m.action # NoStep => m.action.coord = m.joy.coord /\ ~ m.action.repeated
    /\ m.request = "get" =>
          /\ m.asked.coord = m.joy.coord
          /\ m.asked.repeated => RepeatActive(m) /\ m.asked.dir = m.joy.dir
    /\ m.joy.dir # 0 => m.joy.armed /\ ~ m.joy.ready
    /\ m.jogReady => ~ (Pressed(m, "plus") /\ Pressed(m, "minus"))

\* What the node believes or has asked for rests on controls it saw at rest, and
\* those are in R.
Fresh(m, R) ==
    /\ \A c \in m.seen : m.at[c] = 0 => c \in R
    /\ m.released \subseteq R
    /\ m.armed => Axes \cup StepControls \subseteq R
    /\ ~ NoArm(m) => StepControls \subseteq R
    /\ m.toggle => "tracking" \in R
    /\ m.tracking => Axes \cup {"tracking"} \subseteq R
    /\ m.jogReady \/ m.jog # 0 => JogButtons \subseteq R
    /\ m.alive /\ m.stage \in {"requested", "starting"} => {"start", "emergency"} \subseteq R

\* Without a file nothing is under way, and before the first read nothing is seen.
FileClosed ==
    /\ pc # "idle" => n.alive
    /\ fd = "opened" => n.seen = {}
    /\ fd = "closed" => queue = <<>> /\ ~ n.tracking /\ NoArm(n)

\* What the operator had at rest, as far as it reached the driver.
KnownRested ==
    /\ reach => known = pads
    /\ \A c \in Controls : pads[c] = 0 \/ known[c] = 0 => c \in rested
    /\ \A c \in Controls : c \notin DOMAIN hands => pads[c] = 0 /\ known[c] = 0

\* Controls the node may rely on: those rested on the link's present generation,
\* or, while it has not noticed that there is a new one, any.
Trusted == IF linkGen = generation THEN rested ELSE Controls

\* Nothing is left from an earlier generation, except a velocity until the tick
\* that noticed the new one publishes.
NothingOlder ==
    /\ \A i \in DOMAIN queue : queue[i].val = 0 => queue[i].ctl \in Trusted
    /\ Fresh(n, Trusted)
    /\ n.alive /\ (n.moving \/ n.filtered) =>
          \/ Axes \subseteq Trusted
          \/ pc # "idle" /\ fd = "closed"
          \/ pc = "act" /\ n.seen = {}

\* The events in the queue lead from what the node has read to what is known.
Untouched(c, i) == \A k \in 1..i : queue[k].ctl # c
LastOf(c, k, i) == k \in 1..i /\ queue[k].ctl = c /\ \A l \in 1..i : l > k => queue[l].ctl # c
QueueLeadsToKnown ==
    \A b \in JogButtons :
        /\ \A k \in 1..Len(queue) : LastOf(b, k, Len(queue)) => queue[k].val = known[b]
        /\ fd = "read" /\ Untouched(b, Len(queue)) => n.at[b] = known[b]

\* Where both jog buttons were down, and one still is, the node has seen it or
\* will see it before it jogs.
DownAfter(b, i) ==
    /\ Untouched(b, i) => n.at[b] # 0
    /\ \A k \in 1..i : LastOf(b, k, i) => queue[k].val # 0
MayJog == n.jogReady \/ (pc = "act" /\ \A b \in JogButtons : n.at[b] = 0)
BlockedIsSeen ==
    /\ blocked => \E b \in JogButtons : known[b] # 0
    /\ blocked /\ fd = "read" /\ MayJog =>
          \E i \in 1..Len(queue) : \A b \in JogButtons : DownAfter(b, i)

Sound(m, R) == Owned(m) /\ Held(m) /\ Fresh(m, R)

RemoteInv ==
    /\ TypeOK /\ Owned(n) /\ Held(n) /\ FileClosed
    /\ KnownRested /\ NothingOlder
    /\ QueueLeadsToKnown /\ BlockedIsSeen

------------------------------------------------------------------------------
(* Events *)

\* The controls are different.
LEMMA Distinct ==
    /\ Axes \cap (Buttons \cup {"step"}) = {}
    /\ "step" \notin Buttons /\ "step" \in Controls
    /\ JogButtons \subseteq Controls /\ StepControls \subseteq Controls
    /\ Axes \subseteq Controls /\ Buttons \subseteq Controls
  BY ControlsAssumption DEF Controls, Buttons, JogButtons, StepControls

\* A node at rest relies on nothing but what it has seen.
LEMMA RestIsSound ==
    ASSUME NEW R, NEW m \in Nodes, NEW r \in Nodes, Owned(m), Fresh(m, R), Rests(r),
           SameInput(m, r),
           r.armed = m.armed, r.stage = m.stage, r.alive => m.alive
    PROVE  Sound(r, R)
  <1>1. Owned(r)
    BY DEF Owned, Rests, NoArm
  <1>2. Held(r)
    BY DEF Held, Rests, NoArm, Busy, JoyOff
  <1>3. Fresh(r, R)
    BY DEF Fresh, Rests, SameInput
  <1> QED
    BY <1>1, <1>2, <1>3 DEF Sound

\* One without a device relies on nothing at all.
LEMMA InvalidIsSound ==
    ASSUME NEW R, NEW m \in Nodes, pose \in BOOLEAN
    PROVE  Sound(Invalidate(m), R)
  <1> DEFINE r == Invalidate(m)
  <1>1. /\ r \in Nodes /\ Rests(r)
        /\ ~ r.armed /\ r.released = {} /\ r.seen = {}
        /\ r.alive => m.alive /\ r.stage \notin {"requested", "starting"}
    BY InvalidateFields
  <1> HIDE DEF r
  <1>2. Owned(r)
    BY <1>1 DEF Owned, Rests, NoArm
  <1>3. Held(r)
    BY <1>1 DEF Held, Rests, NoArm, Busy, JoyOff
  <1>4. Fresh(r, R)
    BY <1>1 DEF Fresh, Rests
  <1> QED
    BY <1>2, <1>3, <1>4 DEF Sound, r

LEMMA ObservedFields ==
    ASSUME NEW R, NEW m \in Nodes, Sound(m, R), NEW e \in Changes, e.val = 0 => e.ctl \in R
    PROVE  LET o == Observed(m, e)
           IN  /\ o \in Nodes
               /\ o.at = [m.at EXCEPT ![e.ctl] = e.val] /\ o.released = m.released
               /\ o.joy = m.joy /\ SameElse(m, o)
               /\ Owned(o) /\ Fresh(o, R)
               /\ e.ctl \notin JogButtons \cup {"step"} => Held(o)
  <1> DEFINE at == [m.at EXCEPT ![e.ctl] = e.val]
             seen == m.seen \cup {e.ctl}
             o == Observed(m, e)
  <1>1. at \in Positions /\ at \in [Controls -> -2..2]
    BY DEF Nodes, Positions, Changes
  <1>2. seen \in SUBSET Controls
    BY DEF Nodes, Node, Changes
  <1>3. \A c \in seen : at[c] = 0 => c \in R
    BY DEF Sound, Fresh, Nodes, Positions, Changes
  <1>4. e.ctl # "step" => at["step"] = m.at["step"]
    BY Distinct DEF Nodes, Positions
  <1>5. e.ctl \notin JogButtons => \A b \in JogButtons : at[b] = m.at[b]
    BY Distinct DEF Nodes, Positions
  <1>6. o = [m EXCEPT !.at = at, !.seen = seen]
    BY DEF Observed
  <1>10. at = [m.at EXCEPT ![e.ctl] = e.val]
    OBVIOUS
  <1> HIDE DEF at, seen, o
  <1>7. /\ o \in Nodes /\ o.at = at /\ o.seen = seen /\ o.released = m.released
        /\ o.joy = m.joy /\ SameElse(m, o)
    BY <1>1, <1>2, <1>6
    DEF Nodes, Node, SameElse, SameStage, SameDrive, SameJog, SameRequest, SameModes
  <1>8. Owned(o) /\ Fresh(o, R)
    BY <1>3, <1>7
    DEF Sound, Owned, NoArm, Busy, Fresh, SameElse, SameStage, SameDrive, SameJog, SameRequest,
        SameModes
  <1>9. ASSUME e.ctl \notin JogButtons \cup {"step"} PROVE Held(o)
    <2>1. Held(m)
      BY DEF Sound
    <2>2. RepeatActive(o) <=> RepeatActive(m)
      BY <1>4, <1>7, <1>9 DEF RepeatActive
    <2>3. /\ Pressed(o, "plus") <=> Pressed(m, "plus")
          /\ Pressed(o, "minus") <=> Pressed(m, "minus")
      BY <1>5, <1>7, <1>9 DEF Pressed, JogButtons
    <2> QED
      BY <1>7, <2>1, <2>2, <2>3 DEF Held, SameElse, SameJog, SameRequest
  <1> QED
    BY <1>7, <1>8, <1>9, <1>10 DEF o

\* What an event does beyond the values it reports.
Handled(m, e, r) ==
    /\ r \in Nodes /\ r.at = [m.at EXCEPT ![e.ctl] = e.val]
    /\ r.moving => m.moving
    /\ r.filtered => m.filtered
    /\ r.alive => m.alive
    /\ r.jogReady => m.jogReady
    /\ r.jog \in {0, m.jog}
    /\ r.request = "set" => m.request = "set"
    /\ m.stage = "running" => r.stage = "running"

\* A step is taken up by an armed node that is not tracking and has none.
TakesStep(m, step) ==
    IF m.armed /\ ~ m.tracking /\ step.dir # 0 /\ ~ Busy(m) /\ m.action = NoStep
    THEN [m EXCEPT !.action = step] ELSE m

LEMMA TakesStepFields ==
    ASSUME NEW m \in Nodes, NEW step \in Step
    PROVE  LET r == TakesStep(m, step)
           IN  /\ r \in Nodes /\ r.joy = m.joy
               /\ SameInput(m, r) /\ SameStage(m, r) /\ SameDrive(m, r) /\ SameJog(m, r)
               /\ SameModes(m, r)
               /\ r.request = m.request /\ r.answer = m.answer /\ r.asked = m.asked
               /\ r.action # m.action =>
                     m.armed /\ ~ m.tracking /\ ~ Busy(m) /\ r.action = step
  <1> DEFINE r == [m EXCEPT !.action = step]
             cond == m.armed /\ ~ m.tracking /\ step.dir # 0 /\ ~ Busy(m) /\ m.action = NoStep
  <1>2. TakesStep(m, step) = IF cond THEN r ELSE m
    BY DEF TakesStep
  <1>3. /\ r \in Nodes /\ r.joy = m.joy
        /\ SameInput(m, r) /\ SameStage(m, r) /\ SameDrive(m, r) /\ SameJog(m, r)
        /\ SameModes(m, r)
        /\ r.request = m.request /\ r.answer = m.answer /\ r.asked = m.asked
        /\ r.action = step
    BY DEF Nodes, Node, SameInput, SameStage, SameDrive, SameJog, SameModes
  <1> HIDE DEF r
  <1>4. CASE cond
    BY <1>2, <1>3, <1>4
  <1>5. CASE ~ cond
    BY <1>2, <1>5 DEF SameInput, SameStage, SameDrive, SameJog, SameModes
  <1> QED
    BY <1>4, <1>5

\* An event of the lever: a step is taken as it is held, a repetition let go.
LEMMA StepEventSound ==
    ASSUME NEW R, NEW m \in Nodes, Sound(m, R), NEW e \in Changes, e.val = 0 => e.ctl \in R,
           e.ctl = "step"
    PROVE  Sound(StepEvent(m, e), R) /\ Handled(m, e, StepEvent(m, e))
  <1> DEFINE o == Observed(m, e)
             flipped == IF o.joy.dir * e.val > 0 THEN SuspendRepeat(o) ELSE o
             dir == IF e.val < 0 THEN 1 ELSE -1
             turned == [flipped EXCEPT !.joy.ready = FALSE, !.joy.dir = dir]
             neutral == [SuspendRepeat(o) EXCEPT !.joy.ready = TRUE]
             moved ==
                 CASE ~o.joy.armed -> o
                   [] o.joy.armed /\ Neutral(e.val) -> neutral
                   [] o.joy.armed /\ Active(e.val) /\ o.joy.ready -> HandleStep(turned, dir, FALSE)
                   [] OTHER -> flipped
             r == IF ~RepeatActive(moved) /\ moved.request = "get" /\ moved.asked.repeated
                  THEN CancelAdjustment(moved) ELSE moved
  <1>1. /\ o \in Nodes /\ o.at = [m.at EXCEPT ![e.ctl] = e.val]
        /\ o.joy = m.joy /\ SameElse(m, o) /\ Owned(o) /\ Fresh(o, R)
    BY ObservedFields
  <1>2. Held(m) /\ m.joy \in Joy
    BY DEF Sound, Nodes, Node
  <1>3. r = StepEvent(m, e)
    BY DEF StepEvent
  <1> HIDE DEF o
  \* A node that differs from o in the lever's state and a step asked for.
  <1> DEFINE Like(x) ==
                 /\ x \in Nodes /\ SameInput(o, x) /\ SameStage(o, x) /\ SameDrive(o, x)
                 /\ SameJog(o, x) /\ SameModes(o, x)
                 /\ x.request = o.request /\ x.answer = o.answer /\ x.asked = o.asked
                 /\ x.joy.coord = o.joy.coord /\ x.joy.armed = o.joy.armed
  <1>4. Like(o) /\ o.joy \in Joy
    BY <1>1 DEF SameInput, SameStage, SameDrive, SameJog, SameModes, Nodes, Node
  <1>5. /\ Like(SuspendRepeat(o)) /\ SuspendRepeat(o).joy.dir = 0
        /\ SuspendRepeat(o).action = o.action /\ SuspendRepeat(o).joy \in Joy
    <2> DEFINE x == SuspendRepeat(o)
    <2>1. /\ x \in Nodes
          /\ x.joy = [o.joy EXCEPT !.dir = 0]
          /\ SameInput(o, x) /\ SameStage(o, x) /\ SameDrive(o, x) /\ SameJog(o, x)
          /\ SameRequest(o, x) /\ SameModes(o, x)
      BY <1>1, SuspendFields
    <2> HIDE DEF x
    <2>2. x.joy.coord = o.joy.coord /\ x.joy.armed = o.joy.armed /\ x.joy.dir = 0
      BY <1>4, <2>1 DEF Joy
    <2>3. x.joy \in Joy
      BY <2>1 DEF Nodes, Node
    <2> QED
      BY <2>1, <2>2, <2>3 DEF SameRequest, x
  <1>6. /\ Like(flipped) /\ flipped.action = o.action /\ flipped.joy \in Joy
        /\ flipped.joy.dir = 0 \/ flipped.joy = o.joy
    BY <1>4, <1>5
  <1>7. Like(neutral) /\ neutral.joy.dir = 0 /\ neutral.action = o.action
    <2> DEFINE x == SuspendRepeat(o)
    <2> HIDE DEF x
    <2> DEFINE j == [x.joy EXCEPT !.ready = TRUE]
               y == [x EXCEPT !.joy = j]
    <2>1. Like(x) /\ x.joy.dir = 0 /\ x.action = o.action /\ x.joy \in Joy
      BY <1>5 DEF x
    <2>3. j \in Joy /\ j.coord = x.joy.coord /\ j.armed = x.joy.armed /\ j.dir = x.joy.dir
      BY <2>1 DEF Joy
    <2>4. y = neutral
      BY DEF x
    <2>6. x \in Nodes
      BY <2>1
    <2> HIDE DEF j
    <2>2. /\ y \in Nodes /\ SameInput(x, y) /\ SameStage(x, y) /\ SameDrive(x, y)
          /\ SameJog(x, y) /\ SameModes(x, y) /\ SameRequest(x, y) /\ y.joy = j
      BY <2>3, <2>6, LeverFields
    <2> HIDE DEF y
    <2>5. Like(y) /\ y.joy.dir = 0 /\ y.action = o.action
      BY <2>1, <2>2, <2>3
      DEF SameInput, SameStage, SameDrive, SameJog, SameModes, SameRequest
    <2> QED
      BY <2>4, <2>5
  <1>8. dir \in {-1, 0, 1}
    OBVIOUS
  <1>9. Like(turned) /\ turned.action = o.action /\ ~ turned.joy.ready
    <2> DEFINE x == flipped
               d == dir
    <2>1. Like(x) /\ x.action = o.action /\ x.joy \in Joy /\ d \in {-1, 0, 1}
      BY <1>6
    <2> HIDE DEF x, d
    <2> DEFINE j == [x.joy EXCEPT !.ready = FALSE, !.dir = d]
               y == [x EXCEPT !.joy = j]
    <2>3. j \in Joy /\ j.coord = x.joy.coord /\ j.armed = x.joy.armed /\ ~ j.ready
      BY <2>1 DEF Joy
    <2>6. x \in Nodes
      BY <2>1
    <2> HIDE DEF j
    <2>2. /\ y \in Nodes /\ SameInput(x, y) /\ SameStage(x, y) /\ SameDrive(x, y)
          /\ SameJog(x, y) /\ SameModes(x, y) /\ SameRequest(x, y) /\ y.joy = j
      BY <2>3, <2>6, LeverFields
    <2>7. turned.joy = [flipped.joy EXCEPT !.ready = FALSE, !.dir = dir]
      BY <1>6 DEF turned, Nodes, Node
    <2>4. y = turned
      BY <2>6, <2>7 DEF x, d, j, turned
    <2> HIDE DEF y
    <2>5. Like(y) /\ ~ y.joy.ready /\ y.action = o.action
      BY <2>1, <2>2, <2>3
      DEF SameInput, SameStage, SameDrive, SameJog, SameModes, SameRequest
    <2> QED
      BY <2>4, <2>5
  <1> HIDE DEF turned, neutral, flipped, dir
  <1> DEFINE stepped == HandleStep(turned, dir, FALSE)
  <1>10. /\ Like(stepped) /\ ~ stepped.joy.ready
         /\ stepped.action # o.action =>
               /\ o.armed /\ ~ Busy(o)
               /\ stepped.action.coord = o.joy.coord /\ ~ stepped.action.repeated
    <2> DEFINE step == [coord |-> turned.joy.coord, dir |-> dir, repeated |-> FALSE]
    <2>1. stepped = TakesStep(turned, step)
      BY DEF HandleStep, TakesStep
    <2>2. turned \in Nodes
      BY <1>9
    <2>3. turned.joy.coord \in Coordinates
      BY <2>2 DEF Nodes, Node, Joy
    <2>4. step \in Step /\ step.coord = turned.joy.coord /\ ~ step.repeated
      BY <1>8, <2>3 DEF Step
    <2> HIDE DEF step, stepped
    <2>5. /\ stepped \in Nodes /\ stepped.joy = turned.joy
          /\ SameInput(turned, stepped) /\ SameStage(turned, stepped)
          /\ SameDrive(turned, stepped) /\ SameJog(turned, stepped)
          /\ SameModes(turned, stepped)
          /\ stepped.request = turned.request /\ stepped.answer = turned.answer
          /\ stepped.asked = turned.asked
          /\ stepped.action # turned.action =>
                turned.armed /\ ~ Busy(turned) /\ stepped.action = step
      BY <2>1, <2>2, <2>4, TakesStepFields
    <2> QED
      BY <1>9, <2>4, <2>5 DEF SameInput, SameStage, SameDrive, SameJog, SameModes, Busy
  <1> HIDE DEF stepped
  <1>11. /\ Like(moved)
         /\ moved.joy.dir # 0 => moved.joy.armed /\ ~ moved.joy.ready
         /\ m.joy.dir # 0 => moved.joy.dir \in {0, m.joy.dir}
         /\ moved.action # o.action =>
               /\ o.armed /\ ~ Busy(o)
               /\ moved.action.coord = o.joy.coord /\ ~ moved.action.repeated
    <2>1. m.joy.dir # 0 => m.joy.armed /\ ~ m.joy.ready
      BY <1>2 DEF Held
    <2>2. CASE ~ o.joy.armed
      <3>1. moved = o
        BY <2>2
      <3> QED
        BY <1>1, <1>4, <2>1, <3>1
    <2>3. CASE o.joy.armed /\ Neutral(e.val)
      <3>1. moved = neutral
        BY <2>3 DEF Neutral, Active
      <3> QED
        BY <1>7, <3>1
    <2>4. CASE o.joy.armed /\ ~ Neutral(e.val) /\ Active(e.val) /\ o.joy.ready
      <3>1. moved = stepped
        BY <2>4 DEF stepped
      <3> QED
        BY <1>1, <1>10, <2>1, <2>4, <3>1
    <2>5. CASE o.joy.armed /\ ~ Neutral(e.val) /\ ~ (Active(e.val) /\ o.joy.ready)
      <3>1. moved = flipped
        BY <2>5
      <3> QED
        BY <1>1, <1>6, <2>1, <2>5, <3>1
    <2> QED
      BY <2>2, <2>3, <2>4, <2>5
  <1> HIDE DEF moved
  <1>12. Owned(moved) /\ Fresh(moved, R)
    BY <1>1, <1>11
    DEF Owned, Fresh, NoArm, Busy, SameInput, SameStage, SameDrive, SameJog, SameModes
  <1>13. Handled(m, e, moved)
    BY <1>1, <1>11 DEF Handled, SameInput, SameStage, SameDrive, SameJog, SameElse, SameRequest
  <1>14. moved.request = "get" /\ moved.asked.repeated /\ RepeatActive(moved)
            => moved.asked.dir = moved.joy.dir
    <2> SUFFICES ASSUME moved.request = "get", moved.asked.repeated, RepeatActive(moved)
                 PROVE  moved.asked.dir = moved.joy.dir
      OBVIOUS
    <2>1. m.request = "get" /\ moved.asked = m.asked
      BY <1>1, <1>11 DEF SameElse, SameRequest
    <2>2. RepeatActive(m) /\ m.asked.dir = m.joy.dir
      BY <1>2, <2>1 DEF Held
    <2>3. m.joy.dir # 0
      BY <1>2, <2>2 DEF RepeatActive, Nodes, Positions, Controls
    <2>4. moved.joy.dir # 0
      BY <1>11 DEF RepeatActive, Nodes, Positions, Controls
    <2> QED
      BY <1>11, <2>1, <2>2, <2>3, <2>4
  <1>15. moved.jogReady => ~ (Pressed(moved, "plus") /\ Pressed(moved, "minus"))
    <2>1. moved.at["plus"] = m.at["plus"] /\ moved.at["minus"] = m.at["minus"]
      BY <1>1, <1>11, Distinct DEF SameInput, Nodes, Positions, JogButtons, Buttons
    <2>2. moved.jogReady = m.jogReady
      BY <1>1, <1>11 DEF SameJog, SameElse
    <2> QED
      BY <1>2, <2>1, <2>2 DEF Held, Pressed
  <1>16. moved.action # NoStep => moved.action.coord = moved.joy.coord /\ ~ moved.action.repeated
    BY <1>1, <1>2, <1>11 DEF Held, SameElse, SameRequest
  <1>17. moved.request = "get" => moved.asked.coord = moved.joy.coord
    BY <1>1, <1>2, <1>11 DEF Held, SameElse, SameRequest
  <1>18. CASE ~RepeatActive(moved) /\ moved.request = "get" /\ moved.asked.repeated
    <2>1. r = CancelAdjustment(moved)
      BY <1>18
    <2> HIDE DEF r
    <2>2. /\ r \in Nodes /\ r.joy = moved.joy
          /\ SameInput(moved, r) /\ SameStage(moved, r) /\ SameDrive(moved, r)
          /\ SameJog(moved, r)
          /\ ~ Busy(r) /\ r.action = NoStep /\ SameModes(moved, r)
      BY <1>11, <2>1, CancelFields
    <2>3. Owned(r) /\ Fresh(r, R)
      BY <1>12, <2>2
      DEF Owned, Fresh, NoArm, SameInput, SameStage, SameDrive, SameJog, SameModes
    <2>4. Held(r)
      BY <1>11, <1>15, <2>2 DEF Held, Busy, Pressed, SameInput, SameJog
    <2>5. Handled(m, e, r)
      BY <1>13, <2>2 DEF Handled, Busy, SameInput, SameStage, SameDrive, SameJog
    <2> QED
      BY <1>3, <2>3, <2>4, <2>5 DEF Sound
  <1>19. CASE ~ (~RepeatActive(moved) /\ moved.request = "get" /\ moved.asked.repeated)
    <2>1. r = moved
      BY <1>19
    <2> HIDE DEF r
    <2>2. Held(moved)
      BY <1>11, <1>14, <1>15, <1>16, <1>17, <1>19 DEF Held
    <2> QED
      BY <1>3, <1>12, <1>13, <2>1, <2>2 DEF Sound
  <1> QED
    BY <1>18, <1>19

\* A step that is not submitted does not follow the selection.
LEMMA SelectEventSound ==
    ASSUME NEW R, NEW m \in Nodes, Sound(m, R), NEW e \in Changes, e.val = 0 => e.ctl \in R,
           e.ctl \in {"previous", "next"}
    PROVE  Sound(SelectEvent(m, e), R) /\ Handled(m, e, SelectEvent(m, e))
  <1> DEFINE o == Observed(m, e)
             x == SuspendRepeat(o)
             chosen == IF e.ctl = "previous" THEN PreviousCoordinate(m.joy.coord)
                                             ELSE NextCoordinate(m.joy.coord)
             q == x.joy.ready /\ Neutral(m.at["step"])
             j == [x.joy EXCEPT !.coord = chosen, !.ready = q]
             y == [x EXCEPT !.joy = j]
             selected == [y EXCEPT !.action = NoStep]
             cond == m.joy.armed /\ e.val # 0 /\ ~Pressed(m, e.ctl)
             r == IF ~ cond THEN o
                  ELSE IF m.request = "get" THEN CancelAdjustment(selected) ELSE selected
  <1>1. /\ o \in Nodes /\ o.at = [m.at EXCEPT ![e.ctl] = e.val]
        /\ o.joy = m.joy /\ SameElse(m, o) /\ Owned(o) /\ Fresh(o, R)
    BY ObservedFields
  <1>2. Held(o)
    BY ObservedFields DEF JogButtons
  <1>3. chosen \in Coordinates
    <2>1. m.joy.coord \in 0..2
      BY DEF Nodes, Node, Joy, Coordinates
    <2> QED
      BY <2>1 DEF Coordinates, PreviousCoordinate, NextCoordinate
  <1> HIDE DEF o
  <1>4. /\ x \in Nodes /\ x.joy = [o.joy EXCEPT !.dir = 0]
        /\ SameInput(o, x) /\ SameStage(o, x) /\ SameDrive(o, x) /\ SameJog(o, x)
        /\ SameRequest(o, x) /\ SameModes(o, x)
    BY <1>1, SuspendFields
  <1>5. x.joy \in Joy /\ x.joy.dir = 0
    BY <1>1, <1>4 DEF Nodes, Node, Joy
  <1>6. q \in BOOLEAN
    BY <1>5 DEF Joy
  <1>7. SelectEvent(m, e) = r
    <2>1. selected = [x EXCEPT !.joy.coord = chosen,
                               !.joy.ready = @ /\ Neutral(m.at["step"]), !.action = NoStep]
      <3> HIDE DEF x, chosen
      <3> QED
        BY <1>4, <1>5 DEF Nodes, Node, Joy
    <2> HIDE DEF selected
    <2>2. CASE cond
      BY <2>1, <2>2 DEF SelectEvent, x, o
    <2>3. CASE ~ cond
      BY <2>3 DEF SelectEvent, o
    <2> QED
      BY <2>2, <2>3
  <1> HIDE DEF x, chosen, q
  <1>8. j \in Joy /\ j.dir = 0
    BY <1>3, <1>5, <1>6 DEF Joy
  <1> HIDE DEF j
  <1>9. /\ y \in Nodes /\ y.joy = j
        /\ SameInput(x, y) /\ SameStage(x, y) /\ SameDrive(x, y) /\ SameJog(x, y)
        /\ SameRequest(x, y) /\ SameModes(x, y)
    BY <1>4, <1>8, LeverFields
  <1> HIDE DEF y
  <1>10. /\ selected \in Nodes /\ selected.joy = y.joy /\ selected.action = NoStep
         /\ SameInput(y, selected) /\ SameStage(y, selected) /\ SameDrive(y, selected)
         /\ SameJog(y, selected) /\ SameModes(y, selected) /\ selected.request = y.request
    BY <1>9, NoStepIsStep
    DEF Nodes, Node, SameInput, SameStage, SameDrive, SameJog, SameModes
  <1> HIDE DEF selected
  <1>11. /\ SameInput(o, selected) /\ SameStage(o, selected) /\ SameDrive(o, selected)
         /\ SameJog(o, selected) /\ SameModes(o, selected) /\ selected.joy.dir = 0
         /\ selected.request = o.request
    BY <1>4, <1>8, <1>9, <1>10
    DEF SameInput, SameStage, SameDrive, SameJog, SameModes, SameRequest
  <1>12. m.request = o.request /\ SameStage(m, o) /\ SameDrive(m, o) /\ SameJog(m, o)
    BY <1>1 DEF SameElse, SameRequest
  <1>13. CASE ~ cond
    <2>1. r = o
      BY <1>13
    <2> HIDE DEF r
    <2>2. Handled(m, e, o)
      BY <1>1, <1>12 DEF Handled, SameStage, SameDrive, SameJog
    <2> QED
      BY <1>1, <1>2, <1>7, <2>1, <2>2 DEF Sound
  <1>14. CASE cond /\ m.request = "get"
    <2>1. r = CancelAdjustment(selected)
      BY <1>14
    <2> HIDE DEF r
    <2>2. /\ r \in Nodes /\ r.joy = selected.joy
          /\ SameInput(selected, r) /\ SameStage(selected, r) /\ SameDrive(selected, r)
          /\ SameJog(selected, r)
          /\ ~ Busy(r) /\ r.action = NoStep /\ SameModes(selected, r)
      BY <1>10, <2>1, CancelFields
    <2>3. Owned(r) /\ Fresh(r, R)
      BY <1>1, <1>11, <2>2
      DEF Owned, Fresh, NoArm, SameInput, SameStage, SameDrive, SameJog, SameModes
    <2>4. Held(r)
      BY <1>2, <1>11, <2>2 DEF Held, Busy, Pressed, SameInput, SameJog
    <2>5. Handled(m, e, r)
      BY <1>1, <1>11, <1>12, <2>2 DEF Handled, Busy, SameInput, SameStage, SameDrive, SameJog
    <2> QED
      BY <1>7, <2>3, <2>4, <2>5 DEF Sound
  <1>15. CASE cond /\ m.request # "get"
    <2>1. r = selected
      BY <1>15
    <2> HIDE DEF r
    <2>2. r.request # "get"
      BY <1>11, <1>12, <1>15, <2>1
    <2>3. Owned(r) /\ Fresh(r, R)
      BY <1>1, <1>10, <1>11, <2>1
      DEF Owned, Fresh, NoArm, Busy, SameInput, SameStage, SameDrive, SameJog, SameModes
    <2>4. Held(r)
      BY <1>2, <1>10, <1>11, <2>1, <2>2 DEF Held, Pressed, SameInput, SameJog
    <2>5. Handled(m, e, r)
      BY <1>1, <1>10, <1>11, <1>12, <2>1 DEF Handled, SameInput, SameStage, SameDrive, SameJog
    <2> QED
      BY <1>7, <2>3, <2>4, <2>5 DEF Sound
  <1> QED
    BY <1>13, <1>14, <1>15

\* Tracking is toggled by a button that was seen released.
LEMMA TrackingEventSound ==
    ASSUME NEW R, NEW m \in Nodes, Sound(m, R), NEW e \in Changes, e.val = 0 => e.ctl \in R,
           e.ctl = "tracking"
    PROVE  Sound(TrackingEvent(m, e), R) /\ Handled(m, e, TrackingEvent(m, e))
  <1> DEFINE o == Observed(m, e)
             press == /\ e.val # 0 /\ ~Pressed(m, "tracking")
                      /\ "tracking" \in m.released /\ ~StartupPending(m)
             t == IF press THEN ~ o.toggle ELSE o.toggle
             rel == MarkReleased(o.released, "tracking", e.val)
             r == [o EXCEPT !.released = rel, !.toggle = t]
  <1>1. /\ o \in Nodes /\ o.at = [m.at EXCEPT ![e.ctl] = e.val]
        /\ o.joy = m.joy /\ o.released = m.released
        /\ SameElse(m, o) /\ Owned(o) /\ Fresh(o, R)
    BY ObservedFields
  <1>2. Held(o)
    BY ObservedFields DEF JogButtons
  <1>3. TrackingEvent(m, e) = r
    BY <1>1 DEF TrackingEvent, Nodes, Node
  <1> HIDE DEF o
  <1>4. t \in BOOLEAN /\ (t => o.toggle \/ "tracking" \in R)
    BY <1>1 DEF Nodes, Node, Sound, Fresh
  <1>5. rel \in SUBSET Buttons /\ rel \subseteq R
    BY <1>1 DEF Nodes, Node, Fresh, MarkReleased, Buttons
  <1> HIDE DEF t, rel
  <1>6. /\ r \in Nodes /\ r.at = o.at /\ r.seen = o.seen /\ r.released = rel
        /\ r.joy = o.joy /\ SameStage(o, r) /\ SameDrive(o, r) /\ SameJog(o, r)
        /\ SameRequest(o, r) /\ r.armed = o.armed /\ r.tracking = o.tracking /\ r.toggle = t
    BY <1>1, <1>4, <1>5
    DEF Nodes, Node, SameStage, SameDrive, SameJog, SameRequest
  <1> HIDE DEF r
  <1>7. Owned(r) /\ Fresh(r, R)
    BY <1>1, <1>4, <1>5, <1>6
    DEF Owned, Fresh, NoArm, Busy, SameStage, SameDrive, SameJog, SameRequest
  <1>8. Held(r)
    BY <1>2, <1>6 DEF Held, RepeatActive, Pressed, SameJog, SameRequest
  <1>9. Handled(m, e, r)
    BY <1>1, <1>6 DEF Handled, SameElse, SameStage, SameDrive, SameJog, SameRequest
  <1> QED
    BY <1>3, <1>7, <1>8, <1>9 DEF Sound

\* Both jog buttons together end a jog.
LEMMA JogEventSound ==
    ASSUME NEW R, NEW m \in Nodes, Sound(m, R), NEW e \in Changes, e.val = 0 => e.ctl \in R,
           e.ctl \in JogButtons, pose \in BOOLEAN
    PROVE  Sound(JogEvent(m, e), R) /\ Handled(m, e, JogEvent(m, e))
  <1> DEFINE o == Observed(m, e)
             r == JogEvent(m, e)
             both == Pressed(o, "plus") /\ Pressed(o, "minus")
  <1>1. /\ o \in Nodes /\ o.at = [m.at EXCEPT ![e.ctl] = e.val]
        /\ o.joy = m.joy /\ SameElse(m, o) /\ Owned(o) /\ Fresh(o, R)
    BY ObservedFields
  <1>2. r = IF both THEN UpdateJog(o, FALSE) ELSE o
    BY DEF JogEvent, JogButtons
  <1>3. /\ o.action # NoStep => o.action.coord = o.joy.coord /\ ~ o.action.repeated
        /\ o.request = "get" =>
              /\ o.asked.coord = o.joy.coord
              /\ o.asked.repeated => RepeatActive(o) /\ o.asked.dir = o.joy.dir
        /\ o.joy.dir # 0 => o.joy.armed /\ ~ o.joy.ready
    <2>1. o.at["step"] = m.at["step"]
      BY <1>1, Distinct DEF Nodes, Positions, JogButtons
    <2>2. RepeatActive(o) <=> RepeatActive(m)
      BY <1>1, <2>1 DEF RepeatActive
    <2> QED
      BY <1>1, <2>2 DEF Sound, Held, SameElse, SameRequest
  <1> HIDE DEF o
  <1>4. CASE both
    <2>1. r = UpdateJog(o, FALSE)
      BY <1>2, <1>4
    <2> HIDE DEF r
    <2>2. /\ r \in Nodes /\ r.joy = o.joy
          /\ SameInput(o, r) /\ SameStage(o, r) /\ SameDrive(o, r) /\ SameRequest(o, r)
          /\ SameModes(o, r) /\ ~ r.jogReady /\ r.jog = 0
      BY <1>1, <2>1, JogFields DEF Nodes, Node
    <2>3. Owned(r) /\ Fresh(r, R)
      BY <1>1, <2>2
      DEF Owned, Fresh, NoArm, Busy, SameInput, SameStage, SameDrive, SameRequest, SameModes
    <2>4. Held(r)
      BY <1>3, <2>2 DEF Held, RepeatActive, SameInput, SameRequest
    <2>5. Handled(m, e, r)
      BY <1>1, <2>2 DEF Handled, SameElse, SameInput, SameStage, SameDrive, SameRequest
    <2> QED
      BY <2>3, <2>4, <2>5 DEF Sound, r
  <1>5. CASE ~ both
    <2>1. Held(o)
      BY <1>3, <1>5 DEF Held
    <2>2. Handled(m, e, o)
      BY <1>1 DEF Handled, SameElse, SameStage, SameDrive, SameJog, SameRequest
    <2> QED
      BY <1>1, <1>2, <1>5, <2>1, <2>2 DEF Sound
  <1> QED
    BY <1>4, <1>5

LEMMA StopEventSound ==
    ASSUME NEW R, NEW m \in Nodes, Sound(m, R), NEW e \in Changes, e.val = 0 => e.ctl \in R,
           e.ctl = "stop", pose \in BOOLEAN
    PROVE  Sound(StopEvent(m, e), R) /\ Handled(m, e, StopEvent(m, e))
  <1> DEFINE o == Observed(m, e)
             r == Stopped(o)
  <1>1. /\ o \in Nodes /\ o.at = [m.at EXCEPT ![e.ctl] = e.val]
        /\ SameElse(m, o) /\ Owned(o) /\ Fresh(o, R)
    BY ObservedFields
  <1>2. Held(o)
    BY ObservedFields DEF JogButtons
  <1>3. StopEvent(m, e) = IF e.val # 0 THEN r ELSE o
    BY DEF StopEvent
  <1> HIDE DEF o
  <1>4. /\ r \in Nodes /\ Rests(r) /\ r.armed = o.armed
        /\ SameInput(o, r) /\ SameStage(o, r) /\ SameDrive(o, r)
    BY <1>1, StoppedFields
  <1> HIDE DEF r
  <1>5. Sound(r, R)
    BY <1>1, <1>4, RestIsSound DEF SameStage
  <1>6. Handled(m, e, r)
    BY <1>1, <1>4
    DEF Handled, Rests, NoArm, Busy, SameElse, SameInput, SameStage, SameDrive
  <1>7. Handled(m, e, o)
    BY <1>1 DEF Handled, SameElse, SameStage, SameDrive, SameJog, SameRequest
  <1> QED
    BY <1>1, <1>2, <1>3, <1>5, <1>6, <1>7 DEF Sound

\* A node that differs from o in its stage, dead or alive, and in what it saw
\* released.
LEMMA StageKeepsHeld ==
    ASSUME NEW o \in Nodes, NEW r \in Nodes, Held(o), r.at = o.at, r.joy = o.joy,
           SameJog(o, r), SameRequest(o, r)
    PROVE  Held(r)
  BY DEF Held, RepeatActive, Pressed, SameJog, SameRequest

LEMMA EmergencyEventSound ==
    ASSUME NEW R, NEW m \in Nodes, Sound(m, R), NEW e \in Changes, e.val = 0 => e.ctl \in R,
           e.ctl = "emergency", pose \in BOOLEAN
    PROVE  Sound(EmergencyEvent(m, e), R) /\ Handled(m, e, EmergencyEvent(m, e))
  <1> DEFINE o == Observed(m, e)
             r == EmergencyStop(o)
             rel == MarkReleased(o.released, "emergency", e.val)
             s == [o EXCEPT !.released = rel]
  <1>1. /\ o \in Nodes /\ o.at = [m.at EXCEPT ![e.ctl] = e.val]
        /\ SameElse(m, o) /\ Owned(o) /\ Fresh(o, R)
    BY ObservedFields
  <1>2. Held(o)
    BY ObservedFields DEF JogButtons
  <1>3. EmergencyEvent(m, e) \in {r, s, o}
    <2>1. CASE e.val # 0
      BY <2>1 DEF EmergencyEvent
    <2>2. CASE e.val = 0 /\ m.stage = "waiting"
      BY <2>2 DEF EmergencyEvent
    <2>3. CASE e.val = 0 /\ m.stage # "waiting"
      BY <2>3 DEF EmergencyEvent
    <2> QED
      BY <2>1, <2>2, <2>3
  <1> HIDE DEF o
  <1>4. /\ r \in Nodes /\ Rests(r) /\ ~ r.moving /\ ~ r.filtered
        /\ ~ r.alive /\ r.stage = o.stage /\ r.armed = o.armed
        /\ SameInput(o, r)
    BY <1>1, EmergencyFields
  <1> HIDE DEF r
  <1>5. Sound(r, R)
    BY <1>1, <1>4, RestIsSound
  <1>6. Handled(m, e, r)
    BY <1>1, <1>4
    DEF Handled, Rests, NoArm, Busy, SameElse, SameInput, SameStage, SameDrive
  <1>7. Handled(m, e, o)
    BY <1>1 DEF Handled, SameElse, SameStage, SameDrive, SameJog, SameRequest
  <1>8. rel \in SUBSET Buttons /\ rel \subseteq R
    BY <1>1 DEF Nodes, Node, Fresh, MarkReleased, Buttons
  <1> HIDE DEF rel
  <1>9. /\ s \in Nodes /\ s.at = o.at /\ s.seen = o.seen /\ s.released = rel
        /\ s.joy = o.joy /\ SameElse(o, s)
    BY <1>1, <1>8
    DEF Nodes, Node, SameElse, SameStage, SameDrive, SameJog, SameRequest, SameModes
  <1> HIDE DEF s
  <1>10. Owned(s) /\ Fresh(s, R)
    BY <1>1, <1>8, <1>9
    DEF Owned, Fresh, NoArm, Busy, SameElse, SameStage, SameDrive, SameJog, SameRequest, SameModes
  <1>11. Held(s)
    BY <1>1, <1>2, <1>9, StageKeepsHeld DEF SameElse
  <1>12. Handled(m, e, s)
    BY <1>1, <1>9 DEF Handled, SameElse, SameStage, SameDrive, SameJog, SameRequest
  <1> QED
    BY <1>1, <1>2, <1>3, <1>5, <1>6, <1>7, <1>10, <1>11, <1>12 DEF Sound

\* The start is requested by a button that was seen released.
LEMMA StartEventSound ==
    ASSUME NEW R, NEW m \in Nodes, Sound(m, R), NEW e \in Changes, e.val = 0 => e.ctl \in R,
           e.ctl = "start"
    PROVE  Sound(StartEvent(m, e), R) /\ Handled(m, e, StartEvent(m, e))
  <1> DEFINE o == Observed(m, e)
             rel == MarkReleased(o.released, "start", e.val)
             press == e.val # 0 /\ {"start", "emergency"} \subseteq m.released
             stage == IF press THEN "requested" ELSE o.stage
             s == [o EXCEPT !.released = rel, !.stage = stage]
  <1>1. /\ o \in Nodes /\ o.at = [m.at EXCEPT ![e.ctl] = e.val] /\ o.released = m.released
        /\ SameElse(m, o) /\ Owned(o) /\ Fresh(o, R)
    BY ObservedFields
  <1>2. Held(o)
    BY ObservedFields DEF JogButtons
  <1>3. StartEvent(m, e) = IF m.stage = "waiting" THEN s ELSE o
    BY <1>1 DEF StartEvent, Nodes, Node
  <1>4. o.stage = m.stage
    BY <1>1 DEF SameElse, SameStage
  <1> HIDE DEF o
  <1>7. Handled(m, e, o)
    BY <1>1 DEF Handled, SameElse, SameStage, SameDrive, SameJog, SameRequest
  <1>8. rel \in SUBSET Buttons /\ rel \subseteq R
    BY <1>1 DEF Nodes, Node, Fresh, MarkReleased, Buttons
  <1>13. /\ stage = o.stage \/ (stage = "requested" /\ {"start", "emergency"} \subseteq R)
         /\ stage \in {"waiting", "requested", "starting", "running"}
    <2>1. press => {"start", "emergency"} \subseteq R
      BY <1>1 DEF Fresh
    <2>2. o.stage \in {"waiting", "requested", "starting", "running"}
      BY <1>1 DEF Nodes, Node
    <2>3. CASE press
      BY <2>1, <2>3
    <2>4. CASE ~ press
      BY <2>2, <2>4
    <2> QED
      BY <2>3, <2>4
  <1> HIDE DEF rel, stage
  <1>5. CASE m.stage = "waiting"
    <2>9. /\ s \in Nodes /\ s.at = o.at /\ s.seen = o.seen /\ s.released = rel
          /\ s.stage = stage /\ s.alive = o.alive
          /\ s.joy = o.joy /\ SameDrive(o, s) /\ SameJog(o, s) /\ SameRequest(o, s)
          /\ SameModes(o, s)
      BY <1>1, <1>8, <1>13
      DEF Nodes, Node, SameDrive, SameJog, SameRequest, SameModes
    <2> HIDE DEF s
    <2>10. Owned(s) /\ Fresh(s, R)
      BY <1>1, <1>4, <1>5, <1>8, <1>13, <2>9
      DEF Owned, Fresh, NoArm, Busy, SameDrive, SameJog, SameRequest, SameModes
    <2>11. Held(s)
      BY <1>1, <1>2, <2>9, StageKeepsHeld
    <2>12. Handled(m, e, s)
      BY <1>1, <1>5, <2>9 DEF Handled, SameElse, SameStage, SameDrive, SameJog, SameRequest
    <2> QED
      BY <1>3, <1>5, <2>10, <2>11, <2>12 DEF Sound
  <1>6. CASE m.stage # "waiting"
    BY <1>1, <1>2, <1>3, <1>6, <1>7 DEF Sound
  <1> QED
    BY <1>5, <1>6

\* Whatever the event, the node stays sound and begins nothing.
LEMMA HandleEventSound ==
    ASSUME NEW R, NEW m \in Nodes, Sound(m, R), NEW e \in Changes, e.val = 0 => e.ctl \in R,
           pose \in BOOLEAN
    PROVE  Sound(HandleEvent(m, e), R) /\ Handled(m, e, HandleEvent(m, e))
  <1>0. e.ctl \in Controls
    BY DEF Changes
  <1>1. CASE e.ctl \in Axes
    <2> DEFINE o == Observed(m, e)
    <2>1. HandleEvent(m, e) = o
      BY <1>1, Distinct DEF HandleEvent, Buttons, JogButtons
    <2>2. e.ctl \notin JogButtons \cup {"step"}
      BY <1>1, Distinct DEF Buttons
    <2>3. /\ o \in Nodes /\ o.at = [m.at EXCEPT ![e.ctl] = e.val]
          /\ SameElse(m, o) /\ Owned(o) /\ Fresh(o, R) /\ Held(o)
      BY <2>2, ObservedFields
    <2> HIDE DEF o
    <2>4. Handled(m, e, o)
      BY <2>3 DEF Handled, SameElse, SameStage, SameDrive, SameJog, SameRequest
    <2> QED
      BY <2>1, <2>3, <2>4 DEF Sound
  <1>2. CASE e.ctl = "step"
    <2>1. HandleEvent(m, e) = StepEvent(m, e)
      BY <1>2, Distinct DEF HandleEvent, Buttons, JogButtons
    <2> QED
      BY <1>2, <2>1, StepEventSound
  <1>3. CASE e.ctl \in {"previous", "next"}
    <2>1. HandleEvent(m, e) = SelectEvent(m, e)
      BY <1>3, Distinct DEF HandleEvent, Buttons, JogButtons
    <2> QED
      BY <1>3, <2>1, SelectEventSound
  <1>4. CASE e.ctl = "tracking"
    <2>1. HandleEvent(m, e) = TrackingEvent(m, e)
      BY <1>4, Distinct DEF HandleEvent, Buttons, JogButtons
    <2> QED
      BY <1>4, <2>1, TrackingEventSound
  <1>5. CASE e.ctl \in JogButtons
    <2>1. HandleEvent(m, e) = JogEvent(m, e)
      BY <1>5, Distinct DEF HandleEvent, Buttons, JogButtons
    <2> QED
      BY <1>5, <2>1, JogEventSound
  <1>6. CASE e.ctl = "stop"
    <2>1. HandleEvent(m, e) = StopEvent(m, e)
      BY <1>6, Distinct DEF HandleEvent, Buttons, JogButtons
    <2> QED
      BY <1>6, <2>1, StopEventSound
  <1>7. CASE e.ctl = "emergency"
    <2>1. HandleEvent(m, e) = EmergencyEvent(m, e)
      BY <1>7, Distinct DEF HandleEvent, Buttons, JogButtons
    <2> QED
      BY <1>7, <2>1, EmergencyEventSound
  <1>8. CASE e.ctl = "start"
    <2>1. HandleEvent(m, e) = StartEvent(m, e)
      BY <1>8, Distinct DEF HandleEvent, Buttons, JogButtons
    <2> QED
      BY <1>8, <2>1, StartEventSound
  <1> QED
    BY <1>0, <1>1, <1>2, <1>3, <1>4, <1>5, <1>6, <1>7, <1>8 DEF Controls, Buttons

\* The first read after an open takes the controls as they are and cancels all.
LEMMA HandleInitSound ==
    ASSUME NEW R, NEW m \in Nodes, Sound(m, R), NEW values \in Positions,
           \A c \in Controls : values[c] = 0 => c \in R, pose \in BOOLEAN
    PROVE  LET r == HandleInit(m, values)
           IN  /\ r \in Nodes /\ Sound(r, R) /\ Rests(r) /\ r.at = values
               /\ r.moving => m.moving
               /\ r.filtered => m.filtered
               /\ r.alive => m.alive
               /\ r.stage = m.stage
  <1> DEFINE watched == IF m.stage = "waiting" THEN {"start", "emergency", "tracking"}
                        ELSE {"tracking"}
             rel == {b \in watched : values[b] = 0}
             o == [m EXCEPT !.at = values, !.seen = Controls, !.released = rel]
             r == HandleInit(m, values)
  <1>1. rel \in SUBSET Buttons /\ rel \subseteq R
    BY Distinct DEF Buttons
  <1>2. r = IF Pressed(o, "emergency") THEN EmergencyStop(o) ELSE Stopped(o)
    BY DEF HandleInit
  <1> HIDE DEF rel, r
  <1>3. /\ o \in Nodes /\ o.at = values /\ o.seen = Controls /\ o.released = rel
        /\ SameElse(m, o)
    BY <1>1
    DEF Nodes, Node, Positions, SameElse, SameStage, SameDrive, SameJog, SameRequest, SameModes
  <1> HIDE DEF o
  <1>4. Owned(o) /\ Fresh(o, R)
    BY <1>1, <1>3
    DEF Sound, Owned, Fresh, NoArm, Busy, SameElse, SameStage, SameDrive, SameJog, SameRequest,
        SameModes
  <1>5. CASE Pressed(o, "emergency")
    <2>1. /\ r \in Nodes /\ Rests(r) /\ ~ r.moving /\ ~ r.filtered
          /\ ~ r.alive /\ r.stage = o.stage /\ r.armed = o.armed
          /\ SameInput(o, r)
      BY <1>2, <1>3, <1>5, EmergencyFields
    <2>2. Sound(r, R)
      BY <1>3, <1>4, <2>1, RestIsSound
    <2> QED
      BY <1>3, <2>1, <2>2 DEF SameInput, SameElse, SameStage, r
  <1>6. CASE ~ Pressed(o, "emergency")
    <2>1. /\ r \in Nodes /\ Rests(r) /\ r.armed = o.armed
          /\ SameInput(o, r) /\ SameStage(o, r) /\ SameDrive(o, r)
      BY <1>2, <1>3, <1>6, StoppedFields
    <2>2. Sound(r, R)
      BY <1>3, <1>4, <2>1, RestIsSound DEF SameStage
    <2> QED
      BY <1>3, <2>1, <2>2 DEF SameInput, SameElse, SameStage, SameDrive, r
  <1> QED
    BY <1>5, <1>6

------------------------------------------------------------------------------
(* What follows the events of a tick *)

\* A node is armed once everything was seen at rest.
LEMMA ArmedFields ==
    ASSUME NEW R, NEW m \in Nodes, Sound(m, R), m.stage = "running"
    PROVE  LET r == Armed(m)
           IN  /\ r \in Nodes /\ Sound(r, R) /\ r.joy = m.joy
               /\ SameInput(m, r) /\ SameStage(m, r) /\ SameDrive(m, r) /\ SameJog(m, r)
               /\ SameRequest(m, r) /\ r.tracking = m.tracking
  <1> DEFINE a == m.armed \/ (Axes \subseteq m.seen /\ Centred(m) /\ NeutralReady(m))
             r == [m EXCEPT !.armed = a]
  <1>1. a \in BOOLEAN
    BY DEF Nodes, Node
  <1>2. m.armed => a
    OBVIOUS
  <1>3. a => Axes \cup StepControls \subseteq R
    BY DEF Sound, Fresh, Centred, NeutralReady, Neutral
  <1>4. Armed(m) = r
    BY DEF Armed, Nodes, Node
  <1> HIDE DEF a
  <1>5. /\ r \in Nodes /\ r.joy = m.joy /\ r.armed = a
        /\ SameInput(m, r) /\ SameStage(m, r) /\ SameDrive(m, r) /\ SameJog(m, r)
        /\ SameRequest(m, r) /\ r.tracking = m.tracking /\ r.toggle = m.toggle
    BY <1>1
    DEF Nodes, Node, SameInput, SameStage, SameDrive, SameJog, SameRequest
  <1> HIDE DEF r
  <1>6. Owned(r) /\ Fresh(r, R)
    BY <1>2, <1>3, <1>5
    DEF Sound, Owned, Fresh, NoArm, Busy, SameInput, SameStage, SameDrive, SameJog, SameRequest
  <1>7. Held(r)
    BY <1>5, StageKeepsHeld DEF Sound, SameInput
  <1> QED
    BY <1>4, <1>5, <1>6, <1>7 DEF Sound

LEMMA JogSound ==
    ASSUME NEW R, NEW m \in Nodes, Sound(m, R), pose \in BOOLEAN
    PROVE  LET r == UpdateJog(m, TRUE)
           IN  /\ r \in Nodes /\ Sound(r, R) /\ r.joy = m.joy
               /\ SameInput(m, r) /\ SameStage(m, r) /\ SameDrive(m, r) /\ SameModes(m, r)
               /\ SameRequest(m, r)
               /\ r.jog # 0 => r.jogReady /\ r.jog = m.at["plus"] - m.at["minus"]
               /\ r.jogReady /\ ~ m.jogReady => \A b \in JogButtons : m.at[b] = 0
  <1> DEFINE r == UpdateJog(m, TRUE)
  <1>1. /\ r \in Nodes
        /\ r.joy = m.joy
        /\ SameInput(m, r) /\ SameStage(m, r) /\ SameDrive(m, r) /\ SameRequest(m, r)
        /\ SameModes(m, r)
        /\ r.jog # 0 => r.jogReady /\ r.jog = m.at["plus"] - m.at["minus"]
        /\ r.jogReady => ~ (Pressed(m, "plus") /\ Pressed(m, "minus"))
        /\ r.jogReady /\ ~ m.jogReady =>
              JogButtons \subseteq m.seen /\ ~ Pressed(m, "plus") /\ ~ Pressed(m, "minus")
    BY JogFields
  <1> HIDE DEF r
  <1>2. r.jogReady /\ ~ m.jogReady => \A b \in JogButtons : b \in m.seen /\ m.at[b] = 0
    BY <1>1 DEF Pressed, JogButtons
  <1>3. r.jogReady \/ r.jog # 0 => JogButtons \subseteq R
    BY <1>1, <1>2 DEF Sound, Fresh
  <1>4. Owned(r) /\ Fresh(r, R)
    BY <1>1, <1>3
    DEF Sound, Owned, Fresh, NoArm, Busy, SameInput, SameStage, SameDrive, SameModes, SameRequest
  <1>5. Held(r)
    BY <1>1 DEF Sound, Held, RepeatActive, Pressed, SameInput, SameRequest
  <1> QED
    BY <1>1, <1>2, <1>4, <1>5 DEF Sound, r

\* Tracking is given up, or was not there.
LEMMA CancelTrackingSound ==
    ASSUME NEW R, NEW m \in Nodes, Sound(m, R)
    PROVE  LET r == CancelTracking(m)
           IN  /\ r \in Nodes /\ Sound(r, R) /\ ~ r.tracking /\ r.armed = m.armed
               /\ SameInput(m, r) /\ SameStage(m, r) /\ SameDrive(m, r) /\ SameJog(m, r)
               /\ r.request = "set" => m.request = "set"
               /\ NoArm(m) => NoArm(r)
  <1> DEFINE r == CancelTracking(m)
  <1>1. /\ r \in Nodes
        /\ ~ r.tracking /\ ~ r.toggle /\ r.armed = m.armed
        /\ SameInput(m, r) /\ SameStage(m, r) /\ SameDrive(m, r) /\ SameJog(m, r)
        /\ ~ m.tracking => r.joy = m.joy /\ SameRequest(m, r)
        /\ m.tracking => JoyOff(r) /\ r.joy.coord = m.joy.coord /\ NoArm(r)
    BY TrackingFields DEF CancelTracking, Nodes, Node
  <1> HIDE DEF r
  <1>2. Owned(r) /\ Fresh(r, R)
    BY <1>1
    DEF Sound, Owned, Fresh, NoArm, Busy, SameInput, SameStage, SameDrive, SameJog, SameRequest
  <1>3. CASE m.tracking
    <2>1. Held(r)
      BY <1>1, <1>3
      DEF Sound, Held, JoyOff, NoArm, Busy, Pressed, SameInput, SameJog
    <2> QED
      BY <1>1, <1>2, <1>3, <2>1 DEF Sound, r, NoArm, Busy
  <1>4. CASE ~ m.tracking
    <2>1. Held(r)
      BY <1>1, <1>4, StageKeepsHeld DEF Sound, SameInput
    <2> QED
      BY <1>1, <1>2, <1>4, <2>1 DEF Sound, r, NoArm, Busy, SameRequest
  <1> QED
    BY <1>3, <1>4

\* The toggle, and a stick moved while tracking.
LEMMA ToggleSound ==
    ASSUME NEW R, NEW m \in Nodes, Sound(m, R), m.armed, m.alive
    PROVE  LET r == ToggleTracking(m)
           IN  /\ r \in Nodes /\ Sound(r, R) /\ r.armed
               /\ SameInput(m, r) /\ SameStage(m, r) /\ SameJog(m, r)
               /\ r.moving => m.moving
               /\ r.filtered => m.filtered
               /\ r.request = "set" => m.request = "set"
  <1> DEFINE r == ToggleTracking(m)
  <1>1. CASE ~ m.toggle
    <2>1. r = m
      BY <1>1 DEF ToggleTracking
    <2> QED
      BY <2>1 DEF SameInput, SameStage, SameJog
  <1>2. CASE m.toggle /\ (m.tracking \/ ~ Centred(m))
    <2>1. r = CancelTracking(m)
      BY <1>2 DEF ToggleTracking
    <2> QED
      BY <2>1, CancelTrackingSound DEF SameDrive
  <1>3. CASE m.toggle /\ ~ m.tracking /\ Centred(m)
    <2> DEFINE a == SetTracking(m, TRUE)
               z == PublishZero(a)
    <2>1. r = z
      BY <1>3 DEF ToggleTracking
    <2>2. /\ a \in Nodes
          /\ a.tracking /\ ~ a.toggle /\ a.armed = m.armed
          /\ SameInput(m, a) /\ SameStage(m, a) /\ SameDrive(m, a) /\ SameJog(m, a)
          /\ JoyOff(a) /\ a.joy.coord = m.joy.coord /\ NoArm(a)
      BY <1>3, TrackingFields DEF Nodes, Node
    <2> HIDE DEF a
    <2>3. /\ z \in Nodes
          /\ ~ z.moving /\ ~ z.filtered
          /\ z.joy = a.joy
          /\ SameInput(a, z) /\ SameStage(a, z) /\ SameJog(a, z)
          /\ SameRequest(a, z) /\ SameModes(a, z)
      BY <2>2, ZeroFields
    <2> HIDE DEF z, r
    <2>4. m.stage = "running"
      BY DEF Sound, Owned
    <2>5. Owned(z)
      BY <2>2, <2>3, <2>4
      DEF Owned, NoArm, Busy, SameStage, SameRequest, SameModes
    <2>6. Fresh(z, R)
      BY <1>3, <2>2, <2>3
      DEF Sound, Fresh, NoArm, Busy, SameInput, SameStage, SameJog, SameRequest, SameModes
    <2>7. Held(z)
      BY <2>2, <2>3
      DEF Sound, Held, JoyOff, NoArm, Busy, Pressed, SameInput, SameJog, SameRequest
    <2> QED
      BY <2>1, <2>2, <2>3, <2>5, <2>6, <2>7
      DEF Sound, NoArm, Busy, SameInput, SameStage, SameJog, SameRequest, SameModes, r
  <1> QED
    BY <1>1, <1>2, <1>3

\* A stick that moves takes the chassis from tracking.
LEMMA InterveneSound ==
    ASSUME NEW R, NEW m \in Nodes, Sound(m, R)
    PROVE  LET r == Intervene(m)
           IN  /\ r \in Nodes /\ Sound(r, R) /\ r.armed = m.armed
               /\ SameInput(m, r) /\ SameStage(m, r) /\ SameDrive(m, r) /\ SameJog(m, r)
               /\ r.request = "set" => m.request = "set"
  <1>1. CASE m.tracking /\ ~ Centred(m)
    BY <1>1, CancelTrackingSound DEF Intervene
  <1>2. CASE ~ (m.tracking /\ ~ Centred(m))
    <2>1. Intervene(m) = m
      BY <1>2 DEF Intervene
    <2> QED
      BY <2>1 DEF SameInput, SameStage, SameDrive, SameJog
  <1> QED
    BY <1>1, <1>2

------------------------------------------------------------------------------
(* The arm's requests *)

\* As Held, but the step may be a repetition, which is consumed at once.
Asking(m) ==
    /\ m.action # NoStep =>
          /\ m.action.coord = m.joy.coord
          /\ m.action.repeated => ~ Busy(m) /\ RepeatActive(m) /\ m.action.dir = m.joy.dir
    /\ m.request = "get" =>
          /\ m.asked.coord = m.joy.coord
          /\ m.asked.repeated => RepeatActive(m) /\ m.asked.dir = m.joy.dir
    /\ m.joy.dir # 0 => m.joy.armed /\ ~ m.joy.ready
    /\ m.jogReady => ~ (Pressed(m, "plus") /\ Pressed(m, "minus"))

\* The request that is sent is still the operator's.
Submits(m) ==
    m.request = "set" =>
        /\ m.asked.coord = m.joy.coord
        /\ m.asked.repeated => RepeatActive(m) /\ m.asked.dir = m.joy.dir

Framed(m, r) ==
    /\ SameInput(m, r) /\ SameStage(m, r) /\ SameDrive(m, r) /\ SameJog(m, r)
    /\ r.armed = m.armed /\ r.tracking = m.tracking /\ r.toggle = m.toggle

\* A node that asks for nothing more than before.
LEMMA AsksLess ==
    ASSUME NEW R, NEW m \in Nodes, NEW r \in Nodes, Owned(m), Fresh(m, R), Framed(m, r),
           Busy(r) => Busy(m), r.action \in {NoStep, m.action}
    PROVE  Owned(r) /\ Fresh(r, R)
  <1>1. NoArm(m) => NoArm(r)
    BY DEF NoArm
  <1> QED
    BY <1>1
    DEF Owned, Fresh, NoArm, Framed, SameInput, SameStage, SameDrive, SameJog

\* A request goes on as it was asked for, and is sent only as the lever is held.
LEMMA AdjustSound ==
    ASSUME NEW R, NEW m \in Nodes, Owned(m), Fresh(m, R), Asking(m), ~ m.tracking,
           NEW late \in BOOLEAN, NEW available \in BOOLEAN, pose \in BOOLEAN
    PROVE  LET r == Adjust(m, late, available)
           IN  r \in Nodes /\ Sound(r, R) /\ Framed(m, r) /\ (Submits(m) => Submits(r))
  <1> DEFINE r == Adjust(m, late, available)
             s == SuspendRepeat(m)
  <1>0. /\ m.request \in {"none", "get", "set"} /\ m.answer \in {"none", "good", "bad"}
        /\ m.action \in Step /\ m.asked \in Step /\ m.joy \in Joy
    BY DEF Nodes, Node
  <1>1. /\ s \in Nodes
        /\ s.joy = [m.joy EXCEPT !.dir = 0]
        /\ SameInput(m, s) /\ SameStage(m, s) /\ SameDrive(m, s) /\ SameJog(m, s)
        /\ SameRequest(m, s) /\ SameModes(m, s)
    BY SuspendFields
  <1>2. s.joy.dir = 0 /\ s.joy.coord = m.joy.coord
    BY <1>0, <1>1 DEF Joy
  <1>3. Framed(m, s) /\ Framed(m, m) /\ Busy(s) = Busy(m)
    BY <1>1
    DEF Framed, SameInput, SameStage, SameDrive, SameJog, SameRequest, SameModes, Busy
  \* cancelled
  <1>4. ASSUME NEW x \in Nodes, x = CancelAdjustment(s)
        PROVE  Sound(x, R) /\ Framed(m, x) /\ Submits(x)
    <2>1. /\ x.joy = s.joy
          /\ SameInput(s, x) /\ SameStage(s, x) /\ SameDrive(s, x) /\ SameJog(s, x)
          /\ ~ Busy(x) /\ x.action = NoStep /\ SameModes(s, x)
      BY <1>1, <1>4, CancelFields
    <2>2. Framed(m, x)
      BY <1>1, <2>1 DEF Framed, SameInput, SameStage, SameDrive, SameJog, SameModes
    <2>3. Owned(x) /\ Fresh(x, R)
      BY <2>1, <2>2, AsksLess
    <2>4. Held(x)
      BY <1>2, <2>1, <2>2 DEF Asking, Held, Busy, Framed, Pressed, SameInput, SameJog
    <2> QED
      BY <2>1, <2>2, <2>3, <2>4 DEF Sound, Submits, Busy
  <1>5. CASE Busy(m) /\ late
    <2>1. r = CancelAdjustment(s)
      BY <1>5 DEF Adjust, Busy
    <2>2. r \in Nodes
      BY <1>1, <2>1, CancelFields
    <2> QED
      BY <1>4, <2>1, <2>2
  <1>6. CASE Busy(m) /\ ~ late /\ m.answer = "none"
    <2>1. r = m
      BY <1>6 DEF Adjust, Busy
    <2>2. Held(m)
      BY <1>6 DEF Asking, Held
    <2> QED
      BY <1>3, <2>1, <2>2 DEF Sound
  <1>7. CASE m.request = "set" /\ ~ late /\ m.answer # "none"
    <2> DEFINE o == NoRequest(m)
               so == SuspendRepeat(o)
    <2>1. r \in {o, so}
      <3>1. CASE m.answer = "good"
        BY <1>7, <3>1 DEF Adjust, Busy
      <3>2. CASE m.answer = "bad"
        BY <1>7, <3>2 DEF Adjust, Busy
      <3> QED
        BY <1>0, <1>7, <3>1, <3>2
    <2>2. /\ o \in Nodes /\ o.joy = m.joy /\ o.action = m.action
          /\ SameInput(m, o) /\ SameStage(m, o) /\ SameDrive(m, o) /\ SameJog(m, o)
          /\ ~ Busy(o) /\ SameModes(m, o)
      BY NoRequestFields
    <2> HIDE DEF o
    <2>3. /\ so \in Nodes /\ so.joy = [o.joy EXCEPT !.dir = 0]
          /\ SameInput(o, so) /\ SameStage(o, so) /\ SameDrive(o, so) /\ SameJog(o, so)
          /\ SameRequest(o, so) /\ SameModes(o, so)
      BY <2>2, SuspendFields
    <2>4. so.joy.dir = 0 /\ so.joy.coord = m.joy.coord
      BY <1>0, <2>2, <2>3 DEF Joy
    <2> HIDE DEF so
    <2>5. /\ r \in Nodes /\ Framed(m, r) /\ ~ Busy(r) /\ r.action = m.action
          /\ r.joy.coord = m.joy.coord
          /\ r.joy = m.joy \/ r.joy.dir = 0
      BY <2>1, <2>2, <2>3, <2>4
      DEF Framed, SameInput, SameStage, SameDrive, SameJog, SameModes, SameRequest, Busy
    <2> HIDE DEF r
    <2>6. Owned(r) /\ Fresh(r, R)
      BY <2>5, AsksLess
    <2>7. m.action # NoStep => m.action.coord = m.joy.coord /\ ~ m.action.repeated
      BY <1>7 DEF Asking, Busy
    <2>8. Held(r)
      BY <2>5, <2>7 DEF Asking, Held, Busy, Framed, Pressed, SameInput, SameJog
    <2> QED
      BY <2>5, <2>6, <2>8 DEF Sound, Submits, Busy, r
  <1>8. CASE m.request = "get" /\ ~ late /\ m.answer = "good" /\ pose
    <2> DEFINE x == [m EXCEPT !.request = "set", !.answer = "none"]
    <2>1. r = x
      BY <1>8 DEF Adjust, Busy
    <2>2. /\ x \in Nodes /\ x.joy = m.joy /\ x.action = m.action /\ x.asked = m.asked
          /\ x.request = "set" /\ Framed(m, x)
      BY DEF Nodes, Node, Framed, SameInput, SameStage, SameDrive, SameJog
    <2> HIDE DEF x, r
    <2>3. Busy(x) /\ Busy(m)
      BY <1>8, <2>2 DEF Busy
    <2>4. Owned(x) /\ Fresh(x, R)
      BY <2>2, <2>3, AsksLess
    <2>5. m.action # NoStep => m.action.coord = m.joy.coord /\ ~ m.action.repeated
      BY <2>3 DEF Asking
    <2>6. Held(x)
      BY <2>2, <2>5 DEF Asking, Held, Framed, Pressed, SameInput, SameJog
    <2>7. Submits(x)
      BY <1>8, <2>2 DEF Asking, Submits, RepeatActive, Framed, SameInput
    <2> QED
      BY <2>1, <2>2, <2>4, <2>6, <2>7 DEF Sound, r
  <1>9. CASE m.request = "get" /\ ~ late /\ m.answer # "none" /\ ~ (m.answer = "good" /\ pose)
    <2>1. r = CancelAdjustment(s)
      BY <1>9 DEF Adjust, Busy
    <2>2. r \in Nodes
      BY <1>1, <2>1, CancelFields
    <2> QED
      BY <1>4, <2>1, <2>2
  <1>10. CASE ~ Busy(m) /\ m.action = NoStep
    <2>1. r = m
      BY <1>10 DEF Adjust, Busy
    <2>2. Held(m)
      BY <1>10 DEF Asking, Held
    <2> QED
      BY <1>3, <2>1, <2>2 DEF Sound
  <1>11. CASE ~ Busy(m) /\ m.action # NoStep /\ pose /\ available
    <2> DEFINE x == [m EXCEPT !.action = NoStep, !.request = "get", !.asked = m.action]
    <2>1. r = x
      BY <1>11 DEF Adjust, Busy
    <2>2. /\ x \in Nodes /\ x.joy = m.joy /\ x.action = NoStep /\ x.asked = m.action
          /\ x.request = "get" /\ Framed(m, x)
      BY <1>0, NoStepIsStep DEF Nodes, Node, Framed, SameInput, SameStage, SameDrive, SameJog
    <2> HIDE DEF x, r
    <2>3. ~ NoArm(m)
      BY <1>11 DEF NoArm
    <2>4. Owned(x) /\ Fresh(x, R)
      BY <2>2, <2>3
      DEF Owned, Fresh, Framed, SameInput, SameStage, SameDrive, SameJog
    <2>5. RepeatActive(x) <=> RepeatActive(m)
      BY <2>2 DEF RepeatActive, Framed, SameInput
    <2>6. Held(x)
      BY <1>11, <2>2, <2>5 DEF Asking, Held, Framed, Pressed, SameInput, SameJog
    <2> QED
      BY <2>1, <2>2, <2>4, <2>6 DEF Sound, Submits, r
  <1>12. CASE ~ Busy(m) /\ m.action # NoStep /\ ~ (pose /\ available)
    <2> DEFINE x == [s EXCEPT !.action = NoStep]
    <2>1. r = x
      BY <1>12 DEF Adjust, Busy
    <2> HIDE DEF s, r
    <2>2. /\ x \in Nodes /\ x.joy = s.joy /\ x.action = NoStep /\ x.request = s.request
          /\ Framed(s, x)
      BY <1>1, NoStepIsStep DEF Nodes, Node, Framed, SameInput, SameStage, SameDrive, SameJog
    <2> HIDE DEF x
    <2>3. Framed(m, x) /\ ~ Busy(x)
      BY <1>1, <1>12, <2>2
      DEF Framed, SameInput, SameStage, SameDrive, SameJog, SameModes, SameRequest, Busy
    <2>4. Owned(x) /\ Fresh(x, R)
      BY <2>2, <2>3, AsksLess
    <2>5. Held(x)
      BY <1>2, <2>2, <2>3 DEF Asking, Held, Busy, Framed, Pressed, SameInput, SameJog
    <2> QED
      BY <2>1, <2>2, <2>3, <2>4, <2>5 DEF Sound, Submits, Busy, r
  <1> HIDE DEF r, s
  <1>13. \/ Busy(m) /\ late
         \/ Busy(m) /\ ~ late /\ m.answer = "none"
         \/ m.request = "set" /\ ~ late /\ m.answer # "none"
         \/ m.request = "get" /\ ~ late /\ m.answer # "none"
         \/ ~ Busy(m)
    BY <1>0 DEF Busy
  <1> QED
    BY <1>5, <1>6, <1>7, <1>8, <1>9, <1>10, <1>11, <1>12, <1>13 DEF r

LEMMA FramedTrans ==
    ASSUME NEW a, NEW b, NEW c, Framed(a, b), Framed(b, c)
    PROVE  Framed(a, c)
  BY DEF Framed, SameInput, SameStage, SameDrive, SameJog

LEMMA HeldIsAsking == \A m : Held(m) => Asking(m)
  BY DEF Held, Asking

\* Also with a repetition that is due.
LEMMA AdjustedSound ==
    ASSUME NEW R, NEW m \in Nodes, Sound(m, R), ~ m.tracking,
           NEW late \in BOOLEAN, NEW available \in BOOLEAN, NEW due \in BOOLEAN,
           pose \in BOOLEAN
    PROVE  LET r == Adjusted(m, late, available, due)
           IN  r \in Nodes /\ Sound(r, R) /\ Framed(m, r) /\ (Submits(m) => Submits(r))
  <1> DEFINE first == Adjust(m, late, available)
             again == HandleStep(first, first.joy.dir, TRUE)
             second == Adjust(again, FALSE, available)
             r == Adjusted(m, late, available, due)
  <1>1. first \in Nodes /\ Sound(first, R) /\ Framed(m, first) /\ (Submits(m) => Submits(first))
    BY AdjustSound, HeldIsAsking DEF Sound
  <1>2. r = IF due /\ RepeatActive(first) THEN second ELSE first
    BY DEF Adjusted
  <1> HIDE DEF first
  <1>3. ASSUME RepeatActive(first)
        PROVE  /\ second \in Nodes /\ Sound(second, R) /\ Framed(m, second)
               /\ Submits(m) => Submits(second)
    <2>1. first.joy.dir \in {-1, 0, 1}
      BY <1>1 DEF Nodes, Node, Joy
    <2> DEFINE step == [coord |-> first.joy.coord, dir |-> first.joy.dir, repeated |-> TRUE]
    <2>2. again = TakesStep(first, step)
      BY DEF HandleStep, TakesStep
    <2>3. step \in Step /\ step.coord = first.joy.coord /\ step.dir = first.joy.dir
      BY <1>1, <2>1 DEF Nodes, Node, Joy, Step
    <2> HIDE DEF step, again, second, r
    <2>4. /\ again \in Nodes /\ again.joy = first.joy
          /\ SameInput(first, again) /\ SameStage(first, again) /\ SameDrive(first, again)
          /\ SameJog(first, again) /\ SameModes(first, again)
          /\ again.request = first.request /\ again.answer = first.answer
          /\ again.asked = first.asked
          /\ again.action # first.action => first.armed /\ ~ Busy(first) /\ again.action = step
      BY <1>1, <2>2, <2>3, TakesStepFields
    <2>5. Framed(first, again) /\ (RepeatActive(again) <=> RepeatActive(first))
          /\ (Busy(again) <=> Busy(first))
      BY <2>4
      DEF Framed, SameInput, SameStage, SameDrive, SameJog, SameModes, RepeatActive, Busy
    <2>6. Owned(again) /\ Fresh(again, R)
      BY <1>1, <2>4, <2>5
      DEF Sound, Owned, Fresh, NoArm, Framed, SameInput, SameStage, SameDrive, SameJog
    <2>7. Asking(again)
      <3>1. again.action # NoStep =>
               /\ again.action.coord = again.joy.coord
               /\ again.action.repeated =>
                     ~ Busy(again) /\ RepeatActive(again) /\ again.action.dir = again.joy.dir
        <4>1. CASE again.action = first.action
          BY <1>1, <2>4, <4>1 DEF Sound, Held
        <4>2. CASE again.action # first.action
          BY <1>3, <2>3, <2>4, <2>5, <4>2
        <4> QED
          BY <4>1, <4>2
      <3>2. again.request = "get" =>
               /\ again.asked.coord = again.joy.coord
               /\ again.asked.repeated => RepeatActive(again) /\ again.asked.dir = again.joy.dir
        BY <1>1, <2>4, <2>5 DEF Sound, Held
      <3>3. /\ again.joy.dir # 0 => again.joy.armed /\ ~ again.joy.ready
            /\ again.jogReady => ~ (Pressed(again, "plus") /\ Pressed(again, "minus"))
        BY <1>1, <2>4 DEF Sound, Held, Pressed, SameInput, SameJog
      <3> QED
        BY <3>1, <3>2, <3>3 DEF Asking
    <2>8. ~ again.tracking /\ (Submits(first) => Submits(again))
      BY <1>1, <2>4, <2>5 DEF Submits, SameModes, Framed
    <2> DEFINE no == FALSE
    <2>9. no \in BOOLEAN /\ second = Adjust(again, no, available)
      BY DEF second
    <2> HIDE DEF no
    <2>10. /\ second \in Nodes /\ Sound(second, R) /\ Framed(again, second)
           /\ Submits(again) => Submits(second)
      BY <2>4, <2>6, <2>7, <2>8, <2>9, AdjustSound
    <2> QED
      BY <1>1, <2>5, <2>8, <2>10, FramedTrans
  <1> QED
    BY <1>1, <1>2, <1>3

\* Also while tracking, and before the lever is armed.
LEMMA ArmControlsSound ==
    ASSUME NEW R, NEW m \in Nodes, Sound(m, R),
           NEW late \in BOOLEAN, NEW available \in BOOLEAN, NEW due \in BOOLEAN,
           pose \in BOOLEAN
    PROVE  LET r == ArmControls(m, late, available, due)
           IN  r \in Nodes /\ Sound(r, R) /\ Framed(m, r) /\ (Submits(m) => Submits(r))
  <1> DEFINE r == ArmControls(m, late, available, due)
             off == Disarm(m)
  <1>1. /\ off \in Nodes
        /\ off.joy = [m.joy EXCEPT !.armed = FALSE, !.ready = FALSE, !.dir = 0]
        /\ SameInput(m, off) /\ SameStage(m, off) /\ SameDrive(m, off) /\ SameJog(m, off)
        /\ SameRequest(m, off) /\ SameModes(m, off)
    BY DisarmFields
  <1>2. off.joy.dir = 0 /\ m.joy \in Joy /\ m.tracking \in BOOLEAN
    BY <1>1 DEF Nodes, Node, Joy
  <1>3. CASE m.tracking
    <2> DEFINE x == [off EXCEPT !.action = NoStep]
    <2>1. r = x
      BY <1>3 DEF ArmControls
    <2> HIDE DEF off, r
    <2>2. /\ x \in Nodes /\ x.joy = off.joy /\ x.action = NoStep /\ x.request = off.request
          /\ Framed(off, x)
      BY <1>1, NoStepIsStep DEF Nodes, Node, Framed, SameInput, SameStage, SameDrive, SameJog
    <2> HIDE DEF x
    <2>3. Framed(m, x) /\ ~ Busy(x)
      BY <1>1, <1>3, <2>2
      DEF Sound, Owned, Framed, SameInput, SameStage, SameDrive, SameJog, SameModes,
          SameRequest, Busy
    <2>4. Owned(x) /\ Fresh(x, R)
      BY <2>2, <2>3, AsksLess DEF Sound
    <2>5. Held(x)
      BY <1>2, <2>2, <2>3 DEF Sound, Held, Busy, Framed, Pressed, SameInput, SameJog
    <2> QED
      BY <2>1, <2>2, <2>3, <2>4, <2>5 DEF Sound, Submits, Busy, r
  <1>4. CASE ~ m.tracking /\ ~ m.joy.armed /\ ~ NeutralReady(m)
    <2> DEFINE x == CancelAdjustment(off)
    <2>1. r = x
      BY <1>4 DEF ArmControls
    <2> HIDE DEF off, r
    <2>2. /\ x \in Nodes /\ x.joy = off.joy
          /\ SameInput(off, x) /\ SameStage(off, x) /\ SameDrive(off, x) /\ SameJog(off, x)
          /\ ~ Busy(x) /\ x.action = NoStep /\ SameModes(off, x)
      BY <1>1, CancelFields
    <2> HIDE DEF x
    <2>3. Framed(m, x)
      BY <1>1, <2>2 DEF Framed, SameInput, SameStage, SameDrive, SameJog, SameModes
    <2>4. Owned(x) /\ Fresh(x, R)
      BY <2>2, <2>3, AsksLess DEF Sound
    <2>5. Held(x)
      BY <1>2, <2>2, <2>3 DEF Sound, Held, Busy, Framed, Pressed, SameInput, SameJog
    <2> QED
      BY <2>1, <2>2, <2>3, <2>4, <2>5 DEF Sound, Submits, Busy, r
  <1>5. CASE ~ m.tracking /\ (m.joy.armed \/ NeutralReady(m))
    <2> DEFINE x == IF m.joy.armed THEN m ELSE ArmJoy(m)
    <2>1. r = Adjusted(x, late, available, due)
      BY <1>5 DEF ArmControls
    <2>2. x \in Nodes /\ Sound(x, R) /\ Framed(m, x) /\ ~ x.tracking /\ (Submits(m) => Submits(x))
      <3>1. CASE m.joy.armed
        BY <1>5, <3>1 DEF Framed, SameInput, SameStage, SameDrive, SameJog
      <3>2. CASE ~ m.joy.armed
        <4> DEFINE y == ArmJoy(m)
        <4>1. x = y
          BY <3>2
        <4>2. /\ y \in Nodes
              /\ y.joy = [m.joy EXCEPT !.armed = TRUE, !.ready = TRUE]
              /\ SameInput(m, y) /\ SameStage(m, y) /\ SameDrive(m, y) /\ SameJog(m, y)
              /\ SameRequest(m, y) /\ SameModes(m, y)
          BY ArmJoyFields
        <4> HIDE DEF y
        <4>3. y.joy.dir = m.joy.dir /\ y.joy.coord = m.joy.coord
          BY <1>2, <4>2 DEF Joy
        <4>4. m.joy.dir = 0 /\ ~ RepeatActive(m)
          BY <3>2 DEF Sound, Held, RepeatActive
        <4>5. Framed(m, y) /\ (Busy(y) <=> Busy(m))
          BY <4>2 DEF Framed, SameModes, SameRequest, Busy
        <4>6. Owned(y) /\ Fresh(y, R)
          BY <4>2, <4>5, AsksLess DEF Sound, SameRequest
        <4>7. Held(y)
          BY <4>2, <4>3, <4>4 DEF Sound, Held, Pressed, SameInput, SameJog, SameRequest
        <4>8. Submits(m) => Submits(y)
          BY <4>2, <4>3, <4>4 DEF Submits, SameRequest
        <4> QED
          BY <1>5, <4>1, <4>2, <4>5, <4>6, <4>7, <4>8 DEF Sound, Framed
      <3> QED
        BY <3>1, <3>2
    <2> HIDE DEF x
    <2>3. r \in Nodes /\ Sound(r, R) /\ Framed(x, r) /\ (Submits(x) => Submits(r))
      BY <2>1, <2>2, AdjustedSound
    <2> QED
      BY <2>2, <2>3, FramedTrans
  <1> QED
    BY <1>2, <1>3, <1>4, <1>5

------------------------------------------------------------------------------
(* Steps of the timer *)

\* No request is sent and no jog begins.
Quieter == (n'.request = "set" => n.request = "set") /\ n'.jog \in {0, n.jog}

\* What a step of the timer leaves to the others.
Elsewhere == UNCHANGED <<linkVars, hands, pads, known, pose, rested, blocked>>

\* What every step may use.
LEMMA InvSound ==
    ASSUME RemoteInv
    PROVE  /\ n \in Nodes /\ Sound(n, Trusted) /\ pose \in BOOLEAN
           /\ rested \subseteq Trusted
           /\ queue \in Seq(Changes) /\ known \in Positions
  <1>1. TypeOK /\ Sound(n, Trusted)
    BY DEF RemoteInv, NothingOlder, Sound
  <1> QED
    BY <1>1 DEF TypeOK, Trusted

\* A step of the node: what is left to show of the next state.
LEMMA NodeStep ==
    ASSUME RemoteInv, Elsewhere,
           n' \in Nodes, Sound(n', Trusted'),
           fd' \in {"closed", "opened", "read"}, pc' \in {"idle", "read", "act"},
           wasHealthy' \in BOOLEAN, linkGen' \in {linkGen, generation},
           queue' \in Seq(Changes), FileClosed',
           \A i \in DOMAIN queue' : queue'[i].val = 0 => queue'[i].ctl \in Trusted',
           n'.alive /\ (n'.moving \/ n'.filtered) =>
              \/ Axes \subseteq Trusted'
              \/ pc' # "idle" /\ fd' = "closed"
              \/ pc' = "act" /\ n'.seen = {},
           QueueLeadsToKnown', BlockedIsSeen'
    PROVE  RemoteInv'
  <1>1. TypeOK'
    BY DEF RemoteInv, TypeOK, Elsewhere, linkVars
  <1>2. KnownRested'
    BY DEF RemoteInv, KnownRested, Elsewhere, linkVars
  <1>3. NothingOlder'
    BY DEF NothingOlder, Sound
  <1>4. Owned(n)' /\ Held(n)'
    BY DEF Sound, Owned, Held, NoArm, Busy, RepeatActive, Active, Pressed
  <1> QED
    BY <1>1, <1>2, <1>3, <1>4 DEF RemoteInv

\* The file is closed: nothing is queued.
LEMMA ClosedQueue ==
    ASSUME RemoteInv, Elsewhere, fd' # "read", queue' = <<>>
    PROVE  QueueLeadsToKnown' /\ BlockedIsSeen'
  BY DEF RemoteInv, Elsewhere, QueueLeadsToKnown, BlockedIsSeen

\* Neither the queue nor what was read of it changes.
LEMMA SameQueue ==
    ASSUME RemoteInv, Elsewhere, queue' = queue,
           (fd' = fd /\ n'.at = n.at /\ (fd = "read" => (MayJog' => MayJog))) \/ fd' # "read"
    PROVE  QueueLeadsToKnown' /\ BlockedIsSeen'
  <1>1. known' = known /\ blocked' = blocked
    BY DEF Elsewhere
  <1>2. /\ \A b, i : Untouched(b, i)' <=> Untouched(b, i)
        /\ \A b, k, i : LastOf(b, k, i)' <=> LastOf(b, k, i)
    BY DEF Untouched, LastOf
  <1>3. QueueLeadsToKnown'
    BY <1>1, <1>2 DEF RemoteInv, QueueLeadsToKnown
  <1>4. CASE fd' # "read"
    BY <1>1, <1>3, <1>4 DEF RemoteInv, BlockedIsSeen
  <1>5. CASE fd' = fd /\ n'.at = n.at /\ (fd = "read" => (MayJog' => MayJog))
    <2>1. \A b, i : DownAfter(b, i)' <=> DownAfter(b, i)
      BY <1>2, <1>5 DEF DownAfter
    <2>2. BlockedIsSeen'
      BY <1>1, <1>5, <2>1 DEF RemoteInv, BlockedIsSeen
    <2> QED
      BY <1>3, <2>2
  <1> QED
    BY <1>4, <1>5

LEMMA SameTrusted ==
    ASSUME Elsewhere, linkGen' = linkGen
    PROVE  Trusted' = Trusted
  BY DEF Elsewhere, linkVars, Trusted

LEMMA OldQueue ==
    ASSUME RemoteInv
    PROVE  \A i \in DOMAIN queue : queue[i].val = 0 => queue[i].ctl \in Trusted
  BY DEF RemoteInv, NothingOlder

LEMMA TickStartsFields ==
    ASSUME NEW R, n \in Nodes, Sound(n, R)
    PROVE  /\ TickStarts \in Nodes /\ Sound(TickStarts, R)
           /\ SameInput(n, TickStarts) /\ SameStage(n, TickStarts) /\ SameDrive(n, TickStarts)
           /\ SameJog(n, TickStarts) /\ TickStarts.tracking = n.tracking
           /\ NoArm(n) => NoArm(TickStarts)
           /\ TickStarts.request = n.request
  <1> DEFINE r == TickStarts
  <1>1. /\ r \in Nodes /\ r.joy = n.joy /\ r.action = NoStep /\ r.request = n.request
        /\ r.asked = n.asked /\ ~ r.toggle /\ r.tracking = n.tracking /\ r.armed = n.armed
        /\ SameInput(n, r) /\ SameStage(n, r) /\ SameDrive(n, r) /\ SameJog(n, r)
    BY NoStepIsStep
    DEF TickStarts, Nodes, Node, SameInput, SameStage, SameDrive, SameJog
  <1> HIDE DEF r
  <1>2. NoArm(n) => NoArm(r)
    BY <1>1 DEF NoArm, Busy
  <1>3. Owned(r) /\ Fresh(r, R)
    BY <1>1, <1>2
    DEF Sound, Owned, Fresh, NoArm, Busy, SameInput, SameStage, SameDrive, SameJog
  <1>4. Held(r)
    BY <1>1 DEF Sound, Held, RepeatActive, Pressed, SameInput, SameJog
  <1> QED
    BY <1>1, <1>2, <1>3, <1>4 DEF Sound, r

\* Without a healthy link everything is dropped.
LEMMA TickUnhealthyPreserves == RemoteInv /\ TickUnhealthy => RemoteInv' /\ Quieter
  <1> SUFFICES ASSUME RemoteInv, TickUnhealthy PROVE RemoteInv' /\ Quieter
    OBVIOUS
  <1> DEFINE t == TickStarts
             x == IF fd # "closed" \/ wasHealthy THEN Invalidate(t) ELSE t
             y == CancelTracking(x)
  <1>1. /\ n' = PublishZero(y) /\ fd' = "closed" /\ queue' = <<>> /\ wasHealthy' = FALSE
        /\ pc = "idle" /\ pc' = "idle" /\ linkGen' = linkGen /\ Elsewhere
    BY DEF TickUnhealthy, Elsewhere
  <1>2. n \in Nodes /\ Sound(n, Trusted) /\ pose \in BOOLEAN
    BY InvSound
  <1>3. t \in Nodes /\ Sound(t, Trusted) /\ (NoArm(n) => NoArm(t)) /\ t.jog = n.jog
    BY <1>2, TickStartsFields DEF SameJog
  <1> HIDE DEF t
  <1>4. x \in Nodes /\ Sound(x, Trusted) /\ NoArm(x) /\ x.jog \in {0, n.jog}
    <2>1. CASE fd # "closed" \/ wasHealthy
      BY <1>2, <1>3, <2>1, InvalidateFields, InvalidIsSound DEF Rests
    <2>2. CASE fd = "closed" /\ ~ wasHealthy
      BY <1>3, <2>2 DEF RemoteInv, FileClosed
    <2> QED
      BY <2>1, <2>2
  <1> HIDE DEF x
  <1>5. y \in Nodes /\ Sound(y, Trusted) /\ ~ y.tracking /\ NoArm(y) /\ y.jog = x.jog
    BY <1>4, CancelTrackingSound DEF SameJog
  <1> HIDE DEF y
  <1>6. /\ n' \in Nodes /\ ~ n'.moving /\ ~ n'.filtered /\ n'.joy = y.joy
        /\ SameInput(y, n') /\ SameStage(y, n') /\ SameJog(y, n')
        /\ SameRequest(y, n') /\ SameModes(y, n')
    BY <1>1, <1>5, ZeroFields
  <1> HIDE DEF y
  <1>7. Sound(n', Trusted)
    <2>1. Owned(n') /\ Fresh(n', Trusted)
      BY <1>5, <1>6
      DEF Sound, Owned, Fresh, NoArm, Busy, SameInput, SameStage, SameJog, SameRequest, SameModes
    <2>2. Held(n')
      BY <1>5, <1>6, StageKeepsHeld DEF Sound, SameInput
    <2> QED
      BY <2>1, <2>2 DEF Sound
  <1>8. Trusted' = Trusted
    BY <1>1, SameTrusted
  <1>9. FileClosed'
    BY <1>1, <1>5, <1>6 DEF FileClosed, NoArm, Busy, SameRequest, SameModes
  <1>10. QueueLeadsToKnown' /\ BlockedIsSeen'
    BY <1>1, ClosedQueue
  <1>11. Sound(n', Trusted')
    BY <1>7, <1>8
  <1>12. wasHealthy' \in BOOLEAN /\ linkGen' \in {linkGen, generation}
    BY <1>1
  <1>14. queue' \in Seq(Changes) /\ DOMAIN queue' = {}
    BY <1>1
  <1>13. ~ (n'.alive /\ (n'.moving \/ n'.filtered))
    BY <1>6
  <1>30. RemoteInv'
    BY <1>1, <1>6, <1>9, <1>10, <1>11, <1>12, <1>13, <1>14, NodeStep
  <1>31. Quieter
    BY <1>4, <1>5, <1>6 DEF Quieter, NoArm, Busy, SameJog, SameRequest
  <1> QED
    BY <1>30, <1>31

\* A link that is back starts from nothing.
LEMMA TickReconnectedPreserves == RemoteInv /\ TickReconnected => RemoteInv' /\ Quieter
  <1> SUFFICES ASSUME RemoteInv, TickReconnected PROVE RemoteInv' /\ Quieter
    OBVIOUS
  <1> DEFINE t == TickStarts
  <1>1. /\ n' = Invalidate(t) /\ fd' = "closed" /\ queue' = <<>> /\ wasHealthy' = TRUE
        /\ pc' = (IF n'.alive THEN "read" ELSE "idle") /\ linkGen' = generation /\ Elsewhere
    BY DEF TickReconnected, Elsewhere
  <1>2. n \in Nodes /\ Sound(n, Trusted) /\ pose \in BOOLEAN
    BY InvSound
  <1>3. t \in Nodes
    BY <1>2, TickStartsFields
  <1> HIDE DEF t
  <1>4. n' \in Nodes /\ Rests(n')
    BY <1>1, <1>2, <1>3, InvalidateFields
  <1>5. Sound(n', Trusted')
    BY <1>1, <1>2, <1>3, InvalidIsSound
  <1>6. FileClosed'
    BY <1>1, <1>4 DEF FileClosed, Rests, NoArm, Busy
  <1>7. QueueLeadsToKnown' /\ BlockedIsSeen'
    BY <1>1, ClosedQueue
  <1>30. RemoteInv'
    BY <1>1, <1>4, <1>5, <1>6, <1>7, NodeStep
  <1>31. Quieter
    BY <1>4 DEF Quieter, Rests, NoArm, Busy
  <1> QED
    BY <1>30, <1>31

LEMMA TickPreserves == RemoteInv /\ Tick => RemoteInv' /\ Quieter
  <1> SUFFICES ASSUME RemoteInv, Tick PROVE RemoteInv' /\ Quieter
    OBVIOUS
  <1>1. /\ n' = TickStarts /\ pc = "idle" /\ pc' = "read" /\ n.alive
        /\ fd' = fd /\ queue' = queue /\ wasHealthy' = wasHealthy /\ linkGen' = linkGen
        /\ Elsewhere
    BY DEF Tick, Elsewhere, padVars
  <1>2. n \in Nodes /\ Sound(n, Trusted)
    BY InvSound
  <1>3. /\ n' \in Nodes /\ Sound(n', Trusted)
        /\ SameInput(n, n') /\ SameStage(n, n') /\ SameDrive(n, n')
        /\ SameJog(n, n') /\ n'.tracking = n.tracking
        /\ NoArm(n) => NoArm(n')
        /\ n'.request = n.request
    BY <1>1, <1>2, TickStartsFields
  <1>4. Trusted' = Trusted
    BY <1>1, SameTrusted
  <1>5. FileClosed'
    BY <1>1, <1>3 DEF RemoteInv, FileClosed, NoArm, Busy, SameStage, SameInput
  <1>6. QueueLeadsToKnown' /\ BlockedIsSeen'
    BY <1>1, <1>3, SameQueue DEF MayJog, SameInput, SameJog
  <1>7. n'.alive /\ (n'.moving \/ n'.filtered) => Axes \subseteq Trusted
    BY <1>1, <1>3 DEF RemoteInv, NothingOlder, SameStage, SameDrive
  <1>8. TypeOK
    BY DEF RemoteInv
  <1>30. RemoteInv'
    BY <1>1, <1>3, <1>4, <1>5, <1>6, <1>7, <1>8, OldQueue, NodeStep DEF TypeOK
  <1>31. Quieter
    BY <1>3 DEF Quieter, SameJog
  <1> QED
    BY <1>30, <1>31

LEMMA OpenFailsPreserves == RemoteInv /\ OpenFails => RemoteInv' /\ Quieter
  <1> SUFFICES ASSUME RemoteInv, OpenFails PROVE RemoteInv' /\ Quieter
    OBVIOUS
  <1>1. /\ pc = "read" /\ fd = "closed"
        /\ fd' = fd /\ queue' = queue /\ wasHealthy' = wasHealthy /\ linkGen' = linkGen
        /\ Elsewhere
    BY DEF OpenFails, Elsewhere, padVars
  <1>2. n \in Nodes /\ Sound(n, Trusted)
    BY InvSound
  <1>3. Trusted' = Trusted
    BY <1>1, SameTrusted
  <1>4. QueueLeadsToKnown' /\ BlockedIsSeen'
    BY <1>1, SameQueue
  <1>5. TypeOK /\ n.alive
    BY <1>1 DEF RemoteInv, FileClosed
  <1>6. CASE pc' = "act" /\ n' = n
    <2>1. FileClosed'
      BY <1>1, <1>5, <1>6 DEF RemoteInv, FileClosed, NoArm, Busy
    <2>2. Sound(n', Trusted') /\ n' \in Nodes
      BY <1>2, <1>3, <1>6
    <2> QED
      BY <1>1, <1>3, <1>4, <1>5, <1>6, <2>1, <2>2, OldQueue, NodeStep DEF TypeOK, Quieter
  <1>7. CASE pc' = "idle" /\ n' = [n EXCEPT !.alive = FALSE]
    <2>1. /\ n' \in Nodes /\ SameInput(n, n') /\ n'.stage = n.stage /\ ~ n'.alive
          /\ SameDrive(n, n') /\ SameJog(n, n') /\ SameRequest(n, n') /\ SameModes(n, n')
          /\ n'.joy = n.joy
      BY <1>2, <1>7
      DEF Nodes, Node, SameInput, SameDrive, SameJog, SameRequest, SameModes
    <2>2. ~ n.tracking /\ NoArm(n)
      BY <1>1 DEF RemoteInv, FileClosed
    <2>3. Owned(n') /\ Fresh(n', Trusted)
      BY <1>2, <2>1, <2>2
      DEF Sound, Owned, Fresh, NoArm, Busy, SameInput, SameDrive, SameJog, SameRequest, SameModes
    <2>4. Held(n')
      BY <1>2, <2>1, StageKeepsHeld DEF Sound, SameInput
    <2>5. FileClosed'
      BY <1>1, <1>7, <2>1, <2>2
      DEF RemoteInv, FileClosed, NoArm, Busy, SameRequest, SameModes
    <2>6. Sound(n', Trusted')
      BY <1>3, <2>3, <2>4 DEF Sound
    <2> QED
      BY <1>1, <1>3, <1>4, <1>5, <1>7, <2>1, <2>5, <2>6, OldQueue, NodeStep
      DEF TypeOK, Quieter, SameJog, SameRequest
  <1> QED
    BY <1>6, <1>7 DEF OpenFails

\* A device that is opened starts from nothing.
LEMMA OpenSucceedsPreserves == RemoteInv /\ OpenSucceeds => RemoteInv' /\ Quieter
  <1> SUFFICES ASSUME RemoteInv, OpenSucceeds PROVE RemoteInv' /\ Quieter
    OBVIOUS
  <1> DEFINE x == ResetJoy(n)
             y == [x EXCEPT !.released = {}, !.toggle = FALSE, !.at = Released(n),
                            !.seen = {}, !.armed = FALSE, !.jogReady = FALSE]
  <1>1. /\ pc = "read" /\ fd = "closed" /\ n' = y /\ pc' = "act" /\ fd' = "opened"
        /\ queue' = queue /\ wasHealthy' = wasHealthy /\ linkGen' = linkGen
        /\ Elsewhere
    BY DEF OpenSucceeds, Elsewhere, padVars
  <1>2. n \in Nodes /\ Sound(n, Trusted)
    BY InvSound
  <1>3. Trusted' = Trusted
    BY <1>1, SameTrusted
  <1>4. QueueLeadsToKnown' /\ BlockedIsSeen'
    BY <1>1, SameQueue
  <1>5. TypeOK /\ n.alive /\ ~ n.tracking /\ NoArm(n)
    BY <1>1 DEF RemoteInv, FileClosed
  <1>6. /\ x \in Nodes /\ JoyOff(x)
        /\ SameInput(n, x) /\ SameStage(n, x) /\ SameDrive(n, x) /\ SameJog(n, x)
        /\ SameRequest(n, x) /\ SameModes(n, x)
    BY <1>2, ResetFields
  <1> HIDE DEF x
  <1>7. Released(n) \in Positions /\ Released(n) \in [Controls -> -2..2]
    BY DEF Released, Positions
  <1>8. /\ y \in Nodes /\ y.joy = x.joy /\ y.seen = {} /\ y.released = {} /\ ~ y.armed
        /\ ~ y.toggle /\ ~ y.jogReady /\ y.jog = x.jog /\ y.tracking = x.tracking
        /\ SameStage(x, y) /\ SameDrive(x, y) /\ SameRequest(x, y)
    BY <1>6, <1>7 DEF Nodes, Node, SameStage, SameDrive, SameRequest
  <1> HIDE DEF y
  <1>9. ~ y.tracking /\ NoArm(y) /\ y.alive /\ JoyOff(y) /\ y.jog = n.jog /\ y.stage = n.stage
    BY <1>5, <1>6, <1>8
    DEF NoArm, Busy, JoyOff, SameStage, SameJog, SameRequest, SameModes
  <1>10. Owned(y) /\ Held(y) /\ Fresh(y, Trusted)
    BY <1>2, <1>5, <1>8, <1>9 DEF Sound, Owned, Held, Fresh, NoArm, Busy, JoyOff
  <1>11. Sound(n', Trusted')
    BY <1>1, <1>3, <1>10 DEF Sound
  <1>12. FileClosed'
    BY <1>1, <1>8, <1>9 DEF FileClosed
  <1>30. RemoteInv'
    BY <1>1, <1>3, <1>4, <1>5, <1>8, <1>11, <1>12, OldQueue, NodeStep DEF TypeOK
  <1>31. Quieter
    BY <1>1, <1>9 DEF Quieter, NoArm, Busy
  <1> QED
    BY <1>30, <1>31

\* The INIT events show what the operator has at rest.
LEMMA ReadInitPreserves == RemoteInv /\ ReadInit => RemoteInv' /\ Quieter
  <1> SUFFICES ASSUME RemoteInv, ReadInit PROVE RemoteInv' /\ Quieter
    OBVIOUS
  <1>1. /\ pc = "read" /\ fd = "opened" /\ n' = HandleInit(n, known) /\ fd' = "read"
        /\ pc' = (IF n'.alive THEN "read" ELSE "idle")
        /\ queue' = queue /\ wasHealthy' = wasHealthy /\ linkGen' = linkGen
        /\ Elsewhere
    BY DEF ReadInit, Elsewhere, padVars
  <1>2. /\ n \in Nodes /\ Sound(n, Trusted) /\ pose \in BOOLEAN /\ known \in Positions
        /\ rested \subseteq Trusted
    BY InvSound
  <1>3. Trusted' = Trusted
    BY <1>1, SameTrusted
  <1>4. \A c \in Controls : known[c] = 0 => c \in Trusted
    BY <1>2 DEF RemoteInv, KnownRested
  <1>5. /\ n' \in Nodes /\ Sound(n', Trusted) /\ Rests(n') /\ n'.at = known
        /\ n'.moving => n.moving
        /\ n'.filtered => n.filtered
        /\ n'.alive => n.alive
    BY <1>1, <1>2, <1>4, HandleInitSound
  <1>6. FileClosed'
    BY <1>1 DEF FileClosed
  <1>7. known' = known /\ blocked' = blocked
    BY <1>1 DEF Elsewhere
  <1>8. QueueLeadsToKnown'
    BY <1>1, <1>5, <1>7 DEF RemoteInv, QueueLeadsToKnown, LastOf
  <1>9. BlockedIsSeen'
    BY <1>1, <1>5, <1>7 DEF RemoteInv, BlockedIsSeen, MayJog, Rests
  <1>10. n'.alive /\ (n'.moving \/ n'.filtered) => Axes \subseteq Trusted
    BY <1>1, <1>5 DEF RemoteInv, NothingOlder
  <1>11. TypeOK /\ Sound(n', Trusted')
    BY <1>3, <1>5 DEF RemoteInv
  <1>30. RemoteInv'
    BY <1>1, <1>3, <1>5, <1>6, <1>8, <1>9, <1>10, <1>11, OldQueue, NodeStep DEF TypeOK
  <1>31. Quieter
    BY <1>5 DEF Quieter, Rests, NoArm, Busy
  <1> QED
    BY <1>30, <1>31

LEMMA ReadAgainPreserves == RemoteInv /\ ReadAgain => RemoteInv' /\ Quieter
  <1> SUFFICES ASSUME RemoteInv, ReadAgain PROVE RemoteInv' /\ Quieter
    OBVIOUS
  <1>1. /\ pc = "read" /\ fd = "read" /\ queue = <<>> /\ n' = n /\ fd' = fd /\ pc' = "act"
        /\ queue' = queue /\ wasHealthy' = wasHealthy /\ linkGen' = linkGen
        /\ Elsewhere
    BY DEF ReadAgain, Elsewhere, padVars
  <1>2. n \in Nodes /\ Sound(n, Trusted)
    BY InvSound
  <1>3. Trusted' = Trusted
    BY <1>1, SameTrusted
  <1>4. \A b \in JogButtons : n.at[b] = known[b]
    BY <1>1 DEF RemoteInv, QueueLeadsToKnown, Untouched
  <1>5. known' = known /\ blocked' = blocked
    BY <1>1 DEF Elsewhere
  <1>6. ~ (blocked /\ n.jogReady)
    BY <1>1 DEF RemoteInv, BlockedIsSeen, MayJog
  <1>7. ~ (blocked /\ \A b \in JogButtons : n.at[b] = 0)
    BY <1>4 DEF RemoteInv, BlockedIsSeen
  <1>8. BlockedIsSeen'
    BY <1>1, <1>5, <1>6, <1>7 DEF RemoteInv, BlockedIsSeen, MayJog
  <1>9. QueueLeadsToKnown'
    BY <1>1, <1>5 DEF RemoteInv, QueueLeadsToKnown, LastOf, Untouched
  <1>10. n.alive /\ FileClosed'
    BY <1>1 DEF RemoteInv, FileClosed
  <1>11. n'.alive /\ (n'.moving \/ n'.filtered) => Axes \subseteq Trusted
    BY <1>1 DEF RemoteInv, NothingOlder
  <1>12. TypeOK /\ Sound(n', Trusted') /\ n' \in Nodes
    BY <1>1, <1>2, <1>3 DEF RemoteInv
  <1>30. RemoteInv'
    BY <1>1, <1>3, <1>8, <1>9, <1>10, <1>11, <1>12, OldQueue, NodeStep DEF TypeOK
  <1>31. Quieter
    BY <1>1 DEF Quieter
  <1> QED
    BY <1>30, <1>31

\* A device that is lost leaves nothing.
LEMMA ReadFailsPreserves == RemoteInv /\ ReadFails => RemoteInv' /\ Quieter
  <1> SUFFICES ASSUME RemoteInv, ReadFails PROVE RemoteInv' /\ Quieter
    OBVIOUS
  <1>1. /\ n' = Invalidate(n) /\ fd' = "closed" /\ queue' = <<>>
        /\ pc' = (IF n'.alive THEN "act" ELSE "idle")
        /\ wasHealthy' = wasHealthy /\ linkGen' = linkGen /\ Elsewhere
    BY DEF ReadFails, Elsewhere
  <1>2. n \in Nodes /\ Sound(n, Trusted) /\ pose \in BOOLEAN
    BY InvSound
  <1>4. n' \in Nodes /\ Rests(n')
    BY <1>1, <1>2, InvalidateFields
  <1>5. Sound(n', Trusted')
    BY <1>1, <1>2, InvalidIsSound
  <1>6. FileClosed'
    BY <1>1, <1>4 DEF FileClosed, Rests, NoArm, Busy
  <1>7. QueueLeadsToKnown' /\ BlockedIsSeen'
    BY <1>1, ClosedQueue
  <1>8. TypeOK
    BY DEF RemoteInv
  <1>30. RemoteInv'
    BY <1>1, <1>4, <1>5, <1>6, <1>7, <1>8, NodeStep DEF TypeOK

\* An event leaves the queue.
  <1>31. Quieter
    BY <1>4 DEF Quieter, Rests, NoArm, Busy
  <1> QED
    BY <1>30, <1>31

\* One event is read: the queue still leads to what is known.
LEMMA ReadEventPreserves == RemoteInv /\ ReadEvent => RemoteInv' /\ Quieter
  <1> SUFFICES ASSUME RemoteInv, ReadEvent PROVE RemoteInv' /\ Quieter
    OBVIOUS
  <1> DEFINE e == Head(queue)
  <1>0. PICK len \in Nat : len = Len(queue)
    BY InvSound
  <1>1. /\ pc = "read" /\ fd = "read" /\ queue # <<>> /\ n' = HandleEvent(n, e) /\ fd' = fd
        /\ queue' = Tail(queue)
        /\ pc' = (IF n'.alive THEN "read" ELSE "idle")
        /\ wasHealthy' = wasHealthy /\ linkGen' = linkGen /\ Elsewhere
    BY DEF ReadEvent, Elsewhere
  <1>2. n \in Nodes /\ Sound(n, Trusted) /\ pose \in BOOLEAN /\ queue \in Seq(Changes)
    BY InvSound
  <1>3. Trusted' = Trusted
    BY <1>1, SameTrusted
  <1>4. /\ len \in Nat \ {0} /\ e = queue[1] /\ e \in Changes /\ Len(queue') = len - 1
        /\ \A k \in 1..(len - 1) : queue'[k] = queue[k + 1]
        /\ queue' \in Seq(Changes)
    BY <1>0, <1>1, <1>2
  <1>5. e.val = 0 => e.ctl \in Trusted
    <2>1. 1 \in DOMAIN queue
      BY <1>0, <1>2, <1>4
    <2>2. queue[1].val = 0 => queue[1].ctl \in Trusted
      BY <2>1, OldQueue
    <2> QED
      BY <1>4, <2>2
  <1>6. Sound(n', Trusted) /\ Handled(n, e, n')
    BY <1>1, <1>2, <1>4, <1>5, HandleEventSound
  <1> HIDE DEF e
  <1>7. n' \in Nodes /\ n'.at = [n.at EXCEPT ![e.ctl] = e.val]
    BY <1>6 DEF Handled
  <1>8. n.at \in Positions /\ e.ctl \in Controls
    BY <1>2, <1>4 DEF Nodes, Changes
  <1>9. \A b \in JogButtons : n'.at[b] = (IF b = e.ctl THEN e.val ELSE n.at[b])
    BY <1>7, <1>8, Distinct DEF Positions
  <1>10. known' = known /\ blocked' = blocked
    BY <1>1 DEF Elsewhere
  <1>11. \A b : \A k \in 1..(len - 1) : \A i \in 1..(len - 1) :
            LastOf(b, k, i)' <=> LastOf(b, k + 1, i + 1)
    <2> SUFFICES ASSUME NEW b, NEW k \in 1..(len - 1), NEW i \in 1..(len - 1)
                 PROVE  LastOf(b, k, i)' <=> LastOf(b, k + 1, i + 1)
      OBVIOUS
    <2>1. ASSUME LastOf(b, k, i)' PROVE LastOf(b, k + 1, i + 1)
      <3>1. k + 1 \in 1..(i + 1) /\ queue[k + 1].ctl = b
        BY <1>4, <2>1 DEF LastOf
      <3>2. ASSUME NEW l \in 1..(i + 1), l > k + 1 PROVE queue[l].ctl # b
        <4>1. l - 1 \in 1..i /\ l - 1 > k /\ l - 1 \in 1..(len - 1) /\ (l - 1) + 1 = l
          BY <1>4, <3>2
        <4>2. queue'[l - 1].ctl # b
          BY <2>1, <4>1 DEF LastOf
        <4>3. queue'[l - 1] = queue[l]
          BY <1>4, <4>1
        <4> QED
          BY <4>2, <4>3
      <3> QED
        BY <3>1, <3>2 DEF LastOf
    <2>2. ASSUME LastOf(b, k + 1, i + 1) PROVE LastOf(b, k, i)'
      <3>1. k \in 1..i /\ queue'[k].ctl = b
        BY <1>4, <2>2 DEF LastOf
      <3>2. ASSUME NEW l \in 1..i, l > k PROVE queue'[l].ctl # b
        BY <1>4, <2>2, <3>2 DEF LastOf
      <3> QED
        BY <3>1, <3>2 DEF LastOf
    <2> QED
      BY <2>1, <2>2
  <1>12. \A b : \A i \in 0..(len - 1) :
            Untouched(b, i)' /\ b # e.ctl => Untouched(b, i + 1)
    <2> SUFFICES ASSUME NEW b, NEW i \in 0..(len - 1), Untouched(b, i)', b # e.ctl,
                        NEW k \in 1..(i + 1)
                 PROVE  queue[k].ctl # b
      BY DEF Untouched
    <2>1. CASE k = 1
      BY <1>4, <2>1
    <2>2. CASE k # 1
      <3>1. k - 1 \in 1..i /\ k - 1 \in 1..(len - 1) /\ (k - 1) + 1 = k
        BY <1>4, <2>2
      <3>2. queue'[k - 1].ctl # b /\ queue'[k - 1] = queue[k]
        BY <1>4, <3>1 DEF Untouched
      <3> QED
        BY <3>2
    <2> QED
      BY <2>1, <2>2
  <1>13. \A b : \A i \in 0..(len - 1) :
            Untouched(b, i)' /\ b = e.ctl => LastOf(b, 1, i + 1)
    <2> SUFFICES ASSUME NEW b, NEW i \in 0..(len - 1), Untouched(b, i)', b = e.ctl,
                        NEW k \in 1..(i + 1), k > 1
                 PROVE  queue[k].ctl # b
      BY <1>4 DEF LastOf
    <2>1. k - 1 \in 1..i /\ k - 1 \in 1..(len - 1) /\ (k - 1) + 1 = k
      BY <1>4
    <2>2. queue'[k - 1].ctl # b /\ queue'[k - 1] = queue[k]
      BY <1>4, <2>1 DEF Untouched
    <2> QED
      BY <2>2
  <1>14. QueueLeadsToKnown'
    <2> SUFFICES ASSUME NEW b \in JogButtons
                 PROVE  /\ \A k \in 1..(len - 1) :
                              LastOf(b, k, len - 1)' => queue'[k].val = known[b]
                        /\ Untouched(b, len - 1)' => n'.at[b] = known[b]
      BY <1>1, <1>4, <1>10 DEF QueueLeadsToKnown
    <2>1. ASSUME NEW k \in 1..(len - 1), LastOf(b, k, len - 1)'
          PROVE  queue'[k].val = known[b]
      <3>1. LastOf(b, k + 1, len)
        <4>1. LastOf(b, k + 1, (len - 1) + 1)
          BY <1>4, <1>11, <2>1
        <4> QED
          BY <1>4, <4>1
      <3>2. k + 1 \in 1..len
        BY <1>4
      <3> QED
        BY <1>0, <1>4, <3>1, <3>2 DEF RemoteInv, QueueLeadsToKnown
    <2>2. ASSUME Untouched(b, len - 1)' PROVE n'.at[b] = known[b]
      <3>1. len - 1 \in 0..(len - 1) /\ (len - 1) + 1 = len /\ 1 \in 1..len
        BY <1>4
      <3>2. CASE b = e.ctl
        <4>1. LastOf(b, 1, len)
          BY <1>13, <2>2, <3>1, <3>2
        <4>2. queue[1].val = known[b]
          BY <1>0, <3>1, <4>1 DEF RemoteInv, QueueLeadsToKnown
        <4> QED
          BY <1>4, <1>9, <3>2, <4>2
      <3>3. CASE b # e.ctl
        <4>1. Untouched(b, len)
          BY <1>12, <2>2, <3>1, <3>3
        <4> QED
          BY <1>0, <1>1, <1>9, <3>3, <4>1 DEF RemoteInv, QueueLeadsToKnown
      <3> QED
        BY <3>2, <3>3
    <2> QED
      BY <2>1, <2>2
  \* a button that is down after an event is down after it once the first is read
  <1>15. \A b \in JogButtons : \A i \in 1..len : DownAfter(b, i) => DownAfter(b, i - 1)'
    <2> SUFFICES ASSUME NEW b \in JogButtons, NEW i \in 1..len, DownAfter(b, i)
                 PROVE  DownAfter(b, i - 1)'
      OBVIOUS
    <2>1. i - 1 \in 0..(len - 1) /\ (i - 1) + 1 = i /\ 1 \in 1..i
      BY <1>4
    <2>2. ASSUME Untouched(b, i - 1)' PROVE n'.at[b] # 0
      <3>1. CASE b = e.ctl
        <4>1. LastOf(b, 1, i)
          BY <1>13, <2>1, <2>2, <3>1
        <4> QED
          BY <1>4, <1>9, <2>1, <3>1, <4>1 DEF DownAfter
      <3>2. CASE b # e.ctl
        <4>1. Untouched(b, i)
          BY <1>12, <2>1, <2>2, <3>2
        <4> QED
          BY <1>9, <3>2, <4>1 DEF DownAfter
      <3> QED
        BY <3>1, <3>2
    <2>3. ASSUME NEW k \in 1..(i - 1), LastOf(b, k, i - 1)' PROVE queue'[k].val # 0
      <3>1. k \in 1..(len - 1) /\ i - 1 \in 1..(len - 1) /\ k + 1 \in 1..i
        BY <1>4
      <3>2. LastOf(b, k + 1, i)
        BY <1>11, <2>1, <2>3, <3>1
      <3> QED
        BY <1>4, <3>1, <3>2 DEF DownAfter
    <2> QED
      BY <2>2, <2>3 DEF DownAfter
  <1>16. BlockedIsSeen'
    <2>1. blocked => \E b \in JogButtons : known[b] # 0
      BY DEF RemoteInv, BlockedIsSeen
    <2>2. ASSUME blocked, MayJog'
          PROVE  \E i \in 1..(len - 1) : \A b \in JogButtons : DownAfter(b, i)'
      <3>1. n'.jogReady /\ n.jogReady
        BY <1>1, <1>6, <2>2 DEF MayJog, Handled
      <3>2. PICK i \in 1..len : \A b \in JogButtons : DownAfter(b, i)
        BY <1>0, <1>1, <2>2, <3>1 DEF RemoteInv, BlockedIsSeen, MayJog
      <3>3. \A b \in JogButtons : DownAfter(b, i - 1)'
        BY <1>15, <3>2
      <3>4. i # 1
        <4> SUFFICES ASSUME i = 1 PROVE FALSE
          OBVIOUS
        <4>1. \A b \in JogButtons : DownAfter(b, 0)'
          BY <3>3
        <4>2. \A b \in JogButtons : n'.at[b] # 0
          BY <4>1 DEF DownAfter, Untouched
        <4> QED
          BY <1>6, <3>1, <4>2 DEF Sound, Held, Pressed, JogButtons
      <3> QED
        BY <1>4, <3>2, <3>3, <3>4
    <2> QED
      BY <1>1, <1>4, <1>10, <2>1, <2>2 DEF BlockedIsSeen
  <1>17. n'.alive /\ (n'.moving \/ n'.filtered) => Axes \subseteq Trusted
    BY <1>1, <1>6 DEF RemoteInv, NothingOlder, Handled
  <1>18. \A i \in DOMAIN queue' : queue'[i].val = 0 => queue'[i].ctl \in Trusted
    <2>1. DOMAIN queue' = 1..(len - 1) /\ DOMAIN queue = 1..len
      BY <1>0, <1>2, <1>4
    <2>2. \A i \in DOMAIN queue' : queue'[i] = queue[i + 1] /\ i + 1 \in DOMAIN queue
      BY <1>4, <2>1
    <2>3. \A i \in DOMAIN queue : queue[i].val = 0 => queue[i].ctl \in Trusted
      BY OldQueue
    <2> QED
      BY <2>2, <2>3
  <1>19. TypeOK /\ Sound(n', Trusted') /\ FileClosed'
    BY <1>1, <1>3, <1>6 DEF RemoteInv, FileClosed
  <1>30. RemoteInv'
    BY <1>1, <1>3, <1>4, <1>7, <1>14, <1>16, <1>17, <1>18, <1>19, NodeStep DEF TypeOK
  <1>31. Quieter
    BY <1>6 DEF Quieter, Handled
  <1> QED
    BY <1>30, <1>31

\* The last step of a tick.
LEMMA ActStep ==
    ASSUME RemoteInv, Act, n' \in Nodes, Sound(n', Trusted), SameInput(n, n'),
           n'.jogReady => MayJog,
           fd = "closed" => ~ n'.tracking /\ NoArm(n'),
           n'.alive /\ (n'.moving \/ n'.filtered) => Axes \subseteq Trusted
    PROVE  RemoteInv'
  <1>1. /\ pc = "act" /\ pc' = "idle"
        /\ fd' = fd /\ queue' = queue /\ wasHealthy' = wasHealthy /\ linkGen' = linkGen
        /\ Elsewhere
    BY DEF Act, Elsewhere, padVars
  <1>2. Trusted' = Trusted
    BY <1>1, SameTrusted
  <1>3. QueueLeadsToKnown' /\ BlockedIsSeen'
    <2>1. MayJog' => MayJog
      BY <1>1 DEF MayJog, SameInput
    <2> QED
      BY <1>1, <2>1, SameQueue DEF SameInput
  <1>4. FileClosed'
    BY <1>1 DEF RemoteInv, FileClosed, NoArm, Busy, SameInput
  <1>5. TypeOK /\ Sound(n', Trusted')
    BY <1>2 DEF RemoteInv
  <1> QED
    BY <1>1, <1>2, <1>3, <1>4, <1>5, OldQueue, NodeStep DEF TypeOK

\* The tick ends with zero, and what was under way is dropped.
LEMMA ActStops ==
    ASSUME RemoteInv, Act, NEW a \in Nodes, Sound(a, Trusted), SameInput(n, a),
           ~ a.tracking, NoArm(a), ~ a.jogReady, a.jog = 0, n' = PublishZero(a)
    PROVE  RemoteInv' /\ Quieter
  <1>1. /\ n' \in Nodes /\ ~ n'.moving /\ ~ n'.filtered /\ n'.joy = a.joy
        /\ SameInput(a, n') /\ SameStage(a, n') /\ SameJog(a, n')
        /\ SameRequest(a, n') /\ SameModes(a, n')
    BY ZeroFields
  <1>2. Owned(n') /\ Fresh(n', Trusted)
    BY <1>1
    DEF Sound, Owned, Fresh, NoArm, Busy, SameInput, SameStage, SameJog, SameRequest, SameModes
  <1>3. Held(n')
    BY <1>1, StageKeepsHeld DEF Sound, SameInput
  <1>4. ~ n'.tracking /\ NoArm(n') /\ ~ n'.jogReady /\ n'.jog = 0 /\ SameInput(n, n')
    BY <1>1 DEF SameModes, SameRequest, SameJog, SameInput, NoArm, Busy
  <1>5. Sound(n', Trusted)
    BY <1>2, <1>3 DEF Sound
  <1>6. ~ (n'.alive /\ (n'.moving \/ n'.filtered))
    BY <1>1
  <1>7. RemoteInv'
    BY <1>1, <1>4, <1>5, <1>6, ActStep
  <1> QED
    BY <1>4, <1>7 DEF Quieter, NoArm, Busy

LEMMA ActStartupPreserves == RemoteInv /\ ActStartup => RemoteInv' /\ Quieter
  <1> SUFFICES ASSUME RemoteInv, ActStartup PROVE RemoteInv' /\ Quieter
    OBVIOUS
  <1> DEFINE a == CancelTracking(n)
             b == UpdateJog(a, FALSE)
             c == Disarm(b)
             d == [c EXCEPT !.armed = FALSE, !.action = NoStep]
  <1>1. Act /\ n' = PublishZero(d) /\ n.stage # "running"
    BY DEF ActStartup, StartupPending
  <1>2. n \in Nodes /\ Sound(n, Trusted) /\ pose \in BOOLEAN
    BY InvSound
  <1>3. NoArm(n)
    BY <1>1, <1>2 DEF Sound, Owned
  <1>4. /\ a \in Nodes /\ Sound(a, Trusted) /\ ~ a.tracking
        /\ SameInput(n, a) /\ SameStage(n, a) /\ SameDrive(n, a) /\ SameJog(n, a)
        /\ NoArm(a)
    BY <1>2, <1>3, CancelTrackingSound
  <1> HIDE DEF a
  <1>5. /\ b \in Nodes /\ b.joy = a.joy
        /\ SameInput(a, b) /\ SameStage(a, b) /\ SameDrive(a, b) /\ SameRequest(a, b)
        /\ SameModes(a, b) /\ ~ b.jogReady /\ b.jog = 0
    BY <1>2, <1>4, JogFields DEF Nodes, Node
  <1> HIDE DEF b
  <1>6. /\ c \in Nodes
        /\ c.joy = [b.joy EXCEPT !.armed = FALSE, !.ready = FALSE, !.dir = 0]
        /\ SameInput(b, c) /\ SameStage(b, c) /\ SameDrive(b, c) /\ SameJog(b, c)
        /\ SameRequest(b, c) /\ SameModes(b, c)
    BY <1>5, DisarmFields
  <1>7. c.joy.dir = 0
    BY <1>5, <1>6 DEF Nodes, Node, Joy
  <1> HIDE DEF c
  <1>8. /\ d \in Nodes /\ d.joy = c.joy /\ ~ d.armed /\ d.action = NoStep
        /\ d.tracking = c.tracking /\ d.toggle = c.toggle /\ d.request = c.request
        /\ SameInput(c, d) /\ SameStage(c, d) /\ SameDrive(c, d) /\ SameJog(c, d)
    BY <1>6, NoStepIsStep
    DEF Nodes, Node, SameInput, SameStage, SameDrive, SameJog
  <1> HIDE DEF d
  <1>9. /\ ~ d.tracking /\ NoArm(d) /\ ~ d.jogReady /\ d.jog = 0 /\ SameInput(n, d)
        /\ d.joy.dir = 0 /\ d.toggle = a.toggle
        /\ SameInput(a, d) /\ SameStage(a, d)
    BY <1>4, <1>5, <1>6, <1>7, <1>8
    DEF NoArm, Busy, SameModes, SameRequest, SameJog, SameInput, SameStage
  <1>10. Sound(d, Trusted)
    <2>1. Owned(d) /\ Fresh(d, Trusted)
      BY <1>4, <1>8, <1>9 DEF Sound, Owned, Fresh, NoArm, Busy, SameInput, SameStage
    <2>2. Held(d)
      BY <1>9 DEF Held, NoArm, Busy
    <2> QED
      BY <2>1, <2>2 DEF Sound
  <1> QED
    BY <1>1, <1>8, <1>9, <1>10, ActStops

LEMMA ActStalePreserves == RemoteInv /\ ActStale => RemoteInv' /\ Quieter
  <1> SUFFICES ASSUME RemoteInv, ActStale PROVE RemoteInv' /\ Quieter
    OBVIOUS
  <1> DEFINE a == [n EXCEPT !.armed = FALSE]
             b == Stopped(a)
  <1>1. Act /\ n' = PublishZero(b)
    BY DEF ActStale
  <1>2. n \in Nodes /\ Sound(n, Trusted) /\ pose \in BOOLEAN
    BY InvSound
  <1>3. /\ a \in Nodes /\ SameInput(n, a) /\ SameStage(n, a) /\ ~ a.armed
        /\ a.toggle = n.toggle
    BY <1>2 DEF Nodes, Node, SameInput, SameStage
  <1> HIDE DEF a
  <1>4. /\ b \in Nodes /\ Rests(b) /\ b.armed = a.armed
        /\ SameInput(a, b) /\ SameStage(a, b)
    BY <1>2, <1>3, StoppedFields
  <1> HIDE DEF b
  <1>5. Owned(b) /\ Held(b) /\ Fresh(b, Trusted)
    BY <1>2, <1>3, <1>4
    DEF Sound, Owned, Held, Fresh, Rests, NoArm, Busy, JoyOff, SameInput, SameStage
  <1> QED
    BY <1>1, <1>3, <1>4, <1>5, ActStops DEF Sound, Rests, SameInput

LEMMA ActNotCentredPreserves == RemoteInv /\ ActNotCentred => RemoteInv' /\ Quieter
  <1> SUFFICES ASSUME RemoteInv, ActNotCentred PROVE RemoteInv' /\ Quieter
    OBVIOUS
  <1> DEFINE b == Stopped(n)
  <1>1. Act /\ n' = PublishZero(b)
    BY DEF ActNotCentred
  <1>2. n \in Nodes /\ Sound(n, Trusted) /\ pose \in BOOLEAN
    BY InvSound
  <1>3. /\ b \in Nodes /\ Rests(b) /\ b.armed = n.armed
        /\ SameInput(n, b) /\ SameStage(n, b)
    BY <1>2, StoppedFields
  <1> HIDE DEF b
  <1>4. Sound(b, Trusted)
    BY <1>2, <1>3, RestIsSound DEF Sound, SameStage
  <1> QED
    BY <1>1, <1>3, <1>4, ActStops DEF Rests, SameInput

\* A velocity follows the sticks of an armed node.
LEMMA DriveFields ==
    ASSUME NEW R, NEW m \in Nodes, Sound(m, R), ~ m.tracking, NEW enabled \in BOOLEAN,
           Drive(m, enabled)
    PROVE  /\ n' \in Nodes /\ Sound(n', R) /\ n'.joy = m.joy
           /\ SameInput(m, n') /\ SameStage(m, n') /\ SameJog(m, n') /\ SameRequest(m, n')
           /\ SameModes(m, n')
  <1>1. PICK f \in BOOLEAN, v \in BOOLEAN : n' = [m EXCEPT !.filtered = f, !.moving = v]
    BY DEF Drive
  <1>2. /\ n' \in Nodes /\ n'.joy = m.joy
        /\ SameInput(m, n') /\ SameStage(m, n') /\ SameJog(m, n') /\ SameRequest(m, n')
        /\ SameModes(m, n')
    BY <1>1 DEF Nodes, Node, SameInput, SameStage, SameJog, SameRequest, SameModes
  <1>3. Owned(n') /\ Fresh(n', R)
    BY <1>2
    DEF Sound, Owned, Fresh, NoArm, Busy, SameInput, SameStage, SameJog, SameRequest, SameModes
  <1>4. Held(n')
    BY <1>2, StageKeepsHeld DEF Sound, SameInput
  <1> QED
    BY <1>2, <1>3, <1>4 DEF Sound

\* While the stop button is held only the velocity fades.
LEMMA ActInactivePreserves == RemoteInv /\ ActInactive => RemoteInv' /\ Quieter
  <1> SUFFICES ASSUME RemoteInv, ActInactive PROVE RemoteInv' /\ Quieter
    OBVIOUS
  <1> DEFINE a == Armed(n)
             b == UpdateJog(a, FALSE)
             c == CancelTracking(b)
             d == Disarm(c)
             e == CancelAdjustment(d)
  <1>1. Act /\ n.stage = "running" /\ fd # "closed" /\ a.armed /\ Drive(e, FALSE)
    BY DEF ActInactive, StartupPending
  <1>2. n \in Nodes /\ Sound(n, Trusted) /\ pose \in BOOLEAN
    BY InvSound
  <1>3. /\ a \in Nodes /\ Sound(a, Trusted)
        /\ SameInput(n, a) /\ SameStage(n, a) /\ SameDrive(n, a)
    BY <1>1, <1>2, ArmedFields
  <1>10. a.armed
    BY <1>1
  <1> HIDE DEF a
  <1>4. /\ b \in Nodes /\ b.joy = a.joy
        /\ SameInput(a, b) /\ SameStage(a, b) /\ SameDrive(a, b) /\ SameRequest(a, b)
        /\ SameModes(a, b) /\ ~ b.jogReady /\ b.jog = 0
    BY <1>2, <1>3, JogFields DEF Nodes, Node
  <1> HIDE DEF b
  <1>5. /\ c \in Nodes /\ ~ c.tracking /\ ~ c.toggle /\ c.armed = b.armed
        /\ SameInput(b, c) /\ SameStage(b, c) /\ SameDrive(b, c) /\ SameJog(b, c)
    BY <1>4, TrackingFields DEF CancelTracking
  <1> HIDE DEF c
  <1>6. /\ d \in Nodes
        /\ d.joy = [c.joy EXCEPT !.armed = FALSE, !.ready = FALSE, !.dir = 0]
        /\ SameInput(c, d) /\ SameStage(c, d) /\ SameDrive(c, d) /\ SameJog(c, d)
        /\ SameModes(c, d)
    BY <1>5, DisarmFields
  <1>7. JoyOff(d)
    BY <1>5, <1>6 DEF JoyOff, Nodes, Node, Joy
  <1> HIDE DEF d
  <1>8. /\ e \in Nodes /\ e.joy = d.joy /\ NoArm(e) /\ SameModes(d, e)
        /\ SameInput(d, e) /\ SameStage(d, e) /\ SameDrive(d, e) /\ SameJog(d, e)
    BY <1>6, CancelFields DEF NoArm
  <1>11. Drive(e, FALSE)
    BY <1>1 DEF a, b, c, d
  <1> HIDE DEF e
  <1>9. Rests(e) /\ SameInput(a, e) /\ SameStage(a, e) /\ e.armed = a.armed
    BY <1>4, <1>5, <1>6, <1>7, <1>8
    DEF Rests, JoyOff, SameInput, SameStage, SameJog, SameModes
  <1>12. Sound(e, Trusted)
    BY <1>3, <1>8, <1>9, RestIsSound DEF Sound, SameStage
  <1>13. /\ n' \in Nodes /\ Sound(n', Trusted) /\ n'.joy = e.joy
         /\ SameInput(e, n') /\ SameJog(e, n') /\ SameRequest(e, n') /\ SameModes(e, n')
    BY <1>8, <1>9, <1>11, <1>12, DriveFields DEF Rests
  <1>14. Axes \subseteq Trusted
    BY <1>10, <1>3 DEF Sound, Fresh
  <1>15. SameInput(n, n') /\ ~ n'.jogReady /\ n'.jog = 0 /\ ~ n'.tracking /\ NoArm(n')
    BY <1>3, <1>9, <1>13
    DEF Rests, NoArm, Busy, SameInput, SameJog, SameRequest, SameModes
  <1>16. RemoteInv'
    BY <1>1, <1>13, <1>14, <1>15, ActStep
  <1> QED
    BY <1>15, <1>16 DEF Quieter, NoArm, Busy

\* A request is sent as the operator holds the controls, and a jog begins as the
\* buttons were read.
AsRead ==
    /\ n.request # "set" => Submits(n')
    /\ n'.jog # 0 => /\ n'.jogReady /\ n'.jog = n.at["plus"] - n.at["minus"]
                     /\ n.jogReady \/ \A b \in JogButtons : n.at[b] = 0

\* The one step that begins something.
LEMMA ActEnabledPreserves ==
    RemoteInv /\ ActEnabled => RemoteInv' /\ AsRead /\ pc = "act" /\ fd = "read"
  <1> SUFFICES ASSUME RemoteInv, ActEnabled
               PROVE  RemoteInv' /\ AsRead /\ pc = "act" /\ fd = "read"
    OBVIOUS
  <1> DEFINE a == Armed(n)
             b == UpdateJog(a, TRUE)
             c == ToggleTracking(b)
             d == Intervene(c)
  <1>1. \E m \in ArmOutcomes(d) : DriveUnlessTracking(m)
    BY Zenon DEF ActEnabled
  <1>2. Act /\ n.stage = "running" /\ fd # "closed" /\ a.armed /\ pc = "act"
    BY DEF ActEnabled, StartupPending, Act
  <1>22. n.seen # {}
    BY DEF ActEnabled
  <1>3. n \in Nodes /\ Sound(n, Trusted) /\ pose \in BOOLEAN /\ n.alive
    BY <1>2, InvSound DEF RemoteInv, FileClosed
  <1>4. /\ a \in Nodes /\ Sound(a, Trusted) /\ a.joy = n.joy
        /\ SameInput(n, a) /\ SameStage(n, a) /\ SameDrive(n, a) /\ SameJog(n, a)
        /\ SameRequest(n, a) /\ a.tracking = n.tracking
    BY <1>2, <1>3, ArmedFields
  <1>5. a.armed
    BY <1>2
  <1> HIDE DEF a
  <1>6. /\ b \in Nodes /\ Sound(b, Trusted)
        /\ SameInput(a, b) /\ SameStage(a, b) /\ SameDrive(a, b) /\ SameModes(a, b)
        /\ SameRequest(a, b)
        /\ b.jog # 0 => b.jogReady /\ b.jog = a.at["plus"] - a.at["minus"]
        /\ b.jogReady /\ ~ a.jogReady => \A x \in JogButtons : a.at[x] = 0
    BY <1>3, <1>4, JogSound
  <1>7. b.armed /\ b.alive
    BY <1>3, <1>4, <1>5, <1>6 DEF SameModes, SameStage
  <1> HIDE DEF b
  <1>8. /\ c \in Nodes /\ Sound(c, Trusted)
        /\ SameInput(b, c) /\ SameStage(b, c) /\ SameJog(b, c)
        /\ c.request = "set" => b.request = "set"
        /\ c.armed
    BY <1>6, <1>7, ToggleSound
  <1> HIDE DEF c
  <1>9. /\ d \in Nodes /\ Sound(d, Trusted) /\ d.armed
        /\ SameInput(c, d) /\ SameStage(c, d) /\ SameJog(c, d)
        /\ d.request = "set" => c.request = "set"
    BY <1>8, InterveneSound
  <1> HIDE DEF d
  <1>17. PICK m \in ArmOutcomes(d) : DriveUnlessTracking(m)
    BY <1>1
  <1>10. m \in Nodes /\ Sound(m, Trusted) /\ Framed(d, m) /\ (Submits(d) => Submits(m))
    <2>1. PICK late \in BOOLEAN, available \in BOOLEAN, due \in BOOLEAN :
             m = ArmControls(d, late, available, due)
      BY DEF ArmOutcomes
    <2> QED
      BY <1>3, <1>9, <2>1, ArmControlsSound
  <1>11. n.request # "set" => Submits(d)
    BY <1>4, <1>6, <1>8, <1>9 DEF Submits, SameRequest
  <1>12. n.request # "set" => Submits(m)
    BY <1>10, <1>11
  <1>13. /\ n' \in Nodes /\ Sound(n', Trusted) /\ n'.joy = m.joy
         /\ SameInput(m, n') /\ SameStage(m, n') /\ SameJog(m, n') /\ SameRequest(m, n')
         /\ SameModes(m, n')
    <2>1. CASE m.tracking /\ n' = PublishZero(m)
      <3>1. /\ n' \in Nodes /\ ~ n'.moving /\ ~ n'.filtered /\ n'.joy = m.joy
            /\ SameInput(m, n') /\ SameStage(m, n') /\ SameJog(m, n')
            /\ SameRequest(m, n') /\ SameModes(m, n')
        BY <1>10, <2>1, ZeroFields
      <3>2. Owned(n') /\ Fresh(n', Trusted)
        BY <1>10, <3>1
        DEF Sound, Owned, Fresh, NoArm, Busy, SameInput, SameStage, SameJog, SameRequest,
            SameModes
      <3>3. Held(n')
        BY <1>10, <3>1, StageKeepsHeld DEF Sound, SameInput
      <3> QED
        BY <3>1, <3>2, <3>3 DEF Sound
    <2>2. CASE ~ m.tracking /\ Drive(m, TRUE)
      <3> DEFINE yes == TRUE
      <3>1. yes \in BOOLEAN /\ Drive(m, yes)
        BY <2>2
      <3> HIDE DEF yes
      <3> QED
        BY <1>10, <2>2, <3>1, DriveFields
    <2> QED
      BY <1>17, <2>1, <2>2 DEF DriveUnlessTracking
  <1>14. n'.armed /\ SameInput(n, n') /\ SameJog(b, n')
    BY <1>4, <1>6, <1>8, <1>9, <1>10, <1>13
    DEF Framed, SameInput, SameJog, SameModes
  <1>15. Axes \subseteq Trusted
    BY <1>13, <1>14 DEF Sound, Fresh
  <1>16. n'.jogReady => n.jogReady \/ \A x \in JogButtons : n.at[x] = 0
    BY <1>4, <1>6, <1>14 DEF SameInput, SameJog
  <1>20. RemoteInv'
    BY <1>2, <1>13, <1>14, <1>15, <1>16, ActStep DEF MayJog, SameInput
  <1>18. n.request # "set" => Submits(n')
    BY <1>12, <1>13 DEF Submits, RepeatActive, SameInput, SameRequest
  <1>19. n'.jog # 0 => n'.jogReady /\ n'.jog = n.at["plus"] - n.at["minus"]
    BY <1>4, <1>6, <1>14 DEF SameInput, SameJog
  <1>21. fd = "read"
    BY <1>2, <1>22 DEF RemoteInv, TypeOK, FileClosed
  <1> QED
    BY <1>2, <1>21, <1>16, <1>18, <1>19, <1>20 DEF AsRead

------------------------------------------------------------------------------
(* What else happens *)

LEMMA FreshGrows ==
    ASSUME NEW m, NEW R, NEW S, R \subseteq S, Fresh(m, R)
    PROVE  Fresh(m, S)
  BY DEF Fresh

\* The node does nothing: what it relies on stays as it is or grows.
LEMMA EnvironmentStep ==
    ASSUME RemoteInv, UNCHANGED nodeVars, TypeOK', KnownRested', Trusted \subseteq Trusted',
           QueueLeadsToKnown', BlockedIsSeen', fd = "closed" => queue' = queue,
           \A i \in DOMAIN queue' : queue'[i].val = 0 => queue'[i].ctl \in Trusted'
    PROVE  RemoteInv' /\ Quieter
  <1>1. fd' = fd /\ pc' = pc /\ n' = n /\ linkGen' = linkGen
    BY DEF nodeVars
  <1>2. Owned(n)' /\ Held(n)'
    BY <1>1 DEF RemoteInv, Owned, Held, NoArm, Busy, RepeatActive, Active, Pressed
  <1>3. FileClosed'
    BY <1>1 DEF RemoteInv, FileClosed, NoArm, Busy
  <1>4. Fresh(n, Trusted')
    BY FreshGrows DEF RemoteInv, NothingOlder
  <1>5. NothingOlder'
    <2>1. Fresh(n', Trusted')
      BY <1>1, <1>4
    <2>2. n'.alive /\ (n'.moving \/ n'.filtered) =>
              \/ Axes \subseteq Trusted'
              \/ pc' # "idle" /\ fd' = "closed"
              \/ pc' = "act" /\ n'.seen = {}
      BY <1>1 DEF RemoteInv, NothingOlder
    <2> QED
      BY <2>1, <2>2 DEF NothingOlder
  <1> QED
    BY <1>1, <1>2, <1>3, <1>5 DEF RemoteInv, Quieter

LEMMA QueueStays ==
    ASSUME RemoteInv, UNCHANGED nodeVars, UNCHANGED <<known, queue, blocked>>
    PROVE  QueueLeadsToKnown' /\ BlockedIsSeen'
  <1>1. fd' = fd /\ pc' = pc /\ n' = n /\ known' = known /\ queue' = queue /\ blocked' = blocked
    BY DEF nodeVars
  <1>2. /\ \A b, i : Untouched(b, i)' <=> Untouched(b, i)
        /\ \A b, k, i : LastOf(b, k, i)' <=> LastOf(b, k, i)
    BY <1>1 DEF Untouched, LastOf
  <1>3. (MayJog' <=> MayJog) /\ \A b, i : DownAfter(b, i)' <=> DownAfter(b, i)
    BY <1>1, <1>2 DEF MayJog, DownAfter
  <1> QED
    BY <1>1, <1>2, <1>3 DEF RemoteInv, QueueLeadsToKnown, BlockedIsSeen

\* Changes arrive for an open file, the controls that changed among them.
LEMMA Arrives ==
    ASSUME RemoteInv, UNCHANGED nodeVars, NEW events \in Seq(Changes),
           queue' = queue \o events, known' \in Positions, blocked' = JogConflict(known'),
           \A k \in 1..Len(events) : events[k].val = known'[events[k].ctl],
           \A b \in JogButtons :
              known'[b] # known[b] => \E k \in 1..Len(events) : events[k].ctl = b
    PROVE  QueueLeadsToKnown' /\ BlockedIsSeen'
  <1>0. queue \in Seq(Changes) /\ known \in Positions /\ n \in Nodes
    BY DEF RemoteInv, TypeOK
  <1>1. fd' = fd /\ pc' = pc /\ n' = n
    BY DEF nodeVars
  <1>2. PICK len \in Nat, add \in Nat :
           len = Len(queue) /\ add = Len(events) /\ Len(queue') = len + add
    BY <1>0
  <1>3. /\ \A k \in 1..len : queue'[k] = queue[k]
        /\ \A k \in 1..add : queue'[len + k] = events[k]
    BY <1>0, <1>2
  <1>4. \A k \in (len + 1)..(len + add) : queue'[k].val = known'[queue'[k].ctl]
    <2> SUFFICES ASSUME NEW k \in (len + 1)..(len + add)
                 PROVE  queue'[k].val = known'[queue'[k].ctl]
      OBVIOUS
    <2>1. k - len \in 1..add /\ len + (k - len) = k
      BY <1>2
    <2> QED
      BY <1>2, <1>3, <2>1
  <1>5. \A b \in JogButtons : (\A k \in (len + 1)..(len + add) : queue'[k].ctl # b) =>
                                  known'[b] = known[b]
    <2> SUFFICES ASSUME NEW b \in JogButtons, known'[b] # known[b]
                 PROVE  \E k \in (len + 1)..(len + add) : queue'[k].ctl = b
      OBVIOUS
    <2>1. PICK k \in 1..add : events[k].ctl = b
      BY <1>2
    <2>2. len + k \in (len + 1)..(len + add)
      BY <1>2
    <2> QED
      BY <1>3, <2>1, <2>2
  <1>6. QueueLeadsToKnown'
    <2> SUFFICES ASSUME NEW b \in JogButtons
                 PROVE  /\ \A k \in 1..(len + add) :
                              LastOf(b, k, len + add)' => queue'[k].val = known'[b]
                        /\ fd = "read" /\ Untouched(b, len + add)' => n.at[b] = known'[b]
      BY <1>1, <1>2 DEF QueueLeadsToKnown
    <2>1. ASSUME NEW k \in 1..(len + add), LastOf(b, k, len + add)'
          PROVE  queue'[k].val = known'[b]
      <3>1. CASE k > len
        <4>1. k \in (len + 1)..(len + add) /\ queue'[k].ctl = b
          BY <1>2, <2>1, <3>1 DEF LastOf
        <4> QED
          BY <1>4, <4>1
      <3>2. CASE k <= len
        <4>1. k \in 1..len /\ queue[k].ctl = b /\ queue'[k] = queue[k]
          BY <1>2, <1>3, <2>1, <3>2 DEF LastOf
        <4>2. \A l \in 1..len : l > k => queue[l].ctl # b
          BY <1>2, <1>3, <2>1 DEF LastOf
        <4>3. \A l \in (len + 1)..(len + add) : queue'[l].ctl # b
          BY <1>2, <2>1, <3>2 DEF LastOf
        <4>4. LastOf(b, k, len)
          BY <4>1, <4>2 DEF LastOf
        <4>5. known'[b] = known[b]
          BY <1>5, <4>3
        <4> QED
          BY <1>2, <4>1, <4>4, <4>5 DEF RemoteInv, QueueLeadsToKnown
      <3> QED
        BY <1>2, <3>1, <3>2
    <2>2. ASSUME fd = "read", Untouched(b, len + add)' PROVE n.at[b] = known'[b]
      <3>1. /\ \A k \in 1..len : queue[k].ctl # b
            /\ \A k \in (len + 1)..(len + add) : queue'[k].ctl # b
        BY <1>2, <1>3, <2>2 DEF Untouched
      <3>2. Untouched(b, len)
        BY <3>1 DEF Untouched
      <3> QED
        BY <1>2, <1>5, <2>2, <3>1, <3>2 DEF RemoteInv, QueueLeadsToKnown
    <2> QED
      BY <2>1, <2>2
  <1>7. blocked' => \E b \in JogButtons : known'[b] # 0
    BY DEF JogConflict, JogButtons
  <1>8. ASSUME blocked', fd' = "read", MayJog'
        PROVE  \E i \in 1..(len + add) : \A b \in JogButtons : DownAfter(b, i)'
    <2>1. MayJog
      BY <1>1, <1>8 DEF MayJog
    <2>2. CASE \A b \in JogButtons : known'[b] # 0
      <3>1. \A b \in JogButtons : DownAfter(b, len + add)'
        BY <1>1, <1>2, <1>6, <1>8, <2>2 DEF QueueLeadsToKnown, DownAfter
      <3>2. len + add # 0
        <4> SUFFICES ASSUME len + add = 0 PROVE FALSE
          OBVIOUS
        <4>1. \A b \in JogButtons : n.at[b] # 0
          BY <1>1, <1>2, <3>1 DEF DownAfter, Untouched
        <4> QED
          BY <2>1, <4>1 DEF MayJog, RemoteInv, Held, Pressed, JogButtons
      <3> QED
        BY <1>2, <3>1, <3>2
    <2>3. CASE ~ \A b \in JogButtons : known'[b] # 0
      <3>1. blocked
        BY <1>8, <2>3 DEF JogConflict, JogButtons
      <3>2. PICK i \in 1..len : \A b \in JogButtons : DownAfter(b, i)
        BY <1>1, <1>2, <1>8, <2>1, <3>1 DEF RemoteInv, BlockedIsSeen
      <3>3. \A k \in 1..i : queue'[k] = queue[k]
        BY <1>2, <1>3
      <3>4. \A b \in JogButtons : DownAfter(b, i)'
        BY <1>1, <1>2, <3>2, <3>3 DEF DownAfter, Untouched, LastOf
      <3> QED
        BY <1>2, <3>4
    <2> QED
      BY <2>2, <2>3
  <1> QED
    BY <1>2, <1>6, <1>7, <1>8 DEF BlockedIsSeen

\* The same for a file that may be closed.
LEMMA ChangesArrive ==
    ASSUME RemoteInv, UNCHANGED nodeVars, NEW events \in Seq(Changes), Queued(events),
           known' \in Positions, blocked' = JogConflict(known'),
           \A k \in 1..Len(events) : events[k].val = known'[events[k].ctl],
           \A b \in JogButtons :
              known'[b] # known[b] => \E k \in 1..Len(events) : events[k].ctl = b,
           KnownRested', Trusted \subseteq Trusted', rested' \subseteq Trusted'
    PROVE  /\ QueueLeadsToKnown' /\ BlockedIsSeen' /\ queue' \in Seq(Changes)
           /\ fd = "closed" => queue' = queue
           /\ \A i \in DOMAIN queue' : queue'[i].val = 0 => queue'[i].ctl \in Trusted'
  <1>1. queue \in Seq(Changes)
    BY DEF RemoteInv, TypeOK
  <1>2. CASE fd = "closed"
    <2>1. queue' = <<>> /\ queue = <<>> /\ fd' = "closed"
      BY <1>2 DEF RemoteInv, FileClosed, Queued, nodeVars
    <2>2. QueueLeadsToKnown'
      BY <2>1 DEF QueueLeadsToKnown
    <2>3. blocked' => \E b \in JogButtons : known'[b] # 0
      BY DEF JogConflict, JogButtons
    <2>4. BlockedIsSeen'
      BY <2>1, <2>3 DEF BlockedIsSeen
    <2> QED
      BY <1>1, <2>1, <2>2, <2>4
  <1>3. CASE fd # "closed"
    <2>1. queue' = queue \o events
      BY <1>3 DEF Queued
    <2>2. QueueLeadsToKnown' /\ BlockedIsSeen'
      BY <2>1, Arrives
    <2>3. ASSUME NEW i \in DOMAIN queue', queue'[i].val = 0
          PROVE  queue'[i].ctl \in Trusted'
      <3>1. CASE i \in DOMAIN queue
        <4>1. queue'[i] = queue[i]
          BY <1>1, <2>1, <3>1
        <4>2. queue[i].val = 0 => queue[i].ctl \in Trusted
          BY <3>1, OldQueue
        <4> QED
          BY <2>3, <4>1, <4>2
      <3>2. CASE i \notin DOMAIN queue
        <4>1. PICK k \in 1..Len(events) : queue'[i] = events[k]
          <5>1. i - Len(queue) \in 1..Len(events) /\ queue'[i] = events[i - Len(queue)]
            BY <1>1, <2>1, <3>2
          <5> QED
            BY <5>1
        <4>2. events[k].ctl \in Controls /\ known'[events[k].ctl] = 0
          BY <2>3, <4>1 DEF Changes
        <4> QED
          BY <4>1, <4>2 DEF KnownRested
      <3> QED
        BY <3>1, <3>2
    <2> QED
      BY <1>1, <1>3, <2>1, <2>2, <2>3
  <1> QED
    BY <1>2, <1>3

LEMMA HandsFields ==
    ASSUME RemoteInv, NEW c \in DOMAIN hands
    PROVE  /\ c \in Controls /\ IsFiniteSet(DOMAIN hands) /\ DOMAIN hands \subseteq Controls
           /\ hands[c] \subseteq -2..2
           /\ c # "step" => hands[c] \subseteq 0..1
  BY ControlsAssumption DEF RemoteInv, TypeOK

\* The operator moves a control.
LEMMA OperatePreserves ==
    ASSUME RemoteInv, NEW c \in DOMAIN hands, NEW v \in hands[c], Operate(c, v)
    PROVE  RemoteInv' /\ Quieter
  <1> DEFINE event == [ctl |-> c, val |-> v]
             events == <<event>>
  <1>1. /\ c \in Controls /\ event \in Changes /\ v \in -2..2 /\ (c # "step" => v \in 0..1)
    BY HandsFields DEF Changes
  <1>2. TypeOK
    BY DEF RemoteInv
  <1>3. /\ pads' = [pads EXCEPT ![c] = v]
        /\ rested' = (IF v = 0 THEN rested \cup {c} ELSE rested)
        /\ UNCHANGED nodeVars /\ reach' = reach /\ healthy' = healthy
        /\ generation' = generation /\ hands' = hands /\ pose' = pose
    BY DEF Operate, linkVars
  <1>4. pads' \in Positions
    BY <1>1, <1>2, <1>3 DEF TypeOK, Positions
  <1>5. rested \subseteq rested' /\ rested' \in SUBSET Controls
    BY <1>1, <1>2, <1>3 DEF TypeOK
  <1>6. Trusted \subseteq Trusted' /\ rested' \subseteq Trusted'
    BY <1>3, <1>5 DEF Trusted, nodeVars
  <1>7. fd' = fd /\ pc' = pc /\ n' = n /\ wasHealthy' = wasHealthy /\ linkGen' = linkGen
    BY <1>3 DEF nodeVars
  <1>8. \A x \in Controls : pads'[x] = (IF x = c THEN v ELSE pads[x])
    BY <1>2, <1>3 DEF TypeOK, Positions
  <1>9. CASE reach
    <2>1. known' = pads' /\ Queued(events) /\ blocked' = JogConflict(known') /\ known = pads
      BY <1>9 DEF Operate, RemoteInv, KnownRested
    <2>2. KnownRested'
      <3>1. \A x \in Controls : pads'[x] = 0 => x \in rested'
        BY <1>3, <1>8 DEF RemoteInv, KnownRested
      <3>2. \A x \in Controls : x \notin DOMAIN hands' => pads'[x] = 0
        BY <1>3, <1>8 DEF RemoteInv, KnownRested
      <3> QED
        BY <2>1, <3>1, <3>2 DEF KnownRested
    <2>3. events \in Seq(Changes) /\ Len(events) = 1 /\ events[1] = event
      BY <1>1
    <2>4. event.ctl = c /\ event.val = v
      OBVIOUS
    <2> HIDE DEF events, event
    <2>5. \A k \in 1..Len(events) : events[k].val = known'[events[k].ctl]
      BY <1>1, <1>8, <2>1, <2>3, <2>4
    <2>6. \A b \in JogButtons :
              known'[b] # known[b] => \E k \in 1..Len(events) : events[k].ctl = b
      BY <1>8, <2>1, <2>3, <2>4 DEF JogButtons, Controls, Buttons
    <2>7. /\ QueueLeadsToKnown' /\ BlockedIsSeen' /\ queue' \in Seq(Changes)
          /\ fd = "closed" => queue' = queue
          /\ \A i \in DOMAIN queue' : queue'[i].val = 0 => queue'[i].ctl \in Trusted'
      BY <1>3, <1>4, <1>6, <2>1, <2>2, <2>3, <2>5, <2>6, ChangesArrive
    <2>8. blocked' \in BOOLEAN
      BY <1>2, <2>1 DEF JogConflict, TypeOK
    <2>9. TypeOK'
      BY <1>2, <1>3, <1>4, <1>5, <1>7, <2>1, <2>7, <2>8 DEF TypeOK
    <2> QED
      BY <1>3, <1>6, <2>2, <2>7, <2>9, EnvironmentStep
  <1>10. CASE ~ reach
    <2>1. UNCHANGED <<known, queue, blocked>>
      BY <1>10 DEF Operate
    <2>2. KnownRested'
      <3>1. \A x \in Controls : pads'[x] = 0 \/ known[x] = 0 => x \in rested'
        BY <1>3, <1>5, <1>8 DEF RemoteInv, KnownRested
      <3>2. \A x \in Controls : x \notin DOMAIN hands' => pads'[x] = 0 /\ known[x] = 0
        BY <1>3, <1>8 DEF RemoteInv, KnownRested
      <3> QED
        BY <1>3, <1>10, <2>1, <3>1, <3>2 DEF KnownRested
    <2>3. QueueLeadsToKnown' /\ BlockedIsSeen'
      BY <1>3, <2>1, QueueStays
    <2>4. TypeOK'
      BY <1>2, <1>3, <1>4, <1>5, <1>7, <2>1 DEF TypeOK
    <2>5. \A i \in DOMAIN queue' : queue'[i].val = 0 => queue'[i].ctl \in Trusted'
      BY <1>6, <2>1, OldQueue
    <2> QED
      BY <1>3, <1>6, <2>1, <2>2, <2>3, <2>4, <2>5, EnvironmentStep
  <1> QED
    BY <1>9, <1>10

\* Whatever the order in which the controls that changed are reported, each is.
LEMMA OrderCovers ==
    ASSUME NEW S, IsFiniteSet(S), NEW order \in SetToSeqs(S)
    PROVE  /\ order \in Seq(S) /\ DOMAIN order = 1..Len(order)
           /\ \A c \in S : \E k \in 1..Len(order) : order[k] = c
  <1> DEFINE D == 1..Cardinality(S)
  <1>1. Cardinality(S) \in Nat
    BY FS_CardinalityType
  <1>2. order \in [D -> S] /\ \A i, j \in D : i # j => order[i] # order[j]
    BY DEF SetToSeqs
  <1>3. order \in Seq(S) /\ Len(order) = Cardinality(S) /\ DOMAIN order = D
    BY <1>1, <1>2
  <1>4. order \in Injection(D, S)
    BY <1>2 DEF Injection, IsInjective
  <1>5. Cardinality(D) = Cardinality(S)
    BY <1>1, FS_Interval
  <1>6. order \in Surjection(D, S)
    BY <1>4, <1>5, FS_Injection
  <1> QED
    BY <1>3, <1>6 DEF Surjection

\* The pad is back in range and reports what changed.
LEMMA RangeBackPreserves == RemoteInv /\ RangeBack => RemoteInv' /\ Quieter
  <1> SUFFICES ASSUME RemoteInv, RangeBack PROVE RemoteInv' /\ Quieter
    OBVIOUS
  <1> DEFINE S == {c \in DOMAIN hands : known[c] # pads[c]}
  <1>1. PICK order \in SetToSeqs(S) :
           Queued([i \in DOMAIN order |-> [ctl |-> order[i], val |-> pads[order[i]]]])
    BY DEF RangeBack
  <1> DEFINE events == [i \in DOMAIN order |-> [ctl |-> order[i], val |-> pads[order[i]]]]
  <1>2. TypeOK
    BY DEF RemoteInv
  <1>3. /\ reach' = TRUE /\ known' = pads /\ pads' = pads /\ blocked' = JogConflict(known')
        /\ UNCHANGED nodeVars /\ healthy' = healthy /\ generation' = generation
        /\ hands' = hands /\ pose' = pose /\ rested' = rested
    BY DEF RangeBack
  <1>4. DOMAIN hands \subseteq Controls /\ IsFiniteSet(DOMAIN hands)
    BY <1>2, ControlsAssumption DEF TypeOK
  <1>5. IsFiniteSet(S)
    BY <1>4, FS_Subset
  <1>7. \A c \in S : c \in Controls /\ known[c] # pads[c]
    BY <1>4
  <1>8. \A b \in JogButtons : pads[b] # known[b] => b \in S
    BY DEF RemoteInv, KnownRested, JogButtons, Controls, Buttons
  <1> HIDE DEF S
  <1>6. /\ order \in Seq(S) /\ DOMAIN order = 1..Len(order)
        /\ \A c \in S : \E k \in 1..Len(order) : order[k] = c
    BY <1>5, OrderCovers
  <1>9. /\ events \in Seq(Changes) /\ Len(events) = Len(order)
        /\ \A k \in 1..Len(order) : events[k].ctl = order[k] /\ events[k].val = pads[order[k]]
    <2>1. \A k \in 1..Len(order) : [ctl |-> order[k], val |-> pads[order[k]]] \in Changes
      BY <1>2, <1>6, <1>7 DEF TypeOK, Positions, Changes
    <2>2. events \in [1..Len(order) -> Changes] /\ Len(order) \in Nat
      BY <1>6, <2>1
    <2> QED
      BY <1>6, <2>2
  <1> HIDE DEF events
  <1>10. Queued(events)
    BY <1>1 DEF events
  <1>11. \A k \in 1..Len(events) : events[k].val = known'[events[k].ctl]
    BY <1>3, <1>9
  <1>12. \A b \in JogButtons :
              known'[b] # known[b] => \E k \in 1..Len(events) : events[k].ctl = b
    BY <1>3, <1>6, <1>8, <1>9
  <1>13. KnownRested'
    BY <1>3 DEF RemoteInv, KnownRested
  <1>14. Trusted \subseteq Trusted' /\ rested' \subseteq Trusted' /\ known' \in Positions
    BY <1>2, <1>3 DEF TypeOK, Trusted, nodeVars
  <1>15. /\ QueueLeadsToKnown' /\ BlockedIsSeen' /\ queue' \in Seq(Changes)
         /\ fd = "closed" => queue' = queue
         /\ \A i \in DOMAIN queue' : queue'[i].val = 0 => queue'[i].ctl \in Trusted'
    BY <1>3, <1>9, <1>10, <1>11, <1>12, <1>13, <1>14, ChangesArrive
  <1>16. blocked' \in BOOLEAN
    BY <1>2, <1>3 DEF JogConflict, TypeOK
  <1>17. TypeOK'
    BY <1>2, <1>3, <1>14, <1>15, <1>16 DEF TypeOK, nodeVars
  <1> QED
    BY <1>3, <1>13, <1>14, <1>15, <1>17, EnvironmentStep

\* What an environment step that moves no control leaves of the invariant's state.
LEMMA PadsStay ==
    ASSUME RemoteInv, UNCHANGED <<padVars, nodeVars, blocked>>, reach' \in BOOLEAN,
           reach' => reach, healthy' \in BOOLEAN, pose' \in BOOLEAN,
           generation' \in Nat, generation <= generation', rested' \in SUBSET Controls,
           \A c \in Controls : pads[c] = 0 \/ known[c] = 0 => c \in rested',
           Trusted \subseteq Trusted'
    PROVE  RemoteInv' /\ Quieter
  <1>1. /\ hands' = hands /\ pads' = pads /\ known' = known /\ queue' = queue
        /\ fd' = fd /\ pc' = pc /\ n' = n /\ wasHealthy' = wasHealthy /\ linkGen' = linkGen
        /\ blocked' = blocked
    BY DEF padVars, nodeVars
  <1>2. TypeOK
    BY DEF RemoteInv
  <1>3. linkGen <= generation'
    BY <1>2 DEF TypeOK
  <1>4. TypeOK'
    BY <1>1, <1>2, <1>3 DEF TypeOK
  <1>5. KnownRested'
    BY <1>1 DEF RemoteInv, KnownRested
  <1>6. QueueLeadsToKnown' /\ BlockedIsSeen'
    BY <1>1, QueueStays
  <1>7. \A i \in DOMAIN queue' : queue'[i].val = 0 => queue'[i].ctl \in Trusted'
    BY <1>1, OldQueue
  <1> QED
    BY <1>1, <1>4, <1>5, <1>6, <1>7, EnvironmentStep

\* A success after a loss begins a generation: nothing is relied on until the node has
\* noticed it.
LEMMA MonitorSucceedsPreserves == RemoteInv /\ MonitorSucceeds => RemoteInv' /\ Quieter
  <1> SUFFICES ASSUME RemoteInv, MonitorSucceeds PROVE RemoteInv' /\ Quieter
    OBVIOUS
  <1>1. PICK recovering \in BOOLEAN : ProbeSucceeds(recovering)
    BY DEF MonitorSucceeds
  <1>2. TypeOK /\ KnownRested
    BY DEF RemoteInv
  <1>3. /\ UNCHANGED <<padVars, nodeVars, blocked>> /\ pose' = pose
        /\ reach /\ reach' = reach /\ healthy' = TRUE /\ linkGen' = linkGen
        /\ rested' = (IF ~healthy \/ age = "old" THEN {c \in Controls : pads[c] = 0} ELSE rested)
        /\ recovering \in Recovering
        /\ generation' = (IF recovering THEN generation + 1 ELSE generation)
    BY <1>1 DEF MonitorSucceeds, ProbeSucceeds, nodeVars
  <1>4. /\ generation' \in Nat /\ generation <= generation' /\ rested' \in SUBSET Controls
        /\ \A c \in Controls : pads[c] = 0 \/ known[c] = 0 => c \in rested'
    BY <1>2, <1>3 DEF TypeOK, KnownRested
  <1>5. Trusted \subseteq Trusted'
    <2>1. CASE recovering
      <3>1. linkGen' # generation'
        BY <1>2, <1>3, <2>1 DEF TypeOK
      <3> QED
        BY <1>2, <3>1 DEF TypeOK, Trusted
    <2>2. CASE ~ recovering
      <3>1. healthy /\ age \in {"fresh", "due"}
        BY <1>2, <1>3, <2>2 DEF TypeOK, Recovering
      <3> QED
        BY <1>3, <2>2, <3>1 DEF Trusted
    <2> QED
      BY <2>1, <2>2
  <1> QED
    BY <1>2, <1>3, <1>4, <1>5, PadsStay DEF TypeOK

LEMMA LinkStepsPreserve ==
    RemoteInv /\ (MonitorFails \/ MonitorExpires \/ RangeLost) => RemoteInv' /\ Quieter
  <1> SUFFICES ASSUME RemoteInv, MonitorFails \/ MonitorExpires \/ RangeLost
               PROVE  RemoteInv' /\ Quieter
    OBVIOUS
  <1>1. TypeOK /\ KnownRested
    BY DEF RemoteInv
  <1>2. /\ UNCHANGED <<padVars, nodeVars, blocked>> /\ pose' = pose /\ rested' = rested
        /\ generation' = generation /\ linkGen' = linkGen
        /\ reach' = FALSE \/ reach' = reach
        /\ healthy' = FALSE \/ healthy' = healthy
    BY DEF MonitorFails, MonitorExpires, RangeLost, ProbeFails, Expire, nodeVars
  <1>3. Trusted' = Trusted
    BY <1>2 DEF Trusted
  <1>4. reach' \in BOOLEAN /\ healthy' \in BOOLEAN
    BY <1>1, <1>2 DEF TypeOK
  <1>5. reach' => reach
    BY <1>2
  <1> QED
    BY <1>1, <1>2, <1>3, <1>4, <1>5, PadsStay DEF TypeOK, KnownRested

LEMMA PoseStepsPreserve == RemoteInv /\ (PoseArrives \/ PoseFades) => RemoteInv' /\ Quieter
  <1> SUFFICES ASSUME RemoteInv, PoseArrives \/ PoseFades PROVE RemoteInv' /\ Quieter
    OBVIOUS
  <1>1. TypeOK /\ KnownRested
    BY DEF RemoteInv
  <1>2. /\ UNCHANGED <<padVars, nodeVars, blocked>> /\ pose' \in BOOLEAN /\ rested' = rested
        /\ generation' = generation /\ linkGen' = linkGen
        /\ reach' = reach /\ healthy' = healthy
    BY DEF PoseArrives, PoseFades, nodeVars, linkVars
  <1>3. Trusted' = Trusted
    BY <1>2 DEF Trusted
  <1> QED
    BY <1>1, <1>2, <1>3, PadsStay DEF TypeOK, KnownRested

LEMMA StutterPreserves == RemoteInv /\ UNCHANGED vars => RemoteInv' /\ Quieter
  <1> SUFFICES ASSUME RemoteInv, UNCHANGED vars PROVE RemoteInv' /\ Quieter
    OBVIOUS
  <1>1. TypeOK /\ KnownRested
    BY DEF RemoteInv
  <1>2. /\ UNCHANGED <<padVars, nodeVars, blocked>> /\ pose' = pose /\ rested' = rested
        /\ generation' = generation /\ linkGen' = linkGen
        /\ reach' = reach /\ healthy' = healthy
    BY DEF vars, nodeVars, linkVars
  <1>3. Trusted' = Trusted
    BY <1>2 DEF Trusted
  <1> QED
    BY <1>1, <1>2, <1>3, PadsStay DEF TypeOK, KnownRested

\* Between two ticks main() moves the session on, or the arm answers.
LEMMA BetweenTicks ==
    ASSUME RemoteInv, Elsewhere, pc = "idle", UNCHANGED <<queue, fd, pc, wasHealthy, linkGen>>,
           n' \in Nodes, Sound(n', Trusted), SameInput(n, n'), SameDrive(n, n'), SameJog(n, n'),
           n'.request = n.request, n'.action = n.action, n'.tracking = n.tracking,
           n'.alive => n.alive
    PROVE  RemoteInv' /\ Quieter
  <1>1. Trusted' = Trusted
    BY SameTrusted
  <1>2. QueueLeadsToKnown' /\ BlockedIsSeen'
    <2>1. MayJog' => MayJog
      BY DEF MayJog, SameJog
    <2> QED
      BY <2>1, SameQueue DEF SameInput
  <1>3. FileClosed'
    BY DEF RemoteInv, FileClosed, NoArm, Busy, SameInput
  <1>4. TypeOK /\ Sound(n', Trusted')
    BY <1>1 DEF RemoteInv
  <1>5. n'.alive /\ (n'.moving \/ n'.filtered) => Axes \subseteq Trusted'
    BY <1>1 DEF RemoteInv, NothingOlder, SameDrive
  <1>6. RemoteInv'
    BY <1>1, <1>2, <1>3, <1>4, <1>5, OldQueue, NodeStep DEF TypeOK
  <1> QED
    BY <1>6 DEF Quieter, SameJog

LEMMA MainStartsPreserves == RemoteInv /\ MainStarts => RemoteInv' /\ Quieter
  <1> SUFFICES ASSUME RemoteInv, MainStarts PROVE RemoteInv' /\ Quieter
    OBVIOUS
  <1>1. /\ pc = "idle" /\ n.alive /\ n.stage = "requested" /\ n' = [n EXCEPT !.stage = "starting"]
        /\ UNCHANGED <<queue, fd, pc, wasHealthy, linkGen>> /\ Elsewhere
    BY DEF MainStarts, OnExecutor, Elsewhere, padVars
  <1>2. n \in Nodes /\ Sound(n, Trusted)
    BY InvSound
  <1>3. /\ n' \in Nodes /\ n'.stage = "starting" /\ n'.alive = n.alive /\ n'.joy = n.joy
        /\ SameInput(n, n') /\ SameDrive(n, n') /\ SameJog(n, n') /\ SameRequest(n, n')
        /\ SameModes(n, n')
    BY <1>1, <1>2 DEF Nodes, Node, SameInput, SameDrive, SameJog, SameRequest, SameModes
  <1>4. Owned(n') /\ Fresh(n', Trusted)
    BY <1>1, <1>2, <1>3
    DEF Sound, Owned, Fresh, NoArm, Busy, SameInput, SameDrive, SameJog, SameRequest, SameModes
  <1>5. Held(n')
    BY <1>2, <1>3, StageKeepsHeld DEF Sound, SameInput
  <1> QED
    BY <1>1, <1>3, <1>4, <1>5, BetweenTicks DEF Sound, SameRequest, SameModes

LEMMA MainRunsPreserves == RemoteInv /\ MainRuns => RemoteInv' /\ Quieter
  <1> SUFFICES ASSUME RemoteInv, MainRuns PROVE RemoteInv' /\ Quieter
    OBVIOUS
  <1>1. /\ pc = "idle" /\ n.alive /\ n.stage = "starting"
        /\ UNCHANGED <<queue, fd, pc, wasHealthy, linkGen>> /\ Elsewhere
    BY DEF MainRuns, OnExecutor, Elsewhere, padVars
  <1>2. n \in Nodes /\ Sound(n, Trusted)
    BY InvSound
  <1>3. ~ n.tracking /\ ~ n.armed /\ NoArm(n)
    BY <1>1, <1>2 DEF Sound, Owned
  <1>4. /\ n' \in Nodes /\ n'.joy = n.joy
        /\ n'.stage = "running" \/ ~ n'.alive
        /\ n'.alive => n.alive
        /\ SameInput(n, n') /\ SameDrive(n, n') /\ SameJog(n, n') /\ SameRequest(n, n')
        /\ SameModes(n, n')
    <2>1. CASE n' = [n EXCEPT !.stage = "running"]
      BY <1>1, <1>2, <2>1 DEF Nodes, Node, SameInput, SameDrive, SameJog, SameRequest, SameModes
    <2>2. CASE n' = [n EXCEPT !.alive = FALSE]
      BY <1>1, <1>2, <2>2 DEF Nodes, Node, SameInput, SameDrive, SameJog, SameRequest, SameModes
    <2> QED
      BY <2>1, <2>2 DEF MainRuns
  <1>5. Owned(n') /\ Fresh(n', Trusted)
    BY <1>2, <1>3, <1>4
    DEF Sound, Owned, Fresh, NoArm, Busy, SameInput, SameDrive, SameJog, SameRequest, SameModes
  <1>6. Held(n')
    BY <1>2, <1>4, StageKeepsHeld DEF Sound, SameInput
  <1> QED
    BY <1>1, <1>4, <1>5, <1>6, BetweenTicks DEF Sound, SameRequest, SameModes

LEMMA AnswerPreserves == RemoteInv /\ Answer => RemoteInv' /\ Quieter
  <1> SUFFICES ASSUME RemoteInv, Answer PROVE RemoteInv' /\ Quieter
    OBVIOUS
  <1>1. /\ pc = "idle" /\ UNCHANGED <<queue, fd, pc, wasHealthy, linkGen>> /\ Elsewhere
    BY DEF Answer, OnExecutor, Elsewhere, padVars
  <1>2. PICK a \in {"good", "bad"} : n' = [n EXCEPT !.answer = a]
    BY DEF Answer
  <1>3. n \in Nodes /\ Sound(n, Trusted)
    BY InvSound
  <1>4. /\ n' \in Nodes /\ n'.joy = n.joy /\ n'.action = n.action
        /\ n'.request = n.request /\ n'.asked = n.asked
        /\ SameInput(n, n') /\ SameStage(n, n') /\ SameDrive(n, n') /\ SameJog(n, n')
        /\ SameModes(n, n')
    BY <1>2, <1>3 DEF Nodes, Node, SameInput, SameStage, SameDrive, SameJog, SameModes
  <1>5. Owned(n') /\ Fresh(n', Trusted)
    BY <1>3, <1>4
    DEF Sound, Owned, Fresh, NoArm, Busy, SameInput, SameStage, SameDrive, SameJog, SameModes
  <1>6. Held(n')
    BY <1>3, <1>4 DEF Sound, Held, RepeatActive, Pressed, SameInput, SameJog
  <1> QED
    BY <1>1, <1>4, <1>5, <1>6, BetweenTicks DEF Sound, SameStage, SameModes

------------------------------------------------------------------------------
(* The theorems *)

LEMMA InitSound == Init => RemoteInv
  <1> SUFFICES ASSUME Init PROVE RemoteInv
    OBVIOUS
  <1>1. PICK p \in [DOMAIN hands -> -2..2] :
           /\ \A c \in DOMAIN hands : p[c] \in hands[c]
           /\ pads = [c \in Controls |-> IF c \in DOMAIN hands THEN p[c] ELSE 0]
    BY DEF Init
  <1>2. PICK stage \in Stages : n = [FreshNode EXCEPT !.stage = stage]
    BY DEF Init
  <1>3. /\ hands \in Hands /\ known = pads /\ queue = <<>> /\ fd \in {"closed", "opened"}
        /\ pc = "idle" /\ wasHealthy = FALSE /\ linkGen = 0 /\ pose = FALSE
        /\ rested = {c \in Controls : pads[c] = 0}
        /\ blocked = (\A b \in JogButtons : pads[b] # 0)
        /\ reach \in BOOLEAN /\ healthy = FALSE /\ generation = 0
    BY DEF Init, LinkInit
  <1>4. pads \in Positions
    <2>1. \A c \in DOMAIN hands : c # "step" => p[c] \in 0..1
      BY <1>1, <1>3, ControlsAssumption
    <2> QED
      BY <1>1, <2>1 DEF Positions
  <1>5. AtRest \in Positions /\ AtRest \in [Controls -> -2..2] /\ stage \in {"waiting", "running"}
    BY <1>2, ControlsAssumption DEF AtRest, Positions
  <1>6. /\ n \in Nodes /\ n.seen = {} /\ n.released = {} /\ ~ n.armed /\ ~ n.toggle
        /\ ~ n.tracking /\ ~ n.jogReady /\ n.jog = 0 /\ ~ n.moving /\ ~ n.filtered
        /\ n.joy.dir = 0 /\ NoArm(n) /\ n.stage \in {"waiting", "running"} /\ n.alive
    <2> DEFINE f == FreshNode
    <2>1. f \in Nodes
      BY <1>5, NoStepIsStep DEF FreshNode, Nodes, Node, Joy, Coordinates
    <2>2. /\ f.seen = {} /\ f.released = {} /\ ~ f.armed /\ ~ f.toggle
          /\ ~ f.tracking /\ ~ f.jogReady /\ f.jog = 0 /\ ~ f.moving /\ ~ f.filtered
          /\ f.joy.dir = 0 /\ f.request = "none" /\ f.action = NoStep /\ f.alive
      BY DEF FreshNode
    <2> HIDE DEF f
    <2>3. n = [f EXCEPT !.stage = stage]
      BY <1>2 DEF f
    <2>4. n \in Nodes /\ n.stage = stage
      BY <1>5, <2>1, <2>3 DEF Nodes, Node
    <2>5. /\ n.seen = f.seen /\ n.released = f.released /\ n.armed = f.armed
          /\ n.toggle = f.toggle /\ n.tracking = f.tracking /\ n.jogReady = f.jogReady
          /\ n.jog = f.jog /\ n.moving = f.moving /\ n.filtered = f.filtered
          /\ n.joy = f.joy /\ n.request = f.request /\ n.action = f.action
          /\ n.alive = f.alive
      BY <2>1, <2>3 DEF Nodes, Node
    <2> QED
      BY <1>5, <2>2, <2>4, <2>5 DEF NoArm, Busy
  <1>7. blocked \in BOOLEAN /\ (blocked => \E b \in JogButtons : known[b] # 0)
    BY <1>3 DEF JogButtons
  <1>8. TypeOK
    <2>1. queue \in Seq(Changes) /\ linkGen \in Nat /\ generation \in Nat /\ linkGen <= generation
      BY <1>3
    <2>2. wasHealthy \in BOOLEAN /\ healthy \in BOOLEAN /\ pose \in BOOLEAN
      BY <1>3
    <2>3. rested \in SUBSET Controls
      BY <1>3
    <2> QED
      BY <1>3, <1>4, <1>6, <1>7, <2>1, <2>2, <2>3 DEF TypeOK
  <1>9. Owned(n) /\ Held(n) /\ FileClosed
    BY <1>3, <1>6 DEF Owned, Held, FileClosed, NoArm, Busy
  <1>10. KnownRested
    BY <1>1, <1>3 DEF KnownRested
  <1>11. NothingOlder
    BY <1>3, <1>6 DEF NothingOlder, Fresh, Trusted
  <1>12. QueueLeadsToKnown /\ BlockedIsSeen
    BY <1>3, <1>7 DEF QueueLeadsToKnown, BlockedIsSeen
  <1> QED
    BY <1>8, <1>9, <1>10, <1>11, <1>12 DEF RemoteInv

\* Every step keeps the invariant; only the one that ends an enabled tick sends a
\* request or begins a jog.
LEMMA NextSound ==
    ASSUME RemoteInv, [Next]_vars
    PROVE  RemoteInv' /\ (Quieter \/ (AsRead /\ pc = "act" /\ fd = "read"))
  <1>1. ASSUME Timer
        PROVE  RemoteInv' /\ (Quieter \/ (AsRead /\ pc = "act" /\ fd = "read"))
    BY <1>1, TickUnhealthyPreserves, TickReconnectedPreserves, TickPreserves,
       OpenFailsPreserves, OpenSucceedsPreserves, ReadInitPreserves, ReadEventPreserves,
       ReadAgainPreserves, ReadFailsPreserves, ActStartupPreserves, ActStalePreserves,
       ActNotCentredPreserves, ActInactivePreserves, ActEnabledPreserves DEF Timer
  <1>2. ASSUME Environment PROVE RemoteInv' /\ Quieter
    BY <1>2, MainStartsPreserves, MainRunsPreserves, PoseStepsPreserve, AnswerPreserves,
       OperatePreserves, RangeBackPreserves, MonitorSucceedsPreserves, LinkStepsPreserve
    DEF Environment
  <1> QED
    BY <1>1, <1>2, StutterPreserves DEF Next

\* The inductive invariant holds of every state the remote control reaches.
THEOREM RemoteInvariance == Spec => []RemoteInv
  <1>1. RemoteInv /\ [Next]_vars => RemoteInv'
    BY NextSound
  <1> QED
    BY InitSound, <1>1, PTL DEF Spec

\* OneOwner: while visual tracking owns the chassis and the arm, the remote
\* control asks neither for a velocity nor for an arm step.
THEOREM TrackingAlone == Spec => []OneOwner
  <1>1. RemoteInv => OneOwner
    BY DEF RemoteInv, Owned, OneOwner
  <1> QED
    BY RemoteInvariance, <1>1, PTL

\* FreshInput: what is commanded after a tick on a verified link comes from
\* controls that were at rest since the link was verified.
THEOREM CommandsAreFresh == Spec => []FreshInput
  <1>1. RemoteInv => FreshInput
    <2> SUFFICES ASSUME RemoteInv, pc = "idle", n.alive, linkGen = generation
                 PROVE  /\ n.moving => Axes \subseteq rested
                        /\ n.jog # 0 => JogButtons \subseteq rested
                        /\ n.tracking => Axes \cup {"tracking"} \subseteq rested
                        /\ Busy(n) => StepControls \subseteq rested
                        /\ n.stage \in {"requested", "starting"} =>
                              {"start", "emergency"} \subseteq rested
      BY DEF FreshInput
    <2>1. Trusted = rested
      BY DEF Trusted
    <2>2. Fresh(n, rested) /\ (n.moving => Axes \subseteq rested)
      BY <2>1 DEF RemoteInv, NothingOlder
    <2> QED
      BY <2>2 DEF Fresh, NoArm
  <1> QED
    BY RemoteInvariance, <1>1, PTL

\* ActsAsHeld: a step is sent as the operator holds the lever, and a fourth-axis
\* jog begins as he holds the buttons.
THEOREM ActionsAreHeld == Spec => ActsAsHeld
  <1> DEFINE Request ==
                 n.request # "set" /\ n'.request = "set" =>
                     /\ n'.asked.coord = n'.joy.coord
                     /\ n'.asked.repeated => RepeatActive(n') /\ n'.asked.dir = n'.joy.dir
             Jog ==
                 n'.jog # n.jog /\ n'.jog # 0 /\ queue = <<>> =>
                     ~blocked /\ n'.jog = known["plus"] - known["minus"]
  <1>1. RemoteInv /\ [Next]_vars => [Request /\ Jog]_vars
    <2> SUFFICES ASSUME RemoteInv, [Next]_vars PROVE Request /\ Jog
      OBVIOUS
    <2>1. CASE Quieter
      BY <2>1 DEF Quieter
    <2>2. CASE AsRead /\ pc = "act" /\ fd = "read"
      <3>1. Request
        BY <2>2 DEF AsRead, Submits
      <3>2. ASSUME n'.jog # 0, queue = <<>>
            PROVE  ~ blocked /\ n'.jog = known["plus"] - known["minus"]
        <4>1. MayJog /\ n'.jog = n.at["plus"] - n.at["minus"]
          BY <2>2, <3>2 DEF AsRead, MayJog
        <4>2. Len(queue) = 0
          BY <3>2
        <4>3. \A b \in JogButtons : n.at[b] = known[b]
          BY <2>2, <4>2 DEF RemoteInv, QueueLeadsToKnown, Untouched
        <4>4. ~ blocked
          BY <2>2, <4>1, <4>2 DEF RemoteInv, BlockedIsSeen
        <4> QED
          BY <4>1, <4>3, <4>4 DEF JogButtons
      <3> QED
        BY <3>1, <3>2
    <2> QED
      BY <2>1, <2>2, NextSound
  <1> QED
    BY RemoteInvariance, <1>1, PTL DEF Spec, ActsAsHeld
===============================================================================
