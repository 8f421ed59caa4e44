---------------------------- MODULE VisionPipeline ----------------------------
(***************************************************************************)
(* From the camera to a target for the arm: the Gemini camera, the pair of *)
(* markers in its image, and the gate (ArmTracker, ArmApproach) that lets  *)
(* a target pass.  One run of example/arm_tracking.py, or of               *)
(* example/qr_midpoint.py, which only looks.                               *)
(*                                                                         *)
(* The program reads its own clock; the camera stamps an image when it is  *)
(* taken and delivers it later, perhaps twice or out of order.  Both       *)
(* clocks run at the same rate: here they agree, the program does not      *)
(* know it.  Lengths and times are small numbers.                          *)
(***************************************************************************)
EXTENDS Integers, Sequences, FiniteSets

CONSTANTS
    Modes,       \* subset of {"look", "pixel", "pixel-depth", "depth", "approach"}
    Views,       \* what an image may show: its markers, left to right, and their depth
    Wanted,      \* the two markers asked for
    MinFrames,   \* min_valid_frames
    MaxAge,      \* max_frame_age_s and max_pose_age_s
    MaxJump,     \* max_target_jump_m
    Settle,      \* SETTLE_TIME_S
    Standoff,    \* approach_standoff_m
    MaxReach,    \* poses of the arm are 0..MaxReach
    MaxLate,     \* bound: how late an image is delivered
    MaxTime      \* bound: the clock

ASSUME VisionAssumption ==
    /\ {MinFrames, MaxAge, MaxJump, Settle, Standoff, MaxReach, MaxLate, MaxTime} \subseteq Nat
    /\ MinFrames > 0 /\ Len(Wanted) = 2 /\ Wanted[1] # Wanted[2]

None == -9

\* A marker stands somewhere in the image, and a depth is a distance.
ASSUME ViewsAssumption ==
    \A v \in Views :
        /\ \A i \in DOMAIN v.codes : v.codes[i].y \in Int
        /\ v.depth \in Nat \cup {None}

VARIABLES
    now, mode,
    at,          \* "off", "opened", "failed", "loop", "evaluate", "done", "abandoned"
    cam,         \* the fields of GeminiCamera
    streaming,   \* the camera delivers images
    anchor,      \* clock_anchor: how late the first image came, by the program's clock
    frame,       \* the image being evaluated
    tracker,     \* the fields of ArmTracker
    approach,    \* the fields of ArmApproach
    out,         \* the result of the last evaluation
    streak,      \* history: images in a row that agree with their predecessor
    last,        \* history: the last of them
    atRest       \* history: since when only a lateral zero was commanded
loopVars == <<anchor, frame, tracker, approach, out, streak, last, atRest>>
vars == <<now, mode, at, cam, streaming, loopVars>>

NoFrame == [stamp |-> None, received |-> None, mid |-> None, depth |-> None]
Abs(n) == IF n < 0 THEN -n ELSE n
Sign(n) == IF n = 0 THEN 0 ELSE IF n < 0 THEN -1 ELSE 1
Closed == [pipeline |-> FALSE, attempted |-> FALSE, started |-> FALSE]
NoTarget == [x |-> None, y |-> None]
Fresh == [cand |-> NoTarget, mid |-> None, depth |-> None, ref |-> None, count |-> 0,
          stamp |-> None, received |-> None]
Session == [phase |-> "aligning", settling |-> None, goal |-> None, posed |-> None,
            after |-> None]
Nothing == [kind |-> "none", x |-> None, y |-> None]
PixelModes == {"pixel", "pixel-depth"}

Init ==
    /\ now = 0 /\ mode \in Modes /\ at = "off" /\ cam = Closed /\ streaming = FALSE
    /\ anchor = None /\ frame = NoFrame /\ tracker = Fresh /\ approach = Session
    /\ out = Nothing /\ streak = 0 /\ last = NoFrame /\ atRest = None

------------------------------------------------------------------------------
(* The markers of an image: _pair_result, with the markers that are asked for.  *)
(* Each must be seen exactly once, wherever it stands and whatever else is seen. *)

Seen(codes, id) == {i \in DOMAIN codes : codes[i].id = id}
PairFound(codes) == \A k \in {1, 2} : Cardinality(Seen(codes, Wanted[k])) = 1
Midpoint(codes) ==
    LET place(k) == (CHOOSE i \in Seen(codes, Wanted[k]) : TRUE)
    IN (codes[place(1)].y + codes[place(2)].y) \div 2

\* locate_midpoint: one surface of known depth at each marker.
Located(v) == PairFound(v.codes) /\ v.depth # None

------------------------------------------------------------------------------
(* The camera *)

\* stop(): only a pipeline whose start was attempted is stopped; that may raise, and
\* then nobody holds the pipeline any more.
StopCamera ==
    /\ cam' = Closed
    /\ IF cam.pipeline /\ cam.attempted
       THEN \/ streaming' = FALSE /\ at' = "done"
            \/ UNCHANGED streaming /\ at' = "abandoned"
       ELSE UNCHANGED streaming /\ at' = "done"

\* start(): the SDK, one camera of the right kind, and its profiles.
OpenCamera ==
    /\ at = "off"
    /\ \/ cam' = [cam EXCEPT !.pipeline = TRUE] /\ at' = "opened" /\ UNCHANGED streaming
       \/ StopCamera
    /\ UNCHANGED <<now, mode, loopVars>>

\* Mutant: the attempt is noted when it succeeded.
StartPipelineLate ==
    /\ at = "opened"
    /\ \/ /\ cam' = [cam EXCEPT !.attempted = TRUE, !.started = TRUE]
          /\ streaming' = TRUE /\ at' = "loop"
       \/ streaming' \in BOOLEAN /\ cam' = Closed /\ at' = "done"
    /\ UNCHANGED <<now, mode, loopVars>>

\* start(): pipeline.start() may raise when the camera already delivers images.
StartPipeline ==
    /\ at = "opened"
    /\ \/ /\ cam' = [cam EXCEPT !.attempted = TRUE, !.started = TRUE]
          /\ streaming' = TRUE /\ at' = "loop"
       \/ /\ streaming' \in BOOLEAN
          /\ cam' = [cam EXCEPT !.attempted = TRUE] /\ at' = "failed"
       \/ StopCamera
    /\ UNCHANGED <<now, mode, loopVars>>

\* start() cleans up; so does the finally of run(), after an error, an interruption
\* or the end of the session.
End ==
    /\ at \in {"failed", "loop", "evaluate"}
    /\ StopCamera
    /\ anchor' = None /\ frame' = NoFrame /\ tracker' = Fresh /\ approach' = Session
    /\ out' = Nothing /\ streak' = 0 /\ last' = NoFrame /\ atRest' = None
    /\ UNCHANGED <<now, mode>>

\* Mutant: an image is taken to be as new as its arrival.
ReceivedOnArrival(stamp) == now

\* run(): when an image was taken, from the distance to the first image.
Received(stamp) ==
    IF anchor = None \/ now < stamp + anchor THEN now ELSE stamp + anchor

\* read() and process_image(): an image whose color frame is missing raises (End).
Read ==
    /\ at = "loop" /\ cam.started /\ streaming
    /\ \E stamp \in 0 .. now, v \in Views :
          /\ stamp >= now - MaxLate
          /\ frame' = [stamp |-> stamp, received |-> Received(stamp),
                       mid |-> IF PairFound(v.codes) THEN Midpoint(v.codes) ELSE None,
                       depth |-> IF mode # "pixel" /\ Located(v) THEN v.depth ELSE None]
          /\ anchor' = IF anchor = None THEN now - stamp ELSE anchor
    /\ at' = IF mode = "look" THEN "loop" ELSE "evaluate"
    /\ out' = Nothing
    /\ UNCHANGED <<now, mode, cam, streaming, tracker, approach, streak, last, atRest>>

------------------------------------------------------------------------------
(* ArmTracker *)

\* invalidate(): the acquisition is lost, the depth reference kept.
Lost(tr) == [Fresh EXCEPT !.ref = tr.ref, !.stamp = tr.stamp, !.received = tr.received]

PoseFresh(pose) == pose.at # None /\ now - pose.at <= MaxAge

\* An image that shows what the mode asks for.
Usable(f) == f.mid # None /\ (mode = "pixel" \/ f.depth # None)

\* The target: in depth mode what the camera on the tool sees, relative to the arm's
\* pose; in the pixel modes one correction step, in pixel-depth mode also towards the
\* depth the session began with.
TargetOf(tr, f, pose) ==
    IF mode \in PixelModes
    THEN [x |-> pose.x + (IF tr.ref = None THEN 0 ELSE Sign(f.depth - tr.ref)), y |-> Sign(f.mid)]
    ELSE [x |-> pose.x + f.depth, y |-> f.mid]

FarFrom(a, b) == Abs(a - b) > MaxJump
Jumped(tr, f, target) ==
    /\ tr.cand # NoTarget
    /\ \/ FarFrom(target.x, tr.cand.x) \/ FarFrom(target.y, tr.cand.y)
       \/ mode \in PixelModes /\ (FarFrom(f.mid, tr.mid) \/ FarFrom(f.depth, tr.depth))

\* Mutant: an outlier becomes the candidate of the frames that follow.
AcceptJump(tr, f, target) ==
    [tr EXCEPT !.cand = target, !.mid = f.mid, !.depth = f.depth,
               !.count = IF tr.count < MinFrames THEN tr.count + 1 ELSE MinFrames]

Accept(tr, f, target) ==
    [tr EXCEPT !.cand = target, !.mid = f.mid, !.depth = f.depth,
               !.count = IF tr.cand = NoTarget \/ Jumped(tr, f, target) THEN 1
                         ELSE IF tr.count < MinFrames THEN tr.count + 1 ELSE MinFrames]

\* evaluate(): the tracker afterwards, and its target if it passes.
Track(tr, f, pose) ==
    LET stamped == [tr EXCEPT !.stamp = f.stamp]
        timed == [stamped EXCEPT !.received = f.received]
        gap == tr.received # None /\ f.received - tr.received > MaxAge
        target == TargetOf(tr, f, pose)
        accepted == Accept(IF gap THEN Lost(timed) ELSE timed, f, target)
        passes == ~ (~ gap /\ Jumped(tr, f, target)) /\ accepted.count >= MinFrames
    IN IF f.stamp <= tr.stamp
       THEN [tracker |-> Lost(tr), target |-> NoTarget]
       ELSE IF now - f.received > MaxAge \/ (tr.received # None /\ f.received <= tr.received)
       THEN [tracker |-> Lost(stamped), target |-> NoTarget]
       ELSE IF ~ Usable(f) \/ ~ PoseFresh(pose)
       THEN [tracker |-> Lost(timed), target |-> NoTarget]
       ELSE [tracker |-> IF passes /\ mode = "pixel-depth" /\ tr.ref = None
                         THEN [accepted EXCEPT !.ref = f.depth] ELSE accepted,
             target |-> IF passes THEN target ELSE NoTarget]

------------------------------------------------------------------------------
(* ArmApproach: align, settle, capture one goal, reach it *)

Command(kind, target) == [kind |-> kind, x |-> target.x, y |-> target.y]

Realigning(posed) == [Session EXCEPT !.posed = posed, !.after = approach.after]

\* invalidate(): before a goal, start again; with a goal, cancel it for good.
Invalidated ==
    /\ approach' = IF approach.goal = None THEN Realigning(approach.posed)
                   ELSE [approach EXCEPT !.settling = None, !.phase = "cancelled"]
    /\ tracker' = Lost(tracker) /\ out' = Nothing

\* _approach(): towards the goal until the arm is measured there.
Approach(ap, pose) ==
    IF pose.x = ap.goal
    THEN approach' = [ap EXCEPT !.phase = "complete"] /\ out' = Nothing
    ELSE /\ approach' = [ap EXCEPT !.phase = "approaching"]
         /\ out' = [kind |-> "goal", x |-> ap.goal, y |-> 0]

PoseUsable(pose) == PoseFresh(pose) /\ pose.at >= approach.posed
Terminal == approach.phase \in {"complete", "cancelled"}
Posed(pose) == [approach EXCEPT !.posed = pose.at]

\* A close target must not make the arm retreat.
GoalFor(target, pose) ==
    IF Standoff > 0 /\ target.x - Standoff < pose.x THEN pose.x ELSE target.x - Standoff

\* Mutant: the hold is taken to begin with the image that showed the alignment.
SettleStartOfImage == IF approach.settling = None THEN frame.received ELSE approach.settling

\* The hold begins when the lateral zero is first commanded.
SettleStart == IF approach.settling = None THEN now ELSE approach.settling

Aligned(target, pose) ==
    LET settled == [Posed(pose) EXCEPT !.phase = "settling", !.settling = SettleStart]
    IN IF frame.received <= SettleStart + Settle
       THEN approach' = settled /\ out' = [kind |-> "live", x |-> pose.x, y |-> 0]
       ELSE Approach([settled EXCEPT !.goal = GoalFor(target, pose)], pose)

\* evaluate()
EvaluateApproach(pose) ==
    \/ Terminal /\ out' = Nothing /\ UNCHANGED <<tracker, approach>>
    \/ ~ Terminal /\ ~ PoseUsable(pose) /\ Invalidated
    \/ ~ Terminal /\ PoseUsable(pose) /\ approach.goal # None
       /\ Approach(Posed(pose), pose) /\ UNCHANGED tracker
    \/ /\ ~ Terminal /\ PoseUsable(pose) /\ approach.goal = None
       /\ frame.received <= approach.after
       /\ tracker' = Lost(tracker) /\ approach' = Realigning(pose.at) /\ out' = Nothing
    \/ /\ ~ Terminal /\ PoseUsable(pose) /\ approach.goal = None
       /\ frame.received > approach.after
       /\ LET result == Track(tracker, frame, pose)
              target == result.target
          IN /\ tracker' = result.tracker
             /\ IF target = NoTarget
                THEN approach' = Realigning(pose.at) /\ out' = Nothing
                ELSE IF target.y # 0
                THEN /\ approach' = Realigning(pose.at)
                     /\ out' = [kind |-> "live", x |-> pose.x, y |-> target.y]
                ELSE Aligned(target, pose)

------------------------------------------------------------------------------
(* The loop of example/arm_tracking.py *)

\* History: an image that shows a target, and one that agrees with it.
Consulted == mode # "approach" \/ (approach.goal = None /\ ~ Terminal)
Good(pose) ==
    Usable(frame) /\ PoseFresh(pose) /\ now - frame.received <= MaxAge
RangeOf(f, pose) == IF mode \in PixelModes THEN f.depth ELSE pose.x + f.depth
Agrees(f, pose) ==
    /\ f.stamp > last.stamp /\ f.received > last.received /\ f.received - last.received <= MaxAge
    /\ ~ FarFrom(f.mid, last.mid) /\ ~ FarFrom(RangeOf(f, pose), last.depth)
Remember(pose) ==
    IF ~ Consulted THEN UNCHANGED <<streak, last>>
    ELSE IF ~ Good(pose) THEN streak' = 0 /\ last' = NoFrame
    ELSE /\ streak' = IF last # NoFrame /\ Agrees(frame, pose)
                      THEN IF streak < MinFrames THEN streak + 1 ELSE MinFrames
                      ELSE 1
         /\ last' = [frame EXCEPT !.depth = RangeOf(frame, pose)]

\* An evaluation, with the pose of the arm as it was heard last, or none.
Poses == [x : 0 .. MaxReach, at : {t \in 0 .. now : now - t <= MaxAge}]
            \cup {[x |-> 0, at |-> None]}

Evaluate ==
    /\ at = "evaluate" /\ at' = "loop"
    /\ \E pose \in Poses :
          /\ IF mode = "approach" THEN EvaluateApproach(pose)
             ELSE LET result == Track(tracker, frame, pose)
                  IN /\ tracker' = result.tracker /\ UNCHANGED approach
                     /\ out' = IF result.target = NoTarget THEN Nothing
                               ELSE Command("live", result.target)
          /\ Remember(pose)
    /\ atRest' = IF out'.kind = "live" /\ out'.y = 0
                 THEN IF atRest = None THEN now ELSE atRest ELSE None
    /\ frame' = NoFrame
    /\ UNCHANGED <<now, mode, cam, streaming, anchor>>

\* refresh_request(): a new session of the operator starts with a new gate.
Renew ==
    /\ at = "loop" /\ mode # "look"
    /\ tracker' = Fresh /\ approach' = [Session EXCEPT !.after = now]
    /\ out' = Nothing /\ streak' = 0 /\ last' = NoFrame /\ atRest' = None
    /\ UNCHANGED <<now, mode, at, cam, streaming, anchor, frame>>

Tick ==
    /\ now < MaxTime /\ at \in {"loop", "evaluate"} /\ now' = now + 1
    /\ UNCHANGED <<mode, at, cam, streaming, loopVars>>

Next == OpenCamera \/ StartPipeline \/ End \/ Read \/ Evaluate \/ Renew \/ Tick
Spec == Init /\ [][Next]_vars

------------------------------------------------------------------------------
(* Properties *)

\* A target passes, or the goal of the session is captured.
Passes == at = "evaluate" /\ at' = "loop" /\ (out'.kind = "live" \/ approach'.goal # approach.goal)

\* The arm and the chassis are commanded only when MinFrames images in a row each
\* showed the markers, at a fresh pose, newer than the one before and near it.
TargetIsConfirmed ==
    out.kind = "live" \/ approach.goal # None => streak >= MinFrames

\* A target is never computed from an image that is older than MaxAge, however late
\* the camera delivers it; only the delay of the first image, to which the program
\* sets its clock, remains unseen.
TargetIsRecent == [][Passes => now - frame.stamp <= MaxAge + anchor]_vars

\* The goal is seen at rest: by the program's clock its image was taken when the
\* chassis had been commanded to hold for the settling time without any other command,
\* and after the session began.  An image may be older than that by the delay of the
\* first image, to which the clock is set, and by no more: one that was buffered as
\* long as the first counts as new, which arm_height_tracking.md:157 rules out.
GoalSeenAtRest ==
    [][Passes /\ approach'.goal # approach.goal =>
          /\ atRest # None /\ frame.stamp + anchor > atRest + Settle
          /\ frame.stamp + anchor > approach.after]_vars

\* However the program ends, the camera delivers no more images, unless the SDK could
\* not stop it. (gemini_camera.py:128, 261)
CameraReleased == at = "done" => ~ streaming
==============================================================================
