-------------------------- MODULE VisionPipeline_proofs --------------------------
(***************************************************************************)
(* Proofs about the vision program from an image to a target, for any      *)
(* images, limits and delays of the camera, and however long it runs.      *)
(***************************************************************************)
EXTENDS VisionPipeline, FiniteSetTheorems, TLAPS

Image == [stamp : Int, received : Int, mid : Int, depth : Int]
Place == [x : Int, y : Int]
Tracker == [cand : Place, mid : Int, depth : Int, ref : Int, count : Nat, stamp : Int, received : Int]
Approaches == [phase : {"aligning", "settling", "approaching", "complete", "cancelled"},
               settling : Int, goal : Int, posed : Int, after : Int]
Outputs == [kind : {"none", "live", "goal"}, x : Int, y : Int]
Cameras == [pipeline : BOOLEAN, attempted : BOOLEAN, started : BOOLEAN]

PipelineTypeOK ==
    /\ now \in Nat
    /\ at \in {"off", "opened", "failed", "loop", "evaluate", "done", "abandoned"}
    /\ cam \in Cameras /\ streaming \in BOOLEAN
    /\ anchor \in Nat \cup {None} /\ frame \in Image /\ tracker \in Tracker
    /\ approach \in Approaches /\ out \in Outputs
    /\ streak \in Nat /\ last \in Image /\ atRest \in Int

\* The camera delivers images only while stop() would stop it, or could not.
CameraStops ==
    /\ streaming /\ at # "abandoned" => cam.pipeline /\ cam.attempted
    /\ at = "opened" => cam.pipeline
    /\ at = "failed" => cam.pipeline /\ cam.attempted
    /\ at \in {"off", "done"} => ~ streaming

\* The image under evaluation was taken at most the delay of the first image before
\* the program takes it to have been taken.
ImageIsDated ==
    at = "evaluate" =>
        /\ anchor # None
        /\ 0 <= frame.received /\ frame.received <= now
        /\ frame.received <= frame.stamp + anchor
        /\ frame.depth \in Nat \cup {None}
        /\ mode = "pixel" => frame.depth = None

\* A candidate comes from the last image of the streak, and was confirmed by no more
\* images than the streak has.
CandidateOfStreak ==
    tracker.cand # NoTarget =>
        /\ 0 <= last.received
        /\ tracker.stamp = last.stamp /\ tracker.received = last.received
        /\ tracker.count <= streak
        /\ IF mode \in PixelModes THEN tracker.mid = last.mid /\ tracker.depth = last.depth
           ELSE tracker.cand = [x |-> last.depth, y |-> last.mid]

\* The chassis has been commanded to hold since before the settling time began, until
\* the goal is captured; a session ends only with a goal.
RestsSince ==
    /\ approach.goal = None /\ approach.settling # None =>
          /\ atRest # None /\ atRest <= approach.settling /\ approach.settling <= now
    /\ atRest <= now
    /\ Terminal => approach.goal # None
    /\ mode # "approach" => approach.goal = None /\ approach.settling = None

PipelineInv ==
    /\ PipelineTypeOK /\ CameraStops /\ ImageIsDated /\ CandidateOfStreak /\ RestsSince
    /\ TargetIsConfirmed

------------------------------------------------------------------------------
(* What one image gives *)

LEMMA Limits ==
    /\ MinFrames \in Nat \ {0} /\ MaxAge \in Nat /\ MaxJump \in Nat /\ Settle \in Nat
    /\ Standoff \in Nat /\ MaxReach \in Nat /\ None = -9
  BY VisionAssumption DEF None

\* The pair has a place when it is found, and a depth when it is located.
LEMMA ViewsMeasured ==
  ASSUME NEW v \in Views
  PROVE  /\ PairFound(v.codes) => Midpoint(v.codes) \in Int
         /\ Located(v) => v.depth \in Nat
  <1>1. ASSUME PairFound(v.codes), NEW k \in {1, 2}
        PROVE  v.codes[CHOOSE i \in Seen(v.codes, Wanted[k]) : TRUE].y \in Int
    <2>1. Cardinality(Seen(v.codes, Wanted[k])) = 1
      BY <1>1 DEF PairFound
    <2>2. Seen(v.codes, Wanted[k]) # {}
      BY <2>1, FS_EmptySet
    <2>3. (CHOOSE i \in Seen(v.codes, Wanted[k]) : TRUE) \in Seen(v.codes, Wanted[k])
      BY <2>2
    <2> QED
      BY <2>3, ViewsAssumption DEF Seen
  <1>2. PairFound(v.codes) => Midpoint(v.codes) \in Int
    <2> SUFFICES ASSUME PairFound(v.codes) PROVE Midpoint(v.codes) \in Int
      OBVIOUS
    <2> DEFINE y(k) == v.codes[CHOOSE i \in Seen(v.codes, Wanted[k]) : TRUE].y
    <2>1. y(1) \in Int /\ y(2) \in Int
      BY <1>1
    <2>2. Midpoint(v.codes) = (y(1) + y(2)) \div 2
      BY DEF Midpoint
    <2> HIDE DEF y
    <2> QED
      BY <2>1, <2>2
  <1> QED
    BY <1>2, ViewsAssumption DEF Located

\* A pose of the arm, heard or not.
Pose == [x : Nat, at : Int]

LEMMA PosesType == ASSUME now \in Nat PROVE Poses \subseteq Pose
  BY Limits DEF Poses, Pose

\* A target is a place of its own: the arm reaches forward, and a distance is one.
LEMMA TargetIsPlace ==
  ASSUME NEW tr \in Tracker, NEW f \in Image, NEW pose \in Pose,
         mode \notin PixelModes => f.depth \in Nat
  PROVE  /\ TargetOf(tr, f, pose) \in Place /\ TargetOf(tr, f, pose) # NoTarget
         /\ TargetOf(tr, f, pose).x >= -1
         /\ mode \notin PixelModes =>
               TargetOf(tr, f, pose) = [x |-> pose.x + f.depth, y |-> f.mid]
  <1>1. \A n \in Int : Sign(n) \in {-1, 0, 1}
    BY DEF Sign
  <1>2. pose.x \in Nat /\ f.depth \in Int /\ f.mid \in Int /\ tr.ref \in Int
    BY DEF Pose, Image, Tracker
  <1>3. NoTarget = [x |-> -9, y |-> -9]
    BY DEF NoTarget, None
  <1>4. CASE mode \in PixelModes
    <2> DEFINE dx == IF tr.ref = None THEN 0 ELSE Sign(f.depth - tr.ref)
    <2>1. TargetOf(tr, f, pose) = [x |-> pose.x + dx, y |-> Sign(f.mid)]
      BY <1>4 DEF TargetOf
    <2>2. dx \in {-1, 0, 1} /\ Sign(f.mid) \in {-1, 0, 1}
      BY <1>1, <1>2
    <2> HIDE DEF dx
    <2>3. pose.x + dx \in Int /\ pose.x + dx >= -1 /\ Sign(f.mid) \in Int
      BY <1>2, <2>2
    <2> QED
      BY <1>3, <1>4, <2>1, <2>3 DEF Place
  <1>5. CASE mode \notin PixelModes
    BY <1>2, <1>3, <1>5 DEF TargetOf, Place
  <1> QED
    BY <1>4, <1>5

\* What remains when an acquisition is lost.
LEMMA LostType ==
  ASSUME NEW tr \in Tracker
  PROVE  /\ Lost(tr) \in Tracker /\ Lost(tr).cand = NoTarget
         /\ Lost(tr).stamp = tr.stamp /\ Lost(tr).received = tr.received
  <1>1. NoTarget \in Place /\ None \in Int
    BY DEF NoTarget, Place, None
  <1>2. tr.ref \in Int /\ tr.stamp \in Int /\ tr.received \in Int
    BY DEF Tracker
  <1>3. Fresh \in Tracker /\ Fresh.cand = NoTarget
    BY <1>1 DEF Fresh, Tracker
  <1>4. Lost(tr) = [Fresh EXCEPT !.ref = tr.ref, !.stamp = tr.stamp, !.received = tr.received]
    BY DEF Lost
  <1> QED
    BY <1>2, <1>3, <1>4 DEF Tracker

\* An image becomes the candidate t of a gate that was tr: it shows a target at a fresh
\* pose, and it is the first of its row or agrees with the one before.
Confirms(tr, f, pose, t) ==
    /\ tr.cand # NoTarget /\ ~ Jumped(tr, f, TargetOf(tr, f, pose))
    /\ f.stamp > tr.stamp
    /\ tr.received # None => f.received > tr.received /\ f.received - tr.received <= MaxAge
    /\ t.count = IF tr.count < MinFrames THEN tr.count + 1 ELSE MinFrames
AcceptedFrom(tr, f, pose, t) ==
    /\ Usable(f) /\ PoseFresh(pose) /\ now - f.received <= MaxAge
    /\ t.cand = TargetOf(tr, f, pose) /\ t.mid = f.mid /\ t.depth = f.depth
    /\ t.stamp = f.stamp /\ t.received = f.received
    /\ t.count = 1 \/ Confirms(tr, f, pose, t)

\* The fields of an accepted gate.
LEMMA AcceptFields ==
  ASSUME NEW tr \in Tracker, NEW f \in Image, NEW target \in Place
  PROVE  /\ Accept(tr, f, target) \in Tracker
         /\ Accept(tr, f, target).cand = target
         /\ Accept(tr, f, target).mid = f.mid /\ Accept(tr, f, target).depth = f.depth
         /\ Accept(tr, f, target).stamp = tr.stamp
         /\ Accept(tr, f, target).received = tr.received
         /\ \/ Accept(tr, f, target).count = 1
            \/ /\ tr.cand # NoTarget /\ ~ Jumped(tr, f, target)
               /\ Accept(tr, f, target).count = IF tr.count < MinFrames THEN tr.count + 1
                                                 ELSE MinFrames
  <1> DEFINE n == IF tr.cand = NoTarget \/ Jumped(tr, f, target) THEN 1
                  ELSE IF tr.count < MinFrames THEN tr.count + 1 ELSE MinFrames
  <1>1. Accept(tr, f, target) = [tr EXCEPT !.cand = target, !.mid = f.mid, !.depth = f.depth, !.count = n]
    BY DEF Accept
  <1>2. n \in Nat
    BY Limits DEF Tracker
  <1>3. \/ n = 1
        \/ /\ tr.cand # NoTarget /\ ~ Jumped(tr, f, target)
           /\ n = IF tr.count < MinFrames THEN tr.count + 1 ELSE MinFrames
    OBVIOUS
  <1>4. f.mid \in Int /\ f.depth \in Int
    BY DEF Image
  <1> HIDE DEF n
  <1>5. /\ Accept(tr, f, target) \in Tracker
        /\ Accept(tr, f, target).cand = target
        /\ Accept(tr, f, target).mid = f.mid /\ Accept(tr, f, target).depth = f.depth
        /\ Accept(tr, f, target).stamp = tr.stamp
        /\ Accept(tr, f, target).received = tr.received
        /\ Accept(tr, f, target).count = n
    BY <1>1, <1>2, <1>4 DEF Tracker
  <1> QED
    BY <1>3, <1>5

\* One evaluation of the gate: it is lost, or the image becomes its candidate; a
\* target passes only from a candidate that was confirmed often enough.
LEMMA TrackOutcome ==
  ASSUME NEW tr \in Tracker, NEW f \in Image, NEW pose \in Pose, now \in Nat,
         f.depth \in Nat \cup {None}
  PROVE  /\ Track(tr, f, pose).tracker \in Tracker
         /\ Track(tr, f, pose).tracker.cand # NoTarget =>
                AcceptedFrom(tr, f, pose, Track(tr, f, pose).tracker)
         /\ Track(tr, f, pose).target # NoTarget =>
                /\ Track(tr, f, pose).tracker.cand # NoTarget
                /\ Track(tr, f, pose).tracker.count >= MinFrames
                /\ Track(tr, f, pose).target = TargetOf(tr, f, pose)
  <1> DEFINE stamped == [tr EXCEPT !.stamp = f.stamp]
             timed == [stamped EXCEPT !.received = f.received]
             gap == tr.received # None /\ f.received - tr.received > MaxAge
             target == TargetOf(tr, f, pose)
             base == IF gap THEN Lost(timed) ELSE timed
             accepted == Accept(base, f, target)
             passes == ~ (~ gap /\ Jumped(tr, f, target)) /\ accepted.count >= MinFrames
             result == Track(tr, f, pose)
             kept == IF passes /\ mode = "pixel-depth" /\ tr.ref = None
                     THEN [accepted EXCEPT !.ref = f.depth] ELSE accepted
             late == now - f.received > MaxAge \/ (tr.received # None /\ f.received <= tr.received)
             unusable == ~ Usable(f) \/ ~ PoseFresh(pose)
  <1>1. stamped \in Tracker /\ timed \in Tracker
    BY DEF Tracker, Image
  <1>2. ASSUME NEW t \in Tracker, result = [tracker |-> Lost(t), target |-> NoTarget]
        PROVE  /\ result.tracker \in Tracker /\ result.tracker.cand = NoTarget
               /\ result.target = NoTarget
    BY <1>2, LostType
  <1>3. CASE f.stamp <= tr.stamp
    <2>1. result = [tracker |-> Lost(tr), target |-> NoTarget]
      BY <1>3 DEF Track
    <2> QED
      BY <1>2, <2>1
  <1>4. CASE ~ (f.stamp <= tr.stamp) /\ late
    <2>1. result = [tracker |-> Lost(stamped), target |-> NoTarget]
      BY <1>4 DEF Track
    <2> QED
      BY <1>1, <1>2, <2>1
  <1>5. CASE ~ (f.stamp <= tr.stamp) /\ ~ late /\ unusable
    <2>1. result = [tracker |-> Lost(timed), target |-> NoTarget]
      BY <1>5 DEF Track
    <2> QED
      BY <1>1, <1>2, <2>1
  <1>6. CASE ~ (f.stamp <= tr.stamp) /\ ~ late /\ ~ unusable
    <2>1. result = [tracker |-> kept, target |-> IF passes THEN target ELSE NoTarget]
      BY <1>6 DEF Track
    <2>2. target \in Place /\ target # NoTarget
      <3>1. mode \notin PixelModes => f.depth \in Nat
        BY <1>6 DEF Usable, PixelModes
      <3> QED
        BY <3>1, TargetIsPlace
    <2>3. base \in Tracker /\ base.stamp = f.stamp /\ base.received = f.received
      <3>1. timed.stamp = f.stamp /\ timed.received = f.received
        BY DEF Tracker, Image
      <3> HIDE DEF timed, gap
      <3> QED
        BY <1>1, <3>1, LostType
    <2>4. ~ gap => base.cand = tr.cand /\ base.count = tr.count /\ (Jumped(base, f, target) <=> Jumped(tr, f, target))
      BY DEF Tracker, Jumped
    <2>5. gap => base.cand = NoTarget
      BY <1>1, LostType
    <2>6. /\ accepted \in Tracker /\ accepted.cand = target
          /\ accepted.mid = f.mid /\ accepted.depth = f.depth
          /\ accepted.stamp = f.stamp /\ accepted.received = f.received
          /\ \/ accepted.count = 1
             \/ /\ base.cand # NoTarget /\ ~ Jumped(base, f, target)
                /\ accepted.count = IF base.count < MinFrames THEN base.count + 1 ELSE MinFrames
      <3> HIDE DEF base, target
      <3> QED
        BY <2>2, <2>3, AcceptFields
    <2>7. accepted.count = 1 \/ Confirms(tr, f, pose, accepted)
      <3>1. f.stamp > tr.stamp
        BY <1>6 DEF Image, Tracker
      <3>2. ~ gap => (tr.received # None => f.received > tr.received /\ f.received - tr.received <= MaxAge)
        BY <1>6, Limits DEF Image, Tracker
      <3> HIDE DEF stamped, timed, gap, target, base, accepted, passes, result, kept, late, unusable
      <3> QED
        BY <2>4, <2>5, <2>6, <3>1, <3>2 DEF Confirms, target
    <2>8. /\ kept \in Tracker /\ kept.cand = accepted.cand /\ kept.mid = accepted.mid
          /\ kept.depth = accepted.depth /\ kept.stamp = accepted.stamp
          /\ kept.received = accepted.received /\ kept.count = accepted.count
      <3> HIDE DEF accepted, passes
      <3> QED
        BY <2>6 DEF Tracker, Image
    <2>9. Usable(f) /\ PoseFresh(pose) /\ now - f.received <= MaxAge
      BY <1>6, Limits DEF Image
    <2>10. AcceptedFrom(tr, f, pose, kept)
      <3> HIDE DEF stamped, timed, gap, base, accepted, passes, result, kept, late, unusable
      <3> QED
        BY <2>6, <2>7, <2>8, <2>9 DEF AcceptedFrom, Confirms
    <2> HIDE DEF stamped, timed, gap, target, base, accepted, kept, late, unusable
    <2>11. result.tracker = kept /\ result.target = IF passes THEN target ELSE NoTarget
      <3> HIDE DEF passes, result
      <3> QED
        BY <2>1
    <2>12. passes => accepted.count >= MinFrames
      OBVIOUS
    <2> HIDE DEF passes, result
    <2>13. result.tracker.cand = target
      BY <2>6, <2>8, <2>11
    <2>14. /\ result.tracker \in Tracker
           /\ result.tracker.cand # NoTarget => AcceptedFrom(tr, f, pose, result.tracker)
           /\ result.target # NoTarget =>
                 /\ result.tracker.cand # NoTarget
                 /\ result.tracker.count >= MinFrames
                 /\ result.target = target
      BY <2>2, <2>8, <2>10, <2>11, <2>12, <2>13
    <2> QED
      BY <2>14 DEF target, result
  <1> HIDE DEF stamped, timed, gap, target, base, accepted, passes, kept, late, unusable
  <1> QED
    BY <1>3, <1>4, <1>5, <1>6

------------------------------------------------------------------------------
(* What one evaluation decides *)

\* A target passes the gate: a candidate confirmed by enough images.
GatePassed == Consulted /\ tracker'.cand # NoTarget /\ tracker'.count >= MinFrames

Outcome(pose) ==
    /\ tracker' \in Tracker /\ approach' \in Approaches /\ out' \in Outputs
    /\ \/ tracker'.cand = NoTarget
       \/ ~ Consulted /\ tracker' = tracker
       \/ Consulted /\ AcceptedFrom(tracker, frame, pose, tracker')
    /\ ~ Consulted => approach.goal # None
    /\ out'.kind = "live" \/ approach'.goal # approach.goal => GatePassed
    /\ approach'.goal # approach.goal =>
          /\ mode = "approach" /\ approach.goal = None /\ approach'.goal # None
          /\ approach.settling # None /\ frame.received > approach.settling + Settle
          /\ frame.received > approach.after
    /\ approach'.goal = None /\ approach'.settling # None =>
          /\ mode = "approach" /\ approach.goal = None
          /\ out'.kind = "live" /\ out'.y = 0 /\ approach'.settling = SettleStart
    /\ approach'.phase \in {"complete", "cancelled"} => approach'.goal # None
    /\ mode # "approach" => approach' = approach

LEMMA NothingIsQuiet == Nothing \in Outputs /\ Nothing.kind = "none"
  BY DEF Nothing, Outputs, None

\* A session that starts again has no goal and no settling time.
LEMMA RealigningFields ==
  ASSUME PipelineTypeOK, NEW posed \in Int
  PROVE  /\ Realigning(posed) \in Approaches /\ Realigning(posed).phase = "aligning"
         /\ Realigning(posed).goal = None /\ Realigning(posed).settling = None
  <1>1. /\ Session \in Approaches /\ Session.phase = "aligning"
        /\ Session.goal = None /\ Session.settling = None
    BY DEF Session, Approaches, None
  <1>2. approach.after \in Int
    BY DEF PipelineTypeOK, Approaches
  <1> QED
    BY <1>1, <1>2 DEF Realigning, Approaches

\* Going to a goal keeps it, and commands nothing live.
LEMMA ApproachFields ==
  ASSUME NEW ap \in Approaches, NEW pose \in Pose, Approach(ap, pose)
  PROVE  /\ approach' \in Approaches /\ approach'.goal = ap.goal
         /\ approach'.settling = ap.settling
         /\ approach'.phase \in {"complete", "approaching"}
         /\ out' \in Outputs /\ out'.kind # "live"
  <1>1. CASE pose.x = ap.goal
    BY <1>1, NothingIsQuiet DEF Approach, Approaches
  <1>2. CASE pose.x # ap.goal
    BY <1>2 DEF Approach, Approaches, Outputs
  <1> QED
    BY <1>1, <1>2

\* Over, or without a usable pose: nothing is commanded.
LEMMA IdleOutcome ==
  ASSUME PipelineInv, at = "evaluate", mode = "approach", NEW pose \in Pose,
         \/ Terminal /\ out' = Nothing /\ UNCHANGED <<tracker, approach>>
         \/ ~ Terminal /\ Invalidated
  PROVE  Outcome(pose)
  <1> USE DEF PipelineInv, PipelineTypeOK
  <1>1. CASE Terminal /\ out' = Nothing /\ UNCHANGED <<tracker, approach>>
    <2>1. approach.goal # None /\ ~ Consulted
      BY <1>1 DEF RestsSince, Consulted
    <2> QED
      BY <1>1, <2>1, NothingIsQuiet DEF Outcome
  <1>2. CASE ~ Terminal /\ Invalidated /\ approach.goal = None
    <2>1. approach' = Realigning(approach.posed) /\ approach.posed \in Int
      BY <1>2 DEF Invalidated, Approaches
    <2>2. tracker' \in Tracker /\ tracker'.cand = NoTarget /\ out' = Nothing
      BY <1>2, LostType DEF Invalidated
    <2>3. Consulted
      BY <1>2 DEF Consulted
    <2> QED
      BY <1>2, <2>1, <2>2, <2>3, NothingIsQuiet, RealigningFields DEF Outcome
  <1>3. CASE ~ Terminal /\ Invalidated /\ approach.goal # None
    <2>1. approach' = [approach EXCEPT !.settling = None, !.phase = "cancelled"]
      BY <1>3 DEF Invalidated
    <2>2. approach' \in Approaches /\ approach'.goal = approach.goal
      <3>1. None \in Int /\ approach \in Approaches
        BY DEF None
      <3> QED
        BY ONLY <2>1, <3>1 DEF Approaches
    <2>3. tracker' \in Tracker /\ tracker'.cand = NoTarget /\ out' = Nothing
      BY <1>3, LostType DEF Invalidated
    <2> QED
      BY <1>3, <2>2, <2>3, NothingIsQuiet DEF Outcome
  <1> QED
    BY <1>1, <1>2, <1>3

\* With a goal: towards it, whatever the images show.
LEMMA GoalOutcome ==
  ASSUME PipelineInv, at = "evaluate", mode = "approach", NEW pose \in Pose,
         ~ Terminal, approach.goal # None, Approach(Posed(pose), pose), UNCHANGED tracker
  PROVE  Outcome(pose)
  <1> USE DEF PipelineInv, PipelineTypeOK
  <1>1. Posed(pose) \in Approaches /\ Posed(pose).goal = approach.goal
    BY DEF Posed, Pose, Approaches
  <1>2. /\ approach' \in Approaches /\ approach'.goal = approach.goal
        /\ out' \in Outputs /\ out'.kind # "live"
    BY <1>1, ApproachFields
  <1>3. ~ Consulted
    BY DEF Consulted
  <1> QED
    BY <1>2, <1>3 DEF Outcome

\* An image from before the session: aligning starts again.
LEMMA StaleOutcome ==
  ASSUME PipelineInv, at = "evaluate", mode = "approach", NEW pose \in Pose,
         ~ Terminal, approach.goal = None,
         tracker' = Lost(tracker), approach' = Realigning(pose.at), out' = Nothing
  PROVE  Outcome(pose)
  <1> USE DEF PipelineInv, PipelineTypeOK
  <1>1. pose.at \in Int
    BY DEF Pose
  <1>2. tracker' \in Tracker /\ tracker'.cand = NoTarget
    BY LostType
  <1>3. Consulted
    BY DEF Consulted
  <1> QED
    BY <1>1, <1>2, <1>3, NothingIsQuiet, RealigningFields DEF Outcome

\* The goal lies in front of the arm, at a distance it has.
LEMMA GoalIsPlace ==
  ASSUME NEW target \in Place, target.x >= 0, NEW pose \in Pose
  PROVE  GoalFor(target, pose) \in Nat
  BY Limits DEF GoalFor, Place, Pose

\* Aligned: the chassis holds, or has held for the settling time and the goal is captured.
LEMMA AlignedOutcome ==
  ASSUME PipelineInv, at = "evaluate", mode = "approach", NEW pose \in Pose,
         ~ Terminal, approach.goal = None, frame.received > approach.after,
         NEW target \in Place, target.x >= 0,
         tracker' \in Tracker, GatePassed, AcceptedFrom(tracker, frame, pose, tracker'),
         Aligned(target, pose)
  PROVE  Outcome(pose)
  <1> DEFINE settled == [Posed(pose) EXCEPT !.phase = "settling", !.settling = SettleStart]
             captured == [settled EXCEPT !.goal = GoalFor(target, pose)]
  <1> USE DEF PipelineInv, PipelineTypeOK
  <1>1. /\ Posed(pose) \in Approaches /\ Posed(pose).goal = None
    BY DEF Posed, Pose, Approaches
  <1>2. SettleStart \in Int
    BY DEF SettleStart, Approaches
  <1>3. /\ settled \in Approaches /\ settled.goal = None /\ settled.settling = SettleStart
        /\ settled.phase = "settling"
    BY ONLY <1>1, <1>2 DEF Approaches
  <1>4. Consulted
    BY DEF GatePassed
  <1>5. CASE frame.received <= SettleStart + Settle
    <2>1. approach' = settled /\ out' = [kind |-> "live", x |-> pose.x, y |-> 0]
      BY <1>5 DEF Aligned
    <2>2. out' \in Outputs /\ out'.kind = "live" /\ out'.y = 0
      BY <2>1 DEF Outputs, Pose
    <2> HIDE DEF settled, PipelineInv, PipelineTypeOK
    <2> QED
      BY <1>3, <1>4, <2>1, <2>2 DEF Outcome
  <1>6. CASE ~ (frame.received <= SettleStart + Settle)
    <2>1. Approach(captured, pose)
      BY <1>6 DEF Aligned
    <2>2. GoalFor(target, pose) \in Nat
      BY GoalIsPlace
    <2>3. captured \in Approaches /\ captured.goal = GoalFor(target, pose)
      <3> HIDE DEF settled
      <3> QED
        BY ONLY <1>3, <2>2 DEF Approaches
    <2>4. /\ approach' \in Approaches /\ approach'.goal = GoalFor(target, pose)
          /\ out' \in Outputs /\ out'.kind # "live"
      <3> HIDE DEF captured
      <3> QED
        BY <2>1, <2>3, ApproachFields
    <2>5. approach'.goal # None
      BY <2>2, <2>4, Limits
    <2>6. frame.received <= now /\ frame.received \in Int /\ approach.after \in Int
      BY DEF ImageIsDated, Image, Approaches
    <2>7. approach.settling # None /\ frame.received > approach.settling + Settle
      BY <1>6, <2>6, Limits DEF SettleStart, Approaches
    <2> HIDE DEF settled, captured, PipelineInv, PipelineTypeOK
    <2> QED
      BY <1>4, <2>4, <2>5, <2>7 DEF Outcome
  <1> QED
    BY <1>5, <1>6

\* The gate in an evaluation: what TrackOutcome says of the image under evaluation.
LEMMA GateOutcome ==
  ASSUME PipelineInv, at = "evaluate", NEW pose \in Pose, Consulted,
         tracker' = Track(tracker, frame, pose).tracker
  PROVE  LET target == Track(tracker, frame, pose).target
         IN /\ tracker' \in Tracker
            /\ tracker'.cand = NoTarget \/ AcceptedFrom(tracker, frame, pose, tracker')
            /\ target # NoTarget =>
                  /\ GatePassed /\ AcceptedFrom(tracker, frame, pose, tracker')
                  /\ target \in Place
                  /\ mode \notin PixelModes => target.x >= 0
  <1> DEFINE target == Track(tracker, frame, pose).target
  <1>1. /\ tracker \in Tracker /\ frame \in Image /\ now \in Nat
        /\ frame.depth \in Nat \cup {None}
    BY DEF PipelineInv, PipelineTypeOK, ImageIsDated
  <1>2. /\ tracker' \in Tracker
        /\ tracker'.cand # NoTarget => AcceptedFrom(tracker, frame, pose, tracker')
        /\ target # NoTarget => /\ tracker'.cand # NoTarget
                                /\ tracker'.count >= MinFrames
                                /\ target = TargetOf(tracker, frame, pose)
    BY <1>1, TrackOutcome
  <1> HIDE DEF target
  <1>3. ASSUME target # NoTarget
        PROVE  target \in Place /\ (mode \notin PixelModes => target.x >= 0)
    <2>1. mode \notin PixelModes => frame.depth \in Nat
      BY <1>1, <1>2, <1>3 DEF AcceptedFrom, Usable, PixelModes
    <2>2. /\ TargetOf(tracker, frame, pose) \in Place
          /\ mode \notin PixelModes =>
                TargetOf(tracker, frame, pose) = [x |-> pose.x + frame.depth, y |-> frame.mid]
      BY <1>1, <2>1, TargetIsPlace
    <2>3. mode \notin PixelModes => pose.x + frame.depth >= 0
      BY <2>1 DEF Pose
    <2> QED
      BY <1>2, <1>3, <2>2, <2>3
  <1> QED
    BY <1>2, <1>3 DEF GatePassed, target

\* The gate of the approach, before a goal.
LEMMA AligningOutcome ==
  ASSUME PipelineInv, at = "evaluate", mode = "approach", NEW pose \in Pose,
         ~ Terminal, approach.goal = None, frame.received > approach.after,
         tracker' = Track(tracker, frame, pose).tracker,
         LET target == Track(tracker, frame, pose).target
         IN IF target = NoTarget
            THEN approach' = Realigning(pose.at) /\ out' = Nothing
            ELSE IF target.y # 0
            THEN /\ approach' = Realigning(pose.at)
                 /\ out' = [kind |-> "live", x |-> pose.x, y |-> target.y]
            ELSE Aligned(target, pose)
  PROVE  Outcome(pose)
  <1> DEFINE target == Track(tracker, frame, pose).target
  <1>1. Consulted
    BY DEF Consulted
  <1>2. /\ tracker' \in Tracker
        /\ tracker'.cand = NoTarget \/ AcceptedFrom(tracker, frame, pose, tracker')
        /\ target # NoTarget => /\ GatePassed /\ AcceptedFrom(tracker, frame, pose, tracker')
                                /\ target \in Place /\ target.x >= 0
    <2>1. mode \notin PixelModes
      BY DEF PixelModes
    <2> QED
      BY <1>1, <2>1, GateOutcome
  <1>3. /\ Realigning(pose.at) \in Approaches /\ Realigning(pose.at).phase = "aligning"
        /\ Realigning(pose.at).goal = None /\ Realigning(pose.at).settling = None
    BY RealigningFields DEF PipelineInv, Pose
  <1>4. CASE target = NoTarget
    <2>1. approach' = Realigning(pose.at) /\ out' = Nothing
      BY <1>4
    <2> HIDE DEF target
    <2> QED
      BY <1>1, <1>2, <1>3, <2>1, NothingIsQuiet DEF Outcome
  <1>5. CASE target # NoTarget /\ target.y # 0
    <2>1. approach' = Realigning(pose.at) /\ out' = [kind |-> "live", x |-> pose.x, y |-> target.y]
      BY <1>5
    <2> HIDE DEF target
    <2>2. out' \in Outputs
      BY <1>2, <1>5, <2>1 DEF Outputs, Pose, Place
    <2> QED
      BY <1>1, <1>2, <1>3, <1>5, <2>1, <2>2 DEF Outcome
  <1>6. CASE target # NoTarget /\ target.y = 0
    <2>1. Aligned(target, pose)
      BY <1>6
    <2> HIDE DEF target
    <2> QED
      BY <1>2, <1>6, <2>1, AlignedOutcome
  <1> QED
    BY <1>4, <1>5, <1>6

\* The gate alone: what passes is commanded.
LEMMA TrackingOutcome ==
  ASSUME PipelineInv, at = "evaluate", mode # "approach", NEW pose \in Pose,
         tracker' = Track(tracker, frame, pose).tracker, UNCHANGED approach,
         out' = IF Track(tracker, frame, pose).target = NoTarget THEN Nothing
                ELSE Command("live", Track(tracker, frame, pose).target)
  PROVE  Outcome(pose)
  <1> DEFINE target == Track(tracker, frame, pose).target
  <1>1. Consulted
    BY DEF Consulted
  <1>2. /\ tracker' \in Tracker
        /\ tracker'.cand = NoTarget \/ AcceptedFrom(tracker, frame, pose, tracker')
        /\ target # NoTarget => GatePassed /\ target \in Place
    BY <1>1, GateOutcome
  <1>3. out' = IF target = NoTarget THEN Nothing ELSE Command("live", target)
    OBVIOUS
  <1> HIDE DEF target
  <1>4. out' \in Outputs /\ (out'.kind = "live" => target # NoTarget)
    BY <1>2, <1>3, NothingIsQuiet DEF Command, Outputs, Place
  <1>5. /\ approach \in Approaches
        /\ approach.goal = None /\ approach.settling = None
        /\ approach.phase \notin {"complete", "cancelled"}
    BY DEF PipelineInv, PipelineTypeOK, RestsSince, Terminal
  <1> QED
    BY <1>1, <1>2, <1>4, <1>5 DEF Outcome

\* One evaluation, in every mode of the program.
LEMMA EvaluateOutcome ==
  ASSUME PipelineInv, at = "evaluate", NEW pose \in Pose,
         IF mode = "approach" THEN EvaluateApproach(pose)
         ELSE /\ tracker' = Track(tracker, frame, pose).tracker /\ UNCHANGED approach
              /\ out' = IF Track(tracker, frame, pose).target = NoTarget THEN Nothing
                        ELSE Command("live", Track(tracker, frame, pose).target)
  PROVE  Outcome(pose)
  <1>1. CASE mode = "approach"
    BY <1>1, IdleOutcome, GoalOutcome, StaleOutcome, AligningOutcome DEF EvaluateApproach
  <1>2. CASE mode # "approach"
    BY <1>2, TrackingOutcome
  <1> QED
    BY <1>1, <1>2

------------------------------------------------------------------------------
(* The streak counts what the gate confirmed *)

\* The images remembered, after one more.
LEMMA RememberType ==
  ASSUME PipelineTypeOK, NEW pose \in Pose, Remember(pose)
  PROVE  streak' \in Nat /\ last' \in Image
  <1>1. NoFrame \in Image /\ RangeOf(frame, pose) \in Int
    BY DEF NoFrame, Image, None, RangeOf, PipelineTypeOK, Pose
  <1>2. last' = [frame EXCEPT !.depth = RangeOf(frame, pose)] => last' \in Image
    BY <1>1 DEF Image, PipelineTypeOK
  <1>3. streak' \in Nat
    BY Limits DEF Remember, PipelineTypeOK
  <1> QED
    BY <1>1, <1>2, <1>3 DEF Remember, PipelineTypeOK

\* What the gate confirmed, the streak has seen.
LEMMA CandidateRemembered ==
  ASSUME PipelineInv, at = "evaluate", NEW pose \in Pose, Consulted,
         tracker' \in Tracker, tracker'.cand # NoTarget,
         AcceptedFrom(tracker, frame, pose, tracker'), Remember(pose), mode' = mode
  PROVE  tracker'.count <= streak' /\ CandidateOfStreak'
  <1> USE DEF PipelineInv, PipelineTypeOK
  <1>1. /\ 0 <= frame.received /\ frame.depth \in Int /\ frame.mid \in Int
        /\ frame.received \in Int /\ frame.stamp \in Int
    BY DEF ImageIsDated, AcceptedFrom, Image
  <1>2. Good(pose)
    BY DEF AcceptedFrom, Good
  <1>3. /\ last' = [frame EXCEPT !.depth = RangeOf(frame, pose)]
        /\ streak' = IF last # NoFrame /\ Agrees(frame, pose)
                     THEN IF streak < MinFrames THEN streak + 1 ELSE MinFrames
                     ELSE 1
    BY <1>2 DEF Remember
  <1>4. /\ last'.stamp = frame.stamp /\ last'.received = frame.received
        /\ last'.mid = frame.mid /\ last'.depth = RangeOf(frame, pose)
    BY <1>3 DEF Image
  <1>5. mode \notin PixelModes =>
            TargetOf(tracker, frame, pose) = [x |-> RangeOf(frame, pose), y |-> frame.mid]
    BY DEF TargetOf, RangeOf
  <1>6. ASSUME Confirms(tracker, frame, pose, tracker')
        PROVE  last # NoFrame /\ Agrees(frame, pose)
    <2>1. /\ 0 <= last.received
          /\ tracker.stamp = last.stamp /\ tracker.received = last.received
          /\ tracker.received # None
      BY <1>6, Limits DEF Confirms, CandidateOfStreak
    <2>2. last # NoFrame
      BY <2>1, Limits DEF NoFrame
    <2>3. /\ frame.stamp > last.stamp /\ frame.received > last.received
          /\ frame.received - last.received <= MaxAge
      BY <1>6, <2>1 DEF Confirms
    <2>4. ~ FarFrom(frame.mid, last.mid) /\ ~ FarFrom(RangeOf(frame, pose), last.depth)
      <3>1. CASE mode \in PixelModes
        BY <1>6, <3>1 DEF Confirms, CandidateOfStreak, Jumped, RangeOf
      <3>2. CASE mode \notin PixelModes
        <4>1. tracker.cand = [x |-> last.depth, y |-> last.mid]
          BY <1>6, <3>2 DEF Confirms, CandidateOfStreak
        <4> QED
          BY <1>5, <1>6, <3>2, <4>1 DEF Confirms, Jumped
      <3> QED
        BY <3>1, <3>2
    <2> QED
      BY <2>2, <2>3, <2>4 DEF Agrees
  <1>7. tracker'.count <= streak'
    <2>1. CASE tracker'.count = 1
      BY <1>3, <2>1, Limits
    <2>2. CASE Confirms(tracker, frame, pose, tracker')
      <3>1. tracker.count <= streak /\ tracker.count \in Nat
        BY <2>2 DEF Confirms, CandidateOfStreak, Tracker
      <3>2. tracker'.count = IF tracker.count < MinFrames THEN tracker.count + 1 ELSE MinFrames
        BY <2>2 DEF Confirms
      <3>3. streak' = IF streak < MinFrames THEN streak + 1 ELSE MinFrames
        BY <1>3, <1>6, <2>2
      <3> QED
        BY <3>1, <3>2, <3>3, Limits
    <2> QED
      BY <2>1, <2>2 DEF AcceptedFrom
  <1>8. CASE mode \in PixelModes
    BY <1>1, <1>4, <1>7, <1>8 DEF AcceptedFrom, CandidateOfStreak, RangeOf
  <1>9. CASE mode \notin PixelModes
    BY <1>1, <1>4, <1>5, <1>7, <1>9 DEF AcceptedFrom, CandidateOfStreak
  <1> QED
    BY <1>7, <1>8, <1>9

------------------------------------------------------------------------------
(* The invariant *)

\* The gate of a program that has read nothing.
LEMMA EmptyGate ==
  /\ NoFrame \in Image /\ None \in Int
  /\ Session \in Approaches /\ Session.goal = None /\ Session.settling = None
  /\ Session.phase = "aligning"
  /\ Fresh \in Tracker /\ Fresh.cand = NoTarget
  /\ Nothing \in Outputs /\ Nothing.kind = "none"
  <1>1. NoFrame \in Image /\ Session \in Approaches /\ Session.goal = None
        /\ Session.settling = None /\ Session.phase = "aligning"
    BY DEF NoFrame, Image, Session, Approaches, None
  <1>2. NoTarget \in Place /\ None \in Int
    BY DEF NoTarget, Place, None
  <1>3. Fresh \in Tracker /\ Fresh.cand = NoTarget
    BY <1>2 DEF Fresh, Tracker
  <1> QED
    BY <1>1, <1>2, <1>3, NothingIsQuiet

LEMMA StartsClean == Init => PipelineInv
  <1> SUFFICES ASSUME Init PROVE PipelineInv
    OBVIOUS
  <1> USE DEF Init
  <1>1. Closed \in Cameras
    BY DEF Closed, Cameras
  <1>2. PipelineTypeOK
    BY <1>1, EmptyGate DEF PipelineTypeOK
  <1> QED
    BY <1>2, EmptyGate, Limits
    DEF PipelineInv, CameraStops, ImageIsDated, CandidateOfStreak, RestsSince, Terminal,
        TargetIsConfirmed

\* What every step of the camera leaves behind, the last one included.
LEMMA CameraTypes ==
  ASSUME PipelineInv, OpenCamera \/ StartPipeline \/ End
  PROVE  /\ at' \in {"opened", "loop", "failed", "done", "abandoned"}
         /\ cam' \in Cameras /\ streaming' \in BOOLEAN /\ CameraStops'
  <1> USE DEF PipelineInv, PipelineTypeOK
  <1>1. at' \in {"opened", "loop", "failed", "done", "abandoned"}
    BY DEF OpenCamera, StartPipeline, End, StopCamera
  <1>2. cam' \in Cameras /\ streaming' \in BOOLEAN
    <2>1. Closed \in Cameras
      BY DEF Closed, Cameras
    <2> QED
      BY <2>1 DEF OpenCamera, StartPipeline, End, StopCamera, Cameras
  <1>3. CameraStops'
    BY DEF OpenCamera, StartPipeline, End, StopCamera, CameraStops, Cameras
  <1> QED
    BY <1>1, <1>2, <1>3

\* The camera is opened and started: the gate is untouched.
LEMMA CameraSteps ==
  ASSUME PipelineInv, OpenCamera \/ StartPipeline
  PROVE  PipelineInv'
  <1> USE DEF PipelineInv, PipelineTypeOK
  <1>1. /\ at' \in {"opened", "loop", "failed", "done", "abandoned"}
        /\ cam' \in Cameras /\ streaming' \in BOOLEAN /\ CameraStops'
    BY CameraTypes
  <1>2. UNCHANGED <<now, mode, loopVars>>
    BY DEF OpenCamera, StartPipeline
  <1>3. PipelineTypeOK'
    <2>1. at' \in {"off", "opened", "failed", "loop", "evaluate", "done", "abandoned"}
      BY <1>1
    <2> QED
      BY <1>1, <1>2, <2>1 DEF loopVars
  <1>4. ImageIsDated'
    BY <1>1 DEF ImageIsDated
  <1>5. CandidateOfStreak' /\ RestsSince' /\ TargetIsConfirmed'
    BY <1>2 DEF CandidateOfStreak, RestsSince, TargetIsConfirmed, Terminal, loopVars
  <1> QED
    BY <1>1, <1>3, <1>4, <1>5

\* The program ends: the gate is as empty as it was at first.
LEMMA EndStep == PipelineInv /\ End => PipelineInv'
  <1> SUFFICES ASSUME PipelineInv, End PROVE PipelineInv'
    OBVIOUS
  <1>1. /\ at' \in {"opened", "loop", "failed", "done", "abandoned"}
        /\ cam' \in Cameras /\ streaming' \in BOOLEAN /\ CameraStops'
    BY CameraTypes
  <1>2. /\ anchor' = None /\ frame' = NoFrame /\ tracker' = Fresh /\ approach' = Session
        /\ out' = Nothing /\ streak' = 0 /\ last' = NoFrame /\ atRest' = None
        /\ UNCHANGED <<now, mode>>
    BY DEF End
  <1>3. PipelineTypeOK'
    <2>1. at' \in {"off", "opened", "failed", "loop", "evaluate", "done", "abandoned"}
      BY <1>1
    <2> QED
      BY <1>1, <1>2, <2>1, EmptyGate DEF PipelineInv, PipelineTypeOK
  <1>4. ImageIsDated'
    BY <1>1 DEF ImageIsDated
  <1>5. CandidateOfStreak' /\ RestsSince' /\ TargetIsConfirmed'
    <2>1. None <= now
      BY Limits DEF PipelineInv, PipelineTypeOK
    <2> QED
      BY <1>2, <2>1, EmptyGate
      DEF CandidateOfStreak, RestsSince, Terminal, TargetIsConfirmed
  <1> QED
    BY <1>1, <1>3, <1>4, <1>5 DEF PipelineInv

\* An image is read: it is dated by the distance to the first.
LEMMA ReadStep == PipelineInv /\ Read => PipelineInv'
  <1> SUFFICES ASSUME PipelineInv, Read PROVE PipelineInv'
    OBVIOUS
  <1> USE DEF PipelineInv, PipelineTypeOK
  <1>1. PICK stamp \in 0 .. now, v \in Views :
          /\ stamp >= now - MaxLate
          /\ frame' = [stamp |-> stamp, received |-> Received(stamp),
                       mid |-> IF PairFound(v.codes) THEN Midpoint(v.codes) ELSE None,
                       depth |-> IF mode # "pixel" /\ Located(v) THEN v.depth ELSE None]
          /\ anchor' = IF anchor = None THEN now - stamp ELSE anchor
    BY DEF Read
  <1>2. UNCHANGED <<now, mode, cam, streaming, tracker, approach, streak, last, atRest>> /\ out' = Nothing
    BY DEF Read
  <1>3. at = "loop" /\ at' \in {"loop", "evaluate"}
    BY DEF Read
  <1>4. anchor' \in Nat /\ anchor' # None
    BY <1>1, Limits
  <1>5. /\ Received(stamp) \in Int /\ 0 <= Received(stamp) /\ Received(stamp) <= now
        /\ Received(stamp) <= stamp + anchor'
    BY <1>1, Limits DEF Received
  <1>6. /\ (IF PairFound(v.codes) THEN Midpoint(v.codes) ELSE None) \in Int
        /\ (IF mode # "pixel" /\ Located(v) THEN v.depth ELSE None) \in Nat \cup {None}
    BY ViewsMeasured, Limits
  <1>7. /\ frame' \in Image /\ frame'.received = Received(stamp) /\ frame'.stamp = stamp
        /\ frame'.depth \in Nat \cup {None}
        /\ mode = "pixel" => frame'.depth = None
    <2>1. stamp \in Int /\ None \in Int
      BY Limits
    <2>2. (IF mode # "pixel" /\ Located(v) THEN v.depth ELSE None) \in Int
      BY <1>6, <2>1
    <2> QED
      BY <1>1, <1>5, <1>6, <2>1, <2>2 DEF Image
  <1>8. PipelineTypeOK'
    <2>1. at' \in {"off", "opened", "failed", "loop", "evaluate", "done", "abandoned"}
      BY <1>3
    <2> QED
      BY <1>2, <1>4, <1>7, <2>1, NothingIsQuiet
  <1>9. ImageIsDated'
    BY <1>2, <1>4, <1>5, <1>7 DEF ImageIsDated
  <1>10. CameraStops'
    BY <1>2, <1>3 DEF CameraStops
  <1>11. CandidateOfStreak' /\ RestsSince' /\ TargetIsConfirmed'
    BY <1>2, NothingIsQuiet DEF CandidateOfStreak, RestsSince, TargetIsConfirmed, Terminal
  <1> QED
    BY <1>8, <1>9, <1>10, <1>11

\* A new session: nothing is a candidate, nothing is held.
LEMMA RenewStep == PipelineInv /\ Renew => PipelineInv'
  <1> SUFFICES ASSUME PipelineInv, Renew PROVE PipelineInv'
    OBVIOUS
  <1> USE DEF PipelineInv, PipelineTypeOK
  <1>1. NoFrame \in Image /\ None \in Int /\ NoTarget \in Place
    BY DEF NoFrame, Image, None, NoTarget, Place
  <1>2. Fresh \in Tracker /\ Fresh.cand = NoTarget
    BY <1>1 DEF Fresh, Tracker
  <1>3. /\ approach' \in Approaches /\ approach'.goal = None /\ approach'.settling = None
        /\ approach'.phase = "aligning"
    <2>1. /\ Session \in Approaches /\ Session.goal = None /\ Session.settling = None
          /\ Session.phase = "aligning"
      BY DEF Session, Approaches, None
    <2>2. approach' = [Session EXCEPT !.after = now] /\ now \in Int
      BY DEF Renew
    <2> QED
      BY ONLY <2>1, <2>2 DEF Approaches
  <1>4. /\ tracker' = Fresh /\ out' = Nothing /\ streak' = 0 /\ last' = NoFrame /\ atRest' = None
        /\ UNCHANGED <<now, mode, at, cam, streaming, anchor, frame>> /\ at = "loop"
    BY DEF Renew
  <1>5. PipelineTypeOK'
    BY <1>1, <1>2, <1>3, <1>4, NothingIsQuiet
  <1>6. CameraStops' /\ ImageIsDated'
    BY <1>4 DEF CameraStops, ImageIsDated
  <1>7. CandidateOfStreak' /\ TargetIsConfirmed'
    BY <1>2, <1>3, <1>4, NothingIsQuiet DEF CandidateOfStreak, TargetIsConfirmed
  <1>8. RestsSince'
    BY <1>3, <1>4, Limits DEF RestsSince, Terminal
  <1> QED
    BY <1>5, <1>6, <1>7, <1>8

\* Time passes.
LEMMA TickStep == PipelineInv /\ Tick => PipelineInv'
  <1> SUFFICES ASSUME PipelineInv, Tick PROVE PipelineInv'
    OBVIOUS
  <1> USE DEF PipelineInv, PipelineTypeOK
  <1>1. now' = now + 1 /\ UNCHANGED <<mode, at, cam, streaming, loopVars>>
    BY DEF Tick
  <1>2. PipelineTypeOK' /\ CameraStops'
    BY <1>1 DEF loopVars, CameraStops
  <1>3. ImageIsDated'
    <2>1. frame.received \in Int
      BY DEF Image
    <2> QED
      BY <1>1, <2>1 DEF loopVars, ImageIsDated
  <1>4. CandidateOfStreak' /\ TargetIsConfirmed'
    BY <1>1 DEF loopVars, CandidateOfStreak, TargetIsConfirmed
  <1>5. RestsSince'
    <2>1. approach.settling \in Int
      BY DEF Approaches
    <2> QED
      BY <1>1, <2>1 DEF loopVars, RestsSince, Terminal
  <1> QED
    BY <1>2, <1>3, <1>4, <1>5

\* What an evaluation leaves besides its outcome.
LEMMA EvaluatePose ==
  ASSUME PipelineInv, Evaluate
  PROVE  /\ at = "evaluate" /\ at' = "loop"
         /\ UNCHANGED <<now, mode, cam, streaming, anchor>> /\ frame' = NoFrame
         /\ atRest' = IF out'.kind = "live" /\ out'.y = 0
                      THEN IF atRest = None THEN now ELSE atRest ELSE None
         /\ \E pose \in Pose : Outcome(pose) /\ Remember(pose)
  <1>1. PICK pose \in Poses :
          /\ IF mode = "approach" THEN EvaluateApproach(pose)
             ELSE /\ tracker' = Track(tracker, frame, pose).tracker /\ UNCHANGED approach
                  /\ out' = IF Track(tracker, frame, pose).target = NoTarget THEN Nothing
                            ELSE Command("live", Track(tracker, frame, pose).target)
          /\ Remember(pose)
    BY DEF Evaluate
  <1>2. pose \in Pose
    BY PosesType DEF PipelineInv, PipelineTypeOK
  <1>3. at = "evaluate" /\ at' = "loop"
    BY DEF Evaluate
  <1>4. Outcome(pose)
    BY <1>1, <1>2, <1>3, EvaluateOutcome
  <1> QED
    BY <1>1, <1>2, <1>4 DEF Evaluate

\* A target passes, or a goal is there: the streak is long enough.
LEMMA ConfirmedAfter ==
  ASSUME PipelineInv, at = "evaluate", mode' = mode,
         NEW pose \in Pose, Outcome(pose), Remember(pose)
  PROVE  TargetIsConfirmed'
  <1> USE DEF PipelineInv, PipelineTypeOK
  <1>1. streak' \in Nat
    BY RememberType
  <1>2. CASE GatePassed
    <2>1. /\ Consulted /\ tracker' \in Tracker /\ tracker'.cand # NoTarget
          /\ tracker'.count >= MinFrames /\ AcceptedFrom(tracker, frame, pose, tracker')
      BY <1>2 DEF GatePassed, Outcome
    <2>2. tracker'.count <= streak'
      BY <2>1, CandidateRemembered
    <2>3. tracker'.count \in Nat
      BY <2>1 DEF Tracker
    <2>4. streak' >= MinFrames
      BY <1>1, <2>1, <2>2, <2>3, Limits
    <2> QED
      BY <2>4 DEF TargetIsConfirmed
  <1>3. CASE ~ GatePassed
    <2>1. out'.kind # "live" /\ approach'.goal = approach.goal
      BY <1>3 DEF Outcome
    <2>2. ASSUME approach.goal # None PROVE streak' >= MinFrames
      <3>1. ~ Consulted
        BY <2>2 DEF Consulted, RestsSince
      <3>2. streak' = streak /\ streak >= MinFrames
        BY <2>2, <3>1 DEF Remember, TargetIsConfirmed
      <3> QED
        BY <3>2
    <2> QED
      BY <2>1, <2>2 DEF TargetIsConfirmed
  <1> QED
    BY <1>2, <1>3

\* The candidate stays the last image of the streak.
LEMMA CandidateAfter ==
  ASSUME PipelineInv, at = "evaluate", mode' = mode,
         NEW pose \in Pose, Outcome(pose), Remember(pose)
  PROVE  CandidateOfStreak'
  <1> USE DEF PipelineInv, PipelineTypeOK
  <1>1. CASE tracker'.cand = NoTarget
    BY <1>1 DEF CandidateOfStreak
  <1>2. CASE ~ Consulted /\ tracker' = tracker
    BY <1>2 DEF CandidateOfStreak, Remember
  <1>3. CASE /\ Consulted /\ tracker'.cand # NoTarget
             /\ AcceptedFrom(tracker, frame, pose, tracker')
    BY <1>3, CandidateRemembered DEF Outcome
  <1> QED
    BY <1>1, <1>2, <1>3 DEF Outcome

\* The chassis holds from the first image that shows the alignment.
LEMMA RestsAfter ==
  ASSUME PipelineInv, at = "evaluate", mode' = mode, now' = now,
         atRest' = IF out'.kind = "live" /\ out'.y = 0
                   THEN IF atRest = None THEN now ELSE atRest ELSE None,
         NEW pose \in Pose, Outcome(pose)
  PROVE  RestsSince' /\ atRest' \in Int
  <1> USE DEF PipelineInv, PipelineTypeOK
  <1>1. atRest \in Int /\ atRest <= now /\ None <= now /\ None \in Int /\ now # None
    BY Limits DEF RestsSince
  <1>2. atRest' \in Int /\ atRest' <= now'
    BY <1>1
  <1>3. ASSUME approach'.goal = None, approach'.settling # None
        PROVE  atRest' # None /\ atRest' <= approach'.settling /\ approach'.settling <= now'
    <2>1. /\ approach.goal = None /\ out'.kind = "live" /\ out'.y = 0
          /\ approach'.settling = SettleStart
      BY <1>3 DEF Outcome
    <2>2. atRest' = IF atRest = None THEN now ELSE atRest
      BY <2>1
    <2>3. CASE approach.settling = None
      BY <1>1, <2>1, <2>2, <2>3 DEF SettleStart
    <2>4. CASE approach.settling # None
      BY <1>1, <2>1, <2>2, <2>4 DEF SettleStart, RestsSince
    <2> QED
      BY <2>3, <2>4
  <1>4. Terminal' => approach'.goal # None
    BY DEF Terminal, Outcome
  <1>5. mode' # "approach" => approach'.goal = None /\ approach'.settling = None
    BY DEF Outcome, RestsSince
  <1> QED
    BY <1>2, <1>3, <1>4, <1>5 DEF RestsSince

LEMMA EvaluateStep == PipelineInv /\ Evaluate => PipelineInv'
  <1> SUFFICES ASSUME PipelineInv, Evaluate PROVE PipelineInv'
    OBVIOUS
  <1>1. PICK pose \in Pose : Outcome(pose) /\ Remember(pose)
    BY EvaluatePose
  <1>2. /\ at = "evaluate" /\ at' = "loop"
        /\ UNCHANGED <<now, mode, cam, streaming, anchor>> /\ frame' = NoFrame
        /\ atRest' = IF out'.kind = "live" /\ out'.y = 0
                     THEN IF atRest = None THEN now ELSE atRest ELSE None
    BY EvaluatePose
  <1>3. TargetIsConfirmed' /\ CandidateOfStreak' /\ RestsSince' /\ atRest' \in Int
    BY <1>1, <1>2, ConfirmedAfter, CandidateAfter, RestsAfter
  <1>4. streak' \in Nat /\ last' \in Image
    BY <1>1, RememberType DEF PipelineInv
  <1>5. frame' \in Image
    BY <1>2 DEF NoFrame, Image, None
  <1>6. tracker' \in Tracker /\ approach' \in Approaches /\ out' \in Outputs
    BY <1>1 DEF Outcome
  <1>7. PipelineTypeOK'
    BY <1>2, <1>3, <1>4, <1>5, <1>6 DEF PipelineInv, PipelineTypeOK
  <1>8. CameraStops' /\ ImageIsDated'
    BY <1>2 DEF PipelineInv, CameraStops, ImageIsDated
  <1> QED
    BY <1>3, <1>7, <1>8 DEF PipelineInv

LEMMA PipelineStep == PipelineInv /\ [Next]_vars => PipelineInv'
  <1> SUFFICES ASSUME PipelineInv, [Next]_vars PROVE PipelineInv'
    OBVIOUS
  <1>1. CASE OpenCamera
    BY <1>1, CameraSteps
  <1>2. CASE StartPipeline
    BY <1>2, CameraSteps
  <1>3. CASE End
    BY <1>3, EndStep
  <1>4. CASE Read
    BY <1>4, ReadStep
  <1>5. CASE Evaluate
    BY <1>5, EvaluateStep
  <1>6. CASE Renew
    BY <1>6, RenewStep
  <1>7. CASE Tick
    BY <1>7, TickStep
  <1>8. CASE UNCHANGED vars
    BY <1>8 DEF vars, loopVars, PipelineInv, PipelineTypeOK, CameraStops, ImageIsDated,
                CandidateOfStreak, RestsSince, Terminal, TargetIsConfirmed
  <1> QED
    BY <1>1, <1>2, <1>3, <1>4, <1>5, <1>6, <1>7, <1>8 DEF Next

\* Every reachable state is typed; the image under evaluation is dated, a candidate
\* belongs to the images that confirmed it, and the settling time to a chassis at rest.
THEOREM PipelineInvariance == Spec => []PipelineInv
  BY StartsClean, PipelineStep, PTL DEF Spec

\* The arm is never commanded to a target that fewer than min_valid_frames images in a
\* row confirmed: for any images, any delays, any jitter of the pose.
THEOREM TargetAlwaysConfirmed == Spec => []TargetIsConfirmed
  <1>1. PipelineInv => TargetIsConfirmed
    BY DEF PipelineInv
  <1> QED
    BY <1>1, PipelineInvariance, PTL

\* However the program ends, in whichever step of its start, the camera is stopped,
\* unless the SDK raises when it is told to.
THEOREM CameraAlwaysReleased == Spec => []CameraReleased
  <1>1. PipelineInv => CameraReleased
    BY DEF PipelineInv, CameraStops, CameraReleased
  <1> QED
    BY <1>1, PipelineInvariance, PTL

\* What passes comes out of an evaluation.
LEMMA PassesEvaluates ==
  ASSUME Next, Passes
  PROVE  Evaluate
  BY DEF Next, Passes, OpenCamera, StartPipeline, StopCamera, End, Read, Renew, Tick

\* No target is computed from an image older than max_frame_age_s, beyond the delay of
\* the first image.
THEOREM TargetAlwaysRecent == Spec => TargetIsRecent
  <1>1. ASSUME PipelineInv, Next, Passes
        PROVE  now - frame.stamp <= MaxAge + anchor
    <2>1. Evaluate
      BY <1>1, PassesEvaluates
    <2>2. PICK pose \in Pose : Outcome(pose)
      BY <1>1, <2>1, EvaluatePose
    <2>3. GatePassed
      BY <1>1, <2>2 DEF Passes, Outcome
    <2>4. now - frame.received <= MaxAge
      BY <2>2, <2>3 DEF GatePassed, Outcome, AcceptedFrom
    <2>5. frame.received <= frame.stamp + anchor /\ anchor \in Nat
      BY <1>1, Limits DEF PipelineInv, PipelineTypeOK, ImageIsDated, Passes
    <2>6. now \in Int /\ frame.received \in Int /\ frame.stamp \in Int
      BY <1>1 DEF PipelineInv, PipelineTypeOK, Image
    <2> QED
      BY <2>4, <2>5, <2>6, Limits
  <1>2. PipelineInv /\ [Next]_vars => [Passes => now - frame.stamp <= MaxAge + anchor]_vars
    BY <1>1
  <1> QED
    BY <1>2, PipelineInvariance, PTL DEF Spec, TargetIsRecent

\* A goal is captured only from an image that by the program's clock, which is late by
\* the delay of the first image, was taken after the chassis was commanded to hold for
\* longer than the settling time, and after the session began.
THEOREM GoalAlwaysSeenAtRest == Spec => GoalSeenAtRest
  <1>1. ASSUME PipelineInv, Next, Passes, approach'.goal # approach.goal
        PROVE  /\ atRest # None /\ frame.stamp + anchor > atRest + Settle
               /\ frame.stamp + anchor > approach.after
    <2>1. Evaluate
      BY <1>1, PassesEvaluates
    <2>2. PICK pose \in Pose : Outcome(pose)
      BY <1>1, <2>1, EvaluatePose
    <2>3. /\ approach.goal = None /\ approach.settling # None
          /\ frame.received > approach.settling + Settle
          /\ frame.received > approach.after
      BY <1>1, <2>2 DEF Outcome
    <2>4. atRest # None /\ atRest <= approach.settling
      BY <1>1, <2>3 DEF PipelineInv, RestsSince
    <2>5. frame.received <= frame.stamp + anchor /\ anchor \in Nat
      BY <1>1, Limits DEF PipelineInv, PipelineTypeOK, ImageIsDated, Passes
    <2>6. /\ atRest \in Int /\ frame.received \in Int /\ frame.stamp \in Int
          /\ approach.settling \in Int /\ approach.after \in Int
      BY <1>1 DEF PipelineInv, PipelineTypeOK, Image, Approaches
    <2> QED
      BY <2>3, <2>4, <2>5, <2>6, Limits
  <1>2. PipelineInv /\ [Next]_vars =>
          [Passes /\ approach'.goal # approach.goal =>
              /\ atRest # None /\ frame.stamp + anchor > atRest + Settle
              /\ frame.stamp + anchor > approach.after]_vars
    BY <1>1
  <1> QED
    BY <1>2, PipelineInvariance, PTL DEF Spec, GoalSeenAtRest
==============================================================================
