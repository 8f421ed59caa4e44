------------------------- MODULE VisionSession_proofs -------------------------
(***************************************************************************)
(* Proofs about VisionSession for any number of lost requests, lost        *)
(* answers and killed programs, requests that wait, and time: what is left *)
(* enabled at the car node, which goals it commits to, and what is         *)
(* published after a cancel.                                               *)
(***************************************************************************)
EXTENDS VisionSession, TLAPS

Nexts == {"off", "spin", "ready", "act", "armed"}
ToolType ==
    [at : Nexts \cup {"enabled", "get", "on", "disable"}, ctrl : BOOLEAN,
     released : BOOLEAN, request : BOOLEAN, cancel : BOOLEAN, pending : BOOLEAN,
     enabled : BOOLEAN, asked : BOOLEAN, sending : BOOLEAN,
     after : Int, goal : Int, frame : Int, next : Nexts]
Requests == {"get", "on", "orphan", "off"}

SessionTypeOK ==
    /\ now \in Nat
    /\ tool \in ToolType
    /\ calls \in Seq(Requests) /\ answer \in {"none", "free", "taken"}
    /\ param \in {"off", "mine", "left"}

\* What is asked for is noted before it is asked for, and by nobody who is off.
NotedFirst ==
    /\ tool.at \in {"on", "disable"} => tool.asked
    /\ tool.at = "off" => ~ tool.asked

\* A program that waits to disable has asked for it last, and an answer it hears
\* is the answer to that.
DisableIsLast ==
    tool.at = "disable" =>
        IF answer = "none" THEN calls = <<>> \/ calls[Len(calls)] = "off"
        ELSE calls = <<>> /\ param # "mine"

SessionInv == SessionTypeOK /\ NotedFirst /\ DisableIsLast /\ LeavesNothingOn

------------------------------------------------------------------------------
\* What is heard changes neither the step of the program nor what it noted.
Alike(t, u) == u \in ToolType /\ u.at = t.at /\ u.asked = t.asked /\ u.next = t.next

\* Nor does a release that is awaited,
LEMMA ReleaseAlike == \A t \in ToolType : Alike(t, Release(t))
  <1> SUFFICES ASSUME NEW t \in ToolType PROVE Alike(t, Release(t))
    OBVIOUS
  <1>1. (t.cancel \/ t.request) \in BOOLEAN
    OBVIOUS
  <1> QED
    BY <1>1 DEF ToolType, Alike, Release

\* a message of the button,
LEMMA ObserveAlike == \A t \in ToolType, m \in Messages : Alike(t, Observe(t, m))
  <1> SUFFICES ASSUME NEW t \in ToolType, NEW m \in Messages PROVE Alike(t, Observe(t, m))
    OBVIOUS
  <1>1. (t.cancel \/ t.request) \in BOOLEAN /\ (t.request \/ t.released) \in BOOLEAN
    OBVIOUS
  <1>2. CASE m = "none"
    BY <1>2 DEF Alike, Observe
  <1>3. CASE m = "on"
    BY <1>1, <1>3 DEF ToolType, Alike, Observe
  <1>4. CASE m = "off"
    BY <1>1, <1>4 DEF ToolType, Alike, Observe
  <1> QED
    BY <1>2, <1>3, <1>4 DEF Messages

\* the request that is taken from it,
LEMMA TakenAlike == \A t \in ToolType : Alike(t, Taken(t))
  <1> SUFFICES ASSUME NEW t \in ToolType PROVE Alike(t, Taken(t))
    OBVIOUS
  <1> DEFINE u == [t EXCEPT !.cancel = FALSE]
  <1>1. Alike(t, u)
    BY DEF ToolType, Alike
  <1>2. Alike(u, Release(u))
    BY <1>1, ReleaseAlike DEF Alike
  <1> QED
    BY <1>1, <1>2 DEF Taken, Alike

\* a new gate,
LEMMA NewGateAlike ==
  ASSUME now \in Nat, NEW t \in ToolType
  PROVE  Alike(t, NewGate(t))
  <1>1. None \in Int /\ now \in Int
    BY DEF None
  <1>2. NewGate(t) \in ToolType
    BY <1>1 DEF ToolType, NewGate
  <1>3. NewGate(t).at = t.at /\ NewGate(t).asked = t.asked /\ NewGate(t).next = t.next
    BY DEF ToolType, NewGate
  <1> QED
    BY <1>2, <1>3 DEF Alike

\* and what is heard in one turn.
LEMMA HeardAlike ==
  ASSUME tool \in ToolType, NEW gap \in BOOLEAN, NEW m \in Messages
  PROVE  Alike(tool, Heard(gap, m))
  <1>1. CASE gap
    <2>1. Alike(tool, Release(tool))
      BY ReleaseAlike
    <2>2. Alike(Release(tool), Observe(Release(tool), m))
      BY <2>1, ObserveAlike DEF Alike
    <2> QED
      BY <1>1, <2>1, <2>2 DEF Heard, Alike
  <1>2. CASE ~ gap
    BY <1>2, ObserveAlike DEF Heard
  <1> QED
    BY <1>1, <1>2

\* A program that is off is a state of the program.
LEMMA OffTyped == Off \in ToolType
  BY DEF Off, ToolType, Nexts, None

\* disable() asks last, or has nothing to ask.
LEMMA BeginDisableDoes ==
  ASSUME NEW t \in ToolType, NEW next \in Nexts, BeginDisable(t, next),
         calls \in Seq(Requests)
  PROVE  /\ tool' \in ToolType /\ tool'.asked = t.asked
         /\ t.asked => /\ tool'.at = "disable" /\ answer' = "none"
                       /\ calls' = Append(calls, "off")
         /\ ~ t.asked => tool'.at = next /\ UNCHANGED <<calls, answer>>
  <1>1. CASE t.asked
    <2>1. tool' = [t EXCEPT !.at = "disable", !.next = next, !.sending = FALSE]
      BY <1>1 DEF BeginDisable
    <2>2. tool' \in ToolType /\ tool'.asked = t.asked /\ tool'.at = "disable"
      BY <2>1 DEF ToolType
    <2> QED
      BY <1>1, <2>2 DEF BeginDisable, Ask
  <1>2. CASE ~ t.asked
    <2>1. tool' = [t EXCEPT !.at = next, !.pending = FALSE]
      BY <1>2 DEF BeginDisable
    <2>2. tool' \in ToolType /\ tool'.asked = t.asked /\ tool'.at = next
      BY <2>1 DEF ToolType
    <2> QED
      BY <1>2, <2>2 DEF BeginDisable
  <1> QED
    BY <1>1, <1>2

\* So it may follow any step at which the program has noted what it asked for.
LEMMA DisablePreserves ==
  ASSUME SessionInv, NEW t \in ToolType, NEW next \in Nexts, BeginDisable(t, next),
         t.asked = tool.asked, next # "disable", UNCHANGED <<now, param>>
  PROVE  SessionInv'
  <1> USE DEF SessionInv, SessionTypeOK
  <1>1. /\ tool' \in ToolType /\ tool'.asked = t.asked
        /\ t.asked => /\ tool'.at = "disable" /\ answer' = "none"
                      /\ calls' = Append(calls, "off")
        /\ ~ t.asked => tool'.at = next /\ UNCHANGED <<calls, answer>>
    BY BeginDisableDoes
  <1>2. CASE t.asked
    <2>1. calls' \in Seq(Requests) /\ calls'[Len(calls')] = "off"
      BY <1>1, <1>2 DEF Requests
    <2> QED
      BY <1>1, <1>2, <2>1 DEF NotedFirst, DisableIsLast, LeavesNothingOn
  <1>3. CASE ~ t.asked
    BY <1>1, <1>3 DEF NotedFirst, DisableIsLast, LeavesNothingOn, Nexts
  <1> QED
    BY <1>2, <1>3 DEF ToolType

\* The program ends at any step: its requests are nobody's.
LEMMA EndsPreserves ==
  ASSUME SessionInv, Ends, UNCHANGED now
  PROVE  SessionInv'
  <1> USE DEF SessionInv, SessionTypeOK, Ends
  <1>1. calls' \in Seq(Requests) /\ \A i \in DOMAIN calls' : calls'[i] # "on"
    BY DEF Requests
  <1>2. tool' \in ToolType /\ tool'.at = "off" /\ ~ tool'.asked
    BY OffTyped DEF Off
  <1> QED
    BY <1>1, <1>2 DEF NotedFirst, DisableIsLast, LeavesNothingOn

\* A step of the program that asks nothing, or asks while it has noted it.
LEMMA StepPreserves ==
  ASSUME SessionInv, tool' \in ToolType, UNCHANGED <<now, param>>,
         tool'.at \notin {"off", "disable"}, tool'.asked = tool.asked,
         tool'.at = "on" => tool.asked,
         \/ UNCHANGED <<calls, answer>>
         \/ UNCHANGED calls /\ answer' = "none"
         \/ Ask("get")
  PROVE  SessionInv'
  <1> USE DEF SessionInv, SessionTypeOK
  <1>1. calls' \in Seq(Requests) /\ answer' \in {"none", "free", "taken"}
    BY DEF Ask, Requests
  <1>2. (\A i \in DOMAIN calls : calls[i] # "on") => \A i \in DOMAIN calls' : calls'[i] # "on"
    BY DEF Ask
  <1> QED
    BY <1>1, <1>2 DEF NotedFirst, DisableIsLast, LeavesNothingOn

\* A step after which nothing of that has changed.
LEMMA AlikePreserves ==
  ASSUME SessionInv, Alike(tool, tool'), now' \in Nat, UNCHANGED <<calls, answer, param>>
  PROVE  SessionInv'
  BY DEF SessionInv, SessionTypeOK, NotedFirst, DisableIsLast, LeavesNothingOn, Alike

------------------------------------------------------------------------------
\* At the start nothing was asked for.
LEMMA SessionInitHolds == Init => SessionInv
  <1> SUFFICES ASSUME Init PROVE SessionInv
    OBVIOUS
  <1>1. tool \in ToolType /\ tool.at = "off" /\ ~ tool.asked
    BY OffTyped DEF Init, Off
  <1>2. SessionTypeOK
    BY <1>1 DEF Init, SessionTypeOK, Requests
  <1> QED
    BY <1>1, <1>2 DEF Init, SessionInv, NotedFirst, DisableIsLast, LeavesNothingOn

\* Messages taken while a service is awaited.
LEMMA HearWaitingPreserves == SessionInv /\ HearWaiting => SessionInv'
  BY HeardAlike, AlikePreserves DEF HearWaiting, SessionInv, SessionTypeOK

\* The loop turns to the request of the operator.
LEMMA RefreshPreserves == SessionInv /\ Refresh => SessionInv'
  <1> SUFFICES ASSUME SessionInv, Refresh PROVE SessionInv'
    OBVIOUS
  <1> USE DEF SessionInv, SessionTypeOK
  <1> DEFINE next == After(tool.at)
  <1>0. PICK gap \in BOOLEAN, m \in Messages, image \in Images :
           Refreshed(gap, m, image, next)
    BY DEF Refresh, Messages
  <1> DEFINE t == Heard(gap, m)
             u == [Taken(t) EXCEPT !.frame = image]
  <1>1. \/ /\ tool' = [Release(u) EXCEPT !.at = next] \/ tool' = [u EXCEPT !.at = next]
           /\ UNCHANGED <<calls, answer>>
        \/ /\ tool' = [NewGate(u) EXCEPT !.ctrl = TRUE, !.at = next]
           /\ UNCHANGED <<calls, answer>>
        \/ BeginDisable([NewGate(u) EXCEPT !.ctrl = FALSE], next)
    BY <1>0 DEF Refreshed
  <1>2. next \in {"ready", "act", "armed"}
    BY DEF Refresh, Places, After
  <1>3. image \in Int
    BY DEF Images, ToolType
  <1>4. Alike(tool, t)
    BY HeardAlike
  <1>5. Alike(tool, Taken(t))
    BY <1>4, TakenAlike DEF Alike
  <1> HIDE DEF t
  <1>6. Alike(tool, u)
    <2> DEFINE v == Taken(t)
    <2>1. v \in ToolType
      BY <1>5 DEF Alike
    <2>2. [v EXCEPT !.frame = image] \in ToolType
      BY <1>3, <2>1 DEF ToolType
    <2>3. /\ [v EXCEPT !.frame = image].at = v.at
          /\ [v EXCEPT !.frame = image].asked = v.asked
          /\ [v EXCEPT !.frame = image].next = v.next
      BY <2>1 DEF ToolType
    <2> QED
      BY <1>5, <2>2, <2>3 DEF Alike
  <1> HIDE DEF u
  <1>7. Alike(tool, Release(u))
    BY <1>6, ReleaseAlike DEF Alike
  <1>8. Alike(tool, NewGate(u))
    BY <1>6, NewGateAlike DEF Alike
  <1>9. UNCHANGED <<now, param>>
    BY DEF Refresh
  <1> HIDE DEF next
  <1>10. \A v \in ToolType :
            /\ [v EXCEPT !.at = next] \in ToolType
            /\ [v EXCEPT !.at = next].at = next
            /\ [v EXCEPT !.at = next].asked = v.asked
    BY <1>2 DEF ToolType, Nexts
  <1>11. \A v \in ToolType :
            /\ [v EXCEPT !.ctrl = TRUE, !.at = next] \in ToolType
            /\ [v EXCEPT !.ctrl = TRUE, !.at = next].at = next
            /\ [v EXCEPT !.ctrl = TRUE, !.at = next].asked = v.asked
    BY <1>2 DEF ToolType, Nexts
  <1>12. CASE /\ \/ tool' = [Release(u) EXCEPT !.at = next]
                 \/ tool' = [u EXCEPT !.at = next]
                 \/ tool' = [NewGate(u) EXCEPT !.ctrl = TRUE, !.at = next]
              /\ UNCHANGED <<calls, answer>>
    <2>1. tool' \in ToolType /\ tool'.at = next /\ tool'.asked = tool.asked
      BY <1>6, <1>7, <1>8, <1>10, <1>11, <1>12 DEF Alike
    <2> QED
      BY <1>2, <1>9, <1>12, <2>1, StepPreserves
  <1>13. CASE BeginDisable([NewGate(u) EXCEPT !.ctrl = FALSE], next)
    <2> DEFINE w == [NewGate(u) EXCEPT !.ctrl = FALSE]
    <2>1. w \in ToolType /\ w.asked = tool.asked
      BY <1>8 DEF Alike, ToolType
    <2> HIDE DEF w
    <2>2. BeginDisable(w, next)
      BY <1>13 DEF w
    <2> QED
      BY <1>2, <1>9, <2>1, <2>2, DisablePreserves DEF Nexts
  <1> QED
    BY <1>1, <1>12, <1>13

\* Disabling is asked for again.
LEMMA RetryPreserves == SessionInv /\ Retry => SessionInv'
  <1> SUFFICES ASSUME SessionInv, Retry PROVE SessionInv'
    OBVIOUS
  <1> USE DEF SessionInv, SessionTypeOK
  <1> DEFINE v == Taken(tool)
  <1>1. PICK image \in Images : BeginDisable([v EXCEPT !.frame = image], After(tool.at))
    BY DEF Retry
  <1>2. v \in ToolType /\ v.asked = tool.asked
    BY TakenAlike DEF Alike
  <1>3. image \in Int
    BY DEF Images, ToolType
  <1> HIDE DEF v
  <1>4. [v EXCEPT !.frame = image] \in ToolType /\ [v EXCEPT !.frame = image].asked = tool.asked
    BY <1>2, <1>3 DEF ToolType
  <1>5. After(tool.at) \in Nexts
    BY DEF Retry, Places, After, Nexts
  <1> QED
    BY <1>1, <1>4, <1>5, DisablePreserves DEF Retry, Nexts

\* The steps of the loop that ask for no session.
LEMMA ActPreserves ==
  ASSUME SessionInv, ActNone \/ ActEnable \/ ActPublish \/ Armed \/ Enabled \/ Start
  PROVE  SessionInv'
  <1> USE DEF SessionInv, SessionTypeOK
  <1>0. Done \in Int /\ None \in Int /\ GoalAfter \in Int
    BY DEF Done, None, GoalAfter, ToolType
  <1>1. CASE ActNone
    <2>1. PICK g \in Int, sending \in BOOLEAN :
             tool' = [Back(tool) EXCEPT !.goal = g, !.sending = sending]
      BY <1>0, <1>1 DEF ActNone, Back, ToolType
    <2>2. tool' \in ToolType /\ tool'.at = "spin" /\ tool'.asked = tool.asked
      BY <1>0, <2>1 DEF ToolType, Back, Nexts
    <2> QED
      BY <1>1, <2>2, StepPreserves DEF ActNone
  <1>2. CASE ActEnable
    <2>1. PICK g \in {tool.goal, GoalAfter} : tool' = [tool EXCEPT !.at = "get", !.goal = g]
      BY <1>2 DEF ActEnable
    <2>2. tool' \in ToolType /\ tool'.at = "get" /\ tool'.asked = tool.asked
      BY <1>0, <2>1 DEF ToolType
    <2> QED
      BY <1>2, <2>2, StepPreserves DEF ActEnable
  <1>3. CASE ActPublish
    <2>1. \/ tool' = [Back(tool) EXCEPT !.sending = TRUE]
          \/ tool' = [Back(tool) EXCEPT !.sending = TRUE, !.goal = GoalAfter]
      BY <1>3 DEF ActPublish
    <2>2. PICK b : b = Back(tool)
      OBVIOUS
    <2>3. b \in ToolType /\ b.at = "spin" /\ b.asked = tool.asked
      BY <1>0, <2>2 DEF ToolType, Back, Nexts
    <2>4. tool' \in ToolType /\ tool'.at = "spin" /\ tool'.asked = tool.asked
      BY <1>0, <2>1, <2>2, <2>3 DEF ToolType
    <2> QED
      BY <1>3, <2>4, StepPreserves DEF ActPublish
  <1>4. CASE Armed
    <2> DEFINE t == IF tool.ctrl THEN NewGate(tool) ELSE tool
    <2>1. tool' = Back(t)
      BY <1>4 DEF Armed
    <2>2. t \in ToolType /\ t.asked = tool.asked
      BY NewGateAlike DEF Alike
    <2> HIDE DEF t
    <2>3. tool' \in ToolType /\ tool'.at = "spin" /\ tool'.asked = tool.asked
      BY <1>0, <2>1, <2>2 DEF ToolType, Back, Nexts
    <2> QED
      BY <1>4, <2>3, StepPreserves DEF Armed
  <1>5. CASE Enabled
    <2>1. tool.asked
      BY <1>5 DEF Enabled, NotedFirst
    <2>2. tool' \in ToolType /\ tool'.at = "enabled" /\ tool'.asked = tool.asked
      BY <1>5, <2>1 DEF Enabled, ToolType
    <2> QED
      BY <1>5, <2>2, StepPreserves DEF Enabled
  <1>6. CASE Start
    <2>1. Off \in ToolType /\ Off.asked = FALSE
      BY OffTyped DEF Off
    <2>2. tool' = [Off EXCEPT !.at = "spin", !.after = now] /\ now \in Int
      BY <1>6 DEF Start
    <2>3. tool' \in ToolType /\ tool'.at = "spin" /\ tool'.asked = FALSE
      BY ONLY <2>1, <2>2 DEF ToolType, Nexts
    <2>4. tool.asked = FALSE
      BY <1>6 DEF Start, NotedFirst, ToolType
    <2> QED
      BY <1>6, <2>3, <2>4, StepPreserves DEF Start
  <1> QED
    BY <1>1, <1>2, <1>3, <1>4, <1>5, <1>6

\* The request to enable is made when it is noted.
LEMMA EnablePreserves == SessionInv /\ Enable => SessionInv'
  <1> SUFFICES ASSUME SessionInv, Enable PROVE SessionInv'
    OBVIOUS
  <1> USE DEF SessionInv, SessionTypeOK
  <1>1. tool' \in ToolType /\ tool'.at = "on" /\ tool'.asked
    BY DEF Enable, ToolType
  <1>2. calls' \in Seq(Requests) /\ answer' = "none" /\ UNCHANGED <<now, param>>
    BY DEF Enable, Ask, Requests
  <1> QED
    BY <1>1, <1>2 DEF NotedFirst, DisableIsLast, LeavesNothingOn

\* A session that was not granted, or not in time, is disabled.
LEMMA EnableFailsPreserves == SessionInv /\ EnableFails => SessionInv'
  <1> SUFFICES ASSUME SessionInv, EnableFails PROVE SessionInv'
    OBVIOUS
  <1> USE DEF SessionInv, SessionTypeOK
  <1>1. Alike(tool, Release(tool))
    BY ReleaseAlike
  <1>2. NewGate(Release(tool)) \in ToolType /\ NewGate(Release(tool)).asked = tool.asked
    BY <1>1, NewGateAlike DEF Alike
  <1> DEFINE g == NewGate(Release(tool))
             v == [Back(g) EXCEPT !.ctrl = FALSE]
  <1>3. BeginDisable(v, "spin")
    BY DEF EnableFails
  <1>4. g \in ToolType /\ g.asked = tool.asked
    BY <1>2
  <1> HIDE DEF g
  <1>5. None \in Int
    BY DEF None
  <1>6. v \in ToolType /\ v.asked = tool.asked
    BY <1>4, <1>5 DEF ToolType, Back, Nexts
  <1> HIDE DEF v
  <1> QED
    BY <1>3, <1>6, DisablePreserves DEF EnableFails, Nexts

\* Nothing is noted as asked for any more when the answer has come.
LEMMA DisabledPreserves == SessionInv /\ Disabled => SessionInv'
  <1> SUFFICES ASSUME SessionInv, Disabled PROVE SessionInv'
    OBVIOUS
  <1> USE DEF SessionInv, SessionTypeOK
  <1>1. calls = <<>> /\ param # "mine" /\ UNCHANGED <<now, calls, param>> /\ answer' = "none"
    BY DEF Disabled, DisableIsLast
  <1> DEFINE t == [tool EXCEPT !.enabled = FALSE, !.asked = FALSE, !.pending = FALSE,
                               !.at = tool.next]
  <1>2. t \in ToolType /\ t.at \in Nexts /\ ~ t.asked
    BY DEF ToolType
  <1>3. tool' \in {Off, Release(t), t}
    BY DEF Disabled
  <1> HIDE DEF t
  <1>4. Off.at \in Nexts /\ ~ Off.asked
    BY DEF Off, Nexts
  <1>5. tool' \in ToolType /\ tool'.at \in Nexts /\ ~ tool'.asked
    BY <1>2, <1>3, <1>4, OffTyped, ReleaseAlike DEF Alike
  <1> QED
    BY <1>1, <1>5 DEF NotedFirst, DisableIsLast, LeavesNothingOn, Nexts

\* A request to disable that failed leaves it noted, unless the program ends.
LEMMA DisableFailsPreserves == SessionInv /\ DisableFails => SessionInv'
  <1> SUFFICES ASSUME SessionInv, DisableFails PROVE SessionInv'
    OBVIOUS
  <1> USE DEF SessionInv, SessionTypeOK
  <1>1. CASE tool.next = "off"
    BY <1>1, EndsPreserves DEF DisableFails
  <1>2. CASE tool.next # "off"
    <2>1. Alike(tool, Release(tool))
      BY ReleaseAlike
    <2>2. tool' = [Release(tool) EXCEPT !.at = tool.next, !.pending = TRUE]
      BY <1>2 DEF DisableFails
    <2>3. tool.next \in Nexts
      BY DEF ToolType
    <2> DEFINE t == Release(tool)
    <2>4. t \in ToolType /\ t.asked = tool.asked
      BY <2>1 DEF Alike
    <2> HIDE DEF t
    <2>5. tool' = [t EXCEPT !.at = tool.next, !.pending = TRUE]
      BY <2>2 DEF t
    <2>6. tool' \in ToolType /\ tool'.at = tool.next /\ tool'.asked = tool.asked
      BY <2>3, <2>4, <2>5 DEF ToolType
    <2> QED
      BY <1>2, <2>3, <2>6, StepPreserves DEF DisableFails, Nexts
  <1> QED
    BY <1>1, <1>2

\* A session is closed: disabled, if one was noted.
LEMMA ClosePreserves == SessionInv /\ Close => SessionInv'
  <1> SUFFICES ASSUME SessionInv, Close PROVE SessionInv'
    OBVIOUS
  <1>1. CASE tool.asked
    BY <1>1, DisablePreserves DEF Close, SessionInv, SessionTypeOK, Nexts
  <1>2. CASE ~ tool.asked
    <2>1. tool' = Off /\ UNCHANGED <<now, calls, answer, param>>
      BY <1>2 DEF Close
    <2>2. tool' \in ToolType /\ tool'.at = "off" /\ ~ tool'.asked
      BY <2>1, OffTyped DEF Off
    <2> QED
      BY <1>2, <2>1, <2>2 DEF SessionInv, SessionTypeOK, NotedFirst, DisableIsLast,
         LeavesNothingOn
  <1> QED
    BY <1>1, <1>2

\* A request that is served or lost was the oldest one.
LEMMA TailOf ==
  ASSUME calls \in Seq(Requests), calls # <<>>
  PROVE  /\ Tail(calls) \in Seq(Requests)
         /\ Head(calls) = calls[1] /\ Head(calls) \in Requests
         /\ \A i \in DOMAIN Tail(calls) : Tail(calls)[i] = calls[i + 1] /\ i + 1 \in DOMAIN calls
         /\ Len(calls) = 1 => Tail(calls) = <<>>
         /\ Tail(calls) = <<>> \/ Tail(calls)[Len(Tail(calls))] = calls[Len(calls)]
  OBVIOUS

\* The car node serves the oldest request.
LEMMA ServePreserves == SessionInv /\ Serve => SessionInv'
  <1> SUFFICES ASSUME SessionInv, Serve PROVE SessionInv'
    OBVIOUS
  <1> USE DEF SessionInv, SessionTypeOK
  <1>1. calls # <<>> /\ calls' = Tail(calls) /\ UNCHANGED <<now, tool>>
    BY DEF Serve
  <1>2. /\ Tail(calls) \in Seq(Requests) /\ Head(calls) = calls[1] /\ Head(calls) \in Requests
        /\ \A i \in DOMAIN Tail(calls) : Tail(calls)[i] = calls[i + 1] /\ i + 1 \in DOMAIN calls
        /\ Len(calls) = 1 => Tail(calls) = <<>>
        /\ Tail(calls) = <<>> \/ Tail(calls)[Len(Tail(calls))] = calls[Len(calls)]
    BY <1>1, TailOf
  <1>3. Head(calls) # "on" /\ param # "mine" => param' # "mine"
    BY <1>2 DEF Serve, Requests
  <1>4. param' \in {"off", "mine", "left"} /\ answer' \in {"none", "free", "taken"}
    BY <1>2 DEF Serve, Requests
  <1>5. DisableIsLast'
    <2> SUFFICES ASSUME tool.at = "disable"
                 PROVE  IF answer' = "none" THEN calls' = <<>> \/ calls'[Len(calls')] = "off"
                        ELSE calls' = <<>> /\ param' # "mine"
      BY <1>1 DEF DisableIsLast
    <2>1. answer = "none" /\ calls[Len(calls)] = "off"
      BY <1>1 DEF DisableIsLast
    <2>2. CASE Len(calls) = 1
      <3>1. Head(calls) = "off"
        BY <1>2, <2>1, <2>2
      <3>2. param' = "off" /\ answer' = "free"
        BY <2>2, <3>1 DEF Serve, Answered, Awaiting
      <3> QED
        BY <1>1, <1>2, <2>2, <3>2
    <2>3. CASE Len(calls) # 1
      <3>1. answer' = "none"
        BY <2>1, <2>3 DEF Serve, Answered
      <3> QED
        BY <1>1, <1>2, <2>1, <3>1
    <2> QED
      BY <2>2, <2>3
  <1>6. LeavesNothingOn'
    <2> SUFFICES ASSUME ~ tool.asked
                 PROVE  param' # "mine" /\ \A i \in DOMAIN calls' : calls'[i] # "on"
      BY <1>1 DEF LeavesNothingOn
    <2>1. param # "mine" /\ \A i \in DOMAIN calls : calls[i] # "on"
      BY DEF LeavesNothingOn
    <2>2. 1 \in DOMAIN calls
      BY <1>1
    <2>3. param' # "mine"
      BY <1>2, <1>3, <2>1, <2>2
    <2> QED
      BY <1>1, <1>2, <2>1, <2>3
  <1>7. NotedFirst'
    BY <1>1 DEF NotedFirst
  <1> QED
    BY <1>1, <1>2, <1>4, <1>5, <1>6, <1>7

\* A request or its answer is lost, or a message.
LEMMA LosePreserves == SessionInv /\ LoseAny => SessionInv'
  <1> SUFFICES ASSUME SessionInv, LoseAny PROVE SessionInv'
    OBVIOUS
  <1> USE DEF SessionInv, SessionTypeOK
  <1>1. UNCHANGED <<now, tool, answer>>
    BY DEF LoseAny
  <1>2. CASE UNCHANGED <<calls, param>>
    BY <1>1, <1>2 DEF NotedFirst, DisableIsLast, LeavesNothingOn
  <1>3. CASE /\ calls # <<>> /\ calls' = Tail(calls)
             /\ \E done \in BOOLEAN :
                   param' = IF ~ done \/ Head(calls) = "get" THEN param
                            ELSE IF Head(calls) = "on" THEN "mine"
                            ELSE IF Head(calls) = "orphan" THEN "left" ELSE "off"
    <2>1. /\ Tail(calls) \in Seq(Requests) /\ Head(calls) = calls[1]
          /\ \A i \in DOMAIN Tail(calls) : Tail(calls)[i] = calls[i + 1] /\ i + 1 \in DOMAIN calls
          /\ Tail(calls) = <<>> \/ Tail(calls)[Len(Tail(calls))] = calls[Len(calls)]
      BY <1>3, TailOf
    <2>2. param' \in {"off", "mine", "left"}
          /\ (Head(calls) # "on" /\ param # "mine" => param' # "mine")
      BY <1>3
    <2>3. DisableIsLast'
      BY <1>1, <1>3, <2>1 DEF DisableIsLast
    <2>4. LeavesNothingOn'
      <3> SUFFICES ASSUME ~ tool.asked
                   PROVE  param' # "mine" /\ \A i \in DOMAIN calls' : calls'[i] # "on"
        BY <1>1 DEF LeavesNothingOn
      <3>1. param # "mine" /\ (\A i \in DOMAIN calls : calls[i] # "on") /\ 1 \in DOMAIN calls
        BY <1>3 DEF LeavesNothingOn
      <3> QED
        BY <1>3, <2>1, <2>2, <3>1
    <2> QED
      BY <1>1, <1>3, <2>1, <2>2, <2>3, <2>4 DEF NotedFirst
  <1> QED
    BY <1>2, <1>3 DEF LoseAny, Lose

\* Every step.
LEMMA NextPreserves == SessionInv /\ [Next]_vars => SessionInv'
  <1> SUFFICES ASSUME SessionInv, [Next]_vars PROVE SessionInv'
    OBVIOUS
  <1>1. CASE UNCHANGED <<now, tool, calls, answer, param>>
    BY <1>1 DEF SessionInv, SessionTypeOK, NotedFirst, DisableIsLast, LeavesNothingOn
  <1>2. CASE Tick
    <2>1. Alike(tool, tool') /\ now' \in Nat /\ UNCHANGED <<calls, answer, param>>
      BY <1>2 DEF Tick, Alike, SessionInv, SessionTypeOK
    <2> QED
      BY <2>1, AlikePreserves
  <1>3. CASE HearWaiting
    BY <1>3, HearWaitingPreserves
  <1>4. CASE Tool
    BY <1>4, RefreshPreserves, ActPreserves, EnablePreserves, EnableFailsPreserves,
       DisabledPreserves, DisableFailsPreserves DEF Tool
  <1>5. CASE Retry \/ Close
    BY <1>5, RetryPreserves, ClosePreserves
  <1>6. CASE Start
    BY <1>6, ActPreserves
  <1>7. CASE Kill
    BY <1>7, EndsPreserves DEF Kill
  <1>8. CASE Car
    BY <1>1, <1>8, ServePreserves DEF Car, Update, ObserveTarget, ObserveGoal, Stop
  <1>9. CASE LoseAny
    BY <1>9, LosePreserves
  <1> QED
    BY <1>1, <1>2, <1>3, <1>4, <1>5, <1>6, <1>7, <1>8, <1>9 DEF Next, vars

\* The invariant is inductive.
LEMMA SessionInvariance == Spec => []SessionInv
  <1> QED
    BY SessionInitHolds, NextPreserves, PTL DEF Spec

\* Whatever requests and answers are lost or late, however often the program is
\* started and killed, a program that does not note a session has none enabled
\* and none about to be. (arm_tracking_ros.py:152, enable; :204, disable)
THEOREM LeavesNothingOnEver == Spec => []LeavesNothingOn
  <1>1. SessionInv => LeavesNothingOn
    BY DEF SessionInv
  <1> QED
    BY <1>1, SessionInvariance, PTL

------------------------------------------------------------------------------
(* Goals and requests *)

\* The types of what the car node keeps and of the messages on their way to it.
CtlType ==
    [enabled : BOOLEAN, latched : BOOLEAN, base : BOOLEAN, goal : Int, target : Int,
     sent : Int, min : Int, last : Int, held : Int]

TopicsTypeOK ==
    /\ target \in Int /\ goal \in [of : Int, stamp : Int]
    /\ stop \in BOOLEAN /\ wanted \in BOOLEAN /\ ctl \in CtlType

\* A session under control was asked for, and unless a cancel was heard since then
\* the request stands.  Targets are published only where nothing is heard.
RequestStands ==
    tool.ctrl =>
        /\ tool.request \/ tool.cancel
        /\ tool.request /\ ~ tool.cancel => wanted
        /\ tool.at = "act" => wanted

\* A session that is being disabled, or still has to be, is not under control.
Withdrawn ==
    /\ tool.pending => ~ tool.ctrl
    /\ tool.at = "disable" /\ tool.next # "off" => ~ tool.ctrl

\* A program that waits for its session has asked for it last, and an answer it hears
\* is the answer to that.
EnableIsLast ==
    tool.at = "on" =>
        IF answer = "none" THEN calls = <<>> \/ calls[Len(calls)] = "on"
        ELSE calls = <<>> /\ param = "mine"

\* A session that was granted is the program's until it asks to disable it.
Granted ==
    /\ tool.enabled => tool.asked
    /\ tool.at \in {"get", "on"} => tool.ctrl /\ ~ tool.enabled
    /\ tool.enabled /\ tool.at # "disable" => tool.ctrl \/ tool.pending
    /\ tool.enabled /\ tool.at # "disable" /\ tool.ctrl => calls = <<>> /\ param = "mine"

\* The gate of a granted session was made when the car node already held the arm, or
\* was about to: the clock waits for it.
GateAfterHold ==
    tool.enabled /\ tool.ctrl /\ tool.at \notin {"disable", "enabled", "armed"} =>
        IF ctl.enabled THEN ctl.held <= tool.after ELSE tool.after = now

\* The goal of a gate was captured after the gate was made.
GoalAfterGate == tool.goal \in {None, Done} \/ tool.goal > tool.after

\* The car node takes nothing that was sent before the mode last changed.
HeldBefore == ctl.held <= now /\ ctl.min <= now

\* A goal on its way that would still be taken was captured after the arm was held.
GoalOnItsWay ==
    goal # NoGoal =>
        /\ goal.stamp <= now /\ goal.of # None
        /\ ctl.enabled /\ goal.stamp > ctl.min => goal.of > ctl.held

CommitInv ==
    /\ TopicsTypeOK /\ RequestStands /\ Withdrawn /\ EnableIsLast /\ Granted
    /\ GateAfterHold /\ GoalAfterGate /\ HeldBefore /\ GoalOnItsWay /\ GoalAfterHold

\* What is heard and taken changes the request and nothing else of the session.
Same(t, u) ==
    /\ u \in ToolType
    /\ u.at = t.at /\ u.asked = t.asked /\ u.next = t.next /\ u.enabled = t.enabled
    /\ u.ctrl = t.ctrl /\ u.pending = t.pending
    /\ u.after = t.after /\ u.goal = t.goal /\ u.frame = t.frame

\* The two flags of the button in which a request is kept.
Flags(t, request, cancel) == t.request = request /\ t.cancel = cancel

\* A request that must be released first is turned into a cancel.
LEMMA ReleaseSame ==
  \A t \in ToolType : Same(t, Release(t)) /\ Flags(Release(t), FALSE, t.cancel \/ t.request)
                      /\ Release(t).released = FALSE
  <1> SUFFICES ASSUME NEW t \in ToolType
               PROVE  Same(t, Release(t)) /\ Flags(Release(t), FALSE, t.cancel \/ t.request)
                      /\ Release(t).released = FALSE
    OBVIOUS
  <1>1. PICK c : c = (t.cancel \/ t.request)
    OBVIOUS
  <1>2. c \in BOOLEAN
    BY <1>1
  <1>3. Release(t) = [t EXCEPT !.cancel = c, !.released = FALSE, !.request = FALSE]
    BY <1>1 DEF Release
  <1>4. Same(t, Release(t)) /\ Flags(Release(t), FALSE, c) /\ Release(t).released = FALSE
    BY ONLY <1>2, <1>3, t \in ToolType DEF ToolType, Same, Flags
  <1> QED
    BY <1>1, <1>4

\* A message of the button.
LEMMA ObserveSame ==
  \A t \in ToolType, m \in Messages :
     /\ Same(t, Observe(t, m))
     /\ m = "none" => Flags(Observe(t, m), t.request, t.cancel)
     /\ m = "on" => Flags(Observe(t, m), t.request \/ t.released, t.cancel)
     /\ m = "off" => Flags(Observe(t, m), FALSE, t.cancel \/ t.request)
  <1> SUFFICES ASSUME NEW t \in ToolType, NEW m \in Messages
               PROVE  /\ Same(t, Observe(t, m))
                      /\ m = "none" => Flags(Observe(t, m), t.request, t.cancel)
                      /\ m = "on" => Flags(Observe(t, m), t.request \/ t.released, t.cancel)
                      /\ m = "off" => Flags(Observe(t, m), FALSE, t.cancel \/ t.request)
    OBVIOUS
  <1>1. PICK c : c = (t.cancel \/ t.request)
    OBVIOUS
  <1>2. PICK r : r = (t.request \/ t.released)
    OBVIOUS
  <1>3. c \in BOOLEAN /\ r \in BOOLEAN
    BY <1>1, <1>2
  <1>4. CASE m = "none"
    BY <1>4 DEF Same, Observe, Flags
  <1>5. CASE m = "on"
    <2>1. Observe(t, m) = [t EXCEPT !.request = r]
      BY <1>2, <1>5 DEF Observe
    <2>2. Same(t, Observe(t, m)) /\ Flags(Observe(t, m), r, t.cancel)
      BY ONLY <1>3, <2>1, t \in ToolType DEF ToolType, Same, Flags
    <2> QED
      BY <1>2, <1>5, <2>2
  <1>6. CASE m = "off"
    <2>1. Observe(t, m) = [t EXCEPT !.released = TRUE, !.request = FALSE, !.cancel = c]
      BY <1>1, <1>6 DEF Observe
    <2>2. Same(t, Observe(t, m)) /\ Flags(Observe(t, m), FALSE, c)
      BY ONLY <1>3, <2>1, t \in ToolType DEF ToolType, Same, Flags
    <2> QED
      BY <1>1, <1>6, <2>2
  <1> QED
    BY <1>4, <1>5, <1>6 DEF Messages

\* A request that was heard stays, or a cancel; and what still stands after a message
\* was not interrupted by it.
LEMMA HeardSame ==
  ASSUME tool \in ToolType, NEW gap \in BOOLEAN, NEW m \in Messages
  PROVE  /\ Same(tool, Heard(gap, m))
         /\ tool.request \/ tool.cancel => Heard(gap, m).request \/ Heard(gap, m).cancel
         /\ /\ tool.request \/ tool.cancel
            /\ Heard(gap, m).request /\ ~ Heard(gap, m).cancel
            => tool.request /\ ~ tool.cancel /\ ~ gap /\ m # "off"
  <1>1. m = "none" \/ m = "on" \/ m = "off"
    BY DEF Messages
  <1>2. CASE gap
    <2>0. PICK t : t = Release(tool)
      OBVIOUS
    <2>1. Same(tool, t) /\ Flags(t, FALSE, tool.cancel \/ tool.request) /\ t.released = FALSE
      BY <2>0, ReleaseSame
    <2>2. t \in ToolType
      BY <2>1 DEF Same
    <2>3. /\ Same(t, Observe(t, m))
          /\ m = "none" => Flags(Observe(t, m), t.request, t.cancel)
          /\ m = "on" => Flags(Observe(t, m), t.request \/ t.released, t.cancel)
          /\ m = "off" => Flags(Observe(t, m), FALSE, t.cancel \/ t.request)
      BY <2>2, ObserveSame
    <2>4. Heard(gap, m) = Observe(t, m)
      BY <1>2, <2>0 DEF Heard
    <2>5. Same(tool, Heard(gap, m))
      BY <2>1, <2>3, <2>4 DEF Same
    <2>6. Heard(gap, m).request = FALSE
      BY <1>1, <2>1, <2>3, <2>4 DEF Flags
    <2>7. tool.request \/ tool.cancel => Heard(gap, m).cancel
      BY <1>1, <2>1, <2>3, <2>4 DEF Flags
    <2> QED
      BY <2>5, <2>6, <2>7
  <1>3. CASE ~ gap
    <2>1. Heard(gap, m) = Observe(tool, m)
      BY <1>3 DEF Heard
    <2>2. /\ Same(tool, Observe(tool, m))
          /\ m = "none" => Flags(Observe(tool, m), tool.request, tool.cancel)
          /\ m = "on" => Flags(Observe(tool, m), tool.request \/ tool.released, tool.cancel)
          /\ m = "off" => Flags(Observe(tool, m), FALSE, tool.cancel \/ tool.request)
      BY ObserveSame
    <2> QED
      BY <1>1, <1>3, <2>1, <2>2 DEF Flags
  <1> QED
    BY <1>2, <1>3

\* A request that is not cancelled is left to stand.
LEMMA TakenSame ==
  \A t \in ToolType : /\ Same(t, Taken(t))
                      /\ ~ t.cancel => Flags(Taken(t), t.request, FALSE)
  <1> SUFFICES ASSUME NEW t \in ToolType
               PROVE  Same(t, Taken(t)) /\ (~ t.cancel => Flags(Taken(t), t.request, FALSE))
    OBVIOUS
  <1>0. PICK u : u = [t EXCEPT !.cancel = FALSE]
    OBVIOUS
  <1>1. Same(t, u) /\ Flags(u, t.request, FALSE)
    BY <1>0 DEF ToolType, Same, Flags
  <1>2. Same(u, Release(u))
    BY <1>1, ReleaseSame DEF Same
  <1>3. Taken(t) = IF t.cancel /\ t.request THEN Release(u) ELSE u
    BY <1>0 DEF Taken
  <1>4. Same(t, Release(u))
    BY <1>1, <1>2 DEF Same
  <1> QED
    BY <1>1, <1>3, <1>4

\* A new gate: nothing before it counts.
LEMMA NewGateDoes ==
  ASSUME now \in Nat, NEW t \in ToolType
  PROVE  /\ NewGate(t) \in ToolType /\ NewGate(t).after = now /\ NewGate(t).goal = None
         /\ NewGate(t).at = t.at /\ NewGate(t).asked = t.asked /\ NewGate(t).next = t.next
         /\ NewGate(t).enabled = t.enabled /\ NewGate(t).ctrl = t.ctrl
         /\ NewGate(t).pending = t.pending
         /\ Flags(NewGate(t), t.request, t.cancel)
  <1>1. None \in Int /\ now \in Int
    BY DEF None
  <1> QED
    BY <1>1 DEF ToolType, NewGate, Flags

\* A step of the program alone: what the car node keeps stays, and the topics too.
LEMMA ProgramStep ==
  ASSUME CommitInv, UNCHANGED <<now, target, goal, ctl>>, stop' \in BOOLEAN, wanted' \in BOOLEAN,
         RequestStands', Withdrawn', EnableIsLast', Granted', GateAfterHold', GoalAfterGate'
  PROVE  CommitInv'
  BY DEF CommitInv, TopicsTypeOK, HeldBefore, GoalOnItsWay, GoalAfterHold

\* To disable, a session must have been taken from control, or the program be ending.
LEMMA DisableCommits ==
  ASSUME CommitInv, NEW t \in ToolType, NEW next \in Nexts, BeginDisable(t, next),
         calls \in Seq(Requests),
         t.enabled => t.asked, t.ctrl => next = "off",
         t.ctrl => (t.request \/ t.cancel) /\ (t.request /\ ~ t.cancel => wanted'),
         t.pending => ~ t.ctrl,
         t.goal \in {None, Done} \/ t.goal > t.after,
         wanted' \in BOOLEAN, UNCHANGED <<now, target, goal, param, ctl>>
  PROVE  CommitInv'
  <1>1. CASE t.asked
    <2>1. /\ tool' = [t EXCEPT !.at = "disable", !.next = next, !.sending = FALSE]
          /\ stop' = TRUE
      BY <1>1 DEF BeginDisable
    <2>2. /\ tool'.at = "disable" /\ tool'.next = next /\ tool'.asked = t.asked
          /\ tool'.enabled = t.enabled /\ tool'.ctrl = t.ctrl /\ tool'.pending = t.pending
          /\ tool'.request = t.request /\ tool'.cancel = t.cancel
          /\ tool'.goal = t.goal /\ tool'.after = t.after
      BY <2>1 DEF ToolType
    <2>3. RequestStands' /\ Withdrawn' /\ EnableIsLast' /\ GateAfterHold' /\ GoalAfterGate'
      BY <2>2 DEF RequestStands, Withdrawn, EnableIsLast, GateAfterHold, GoalAfterGate
    <2>4. Granted'
      BY <1>1, <2>2 DEF Granted
    <2> QED
      BY <2>1, <2>3, <2>4, ProgramStep
  <1>2. CASE ~ t.asked
    <2>1. tool' = [t EXCEPT !.at = next, !.pending = FALSE] /\ UNCHANGED <<stop, calls, answer>>
      BY <1>2 DEF BeginDisable
    <2>2. /\ tool'.at = next /\ tool'.asked = t.asked
          /\ tool'.enabled = t.enabled /\ tool'.ctrl = t.ctrl /\ tool'.pending = FALSE
          /\ tool'.request = t.request /\ tool'.cancel = t.cancel
          /\ tool'.goal = t.goal /\ tool'.after = t.after
      BY <2>1 DEF ToolType
    <2>3. ~ tool'.enabled /\ tool'.at \notin {"on", "get", "disable"}
      BY <1>2, <2>2 DEF Nexts
    <2>4. RequestStands' /\ Withdrawn' /\ EnableIsLast' /\ GateAfterHold' /\ GoalAfterGate'
      BY <2>2, <2>3 DEF RequestStands, Withdrawn, EnableIsLast, GateAfterHold, GoalAfterGate
    <2>5. Granted'
      BY <2>3 DEF Granted
    <2>6. stop' \in BOOLEAN
      BY <2>1 DEF CommitInv, TopicsTypeOK
    <2> QED
      BY <2>4, <2>5, <2>6, ProgramStep
  <1> QED
    BY <1>1, <1>2

\* A program that is off has no session.
LEMMA OffCommits ==
  ASSUME CommitInv, tool' = Off, UNCHANGED <<now, target, goal, ctl>>,
         stop' \in BOOLEAN, wanted' \in BOOLEAN
  PROVE  CommitInv'
  <1>1. /\ Off.at = "off" /\ ~ Off.ctrl /\ ~ Off.pending /\ ~ Off.enabled /\ Off.goal = None
    BY DEF Off
  <1>2. /\ tool'.at = "off" /\ ~ tool'.ctrl /\ ~ tool'.pending /\ ~ tool'.enabled
        /\ tool'.goal = None
    BY <1>1
  <1>3. RequestStands' /\ Withdrawn' /\ EnableIsLast' /\ Granted' /\ GateAfterHold' /\ GoalAfterGate'
    BY <1>2 DEF RequestStands, Withdrawn, EnableIsLast, Granted, GateAfterHold, GoalAfterGate
  <1> QED
    BY <1>3, ProgramStep

\* At the start nothing is under control and nothing on its way.
LEMMA CommitInitHolds == Init => CommitInv
  <1> SUFFICES ASSUME Init PROVE CommitInv
    OBVIOUS
  <1>1. None \in Int /\ 0 \in Int /\ None < 0
    BY DEF None
  <1>2. TopicsTypeOK
    BY <1>1 DEF Init, TopicsTypeOK, NoGoal, Idle, CtlType
  <1>3. HeldBefore /\ GoalOnItsWay /\ GoalAfterHold
    BY <1>1 DEF Init, HeldBefore, GoalOnItsWay, GoalAfterHold, Idle
  <1>4. tool.at = "off" /\ ~ tool.ctrl /\ ~ tool.pending /\ ~ tool.enabled /\ tool.goal = None
    BY DEF Init, Off
  <1>5. RequestStands /\ Withdrawn /\ EnableIsLast /\ Granted /\ GateAfterHold /\ GoalAfterGate
    BY <1>4 DEF RequestStands, Withdrawn, EnableIsLast, Granted, GateAfterHold, GoalAfterGate
  <1> QED
    BY <1>2, <1>3, <1>5 DEF CommitInv

\* What is heard while a service is awaited.
LEMMA HearWaitingCommits == SessionInv /\ CommitInv /\ HearWaiting => CommitInv'
  <1> SUFFICES ASSUME SessionInv, CommitInv, HearWaiting PROVE CommitInv'
    OBVIOUS
  <1>1. PICK gap \in BOOLEAN, m \in Messages :
           tool' = Heard(gap, m) /\ wanted' = StillWanted(gap, m)
    BY DEF HearWaiting
  <1>2. UNCHANGED <<now, calls, answer, target, goal, stop, param, ctl>> /\ Awaiting
    BY DEF HearWaiting
  <1>3. /\ Same(tool, tool')
        /\ tool.request \/ tool.cancel => tool'.request \/ tool'.cancel
        /\ /\ tool.request \/ tool.cancel
           /\ tool'.request /\ ~ tool'.cancel
           => tool.request /\ ~ tool.cancel /\ ~ gap /\ m # "off"
    BY <1>1, HeardSame DEF SessionInv, SessionTypeOK
  <1>4. wanted' \in BOOLEAN
    BY <1>1 DEF StillWanted, CommitInv, TopicsTypeOK
  <1>5. RequestStands'
    BY <1>1, <1>2, <1>3 DEF CommitInv, RequestStands, StillWanted, Same, Awaiting
  <1>6. Withdrawn' /\ EnableIsLast' /\ Granted' /\ GateAfterHold' /\ GoalAfterGate'
    BY <1>2, <1>3 DEF CommitInv, Same, Withdrawn, EnableIsLast, Granted, GateAfterHold,
       GoalAfterGate
  <1>7. stop' \in BOOLEAN
    BY <1>2 DEF CommitInv, TopicsTypeOK
  <1> QED
    BY <1>2, <1>4, <1>5, <1>6, <1>7, ProgramStep

\* The loop turns to the request: it goes on, a gate is made for a new one, or the
\* session is withdrawn.
LEMMA RefreshCommits == SessionInv /\ CommitInv /\ Refresh => CommitInv'
  <1> SUFFICES ASSUME SessionInv, CommitInv, Refresh PROVE CommitInv'
    OBVIOUS
  <1>0. PICK next : next = After(tool.at)
    OBVIOUS
  <1>1. /\ next \in {"ready", "act", "armed"} /\ tool.at \in {"spin", "ready", "enabled"}
        /\ next = "armed" <=> tool.at = "enabled"
        /\ UNCHANGED <<now, target, goal, param, ctl>>
    BY <1>0 DEF Refresh, Places, After
  <1>2. PICK gap \in BOOLEAN, m \in Messages, image \in Images : Refreshed(gap, m, image, next)
    BY <1>0 DEF Refresh, Messages
  <1>3. tool \in ToolType /\ now \in Nat /\ calls \in Seq(Requests)
    BY DEF SessionInv, SessionTypeOK
  <1>4. PICK t : t = Heard(gap, m)
    OBVIOUS
  <1>5. /\ Same(tool, t)
        /\ tool.request \/ tool.cancel => t.request \/ t.cancel
        /\ (tool.request \/ tool.cancel) /\ t.request /\ ~ t.cancel
           => tool.request /\ ~ tool.cancel /\ ~ gap /\ m # "off"
    BY <1>3, <1>4, HeardSame
  <1>6. PICK u : u = [Taken(t) EXCEPT !.frame = image]
    OBVIOUS
  <1>7. /\ u \in ToolType /\ u.at = t.at /\ u.asked = t.asked /\ u.next = t.next
        /\ u.enabled = t.enabled /\ u.ctrl = t.ctrl /\ u.pending = t.pending
        /\ u.after = t.after /\ u.goal = t.goal
        /\ ~ t.cancel => u.request = t.request /\ u.cancel = FALSE
    <2>1. PICK v : v = Taken(t)
      OBVIOUS
    <2>2. Same(t, v) /\ (~ t.cancel => Flags(v, t.request, FALSE))
      BY <1>5, <2>1, TakenSame DEF Same
    <2>3. image \in Int
      BY <1>3 DEF Images, ToolType
    <2>4. u = [v EXCEPT !.frame = image] /\ v \in ToolType
      BY <1>6, <2>1, <2>2 DEF Same
    <2>5. /\ u \in ToolType /\ u.at = v.at /\ u.asked = v.asked /\ u.next = v.next
          /\ u.enabled = v.enabled /\ u.ctrl = v.ctrl /\ u.pending = v.pending
          /\ u.after = v.after /\ u.goal = v.goal
          /\ u.request = v.request /\ u.cancel = v.cancel
      BY ONLY <2>3, <2>4 DEF ToolType
    <2> QED
      BY <2>2, <2>5 DEF Same, Flags
  <1>8. StillWanted(gap, m) \in BOOLEAN
    BY DEF StillWanted, CommitInv, TopicsTypeOK
  <1>9. stop \in BOOLEAN
    BY DEF CommitInv, TopicsTypeOK
  <1>10. /\ t.ctrl = tool.ctrl /\ t.pending = tool.pending /\ t.enabled = tool.enabled
         /\ t.asked = tool.asked /\ t.after = tool.after /\ t.goal = tool.goal
    BY <1>5 DEF Same
  <1>11. CASE /\ t.pending \/ Requested(t) = t.ctrl
              /\ tool' = [(IF t.pending THEN Release(u) ELSE u) EXCEPT !.at = next]
              /\ wanted' = StillWanted(gap, m) /\ UNCHANGED <<stop, calls, answer>>
    <2>0. PICK w : w = (IF t.pending THEN Release(u) ELSE u)
      OBVIOUS
    <2>1. /\ w \in ToolType /\ w.asked = t.asked /\ w.enabled = t.enabled
          /\ w.ctrl = t.ctrl /\ w.pending = t.pending /\ w.after = t.after /\ w.goal = t.goal
          /\ ~ t.pending => w = u
      <3>1. Same(u, Release(u))
        BY <1>7, ReleaseSame
      <3> QED
        BY <1>7, <2>0, <3>1 DEF Same
    <2>2. tool' = [w EXCEPT !.at = next]
      BY <1>11, <2>0
    <2>3. /\ tool'.at = next /\ tool'.asked = w.asked /\ tool'.enabled = w.enabled
          /\ tool'.ctrl = w.ctrl /\ tool'.pending = w.pending /\ tool'.after = w.after
          /\ tool'.goal = w.goal /\ tool'.request = w.request /\ tool'.cancel = w.cancel
      BY ONLY <2>1, <2>2 DEF ToolType
    <2>4. ASSUME tool'.ctrl PROVE tool'.request /\ ~ tool'.cancel /\ wanted'
      <3>1. tool.ctrl /\ ~ tool.pending
        BY <1>10, <2>1, <2>3, <2>4 DEF CommitInv, Withdrawn
      <3>2. Requested(t)
        BY <1>10, <1>11, <3>1
      <3>3. t.request /\ ~ t.cancel
        BY <3>2 DEF Requested
      <3>4. tool'.request = t.request /\ tool'.cancel = FALSE
        BY <1>7, <1>10, <2>1, <2>3, <3>1, <3>3
      <3>5. tool.request /\ ~ tool.cancel /\ ~ gap /\ m # "off" /\ wanted
        BY <1>5, <3>1, <3>3 DEF CommitInv, RequestStands
      <3> QED
        BY <1>11, <3>3, <3>4, <3>5 DEF StillWanted
    <2>5. RequestStands' /\ Withdrawn' /\ EnableIsLast' /\ GoalAfterGate'
      BY <1>1, <1>10, <2>1, <2>3, <2>4 DEF CommitInv, RequestStands, Withdrawn, EnableIsLast,
         GoalAfterGate
    <2>6. Granted' /\ GateAfterHold'
      BY <1>1, <1>10, <1>11, <2>1, <2>3 DEF CommitInv, Granted, GateAfterHold
    <2> QED
      BY <1>1, <1>8, <1>9, <1>11, <2>5, <2>6, ProgramStep
  <1>12. CASE /\ ~ t.pending /\ Requested(t) /\ ~ t.ctrl
              /\ tool' = [NewGate(u) EXCEPT !.ctrl = TRUE, !.at = next]
              /\ wanted' = TRUE /\ UNCHANGED <<stop, calls, answer>>
    <2>0. PICK g : g = NewGate(u)
      OBVIOUS
    <2>1. /\ g \in ToolType /\ g.after = now /\ g.goal = None /\ g.asked = t.asked
          /\ g.enabled = t.enabled /\ g.pending = t.pending
          /\ g.request = u.request /\ g.cancel = u.cancel
      BY <1>3, <1>7, <2>0, NewGateDoes DEF Flags
    <2>2. tool' = [g EXCEPT !.ctrl = TRUE, !.at = next]
      BY <1>12, <2>0
    <2>3. /\ tool'.at = next /\ tool'.asked = g.asked /\ tool'.enabled = g.enabled
          /\ tool'.ctrl = TRUE /\ tool'.pending = g.pending /\ tool'.after = g.after
          /\ tool'.goal = g.goal /\ tool'.request = g.request /\ tool'.cancel = g.cancel
      BY ONLY <2>1, <2>2 DEF ToolType
    <2>4. tool'.request /\ ~ tool'.cancel /\ ~ tool'.pending
      BY <1>7, <1>12, <2>1, <2>3 DEF Requested
    <2>5. ~ tool.enabled
      BY <1>1, <1>10, <1>12 DEF CommitInv, Granted
    <2>6. RequestStands' /\ Withdrawn' /\ EnableIsLast' /\ GoalAfterGate'
      BY <1>1, <1>12, <2>1, <2>3, <2>4 DEF RequestStands, Withdrawn, EnableIsLast,
         GoalAfterGate
    <2>7. Granted' /\ GateAfterHold'
      BY <1>1, <1>10, <2>1, <2>3, <2>5 DEF Granted, GateAfterHold
    <2> QED
      BY <1>1, <1>9, <1>12, <2>6, <2>7, ProgramStep
  <1>13. CASE /\ ~ t.pending /\ ~ Requested(t) /\ t.ctrl
              /\ BeginDisable([NewGate(u) EXCEPT !.ctrl = FALSE], next)
              /\ wanted' = StillWanted(gap, m)
    <2>0. PICK g : g = NewGate(u)
      OBVIOUS
    <2>1. /\ g \in ToolType /\ g.goal = None /\ g.asked = t.asked /\ g.enabled = t.enabled
          /\ g.pending = t.pending
      BY <1>3, <1>7, <2>0, NewGateDoes
    <2>2. PICK w : w = [g EXCEPT !.ctrl = FALSE]
      OBVIOUS
    <2>3. /\ w \in ToolType /\ w.goal = None /\ w.asked = g.asked /\ w.enabled = g.enabled
          /\ w.ctrl = FALSE /\ w.pending = g.pending
      BY ONLY <2>1, <2>2 DEF ToolType
    <2>4. BeginDisable(w, next)
      BY <1>13, <2>0, <2>2
    <2>5. w.enabled => w.asked
      BY <1>10, <2>1, <2>3 DEF CommitInv, Granted
    <2>6. next \in Nexts
      BY <1>1 DEF Nexts
    <2> QED
      BY <1>1, <1>3, <1>8, <1>13, <2>3, <2>4, <2>5, <2>6, DisableCommits
  <1> QED
    BY <1>2, <1>4, <1>6, <1>11, <1>12, <1>13 DEF Refreshed

\* Disabling is tried again: the session is not under control.
LEMMA RetryCommits == SessionInv /\ CommitInv /\ Retry => CommitInv'
  <1> SUFFICES ASSUME SessionInv, CommitInv, Retry PROVE CommitInv'
    OBVIOUS
  <1>1. /\ tool \in ToolType /\ now \in Nat /\ calls \in Seq(Requests)
        /\ UNCHANGED <<now, target, goal, param, ctl, wanted>> /\ tool.pending
    BY DEF SessionInv, SessionTypeOK, Retry
  <1>2. PICK v : v = Taken(tool)
    OBVIOUS
  <1>3. PICK image \in Images : BeginDisable([v EXCEPT !.frame = image], After(tool.at))
    BY <1>2 DEF Retry
  <1>4. PICK w : w = [v EXCEPT !.frame = image]
    OBVIOUS
  <1>5. Same(tool, v)
    BY <1>1, <1>2, TakenSame
  <1>6. image \in Int
    BY <1>1 DEF Images, ToolType
  <1>7. /\ w \in ToolType /\ w.asked = v.asked /\ w.enabled = v.enabled /\ w.ctrl = v.ctrl
        /\ w.pending = v.pending /\ w.goal = v.goal /\ w.after = v.after
    <2>1. v \in ToolType
      BY <1>5 DEF Same
    <2> QED
      BY ONLY <1>4, <1>6, <2>1 DEF ToolType
  <1>8. /\ ~ w.ctrl /\ (w.enabled => w.asked)
        /\ w.goal \in {None, Done} \/ w.goal > w.after
    BY <1>1, <1>5, <1>7 DEF Same, CommitInv, Withdrawn, Granted, GoalAfterGate
  <1>9. After(tool.at) \in Nexts
    BY DEF Retry, Places, After, Nexts
  <1>10. BeginDisable(w, After(tool.at)) /\ wanted' \in BOOLEAN
    BY <1>1, <1>3, <1>4 DEF CommitInv, TopicsTypeOK
  <1> QED
    BY <1>1, <1>7, <1>8, <1>9, <1>10, DisableCommits

\* The other steps of the program.
LEMMA ActNoneCommits == SessionInv /\ CommitInv /\ ActNone => CommitInv'
  <1> SUFFICES ASSUME SessionInv, CommitInv, ActNone PROVE CommitInv'
    OBVIOUS
  <1>1. /\ tool \in ToolType /\ tool.at = "act"
        /\ UNCHANGED <<now, calls, answer, target, goal, param, ctl, wanted>>
    BY DEF SessionInv, SessionTypeOK, ActNone
  <1>2. stop' \in BOOLEAN /\ wanted' \in BOOLEAN
    BY <1>1 DEF ActNone, CommitInv, TopicsTypeOK
  <1>3. PICK g \in {tool.goal, Done}, sending \in BOOLEAN :
           tool' = [Back(tool) EXCEPT !.goal = g, !.sending = sending]
    BY <1>1 DEF ActNone, Back, ToolType
  <1>4. /\ tool'.at = "spin" /\ tool'.asked = tool.asked /\ tool'.enabled = tool.enabled
        /\ tool'.ctrl = tool.ctrl /\ tool'.pending = tool.pending
        /\ tool'.request = tool.request /\ tool'.cancel = tool.cancel
        /\ tool'.after = tool.after /\ tool'.goal = g
    BY <1>1, <1>3 DEF Back, ToolType
  <1>5. RequestStands' /\ Withdrawn' /\ EnableIsLast' /\ Granted' /\ GateAfterHold' /\ GoalAfterGate'
    BY <1>1, <1>4 DEF CommitInv, RequestStands, Withdrawn, EnableIsLast, Granted, GateAfterHold,
       GoalAfterGate
  <1> QED
    BY <1>1, <1>2, <1>5, ProgramStep

\* What a gate captures is later than the gate.
LEMMA CapturedLater ==
  ASSUME GoalAfterGate
  PROVE  GoalAfter \in {None, Done} \/ GoalAfter > tool.after
  BY DEF GoalAfterGate, GoalAfter, Captures

\* The session is asked for with what the gate has captured.
LEMMA ActEnableCommits == SessionInv /\ CommitInv /\ ActEnable => CommitInv'
  <1> SUFFICES ASSUME SessionInv, CommitInv, ActEnable PROVE CommitInv'
    OBVIOUS
  <1>1. /\ tool \in ToolType /\ tool.at = "act" /\ tool.ctrl /\ ~ tool.enabled
        /\ UNCHANGED <<now, target, goal, stop, param, ctl, wanted>>
    BY DEF SessionInv, SessionTypeOK, ActEnable
  <1>2. stop' \in BOOLEAN /\ wanted' \in BOOLEAN
    BY <1>1 DEF CommitInv, TopicsTypeOK
  <1>3. PICK g \in {tool.goal, GoalAfter} : tool' = [tool EXCEPT !.at = "get", !.goal = g]
    BY DEF ActEnable
  <1>4. /\ tool'.at = "get" /\ tool'.asked = tool.asked /\ ~ tool'.enabled
        /\ tool'.ctrl /\ tool'.pending = tool.pending
        /\ tool'.request = tool.request /\ tool'.cancel = tool.cancel
        /\ tool'.after = tool.after /\ tool'.goal = g
    BY <1>1, <1>3 DEF ToolType
  <1>5. GoalAfterGate'
    BY <1>3, <1>4, CapturedLater DEF CommitInv, GoalAfterGate
  <1>6. RequestStands' /\ Withdrawn' /\ EnableIsLast' /\ Granted' /\ GateAfterHold'
    BY <1>1, <1>4 DEF CommitInv, RequestStands, Withdrawn, EnableIsLast, Granted, GateAfterHold
  <1> QED
    BY <1>1, <1>2, <1>5, <1>6, ProgramStep

\* A goal is published with the time of the command, captured after the gate and so
\* after the arm was held.
LEMMA ActPublishCommits == SessionInv /\ CommitInv /\ ActPublish => CommitInv'
  <1> SUFFICES ASSUME SessionInv, CommitInv, ActPublish PROVE CommitInv'
    OBVIOUS
  <1>1. /\ tool \in ToolType /\ tool.at = "act" /\ tool.ctrl /\ tool.enabled /\ tool.goal # Done
        /\ now \in Nat /\ UNCHANGED <<now, calls, answer, stop, param, ctl, wanted>>
    BY DEF SessionInv, SessionTypeOK, ActPublish
  <1>2. PICK g \in {tool.goal, GoalAfter} :
           tool' = [Back(tool) EXCEPT !.sending = TRUE, !.goal = g]
    <2>1. CASE tool' = [Back(tool) EXCEPT !.sending = TRUE]
      <3>1. tool' = [Back(tool) EXCEPT !.sending = TRUE, !.goal = tool.goal]
        BY <1>1, <2>1 DEF Back, ToolType
      <3> QED
        BY <3>1
    <2>2. CASE tool' = [Back(tool) EXCEPT !.sending = TRUE, !.goal = GoalAfter]
      BY <2>2
    <2> QED
      BY <2>1, <2>2 DEF ActPublish
  <1>3. /\ tool'.at = "spin" /\ tool'.asked = tool.asked /\ tool'.enabled = tool.enabled
        /\ tool'.ctrl = tool.ctrl /\ tool'.pending = tool.pending
        /\ tool'.request = tool.request /\ tool'.cancel = tool.cancel
        /\ tool'.after = tool.after /\ tool'.goal = g
    BY <1>1, <1>2 DEF Back, ToolType
  <1>4. GoalAfter \in {None, Done} \/ GoalAfter > tool.after
    BY CapturedLater DEF CommitInv
  <1>5. RequestStands' /\ Withdrawn' /\ EnableIsLast' /\ Granted' /\ GateAfterHold' /\ GoalAfterGate'
    BY <1>1, <1>2, <1>3, <1>4 DEF CommitInv, RequestStands, Withdrawn, EnableIsLast, Granted,
       GateAfterHold, GoalAfterGate
  <1>6. tool.frame \in Int /\ tool.goal \in Int /\ tool.after \in Int /\ GoalAfter \in Int
    BY <1>1 DEF ToolType, GoalAfter
  <1>7. GoalAfter # None => GoalAfter > tool.after
    BY <1>1, <1>6 DEF GoalAfter, Captures, CommitInv, GoalAfterGate
  <1>8. wanted' \in BOOLEAN /\ stop' \in BOOLEAN /\ ctl \in CtlType /\ ctl.held \in Int
    BY <1>1 DEF CommitInv, TopicsTypeOK, CtlType
  <1>9. ctl.enabled => ctl.held <= tool.after
    BY <1>1 DEF CommitInv, GateAfterHold
  <1>10. CASE target' = tool.frame /\ UNCHANGED goal
    <2>1. TopicsTypeOK'
      BY <1>1, <1>6, <1>8, <1>10 DEF CommitInv, TopicsTypeOK
    <2> QED
      BY <1>1, <1>5, <1>10, <2>1 DEF CommitInv, HeldBefore, GoalOnItsWay, GoalAfterHold
  <1>11. CASE GoalAfter # None /\ goal' = [of |-> GoalAfter, stamp |-> now] /\ UNCHANGED target
    <2>1. TopicsTypeOK'
      BY <1>1, <1>6, <1>8, <1>11 DEF CommitInv, TopicsTypeOK
    <2>2. GoalOnItsWay'
      <3>1. goal'.stamp = now /\ goal'.of = GoalAfter
        BY <1>11
      <3>2. ctl.enabled => goal'.of > ctl.held
        BY <1>6, <1>7, <1>8, <1>9, <1>11, <3>1
      <3>3. goal'.stamp <= now' /\ goal'.of # None
        BY <1>1, <1>11, <3>1
      <3> QED
        BY <1>1, <3>2, <3>3 DEF GoalOnItsWay
    <2> QED
      BY <1>1, <1>5, <2>1, <2>2 DEF CommitInv, HeldBefore, GoalAfterHold
  <1> QED
    BY <1>10, <1>11 DEF ActPublish

\* The two requests of enable(), and the answer to the second.
LEMMA EnableCommits == SessionInv /\ CommitInv /\ (Enable \/ Enabled) => CommitInv'
  <1> SUFFICES ASSUME SessionInv, CommitInv, Enable \/ Enabled PROVE CommitInv'
    OBVIOUS
  <1>1. /\ tool \in ToolType /\ tool.at \in {"get", "on"} /\ calls \in Seq(Requests)
        /\ UNCHANGED <<now, target, goal, stop, param, ctl, wanted>>
    BY DEF SessionInv, SessionTypeOK, Enable, Enabled
  <1>2. stop' \in BOOLEAN /\ wanted' \in BOOLEAN
    BY <1>1 DEF CommitInv, TopicsTypeOK
  <1>3. tool.ctrl /\ ~ tool.enabled
    BY <1>1 DEF CommitInv, Granted
  <1>4. CASE Enable
    <2>1. tool' = [tool EXCEPT !.at = "on", !.asked = TRUE] /\ calls' = Append(calls, "on")
          /\ answer' = "none"
      BY <1>4 DEF Enable, Ask
    <2>2. /\ tool'.at = "on" /\ tool'.enabled = tool.enabled /\ tool'.ctrl = tool.ctrl
          /\ tool'.pending = tool.pending /\ tool'.request = tool.request
          /\ tool'.cancel = tool.cancel /\ tool'.after = tool.after /\ tool'.goal = tool.goal
      BY <1>1, <2>1 DEF ToolType
    <2>3. EnableIsLast'
      <3>1. calls'[Len(calls')] = "on"
        BY <1>1, <2>1
      <3> QED
        BY <2>1, <3>1 DEF EnableIsLast
    <2>4. RequestStands' /\ Withdrawn' /\ Granted' /\ GateAfterHold' /\ GoalAfterGate'
      BY <1>1, <1>3, <2>2 DEF CommitInv, RequestStands, Withdrawn, Granted, GateAfterHold,
         GoalAfterGate
    <2> QED
      BY <1>1, <1>2, <2>3, <2>4, ProgramStep
  <1>5. CASE Enabled
    <2>1. /\ tool' = [tool EXCEPT !.at = "enabled", !.enabled = TRUE, !.asked = TRUE]
          /\ tool.at = "on" /\ answer # "none" /\ UNCHANGED calls
      BY <1>5 DEF Enabled
    <2>2. /\ tool'.at = "enabled" /\ tool'.enabled /\ tool'.asked /\ tool'.ctrl = tool.ctrl
          /\ tool'.pending = tool.pending /\ tool'.request = tool.request
          /\ tool'.cancel = tool.cancel /\ tool'.after = tool.after /\ tool'.goal = tool.goal
      BY <1>1, <2>1 DEF ToolType
    <2>3. calls = <<>> /\ param = "mine"
      BY <2>1 DEF CommitInv, EnableIsLast
    <2>4. Granted'
      BY <1>1, <1>3, <2>1, <2>2, <2>3 DEF Granted
    <2>5. RequestStands' /\ Withdrawn' /\ EnableIsLast' /\ GateAfterHold' /\ GoalAfterGate'
      BY <1>1, <1>3, <2>2 DEF CommitInv, RequestStands, Withdrawn, EnableIsLast, GateAfterHold,
         GoalAfterGate
    <2> QED
      BY <1>1, <1>2, <2>4, <2>5, ProgramStep
  <1> QED
    BY <1>4, <1>5

\* After enabling the gate is made anew: now, when the arm is held already.
LEMMA ArmedCommits == SessionInv /\ CommitInv /\ Armed => CommitInv'
  <1> SUFFICES ASSUME SessionInv, CommitInv, Armed PROVE CommitInv'
    OBVIOUS
  <1>1. /\ tool \in ToolType /\ tool.at = "armed" /\ now \in Nat
        /\ UNCHANGED <<now, calls, answer, target, goal, stop, param, ctl, wanted>>
    BY DEF SessionInv, SessionTypeOK, Armed
  <1>2. stop' \in BOOLEAN /\ wanted' \in BOOLEAN /\ ctl.held <= now
    BY <1>1 DEF CommitInv, TopicsTypeOK, HeldBefore
  <1>3. PICK t : t = (IF tool.ctrl THEN NewGate(tool) ELSE tool)
    OBVIOUS
  <1>4. /\ t \in ToolType /\ t.asked = tool.asked /\ t.enabled = tool.enabled
        /\ t.ctrl = tool.ctrl /\ t.pending = tool.pending
        /\ t.request = tool.request /\ t.cancel = tool.cancel
        /\ t.goal \in {None, Done} \/ t.goal > t.after
        /\ t.ctrl => t.after = now
    BY <1>1, <1>3, NewGateDoes DEF Flags, CommitInv, GoalAfterGate
  <1>5. tool' = Back(t)
    BY <1>3 DEF Armed
  <1>6. /\ tool'.at = "spin" /\ tool'.asked = t.asked /\ tool'.enabled = t.enabled
        /\ tool'.ctrl = t.ctrl /\ tool'.pending = t.pending /\ tool'.request = t.request
        /\ tool'.cancel = t.cancel /\ tool'.after = t.after /\ tool'.goal = t.goal
    BY ONLY <1>4, <1>5 DEF ToolType, Back
  <1>7. RequestStands' /\ Withdrawn' /\ EnableIsLast' /\ Granted' /\ GoalAfterGate'
    BY <1>1, <1>4, <1>6 DEF CommitInv, RequestStands, Withdrawn, EnableIsLast, Granted,
       GoalAfterGate
  <1>8. GateAfterHold'
    BY <1>1, <1>2, <1>4, <1>6 DEF GateAfterHold
  <1> QED
    BY <1>1, <1>2, <1>7, <1>8, ProgramStep

\* A session that was not granted is not under control any more.
LEMMA EnableFailsCommits == SessionInv /\ CommitInv /\ EnableFails => CommitInv'
  <1> SUFFICES ASSUME SessionInv, CommitInv, EnableFails PROVE CommitInv'
    OBVIOUS
  <1>1. /\ tool \in ToolType /\ now \in Nat /\ calls \in Seq(Requests)
        /\ tool.at \in {"get", "on"} /\ ~ tool.enabled
        /\ UNCHANGED <<now, target, goal, param, ctl, wanted>>
    BY DEF SessionInv, SessionTypeOK, EnableFails, CommitInv, Granted
  <1>2. PICK r : r = Release(tool)
    OBVIOUS
  <1>3. PICK g : g = NewGate(r)
    OBVIOUS
  <1>4. r \in ToolType /\ r.enabled = tool.enabled
    BY <1>1, <1>2, ReleaseSame DEF Same
  <1>5. g \in ToolType /\ g.enabled = tool.enabled /\ g.goal = None
    BY <1>1, <1>3, <1>4, NewGateDoes
  <1>6. PICK v : v = [Back(g) EXCEPT !.ctrl = FALSE]
    OBVIOUS
  <1>7. v \in ToolType /\ v.enabled = g.enabled /\ v.goal = g.goal /\ v.ctrl = FALSE
    <2>1. None \in Int /\ "spin" \in Nexts
      BY DEF None, Nexts
    <2> QED
      BY ONLY <1>5, <1>6, <2>1 DEF ToolType, Back
  <1>8. BeginDisable(v, "spin") /\ "spin" \in Nexts /\ wanted' \in BOOLEAN
    BY <1>1, <1>2, <1>3, <1>6 DEF EnableFails, Nexts, CommitInv, TopicsTypeOK
  <1> QED
    BY <1>1, <1>5, <1>7, <1>8, DisableCommits

\* The answer to a request to disable ends the session, and the failure of one leaves
\* it to be repeated.
LEMMA DisabledCommits == SessionInv /\ CommitInv /\ Disabled => CommitInv'
  <1> SUFFICES ASSUME SessionInv, CommitInv, Disabled PROVE CommitInv'
    OBVIOUS
  <1>1. /\ tool \in ToolType /\ tool.at = "disable"
        /\ UNCHANGED <<now, calls, target, goal, stop, param, ctl, wanted>>
    BY DEF SessionInv, SessionTypeOK, Disabled
  <1>2. stop' \in BOOLEAN /\ wanted' \in BOOLEAN
    BY <1>1 DEF CommitInv, TopicsTypeOK
  <1>3. PICK t : t = [tool EXCEPT !.enabled = FALSE, !.asked = FALSE, !.pending = FALSE,
                                  !.at = tool.next]
    OBVIOUS
  <1>4. /\ t \in ToolType /\ t.at = tool.next /\ t.at \in Nexts /\ ~ t.enabled /\ ~ t.pending
        /\ t.ctrl = tool.ctrl /\ t.goal = tool.goal /\ t.after = tool.after
    BY <1>1, <1>3 DEF ToolType
  <1>5. CASE tool.next = "off"
    BY <1>1, <1>2, <1>5, OffCommits DEF Disabled
  <1>6. CASE tool.next # "off"
    <2>1. tool' = IF tool.pending THEN Release(t) ELSE t
      BY <1>3, <1>6 DEF Disabled
    <2>2. Same(t, Release(t))
      BY <1>4, ReleaseSame
    <2>3. /\ tool'.at \in Nexts /\ ~ tool'.enabled /\ ~ tool'.pending /\ tool'.ctrl = tool.ctrl
          /\ tool'.goal = tool.goal /\ tool'.after = tool.after
      BY <1>4, <2>1, <2>2 DEF Same
    <2>4. ~ tool.ctrl
      BY <1>1, <1>6 DEF CommitInv, Withdrawn
    <2>5. RequestStands' /\ Withdrawn' /\ EnableIsLast' /\ Granted' /\ GateAfterHold' /\ GoalAfterGate'
      BY <2>3, <2>4 DEF CommitInv, RequestStands, Withdrawn, EnableIsLast, Granted,
         GateAfterHold, GoalAfterGate, Nexts
    <2> QED
      BY <1>1, <1>2, <2>5, ProgramStep
  <1> QED
    BY <1>5, <1>6

\* A request to disable that failed is to be repeated, or the program ends.
LEMMA DisableFailsCommits == SessionInv /\ CommitInv /\ DisableFails => CommitInv'
  <1> SUFFICES ASSUME SessionInv, CommitInv, DisableFails PROVE CommitInv'
    OBVIOUS
  <1>1. /\ tool \in ToolType /\ tool.at = "disable" /\ tool.next \in Nexts
        /\ UNCHANGED <<now, target, goal, stop, ctl>>
    BY DEF SessionInv, SessionTypeOK, DisableFails, ToolType
  <1>2. stop' \in BOOLEAN
    BY <1>1 DEF CommitInv, TopicsTypeOK
  <1>3. CASE tool.next = "off"
    BY <1>1, <1>2, <1>3, OffCommits DEF DisableFails, Ends
  <1>4. CASE tool.next # "off"
    <2>1. PICK r : r = Release(tool)
      OBVIOUS
    <2>2. Same(tool, r)
      BY <1>1, <2>1, ReleaseSame
    <2>3. tool' = [r EXCEPT !.at = tool.next, !.pending = TRUE]
          /\ UNCHANGED <<answer, wanted, param, calls>>
      BY <1>4, <2>1 DEF DisableFails
    <2>4. r \in ToolType
      BY <2>2 DEF Same
    <2>5. /\ tool'.at = tool.next /\ tool'.pending /\ tool'.asked = r.asked
          /\ tool'.enabled = r.enabled /\ tool'.ctrl = r.ctrl
          /\ tool'.goal = r.goal /\ tool'.after = r.after
      BY ONLY <2>3, <2>4 DEF ToolType
    <2>6. ~ tool.ctrl
      BY <1>1, <1>4 DEF CommitInv, Withdrawn
    <2>7. RequestStands' /\ Withdrawn' /\ EnableIsLast' /\ Granted' /\ GateAfterHold' /\ GoalAfterGate'
      BY <1>1, <2>2, <2>5, <2>6 DEF Same, CommitInv, RequestStands, Withdrawn, EnableIsLast,
         Granted, GateAfterHold, GoalAfterGate, Nexts
    <2>8. wanted' \in BOOLEAN
      BY <2>3 DEF CommitInv, TopicsTypeOK
    <2> QED
      BY <1>1, <1>2, <2>7, <2>8, ProgramStep
  <1> QED
    BY <1>3, <1>4

\* The end of the program and its start.
LEMMA EndCommits == SessionInv /\ CommitInv /\ (Close \/ Start \/ Kill) => CommitInv'
  <1> SUFFICES ASSUME SessionInv, CommitInv, Close \/ Start \/ Kill PROVE CommitInv'
    OBVIOUS
  <1>1. tool \in ToolType /\ now \in Nat /\ calls \in Seq(Requests)
        /\ stop \in BOOLEAN /\ wanted \in BOOLEAN /\ UNCHANGED <<now, target, goal, ctl>>
    BY DEF SessionInv, SessionTypeOK, CommitInv, TopicsTypeOK, Close, Start, Kill
  <1>2. CASE Close
    <2>1. CASE tool.asked
      <3>1. BeginDisable(tool, "off") /\ UNCHANGED <<wanted, param>> /\ "off" \in Nexts
        BY <1>2, <2>1 DEF Close, Nexts
      <3>2. tool.ctrl => (tool.request \/ tool.cancel) /\ (tool.request /\ ~ tool.cancel => wanted')
        BY <3>1 DEF CommitInv, RequestStands
      <3>3. /\ tool.pending => ~ tool.ctrl
            /\ tool.goal \in {None, Done} \/ tool.goal > tool.after
        BY DEF CommitInv, Withdrawn, GoalAfterGate
      <3> QED
        BY <1>1, <2>1, <3>1, <3>2, <3>3, DisableCommits
    <2>2. CASE ~ tool.asked
      <3>1. tool' = Off /\ wanted' = FALSE /\ stop' = stop
        BY <1>2, <2>2 DEF Close
      <3> QED
        BY <1>1, <3>1, OffCommits
    <2> QED
      BY <2>1, <2>2
  <1>3. CASE Start
    <2>1. tool' = [Off EXCEPT !.at = "spin", !.after = now] /\ UNCHANGED <<stop, wanted>>
      BY <1>3 DEF Start
    <2>2. /\ tool'.at = "spin" /\ ~ tool'.ctrl /\ ~ tool'.pending /\ ~ tool'.enabled
          /\ tool'.goal = None
      BY <2>1 DEF Off
    <2>3. RequestStands' /\ Withdrawn' /\ EnableIsLast' /\ Granted' /\ GateAfterHold' /\ GoalAfterGate'
      BY <2>2 DEF RequestStands, Withdrawn, EnableIsLast, Granted, GateAfterHold, GoalAfterGate
    <2> QED
      BY <1>1, <2>1, <2>3, ProgramStep
  <1>4. CASE Kill
    BY <1>1, <1>4, OffCommits DEF Kill, Ends
  <1> QED
    BY <1>2, <1>3, <1>4

\* The car node brings its mode up to date and stops the arm as often as it likes: the
\* goal is kept or forgotten, and what was sent before a change of the mode is too old.
Follows(c, d) ==
    /\ d \in CtlType /\ d.min <= now /\ d.min >= c.min /\ d.held <= now
    /\ \/ d.enabled = c.enabled /\ d.held = c.held /\ d.goal = c.goal
       \/ d.enabled # c.enabled /\ d.enabled = (param # "off")
          /\ d.held = now /\ d.min = now /\ d.goal = None

\* Nothing but the stop of a goal is remembered by a halt.
Stays(c, d) ==
    /\ d \in CtlType /\ d.min <= now /\ d.min >= c.min
    /\ d.enabled = c.enabled /\ d.held = c.held /\ d.goal = c.goal

\* Neither does a halt change the mode,
LEMMA HaltStays ==
  ASSUME NEW c \in CtlType, c.min <= now, now \in Nat, NEW explicit \in BOOLEAN
  PROVE  Stays(c, Halt(c, explicit)) /\ (explicit => Halt(c, explicit).min = now)
  <1>1. PICK l : l = (c.latched \/ c.goal # None)
    OBVIOUS
  <1>2. PICK k : k = [c EXCEPT !.latched = l]
    OBVIOUS
  <1>3. l \in BOOLEAN /\ None \in Int /\ now \in Int
    BY <1>1 DEF None
  <1>4. k \in CtlType /\ k.min = c.min /\ k.enabled = c.enabled /\ k.held = c.held /\ k.goal = c.goal
    BY ONLY <1>2, <1>3, c \in CtlType DEF CtlType
  <1>5. PICK h : h = [k EXCEPT !.target = None, !.sent = None, !.min = now]
    OBVIOUS
  <1>6. h \in CtlType /\ h.min = now /\ h.enabled = k.enabled /\ h.held = k.held /\ h.goal = k.goal
    BY ONLY <1>3, <1>4, <1>5 DEF CtlType
  <1>7. Halt(c, explicit) = IF ~ explicit /\ c.target = None /\ c.sent = None THEN k ELSE h
    BY <1>1, <1>2, <1>5 DEF Halt
  <1>8. c.min \in Int
    BY DEF CtlType
  <1> QED
    BY <1>3, <1>4, <1>6, <1>7, <1>8 DEF Stays

\* nor a cancel.
LEMMA CancelStays ==
  ASSUME NEW c \in CtlType, c.min <= now, now \in Nat
  PROVE  Stays(c, Cancel(c))
  <1>1. PICK h : h = Halt(c, TRUE)
    OBVIOUS
  <1>2. Stays(c, h)
    BY <1>1, HaltStays
  <1>3. [h EXCEPT !.latched = TRUE] \in CtlType
        /\ [h EXCEPT !.latched = TRUE].min = h.min
        /\ [h EXCEPT !.latched = TRUE].enabled = h.enabled
        /\ [h EXCEPT !.latched = TRUE].held = h.held
        /\ [h EXCEPT !.latched = TRUE].goal = h.goal
    BY <1>2 DEF Stays, CtlType
  <1>4. Cancel(c) = IF c.latched THEN c ELSE [h EXCEPT !.latched = TRUE]
    BY <1>1 DEF Cancel
  <1>5. c.min \in Int
    BY DEF CtlType
  <1> QED
    BY <1>2, <1>3, <1>4, <1>5 DEF Stays

\* One after the other.
LEMMA FollowsStays ==
  ASSUME NEW c \in CtlType, NEW d, NEW e, Follows(c, d), Stays(d, e), now \in Nat
  PROVE  Follows(c, e)
  <1>1. c.min \in Int /\ d.min \in Int /\ e.min \in Int
    BY DEF CtlType, Follows, Stays
  <1> QED
    BY <1>1 DEF Follows, Stays

\* The mode is taken up from the parameter.
LEMMA CurrentFollows ==
  ASSUME NEW c \in CtlType, c.min <= now, c.held <= now, now \in Nat
  PROVE  Follows(c, Current(c)) /\ Current(c).enabled = (param # "off")
  <1>1. PICK on : on = (param # "off")
    OBVIOUS
  <1>2. on \in BOOLEAN /\ None \in Int /\ now \in Int
    BY <1>1 DEF None
  <1>3. PICK f : f = [c EXCEPT !.goal = None]
    OBVIOUS
  <1>4. f \in CtlType /\ f.goal = None /\ f.min = c.min
    BY ONLY <1>2, <1>3, c \in CtlType DEF CtlType
  <1>5. PICK h : h = Halt(f, TRUE)
    OBVIOUS
  <1>6. h \in CtlType /\ h.min = now /\ h.goal = None
    BY <1>4, <1>5, HaltStays DEF Stays
  <1>7. PICK g : g = [h EXCEPT !.enabled = on, !.base = FALSE, !.held = now,
                               !.latched = IF on THEN FALSE ELSE @]
    OBVIOUS
  <1>8. g \in CtlType /\ g.min = now /\ g.goal = None /\ g.enabled = on /\ g.held = now
    <2>1. (IF on THEN FALSE ELSE h.latched) \in BOOLEAN
      BY <1>2, <1>6 DEF CtlType
    <2>2. PICK l : l = (IF on THEN FALSE ELSE h.latched)
      OBVIOUS
    <2>3. g = [h EXCEPT !.enabled = on, !.base = FALSE, !.held = now, !.latched = l]
      BY <1>7, <2>2
    <2> QED
      BY ONLY <1>2, <1>6, <2>1, <2>2, <2>3 DEF CtlType
  <1>9. PICK k : k = (IF on = c.enabled THEN c ELSE g)
    OBVIOUS
  <1>10. c.min \in Int /\ c.held \in Int /\ c.enabled \in BOOLEAN
    BY DEF CtlType
  <1>11. Follows(c, k) /\ k.enabled = on
    BY <1>1, <1>2, <1>8, <1>9, <1>10 DEF Follows
  <1>12. Stays(k, Halt(k, FALSE)) /\ k \in CtlType
    BY <1>11, HaltStays DEF Follows
  <1>13. Follows(c, Halt(k, FALSE)) /\ Halt(k, FALSE).enabled = on
    BY <1>11, <1>12, FollowsStays DEF Stays
  <1>14. Current(c) = IF k.target # None /\ now - k.target > 1 THEN Halt(k, FALSE) ELSE k
    <2>1. Current(c) =
             LET c1 == IF (param # "off") = c.enabled THEN c
                       ELSE [Halt([c EXCEPT !.goal = None], TRUE)
                               EXCEPT !.enabled = (param # "off"), !.base = FALSE, !.held = now,
                                      !.latched = IF (param # "off") THEN FALSE ELSE @]
             IN IF c1.target # None /\ now - c1.target > 1 THEN Halt(c1, FALSE) ELSE c1
      BY Zenon DEF Current
    <2>2. k = IF (param # "off") = c.enabled THEN c
              ELSE [Halt([c EXCEPT !.goal = None], TRUE)
                      EXCEPT !.enabled = (param # "off"), !.base = FALSE, !.held = now,
                             !.latched = IF (param # "off") THEN FALSE ELSE @]
      BY <1>1, <1>3, <1>5, <1>7, <1>9, Zenon
    <2> QED
      BY <2>1, <2>2, Zenon
  <1> QED
    BY <1>1, <1>11, <1>13, <1>14

\* A step of the car node that takes no goal.
LEMMA CarStep ==
  ASSUME SessionInv, CommitInv, Follows(ctl, ctl'),
         UNCHANGED <<now, tool, calls, answer, param, wanted>>,
         stop' \in BOOLEAN, target' \in Int, goal' \in {goal, NoGoal}
  PROVE  CommitInv'
  <1>1. /\ ctl \in CtlType /\ ctl' \in CtlType /\ now \in Nat /\ goal \in [of : Int, stamp : Int]
        /\ tool.after \in Int /\ wanted \in BOOLEAN
    BY DEF SessionInv, SessionTypeOK, ToolType, CommitInv, TopicsTypeOK, Follows
  <1>2. /\ ctl.min \in Int /\ ctl.held \in Int /\ ctl'.min \in Int /\ ctl'.held \in Int
        /\ ctl.goal \in Int /\ goal.of \in Int /\ goal.stamp \in Int
        /\ ctl.enabled \in BOOLEAN /\ ctl'.enabled \in BOOLEAN
    BY <1>1 DEF CtlType
  <1>3. TopicsTypeOK'
    <2>1. NoGoal \in [of : Int, stamp : Int]
      BY DEF NoGoal, None
    <2> QED
      BY <1>1, <2>1 DEF TopicsTypeOK
  <1>4. RequestStands' /\ Withdrawn' /\ EnableIsLast' /\ Granted' /\ GoalAfterGate'
    BY DEF CommitInv, RequestStands, Withdrawn, EnableIsLast, Granted, GoalAfterGate
  <1>5. GateAfterHold'
    <2> SUFFICES ASSUME tool.enabled, tool.ctrl, tool.at \notin {"disable", "enabled", "armed"}
                 PROVE  IF ctl'.enabled THEN ctl'.held <= tool.after ELSE tool.after = now
      BY DEF GateAfterHold
    <2>1. param = "mine"
      BY DEF CommitInv, Granted
    <2>2. IF ctl.enabled THEN ctl.held <= tool.after ELSE tool.after = now
      BY DEF CommitInv, GateAfterHold
    <2> QED
      BY <1>1, <1>2, <2>1, <2>2 DEF Follows
  <1>6. HeldBefore'
    BY DEF Follows, HeldBefore
  <1>7. GoalOnItsWay'
    <2> SUFFICES ASSUME goal' # NoGoal
                 PROVE  /\ goal'.stamp <= now' /\ goal'.of # None
                        /\ ctl'.enabled /\ goal'.stamp > ctl'.min => goal'.of > ctl'.held
      BY DEF GoalOnItsWay
    <2>1. goal' = goal
      OBVIOUS
    <2>2. /\ goal.stamp <= now /\ goal.of # None
          /\ ctl.enabled /\ goal.stamp > ctl.min => goal.of > ctl.held
      BY <2>1 DEF CommitInv, GoalOnItsWay
    <2>3. now' = now
      OBVIOUS
    <2>4. CASE ctl'.enabled = ctl.enabled /\ ctl'.held = ctl.held /\ ctl'.min >= ctl.min
      BY <1>1, <1>2, <2>1, <2>2, <2>3, <2>4
    <2>5. CASE ctl'.min = now
      BY <1>1, <1>2, <2>1, <2>2, <2>3, <2>5
    <2> QED
      BY <2>4, <2>5 DEF Follows
  <1>8. GoalAfterHold'
    BY <1>1, <1>2 DEF CommitInv, GoalAfterHold, Follows
  <1> QED
    BY <1>3, <1>4, <1>5, <1>6, <1>7, <1>8 DEF CommitInv

\* What the invariants say about the car node.
LEMMA CtlFacts ==
  ASSUME SessionInv, CommitInv
  PROVE  /\ ctl \in CtlType /\ ctl.min <= now /\ ctl.held <= now /\ now \in Nat
         /\ stop \in BOOLEAN /\ target \in Int /\ None \in Int
         /\ Follows(ctl, Current(ctl)) /\ Current(ctl) \in CtlType
         /\ Current(ctl).min <= now /\ Current(ctl).enabled = (param # "off")
  <1>1. /\ ctl \in CtlType /\ ctl.min <= now /\ ctl.held <= now /\ now \in Nat
        /\ stop \in BOOLEAN /\ target \in Int /\ None \in Int
    BY DEF SessionInv, SessionTypeOK, CommitInv, TopicsTypeOK, HeldBefore, None
  <1> QED
    BY <1>1, CurrentFollows DEF Follows

\* What is done after the mode was brought up to date and leaves it alone.
LEMMA CurrentStays ==
  ASSUME SessionInv, CommitInv, NEW e, Stays(Current(ctl), e)
  PROVE  Follows(ctl, e)
  BY CtlFacts, FollowsStays

\* Doing nothing.
LEMMA ItselfStays ==
  ASSUME NEW c \in CtlType, c.min <= now, now \in Nat
  PROVE  Stays(c, c)
  <1>1. c.min \in Int
    BY DEF CtlType
  <1> QED
    BY <1>1 DEF Stays

\* The update of the arm.
LEMMA UpdateCommits == SessionInv /\ CommitInv /\ Update => CommitInv'
  <1> SUFFICES ASSUME SessionInv, CommitInv, Update PROVE CommitInv'
    OBVIOUS
  <1>1. PICK c : c = Current(ctl)
    OBVIOUS
  <1>2. /\ c \in CtlType /\ c.min <= now /\ now \in Nat
        /\ stop \in BOOLEAN /\ target \in Int /\ None \in Int
    BY <1>1, CtlFacts
  <1>3. PICK b : b = [c EXCEPT !.base = TRUE]
    OBVIOUS
  <1>4. /\ b \in CtlType /\ b.min = c.min /\ b.enabled = c.enabled /\ b.held = c.held
        /\ b.goal = c.goal /\ b.min \in Int
    BY <1>2, <1>3 DEF CtlType
  <1>5. Stays(c, c) /\ Stays(c, b)
    BY <1>2, <1>4, ItselfStays DEF Stays
  <1>6. Stays(b, Halt(b, FALSE)) /\ Stays(b, Halt(b, TRUE)) /\ Stays(b, b)
    BY <1>2, <1>4, HaltStays, ItselfStays
  <1>7. Stays(c, Halt(b, FALSE)) /\ Stays(c, Halt(b, TRUE))
    BY <1>4, <1>6 DEF Stays
  <1>8. Stays(c, Reached(b))
    BY <1>5, <1>7 DEF Reached
  <1>9. Stays(c, Submit(b))
    <2>1. PICK s : s = (IF b.goal # None THEN b.goal ELSE b.target)
      OBVIOUS
    <2>2. Submit(b) = [b EXCEPT !.sent = s]
      BY <2>1 DEF Submit
    <2>3. s \in Int
      BY <1>4, <2>1 DEF CtlType
    <2>4. /\ Submit(b) \in CtlType /\ Submit(b).min = b.min /\ Submit(b).enabled = b.enabled
          /\ Submit(b).held = b.held /\ Submit(b).goal = b.goal
      BY ONLY <1>4, <2>2, <2>3 DEF CtlType
    <2> QED
      BY <1>2, <1>4, <2>4 DEF Stays
  <1>10. ctl' \in {c, b, Reached(b), Submit(b), Halt(b, FALSE)}
    BY <1>1, <1>3 DEF Update, AfterUpdate
  <1>11. Stays(c, ctl')
    BY <1>5, <1>7, <1>8, <1>9, <1>10
  <1>12. Follows(ctl, ctl')
    BY <1>1, <1>11, CurrentStays
  <1> QED
    BY <1>2, <1>12, CarStep DEF Update

\* A live target is taken, refused or halts the arm.
LEMMA ObserveTargetCommits == SessionInv /\ CommitInv /\ ObserveTarget => CommitInv'
  <1> SUFFICES ASSUME SessionInv, CommitInv, ObserveTarget PROVE CommitInv'
    OBVIOUS
  <1>1. PICK c : c = Current(ctl)
    OBVIOUS
  <1>2. /\ c \in CtlType /\ c.min <= now /\ now \in Nat
        /\ stop \in BOOLEAN /\ target \in Int /\ None \in Int
    BY <1>1, CtlFacts
  <1>3. PICK t : t = [c EXCEPT !.last = target, !.target = target]
    OBVIOUS
  <1>4. PICK l : l = [c EXCEPT !.last = target]
    OBVIOUS
  <1>5. /\ t \in CtlType /\ t.min = c.min /\ t.enabled = c.enabled /\ t.held = c.held
        /\ t.goal = c.goal
        /\ l \in CtlType /\ l.min = c.min /\ l.enabled = c.enabled /\ l.held = c.held
        /\ l.goal = c.goal /\ c.min \in Int
    BY <1>2, <1>3, <1>4 DEF CtlType
  <1>6. Stays(c, c) /\ Stays(c, t) /\ Stays(c, Halt(c, FALSE))
    BY <1>2, <1>5, ItselfStays, HaltStays DEF Stays
  <1>7. Stays(c, Halt(l, FALSE))
    <2>1. Stays(l, Halt(l, FALSE))
      BY <1>2, <1>5, HaltStays
    <2> QED
      BY <1>5, <2>1 DEF Stays
  <1>8. ctl' \in {c, Halt(c, FALSE), t, Halt(l, FALSE)}
    BY <1>1, <1>3, <1>4 DEF ObserveTarget
  <1>9. Follows(ctl, ctl')
    BY <1>1, <1>6, <1>7, <1>8, CurrentStays
  <1> QED
    BY <1>2, <1>9, CarStep DEF ObserveTarget

\* The first acceptable goal is committed: it was captured after the arm was held.
LEMMA ObserveGoalCommits == SessionInv /\ CommitInv /\ ObserveGoal => CommitInv'
  <1> SUFFICES ASSUME SessionInv, CommitInv, ObserveGoal PROVE CommitInv'
    OBVIOUS
  <1>1. PICK c : c = Current(ctl)
    OBVIOUS
  <1>2. /\ c \in CtlType /\ c.min <= now /\ now \in Nat /\ ctl \in CtlType
        /\ stop \in BOOLEAN /\ target \in Int /\ None \in Int /\ Follows(ctl, c)
    BY <1>1, CtlFacts
  <1>3. /\ goal # NoGoal /\ goal' = NoGoal /\ goal \in [of : Int, stamp : Int]
        /\ UNCHANGED <<now, tool, calls, answer, target, stop, param, wanted>>
    BY DEF ObserveGoal, CommitInv, TopicsTypeOK
  <1>4. PICK e : e = [c EXCEPT !.goal = goal.of, !.last = goal.stamp, !.target = goal.stamp]
    OBVIOUS
  <1>5. \/ ctl' = c
        \/ ctl' = Cancel(c)
        \/ ctl' = e /\ c.enabled /\ Acceptable(c, goal.stamp)
    BY <1>1, <1>4 DEF ObserveGoal
  <1>6. CASE ctl' = c \/ ctl' = Cancel(c)
    <2>1. Stays(c, ctl')
      BY <1>2, <1>6, ItselfStays, CancelStays
    <2>2. Follows(ctl, ctl')
      BY <1>1, <2>1, CurrentStays
    <2> QED
      BY <1>2, <1>3, <2>2, CarStep
  <1>7. CASE ctl' = e /\ c.enabled /\ Acceptable(c, goal.stamp)
    <2>1. goal.stamp > c.min /\ goal.of \in Int /\ goal.stamp \in Int
      BY <1>3, <1>7 DEF Acceptable
    <2>2. goal.stamp <= now /\ (ctl.enabled /\ goal.stamp > ctl.min => goal.of > ctl.held)
      BY <1>3 DEF CommitInv, GoalOnItsWay
    <2>3. /\ ctl.min \in Int /\ c.min \in Int /\ ctl.held \in Int /\ c.held \in Int
      BY <1>2 DEF CtlType
    <2>4. c.enabled = ctl.enabled /\ c.held = ctl.held /\ c.min >= ctl.min
      BY <1>2, <2>1, <2>2, <2>3 DEF Follows
    <2>5. goal.of > c.held
      BY <1>7, <2>1, <2>2, <2>3, <2>4
    <2>6. /\ ctl' \in CtlType /\ ctl'.min = c.min /\ ctl'.enabled = c.enabled
          /\ ctl'.held = c.held /\ ctl'.goal = goal.of
      BY <1>2, <1>4, <1>7, <2>1 DEF CtlType
    <2>7. TopicsTypeOK'
      <3>1. NoGoal \in [of : Int, stamp : Int]
        BY DEF NoGoal, None
      <3> QED
        BY <1>2, <1>3, <2>6, <3>1 DEF CommitInv, TopicsTypeOK
    <2>8. RequestStands' /\ Withdrawn' /\ EnableIsLast' /\ Granted' /\ GoalAfterGate'
      BY <1>3 DEF CommitInv, RequestStands, Withdrawn, EnableIsLast, Granted, GoalAfterGate
    <2>9. GateAfterHold'
      BY <1>3, <2>4, <2>6 DEF CommitInv, GateAfterHold
    <2>10. HeldBefore' /\ GoalOnItsWay' /\ GoalAfterHold'
      BY <1>2, <1>3, <2>4, <2>5, <2>6 DEF CommitInv, HeldBefore, GoalOnItsWay, GoalAfterHold
    <2> QED
      BY <2>7, <2>8, <2>9, <2>10 DEF CommitInv
  <1> QED
    BY <1>5, <1>6, <1>7

\* The arm is stopped, or the session cancelled.
LEMMA StopCommits == SessionInv /\ CommitInv /\ Stop => CommitInv'
  <1> SUFFICES ASSUME SessionInv, CommitInv, Stop PROVE CommitInv'
    OBVIOUS
  <1>1. PICK c : c = Current(ctl)
    OBVIOUS
  <1>2. /\ c \in CtlType /\ c.min <= now /\ now \in Nat
        /\ stop \in BOOLEAN /\ target \in Int
    BY <1>1, CtlFacts
  <1>3. Stays(c, Halt(c, TRUE)) /\ Stays(c, Cancel(c))
    BY <1>2, HaltStays, CancelStays
  <1>4. ctl' \in {Halt(c, TRUE), Cancel(c)} /\ stop' \in BOOLEAN
    BY <1>1, <1>2 DEF Stop
  <1>5. Follows(ctl, ctl')
    BY <1>1, <1>3, <1>4, CurrentStays
  <1> QED
    BY <1>2, <1>4, <1>5, CarStep DEF Stop

\* A request that is served or lost: one's own to enable, or none of a granted session.
LEMMA CallsCommit ==
  ASSUME SessionInv, CommitInv,
         UNCHANGED <<now, tool, ctl, wanted, stop>>,
         target' \in Int, goal' \in {goal, NoGoal},
         EnableIsLast', Granted'
  PROVE  CommitInv'
  <1>1. TopicsTypeOK'
    <2>1. NoGoal \in [of : Int, stamp : Int]
      BY DEF NoGoal, None
    <2> QED
      BY <2>1 DEF CommitInv, TopicsTypeOK
  <1>2. RequestStands' /\ Withdrawn' /\ GateAfterHold' /\ GoalAfterGate' /\ HeldBefore'
        /\ GoalAfterHold'
    BY DEF CommitInv, RequestStands, Withdrawn, GateAfterHold, GoalAfterGate, HeldBefore,
       GoalAfterHold
  <1>3. GoalOnItsWay'
    BY DEF CommitInv, GoalOnItsWay
  <1> QED
    BY <1>1, <1>2, <1>3 DEF CommitInv

\* The car node serves the oldest request.
LEMMA ServeCommits == SessionInv /\ CommitInv /\ Serve => CommitInv'
  <1> SUFFICES ASSUME SessionInv, CommitInv, Serve PROVE CommitInv'
    OBVIOUS
  <1>1. /\ calls \in Seq(Requests) /\ calls # <<>> /\ calls' = Tail(calls)
        /\ UNCHANGED <<now, tool, target, goal, stop, ctl, wanted>>
    BY DEF SessionInv, SessionTypeOK, Serve
  <1>2. /\ Tail(calls) \in Seq(Requests) /\ Head(calls) = calls[1]
        /\ Len(calls) = 1 => Tail(calls) = <<>>
        /\ Tail(calls) = <<>> \/ Tail(calls)[Len(Tail(calls))] = calls[Len(calls)]
    BY <1>1, TailOf
  <1>3. EnableIsLast'
    <2> SUFFICES ASSUME tool.at = "on"
                 PROVE  IF answer' = "none" THEN calls' = <<>> \/ calls'[Len(calls')] = "on"
                        ELSE calls' = <<>> /\ param' = "mine"
      BY <1>1 DEF EnableIsLast
    <2>1. answer = "none" /\ calls[Len(calls)] = "on"
      BY <1>1 DEF CommitInv, EnableIsLast
    <2>2. CASE Len(calls) = 1
      <3>1. Head(calls) = "on"
        BY <1>2, <2>1, <2>2
      <3>2. param' = "mine" /\ answer' = "free"
        BY <2>2, <3>1 DEF Serve, Answered, Awaiting
      <3> QED
        BY <1>1, <1>2, <2>2, <3>2
    <2>3. CASE Len(calls) # 1
      <3>1. answer' = "none"
        BY <2>1, <2>3 DEF Serve, Answered
      <3> QED
        BY <1>1, <1>2, <2>1, <3>1
    <2> QED
      BY <2>2, <2>3
  <1>4. Granted'
    BY <1>1 DEF CommitInv, Granted
  <1>5. target \in Int
    BY DEF CommitInv, TopicsTypeOK
  <1> QED
    BY <1>1, <1>3, <1>4, <1>5, CallsCommit

\* A request or its answer is lost, or a message.
LEMMA LoseCommits == SessionInv /\ CommitInv /\ LoseAny => CommitInv'
  <1> SUFFICES ASSUME SessionInv, CommitInv, LoseAny PROVE CommitInv'
    OBVIOUS
  <1>1. calls \in Seq(Requests) /\ UNCHANGED <<now, tool, answer, stop, ctl, wanted>>
    BY DEF SessionInv, SessionTypeOK, LoseAny
  <1>2. target' \in Int /\ goal' \in {goal, NoGoal}
    BY DEF LoseAny, Lose, CommitInv, TopicsTypeOK, None
  <1>3. CASE calls # <<>> /\ calls' = Tail(calls)
    <2>1. Tail(calls) = <<>> \/ Tail(calls)[Len(Tail(calls))] = calls[Len(calls)]
      BY <1>1, <1>3, TailOf
    <2>2. EnableIsLast'
      BY <1>1, <1>3, <2>1 DEF CommitInv, EnableIsLast
    <2>3. Granted'
      BY <1>1, <1>3 DEF CommitInv, Granted
    <2> QED
      BY <1>1, <1>2, <2>2, <2>3, CallsCommit
  <1>4. CASE UNCHANGED <<calls, param>>
    <2>1. EnableIsLast' /\ Granted'
      BY <1>1, <1>4 DEF CommitInv, EnableIsLast, Granted
    <2> QED
      BY <1>1, <1>2, <2>1, CallsCommit
  <1> QED
    BY <1>3, <1>4 DEF LoseAny, Lose

\* Time passes only while the car node has taken its mode up.
LEMMA TickCommits == SessionInv /\ CommitInv /\ Tick => CommitInv'
  <1> SUFFICES ASSUME SessionInv, CommitInv, Tick PROVE CommitInv'
    OBVIOUS
  <1>1. /\ now \in Nat /\ now' = now + 1 /\ ctl.enabled = (param # "off")
        /\ UNCHANGED <<tool, calls, answer, target, goal, stop, param, ctl, wanted>>
    BY DEF SessionInv, SessionTypeOK, Tick
  <1>2. TopicsTypeOK' /\ RequestStands' /\ Withdrawn' /\ EnableIsLast' /\ Granted'
        /\ GoalAfterGate' /\ GoalAfterHold'
    BY <1>1 DEF CommitInv, TopicsTypeOK, RequestStands, Withdrawn, EnableIsLast, Granted,
       GoalAfterGate, GoalAfterHold
  <1>3. GateAfterHold'
    BY <1>1 DEF CommitInv, Granted, GateAfterHold
  <1>4. /\ ctl.held \in Int /\ ctl.min \in Int /\ goal.stamp \in Int
        /\ ctl.held <= now /\ ctl.min <= now
    BY DEF CommitInv, TopicsTypeOK, CtlType, HeldBefore
  <1>5. HeldBefore'
    BY <1>1, <1>4 DEF HeldBefore
  <1>6. GoalOnItsWay'
    BY <1>1, <1>4 DEF CommitInv, GoalOnItsWay
  <1> QED
    BY <1>2, <1>3, <1>5, <1>6 DEF CommitInv

\* Every step.
LEMMA NextCommits == SessionInv /\ CommitInv /\ [Next]_vars => CommitInv'
  <1> SUFFICES ASSUME SessionInv, CommitInv, [Next]_vars PROVE CommitInv'
    OBVIOUS
  <1>1. CASE UNCHANGED vars
    BY <1>1 DEF vars, CommitInv, TopicsTypeOK, RequestStands, Withdrawn, EnableIsLast, Granted,
       GateAfterHold, GoalAfterGate, HeldBefore, GoalOnItsWay, GoalAfterHold
  <1>2. CASE Tool
    BY <1>2, RefreshCommits, ActNoneCommits, ActEnableCommits, EnableCommits, ArmedCommits,
       EnableFailsCommits, ActPublishCommits, DisabledCommits, DisableFailsCommits DEF Tool
  <1>3. CASE Tick \/ HearWaiting \/ Retry
    BY <1>3, TickCommits, HearWaitingCommits, RetryCommits
  <1>4. CASE Close \/ Start \/ Kill
    BY <1>4, EndCommits
  <1>5. CASE Car \/ LoseAny
    BY <1>5, UpdateCommits, ObserveTargetCommits, ObserveGoalCommits, StopCommits, ServeCommits,
       LoseCommits DEF Car
  <1> QED
    BY <1>1, <1>2, <1>3, <1>4, <1>5 DEF Next

\* Both invariants together are inductive.
THEOREM CommitInvariance == Spec => [](SessionInv /\ CommitInv)
  <1> QED
    BY SessionInitHolds, NextPreserves, CommitInitHolds, NextCommits, PTL DEF Spec

\* However requests and messages are lost, delayed or overtaken and however often the
\* program is started and killed, the point the arm is sent to was captured after the
\* car node held the arm for this session. (arm_tracking.py:197, the new gate after
\* enable; arm_visual_tracking.h:221, observe_goal)
THEOREM GoalsAfterTheHold == Spec => []GoalAfterHold
  <1>1. CommitInv => GoalAfterHold
    BY DEF CommitInv
  <1> QED
    BY <1>1, CommitInvariance, PTL

\* Nothing is published after a cancel was heard until the operator asks again.
LEMMA PublishedWhenWanted ==
  ASSUME CommitInv, [Next]_vars
  PROVE  (target' # target /\ target' # None) \/ (goal' # goal /\ goal' # NoGoal) => wanted
  <1>1. CASE ActPublish
    BY <1>1 DEF ActPublish, CommitInv, RequestStands
  <1>2. CASE UNCHANGED <<target, goal>>
    BY <1>2
  <1>3. CASE ObserveTarget \/ ObserveGoal \/ LoseAny
    BY <1>3 DEF ObserveTarget, ObserveGoal, LoseAny, Lose
  <1>4. CASE Tool
    BY <1>1, <1>2, <1>4 DEF Tool, Refresh, ActNone, ActEnable, Enable, Enabled, Armed,
       EnableFails, Disabled, DisableFails
  <1>5. CASE Tick \/ HearWaiting \/ Retry \/ Close \/ Start \/ Kill
    BY <1>2, <1>5 DEF Tick, HearWaiting, Retry, Close, Start, Kill
  <1>6. CASE Car
    BY <1>2, <1>3, <1>6 DEF Car, Update, Stop, Serve
  <1> QED
    BY <1>2, <1>3, <1>4, <1>5, <1>6 DEF Next, vars

\* An OFF that was heard, or a silence, wins over every later message of the button: no
\* target and no goal is published before a request that was accepted afterwards.
\* (arm_tracking_ros.py:62, _observe_joystick; arm_tracking.py:94, refresh_request)
THEOREM CancelAlwaysWins == Spec => CancelWins
  <1> QED
    BY CommitInvariance, PublishedWhenWanted, PTL DEF Spec, CancelWins

===============================================================================
