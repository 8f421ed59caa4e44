------------------------- MODULE CanopenSdo_proofs -------------------------
(***************************************************************************)
(* Proofs about the SDO engine of the CANopen master for every set of      *)
(* requests, nodes and objects and every limit of its queues.              *)
(*                                                                         *)
(* Base says what the threads are about to do (SdoTypeOK, Known, Planned); *)
(* on it rest three invariants of their own: AllOnce (a completion is with *)
(* one thread, in one place of the event queue, or was called once),       *)
(* Remembered (a request is queued or about to be completed, and a queue   *)
(* that waits is about to be served) and Lineage (a request has at most    *)
(* one frame under way, and one that is under way without its request      *)
(* waiting comes from an object of which a request has timed out).         *)
(* Each is shown action by action from a lemma about one kind of step.     *)
(***************************************************************************)
EXTENDS CanopenSdo, FiniteSetTheorems, WellFoundedInduction, TLAPS

\* The steps a thread may have before it, and the jobs of the event queue.
TaskSet ==
    [do : {"activate_next_sdo"}, node : Nodes]
    \cup [do : {"send_frame", "transport_send", "pop_sdo"}, request : Requests]
    \cup [do : {"complete_sdo", "enqueue_event"}, request : Requests, outcome : Outcome]
    \cup [do : {"process_sdo"}, answer : Requests]
    \cup [do : {"emit_raw", "wait_for", "check_sdo_timeouts", "cancel", "event_stopping_", "join"}]

Jobs == [critical : {TRUE}, request : Requests, outcome : Outcome] \cup [critical : {FALSE}]

\* The types of the variables, and which requests may be where.
SdoTypeOK ==
    /\ queue \in [Nodes -> Seq(Requests)]
    /\ late \subseteq active /\ active \subseteq submitted
    /\ completed \subseteq submitted /\ submitted \subseteq Requests
    /\ events \in Seq(Jobs)
    /\ ran \in [Requests -> Nat]
    /\ result \in [Requests -> Outcome \cup {Unanswered}]
    /\ bus \in [Nodes -> Seq(Requests)]
    /\ receive \in Seq(Requests)
    /\ todo \in [Threads -> Seq(TaskSet)]
    /\ stopping \in BOOLEAN /\ eventStopping \in BOOLEAN
    /\ running \subseteq {Protocol, EventThread}

\* A step is for a request that was made, a queue holds requests of its node,
\* and a thread without a request, or stop() before it began, does nothing.
Handles(k, r) ==
    /\ k.do \in {"send_frame", "transport_send", "pop_sdo", "complete_sdo", "enqueue_event"}
    /\ k.request = r
Known ==
    /\ \A n \in Nodes : \A i \in DOMAIN queue[n] : queue[n][i] \in submitted /\ NodeOf[queue[n][i]] = n
    /\ \A t \in Threads : \A i \in DOMAIN todo[t] : \A r \in Requests :
          Handles(todo[t][i], r) => r \in submitted
    /\ \A r \in Requests : r \notin submitted => todo[r] = <<>>
    /\ ~stopping => todo[Stopper] = <<>>

\* A completion is posted before anything else, and a request that is taken out
\* of its queue is completed next and its node then goes on.
Plan(s) ==
    /\ \A i \in DOMAIN s : s[i].do = "enqueue_event" => i = 1
    /\ \A i \in DOMAIN s : s[i].do = "pop_sdo" =>
          /\ i + 2 \in DOMAIN s
          /\ s[i + 1].do = "complete_sdo" /\ s[i + 1].request = s[i].request
          /\ s[i + 2] = Activate(NodeOf[s[i].request])
Planned == \A t \in Threads : Plan(todo[t])

\* Who calls the completion of a request: a thread, or a job in the event queue.
Posts(k, r) == k.do = "enqueue_event" /\ k.request = r
Carries(s, r) == s # <<>> /\ Posts(s[1], r)
Ends(job, r) == job.critical /\ job.request = r

NoJob(q, r) == \A i \in DOMAIN q : ~Ends(q[i], r)
OneJob(q, r) == \E j \in DOMAIN q : \A i \in DOMAIN q : Ends(q[i], r) <=> i = j
NoCarrier(r) == \A t \in Threads : ~Carries(todo[t], r)
OneCarrier(r) == \E t \in Threads : \A u \in Threads : Carries(todo[u], r) <=> u = t

\* The completion of a request is in one place, or in none.
Once(r) ==
    /\ r \notin completed => ran[r] = 0 /\ NoCarrier(r) /\ NoJob(events, r)
    /\ r \in completed =>
          \/ ran[r] = 1 /\ NoCarrier(r) /\ NoJob(events, r)
          \/ ran[r] = 0 /\ OneCarrier(r) /\ NoJob(events, r)
          \/ ran[r] = 0 /\ NoCarrier(r) /\ OneJob(events, r)
AllOnce == \A r \in Requests : Once(r)

\* A request waits in the queue of its node.
InQueue(q) == \E i \in DOMAIN queue[NodeOf[q]] : queue[NodeOf[q]][i] = q

-------------------------------------------------------------------------------

\* The threads of the master and the outcomes are no requests.
LEMMA Names ==
    /\ Protocol \in Threads /\ EventThread \in Threads /\ Stopper \in Threads
    /\ Protocol \notin Requests /\ EventThread \notin Requests /\ Stopper \notin Requests
    /\ Protocol # Stopper /\ Protocol # EventThread /\ EventThread # Stopper
    /\ Failure \notin Requests /\ Unanswered \notin Requests /\ Unanswered # Failure
    /\ Requests \subseteq Threads
BY NameAssumption DEF Threads, Protocol, EventThread, Stopper, Failure, Unanswered

\* Every request has a node.
LEMMA NodesOf == \A r \in Requests : NodeOf[r] \in Nodes
BY RequestAssumption

\* What a step of each kind carries.
LEMMA TaskParts ==
    ASSUME NEW k \in TaskSet
    PROVE  /\ k.do = "activate_next_sdo" => k.node \in Nodes /\ k = Activate(k.node)
           /\ k.do \in {"send_frame", "transport_send", "pop_sdo", "complete_sdo", "enqueue_event"}
                => k.request \in Requests
           /\ k.do \in {"complete_sdo", "enqueue_event"} => k.outcome \in Outcome
           /\ k.do = "process_sdo" => k.answer \in Requests
<1>1. CASE k \in [do : {"activate_next_sdo"}, node : Nodes] BY <1>1 DEF Activate
<1>2. CASE k \in [do : {"send_frame", "transport_send", "pop_sdo"}, request : Requests] BY <1>2
<1>3. CASE k \in [do : {"complete_sdo", "enqueue_event"}, request : Requests, outcome : Outcome]
    BY <1>3
<1>4. CASE k \in [do : {"process_sdo"}, answer : Requests] BY <1>4
<1>5. CASE k \in [do : {"emit_raw", "wait_for", "check_sdo_timeouts", "cancel", "event_stopping_", "join"}]
    BY <1>5
<1> QED BY <1>1, <1>2, <1>3, <1>4, <1>5 DEF TaskSet

\* Every step the code makes is one.
LEMMA TasksMade ==
    /\ \A n \in Nodes : Activate(n) \in TaskSet
    /\ \A r \in Requests :
          /\ Check(r) \in TaskSet /\ Transmit(r) \in TaskSet /\ Pop(r) \in TaskSet
          /\ Process(r) \in TaskSet
          /\ \A out \in Outcome : Complete(r, out) \in TaskSet /\ Post(r, out) \in TaskSet
    /\ Emit \in TaskSet /\ Receive \in TaskSet /\ Timeouts \in TaskSet
    /\ CancelAll \in TaskSet /\ StopEvents \in TaskSet /\ JoinEvents \in TaskSet
BY DEF TaskSet, Activate, Check, Transmit, Pop, Process, Complete, Post, Emit, Receive, Timeouts,
    CancelAll, StopEvents, JoinEvents

\* What a completion may be called with.
LEMMA Outcomes == Failure \in Outcome /\ Requests \subseteq Outcome
BY DEF Outcome

\* What a job carries.
LEMMA JobParts ==
    ASSUME NEW job \in Jobs
    PROVE  /\ job.critical \in BOOLEAN
           /\ job.critical => job.request \in Requests /\ job.outcome \in Outcome
BY DEF Jobs

\* Every job the code makes is one.
LEMMA JobsMade ==
    /\ RawFrame \in Jobs /\ ~RawFrame.critical
    /\ \A r \in Requests, out \in Outcome :
          /\ Completion(r, out) \in Jobs /\ Completion(r, out).critical
          /\ Completion(r, out).request = r /\ Completion(r, out).outcome = out
BY DEF Jobs, RawFrame, Completion

\* The sequence w is s with new in the place of its first element.
Spliced(w, new, s) ==
    /\ Len(s) \in Nat /\ Len(s) >= 1 /\ Len(new) \in Nat
    /\ DOMAIN w = 1..(Len(new) + Len(s) - 1)
    /\ DOMAIN s = 1..Len(s) /\ DOMAIN new = 1..Len(new)
    /\ \A i \in 1..Len(new) : w[i] = new[i]
    /\ \A i \in 2..Len(s) : w[Len(new) + i - 1] = s[i]
    /\ \A j \in DOMAIN w :
          \/ j \in 1..Len(new) /\ w[j] = new[j]
          \/ /\ j \notin 1..Len(new)
             /\ j - Len(new) + 1 \in 2..Len(s) /\ w[j] = s[j - Len(new) + 1]

\* The first element of a sequence replaced by others.
LEMMA Splicing ==
    ASSUME NEW S, NEW s \in Seq(S), s # <<>>, NEW new \in Seq(S)
    PROVE  new \o Tail(s) \in Seq(S) /\ Spliced(new \o Tail(s), new, s)
<1> DEFINE w == new \o Tail(s)
<1>1. /\ w \in Seq(S)
      /\ Len(s) \in Nat /\ Len(s) >= 1 /\ Len(new) \in Nat
      /\ DOMAIN w = 1..(Len(new) + Len(s) - 1)
      /\ DOMAIN s = 1..Len(s) /\ DOMAIN new = 1..Len(new)
    OBVIOUS
<1>2. \A i \in 1..Len(new) : w[i] = new[i] OBVIOUS
<1>3. \A i \in 2..Len(s) : w[Len(new) + i - 1] = s[i] OBVIOUS
<1> HIDE DEF w
<1>4. ASSUME NEW j \in DOMAIN w, j \notin 1..Len(new)
      PROVE  j - Len(new) + 1 \in 2..Len(s) /\ w[j] = s[j - Len(new) + 1]
    <2>1. j \in Nat /\ j - Len(new) + 1 \in 2..Len(s) BY <1>1, <1>4
    <2>2. Len(new) + (j - Len(new) + 1) - 1 = j BY <1>1, <2>1
    <2> QED BY <1>3, <2>1, <2>2
<1>5. Spliced(w, new, s) BY <1>1, <1>2, <1>3, <1>4 DEF Spliced
<1> QED BY <1>1, <1>5 DEF w

\* Two sequences one after the other.
LEMMA Joined ==
    ASSUME NEW S, NEW a \in Seq(S), NEW b \in Seq(S)
    PROVE  /\ a \o b \in Seq(S) /\ Len(a \o b) = Len(a) + Len(b)
           /\ DOMAIN (a \o b) = 1..(Len(a) + Len(b))
           /\ \A i \in 1..Len(a) : (a \o b)[i] = a[i]
           /\ \A i \in 1..Len(b) : (a \o b)[Len(a) + i] = b[i]
<1>1. a \o b \in Seq(S) /\ Len(a \o b) = Len(a) + Len(b) OBVIOUS
<1>2. DOMAIN (a \o b) = 1..(Len(a) + Len(b)) OBVIOUS
<1>3. \A i \in 1..Len(a) : (a \o b)[i] = a[i] OBVIOUS
<1>4. \A i \in 1..Len(b) : (a \o b)[Len(a) + i] = b[i] OBVIOUS
<1> QED BY <1>1, <1>2, <1>3, <1>4

\* The step a thread is about to take.
LEMMA HeadTask ==
    ASSUME SdoTypeOK, NEW t \in Threads, NEW kind, NextTask(t, kind)
    PROVE  /\ todo[t] \in Seq(TaskSet) /\ todo[t] # <<>>
           /\ 1 \in DOMAIN todo[t] /\ Head(todo[t]) = todo[t][1] /\ todo[t][1] \in TaskSet
           /\ todo[t][1].do = kind
BY DEF SdoTypeOK, NextTask

\* Only the thread that takes a step has other steps after it.
LEMMA AfterThen ==
    ASSUME SdoTypeOK, NEW t \in Threads, todo[t] # <<>>, NEW new \in Seq(TaskSet), Then(t, new)
    PROVE  /\ todo' \in [Threads -> Seq(TaskSet)]
           /\ todo'[t] = new \o Tail(todo[t])
           /\ \A u \in Threads : u # t => todo'[u] = todo[u]
<1>1. todo \in [Threads -> Seq(TaskSet)] BY DEF SdoTypeOK
<1>2. new \o Tail(todo[t]) \in Seq(TaskSet) BY <1>1
<1> QED BY <1>1, <1>2 DEF Then

\* The place a full queue of events gives up holds a droppable job.
LEMMA DroppedIsRaw ==
    ASSUME NEW q \in Seq(Jobs), Dropped(q) # 0
    PROVE  Dropped(q) \in 1..Len(q) /\ ~q[Dropped(q)].critical
<1> DEFINE raw == {i \in 1..Len(q) : ~q[i].critical}
<1>1. raw \subseteq Nat OBVIOUS
<1>2. Dropped(q) = IF raw # {} THEN Min(raw) ELSE 0 BY DEF Dropped, SelectInSeq
<1>3. raw # {} BY <1>2
<1>6. PICK i \in raw : \A j \in raw : <<j, i>> \notin OpToRel(<, Nat)
    BY <1>1, <1>3, WFMin, NatLessThanWellFounded, Zenon
<1>7. \A j \in raw : ~(j < i)
    BY <1>1, <1>6, Zenon DEF OpToRel
<1>8. \A j \in raw : i =< j
    BY <1>1, <1>7
<1>4. \E k \in raw : \A j \in raw : k =< j BY <1>8
<1>5. Min(raw) \in raw BY <1>4, Zenon DEF Min
<1> QED BY <1>2, <1>3, <1>5

\* What is queued for the event thread: the jobs that are not dropped, in
\* their order, and the new job, unless it may be dropped itself.
LEMMA QueuedJobs ==
    ASSUME NEW q \in Seq(Jobs), q = events, NEW job \in Jobs
    PROVE  \/ /\ Queued(job) = q /\ ~job.critical
           \/ Queued(job) = Append(q, job)
           \/ \E i \in 1..Len(q) : ~q[i].critical /\ Queued(job) = Append(RemoveAt(q, i), job)
BY DroppedIsRaw DEF Queued

\* A sequence without one of its elements.
LEMMA Removed ==
    ASSUME NEW S, NEW q \in Seq(S), NEW i \in 1..Len(q), NEW w, w = RemoveAt(q, i)
    PROVE  /\ w \in Seq(S) /\ Len(w) = Len(q) - 1
           /\ \A j \in 1..(i - 1) : w[j] = q[j]
           /\ \A j \in i..(Len(q) - 1) : w[j] = q[j + 1]
<1> DEFINE a == SubSeq(q, 1, i - 1)
           b == SubSeq(q, i + 1, Len(q))
<1>1. Len(q) \in Nat /\ i \in Nat /\ i >= 1 /\ i =< Len(q) OBVIOUS
<1>2. a \in Seq(S) /\ Len(a) = i - 1 /\ \A j \in 1..(i - 1) : a[j] = q[j] BY <1>1
<1>3. b \in Seq(S) /\ Len(b) = Len(q) - i /\ \A j \in 1..(Len(q) - i) : b[j] = q[i + j] BY <1>1
<1>4. w = a \o b BY DEF RemoveAt
<1> HIDE DEF a, b
<1>5. w \in Seq(S) /\ Len(w) = Len(q) - 1 BY <1>1, <1>2, <1>3, <1>4
<1>6. \A j \in 1..(i - 1) : w[j] = q[j] BY <1>1, <1>2, <1>3, <1>4
<1>7. \A j \in i..(Len(q) - 1) : w[j] = b[j - (i - 1)] BY <1>1, <1>2, <1>3, <1>4
<1>8. \A j \in i..(Len(q) - 1) : j - (i - 1) \in 1..(Len(q) - i) /\ i + (j - (i - 1)) = j + 1 BY <1>1
<1> QED BY <1>3, <1>5, <1>6, <1>7, <1>8


-------------------------------------------------------------------------------
(* What a thread has left to do *)

\* What every later argument about the threads needs.
Base == SdoTypeOK /\ Known /\ Planned

\* A task of a request that was made.
Meant(k) == \A r \in Requests : Handles(k, r) => r \in submitted

\* Steps that neither post nor take out are a plan.
LEMMA PlanSimple ==
    ASSUME NEW s \in Seq(TaskSet), \A i \in DOMAIN s : s[i].do \notin {"enqueue_event", "pop_sdo"}
    PROVE  Plan(s)
BY DEF Plan

\* One step is a plan, unless it takes out.
LEMMA PlanOne ==
    ASSUME NEW k \in TaskSet, k.do # "pop_sdo"
    PROVE  <<k>> \in Seq(TaskSet) /\ Len(<<k>>) = 1 /\ <<k>>[1] = k /\ DOMAIN <<k>> = {1} /\ Plan(<<k>>)
<1>1. <<k>> \in Seq(TaskSet) /\ Len(<<k>>) = 1 /\ <<k>>[1] = k /\ DOMAIN <<k>> = {1} OBVIOUS
<1> DEFINE s == <<k>>
<1> HIDE DEF s
<1>2. s \in Seq(TaskSet) /\ DOMAIN s = {1} /\ s[1] = k BY <1>1 DEF s
<1>3. Plan(s) BY <1>2 DEF Plan
<1> QED BY <1>1, <1>3 DEF s

\* Nothing to do is a plan.
LEMMA PlanNone == <<>> \in Seq(TaskSet) /\ Len(<<>>) = 0 /\ DOMAIN <<>> = {} /\ Plan(<<>>)
<1>1. <<>> \in Seq(TaskSet) /\ Len(<<>>) = 0 /\ DOMAIN <<>> = {} OBVIOUS
<1> QED BY <1>1 DEF Plan

\* The job for the observers of frames is at most one step.
LEMMA RawTasks ==
    /\ Raw \in Seq(TaskSet) /\ Len(Raw) \in {0, 1} /\ DOMAIN Raw = 1..Len(Raw)
    /\ \A i \in DOMAIN Raw : Raw[i] = Emit
<1>1. CASE Observed
    <2>1. Raw = <<Emit>> /\ Emit \in TaskSet BY <1>1, TasksMade DEF Raw
    <2> QED BY <2>1
<1>2. CASE ~Observed
    <2>1. Raw = <<>> BY <1>2 DEF Raw
    <2> QED BY <2>1
<1> QED BY <1>1, <1>2

\* To finish with a request, with or without a frame for the observers.
LEMMA PlanFinish ==
    ASSUME NEW r \in Requests, NEW out \in Outcome,
           NEW raw \in Seq(TaskSet), \A i \in DOMAIN raw : raw[i] = Emit,
           NEW s, s = <<Pop(r), Complete(r, out), Activate(NodeOf[r])>> \o raw
    PROVE  /\ s \in Seq(TaskSet) /\ Len(s) = 3 + Len(raw) /\ DOMAIN s = 1..(3 + Len(raw))
           /\ s[1] = Pop(r) /\ s[2] = Complete(r, out) /\ s[3] = Activate(NodeOf[r])
           /\ \A i \in 4..(3 + Len(raw)) : s[i] = Emit
           /\ Plan(s)
<1> DEFINE a == <<Pop(r), Complete(r, out), Activate(NodeOf[r])>>
<1>1. Pop(r) \in TaskSet /\ Complete(r, out) \in TaskSet /\ Activate(NodeOf[r]) \in TaskSet
    BY TasksMade, NodesOf
<1>2. /\ a \in Seq(TaskSet) /\ Len(a) = 3
      /\ a[1] = Pop(r) /\ a[2] = Complete(r, out) /\ a[3] = Activate(NodeOf[r])
    BY <1>1
<1>3. s = a \o raw /\ Len(raw) \in Nat /\ DOMAIN raw = 1..Len(raw) OBVIOUS
<1> HIDE DEF a
<1>4. /\ s \in Seq(TaskSet) /\ Len(s) = 3 + Len(raw) /\ DOMAIN s = 1..(3 + Len(raw))
      /\ s[1] = Pop(r) /\ s[2] = Complete(r, out) /\ s[3] = Activate(NodeOf[r])
    BY <1>2, <1>3
<1>5. ASSUME NEW i \in 4..(3 + Len(raw)) PROVE s[i] = Emit
    <2>1. s[i] = raw[i - 3] /\ i - 3 \in DOMAIN raw BY <1>2, <1>3
    <2> QED BY <2>1
<1>6. /\ Pop(r).do = "pop_sdo" /\ Pop(r).request = r
      /\ Complete(r, out).do = "complete_sdo" /\ Complete(r, out).request = r
      /\ Activate(NodeOf[r]).do = "activate_next_sdo" /\ Emit.do = "emit_raw"
    BY DEF Pop, Complete, Activate, Emit
<1>7. \A i \in DOMAIN s : i = 1 \/ i = 2 \/ i = 3 \/ i \in 4..(3 + Len(raw)) BY <1>3, <1>4
<1>8. \A i \in DOMAIN s : s[i].do # "enqueue_event" /\ (s[i].do = "pop_sdo" => i = 1)
    BY <1>4, <1>5, <1>6, <1>7
<1>9. 3 \in DOMAIN s BY <1>3, <1>4
<1>10. ASSUME NEW i \in DOMAIN s, s[i].do = "pop_sdo"
       PROVE  /\ i + 2 \in DOMAIN s
              /\ s[i + 1].do = "complete_sdo" /\ s[i + 1].request = s[i].request
              /\ s[i + 2] = Activate(NodeOf[s[i].request])
    <2>1. i = 1 /\ 1 + 1 = 2 /\ 1 + 2 = 3 BY <1>8, <1>10
    <2> QED BY <1>4, <1>6, <1>9, <2>1
<1>11. \A i \in DOMAIN s : s[i].do = "enqueue_event" => i = 1 BY <1>8
<1>12. Plan(s) BY <1>10, <1>11 DEF Plan
<1> QED BY <1>4, <1>5, <1>12

\* The same for the observers there are.
LEMMA PlanFinishRaw ==
    ASSUME NEW r \in Requests, NEW out \in Outcome,
           NEW s, s = <<Pop(r), Complete(r, out), Activate(NodeOf[r])>> \o Raw
    PROVE  /\ s \in Seq(TaskSet) /\ Len(s) = 3 + Len(Raw) /\ DOMAIN s = 1..(3 + Len(Raw))
           /\ s[1] = Pop(r) /\ s[2] = Complete(r, out) /\ s[3] = Activate(NodeOf[r])
           /\ \A i \in 4..(3 + Len(Raw)) : s[i] = Emit
           /\ Plan(s)
<1>1. PICK raw : raw = Raw OBVIOUS
<1>2. raw \in Seq(TaskSet) /\ \A i \in DOMAIN raw : raw[i] = Emit BY <1>1, RawTasks
<1>3. s = <<Pop(r), Complete(r, out), Activate(NodeOf[r])>> \o raw BY <1>1
<1>4. /\ s \in Seq(TaskSet) /\ Len(s) = 3 + Len(raw) /\ DOMAIN s = 1..(3 + Len(raw))
      /\ s[1] = Pop(r) /\ s[2] = Complete(r, out) /\ s[3] = Activate(NodeOf[r])
      /\ \A i \in 4..(3 + Len(raw)) : s[i] = Emit
      /\ Plan(s)
    BY <1>2, <1>3, PlanFinish, ZenonT(30)
<1> QED BY <1>1, <1>4

\* A plan in the place of the first step of a plan gives a plan.
LEMMA PlanThen ==
    ASSUME NEW s \in Seq(TaskSet), s # <<>>, Plan(s), NEW new \in Seq(TaskSet), Plan(new),
           NEW w, w = new \o Tail(s)
    PROVE  Plan(w)
<1> DEFINE d == Len(new)
<1>1. /\ w \in Seq(TaskSet)
      /\ Len(s) \in Nat /\ Len(s) >= 1 /\ d \in Nat
      /\ DOMAIN w = 1..(d + Len(s) - 1)
      /\ DOMAIN s = 1..Len(s) /\ DOMAIN new = 1..d
      /\ \A i \in 1..d : w[i] = new[i]
      /\ \A i \in 2..Len(s) : w[d + i - 1] = s[i]
      /\ \A j \in DOMAIN w :
            \/ j \in 1..d /\ w[j] = new[j]
            \/ /\ j \notin 1..d
               /\ j - d + 1 \in 2..Len(s) /\ w[j] = s[j - d + 1]
    <2>1. new \o Tail(s) \in Seq(TaskSet) /\ Spliced(new \o Tail(s), new, s) BY Splicing
    <2>2. w \in Seq(TaskSet) /\ Spliced(w, new, s) BY <2>1
    <2> QED BY <2>2 DEF Spliced
<1>a. Len(s) \in Nat /\ d \in Nat /\ DOMAIN s = 1..Len(s) /\ DOMAIN w = 1..(d + Len(s) - 1)
    BY <1>1
<1> HIDE DEF d
<1>2. ASSUME NEW j \in DOMAIN w, w[j].do = "enqueue_event" PROVE j = 1
    BY <1>1, <1>2 DEF Plan
<1>3. ASSUME NEW j \in DOMAIN w, w[j].do = "pop_sdo"
      PROVE  /\ j + 2 \in DOMAIN w
             /\ w[j + 1].do = "complete_sdo" /\ w[j + 1].request = w[j].request
             /\ w[j + 2] = Activate(NodeOf[w[j].request])
    <2>1. CASE j \in 1..d /\ w[j] = new[j]
        <3>1. /\ j + 2 \in DOMAIN new
              /\ new[j + 1].do = "complete_sdo" /\ new[j + 1].request = new[j].request
              /\ new[j + 2] = Activate(NodeOf[new[j].request])
            BY <1>1, <1>3, <2>1 DEF Plan
        <3>2. j + 1 \in 1..d /\ j + 2 \in 1..d /\ j + 2 \in DOMAIN w BY <1>1, <2>1, <3>1
        <3> QED BY <1>1, <2>1, <3>1, <3>2
    <2>2. CASE /\ j \notin 1..d
               /\ j - d + 1 \in 2..Len(s) /\ w[j] = s[j - d + 1]
        <3> DEFINE i == j - d + 1
        <3>0. j \in Nat /\ d \in Nat /\ Len(s) \in Nat BY <1>a
        <3>a. i \in 2..Len(s) /\ w[j] = s[i] BY <2>2
        <3>b. j = d + i - 1 BY <3>0
        <3>1. i \in DOMAIN s /\ i \in Nat /\ j = d + i - 1 /\ w[j] = s[i] /\ i >= 2
            <4> HIDE DEF i
            <4> QED BY <1>a, <3>0, <3>a, <3>b
        <3> HIDE DEF i
        <3>2. /\ i + 2 \in DOMAIN s
              /\ s[i + 1].do = "complete_sdo" /\ s[i + 1].request = s[i].request
              /\ s[i + 2] = Activate(NodeOf[s[i].request])
            BY <1>3, <3>1 DEF Plan
        <3>3. i + 1 \in 2..Len(s) /\ i + 2 \in 2..Len(s) /\ j + 2 \in DOMAIN w
            <4>1. i + 2 \in 1..Len(s) BY <1>a, <3>2
            <4>0. i \in Nat /\ i >= 2 /\ j = d + i - 1 BY <3>1
            <4>2. i + 1 \in 2..Len(s) /\ i + 2 \in 2..Len(s) BY <3>0, <4>0, <4>1
            <4>3. j + 2 = d + i + 1 BY <3>0, <4>0
            <4>4. d + i + 1 \in 1..(d + Len(s) - 1) BY <3>0, <4>0, <4>1
            <4> QED BY <1>a, <4>2, <4>3, <4>4
        <3>4. d + (i + 1) - 1 = j + 1 /\ d + (i + 2) - 1 = j + 2 BY <1>1, <3>1
        <3>5. w[j + 1] = s[i + 1] /\ w[j + 2] = s[i + 2] BY <1>1, <3>3, <3>4
        <3> QED BY <3>1, <3>2, <3>3, <3>5
    <2> QED BY <1>1, <2>1, <2>2
<1> QED BY <1>2, <1>3 DEF Plan

\* A thread that goes on with its work.
LEMMA BaseThen ==
    ASSUME Base, NEW t \in Threads, todo[t] # <<>>, NEW new \in Seq(TaskSet), Then(t, new),
           Plan(new), \A i \in DOMAIN new : Meant(new[i]),
           UNCHANGED <<submitted, stopping>>
    PROVE  /\ todo' \in [Threads -> Seq(TaskSet)] /\ Planned'
           /\ \A u \in Threads : \A i \in DOMAIN todo'[u] : \A r \in Requests :
                 Handles(todo'[u][i], r) => r \in submitted'
           /\ \A r \in Requests : r \notin submitted' => todo'[r] = <<>>
           /\ ~stopping' => todo'[Stopper] = <<>>
<1>1. SdoTypeOK BY DEF Base
<1>2. /\ todo' \in [Threads -> Seq(TaskSet)]
      /\ todo'[t] = new \o Tail(todo[t])
      /\ \A u \in Threads : u # t => todo'[u] = todo[u]
    BY <1>1, AfterThen
<1>3. todo[t] \in Seq(TaskSet) /\ Plan(todo[t]) BY <1>1 DEF SdoTypeOK, Base, Planned
<1>4. Planned'
    <2>1. Plan(todo'[t]) BY <1>2, <1>3, PlanThen
    <2>2. \A u \in Threads : u # t => Plan(todo'[u]) BY <1>2 DEF Base, Planned
    <2>3. \A u \in Threads : Plan(todo'[u]) BY <2>1, <2>2
    <2> QED BY <2>3 DEF Planned, Plan
<1>5. ASSUME NEW u \in Threads, NEW i \in DOMAIN todo'[u] PROVE Meant(todo'[u][i])
    <2>1. CASE u # t BY <1>2, <2>1 DEF Base, Known, Meant
    <2>2. CASE u = t
        <3>1. \/ i \in 1..Len(new) /\ todo'[t][i] = new[i]
              \/ i - Len(new) + 1 \in 2..Len(todo[t]) /\ todo'[t][i] = todo[t][i - Len(new) + 1]
            <4> DEFINE w == todo'[t]
            <4>1. w = new \o Tail(todo[t]) BY <1>2
            <4>2. i \in DOMAIN w BY <2>2
            <4> HIDE DEF w
            <4>3. \A j \in DOMAIN w :
                    \/ j \in 1..Len(new) /\ w[j] = new[j]
                    \/ /\ j \notin 1..Len(new)
                       /\ j - Len(new) + 1 \in 2..Len(todo[t]) /\ w[j] = todo[t][j - Len(new) + 1]
                <5>1. Spliced(new \o Tail(todo[t]), new, todo[t]) BY <1>3, Splicing
                <5>2. Spliced(w, new, todo[t]) BY <4>1, <5>1
                <5> QED BY <5>2 DEF Spliced
            <4> QED BY <4>2, <4>3 DEF w
        <3>2. DOMAIN new = 1..Len(new) /\ DOMAIN todo[t] = 1..Len(todo[t]) /\ Len(todo[t]) \in Nat
            BY <1>3
        <3>3. \A j \in 2..Len(todo[t]) : j \in DOMAIN todo[t] BY <3>2
        <3> QED BY <2>2, <3>1, <3>2, <3>3 DEF Base, Known, Meant
    <2> QED BY <2>1, <2>2
<1>6. \A r \in Requests : r \notin submitted' => todo'[r] = <<>>
    BY <1>2, Names DEF Base, Known
<1>7. ~stopping' => todo'[Stopper] = <<>> BY <1>2, Names DEF Base, Known
<1> QED BY <1>2, <1>4, <1>5, <1>6, <1>7 DEF Meant


-------------------------------------------------------------------------------
(* The orders in which a set of nodes or requests is gone through *)

\* An order of a finite set holds all of it.
LEMMA OrderCovers ==
    ASSUME NEW S, IsFiniteSet(S), NEW order \in SetToSeqs(S)
    PROVE  /\ order \in Seq(S) /\ DOMAIN order = 1..Len(order)
           /\ \A c \in S : \E k \in DOMAIN order : order[k] = c
<1> DEFINE D == 1..Cardinality(S)
<1>1. Cardinality(S) \in Nat BY FS_CardinalityType
<1>2. order \in [D -> S] /\ \A i, j \in D : i # j => order[i] # order[j] BY DEF SetToSeqs
<1>3. order \in Seq(S) /\ Len(order) = Cardinality(S) /\ DOMAIN order = D BY <1>1, <1>2
<1>4. order \in Injection(D, S) BY <1>2 DEF Injection, IsInjective
<1>5. Cardinality(D) = Cardinality(S) BY <1>1, FS_Interval
<1>6. order \in Surjection(D, S) BY <1>4, <1>5, FS_Injection
<1> QED BY <1>3, <1>6 DEF Surjection

\* The order that is chosen is one of the orders.
LEMMA OneOrder ==
    ASSUME NEW S, IsFiniteSet(S)
    PROVE  SetToSeq(S) \in SetToSeqs(S)
<1> DEFINE D == 1..Cardinality(S)
<1>1. PICK f \in Bijection(D, S) : TRUE BY FS_CardinalityType DEF ExistsBijection
<1>2. f \in [D -> S] /\ IsInjective(f) BY <1>1 DEF Bijection, Injection
<1>3. SetToSeq(S) \in [D -> S] /\ IsInjective(SetToSeq(S)) BY <1>2, Zenon DEF SetToSeq
<1> QED BY <1>3 DEF SetToSeqs, IsInjective

\* At any time finitely many requests wait.
LEMMA QueuedIsFinite ==
    ASSUME SdoTypeOK
    PROVE  IsFiniteSet(UNION {Range(queue[n]) : n \in Nodes})
<1> DEFINE Q == {Range(queue[n]) : n \in Nodes}
           f == [n \in Nodes |-> Range(queue[n])]
<1>1. f \in Surjection(Nodes, Q) BY DEF Surjection
<1>2. IsFiniteSet(Q) BY <1>1, RequestAssumption, FS_Surjection
<1>3. ASSUME NEW T \in Q PROVE IsFiniteSet(T)
    <2>1. PICK n \in Nodes : T = Range(queue[n]) OBVIOUS
    <2>2. queue[n] \in Seq(Requests) BY DEF SdoTypeOK
    <2>3. queue[n] \in Surjection(1..Len(queue[n]), T) BY <2>1, <2>2 DEF Surjection, Range
    <2>4. IsFiniteSet(1..Len(queue[n])) BY <2>2, FS_Interval
    <2> QED BY <2>3, <2>4, FS_Surjection
<1> QED BY <1>2, <1>3, FS_UNION

-------------------------------------------------------------------------------
(* Types, plans and who is known: every step *)

\* The parts of Base that are about the queues, and about the other variables.
QueueOK ==
    /\ queue \in [Nodes -> Seq(Requests)]
    /\ \A n \in Nodes : \A i \in DOMAIN queue[n] :
          queue[n][i] \in submitted /\ NodeOf[queue[n][i]] = n

OtherTypes ==
    /\ late \subseteq active /\ active \subseteq submitted
    /\ completed \subseteq submitted /\ submitted \subseteq Requests
    /\ events \in Seq(Jobs)
    /\ ran \in [Requests -> Nat]
    /\ result \in [Requests -> Outcome \cup {Unanswered}]
    /\ bus \in [Nodes -> Seq(Requests)]
    /\ receive \in Seq(Requests)
    /\ stopping \in BOOLEAN /\ eventStopping \in BOOLEAN
    /\ running \subseteq {Protocol, EventThread}

\* Base holds these parts.
LEMMA BaseSplit == Base => QueueOK /\ OtherTypes
BY DEF Base, SdoTypeOK, Known, QueueOK, OtherTypes

\* A thread that goes on with a plan keeps Base, if the other variables do.
LEMMA BaseTask ==
    ASSUME Base, NEW t \in Threads, todo[t] # <<>>, NEW new \in Seq(TaskSet), Then(t, new),
           Plan(new), \A i \in DOMAIN new : Meant(new[i]),
           UNCHANGED <<submitted, stopping>>, QueueOK', OtherTypes'
    PROVE  Base'
<1>1. /\ todo' \in [Threads -> Seq(TaskSet)] /\ Planned'
      /\ \A u \in Threads : \A i \in DOMAIN todo'[u] : \A r \in Requests :
            Handles(todo'[u][i], r) => r \in submitted'
      /\ \A r \in Requests : r \notin submitted' => todo'[r] = <<>>
      /\ ~stopping' => todo'[Stopper] = <<>>
    BY BaseThen
<1>2. SdoTypeOK' BY <1>1 DEF QueueOK, OtherTypes, SdoTypeOK
<1>3. Known' BY <1>1 DEF QueueOK, Known, Handles
<1> QED BY <1>1, <1>2, <1>3 DEF Base

\* A step that leaves the threads alone keeps Base, if the other variables do.
LEMMA BaseRest ==
    ASSUME Base, UNCHANGED <<todo, submitted>>, stopping => stopping', QueueOK', OtherTypes'
    PROVE  Base'
<1>1. SdoTypeOK' BY DEF Base, QueueOK, OtherTypes, SdoTypeOK
<1>2. Known'
    <2>1. /\ \A u \in Threads : \A i \in DOMAIN todo'[u] : \A r \in Requests :
                Handles(todo'[u][i], r) => r \in submitted'
          /\ \A r \in Requests : r \notin submitted' => todo'[r] = <<>>
          /\ ~stopping' => todo'[Stopper] = <<>>
        BY DEF Base, Known
    <2> QED BY <2>1 DEF QueueOK, Known, Handles
<1>3. Planned' BY DEF Base, Planned, Plan
<1> QED BY <1>1, <1>2, <1>3 DEF Base

\* A thread that had nothing to do starts with a plan.
LEMMA BaseStart ==
    ASSUME Base, NEW t \in Threads, NEW s \in Seq(TaskSet), Plan(s), \A i \in DOMAIN s : Meant(s[i])',
           todo' = [todo EXCEPT ![t] = s], submitted \subseteq submitted',
           t \in Requests => t \in submitted', t = Stopper => stopping',
           stopping => stopping', QueueOK', OtherTypes'
    PROVE  Base'
<1>1. /\ todo' \in [Threads -> Seq(TaskSet)] /\ todo'[t] = s
      /\ \A u \in Threads : u # t => todo'[u] = todo[u]
    BY DEF Base, SdoTypeOK
<1>2. SdoTypeOK' BY <1>1 DEF Base, QueueOK, OtherTypes, SdoTypeOK
<1>3. \A u \in Threads : \A i \in DOMAIN todo'[u] : \A r \in Requests :
          Handles(todo'[u][i], r) => r \in submitted'
    <2> SUFFICES ASSUME NEW u \in Threads, NEW i \in DOMAIN todo'[u], NEW r \in Requests,
                        Handles(todo'[u][i], r)
                 PROVE  r \in submitted'
        OBVIOUS
    <2>1. CASE u = t BY <1>1, <2>1 DEF Meant, Handles
    <2>2. CASE u # t BY <1>1, <2>2 DEF Base, Known
    <2> QED BY <2>1, <2>2
<1>4. \A r \in Requests : r \notin submitted' => todo'[r] = <<>>
    BY <1>1, Names DEF Base, Known
<1>5. ~stopping' => todo'[Stopper] = <<>> BY <1>1, Names DEF Base, Known
<1>6. Known' BY <1>3, <1>4, <1>5 DEF QueueOK, Known, Handles
<1>7. \A u \in Threads : Plan(todo'[u]) BY <1>1 DEF Base, Planned
<1>8. Planned' BY <1>7 DEF Planned, Plan
<1> QED BY <1>2, <1>6, <1>8 DEF Base

\* What is not changed stays as it was.
LEMMA Idle ==
    ASSUME Base
    PROVE  /\ UNCHANGED <<queue, submitted>> => QueueOK'
           /\ UNCHANGED <<active, late>> /\ completed' \subseteq submitted' /\ submitted \subseteq submitted'
                /\ submitted' \subseteq Requests
                /\ UNCHANGED <<eventVars, busVars, stopVars>>
                => OtherTypes'
BY BaseSplit DEF QueueOK, OtherTypes, eventVars, busVars, stopVars

\* To finish with a request that was made is for requests that were made.
LEMMA MeantFinish ==
    ASSUME Base, NEW r \in submitted, NEW raw \in Seq(TaskSet), \A i \in DOMAIN raw : raw[i] = Emit,
           NEW out \in Outcome, NEW s, s = <<Pop(r), Complete(r, out), Activate(NodeOf[r])>> \o raw
    PROVE  s \in Seq(TaskSet) /\ Plan(s) /\ \A i \in DOMAIN s : Meant(s[i])
<1>1. r \in Requests BY BaseSplit DEF OtherTypes
<1>2. /\ s \in Seq(TaskSet) /\ Len(s) = 3 + Len(raw) /\ DOMAIN s = 1..(3 + Len(raw))
      /\ s[1] = Pop(r) /\ s[2] = Complete(r, out) /\ s[3] = Activate(NodeOf[r])
      /\ \A i \in 4..(3 + Len(raw)) : s[i] = Emit
      /\ Plan(s)
    <2> DEFINE w == <<Pop(r), Complete(r, out), Activate(NodeOf[r])>> \o raw
    <2>1. /\ w \in Seq(TaskSet) /\ Len(w) = 3 + Len(raw) /\ DOMAIN w = 1..(3 + Len(raw))
          /\ w[1] = Pop(r) /\ w[2] = Complete(r, out) /\ w[3] = Activate(NodeOf[r])
          /\ \A i \in 4..(3 + Len(raw)) : w[i] = Emit
          /\ Plan(w)
        BY <1>1, PlanFinish, Zenon
    <2>2. s = w OBVIOUS
    <2> QED BY <2>1, <2>2
<1>3. Meant(Pop(r)) /\ Meant(Complete(r, out)) /\ Meant(Activate(NodeOf[r])) /\ Meant(Emit)
    BY DEF Meant, Handles, Pop, Complete, Activate, Emit
<1>4. \A i \in DOMAIN s : i = 1 \/ i = 2 \/ i = 3 \/ i \in 4..(3 + Len(raw))
    BY <1>2
<1> QED BY <1>2, <1>3, <1>4

\* To finish with a request that failed: the three steps.
LEMMA MeantFailed ==
    ASSUME Base, NEW r \in submitted
    PROVE  /\ Failed(r) \in Seq(TaskSet) /\ Plan(Failed(r))
           /\ \A i \in DOMAIN Failed(r) : Meant(Failed(r)[i])
           /\ Len(Failed(r)) = 3 /\ DOMAIN Failed(r) = 1..3
           /\ Failed(r)[1] = Pop(r) /\ Failed(r)[2] = Complete(r, Failure)
           /\ Failed(r)[3] = Activate(NodeOf[r])
<1>1. <<>> \in Seq(TaskSet) /\ \A i \in DOMAIN <<>> : <<>>[i] = Emit BY PlanNone
<1>2. Failed(r) = <<Pop(r), Complete(r, Failure), Activate(NodeOf[r])>> \o <<>>
    BY DEF Failed
<1>3. Len(Failed(r)) = 3 /\ DOMAIN Failed(r) = 1..3
      /\ Failed(r)[1] = Pop(r) /\ Failed(r)[2] = Complete(r, Failure)
      /\ Failed(r)[3] = Activate(NodeOf[r])
    BY DEF Failed
<1> QED BY <1>1, <1>2, <1>3, MeantFinish, Outcomes

\* One step for a request that was made.
LEMMA MeantOne ==
    ASSUME NEW k \in TaskSet, k.do # "pop_sdo", Meant(k)
    PROVE  /\ <<k>> \in Seq(TaskSet) /\ Plan(<<k>>) /\ \A i \in DOMAIN <<k>> : Meant(<<k>>[i])
           /\ <<k>> # <<>> /\ <<k>>[1] = k /\ DOMAIN <<k>> = {1}
<1>1. <<k>> \in Seq(TaskSet) /\ Len(<<k>>) = 1 /\ <<k>>[1] = k /\ DOMAIN <<k>> = {1} /\ Plan(<<k>>)
    BY PlanOne
<1>2. \A i \in DOMAIN <<k>> : <<k>>[i] = k BY <1>1
<1>3. <<k>> # <<>> OBVIOUS
<1> QED BY <1>1, <1>2, <1>3

\* No step at all.
LEMMA MeantNone ==
    <<>> \in Seq(TaskSet) /\ Plan(<<>>) /\ \A i \in DOMAIN <<>> : Meant(<<>>[i])
BY PlanNone

\* The first request of a queue was made and is for that node.
LEMMA FirstInQueue ==
    ASSUME Base, NEW n \in Nodes, queue[n] # <<>>
    PROVE  /\ queue[n] \in Seq(Requests) /\ 1 \in DOMAIN queue[n] /\ Head(queue[n]) = queue[n][1]
           /\ DOMAIN queue[n] = 1..Len(queue[n]) /\ Len(queue[n]) \in Nat /\ Len(queue[n]) >= 1
           /\ Head(queue[n]) \in submitted /\ Head(queue[n]) \in Requests /\ NodeOf[Head(queue[n])] = n
           /\ Tail(queue[n]) \in Seq(Requests) /\ Len(Tail(queue[n])) = Len(queue[n]) - 1
           /\ DOMAIN Tail(queue[n]) = 1..(Len(queue[n]) - 1)
           /\ \A i \in 1..(Len(queue[n]) - 1) : Tail(queue[n])[i] = queue[n][i + 1]
<1>1. queue[n] \in Seq(Requests) BY DEF Base, SdoTypeOK
<1>2. 1 \in DOMAIN queue[n] /\ Head(queue[n]) = queue[n][1] BY <1>1
<1>3. queue[n][1] \in submitted /\ NodeOf[queue[n][1]] = n /\ queue[n][1] \in Requests
    BY <1>1, <1>2 DEF Base, Known
<1>4. DOMAIN queue[n] = 1..Len(queue[n]) /\ Len(queue[n]) \in Nat /\ Len(queue[n]) >= 1
    BY <1>1
<1>5. /\ Tail(queue[n]) \in Seq(Requests) /\ Len(Tail(queue[n])) = Len(queue[n]) - 1
      /\ DOMAIN Tail(queue[n]) = 1..(Len(queue[n]) - 1)
      /\ \A i \in 1..(Len(queue[n]) - 1) : Tail(queue[n])[i] = queue[n][i + 1]
    BY <1>1
<1> QED BY <1>1, <1>2, <1>3, <1>4, <1>5

\* The request of the task at hand was made.
LEMMA HeadKnown ==
    ASSUME Base, NEW t \in Threads, NEW kind, NextTask(t, kind),
           kind \in {"send_frame", "transport_send", "pop_sdo", "complete_sdo", "enqueue_event"}
    PROVE  Head(todo[t]).request \in submitted /\ Head(todo[t]).request \in Requests
<1>1. SdoTypeOK BY DEF Base
<1>2. /\ todo[t] # <<>> /\ 1 \in DOMAIN todo[t] /\ Head(todo[t]) = todo[t][1] /\ todo[t][1] \in TaskSet
      /\ todo[t][1].do = kind
    BY <1>1, HeadTask
<1>3. todo[t][1].request \in Requests BY <1>2, TaskParts
<1>4. Handles(todo[t][1], todo[t][1].request) BY <1>2 DEF Handles
<1> QED BY <1>2, <1>3, <1>4 DEF Base, Known

\* Action by action: Base is kept when a node goes on,
LEMMA BaseActivateNext ==
    ASSUME Base, NEW t \in Threads, ActivateNext(t)
    PROVE  Base'
<1>1. todo[t] # <<>> /\ Head(todo[t]).do = "activate_next_sdo" /\ SdoTypeOK
    BY DEF ActivateNext, NextTask, Base
<1> DEFINE n == Head(todo[t]).node
<1>2. n \in Nodes BY <1>1, HeadTask, TaskParts DEF NextTask
<1>3. UNCHANGED <<queue, late, completed, eventVars, busVars, submitted, stopVars>> BY DEF ActivateNext
<1>4. QueueOK' BY <1>3, Idle
<1>5. CASE Waiting(n)
    <2> DEFINE r == Head(queue[n])
    <2>1. r \in submitted /\ r \in Requests BY <1>2, <1>5, FirstInQueue DEF Waiting
    <2>2. active' = active \cup {r} /\ Then(t, <<Check(r)>>) BY <1>5 DEF ActivateNext
    <2>3. Check(r) \in TaskSet /\ Check(r).do # "pop_sdo" /\ Meant(Check(r))
        BY <2>1, TasksMade DEF Meant, Handles, Check
    <2>4. OtherTypes' BY <1>3, <2>1, <2>2, BaseSplit DEF OtherTypes, eventVars, busVars, stopVars
    <2> HIDE DEF r
    <2>5. UNCHANGED <<submitted, stopping>> BY <1>3 DEF stopVars
    <2> QED BY <1>1, <1>4, <2>2, <2>3, <2>4, <2>5, MeantOne, BaseTask
<1>6. CASE ~Waiting(n)
    <2>1. active' = active /\ Then(t, <<>>) BY <1>6 DEF ActivateNext
    <2>2. OtherTypes' BY <1>3, <2>1, BaseSplit DEF OtherTypes, eventVars, busVars, stopVars
    <2>5. UNCHANGED <<submitted, stopping>> BY <1>3 DEF stopVars
    <2> QED BY <1>1, <1>4, <2>1, <2>2, <2>5, MeantNone, BaseTask
<1> QED BY <1>5, <1>6

\* when a frame is about to be sent,
LEMMA BaseSendFrame ==
    ASSUME Base, NEW t \in Threads, SendFrame(t)
    PROVE  Base'
<1>1. NextTask(t, "send_frame") BY DEF SendFrame
<1> DEFINE r == Head(todo[t]).request
<1>2. r \in submitted /\ r \in Requests /\ todo[t] # <<>> BY <1>1, HeadKnown DEF NextTask
<1>3. UNCHANGED <<queueVars, completed, eventVars, busVars, submitted, stopVars>> BY DEF SendFrame
<1>4. UNCHANGED <<queue, active, late, submitted, stopping>> BY <1>3 DEF queueVars, stopVars
<1>5. QueueOK' /\ OtherTypes'
    BY <1>3, <1>4, BaseSplit, Idle DEF OtherTypes
<1>6. CASE stopping
    <2>1. Then(t, Failed(r)) BY <1>6 DEF SendFrame
    <2> HIDE DEF r
    <2> QED BY <1>2, <1>4, <1>5, <2>1, MeantFailed, BaseTask
<1>7. CASE ~stopping
    <2>1. Then(t, <<Transmit(r)>>) BY <1>7 DEF SendFrame
    <2> HIDE DEF r
    <2>2. Transmit(r) \in TaskSet /\ Transmit(r).do # "pop_sdo" /\ Meant(Transmit(r))
        BY <1>2, TasksMade DEF Meant, Handles, Transmit
    <2> QED BY <1>2, <1>4, <1>5, <2>1, <2>2, MeantOne, BaseTask
<1> QED BY <1>6, <1>7

\* when the transport is called,
LEMMA BaseTransportSend ==
    ASSUME Base, NEW t \in Threads, TransportSend(t)
    PROVE  Base'
<1>1. NextTask(t, "transport_send") BY DEF TransportSend
<1> DEFINE r == Head(todo[t]).request
<1>2. r \in submitted /\ r \in Requests /\ todo[t] # <<>> BY <1>1, HeadKnown DEF NextTask
<1>3. UNCHANGED <<queueVars, completed, eventVars, receive, submitted, stopVars>> BY DEF TransportSend
<1>4. UNCHANGED <<queue, active, late, submitted, stopping>> BY <1>3 DEF queueVars, stopVars
<1>5. QueueOK' BY <1>4, Idle
<1>6. CASE Then(t, <<>>) /\ bus' = [bus EXCEPT ![NodeOf[r]] = Append(@, r)]
    <2>1. bus' \in [Nodes -> Seq(Requests)] BY <1>2, <1>6, NodesOf DEF Base, SdoTypeOK
    <2>2. OtherTypes' BY <1>3, <1>4, <2>1, BaseSplit DEF OtherTypes, eventVars, stopVars
    <2> QED BY <1>2, <1>4, <1>5, <1>6, <2>2, MeantNone, BaseTask
<1>7. CASE Then(t, Failed(r)) /\ UNCHANGED bus
    <2>1. OtherTypes' BY <1>3, <1>4, <1>7, BaseSplit DEF OtherTypes, eventVars, stopVars
    <2> HIDE DEF r
    <2> QED BY <1>2, <1>4, <1>5, <1>7, <2>1, MeantFailed, BaseTask
<1> QED BY <1>6, <1>7 DEF TransportSend

\* when a request is taken out,
LEMMA BasePopSdo ==
    ASSUME Base, NEW t \in Threads, PopSdo(t)
    PROVE  Base'
<1>1. NextTask(t, "pop_sdo") BY DEF PopSdo
<1> DEFINE r == Head(todo[t]).request
           n == NodeOf[r]
<1>2. r \in submitted /\ r \in Requests /\ todo[t] # <<>> BY <1>1, HeadKnown DEF NextTask
<1>3. /\ UNCHANGED <<active, late, completed, eventVars, busVars, submitted, stopVars>> /\ Then(t, <<>>)
      /\ queue' = [queue EXCEPT ![n] = IF HeadIs(n, r) THEN Tail(@) ELSE @]
    BY DEF PopSdo
<1>4. UNCHANGED <<submitted, stopping>> /\ n \in Nodes BY <1>2, <1>3, NodesOf DEF stopVars
<1>5. OtherTypes' BY <1>3, BaseSplit, Idle DEF OtherTypes
<1> HIDE DEF r, n
<1>6. QueueOK'
    <2>1. queue \in [Nodes -> Seq(Requests)] BY DEF Base, SdoTypeOK
    <2>2. CASE HeadIs(n, r)
        <3>1. queue' \in [Nodes -> Seq(Requests)] /\ queue'[n] = Tail(queue[n])
              /\ \A m \in Nodes : m # n => queue'[m] = queue[m]
            BY <1>3, <1>4, <2>1, <2>2 DEF HeadIs
        <3>2. \A i \in DOMAIN queue'[n] : \E j \in DOMAIN queue[n] : queue'[n][i] = queue[n][j]
            <4>1. queue[n] # <<>> BY <2>2 DEF HeadIs
            <4>2. \A i \in 1..(Len(queue[n]) - 1) : i + 1 \in 1..Len(queue[n])
                BY <1>4, <4>1, FirstInQueue
            <4> QED BY <1>4, <3>1, <4>1, <4>2, FirstInQueue
        <3>3. \A m \in Nodes : \A i \in DOMAIN queue'[m] :
                  queue'[m][i] \in submitted /\ NodeOf[queue'[m][i]] = m
            <4>1. \A m \in Nodes : \A i \in DOMAIN queue[m] :
                      queue[m][i] \in submitted /\ NodeOf[queue[m][i]] = m
                BY DEF Base, Known
            <4>2. \A i \in DOMAIN queue'[n] : queue'[n][i] \in submitted /\ NodeOf[queue'[n][i]] = n
                BY <1>4, <3>2, <4>1
            <4> QED BY <3>1, <4>1, <4>2
        <3> QED BY <1>4, <3>1, <3>3 DEF QueueOK
    <2>3. CASE ~HeadIs(n, r)
        <3>1. queue' = queue BY <1>3, <1>4, <2>1, <2>3
        <3> QED BY <1>4, <3>1, Idle
    <2> QED BY <2>2, <2>3
<1> QED BY <1>2, <1>3, <1>4, <1>5, <1>6, MeantNone, BaseTask

\* when a request is completed,
LEMMA BaseCompleteSdo ==
    ASSUME Base, NEW t \in Threads, CompleteSdo(t)
    PROVE  Base'
<1>1. NextTask(t, "complete_sdo") BY DEF CompleteSdo
<1> DEFINE task == Head(todo[t])
           r == task.request
<1>2. r \in submitted /\ r \in Requests /\ todo[t] # <<>> BY <1>1, HeadKnown DEF NextTask
<1>3. UNCHANGED <<queueVars, eventVars, busVars, submitted, stopVars>> BY DEF CompleteSdo
<1>4. UNCHANGED <<queue, active, late, submitted, stopping>> BY <1>3 DEF queueVars, stopVars
<1>5. task.outcome \in Outcome BY <1>1, HeadTask, TaskParts DEF Base, NextTask
<1>6. completed' \subseteq submitted' BY <1>2, <1>4, BaseSplit DEF CompleteSdo, OtherTypes
<1>7. QueueOK' /\ OtherTypes' BY <1>3, <1>4, <1>6, BaseSplit, Idle DEF OtherTypes
<1>8. CASE r \in completed
    <2>1. Then(t, <<>>) BY <1>8 DEF CompleteSdo
    <2> QED BY <1>2, <1>4, <1>7, <2>1, MeantNone, BaseTask
<1>9. CASE r \notin completed
    <2>1. Then(t, <<Post(r, task.outcome)>>) BY <1>9 DEF CompleteSdo
    <2>2. /\ Post(r, task.outcome) \in TaskSet /\ Post(r, task.outcome).do # "pop_sdo"
          /\ Meant(Post(r, task.outcome))
        BY <1>2, <1>5, TasksMade DEF Meant, Handles, Post
    <2> HIDE DEF r, task
    <2> QED BY <1>2, <1>4, <1>7, <2>1, <2>2, MeantOne, BaseTask
<1> QED BY <1>8, <1>9

\* What is queued for the event thread are jobs.
LEMMA QueuedTyped ==
    ASSUME events \in Seq(Jobs), NEW job \in Jobs
    PROVE  Queued(job) \in Seq(Jobs)
<1>1. \A i \in 1..Len(events) : RemoveAt(events, i) \in Seq(Jobs) BY Removed
<1>2. \A s \in Seq(Jobs) : Append(s, job) \in Seq(Jobs) OBVIOUS
<1> QED BY <1>1, <1>2, QueuedJobs

\* A completion that is called leaves its count and its result.
LEMMA RunTyped ==
    ASSUME OtherTypes, NEW job \in Jobs, job.critical, Run(job)
    PROVE  ran' \in [Requests -> Nat] /\ result' \in [Requests -> Outcome \cup {Unanswered}]
<1>1. job.request \in Requests /\ job.outcome \in Outcome BY JobParts
<1> QED BY <1>1 DEF Run, OtherTypes

\* The job that a thread is about to post.
LEMMA PostedJob ==
    ASSUME Base, NEW t \in Threads, NextTask(t, "enqueue_event")
    PROVE  /\ Head(todo[t]).request \in Requests /\ Head(todo[t]).outcome \in Outcome
           /\ Completion(Head(todo[t]).request, Head(todo[t]).outcome) \in Jobs
           /\ Completion(Head(todo[t]).request, Head(todo[t]).outcome).critical
           /\ Completion(Head(todo[t]).request, Head(todo[t]).outcome).request = Head(todo[t]).request
           /\ Completion(Head(todo[t]).request, Head(todo[t]).outcome).outcome = Head(todo[t]).outcome
<1>1. SdoTypeOK BY DEF Base
<1>2. Head(todo[t]) \in TaskSet /\ Head(todo[t]).do = "enqueue_event" BY <1>1, HeadTask
<1>3. Head(todo[t]).request \in Requests /\ Head(todo[t]).outcome \in Outcome BY <1>2, TaskParts
<1> QED BY <1>3, JobsMade

\* when a completion is queued or, after the event thread, called,
LEMMA BasePostEvent ==
    ASSUME Base, NEW t \in Threads, PostEvent(t)
    PROVE  Base'
<1>1. NextTask(t, "enqueue_event") /\ todo[t] # <<>> BY DEF PostEvent, NextTask
<1> DEFINE job == Completion(Head(todo[t]).request, Head(todo[t]).outcome)
<1>2. job \in Jobs /\ job.critical BY <1>1, PostedJob
<1>3. UNCHANGED <<queueVars, completed, busVars, submitted, stopVars>> /\ Then(t, <<>>)
    BY DEF PostEvent
<1>4. UNCHANGED <<queue, active, late, submitted, stopping>> BY <1>3 DEF queueVars, stopVars
<1>5. QueueOK' /\ OtherTypes BY <1>4, Idle, BaseSplit
<1>6. CASE eventStopping
    <2>1. Run(job) /\ UNCHANGED events BY <1>6 DEF PostEvent
    <2>2. OtherTypes' BY <1>2, <1>3, <1>4, <1>5, <2>1, RunTyped DEF OtherTypes, busVars, stopVars
    <2> QED BY <1>1, <1>3, <1>4, <1>5, <2>2, MeantNone, BaseTask
<1>7. CASE ~eventStopping
    <2>1. events' = Queued(job) /\ UNCHANGED <<ran, result>> BY <1>7 DEF PostEvent
    <2>2. events' \in Seq(Jobs) BY <1>2, <1>5, <2>1, QueuedTyped DEF OtherTypes
    <2>3. OtherTypes' BY <1>3, <1>4, <1>5, <2>1, <2>2 DEF OtherTypes, busVars, stopVars
    <2> QED BY <1>1, <1>3, <1>4, <1>5, <2>3, MeantNone, BaseTask
<1> QED BY <1>6, <1>7

\* when an observer is told of a frame,
LEMMA BaseEmitRaw ==
    ASSUME Base, NEW t \in Threads, EmitRaw(t)
    PROVE  Base'
<1>1. todo[t] # <<>> BY DEF EmitRaw, NextTask
<1>3. UNCHANGED <<queueVars, completed, ran, result, busVars, submitted, stopVars>> /\ Then(t, <<>>)
    BY DEF EmitRaw
<1>4. UNCHANGED <<queue, active, late, submitted, stopping>> BY <1>3 DEF queueVars, stopVars
<1>5. QueueOK' /\ OtherTypes BY <1>4, Idle, BaseSplit
<1>6. events' \in Seq(Jobs) BY <1>5, QueuedTyped, JobsMade DEF EmitRaw, OtherTypes
<1>7. OtherTypes' BY <1>3, <1>4, <1>5, <1>6 DEF OtherTypes, busVars, stopVars
<1> QED BY <1>1, <1>3, <1>4, <1>5, <1>7, MeantNone, BaseTask

\* A task that changes nothing but what is left to do and which threads run.
LEMMA BaseOnlyTodo ==
    ASSUME Base, NEW t \in Threads, todo[t] # <<>>, Then(t, <<>>), UNCHANGED queueVars,
           UNCHANGED <<completed, eventVars, busVars, submitted, stopping>>,
           eventStopping' \in BOOLEAN, running' \subseteq running
    PROVE  Base'
<1>1. UNCHANGED <<queue, active, late>> BY DEF queueVars
<1>2. QueueOK' BY <1>1, Idle
<1>3. OtherTypes' BY <1>1, BaseSplit DEF OtherTypes, eventVars, busVars
<1> QED BY <1>2, <1>3, MeantNone, BaseTask

\* when stop() ends the event thread and joins it,
LEMMA BaseStops ==
    ASSUME Base, NEW t \in Threads, StopEndsEvents(t) \/ StopJoins(t)
    PROVE  Base'
<1>1. CASE StopEndsEvents(t) BY <1>1, BaseOnlyTodo DEF StopEndsEvents, NextTask
<1>2. CASE StopJoins(t)
    <2>1. eventStopping' = eventStopping /\ running' = running /\ stopping' = stopping
        BY <1>2 DEF StopJoins, stopVars
    <2> QED BY <1>2, <2>1, BaseOnlyTodo, BaseSplit DEF StopJoins, NextTask, OtherTypes
<1> QED BY <1>1, <1>2

\* What the protocol thread has to do after it has waited for frames.
FrameTasks == [i \in 1..Len(receive) |-> Process(receive[i])] \o <<Timeouts>>

\* One step for every frame, then one for the deadlines.
LEMMA FramesToProcess ==
    ASSUME receive \in Seq(Requests)
    PROVE  /\ FrameTasks \in Seq(TaskSet) /\ DOMAIN FrameTasks = 1..(Len(receive) + 1)
           /\ Len(receive) \in Nat
           /\ \A i \in 1..Len(receive) : FrameTasks[i] = Process(receive[i]) /\ receive[i] \in Requests
           /\ FrameTasks[Len(receive) + 1] = Timeouts
           /\ \A i \in DOMAIN FrameTasks : FrameTasks[i].do \in {"process_sdo", "check_sdo_timeouts"}
<1> DEFINE a == [i \in 1..Len(receive) |-> Process(receive[i])]
<1>1. Len(receive) \in Nat /\ \A i \in 1..Len(receive) : receive[i] \in Requests OBVIOUS
<1>2. \A i \in 1..Len(receive) : Process(receive[i]) \in TaskSet BY <1>1, TasksMade
<1>3. a \in Seq(TaskSet) /\ Len(a) = Len(receive) BY <1>1, <1>2
<1>4. \A i \in 1..Len(receive) : a[i] = Process(receive[i]) OBVIOUS
<1>5. FrameTasks = a \o <<Timeouts>> /\ Timeouts \in TaskSet BY TasksMade DEF FrameTasks
<1> HIDE DEF a
<1>6. /\ FrameTasks \in Seq(TaskSet) /\ DOMAIN FrameTasks = 1..(Len(receive) + 1)
      /\ FrameTasks[Len(receive) + 1] = Timeouts
    <2> DEFINE b == <<Timeouts>>
    <2>1. b \in Seq(TaskSet) /\ Len(b) = 1 /\ b[1] = Timeouts /\ FrameTasks = a \o b BY <1>5
    <2> HIDE DEF b
    <2>2. 1 \in 1..Len(b) BY <2>1
    <2>a. a \in Seq(TaskSet) /\ b \in Seq(TaskSet) BY <1>3, <2>1
    <2>3. /\ a \o b \in Seq(TaskSet) /\ DOMAIN (a \o b) = 1..(Len(a) + Len(b))
          /\ \A i \in 1..Len(b) : (a \o b)[Len(a) + i] = b[i]
        BY <2>a, Joined
    <2> QED BY <1>3, <2>1, <2>2, <2>3
<1>7. \A i \in 1..Len(receive) : FrameTasks[i] = Process(receive[i]) BY <1>1, <1>3, <1>4, <1>5
<1>8. \A i \in DOMAIN FrameTasks : i \in 1..Len(receive) \/ i = Len(receive) + 1 BY <1>1, <1>6
<1>9. (\A q \in Requests : Process(q).do = "process_sdo") /\ Timeouts.do = "check_sdo_timeouts"
    BY DEF Process, Timeouts
<1> QED BY <1>1, <1>6, <1>7, <1>8, <1>9

\* A step that is about no request.
LEMMA MeantSimple ==
    ASSUME NEW k, k.do \in {"activate_next_sdo", "emit_raw", "wait_for", "process_sdo",
                            "check_sdo_timeouts", "cancel", "event_stopping_", "join"}
    PROVE  Meant(k)
BY DEF Meant, Handles

\* when frames are taken over,
LEMMA BaseTakeFrames ==
    ASSUME Base, NEW t \in Threads, TakeFrames(t)
    PROVE  Base'
<1>1. todo[t] # <<>> BY DEF TakeFrames, NextTask
<1>2. receive \in Seq(Requests) BY BaseSplit DEF OtherTypes
<1>3. Then(t, FrameTasks) /\ receive' = <<>>
      /\ UNCHANGED <<queueVars, completed, eventVars, bus, submitted, stopVars>>
    BY DEF TakeFrames, FrameTasks
<1>4. UNCHANGED <<queue, active, late, submitted, stopping>> BY <1>3 DEF queueVars, stopVars
<1>5. QueueOK' /\ OtherTypes' BY <1>3, <1>4, BaseSplit, Idle DEF OtherTypes, eventVars, stopVars
<1>6. FrameTasks \in Seq(TaskSet) /\ Plan(FrameTasks) BY <1>2, FramesToProcess, PlanSimple
<1>7. \A i \in DOMAIN FrameTasks : Meant(FrameTasks[i]) BY <1>2, FramesToProcess, MeantSimple
<1> HIDE DEF FrameTasks
<1> QED BY <1>1, <1>3, <1>4, <1>5, <1>6, <1>7, BaseTask

\* An answer is matched with the request in service at its node.
LEMMA Matched ==
    ASSUME Base, NEW answer \in Requests, NEW r \in Requests, Matches(answer, r)
    PROVE  /\ NodeOf[r] \in Nodes /\ queue[NodeOf[r]] # <<>> /\ Head(queue[NodeOf[r]]) = r
           /\ r \in submitted /\ r \in active /\ SameObject(answer, r)
BY FirstInQueue, NodesOf DEF Matches, HeadIs, SameObject

\* when an answer is matched or is not,
LEMMA BaseProcessSdo ==
    ASSUME Base, NEW t \in Threads, ProcessSdo(t)
    PROVE  Base'
<1>1. NextTask(t, "process_sdo") /\ todo[t] # <<>> /\ SdoTypeOK BY DEF ProcessSdo, NextTask, Base
<1> DEFINE answer == Head(todo[t]).answer
<1>2. answer \in Requests BY <1>1, HeadTask, TaskParts
<1>3. UNCHANGED <<queueVars, completed, eventVars, busVars, submitted, stopVars>> BY DEF ProcessSdo
<1>4. UNCHANGED <<queue, active, late, submitted, stopping>> BY <1>3 DEF queueVars, stopVars
<1>5. QueueOK' /\ OtherTypes' BY <1>3, <1>4, BaseSplit, Idle DEF OtherTypes
<1>6. CASE Then(t, Raw)
    <2>1. Plan(Raw) /\ \A i \in DOMAIN Raw : Meant(Raw[i])
        BY RawTasks, PlanSimple DEF Emit, Meant, Handles
    <2> QED BY <1>1, <1>4, <1>5, <1>6, <2>1, RawTasks, BaseTask
<1>7. ASSUME NEW r \in Requests, Matches(answer, r),
             Then(t, <<Pop(r), Complete(r, answer), Activate(NodeOf[r])>> \o Raw)
      PROVE  Base'
    <2>1. r \in submitted /\ answer \in Outcome BY <1>2, <1>7, Matched, Outcomes
    <2> DEFINE new == <<Pop(r), Complete(r, answer), Activate(NodeOf[r])>> \o Raw
    <2>2. new \in Seq(TaskSet) /\ Plan(new) /\ \A i \in DOMAIN new : Meant(new[i])
        BY <2>1, RawTasks, MeantFinish
    <2>3. Then(t, new) BY <1>7
    <2> HIDE DEF new
    <2> QED BY <1>1, <1>4, <1>5, <2>2, <2>3, BaseTask
<1> QED BY <1>6, <1>7 DEF ProcessSdo

\* The nodes whose first request timed out, and what is done about them.
ExpiredNodes == SetToSeq({n \in Nodes : Expired(n)})
TimeoutTasks ==
    [i \in DOMAIN ExpiredNodes |-> Complete(Head(queue[ExpiredNodes[i]]), Failure)]
    \o [i \in DOMAIN ExpiredNodes |-> Activate(ExpiredNodes[i])]

\* The nodes with an expired request are visited one after the other.
LEMMA NodesExpired ==
    /\ ExpiredNodes \in Seq(Nodes) /\ DOMAIN ExpiredNodes = 1..Len(ExpiredNodes)
    /\ Len(ExpiredNodes) \in Nat
    /\ \A i \in DOMAIN ExpiredNodes : ExpiredNodes[i] \in Nodes /\ Expired(ExpiredNodes[i])
    /\ \A n \in Nodes : Expired(n) => \E i \in DOMAIN ExpiredNodes : ExpiredNodes[i] = n
<1> DEFINE E == {n \in Nodes : Expired(n)}
<1>1. IsFiniteSet(E) BY RequestAssumption, FS_Subset
<1>2. ExpiredNodes \in SetToSeqs(E) BY <1>1, OneOrder DEF ExpiredNodes
<1>3. /\ ExpiredNodes \in Seq(E) /\ DOMAIN ExpiredNodes = 1..Len(ExpiredNodes)
      /\ \A n \in E : \E k \in DOMAIN ExpiredNodes : ExpiredNodes[k] = n
    <2> HIDE DEF E
    <2> QED BY <1>1, <1>2, OrderCovers
<1>4. Len(ExpiredNodes) \in Nat /\ \A i \in DOMAIN ExpiredNodes : ExpiredNodes[i] \in E BY <1>3
<1>5. ExpiredNodes \in Seq(Nodes) BY <1>3, <1>4
<1> QED BY <1>3, <1>4, <1>5

\* First every expired request is completed, then every such node goes on.
LEMMA TasksOfTimeouts ==
    ASSUME Base
    PROVE  /\ TimeoutTasks \in Seq(TaskSet)
           /\ DOMAIN TimeoutTasks = 1..(Len(ExpiredNodes) + Len(ExpiredNodes))
           /\ \A i \in 1..Len(ExpiredNodes) :
                 /\ TimeoutTasks[i] = Complete(Head(queue[ExpiredNodes[i]]), Failure)
                 /\ TimeoutTasks[Len(ExpiredNodes) + i] = Activate(ExpiredNodes[i])
           /\ \A j \in DOMAIN TimeoutTasks : \E i \in 1..Len(ExpiredNodes) :
                 \/ TimeoutTasks[j] = Complete(Head(queue[ExpiredNodes[i]]), Failure)
                 \/ TimeoutTasks[j] = Activate(ExpiredNodes[i])
           /\ \A i \in 1..Len(ExpiredNodes) : Head(queue[ExpiredNodes[i]]) \in submitted
<1> DEFINE nodes == ExpiredNodes
           L == Len(nodes)
           a == [i \in DOMAIN nodes |-> Complete(Head(queue[nodes[i]]), Failure)]
           b == [i \in DOMAIN nodes |-> Activate(nodes[i])]
<1>1. L \in Nat /\ DOMAIN nodes = 1..L
      /\ \A i \in 1..L : nodes[i] \in Nodes /\ queue[nodes[i]] # <<>>
    BY NodesExpired DEF Expired
<1>2. \A i \in 1..L : Head(queue[nodes[i]]) \in Requests /\ Head(queue[nodes[i]]) \in submitted
    BY <1>1, FirstInQueue
<1> HIDE DEF nodes, L
<1>3. \A i \in 1..L : Complete(Head(queue[nodes[i]]), Failure) \in TaskSet
    BY <1>2, TasksMade, Outcomes
<1>4. \A i \in 1..L : Activate(nodes[i]) \in TaskSet BY <1>1, TasksMade
<1>5. a \in Seq(TaskSet) /\ Len(a) = L
    <2>1. a \in [1..L -> TaskSet] BY <1>1, <1>3
    <2> QED BY <1>1, <2>1
<1>6. b \in Seq(TaskSet) /\ Len(b) = L
    <2>1. b \in [1..L -> TaskSet] BY <1>1, <1>4
    <2> QED BY <1>1, <2>1
<1>7. \A i \in 1..L : a[i] = Complete(Head(queue[nodes[i]]), Failure) /\ b[i] = Activate(nodes[i])
    BY <1>1
<1>8. TimeoutTasks = a \o b BY DEF TimeoutTasks, nodes
<1> HIDE DEF a, b
<1>9. TimeoutTasks \in Seq(TaskSet) /\ DOMAIN TimeoutTasks = 1..(L + L)
    BY <1>5, <1>6, <1>8, Joined
<1>10. \A i \in 1..L : TimeoutTasks[i] = a[i] /\ TimeoutTasks[L + i] = b[i]
    BY <1>5, <1>6, <1>8, Joined
<1>11. \A j \in 1..(L + L) : j \in 1..L \/ (j - L \in 1..L /\ L + (j - L) = j) BY <1>1
<1>12. \A j \in 1..(L + L) : \E i \in 1..L : TimeoutTasks[j] = a[i] \/ TimeoutTasks[j] = b[i]
    BY <1>10, <1>11
<1> QED BY <1>2, <1>7, <1>9, <1>10, <1>12 DEF nodes, L

\* when deadlines are looked at,
LEMMA BaseCheckTimeouts ==
    ASSUME Base, NEW t \in Threads, CheckTimeouts(t)
    PROVE  Base'
<1>1. todo[t] # <<>> BY DEF CheckTimeouts, NextTask
<1>2. /\ Then(t, TimeoutTasks)
      /\ queue' = [n \in Nodes |-> IF Expired(n) THEN Tail(queue[n]) ELSE queue[n]]
      /\ UNCHANGED <<active, late, completed, eventVars, busVars, submitted, stopVars>>
    BY DEF CheckTimeouts, TimeoutTasks, ExpiredNodes
<1>3. UNCHANGED <<submitted, stopping>> BY <1>2 DEF stopVars
<1>4. OtherTypes' BY <1>2, BaseSplit, Idle DEF OtherTypes
<1>5. QueueOK'
    <2>1. \A n \in Nodes : queue[n] \in Seq(Requests) BY DEF Base, SdoTypeOK
    <2>2. \A n \in Nodes : Expired(n) =>
              /\ queue'[n] \in Seq(Requests)
              /\ \A i \in DOMAIN queue'[n] : \E j \in DOMAIN queue[n] : queue'[n][i] = queue[n][j]
        <3> SUFFICES ASSUME NEW n \in Nodes, Expired(n)
                     PROVE  /\ queue'[n] \in Seq(Requests)
                            /\ \A i \in DOMAIN queue'[n] : \E j \in DOMAIN queue[n] :
                                  queue'[n][i] = queue[n][j]
            OBVIOUS
        <3>1. queue'[n] = Tail(queue[n]) /\ queue[n] # <<>> BY <1>2 DEF Expired
        <3>2. \A i \in 1..(Len(queue[n]) - 1) : i + 1 \in 1..Len(queue[n])
            BY <3>1, FirstInQueue
        <3> QED BY <3>1, <3>2, FirstInQueue
    <2>3. \A n \in Nodes : ~Expired(n) => queue'[n] = queue[n] BY <1>2
    <2>4. \A n \in Nodes : \A i \in DOMAIN queue[n] :
              queue[n][i] \in submitted /\ NodeOf[queue[n][i]] = n
        BY DEF Base, Known
    <2>5. \A n \in Nodes : \A i \in DOMAIN queue'[n] :
              queue'[n][i] \in submitted' /\ NodeOf[queue'[n][i]] = n
        BY <1>3, <2>2, <2>3, <2>4
    <2>6. queue' \in [Nodes -> Seq(Requests)] BY <1>2, <2>1, <2>2, <2>3
    <2> QED BY <2>5, <2>6 DEF QueueOK
<1>6. /\ \A r \in Requests : Complete(r, Failure).do = "complete_sdo" /\ Complete(r, Failure).request = r
      /\ \A n \in Nodes : Activate(n).do = "activate_next_sdo"
    BY DEF Complete, Activate
<1>7. \A i \in 1..Len(ExpiredNodes) :
          /\ Head(queue[ExpiredNodes[i]]) \in submitted /\ Head(queue[ExpiredNodes[i]]) \in Requests
          /\ ExpiredNodes[i] \in Nodes
    BY TasksOfTimeouts, NodesExpired, BaseSplit DEF OtherTypes
<1>8. \A j \in DOMAIN TimeoutTasks : TimeoutTasks[j].do \notin {"enqueue_event", "pop_sdo"}
    BY <1>6, <1>7, TasksOfTimeouts
<1>9. ASSUME NEW j \in DOMAIN TimeoutTasks PROVE Meant(TimeoutTasks[j])
    <2>1. PICK i \in 1..Len(ExpiredNodes) :
              \/ TimeoutTasks[j] = Complete(Head(queue[ExpiredNodes[i]]), Failure)
              \/ TimeoutTasks[j] = Activate(ExpiredNodes[i])
        BY TasksOfTimeouts
    <2>2. Meant(Activate(ExpiredNodes[i])) BY DEF Meant, Handles, Activate
    <2>3. Meant(Complete(Head(queue[ExpiredNodes[i]]), Failure)) BY <1>7 DEF Meant, Handles, Complete
    <2> QED BY <2>1, <2>2, <2>3
<1>10. TimeoutTasks \in Seq(TaskSet) /\ Plan(TimeoutTasks) BY <1>8, TasksOfTimeouts, PlanSimple
<1> QED BY <1>1, <1>2, <1>3, <1>4, <1>5, <1>9, <1>10, BaseTask

\* when the protocol thread goes round,
LEMMA BaseProtocolLoop ==
    ASSUME Base, ProtocolLoop
    PROVE  Base'
<1>1. UNCHANGED <<queueVars, completed, eventVars, busVars, submitted, stopping, eventStopping>>
    BY DEF ProtocolLoop
<1>2. UNCHANGED <<queue, active, late, submitted, stopping>> BY <1>1 DEF queueVars
<1>3. QueueOK' BY <1>2, Idle
<1>4. running' \subseteq running BY DEF ProtocolLoop
<1>5. OtherTypes' BY <1>1, <1>2, <1>4, BaseSplit DEF OtherTypes, eventVars, busVars
<1>6. CASE stopping
    <2>1. todo' = todo BY <1>6 DEF ProtocolLoop
    <2> QED BY <1>2, <1>3, <1>5, <2>1, BaseRest
<1>7. CASE ~stopping
    <2>1. todo' = [todo EXCEPT ![Protocol] = <<Receive>>] BY <1>7 DEF ProtocolLoop
    <2>2. Receive \in TaskSet /\ Receive.do # "pop_sdo" BY TasksMade DEF Receive
    <2>3. <<Receive>> \in Seq(TaskSet) /\ Plan(<<Receive>>) /\ \A i \in DOMAIN <<Receive>> : <<Receive>>[i] = Receive
        BY <2>2, PlanOne
    <2>4. Meant(Receive)' BY DEF Receive, Meant, Handles
    <2>5. \A i \in DOMAIN <<Receive>> : Meant(<<Receive>>[i])' BY <2>3, <2>4 DEF Meant
    <2> QED BY <1>2, <1>3, <1>5, <2>1, <2>3, <2>5, Names, BaseStart
<1> QED BY <1>6, <1>7

\* when the event thread takes a job,
LEMMA BaseEventLoop ==
    ASSUME Base, EventLoop
    PROVE  Base'
<1>1. UNCHANGED <<queueVars, completed, busVars, todo, submitted, stopping, eventStopping>>
    BY DEF EventLoop
<1>2. UNCHANGED <<queue, active, late, submitted, stopping>> BY <1>1 DEF queueVars
<1>3. QueueOK' /\ OtherTypes BY <1>2, Idle, BaseSplit
<1>4. events' \in Seq(Jobs) /\ running' \subseteq running
      /\ ran' \in [Requests -> Nat] /\ result' \in [Requests -> Outcome \cup {Unanswered}]
    <2>1. CASE events # <<>> /\ events' = Tail(events) /\ running' = running
               /\ IF Head(events).critical THEN Run(Head(events)) ELSE UNCHANGED <<ran, result>>
        <3>1. Head(events) \in Jobs /\ Tail(events) \in Seq(Jobs) BY <1>3, <2>1 DEF OtherTypes
        <3> QED BY <1>3, <2>1, <3>1, RunTyped DEF OtherTypes
    <2>2. CASE UNCHANGED eventVars /\ running' = running \ {EventThread}
        BY <1>3, <2>2 DEF OtherTypes, eventVars
    <2> QED BY <2>1, <2>2 DEF EventLoop
<1>5. OtherTypes' BY <1>1, <1>2, <1>3, <1>4 DEF OtherTypes, busVars
<1> QED BY <1>1, <1>2, <1>3, <1>5, BaseRest

\* What stop() does.
StopTasks == <<CancelAll, StopEvents, JoinEvents>>
\* None of that is about a request.
LEMMA TasksOfStop ==
    /\ StopTasks \in Seq(TaskSet) /\ StopTasks # <<>> /\ DOMAIN StopTasks = 1..3
    /\ \A i \in DOMAIN StopTasks : StopTasks[i].do \in {"cancel", "event_stopping_", "join"}
<1>1. CancelAll \in TaskSet /\ StopEvents \in TaskSet /\ JoinEvents \in TaskSet BY TasksMade
<1>2. /\ StopTasks \in Seq(TaskSet) /\ DOMAIN StopTasks = 1..3 /\ StopTasks # <<>>
      /\ StopTasks[1] = CancelAll /\ StopTasks[2] = StopEvents /\ StopTasks[3] = JoinEvents
    BY <1>1 DEF StopTasks
<1>3. \A i \in DOMAIN StopTasks : i = 1 \/ i = 2 \/ i = 3 BY <1>2
<1> QED BY <1>2, <1>3 DEF CancelAll, StopEvents, JoinEvents

\* when stop() begins,
LEMMA BaseStopBegin ==
    ASSUME Base, StopBegin
    PROVE  Base'
<1>1. /\ todo' = [todo EXCEPT ![Stopper] = StopTasks] /\ stopping' = TRUE
      /\ UNCHANGED <<queueVars, completed, eventVars, busVars, submitted, eventStopping, running>>
    BY DEF StopBegin, StopTasks
<1>2. UNCHANGED <<queue, active, late, submitted>> BY <1>1 DEF queueVars
<1>3. QueueOK' BY <1>2, Idle
<1>4. OtherTypes' BY <1>1, <1>2, BaseSplit DEF OtherTypes, eventVars, busVars
<1>5. StopTasks \in Seq(TaskSet) /\ Plan(StopTasks) BY TasksOfStop, PlanSimple
<1>6. \A i \in DOMAIN StopTasks : Meant(StopTasks[i])' BY TasksOfStop DEF Meant, Handles
<1> HIDE DEF StopTasks
<1> QED BY <1>1, <1>2, <1>3, <1>4, <1>5, <1>6, Names, BaseStart

\* What stop() has to do for the requests it cancels, in the order all.
Cancelled(all) == [i \in DOMAIN all |-> Complete(all[i], Failure)]

\* Every request that waits is completed, and nothing else.
LEMMA TasksOfCancel ==
    ASSUME Base, NEW all \in SetToSeqs(UNION {Range(queue[n]) : n \in Nodes})
    PROVE  /\ Cancelled(all) \in Seq(TaskSet) /\ DOMAIN Cancelled(all) = DOMAIN all
           /\ \A i \in DOMAIN all : all[i] \in submitted /\ Cancelled(all)[i] = Complete(all[i], Failure)
           /\ \A n \in Nodes : \A j \in DOMAIN queue[n] : \E i \in DOMAIN all : all[i] = queue[n][j]
<1> DEFINE U == UNION {Range(queue[n]) : n \in Nodes}
<1>1. IsFiniteSet(U) BY QueuedIsFinite DEF Base
<1>2. all \in Seq(U) /\ DOMAIN all = 1..Len(all) /\ \A c \in U : \E k \in DOMAIN all : all[k] = c
    <2> HIDE DEF U
    <2>1. all \in SetToSeqs(U) BY DEF U
    <2> QED BY <1>1, <2>1, OrderCovers
<1>3. U \subseteq submitted /\ \A n \in Nodes : \A j \in DOMAIN queue[n] : queue[n][j] \in U
    BY DEF Range, Base, Known
<1>4. \A i \in DOMAIN all : all[i] \in submitted /\ all[i] \in Requests /\ Len(all) \in Nat
    BY <1>2, <1>3, BaseSplit DEF OtherTypes
<1>5. Cancelled(all) \in [1..Len(all) -> TaskSet]
    <2>1. \A i \in 1..Len(all) : Complete(all[i], Failure) \in TaskSet
        BY <1>2, <1>4, TasksMade, Outcomes
    <2> QED BY <1>2, <2>1 DEF Cancelled
<1>6. Len(all) \in Nat BY <1>2
<1>7. Cancelled(all) \in Seq(TaskSet) BY <1>5, <1>6
<1> QED BY <1>2, <1>3, <1>4, <1>7 DEF Cancelled

\* when stop() cancels what waits,
LEMMA BaseStopCancels ==
    ASSUME Base, NEW t \in Threads, StopCancels(t)
    PROVE  Base'
<1>1. todo[t] # <<>> BY DEF StopCancels, NextTask
<1>2. /\ queue' = [n \in Nodes |-> <<>>]
      /\ UNCHANGED <<active, late, completed, eventVars, busVars, submitted, stopVars>>
    BY DEF StopCancels
<1>3. PICK all \in SetToSeqs(UNION {Range(queue[n]) : n \in Nodes}) : Then(t, Cancelled(all))
    BY DEF StopCancels, Cancelled
<1>4. UNCHANGED <<submitted, stopping>> BY <1>2 DEF stopVars
<1>5. OtherTypes' BY <1>2, BaseSplit, Idle DEF OtherTypes
<1>6. QueueOK' BY <1>2 DEF QueueOK
<1>7. \A i \in DOMAIN Cancelled(all) : \E r \in submitted : Cancelled(all)[i] = Complete(r, Failure)
    BY TasksOfCancel
<1>8. \A r \in submitted : Complete(r, Failure).do = "complete_sdo" /\ Complete(r, Failure).request = r
    BY DEF Complete
<1>9. \A i \in DOMAIN Cancelled(all) : Meant(Cancelled(all)[i]) BY <1>7, <1>8 DEF Meant, Handles
<1>10. Cancelled(all) \in Seq(TaskSet) /\ Plan(Cancelled(all))
    BY <1>7, <1>8, TasksOfCancel, PlanSimple
<1> HIDE DEF Cancelled
<1> QED BY <1>1, <1>3, <1>4, <1>5, <1>6, <1>9, <1>10, BaseTask

\* What a node does to the bus and the queue of received frames.
LEMMA AnswerArrives ==
    ASSUME OtherTypes, NEW n \in Nodes, NodeAnswers(n) \/ NodeMisses(n)
    PROVE  bus' \in [Nodes -> Seq(Requests)] /\ receive' \in Seq(Requests)
<1>1. bus[n] \in Seq(Requests) /\ bus[n] # <<>> /\ bus' = [bus EXCEPT ![n] = Tail(@)]
    BY DEF NodeAnswers, NodeMisses, OtherTypes
<1>2. Tail(bus[n]) \in Seq(Requests) /\ Head(bus[n]) \in Requests BY <1>1
<1>3. bus' \in [Nodes -> Seq(Requests)] BY <1>1, <1>2 DEF OtherTypes
<1>4. CASE NodeAnswers(n)
    <2>1. receive' = Append(IF Len(receive) >= ReceiveLimit THEN Tail(receive) ELSE receive, Head(bus[n]))
        BY <1>4 DEF NodeAnswers, Received
    <2>2. receive # <<>> => Tail(receive) \in Seq(Requests) BY DEF OtherTypes
    <2>3. Len(receive) >= ReceiveLimit => receive # <<>>
        BY LimitAssumption DEF OtherTypes
    <2> QED BY <1>2, <1>3, <2>1, <2>2, <2>3 DEF OtherTypes
<1>5. CASE NodeMisses(n) BY <1>3, <1>5 DEF NodeMisses, OtherTypes
<1> QED BY <1>4, <1>5

\* when a node answers or does not,
LEMMA BaseNode ==
    ASSUME Base, NEW n \in Nodes, NodeAnswers(n) \/ NodeMisses(n)
    PROVE  Base'
<1>1. UNCHANGED <<queueVars, completed, eventVars, todo, submitted, stopVars>>
    BY DEF NodeAnswers, NodeMisses
<1>2. UNCHANGED <<queue, active, late, submitted, stopping>> BY <1>1 DEF queueVars, stopVars
<1>3. QueueOK' BY <1>2, Idle
<1>4. OtherTypes' BY <1>1, <1>2, AnswerArrives, BaseSplit DEF OtherTypes, eventVars, stopVars
<1> QED BY <1>1, <1>2, <1>3, <1>4, BaseRest

\* when time passes,
LEMMA BaseDeadlinePasses ==
    ASSUME Base, NEW n \in Nodes, DeadlinePasses(n)
    PROVE  Base'
<1>1. late' = late \cup {Head(queue[n])} /\ Head(queue[n]) \in active
      /\ UNCHANGED <<queue, active, completed, eventVars, busVars, todo, submitted, stopVars>>
    BY DEF DeadlinePasses
<1>2. OtherTypes' BY <1>1, BaseSplit DEF OtherTypes, eventVars, busVars, stopVars
<1> QED BY <1>1, <1>2, Idle, BaseRest DEF stopVars

\* What Submit makes of a request: refused, one too many for its node, or queued.
LEMMA SubmitCases ==
    ASSUME Base, NEW r \in Requests, Submit(r)
    PROVE  /\ r \notin submitted /\ submitted' = submitted \cup {r} /\ todo[r] = <<>>
           /\ UNCHANGED <<active, late, eventVars, busVars, stopVars>>
           /\ r \notin completed /\ r \notin active
           /\ \/ /\ todo' = [todo EXCEPT ![r] = <<Post(r, Failure)>>]
                 /\ completed' = completed \cup {r} /\ queue' = queue
              \/ /\ todo' = [todo EXCEPT ![r] = <<Complete(r, Failure)>>]
                 /\ UNCHANGED <<queue, completed>>
              \/ /\ queue' = [queue EXCEPT ![NodeOf[r]] = Append(@, r)]
                 /\ queue[NodeOf[r]] # <<>> /\ todo' = [todo EXCEPT ![r] = <<>>] /\ completed' = completed
              \/ /\ queue' = [queue EXCEPT ![NodeOf[r]] = Append(@, r)]
                 /\ queue[NodeOf[r]] = <<>> /\ completed' = completed
                 /\ todo' = [todo EXCEPT ![r] = <<Activate(NodeOf[r])>>]
<1>1. /\ r \notin submitted /\ submitted' = submitted \cup {r} /\ todo[r] = <<>>
      /\ r \notin completed /\ r \notin active
    BY BaseSplit DEF Submit, Base, Known, OtherTypes
<1>2. UNCHANGED <<active, late, eventVars, busVars, stopVars>>
    BY DEF Submit, Refused, Enqueue, queueVars
<1>3. CASE r \in Invalid BY <1>1, <1>2, <1>3 DEF Submit, Refused, queueVars
<1>4. CASE r \notin Invalid
    <2>1. Enqueue(r) BY <1>4 DEF Submit
    <2> QED BY <1>1, <1>2, <2>1 DEF Enqueue
<1> QED BY <1>3, <1>4

\* and when a request is submitted.
LEMMA BaseSubmit ==
    ASSUME Base, NEW r \in Requests, Submit(r)
    PROVE  Base'
<1>1. /\ r \notin submitted /\ submitted' = submitted \cup {r}
      /\ UNCHANGED <<active, late, eventVars, busVars, stopVars>>
      /\ r \in Threads /\ r # Stopper
    BY SubmitCases, Names
<1>2. NodeOf[r] \in Nodes /\ OtherTypes /\ QueueOK BY NodesOf, BaseSplit
<1>3. completed' \subseteq submitted' BY <1>1, <1>2, SubmitCases DEF OtherTypes
<1>4. OtherTypes' BY <1>1, <1>2, <1>3 DEF OtherTypes, eventVars, busVars, stopVars
<1>5. QueueOK'
    <2>1. CASE queue' = queue BY <1>1, <1>2, <2>1 DEF QueueOK
    <2>2. CASE queue' = [queue EXCEPT ![NodeOf[r]] = Append(@, r)]
        <3> DEFINE n == NodeOf[r]
        <3>1. queue[n] \in Seq(Requests) BY <1>2 DEF QueueOK
        <3>2. /\ queue'[n] = Append(queue[n], r) /\ queue' \in [Nodes -> Seq(Requests)]
              /\ \A m \in Nodes : m # n => queue'[m] = queue[m]
            BY <1>2, <2>2, <3>1 DEF QueueOK
        <3>3. \A i \in DOMAIN queue'[n] : (i \in DOMAIN queue[n] /\ queue'[n][i] = queue[n][i]) \/ queue'[n][i] = r
            BY <3>1, <3>2
        <3>4. \A i \in DOMAIN queue'[n] : queue'[n][i] \in submitted' /\ NodeOf[queue'[n][i]] = n
            BY <1>1, <1>2, <3>3 DEF QueueOK
        <3>5. \A m \in Nodes : m # n =>
                \A i \in DOMAIN queue'[m] : queue'[m][i] \in submitted' /\ NodeOf[queue'[m][i]] = m
            BY <1>1, <1>2, <3>2 DEF QueueOK
        <3> QED BY <3>2, <3>4, <3>5 DEF QueueOK
    <2> QED BY <2>1, <2>2, SubmitCases
<1>6. stopping' = stopping BY <1>1 DEF stopVars
<1>7. ASSUME NEW s \in Seq(TaskSet), Plan(s), \A i \in DOMAIN s : Meant(s[i])', todo' = [todo EXCEPT ![r] = s]
      PROVE  Base'
    BY <1>1, <1>4, <1>5, <1>6, <1>7, BaseStart
<1>8. ASSUME NEW k \in TaskSet, k.do # "pop_sdo", Meant(k)', todo' = [todo EXCEPT ![r] = <<k>>] PROVE Base'
    <2>1. <<k>> \in Seq(TaskSet) /\ Plan(<<k>>) /\ \A i \in DOMAIN <<k>> : <<k>>[i] = k
        BY <1>8, PlanOne
    <2>2. \A i \in DOMAIN <<k>> : Meant(<<k>>[i])' BY <1>8, <2>1 DEF Meant
    <2> QED BY <1>7, <1>8, <2>1, <2>2
<1>9. /\ Post(r, Failure) \in TaskSet /\ Complete(r, Failure) \in TaskSet /\ Activate(NodeOf[r]) \in TaskSet
      /\ Post(r, Failure).do # "pop_sdo" /\ Complete(r, Failure).do # "pop_sdo"
      /\ Activate(NodeOf[r]).do # "pop_sdo"
    BY <1>2, TasksMade, Outcomes DEF Post, Complete, Activate
<1>10. Meant(Post(r, Failure))' /\ Meant(Complete(r, Failure))' /\ Meant(Activate(NodeOf[r]))'
    BY <1>1 DEF Meant, Handles, Post, Complete, Activate
<1>11. todo' = [todo EXCEPT ![r] = <<>>] => Base' BY <1>7, PlanNone
<1> QED BY <1>8, <1>9, <1>10, <1>11, SubmitCases

\* Nothing was asked yet: Base holds.
LEMMA BaseInit == Init => Base
<1> SUFFICES ASSUME Init PROVE Base OBVIOUS
<1>1. SdoTypeOK
    <2>1. \A S : <<>> \in Seq(S) OBVIOUS
    <2>2. /\ queue \in [Nodes -> Seq(Requests)] /\ bus \in [Nodes -> Seq(Requests)]
          /\ todo \in [Threads -> Seq(TaskSet)] /\ events \in Seq(Jobs) /\ receive \in Seq(Requests)
        BY <2>1 DEF Init
    <2>3. ran \in [Requests -> Nat] /\ result \in [Requests -> Outcome \cup {Unanswered}]
        BY DEF Init
    <2> QED BY <2>2, <2>3 DEF Init, SdoTypeOK
<1>2. Known BY Names DEF Init, Known
<1>3. Planned BY DEF Init, Planned, Plan
<1> QED BY <1>1, <1>2, <1>3 DEF Base

\* Every step keeps Base.
LEMMA BaseNext == Base /\ [Next]_vars => Base'
<1> SUFFICES ASSUME Base, [Next]_vars PROVE Base' OBVIOUS
<1>1. ASSUME NEW t \in Threads, Task(t) PROVE Base'
    BY <1>1, BaseActivateNext, BaseSendFrame, BaseTransportSend, BasePopSdo, BaseCompleteSdo,
        BasePostEvent, BaseEmitRaw, BaseTakeFrames, BaseProcessSdo, BaseCheckTimeouts,
        BaseStopCancels, BaseStops DEF Task
<1>2. CASE ProtocolLoop BY <1>2, BaseProtocolLoop
<1>3. CASE EventLoop BY <1>3, BaseEventLoop
<1>4. CASE Environment BY <1>4, BaseSubmit, BaseNode, BaseDeadlinePasses, BaseStopBegin DEF Environment
<1>5. CASE UNCHANGED vars
    <2>1. UNCHANGED <<queue, active, late, completed, todo, submitted, eventVars, busVars, stopVars>>
        BY <1>5 DEF vars, queueVars
    <2>2. QueueOK' /\ OtherTypes' /\ stopping' = stopping BY <2>1, Idle, BaseSplit DEF OtherTypes, stopVars
    <2> QED BY <2>1, <2>2, BaseRest
<1> QED BY <1>1, <1>2, <1>3, <1>4, <1>5 DEF Next, Ended

-------------------------------------------------------------------------------
(* Every completion once *)

\* Who carries a completion after a step.
LEMMA CarriesAfter ==
    ASSUME Base, NEW t \in Threads, todo[t] # <<>>, NEW new \in Seq(TaskSet), Then(t, new),
           NEW r \in Requests
    PROVE  /\ \A u \in Threads : u # t => (Carries(todo'[u], r) <=> Carries(todo[u], r))
           /\ Carries(todo'[t], r) <=> (new # <<>> /\ Posts(new[1], r))
<1>1. SdoTypeOK /\ todo[t] \in Seq(TaskSet) /\ Plan(todo[t]) BY DEF Base, SdoTypeOK, Planned
<1>2. /\ todo'[t] = new \o Tail(todo[t])
      /\ \A u \in Threads : u # t => todo'[u] = todo[u]
    BY <1>1, AfterThen
<1> DEFINE s == todo[t]
           w == new \o Tail(s)
<1>3. s \in Seq(TaskSet) /\ s # <<>> /\ Plan(s) BY <1>1
<1>4. w \in Seq(TaskSet) /\ Spliced(w, new, s) BY <1>3, Splicing
<1> HIDE DEF w
<1>5. CASE new # <<>>
    <2>1. Len(new) >= 1 /\ 1 \in 1..Len(new) BY <1>5
    <2>2. w[1] = new[1] /\ w # <<>> BY <1>4, <2>1 DEF Spliced
    <2> QED BY <1>2, <1>5, <2>2 DEF Carries, w
<1>6. CASE new = <<>>
    <2>1. Len(new) = 0 BY <1>6
    <2>2. Posts(w[1], r) /\ w # <<>> => FALSE
        <3> SUFFICES ASSUME Posts(w[1], r), w # <<>> PROVE FALSE OBVIOUS
        <3>1. 1 \in DOMAIN w BY <1>4
        <3>2. 2 \in DOMAIN s /\ w[1] = s[2] BY <1>4, <2>1, <3>1 DEF Spliced
        <3> QED BY <1>3, <3>2 DEF Plan, Posts
    <2> QED BY <1>2, <1>6, <2>2 DEF Carries, w
<1> QED BY <1>2, <1>5, <1>6 DEF Carries

\* No completion of the request is queued, none is lost.
Keeps(r) == /\ NoJob(events, r) => NoJob(events', r)
            /\ OneJob(events, r) => OneJob(events', r)

\* A completion stays where it is when nobody who could hold it changes.
LEMMA OnceStays ==
    ASSUME NEW r \in Requests, Once(r), r \in completed' <=> r \in completed, ran'[r] = ran[r],
           \A u \in Threads : Carries(todo'[u], r) <=> Carries(todo[u], r), Keeps(r)
    PROVE  Once(r)'
<1>1. NoCarrier(r) => NoCarrier(r)' BY DEF NoCarrier, Carries, Posts
<1>2. OneCarrier(r) => OneCarrier(r)' BY DEF OneCarrier, Carries, Posts
<1>3. NoJob(events, r) => NoJob(events, r)' BY DEF Keeps, NoJob, Ends
<1>4. OneJob(events, r) => OneJob(events, r)' BY DEF Keeps, OneJob, Ends
<1> QED BY <1>1, <1>2, <1>3, <1>4 DEF Once

\* A thread does a task that completes nothing.
LEMMA OnceQuiet ==
    ASSUME Base, AllOnce, NEW t \in Threads, todo[t] # <<>>, Head(todo[t]).do # "enqueue_event",
           NEW new \in Seq(TaskSet), Then(t, new), new # <<>> => new[1].do # "enqueue_event",
           UNCHANGED <<completed, ran>>, \A r \in Requests : Keeps(r)
    PROVE  AllOnce'
<1> SUFFICES ASSUME NEW r \in Requests PROVE Once(r)' BY DEF AllOnce, Once, NoCarrier, OneCarrier
<1>1. todo[t] \in Seq(TaskSet) BY DEF Base, SdoTypeOK
<1>2. ~Carries(todo[t], r) BY <1>1 DEF Carries, Posts
<1>3. \A u \in Threads : u # t => (Carries(todo'[u], r) <=> Carries(todo[u], r)) BY CarriesAfter
<1>4. ~Carries(todo'[t], r) BY CarriesAfter DEF Posts
<1>5. Once(r) BY DEF AllOnce
<1>6. \A u \in Threads : Carries(todo'[u], r) <=> Carries(todo[u], r) BY <1>2, <1>3, <1>4
<1> QED BY <1>5, <1>6, OnceStays

\* An event queue that is left alone keeps its jobs.
LEMMA KeptEvents == events' = events => \A r \in Requests : Keeps(r)
BY DEF Keeps

\* What becomes of the completions in the queue when a job is queued.
LEMMA QueuedCounts ==
    ASSUME events \in Seq(Jobs), NEW job \in Jobs, NEW r \in Requests
    PROVE  /\ ~Ends(job, r) =>
                 /\ NoJob(events, r) => NoJob(Queued(job), r)
                 /\ OneJob(events, r) => OneJob(Queued(job), r)
           /\ Ends(job, r) /\ NoJob(events, r) => OneJob(Queued(job), r)
<1> DEFINE Fine(w) ==
        /\ ~Ends(job, r) =>
              /\ NoJob(events, r) => NoJob(w, r)
              /\ OneJob(events, r) => OneJob(w, r)
        /\ Ends(job, r) /\ NoJob(events, r) => OneJob(w, r)
<1>1. ASSUME NEW q \in Seq(Jobs),
             NoJob(events, r) => NoJob(q, r), OneJob(events, r) => OneJob(q, r)
      PROVE  Fine(Append(q, job))
    <2> DEFINE w == Append(q, job)
               L == Len(q)
    <2>1. /\ L \in Nat /\ DOMAIN q = 1..L /\ DOMAIN w = 1..(L + 1) /\ w[L + 1] = job
          /\ \A i \in 1..L : w[i] = q[i]
        OBVIOUS
    <2> HIDE DEF w, L
    <2>2. \A i \in DOMAIN w : i \in DOMAIN q \/ i = L + 1 BY <2>1
    <2>3. \A i \in DOMAIN q : i \in DOMAIN w /\ i # L + 1 /\ w[i] = q[i] BY <2>1
    <2>4. ~Ends(job, r) /\ NoJob(q, r) => NoJob(w, r) BY <2>1, <2>2, <2>3 DEF NoJob
    <2>5. ASSUME ~Ends(job, r), OneJob(q, r) PROVE OneJob(w, r)
        <3>1. PICK j \in DOMAIN q : \A i \in DOMAIN q : Ends(q[i], r) <=> i = j BY <2>5 DEF OneJob
        <3>2. j \in DOMAIN w /\ \A i \in DOMAIN w : Ends(w[i], r) <=> i = j
            BY <2>1, <2>2, <2>3, <2>5, <3>1
        <3> QED BY <3>2 DEF OneJob
    <2>6. ASSUME Ends(job, r), NoJob(q, r) PROVE OneJob(w, r)
        <3>1. L + 1 \in DOMAIN w /\ \A i \in DOMAIN w : Ends(w[i], r) <=> i = L + 1
            BY <2>1, <2>2, <2>3, <2>6 DEF NoJob
        <3> QED BY <3>1 DEF OneJob
    <2> QED BY <1>1, <2>4, <2>5, <2>6 DEF w
<1>2. Fine(Append(events, job)) BY <1>1
<1>3. ASSUME NEW k \in 1..Len(events), ~events[k].critical
      PROVE  Fine(Append(RemoveAt(events, k), job))
    <2> DEFINE q == RemoveAt(events, k)
               L == Len(events)
    <2>1. /\ q \in Seq(Jobs) /\ Len(q) = L - 1 /\ L \in Nat /\ DOMAIN events = 1..L
          /\ \A j \in 1..(k - 1) : q[j] = events[j]
          /\ \A j \in k..(L - 1) : q[j] = events[j + 1]
        BY Removed
    <2> HIDE DEF q, L
    <2>2. DOMAIN q = 1..(L - 1) /\ k \in 1..L BY <2>1, <1>3 DEF L
    <2>3. ~Ends(events[k], r) BY <1>3 DEF Ends
    <2> DEFINE from(i) == IF i < k THEN i ELSE i + 1
    <2>4. \A i \in DOMAIN q : from(i) \in 1..L /\ q[i] = events[from(i)]
        BY <2>1, <2>2
    <2>5. \A i, j \in DOMAIN q : from(i) = from(j) => i = j BY <2>1, <2>2
    <2>6. \A m \in 1..L : m # k => \E i \in DOMAIN q : from(i) = m
        <3> SUFFICES ASSUME NEW m \in 1..L, m # k PROVE \E i \in DOMAIN q : from(i) = m OBVIOUS
        <3>1. CASE m < k
            <4>1. m \in DOMAIN q /\ from(m) = m BY <2>1, <2>2, <3>1
            <4> QED BY <4>1
        <3>2. CASE m > k
            <4>1. m - 1 \in DOMAIN q /\ from(m - 1) = m BY <2>1, <2>2, <3>2
            <4> QED BY <4>1
        <3> QED BY <2>1, <2>2, <3>1, <3>2
    <2> HIDE DEF from
    <2>7. NoJob(events, r) => NoJob(q, r) BY <2>1, <2>4 DEF NoJob
    <2>8. ASSUME OneJob(events, r) PROVE OneJob(q, r)
        <3>a. DOMAIN events = 1..L BY <2>1
        <3>b. PICK m \in DOMAIN events : \A i \in DOMAIN events : Ends(events[i], r) <=> i = m
            BY <2>8 DEF OneJob
        <3>1. m \in 1..L /\ \A i \in 1..L : Ends(events[i], r) <=> i = m BY <3>a, <3>b
        <3>2. m # k BY <2>2, <2>3, <3>1
        <3>3. PICK j \in DOMAIN q : from(j) = m BY <2>6, <3>1, <3>2
        <3>4. \A i \in DOMAIN q : Ends(q[i], r) <=> i = j BY <2>4, <2>5, <3>1, <3>3
        <3> QED BY <3>4 DEF OneJob
    <2>9. Fine(Append(q, job)) BY <1>1, <2>1, <2>7, <2>8
    <2> QED BY <2>9 DEF q
<1>4. Queued(job) = events /\ ~job.critical => Fine(Queued(job)) BY DEF Ends
<1>5. Fine(Queued(job)) BY <1>2, <1>3, <1>4, QueuedJobs
<1> QED BY <1>5

\* What becomes of them when the event thread takes the first job.
LEMMA TakenCounts ==
    ASSUME events \in Seq(Jobs), events # <<>>, NEW r \in Requests
    PROVE  /\ ~Ends(Head(events), r) =>
                 /\ NoJob(events, r) => NoJob(Tail(events), r)
                 /\ OneJob(events, r) => OneJob(Tail(events), r)
           /\ Ends(Head(events), r) => ~NoJob(events, r)
           /\ Ends(Head(events), r) /\ OneJob(events, r) => NoJob(Tail(events), r)
<1> DEFINE w == Tail(events)
           L == Len(events)
<1>1. /\ L \in Nat /\ L >= 1 /\ DOMAIN events = 1..L /\ DOMAIN w = 1..(L - 1)
      /\ Head(events) = events[1] /\ \A i \in 1..(L - 1) : w[i] = events[i + 1]
    OBVIOUS
<1> HIDE DEF w, L
<1>2. \A i \in DOMAIN w : i \in Nat /\ i + 1 \in DOMAIN events /\ i + 1 # 1 /\ w[i] = events[i + 1] BY <1>1
<1>3. 1 \in DOMAIN events BY <1>1
<1>4. NoJob(events, r) => NoJob(w, r) BY <1>2 DEF NoJob
<1>5. Ends(events[1], r) => ~NoJob(events, r) BY <1>3 DEF NoJob
<1>6. ASSUME Ends(events[1], r), OneJob(events, r) PROVE NoJob(w, r)
    <2>1. PICK j \in DOMAIN events : \A i \in DOMAIN events : Ends(events[i], r) <=> i = j
        BY <1>6 DEF OneJob
    <2>2. j = 1 BY <1>3, <1>6, <2>1
    <2> QED BY <1>2, <2>1, <2>2 DEF NoJob
<1>7. ASSUME ~Ends(events[1], r), OneJob(events, r) PROVE OneJob(w, r)
    <2>1. PICK j \in DOMAIN events : \A i \in DOMAIN events : Ends(events[i], r) <=> i = j
        BY <1>7 DEF OneJob
    <2>2. j # 1 /\ j \in Nat BY <1>1, <1>7, <2>1
    <2>3. j - 1 \in DOMAIN w BY <1>1, <2>1, <2>2
    <2>4. \A i \in DOMAIN w : Ends(w[i], r) <=> i + 1 = j BY <1>2, <2>1
    <2>5. \A i \in DOMAIN w : i + 1 = j <=> i = j - 1 BY <1>2, <2>2
    <2>6. \A i \in DOMAIN w : Ends(w[i], r) <=> i = j - 1 BY <2>4, <2>5
    <2> QED BY <2>3, <2>6 DEF OneJob
<1> QED BY <1>1, <1>4, <1>5, <1>6, <1>7 DEF w

\* A completion moves from the thread to the event queue, or is called.
LEMMA OncePostEvent ==
    ASSUME Base, AllOnce, NEW t \in Threads, PostEvent(t)
    PROVE  AllOnce'
<1> SUFFICES ASSUME NEW r \in Requests PROVE Once(r)' BY DEF AllOnce, Once, NoCarrier, OneCarrier
<1> DEFINE q == Head(todo[t]).request
           job == Completion(q, Head(todo[t]).outcome)
<1>1. NextTask(t, "enqueue_event") /\ todo[t] # <<>> /\ Then(t, <<>>) /\ completed' = completed
    BY DEF PostEvent, NextTask
<1>2. job \in Jobs /\ job.critical /\ job.request = q /\ q \in Requests BY <1>1, PostedJob
<1>3. /\ \A u \in Threads : u # t => (Carries(todo'[u], r) <=> Carries(todo[u], r))
      /\ ~Carries(todo'[t], r)
    BY <1>1, PlanNone, CarriesAfter
<1>4. Carries(todo[t], r) <=> r = q
    <2>1. Head(todo[t]) = todo[t][1] /\ todo[t][1].do = "enqueue_event"
        BY <1>1, HeadTask DEF Base
    <2> QED BY <1>1, <2>1 DEF Carries, Posts
<1>5. Once(r) /\ events \in Seq(Jobs) /\ ran \in [Requests -> Nat] BY DEF AllOnce, Base, SdoTypeOK
<1>6. Ends(job, r) <=> r = q BY <1>2 DEF Ends
<1>7. CASE r # q
    <2>1. \A u \in Threads : Carries(todo'[u], r) <=> Carries(todo[u], r) BY <1>3, <1>4, <1>7
    <2>2. CASE eventStopping
        <3>1. ran' = [ran EXCEPT ![q] = @ + 1] /\ events' = events
            BY <1>2, <2>2 DEF PostEvent, Run
        <3>2. ran'[r] = ran[r] BY <1>5, <1>7, <3>1
        <3> QED BY <1>1, <1>5, <2>1, <3>1, <3>2, KeptEvents, OnceStays
    <2>3. CASE ~eventStopping
        <3>1. events' = Queued(job) /\ ran' = ran BY <2>3 DEF PostEvent
        <3>2. Keeps(r)
            <4> HIDE DEF job
            <4> QED BY <1>2, <1>5, <1>6, <1>7, <3>1, QueuedCounts DEF Keeps
        <3> QED BY <1>1, <1>5, <2>1, <3>1, <3>2, OnceStays
    <2> QED BY <2>2, <2>3
<1>8. CASE r = q
    <2>1. r \in completed /\ ran[r] = 0 /\ OneCarrier(r) /\ NoJob(events, r)
        BY <1>4, <1>5, <1>8 DEF Once, NoCarrier
    <2>2. \A u \in Threads : u # t => ~Carries(todo[u], r) BY <1>4, <1>8, <2>1 DEF OneCarrier
    <2>3. NoCarrier(r)' BY <1>3, <2>2 DEF NoCarrier, Carries, Posts
    <2>4. CASE eventStopping
        <3>1. ran' = [ran EXCEPT ![q] = @ + 1] /\ events' = events
            BY <1>2, <2>4 DEF PostEvent, Run
        <3>2. ran'[r] = 1 BY <1>5, <1>8, <2>1, <3>1
        <3>3. NoJob(events, r)' BY <2>1, <3>1 DEF NoJob, Ends
        <3> QED BY <1>1, <2>1, <2>3, <3>2, <3>3 DEF Once
    <2>5. CASE ~eventStopping
        <3>1. events' = Queued(job) /\ ran' = ran BY <2>5 DEF PostEvent
        <3>2. OneJob(events', r)
            <4> HIDE DEF job
            <4> QED BY <1>2, <1>5, <1>6, <1>8, <2>1, <3>1, QueuedCounts
        <3>3. OneJob(events, r)' BY <3>2 DEF OneJob, Ends
        <3> QED BY <1>1, <2>1, <2>3, <3>1, <3>3 DEF Once
    <2> QED BY <2>4, <2>5
<1> QED BY <1>7, <1>8

\* A completion is taken from the event queue and called.
LEMMA OnceEventLoop ==
    ASSUME Base, AllOnce, EventLoop
    PROVE  AllOnce'
<1> SUFFICES ASSUME NEW r \in Requests PROVE Once(r)' BY DEF AllOnce, Once, NoCarrier, OneCarrier
<1>1. todo' = todo /\ completed' = completed BY DEF EventLoop
<1>2. Once(r) /\ events \in Seq(Jobs) /\ ran \in [Requests -> Nat] BY DEF AllOnce, Base, SdoTypeOK
<1>3. CASE UNCHANGED eventVars BY <1>1, <1>2, <1>3, KeptEvents, OnceStays DEF eventVars
<1>4. CASE /\ events # <<>> /\ events' = Tail(events)
           /\ IF Head(events).critical THEN Run(Head(events)) ELSE UNCHANGED <<ran, result>>
    <2> DEFINE job == Head(events)
    <2>1. job \in Jobs BY <1>2, <1>4
    <2>2. CASE ~Ends(job, r)
        <3>1. ran'[r] = ran[r]
            <4>1. CASE job.critical
                <5>1. job.request \in Requests /\ job.request # r BY <2>1, <2>2, <4>1, JobParts DEF Ends
                <5>2. ran' = [ran EXCEPT ![job.request] = @ + 1] BY <1>4, <4>1 DEF Run
                <5> QED BY <1>2, <5>1, <5>2
            <4>2. CASE ~job.critical BY <1>4, <4>2
            <4> QED BY <4>1, <4>2
        <3>2. Keeps(r) BY <1>2, <1>4, <2>2, TakenCounts DEF Keeps
        <3> QED BY <1>1, <1>2, <3>1, <3>2, OnceStays
    <2>3. CASE Ends(job, r)
        <3>1. ~NoJob(events, r) BY <1>2, <1>4, <2>3, TakenCounts
        <3>2. r \in completed /\ ran[r] = 0 /\ NoCarrier(r) /\ OneJob(events, r)
            BY <1>2, <3>1 DEF Once
        <3>3. NoJob(events', r) BY <1>2, <1>4, <2>3, <3>2, TakenCounts
        <3>4. ran'[r] = 1 BY <1>2, <1>4, <2>3, <3>2 DEF Ends, Run
        <3>5. NoJob(events, r)' /\ NoCarrier(r)'
            BY <1>1, <3>2, <3>3 DEF NoJob, Ends, NoCarrier, Carries, Posts
        <3> QED BY <1>1, <3>2, <3>4, <3>5 DEF Once
    <2> QED BY <2>2, <2>3
<1> QED BY <1>3, <1>4 DEF EventLoop

\* The first to complete a request carries its completion; the others do not.
LEMMA OnceCompleteSdo ==
    ASSUME Base, AllOnce, NEW t \in Threads, CompleteSdo(t)
    PROVE  AllOnce'
<1> DEFINE task == Head(todo[t])
           q == task.request
<1>1. NextTask(t, "complete_sdo") /\ todo[t] # <<>> /\ task.do = "complete_sdo"
    BY DEF CompleteSdo, NextTask
<1>2. q \in Requests /\ task.outcome \in Outcome BY <1>1, HeadKnown, HeadTask, TaskParts DEF Base
<1>3. UNCHANGED <<queueVars, eventVars, busVars, submitted, stopVars>> BY DEF CompleteSdo
<1>4. events' = events /\ ran' = ran BY <1>3 DEF eventVars
<1>5. CASE q \in completed
    <2>1. Then(t, <<>>) /\ completed' = completed BY <1>5 DEF CompleteSdo
    <2> QED BY <1>1, <1>4, <2>1, PlanNone, KeptEvents, OnceQuiet
<1>6. CASE q \notin completed
    <2> DEFINE k == Post(q, task.outcome)
    <2>1. Then(t, <<k>>) /\ completed' = completed \cup {q} BY <1>6 DEF CompleteSdo
    <2>2. k \in TaskSet /\ k.do = "enqueue_event" /\ k.request = q
        BY <1>2, TasksMade DEF Post
    <2> HIDE DEF k
    <2>3. <<k>> \in Seq(TaskSet) /\ <<k>> # <<>> /\ <<k>>[1] = k BY <2>2, PlanOne
    <2> SUFFICES ASSUME NEW r \in Requests PROVE Once(r)' BY DEF AllOnce, Once, NoCarrier, OneCarrier
    <2>4. /\ \A u \in Threads : u # t => (Carries(todo'[u], r) <=> Carries(todo[u], r))
          /\ Carries(todo'[t], r) <=> r = q
        <3>1. /\ \A u \in Threads : u # t => (Carries(todo'[u], r) <=> Carries(todo[u], r))
              /\ Carries(todo'[t], r) <=> (<<k>> # <<>> /\ Posts(<<k>>[1], r))
            BY <1>1, <2>1, <2>3, CarriesAfter
        <3> QED BY <2>2, <2>3, <3>1 DEF Posts
    <2>5. Once(r) BY DEF AllOnce
    <2>6. ~Carries(todo[t], r)
        <3>1. Head(todo[t]) = todo[t][1] /\ todo[t][1].do = "complete_sdo" BY <1>1, HeadTask DEF Base
        <3> QED BY <3>1 DEF Carries, Posts
    <2>7. CASE r # q
        <3>1. \A u \in Threads : Carries(todo'[u], r) <=> Carries(todo[u], r) BY <2>4, <2>6, <2>7
        <3>2. r \in completed' <=> r \in completed BY <2>1, <2>7
        <3> QED BY <1>4, <2>5, <3>1, <3>2, KeptEvents, OnceStays
    <2>8. CASE r = q
        <3>1. ran[r] = 0 /\ NoCarrier(r) /\ NoJob(events, r) BY <1>6, <2>5, <2>8 DEF Once
        <3>2. \A u \in Threads : Carries(todo'[u], r) <=> u = t BY <2>4, <2>8, <3>1 DEF NoCarrier
        <3>3. OneCarrier(r)' BY <3>2 DEF OneCarrier, Carries, Posts
        <3>4. NoJob(events, r)' BY <1>4, <3>1 DEF NoJob, Ends
        <3>5. r \in completed' BY <2>1, <2>8
        <3> QED BY <1>4, <3>1, <3>3, <3>4, <3>5 DEF Once
    <2> QED BY <2>7, <2>8
<1> QED BY <1>5, <1>6

\* No other step of a thread touches a completion.
LEMMA OnceOtherTasks ==
    ASSUME Base, AllOnce, NEW t \in Threads,
           \/ ActivateNext(t) \/ SendFrame(t) \/ TransportSend(t) \/ PopSdo(t) \/ EmitRaw(t)
           \/ TakeFrames(t) \/ ProcessSdo(t) \/ CheckTimeouts(t)
           \/ StopCancels(t) \/ StopEndsEvents(t) \/ StopJoins(t)
    PROVE  AllOnce'
<1> DEFINE Quiet(new) == new \in Seq(TaskSet) /\ (new # <<>> => new[1].do # "enqueue_event")
<1>1. ASSUME todo[t] # <<>>, Head(todo[t]).do # "enqueue_event", UNCHANGED <<completed, ran>>,
             \A r \in Requests : Keeps(r), NEW new, Quiet(new), Then(t, new)
      PROVE  AllOnce'
    BY <1>1, OnceQuiet
<1>2. Quiet(<<>>) BY PlanNone
<1>3. \A k \in TaskSet : k.do \notin {"pop_sdo", "enqueue_event"} => Quiet(<<k>>)
    BY PlanOne
<1>4. ASSUME NEW r \in submitted PROVE Quiet(Failed(r))
    <2>1. Failed(r) \in Seq(TaskSet) /\ Failed(r)[1] = Pop(r) BY MeantFailed
    <2> QED BY <2>1 DEF Pop
<1> HIDE DEF Quiet
<1>5. CASE ActivateNext(t)
    <2>1. todo[t] # <<>> /\ Head(todo[t]).do = "activate_next_sdo"
          /\ UNCHANGED <<completed, ran, events>>
        BY <1>5 DEF ActivateNext, NextTask, eventVars
    <2>2. CASE Then(t, <<>>) BY <1>1, <1>2, <2>1, <2>2, KeptEvents
    <2>3. CASE Waiting(Head(todo[t]).node) /\ Then(t, <<Check(Head(queue[Head(todo[t]).node]))>>)
        <3> DEFINE n == Head(todo[t]).node
                   k == Check(Head(queue[n]))
        <3>1. n \in Nodes BY <2>1, HeadTask, TaskParts DEF Base, NextTask
        <3>2. Head(queue[n]) \in Requests BY <2>3, <3>1, FirstInQueue DEF Waiting
        <3>3. k \in TaskSet /\ k.do \notin {"pop_sdo", "enqueue_event"} BY <3>2, TasksMade DEF Check
        <3>4. Then(t, <<k>>) BY <2>3
        <3> HIDE DEF k
        <3> QED BY <1>1, <1>3, <2>1, <3>3, <3>4, KeptEvents
    <2> QED BY <1>5, <2>2, <2>3 DEF ActivateNext
<1>6. CASE SendFrame(t)
    <2> DEFINE r == Head(todo[t]).request
    <2>1. todo[t] # <<>> /\ Head(todo[t]).do = "send_frame" /\ UNCHANGED <<completed, ran, events>>
        BY <1>6 DEF SendFrame, NextTask, eventVars
    <2>2. r \in submitted /\ r \in Requests BY <1>6, HeadKnown DEF SendFrame
    <2>3. Quiet(<<Transmit(r)>>) BY <1>3, <2>2, TasksMade DEF Transmit
    <2>4. Then(t, Failed(r)) \/ Then(t, <<Transmit(r)>>) BY <1>6 DEF SendFrame
    <2> QED BY <1>1, <1>4, <2>1, <2>2, <2>3, <2>4, KeptEvents
<1>7. CASE TransportSend(t)
    <2> DEFINE r == Head(todo[t]).request
    <2>1. todo[t] # <<>> /\ Head(todo[t]).do = "transport_send" /\ UNCHANGED <<completed, ran, events>>
        BY <1>7 DEF TransportSend, NextTask, eventVars
    <2>2. r \in submitted /\ r \in Requests BY <1>7, HeadKnown DEF TransportSend
    <2>4. Then(t, Failed(r)) \/ Then(t, <<>>) BY <1>7 DEF TransportSend
    <2> QED BY <1>1, <1>2, <1>4, <2>1, <2>2, <2>4, KeptEvents
<1>8. CASE PopSdo(t)
    <2>1. todo[t] # <<>> /\ Head(todo[t]).do = "pop_sdo" /\ UNCHANGED <<completed, ran, events>>
          /\ Then(t, <<>>)
        BY <1>8 DEF PopSdo, NextTask, eventVars
    <2> QED BY <1>1, <1>2, <2>1, KeptEvents
<1>9. CASE EmitRaw(t)
    <2>1. todo[t] # <<>> /\ Head(todo[t]).do = "emit_raw" /\ UNCHANGED <<completed, ran>>
          /\ Then(t, <<>>) /\ (events' = events \/ events' = Queued(RawFrame))
        BY <1>9 DEF EmitRaw, NextTask
    <2>2. \A r \in Requests : ~Ends(RawFrame, r) /\ RawFrame \in Jobs /\ events \in Seq(Jobs)
        BY JobsMade, BaseSplit DEF Ends, OtherTypes
    <2>3. events' = Queued(RawFrame) => \A r \in Requests : Keeps(r)
        BY <2>2, QueuedCounts DEF Keeps
    <2> QED BY <1>1, <1>2, <2>1, <2>3, KeptEvents
<1>10. CASE TakeFrames(t)
    <2>1. todo[t] # <<>> /\ Head(todo[t]).do = "wait_for" /\ UNCHANGED <<completed, ran, events>>
          /\ Then(t, FrameTasks)
        BY <1>10 DEF TakeFrames, FrameTasks, NextTask, eventVars
    <2>2. /\ FrameTasks \in Seq(TaskSet) /\ DOMAIN FrameTasks = 1..(Len(receive) + 1) /\ Len(receive) \in Nat
          /\ \A i \in DOMAIN FrameTasks : FrameTasks[i].do \in {"process_sdo", "check_sdo_timeouts"}
        BY FramesToProcess, BaseSplit DEF OtherTypes
    <2>3. 1 \in DOMAIN FrameTasks BY <2>2
    <2>4. Quiet(FrameTasks) BY <2>2, <2>3 DEF Quiet
    <2> HIDE DEF FrameTasks
    <2> QED BY <1>1, <2>1, <2>4, KeptEvents
<1>11. CASE ProcessSdo(t)
    <2> DEFINE answer == Head(todo[t]).answer
    <2>1. todo[t] # <<>> /\ Head(todo[t]).do = "process_sdo" /\ UNCHANGED <<completed, ran, events>>
        BY <1>11 DEF ProcessSdo, NextTask, eventVars
    <2>2. answer \in Requests BY <2>1, HeadTask, TaskParts DEF Base, NextTask
    <2>3. Quiet(Raw)
        <3>1. Raw # <<>> => 1 \in DOMAIN Raw BY RawTasks
        <3> QED BY <3>1, RawTasks DEF Quiet, Emit
    <2>4. ASSUME NEW r \in Requests, Matches(answer, r),
                 Then(t, <<Pop(r), Complete(r, answer), Activate(NodeOf[r])>> \o Raw)
          PROVE  AllOnce'
        <3>1. r \in submitted /\ answer \in Outcome BY <2>2, <2>4, Matched, Outcomes
        <3>0. PICK new : new = <<Pop(r), Complete(r, answer), Activate(NodeOf[r])>> \o Raw OBVIOUS
        <3>2. new \in Seq(TaskSet) /\ new[1] = Pop(r) BY <3>0, <3>1, PlanFinishRaw, Zenon
        <3>3. Then(t, new) BY <2>4, <3>0
        <3>4. Quiet(new) BY <3>2 DEF Quiet, Pop
        <3> QED BY <1>1, <2>1, <3>3, <3>4, KeptEvents
    <2>5. CASE Then(t, Raw) BY <1>1, <2>1, <2>3, <2>5, KeptEvents
    <2> QED BY <1>11, <2>4, <2>5 DEF ProcessSdo
<1>12. CASE CheckTimeouts(t)
    <2>1. todo[t] # <<>> /\ Head(todo[t]).do = "check_sdo_timeouts" /\ UNCHANGED <<completed, ran, events>>
          /\ Then(t, TimeoutTasks)
        BY <1>12 DEF CheckTimeouts, TimeoutTasks, ExpiredNodes, NextTask, eventVars
    <2>2. TimeoutTasks # <<>> => 1 \in DOMAIN TimeoutTasks BY TasksOfTimeouts
    <2>3. TimeoutTasks # <<>> => TimeoutTasks[1].do \in {"complete_sdo", "activate_next_sdo"}
        BY <2>2, TasksOfTimeouts DEF Complete, Activate
    <2>4. Quiet(TimeoutTasks) BY <2>3, TasksOfTimeouts DEF Quiet
    <2> HIDE DEF TimeoutTasks
    <2> QED BY <1>1, <2>1, <2>4, KeptEvents
<1>13. CASE StopCancels(t)
    <2>1. todo[t] # <<>> /\ Head(todo[t]).do = "cancel" /\ UNCHANGED <<completed, ran, events>>
        BY <1>13 DEF StopCancels, NextTask, eventVars
    <2>2. PICK all \in SetToSeqs(UNION {Range(queue[n]) : n \in Nodes}) : Then(t, Cancelled(all))
        BY <1>13 DEF StopCancels, Cancelled
    <2>3. Cancelled(all) \in Seq(TaskSet)
          /\ \A i \in DOMAIN Cancelled(all) : Cancelled(all)[i].do = "complete_sdo"
        <3>1. \A r \in Requests : Complete(r, Failure).do = "complete_sdo" BY DEF Complete
        <3>2. submitted \subseteq Requests BY BaseSplit DEF OtherTypes
        <3> HIDE DEF Cancelled
        <3> QED BY <3>1, <3>2, TasksOfCancel
    <2>4. Cancelled(all) # <<>> => 1 \in DOMAIN Cancelled(all) BY <2>3
    <2>5. Quiet(Cancelled(all)) BY <2>3, <2>4 DEF Quiet
    <2> HIDE DEF Cancelled
    <2> QED BY <1>1, <2>1, <2>2, <2>5, KeptEvents
<1>14. CASE StopEndsEvents(t) \/ StopJoins(t)
    <2>1. todo[t] # <<>> /\ Head(todo[t]).do \in {"event_stopping_", "join"}
          /\ UNCHANGED <<completed, ran, events>> /\ Then(t, <<>>)
        BY <1>14 DEF StopEndsEvents, StopJoins, NextTask, eventVars
    <2> QED BY <1>1, <1>2, <2>1, KeptEvents
<1> QED BY <1>5, <1>6, <1>7, <1>8, <1>9, <1>10, <1>11, <1>12, <1>13, <1>14

\* No completion is anywhere at the start.
LEMMA OnceInit == Init => AllOnce
<1> SUFFICES ASSUME Init, NEW r \in Requests PROVE Once(r) BY DEF AllOnce
<1>1. r \notin completed /\ ran[r] = 0 BY DEF Init
<1>2. NoCarrier(r) BY DEF Init, NoCarrier, Carries
<1>3. NoJob(events, r) BY DEF Init, NoJob
<1> QED BY <1>1, <1>2, <1>3 DEF Once

\* A refused request is completed by the thread that made it.
LEMMA OnceSubmit ==
    ASSUME Base, AllOnce, NEW q \in Requests, Submit(q)
    PROVE  AllOnce'
<1> SUFFICES ASSUME NEW r \in Requests PROVE Once(r)' BY DEF AllOnce, Once, NoCarrier, OneCarrier
<1>1. /\ todo[q] = <<>> /\ q \notin completed /\ events' = events /\ ran' = ran /\ q \in Threads
    BY SubmitCases, Names DEF eventVars
<1>2. Once(r) /\ todo \in [Threads -> Seq(TaskSet)] BY DEF AllOnce, Base, SdoTypeOK
<1>3. ~Carries(todo[q], r) BY <1>1 DEF Carries
<1>4. CASE \E s \in Seq(TaskSet) :
                todo' = [todo EXCEPT ![q] = s] /\ completed' = completed
                /\ (s # <<>> => s[1].do # "enqueue_event")
    <2>1. PICK s \in Seq(TaskSet) : todo' = [todo EXCEPT ![q] = s] /\ completed' = completed
                /\ (s # <<>> => s[1].do # "enqueue_event")
        BY <1>4
    <2>2. todo'[q] = s /\ \A u \in Threads : u # q => todo'[u] = todo[u] BY <1>1, <1>2, <2>1
    <2>3. ~Carries(todo'[q], r) BY <2>1, <2>2 DEF Carries, Posts
    <2>4. \A u \in Threads : Carries(todo'[u], r) <=> Carries(todo[u], r) BY <1>3, <2>2, <2>3
    <2> QED BY <1>1, <1>2, <2>1, <2>4, KeptEvents, OnceStays
<1>5. CASE todo' = [todo EXCEPT ![q] = <<Post(q, Failure)>>] /\ completed' = completed \cup {q}
    <2> DEFINE s == <<Post(q, Failure)>>
    <2>1. s # <<>> /\ s[1].do = "enqueue_event" /\ s[1].request = q BY DEF Post
    <2>2. todo' = [todo EXCEPT ![q] = s] BY <1>5
    <2> HIDE DEF s
    <2>3. todo'[q] = s /\ \A u \in Threads : u # q => todo'[u] = todo[u] BY <1>1, <1>2, <2>2
    <2>4. Carries(todo'[q], r) <=> r = q BY <2>1, <2>3 DEF Carries, Posts
    <2>5. CASE r # q
        <3>1. \A u \in Threads : Carries(todo'[u], r) <=> Carries(todo[u], r) BY <1>3, <2>3, <2>4, <2>5
        <3>2. r \in completed' <=> r \in completed BY <1>5, <2>5
        <3> QED BY <1>1, <1>2, <3>1, <3>2, KeptEvents, OnceStays
    <2>6. CASE r = q
        <3>1. ran[r] = 0 /\ NoCarrier(r) /\ NoJob(events, r) BY <1>1, <1>2, <2>6 DEF Once
        <3>2. \A u \in Threads : Carries(todo'[u], r) <=> u = q BY <2>3, <2>4, <2>6, <3>1 DEF NoCarrier
        <3>3. OneCarrier(r)' BY <1>1, <3>2 DEF OneCarrier, Carries, Posts
        <3>4. NoJob(events, r)' BY <1>1, <3>1 DEF NoJob, Ends
        <3>5. r \in completed' BY <1>5, <2>6
        <3> QED BY <1>1, <3>1, <3>3, <3>4, <3>5 DEF Once
    <2> QED BY <2>5, <2>6
<1>6. Complete(q, Failure) \in TaskSet /\ Activate(NodeOf[q]) \in TaskSet
    BY TasksMade, Outcomes, NodesOf
<1>7. /\ <<Complete(q, Failure)>> \in Seq(TaskSet) /\ <<Complete(q, Failure)>>[1].do # "enqueue_event"
      /\ <<Activate(NodeOf[q])>> \in Seq(TaskSet) /\ <<Activate(NodeOf[q])>>[1].do # "enqueue_event"
      /\ <<>> \in Seq(TaskSet)
    BY <1>6 DEF Complete, Activate
<1> QED BY <1>4, <1>5, <1>7, SubmitCases

\* A step that touches neither threads nor events keeps every completion.
LEMMA OnceRest ==
    ASSUME AllOnce, UNCHANGED <<todo, completed, events, ran>>
    PROVE  AllOnce'
<1> SUFFICES ASSUME NEW r \in Requests PROVE Once(r)' BY DEF AllOnce, Once, NoCarrier, OneCarrier
<1> QED BY KeptEvents, OnceStays DEF AllOnce

\* The protocol thread or stop() begins with something.
LEMMA OnceBegins ==
    ASSUME Base, AllOnce, NEW t \in Threads, todo[t] = <<>>, NEW s \in Seq(TaskSet),
           s # <<>>, s[1].do # "enqueue_event", todo' = [todo EXCEPT ![t] = s],
           UNCHANGED <<completed, events, ran>>
    PROVE  AllOnce'
<1> SUFFICES ASSUME NEW r \in Requests PROVE Once(r)' BY DEF AllOnce, Once, NoCarrier, OneCarrier
<1>1. todo'[t] = s /\ \A u \in Threads : u # t => todo'[u] = todo[u] BY DEF Base, SdoTypeOK
<1>2. ~Carries(todo'[t], r) /\ ~Carries(todo[t], r) BY <1>1 DEF Carries, Posts
<1>3. \A u \in Threads : Carries(todo'[u], r) <=> Carries(todo[u], r) BY <1>1, <1>2
<1> QED BY <1>3, KeptEvents, OnceStays DEF AllOnce

\* Every step keeps every completion in one place.
LEMMA OnceNext == Base /\ AllOnce /\ [Next]_vars => AllOnce'
<1> SUFFICES ASSUME Base, AllOnce, [Next]_vars PROVE AllOnce' OBVIOUS
<1>1. ASSUME NEW t \in Threads, Task(t) PROVE AllOnce'
    BY <1>1, OnceCompleteSdo, OncePostEvent, OnceOtherTasks DEF Task
<1>2. CASE ProtocolLoop
    <2>1. Receive \in TaskSet /\ <<Receive>> \in Seq(TaskSet) /\ <<Receive>> # <<>>
          /\ <<Receive>>[1].do # "enqueue_event"
        BY TasksMade DEF Receive
    <2>2. UNCHANGED <<completed, events, ran>> BY <1>2 DEF ProtocolLoop, eventVars
    <2>3. CASE todo' = todo BY <2>2, <2>3, OnceRest
    <2>4. CASE todo[Protocol] = <<>> /\ todo' = [todo EXCEPT ![Protocol] = <<Receive>>]
        BY <2>1, <2>2, <2>4, Names, OnceBegins
    <2> QED BY <1>2, <2>3, <2>4 DEF ProtocolLoop
<1>3. CASE EventLoop BY <1>3, OnceEventLoop
<1>4. CASE Environment
    <2>1. ASSUME NEW n \in Nodes, NodeAnswers(n) \/ NodeMisses(n) \/ DeadlinePasses(n) PROVE AllOnce'
        BY <2>1, OnceRest DEF NodeAnswers, NodeMisses, DeadlinePasses, eventVars
    <2>2. CASE StopBegin
        <3>1. todo' = [todo EXCEPT ![Stopper] = StopTasks] /\ UNCHANGED <<completed, events, ran>>
              /\ ~stopping
            BY <2>2 DEF StopBegin, StopTasks, eventVars
        <3>2. todo[Stopper] = <<>> BY <3>1 DEF Base, Known
        <3>3. StopTasks \in Seq(TaskSet) /\ StopTasks # <<>> /\ StopTasks[1].do # "enqueue_event"
            BY TasksOfStop
        <3> HIDE DEF StopTasks
        <3> QED BY <3>1, <3>2, <3>3, Names, OnceBegins
    <2> QED BY <1>4, <2>1, <2>2, OnceSubmit DEF Environment
<1>5. CASE UNCHANGED vars BY <1>5, OnceRest DEF vars, eventVars
<1> QED BY <1>1, <1>2, <1>3, <1>4, <1>5 DEF Next, Ended

\* In one place is what AnsweredOnce counts.
LEMMA CountOnce ==
    ASSUME Base, AllOnce
    PROVE  AnsweredOnce
<1> SUFFICES ASSUME NEW r \in Requests
             PROVE  ran[r] + Cardinality(Places(r)) + Cardinality(Carriers(r))
                        = IF r \in completed THEN 1 ELSE 0
    BY DEF AnsweredOnce
<1>1. \A t \in Threads : t \in Carriers(r) <=> Carries(todo[t], r)
    <2> SUFFICES ASSUME NEW t \in Threads PROVE t \in Carriers(r) <=> Carries(todo[t], r) OBVIOUS
    <2>1. todo[t] \in Seq(TaskSet) /\ Plan(todo[t]) BY DEF Base, SdoTypeOK, Planned
    <2>2. t \in Carriers(r) <=> \E i \in DOMAIN todo[t] : Posts(todo[t][i], r)
        BY DEF Carriers, Range, Posts
    <2>3. \A i \in DOMAIN todo[t] : Posts(todo[t][i], r) => i = 1 BY <2>1 DEF Plan, Posts
    <2>4. todo[t] # <<>> <=> 1 \in DOMAIN todo[t] BY <2>1
    <2> QED BY <2>2, <2>3, <2>4 DEF Carries
<1>2. Carriers(r) \subseteq Threads BY DEF Carriers
<1>3. Places(r) = {i \in DOMAIN events : Ends(events[i], r)} BY DEF Places, Ends
<1>4. NoCarrier(r) => Cardinality(Carriers(r)) = 0
    <2>1. NoCarrier(r) => Carriers(r) = {} BY <1>1, <1>2 DEF NoCarrier
    <2> QED BY <2>1, FS_EmptySet
<1>5. OneCarrier(r) => Cardinality(Carriers(r)) = 1
    <2>1. OneCarrier(r) => \E t \in Threads : Carriers(r) = {t} BY <1>1, <1>2 DEF OneCarrier
    <2> QED BY <2>1, FS_Singleton
<1>6. NoJob(events, r) => Cardinality(Places(r)) = 0
    <2>1. NoJob(events, r) => Places(r) = {} BY <1>3 DEF NoJob
    <2> QED BY <2>1, FS_EmptySet
<1>7. OneJob(events, r) => Cardinality(Places(r)) = 1
    <2>1. OneJob(events, r) => \E i \in DOMAIN events : Places(r) = {i} BY <1>3 DEF OneJob
    <2> QED BY <2>1, FS_Singleton
<1>8. Once(r) BY DEF AllOnce
<1> QED BY <1>4, <1>5, <1>6, <1>7, <1>8 DEF Once

-------------------------------------------------------------------------------
(* Nobody is forgotten *)

\* A task that some thread has still to do.
Pending(k) == \E t \in Threads : \E i \in DOMAIN todo[t] : todo[t][i] = k
\* A thread is about to complete a request, or has a step before it.
Completing(r) ==
    \E t \in Threads : \E i \in DOMAIN todo[t] :
        todo[t][i].do = "complete_sdo" /\ todo[t][i].request = r
Remembered ==
    /\ \A r \in Requests : r \in submitted /\ r \notin completed => InQueue(r) \/ Completing(r)
    /\ \A n \in Nodes : Waiting(n) => Pending(Activate(n))

\* Remembered is NobodyForgotten, position by position.
LEMMA RememberedIsIt == Base => (Remembered <=> NobodyForgotten)
<1> SUFFICES ASSUME Base PROVE Remembered <=> NobodyForgotten OBVIOUS
<1>1. \A r : InQueue(r) <=> r \in Range(queue[NodeOf[r]]) BY DEF InQueue, Range
<1>2. \A k : k \in Tasks <=> Pending(k)
    BY DEF Tasks, Pending, Range
<1>3. \A r : Completing(r) <=> \E k \in Tasks : k.do = "complete_sdo" /\ k.request = r
    BY <1>2 DEF Pending, Completing
<1>4. submitted \subseteq Requests BY BaseSplit DEF OtherTypes
<1> QED BY <1>1, <1>2, <1>3, <1>4 DEF Remembered, NobodyForgotten

\* No step but the first is lost, and every new one is there.
LEMMA TasksAfter ==
    ASSUME Base, NEW t \in Threads, todo[t] # <<>>, NEW new \in Seq(TaskSet), Then(t, new)
    PROVE  /\ \A u \in Threads : \A i \in DOMAIN todo[u] : ~(u = t /\ i = 1) =>
                 \E j \in DOMAIN todo'[u] : todo'[u][j] = todo[u][i]
           /\ \A i \in DOMAIN new : \E j \in DOMAIN todo'[t] : todo'[t][j] = new[i]
<1>1. SdoTypeOK /\ todo[t] \in Seq(TaskSet) BY DEF Base, SdoTypeOK
<1>2. /\ todo'[t] = new \o Tail(todo[t])
      /\ \A u \in Threads : u # t => todo'[u] = todo[u]
    BY <1>1, AfterThen
<1> DEFINE s == todo[t]
           w == new \o Tail(s)
<1>3. Spliced(w, new, s) BY <1>1, Splicing
<1> HIDE DEF w, s
<1>4. /\ Len(s) \in Nat /\ Len(s) >= 1 /\ Len(new) \in Nat
      /\ DOMAIN w = 1..(Len(new) + Len(s) - 1) /\ DOMAIN s = 1..Len(s) /\ DOMAIN new = 1..Len(new)
    BY <1>3 DEF Spliced
<1>5. \A i \in 1..Len(new) : i \in DOMAIN w /\ w[i] = new[i] BY <1>3, <1>4 DEF Spliced
<1>6. \A i \in 2..Len(s) : Len(new) + i - 1 \in DOMAIN w /\ w[Len(new) + i - 1] = s[i]
    BY <1>3, <1>4 DEF Spliced
<1>7. \A i \in DOMAIN s : i # 1 => i \in 2..Len(s) BY <1>4
<1>8. \A i \in DOMAIN s : i # 1 => \E j \in DOMAIN w : w[j] = s[i] BY <1>6, <1>7
<1>9. \A i \in DOMAIN new : \E j \in DOMAIN w : w[j] = new[i] BY <1>4, <1>5
<1>10. todo'[t] = w /\ todo[t] = s BY <1>2 DEF w, s
<1>11. \A u \in Threads : \A i \in DOMAIN todo[u] : u # t => todo'[u][i] = todo[u][i] /\ i \in DOMAIN todo'[u]
    BY <1>2
<1>12. \A i \in DOMAIN todo[t] : i # 1 => \E j \in DOMAIN todo'[t] : todo'[t][j] = todo[t][i]
    BY <1>8, <1>10
<1>13. \A i \in DOMAIN new : \E j \in DOMAIN todo'[t] : todo'[t][j] = new[i] BY <1>9, <1>10
<1> QED BY <1>11, <1>12, <1>13

\* A step that completes a request.
Completes(k, r) == k.do = "complete_sdo" /\ k.request = r
\* What thread t still has to do after its first task, which is replaced by new.
Upcoming(t, new, k) ==
    \/ \E i \in DOMAIN new : new[i] = k
    \/ \E i \in DOMAIN todo[t] : i # 1 /\ todo[t][i] = k

\* A step of a thread forgets nobody if what it takes out of a queue, and what it
\* leaves waiting, is among its next steps.
LEMMA RememberedTask ==
    ASSUME Base, Remembered, NEW t \in Threads, todo[t] # <<>>, NEW new \in Seq(TaskSet),
           Then(t, new), submitted' = submitted, completed \subseteq completed',
           Head(todo[t]).do = "complete_sdo" => Head(todo[t]).request \in completed',
           \A r \in Requests : InQueue(r) /\ ~InQueue(r)' =>
               \E k : Completes(k, r) /\ Upcoming(t, new, k),
           \A n \in Nodes : Waiting(n)' =>
               \/ Waiting(n) /\ Head(todo[t]) # Activate(n)
               \/ Upcoming(t, new, Activate(n))
    PROVE  Remembered'
<1>1. /\ \A u \in Threads : \A i \in DOMAIN todo[u] : ~(u = t /\ i = 1) =>
            \E j \in DOMAIN todo'[u] : todo'[u][j] = todo[u][i]
      /\ \A i \in DOMAIN new : \E j \in DOMAIN todo'[t] : todo'[t][j] = new[i]
    BY TasksAfter
<1>2. ASSUME NEW k, Upcoming(t, new, k) PROVE \E j \in DOMAIN todo'[t] : todo'[t][j] = k
    BY <1>1, <1>2 DEF Upcoming
<1>3. Head(todo[t]) = todo[t][1] BY DEF Base, SdoTypeOK
<1>4. ASSUME NEW r \in Requests, r \in submitted', r \notin completed'
      PROVE  InQueue(r)' \/ Completing(r)'
    <2>1. InQueue(r) \/ Completing(r) BY <1>4 DEF Remembered
    <2>2. ASSUME Completing(r) PROVE Completing(r)'
        <3>1. PICK u \in Threads : \E i \in DOMAIN todo[u] : Completes(todo[u][i], r)
            BY <2>2 DEF Completing, Completes
        <3>2. PICK i \in DOMAIN todo[u] : Completes(todo[u][i], r) BY <3>1
        <3>3. ~(u = t /\ i = 1) BY <1>3, <1>4, <3>2 DEF Completes
        <3>4. PICK j \in DOMAIN todo'[u] : todo'[u][j] = todo[u][i] BY <1>1, <3>3
        <3>5. Completes(todo'[u][j], r) BY <3>2, <3>4
        <3> QED BY <3>5 DEF Completing, Completes
    <2>3. ASSUME InQueue(r), ~InQueue(r)' PROVE Completing(r)'
        <3>1. PICK k : Completes(k, r) /\ Upcoming(t, new, k) BY <2>3
        <3>2. PICK j \in DOMAIN todo'[t] : todo'[t][j] = k BY <1>2, <3>1
        <3> QED BY <3>1, <3>2 DEF Completing, Completes
    <2> QED BY <2>1, <2>2, <2>3
<1>5. ASSUME NEW n \in Nodes, Waiting(n)' PROVE Pending(Activate(n))'
    <2>1. CASE Upcoming(t, new, Activate(n))
        BY <1>2, <2>1 DEF Pending, Activate
    <2>2. CASE Waiting(n) /\ Head(todo[t]) # Activate(n)
        <3>1. PICK u \in Threads : \E i \in DOMAIN todo[u] : todo[u][i] = Activate(n)
            BY <2>2 DEF Remembered, Pending
        <3>2. PICK i \in DOMAIN todo[u] : todo[u][i] = Activate(n) BY <3>1
        <3>3. ~(u = t /\ i = 1) BY <1>3, <2>2, <3>2
        <3>4. PICK j \in DOMAIN todo'[u] : todo'[u][j] = todo[u][i] BY <1>1, <3>3
        <3> QED BY <3>2, <3>4 DEF Pending, Activate
    <2> QED BY <1>5, <2>1, <2>2
<1> QED BY <1>4, <1>5 DEF Remembered

\* A step that leaves queues and service alone forgets nobody.
LEMMA RememberedQuiet ==
    ASSUME Base, Remembered, NEW t \in Threads, todo[t] # <<>>, NEW new \in Seq(TaskSet),
           Then(t, new), UNCHANGED <<submitted, queue, active>>, completed \subseteq completed',
           Head(todo[t]).do = "complete_sdo" => Head(todo[t]).request \in completed',
           Head(todo[t]).do # "activate_next_sdo"
    PROVE  Remembered'
<1>1. \A r \in Requests : InQueue(r) => InQueue(r)' BY DEF InQueue
<1>2. \A n \in Nodes : Waiting(n)' => Waiting(n) BY DEF Waiting
<1>3. \A n \in Nodes : Head(todo[t]) # Activate(n) BY DEF Activate
<1> QED BY <1>1, <1>2, <1>3, RememberedTask

\* A node that goes on has its first request in service.
LEMMA RememberedActivateNext ==
    ASSUME Base, Remembered, NEW t \in Threads, ActivateNext(t)
    PROVE  Remembered'
<1>0. PICK m : m = Head(todo[t]).node OBVIOUS
<1>1. todo[t] # <<>> /\ Head(todo[t]).do = "activate_next_sdo" /\ submitted' = submitted
      /\ completed' = completed /\ queue' = queue
    BY DEF ActivateNext, NextTask
<1>2. m \in Nodes /\ Head(todo[t]) = Activate(m)
    BY <1>0, <1>1, HeadTask, TaskParts DEF Base, NextTask
<1>3. \A r \in Requests : InQueue(r) => InQueue(r)' BY <1>1 DEF InQueue
<1>4. \A n \in Nodes : n # m => Activate(n) # Head(todo[t]) BY <1>2 DEF Activate
<1>5. active \subseteq active' /\ ~Waiting(m)' BY <1>0, <1>1 DEF ActivateNext, Waiting
<1>6. \A n \in Nodes : Waiting(n)' => Waiting(n) /\ n # m BY <1>1, <1>5 DEF Waiting
<1>7. \A n \in Nodes : Waiting(n)' => Waiting(n) /\ Head(todo[t]) # Activate(n) BY <1>4, <1>6
<1>8. ASSUME NEW new \in Seq(TaskSet), Then(t, new) PROVE Remembered'
    BY <1>1, <1>3, <1>7, <1>8, RememberedTask
<1>9. CASE Then(t, <<>>) BY <1>8, <1>9, PlanNone
<1>10. CASE Waiting(m) /\ Then(t, <<Check(Head(queue[m]))>>)
    <2>1. Head(queue[m]) \in Requests BY <1>2, <1>10, FirstInQueue DEF Waiting
    <2>2. Check(Head(queue[m])) \in TaskSet BY <2>1, TasksMade
    <2>3. <<Check(Head(queue[m]))>> \in Seq(TaskSet) BY <2>2
    <2> QED BY <1>8, <1>10, <2>3
<1> QED BY <1>0, <1>9, <1>10 DEF ActivateNext

\* What is taken out is about to be completed, and its node goes on.
LEMMA RememberedPopSdo ==
    ASSUME Base, Remembered, NEW t \in Threads, PopSdo(t)
    PROVE  Remembered'
<1> DEFINE r == Head(todo[t]).request
           n == NodeOf[r]
<1>1. NextTask(t, "pop_sdo") /\ todo[t] # <<>> /\ UNCHANGED <<submitted, completed, active>>
      /\ Then(t, <<>>) /\ queue' = [queue EXCEPT ![n] = IF HeadIs(n, r) THEN Tail(@) ELSE @]
    BY DEF PopSdo, NextTask
<1>2. r \in Requests /\ n \in Nodes BY <1>1, HeadKnown, NodesOf
<1>3. 1 \in DOMAIN todo[t] /\ Head(todo[t]) = todo[t][1] /\ todo[t][1].do = "pop_sdo"
    BY <1>1, HeadTask DEF Base
<1>4. /\ 3 \in DOMAIN todo[t] /\ todo[t] \in Seq(TaskSet)
      /\ todo[t][2].do = "complete_sdo" /\ todo[t][2].request = r /\ todo[t][3] = Activate(n)
    <2>1. Plan(todo[t]) /\ todo[t] \in Seq(TaskSet) BY DEF Base, Planned, SdoTypeOK
    <2>2. /\ 1 + 2 \in DOMAIN todo[t]
          /\ todo[t][1 + 1].do = "complete_sdo" /\ todo[t][1 + 1].request = todo[t][1].request
          /\ todo[t][1 + 2] = Activate(NodeOf[todo[t][1].request])
        BY <1>3, <2>1 DEF Plan
    <2> QED BY <1>3, <2>1, <2>2
<1>5. 2 \in DOMAIN todo[t] BY <1>4
<1>6. Upcoming(t, <<>>, todo[t][2]) /\ Completes(todo[t][2], r) /\ Upcoming(t, <<>>, Activate(n))
    BY <1>4, <1>5 DEF Upcoming, Completes
<1> HIDE DEF r, n
<1>7. queue \in [Nodes -> Seq(Requests)] BY DEF Base, SdoTypeOK
<1>8. \A m \in Nodes : m # n => queue'[m] = queue[m] BY <1>1, <1>7
<1>9. ASSUME NEW q \in Requests, InQueue(q), ~InQueue(q)' PROVE q = r
    <2>1. NodeOf[q] = n BY <1>8, <1>9, NodesOf DEF InQueue
    <2>2. HeadIs(n, r) BY <1>1, <1>2, <1>7, <1>9, <2>1 DEF InQueue
    <2>3. queue'[n] = Tail(queue[n]) /\ queue[n] # <<>> /\ Head(queue[n]) = r
        BY <1>1, <1>2, <1>7, <2>2 DEF HeadIs
    <2>4. PICK i \in DOMAIN queue[n] : queue[n][i] = q BY <1>9, <2>1 DEF InQueue
    <2>5. i # 1 => i - 1 \in DOMAIN queue'[n] /\ queue'[n][i - 1] = q
        <3>1. queue[n] \in Seq(Requests) BY <1>2, <1>7
        <3> QED BY <2>3, <2>4, <3>1
    <2>6. i = 1 BY <1>9, <2>1, <2>5 DEF InQueue
    <2> QED BY <1>2, <2>3, <2>4, <2>6, FirstInQueue
<1>10. \A q \in Requests : InQueue(q) /\ ~InQueue(q)' =>
          \E k : Completes(k, q) /\ Upcoming(t, <<>>, k)
    BY <1>6, <1>9
<1>11. \A m \in Nodes : Waiting(m)' =>
          \/ Waiting(m) /\ Head(todo[t]) # Activate(m)
          \/ Upcoming(t, <<>>, Activate(m))
    <2>1. \A m \in Nodes : m # n => (Waiting(m)' => Waiting(m)) BY <1>1, <1>8 DEF Waiting
    <2>2. \A m \in Nodes : Head(todo[t]) # Activate(m) BY <1>3 DEF Activate
    <2> QED BY <1>6, <2>1, <2>2
<1>12. Head(todo[t]).do # "complete_sdo" BY <1>3
<1>13. <<>> \in Seq(TaskSet) BY PlanNone
<1> QED BY <1>1, <1>10, <1>11, <1>12, <1>13, RememberedTask

\* So it is with every request that timed out.
LEMMA RememberedCheckTimeouts ==
    ASSUME Base, Remembered, NEW t \in Threads, CheckTimeouts(t)
    PROVE  Remembered'
<1> DEFINE new == TimeoutTasks
           L == Len(ExpiredNodes)
<1>1. /\ todo[t] # <<>> /\ Head(todo[t]).do = "check_sdo_timeouts"
      /\ UNCHANGED <<submitted, completed, active>> /\ Then(t, new)
      /\ queue' = [n \in Nodes |-> IF Expired(n) THEN Tail(queue[n]) ELSE queue[n]]
    BY DEF CheckTimeouts, TimeoutTasks, ExpiredNodes, NextTask
<1>2. /\ new \in Seq(TaskSet) /\ DOMAIN new = 1..(L + L) /\ L \in Nat /\ DOMAIN ExpiredNodes = 1..L
      /\ \A i \in 1..L :
            /\ new[i] = Complete(Head(queue[ExpiredNodes[i]]), Failure)
            /\ new[L + i] = Activate(ExpiredNodes[i])
    BY TasksOfTimeouts, NodesExpired
<1>3. \A n \in Nodes : Expired(n) => \E i \in 1..L : ExpiredNodes[i] = n BY <1>2, NodesExpired
<1> HIDE DEF new, L
<1>4. \A i \in 1..L : i \in DOMAIN new /\ L + i \in DOMAIN new BY <1>2
<1>5. \A n \in Nodes : Expired(n) =>
          Upcoming(t, new, Complete(Head(queue[n]), Failure)) /\ Upcoming(t, new, Activate(n))
    BY <1>2, <1>3, <1>4 DEF Upcoming
<1>6. ASSUME NEW r \in Requests, InQueue(r), ~InQueue(r)'
      PROVE  \E k : Completes(k, r) /\ Upcoming(t, new, k)
    <2> DEFINE n == NodeOf[r]
    <2>1. n \in Nodes BY NodesOf
    <2>2. Expired(n) BY <1>1, <1>6, <2>1 DEF InQueue
    <2>3. queue'[n] = Tail(queue[n]) /\ queue[n] # <<>> BY <1>1, <2>1, <2>2 DEF Expired
    <2>4. PICK i \in DOMAIN queue[n] : queue[n][i] = r BY <1>6 DEF InQueue
    <2>5. i # 1 => i - 1 \in DOMAIN queue'[n] /\ queue'[n][i - 1] = r
        <3>1. queue[n] \in Seq(Requests) BY <2>1 DEF Base, SdoTypeOK
        <3> HIDE DEF n
        <3> QED BY <2>3, <2>4, <3>1
    <2>6. i = 1 BY <1>6, <2>5 DEF InQueue
    <2>7. Head(queue[n]) = r BY <2>1, <2>3, <2>4, <2>6, FirstInQueue
    <2> QED BY <1>5, <2>1, <2>2, <2>7 DEF Completes, Complete
<1>7. \A n \in Nodes : Waiting(n)' =>
          \/ Waiting(n) /\ Head(todo[t]) # Activate(n)
          \/ Upcoming(t, new, Activate(n))
    <2>1. \A n \in Nodes : ~Expired(n) => (Waiting(n)' => Waiting(n)) BY <1>1 DEF Waiting
    <2>2. \A n \in Nodes : Head(todo[t]) # Activate(n) BY <1>1 DEF Activate
    <2> QED BY <1>5, <2>1, <2>2
<1> QED BY <1>1, <1>2, <1>6, <1>7, RememberedTask

\* So it is with everything stop() cancels; no queue is left to serve.
LEMMA RememberedStopCancels ==
    ASSUME Base, Remembered, NEW t \in Threads, StopCancels(t)
    PROVE  Remembered'
<1>1. /\ todo[t] # <<>> /\ Head(todo[t]).do = "cancel"
      /\ UNCHANGED <<submitted, completed, active>> /\ queue' = [n \in Nodes |-> <<>>]
    BY DEF StopCancels, NextTask
<1>2. PICK all \in SetToSeqs(UNION {Range(queue[n]) : n \in Nodes}) : Then(t, Cancelled(all))
    BY DEF StopCancels, Cancelled
<1>3. /\ Cancelled(all) \in Seq(TaskSet) /\ DOMAIN Cancelled(all) = DOMAIN all
      /\ \A i \in DOMAIN all : Cancelled(all)[i] = Complete(all[i], Failure)
      /\ \A n \in Nodes : \A j \in DOMAIN queue[n] : \E i \in DOMAIN all : all[i] = queue[n][j]
    BY TasksOfCancel
<1> HIDE DEF Cancelled
<1>4. ASSUME NEW r \in Requests, InQueue(r) PROVE \E k : Completes(k, r) /\ Upcoming(t, Cancelled(all), k)
    <2>1. PICK i \in DOMAIN all : all[i] = r BY <1>3, <1>4, NodesOf DEF InQueue
    <2>2. Upcoming(t, Cancelled(all), Complete(r, Failure)) BY <1>3, <2>1 DEF Upcoming
    <2> QED BY <2>2 DEF Completes, Complete
<1>5. \A n \in Nodes : ~Waiting(n)' BY <1>1 DEF Waiting
<1> QED BY <1>1, <1>2, <1>3, <1>4, <1>5, RememberedTask

\* The other steps of a thread leave the queues alone.
LEMMA RememberedOtherTasks ==
    ASSUME Base, Remembered, NEW t \in Threads,
           \/ SendFrame(t) \/ TransportSend(t) \/ CompleteSdo(t) \/ PostEvent(t) \/ EmitRaw(t)
           \/ TakeFrames(t) \/ ProcessSdo(t) \/ StopEndsEvents(t) \/ StopJoins(t)
    PROVE  Remembered'
<1>1. ASSUME todo[t] # <<>>, UNCHANGED <<submitted, queueVars, completed>>, NEW new \in Seq(TaskSet),
             Then(t, new), Head(todo[t]).do \notin {"activate_next_sdo", "complete_sdo"}
      PROVE  Remembered'
    BY <1>1, RememberedQuiet DEF queueVars
<1>2. <<>> \in Seq(TaskSet) BY PlanNone
<1>3. \A r \in submitted : Failed(r) \in Seq(TaskSet) BY MeantFailed
<1>4. CASE SendFrame(t)
    <2> DEFINE r == Head(todo[t]).request
    <2>1. todo[t] # <<>> /\ Head(todo[t]).do = "send_frame" /\ UNCHANGED <<submitted, queueVars, completed>>
        BY <1>4 DEF SendFrame, NextTask
    <2>2. r \in submitted /\ r \in Requests BY <1>4, HeadKnown DEF SendFrame
    <2>3. Transmit(r) \in TaskSet BY <2>2, TasksMade
    <2>4. <<Transmit(r)>> \in Seq(TaskSet) BY <2>3
    <2>5. Then(t, Failed(r)) \/ Then(t, <<Transmit(r)>>) BY <1>4 DEF SendFrame
    <2> QED BY <1>1, <1>3, <2>1, <2>2, <2>4, <2>5
<1>5. CASE TransportSend(t)
    <2> DEFINE r == Head(todo[t]).request
    <2>1. todo[t] # <<>> /\ Head(todo[t]).do = "transport_send" /\ UNCHANGED <<submitted, queueVars, completed>>
        BY <1>5 DEF TransportSend, NextTask
    <2>2. r \in submitted BY <1>5, HeadKnown DEF TransportSend
    <2>3. Then(t, Failed(r)) \/ Then(t, <<>>) BY <1>5 DEF TransportSend
    <2> QED BY <1>1, <1>2, <1>3, <2>1, <2>2, <2>3
<1>6. CASE PostEvent(t) \/ EmitRaw(t) \/ StopEndsEvents(t) \/ StopJoins(t)
    <2>1. todo[t] # <<>> /\ Head(todo[t]).do \in {"enqueue_event", "emit_raw", "event_stopping_", "join"}
          /\ UNCHANGED <<submitted, queueVars, completed>> /\ Then(t, <<>>)
        BY <1>6 DEF PostEvent, EmitRaw, StopEndsEvents, StopJoins, NextTask
    <2> QED BY <1>1, <1>2, <2>1
<1>7. CASE TakeFrames(t)
    <2>1. todo[t] # <<>> /\ Head(todo[t]).do = "wait_for" /\ UNCHANGED <<submitted, queueVars, completed>>
          /\ Then(t, FrameTasks)
        BY <1>7 DEF TakeFrames, FrameTasks, NextTask
    <2>2. FrameTasks \in Seq(TaskSet) BY FramesToProcess, BaseSplit DEF OtherTypes
    <2> HIDE DEF FrameTasks
    <2> QED BY <1>1, <2>1, <2>2
<1>8. CASE ProcessSdo(t)
    <2> DEFINE answer == Head(todo[t]).answer
    <2>1. todo[t] # <<>> /\ Head(todo[t]).do = "process_sdo" /\ UNCHANGED <<submitted, queueVars, completed>>
        BY <1>8 DEF ProcessSdo, NextTask
    <2>2. answer \in Requests BY <2>1, HeadTask, TaskParts DEF Base, NextTask
    <2>3. CASE Then(t, Raw) BY <1>1, <2>1, <2>3, RawTasks
    <2>4. ASSUME NEW r \in Requests, Matches(answer, r),
                 Then(t, <<Pop(r), Complete(r, answer), Activate(NodeOf[r])>> \o Raw)
          PROVE  Remembered'
        <3>1. r \in submitted /\ answer \in Outcome BY <2>2, <2>4, Matched, Outcomes
        <3> DEFINE new == <<Pop(r), Complete(r, answer), Activate(NodeOf[r])>> \o Raw
        <3>2. new \in Seq(TaskSet) BY <3>1, RawTasks, MeantFinish
        <3>3. Then(t, new) BY <2>4
        <3> HIDE DEF new
        <3> QED BY <1>1, <2>1, <3>2, <3>3
    <2> QED BY <1>8, <2>3, <2>4 DEF ProcessSdo
<1>9. CASE CompleteSdo(t)
    <2> DEFINE task == Head(todo[t])
               k == Post(task.request, task.outcome)
    <2>1. todo[t] # <<>> /\ task.do = "complete_sdo" /\ UNCHANGED <<submitted, queue, active>>
          /\ task.request \in completed' /\ completed \subseteq completed'
        BY <1>9 DEF CompleteSdo, NextTask, queueVars
    <2>2. task.request \in Requests /\ task.outcome \in Outcome
        BY <2>1, HeadTask, TaskParts DEF Base, NextTask
    <2>3. k \in TaskSet BY <2>2, TasksMade
    <2>4. <<k>> \in Seq(TaskSet) BY <2>3
    <2>5. Then(t, <<>>) \/ Then(t, <<k>>) BY <1>9 DEF CompleteSdo
    <2> HIDE DEF k
    <2> QED BY <1>2, <2>1, <2>4, <2>5, RememberedQuiet
<1> QED BY <1>4, <1>5, <1>6, <1>7, <1>8, <1>9

\* A thread that had nothing to do starts with the tasks s.
LEMMA RememberedBegins ==
    ASSUME Base, Remembered, NEW t \in Threads, todo[t] = <<>>, NEW s \in Seq(TaskSet),
           todo' = [todo EXCEPT ![t] = s], UNCHANGED active, completed \subseteq completed',
           \A r \in Requests : r \in submitted' /\ r \notin completed' =>
               \/ r \in submitted /\ (InQueue(r) => InQueue(r)')
               \/ InQueue(r)'
               \/ \E i \in DOMAIN s : Completes(s[i], r),
           \A n \in Nodes : Waiting(n)' => Waiting(n) \/ \E i \in DOMAIN s : s[i] = Activate(n)
    PROVE  Remembered'
<1>1. todo'[t] = s /\ \A u \in Threads : u # t => todo'[u] = todo[u] BY DEF Base, SdoTypeOK
<1>2. \A u \in Threads : \A i \in DOMAIN todo[u] : i \in DOMAIN todo'[u] /\ todo'[u][i] = todo[u][i]
    <2>1. DOMAIN todo[t] = {} OBVIOUS
    <2> QED BY <1>1, <2>1
<1>3. \A r : Completing(r) => Completing(r)' BY <1>2 DEF Completing
<1>4. \A r : (\E i \in DOMAIN s : Completes(s[i], r)) => Completing(r)'
    BY <1>1 DEF Completing, Completes
<1>5. \A n : Pending(Activate(n)) => Pending(Activate(n))' BY <1>2 DEF Pending, Activate
<1>6. \A n : (\E i \in DOMAIN s : s[i] = Activate(n)) => Pending(Activate(n))'
    BY <1>1 DEF Pending, Activate
<1>7. \A r \in Requests : r \in submitted' /\ r \notin completed' => InQueue(r)' \/ Completing(r)'
    BY <1>3, <1>4 DEF Remembered
<1>8. \A n \in Nodes : Waiting(n)' => Pending(Activate(n))' BY <1>5, <1>6 DEF Remembered
<1> QED BY <1>7, <1>8 DEF Remembered

\* What touches none of it forgets nobody.
LEMMA RememberedRest ==
    ASSUME Remembered, UNCHANGED <<todo, queue, active, submitted, completed>>
    PROVE  Remembered'
BY DEF Remembered, InQueue, Completing, Waiting, Pending, Activate

\* A request is queued, with its node served or about to be, or refused.
LEMMA RememberedSubmit ==
    ASSUME Base, Remembered, NEW q \in Requests, Submit(q)
    PROVE  Remembered'
<1> DEFINE n == NodeOf[q]
<1>1. /\ submitted' = submitted \cup {q} /\ todo[q] = <<>> /\ active' = active
      /\ completed \subseteq completed' /\ q \in Threads /\ n \in Nodes
    BY SubmitCases, Names, NodesOf
<1>2. queue \in [Nodes -> Seq(Requests)] BY DEF Base, SdoTypeOK
<1>3. CASE /\ todo' = [todo EXCEPT ![q] = <<Post(q, Failure)>>]
           /\ completed' = completed \cup {q} /\ queue' = queue
    <2>1. Post(q, Failure) \in TaskSet BY TasksMade, Outcomes
    <2>2. <<Post(q, Failure)>> \in Seq(TaskSet) BY <2>1
    <2>3. \A r \in Requests : r \in submitted' /\ r \notin completed' =>
              r \in submitted /\ (InQueue(r) => InQueue(r)')
        BY <1>1, <1>3 DEF InQueue
    <2>4. \A m \in Nodes : Waiting(m)' => Waiting(m) BY <1>1, <1>3 DEF Waiting
    <2> QED BY <1>1, <1>3, <2>2, <2>3, <2>4, RememberedBegins
<1>4. CASE /\ todo' = [todo EXCEPT ![q] = <<Complete(q, Failure)>>]
           /\ UNCHANGED <<queue, completed>>
    <2> DEFINE k == Complete(q, Failure)
    <2>1. k \in TaskSet BY TasksMade, Outcomes
    <2>2. <<k>> \in Seq(TaskSet) /\ DOMAIN <<k>> = {1} /\ <<k>>[1] = k BY <2>1
    <2>a. Completes(k, q) BY DEF Completes, Complete
    <2>3. \A r \in Requests : (r # q /\ r \in submitted') =>
              r \in submitted /\ (InQueue(r) => InQueue(r)')
        BY <1>1, <1>4 DEF InQueue
    <2>4. \A m \in Nodes : Waiting(m)' => Waiting(m) BY <1>1, <1>4 DEF Waiting
    <2>5. todo' = [todo EXCEPT ![q] = <<k>>] BY <1>4
    <2> HIDE DEF k
    <2> DEFINE s == <<k>>
    <2>6. s \in Seq(TaskSet) /\ 1 \in DOMAIN s /\ s[1] = k /\ todo' = [todo EXCEPT ![q] = s]
        BY <2>2, <2>5
    <2> HIDE DEF s
    <2>7. \E i \in DOMAIN s : Completes(s[i], q) BY <2>6, <2>a
    <2>8. \A r \in Requests : r \in submitted' /\ r \notin completed' =>
              \/ r \in submitted /\ (InQueue(r) => InQueue(r)')
              \/ \E i \in DOMAIN s : Completes(s[i], r)
        BY <2>3, <2>7
    <2> QED BY <1>1, <2>4, <2>6, <2>8, RememberedBegins
<1>5. ASSUME queue' = [queue EXCEPT ![n] = Append(@, q)], completed' = completed,
             NEW s \in Seq(TaskSet), todo' = [todo EXCEPT ![q] = s],
             queue[n] # <<>> \/ \E i \in DOMAIN s : s[i] = Activate(n)
      PROVE  Remembered'
    <2>1. /\ queue'[n] = Append(queue[n], q) /\ queue[n] \in Seq(Requests)
          /\ \A m \in Nodes : m # n => queue'[m] = queue[m]
        BY <1>1, <1>2, <1>5
    <2>2. \A r \in Requests : InQueue(r) => InQueue(r)'
        <3> SUFFICES ASSUME NEW r \in Requests, InQueue(r) PROVE InQueue(r)' OBVIOUS
        <3>1. CASE NodeOf[r] # n BY <2>1, <3>1, NodesOf DEF InQueue
        <3>2. CASE NodeOf[r] = n
            <4>1. PICK i \in DOMAIN queue[n] : queue[n][i] = r BY <3>2 DEF InQueue
            <4>2. i \in DOMAIN queue'[n] /\ queue'[n][i] = r BY <2>1, <4>1
            <4> QED BY <3>2, <4>2 DEF InQueue
        <3> QED BY <3>1, <3>2
    <2>3. InQueue(q)'
        <3>1. Len(queue[n]) + 1 \in DOMAIN queue'[n] /\ queue'[n][Len(queue[n]) + 1] = q BY <2>1
        <3> QED BY <3>1 DEF InQueue
    <2>4. \A r \in Requests : r \in submitted' => (r \in submitted /\ (InQueue(r) => InQueue(r)')) \/ InQueue(r)'
        BY <1>1, <2>2, <2>3
    <2>5. \A m \in Nodes : m # n => (Waiting(m)' => Waiting(m)) BY <1>1, <2>1 DEF Waiting
    <2>6. queue[n] # <<>> => (Waiting(n)' => Waiting(n))
        <3>1. queue[n] # <<>> => Head(queue'[n]) = Head(queue[n]) BY <2>1
        <3> QED BY <1>1, <3>1 DEF Waiting
    <2>7. \A m \in Nodes : Waiting(m)' => Waiting(m) \/ \E i \in DOMAIN s : s[i] = Activate(m)
        BY <1>5, <2>5, <2>6
    <2> HIDE DEF n
    <2> QED BY <1>1, <1>5, <2>4, <2>7, RememberedBegins
<1>6. <<>> \in Seq(TaskSet) BY PlanNone
<1>7. Activate(n) \in TaskSet BY <1>1, TasksMade
<1>8. <<Activate(n)>> \in Seq(TaskSet) /\ 1 \in DOMAIN <<Activate(n)>> /\ <<Activate(n)>>[1] = Activate(n)
    BY <1>7
<1>9. \E i \in DOMAIN <<Activate(n)>> : <<Activate(n)>>[i] = Activate(n) BY <1>8
<1> QED BY <1>3, <1>4, <1>5, <1>6, <1>8, <1>9, SubmitCases

\* At the start there is nobody to forget.
LEMMA RememberedInit == Init => Remembered
BY DEF Init, Remembered, Waiting

\* No step forgets a request.
LEMMA RememberedNext == Base /\ Remembered /\ [Next]_vars => Remembered'
<1> SUFFICES ASSUME Base, Remembered, [Next]_vars PROVE Remembered' OBVIOUS
<1>1. ASSUME NEW t \in Threads, Task(t) PROVE Remembered'
    BY <1>1, RememberedActivateNext, RememberedPopSdo, RememberedCheckTimeouts, RememberedStopCancels,
        RememberedOtherTasks DEF Task
<1>2. ASSUME NEW t \in Threads, todo[t] = <<>>, NEW s \in Seq(TaskSet), todo' = [todo EXCEPT ![t] = s],
             UNCHANGED <<queue, active, submitted, completed>>
      PROVE  Remembered'
    <2>1. \A r \in Requests : InQueue(r) => InQueue(r)' BY <1>2 DEF InQueue
    <2>2. \A n \in Nodes : Waiting(n)' => Waiting(n) BY <1>2 DEF Waiting
    <2> QED BY <1>2, <2>1, <2>2, RememberedBegins
<1>3. CASE ProtocolLoop
    <2>1. UNCHANGED <<queue, active, submitted, completed>> BY <1>3 DEF ProtocolLoop, queueVars
    <2>2. Receive \in TaskSet BY TasksMade
    <2>3. <<Receive>> \in Seq(TaskSet) BY <2>2
    <2>4. CASE todo' = todo BY <2>1, <2>4, RememberedRest
    <2>5. CASE todo[Protocol] = <<>> /\ todo' = [todo EXCEPT ![Protocol] = <<Receive>>]
        BY <1>2, <2>1, <2>3, <2>5, Names
    <2> QED BY <1>3, <2>4, <2>5 DEF ProtocolLoop
<1>4. CASE EventLoop BY <1>4, RememberedRest DEF EventLoop, queueVars
<1>5. CASE Environment
    <2>1. ASSUME NEW n \in Nodes, NodeAnswers(n) \/ NodeMisses(n) \/ DeadlinePasses(n) PROVE Remembered'
        BY <2>1, RememberedRest DEF NodeAnswers, NodeMisses, DeadlinePasses, queueVars
    <2>2. CASE StopBegin
        <3>1. todo' = [todo EXCEPT ![Stopper] = StopTasks] /\ ~stopping
              /\ UNCHANGED <<queue, active, submitted, completed>>
            BY <2>2 DEF StopBegin, StopTasks, queueVars
        <3>2. todo[Stopper] = <<>> BY <3>1 DEF Base, Known
        <3>3. StopTasks \in Seq(TaskSet) BY TasksOfStop
        <3> HIDE DEF StopTasks
        <3> QED BY <1>2, <3>1, <3>2, <3>3, Names
    <2> QED BY <1>5, <2>1, <2>2, RememberedSubmit DEF Environment
<1>6. CASE UNCHANGED vars BY <1>6, RememberedRest DEF vars, queueVars
<1> QED BY <1>1, <1>3, <1>4, <1>5, <1>6 DEF Next, Ended

\* The threads, the completions and the requests hold together, always: whatever
\* the order of submissions, failing sends, answers, timeouts and stop().
THEOREM SdoInvariance == Spec => [](Base /\ AllOnce /\ Remembered)
<1>1. Init => Base /\ AllOnce /\ Remembered BY BaseInit, OnceInit, RememberedInit
<1>2. Base /\ AllOnce /\ Remembered /\ [Next]_vars => (Base /\ AllOnce /\ Remembered)'
    BY BaseNext, OnceNext, RememberedNext
<1> QED BY <1>1, <1>2, PTL DEF Spec

\* Every request that is completed has its completion called once, queued once or
\* carried by one thread: complete_sdo, enqueue_event and run_event_loop together
\* neither lose nor repeat one.
THEOREM AlwaysAnsweredOnce == Spec => []AnsweredOnce
BY SdoInvariance, CountOnce, PTL

\* A request that is not completed is queued or about to be completed, and a node
\* whose first request is not in service is about to go on: no order of
\* activate_next_sdo, pop_sdo, check_sdo_timeouts and stop() leaves one behind.
THEOREM NobodyEverForgotten == Spec => []NobodyForgotten
BY SdoInvariance, RememberedIsIt, PTL

-------------------------------------------------------------------------------
(* Where an answer comes from *)

\* Only the first request of a queue is in service, and none is queued twice.
Service ==
    /\ \A n \in Nodes : \A i \in DOMAIN queue[n] : queue[n][i] \in active => i = 1
    /\ \A n \in Nodes : \A i, j \in DOMAIN queue[n] : queue[n][i] = queue[n][j] => i = j

\* A frame for a request, or the answer to it, is with a thread, on the bus or
\* received.
Asks(k, q) ==
    \/ k.do \in {"send_frame", "transport_send"} /\ k.request = q
    \/ k.do = "process_sdo" /\ k.answer = q
Pops(k, q) == k.do = "pop_sdo" /\ k.request = q

InTasks(q) == \E t \in Threads : \E i \in DOMAIN todo[t] : Asks(todo[t][i], q)
InBuses(q) == \E n \in Nodes : \E i \in DOMAIN bus[n] : bus[n][i] = q
InReceived(q) == \E i \in DOMAIN receive : receive[i] = q
Token(q) == InTasks(q) \/ InBuses(q) \/ InReceived(q)

\* It is in one of these places, and its request is or was in service.
OneTask(q) ==
    \A t, u \in Threads : \A i \in DOMAIN todo[t] : \A j \in DOMAIN todo[u] :
        Asks(todo[t][i], q) /\ Asks(todo[u][j], q) => t = u /\ i = j
OneFrame(q) ==
    \A n, m \in Nodes : \A i \in DOMAIN bus[n] : \A j \in DOMAIN bus[m] :
        bus[n][i] = q /\ bus[m][j] = q => n = m /\ i = j
OneAnswer(q) ==
    \A i, j \in DOMAIN receive : receive[i] = q /\ receive[j] = q => i = j
OneToken(q) ==
    /\ OneTask(q) /\ OneFrame(q) /\ OneAnswer(q)
    /\ ~(InTasks(q) /\ InBuses(q))
    /\ ~(InTasks(q) /\ InReceived(q))
    /\ ~(InBuses(q) /\ InReceived(q))
Tokens == \A q \in Requests : OneToken(q) /\ (Token(q) => q \in active)

\* Only the protocol thread, while it runs, handles frames.
Frames(k) == k.do \in {"process_sdo", "wait_for"}
ProtocolOnly ==
    /\ \A t \in Threads : \A i \in DOMAIN todo[t] : Frames(todo[t][i]) => t = Protocol
    /\ Protocol \notin running => todo[Protocol] = <<>>

\* A frame may be under way while its request is no longer queued, or about to be
\* taken out: then a request for the same object timed out and left its queue.
PopPending(q) == \E t \in Threads : \E i \in DOMAIN todo[t] : Pops(todo[t][i], q)
Left(q) == \E p \in late : SameObject(p, q) /\ ~InQueue(p)
Departed ==
    /\ \A q \in Requests : PopPending(q) => q \in active
    /\ Protocol \in running =>
          \A q \in Requests : Token(q) /\ (~InQueue(q) \/ PopPending(q)) => Left(q)

\* The answer to another request is explained by a timeout for the same object.
Explained(r, q) ==
    q \in Requests /\ q # r =>
        /\ SameObject(q, r)
        /\ \E p \in late : p # r /\ SameObject(p, r)
Answers(k) == k.do \in {"complete_sdo", "enqueue_event"}
AllExplained ==
    /\ \A t \in Threads : \A i \in DOMAIN todo[t] :
          Answers(todo[t][i]) => Explained(todo[t][i].request, todo[t][i].outcome)
    /\ \A i \in DOMAIN events : events[i].critical => Explained(events[i].request, events[i].outcome)
    /\ \A r \in Requests : Explained(r, result[r])

\* Where the answers come from.
Lineage == Service /\ Tokens /\ ProtocolOnly /\ Departed /\ AllExplained

\* Every step of a thread is new, or was there and was not the first.
LEMMA TasksBefore ==
    ASSUME Base, NEW t \in Threads, todo[t] # <<>>, NEW new \in Seq(TaskSet), Then(t, new)
    PROVE  \A u \in Threads : \A j \in DOMAIN todo'[u] :
              \/ u = t /\ j \in DOMAIN new /\ todo'[u][j] = new[j]
              \/ \E i \in DOMAIN todo[u] :
                    /\ todo'[u][j] = todo[u][i] /\ ~(u = t /\ i = 1)
                    /\ i = IF u = t THEN j - Len(new) + 1 ELSE j
<1>1. SdoTypeOK /\ todo[t] \in Seq(TaskSet) BY DEF Base, SdoTypeOK
<1>2. /\ todo'[t] = new \o Tail(todo[t])
      /\ \A u \in Threads : u # t => todo'[u] = todo[u]
    BY <1>1, AfterThen
<1> DEFINE s == todo[t]
           w == new \o Tail(s)
<1>3. Spliced(w, new, s) BY <1>1, Splicing
<1> HIDE DEF w, s
<1>4. /\ Len(s) \in Nat /\ Len(s) >= 1 /\ Len(new) \in Nat
      /\ DOMAIN w = 1..(Len(new) + Len(s) - 1) /\ DOMAIN s = 1..Len(s) /\ DOMAIN new = 1..Len(new)
    BY <1>3 DEF Spliced
<1>5. \A j \in DOMAIN w :
            \/ j \in 1..Len(new) /\ w[j] = new[j]
            \/ /\ j \notin 1..Len(new)
               /\ j - Len(new) + 1 \in 2..Len(s) /\ w[j] = s[j - Len(new) + 1]
    BY <1>3 DEF Spliced
<1>6. \A i \in 2..Len(s) : i \in DOMAIN s /\ i # 1 BY <1>4
<1>7. \A j \in DOMAIN w :
            \/ j \in DOMAIN new /\ w[j] = new[j]
            \/ /\ j - Len(new) + 1 \in DOMAIN s /\ j - Len(new) + 1 # 1 /\ w[j] = s[j - Len(new) + 1]
    BY <1>4, <1>5, <1>6
<1>8. todo'[t] = w /\ todo[t] = s BY <1>2 DEF w, s
<1>9. \A j \in DOMAIN todo'[t] :
            \/ j \in DOMAIN new /\ todo'[t][j] = new[j]
            \/ /\ j - Len(new) + 1 \in DOMAIN todo[t] /\ j - Len(new) + 1 # 1
               /\ todo'[t][j] = todo[t][j - Len(new) + 1]
    BY <1>7, <1>8
<1> SUFFICES ASSUME NEW u \in Threads, NEW j \in DOMAIN todo'[u]
             PROVE  \/ u = t /\ j \in DOMAIN new /\ todo'[u][j] = new[j]
                    \/ \E i \in DOMAIN todo[u] :
                          /\ todo'[u][j] = todo[u][i] /\ ~(u = t /\ i = 1)
                          /\ i = IF u = t THEN j - Len(new) + 1 ELSE j
    OBVIOUS
<1>10. CASE u = t
    <2>1. CASE j \in DOMAIN new /\ todo'[t][j] = new[j] BY <1>10, <2>1
    <2>2. CASE /\ j - Len(new) + 1 \in DOMAIN todo[t] /\ j - Len(new) + 1 # 1
               /\ todo'[t][j] = todo[t][j - Len(new) + 1]
        <3>1. PICK i : i = j - Len(new) + 1 OBVIOUS
        <3> QED BY <1>10, <2>2, <3>1
    <2> QED BY <1>9, <1>10, <2>1, <2>2
<1>11. CASE u # t BY <1>2, <1>11
<1> QED BY <1>10, <1>11

\* The requests that are asked by the tasks of all threads, after a step of one.
LEMMA TokensOfTasks ==
    ASSUME Base, NEW t \in Threads, todo[t] # <<>>, NEW new \in Seq(TaskSet), Then(t, new),
           NEW q \in Requests, OneTask(q)
    PROVE  /\ (\A i \in DOMAIN new : ~Asks(new[i], q)) =>
                 OneTask(q)' /\ (InTasks(q)' => InTasks(q) /\ ~Asks(Head(todo[t]), q))
           /\ /\ \A i, j \in DOMAIN new : Asks(new[i], q) /\ Asks(new[j], q) => i = j
              /\ Asks(Head(todo[t]), q) \/ ~InTasks(q)
              => OneTask(q)'
<1>1. \A u \in Threads : \A j \in DOMAIN todo'[u] :
              \/ u = t /\ j \in DOMAIN new /\ todo'[u][j] = new[j]
              \/ \E i \in DOMAIN todo[u] :
                    /\ todo'[u][j] = todo[u][i] /\ ~(u = t /\ i = 1)
                    /\ i = IF u = t THEN j - Len(new) + 1 ELSE j
    BY TasksBefore
<1>2. 1 \in DOMAIN todo[t] /\ Head(todo[t]) = todo[t][1] BY DEF Base, SdoTypeOK
<1>3. \A u \in Threads : DOMAIN todo'[u] \subseteq Nat
    <2>1. todo' \in [Threads -> Seq(TaskSet)] BY AfterThen DEF Base
    <2> QED BY <2>1
<1>4. Len(new) \in Nat OBVIOUS
<1>5. ASSUME \A i \in DOMAIN new : ~Asks(new[i], q)
      PROVE  OneTask(q)' /\ (InTasks(q)' => InTasks(q) /\ ~Asks(Head(todo[t]), q))
    <2>1. ASSUME NEW u \in Threads, NEW j \in DOMAIN todo'[u], Asks(todo'[u][j], q)
          PROVE  \E i \in DOMAIN todo[u] :
                    /\ Asks(todo[u][i], q) /\ ~(u = t /\ i = 1)
                    /\ i = IF u = t THEN j - Len(new) + 1 ELSE j
        BY <1>1, <1>5, <2>1
    <2>2. ASSUME NEW u \in Threads, NEW v \in Threads, NEW j \in DOMAIN todo'[u], NEW k \in DOMAIN todo'[v],
                 Asks(todo'[u][j], q), Asks(todo'[v][k], q)
          PROVE  u = v /\ j = k
        <3>1. PICK i \in DOMAIN todo[u] :
                    Asks(todo[u][i], q) /\ i = IF u = t THEN j - Len(new) + 1 ELSE j
            BY <2>1, <2>2
        <3>2. PICK m \in DOMAIN todo[v] :
                    Asks(todo[v][m], q) /\ m = IF v = t THEN k - Len(new) + 1 ELSE k
            BY <2>1, <2>2
        <3>3. u = v /\ i = m BY <3>1, <3>2 DEF OneTask
        <3>4. j \in Nat /\ k \in Nat BY <1>3
        <3> QED BY <1>4, <3>1, <3>2, <3>3, <3>4
    <2>3. OneTask(q)' BY <2>2 DEF OneTask, Asks
    <2>4. ASSUME InTasks(q)' PROVE InTasks(q) /\ ~Asks(Head(todo[t]), q)
        <3>1. PICK u \in Threads : \E j \in DOMAIN todo'[u] : Asks(todo'[u][j], q)
            BY <2>4 DEF InTasks, Asks
        <3>2. PICK i \in DOMAIN todo[u] : Asks(todo[u][i], q) /\ ~(u = t /\ i = 1) BY <2>1, <3>1
        <3> QED BY <1>2, <3>2 DEF InTasks, OneTask
    <2> QED BY <2>3, <2>4
<1>6. ASSUME \A i, j \in DOMAIN new : Asks(new[i], q) /\ Asks(new[j], q) => i = j,
             Asks(Head(todo[t]), q) \/ ~InTasks(q)
      PROVE  OneTask(q)'
    <2>1. ASSUME NEW u \in Threads, NEW j \in DOMAIN todo'[u], Asks(todo'[u][j], q)
          PROVE  u = t /\ j \in DOMAIN new /\ Asks(new[j], q)
        <3> SUFFICES ASSUME NEW i \in DOMAIN todo[u], todo'[u][j] = todo[u][i], ~(u = t /\ i = 1)
                     PROVE  FALSE
            BY <1>1, <2>1
        <3>1. Asks(todo[u][i], q) BY <2>1
        <3>2. InTasks(q) BY <3>1 DEF InTasks
        <3>3. Asks(todo[t][1], q) BY <1>2, <1>6, <3>2
        <3> QED BY <1>2, <3>1, <3>3 DEF OneTask
    <2>2. \A u, v \in Threads : \A j \in DOMAIN todo'[u] : \A k \in DOMAIN todo'[v] :
              Asks(todo'[u][j], q) /\ Asks(todo'[v][k], q) => u = v /\ j = k
        BY <1>6, <2>1
    <2> QED BY <2>2 DEF OneTask, Asks
<1> QED BY <1>5, <1>6

\* One element more at the end, the first one gone: what stays single.
Single(s, q) == \A i, j \in DOMAIN s : s[i] = q /\ s[j] = q => i = j
\* An element is in a sequence.
Within(s, q) == \E i \in DOMAIN s : s[i] = q

\* Appended to a sequence without it, an element is in it once.
LEMMA SingleAppend ==
    ASSUME NEW s \in Seq(Requests), NEW r \in Requests, NEW q \in Requests, Single(s, q),
           q = r => ~Within(s, q)
    PROVE  /\ Single(Append(s, r), q)
           /\ Within(Append(s, r), q) => Within(s, q) \/ q = r
<1> DEFINE w == Append(s, r)
           L == Len(s)
<1>1. /\ L \in Nat /\ DOMAIN s = 1..L /\ DOMAIN w = 1..(L + 1) /\ w[L + 1] = r
      /\ \A i \in 1..L : w[i] = s[i]
    OBVIOUS
<1> HIDE DEF w, L
<1>2. \A i \in DOMAIN w : (i \in DOMAIN s /\ w[i] = s[i]) \/ (i = L + 1 /\ w[i] = r) BY <1>1
<1>3. Single(w, q) BY <1>2 DEF Single, Within
<1>4. Within(w, q) => Within(s, q) \/ q = r BY <1>2 DEF Within
<1> QED BY <1>3, <1>4 DEF w

\* A sequence without its first element has no more of any element.
LEMMA SingleTail ==
    ASSUME NEW s \in Seq(Requests), s # <<>>, NEW q \in Requests, Single(s, q)
    PROVE  /\ Single(Tail(s), q)
           /\ Within(Tail(s), q) => Within(s, q) /\ q # Head(s)
<1> DEFINE w == Tail(s)
           L == Len(s)
<1>1. /\ L \in Nat /\ L >= 1 /\ DOMAIN s = 1..L /\ DOMAIN w = 1..(L - 1) /\ Head(s) = s[1]
      /\ \A i \in 1..(L - 1) : w[i] = s[i + 1]
    OBVIOUS
<1> HIDE DEF w, L
<1>2. \A i \in DOMAIN w : i \in Nat /\ i + 1 \in DOMAIN s /\ i + 1 # 1 /\ w[i] = s[i + 1] BY <1>1
<1>3. ASSUME NEW i \in DOMAIN w, NEW j \in DOMAIN w, w[i] = q, w[j] = q PROVE i = j
    <2>1. i + 1 = j + 1 BY <1>2, <1>3 DEF Single
    <2> QED BY <1>2, <2>1
<1>4. ASSUME NEW i \in DOMAIN w, w[i] = q PROVE Within(s, q) /\ q # Head(s)
    <2>1. i + 1 \in DOMAIN s /\ s[i + 1] = q /\ 1 \in DOMAIN s /\ i + 1 # 1 BY <1>1, <1>2, <1>4
    <2> QED BY <1>1, <2>1 DEF Within, Single
<1> QED BY <1>3, <1>4 DEF w, Single, Within

\* The bus seen node by node.
LEMMA FramesOnBus ==
    ASSUME NEW q
    PROVE  /\ InBuses(q) <=> \E n \in Nodes : Within(bus[n], q)
           /\ OneFrame(q) <=> /\ \A n \in Nodes : Single(bus[n], q)
                              /\ \A n, m \in Nodes : Within(bus[n], q) /\ Within(bus[m], q) => n = m
           /\ InReceived(q) <=> Within(receive, q)
           /\ OneAnswer(q) <=> Single(receive, q)
<1>1. InBuses(q) <=> \E n \in Nodes : Within(bus[n], q) BY DEF InBuses, Within
<1>2. InReceived(q) <=> Within(receive, q) BY DEF InReceived, Within
<1>3. OneAnswer(q) <=> Single(receive, q) BY DEF OneAnswer, Single
<1>4. OneFrame(q) => /\ \A n \in Nodes : Single(bus[n], q)
                     /\ \A n, m \in Nodes : Within(bus[n], q) /\ Within(bus[m], q) => n = m
    BY DEF OneFrame, Single, Within
<1>5. ASSUME \A n \in Nodes : Single(bus[n], q),
             \A n, m \in Nodes : Within(bus[n], q) /\ Within(bus[m], q) => n = m
      PROVE  OneFrame(q)
    BY <1>5 DEF OneFrame, Single, Within
<1> QED BY <1>1, <1>2, <1>3, <1>4, <1>5

\* A frame that is sent is on one bus, once.
LEMMA BusSends ==
    ASSUME bus \in [Nodes -> Seq(Requests)], NEW n \in Nodes, NEW r \in Requests,
           bus' = [bus EXCEPT ![n] = Append(@, r)], NEW q \in Requests, OneFrame(q),
           q = r => ~InBuses(q)
    PROVE  OneFrame(q)' /\ (InBuses(q)' => InBuses(q) \/ q = r)
<1>1. bus[n] \in Seq(Requests) /\ bus'[n] = Append(bus[n], r)
      /\ \A m \in Nodes : m # n => bus'[m] = bus[m]
    OBVIOUS
<1>2. /\ \A m \in Nodes : Single(bus[m], q)
      /\ \A m, k \in Nodes : Within(bus[m], q) /\ Within(bus[k], q) => m = k
      /\ q = r => \A m \in Nodes : ~Within(bus[m], q)
    BY FramesOnBus
<1>3. Single(bus'[n], q) /\ (Within(bus'[n], q) => Within(bus[n], q) \/ q = r)
    BY <1>1, <1>2, SingleAppend
<1>4. \A m \in Nodes : m # n => (Single(bus'[m], q) /\ (Within(bus'[m], q) <=> Within(bus[m], q)))
    BY <1>1, <1>2
<1>5. \A m \in Nodes : Single(bus'[m], q) BY <1>3, <1>4
<1>6. \A m, k \in Nodes : Within(bus'[m], q) /\ Within(bus'[k], q) => m = k BY <1>2, <1>3, <1>4
<1>7. \A m \in Nodes : Within(bus'[m], q) => InBuses(q) \/ q = r BY <1>3, <1>4, FramesOnBus
<1>8. OneFrame(q)' BY <1>5, <1>6 DEF OneFrame, Single, Within
<1>9. InBuses(q)' => \E m \in Nodes : Within(bus'[m], q) BY DEF InBuses, Within
<1> QED BY <1>7, <1>8, <1>9

\* A frame that a node takes is on no bus.
LEMMA BusTakes ==
    ASSUME bus \in [Nodes -> Seq(Requests)], NEW n \in Nodes, bus[n] # <<>>,
           bus' = [bus EXCEPT ![n] = Tail(@)], NEW q \in Requests, OneFrame(q)
    PROVE  OneFrame(q)' /\ (InBuses(q)' => InBuses(q) /\ q # Head(bus[n])) /\ InBuses(Head(bus[n]))
<1>1. bus[n] \in Seq(Requests) /\ bus'[n] = Tail(bus[n])
      /\ \A m \in Nodes : m # n => bus'[m] = bus[m]
    OBVIOUS
<1>2. /\ \A m \in Nodes : Single(bus[m], q)
      /\ \A m, k \in Nodes : Within(bus[m], q) /\ Within(bus[k], q) => m = k
    BY FramesOnBus
<1>3. Single(bus'[n], q) /\ (Within(bus'[n], q) => Within(bus[n], q) /\ q # Head(bus[n]))
    BY <1>1, <1>2, SingleTail
<1>4. \A m \in Nodes : m # n => (Single(bus'[m], q) /\ (Within(bus'[m], q) <=> Within(bus[m], q)))
    BY <1>1, <1>2
<1>5. \A m \in Nodes : Single(bus'[m], q) BY <1>3, <1>4
<1>6. \A m, k \in Nodes : Within(bus'[m], q) /\ Within(bus'[k], q) => m = k BY <1>2, <1>3, <1>4
<1>a. 1 \in DOMAIN bus[n] /\ bus[n][1] = Head(bus[n]) BY <1>1
<1>b. Within(bus[n], Head(bus[n])) BY <1>a DEF Within
<1>7. \A m \in Nodes : Within(bus'[m], q) => InBuses(q) /\ q # Head(bus[n])
    BY <1>2, <1>3, <1>4, <1>b, FramesOnBus
<1>8. OneFrame(q)' BY <1>5, <1>6 DEF OneFrame, Single, Within
<1>9. InBuses(q)' => \E m \in Nodes : Within(bus'[m], q) BY DEF InBuses, Within
<1>10. InBuses(Head(bus[n])) BY <1>b, FramesOnBus
<1> QED BY <1>7, <1>8, <1>9, <1>10

\* An answer is received once.
LEMMA ReceiveTakes ==
    ASSUME receive \in Seq(Requests), NEW r \in Requests, Received(r), NEW q \in Requests, OneAnswer(q),
           q = r => ~InReceived(q)
    PROVE  OneAnswer(q)' /\ (InReceived(q)' => InReceived(q) \/ q = r)
<1> DEFINE s == IF Len(receive) >= ReceiveLimit THEN Tail(receive) ELSE receive
<1>1. receive' = Append(s, r) BY DEF Received
<1>2. Single(receive, q) /\ (q = r => ~Within(receive, q)) BY FramesOnBus
<1>3. s \in Seq(Requests) /\ Single(s, q) /\ (Within(s, q) => Within(receive, q))
    <2>1. CASE Len(receive) >= ReceiveLimit
        <3>1. receive # <<>> BY <2>1, LimitAssumption
        <3> QED BY <1>2, <2>1, <3>1, SingleTail
    <2>2. CASE ~(Len(receive) >= ReceiveLimit) BY <1>2, <2>2
    <2> QED BY <2>1, <2>2
<1> HIDE DEF s
<1>4. Single(receive', q) /\ (Within(receive', q) => Within(receive, q) \/ q = r)
    BY <1>1, <1>2, <1>3, SingleAppend
<1>5. OneAnswer(q)' /\ (InReceived(q)' => Within(receive', q))
    BY <1>4 DEF OneAnswer, InReceived, Single, Within
<1> QED BY <1>4, <1>5, FramesOnBus

\* Requests leave the queues of the nodes; none is added.
LEMMA QueuesShrink ==
    ASSUME Base, Service, active' = active, queue' \in [Nodes -> Seq(Requests)],
           \A n \in Nodes : \/ queue'[n] = queue[n]
                            \/ queue[n] # <<>> /\ queue'[n] = Tail(queue[n])
                            \/ queue'[n] = <<>>
    PROVE  /\ Service'
           /\ \A q \in Requests : InQueue(q)' => InQueue(q)
           /\ \A q \in active : queue'[NodeOf[q]] # queue[NodeOf[q]] => ~InQueue(q)'
<1>1. ASSUME NEW n \in Nodes, NEW i \in DOMAIN queue'[n]
      PROVE  \E d \in {0, 1} :
                /\ i + d \in DOMAIN queue[n] /\ queue'[n][i] = queue[n][i + d]
                /\ i \in Nat /\ i >= 1
                /\ d = 0 => queue'[n] = queue[n]
                /\ d = 1 => queue'[n] = Tail(queue[n]) /\ queue[n] # <<>>
    <2>1. queue[n] \in Seq(Requests) /\ queue'[n] \in Seq(Requests) BY DEF Base, SdoTypeOK
    <2>2. i \in Nat /\ i >= 1 BY <2>1
    <2>3. CASE queue'[n] = queue[n]
        <3>1. i + 0 = i BY <2>2
        <3> QED BY <2>2, <2>3, <3>1
    <2>4. CASE queue[n] # <<>> /\ queue'[n] = Tail(queue[n])
        <3>1. i + 1 \in DOMAIN queue[n] /\ queue'[n][i] = queue[n][i + 1]
            BY <2>1, <2>4
        <3> QED BY <2>2, <2>4, <3>1
    <2>5. queue'[n] # <<>> BY <2>1
    <2> QED BY <2>3, <2>4, <2>5
<1>2. ASSUME NEW n \in Nodes, NEW i \in DOMAIN queue'[n], queue'[n][i] \in active
      PROVE  i = 1 /\ queue'[n] = queue[n]
    <2>1. PICK d \in {0, 1} :
                /\ i + d \in DOMAIN queue[n] /\ queue'[n][i] = queue[n][i + d]
                /\ i \in Nat /\ i >= 1
                /\ d = 0 => queue'[n] = queue[n]
        BY <1>1
    <2>2. i + d = 1 BY <1>2, <2>1 DEF Service
    <2>3. d = 0 /\ i = 1 BY <2>1, <2>2
    <2> QED BY <2>1, <2>3
<1>3. ASSUME NEW n \in Nodes, NEW i \in DOMAIN queue'[n], NEW j \in DOMAIN queue'[n],
             queue'[n][i] = queue'[n][j]
      PROVE  i = j
    <2>1. PICK d \in {0, 1} :
                /\ i + d \in DOMAIN queue[n] /\ queue'[n][i] = queue[n][i + d] /\ i \in Nat
                /\ d = 0 => queue'[n] = queue[n]
                /\ d = 1 => queue'[n] = Tail(queue[n]) /\ queue[n] # <<>>
        BY <1>1
    <2>2. PICK e \in {0, 1} :
                /\ j + e \in DOMAIN queue[n] /\ queue'[n][j] = queue[n][j + e] /\ j \in Nat
                /\ e = 0 => queue'[n] = queue[n]
                /\ e = 1 => queue'[n] = Tail(queue[n]) /\ queue[n] # <<>>
        BY <1>1
    <2>3. i + d = j + e BY <1>3, <2>1, <2>2 DEF Service
    <2>4. queue[n] \in Seq(Requests) /\ (queue[n] # <<>> => Tail(queue[n]) # queue[n])
        <3>1. queue[n] \in Seq(Requests) BY DEF Base, SdoTypeOK
        <3>2. queue[n] # <<>> => Len(Tail(queue[n])) # Len(queue[n]) BY <3>1
        <3> QED BY <3>1, <3>2
    <2>5. d = e BY <2>1, <2>2, <2>4
    <2> QED BY <2>1, <2>2, <2>3, <2>5
<1>4. Service' BY <1>2, <1>3 DEF Service
<1>5. \A q \in Requests : InQueue(q)' => InQueue(q)
    <2> SUFFICES ASSUME NEW q \in Requests, InQueue(q)' PROVE InQueue(q) OBVIOUS
    <2>1. PICK i \in DOMAIN queue'[NodeOf[q]] : queue'[NodeOf[q]][i] = q BY DEF InQueue
    <2>2. \E j \in DOMAIN queue[NodeOf[q]] : queue'[NodeOf[q]][i] = queue[NodeOf[q]][j]
        BY <1>1, NodesOf
    <2> QED BY <2>1, <2>2 DEF InQueue
<1>6. ASSUME NEW q \in active, queue'[NodeOf[q]] # queue[NodeOf[q]] PROVE ~InQueue(q)'
    <2>1. q \in Requests /\ NodeOf[q] \in Nodes BY BaseSplit, NodesOf DEF OtherTypes
    <2> QED BY <1>2, <1>6, <2>1 DEF InQueue
<1> QED BY <1>4, <1>5, <1>6

\* A request that timed out and left its queue stays out.
LEMMA LeftStays ==
    ASSUME late \subseteq late', \A p \in late : ~InQueue(p) => ~InQueue(p)'
    PROVE  \A q : Left(q) => Left(q)'
BY DEF Left, SameObject

\* A deadline that has passed stays passed.
LEMMA ExplainedStays ==
    ASSUME late \subseteq late'
    PROVE  \A r, q : Explained(r, q) => Explained(r, q)'
BY DEF Explained, SameObject

\* The service of the nodes while queues and service stay.
LEMMA ServiceStays ==
    ASSUME Service, UNCHANGED <<queue, active>>
    PROVE  Service' /\ \A q : InQueue(q) <=> InQueue(q)'
BY DEF Service, InQueue

\* Frames under way while nothing takes or makes one.
LEMMA TokensStay ==
    ASSUME Tokens, UNCHANGED <<todo, bus, receive>>, active \subseteq active'
    PROVE  Tokens' /\ \A q : Token(q)' => Token(q)
BY DEF Tokens, OneToken, Token, OneTask, OneFrame, OneAnswer, InTasks, InBuses, InReceived, Asks

\* A task is done and no request is asked that was not asked before.
LEMMA TokensLess ==
    ASSUME Base, Tokens, NEW t \in Threads, todo[t] # <<>>, NEW new \in Seq(TaskSet), Then(t, new),
           \A q \in Requests : \A i \in DOMAIN new : ~Asks(new[i], q), active \subseteq active',
           UNCHANGED <<bus, receive>>
    PROVE  /\ Tokens'
           /\ \A q \in Requests : Token(q)' => Token(q) /\ ~Asks(Head(todo[t]), q)
<1>1. ASSUME NEW q \in Requests
      PROVE  /\ OneToken(q)' /\ (Token(q)' => q \in active')
             /\ Token(q)' => Token(q) /\ ~Asks(Head(todo[t]), q)
    <2>1. OneToken(q) /\ (Token(q) => q \in active) BY DEF Tokens
    <2>2. OneTask(q)' /\ (InTasks(q)' => InTasks(q) /\ ~Asks(Head(todo[t]), q))
        BY <2>1, TokensOfTasks DEF OneToken
    <2>3. /\ OneFrame(q) <=> OneFrame(q)'
          /\ OneAnswer(q) <=> OneAnswer(q)'
          /\ InBuses(q) <=> InBuses(q)'
          /\ InReceived(q) <=> InReceived(q)'
        BY DEF OneFrame, OneAnswer, InBuses, InReceived
    <2>4. Asks(Head(todo[t]), q) => InTasks(q)
        <3>1. 1 \in DOMAIN todo[t] /\ Head(todo[t]) = todo[t][1] BY DEF Base, SdoTypeOK
        <3> QED BY <3>1 DEF InTasks
    <2>5. OneToken(q)' BY <2>1, <2>2, <2>3 DEF OneToken
    <2>6. Token(q)' => Token(q) /\ ~Asks(Head(todo[t]), q)
        BY <2>1, <2>2, <2>3, <2>4 DEF OneToken, Token
    <2> QED BY <2>1, <2>5, <2>6
<1> QED BY <1>1 DEF Tokens

\* A task is done: everything about the origin of answers from what changes.
LEMMA LineageTask ==
    ASSUME Base, Lineage, NEW t \in Threads, todo[t] # <<>>, NEW new \in Seq(TaskSet), Then(t, new),
           UNCHANGED <<running, late>>, active \subseteq active', Service', Tokens',
           \A p \in late : ~InQueue(p) => ~InQueue(p)',
           \A i \in DOMAIN new : Frames(new[i]) => t = Protocol,
           \A i \in DOMAIN new : \A q \in Requests : Pops(new[i], q) =>
               q \in active /\ (Token(q)' /\ Protocol \in running => Left(q)),
           \A q \in Requests :
               Protocol \in running /\ Token(q)' /\ (~InQueue(q)' \/ PopPending(q)) =>
                   (Token(q) /\ (~InQueue(q) \/ PopPending(q))) \/ Left(q)',
           \A i \in DOMAIN new : Answers(new[i]) => Explained(new[i].request, new[i].outcome),
           \A i \in DOMAIN events' : events'[i].critical => Explained(events'[i].request, events'[i].outcome),
           \A r \in Requests : Explained(r, result'[r])
    PROVE  Lineage'
<1>1. \A u \in Threads : \A j \in DOMAIN todo'[u] :
          \/ u = t /\ j \in DOMAIN new /\ todo'[u][j] = new[j]
          \/ \E i \in DOMAIN todo[u] : todo'[u][j] = todo[u][i]
    BY TasksBefore
<1>2. \A q : Left(q) => Left(q)' BY LeftStays
<1>3. \A r, q : Explained(r, q) => Explained(r, q)' BY ExplainedStays
<1>4. ProtocolOnly'
    <2>1. ASSUME NEW u \in Threads, NEW j \in DOMAIN todo'[u], Frames(todo'[u][j]) PROVE u = Protocol
        BY <1>1, <2>1 DEF Lineage, ProtocolOnly
    <2>2. ASSUME Protocol \notin running' PROVE todo'[Protocol] = <<>>
        <3>1. todo[Protocol] = <<>> /\ t # Protocol BY <2>2 DEF Lineage, ProtocolOnly
        <3> QED BY <3>1, AfterThen, Names DEF Base
    <2> QED BY <2>1, <2>2 DEF ProtocolOnly, Frames
<1>5. \A q : PopPending(q)' => PopPending(q) \/ \E i \in DOMAIN new : Pops(new[i], q)
    BY <1>1 DEF PopPending, Pops
<1>6. Departed'
    <2>1. ASSUME NEW q \in Requests, PopPending(q)' PROVE q \in active'
        BY <1>5, <2>1 DEF Lineage, Departed
    <2>2. ASSUME Protocol \in running, NEW q \in Requests, Token(q)', ~InQueue(q)' \/ PopPending(q)'
          PROVE  Left(q)'
        <3>1. CASE \E i \in DOMAIN new : Pops(new[i], q) BY <1>2, <2>2, <3>1
        <3>2. CASE ~InQueue(q)' \/ PopPending(q)
            <4>1. (Token(q) /\ (~InQueue(q) \/ PopPending(q))) \/ Left(q)' BY <2>2, <3>2
            <4> QED BY <1>2, <2>2, <4>1 DEF Lineage, Departed
        <3> QED BY <1>5, <2>2, <3>1, <3>2
    <2> QED BY <2>1, <2>2 DEF Departed
<1>7. AllExplained'
    <2>1. ASSUME NEW u \in Threads, NEW j \in DOMAIN todo'[u], Answers(todo'[u][j])
          PROVE  Explained(todo'[u][j].request, todo'[u][j].outcome)
        BY <1>1, <2>1 DEF Lineage, AllExplained
    <2>2. \A u \in Threads : \A j \in DOMAIN todo'[u] :
              Answers(todo'[u][j]) => Explained(todo[u][j].request, todo[u][j].outcome)'
        BY <2>1 DEF Explained, SameObject
    <2>3. \A i \in DOMAIN events' : events'[i].critical => Explained(events[i].request, events[i].outcome)'
        BY DEF Explained, SameObject
    <2>4. \A r \in Requests : Explained(r, result[r])' BY DEF Explained, SameObject
    <2> QED BY <2>2, <2>3, <2>4 DEF AllExplained, Answers
<1> QED BY <1>4, <1>6, <1>7 DEF Lineage

\* A task whose end asks nothing, removes nothing and promises nothing new.
LEMMA LineagePlain ==
    ASSUME Base, Lineage, NEW t \in Threads, todo[t] # <<>>, NEW new \in Seq(TaskSet), Then(t, new),
           UNCHANGED <<queue, active, late, bus, receive, running>>,
           \A i \in DOMAIN new : new[i].do \in {"emit_raw", "enqueue_event"},
           \A i \in DOMAIN new : Answers(new[i]) => Explained(new[i].request, new[i].outcome),
           \A i \in DOMAIN events' : events'[i].critical => Explained(events'[i].request, events'[i].outcome),
           \A r \in Requests : Explained(r, result'[r])
    PROVE  Lineage'
<1>1. Service' /\ \A q : InQueue(q) <=> InQueue(q)' BY ServiceStays DEF Lineage
<1>2. \A q : \A i \in DOMAIN new : ~Asks(new[i], q) /\ ~Pops(new[i], q) /\ ~Frames(new[i])
    BY DEF Asks, Pops, Frames
<1>3. Tokens' /\ \A q \in Requests : Token(q)' => Token(q) BY <1>2, TokensLess DEF Lineage
<1>4. \A q \in Requests :
          Protocol \in running /\ Token(q)' /\ (~InQueue(q)' \/ PopPending(q)) =>
              (Token(q) /\ (~InQueue(q) \/ PopPending(q))) \/ Left(q)'
    BY <1>1, <1>3
<1> QED BY <1>1, <1>2, <1>3, <1>4, LineageTask

-------------------------------------------------------------------------------
(* Where an answer comes from: the steps *)

\* A failure and no answer are no answers of another request.
LEMMA FailuresExplained == \A r \in Requests : Explained(r, Failure) /\ Explained(r, Unanswered)
BY Names DEF Explained

\* What the first task asks is on its way, and only there.
LEMMA HeadAsks ==
    ASSUME Base, Lineage, NEW t \in Threads, todo[t] # <<>>, NEW r \in Requests, Asks(Head(todo[t]), r)
    PROVE  /\ Token(r) /\ InTasks(r) /\ ~InBuses(r) /\ ~InReceived(r)
           /\ r \in active /\ OneToken(r)
<1>1. 1 \in DOMAIN todo[t] /\ Head(todo[t]) = todo[t][1] BY DEF Base, SdoTypeOK
<1>2. InTasks(r) BY <1>1 DEF InTasks
<1> QED BY <1>2 DEF Token, Lineage, Tokens, OneToken

\* A completion that may be queued leaves explained jobs.
LEMMA EventsExplained ==
    ASSUME Base, Lineage, NEW job \in Jobs, job.critical => Explained(job.request, job.outcome),
           events' = Queued(job)
    PROVE  \A i \in DOMAIN events' : events'[i].critical => Explained(events'[i].request, events'[i].outcome)
<1> DEFINE Fine(j) == j.critical => Explained(j.request, j.outcome)
           All(s) == \A i \in DOMAIN s : Fine(s[i])
<1>1. events \in Seq(Jobs) BY BaseSplit DEF OtherTypes
<1>2. All(events) /\ Fine(job) BY DEF Lineage, AllExplained
<1> HIDE DEF Fine
<1>3. ASSUME NEW s \in Seq(Jobs), All(s) PROVE All(Append(s, job))
    <2>1. \A i \in DOMAIN Append(s, job) :
              (i \in DOMAIN s /\ Append(s, job)[i] = s[i]) \/ Append(s, job)[i] = job
        OBVIOUS
    <2> QED BY <1>2, <1>3, <2>1
<1>4. ASSUME NEW i \in 1..Len(events) PROVE RemoveAt(events, i) \in Seq(Jobs) /\ All(RemoveAt(events, i))
    <2> DEFINE w == RemoveAt(events, i)
    <2>1. /\ w \in Seq(Jobs) /\ Len(w) = Len(events) - 1
          /\ \A j \in 1..(i - 1) : w[j] = events[j]
          /\ \A j \in i..(Len(events) - 1) : w[j] = events[j + 1]
        BY <1>1, <1>4, Removed
    <2> HIDE DEF w
    <2>2. Len(events) \in Nat /\ DOMAIN events = 1..Len(events) /\ DOMAIN w = 1..(Len(events) - 1) BY <1>1, <2>1
    <2>3. \A j \in DOMAIN w : \/ j \in 1..(i - 1) /\ j \in DOMAIN events
                              \/ j \in i..(Len(events) - 1) /\ j + 1 \in DOMAIN events
        BY <1>4, <2>2
    <2>4. \A j \in DOMAIN w : \E k \in DOMAIN events : w[j] = events[k] BY <2>1, <2>3
    <2>5. All(w) BY <1>2, <2>4
    <2> QED BY <2>1, <2>5 DEF w
<1>5. All(Queued(job)) BY <1>1, <1>2, <1>3, <1>4, QueuedJobs
<1> QED BY <1>5 DEF Fine

\* A completion that may be called leaves explained results.
LEMMA RunExplained ==
    ASSUME Base, Lineage, NEW job \in Jobs, job.critical, Explained(job.request, job.outcome), Run(job)
    PROVE  \A r \in Requests : Explained(r, result'[r])
<1>1. result \in [Requests -> Outcome \cup {Unanswered}] BY BaseSplit DEF OtherTypes
<1>2. result' = [result EXCEPT ![job.request] = job.outcome] BY DEF Run
<1>3. \A r \in Requests : result'[r] = IF r = job.request THEN job.outcome ELSE result[r] BY <1>1, <1>2
<1> QED BY <1>3 DEF Lineage, AllExplained

\* What was explained while nothing of it changes.
LEMMA KeptExplained ==
    ASSUME Lineage, UNCHANGED <<events, result>>
    PROVE  /\ \A i \in DOMAIN events' : events'[i].critical => Explained(events'[i].request, events'[i].outcome)
           /\ \A r \in Requests : Explained(r, result'[r])
BY DEF Lineage, AllExplained

\* A thread begins to finish with the request r.
LEMMA LineageFinish ==
    ASSUME Base, Lineage, NEW t \in Threads, todo[t] # <<>>, NEW new \in Seq(TaskSet), Then(t, new),
           NEW r \in Requests, r \in active, NEW out, Explained(r, out),
           \A i \in DOMAIN new : new[i] \in {Pop(r), Complete(r, out), Activate(NodeOf[r]), Emit},
           Protocol \in running /\ Token(r) /\ ~Asks(Head(todo[t]), r) => Left(r),
           UNCHANGED <<queue, active, late, bus, receive, running, events, result>>
    PROVE  Lineage'
<1>1. Service' /\ \A q : InQueue(q) <=> InQueue(q)' BY ServiceStays DEF Lineage
<1>2. \A i \in DOMAIN new :
          /\ \A q : ~Asks(new[i], q)
          /\ \A q : Pops(new[i], q) => q = r
          /\ ~Frames(new[i])
          /\ Answers(new[i]) => new[i].request = r /\ new[i].outcome = out
    BY DEF Asks, Pops, Frames, Answers, Pop, Complete, Activate, Emit
<1>3. Tokens' /\ \A q \in Requests : Token(q)' => Token(q) /\ ~Asks(Head(todo[t]), q)
    BY <1>2, TokensLess DEF Lineage
<1>4. \A q \in Requests :
          Protocol \in running /\ Token(q)' /\ (~InQueue(q)' \/ PopPending(q)) =>
              (Token(q) /\ (~InQueue(q) \/ PopPending(q))) \/ Left(q)'
    BY <1>1, <1>3
<1>5. \A i \in DOMAIN new : \A q \in Requests : Pops(new[i], q) =>
          q \in active /\ (Token(q)' /\ Protocol \in running => Left(q))
    BY <1>2, <1>3
<1>6. \A i \in DOMAIN new : Answers(new[i]) => Explained(new[i].request, new[i].outcome) BY <1>2
<1> QED BY <1>1, <1>2, <1>3, <1>4, <1>5, <1>6, KeptExplained, LineageTask

\* A request that could not be sent leaves no frame under way.
LEMMA LineageFailed ==
    ASSUME Base, Lineage, NEW t \in Threads, todo[t] # <<>>, NEW r \in Requests, Asks(Head(todo[t]), r),
           Then(t, Failed(r)),
           UNCHANGED <<queue, active, late, bus, receive, running, events, result>>
    PROVE  Lineage'
<1>1. r \in active /\ r \in submitted BY HeadAsks, BaseSplit DEF OtherTypes
<1>2. /\ Failed(r) \in Seq(TaskSet) /\ DOMAIN Failed(r) = 1..3
      /\ Failed(r)[1] = Pop(r) /\ Failed(r)[2] = Complete(r, Failure)
      /\ Failed(r)[3] = Activate(NodeOf[r])
    BY <1>1, MeantFailed
<1> DEFINE new == Failed(r)
<1>3. \A i \in DOMAIN new : i = 1 \/ i = 2 \/ i = 3 BY <1>2
<1>4. \A i \in DOMAIN new : new[i] \in {Pop(r), Complete(r, Failure), Activate(NodeOf[r]), Emit}
    BY <1>2, <1>3
<1>5. new \in Seq(TaskSet) /\ Then(t, new) BY <1>2
<1> HIDE DEF new
<1> QED BY <1>1, <1>4, <1>5, FailuresExplained, LineageFinish

\* Action by action: a frame goes from the check of stopping_ to the transport,
LEMMA LineageSendFrame ==
    ASSUME Base, Lineage, NEW t \in Threads, SendFrame(t)
    PROVE  Lineage'
<1>0. PICK r : r = Head(todo[t]).request OBVIOUS
<1>1. NextTask(t, "send_frame") /\ todo[t] # <<>>
      /\ UNCHANGED <<queueVars, completed, eventVars, busVars, submitted, stopVars>>
    BY DEF SendFrame, NextTask
<1>2. r \in submitted /\ r \in Requests BY <1>0, <1>1, HeadKnown
<1>3. Asks(Head(todo[t]), r) BY <1>0, <1>1 DEF NextTask, Asks
<1>4. UNCHANGED <<queue, active, late, bus, receive, running, events, result>>
    BY <1>1 DEF queueVars, eventVars, busVars, stopVars
<1>5. CASE Then(t, Failed(r)) BY <1>1, <1>2, <1>3, <1>4, <1>5, LineageFailed
<1>6. CASE Then(t, <<Transmit(r)>>)
    <2> DEFINE new == <<Transmit(r)>>
    <2>1. Transmit(r) \in TaskSet BY <1>2, TasksMade
    <2>2. new \in Seq(TaskSet) /\ DOMAIN new = {1} /\ new[1] = Transmit(r) BY <2>1
    <2>3. Then(t, new) BY <1>6
    <2> HIDE DEF new
    <2>4. \A i \in DOMAIN new : \A q : (Asks(new[i], q) <=> q = r) /\ ~Pops(new[i], q)
          /\ ~Frames(new[i]) /\ ~Answers(new[i])
        BY <2>2 DEF Asks, Pops, Frames, Answers, Transmit
    <2>5. Service' /\ \A q : InQueue(q) <=> InQueue(q)' BY <1>4, ServiceStays DEF Lineage
    <2>6. \A q : /\ OneFrame(q) <=> OneFrame(q)'
                 /\ OneAnswer(q) <=> OneAnswer(q)'
                 /\ InBuses(q) <=> InBuses(q)'
                 /\ InReceived(q) <=> InReceived(q)'
        BY <1>4 DEF OneFrame, OneAnswer, InBuses, InReceived
    <2>7. ASSUME NEW q \in Requests
          PROVE  OneToken(q)' /\ (Token(q)' => q \in active' /\ Token(q))
        <3>1. OneToken(q) /\ (Token(q) => q \in active) BY DEF Lineage, Tokens
        <3>2. CASE q = r
            <4>1. Token(r) /\ ~InBuses(r) /\ ~InReceived(r) /\ r \in active BY <1>1, <1>2, <1>3, HeadAsks
            <4>2. \A i, j \in DOMAIN new : i = j BY <2>2
            <4>3. OneTask(q)' BY <1>1, <1>3, <2>2, <2>3, <3>1, <3>2, <4>2, TokensOfTasks DEF OneToken
            <4> QED BY <1>4, <2>6, <3>1, <3>2, <4>1, <4>3 DEF OneToken, Token
        <3>3. CASE q # r
            <4>1. OneTask(q)' /\ (InTasks(q)' => InTasks(q))
                BY <1>1, <2>2, <2>3, <2>4, <3>1, <3>3, TokensOfTasks DEF OneToken
            <4> QED BY <1>4, <2>6, <3>1, <4>1 DEF OneToken, Token
        <3> QED BY <3>2, <3>3
    <2>8. Tokens' BY <2>7 DEF Tokens
    <2>9. \A q \in Requests :
              Protocol \in running /\ Token(q)' /\ (~InQueue(q)' \/ PopPending(q)) =>
                  (Token(q) /\ (~InQueue(q) \/ PopPending(q))) \/ Left(q)'
        BY <2>5, <2>7
    <2> QED BY <1>1, <1>4, <2>2, <2>3, <2>4, <2>5, <2>8, <2>9, KeptExplained, LineageTask
<1> QED BY <1>0, <1>5, <1>6 DEF SendFrame

\* from the transport to the bus;
LEMMA LineageTransportSend ==
    ASSUME Base, Lineage, NEW t \in Threads, TransportSend(t)
    PROVE  Lineage'
<1>0. PICK r : r = Head(todo[t]).request OBVIOUS
<1>1. NextTask(t, "transport_send") /\ todo[t] # <<>>
      /\ UNCHANGED <<queueVars, completed, eventVars, receive, submitted, stopVars>>
    BY DEF TransportSend, NextTask
<1>2. r \in submitted /\ r \in Requests BY <1>0, <1>1, HeadKnown
<1>3. Asks(Head(todo[t]), r) BY <1>0, <1>1 DEF NextTask, Asks
<1>4. UNCHANGED <<queue, active, late, receive, running, events, result>>
    BY <1>1 DEF queueVars, eventVars, stopVars
<1>5. CASE Then(t, Failed(r)) /\ UNCHANGED bus BY <1>1, <1>2, <1>3, <1>4, <1>5, LineageFailed
<1>6. CASE Then(t, <<>>) /\ bus' = [bus EXCEPT ![NodeOf[r]] = Append(@, r)]
    <2>1. <<>> \in Seq(TaskSet) /\ DOMAIN <<>> = {} BY PlanNone
    <2>2. bus \in [Nodes -> Seq(Requests)] /\ NodeOf[r] \in Nodes BY <1>2, NodesOf, BaseSplit DEF OtherTypes
    <2>3. Token(r) /\ ~InBuses(r) /\ ~InReceived(r) /\ r \in active BY <1>1, <1>2, <1>3, HeadAsks
    <2>5. Service' /\ \A q : InQueue(q) <=> InQueue(q)' BY <1>4, ServiceStays DEF Lineage
    <2>6. \A q : /\ OneAnswer(q) <=> OneAnswer(q)'
                 /\ InReceived(q) <=> InReceived(q)'
        BY <1>4 DEF OneAnswer, InReceived
    <2>7. ASSUME NEW q \in Requests
          PROVE  OneToken(q)' /\ (Token(q)' => q \in active' /\ Token(q))
        <3>1. OneToken(q) /\ (Token(q) => q \in active) BY DEF Lineage, Tokens
        <3>2. OneTask(q)' /\ (InTasks(q)' => InTasks(q) /\ ~Asks(Head(todo[t]), q))
            BY <1>1, <1>6, <2>1, <3>1, TokensOfTasks DEF OneToken
        <3>3. OneFrame(q)' /\ (InBuses(q)' => InBuses(q) \/ q = r)
            BY <1>2, <1>6, <2>2, <2>3, <3>1, BusSends DEF OneToken
        <3>4. q = r => ~InTasks(q)' BY <1>3, <3>2
        <3>5. CASE q = r BY <1>4, <2>3, <2>6, <3>1, <3>2, <3>3, <3>4, <3>5 DEF OneToken, Token
        <3>6. CASE q # r BY <1>4, <2>6, <3>1, <3>2, <3>3, <3>6 DEF OneToken, Token
        <3> QED BY <3>5, <3>6
    <2>8. Tokens' BY <2>7 DEF Tokens
    <2>9. \A q \in Requests :
              Protocol \in running /\ Token(q)' /\ (~InQueue(q)' \/ PopPending(q)) =>
                  (Token(q) /\ (~InQueue(q) \/ PopPending(q))) \/ Left(q)'
        BY <2>5, <2>7
    <2> QED BY <1>1, <1>4, <1>6, <2>1, <2>5, <2>8, <2>9, KeptExplained, LineageTask
<1> QED BY <1>0, <1>5, <1>6 DEF TransportSend

\* the request that comes into service has no frame under way yet;
LEMMA LineageActivateNext ==
    ASSUME Base, Lineage, NEW t \in Threads, ActivateNext(t)
    PROVE  Lineage'
<1>0. PICK n : n = Head(todo[t]).node OBVIOUS
<1>1. NextTask(t, "activate_next_sdo") /\ todo[t] # <<>>
      /\ UNCHANGED <<queue, late, completed, eventVars, busVars, submitted, stopVars>>
    BY DEF ActivateNext, NextTask
<1>2. n \in Nodes BY <1>0, <1>1, HeadTask, TaskParts DEF Base, NextTask
<1>3. UNCHANGED <<queue, late, bus, receive, running, events, result>>
    BY <1>1 DEF eventVars, busVars, stopVars
<1>4. CASE Then(t, <<>>) /\ active' = active
    <2>1. <<>> \in Seq(TaskSet) /\ DOMAIN <<>> = {} BY PlanNone
    <2> QED BY <1>1, <1>3, <1>4, <2>1, KeptExplained, LineagePlain
<1>5. CASE Waiting(n) /\ active' = active \cup {Head(queue[n])} /\ Then(t, <<Check(Head(queue[n]))>>)
    <2>0. PICK r : r = Head(queue[n]) OBVIOUS
    <2> DEFINE new == <<Check(r)>>
    <2>1. /\ r \in Requests /\ r \notin active /\ NodeOf[r] = n /\ active' = active \cup {r}
          /\ 1 \in DOMAIN queue[n] /\ queue[n][1] = r
        BY <1>2, <1>5, <2>0, FirstInQueue DEF Waiting
    <2>2. Check(r) \in TaskSet BY <2>1, TasksMade
    <2>3. new \in Seq(TaskSet) /\ DOMAIN new = {1} /\ new[1] = Check(r) BY <2>2
    <2>4. Then(t, new) BY <1>5, <2>0
    <2> HIDE DEF new
    <2>5. \A i \in DOMAIN new : \A q : (Asks(new[i], q) <=> q = r) /\ ~Pops(new[i], q)
          /\ ~Frames(new[i]) /\ ~Answers(new[i])
        BY <2>3 DEF Asks, Pops, Frames, Answers, Check
    <2>6. ~Token(r) /\ ~PopPending(r) /\ InQueue(r)
        BY <2>1 DEF Lineage, Tokens, Departed, InQueue
    <2>7. Service'
        <3>1. ASSUME NEW m \in Nodes, NEW i \in DOMAIN queue[m], queue[m][i] \in active' PROVE i = 1
            <4>1. CASE queue[m][i] \in active BY <4>1 DEF Lineage, Service
            <4>2. CASE queue[m][i] = r
                <5>1. m = n BY <2>1, <4>2 DEF Base, Known
                <5> QED BY <1>2, <2>1, <4>2, <5>1 DEF Lineage, Service
            <4> QED BY <2>1, <3>1, <4>1, <4>2
        <3> QED BY <1>3, <3>1 DEF Lineage, Service
    <2>8. \A q : InQueue(q) <=> InQueue(q)' BY <1>3 DEF InQueue
    <2>9. \A q : /\ OneFrame(q) <=> OneFrame(q)'
                 /\ OneAnswer(q) <=> OneAnswer(q)'
                 /\ InBuses(q) <=> InBuses(q)'
                 /\ InReceived(q) <=> InReceived(q)'
        BY <1>3 DEF OneFrame, OneAnswer, InBuses, InReceived
    <2>10. ASSUME NEW q \in Requests
           PROVE  OneToken(q)' /\ (Token(q)' => q \in active') /\ (Token(q)' => Token(q) \/ q = r)
        <3>1. OneToken(q) /\ (Token(q) => q \in active) BY DEF Lineage, Tokens
        <3>2. CASE q = r
            <4>1. ~InTasks(q) /\ ~InBuses(q) /\ ~InReceived(q) BY <2>6, <3>2 DEF Token
            <4>2. \A i, j \in DOMAIN new : i = j BY <2>3
            <4>3. OneTask(q)' BY <1>1, <2>3, <2>4, <3>1, <4>1, <4>2, TokensOfTasks DEF OneToken
            <4> QED BY <2>1, <2>9, <3>1, <3>2, <4>1, <4>3 DEF OneToken
        <3>3. CASE q # r
            <4>1. OneTask(q)' /\ (InTasks(q)' => InTasks(q))
                BY <1>1, <2>3, <2>4, <2>5, <3>1, <3>3, TokensOfTasks DEF OneToken
            <4> QED BY <2>1, <2>9, <3>1, <4>1 DEF OneToken, Token
        <3> QED BY <3>2, <3>3
    <2>11. Tokens' BY <2>10 DEF Tokens
    <2>12. \A q \in Requests :
              Protocol \in running /\ Token(q)' /\ (~InQueue(q)' \/ PopPending(q)) =>
                  (Token(q) /\ (~InQueue(q) \/ PopPending(q))) \/ Left(q)'
        BY <2>6, <2>8, <2>10
    <2>13. active \subseteq active' BY <2>1
    <2> QED BY <1>1, <1>3, <2>3, <2>4, <2>5, <2>7, <2>8, <2>11, <2>12, <2>13, KeptExplained, LineageTask
<1> QED BY <1>0, <1>4, <1>5 DEF ActivateNext

\* a completion keeps its outcome on the way to the event queue
LEMMA LineageCompleteSdo ==
    ASSUME Base, Lineage, NEW t \in Threads, CompleteSdo(t)
    PROVE  Lineage'
<1>0. PICK task : task = Head(todo[t]) OBVIOUS
<1>1. NextTask(t, "complete_sdo") /\ todo[t] # <<>>
      /\ UNCHANGED <<queueVars, eventVars, busVars, submitted, stopVars>>
    BY DEF CompleteSdo, NextTask
<1>2. task.request \in Requests /\ task.outcome \in Outcome /\ task.do = "complete_sdo"
    BY <1>0, <1>1, HeadTask, TaskParts DEF Base, NextTask
<1>3. UNCHANGED <<queue, active, late, bus, receive, running, events, result>>
    BY <1>1 DEF queueVars, eventVars, busVars, stopVars
<1>4. CASE Then(t, <<>>)
    <2>1. <<>> \in Seq(TaskSet) /\ DOMAIN <<>> = {} BY PlanNone
    <2> QED BY <1>1, <1>3, <1>4, <2>1, KeptExplained, LineagePlain
<1>5. CASE Then(t, <<Post(task.request, task.outcome)>>)
    <2> DEFINE k == Post(task.request, task.outcome)
               new == <<k>>
    <2>1. k \in TaskSet BY <1>2, TasksMade
    <2>2. k.do = "enqueue_event" /\ k.request = task.request /\ k.outcome = task.outcome BY DEF Post
    <2>3. 1 \in DOMAIN todo[t] /\ Head(todo[t]) = todo[t][1] BY <1>1 DEF Base, SdoTypeOK
    <2>4. Explained(task.request, task.outcome) BY <1>0, <1>2, <2>3 DEF Lineage, AllExplained, Answers
    <2>5. new \in Seq(TaskSet) /\ DOMAIN new = {1} /\ new[1] = k BY <2>1
    <2>6. Then(t, new) BY <1>5
    <2> HIDE DEF k, new
    <2> QED BY <1>1, <1>3, <2>2, <2>4, <2>5, <2>6, KeptExplained, LineagePlain
<1> QED BY <1>0, <1>4, <1>5 DEF CompleteSdo

\* and from there to its call;
LEMMA LineagePostEvent ==
    ASSUME Base, Lineage, NEW t \in Threads, PostEvent(t)
    PROVE  Lineage'
<1>1. NextTask(t, "enqueue_event") /\ todo[t] # <<>> /\ Then(t, <<>>)
      /\ UNCHANGED <<queueVars, completed, busVars, submitted, stopVars>>
    BY DEF PostEvent, NextTask
<1>0. PICK job : job = Completion(Head(todo[t]).request, Head(todo[t]).outcome) OBVIOUS
<1>2. job \in Jobs /\ job.critical /\ job.request = Head(todo[t]).request
      /\ job.outcome = Head(todo[t]).outcome
    BY <1>0, <1>1, PostedJob
<1>3. UNCHANGED <<queue, active, late, bus, receive, running>> BY <1>1 DEF queueVars, busVars, stopVars
<1>4. <<>> \in Seq(TaskSet) /\ DOMAIN <<>> = {} BY PlanNone
<1>5. 1 \in DOMAIN todo[t] /\ Head(todo[t]) = todo[t][1] /\ todo[t][1].do = "enqueue_event"
    BY <1>1, HeadTask DEF Base
<1>6. Explained(job.request, job.outcome) BY <1>2, <1>5 DEF Lineage, AllExplained, Answers
<1>7. CASE Run(job) /\ UNCHANGED events
    <2>1. \A r \in Requests : Explained(r, result'[r]) BY <1>2, <1>6, <1>7, RunExplained
    <2>2. \A i \in DOMAIN events' : events'[i].critical => Explained(events'[i].request, events'[i].outcome)
        BY <1>7 DEF Lineage, AllExplained
    <2> QED BY <1>1, <1>3, <1>4, <2>1, <2>2, LineagePlain
<1>8. CASE events' = Queued(job) /\ UNCHANGED <<ran, result>>
    <2>1. \A r \in Requests : Explained(r, result'[r]) BY <1>8 DEF Lineage, AllExplained
    <2>2. \A i \in DOMAIN events' : events'[i].critical => Explained(events'[i].request, events'[i].outcome)
        BY <1>2, <1>6, <1>8, EventsExplained
    <2> QED BY <1>1, <1>3, <1>4, <2>1, <2>2, LineagePlain
<1> QED BY <1>0, <1>7, <1>8 DEF PostEvent

\* observers and stop() have nothing to do with answers;
LEMMA LineageSmallTasks ==
    ASSUME Base, Lineage, NEW t \in Threads, EmitRaw(t) \/ StopEndsEvents(t) \/ StopJoins(t)
    PROVE  Lineage'
<1>1. <<>> \in Seq(TaskSet) /\ DOMAIN <<>> = {} BY PlanNone
<1>2. /\ todo[t] # <<>> /\ Then(t, <<>>)
      /\ UNCHANGED <<queue, active, late, bus, receive, running, result>>
    BY DEF EmitRaw, StopEndsEvents, StopJoins, NextTask, queueVars, eventVars, busVars, stopVars
<1>3. \A r \in Requests : Explained(r, result'[r]) BY <1>2 DEF Lineage, AllExplained
<1>4. CASE events' = events
    <2>1. \A i \in DOMAIN events' : events'[i].critical => Explained(events'[i].request, events'[i].outcome)
        BY <1>4 DEF Lineage, AllExplained
    <2> QED BY <1>1, <1>2, <1>3, <2>1, LineagePlain
<1>5. CASE events' = Queued(RawFrame)
    <2>1. \A i \in DOMAIN events' : events'[i].critical => Explained(events'[i].request, events'[i].outcome)
        BY <1>5, JobsMade, EventsExplained
    <2> QED BY <1>1, <1>2, <1>3, <2>1, LineagePlain
<1> QED BY <1>4, <1>5 DEF EmitRaw, StopEndsEvents, StopJoins, eventVars

\* what is taken out was about to be, so its late answer was explained before;
LEMMA LineagePopSdo ==
    ASSUME Base, Lineage, NEW t \in Threads, PopSdo(t)
    PROVE  Lineage'
<1>0. PICK r : r = Head(todo[t]).request OBVIOUS
<1>1. NextTask(t, "pop_sdo") /\ todo[t] # <<>> /\ Then(t, <<>>)
      /\ UNCHANGED <<active, late, completed, eventVars, busVars, submitted, stopVars>>
    BY DEF PopSdo, NextTask
<1>2. r \in Requests /\ NodeOf[r] \in Nodes BY <1>0, <1>1, HeadKnown, NodesOf
<1>3. UNCHANGED <<active, late, bus, receive, running, events, result>>
    BY <1>1 DEF eventVars, busVars, stopVars
<1>4. <<>> \in Seq(TaskSet) /\ DOMAIN <<>> = {} BY PlanNone
<1>5. 1 \in DOMAIN todo[t] /\ Head(todo[t]) = todo[t][1] /\ todo[t][1].do = "pop_sdo"
    BY <1>1, HeadTask DEF Base
<1>6. PopPending(r) BY <1>0, <1>5 DEF PopPending, Pops
<1>7. queue \in [Nodes -> Seq(Requests)] BY DEF Base, SdoTypeOK
<1>8. queue' = [queue EXCEPT ![NodeOf[r]] = IF HeadIs(NodeOf[r], r) THEN Tail(@) ELSE @]
    BY <1>0 DEF PopSdo
<1>9. /\ \A n \in Nodes : n # NodeOf[r] => queue'[n] = queue[n]
      /\ HeadIs(NodeOf[r], r) => queue'[NodeOf[r]] = Tail(queue[NodeOf[r]])
      /\ ~HeadIs(NodeOf[r], r) => queue'[NodeOf[r]] = queue[NodeOf[r]]
    BY <1>2, <1>7, <1>8
<1>10. \A n \in Nodes : \/ queue'[n] = queue[n]
                        \/ queue[n] # <<>> /\ queue'[n] = Tail(queue[n])
                        \/ queue'[n] = <<>>
    BY <1>9 DEF HeadIs
<1>11. Base' BY BasePopSdo
<1>12. queue' \in [Nodes -> Seq(Requests)] BY <1>11 DEF Base, SdoTypeOK
<1>13. /\ Service'
       /\ \A q \in Requests : InQueue(q)' => InQueue(q)
    BY <1>3, <1>10, <1>12, QueuesShrink DEF Lineage
<1>14. Tokens' /\ \A q \in Requests : Token(q)' => Token(q)
    BY <1>1, <1>3, <1>4, TokensLess DEF Lineage
<1>15. ASSUME NEW q \in Requests, Token(q), ~InQueue(q)', InQueue(q) PROVE q = r
    <2>1. queue'[NodeOf[q]] # queue[NodeOf[q]] BY <1>15 DEF InQueue
    <2>2. NodeOf[q] = NodeOf[r] /\ HeadIs(NodeOf[r], r) BY <1>9, <2>1, NodesOf
    <2>3. q \in active BY <1>15 DEF Lineage, Tokens
    <2>4. PICK i \in DOMAIN queue[NodeOf[q]] : queue[NodeOf[q]][i] = q BY <1>15 DEF InQueue
    <2>5. i = 1 BY <1>2, <2>2, <2>3, <2>4 DEF Lineage, Service
    <2>6. Head(queue[NodeOf[r]]) = queue[NodeOf[r]][1] BY <1>2, <2>2, FirstInQueue DEF HeadIs
    <2> QED BY <2>2, <2>4, <2>5, <2>6 DEF HeadIs
<1>16. \A q \in Requests :
              Protocol \in running /\ Token(q)' /\ (~InQueue(q)' \/ PopPending(q)) =>
                  (Token(q) /\ (~InQueue(q) \/ PopPending(q))) \/ Left(q)'
    BY <1>6, <1>14, <1>15
<1>17. late \subseteq Requests BY BaseSplit DEF OtherTypes
<1> QED BY <1>1, <1>3, <1>4, <1>13, <1>14, <1>16, <1>17, KeptExplained, LineageTask

\* the received answers go to the protocol thread;
LEMMA LineageTakeFrames ==
    ASSUME Base, Lineage, NEW t \in Threads, TakeFrames(t)
    PROVE  Lineage'
<1>1. NextTask(t, "wait_for") /\ todo[t] # <<>> /\ Then(t, FrameTasks) /\ receive' = <<>>
      /\ UNCHANGED <<queueVars, completed, eventVars, bus, submitted, stopVars>>
    BY DEF TakeFrames, FrameTasks, NextTask
<1>2. UNCHANGED <<queue, active, late, bus, running, events, result>>
    BY <1>1 DEF queueVars, eventVars, stopVars
<1>3. 1 \in DOMAIN todo[t] /\ Head(todo[t]) = todo[t][1] /\ todo[t][1].do = "wait_for"
    BY <1>1, HeadTask DEF Base
<1>4. t = Protocol BY <1>3 DEF Lineage, ProtocolOnly, Frames
<1>5. receive \in Seq(Requests) BY BaseSplit DEF OtherTypes
<1> DEFINE new == FrameTasks
<1>6. /\ new \in Seq(TaskSet) /\ DOMAIN new = 1..(Len(receive) + 1) /\ Len(receive) \in Nat
      /\ \A i \in 1..Len(receive) : new[i] = Process(receive[i]) /\ receive[i] \in Requests
      /\ new[Len(receive) + 1] = Timeouts
    BY <1>5, FramesToProcess
<1>7. Then(t, new) BY <1>1
<1> HIDE DEF new
<1>8. \A i \in DOMAIN new : i \in DOMAIN receive \/ i = Len(receive) + 1 BY <1>5, <1>6
<1>9. DOMAIN receive = 1..Len(receive) BY <1>5
<1>10. \A i \in DOMAIN new :
          /\ \A q : ~Pops(new[i], q)
          /\ ~Answers(new[i])
          /\ \A q : Asks(new[i], q) => i \in DOMAIN receive /\ receive[i] = q
    <2> SUFFICES ASSUME NEW i \in DOMAIN new
                 PROVE  /\ \A q : ~Pops(new[i], q)
                        /\ ~Answers(new[i])
                        /\ \A q : Asks(new[i], q) => i \in DOMAIN receive /\ receive[i] = q
        OBVIOUS
    <2>1. CASE i \in DOMAIN receive
        <3>1. new[i] = Process(receive[i]) BY <1>6, <1>9, <2>1
        <3>2. /\ \A q : ~Pops(Process(receive[i]), q)
              /\ ~Answers(Process(receive[i]))
              /\ \A q : Asks(Process(receive[i]), q) => receive[i] = q
            BY DEF Pops, Answers, Asks, Process
        <3> QED BY <2>1, <3>1, <3>2
    <2>2. CASE i = Len(receive) + 1
        <3>1. new[i] = Timeouts BY <1>6, <2>2
        <3>2. \A q : ~Pops(Timeouts, q) /\ ~Answers(Timeouts) /\ ~Asks(Timeouts, q)
            BY DEF Pops, Answers, Asks, Timeouts
        <3> QED BY <3>1, <3>2
    <2> QED BY <1>8, <2>1, <2>2
<1>11. Service' /\ \A q : InQueue(q) <=> InQueue(q)' BY <1>2, ServiceStays DEF Lineage
<1>12. \A q : /\ OneFrame(q) <=> OneFrame(q)'
              /\ InBuses(q) <=> InBuses(q)'
    BY <1>2 DEF OneFrame, InBuses
<1>13. \A q : OneAnswer(q)' /\ ~InReceived(q)'
    <2>1. DOMAIN receive' = {} BY <1>1
    <2> QED BY <2>1 DEF OneAnswer, InReceived
<1>14. ASSUME NEW q \in Requests
       PROVE  OneToken(q)' /\ (Token(q)' => Token(q))
    <2>1. OneToken(q) BY DEF Lineage, Tokens
    <2>2. CASE InReceived(q)
        <3>1. ~InTasks(q) /\ ~InBuses(q) /\ Token(q) BY <2>1, <2>2 DEF OneToken, Token
        <3>2. \A i, j \in DOMAIN new : Asks(new[i], q) /\ Asks(new[j], q) => i = j
            BY <1>10, <2>1 DEF OneToken, OneAnswer
        <3>3. OneTask(q)' BY <1>1, <1>6, <1>7, <2>1, <3>1, <3>2, TokensOfTasks DEF OneToken
        <3> QED BY <1>12, <1>13, <2>1, <3>1, <3>3 DEF OneToken
    <2>3. CASE ~InReceived(q)
        <3>1. \A i \in DOMAIN new : ~Asks(new[i], q) BY <1>10, <2>3 DEF InReceived
        <3>2. OneTask(q)' /\ (InTasks(q)' => InTasks(q))
            BY <1>1, <1>6, <1>7, <2>1, <3>1, TokensOfTasks DEF OneToken
        <3> QED BY <1>12, <1>13, <2>1, <3>2 DEF OneToken, Token
    <2> QED BY <2>2, <2>3
<1>15. Tokens' BY <1>2, <1>14 DEF Lineage, Tokens
<1>16. \A q \in Requests :
              Protocol \in running /\ Token(q)' /\ (~InQueue(q)' \/ PopPending(q)) =>
                  (Token(q) /\ (~InQueue(q) \/ PopPending(q))) \/ Left(q)'
    BY <1>11, <1>14
<1> QED BY <1>1, <1>2, <1>4, <1>6, <1>7, <1>10, <1>11, <1>15, <1>16, KeptExplained, LineageTask

\* an answer that is not for the request in service left its queue by a timeout;
LEMMA LineageProcessSdo ==
    ASSUME Base, Lineage, NEW t \in Threads, ProcessSdo(t)
    PROVE  Lineage'
<1>0. PICK answer : answer = Head(todo[t]).answer OBVIOUS
<1>1. NextTask(t, "process_sdo") /\ todo[t] # <<>>
      /\ UNCHANGED <<queueVars, completed, eventVars, busVars, submitted, stopVars>>
    BY DEF ProcessSdo, NextTask
<1>2. UNCHANGED <<queue, active, late, bus, receive, running, events, result>>
    BY <1>1 DEF queueVars, eventVars, busVars, stopVars
<1>3. answer \in Requests BY <1>0, <1>1, HeadTask, TaskParts DEF Base, NextTask
<1>4. 1 \in DOMAIN todo[t] /\ Head(todo[t]) = todo[t][1] /\ todo[t][1].do = "process_sdo"
    BY <1>1, HeadTask DEF Base
<1>5. t = Protocol /\ Protocol \in running
    <2>1. t = Protocol BY <1>4 DEF Lineage, ProtocolOnly, Frames
    <2> QED BY <1>1, <2>1 DEF Lineage, ProtocolOnly
<1>6. Asks(Head(todo[t]), answer) BY <1>0, <1>4 DEF Asks
<1>7. Token(answer) /\ answer \in active BY <1>1, <1>3, <1>6, HeadAsks
<1>8. CASE Then(t, Raw)
    <2>1. \A i \in DOMAIN Raw : Raw[i].do \in {"emit_raw", "enqueue_event"} /\ ~Answers(Raw[i])
        BY RawTasks DEF Emit, Answers
    <2> QED BY <1>1, <1>2, <1>8, <2>1, RawTasks, KeptExplained, LineagePlain
<1>9. ASSUME NEW r \in Requests, Matches(answer, r),
             Then(t, <<Pop(r), Complete(r, answer), Activate(NodeOf[r])>> \o Raw)
      PROVE  Lineage'
    <2>1. /\ NodeOf[r] \in Nodes /\ queue[NodeOf[r]] # <<>> /\ Head(queue[NodeOf[r]]) = r
          /\ r \in active /\ SameObject(answer, r) /\ r \in submitted
        BY <1>3, <1>9, Matched
    <2>2. 1 \in DOMAIN queue[NodeOf[r]] /\ queue[NodeOf[r]][1] = r BY <2>1, FirstInQueue
    <2>3. InQueue(r) BY <2>2 DEF InQueue
    <2>4. ASSUME answer # r PROVE Left(answer)
        <3>1. NodeOf[answer] = NodeOf[r] BY <2>1 DEF SameObject
        <3>2. ~InQueue(answer)
            <4> SUFFICES ASSUME InQueue(answer) PROVE FALSE OBVIOUS
            <4>1. PICK i \in DOMAIN queue[NodeOf[r]] : queue[NodeOf[r]][i] = answer
                BY <3>1 DEF InQueue
            <4>2. i = 1 BY <1>7, <2>1, <4>1 DEF Lineage, Service
            <4> QED BY <2>2, <2>4, <4>1, <4>2
        <3> QED BY <1>3, <1>5, <1>7, <3>2 DEF Lineage, Departed
    <2>5. answer # r => /\ Left(r)
                        /\ \E p \in late : p # r /\ SameObject(p, r)
        BY <2>1, <2>3, <2>4 DEF Left, SameObject
    <2>6. Explained(r, answer) BY <2>1, <2>5 DEF Explained
    <2>7. ~Asks(Head(todo[t]), r) => Left(r) BY <1>6, <2>5
    <2>0. PICK new : new = <<Pop(r), Complete(r, answer), Activate(NodeOf[r])>> \o Raw OBVIOUS
    <2>8. /\ new \in Seq(TaskSet) /\ DOMAIN new = 1..(3 + Len(Raw))
          /\ new[1] = Pop(r) /\ new[2] = Complete(r, answer) /\ new[3] = Activate(NodeOf[r])
          /\ \A i \in 4..(3 + Len(Raw)) : new[i] = Emit
        <3>1. answer \in Outcome BY <1>3, Outcomes
        <3>2. /\ new \in Seq(TaskSet) /\ Len(new) = 3 + Len(Raw) /\ DOMAIN new = 1..(3 + Len(Raw))
              /\ new[1] = Pop(r) /\ new[2] = Complete(r, answer) /\ new[3] = Activate(NodeOf[r])
              /\ \A i \in 4..(3 + Len(Raw)) : new[i] = Emit
              /\ Plan(new)
            BY <2>0, <3>1, PlanFinishRaw, ZenonT(30)
        <3> QED BY <3>2
    <2>9. Then(t, new) BY <1>9, <2>0
    <2>10. \A i \in DOMAIN new : i = 1 \/ i = 2 \/ i = 3 \/ i \in 4..(3 + Len(Raw)) BY <2>8, RawTasks
    <2>11. \A i \in DOMAIN new : new[i] \in {Pop(r), Complete(r, answer), Activate(NodeOf[r]), Emit}
        BY <2>8, <2>10
    <2> QED BY <1>1, <1>2, <2>1, <2>6, <2>7, <2>8, <2>9, <2>11, LineageFinish
<1> QED BY <1>0, <1>8, <1>9 DEF ProcessSdo

\* The queues are shortened and nothing but the ends of requests is added.
LEMMA LineageShortened ==
    ASSUME Base, Base', Lineage, NEW t \in Threads, todo[t] # <<>>, NEW new \in Seq(TaskSet), Then(t, new),
           UNCHANGED <<active, late, bus, receive, running, events, result>>,
           \A n \in Nodes : \/ queue'[n] = queue[n]
                            \/ queue[n] # <<>> /\ queue'[n] = Tail(queue[n])
                            \/ queue'[n] = <<>>,
           \A i \in DOMAIN new : \/ \E n : new[i] = Activate(n)
                                 \/ \E r \in Requests : new[i] = Complete(r, Failure),
           \A n \in Nodes : queue'[n] # queue[n] /\ Protocol \in running /\ queue[n] # <<>> =>
               Head(queue[n]) \in late
    PROVE  Lineage'
<1>1. \A i \in DOMAIN new :
          /\ \A q : ~Asks(new[i], q) /\ ~Pops(new[i], q)
          /\ ~Frames(new[i])
          /\ Answers(new[i]) => new[i].request \in Requests /\ new[i].outcome = Failure
    BY DEF Asks, Pops, Frames, Answers, Activate, Complete
<1>2. \A i \in DOMAIN new : Answers(new[i]) => Explained(new[i].request, new[i].outcome)
    BY <1>1, FailuresExplained
<1>3. queue' \in [Nodes -> Seq(Requests)] BY DEF Base, SdoTypeOK
<1>4. /\ Service'
      /\ \A q \in Requests : InQueue(q)' => InQueue(q)
      /\ \A q \in active : queue'[NodeOf[q]] # queue[NodeOf[q]] => ~InQueue(q)'
    BY <1>3, QueuesShrink DEF Lineage
<1>5. Tokens' /\ \A q \in Requests : Token(q)' => Token(q)
    BY <1>1, TokensLess DEF Lineage
<1>6. late \subseteq Requests BY BaseSplit DEF OtherTypes
<1>7. ASSUME Protocol \in running, NEW q \in Requests, Token(q), ~InQueue(q)', InQueue(q)
      PROVE  Left(q)'
    <2>1. NodeOf[q] \in Nodes /\ queue'[NodeOf[q]] # queue[NodeOf[q]] BY <1>7, NodesOf DEF InQueue
    <2>2. q \in active BY <1>7 DEF Lineage, Tokens
    <2>3. PICK i \in DOMAIN queue[NodeOf[q]] : queue[NodeOf[q]][i] = q BY <1>7 DEF InQueue
    <2>4. i = 1 BY <2>1, <2>2, <2>3 DEF Lineage, Service
    <2>5. queue[NodeOf[q]] # <<>> BY <2>3
    <2>6. Head(queue[NodeOf[q]]) = q BY <2>1, <2>3, <2>4, <2>5, FirstInQueue
    <2>7. q \in late BY <1>7, <2>1, <2>5, <2>6
    <2> QED BY <1>7, <2>7 DEF Left, SameObject
<1>8. \A q \in Requests :
              Protocol \in running /\ Token(q)' /\ (~InQueue(q)' \/ PopPending(q)) =>
                  (Token(q) /\ (~InQueue(q) \/ PopPending(q))) \/ Left(q)'
    BY <1>5, <1>7
<1> QED BY <1>1, <1>2, <1>4, <1>5, <1>6, <1>8, KeptExplained, LineageTask

\* what timed out and left may be answered late;
LEMMA LineageCheckTimeouts ==
    ASSUME Base, Lineage, NEW t \in Threads, CheckTimeouts(t)
    PROVE  Lineage'
<1>1. todo[t] # <<>> BY DEF CheckTimeouts, NextTask
<1>2. /\ Then(t, TimeoutTasks)
      /\ queue' = [n \in Nodes |-> IF Expired(n) THEN Tail(queue[n]) ELSE queue[n]]
      /\ UNCHANGED <<active, late, completed, eventVars, busVars, submitted, stopVars>>
    BY DEF CheckTimeouts, TimeoutTasks, ExpiredNodes
<1>3. UNCHANGED <<active, late, bus, receive, running, events, result>>
    BY <1>2 DEF eventVars, busVars, stopVars
<1>4. \A n \in Nodes : \/ queue'[n] = queue[n]
                       \/ /\ queue[n] # <<>> /\ queue'[n] = Tail(queue[n])
                          /\ Head(queue[n]) \in late
    BY <1>2 DEF Expired
<1>5. TimeoutTasks \in Seq(TaskSet) BY TasksOfTimeouts
<1>6. \A i \in DOMAIN TimeoutTasks :
          \/ \E n : TimeoutTasks[i] = Activate(n)
          \/ \E r \in Requests : TimeoutTasks[i] = Complete(r, Failure)
    BY TasksOfTimeouts, BaseSplit DEF OtherTypes
<1>7. Base' BY BaseCheckTimeouts
<1> HIDE DEF TimeoutTasks
<1> QED BY <1>1, <1>2, <1>3, <1>4, <1>5, <1>6, <1>7, LineageShortened

\* what stop() cancels is answered no more, the protocol thread has ended.
LEMMA LineageStopCancels ==
    ASSUME Base, Lineage, NEW t \in Threads, StopCancels(t)
    PROVE  Lineage'
<1>1. todo[t] # <<>> /\ Protocol \notin running BY DEF StopCancels, NextTask
<1>2. /\ queue' = [n \in Nodes |-> <<>>]
      /\ UNCHANGED <<active, late, completed, eventVars, busVars, submitted, stopVars>>
    BY DEF StopCancels
<1>3. PICK all \in SetToSeqs(UNION {Range(queue[n]) : n \in Nodes}) : Then(t, Cancelled(all))
    BY DEF StopCancels, Cancelled
<1>4. UNCHANGED <<active, late, bus, receive, running, events, result>>
    BY <1>2 DEF eventVars, busVars, stopVars
<1>5. \A n \in Nodes : queue'[n] = <<>> BY <1>2
<1>6. Cancelled(all) \in Seq(TaskSet)
      /\ \A i \in DOMAIN Cancelled(all) : \E r \in Requests : Cancelled(all)[i] = Complete(r, Failure)
    BY TasksOfCancel, BaseSplit DEF OtherTypes
<1>7. Base' BY BaseStopCancels
<1> HIDE DEF Cancelled
<1> QED BY <1>1, <1>3, <1>4, <1>5, <1>6, <1>7, LineageShortened

\* Every step of a thread keeps the origin of the answers.
LEMMA LineageOfTasks ==
    ASSUME Base, Lineage, NEW t \in Threads, Task(t)
    PROVE  Lineage'
BY LineageActivateNext, LineageSendFrame, LineageTransportSend, LineagePopSdo, LineageCompleteSdo,
    LineagePostEvent, LineageSmallTasks, LineageTakeFrames, LineageProcessSdo, LineageCheckTimeouts,
    LineageStopCancels DEF Task

\* A thread that had nothing to do gets tasks that ask nothing.
LEMMA TokensAfterStart ==
    ASSUME Base, Tokens, NEW t \in Threads, todo[t] = <<>>, NEW s \in Seq(TaskSet),
           todo' = [todo EXCEPT ![t] = s],
           \A i \in DOMAIN s : s[i].do \notin {"send_frame", "transport_send", "process_sdo"},
           UNCHANGED <<bus, receive, active>>
    PROVE  Tokens' /\ \A q \in Requests : Token(q)' => Token(q)
<1>1. todo'[t] = s /\ \A u \in Threads : u # t => todo'[u] = todo[u] BY DEF Base, SdoTypeOK
<1>2. \A q : \A i \in DOMAIN s : ~Asks(s[i], q) BY DEF Asks
<1>3. \A q : \A u \in Threads : \A i \in DOMAIN todo'[u] :
          Asks(todo'[u][i], q) => i \in DOMAIN todo[u] /\ todo'[u][i] = todo[u][i]
    BY <1>1, <1>2
<1>4. \A q : (OneTask(q) => OneTask(q)') /\ (InTasks(q)' => InTasks(q))
    BY <1>3 DEF OneTask, InTasks, Asks
<1>5. \A q : /\ OneFrame(q) <=> OneFrame(q)'
             /\ OneAnswer(q) <=> OneAnswer(q)'
             /\ InBuses(q) <=> InBuses(q)'
             /\ InReceived(q) <=> InReceived(q)'
    BY DEF OneFrame, OneAnswer, InBuses, InReceived
<1>6. ASSUME NEW q \in Requests PROVE OneToken(q)' /\ (Token(q)' => Token(q) /\ q \in active')
    <2>1. OneToken(q) /\ (Token(q) => q \in active) BY DEF Tokens
    <2> QED BY <1>4, <1>5, <2>1 DEF OneToken, Token
<1> QED BY <1>6 DEF Tokens

\* A thread that had nothing to do begins with the tasks s.
LEMMA LineageBegins ==
    ASSUME Base, Lineage, NEW t \in Threads, todo[t] = <<>>, NEW s \in Seq(TaskSet),
           todo' = [todo EXCEPT ![t] = s],
           \A i \in DOMAIN s : s[i].do \notin {"send_frame", "transport_send", "process_sdo", "pop_sdo"},
           \A i \in DOMAIN s : Frames(s[i]) => t = Protocol /\ Protocol \in running,
           \A i \in DOMAIN s : Answers(s[i]) => Explained(s[i].request, s[i].outcome),
           UNCHANGED <<bus, receive, active, late, running, events, result>>, Service',
           t = Protocol => Protocol \in running,
           \A p \in late : ~InQueue(p) => ~InQueue(p)',
           \A q \in active : InQueue(q) => InQueue(q)'
    PROVE  Lineage'
<1>1. todo'[t] = s /\ \A u \in Threads : u # t => todo'[u] = todo[u] BY DEF Base, SdoTypeOK
<1>2. Tokens' /\ \A q \in Requests : Token(q)' => Token(q) BY TokensAfterStart DEF Lineage
<1>3. \A q : Left(q) => Left(q)' BY LeftStays
<1>4. \A r, q : Explained(r, q) => Explained(r, q)' BY ExplainedStays
<1>5. ProtocolOnly'
    <2>1. \A u \in Threads : \A i \in DOMAIN todo'[u] : Frames(todo'[u][i]) => u = Protocol
        BY <1>1 DEF Lineage, ProtocolOnly
    <2>2. Protocol \notin running' => todo'[Protocol] = <<>>
        BY <1>1, Names DEF Lineage, ProtocolOnly
    <2> QED BY <2>1, <2>2 DEF ProtocolOnly, Frames
<1>6. \A q : PopPending(q)' => PopPending(q) BY <1>1 DEF PopPending, Pops
<1>7. Departed'
    <2>1. ASSUME NEW q \in Requests, PopPending(q)' PROVE q \in active'
        BY <1>6, <2>1 DEF Lineage, Departed
    <2>2. ASSUME Protocol \in running, NEW q \in Requests, Token(q)', ~InQueue(q)' \/ PopPending(q)'
          PROVE  Left(q)'
        <3>1. Token(q) /\ q \in active BY <1>2, <2>2 DEF Lineage, Tokens
        <3>2. ~InQueue(q) \/ PopPending(q) BY <1>6, <2>2, <3>1
        <3>3. Left(q) BY <2>2, <3>1, <3>2 DEF Lineage, Departed
        <3> QED BY <1>3, <3>3
    <2> QED BY <2>1, <2>2 DEF Departed
<1>8. AllExplained'
    <2>1. ASSUME NEW u \in Threads, NEW j \in DOMAIN todo'[u], Answers(todo'[u][j])
          PROVE  Explained(todo'[u][j].request, todo'[u][j].outcome)
        BY <1>1, <2>1 DEF Lineage, AllExplained
    <2>2. \A u \in Threads : \A j \in DOMAIN todo'[u] :
              Answers(todo'[u][j]) => Explained(todo[u][j].request, todo[u][j].outcome)'
        BY <2>1 DEF Explained, SameObject
    <2>3. /\ \A i \in DOMAIN events' : events'[i].critical => Explained(events'[i].request, events'[i].outcome)
          /\ \A r \in Requests : Explained(r, result'[r])
        BY KeptExplained
    <2>4. \A i \in DOMAIN events' : events'[i].critical => Explained(events[i].request, events[i].outcome)'
        BY <2>3 DEF Explained, SameObject
    <2>5. \A r \in Requests : Explained(r, result[r])' BY <2>3 DEF Explained, SameObject
    <2> QED BY <2>2, <2>4, <2>5 DEF AllExplained, Answers
<1> QED BY <1>2, <1>5, <1>7, <1>8 DEF Lineage

\* The threads go on, and a request, an answer or a deadline moves on.
LEMMA LineageRest ==
    ASSUME Base, Lineage, UNCHANGED <<queue, active, todo>>, Tokens',
           \A q \in Requests : Token(q)' => Token(q),
           late \subseteq late', \A p \in late : ~InQueue(p) => ~InQueue(p)',
           running' \subseteq running, Protocol \in running \ running' => todo[Protocol] = <<>>,
           \A i \in DOMAIN events' : events'[i].critical => Explained(events'[i].request, events'[i].outcome),
           \A r \in Requests : Explained(r, result'[r])
    PROVE  Lineage'
<1>1. Service' /\ \A q : InQueue(q) <=> InQueue(q)' BY ServiceStays DEF Lineage
<1>2. \A q : Left(q) => Left(q)' BY LeftStays
<1>3. \A r, q : Explained(r, q) => Explained(r, q)' BY ExplainedStays
<1>4. ProtocolOnly' BY DEF Lineage, ProtocolOnly, Frames
<1>5. \A q : PopPending(q) <=> PopPending(q)' BY DEF PopPending, Pops
<1>6. Departed'
    <2>1. ASSUME NEW q \in Requests, PopPending(q)' PROVE q \in active'
        BY <1>5, <2>1 DEF Lineage, Departed
    <2>2. ASSUME Protocol \in running', NEW q \in Requests, Token(q)', ~InQueue(q)' \/ PopPending(q)'
          PROVE  Left(q)'
        <3>1. Left(q) BY <1>1, <1>5, <2>2 DEF Lineage, Departed
        <3> QED BY <1>2, <3>1
    <2> QED BY <2>1, <2>2 DEF Departed
<1>7. AllExplained'
    <2>1. \A u \in Threads : \A j \in DOMAIN todo'[u] :
              Answers(todo'[u][j]) => Explained(todo'[u][j].request, todo'[u][j].outcome)
        BY DEF Lineage, AllExplained
    <2>2. \A u \in Threads : \A j \in DOMAIN todo'[u] :
              Answers(todo'[u][j]) => Explained(todo[u][j].request, todo[u][j].outcome)'
        BY <2>1 DEF Explained, SameObject
    <2>4. \A i \in DOMAIN events' : events'[i].critical => Explained(events[i].request, events[i].outcome)'
        BY DEF Explained, SameObject
    <2>5. \A r \in Requests : Explained(r, result[r])' BY DEF Explained, SameObject
    <2> QED BY <2>2, <2>4, <2>5 DEF AllExplained, Answers
<1> QED BY <1>1, <1>4, <1>6, <1>7 DEF Lineage

\* A request that was not made before comes last in its queue.
LEMMA QueueGrows ==
    ASSUME Base, Service, NEW r \in Requests, r \notin submitted,
           queue' = [queue EXCEPT ![NodeOf[r]] = Append(@, r)], active' = active
    PROVE  /\ Service'
           /\ \A q \in Requests : InQueue(q) => InQueue(q)'
           /\ \A q \in Requests : q # r /\ InQueue(q)' => InQueue(q)
<1> DEFINE n == NodeOf[r]
<1>1. n \in Nodes /\ queue \in [Nodes -> Seq(Requests)] /\ r \notin active
    BY NodesOf, BaseSplit DEF Base, SdoTypeOK, OtherTypes
<1>2. /\ queue[n] \in Seq(Requests) /\ queue'[n] = Append(queue[n], r)
      /\ \A m \in Nodes : m # n => queue'[m] = queue[m]
    BY <1>1
<1>3. \A i \in DOMAIN queue[n] : queue[n][i] # r BY <1>1 DEF Base, Known
<1> DEFINE s == queue[n]
           w == queue'[n]
<1>4. /\ Len(s) \in Nat /\ DOMAIN s = 1..Len(s) /\ DOMAIN w = 1..(Len(s) + 1) /\ w[Len(s) + 1] = r
      /\ \A i \in DOMAIN s : w[i] = s[i]
    BY <1>2
<1> HIDE DEF s, w
<1>5. \A i \in DOMAIN w : (i \in DOMAIN s /\ w[i] = s[i]) \/ (i = Len(s) + 1 /\ w[i] = r) BY <1>4
<1>6. \A i \in DOMAIN s : s[i] # r /\ (s[i] \in active => i = 1) BY <1>1, <1>3 DEF Service, s
<1>7. \A i, j \in DOMAIN s : s[i] = s[j] => i = j BY <1>1 DEF Service, s
<1>8. \A i \in DOMAIN w : w[i] \in active => i = 1 BY <1>1, <1>5, <1>6
<1>9. \A i, j \in DOMAIN w : w[i] = w[j] => i = j BY <1>5, <1>6, <1>7
<1>10. Service'
    <2>1. \A m \in Nodes : \A i \in DOMAIN queue'[m] : queue'[m][i] \in active => i = 1
        BY <1>2, <1>8 DEF w, Service
    <2>2. \A m \in Nodes : \A i, j \in DOMAIN queue'[m] : queue'[m][i] = queue'[m][j] => i = j
        BY <1>2, <1>9 DEF w, Service
    <2> QED BY <2>1, <2>2 DEF Service
<1>11. \A i \in DOMAIN s : i \in DOMAIN w BY <1>4
<1>12. \A q \in Requests : InQueue(q) => InQueue(q)'
    <2> SUFFICES ASSUME NEW q \in Requests, InQueue(q) PROVE InQueue(q)' OBVIOUS
    <2>1. PICK i \in DOMAIN queue[NodeOf[q]] : queue[NodeOf[q]][i] = q BY DEF InQueue
    <2>2. CASE NodeOf[q] = n
        <3>1. i \in DOMAIN s /\ s[i] = q BY <2>1, <2>2 DEF s
        <3>2. i \in DOMAIN w /\ w[i] = q BY <1>4, <1>11, <3>1
        <3> QED BY <2>2, <3>2 DEF w, InQueue
    <2>3. CASE NodeOf[q] # n
        <3>1. queue'[NodeOf[q]] = queue[NodeOf[q]] BY <1>2, <2>3, NodesOf
        <3> QED BY <2>1, <3>1 DEF InQueue
    <2> QED BY <2>2, <2>3
<1>13. \A q \in Requests : q # r /\ InQueue(q)' => InQueue(q)
    <2> SUFFICES ASSUME NEW q \in Requests, q # r, InQueue(q)' PROVE InQueue(q) OBVIOUS
    <2>1. PICK i \in DOMAIN queue'[NodeOf[q]] : queue'[NodeOf[q]][i] = q BY DEF InQueue
    <2>2. CASE NodeOf[q] = n
        <3>1. i \in DOMAIN w /\ w[i] = q BY <2>1, <2>2 DEF w
        <3>2. i \in DOMAIN s /\ s[i] = q BY <1>5, <3>1
        <3> QED BY <2>2, <3>2 DEF s, InQueue
    <2>3. CASE NodeOf[q] # n
        <3>1. queue'[NodeOf[q]] = queue[NodeOf[q]] BY <1>2, <2>3, NodesOf
        <3> QED BY <2>1, <3>1 DEF InQueue
    <2> QED BY <2>2, <2>3
<1> QED BY <1>10, <1>12, <1>13

\* A request that was not made before has no frame under way.
LEMMA LineageSubmit ==
    ASSUME Base, Lineage, NEW r \in Requests, Submit(r)
    PROVE  Lineage'
<1>1. /\ r \notin submitted /\ todo[r] = <<>> /\ r \in Threads /\ r # Protocol
      /\ UNCHANGED <<active, late, bus, receive, running, events, result>>
    BY SubmitCases, Names DEF eventVars, busVars, stopVars
<1>2. late \subseteq Requests /\ active \subseteq Requests /\ late \subseteq submitted
    BY BaseSplit DEF OtherTypes
<1>3. Service' /\ (\A p \in late : ~InQueue(p) => ~InQueue(p)')
      /\ (\A q \in active : InQueue(q) => InQueue(q)')
    <2>1. CASE queue' = queue
        <3>1. Service' /\ \A q : InQueue(q) <=> InQueue(q)' BY <1>1, <2>1, ServiceStays DEF Lineage
        <3> QED BY <3>1
    <2>2. CASE queue' = [queue EXCEPT ![NodeOf[r]] = Append(@, r)]
        <3>1. /\ Service'
              /\ \A q \in Requests : InQueue(q) => InQueue(q)'
              /\ \A q \in Requests : q # r /\ InQueue(q)' => InQueue(q)
            BY <1>1, <2>2, QueueGrows DEF Lineage
        <3> QED BY <1>1, <1>2, <3>1
    <2> QED BY <2>1, <2>2, SubmitCases
<1>4. ASSUME NEW s \in Seq(TaskSet), todo' = [todo EXCEPT ![r] = s],
             \A i \in DOMAIN s : \/ s[i].do = "activate_next_sdo"
                                 \/ /\ s[i].do \in {"enqueue_event", "complete_sdo"}
                                    /\ s[i].request = r /\ s[i].outcome = Failure
      PROVE  Lineage'
    <2>1. \A i \in DOMAIN s : ~Frames(s[i]) /\ (Answers(s[i]) => Explained(s[i].request, s[i].outcome))
        BY <1>4, FailuresExplained DEF Frames, Answers
    <2>2. \A i \in DOMAIN s : s[i].do \notin {"send_frame", "transport_send", "process_sdo", "pop_sdo"}
        BY <1>4
    <2> QED BY <1>1, <1>3, <1>4, <2>1, <2>2, LineageBegins
<1>5. ASSUME NEW k \in TaskSet, todo' = [todo EXCEPT ![r] = <<k>>],
             \/ k.do = "activate_next_sdo"
             \/ k.do \in {"enqueue_event", "complete_sdo"} /\ k.request = r /\ k.outcome = Failure
      PROVE  Lineage'
    <2> DEFINE s == <<k>>
    <2>1. s \in Seq(TaskSet) /\ DOMAIN s = {1} /\ s[1] = k /\ todo' = [todo EXCEPT ![r] = s] BY <1>5
    <2> HIDE DEF s
    <2>2. \A i \in DOMAIN s : s[i] = k BY <2>1
    <2>3. \A i \in DOMAIN s : \/ s[i].do = "activate_next_sdo"
                             \/ /\ s[i].do \in {"enqueue_event", "complete_sdo"}
                                /\ s[i].request = r /\ s[i].outcome = Failure
        BY <1>5, <2>2
    <2> QED BY <1>4, <2>1, <2>3
<1>6. <<>> \in Seq(TaskSet) /\ DOMAIN <<>> = {} BY PlanNone
<1>7. todo' = [todo EXCEPT ![r] = <<>>] => Lineage' BY <1>4, <1>6
<1>8. /\ Post(r, Failure) \in TaskSet /\ Complete(r, Failure) \in TaskSet /\ Activate(NodeOf[r]) \in TaskSet
      /\ Post(r, Failure).do = "enqueue_event" /\ Post(r, Failure).request = r
      /\ Post(r, Failure).outcome = Failure
      /\ Complete(r, Failure).do = "complete_sdo" /\ Complete(r, Failure).request = r
      /\ Complete(r, Failure).outcome = Failure
      /\ Activate(NodeOf[r]).do = "activate_next_sdo"
    BY TasksMade, NodesOf, Outcomes DEF Post, Complete, Activate
<1> QED BY <1>5, <1>7, <1>8, SubmitCases

\* The protocol thread goes on, or ends with nothing to handle.
LEMMA LineageProtocolLoop ==
    ASSUME Base, Lineage, ProtocolLoop
    PROVE  Lineage'
<1>1. /\ Protocol \in running /\ todo[Protocol] = <<>>
      /\ UNCHANGED <<queue, active, late, bus, receive, events, result>>
    BY DEF ProtocolLoop, queueVars, eventVars, busVars
<1>2. CASE running' = running \ {Protocol} /\ UNCHANGED todo
    <2>1. Tokens' /\ \A q : Token(q)' => Token(q) BY <1>1, <1>2, TokensStay DEF Lineage
    <2>2. \A p \in late : ~InQueue(p) => ~InQueue(p)' BY <1>1 DEF InQueue
    <2> QED BY <1>1, <1>2, <2>1, <2>2, KeptExplained, LineageRest
<1>3. CASE todo' = [todo EXCEPT ![Protocol] = <<Receive>>] /\ UNCHANGED running
    <2> DEFINE s == <<Receive>>
    <2>1. Receive \in TaskSet BY TasksMade
    <2>2. s \in Seq(TaskSet) /\ DOMAIN s = {1} /\ s[1] = Receive /\ todo' = [todo EXCEPT ![Protocol] = s]
        BY <1>3, <2>1
    <2> HIDE DEF s
    <2>3. \A i \in DOMAIN s :
              s[i].do \notin {"send_frame", "transport_send", "process_sdo", "pop_sdo"} /\ ~Answers(s[i])
        BY <2>2 DEF Receive, Answers
    <2>4. Service' /\ \A q : InQueue(q) <=> InQueue(q)' BY <1>1, ServiceStays DEF Lineage
    <2> QED BY <1>1, <1>3, <2>2, <2>3, <2>4, Names, LineageBegins
<1> QED BY <1>2, <1>3 DEF ProtocolLoop

\* The event thread calls what was explained.
LEMMA LineageEventLoop ==
    ASSUME Base, Lineage, EventLoop
    PROVE  Lineage'
<1>1. /\ UNCHANGED <<queue, active, late, bus, receive, todo>>
      /\ running' \subseteq running /\ (Protocol \in running => Protocol \in running')
    BY Names DEF EventLoop, queueVars, busVars
<1>2. Tokens' /\ \A q : Token(q)' => Token(q) BY <1>1, TokensStay DEF Lineage
<1>3. \A p \in late : ~InQueue(p) => ~InQueue(p)' BY <1>1 DEF InQueue
<1>4. /\ \A i \in DOMAIN events' : events'[i].critical => Explained(events'[i].request, events'[i].outcome)
      /\ \A r \in Requests : Explained(r, result'[r])
    <2>1. CASE /\ events # <<>> /\ events' = Tail(events)
               /\ IF Head(events).critical THEN Run(Head(events)) ELSE UNCHANGED <<ran, result>>
        <3>1. events \in Seq(Jobs) BY BaseSplit DEF OtherTypes
        <3>2. /\ 1 \in DOMAIN events /\ Head(events) = events[1] /\ Head(events) \in Jobs
              /\ \A i \in DOMAIN events' : i + 1 \in DOMAIN events /\ events'[i] = events[i + 1]
            BY <2>1, <3>1
        <3>3. \A i \in DOMAIN events' :
                  events'[i].critical => Explained(events'[i].request, events'[i].outcome)
            BY <3>2 DEF Lineage, AllExplained
        <3>4. Head(events).critical => Explained(Head(events).request, Head(events).outcome)
            BY <3>2 DEF Lineage, AllExplained
        <3>5. CASE Head(events).critical
            <4>1. \A r \in Requests : Explained(r, result'[r]) BY <2>1, <3>2, <3>4, <3>5, RunExplained
            <4> QED BY <3>3, <4>1
        <3>6. CASE ~Head(events).critical
            <4>1. \A r \in Requests : Explained(r, result'[r]) BY <2>1, <3>6 DEF Lineage, AllExplained
            <4> QED BY <3>3, <4>1
        <3> QED BY <3>5, <3>6
    <2>2. CASE UNCHANGED eventVars BY <2>2, KeptExplained DEF eventVars
    <2> QED BY <2>1, <2>2 DEF EventLoop
<1> QED BY <1>1, <1>2, <1>3, <1>4, LineageRest

\* A node answers the frame it takes, or no one.
LEMMA LineageNode ==
    ASSUME Base, Lineage, NEW n \in Nodes, NodeAnswers(n) \/ NodeMisses(n)
    PROVE  Lineage'
<1>1. /\ UNCHANGED <<queue, active, late, todo, running, events, result>>
      /\ bus[n] # <<>> /\ bus' = [bus EXCEPT ![n] = Tail(@)]
    BY DEF NodeAnswers, NodeMisses, queueVars, eventVars, stopVars
<1>0. PICK r : r = Head(bus[n]) OBVIOUS
<1>2. bus \in [Nodes -> Seq(Requests)] /\ receive \in Seq(Requests) BY BaseSplit DEF OtherTypes
<1>3. bus[n] \in Seq(Requests) /\ r \in Requests BY <1>0, <1>1, <1>2
<1>4. \A q : (OneTask(q) <=> OneTask(q)') /\ (InTasks(q) <=> InTasks(q)')
    BY <1>1 DEF OneTask, InTasks, Asks
<1>5. ASSUME NEW q \in Requests PROVE OneToken(q)' /\ (Token(q)' => Token(q))
    <2>1. OneToken(q) BY DEF Lineage, Tokens
    <2>2. OneFrame(q)' /\ (InBuses(q)' => InBuses(q) /\ q # r) /\ InBuses(r)
        BY <1>0, <1>1, <1>2, <2>1, BusTakes DEF OneToken
    <2>3. CASE receive' = receive
        <3>1. (OneAnswer(q) <=> OneAnswer(q)') /\ (InReceived(q) <=> InReceived(q)')
            BY <2>3 DEF OneAnswer, InReceived
        <3> QED BY <1>4, <2>1, <2>2, <3>1 DEF OneToken, Token
    <2>4. CASE Received(r)
        <3>1. q = r => ~InReceived(q) /\ ~InTasks(q) BY <2>1, <2>2 DEF OneToken
        <3>2. OneAnswer(q)' /\ (InReceived(q)' => InReceived(q) \/ q = r)
            BY <1>2, <1>3, <2>1, <2>4, <3>1, ReceiveTakes DEF OneToken
        <3>3. CASE q = r BY <1>4, <2>1, <2>2, <3>1, <3>2, <3>3 DEF OneToken, Token
        <3>4. CASE q # r BY <1>4, <2>1, <2>2, <3>2, <3>4 DEF OneToken, Token
        <3> QED BY <3>3, <3>4
    <2> QED BY <1>0, <2>3, <2>4 DEF NodeAnswers, NodeMisses
<1>6. Tokens' BY <1>1, <1>5 DEF Lineage, Tokens
<1>7. \A p \in late : ~InQueue(p) => ~InQueue(p)' BY <1>1 DEF InQueue
<1> QED BY <1>1, <1>5, <1>6, <1>7, KeptExplained, LineageRest

\* Time explains more and not less.
LEMMA LineageDeadlinePasses ==
    ASSUME Base, Lineage, NEW n \in Nodes, DeadlinePasses(n)
    PROVE  Lineage'
<1>1. /\ UNCHANGED <<queue, active, todo, bus, receive, running, events, result>> /\ late \subseteq late'
    BY DEF DeadlinePasses, eventVars, busVars, stopVars
<1>2. Tokens' /\ \A q : Token(q)' => Token(q) BY <1>1, TokensStay DEF Lineage
<1>3. \A p \in late : ~InQueue(p) => ~InQueue(p)' BY <1>1 DEF InQueue
<1> QED BY <1>1, <1>2, <1>3, KeptExplained, LineageRest

\* stop() begins with steps that are about no answer.
LEMMA LineageStopBegin ==
    ASSUME Base, Lineage, StopBegin
    PROVE  Lineage'
<1>1. /\ todo' = [todo EXCEPT ![Stopper] = StopTasks] /\ ~stopping
      /\ UNCHANGED <<queue, active, late, bus, receive, running, events, result>>
    BY DEF StopBegin, StopTasks, queueVars, eventVars, busVars
<1>2. todo[Stopper] = <<>> BY <1>1 DEF Base, Known
<1>3. StopTasks \in Seq(TaskSet) BY TasksOfStop
<1>4. \A i \in DOMAIN StopTasks :
          /\ StopTasks[i].do \notin {"send_frame", "transport_send", "process_sdo", "pop_sdo"}
          /\ ~Frames(StopTasks[i]) /\ ~Answers(StopTasks[i])
    BY TasksOfStop DEF Frames, Answers
<1>5. Service' /\ \A q : InQueue(q) <=> InQueue(q)' BY <1>1, ServiceStays DEF Lineage
<1> HIDE DEF StopTasks
<1> QED BY <1>1, <1>2, <1>3, <1>4, <1>5, Names, LineageBegins

\* Nothing happens.
LEMMA LineageStutters ==
    ASSUME Base, Lineage, UNCHANGED vars
    PROVE  Lineage'
<1>1. UNCHANGED <<queue, active, late, bus, receive, todo, running, events, result>>
    BY DEF vars, queueVars, eventVars, busVars, stopVars
<1>2. Tokens' /\ \A q : Token(q)' => Token(q) BY <1>1, TokensStay DEF Lineage
<1>3. \A p \in late : ~InQueue(p) => ~InQueue(p)' BY <1>1 DEF InQueue
<1> QED BY <1>1, <1>2, <1>3, KeptExplained, LineageRest

\* At the start nothing is asked.
LEMMA LineageInit == Init => Lineage
<1> SUFFICES ASSUME Init PROVE Lineage OBVIOUS
<1>1. /\ \A t \in Threads : todo[t] = <<>>
      /\ \A n \in Nodes : queue[n] = <<>> /\ bus[n] = <<>>
      /\ receive = <<>> /\ events = <<>> /\ \A r \in Requests : result[r] = Unanswered
    BY DEF Init
<1>2. DOMAIN <<>> = {} OBVIOUS
<1>3. Service BY <1>1, <1>2 DEF Service
<1>4. \A q : ~InTasks(q) /\ ~InBuses(q) /\ ~InReceived(q) /\ ~PopPending(q)
    BY <1>1, <1>2 DEF InTasks, InBuses, InReceived, PopPending
<1>5. \A q : OneTask(q) /\ OneFrame(q) /\ OneAnswer(q) BY <1>1, <1>2 DEF OneTask, OneFrame, OneAnswer
<1>6. Tokens BY <1>4, <1>5 DEF Tokens, OneToken, Token
<1>7. ProtocolOnly BY <1>1, <1>2, Names DEF ProtocolOnly
<1>8. Departed BY <1>4 DEF Departed, Token
<1>9. AllExplained BY <1>1, <1>2, FailuresExplained DEF AllExplained
<1> QED BY <1>3, <1>6, <1>7, <1>8, <1>9 DEF Lineage

\* Every step keeps the origin of the answers.
LEMMA LineageNext == Base /\ Lineage /\ [Next]_vars => Lineage'
<1> SUFFICES ASSUME Base, Lineage, [Next]_vars PROVE Lineage' OBVIOUS
<1>1. CASE Environment
    BY <1>1, LineageSubmit, LineageNode, LineageDeadlinePasses, LineageStopBegin DEF Environment
<1> QED BY <1>1, LineageOfTasks, LineageProtocolLoop, LineageEventLoop, LineageStutters DEF Next, Ended

\* Every frame that is under way belongs to one request, and an answer that
\* outlives its request is one of an object whose request timed out.
THEOREM LineageInvariance == Spec => [](Base /\ Lineage)
<1>1. Init => Base /\ Lineage BY BaseInit, LineageInit
<1>2. Base /\ Lineage /\ [Next]_vars => (Base /\ Lineage)' BY BaseNext, LineageNext
<1> QED BY <1>1, <1>2, PTL DEF Spec

\* What is explained is what ConfusedOnlyByLateAnswers says of the results.
LEMMA LineageIsIt == Lineage => ConfusedOnlyByLateAnswers
<1> SUFFICES ASSUME Lineage, NEW r \in Requests, NEW q \in Requests, result[r] = q, q # r
             PROVE  SameObject(q, r) /\ \E p \in late \ {r} : SameObject(p, r)
    BY DEF ConfusedOnlyByLateAnswers
<1>1. Explained(r, q) BY DEF Lineage, AllExplained
<1> QED BY <1>1 DEF Explained

\* process_sdo compares node and object only: a request is completed with the
\* answer to another one only for the same object of the same node, and only
\* after a request for that object has timed out.
THEOREM AnswersExplained == Spec => []ConfusedOnlyByLateAnswers
BY LineageInvariance, LineageIsIt, PTL
============================================================================
