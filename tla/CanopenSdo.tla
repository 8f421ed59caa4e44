------------------------------ MODULE CanopenSdo ------------------------------
(***************************************************************************)
(* The SDO engine of the CANopen master (canopen::detail::MasterState):    *)
(* any thread may submit a request, each node serves one request at a      *)
(* time, and every request is answered by exactly one call of its          *)
(* completion, from the event thread or, during shutdown, from the thread  *)
(* that completes it.                                                      *)
(*                                                                         *)
(* A step is one critical section, one atomic access or one call of the    *)
(* transport.  What a thread still has to do in the call it is in is a     *)
(* sequence of tasks, todo[t]; its first task is its next step.  The node  *)
(* and the bus are external: a request is answered, aborted or lost.       *)
(***************************************************************************)
EXTENDS Naturals, FiniteSets, SequencesExt

CONSTANTS
    Requests,      \* SdoTransaction, each submitted by a thread of its own
    Together,      \* bound: the sets of requests that are made in one behaviour
    Nodes,
    NodeOf,        \* [Requests -> Nodes]: SdoTransaction::node_id
    ObjectOf,      \* [Requests -> objects]: SdoTransaction::object
    Invalid,       \* requests with a refused size or timeout
    Observed,      \* somebody subscribed to raw frames
    QueueLimit,    \* [Nodes -> Nat]: sdo_queue_limit_per_node, one number in the code
    ReceiveLimit,  \* receive_queue_limit
    EventLimit     \* event_queue_limit

ASSUME RequestAssumption ==
    /\ NodeOf \in [Requests -> Nodes]
    /\ DOMAIN ObjectOf = Requests
    /\ Together \subseteq SUBSET Requests
    /\ Invalid \subseteq Requests
    /\ Observed \in BOOLEAN
    /\ IsFiniteSet(Nodes)

\* The names of the threads and of the outcomes are no requests.
ASSUME NameAssumption ==
    {"protocol_thread_", "event_thread_", "stop", "failure", "none"} \cap Requests = {}

ASSUME LimitAssumption ==
    /\ QueueLimit \in [Nodes -> Nat \ {0}]
    /\ {ReceiveLimit, EventLimit} \subseteq Nat \ {0}

VARIABLES
    queue,         \* [Nodes -> Seq(Requests)]: sdo_queues_
    active,        \* requests with SdoTransaction::active
    late,          \* active requests whose deadline has passed
    completed,     \* requests with SdoTransaction::completed
    events,        \* event_queue_
    ran,           \* [Requests -> Nat]: how often the completion was called
    result,        \* [Requests -> Outcome]: what it was called with
    bus,           \* [Nodes -> Seq(Requests)]: requests on their way to a node
    receive,       \* receive_queue_
    todo,          \* [Threads -> Seq(Task)]
    submitted,     \* requests whose upload or download was called
    stopping,      \* stopping_
    eventStopping, \* event_stopping_
    running        \* the worker threads that have not returned

queueVars == <<queue, active, late>>
eventVars == <<events, ran, result>>
busVars == <<bus, receive>>
stopVars == <<stopping, eventStopping, running>>
vars == <<queueVars, completed, eventVars, busVars, todo, submitted, stopVars>>

Protocol == "protocol_thread_"
EventThread == "event_thread_"
Stopper == "stop"
Threads == Requests \cup {Protocol, EventThread, Stopper}

(* What a completion is called with: the answer to some request, whose     *)
(* content is left out, or one of the failures (timeout, transport_error,  *)
(* transport_closed, cancelled, queue_overflow, invalid_argument).         *)
Failure == "failure"
Outcome == Requests \cup {Failure}
Unanswered == "none"

(* A job of the event queue: the completion of a request, or a callback    *)
(* of an observer of raw frames, which may be dropped.                     *)
Completion(r, out) == [critical |-> TRUE, request |-> r, outcome |-> out]
RawFrame == [critical |-> FALSE]

Activate(n) == [do |-> "activate_next_sdo", node |-> n]
Check(r) == [do |-> "send_frame", request |-> r]
Transmit(r) == [do |-> "transport_send", request |-> r]
Pop(r) == [do |-> "pop_sdo", request |-> r]
Complete(r, out) == [do |-> "complete_sdo", request |-> r, outcome |-> out]
Post(r, out) == [do |-> "enqueue_event", request |-> r, outcome |-> out]
Emit == [do |-> "emit_raw"]
Receive == [do |-> "wait_for"]
Process(answer) == [do |-> "process_sdo", answer |-> answer]
Timeouts == [do |-> "check_sdo_timeouts"]
CancelAll == [do |-> "cancel"]
StopEvents == [do |-> "event_stopping_"]
JoinEvents == [do |-> "join"]

HeadIs(n, r) == queue[n] # <<>> /\ Head(queue[n]) = r
Waiting(n) == queue[n] # <<>> /\ Head(queue[n]) \notin active
Expired(n) == queue[n] # <<>> /\ Head(queue[n]) \in active \cap late

(* Thread t does its first task, here of the kind "do", and puts new in    *)
(* front of the others.                                                    *)
NextTask(t, do) == todo[t] # <<>> /\ Head(todo[t]).do = do
Then(t, new) == todo' = [todo EXCEPT ![t] = new \o Tail(@)]

Failed(r) == <<Pop(r), Complete(r, Failure), Activate(NodeOf[r])>>

Init ==
    /\ queue = [n \in Nodes |-> <<>>]
    /\ active = {} /\ late = {} /\ completed = {} /\ submitted = {}
    /\ events = <<>>
    /\ ran = [r \in Requests |-> 0]
    /\ result = [r \in Requests |-> Unanswered]
    /\ bus = [n \in Nodes |-> <<>>]
    /\ receive = <<>>
    /\ todo = [t \in Threads |-> <<>>]
    /\ stopping = FALSE /\ eventStopping = FALSE
    /\ running = {Protocol, EventThread}

-------------------------------------------------------------------------------
(* Submitting a request                                                    *)

Refused(r) ==
    /\ todo' = [todo EXCEPT ![r] = <<Post(r, Failure)>>]
    /\ completed' = completed \cup {r}
    /\ UNCHANGED queueVars

Enqueue(r) ==
    LET n == NodeOf[r] IN
    /\ IF Len(queue[n]) >= QueueLimit[n]
       THEN /\ todo' = [todo EXCEPT ![r] = <<Complete(r, Failure)>>]
            /\ UNCHANGED queue
       ELSE /\ queue' = [queue EXCEPT ![n] = Append(@, r)]
            /\ todo' = [todo EXCEPT ![r] = IF queue[n] = <<>> THEN <<Activate(n)>> ELSE <<>>]
    /\ UNCHANGED <<active, late, completed>>

Submit(r) ==
    /\ r \notin submitted
    /\ submitted' = submitted \cup {r}
    /\ \E made \in Together : submitted' \subseteq made
    /\ IF r \in Invalid THEN Refused(r) ELSE Enqueue(r)
    /\ UNCHANGED <<eventVars, busVars, stopVars>>

-------------------------------------------------------------------------------
(* Tasks any thread may have                                               *)

ActivateNext(t) ==
    /\ NextTask(t, "activate_next_sdo")
    /\ LET n == Head(todo[t]).node IN
       IF Waiting(n)
       THEN /\ active' = active \cup {Head(queue[n])}
            /\ Then(t, <<Check(Head(queue[n]))>>)
       ELSE Then(t, <<>>) /\ UNCHANGED active
    /\ UNCHANGED <<queue, late, completed, eventVars, busVars, submitted, stopVars>>

SendFrame(t) ==
    /\ NextTask(t, "send_frame")
    /\ LET r == Head(todo[t]).request IN
       Then(t, IF stopping THEN Failed(r) ELSE <<Transmit(r)>>)
    /\ UNCHANGED <<queueVars, completed, eventVars, busVars, submitted, stopVars>>

TransportSend(t) ==
    /\ NextTask(t, "transport_send")
    /\ LET r == Head(todo[t]).request IN
       \/ Then(t, <<>>) /\ bus' = [bus EXCEPT ![NodeOf[r]] = Append(@, r)]
       \/ Then(t, Failed(r)) /\ UNCHANGED bus
    /\ UNCHANGED <<queueVars, completed, eventVars, receive, submitted, stopVars>>

\* Mutant: the first request is taken out whichever it is.
PopSdoAny(t) ==
    /\ NextTask(t, "pop_sdo")
    /\ LET n == NodeOf[Head(todo[t]).request] IN
       queue' = [queue EXCEPT ![n] = IF @ = <<>> THEN @ ELSE Tail(@)]
    /\ Then(t, <<>>)
    /\ UNCHANGED <<active, late, completed, eventVars, busVars, submitted, stopVars>>

PopSdo(t) ==
    /\ NextTask(t, "pop_sdo")
    /\ LET r == Head(todo[t]).request
           n == NodeOf[r]
       IN queue' = [queue EXCEPT ![n] = IF HeadIs(n, r) THEN Tail(@) ELSE @]
    /\ Then(t, <<>>)
    /\ UNCHANGED <<active, late, completed, eventVars, busVars, submitted, stopVars>>

\* Mutant: the completion is posted whether or not another thread did it.
CompleteSdoAgain(t) ==
    /\ NextTask(t, "complete_sdo")
    /\ completed' = completed \cup {Head(todo[t]).request}
    /\ Then(t, <<Post(Head(todo[t]).request, Head(todo[t]).outcome)>>)
    /\ UNCHANGED <<queueVars, eventVars, busVars, submitted, stopVars>>

CompleteSdo(t) ==
    /\ NextTask(t, "complete_sdo")
    /\ LET task == Head(todo[t]) IN
       IF task.request \in completed
       THEN Then(t, <<>>) /\ UNCHANGED completed
       ELSE /\ completed' = completed \cup {task.request}
            /\ Then(t, <<Post(task.request, task.outcome)>>)
    /\ UNCHANGED <<queueVars, eventVars, busVars, submitted, stopVars>>

Run(job) ==
    /\ ran' = [ran EXCEPT ![job.request] = @ + 1]
    /\ result' = [result EXCEPT ![job.request] = job.outcome]

(* A full queue gives up its oldest droppable job, and a new one that is   *)
(* droppable itself; a completion is never dropped.                        *)
Dropped(q) == SelectInSeq(q, LAMBDA job : ~job.critical)

\* Mutant: a full queue gives up its oldest job, a completion too.
QueuedOverOldest(job) ==
    Append(IF Len(events) < EventLimit THEN events ELSE Tail(events), job)

Queued(job) ==
    IF Len(events) < EventLimit THEN Append(events, job)
    ELSE IF Dropped(events) # 0 THEN Append(RemoveAt(events, Dropped(events)), job)
    ELSE IF job.critical THEN Append(events, job)
    ELSE events

\* Mutant: after event_stopping_ a job goes to the queue nobody reads.
PostEventLate(t) ==
    /\ NextTask(t, "enqueue_event")
    /\ events' = Queued(Completion(Head(todo[t]).request, Head(todo[t]).outcome))
    /\ Then(t, <<>>)
    /\ UNCHANGED <<queueVars, completed, ran, result, busVars, submitted, stopVars>>

PostEvent(t) ==
    /\ NextTask(t, "enqueue_event")
    /\ LET job == Completion(Head(todo[t]).request, Head(todo[t]).outcome) IN
       IF eventStopping
       THEN Run(job) /\ UNCHANGED events
       ELSE events' = Queued(job) /\ UNCHANGED <<ran, result>>
    /\ Then(t, <<>>)
    /\ UNCHANGED <<queueVars, completed, busVars, submitted, stopVars>>

EmitRaw(t) ==
    /\ NextTask(t, "emit_raw")
    /\ events' = IF eventStopping THEN events ELSE Queued(RawFrame)
    /\ Then(t, <<>>)
    /\ UNCHANGED <<queueVars, completed, ran, result, busVars, submitted, stopVars>>

-------------------------------------------------------------------------------
(* The protocol thread                                                     *)

ProtocolLoop ==
    /\ Protocol \in running /\ todo[Protocol] = <<>>
    /\ IF stopping
       THEN running' = running \ {Protocol} /\ UNCHANGED todo
       ELSE todo' = [todo EXCEPT ![Protocol] = <<Receive>>] /\ UNCHANGED running
    /\ UNCHANGED <<queueVars, completed, eventVars, busVars, submitted, stopping, eventStopping>>

TakeFrames(t) ==
    /\ NextTask(t, "wait_for")
    /\ Then(t, [i \in 1..Len(receive) |-> Process(receive[i])] \o <<Timeouts>>)
    /\ receive' = <<>>
    /\ UNCHANGED <<queueVars, completed, eventVars, bus, submitted, stopVars>>

\* Mutant: the object of the answer is not compared.
MatchesNode(answer, r) ==
    /\ NodeOf[answer] = NodeOf[r] /\ HeadIs(NodeOf[r], r) /\ r \in active

(* An answer is taken for the request in service at its node, when that is *)
(* for the same object.                                                    *)
Matches(answer, r) ==
    /\ NodeOf[answer] = NodeOf[r] /\ ObjectOf[answer] = ObjectOf[r]
    /\ HeadIs(NodeOf[r], r) /\ r \in active

Raw == IF Observed THEN <<Emit>> ELSE <<>>

ProcessSdo(t) ==
    /\ NextTask(t, "process_sdo")
    /\ LET answer == Head(todo[t]).answer IN
       \/ \E r \in Requests :
             /\ Matches(answer, r)
             /\ Then(t, <<Pop(r), Complete(r, answer), Activate(NodeOf[r])>> \o Raw)
       \/ /\ \A r \in Requests : ~Matches(answer, r)
          /\ Then(t, Raw)
    /\ UNCHANGED <<queueVars, completed, eventVars, busVars, submitted, stopVars>>

(* Every expired head is taken out in one critical section; then all are   *)
(* completed and only then their nodes go on.                              *)
CheckTimeouts(t) ==
    /\ NextTask(t, "check_sdo_timeouts")
    /\ LET nodes == SetToSeq({n \in Nodes : Expired(n)})
           timeout(i) == Complete(Head(queue[nodes[i]]), Failure)
       IN Then(t, [i \in DOMAIN nodes |-> timeout(i)]
                  \o [i \in DOMAIN nodes |-> Activate(nodes[i])])
    /\ queue' = [n \in Nodes |-> IF Expired(n) THEN Tail(queue[n]) ELSE queue[n]]
    /\ UNCHANGED <<active, late, completed, eventVars, busVars, submitted, stopVars>>

-------------------------------------------------------------------------------
(* The event thread                                                        *)

EventLoop ==
    /\ EventThread \in running
    /\ \/ /\ events # <<>>
          /\ events' = Tail(events)
          /\ IF Head(events).critical THEN Run(Head(events)) ELSE UNCHANGED <<ran, result>>
          /\ UNCHANGED running
       \/ /\ events = <<>> /\ eventStopping
          /\ running' = running \ {EventThread}
          /\ UNCHANGED eventVars
    /\ UNCHANGED <<queueVars, completed, busVars, todo, submitted, stopping, eventStopping>>

-------------------------------------------------------------------------------
(* stop()                                                                  *)

StopBegin ==
    /\ ~stopping
    /\ stopping' = TRUE
    /\ todo' = [todo EXCEPT ![Stopper] = <<CancelAll, StopEvents, JoinEvents>>]
    /\ UNCHANGED <<queueVars, completed, eventVars, busVars, submitted, eventStopping, running>>

\* Mutant: the queues are dropped.
StopForgets(t) ==
    /\ NextTask(t, "cancel")
    /\ Protocol \notin running
    /\ Then(t, <<>>)
    /\ queue' = [n \in Nodes |-> <<>>]
    /\ UNCHANGED <<active, late, completed, eventVars, busVars, submitted, stopVars>>

(* After the join of the protocol thread: the requests of every node, in   *)
(* their order.                                                            *)
StopCancels(t) ==
    /\ NextTask(t, "cancel")
    /\ Protocol \notin running
    /\ \E all \in SetToSeqs(UNION {Range(queue[n]) : n \in Nodes}) :
          /\ \A n \in Nodes : SelectSeq(all, LAMBDA r : NodeOf[r] = n) = queue[n]
          /\ Then(t, [i \in DOMAIN all |-> Complete(all[i], Failure)])
    /\ queue' = [n \in Nodes |-> <<>>]
    /\ UNCHANGED <<active, late, completed, eventVars, busVars, submitted, stopVars>>

StopEndsEvents(t) ==
    /\ NextTask(t, "event_stopping_")
    /\ eventStopping' = TRUE
    /\ Then(t, <<>>)
    /\ UNCHANGED <<queueVars, completed, eventVars, busVars, submitted, stopping, running>>

StopJoins(t) ==
    /\ NextTask(t, "join")
    /\ EventThread \notin running
    /\ Then(t, <<>>)
    /\ UNCHANGED <<queueVars, completed, eventVars, busVars, submitted, stopVars>>

-------------------------------------------------------------------------------
(* The bus, the nodes and time                                             *)

Received(answer) ==
    receive' = Append(IF Len(receive) >= ReceiveLimit THEN Tail(receive) ELSE receive, answer)

NodeAnswers(n) ==
    /\ bus[n] # <<>>
    /\ bus' = [bus EXCEPT ![n] = Tail(@)]
    /\ Received(Head(bus[n]))
    /\ UNCHANGED <<queueVars, completed, eventVars, todo, submitted, stopVars>>

NodeMisses(n) ==
    /\ bus[n] # <<>>
    /\ bus' = [bus EXCEPT ![n] = Tail(@)]
    /\ UNCHANGED <<queueVars, completed, eventVars, receive, todo, submitted, stopVars>>

DeadlinePasses(n) ==
    /\ queue[n] # <<>> /\ Head(queue[n]) \in active \ late
    /\ late' = late \cup {Head(queue[n])}
    /\ UNCHANGED <<queue, active, completed, eventVars, busVars, todo, submitted, stopVars>>

-------------------------------------------------------------------------------
Task(t) ==
    \/ ActivateNext(t) \/ SendFrame(t) \/ TransportSend(t) \/ PopSdo(t)
    \/ CompleteSdo(t) \/ PostEvent(t) \/ EmitRaw(t)
    \/ TakeFrames(t) \/ ProcessSdo(t) \/ CheckTimeouts(t)
    \/ StopCancels(t) \/ StopEndsEvents(t) \/ StopJoins(t)

Environment ==
    \/ \E r \in Requests : Submit(r)
    \/ \E n \in Nodes : NodeAnswers(n) \/ NodeMisses(n) \/ DeadlinePasses(n)
    \/ StopBegin

(* Everything was asked, answered and stopped.                             *)
Ended ==
    /\ submitted \in Together /\ running = {} /\ \A t \in Threads : todo[t] = <<>>
    /\ UNCHANGED vars

Next == (\E t \in Threads : Task(t)) \/ ProtocolLoop \/ EventLoop \/ Environment \/ Ended

Spec == Init /\ [][Next]_vars

(* Threads are scheduled, the transport returns and deadlines pass;        *)
(* nothing is assumed of the nodes, and stop() may never be called.        *)
Fairness ==
    /\ \A t \in Threads : WF_vars(Task(t))
    /\ WF_vars(ProtocolLoop) /\ WF_vars(EventLoop)
    /\ \A n \in Nodes : WF_vars(DeadlinePasses(n))

FairSpec == Spec /\ Fairness

-------------------------------------------------------------------------------
(* Properties                                                              *)

Tasks == UNION {Range(todo[t]) : t \in Threads}

(* The completion of a request is called at most once, and is never lost:  *)
(* from the exchange of `completed` on it is with exactly one thread or    *)
(* in the event queue, or it was called.                                   *)
Carriers(r) ==
    {t \in Threads : \E k \in Range(todo[t]) : k.do = "enqueue_event" /\ k.request = r}
Places(r) == {i \in DOMAIN events : events[i].critical /\ events[i].request = r}
AnsweredOnce ==
    \A r \in Requests :
        ran[r] + Cardinality(Places(r)) + Cardinality(Carriers(r))
            = IF r \in completed THEN 1 ELSE 0

(* A request that is not answered yet is in the queue of its node or about *)
(* to be completed by a thread, and a queue whose first request is not in  *)
(* service is about to be served: no order of submissions, failing sends,  *)
(* answers, timeouts and stop() leaves a request behind.                   *)
NobodyForgotten ==
    /\ \A r \in submitted \ completed :
          \/ r \in Range(queue[NodeOf[r]])
          \/ \E k \in Tasks : k.do = "complete_sdo" /\ k.request = r
    /\ \A n \in Nodes : Waiting(n) => Activate(n) \in Tasks

(* SDO frames carry no sequence number: a request is completed with the    *)
(* answer to another one only when that is for the same object of the same *)
(* node, and only after a request for that object has timed out.           *)
SameObject(p, r) == NodeOf[p] = NodeOf[r] /\ ObjectOf[p] = ObjectOf[r]
ConfusedOnlyByLateAnswers ==
    \A r, q \in Requests : result[r] = q /\ q # r =>
        /\ SameObject(q, r)
        /\ \E p \in late \ {r} : SameObject(p, r)

(* Every request ends, whatever the nodes do and whether or not the master *)
(* is stopped: a caller may wait for its answer without a timeout.  (What  *)
(* was submitted and what was answered only grow.)                         *)
EveryRequestEnds == []<>(\A r \in submitted : ran[r] = 1)

(* An answer that comes after its request timed out is not taken for the   *)
(* answer to another request: late_reply_after_timeout_is_logged_as_       *)
(* unmatched in test_can_diagnostics.cpp.                                  *)
LateReplyIsUnmatched ==
    \A r, q \in Requests : result[r] = q => q = r
===============================================================================
