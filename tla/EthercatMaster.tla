---------------------------- MODULE EthercatMaster ----------------------------
(***************************************************************************)
(* The EtherCAT master of the arm (chassis::ethercat::Master): a cyclic    *)
(* thread exchanges one process image with the drives every 2 ms, callers  *)
(* write fields of that image and wait until a frame has carried them, and *)
(* one irreversible fault latch takes all drives out of operation.         *)
(*                                                                         *)
(* The steps are the code's critical sections on image_mutex_, and between *)
(* two of them the frame on the wire, which no lock protects.  What a      *)
(* drive is told is abstracted to the number of the newest write in the    *)
(* output image; Off is a control word of zero.                            *)
(***************************************************************************)
EXTENDS Integers

CONSTANTS
    Slaves,     \* the selected drives
    Callers,    \* threads inside Node::download_blocking
    PdoLimit,   \* CyclicHealth::pdo_failure_limit
    AlLimit,    \* CyclicHealth::al_failure_limit
    MaxWrites   \* bound: writes of one process

ASSUME LimitAssumption ==
    PdoLimit \in Nat \ {0} /\ AlLimit \in Nat \ {0} /\ MaxWrites \in Nat

VARIABLES
    output,       \* [Slaves -> generation]: Image::output
    requested,    \* requested_generation_
    sent,         \* sent_generation_
    applied,      \* applied_generation_
    fault,        \* fault_ is not empty
    aged,         \* now - last_feedback_ > feedback_deadline
    pdoFailures,  \* CyclicHealth::pdo_failures_
    alFailures,   \* [Slaves -> Nat]: CyclicHealth::al_failures_
    step,         \* where the cyclic thread is
    good,         \* this cycle's working counter is the expected one
    verdict,      \* this cycle's `fault` text is not empty
    frame,        \* [Slaves -> generation]: the frame handed to SOEM, Off when none
    drive,        \* [Slaves -> generation]: what each drive acts on
    missed,       \* [Slaves -> BOOLEAN]: the last frame did not reach it
    delivered,    \* [Slaves -> generation]: the newest it ever received
    call          \* [Callers -> Call]

cycleVars == <<pdoFailures, alFailures, step, good, verdict, frame, sent>>
wireVars == <<drive, missed, delivered>>
vars == <<output, requested, applied, fault, aged, call, cycleVars, wireVars>>

Off == 0
Generation == 0..MaxWrites
AllOff == [s \in Slaves |-> Off]

NoCall == [st |-> "idle", slave |-> "none", gen |-> 0]
Call == {NoCall} \cup
        [st : {"waiting", "mailbox", "ok", "failed"}, slave : Slaves, gen : Generation]

Stopped == step \in {"closed", "dead"}

FlagsTypeOK ==
    fault \in BOOLEAN /\ aged \in BOOLEAN /\ good \in BOOLEAN /\ verdict \in BOOLEAN

TypeOK ==
    /\ FlagsTypeOK
    /\ output \in [Slaves -> Generation] /\ frame \in [Slaves -> Generation]
    /\ drive \in [Slaves -> Generation] /\ delivered \in [Slaves -> Generation]
    /\ requested \in Generation /\ sent \in Generation /\ applied \in Generation
    /\ pdoFailures \in 0..PdoLimit /\ alFailures \in [Slaves -> 0..AlLimit]
    /\ step \in {"prepare", "exchange", "poll", "publish", "closed", "dead"}
    /\ missed \in [Slaves -> BOOLEAN]
    /\ call \in [Callers -> Call]

\* open(): every drive leaves INIT with a control word of zero, and a first
\* complete exchange starts the clock of the feedback deadline.
Init ==
    /\ output = AllOff /\ frame = AllOff
    /\ requested = 0 /\ sent = 0 /\ applied = 0
    /\ fault = FALSE /\ aged = FALSE /\ good = FALSE /\ verdict = FALSE
    /\ pdoFailures = 0 /\ alFailures = [s \in Slaves |-> 0]
    /\ step = "prepare"
    /\ drive = AllOff /\ delivered = AllOff /\ missed = [s \in Slaves |-> FALSE]
    /\ call = [w \in Callers |-> NoCall]

-----------------------------------------------------------------------------
(* The fault latch and the health check, both under image_mutex_.          *)

\* Mutant: the latch without the zeroed images.
LatchOnly == fault' = TRUE /\ output' = output

\* fault_locked(): the latch, and zero_output() of every image.
Latch == fault' = TRUE /\ output' = AllOff

\* health_locked() does not throw.
Healthy == ~fault /\ ~Stopped /\ ~aged

-----------------------------------------------------------------------------
(* The cyclic thread                                                       *)

\* More than 20 ms have passed since last_feedback_.
Age ==
    /\ ~aged /\ ~Stopped /\ aged' = TRUE
    /\ UNCHANGED <<output, requested, applied, fault, call, cycleVars, wireVars>>

\* The first critical section: an expired deadline latches the fault, the
\* image is copied to the buffers SOEM sends, and the generation is noted.
Prepare ==
    /\ step = "prepare" /\ step' = "exchange"
    /\ IF aged THEN Latch ELSE UNCHANGED <<output, fault>>
    /\ frame' = output'
    /\ sent' = requested
    /\ verdict' = FALSE
    /\ UNCHANGED <<requested, applied, aged, call, pdoFailures, alFailures, good, wireVars>>

\* observe_pdo(): the consecutive mismatches after this exchange.
PdoFailures(ok) ==
    IF ok THEN 0 ELSE IF pdoFailures < PdoLimit THEN pdoFailures + 1 ELSE PdoLimit

\* Send and receive, without a lock: the frame reaches some of the drives, and
\* the working counter is complete only when it reached all of them and came
\* back in time.
Exchange ==
    /\ step = "exchange" /\ step' = "poll"
    /\ \E reached \in SUBSET Slaves : \E back \in BOOLEAN :
        /\ good' = (reached = Slaves /\ back)
        /\ drive' = [s \in Slaves |-> IF s \in reached THEN frame[s] ELSE drive[s]]
        /\ missed' = [s \in Slaves |-> s \notin reached]
        /\ delivered' = [s \in Slaves |-> IF s \in reached /\ frame[s] > delivered[s]
                                          THEN frame[s] ELSE delivered[s]]
    /\ pdoFailures' = PdoFailures(good')
    /\ verdict' = (pdoFailures' = PdoLimit)
    /\ frame' = AllOff
    /\ UNCHANGED <<output, requested, applied, fault, aged, call, alFailures, sent>>

\* observe_al(): the consecutive unanswered polls of one slave.
AlFailures(n, answered) ==
    IF answered THEN 0 ELSE IF n < AlLimit THEN n + 1 ELSE AlLimit

\* The AL status of the slaves that are due: every tenth cycle all of them
\* (which cycle that is is left open), and in every cycle one that did not
\* answer last time.  An answer other than OPERATIONAL is a fault at once.
Poll ==
    /\ step = "poll" /\ step' = "publish"
    /\ \E tenth \in BOOLEAN : \E answered, operational \in SUBSET Slaves :
        LET polled == {s \in Slaves : tenth \/ alFailures[s] > 0} IN
        /\ operational \subseteq answered /\ answered \subseteq polled
        /\ alFailures' = [s \in Slaves |-> IF s \in polled
                             THEN AlFailures(alFailures[s], s \in answered)
                             ELSE alFailures[s]]
        /\ verdict' = (\/ verdict
                       \/ answered # operational
                       \/ \E s \in polled : alFailures'[s] = AlLimit)
    /\ UNCHANGED <<output, requested, applied, fault, aged, call, pdoFailures, good, frame,
                   sent, wireVars>>

\* Mutant: acknowledges what was requested meanwhile, too.
PublishInputsNewest == applied' = requested /\ aged' = FALSE

\* The inputs of a complete exchange are published, and the generation its frame
\* carried is acknowledged.
PublishInputs == applied' = sent /\ aged' = FALSE

\* The second critical section: a verdict or an expired deadline latches the
\* fault; otherwise a complete exchange is published unless a fault is latched
\* already, and an incomplete one is discarded.
Publish ==
    /\ step = "publish" /\ step' = "prepare"
    /\ IF verdict \/ aged THEN Latch ELSE UNCHANGED <<output, fault>>
    /\ IF good /\ ~verdict /\ ~fault /\ ~aged THEN PublishInputs ELSE UNCHANGED <<applied, aged>>
    /\ good' = FALSE /\ verdict' = FALSE
    /\ UNCHANGED <<requested, call, pdoFailures, alFailures, frame, sent, wireVars>>

-----------------------------------------------------------------------------
(* The callers                                                             *)

Idle(w) == call[w].st = "idle"
SetCall(w, st, s, g) == call' = [call EXCEPT ![w] = [st |-> st, slave |-> s, gen |-> g]]

\* write() of a mapped object: the field is in the image and the caller waits.
Write(w, s) ==
    /\ Idle(w) /\ Healthy /\ requested < MaxWrites
    /\ requested' = requested + 1
    /\ output' = [output EXCEPT ![s] = requested + 1]
    /\ SetCall(w, "waiting", s, requested + 1)
    /\ UNCHANGED <<applied, fault, aged, cycleVars, wireVars>>

\* write() when the health check throws, or the object does not fit the layout
\* of the image: nothing is stored.
WriteRefused(w, s) ==
    /\ Idle(w) /\ ~Stopped
    /\ SetCall(w, "failed", s, 0)
    /\ UNCHANGED <<output, requested, applied, fault, aged, cycleVars, wireVars>>

\* Mutant: waits for a generation that is never requested.
WokenPast(w) == applied > call[w].gen \/ fault

\* The wait's predicate.
Woken(w) == applied >= call[w].gen \/ fault

WriteReturns(w) ==
    /\ call[w].st = "waiting" /\ Woken(w)
    /\ call' = [call EXCEPT ![w].st = IF Healthy THEN "ok" ELSE "failed"]
    /\ UNCHANGED <<output, requested, applied, fault, aged, cycleVars, wireVars>>

\* The wait expires: the caller itself latches the fault.  zero_output() also
\* writes the buffers SOEM sends, which the cyclic thread reads without the
\* lock: a frame being sent carries, drive by drive, the old or the new value.
WriteTimesOut(w) ==
    /\ call[w].st = "waiting" /\ ~Woken(w)
    /\ Latch
    /\ call' = [call EXCEPT ![w].st = "failed"]
    /\ \E zeroed \in SUBSET Slaves :
        frame' = [s \in Slaves |-> IF s \in zeroed THEN Off ELSE frame[s]]
    /\ UNCHANGED <<requested, applied, aged, pdoFailures, alFailures, step, good, verdict,
                   sent, wireVars>>

\* An object that is not mapped goes through the mailbox, with the health
\* checked before and after; the transfer itself may be refused.  Waiting for
\* mailbox_mutex_ and the transfer are one state of the call.
MailboxBegin(w, s) ==
    /\ Idle(w) /\ Healthy
    /\ SetCall(w, "mailbox", s, 0)
    /\ UNCHANGED <<output, requested, applied, fault, aged, cycleVars, wireVars>>

MailboxEnd(w) ==
    /\ call[w].st = "mailbox"
    /\ \E st \in {"ok", "failed"} :
        /\ st = "ok" => Healthy
        /\ call' = [call EXCEPT ![w].st = st]
    /\ UNCHANGED <<output, requested, applied, fault, aged, cycleVars, wireVars>>

\* The caller has its result and may call again.
Return(w) ==
    /\ call[w].st \in {"ok", "failed"}
    /\ call' = [call EXCEPT ![w] = NoCall]
    /\ UNCHANGED <<output, requested, applied, fault, aged, cycleVars, wireVars>>

-----------------------------------------------------------------------------
(* The end of the process, and the drives' own watchdog                    *)

\* With the process its memory is gone.
Forget ==
    /\ output' = AllOff /\ frame' = AllOff
    /\ requested' = 0 /\ sent' = 0 /\ applied' = 0
    /\ fault' = FALSE /\ aged' = FALSE /\ good' = FALSE /\ verdict' = FALSE
    /\ pdoFailures' = 0 /\ alFailures' = [s \in Slaves |-> 0]
    /\ delivered' = AllOff /\ missed' = [s \in Slaves |-> FALSE]
    /\ call' = [w \in Callers |-> NoCall]

\* close(), which the last owner runs, so no caller is inside: the thread is
\* joined between two cycles, the images are zeroed and sent once more.
Close ==
    /\ step = "prepare" /\ \A w \in Callers : Idle(w)
    /\ step' = "closed" /\ Forget
    /\ \E reached \in SUBSET Slaves :
        drive' = [s \in Slaves |-> IF s \in reached THEN Off ELSE drive[s]]

\* The process is killed: whatever the drives have stays with them.
Die == ~Stopped /\ step' = "dead" /\ Forget /\ UNCHANGED drive

\* The process-data watchdog that open() programs into every drive: 100 ms
\* without a frame, which is far beyond the 20 ms of the feedback deadline.
Watchdog(s) ==
    /\ aged \/ Stopped
    /\ drive' = [drive EXCEPT ![s] = Off]
    /\ UNCHANGED <<output, requested, applied, fault, aged, call, cycleVars, missed, delivered>>

\* A new process opens the bus again.
Open ==
    /\ Stopped /\ step' = "prepare" /\ drive' = AllOff
    /\ UNCHANGED <<output, requested, applied, fault, aged, call, pdoFailures, alFailures, good,
                   verdict, frame, sent, missed, delivered>>

-----------------------------------------------------------------------------
Cycle == Prepare \/ Exchange \/ Poll \/ Publish

Calls(w) ==
    \/ \E s \in Slaves : Write(w, s) \/ WriteRefused(w, s) \/ MailboxBegin(w, s)
    \/ WriteReturns(w) \/ WriteTimesOut(w) \/ MailboxEnd(w) \/ Return(w)

Next ==
    \/ Age \/ Cycle
    \/ \E w \in Callers : Calls(w)
    \/ Close \/ Die \/ Open
    \/ \E s \in Slaves : Watchdog(s)

Spec == Init /\ [][Next]_vars

\* The cyclic thread of a living process keeps running (its receive has a
\* timeout) and a caller that was notified wakes up; once nothing is published
\* any more 20 ms pass; and a drive that gets no frames trips its watchdog.
\* Nothing is assumed of the bus, and no wait is assumed to time out.
Fairness ==
    /\ WF_vars(Cycle)
    /\ \A w \in Callers : WF_vars(WriteReturns(w))
    /\ WF_vars(Age /\ fault)
    /\ \A s \in Slaves : WF_vars((missed[s] \/ Stopped) /\ Watchdog(s))

FairSpec == Spec /\ Fairness

-----------------------------------------------------------------------------
(* What the master promises                                                *)

\* A write that returns success has been received by the drive it was for: no
\* acknowledgement is ever taken from a frame that was prepared before the
\* write, nor from one that did not reach every drive (write() and the
\* generations of cycle()).
AcknowledgedIsDelivered ==
    \A w \in Callers :
        call[w].st = "ok" => delivered[call[w].slave] >= call[w].gen

\* Once the fault is latched no call puts a command back into the image, and
\* every frame the cyclic thread prepares from then on is zero.  Only the one
\* that was being sent when a waiting caller latched the fault may still carry
\* commands (fault_locked(), the health check of write()).
LatchedIsOff ==
    [][fault => output' = AllOff /\ (frame' = AllOff \/ step = "exchange")]_vars

\* A write that fails leaves a master that cannot move a drive again: the fault
\* is latched, or the deadline has passed and the next cycle must latch it.
FailedIsFinal ==
    \A w \in Callers :
        call[w].st = "failed" /\ call[w].gen > 0 => fault \/ aged

\* A late frame never undoes an expired deadline, however complete it is: only
\* a new process starts with fresh feedback (Publish and Prepare of cycle(), and
\* the table of faults in docs/arm_cartesian_control.md:150).
LateStaysLate == [][aged => aged' \/ Stopped']_vars

\* Latched, closed or killed, the drives end up without a command, from the
\* master's zero frames or from their own watchdogs.
FaultStopsDrives == (fault \/ Stopped) ~> (drive = AllOff)

\* A waiting caller is always answered by the cyclic thread itself, whatever the
\* bus does: a complete exchange acknowledges it, and a bus that gives none
\* reaches the limit of consecutive failures and latches the fault.
WaitsEnd ==
    \A w \in Callers : (call[w].st = "waiting") ~> (call[w].st # "waiting")

-----------------------------------------------------------------------------
(* The inductive invariant behind the safety properties                    *)

Ordered == applied <= sent /\ sent <= requested

\* A waiting command is somewhere on its way to its drive, unless the latch has
\* taken it back: in the image, in the frame if that was prepared after the
\* write, at the drive if that frame came back complete.
OnItsWay(w) ==
    LET g == call[w].gen
        s == call[w].slave
    IN  /\ g <= requested
        /\ fault \/ output[s] >= g
        /\ step = "exchange" /\ sent >= g => fault \/ frame[s] >= g
        /\ step \in {"poll", "publish"} /\ good /\ sent >= g => fault \/ delivered[s] >= g
        /\ applied >= g => delivered[s] >= g

CallInv(w) ==
    /\ call[w].st = "waiting" => OnItsWay(w)
    /\ call[w].st = "mailbox" => call[w].gen = 0
    /\ call[w].st = "ok" => delivered[call[w].slave] >= call[w].gen
    /\ call[w].st = "failed" /\ call[w].gen > 0 => fault \/ aged

\* Every acknowledgement is a delivery, the latch keeps the image off, only the
\* exchange has a frame, and a process that has ended has no callers.
IInv ==
    /\ TypeOK
    /\ Ordered
    /\ fault => output = AllOff
    /\ step # "exchange" => frame = AllOff
    /\ Stopped => \A w \in Callers : call[w] = NoCall
    /\ \A w \in Callers : CallInv(w)

=============================================================================
