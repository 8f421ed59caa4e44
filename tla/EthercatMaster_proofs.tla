------------------------ MODULE EthercatMaster_proofs ------------------------
(***************************************************************************)
(* Proofs about the EtherCAT master for every set of drives and callers,   *)
(* every limit of the debounce and every number of writes.                 *)
(***************************************************************************)
EXTENDS EthercatMaster, TLAPS

\* A caller outside NoCall is in a call on one of the drives.
LEMMA CallFields ==
  ASSUME NEW c \in Call
  PROVE  /\ c = NoCall \/ (c.slave \in Slaves /\ c # NoCall)
         /\ c.st # "idle" => c.slave \in Slaves
         /\ c.gen \in Generation
         /\ c = [st |-> c.st, slave |-> c.slave, gen |-> c.gen]
  BY LimitAssumption DEF Call, NoCall, Generation

\* The values written by one call are a call.
LEMMA CallType ==
  ASSUME NEW c \in Call, NEW s \in Slaves, NEW g \in Generation,
         NEW st \in {"waiting", "mailbox", "ok", "failed"}
  PROVE  /\ [st |-> st, slave |-> s, gen |-> g] \in Call
         /\ NoCall \in Call
         /\ c.st # "idle" => [c EXCEPT !.st = st] \in Call
<1>1. c.st # "idle" => c \in [st : {"waiting", "mailbox", "ok", "failed"},
                              slave : Slaves, gen : Generation]
  BY DEF Call, NoCall
<1> QED BY <1>1 DEF Call

\* The empty image is an image.
LEMMA AllOffType == AllOff \in [Slaves -> Generation]
  BY LimitAssumption DEF AllOff, Off, Generation

-----------------------------------------------------------------------------
(* The initial state and stuttering                                        *)

\* A process that has just opened the bus satisfies the invariant.
LEMMA InitIInv == Init => IInv
<1> SUFFICES ASSUME Init PROVE IInv
  OBVIOUS
<1>1. FlagsTypeOK
  BY Zenon DEF Init, FlagsTypeOK
<1>2. TypeOK
  BY <1>1, AllOffType, LimitAssumption DEF Init, TypeOK, Generation, Call
<1> QED BY <1>2, LimitAssumption DEF Init, IInv, Ordered, CallInv, NoCall, Stopped

\* A step that changes nothing keeps the invariant.
LEMMA StutterStep == IInv /\ UNCHANGED vars => IInv'
<1> SUFFICES ASSUME IInv, UNCHANGED vars PROVE IInv'
  OBVIOUS
<1> USE DEF vars, cycleVars, wireVars
<1>1. TypeOK'
  BY DEF IInv, TypeOK, FlagsTypeOK
<1>2. Ordered' /\ Stopped' = Stopped
  BY DEF IInv, Ordered, Stopped
<1>3. \A w \in Callers : CallInv(w)'
  BY DEF IInv, CallInv, OnItsWay
<1> QED BY <1>1, <1>2, <1>3 DEF IInv

-----------------------------------------------------------------------------
(* The cyclic thread                                                       *)

\* Ageing touches nothing but the age.
LEMMA AgeStep == IInv /\ Age => IInv'
<1> SUFFICES ASSUME IInv, Age PROVE IInv'
  OBVIOUS
<1> USE DEF cycleVars, wireVars
<1>0. FlagsTypeOK'
  BY Zenon DEF IInv, TypeOK, FlagsTypeOK, Age
<1>1. TypeOK'
  BY <1>0 DEF IInv, TypeOK, Age
<1>2. Ordered' /\ Stopped' = Stopped
  BY DEF IInv, Ordered, Stopped, Age
<1>3. \A w \in Callers : CallInv(w)'
  BY DEF IInv, CallInv, OnItsWay, Age
<1> QED BY <1>1, <1>2, <1>3 DEF IInv, Age

\* The frame is a copy of the image and carries every requested generation.
LEMMA PrepareStep == IInv /\ Prepare => IInv'
<1> SUFFICES ASSUME IInv, Prepare PROVE IInv'
  OBVIOUS
<1> USE DEF wireVars
<1>1. output' \in [Slaves -> Generation] /\ (fault' => output' = AllOff)
  BY AllOffType DEF IInv, TypeOK, Prepare, Latch
<1>2. FlagsTypeOK'
  BY Zenon DEF IInv, TypeOK, FlagsTypeOK, Prepare, Latch
<1>3. TypeOK'
  BY <1>1, <1>2 DEF IInv, TypeOK, Prepare
<1>4. fault' \/ output' = output
  BY DEF Prepare, Latch
<1>5. fault => fault'
  BY DEF Prepare, Latch
<1>6. ASSUME NEW w \in Callers PROVE CallInv(w)'
  BY <1>4, <1>5 DEF IInv, CallInv, OnItsWay, Prepare
<1> QED BY <1>1, <1>3, <1>6 DEF IInv, Ordered, Prepare, Stopped, TypeOK, Generation

\* What a complete exchange was given to carry has been delivered.
LEMMA ExchangeStep == IInv /\ Exchange => IInv'
<1> SUFFICES ASSUME IInv, Exchange PROVE IInv'
  OBVIOUS
<1>1. PICK reached \in SUBSET Slaves, back \in BOOLEAN :
        /\ good' = (reached = Slaves /\ back)
        /\ drive' = [s \in Slaves |-> IF s \in reached THEN frame[s] ELSE drive[s]]
        /\ missed' = [s \in Slaves |-> s \notin reached]
        /\ delivered' = [s \in Slaves |-> IF s \in reached /\ frame[s] > delivered[s]
                                          THEN frame[s] ELSE delivered[s]]
  BY Zenon DEF Exchange
<1>2. FlagsTypeOK'
  <2>1. good' \in BOOLEAN
    BY <1>1, Zenon
  <2> QED BY <2>1, Zenon DEF IInv, TypeOK, FlagsTypeOK, Exchange
<1>3. missed' \in [Slaves -> BOOLEAN]
  BY <1>1, Zenon
<1>4. pdoFailures' \in 0..PdoLimit
  BY LimitAssumption DEF IInv, TypeOK, Exchange, PdoFailures
<1>5. /\ drive' \in [Slaves -> Generation] /\ delivered' \in [Slaves -> Generation]
      /\ frame' \in [Slaves -> Generation]
  BY <1>1, AllOffType DEF IInv, TypeOK, Exchange
<1>6. TypeOK'
  BY <1>2, <1>3, <1>4, <1>5 DEF IInv, TypeOK, Exchange
<1>7. ASSUME NEW s \in Slaves
      PROVE  delivered'[s] >= delivered[s] /\ (good' => delivered'[s] >= frame[s])
  <2>1. frame[s] \in Int /\ delivered[s] \in Int
    BY DEF IInv, TypeOK, Generation
  <2>2. good' => s \in reached
    BY <1>1, Zenon
  <2>3. delivered'[s] = IF s \in reached /\ frame[s] > delivered[s]
                        THEN frame[s] ELSE delivered[s]
    BY <1>1, Zenon
  <2> QED BY <2>1, <2>2, <2>3
<1>8. ASSUME NEW w \in Callers PROVE CallInv(w)'
  <2>1. call[w] \in Call /\ call'[w] = call[w]
    BY DEF IInv, TypeOK, Exchange
  <2>2. call[w].gen \in Generation /\ (call[w].st # "idle" => call[w].slave \in Slaves)
    BY <2>1, CallFields
  <2> QED BY <1>5, <1>7, <2>1, <2>2
      DEF IInv, TypeOK, CallInv, OnItsWay, Exchange, Generation
<1> QED BY <1>6, <1>8 DEF IInv, Ordered, Exchange, Stopped

\* The status polls touch only the counters and the verdict.
LEMMA PollStep == IInv /\ Poll => IInv'
<1> SUFFICES ASSUME IInv, Poll PROVE IInv'
  OBVIOUS
<1> USE DEF wireVars
<1>1. PICK tenth \in BOOLEAN : \E answered, operational \in SUBSET Slaves :
        LET polled == {s \in Slaves : tenth \/ alFailures[s] > 0} IN
        /\ operational \subseteq answered /\ answered \subseteq polled
        /\ alFailures' = [s \in Slaves |-> IF s \in polled
                             THEN AlFailures(alFailures[s], s \in answered)
                             ELSE alFailures[s]]
        /\ verdict' = (\/ verdict
                       \/ answered # operational
                       \/ \E s \in polled : alFailures'[s] = AlLimit)
  BY Zenon DEF Poll
<1>2. FlagsTypeOK'
  <2>1. verdict' \in BOOLEAN
    BY <1>1, Zenon
  <2> QED BY <2>1, Zenon DEF IInv, TypeOK, FlagsTypeOK, Poll
<1>3. alFailures' \in [Slaves -> 0..AlLimit]
  BY <1>1, LimitAssumption DEF IInv, TypeOK, AlFailures
<1>4. TypeOK'
  BY <1>2, <1>3 DEF IInv, TypeOK, Poll
<1>5. ASSUME NEW w \in Callers PROVE CallInv(w)'
  BY DEF IInv, CallInv, OnItsWay, Poll
<1> QED BY <1>4, <1>5 DEF IInv, Ordered, Poll, Stopped

\* Only what has been delivered is acknowledged.
LEMMA PublishStep == IInv /\ Publish => IInv'
<1> SUFFICES ASSUME IInv, Publish PROVE IInv'
  OBVIOUS
<1> USE DEF wireVars
<1>1. output' \in [Slaves -> Generation] /\ (fault' => output' = AllOff)
  BY AllOffType DEF IInv, TypeOK, Publish, Latch
<1>2. FlagsTypeOK'
  BY Zenon DEF IInv, TypeOK, FlagsTypeOK, Publish, PublishInputs, Latch
<1>3. applied' \in Generation /\ applied' <= sent
  BY DEF IInv, TypeOK, Ordered, Publish, PublishInputs, Generation
<1>4. TypeOK'
  BY <1>1, <1>2, <1>3 DEF IInv, TypeOK, Publish
<1>5. /\ fault => fault'
      /\ fault' \/ output' = output
      /\ aged => fault'
      /\ applied' = applied \/ (applied' = sent /\ good /\ ~fault)
  BY DEF Publish, Latch, PublishInputs
<1>6. ASSUME NEW w \in Callers PROVE CallInv(w)'
  BY <1>5 DEF IInv, CallInv, OnItsWay, Publish
<1> QED BY <1>1, <1>3, <1>4, <1>6 DEF IInv, Ordered, Publish, Stopped

-----------------------------------------------------------------------------
(* The callers                                                             *)

\* A new write is in the image and in no frame yet.
LEMMA WriteStep ==
  ASSUME NEW w \in Callers, NEW s \in Slaves
  PROVE  IInv /\ Write(w, s) => IInv'
<1> SUFFICES ASSUME IInv, Write(w, s) PROVE IInv'
  OBVIOUS
<1> USE DEF cycleVars, wireVars
<1> DEFINE g == requested + 1
           new == [st |-> "waiting", slave |-> s, gen |-> g]
<1>1. requested \in Nat /\ g \in Generation /\ requested' = g
  BY LimitAssumption DEF IInv, TypeOK, Write, Generation
<1>2. new \in Call
  BY <1>1 DEF Call
<1>3. /\ call' = [call EXCEPT ![w] = new] /\ call' \in [Callers -> Call]
      /\ output' = [output EXCEPT ![s] = g] /\ output' \in [Slaves -> Generation]
  BY <1>1, <1>2 DEF IInv, TypeOK, Write, SetCall
<1>4. FlagsTypeOK'
  BY Zenon DEF IInv, TypeOK, FlagsTypeOK, Write
<1>5. TypeOK'
  BY <1>1, <1>3, <1>4 DEF IInv, TypeOK, Write
<1>6. ~fault /\ ~Stopped
  BY DEF Write, Healthy
<1>7. /\ sent \in Nat /\ applied \in Nat /\ sent <= requested /\ applied <= requested
  BY DEF IInv, TypeOK, Ordered, Generation
<1>8. ASSUME NEW v \in Callers PROVE CallInv(v)'
  <2>1. CASE v = w
    BY <2>1, <1>1, <1>3, <1>7 DEF IInv, TypeOK, CallInv, OnItsWay, Write
  <2>2. CASE v # w
    <3>1. call'[v] = call[v] /\ call[v] \in Call
      BY <2>2, <1>3 DEF IInv, TypeOK
    <3>2. call[v].gen \in Generation /\ (call[v].st # "idle" => call[v].slave \in Slaves)
      BY <3>1, CallFields
    <3>3. CallInv(v)
      BY DEF IInv
    <3>4. call[v].st = "waiting" =>
            /\ call[v].gen <= g
            /\ fault \/ output'[call[v].slave] >= call[v].gen
      BY <1>1, <1>3, <3>2, <3>3 DEF IInv, TypeOK, CallInv, OnItsWay, Generation
    <3> QED BY <1>1, <3>1, <3>3, <3>4 DEF CallInv, OnItsWay, Write
  <2> QED BY <2>1, <2>2
<1>9. Ordered'
  BY <1>1, <1>7 DEF IInv, Ordered, Write
<1> QED BY <1>5, <1>6, <1>8, <1>9 DEF IInv, Write, Stopped

\* A step of one caller that touches nothing but its own call keeps the
\* invariant if the new call is well typed and keeps its part.
LEMMA OwnCallStep ==
  ASSUME NEW w \in Callers, NEW c \in Call,
         IInv, ~Stopped, call' = [call EXCEPT ![w] = c],
         UNCHANGED <<output, requested, applied, fault, aged, cycleVars, wireVars>>,
         c.st # "waiting",
         c.st = "mailbox" => c.gen = 0,
         c.st = "ok" => delivered[c.slave] >= c.gen,
         c.st = "failed" /\ c.gen > 0 => fault \/ aged
  PROVE  IInv'
<1> USE DEF cycleVars, wireVars
<1>1. call' \in [Callers -> Call] /\ call'[w] = c
  BY DEF IInv, TypeOK
<1>2. FlagsTypeOK'
  BY Zenon DEF IInv, TypeOK, FlagsTypeOK
<1>3. TypeOK'
  BY <1>1, <1>2 DEF IInv, TypeOK
<1>4. ASSUME NEW v \in Callers PROVE CallInv(v)'
  <2>1. CASE v = w
    BY <2>1, <1>1 DEF CallInv
  <2>2. CASE v # w
    BY <2>2, <1>1 DEF IInv, TypeOK, CallInv, OnItsWay
  <2> QED BY <2>1, <2>2
<1> QED BY <1>3, <1>4 DEF IInv, Ordered, Stopped

\* In a process that has ended no caller is inside a call.
LEMMA CallerLives ==
  ASSUME NEW w \in Callers, IInv, ~Idle(w)
  PROVE  ~Stopped /\ call[w] \in Call /\ call[w].slave \in Slaves /\ call[w].gen \in Generation
<1>1. call[w] \in Call
  BY DEF IInv, TypeOK
<1> QED BY <1>1, CallFields DEF IInv, Idle, NoCall

\* A refused write has no generation to wait for.
LEMMA WriteRefusedStep ==
  ASSUME NEW w \in Callers, NEW s \in Slaves
  PROVE  IInv /\ WriteRefused(w, s) => IInv'
<1> SUFFICES ASSUME IInv, WriteRefused(w, s) PROVE IInv'
  OBVIOUS
<1>1. [st |-> "failed", slave |-> s, gen |-> 0] \in Call
  BY LimitAssumption DEF Call, Generation
<1> DEFINE c == [st |-> "failed", slave |-> s, gen |-> 0]
<1>2. /\ c.st = "failed" /\ c.gen = 0
      /\ ~Stopped /\ call' = [call EXCEPT ![w] = c]
      /\ UNCHANGED <<output, requested, applied, fault, aged, cycleVars, wireVars>>
  BY DEF WriteRefused, SetCall
<1>3. /\ c \in Call
      /\ c.st # "waiting"
      /\ c.st = "mailbox" => c.gen = 0
      /\ c.st = "ok" => delivered[c.slave] >= c.gen
      /\ c.st = "failed" /\ c.gen > 0 => fault \/ aged
  BY <1>1
<1> HIDE DEF c
<1> QED BY <1>2, <1>3, OwnCallStep, Zenon

\* Success is returned only for an acknowledged, hence delivered, generation.
LEMMA WriteReturnsStep ==
  ASSUME NEW w \in Callers
  PROVE  IInv /\ WriteReturns(w) => IInv'
<1> SUFFICES ASSUME IInv, WriteReturns(w) PROVE IInv'
  OBVIOUS
<1> DEFINE st == IF Healthy THEN "ok" ELSE "failed"
           c == [call[w] EXCEPT !.st = st]
<1>1. ~Stopped /\ call[w] \in Call /\ call[w].slave \in Slaves /\ call[w].gen \in Generation
  BY CallerLives DEF WriteReturns, Idle
<1>2. c = [st |-> st, slave |-> call[w].slave, gen |-> call[w].gen] /\ c \in Call
  BY <1>1, CallFields DEF WriteReturns, Call, NoCall
<1>3. call' = [call EXCEPT ![w] = c]
  BY DEF WriteReturns
<1>4. OnItsWay(w)
  BY DEF IInv, CallInv, WriteReturns
<1>5. c.st = "ok" => delivered[c.slave] >= c.gen
  BY <1>2, <1>4 DEF WriteReturns, Woken, Healthy, OnItsWay
<1>6. c.st = "failed" => fault \/ aged
  BY <1>1, <1>2 DEF Healthy
<1>7. c.st # "waiting"
  BY <1>2
<1> HIDE DEF c
<1> QED BY <1>1, <1>2, <1>3, <1>5, <1>6, <1>7, OwnCallStep DEF WriteReturns

\* A wait that expires latches the fault for everybody.
LEMMA WriteTimesOutStep ==
  ASSUME NEW w \in Callers
  PROVE  IInv /\ WriteTimesOut(w) => IInv'
<1> SUFFICES ASSUME IInv, WriteTimesOut(w) PROVE IInv'
  OBVIOUS
<1> USE DEF wireVars
<1> DEFINE c == [call[w] EXCEPT !.st = "failed"]
<1>1. ~Stopped /\ call[w] \in Call /\ call[w].slave \in Slaves /\ call[w].gen \in Generation
  BY CallerLives DEF WriteTimesOut, Idle
<1>2. c = [st |-> "failed", slave |-> call[w].slave, gen |-> call[w].gen] /\ c \in Call
  BY <1>1, CallFields DEF WriteTimesOut, Call, NoCall
<1>3. call' = [call EXCEPT ![w] = c] /\ call' \in [Callers -> Call] /\ call'[w] = c
  BY <1>2 DEF WriteTimesOut, IInv, TypeOK
<1>4. PICK zeroed \in SUBSET Slaves :
        frame' = [s \in Slaves |-> IF s \in zeroed THEN Off ELSE frame[s]]
  BY Zenon DEF WriteTimesOut
<1>5. frame' \in [Slaves -> Generation] /\ (frame = AllOff => frame' = AllOff)
  BY <1>4, LimitAssumption DEF IInv, TypeOK, AllOff, Off, Generation
<1>6. fault' /\ output' = AllOff
  BY DEF WriteTimesOut, Latch
<1>7. FlagsTypeOK'
  BY <1>6, Zenon DEF IInv, TypeOK, FlagsTypeOK, WriteTimesOut, Latch
<1>8. TypeOK'
  BY <1>3, <1>5, <1>6, <1>7, AllOffType DEF IInv, TypeOK, WriteTimesOut
<1>9. ASSUME NEW v \in Callers PROVE CallInv(v)'
  <2>1. CASE v = w
    BY <2>1, <1>2, <1>3, <1>6 DEF CallInv
  <2>2. CASE v # w
    BY <2>2, <1>3, <1>6 DEF IInv, TypeOK, CallInv, OnItsWay, WriteTimesOut
  <2> QED BY <2>1, <2>2
<1> QED BY <1>1, <1>5, <1>6, <1>8, <1>9 DEF IInv, Ordered, WriteTimesOut, Stopped

\* Mailbox transfers and the end of a call involve no generation.
LEMMA MailboxStep ==
  ASSUME NEW w \in Callers
  PROVE  /\ \A s \in Slaves : IInv /\ MailboxBegin(w, s) => IInv'
         /\ IInv /\ MailboxEnd(w) => IInv'
         /\ IInv /\ Return(w) => IInv'
<1>1. ASSUME NEW s \in Slaves, IInv, MailboxBegin(w, s) PROVE IInv'
  <2>1. [st |-> "mailbox", slave |-> s, gen |-> 0] \in Call
    BY LimitAssumption DEF Call, Generation
  <2> QED BY <1>1, <2>1, OwnCallStep DEF MailboxBegin, SetCall, Healthy
<1>2. ASSUME IInv, MailboxEnd(w) PROVE IInv'
  <2>1. ~Stopped /\ call[w] \in Call /\ call[w].slave \in Slaves /\ call[w].gen \in Generation
    BY <1>2, CallerLives DEF MailboxEnd, Idle
  <2>2. PICK st \in {"ok", "failed"} : call' = [call EXCEPT ![w].st = st]
    BY <1>2, Zenon DEF MailboxEnd
  <2>3. call[w].gen = 0
    BY <1>2 DEF IInv, CallInv, MailboxEnd
  <2> DEFINE c == [call[w] EXCEPT !.st = st]
  <2>4. c = [st |-> st, slave |-> call[w].slave, gen |-> 0] /\ c \in Call
    BY <1>2, <2>1, <2>3, CallFields, LimitAssumption DEF MailboxEnd, Call, Generation
  <2>5. c.st # "waiting" /\ c.st # "mailbox" /\ c.gen = 0 /\ c.slave \in Slaves
    BY <2>1, <2>4
  <2> DEFINE s == c.slave
  <2>6. s \in Slaves
    BY <2>5
  <2> HIDE DEF c, s
  <2>7. delivered[s] \in Generation /\ delivered[s] >= 0
    BY <1>2, <2>6, LimitAssumption DEF IInv, TypeOK, Generation
  <2>8. call' = [call EXCEPT ![w] = c]
    BY <2>2 DEF c
  <2>9. UNCHANGED <<output, requested, applied, fault, aged, cycleVars, wireVars>>
    BY <1>2 DEF MailboxEnd
  <2>10. /\ c \in Call
         /\ c.st # "waiting"
         /\ c.st = "mailbox" => c.gen = 0
         /\ c.st = "ok" => delivered[c.slave] >= c.gen
         /\ c.st = "failed" /\ c.gen > 0 => fault \/ aged
    BY <2>4, <2>5, <2>7 DEF s
  <2> QED BY <1>2, <2>1, <2>8, <2>9, <2>10, OwnCallStep, Zenon
<1>3. ASSUME IInv, Return(w) PROVE IInv'
  <2>1. ~Stopped
    BY <1>3, CallerLives DEF Return, Idle
  <2>2. NoCall \in Call /\ NoCall.st = "idle"
    BY DEF Call, NoCall
  <2> QED BY <1>3, <2>1, <2>2, OwnCallStep DEF Return
<1> QED BY <1>1, <1>2, <1>3

-----------------------------------------------------------------------------
(* The end of a process and the drives' watchdogs                          *)

\* With the memory of the process its invariant starts over.
LEMMA ForgetStep ==
  ASSUME IInv, Forget, drive' \in [Slaves -> Generation], step' \in {"closed", "dead"}
  PROVE  IInv'
<1>1. FlagsTypeOK'
  BY Zenon DEF Forget, FlagsTypeOK
<1>2. TypeOK'
  BY <1>1, AllOffType, LimitAssumption DEF Forget, TypeOK, Generation, Call
<1> QED BY <1>2, LimitAssumption DEF IInv, Forget, Ordered, CallInv, NoCall, Stopped

\* Closing and dying keep the invariant.
LEMMA EndStep == IInv /\ (Close \/ Die) => IInv'
<1> SUFFICES ASSUME IInv, Close \/ Die PROVE IInv'
  OBVIOUS
<1>1. CASE Close
  <2>1. PICK reached \in SUBSET Slaves :
          drive' = [s \in Slaves |-> IF s \in reached THEN Off ELSE drive[s]]
    BY <1>1, Zenon DEF Close
  <2>2. drive' \in [Slaves -> Generation]
    BY <2>1, LimitAssumption DEF IInv, TypeOK, Off, Generation
  <2> QED BY <1>1, <2>2, ForgetStep DEF Close
<1>2. CASE Die
  BY <1>2, ForgetStep DEF Die, IInv, TypeOK
<1> QED BY <1>1, <1>2

\* The watchdog of a drive changes only that drive.
LEMMA WatchdogStep ==
  ASSUME NEW s \in Slaves
  PROVE  IInv /\ Watchdog(s) => IInv'
<1> SUFFICES ASSUME IInv, Watchdog(s) PROVE IInv'
  OBVIOUS
<1> USE DEF cycleVars
<1>1. drive' \in [Slaves -> Generation]
  BY LimitAssumption DEF IInv, TypeOK, Watchdog, Off, Generation
<1>2. FlagsTypeOK'
  BY Zenon DEF IInv, TypeOK, FlagsTypeOK, Watchdog
<1>3. TypeOK'
  BY <1>1, <1>2 DEF IInv, TypeOK, Watchdog
<1>4. \A w \in Callers : CallInv(w)'
  BY DEF IInv, CallInv, OnItsWay, Watchdog
<1> QED BY <1>3, <1>4 DEF IInv, Ordered, Watchdog, Stopped

\* A new process starts from fresh memory.
LEMMA OpenStep == IInv /\ Open => IInv'
<1> SUFFICES ASSUME IInv, Open PROVE IInv'
  OBVIOUS
<1>1. FlagsTypeOK'
  BY Zenon DEF IInv, TypeOK, FlagsTypeOK, Open
<1>2. TypeOK'
  BY <1>1, AllOffType DEF IInv, TypeOK, Open
<1>3. \A w \in Callers : call'[w] = NoCall
  BY DEF IInv, Open
<1>4. Ordered' /\ (fault' => output' = AllOff) /\ frame' = AllOff /\ ~Stopped'
  BY DEF IInv, Ordered, Open, Stopped
<1> QED BY <1>2, <1>3, <1>4 DEF IInv, CallInv, NoCall

-----------------------------------------------------------------------------
(* The theorems                                                            *)

\* Every step of the master, its callers and its drives keeps the invariant.
LEMMA NextStep == IInv /\ [Next]_vars => IInv'
<1> SUFFICES ASSUME IInv, [Next]_vars PROVE IInv'
  OBVIOUS
<1>1. CASE Age
  BY <1>1, AgeStep
<1>2. CASE Cycle
  BY <1>2, PrepareStep, ExchangeStep, PollStep, PublishStep DEF Cycle
<1>3. ASSUME NEW w \in Callers, Calls(w) PROVE IInv'
  BY <1>3, WriteStep, WriteRefusedStep, WriteReturnsStep, WriteTimesOutStep, MailboxStep DEF Calls
<1>4. CASE Close \/ Die \/ Open
  BY <1>4, EndStep, OpenStep
<1>5. ASSUME NEW s \in Slaves, Watchdog(s) PROVE IInv'
  BY <1>5, WatchdogStep
<1>6. CASE UNCHANGED vars
  BY <1>6, StutterStep
<1> QED BY <1>1, <1>2, <1>3, <1>4, <1>5, <1>6 DEF Next

\* The inductive invariant holds in every reachable state.
THEOREM Invariance == Spec => []IInv
<1> QED BY InitIInv, NextStep, PTL DEF Spec

\* Every reachable state is well typed (the state of the master in
\* communication.cpp).
THEOREM TypeCorrect == Spec => []TypeOK
<1>1. IInv => TypeOK
  BY DEF IInv
<1> QED BY Invariance, <1>1, PTL

\* A write that returned success has reached its drive, for any number of
\* concurrent callers, drives and generations (write() and cycle()).
THEOREM SuccessIsDelivery == Spec => []AcknowledgedIsDelivered
<1>1. IInv => AcknowledgedIsDelivered
  BY DEF IInv, CallInv, AcknowledgedIsDelivered
<1> QED BY Invariance, <1>1, PTL

\* A failed write leaves a master that is latched or about to latch (write()).
THEOREM FailureIsFinal == Spec => []FailedIsFinal
<1>1. IInv => FailedIsFinal
  BY DEF IInv, CallInv, FailedIsFinal
<1> QED BY Invariance, <1>1, PTL

\* After the latch neither the image nor a new frame carries a command
\* (fault_locked() and the health check of write()).
THEOREM LatchHolds == Spec => LatchedIsOff
<1>1. ASSUME IInv, [Next]_vars, fault
      PROVE  output' = AllOff /\ (frame' = AllOff \/ step = "exchange")
  <2> USE DEF cycleVars, wireVars
  <2>0. output = AllOff /\ (step # "exchange" => frame = AllOff)
    BY <1>1 DEF IInv
  <2>1. CASE Age \/ Prepare \/ Poll \/ Publish \/ UNCHANGED vars
    BY <1>1, <2>0, <2>1 DEF Age, Prepare, Poll, Publish, Latch, vars
  <2>2. CASE Exchange
    BY <1>1, <2>0, <2>2 DEF Exchange
  <2>3. ASSUME NEW w \in Callers, Calls(w)
        PROVE  output' = AllOff /\ (frame' = AllOff \/ step = "exchange")
    <3>1. CASE WriteTimesOut(w)
      BY <1>1, <3>1 DEF WriteTimesOut, Woken
    <3>2. CASE \E s \in Slaves : Write(w, s)
      BY <1>1, <3>2 DEF Write, Healthy
    <3>3. CASE \/ \E s \in Slaves : WriteRefused(w, s) \/ MailboxBegin(w, s)
               \/ WriteReturns(w) \/ MailboxEnd(w) \/ Return(w)
      BY <2>0, <3>3 DEF WriteRefused, MailboxBegin, WriteReturns, MailboxEnd, Return
    <3> QED BY <2>3, <3>1, <3>2, <3>3 DEF Calls
  <2>4. CASE Close \/ Die \/ Open
    BY <2>0, <2>4, <1>1 DEF Close, Die, Forget, Open, Stopped
  <2>5. ASSUME NEW s \in Slaves, Watchdog(s)
        PROVE  output' = AllOff /\ (frame' = AllOff \/ step = "exchange")
    BY <2>0, <2>5 DEF Watchdog
  <2> QED BY <1>1, <2>1, <2>2, <2>3, <2>4, <2>5 DEF Next, Cycle
<1> QED BY Invariance, <1>1, PTL DEF Spec, LatchedIsOff

\* An expired deadline outlives every frame of the process (cycle()).
THEOREM LateIsLatched == Spec => LateStaysLate
<1>1. ASSUME IInv, [Next]_vars, aged PROVE aged' \/ Stopped'
  <2>1. ASSUME NEW w \in Callers, Calls(w) PROVE aged'
    BY <1>1, <2>1 DEF Calls, Write, WriteRefused, MailboxBegin, WriteReturns, WriteTimesOut,
                      MailboxEnd, Return
  <2>2. CASE Age \/ Cycle \/ UNCHANGED vars
    BY <1>1, <2>2 DEF Age, Cycle, Prepare, Exchange, Poll, Publish, vars
  <2>3. CASE Close \/ Die \/ Open
    BY <1>1, <2>3 DEF Close, Die, Open, Stopped
  <2>4. ASSUME NEW s \in Slaves, Watchdog(s) PROVE aged'
    BY <1>1, <2>4 DEF Watchdog
  <2> QED BY <1>1, <2>1, <2>2, <2>3, <2>4 DEF Next
<1> QED BY Invariance, <1>1, PTL DEF Spec, LateStaysLate

=============================================================================
