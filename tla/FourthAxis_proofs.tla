-------------------------- MODULE FourthAxis_proofs --------------------------
(***************************************************************************)
(* Proofs about the fourth axis for every scale, step, slack, set of       *)
(* bindings and starting place.  Each step of FourthAxisSystem has a lemma *)
(* that it keeps the inductive invariant IInv of FourthAxisInvariant: the  *)
(* types, how the programs, the writer and the drive follow each other,    *)
(* and then, for a shaft that is not astray, what is true of it.  The      *)
(* theorems follow; the last two rest on InvAimed and InvLive.             *)
(***************************************************************************)
EXTENDS FourthAxisInvariant, TLAPS

-----------------------------------------------------------------------------
(* Arithmetic and types                                                    *)

\* The margin is at least one count, and two margins are less than a turn.
LEMMA TolFacts == Tol \in Nat \ {0} /\ Tol + Tol < Period /\ Period \in Nat \ {0}
  BY ScaleAssumption DEF Tol

\* Division with remainder, for positions of either sign.
LEMMA DivMod ==
  ASSUME NEW a \in Int
  PROVE  /\ a % Period \in 0..(Period - 1)
         /\ a \div Period \in Int
         /\ a = Period * (a \div Period) + (a % Period)
BY ScaleAssumption

\* The records the memory writes are records.
LEMMA RecordType ==
  ASSUME NEW b \in Bindings, NEW lo \in Int, NEW up \in Int
  PROVE  Interval(b, lo, up) \in Record /\ Invalid(b) \in Record
  BY TolFacts DEF Interval, Invalid, Record

\* The absence of a write is a state of the writer.
LEMMA NoJobType ==
  NoJob \in Job /\ NoJob.st = "none" /\ NoJob.rec \in Record
<1>1. (CHOOSE b \in Bindings : TRUE) \in Bindings
  BY BindingsAssumption
<1> QED BY <1>1 DEF NoJob, Job, Invalid, Record

\* The position restore() selects is a number.
LEMMA RestoredType ==
  ASSUME NEW rec \in Record, NEW raw \in Int
  PROVE  Restored(rec, raw) \in Int
<1>1. rec.lower \in Int
  BY DEF Record
<1>2. rec.lower % Period \in Int /\ raw % Period \in Int
  BY <1>1, DivMod
<1> QED BY <1>1, TolFacts DEF Restored, Distance

\* A multiple of p that lies strictly between -p and p is zero.
LEMMA ZeroTimes ==
  ASSUME NEW p \in Nat \ {0}, NEW m \in Int, p * m < p, -p < p * m
  PROVE  m = 0
<1>1. CASE m >= 1
  <2>1. p * m >= p * 1
    BY <1>1, SMT
  <2> QED BY <2>1
<1>2. CASE m <= -1
  <2>1. p * m <= p * (-1)
    BY <1>2, SMT
  <2> QED BY <2>1
<1> QED BY <1>1, <1>2

-----------------------------------------------------------------------------
(* restore()                                                               *)

\* The heart of restore(): for a place inside one turn above the lower bound,
\* and whatever whole turns the encoder has lost, the place is what restore()
\* selects.
LEMMA RestoredUnique ==
  ASSUME NEW rec \in Record, NEW place \in Int, NEW turns \in Int,
         rec.lower <= place, place < rec.lower + Period, turns % Period = 0
  PROVE  Restored(rec, place - turns) = place
<1> DEFINE raw == place - turns
           l == rec.lower % Period
           r == raw % Period
           ql == rec.lower \div Period
           qr == raw \div Period
           k == turns \div Period
           m == (qr + k) - ql
<1>p. Period \in Nat \ {0}
  BY TolFacts
<1>r. rec.lower \in Int
  BY DEF Record
<1>1. l \in 0..(Period - 1) /\ ql \in Int /\ rec.lower = Period * ql + l
  BY <1>r, DivMod
<1>2. r \in 0..(Period - 1) /\ qr \in Int /\ raw = Period * qr + r
  BY DivMod
<1>3. k \in Int /\ turns = Period * k
  <2>1. k \in Int /\ turns = Period * k + (turns % Period)
    BY DivMod
  <2>2. Period * k \in Int
    BY <2>1, <1>p
  <2> QED BY <2>1, <2>2
<1> HIDE DEF l, r, ql, qr, k
<1>4. m \in Int /\ Period * m = (Period * qr + Period * k) - Period * ql
  BY <1>1, <1>2, <1>3, <1>p
<1>5. place - rec.lower = Period * m + (r - l)
  <2>1. Period * qr \in Int /\ Period * k \in Int /\ Period * ql \in Int /\ Period * m \in Int
    BY <1>1, <1>2, <1>3, <1>p
  <2> QED BY <1>1, <1>2, <1>3, <1>4, <2>1, <1>r
<1> HIDE DEF m
<1>6. CASE r >= l
  <2>1. Period * m \in Int /\ Period * m < Period /\ -Period < Period * m
    BY <1>5, <1>6, <1>1, <1>2, <1>4, <1>p
  <2>2. m = 0
    BY <2>1, <1>4, <1>p
  <2>3. place = rec.lower + (r - l)
    BY <1>5, <2>2, <1>1, <1>2, <1>p
  <2> QED BY <2>3, <1>6 DEF Restored, Distance, l, r
<1>7. CASE ~(r >= l)
  <2> DEFINE n == m - 1
  <2>1. n \in Int /\ Period * n = Period * m - Period
    BY <1>4, <1>p
  <2>2. Period * n < Period /\ -Period < Period * n
    BY <1>5, <1>7, <1>1, <1>2, <1>4, <1>p
  <2>3. n = 0
    BY <2>1, <2>2, <1>p, ZeroTimes
  <2>4. place = rec.lower + (Period - (l - r))
    BY <1>5, <2>3, <1>1, <1>2, <1>p
  <2> QED BY <2>4, <1>7 DEF Restored, Distance, l, r
<1> QED BY <1>6, <1>7

\* What restore() would set is well typed, and no unsaved zero is left when it
\* accepts a record.
LEMMA RestoreTypes ==
  ASSUME IInv, Restorable(id, Raw)
  PROVE  /\ Restored(disk, Raw) \in Int /\ Restored(disk, Raw) - Raw \in Int
         /\ unsaved = 0
<1>1. disk \in Record /\ disk \in survivors /\ Raw \in Int
  BY DEF IInv, Ordered, TypeOK, MemoryTypeOK, DriveTypeOK, Raw
<1>2. Restored(disk, Raw) \in Int
  BY <1>1, RestoredType
<1>3. unsaved = 0
  BY <1>1 DEF IInv, Ordered, InvUnsaved, NoneAccepted, Accepted, Restorable
<1> QED BY <1>1, <1>2, <1>3

\* A record that restore() accepts yields the accumulated position of the
\* shaft.
LEMMA RestoreFinds ==
  ASSUME IInv, ~astray, Restorable(id, Raw)
  PROVE  /\ Restored(disk, Raw) = shaft
         /\ Restored(disk, Raw) - Raw = frame
<1>1. disk \in Record /\ shaft \in Int /\ frame \in Int /\ frame % Period = 0
  BY DEF IInv, Ordered, TypeOK, MemoryTypeOK, DriveTypeOK, InvShaft
<1>2. Covers(disk)
  BY DEF IInv, Ordered, TypeOK, MemoryTypeOK, Truthful, TrueFile, Protects, Accepted,
     Restorable
<1>3. disk.lower <= shaft /\ shaft < disk.lower + Period
  BY <1>1, <1>2, TolFacts DEF Covers, CheckWindow, Contains, Record
<1>4. Restored(disk, shaft - frame) = shaft
  BY <1>1, <1>3, RestoredUnique
<1> QED BY <1>1, <1>4 DEF Raw

\* A set-point that is triggered in logical counts goes to that place.
LEMMA TriggerGoal ==
  ASSUME IInv, ~astray, ready, target \in Int
  PROVE  RawTarget(target) + frame = target
BY DEF IInv, Ordered, TypeOK, DriveTypeOK, Truthful, TrueReference, RawTarget

-----------------------------------------------------------------------------
(* The operators of the two programs                                       *)

\* The target of a jog is a number.
LEMMA NextTargetType == ASSUME ProgramTypeOK PROVE NextTarget \in Int
  BY AxisAssumption DEF ProgramTypeOK, NextTarget, Least, Greatest

\* The target of a step of the tool is a number.
LEMMA StepTargetType ==
  ASSUME MemoryTypeOK, ProgramTypeOK, NEW sign \in {-1, 1}
  PROVE  StepTarget(sign) \in Int
  BY AxisAssumption DEF MemoryTypeOK, ProgramTypeOK, StepTarget, Logical, Least, Greatest

\* The reservation of a target is a record.
LEMMA ReservationType ==
  ASSUME NEW b \in Bindings, NEW raw \in Int, NEW place \in Int, MemoryTypeOK
  PROVE  Reservation(b, raw, place) \in Record
  BY TolFacts DEF Reservation, Interval, Record, Least, Greatest, Logical, MemoryTypeOK

\* poll() leaves a well-typed memory.
LEMMA PollTakenType == ASSUME MemoryTypeOK, FlagsTypeOK, Poll PROVE MemoryTypeOK'
  BY NoJobType DEF MemoryTypeOK, Poll, Job

\* So is that of the tool, whose target is a number by then and is reserved.
LEMMA ReserveType ==
  ASSUME IInv, Tool("stopping")
  PROVE  /\ Reservation(id, Raw, target) \in Record /\ Reserves(Reservation(id, Raw, target))
         /\ target \in Int /\ ready /\ ~Pending
<1>1. target \in Int /\ ready /\ ~Pending
  BY DEF IInv, Ordered, InvZero, Tool
<1>2. Raw \in Int /\ offset \in Int /\ lastTriggered \in Int /\ id \in Bindings
  BY DEF IInv, Ordered, TypeOK, MemoryTypeOK, DriveTypeOK, Raw
<1>3. Reserves(Reservation(id, Raw, target))
  BY <1>1, <1>2, TolFacts DEF Reserves, Accepted, Reservation, Interval, Logical, Least, Greatest
<1> QED BY <1>1, <1>2, <1>3, ReservationType DEF IInv, Ordered, TypeOK

-----------------------------------------------------------------------------
(* The end of a program                                                    *)

\* A program that stops, in whatever state it was, leaves the record, the
\* write in flight and the shaft in agreement: a halted shaft stops on its
\* way.
LEMMA LeaveStep ==
  ASSUME IInv, NEW why \in {"none", "outside", "inside"}, Leave(why),
         UNCHANGED <<diskVars, ready, offset>>, MemoryTypeOK',
         writeError' \in BOOLEAN, job' \in {job, NoJob}
  PROVE  IInv'
<1>1. FlagsTypeOK'
  BY Zenon DEF IInv, Ordered, TypeOK, FlagsTypeOK, Leave, ClearedProgram, SupplyOff, SupplyKept
<1>2. DriveTypeOK'
  BY DEF IInv, Ordered, TypeOK, DriveTypeOK, Leave, SupplyOff, SupplyKept, Halted
<1>3. ProgramTypeOK'
  BY DEF Leave, ClearedProgram, ProgramTypeOK
<1>4. InvShaft' /\ InvJob' /\ InvReady' /\ InvUnsaved'
  BY NoJobType DEF IInv, Ordered, TypeOK, DriveTypeOK, InvShaft, InvJob, InvReady,
     InvUnsaved, Pending, NoneAccepted, Accepted, Leave, SupplyOff, SupplyKept, Halted, diskVars
<1>5. InvStart' /\ InvPhase' /\ InvZero' /\ TrueController' /\ TrueTool'
  BY DEF InvStart, InvPhase, InvZero, TrueController, TrueTool, Leave, ClearedProgram
<1>6. ASSUME ~astray'
      PROVE  TrueFile' /\ TrueJob' /\ TrueReference'
  BY <1>6, NoJobType DEF IInv, Ordered, TypeOK, DriveTypeOK, InvShaft, InvReady, InvUnsaved,
     NoneAccepted, Truthful, TrueFile, TrueJob, TrueReference, Protects, Accepted, Covers,
     Pending, Leave, SupplyOff, SupplyKept, Halted, diskVars
<1> QED BY <1>1, <1>2, <1>3, <1>4, <1>5, <1>6 DEF IInv, Ordered, TypeOK, Truthful

\* So does one that throws (ArmController::stop, latch_fault, the end of the
\* tool).
LEMMA ThrowStep ==
  ASSUME IInv, NEW why \in {"none", "outside", "inside"}, Throw(why)
  PROVE  IInv'
<1>1. MemoryTypeOK'
  BY DEF IInv, Ordered, TypeOK, MemoryTypeOK, Throw, diskVars, memVars
<1>2. writeError' \in BOOLEAN
  BY Zenon DEF IInv, Ordered, TypeOK, FlagsTypeOK, Throw, memVars
<1> QED BY <1>1, <1>2, LeaveStep DEF Throw, memVars

-----------------------------------------------------------------------------
(* The machine and the writer                                              *)

\* A moving shaft stays inside every record that could survive.
LEMMA MoveShaftStep ==
  ASSUME IInv, MoveShaft
  PROVE  IInv'
<1>1. FlagsTypeOK'
  BY Zenon DEF IInv, Ordered, TypeOK, FlagsTypeOK, MoveShaft, diskVars, memVars,
     progVars
<1>2. MemoryTypeOK'
  BY DEF IInv, Ordered, TypeOK, MemoryTypeOK, DriveTypeOK, ProgramTypeOK, Job,
     MoveShaft, diskVars, memVars, progVars
<1>3. DriveTypeOK' /\ ProgramTypeOK'
  BY DEF IInv, Ordered, TypeOK, MemoryTypeOK, DriveTypeOK, ProgramTypeOK, MoveShaft,
     diskVars, memVars, progVars
<1>4. InvShaft' /\ InvJob' /\ InvReady' /\ InvUnsaved'
  BY DEF IInv, Ordered, TypeOK, MemoryTypeOK, DriveTypeOK, ProgramTypeOK, InvShaft,
     InvJob, InvReady, InvUnsaved, Pending, NoneAccepted, Accepted, MoveShaft, diskVars,
     memVars, progVars
<1>5. InvStart' /\ InvPhase' /\ InvZero'
  BY DEF IInv, Ordered, TypeOK, MemoryTypeOK, DriveTypeOK, ProgramTypeOK, InvShaft,
     InvJob, InvReady, InvStart, InvPhase, InvZero, Pending, NoneAccepted, Accepted,
     MoveShaft, diskVars, memVars, progVars
<1>6. ASSUME ~astray'
     PROVE  TrueFile' /\ TrueJob' /\ TrueReference'
  BY <1>6, TolFacts DEF IInv, Ordered, TypeOK, MemoryTypeOK, DriveTypeOK, ProgramTypeOK,
     InvShaft, InvJob, InvReady, InvUnsaved, Truthful, TrueFile, TrueJob, TrueReference,
     Protects, Accepted, Covers, Pending, MoveShaft, diskVars, memVars, progVars,
     Contains, Record, Job
<1>7. ASSUME ~astray'
     PROVE  TrueController' /\ TrueTool'
  BY <1>7, TolFacts DEF IInv, Ordered, TypeOK, MemoryTypeOK, DriveTypeOK, ProgramTypeOK,
     InvJob, InvStart, InvPhase, InvZero, Truthful, TrueController, TrueTool, Reserves,
     Accepted, Pending, MoveShaft, diskVars, memVars, progVars, InvShaft, Near, Least,
     Greatest, TrueFile, Protects, Covers, Contains
<1> QED BY <1>1, <1>2, <1>3, <1>4, <1>5, <1>6, <1>7 DEF IInv, Ordered, TypeOK, Truthful

\* So does the place where it comes to rest, because of the margin -- or it was
\* told to hold, and has gone astray.
LEMMA SettleStep ==
  ASSUME IInv, Settle
  PROVE  IInv'
<1>1. FlagsTypeOK'
  BY Zenon DEF IInv, Ordered, TypeOK, FlagsTypeOK, Settle, diskVars, memVars, progVars
<1>2. MemoryTypeOK'
  BY DEF IInv, Ordered, TypeOK, MemoryTypeOK, DriveTypeOK, ProgramTypeOK, Job, Settle,
     diskVars, memVars, progVars
<1>3. DriveTypeOK' /\ ProgramTypeOK'
  BY AxisAssumption DEF IInv, Ordered, TypeOK, MemoryTypeOK, DriveTypeOK, ProgramTypeOK,
     Settle, diskVars, memVars, progVars
<1>4. InvShaft' /\ InvJob' /\ InvReady' /\ InvUnsaved'
  BY DEF IInv, Ordered, TypeOK, MemoryTypeOK, DriveTypeOK, ProgramTypeOK, InvShaft,
     InvJob, InvReady, InvUnsaved, Pending, NoneAccepted, Accepted, Settle, diskVars,
     memVars, progVars
<1>5. InvStart' /\ InvPhase' /\ InvZero'
  BY DEF IInv, Ordered, TypeOK, MemoryTypeOK, DriveTypeOK, ProgramTypeOK, InvShaft,
     InvJob, InvReady, InvStart, InvPhase, InvZero, Pending, NoneAccepted, Accepted,
     Settle, diskVars, memVars, progVars
<1>6. ASSUME ~astray'
     PROVE  TrueFile' /\ TrueJob' /\ TrueReference'
  BY <1>6, TolFacts, AxisAssumption DEF IInv, Ordered, TypeOK, MemoryTypeOK,
     DriveTypeOK, ProgramTypeOK, InvShaft, InvJob, InvReady, InvUnsaved, Truthful,
     TrueFile, TrueJob, TrueReference, Protects, Accepted, Covers, Pending, Settle,
     diskVars, memVars, progVars, Contains, Record, CheckWindow, Job
<1>7. ASSUME ~astray'
     PROVE  TrueController' /\ TrueTool'
  BY <1>7, TolFacts, AxisAssumption DEF IInv, Ordered, TypeOK, MemoryTypeOK,
     DriveTypeOK, ProgramTypeOK, InvJob, InvStart, InvPhase, InvZero, Truthful,
     TrueController, TrueTool, Reserves, Accepted, Pending, Settle, diskVars, memVars,
     progVars, InvShaft, Near, Least, Greatest
<1> QED BY <1>1, <1>2, <1>3, <1>4, <1>5, <1>6, <1>7 DEF IInv, Ordered, TypeOK, Truthful

\* A drive that loses the bus halts on its way.
LEMMA BusWatchdogStep ==
  ASSUME IInv, BusWatchdog
  PROVE  IInv'
<1>1. FlagsTypeOK'
  BY Zenon DEF IInv, Ordered, TypeOK, FlagsTypeOK, BusWatchdog, diskVars, memVars,
     progVars
<1>2. MemoryTypeOK'
  BY DEF IInv, Ordered, TypeOK, MemoryTypeOK, DriveTypeOK, ProgramTypeOK, Job,
     BusWatchdog, diskVars, memVars, progVars
<1>3. DriveTypeOK' /\ ProgramTypeOK'
  BY DEF IInv, Ordered, TypeOK, MemoryTypeOK, DriveTypeOK, ProgramTypeOK, BusWatchdog,
     diskVars, memVars, progVars
<1>4. InvShaft' /\ InvJob' /\ InvReady' /\ InvUnsaved'
  BY DEF IInv, Ordered, TypeOK, MemoryTypeOK, DriveTypeOK, ProgramTypeOK, InvShaft,
     InvJob, InvReady, InvUnsaved, Pending, NoneAccepted, Accepted, BusWatchdog,
     diskVars, memVars, progVars
<1>5. InvStart' /\ InvPhase' /\ InvZero'
  BY DEF IInv, Ordered, TypeOK, MemoryTypeOK, DriveTypeOK, ProgramTypeOK, InvShaft,
     InvJob, InvReady, InvStart, InvPhase, InvZero, Pending, NoneAccepted, Accepted,
     BusWatchdog, diskVars, memVars, progVars
<1>6. ASSUME ~astray'
     PROVE  TrueFile' /\ TrueJob' /\ TrueReference'
  BY <1>6 DEF IInv, Ordered, TypeOK, MemoryTypeOK, DriveTypeOK, ProgramTypeOK, InvShaft,
     InvJob, InvReady, InvUnsaved, Truthful, TrueFile, TrueJob, TrueReference, Protects,
     Accepted, Covers, Pending, BusWatchdog, diskVars, memVars, progVars
<1>7. ASSUME ~astray'
     PROVE  TrueController' /\ TrueTool'
  BY <1>7 DEF IInv, Ordered, TypeOK, MemoryTypeOK, DriveTypeOK, ProgramTypeOK, InvJob,
     InvStart, InvPhase, InvZero, Truthful, TrueController, TrueTool, Reserves,
     Accepted, Pending, BusWatchdog, diskVars, memVars, progVars
<1> QED BY <1>1, <1>2, <1>3, <1>4, <1>5, <1>6, <1>7 DEF IInv, Ordered, TypeOK, Truthful

\* A rename publishes a record that is as truthful as the one before it.
LEMMA WriterRenameStep ==
  ASSUME IInv, WriterRename, UNCHANGED <<driveVars, progVars>>
  PROVE  IInv'
<1>1. FlagsTypeOK'
  BY Zenon DEF IInv, Ordered, TypeOK, FlagsTypeOK, WriterRename, driveVars, progVars
<1>2. MemoryTypeOK'
  BY DEF IInv, Ordered, TypeOK, MemoryTypeOK, DriveTypeOK, ProgramTypeOK, Job,
     WriterRename, driveVars, progVars
<1>3. DriveTypeOK' /\ ProgramTypeOK'
  BY DEF IInv, Ordered, TypeOK, MemoryTypeOK, DriveTypeOK, ProgramTypeOK, WriterRename,
     driveVars, progVars
<1>4. InvShaft' /\ InvJob' /\ InvReady' /\ InvUnsaved'
  BY DEF IInv, Ordered, TypeOK, MemoryTypeOK, DriveTypeOK, ProgramTypeOK, InvShaft,
     InvJob, InvReady, InvUnsaved, Pending, NoneAccepted, Accepted, WriterRename,
     driveVars, progVars
<1>5. InvStart' /\ InvPhase' /\ InvZero'
  BY DEF IInv, Ordered, TypeOK, MemoryTypeOK, DriveTypeOK, ProgramTypeOK, InvShaft,
     InvJob, InvReady, InvStart, InvPhase, InvZero, Pending, NoneAccepted, Accepted,
     WriterRename, driveVars, progVars
<1>6. ASSUME ~astray'
     PROVE  TrueFile' /\ TrueJob' /\ TrueReference'
  BY <1>6 DEF IInv, Ordered, TypeOK, MemoryTypeOK, DriveTypeOK, ProgramTypeOK, InvShaft,
     InvJob, InvReady, InvUnsaved, Truthful, TrueFile, TrueJob, TrueReference, Protects,
     Accepted, Covers, Pending, WriterRename, driveVars, progVars
<1>7. ASSUME ~astray'
     PROVE  TrueController' /\ TrueTool'
  BY <1>7 DEF IInv, Ordered, TypeOK, MemoryTypeOK, DriveTypeOK, ProgramTypeOK, InvJob,
     InvStart, InvPhase, InvZero, Truthful, TrueController, TrueTool, Reserves,
     Accepted, Pending, WriterRename, driveVars, progVars
<1> QED BY <1>1, <1>2, <1>3, <1>4, <1>5, <1>6, <1>7 DEF IInv, Ordered, TypeOK, Truthful

\* The sync of the directory leaves the new record alone.
LEMMA WriterSyncStep ==
  ASSUME IInv, WriterSync, UNCHANGED <<driveVars, progVars>>
  PROVE  IInv'
<1>1. FlagsTypeOK'
  BY Zenon DEF IInv, Ordered, TypeOK, FlagsTypeOK, WriterSync, driveVars, progVars
<1>2. MemoryTypeOK'
  BY DEF IInv, Ordered, TypeOK, MemoryTypeOK, DriveTypeOK, ProgramTypeOK, Job,
     WriterSync, driveVars, progVars
<1>3. DriveTypeOK' /\ ProgramTypeOK'
  BY DEF IInv, Ordered, TypeOK, MemoryTypeOK, DriveTypeOK, ProgramTypeOK, WriterSync,
     driveVars, progVars
<1>4. InvShaft' /\ InvJob' /\ InvReady' /\ InvUnsaved'
  BY DEF IInv, Ordered, TypeOK, MemoryTypeOK, DriveTypeOK, ProgramTypeOK, InvShaft,
     InvJob, InvReady, InvUnsaved, Pending, NoneAccepted, Accepted, WriterSync,
     driveVars, progVars
<1>5. InvStart' /\ InvPhase' /\ InvZero'
  BY DEF IInv, Ordered, TypeOK, MemoryTypeOK, DriveTypeOK, ProgramTypeOK, InvShaft,
     InvJob, InvReady, InvStart, InvPhase, InvZero, Pending, NoneAccepted, Accepted,
     WriterSync, driveVars, progVars
<1>6. ASSUME ~astray'
     PROVE  TrueFile' /\ TrueJob' /\ TrueReference'
  BY <1>6 DEF IInv, Ordered, TypeOK, MemoryTypeOK, DriveTypeOK, ProgramTypeOK, InvShaft,
     InvJob, InvReady, InvUnsaved, Truthful, TrueFile, TrueJob, TrueReference, Protects,
     Accepted, Covers, Pending, WriterSync, driveVars, progVars
<1>7. ASSUME ~astray'
     PROVE  TrueController' /\ TrueTool'
  BY <1>7 DEF IInv, Ordered, TypeOK, MemoryTypeOK, DriveTypeOK, ProgramTypeOK, InvJob,
     InvStart, InvPhase, InvZero, Truthful, TrueController, TrueTool, Reserves,
     Accepted, Pending, WriterSync, driveVars, progVars
<1> QED BY <1>1, <1>2, <1>3, <1>4, <1>5, <1>6, <1>7 DEF IInv, Ordered, TypeOK, Truthful

\* A write may fail in any of its steps.
LEMMA WriterFailStep ==
  ASSUME IInv, WriterFail, UNCHANGED <<driveVars, progVars>>
  PROVE  IInv'
<1>1. FlagsTypeOK'
  BY Zenon DEF IInv, Ordered, TypeOK, FlagsTypeOK, WriterFail, driveVars, progVars
<1>2. MemoryTypeOK'
  BY DEF IInv, Ordered, TypeOK, MemoryTypeOK, DriveTypeOK, ProgramTypeOK, Job,
     WriterFail, driveVars, progVars
<1>3. DriveTypeOK' /\ ProgramTypeOK'
  BY DEF IInv, Ordered, TypeOK, MemoryTypeOK, DriveTypeOK, ProgramTypeOK, WriterFail,
     driveVars, progVars
<1>4. InvShaft' /\ InvJob' /\ InvReady' /\ InvUnsaved'
  BY DEF IInv, Ordered, TypeOK, MemoryTypeOK, DriveTypeOK, ProgramTypeOK, InvShaft,
     InvJob, InvReady, InvUnsaved, Pending, NoneAccepted, Accepted, WriterFail,
     driveVars, progVars
<1>5. InvStart' /\ InvPhase' /\ InvZero'
  BY DEF IInv, Ordered, TypeOK, MemoryTypeOK, DriveTypeOK, ProgramTypeOK, InvShaft,
     InvJob, InvReady, InvStart, InvPhase, InvZero, Pending, NoneAccepted, Accepted,
     WriterFail, driveVars, progVars
<1>6. ASSUME ~astray'
     PROVE  TrueFile' /\ TrueJob' /\ TrueReference'
  BY <1>6 DEF IInv, Ordered, TypeOK, MemoryTypeOK, DriveTypeOK, ProgramTypeOK, InvShaft,
     InvJob, InvReady, InvUnsaved, Truthful, TrueFile, TrueJob, TrueReference, Protects,
     Accepted, Covers, Pending, WriterFail, driveVars, progVars
<1>7. ASSUME ~astray'
     PROVE  TrueController' /\ TrueTool'
  BY <1>7 DEF IInv, Ordered, TypeOK, MemoryTypeOK, DriveTypeOK, ProgramTypeOK, InvJob,
     InvStart, InvPhase, InvZero, Truthful, TrueController, TrueTool, Reserves,
     Accepted, Pending, WriterFail, driveVars, progVars
<1> QED BY <1>1, <1>2, <1>3, <1>4, <1>5, <1>6, <1>7 DEF IInv, Ordered, TypeOK, Truthful

-----------------------------------------------------------------------------
(* Lifecycle                                                               *)

\* The record is released only when the writer has ended.
LEMMA ExitStep ==
  ASSUME IInv, Exit
  PROVE  IInv'
<1>1. FlagsTypeOK'
  BY Zenon DEF IInv, Ordered, TypeOK, FlagsTypeOK, Exit, Forget, diskVars, driveVars
<1>2. MemoryTypeOK'
  BY NoJobType DEF IInv, Ordered, TypeOK, MemoryTypeOK, DriveTypeOK, ProgramTypeOK, Job,
     Exit, Forget, diskVars, driveVars
<1>3. DriveTypeOK' /\ ProgramTypeOK'
  BY DEF IInv, Ordered, TypeOK, MemoryTypeOK, DriveTypeOK, ProgramTypeOK, Exit, Forget,
     diskVars, driveVars
<1>4. InvShaft' /\ InvJob' /\ InvReady' /\ InvUnsaved'
  BY NoJobType DEF IInv, Ordered, TypeOK, MemoryTypeOK, DriveTypeOK, ProgramTypeOK,
     InvShaft, InvJob, InvReady, InvUnsaved, Pending, NoneAccepted, Accepted, Exit,
     Forget, diskVars, driveVars
<1>5. InvStart' /\ InvPhase' /\ InvZero'
  BY NoJobType DEF IInv, Ordered, TypeOK, MemoryTypeOK, DriveTypeOK, ProgramTypeOK,
     InvShaft, InvJob, InvReady, InvStart, InvPhase, InvZero, Pending, NoneAccepted,
     Accepted, Exit, Forget, diskVars, driveVars
<1>6. ASSUME ~astray'
     PROVE  TrueFile' /\ TrueJob' /\ TrueReference'
  BY <1>6, NoJobType DEF IInv, Ordered, TypeOK, MemoryTypeOK, DriveTypeOK,
     ProgramTypeOK, InvShaft, InvJob, InvReady, InvUnsaved, Truthful, TrueFile, TrueJob,
     TrueReference, Protects, Accepted, Covers, Pending, Exit, Forget, diskVars,
     driveVars
<1>7. ASSUME ~astray'
     PROVE  TrueController' /\ TrueTool'
  BY <1>7 DEF IInv, Ordered, TypeOK, MemoryTypeOK, DriveTypeOK, ProgramTypeOK, InvJob,
     InvStart, InvPhase, InvZero, Truthful, TrueController, TrueTool, Reserves,
     Accepted, Pending, Exit, Forget, diskVars, driveVars
<1> QED BY <1>1, <1>2, <1>3, <1>4, <1>5, <1>6, <1>7 DEF IInv, Ordered, TypeOK, Truthful

\* A killed program leaves one of the surviving records.
LEMMA CrashStep ==
  ASSUME IInv, Crash
  PROVE  IInv'
<1>1. FlagsTypeOK'
  BY Zenon DEF IInv, Ordered, TypeOK, FlagsTypeOK, Crash, ClearedProgram, Forget,
     diskVars, driveVars
<1>2. MemoryTypeOK'
  BY NoJobType DEF IInv, Ordered, TypeOK, MemoryTypeOK, DriveTypeOK, ProgramTypeOK, Job,
     Crash, ClearedProgram, Forget, diskVars, driveVars
<1>3. DriveTypeOK' /\ ProgramTypeOK'
  BY DEF IInv, Ordered, TypeOK, MemoryTypeOK, DriveTypeOK, ProgramTypeOK, Crash,
     ClearedProgram, Forget, diskVars, driveVars
<1>4. InvShaft' /\ InvJob' /\ InvReady' /\ InvUnsaved'
  BY NoJobType DEF IInv, Ordered, TypeOK, MemoryTypeOK, DriveTypeOK, ProgramTypeOK,
     InvShaft, InvJob, InvReady, InvUnsaved, Pending, NoneAccepted, Accepted, Crash,
     ClearedProgram, Forget, diskVars, driveVars
<1>5. InvStart' /\ InvPhase' /\ InvZero'
  BY NoJobType DEF IInv, Ordered, TypeOK, MemoryTypeOK, DriveTypeOK, ProgramTypeOK,
     InvShaft, InvJob, InvReady, InvStart, InvPhase, InvZero, Pending, NoneAccepted,
     Accepted, Crash, ClearedProgram, Forget, diskVars, driveVars
<1>6. ASSUME ~astray'
     PROVE  TrueFile' /\ TrueJob' /\ TrueReference'
  BY <1>6, NoJobType DEF IInv, Ordered, TypeOK, MemoryTypeOK, DriveTypeOK,
     ProgramTypeOK, InvShaft, InvJob, InvReady, InvUnsaved, Truthful, TrueFile, TrueJob,
     TrueReference, Protects, Accepted, Covers, Pending, Crash, ClearedProgram, Forget,
     diskVars, driveVars
<1>7. ASSUME ~astray'
     PROVE  TrueController' /\ TrueTool'
  BY <1>7 DEF IInv, Ordered, TypeOK, MemoryTypeOK, DriveTypeOK, ProgramTypeOK, InvJob,
     InvStart, InvPhase, InvZero, Truthful, TrueController, TrueTool, Reserves,
     Accepted, Pending, Crash, ClearedProgram, Forget, diskVars, driveVars
<1> QED BY <1>1, <1>2, <1>3, <1>4, <1>5, <1>6, <1>7 DEF IInv, Ordered, TypeOK, Truthful

\* A power cut picks any surviving record, and loses the turns of the drive or
\* an unsaved zero.
LEMMA PowerCutStep ==
  ASSUME IInv, PowerCut
  PROVE  IInv'
<1>1. FlagsTypeOK'
  BY Zenon DEF IInv, Ordered, TypeOK, FlagsTypeOK, PowerCut, ClearedProgram, Forget,
     SupplyOff, Halted
<1>2. MemoryTypeOK'
  BY NoJobType DEF IInv, Ordered, TypeOK, MemoryTypeOK, DriveTypeOK, ProgramTypeOK, Job,
     PowerCut, ClearedProgram, Forget, SupplyOff, Halted
<1>3. DriveTypeOK' /\ ProgramTypeOK'
  BY DEF IInv, Ordered, TypeOK, MemoryTypeOK, DriveTypeOK, ProgramTypeOK, PowerCut,
     ClearedProgram, Forget, SupplyOff, Halted
<1>4. InvShaft' /\ InvJob' /\ InvReady' /\ InvUnsaved'
  BY NoJobType DEF IInv, Ordered, TypeOK, MemoryTypeOK, DriveTypeOK, ProgramTypeOK,
     InvShaft, InvJob, InvReady, InvUnsaved, Pending, NoneAccepted, Accepted, PowerCut,
     ClearedProgram, Forget, SupplyOff, Halted
<1>5. InvStart' /\ InvPhase' /\ InvZero'
  BY NoJobType DEF IInv, Ordered, TypeOK, MemoryTypeOK, DriveTypeOK, ProgramTypeOK,
     InvShaft, InvJob, InvReady, InvStart, InvPhase, InvZero, Pending, NoneAccepted,
     Accepted, PowerCut, ClearedProgram, Forget, SupplyOff, Halted
<1>6. ASSUME ~astray'
     PROVE  TrueFile' /\ TrueJob' /\ TrueReference'
  BY <1>6, NoJobType DEF IInv, Ordered, TypeOK, MemoryTypeOK, DriveTypeOK,
     ProgramTypeOK, InvShaft, InvJob, InvReady, InvUnsaved, Truthful, TrueFile, TrueJob,
     TrueReference, Protects, Accepted, Covers, Pending, PowerCut, ClearedProgram,
     Forget, SupplyOff, Halted, NoneAccepted, Contains
<1>7. ASSUME ~astray'
     PROVE  TrueController' /\ TrueTool'
  BY <1>7 DEF IInv, Ordered, TypeOK, MemoryTypeOK, DriveTypeOK, ProgramTypeOK, InvJob,
     InvStart, InvPhase, InvZero, Truthful, TrueController, TrueTool, Reserves,
     Accepted, Pending, PowerCut, ClearedProgram, Forget, SupplyOff, Halted
<1> QED BY <1>1, <1>2, <1>3, <1>4, <1>5, <1>6, <1>7 DEF IInv, Ordered, TypeOK, Truthful

\* A drive is replaced while nothing runs; its records are those of another
\* binding.
LEMMA ReplaceMotorStep ==
  ASSUME IInv, ReplaceMotor
  PROVE  IInv'
<1>1. FlagsTypeOK'
  BY Zenon DEF IInv, Ordered, TypeOK, FlagsTypeOK, ReplaceMotor, diskVars, memVars,
     progVars
<1>2. MemoryTypeOK'
  BY DEF IInv, Ordered, TypeOK, MemoryTypeOK, DriveTypeOK, ProgramTypeOK, Job,
     ReplaceMotor, diskVars, memVars, progVars
<1>3. DriveTypeOK' /\ ProgramTypeOK'
  BY AxisAssumption DEF IInv, Ordered, TypeOK, MemoryTypeOK, DriveTypeOK, ProgramTypeOK,
     ReplaceMotor, diskVars, memVars, progVars
<1>4. InvShaft' /\ InvJob' /\ InvReady' /\ InvUnsaved'
  BY TolFacts DEF IInv, Ordered, TypeOK, MemoryTypeOK, DriveTypeOK, ProgramTypeOK,
     InvShaft, InvJob, InvReady, InvUnsaved, Pending, NoneAccepted, Accepted,
     ReplaceMotor, diskVars, memVars, progVars
<1>5. InvStart' /\ InvPhase' /\ InvZero'
  BY DEF IInv, Ordered, TypeOK, MemoryTypeOK, DriveTypeOK, ProgramTypeOK, InvShaft,
     InvJob, InvReady, InvStart, InvPhase, InvZero, Pending, NoneAccepted, Accepted,
     ReplaceMotor, diskVars, memVars, progVars
<1>6. ASSUME ~astray'
     PROVE  TrueFile' /\ TrueJob' /\ TrueReference'
  BY <1>6 DEF IInv, Ordered, TypeOK, MemoryTypeOK, DriveTypeOK, ProgramTypeOK, InvShaft,
     InvJob, InvReady, InvUnsaved, Truthful, TrueFile, TrueJob, TrueReference, Protects,
     Accepted, Covers, Pending, ReplaceMotor, diskVars, memVars, progVars
<1>7. ASSUME ~astray'
     PROVE  TrueController' /\ TrueTool'
  BY <1>7 DEF IInv, Ordered, TypeOK, MemoryTypeOK, DriveTypeOK, ProgramTypeOK, InvJob,
     InvStart, InvPhase, InvZero, Truthful, TrueController, TrueTool, Reserves,
     Accepted, Pending, ReplaceMotor, diskVars, memVars, progVars
<1> QED BY <1>1, <1>2, <1>3, <1>4, <1>5, <1>6, <1>7 DEF IInv, Ordered, TypeOK, Truthful

\* A new program starts from the record on disk and a powered drive.
LEMMA StartStep ==
  ASSUME IInv, NEW program \in {"controller", "tool"}, Start(program)
  PROVE  IInv'
<1>1. FlagsTypeOK'
  BY Zenon DEF IInv, Ordered, TypeOK, FlagsTypeOK, Start, SupplyOn, diskVars, memVars
<1>2. MemoryTypeOK'
  BY DEF IInv, Ordered, TypeOK, MemoryTypeOK, DriveTypeOK, ProgramTypeOK, Job, Start,
     SupplyOn, diskVars, memVars
<1>3. DriveTypeOK' /\ ProgramTypeOK'
  BY TolFacts DEF IInv, Ordered, TypeOK, MemoryTypeOK, DriveTypeOK, ProgramTypeOK,
     Start, SupplyOn, diskVars, memVars
<1>4. InvShaft' /\ InvJob' /\ InvReady' /\ InvUnsaved'
  BY TolFacts DEF IInv, Ordered, TypeOK, MemoryTypeOK, DriveTypeOK, ProgramTypeOK,
     InvShaft, InvJob, InvReady, InvUnsaved, Pending, NoneAccepted, Accepted, Start,
     SupplyOn, diskVars, memVars
<1>5. InvStart' /\ InvPhase' /\ InvZero'
  BY DEF IInv, Ordered, TypeOK, MemoryTypeOK, DriveTypeOK, ProgramTypeOK, InvShaft,
     InvJob, InvReady, InvStart, InvPhase, InvZero, Pending, NoneAccepted, Accepted,
     Start, SupplyOn, diskVars, memVars
<1>6. ASSUME ~astray'
     PROVE  TrueFile' /\ TrueJob' /\ TrueReference'
  BY <1>6, TolFacts DEF IInv, Ordered, TypeOK, MemoryTypeOK, DriveTypeOK, ProgramTypeOK,
     InvShaft, InvJob, InvReady, InvUnsaved, Truthful, TrueFile, TrueJob, TrueReference,
     Protects, Accepted, Covers, Pending, Start, SupplyOn, diskVars, memVars
<1>7. ASSUME ~astray'
     PROVE  TrueController' /\ TrueTool'
  BY <1>7 DEF IInv, Ordered, TypeOK, MemoryTypeOK, DriveTypeOK, ProgramTypeOK, InvJob,
     InvStart, InvPhase, InvZero, Truthful, TrueController, TrueTool, Reserves,
     Accepted, Pending, Start, SupplyOn, diskVars, memVars
<1> QED BY <1>1, <1>2, <1>3, <1>4, <1>5, <1>6, <1>7 DEF IInv, Ordered, TypeOK, Truthful

-----------------------------------------------------------------------------
(* The controller                                                          *)

\* The controller restores the position, or refuses to start.
LEMMA ControllerRestoreStep ==
  ASSUME IInv, ControllerRestore
  PROVE  IInv'
<1>1. CASE ~(Restorable(id, Raw))
  BY <1>1, ThrowStep DEF ControllerRestore
<1>2. CASE Restorable(id, Raw)
  <2>1. FlagsTypeOK'
    BY Zenon, <1>2 DEF IInv, Ordered, TypeOK, FlagsTypeOK, ControllerRestore,
       Controller, Restore, driveVars
  <2>2. MemoryTypeOK'
    BY <1>2, RestoreTypes DEF IInv, Ordered, TypeOK, MemoryTypeOK, DriveTypeOK,
       ProgramTypeOK, Job, ControllerRestore, Controller, Restore, driveVars
  <2>3. DriveTypeOK' /\ ProgramTypeOK'
    BY <1>2 DEF IInv, Ordered, TypeOK, MemoryTypeOK, DriveTypeOK, ProgramTypeOK,
       ControllerRestore, Controller, Restore, driveVars
  <2>4. InvShaft' /\ InvJob' /\ InvReady' /\ InvUnsaved'
    BY <1>2, RestoreTypes DEF IInv, Ordered, TypeOK, MemoryTypeOK, DriveTypeOK,
       ProgramTypeOK, InvShaft, InvJob, InvReady, InvUnsaved, Pending, NoneAccepted,
       Accepted, ControllerRestore, Controller, Restore, driveVars
  <2>5. InvStart' /\ InvPhase' /\ InvZero'
    BY <1>2 DEF IInv, Ordered, TypeOK, MemoryTypeOK, DriveTypeOK, ProgramTypeOK,
       InvShaft, InvJob, InvReady, InvStart, InvPhase, InvZero, Pending, NoneAccepted,
       Accepted, ControllerRestore, Controller, Restore, driveVars
  <2>6. ASSUME ~astray'
       PROVE  TrueFile' /\ TrueJob' /\ TrueReference'
    BY <2>6, <1>2, RestoreFinds DEF IInv, Ordered, TypeOK, MemoryTypeOK, DriveTypeOK,
       ProgramTypeOK, InvShaft, InvJob, InvReady, InvUnsaved, Truthful, TrueFile,
       TrueJob, TrueReference, Protects, Accepted, Covers, Pending, ControllerRestore,
       Controller, Restore, driveVars
  <2>7. ASSUME ~astray'
       PROVE  TrueController' /\ TrueTool'
    BY <2>7, <1>2 DEF IInv, Ordered, TypeOK, MemoryTypeOK, DriveTypeOK, ProgramTypeOK,
       InvJob, InvStart, InvPhase, InvZero, Truthful, TrueController, TrueTool,
       Reserves, Accepted, Pending, ControllerRestore, Controller, Restore, driveVars
  <2> QED BY <2>1, <2>2, <2>3, <2>4, <2>5, <2>6, <2>7 DEF IInv, Ordered, TypeOK, Truthful
<1> QED BY <1>1, <1>2

\* The controller takes the voltage off and reads where the drive is.
LEMMA ControllerEnableStep ==
  ASSUME IInv, ControllerEnable
  PROVE  IInv'
<1>1. CASE ~(Live(Raw))
  BY <1>1, ThrowStep DEF ControllerEnable
<1>2. CASE Live(Raw)
  <2>1. FlagsTypeOK'
    BY Zenon, <1>2 DEF IInv, Ordered, TypeOK, FlagsTypeOK, ControllerEnable, Controller,
       Halted, Raw, Logical, diskVars, memVars
  <2>2. MemoryTypeOK'
    BY <1>2 DEF IInv, Ordered, TypeOK, MemoryTypeOK, DriveTypeOK, ProgramTypeOK, Job,
       ControllerEnable, Controller, Halted, Raw, Logical, diskVars, memVars
  <2>3. DriveTypeOK' /\ ProgramTypeOK'
    BY <1>2 DEF IInv, Ordered, TypeOK, MemoryTypeOK, DriveTypeOK, ProgramTypeOK,
       ControllerEnable, Controller, Halted, Raw, Logical, diskVars, memVars
  <2>4. InvShaft' /\ InvJob' /\ InvReady' /\ InvUnsaved'
    BY <1>2 DEF IInv, Ordered, TypeOK, MemoryTypeOK, DriveTypeOK, ProgramTypeOK,
       InvShaft, InvJob, InvReady, InvUnsaved, Pending, NoneAccepted, Accepted,
       ControllerEnable, Controller, Halted, Raw, Logical, diskVars, memVars
  <2>5. InvStart' /\ InvPhase' /\ InvZero'
    BY <1>2 DEF IInv, Ordered, TypeOK, MemoryTypeOK, DriveTypeOK, ProgramTypeOK,
       InvShaft, InvJob, InvReady, InvStart, InvPhase, InvZero, Pending, NoneAccepted,
       Accepted, ControllerEnable, Controller, Halted, Raw, Logical, diskVars, memVars
  <2>6. ASSUME ~astray'
       PROVE  TrueFile' /\ TrueJob' /\ TrueReference'
    BY <2>6, <1>2 DEF IInv, Ordered, TypeOK, MemoryTypeOK, DriveTypeOK, ProgramTypeOK,
       InvShaft, InvJob, InvReady, InvUnsaved, Truthful, TrueFile, TrueJob,
       TrueReference, Protects, Accepted, Covers, Pending, ControllerEnable, Controller,
       Halted, Raw, Logical, diskVars, memVars
  <2>7. ASSUME ~astray'
       PROVE  TrueController' /\ TrueTool'
    BY <2>7, <1>2 DEF IInv, Ordered, TypeOK, MemoryTypeOK, DriveTypeOK, ProgramTypeOK,
       InvJob, InvStart, InvPhase, InvZero, Truthful, TrueController, TrueTool,
       Reserves, Accepted, Pending, ControllerEnable, Controller, Halted, Raw, Logical,
       diskVars, memVars, TrueFile, Protects, Covers, TrueReference, InvReady
  <2> QED BY <2>1, <2>2, <2>3, <2>4, <2>5, <2>6, <2>7 DEF IInv, Ordered, TypeOK, Truthful
<1> QED BY <1>1, <1>2

\* It triggers a set-point at that reading, which every record holds, with or
\* without a margin.
LEMMA ControllerHoldStep ==
  ASSUME IInv, ControllerHold
  PROVE  IInv'
<1>1. FlagsTypeOK'
  BY Zenon DEF IInv, Ordered, TypeOK, FlagsTypeOK, ControllerHold, Controller,
     RawTarget, diskVars, memVars
<1>2. MemoryTypeOK'
  BY DEF IInv, Ordered, TypeOK, MemoryTypeOK, DriveTypeOK, ProgramTypeOK, Job,
     ControllerHold, Controller, RawTarget, diskVars, memVars
<1>3. DriveTypeOK' /\ ProgramTypeOK'
  BY DEF IInv, Ordered, TypeOK, MemoryTypeOK, DriveTypeOK, ProgramTypeOK,
     ControllerHold, Controller, RawTarget, diskVars, memVars
<1>4. InvShaft' /\ InvJob' /\ InvReady' /\ InvUnsaved'
  BY DEF IInv, Ordered, TypeOK, MemoryTypeOK, DriveTypeOK, ProgramTypeOK, InvShaft,
     InvJob, InvReady, InvUnsaved, Pending, NoneAccepted, Accepted, ControllerHold,
     Controller, RawTarget, diskVars, memVars, InvStart
<1>5. InvStart' /\ InvPhase' /\ InvZero'
  BY DEF IInv, Ordered, TypeOK, MemoryTypeOK, DriveTypeOK, ProgramTypeOK, InvShaft,
     InvJob, InvReady, InvStart, InvPhase, InvZero, Pending, NoneAccepted, Accepted,
     ControllerHold, Controller, RawTarget, diskVars, memVars
<1>6. ASSUME ~astray'
     PROVE  TrueFile' /\ TrueJob' /\ TrueReference'
  BY <1>6 DEF IInv, Ordered, TypeOK, MemoryTypeOK, DriveTypeOK, ProgramTypeOK, InvShaft,
     InvJob, InvReady, InvUnsaved, Truthful, TrueFile, TrueJob, TrueReference, Protects,
     Accepted, Covers, Pending, ControllerHold, Controller, RawTarget, diskVars,
     memVars, TrueController, Contains, InvStart
<1>7. ASSUME ~astray'
     PROVE  TrueController' /\ TrueTool'
  BY <1>7 DEF IInv, Ordered, TypeOK, MemoryTypeOK, DriveTypeOK, ProgramTypeOK, InvJob,
     InvStart, InvPhase, InvZero, Truthful, TrueController, TrueTool, Reserves,
     Accepted, Pending, ControllerHold, Controller, RawTarget, diskVars, memVars
<1> QED BY <1>1, <1>2, <1>3, <1>4, <1>5, <1>6, <1>7 DEF IInv, Ordered, TypeOK, Truthful

\* It halts the axis, whatever came of that set-point.
LEMMA ControllerHaltsStep ==
  ASSUME IInv, ControllerHalts
  PROVE  IInv'
<1>1. FlagsTypeOK'
  BY Zenon DEF IInv, Ordered, TypeOK, FlagsTypeOK, ControllerHalts, Controller,
     HaltFourthAxis, Halted, diskVars, memVars
<1>2. MemoryTypeOK'
  BY DEF IInv, Ordered, TypeOK, MemoryTypeOK, DriveTypeOK, ProgramTypeOK, Job,
     ControllerHalts, Controller, HaltFourthAxis, Halted, diskVars, memVars
<1>3. DriveTypeOK' /\ ProgramTypeOK'
  BY DEF IInv, Ordered, TypeOK, MemoryTypeOK, DriveTypeOK, ProgramTypeOK,
     ControllerHalts, Controller, HaltFourthAxis, Halted, diskVars, memVars
<1>4. InvShaft' /\ InvJob' /\ InvReady' /\ InvUnsaved'
  BY DEF IInv, Ordered, TypeOK, MemoryTypeOK, DriveTypeOK, ProgramTypeOK, InvShaft,
     InvJob, InvReady, InvUnsaved, Pending, NoneAccepted, Accepted, ControllerHalts,
     Controller, HaltFourthAxis, Halted, diskVars, memVars
<1>5. InvStart' /\ InvPhase' /\ InvZero'
  BY DEF IInv, Ordered, TypeOK, MemoryTypeOK, DriveTypeOK, ProgramTypeOK, InvShaft,
     InvJob, InvReady, InvStart, InvPhase, InvZero, Pending, NoneAccepted, Accepted,
     ControllerHalts, Controller, HaltFourthAxis, Halted, diskVars, memVars
<1>6. ASSUME ~astray'
     PROVE  TrueFile' /\ TrueJob' /\ TrueReference'
  BY <1>6 DEF IInv, Ordered, TypeOK, MemoryTypeOK, DriveTypeOK, ProgramTypeOK, InvShaft,
     InvJob, InvReady, InvUnsaved, Truthful, TrueFile, TrueJob, TrueReference, Protects,
     Accepted, Covers, Pending, ControllerHalts, Controller, HaltFourthAxis, Halted,
     diskVars, memVars
<1>7. ASSUME ~astray'
     PROVE  TrueController' /\ TrueTool'
  BY <1>7 DEF IInv, Ordered, TypeOK, MemoryTypeOK, DriveTypeOK, ProgramTypeOK, InvJob,
     InvStart, InvPhase, InvZero, Truthful, TrueController, TrueTool, Reserves,
     Accepted, Pending, ControllerHalts, Controller, HaltFourthAxis, Halted, diskVars,
     memVars
<1> QED BY <1>1, <1>2, <1>3, <1>4, <1>5, <1>6, <1>7 DEF IInv, Ordered, TypeOK, Truthful

\* Press, release and reversal: the drive is halted, and a target that was not
\* triggered yet is dropped.
LEMMA JogStep ==
  ASSUME IInv, NEW d \in {-1, 0, 1}, Jog(d)
  PROVE  IInv'
<1>1. CASE ~(Live(Raw))
  BY <1>1, ThrowStep DEF Jog
<1>2. CASE Live(Raw)
  <2>1. FlagsTypeOK'
    BY Zenon, <1>2 DEF IInv, Ordered, TypeOK, FlagsTypeOK, Jog, Controller, Halted, Raw,
       Logical, diskVars, memVars
  <2>2. MemoryTypeOK'
    BY <1>2 DEF IInv, Ordered, TypeOK, MemoryTypeOK, DriveTypeOK, ProgramTypeOK, Job,
       Jog, Controller, Halted, Raw, Logical, diskVars, memVars
  <2>3. DriveTypeOK' /\ ProgramTypeOK'
    BY <1>2 DEF IInv, Ordered, TypeOK, MemoryTypeOK, DriveTypeOK, ProgramTypeOK, Jog,
       Controller, Halted, Raw, Logical, diskVars, memVars
  <2>4. InvShaft' /\ InvJob' /\ InvReady' /\ InvUnsaved'
    BY <1>2 DEF IInv, Ordered, TypeOK, MemoryTypeOK, DriveTypeOK, ProgramTypeOK,
       InvShaft, InvJob, InvReady, InvUnsaved, Pending, NoneAccepted, Accepted, Jog,
       Controller, Halted, Raw, Logical, diskVars, memVars
  <2>5. InvStart' /\ InvPhase' /\ InvZero'
    BY <1>2 DEF IInv, Ordered, TypeOK, MemoryTypeOK, DriveTypeOK, ProgramTypeOK,
       InvShaft, InvJob, InvReady, InvStart, InvPhase, InvZero, Pending, NoneAccepted,
       Accepted, Jog, Controller, Halted, Raw, Logical, diskVars, memVars
  <2>6. ASSUME ~astray'
       PROVE  TrueFile' /\ TrueJob' /\ TrueReference'
    BY <2>6, <1>2 DEF IInv, Ordered, TypeOK, MemoryTypeOK, DriveTypeOK, ProgramTypeOK,
       InvShaft, InvJob, InvReady, InvUnsaved, Truthful, TrueFile, TrueJob,
       TrueReference, Protects, Accepted, Covers, Pending, Jog, Controller, Halted, Raw,
       Logical, diskVars, memVars
  <2>7. ASSUME ~astray'
       PROVE  TrueController' /\ TrueTool'
    BY <2>7, <1>2 DEF IInv, Ordered, TypeOK, MemoryTypeOK, DriveTypeOK, ProgramTypeOK,
       InvJob, InvStart, InvPhase, InvZero, Truthful, TrueController, TrueTool,
       Reserves, Accepted, Pending, Jog, Controller, Halted, Raw, Logical, diskVars,
       memVars
  <2> QED BY <2>1, <2>2, <2>3, <2>4, <2>5, <2>6, <2>7 DEF IInv, Ordered, TypeOK, Truthful
<1> QED BY <1>1, <1>2

\* The feedback check: poll() may narrow the committed interval, and the
\* reading must lie in the new one.
LEMMA UpdateFeedbackStep ==
  ASSUME IInv, UpdateFeedback
  PROVE  IInv'
<1> DEFINE Good == ready /\ Contains(committed', Logical(Raw))
<1>1. Poll /\ prog = "controller" /\ pc = "run"
  BY DEF UpdateFeedback, Controller
<1>2. /\ MemoryTypeOK' /\ job' \in {job, NoJob}
      /\ UNCHANGED <<diskVars, ready, offset, lastTriggered, writeError>>
  BY <1>1, NoJobType DEF IInv, Ordered, TypeOK, MemoryTypeOK, Poll, Job, diskVars
<1>3. CASE ~Good
  <2>1. Leave("inside")
    BY <1>3 DEF UpdateFeedback
  <2>2. writeError' \in BOOLEAN
    BY Zenon, <1>2 DEF IInv, Ordered, TypeOK, FlagsTypeOK
  <2> QED BY <1>2, <2>1, <2>2, LeaveStep
<1>4. CASE Good
  <2>0. /\ pc' = "advance"
        /\ pos' = Logical(Raw)
        /\ slow' = (motion = "still")
        /\ \/ HaltFourthAxis
           \/ UNCHANGED <<dir, phase, target, base, wait, motion>>
        /\ UNCHANGED <<id, powered, shaft, frame, goal, unsaved, astray, prog, held, fault>>
    BY <1>4 DEF UpdateFeedback
  <2>1. FlagsTypeOK'
    BY Zenon, <1>2, <2>0 DEF IInv, Ordered, TypeOK, FlagsTypeOK, HaltFourthAxis
  <2>2. slow' => motion' = "still"
    BY Zenon, <2>0 DEF HaltFourthAxis, Halted
  <2>3. pos' \in Int
    BY <2>0 DEF IInv, Ordered, TypeOK, MemoryTypeOK, DriveTypeOK, Logical, Raw
  <2>4. DriveTypeOK' /\ ProgramTypeOK'
    BY <2>0, <2>3 DEF IInv, Ordered, TypeOK, DriveTypeOK, ProgramTypeOK, HaltFourthAxis, Halted
  <2>5. InvShaft' /\ InvJob' /\ InvReady' /\ InvUnsaved'
    BY <1>1, <1>2, <2>0, NoJobType DEF IInv, Ordered, InvShaft, InvJob, InvReady, InvUnsaved,
       Pending, NoneAccepted, Accepted, HaltFourthAxis, Halted, diskVars
  <2>6. InvStart' /\ InvPhase' /\ InvZero'
    BY <1>1, <1>2, <2>0, NoJobType DEF IInv, Ordered, InvStart, InvPhase, InvZero, Pending,
       HaltFourthAxis, Halted
  <2>7. ASSUME ~astray'
        PROVE  TrueFile' /\ TrueJob' /\ TrueReference'
    BY <1>1, <1>2, <2>0, <2>7, NoJobType DEF IInv, Ordered, InvStart, Truthful, TrueFile, TrueJob,
       TrueReference, Protects, Accepted, Covers, Pending, HaltFourthAxis, Halted, diskVars
  <2>8. ASSUME ~astray'
        PROVE  TrueController' /\ TrueTool'
    <3>0. pos' = shaft
      BY <2>0, <2>8, <1>4 DEF IInv, Ordered, TypeOK, DriveTypeOK, Truthful, TrueReference,
         Logical, Raw
    <3>1. CASE HaltFourthAxis
      BY <1>1, <3>1, <2>0, <2>2, <3>0 DEF HaltFourthAxis, TrueController, TrueTool
    <3>2. CASE UNCHANGED <<dir, phase, target, base, wait, motion>>
      BY <3>2, <1>1, <1>2, <2>0, <2>2, <2>8, <3>0, TolFacts, NoJobType DEF IInv, Ordered, TypeOK,
         MemoryTypeOK, DriveTypeOK, Truthful, TrueController, TrueTool, InvJob, InvPhase, Near,
         Least, Greatest, Pending, Reserves, Accepted, Poll, PollTakes, diskVars
    <3> QED BY <2>0, <3>1, <3>2
  <2> QED BY <1>2, <2>1, <2>4, <2>5, <2>6, <2>7, <2>8 DEF IInv, Ordered, TypeOK, Truthful
<1> QED BY <1>3, <1>4

\* An update without a held direction, or one that still waits for standstill.
LEMMA AdvanceNothingStep ==
  ASSUME IInv, AdvanceNothing
  PROVE  IInv'
<1>1. FlagsTypeOK'
  BY Zenon DEF IInv, Ordered, TypeOK, FlagsTypeOK, AdvanceNothing, Controller, diskVars,
     memVars, driveVars
<1>2. MemoryTypeOK'
  BY DEF IInv, Ordered, TypeOK, MemoryTypeOK, DriveTypeOK, ProgramTypeOK, Job,
     AdvanceNothing, Controller, diskVars, memVars, driveVars
<1>3. DriveTypeOK' /\ ProgramTypeOK'
  BY DEF IInv, Ordered, TypeOK, MemoryTypeOK, DriveTypeOK, ProgramTypeOK,
     AdvanceNothing, Controller, diskVars, memVars, driveVars
<1>4. InvShaft' /\ InvJob' /\ InvReady' /\ InvUnsaved'
  BY DEF IInv, Ordered, TypeOK, MemoryTypeOK, DriveTypeOK, ProgramTypeOK, InvShaft,
     InvJob, InvReady, InvUnsaved, Pending, NoneAccepted, Accepted, AdvanceNothing,
     Controller, diskVars, memVars, driveVars
<1>5. InvStart' /\ InvPhase' /\ InvZero'
  BY DEF IInv, Ordered, TypeOK, MemoryTypeOK, DriveTypeOK, ProgramTypeOK, InvShaft,
     InvJob, InvReady, InvStart, InvPhase, InvZero, Pending, NoneAccepted, Accepted,
     AdvanceNothing, Controller, diskVars, memVars, driveVars
<1>6. ASSUME ~astray'
     PROVE  TrueFile' /\ TrueJob' /\ TrueReference'
  BY <1>6 DEF IInv, Ordered, TypeOK, MemoryTypeOK, DriveTypeOK, ProgramTypeOK, InvShaft,
     InvJob, InvReady, InvUnsaved, Truthful, TrueFile, TrueJob, TrueReference, Protects,
     Accepted, Covers, Pending, AdvanceNothing, Controller, diskVars, memVars, driveVars
<1>7. ASSUME ~astray'
     PROVE  TrueController' /\ TrueTool'
  BY <1>7 DEF IInv, Ordered, TypeOK, MemoryTypeOK, DriveTypeOK, ProgramTypeOK, InvJob,
     InvStart, InvPhase, InvZero, Truthful, TrueController, TrueTool, Reserves,
     Accepted, Pending, AdvanceNothing, Controller, diskVars, memVars, driveVars
<1> QED BY <1>1, <1>2, <1>3, <1>4, <1>5, <1>6, <1>7 DEF IInv, Ordered, TypeOK, Truthful

\* A new target is reserved together with the place where the shaft can still
\* be.
LEMMA AdvanceIdleStep ==
  ASSUME IInv, AdvanceIdle
  PROVE  IInv'
<1> DEFINE same == Pending \/ target = NextTarget
           queued == ~same /\ MayQueue(id, pos - offset, NextTarget)
           rec == Reservation(id, pos - offset, NextTarget)
<1>1. CASE ~same /\ ~queued
  BY <1>1, ThrowStep DEF AdvanceIdle
<1>2. CASE same
  <2>1. FlagsTypeOK'
    BY Zenon, <1>2 DEF IInv, Ordered, TypeOK, FlagsTypeOK, AdvanceIdle, Controller,
       MayAdvance, Advanced, diskVars, memVars, driveVars
  <2>2. MemoryTypeOK'
    BY <1>2 DEF IInv, Ordered, TypeOK, MemoryTypeOK, DriveTypeOK, ProgramTypeOK, Job,
       AdvanceIdle, Controller, MayAdvance, Advanced, diskVars, memVars, driveVars
  <2>3. DriveTypeOK' /\ ProgramTypeOK'
    BY <1>2 DEF IInv, Ordered, TypeOK, MemoryTypeOK, DriveTypeOK, ProgramTypeOK,
       AdvanceIdle, Controller, MayAdvance, Advanced, diskVars, memVars, driveVars
  <2>4. InvShaft' /\ InvJob' /\ InvReady' /\ InvUnsaved'
    BY <1>2 DEF IInv, Ordered, TypeOK, MemoryTypeOK, DriveTypeOK, ProgramTypeOK,
       InvShaft, InvJob, InvReady, InvUnsaved, Pending, NoneAccepted, Accepted,
       AdvanceIdle, Controller, MayAdvance, Advanced, diskVars, memVars, driveVars
  <2>5. InvStart' /\ InvPhase' /\ InvZero'
    BY <1>2 DEF IInv, Ordered, TypeOK, MemoryTypeOK, DriveTypeOK, ProgramTypeOK,
       InvShaft, InvJob, InvReady, InvStart, InvPhase, InvZero, Pending, NoneAccepted,
       Accepted, AdvanceIdle, Controller, MayAdvance, Advanced, diskVars, memVars,
       driveVars
  <2>6. ASSUME ~astray'
       PROVE  TrueFile' /\ TrueJob' /\ TrueReference'
    BY <2>6, <1>2 DEF IInv, Ordered, TypeOK, MemoryTypeOK, DriveTypeOK, ProgramTypeOK,
       InvShaft, InvJob, InvReady, InvUnsaved, Truthful, TrueFile, TrueJob,
       TrueReference, Protects, Accepted, Covers, Pending, AdvanceIdle, Controller,
       MayAdvance, Advanced, diskVars, memVars, driveVars
  <2>7. ASSUME ~astray'
       PROVE  TrueController' /\ TrueTool'
    BY <2>7, <1>2 DEF IInv, Ordered, TypeOK, MemoryTypeOK, DriveTypeOK, ProgramTypeOK,
       InvJob, InvStart, InvPhase, InvZero, Truthful, TrueController, TrueTool,
       Reserves, Accepted, Pending, AdvanceIdle, Controller, MayAdvance, Advanced,
       diskVars, memVars, driveVars
  <2> QED BY <2>1, <2>2, <2>3, <2>4, <2>5, <2>6, <2>7 DEF IInv, Ordered, TypeOK, Truthful
<1>3. CASE queued
  <2>a. /\ Controller("advance") /\ dir # 0 /\ (wait => slow /\ motion = "still")
        /\ pc' = "run" /\ wait' = FALSE /\ job' = Writing(rec)
        /\ target' = NextTarget /\ base' = pos /\ phase' = "queued"
        /\ UNCHANGED <<disk, survivors, ready, committed, offset, lastTriggered, writeError,
                       driveVars, prog, dir, pos, slow, held, fault>>
    BY <1>3 DEF AdvanceIdle, MayAdvance, Advanced, QueueTarget
  <2>b. rec \in Record /\ NextTarget \in Int
    BY NextTargetType, ReservationType DEF IInv, Ordered, TypeOK, MemoryTypeOK,
       DriveTypeOK, ProgramTypeOK
  <2>c. /\ CheckWindow(rec) /\ rec.valid /\ rec.binding = id /\ ready /\ ~Pending
        /\ rec.lower = Least(pos, Least(lastTriggered, NextTarget)) - Tol
        /\ rec.upper = Greatest(pos, Greatest(lastTriggered, NextTarget)) + Tol
    BY <1>3 DEF IInv, Ordered, TypeOK, MemoryTypeOK, DriveTypeOK, ProgramTypeOK,
       MayQueue, Idle, Live, Trusted, Reservation, Interval, Logical
  <2> HIDE DEF rec, queued, same
  <2>1. FlagsTypeOK'
    BY Zenon, <2>a DEF IInv, Ordered, TypeOK, FlagsTypeOK, Controller, Writing,
       driveVars
  <2>2. MemoryTypeOK'
    BY <2>a, <2>b DEF IInv, Ordered, TypeOK, MemoryTypeOK, DriveTypeOK, ProgramTypeOK,
       Job, Controller, Writing, driveVars
  <2>3. DriveTypeOK' /\ ProgramTypeOK'
    BY <2>a, <2>b DEF IInv, Ordered, TypeOK, MemoryTypeOK, DriveTypeOK, ProgramTypeOK,
       Controller, Writing, driveVars
  <2>4. InvShaft' /\ InvJob' /\ InvReady' /\ InvUnsaved'
    BY <2>a, <2>c DEF IInv, Ordered, TypeOK, MemoryTypeOK, DriveTypeOK, ProgramTypeOK,
       InvShaft, InvJob, InvReady, InvUnsaved, Pending, NoneAccepted, Accepted,
       Controller, Writing, driveVars, InvStart
  <2>5. InvStart' /\ InvPhase' /\ InvZero'
    BY <2>a, <2>c DEF IInv, Ordered, TypeOK, MemoryTypeOK, DriveTypeOK, ProgramTypeOK,
       InvShaft, InvJob, InvReady, InvStart, InvPhase, InvZero, Pending, NoneAccepted,
       Accepted, Controller, Writing, driveVars
  <2>6. ASSUME ~astray'
       PROVE  TrueFile' /\ TrueJob' /\ TrueReference'
    BY <2>6, <2>a, <2>b, <2>c, TolFacts DEF IInv, Ordered, TypeOK, MemoryTypeOK,
       DriveTypeOK, ProgramTypeOK, InvShaft, InvJob, InvReady, InvUnsaved, Truthful,
       TrueFile, TrueJob, TrueReference, Protects, Accepted, Covers, Pending,
       Controller, Writing, driveVars, TrueController, Contains, Near, Least, Greatest,
       Record
  <2>7. ASSUME ~astray'
       PROVE  TrueController' /\ TrueTool'
    BY <2>7, <2>a, <2>b, <2>c, TolFacts DEF IInv, Ordered, TypeOK, MemoryTypeOK,
       DriveTypeOK, ProgramTypeOK, InvJob, InvStart, InvPhase, InvZero, Truthful,
       TrueController, TrueTool, Reserves, Accepted, Pending, Controller, Writing,
       driveVars, InvShaft, Near, Least, Greatest, Record
  <2> QED BY <2>1, <2>2, <2>3, <2>4, <2>5, <2>6, <2>7 DEF IInv, Ordered, TypeOK, Truthful
<1> QED BY <1>1, <1>2, <1>3

\* The reservation is durable: the target may be sent to the drive.
LEMMA AdvanceQueuedStep ==
  ASSUME IInv, AdvanceQueued
  PROVE  IInv'
<1>1. CASE ~(Pending \/ MayTarget(target))
  BY <1>1, ThrowStep DEF AdvanceQueued
<1>2. CASE Pending \/ MayTarget(target)
  <2>1. FlagsTypeOK'
    BY Zenon, <1>2 DEF IInv, Ordered, TypeOK, FlagsTypeOK, AdvanceQueued, Controller,
       MayAdvance, Advanced, diskVars, memVars, driveVars
  <2>2. MemoryTypeOK'
    BY <1>2 DEF IInv, Ordered, TypeOK, MemoryTypeOK, DriveTypeOK, ProgramTypeOK, Job,
       AdvanceQueued, Controller, MayAdvance, Advanced, diskVars, memVars, driveVars
  <2>3. DriveTypeOK' /\ ProgramTypeOK'
    BY <1>2 DEF IInv, Ordered, TypeOK, MemoryTypeOK, DriveTypeOK, ProgramTypeOK,
       AdvanceQueued, Controller, MayAdvance, Advanced, diskVars, memVars, driveVars
  <2>4. InvShaft' /\ InvJob' /\ InvReady' /\ InvUnsaved'
    BY <1>2 DEF IInv, Ordered, TypeOK, MemoryTypeOK, DriveTypeOK, ProgramTypeOK,
       InvShaft, InvJob, InvReady, InvUnsaved, Pending, NoneAccepted, Accepted,
       AdvanceQueued, Controller, MayAdvance, Advanced, diskVars, memVars, driveVars
  <2>5. InvStart' /\ InvPhase' /\ InvZero'
    BY <1>2 DEF IInv, Ordered, TypeOK, MemoryTypeOK, DriveTypeOK, ProgramTypeOK,
       InvShaft, InvJob, InvReady, InvStart, InvPhase, InvZero, Pending, NoneAccepted,
       Accepted, AdvanceQueued, Controller, MayAdvance, Advanced, diskVars, memVars,
       driveVars
  <2>6. ASSUME ~astray'
       PROVE  TrueFile' /\ TrueJob' /\ TrueReference'
    BY <2>6, <1>2 DEF IInv, Ordered, TypeOK, MemoryTypeOK, DriveTypeOK, ProgramTypeOK,
       InvShaft, InvJob, InvReady, InvUnsaved, Truthful, TrueFile, TrueJob,
       TrueReference, Protects, Accepted, Covers, Pending, AdvanceQueued, Controller,
       MayAdvance, Advanced, diskVars, memVars, driveVars
  <2>7. ASSUME ~astray'
       PROVE  TrueController' /\ TrueTool'
    BY <2>7, <1>2 DEF IInv, Ordered, TypeOK, MemoryTypeOK, DriveTypeOK, ProgramTypeOK,
       InvJob, InvStart, InvPhase, InvZero, Truthful, TrueController, TrueTool,
       Reserves, Accepted, Pending, AdvanceQueued, Controller, MayAdvance, Advanced,
       diskVars, memVars, driveVars
  <2> QED BY <2>1, <2>2, <2>3, <2>4, <2>5, <2>6, <2>7 DEF IInv, Ordered, TypeOK, Truthful
<1> QED BY <1>1, <1>2

\* The set-point is staged while its trigger bit is low.
LEMMA AdvanceStagingStep ==
  ASSUME IInv, AdvanceStaging
  PROVE  IInv'
<1>1. FlagsTypeOK'
  BY Zenon DEF IInv, Ordered, TypeOK, FlagsTypeOK, AdvanceStaging, Controller,
     MayAdvance, Advanced, diskVars, memVars, driveVars
<1>2. MemoryTypeOK'
  BY DEF IInv, Ordered, TypeOK, MemoryTypeOK, DriveTypeOK, ProgramTypeOK, Job,
     AdvanceStaging, Controller, MayAdvance, Advanced, diskVars, memVars, driveVars
<1>3. DriveTypeOK' /\ ProgramTypeOK'
  BY DEF IInv, Ordered, TypeOK, MemoryTypeOK, DriveTypeOK, ProgramTypeOK,
     AdvanceStaging, Controller, MayAdvance, Advanced, diskVars, memVars, driveVars
<1>4. InvShaft' /\ InvJob' /\ InvReady' /\ InvUnsaved'
  BY DEF IInv, Ordered, TypeOK, MemoryTypeOK, DriveTypeOK, ProgramTypeOK, InvShaft,
     InvJob, InvReady, InvUnsaved, Pending, NoneAccepted, Accepted, AdvanceStaging,
     Controller, MayAdvance, Advanced, diskVars, memVars, driveVars
<1>5. InvStart' /\ InvPhase' /\ InvZero'
  BY DEF IInv, Ordered, TypeOK, MemoryTypeOK, DriveTypeOK, ProgramTypeOK, InvShaft,
     InvJob, InvReady, InvStart, InvPhase, InvZero, Pending, NoneAccepted, Accepted,
     AdvanceStaging, Controller, MayAdvance, Advanced, diskVars, memVars, driveVars
<1>6. ASSUME ~astray'
     PROVE  TrueFile' /\ TrueJob' /\ TrueReference'
  BY <1>6 DEF IInv, Ordered, TypeOK, MemoryTypeOK, DriveTypeOK, ProgramTypeOK, InvShaft,
     InvJob, InvReady, InvUnsaved, Truthful, TrueFile, TrueJob, TrueReference, Protects,
     Accepted, Covers, Pending, AdvanceStaging, Controller, MayAdvance, Advanced,
     diskVars, memVars, driveVars
<1>7. ASSUME ~astray'
     PROVE  TrueController' /\ TrueTool'
  BY <1>7 DEF IInv, Ordered, TypeOK, MemoryTypeOK, DriveTypeOK, ProgramTypeOK, InvJob,
     InvStart, InvPhase, InvZero, Truthful, TrueController, TrueTool, Reserves,
     Accepted, Pending, AdvanceStaging, Controller, MayAdvance, Advanced, diskVars,
     memVars, driveVars
<1> QED BY <1>1, <1>2, <1>3, <1>4, <1>5, <1>6, <1>7 DEF IInv, Ordered, TypeOK, Truthful

\* The trigger: the shaft now moves inside the reservation.
LEMMA AdvanceTriggeringStep ==
  ASSUME IInv, AdvanceTriggering
  PROVE  IInv'
<1>1. CASE ~(MayMark(target))
  BY <1>1, ThrowStep DEF AdvanceTriggering
<1>2. CASE MayMark(target)
  <2>1. FlagsTypeOK'
    BY Zenon, <1>2 DEF IInv, Ordered, TypeOK, FlagsTypeOK, AdvanceTriggering,
       Controller, MayAdvance, Advanced, MayMark, MayTarget, Trusted, diskVars
  <2>2. MemoryTypeOK'
    BY <1>2 DEF IInv, Ordered, TypeOK, MemoryTypeOK, DriveTypeOK, ProgramTypeOK, Job,
       AdvanceTriggering, Controller, MayAdvance, Advanced, MayMark, MayTarget, Trusted,
       diskVars
  <2>3. DriveTypeOK' /\ ProgramTypeOK'
    BY <1>2 DEF IInv, Ordered, TypeOK, MemoryTypeOK, DriveTypeOK, ProgramTypeOK,
       AdvanceTriggering, Controller, MayAdvance, Advanced, MayMark, MayTarget, Trusted,
       diskVars, RawTarget
  <2>4. InvShaft' /\ InvJob' /\ InvReady' /\ InvUnsaved'
    BY <1>2 DEF IInv, Ordered, TypeOK, MemoryTypeOK, DriveTypeOK, ProgramTypeOK,
       InvShaft, InvJob, InvReady, InvUnsaved, Pending, NoneAccepted, Accepted,
       AdvanceTriggering, Controller, MayAdvance, Advanced, MayMark, MayTarget, Trusted,
       diskVars
  <2>5. InvStart' /\ InvPhase' /\ InvZero'
    BY <1>2 DEF IInv, Ordered, TypeOK, MemoryTypeOK, DriveTypeOK, ProgramTypeOK,
       InvShaft, InvJob, InvReady, InvStart, InvPhase, InvZero, Pending, NoneAccepted,
       Accepted, AdvanceTriggering, Controller, MayAdvance, Advanced, MayMark,
       MayTarget, Trusted, diskVars
  <2>6. ASSUME ~astray'
       PROVE  TrueFile' /\ TrueJob' /\ TrueReference'
    <3>1. /\ ~astray /\ ready /\ Controller("advance") /\ phase = "triggering"
          /\ motion' = "run" /\ goal' = RawTarget(target) + frame
          /\ UNCHANGED <<id, shaft, frame, offset, ready, committed, survivors, job>>
      BY <1>2, <2>6 DEF AdvanceTriggering, MayAdvance, MayMark, MayTarget, Trusted,
         Controller, diskVars
    <3>2. survivors = {committed} /\ Reserves(committed) /\ ~Pending
      BY <3>1 DEF IInv, Ordered, InvPhase, InvZero, InvStart, Truthful, TrueController,
         Controller, Tool
    <3>3. goal' = target /\ Covers(committed)
      BY <3>1, <3>2, TriggerGoal DEF IInv, Truthful, TrueFile, Protects, Reserves
    <3>4. Covers(committed)'
      BY <3>1, <3>2, <3>3, TolFacts DEF IInv, Ordered, TypeOK, MemoryTypeOK, Record,
         Covers, CheckWindow, Contains, Reserves
    <3> QED
      BY <3>1, <3>2, <3>4 DEF IInv, Truthful, TrueFile, TrueJob, TrueReference,
         Protects, Accepted, Pending
  <2>7. ASSUME ~astray'
       PROVE  TrueController' /\ TrueTool'
    BY <2>7, <1>2, TriggerGoal DEF IInv, Ordered, TypeOK, MemoryTypeOK, DriveTypeOK,
       ProgramTypeOK, InvJob, InvStart, InvPhase, InvZero, Truthful, TrueController,
       TrueTool, Reserves, Accepted, Pending, AdvanceTriggering, Controller, MayAdvance,
       Advanced, MayMark, MayTarget, Trusted, diskVars
  <2> QED BY <2>1, <2>2, <2>3, <2>4, <2>5, <2>6, <2>7 DEF IInv, Ordered, TypeOK, Truthful
<1> QED BY <1>1, <1>2

\* The drive acknowledges; the controller may reserve the next target.
LEMMA AdvanceAcknowledgingStep ==
  ASSUME IInv, AdvanceAcknowledging
  PROVE  IInv'
<1>1. FlagsTypeOK'
  BY Zenon DEF IInv, Ordered, TypeOK, FlagsTypeOK, AdvanceAcknowledging, Controller,
     MayAdvance, Advanced, diskVars, memVars, driveVars
<1>2. MemoryTypeOK'
  BY DEF IInv, Ordered, TypeOK, MemoryTypeOK, DriveTypeOK, ProgramTypeOK, Job,
     AdvanceAcknowledging, Controller, MayAdvance, Advanced, diskVars, memVars,
     driveVars
<1>3. DriveTypeOK' /\ ProgramTypeOK'
  BY DEF IInv, Ordered, TypeOK, MemoryTypeOK, DriveTypeOK, ProgramTypeOK,
     AdvanceAcknowledging, Controller, MayAdvance, Advanced, diskVars, memVars,
     driveVars
<1>4. InvShaft' /\ InvJob' /\ InvReady' /\ InvUnsaved'
  BY DEF IInv, Ordered, TypeOK, MemoryTypeOK, DriveTypeOK, ProgramTypeOK, InvShaft,
     InvJob, InvReady, InvUnsaved, Pending, NoneAccepted, Accepted,
     AdvanceAcknowledging, Controller, MayAdvance, Advanced, diskVars, memVars,
     driveVars
<1>5. InvStart' /\ InvPhase' /\ InvZero'
  BY DEF IInv, Ordered, TypeOK, MemoryTypeOK, DriveTypeOK, ProgramTypeOK, InvShaft,
     InvJob, InvReady, InvStart, InvPhase, InvZero, Pending, NoneAccepted, Accepted,
     AdvanceAcknowledging, Controller, MayAdvance, Advanced, diskVars, memVars,
     driveVars
<1>6. ASSUME ~astray'
     PROVE  TrueFile' /\ TrueJob' /\ TrueReference'
  BY <1>6 DEF IInv, Ordered, TypeOK, MemoryTypeOK, DriveTypeOK, ProgramTypeOK, InvShaft,
     InvJob, InvReady, InvUnsaved, Truthful, TrueFile, TrueJob, TrueReference, Protects,
     Accepted, Covers, Pending, AdvanceAcknowledging, Controller, MayAdvance, Advanced,
     diskVars, memVars, driveVars
<1>7. ASSUME ~astray'
     PROVE  TrueController' /\ TrueTool'
  BY <1>7 DEF IInv, Ordered, TypeOK, MemoryTypeOK, DriveTypeOK, ProgramTypeOK, InvJob,
     InvStart, InvPhase, InvZero, Truthful, TrueController, TrueTool, Reserves,
     Accepted, Pending, AdvanceAcknowledging, Controller, MayAdvance, Advanced,
     diskVars, memVars, driveVars
<1> QED BY <1>1, <1>2, <1>3, <1>4, <1>5, <1>6, <1>7 DEF IInv, Ordered, TypeOK, Truthful

-----------------------------------------------------------------------------
(* The jog tool                                                            *)

\* The tool restores the position, or goes on without it.
LEMMA ToolRestoreStep ==
  ASSUME IInv, ToolRestore
  PROVE  IInv'
<1>1. FlagsTypeOK'
  BY Zenon DEF IInv, Ordered, TypeOK, FlagsTypeOK, ToolRestore, Tool, Restore, diskVars,
     memVars, driveVars
<1>2. MemoryTypeOK'
  BY RestoreTypes DEF IInv, Ordered, TypeOK, MemoryTypeOK, DriveTypeOK, ProgramTypeOK,
     Job, ToolRestore, Tool, Restore, diskVars, memVars, driveVars
<1>3. DriveTypeOK' /\ ProgramTypeOK'
  BY DEF IInv, Ordered, TypeOK, MemoryTypeOK, DriveTypeOK, ProgramTypeOK, ToolRestore,
     Tool, Restore, diskVars, memVars, driveVars
<1>4. InvShaft' /\ InvJob' /\ InvReady' /\ InvUnsaved'
  BY RestoreTypes DEF IInv, Ordered, TypeOK, MemoryTypeOK, DriveTypeOK, ProgramTypeOK,
     InvShaft, InvJob, InvReady, InvUnsaved, Pending, NoneAccepted, Accepted,
     ToolRestore, Tool, Restore, diskVars, memVars, driveVars
<1>5. InvStart' /\ InvPhase' /\ InvZero'
  BY RestoreTypes DEF IInv, Ordered, TypeOK, MemoryTypeOK, DriveTypeOK, ProgramTypeOK,
     InvShaft, InvJob, InvReady, InvStart, InvPhase, InvZero, Pending, NoneAccepted,
     Accepted, ToolRestore, Tool, Restore, diskVars, memVars, driveVars
<1>6. ASSUME ~astray'
     PROVE  TrueFile' /\ TrueJob' /\ TrueReference'
  BY <1>6, RestoreFinds DEF IInv, Ordered, TypeOK, MemoryTypeOK, DriveTypeOK,
     ProgramTypeOK, InvShaft, InvJob, InvReady, InvUnsaved, Truthful, TrueFile, TrueJob,
     TrueReference, Protects, Accepted, Covers, Pending, ToolRestore, Tool, Restore,
     diskVars, memVars, driveVars
<1>7. ASSUME ~astray'
     PROVE  TrueController' /\ TrueTool'
  BY <1>7 DEF IInv, Ordered, TypeOK, MemoryTypeOK, DriveTypeOK, ProgramTypeOK, InvJob,
     InvStart, InvPhase, InvZero, Truthful, TrueController, TrueTool, Reserves,
     Accepted, Pending, ToolRestore, Tool, Restore, diskVars, memVars, driveVars
<1> QED BY <1>1, <1>2, <1>3, <1>4, <1>5, <1>6, <1>7 DEF IInv, Ordered, TypeOK, Truthful

\* The tool enables the drive and triggers a set-point where it is.
LEMMA ToolHoldStep ==
  ASSUME IInv, ToolHold
  PROVE  IInv'
<1>1. CASE ~(ready => Live(Raw))
  BY <1>1, ThrowStep DEF ToolHold
<1>2. CASE ready => Live(Raw)
  <2>1. FlagsTypeOK'
    BY Zenon, <1>2 DEF IInv, Ordered, TypeOK, FlagsTypeOK, ToolHold, Tool, Hold, Raw,
       diskVars, memVars
  <2>2. MemoryTypeOK'
    BY <1>2 DEF IInv, Ordered, TypeOK, MemoryTypeOK, DriveTypeOK, ProgramTypeOK, Job,
       ToolHold, Tool, Hold, Raw, diskVars, memVars
  <2>3. DriveTypeOK' /\ ProgramTypeOK'
    BY <1>2 DEF IInv, Ordered, TypeOK, MemoryTypeOK, DriveTypeOK, ProgramTypeOK,
       ToolHold, Tool, Hold, Raw, diskVars, memVars
  <2>4. InvShaft' /\ InvJob' /\ InvReady' /\ InvUnsaved'
    BY <1>2 DEF IInv, Ordered, TypeOK, MemoryTypeOK, DriveTypeOK, ProgramTypeOK,
       InvShaft, InvJob, InvReady, InvUnsaved, Pending, NoneAccepted, Accepted,
       ToolHold, Tool, Hold, Raw, diskVars, memVars, InvStart
  <2>5. InvStart' /\ InvPhase' /\ InvZero'
    BY <1>2 DEF IInv, Ordered, TypeOK, MemoryTypeOK, DriveTypeOK, ProgramTypeOK,
       InvShaft, InvJob, InvReady, InvStart, InvPhase, InvZero, Pending, NoneAccepted,
       Accepted, ToolHold, Tool, Hold, Raw, diskVars, memVars
  <2>6. ASSUME ~astray'
       PROVE  TrueFile' /\ TrueJob' /\ TrueReference'
    BY <2>6, <1>2 DEF IInv, Ordered, TypeOK, MemoryTypeOK, DriveTypeOK, ProgramTypeOK,
       InvShaft, InvJob, InvReady, InvUnsaved, Truthful, TrueFile, TrueJob,
       TrueReference, Protects, Accepted, Covers, Pending, ToolHold, Tool, Hold, Raw,
       diskVars, memVars, Contains
  <2>7. ASSUME ~astray'
       PROVE  TrueController' /\ TrueTool'
    BY <2>7, <1>2 DEF IInv, Ordered, TypeOK, MemoryTypeOK, DriveTypeOK, ProgramTypeOK,
       InvJob, InvStart, InvPhase, InvZero, Truthful, TrueController, TrueTool,
       Reserves, Accepted, Pending, ToolHold, Tool, Hold, Raw, diskVars, memVars
  <2> QED BY <2>1, <2>2, <2>3, <2>4, <2>5, <2>6, <2>7 DEF IInv, Ordered, TypeOK, Truthful
<1> QED BY <1>1, <1>2

\* A step command computes its target from the trusted position.
LEMMA ToolStepCommandStep ==
  ASSUME IInv, NEW sign \in {-1, 1}, ToolStepCommand(sign)
  PROVE  IInv'
<1>1. CASE ~(Live(held))
  BY <1>1, ThrowStep DEF ToolStepCommand
<1>2. CASE Live(held)
  <2>1. FlagsTypeOK'
    BY Zenon, <1>2 DEF IInv, Ordered, TypeOK, FlagsTypeOK, ToolStepCommand, Tool,
       MayStep, diskVars, memVars, driveVars
  <2>2. MemoryTypeOK'
    BY <1>2 DEF IInv, Ordered, TypeOK, MemoryTypeOK, DriveTypeOK, ProgramTypeOK, Job,
       ToolStepCommand, Tool, MayStep, diskVars, memVars, driveVars
  <2>3. DriveTypeOK' /\ ProgramTypeOK'
    BY <1>2, StepTargetType DEF IInv, Ordered, TypeOK, MemoryTypeOK, DriveTypeOK,
       ProgramTypeOK, ToolStepCommand, Tool, MayStep, diskVars, memVars, driveVars
  <2>4. InvShaft' /\ InvJob' /\ InvReady' /\ InvUnsaved'
    BY <1>2 DEF IInv, Ordered, TypeOK, MemoryTypeOK, DriveTypeOK, ProgramTypeOK,
       InvShaft, InvJob, InvReady, InvUnsaved, Pending, NoneAccepted, Accepted,
       ToolStepCommand, Tool, MayStep, diskVars, memVars, driveVars
  <2>5. InvStart' /\ InvPhase' /\ InvZero'
    BY <1>2, StepTargetType DEF IInv, Ordered, TypeOK, MemoryTypeOK, DriveTypeOK,
       ProgramTypeOK, InvShaft, InvJob, InvReady, InvStart, InvPhase, InvZero, Pending,
       NoneAccepted, Accepted, ToolStepCommand, Tool, MayStep, diskVars, memVars,
       driveVars
  <2>6. ASSUME ~astray'
       PROVE  TrueFile' /\ TrueJob' /\ TrueReference'
    BY <2>6, <1>2 DEF IInv, Ordered, TypeOK, MemoryTypeOK, DriveTypeOK, ProgramTypeOK,
       InvShaft, InvJob, InvReady, InvUnsaved, Truthful, TrueFile, TrueJob,
       TrueReference, Protects, Accepted, Covers, Pending, ToolStepCommand, Tool,
       MayStep, diskVars, memVars, driveVars
  <2>7. ASSUME ~astray'
       PROVE  TrueController' /\ TrueTool'
    BY <2>7, <1>2 DEF IInv, Ordered, TypeOK, MemoryTypeOK, DriveTypeOK, ProgramTypeOK,
       InvJob, InvStart, InvPhase, InvZero, Truthful, TrueController, TrueTool,
       Reserves, Accepted, Pending, ToolStepCommand, Tool, MayStep, diskVars, memVars,
       driveVars
  <2> QED BY <2>1, <2>2, <2>3, <2>4, <2>5, <2>6, <2>7 DEF IInv, Ordered, TypeOK, Truthful
<1> QED BY <1>1, <1>2

\* The tool reserves the target from standstill.
LEMMA ToolReserveStep ==
  ASSUME IInv, ToolReserve
  PROVE  IInv'
<1>1. CASE ~(MayQueue(id, Raw, target))
  BY <1>1, ThrowStep DEF ToolReserve
<1>2. CASE MayQueue(id, Raw, target)
  <2>1. FlagsTypeOK'
    BY Zenon, <1>2 DEF IInv, Ordered, TypeOK, FlagsTypeOK, ToolReserve, Tool, MayQueue,
       QueueTarget, Writing, Idle, Live, Trusted, driveVars
  <2>2. MemoryTypeOK'
    BY <1>2, ReserveType DEF IInv, Ordered, TypeOK, MemoryTypeOK, DriveTypeOK,
       ProgramTypeOK, Job, ToolReserve, Tool, MayQueue, QueueTarget, Writing, Idle,
       Live, Trusted, driveVars
  <2>3. DriveTypeOK' /\ ProgramTypeOK'
    BY <1>2 DEF IInv, Ordered, TypeOK, MemoryTypeOK, DriveTypeOK, ProgramTypeOK,
       ToolReserve, Tool, MayQueue, QueueTarget, Writing, Idle, Live, Trusted, driveVars
  <2>4. InvShaft' /\ InvJob' /\ InvReady' /\ InvUnsaved'
    BY <1>2, ReserveType DEF IInv, Ordered, TypeOK, MemoryTypeOK, DriveTypeOK,
       ProgramTypeOK, InvShaft, InvJob, InvReady, InvUnsaved, Pending, NoneAccepted,
       Accepted, ToolReserve, Tool, MayQueue, QueueTarget, Writing, Idle, Live, Trusted,
       driveVars
  <2>5. InvStart' /\ InvPhase' /\ InvZero'
    BY <1>2, ReserveType DEF IInv, Ordered, TypeOK, MemoryTypeOK, DriveTypeOK,
       ProgramTypeOK, InvShaft, InvJob, InvReady, InvStart, InvPhase, InvZero, Pending,
       NoneAccepted, Accepted, ToolReserve, Tool, MayQueue, QueueTarget, Writing, Idle,
       Live, Trusted, driveVars
  <2>6. ASSUME ~astray'
       PROVE  TrueFile' /\ TrueJob' /\ TrueReference'
    BY <2>6, <1>2, ReserveType, TolFacts DEF IInv, Ordered, TypeOK, MemoryTypeOK,
       DriveTypeOK, ProgramTypeOK, InvShaft, InvJob, InvReady, InvUnsaved, Truthful,
       TrueFile, TrueJob, TrueReference, Protects, Accepted, Covers, Pending,
       ToolReserve, Tool, MayQueue, QueueTarget, Writing, Idle, Live, Trusted,
       driveVars, InvZero, Reservation, Interval, Logical, Raw, Least, Greatest,
       Contains, CheckWindow
  <2>7. ASSUME ~astray'
       PROVE  TrueController' /\ TrueTool'
    BY <2>7, <1>2, ReserveType, TolFacts DEF IInv, Ordered, TypeOK, MemoryTypeOK,
       DriveTypeOK, ProgramTypeOK, InvJob, InvStart, InvPhase, InvZero, Truthful,
       TrueController, TrueTool, Reserves, Accepted, Pending, ToolReserve, Tool,
       MayQueue, QueueTarget, Writing, Idle, Live, Trusted, driveVars
  <2> QED BY <2>1, <2>2, <2>3, <2>4, <2>5, <2>6, <2>7 DEF IInv, Ordered, TypeOK, Truthful
<1> QED BY <1>1, <1>2

\* The tool waits for the reservation.
LEMMA ToolPollStep ==
  ASSUME IInv, ToolPoll
  PROVE  IInv'
<1>1. FlagsTypeOK'
  BY Zenon DEF IInv, Ordered, TypeOK, FlagsTypeOK, ToolPoll, Tool, Poll, PollTakes,
     driveVars
<1>2. MemoryTypeOK'
  BY NoJobType DEF IInv, Ordered, TypeOK, MemoryTypeOK, DriveTypeOK, ProgramTypeOK, Job,
     ToolPoll, Tool, Poll, PollTakes, driveVars
<1>3. DriveTypeOK' /\ ProgramTypeOK'
  BY DEF IInv, Ordered, TypeOK, MemoryTypeOK, DriveTypeOK, ProgramTypeOK, ToolPoll,
     Tool, Poll, PollTakes, driveVars
<1>4. InvShaft' /\ InvJob' /\ InvReady' /\ InvUnsaved'
  BY NoJobType DEF IInv, Ordered, TypeOK, MemoryTypeOK, DriveTypeOK, ProgramTypeOK,
     InvShaft, InvJob, InvReady, InvUnsaved, Pending, NoneAccepted, Accepted, ToolPoll,
     Tool, Poll, PollTakes, driveVars
<1>5. InvStart' /\ InvPhase' /\ InvZero'
  BY NoJobType DEF IInv, Ordered, TypeOK, MemoryTypeOK, DriveTypeOK, ProgramTypeOK,
     InvShaft, InvJob, InvReady, InvStart, InvPhase, InvZero, Pending, NoneAccepted,
     Accepted, ToolPoll, Tool, Poll, PollTakes, driveVars
<1>6. ASSUME ~astray'
     PROVE  TrueFile' /\ TrueJob' /\ TrueReference'
  BY <1>6, NoJobType DEF IInv, Ordered, TypeOK, MemoryTypeOK, DriveTypeOK,
     ProgramTypeOK, InvShaft, InvJob, InvReady, InvUnsaved, Truthful, TrueFile, TrueJob,
     TrueReference, Protects, Accepted, Covers, Pending, ToolPoll, Tool, Poll,
     PollTakes, driveVars
<1>7. ASSUME ~astray'
     PROVE  TrueController' /\ TrueTool'
  BY <1>7, NoJobType DEF IInv, Ordered, TypeOK, MemoryTypeOK, DriveTypeOK,
     ProgramTypeOK, InvJob, InvStart, InvPhase, InvZero, Truthful, TrueController,
     TrueTool, Reserves, Accepted, Pending, ToolPoll, Tool, Poll, PollTakes, driveVars
<1> QED BY <1>1, <1>2, <1>3, <1>4, <1>5, <1>6, <1>7 DEF IInv, Ordered, TypeOK, Truthful

\* The tool triggers the reserved target.
LEMMA ToolMoveStep ==
  ASSUME IInv, ToolMove
  PROVE  IInv'
<1>1. CASE ~(Monitored /\ MayMark(target))
  BY <1>1, ThrowStep DEF ToolMove
<1>2. CASE Monitored /\ MayMark(target)
  <2>1. FlagsTypeOK'
    BY Zenon, <1>2 DEF IInv, Ordered, TypeOK, FlagsTypeOK, ToolMove, Tool, MayMark,
       MayTarget, Trusted, diskVars
  <2>2. MemoryTypeOK'
    BY <1>2 DEF IInv, Ordered, TypeOK, MemoryTypeOK, DriveTypeOK, ProgramTypeOK, Job,
       ToolMove, Tool, MayMark, MayTarget, Trusted, diskVars
  <2>3. DriveTypeOK' /\ ProgramTypeOK'
    BY <1>2 DEF IInv, Ordered, TypeOK, MemoryTypeOK, DriveTypeOK, ProgramTypeOK,
       ToolMove, Tool, MayMark, MayTarget, Trusted, diskVars, RawTarget
  <2>4. InvShaft' /\ InvJob' /\ InvReady' /\ InvUnsaved'
    BY <1>2 DEF IInv, Ordered, TypeOK, MemoryTypeOK, DriveTypeOK, ProgramTypeOK,
       InvShaft, InvJob, InvReady, InvUnsaved, Pending, NoneAccepted, Accepted,
       ToolMove, Tool, MayMark, MayTarget, Trusted, diskVars
  <2>5. InvStart' /\ InvPhase' /\ InvZero'
    BY <1>2 DEF IInv, Ordered, TypeOK, MemoryTypeOK, DriveTypeOK, ProgramTypeOK,
       InvShaft, InvJob, InvReady, InvStart, InvPhase, InvZero, Pending, NoneAccepted,
       Accepted, ToolMove, Tool, MayMark, MayTarget, Trusted, diskVars
  <2>6. ASSUME ~astray'
       PROVE  TrueFile' /\ TrueJob' /\ TrueReference'
    <3>1. /\ ~astray /\ ready /\ Tool("triggering")
          /\ motion' = "run" /\ goal' = RawTarget(target) + frame
          /\ UNCHANGED <<id, shaft, frame, offset, ready, committed, survivors, job>>
      BY <1>2, <2>6 DEF ToolMove, MayMark, MayTarget, Trusted, Tool, diskVars
    <3>2. survivors = {committed} /\ Reserves(committed) /\ ~Pending
      BY <3>1 DEF IInv, Ordered, InvPhase, InvZero, InvStart, Truthful, TrueTool,
         Controller, Tool
    <3>3. goal' = target /\ Covers(committed)
      BY <3>1, <3>2, TriggerGoal DEF IInv, Truthful, TrueFile, Protects, Reserves
    <3>4. Covers(committed)'
      BY <3>1, <3>2, <3>3, TolFacts DEF IInv, Ordered, TypeOK, MemoryTypeOK, Record,
         Covers, CheckWindow, Contains, Reserves
    <3> QED
      BY <3>1, <3>2, <3>4 DEF IInv, Truthful, TrueFile, TrueJob, TrueReference,
         Protects, Accepted, Pending
  <2>7. ASSUME ~astray'
       PROVE  TrueController' /\ TrueTool'
    BY <2>7, <1>2, TriggerGoal DEF IInv, Ordered, TypeOK, MemoryTypeOK, DriveTypeOK,
       ProgramTypeOK, InvJob, InvStart, InvPhase, InvZero, Truthful, TrueController,
       TrueTool, Reserves, Accepted, Pending, ToolMove, Tool, MayMark, MayTarget,
       Trusted, diskVars
  <2> QED BY <2>1, <2>2, <2>3, <2>4, <2>5, <2>6, <2>7 DEF IInv, Ordered, TypeOK, Truthful
<1> QED BY <1>1, <1>2

\* The shaft has reached the target of the tool and stands still.
LEMMA ToolReachedStep ==
  ASSUME IInv, ToolReached
  PROVE  IInv'
<1>1. FlagsTypeOK'
  BY Zenon DEF IInv, Ordered, TypeOK, FlagsTypeOK, ToolReached, Tool, diskVars, memVars,
     driveVars
<1>2. MemoryTypeOK'
  BY DEF IInv, Ordered, TypeOK, MemoryTypeOK, DriveTypeOK, ProgramTypeOK, Job,
     ToolReached, Tool, diskVars, memVars, driveVars
<1>3. DriveTypeOK' /\ ProgramTypeOK'
  BY DEF IInv, Ordered, TypeOK, MemoryTypeOK, DriveTypeOK, ProgramTypeOK, ToolReached,
     Tool, diskVars, memVars, driveVars
<1>4. InvShaft' /\ InvJob' /\ InvReady' /\ InvUnsaved'
  BY DEF IInv, Ordered, TypeOK, MemoryTypeOK, DriveTypeOK, ProgramTypeOK, InvShaft,
     InvJob, InvReady, InvUnsaved, Pending, NoneAccepted, Accepted, ToolReached, Tool,
     diskVars, memVars, driveVars
<1>5. InvStart' /\ InvPhase' /\ InvZero'
  BY DEF IInv, Ordered, TypeOK, MemoryTypeOK, DriveTypeOK, ProgramTypeOK, InvShaft,
     InvJob, InvReady, InvStart, InvPhase, InvZero, Pending, NoneAccepted, Accepted,
     ToolReached, Tool, diskVars, memVars, driveVars
<1>6. ASSUME ~astray'
     PROVE  TrueFile' /\ TrueJob' /\ TrueReference'
  BY <1>6 DEF IInv, Ordered, TypeOK, MemoryTypeOK, DriveTypeOK, ProgramTypeOK, InvShaft,
     InvJob, InvReady, InvUnsaved, Truthful, TrueFile, TrueJob, TrueReference, Protects,
     Accepted, Covers, Pending, ToolReached, Tool, diskVars, memVars, driveVars
<1>7. ASSUME ~astray'
     PROVE  TrueController' /\ TrueTool'
  BY <1>7 DEF IInv, Ordered, TypeOK, MemoryTypeOK, DriveTypeOK, ProgramTypeOK, InvJob,
     InvStart, InvPhase, InvZero, Truthful, TrueController, TrueTool, Reserves,
     Accepted, Pending, ToolReached, Tool, diskVars, memVars, driveVars
<1> QED BY <1>1, <1>2, <1>3, <1>4, <1>5, <1>6, <1>7 DEF IInv, Ordered, TypeOK, Truthful

\* A zero begins with a disabled drive and the invalidation of the record.
LEMMA ToolZeroBeginStep ==
  ASSUME IInv, ToolZeroBegin
  PROVE  IInv'
<1>1. FlagsTypeOK'
  BY Zenon DEF IInv, Ordered, TypeOK, FlagsTypeOK, ToolZeroBegin, Tool, Invalidate,
     Writing, Invalid, Idle, driveVars
<1>2. MemoryTypeOK'
  BY RecordType DEF IInv, Ordered, TypeOK, MemoryTypeOK, DriveTypeOK, ProgramTypeOK,
     Job, ToolZeroBegin, Tool, Invalidate, Writing, Invalid, Idle, driveVars
<1>3. DriveTypeOK' /\ ProgramTypeOK'
  BY DEF IInv, Ordered, TypeOK, MemoryTypeOK, DriveTypeOK, ProgramTypeOK, ToolZeroBegin,
     Tool, Invalidate, Writing, Invalid, Idle, driveVars
<1>4. InvShaft' /\ InvJob' /\ InvReady' /\ InvUnsaved'
  BY DEF IInv, Ordered, TypeOK, MemoryTypeOK, DriveTypeOK, ProgramTypeOK, InvShaft,
     InvJob, InvReady, InvUnsaved, Pending, NoneAccepted, Accepted, ToolZeroBegin, Tool,
     Invalidate, Writing, Invalid, Idle, driveVars
<1>5. InvStart' /\ InvPhase' /\ InvZero'
  BY DEF IInv, Ordered, TypeOK, MemoryTypeOK, DriveTypeOK, ProgramTypeOK, InvShaft,
     InvJob, InvReady, InvStart, InvPhase, InvZero, Pending, NoneAccepted, Accepted,
     ToolZeroBegin, Tool, Invalidate, Writing, Invalid, Idle, driveVars
<1>6. ASSUME ~astray'
     PROVE  TrueFile' /\ TrueJob' /\ TrueReference'
  BY <1>6 DEF IInv, Ordered, TypeOK, MemoryTypeOK, DriveTypeOK, ProgramTypeOK, InvShaft,
     InvJob, InvReady, InvUnsaved, Truthful, TrueFile, TrueJob, TrueReference, Protects,
     Accepted, Covers, Pending, ToolZeroBegin, Tool, Invalidate, Writing, Invalid, Idle,
     driveVars
<1>7. ASSUME ~astray'
     PROVE  TrueController' /\ TrueTool'
  BY <1>7 DEF IInv, Ordered, TypeOK, MemoryTypeOK, DriveTypeOK, ProgramTypeOK, InvJob,
     InvStart, InvPhase, InvZero, Truthful, TrueController, TrueTool, Reserves,
     Accepted, Pending, ToolZeroBegin, Tool, Invalidate, Writing, Invalid, Idle,
     driveVars
<1> QED BY <1>1, <1>2, <1>3, <1>4, <1>5, <1>6, <1>7 DEF IInv, Ordered, TypeOK, Truthful

\* From the durable invalidation on no record is accepted for this drive.
LEMMA ToolInvalidatedStep ==
  ASSUME IInv, ToolInvalidated
  PROVE  IInv'
<1>1. FlagsTypeOK'
  BY Zenon DEF IInv, Ordered, TypeOK, FlagsTypeOK, ToolInvalidated, Tool, Invalid,
     diskVars, driveVars
<1>2. MemoryTypeOK'
  BY NoJobType DEF IInv, Ordered, TypeOK, MemoryTypeOK, DriveTypeOK, ProgramTypeOK, Job,
     ToolInvalidated, Tool, Invalid, diskVars, driveVars
<1>3. DriveTypeOK' /\ ProgramTypeOK'
  BY DEF IInv, Ordered, TypeOK, MemoryTypeOK, DriveTypeOK, ProgramTypeOK,
     ToolInvalidated, Tool, Invalid, diskVars, driveVars
<1>4. InvShaft' /\ InvJob' /\ InvReady' /\ InvUnsaved'
  BY NoJobType DEF IInv, Ordered, TypeOK, MemoryTypeOK, DriveTypeOK, ProgramTypeOK,
     InvShaft, InvJob, InvReady, InvUnsaved, Pending, NoneAccepted, Accepted,
     ToolInvalidated, Tool, Invalid, diskVars, driveVars
<1>5. InvStart' /\ InvPhase' /\ InvZero'
  BY NoJobType DEF IInv, Ordered, TypeOK, MemoryTypeOK, DriveTypeOK, ProgramTypeOK,
     InvShaft, InvJob, InvReady, InvStart, InvPhase, InvZero, Pending, NoneAccepted,
     Accepted, ToolInvalidated, Tool, Invalid, diskVars, driveVars
<1>6. ASSUME ~astray'
     PROVE  TrueFile' /\ TrueJob' /\ TrueReference'
  BY <1>6, NoJobType DEF IInv, Ordered, TypeOK, MemoryTypeOK, DriveTypeOK,
     ProgramTypeOK, InvShaft, InvJob, InvReady, InvUnsaved, Truthful, TrueFile, TrueJob,
     TrueReference, Protects, Accepted, Covers, Pending, ToolInvalidated, Tool, Invalid,
     diskVars, driveVars
<1>7. ASSUME ~astray'
     PROVE  TrueController' /\ TrueTool'
  BY <1>7 DEF IInv, Ordered, TypeOK, MemoryTypeOK, DriveTypeOK, ProgramTypeOK, InvJob,
     InvStart, InvPhase, InvZero, Truthful, TrueController, TrueTool, Reserves,
     Accepted, Pending, ToolInvalidated, Tool, Invalid, diskVars, driveVars
<1> QED BY <1>1, <1>2, <1>3, <1>4, <1>5, <1>6, <1>7 DEF IInv, Ordered, TypeOK, Truthful

\* The control word moves the origin of the drive; until the EEPROM has it, a
\* power cut undoes it.
LEMMA ToolSetZeroStep ==
  ASSUME IInv, ToolSetZero
  PROVE  IInv'
<1>1. FlagsTypeOK'
  BY Zenon DEF IInv, Ordered, TypeOK, FlagsTypeOK, ToolSetZero, Tool, Raw, diskVars,
     memVars
<1>2. MemoryTypeOK'
  BY DEF IInv, Ordered, TypeOK, MemoryTypeOK, DriveTypeOK, ProgramTypeOK, Job,
     ToolSetZero, Tool, Raw, diskVars, memVars
<1>3. DriveTypeOK' /\ ProgramTypeOK'
  BY DEF IInv, Ordered, TypeOK, MemoryTypeOK, DriveTypeOK, ProgramTypeOK, ToolSetZero,
     Tool, Raw, diskVars, memVars
<1>4. InvShaft' /\ InvJob' /\ InvReady' /\ InvUnsaved'
  BY TolFacts DEF IInv, Ordered, TypeOK, MemoryTypeOK, DriveTypeOK, ProgramTypeOK,
     InvShaft, InvJob, InvReady, InvUnsaved, Pending, NoneAccepted, Accepted,
     ToolSetZero, Tool, Raw, diskVars, memVars, InvZero
<1>5. InvStart' /\ InvPhase' /\ InvZero'
  BY DEF IInv, Ordered, TypeOK, MemoryTypeOK, DriveTypeOK, ProgramTypeOK, InvShaft,
     InvJob, InvReady, InvStart, InvPhase, InvZero, Pending, NoneAccepted, Accepted,
     ToolSetZero, Tool, Raw, diskVars, memVars
<1>6. ASSUME ~astray'
     PROVE  TrueFile' /\ TrueJob' /\ TrueReference'
  BY <1>6 DEF IInv, Ordered, TypeOK, MemoryTypeOK, DriveTypeOK, ProgramTypeOK, InvShaft,
     InvJob, InvReady, InvUnsaved, Truthful, TrueFile, TrueJob, TrueReference, Protects,
     Accepted, Covers, Pending, ToolSetZero, Tool, Raw, diskVars, memVars, InvZero,
     NoneAccepted
<1>7. ASSUME ~astray'
     PROVE  TrueController' /\ TrueTool'
  BY <1>7 DEF IInv, Ordered, TypeOK, MemoryTypeOK, DriveTypeOK, ProgramTypeOK, InvJob,
     InvStart, InvPhase, InvZero, Truthful, TrueController, TrueTool, Reserves,
     Accepted, Pending, ToolSetZero, Tool, Raw, diskVars, memVars
<1> QED BY <1>1, <1>2, <1>3, <1>4, <1>5, <1>6, <1>7 DEF IInv, Ordered, TypeOK, Truthful

\* The EEPROM has the new origin.
LEMMA ToolSaveZeroStep ==
  ASSUME IInv, ToolSaveZero
  PROVE  IInv'
<1>1. FlagsTypeOK'
  BY Zenon DEF IInv, Ordered, TypeOK, FlagsTypeOK, ToolSaveZero, Tool, diskVars, memVars
<1>2. MemoryTypeOK'
  BY DEF IInv, Ordered, TypeOK, MemoryTypeOK, DriveTypeOK, ProgramTypeOK, Job,
     ToolSaveZero, Tool, diskVars, memVars
<1>3. DriveTypeOK' /\ ProgramTypeOK'
  BY DEF IInv, Ordered, TypeOK, MemoryTypeOK, DriveTypeOK, ProgramTypeOK, ToolSaveZero,
     Tool, diskVars, memVars
<1>4. InvShaft' /\ InvJob' /\ InvReady' /\ InvUnsaved'
  BY DEF IInv, Ordered, TypeOK, MemoryTypeOK, DriveTypeOK, ProgramTypeOK, InvShaft,
     InvJob, InvReady, InvUnsaved, Pending, NoneAccepted, Accepted, ToolSaveZero, Tool,
     diskVars, memVars
<1>5. InvStart' /\ InvPhase' /\ InvZero'
  BY DEF IInv, Ordered, TypeOK, MemoryTypeOK, DriveTypeOK, ProgramTypeOK, InvShaft,
     InvJob, InvReady, InvStart, InvPhase, InvZero, Pending, NoneAccepted, Accepted,
     ToolSaveZero, Tool, diskVars, memVars
<1>6. ASSUME ~astray'
     PROVE  TrueFile' /\ TrueJob' /\ TrueReference'
  BY <1>6 DEF IInv, Ordered, TypeOK, MemoryTypeOK, DriveTypeOK, ProgramTypeOK, InvShaft,
     InvJob, InvReady, InvUnsaved, Truthful, TrueFile, TrueJob, TrueReference, Protects,
     Accepted, Covers, Pending, ToolSaveZero, Tool, diskVars, memVars
<1>7. ASSUME ~astray'
     PROVE  TrueController' /\ TrueTool'
  BY <1>7 DEF IInv, Ordered, TypeOK, MemoryTypeOK, DriveTypeOK, ProgramTypeOK, InvJob,
     InvStart, InvPhase, InvZero, Truthful, TrueController, TrueTool, Reserves,
     Accepted, Pending, ToolSaveZero, Tool, diskVars, memVars
<1> QED BY <1>1, <1>2, <1>3, <1>4, <1>5, <1>6, <1>7 DEF IInv, Ordered, TypeOK, Truthful

\* The new reference is written from a shaft that stands still in the new
\* coordinate.
LEMMA ToolSetReferenceStep ==
  ASSUME IInv, ToolSetReference
  PROVE  IInv'
<1>1. CASE ~(Idle)
  BY <1>1, ThrowStep DEF ToolSetReference
<1>2. CASE Idle
  <2>1. FlagsTypeOK'
    BY Zenon, <1>2 DEF IInv, Ordered, TypeOK, FlagsTypeOK, ToolSetReference, Tool, Idle,
       SetReference, Writing, Raw, driveVars
  <2>2. MemoryTypeOK'
    BY <1>2, RecordType DEF IInv, Ordered, TypeOK, MemoryTypeOK, DriveTypeOK,
       ProgramTypeOK, Job, ToolSetReference, Tool, Idle, SetReference, Writing, Raw,
       driveVars
  <2>3. DriveTypeOK' /\ ProgramTypeOK'
    BY <1>2 DEF IInv, Ordered, TypeOK, MemoryTypeOK, DriveTypeOK, ProgramTypeOK,
       ToolSetReference, Tool, Idle, SetReference, Writing, Raw, driveVars
  <2>4. InvShaft' /\ InvJob' /\ InvReady' /\ InvUnsaved'
    BY <1>2 DEF IInv, Ordered, TypeOK, MemoryTypeOK, DriveTypeOK, ProgramTypeOK,
       InvShaft, InvJob, InvReady, InvUnsaved, Pending, NoneAccepted, Accepted,
       ToolSetReference, Tool, Idle, SetReference, Writing, Raw, driveVars, InvZero
  <2>5. InvStart' /\ InvPhase' /\ InvZero'
    BY <1>2 DEF IInv, Ordered, TypeOK, MemoryTypeOK, DriveTypeOK, ProgramTypeOK,
       InvShaft, InvJob, InvReady, InvStart, InvPhase, InvZero, Pending, NoneAccepted,
       Accepted, ToolSetReference, Tool, Idle, SetReference, Writing, Raw, driveVars
  <2>6. ASSUME ~astray'
       PROVE  TrueFile' /\ TrueJob' /\ TrueReference'
    BY <2>6, <1>2, TolFacts DEF IInv, Ordered, TypeOK, MemoryTypeOK, DriveTypeOK,
       ProgramTypeOK, InvShaft, InvJob, InvReady, InvUnsaved, Truthful, TrueFile,
       TrueJob, TrueReference, Protects, Accepted, Covers, Pending, ToolSetReference,
       Tool, Idle, SetReference, Writing, Raw, driveVars, InvZero, Interval,
       CheckWindow, Contains
  <2>7. ASSUME ~astray'
       PROVE  TrueController' /\ TrueTool'
    BY <2>7, <1>2 DEF IInv, Ordered, TypeOK, MemoryTypeOK, DriveTypeOK, ProgramTypeOK,
       InvJob, InvStart, InvPhase, InvZero, Truthful, TrueController, TrueTool,
       Reserves, Accepted, Pending, ToolSetReference, Tool, Idle, SetReference, Writing,
       Raw, driveVars
  <2> QED BY <2>1, <2>2, <2>3, <2>4, <2>5, <2>6, <2>7 DEF IInv, Ordered, TypeOK, Truthful
<1> QED BY <1>1, <1>2

\* The new reference is durable, and trusted; the tool holds where it is.
LEMMA ToolReferencedStep ==
  ASSUME IInv, ToolReferenced
  PROVE  IInv'
<1>1. FlagsTypeOK'
  BY Zenon DEF IInv, Ordered, TypeOK, FlagsTypeOK, ToolReferenced, Tool, Hold,
     ReferenceSet, Raw
<1>2. MemoryTypeOK'
  BY NoJobType DEF IInv, Ordered, TypeOK, MemoryTypeOK, DriveTypeOK, ProgramTypeOK, Job,
     ToolReferenced, Tool, Hold, ReferenceSet, Raw
<1>3. DriveTypeOK' /\ ProgramTypeOK'
  BY DEF IInv, Ordered, TypeOK, MemoryTypeOK, DriveTypeOK, ProgramTypeOK,
     ToolReferenced, Tool, Hold, ReferenceSet, Raw
<1>4. InvShaft' /\ InvJob' /\ InvReady' /\ InvUnsaved'
  BY NoJobType DEF IInv, Ordered, TypeOK, MemoryTypeOK, DriveTypeOK, ProgramTypeOK,
     InvShaft, InvJob, InvReady, InvUnsaved, Pending, NoneAccepted, Accepted,
     ToolReferenced, Tool, Hold, ReferenceSet, Raw, InvZero, Invalid
<1>5. InvStart' /\ InvPhase' /\ InvZero'
  BY NoJobType DEF IInv, Ordered, TypeOK, MemoryTypeOK, DriveTypeOK, ProgramTypeOK,
     InvShaft, InvJob, InvReady, InvStart, InvPhase, InvZero, Pending, NoneAccepted,
     Accepted, ToolReferenced, Tool, Hold, ReferenceSet, Raw
<1>6. ASSUME ~astray'
     PROVE  TrueFile' /\ TrueJob' /\ TrueReference'
  BY <1>6, NoJobType DEF IInv, Ordered, TypeOK, MemoryTypeOK, DriveTypeOK,
     ProgramTypeOK, InvShaft, InvJob, InvReady, InvUnsaved, Truthful, TrueFile, TrueJob,
     TrueReference, Protects, Accepted, Covers, Pending, ToolReferenced, Tool, Hold,
     ReferenceSet, Raw, InvZero, NoneAccepted
<1>7. ASSUME ~astray'
     PROVE  TrueController' /\ TrueTool'
  BY <1>7 DEF IInv, Ordered, TypeOK, MemoryTypeOK, DriveTypeOK, ProgramTypeOK, InvJob,
     InvStart, InvPhase, InvZero, Truthful, TrueController, TrueTool, Reserves,
     Accepted, Pending, ToolReferenced, Tool, Hold, ReferenceSet, Raw
<1> QED BY <1>1, <1>2, <1>3, <1>4, <1>5, <1>6, <1>7 DEF IInv, Ordered, TypeOK, Truthful

-----------------------------------------------------------------------------
(* The invariant and what follows from it                                  *)

\* A car that is first seen: a record of its drive that tells the truth, or
\* none.
LEMMA InitIInv == ASSUME Init PROVE IInv
<1>1. FlagsTypeOK
  BY Zenon DEF Init, FlagsTypeOK
<1>2. shaft \in Int /\ id \in Bindings /\ disk \in Record /\ disk \in survivors
  BY RecordType, AxisAssumption DEF Init
<1>3. MemoryTypeOK
  BY <1>2, NoJobType DEF Init, MemoryTypeOK
<1>4. DriveTypeOK /\ ProgramTypeOK
  BY AxisAssumption DEF Init, DriveTypeOK, ProgramTypeOK
<1>5. InvShaft
  BY TolFacts, NoJobType DEF Init, InvShaft, Pending
<1>6. InvJob /\ InvReady /\ InvUnsaved /\ InvStart /\ InvPhase /\ InvZero
  BY NoJobType DEF Init, InvJob, InvReady, InvUnsaved, InvStart, InvPhase, InvZero, Pending
<1>7. TrueFile
  BY <1>2, TolFacts DEF Init, TrueFile, Protects, Accepted, Covers, CheckWindow, Contains,
     Interval, Invalid
<1>8. TrueJob /\ TrueReference /\ TrueController /\ TrueTool
  BY NoJobType DEF Init, TrueJob, TrueReference, TrueController, TrueTool, Pending
<1> QED BY <1>1, <1>3, <1>4, <1>5, <1>6, <1>7, <1>8 DEF IInv, Ordered, TypeOK, Truthful

\* A step that changes nothing keeps the invariant.
LEMMA StutterStep == ASSUME IInv, UNCHANGED vars PROVE IInv'
<1>1. Ordered'
  BY DEF vars, diskVars, memVars, driveVars, progVars, IInv, Ordered, TypeOK, FlagsTypeOK,
     MemoryTypeOK, DriveTypeOK, ProgramTypeOK, InvShaft, InvJob, InvReady, InvUnsaved,
     InvStart, InvPhase, InvZero, NoneAccepted, Accepted, Pending
<1>2. Truthful'
  BY DEF vars, diskVars, memVars, driveVars, progVars, IInv, Truthful, TrueFile, TrueJob,
     TrueReference, TrueController, TrueTool, Protects, Accepted, Covers, Reserves, Pending
<1> QED BY <1>1, <1>2 DEF IInv

\* A failed poll() leaves the memory well typed.
LEMMA PollFailureFacts ==
  ASSUME IInv, PollFailure
  PROVE  /\ MemoryTypeOK' /\ UNCHANGED <<diskVars, ready, offset>> /\ job' \in {job, NoJob}
         /\ writeError' \in BOOLEAN
<1>1. MemoryTypeOK' /\ UNCHANGED <<diskVars, ready, offset>> /\ job' \in {job, NoJob}
  BY NoJobType DEF IInv, Ordered, TypeOK, MemoryTypeOK, PollFailure, diskVars
<1>2. writeError' \in BOOLEAN
  BY Zenon DEF PollFailure
<1> QED BY <1>1, <1>2

\* Every step of the system keeps the invariant.
LEMMA NextStep == ASSUME IInv, Next PROVE IInv'
<1>1. CASE Machine
  BY <1>1, MoveShaftStep, SettleStep, BusWatchdogStep DEF Machine
<1>2. CASE Writer
  BY <1>2, WriterRenameStep, WriterSyncStep, WriterFailStep DEF Writer
<1>3. CASE ControllerRuns
  <2>1. CASE Update
    <3>1. CASE UpdatePollFails
      BY <3>1, PollFailureFacts, LeaveStep DEF UpdatePollFails
    <3> QED BY <2>1, <3>1, UpdateFeedbackStep, AdvanceNothingStep, AdvanceIdleStep,
               AdvanceQueuedStep, AdvanceStagingStep, AdvanceTriggeringStep,
               AdvanceAcknowledgingStep DEF Update
  <2> QED BY <1>3, <2>1, ControllerRestoreStep, ControllerEnableStep, ControllerHoldStep,
             ControllerHaltsStep, JogStep DEF ControllerRuns
<1>4. CASE ToolRuns
  <2>1. CASE ToolRefuses
    BY <2>1, ThrowStep DEF ToolRefuses
  <2>2. CASE ToolMonitor
    BY <2>2, ThrowStep, StutterStep DEF ToolMonitor
  <2>3. CASE ToolPollFails
    BY <2>3, PollFailureFacts, LeaveStep DEF ToolPollFails
  <2>4. CASE ToolWriteFails
    <3>1. MemoryTypeOK' /\ UNCHANGED <<diskVars, ready, offset, writeError>> /\ job' = NoJob
      BY <2>4, NoJobType DEF IInv, Ordered, TypeOK, MemoryTypeOK, ToolWriteFails, diskVars
    <3>2. writeError' \in BOOLEAN
      BY Zenon, <3>1 DEF IInv, Ordered, TypeOK, FlagsTypeOK
    <3> QED BY <2>4, <3>1, <3>2, LeaveStep DEF ToolWriteFails
  <2> QED BY <1>4, <2>1, <2>2, <2>3, <2>4, ToolRestoreStep, ToolHoldStep,
             ToolStepCommandStep, ToolReserveStep, ToolPollStep, ToolMoveStep,
             ToolReachedStep, ToolZeroBeginStep, ToolInvalidatedStep, ToolSetZeroStep,
             ToolSaveZeroStep, ToolSetReferenceStep, ToolReferencedStep DEF ToolRuns
<1>5. CASE Lifecycle
  <2>1. CASE DriveFault \/ Shutdown
    BY <2>1, ThrowStep DEF DriveFault, Shutdown
  <2> QED BY <1>5, <2>1, StartStep, ExitStep, CrashStep, PowerCutStep, ReplaceMotorStep
             DEF Lifecycle
<1> QED BY <1>1, <1>2, <1>3, <1>4, <1>5 DEF Next

\* The invariant holds in every reachable state, for every scale, step, slack
\* and set of bindings the assumptions allow, the unreserved holds of both
\* programs included.
THEOREM Invariance == Spec => []IInv
<1>1. IInv /\ [Next]_vars => IInv'
  BY NextStep, StutterStep
<1> QED BY PTL, InitIInv, <1>1 DEF Spec

\* Every reachable state is well typed.
THEOREM TypeCorrect == Spec => []TypeOK
  BY Invariance, PTL DEF IInv, Ordered

\* Whatever crashes, power cuts and failed writes leave in the file locates
\* the shaft if restore() would accept it, until an unreserved hold has let the
\* shaft come to rest outside such a record (position_memory.cpp:335).
THEOREM FileAlwaysTrue == Spec => []FileTellsTheTruth
<1>1. IInv => FileTellsTheTruth
  BY DEF IInv, Truthful, TrueFile, Protects, FileTellsTheTruth
<1> QED BY Invariance, <1>1, PTL

\* The position a program trusts is the accumulated position of the shaft,
\* with the same exception (position_memory.cpp:310).
THEOREM TrustAlwaysTrue == Spec => []TrustedIsTrue
<1>1. IInv => TrustedIsTrue
  BY DEF IInv, Ordered, TypeOK, DriveTypeOK, Truthful, TrueReference, TrustedIsTrue,
     Logical, Raw
<1> QED BY Invariance, <1>1, PTL

-----------------------------------------------------------------------------
(* Action properties                                                       *)

\* Five steps set a drive in motion: the two that pass mark_target(), and the
\* three that command it to hold.
LEMMA TriggeredBy ==
  ASSUME IInv, Next, Triggered
  PROVE  \/ AdvanceTriggering /\ MayMark(target)
         \/ ToolMove /\ Monitored /\ MayMark(target)
         \/ ControllerHold
         \/ ToolHold /\ (ready => Live(Raw))
         \/ ToolReferenced
<1>1. ASSUME NEW why \in {"none", "outside", "inside"}, Leave(why) PROVE FALSE
  BY <1>1 DEF Triggered, Leave, SupplyOff, SupplyKept, Halted
<1>2. ~Machine
  BY DEF Triggered, Machine, MoveShaft, Settle, BusWatchdog
<1>3. ~Writer
  BY DEF Triggered, Writer, driveVars
<1>4. ~Lifecycle
  BY <1>1 DEF Triggered, Lifecycle, Start, Exit, Crash, PowerCut, ReplaceMotor,
     DriveFault, Shutdown, Throw, SupplyOff, Halted, driveVars
<1>5. CASE ControllerRuns
  <2>1. /\ ~ControllerRestore /\ ~ControllerEnable /\ ~ControllerHalts
        /\ ~UpdateFeedback /\ ~UpdatePollFails
        /\ ~(\E d \in {-1, 0, 1} : Jog(d))
    BY <1>1 DEF Triggered, ControllerRestore, ControllerEnable, ControllerHalts,
       UpdateFeedback, UpdatePollFails, Jog, Throw, HaltFourthAxis, Halted, driveVars
  <2>2. /\ ~AdvanceNothing /\ ~AdvanceIdle /\ ~AdvanceQueued
        /\ ~AdvanceStaging /\ ~AdvanceAcknowledging
    BY <1>1 DEF Triggered, AdvanceNothing, AdvanceIdle, AdvanceQueued, AdvanceStaging,
       AdvanceAcknowledging, Throw, driveVars
  <2>3. AdvanceTriggering \/ ControllerHold
    BY <1>5, <2>1, <2>2 DEF ControllerRuns, Update
  <2> QED BY <1>1, <2>3 DEF AdvanceTriggering, Throw
<1>6. CASE ToolRuns
  <2>1. ~ToolMonitor
    BY <1>1 DEF Triggered, ToolMonitor, Throw, vars, driveVars
  <2>2. ~ToolSetZero
    BY DEF Triggered, ToolSetZero, IInv, Ordered, InvZero, Tool
  <2>3. ToolMove \/ ToolHold \/ ToolReferenced
    BY <1>1, <1>6, <2>1, <2>2 DEF Triggered, ToolRuns, ToolRestore, ToolRefuses,
       ToolStepCommand, ToolReserve, ToolPoll, ToolPollFails, ToolReached,
       ToolZeroBegin, ToolInvalidated, ToolWriteFails, ToolSaveZero,
       ToolSetReference, Throw, driveVars
  <2> QED BY <1>1, <2>3 DEF ToolMove, ToolHold, Throw
<1> QED BY <1>2, <1>3, <1>4, <1>5, <1>6 DEF Next

\* A marked trigger goes to the reserved target, by a program that knows where
\* the axis is.
LEMMA MarkedTrigger ==
  ASSUME IInv, ~astray, MayMark(target), AdvanceTriggering \/ (ToolMove /\ Monitored)
  PROVE  /\ target \in Int /\ goal' = target /\ lastTriggered' = target /\ motion' = "run"
         /\ survivors = {committed} /\ Reserves(committed)
         /\ UNCHANGED <<id, shaft, frame, offset, ready, survivors, astray, prog, dir>>
         /\ ready
         /\ \/ Controller("advance") /\ dir # 0 /\ phase = "triggering"
            \/ Tool("triggering")
         /\ pc' # "hold"
<1>1. /\ ready /\ goal' = RawTarget(target) + frame
      /\ lastTriggered' = target /\ motion' = "run" /\ pc' # "hold"
      /\ UNCHANGED <<id, shaft, frame, offset, ready, survivors, astray, prog, dir>>
      /\ \/ Controller("advance") /\ dir # 0 /\ phase = "triggering"
         \/ Tool("triggering")
  <2>1. CASE AdvanceTriggering
    BY <2>1 DEF AdvanceTriggering, MayAdvance, Advanced, MayMark, MayTarget, Trusted, Controller,
       diskVars
  <2>2. CASE ToolMove /\ Monitored
    BY <2>2 DEF ToolMove, MayMark, MayTarget, Trusted, Tool, diskVars
  <2> QED BY <2>1, <2>2
<1>2. survivors = {committed} /\ Reserves(committed)
  BY <1>1 DEF IInv, Ordered, InvPhase, InvZero, Truthful, TrueController, TrueTool,
     Controller, Tool
<1> QED BY <1>1, <1>2, TriggerGoal DEF Reserves

\* The start holds the axis at the reading, which every accepted record contains.
LEMMA StartTrigger ==
  ASSUME IInv, ~astray, ControllerHold
  PROVE  /\ pos \in Int /\ goal' = pos /\ motion' = "hold" /\ motion \in {"still", "halt"}
         /\ dir = 0 /\ ready
         /\ \A rec \in survivors : Accepted(rec) => Contains(rec, pos)
<1>1. Controller("hold") /\ goal' = RawTarget(pos) + frame /\ motion' = "hold"
  BY DEF ControllerHold
<1>2. ready /\ dir = 0 /\ motion \in {"still", "halt"}
  BY <1>1 DEF IInv, Ordered, InvReady, InvStart, Controller
<1>3. offset = frame /\ pos \in Int /\ frame \in Int
  BY <1>2 DEF IInv, Ordered, TypeOK, DriveTypeOK, ProgramTypeOK, Truthful, TrueReference
<1> QED BY <1>1, <1>2, <1>3 DEF IInv, Truthful, TrueController, Controller, RawTarget

\* The tool holds the axis where it is.
LEMMA HoldTrigger ==
  ASSUME IInv, (ToolHold /\ (ready => Live(Raw))) \/ ToolReferenced
  PROVE  /\ goal' = shaft /\ motion' = "hold" /\ prog = "tool"
         /\ UNCHANGED <<id, shaft, frame, survivors, astray, prog>>
         /\ pc' # "hold"
<1>1. CASE ToolHold /\ (ready => Live(Raw))
  BY <1>1 DEF ToolHold, Hold, Tool, diskVars, memVars
<1>2. CASE ToolReferenced
  BY <1>2 DEF ToolReferenced, ReferenceSet, Hold, Tool, Raw, IInv, Ordered, TypeOK, DriveTypeOK,
     InvZero
<1> QED BY <1>1, <1>2

\* A drive is triggered to a reserved and marked set-point, or to a place in
\* every record restore() would accept (control.cpp:180, 615;
\* arm_yiyou_control.cpp:331, 397).
THEOREM TriggersReserved == Spec => TriggerIsReserved
<1> DEFINE Reserved ==
      \/ /\ motion' = "run" /\ lastTriggered' = goal' /\ ready
         /\ \A rec \in survivors' :
               Accepted(rec) /\ rec.lower + Tol <= goal' /\ goal' <= rec.upper - Tol
      \/ /\ motion' = "hold"
         /\ \A rec \in survivors' : Accepted(rec) => Contains(rec, goal')
<1>1. ASSUME IInv, Next, Triggered, ~astray PROVE Reserved
  <2>1. CASE MayMark(target) /\ (AdvanceTriggering \/ (ToolMove /\ Monitored))
    <3>1. /\ goal' = target /\ lastTriggered' = target /\ motion' = "run" /\ ready
          /\ survivors' = {committed} /\ Reserves(committed)
      BY <1>1, <2>1, MarkedTrigger
    <3> QED BY <3>1 DEF Reserves
  <2>2. CASE ControllerHold
    <3>1. survivors' = survivors
      BY <2>2 DEF ControllerHold, diskVars
    <3> QED BY <1>1, <2>2, <3>1, StartTrigger
  <2>3. CASE (ToolHold /\ (ready => Live(Raw))) \/ ToolReferenced
    <3>1. goal' = shaft /\ motion' = "hold" /\ survivors' = survivors
      BY <1>1, <2>3, HoldTrigger
    <3> QED BY <1>1, <3>1 DEF IInv, Truthful, TrueFile, Protects, Covers
  <2> QED BY <1>1, <2>1, <2>2, <2>3, TriggeredBy
<1>2. IInv /\ [Next]_vars => [Triggered /\ ~astray => Reserved]_vars
  BY <1>1
<1> QED BY PTL, Invariance, <1>2 DEF Spec, TriggerIsReserved

\* The update loop never triggers a shaft that is being stopped
\* (control.cpp:573).
THEOREM ReversalsWait == Spec => ReversalWaits
<1>1. ASSUME IInv, Next, Triggered, prog = "controller", motion # "still", pc = "advance"
      PROVE  motion = "run"
  <2>1. AdvanceTriggering
    BY <1>1, TriggeredBy DEF ToolMove, ToolHold, ToolReferenced, ControllerHold, Tool, Controller
  <2> QED BY <1>1, <2>1 DEF AdvanceTriggering, MayAdvance, Controller, IInv, Ordered, InvPhase
<1>2. IInv /\ [Next]_vars =>
        [Triggered /\ prog = "controller" /\ motion # "still" /\ pc = "advance" =>
            motion = "run"]_vars
  BY <1>1
<1> QED BY PTL, Invariance, <1>2 DEF Spec, ReversalWaits

-----------------------------------------------------------------------------
(* The implementation of TurnReference                                     *)

\* A shaft leaves the record, or is given a new reference, in these steps only.
LEMMA AstrayChanges ==
  ASSUME IInv, Next
  PROVE  /\ ~astray /\ astray' => Settle /\ motion = "hold"
         /\ astray /\ ~astray' => ToolSetZero \/ ReplaceMotor
<1>1. ASSUME NEW why \in {"none", "outside", "inside"}, Leave(why) PROVE UNCHANGED astray
  BY <1>1 DEF Leave
<1>2. CASE Machine
  <2>1. CASE MoveShaft \/ BusWatchdog
    BY <2>1 DEF MoveShaft, BusWatchdog
  <2>2. CASE Settle
    BY <2>2 DEF Settle
  <2> QED BY <1>2, <2>1, <2>2 DEF Machine
<1>3. CASE Writer
  BY <1>3 DEF Writer, driveVars
<1>4. CASE ControllerRuns
  BY <1>1, <1>4 DEF ControllerRuns, Update, ControllerRestore, ControllerEnable,
     ControllerHold, ControllerHalts, Jog, UpdateFeedback, UpdatePollFails, AdvanceNothing,
     AdvanceIdle, AdvanceQueued, AdvanceStaging, AdvanceTriggering, AdvanceAcknowledging,
     Throw, driveVars
<1>5. CASE ToolRuns
  <2>1. CASE ~ToolSetZero
    BY <1>1, <1>5, <2>1 DEF ToolRuns, ToolRestore, ToolRefuses, ToolHold, ToolMonitor,
       ToolStepCommand, ToolReserve, ToolPoll, ToolPollFails, ToolMove, ToolReached,
       ToolZeroBegin, ToolInvalidated, ToolWriteFails, ToolSaveZero, ToolSetReference,
       ToolReferenced, Throw, vars, driveVars
  <2>2. CASE ToolSetZero
    BY <2>2 DEF ToolSetZero
  <2> QED BY <2>1, <2>2
<1>6. CASE Lifecycle
  <2>1. CASE ~ReplaceMotor
    BY <1>1, <1>6, <2>1 DEF Lifecycle, Start, Exit, Crash, PowerCut, DriveFault, Shutdown, Throw,
       driveVars
  <2>2. CASE ReplaceMotor
    BY <2>2 DEF ReplaceMotor
  <2> QED BY <2>1, <2>2
<1> QED BY <1>2, <1>3, <1>4, <1>5, <1>6 DEF Next

\* Trust is gained and lost only by steps that leave the shaft alone.
LEMMA TrustChanges ==
  ASSUME IInv, Next
  PROVE  /\ ready /\ ~ready' => shaft' = shaft
         /\ ~ready /\ ready' =>
              \/ /\ ControllerRestore \/ ToolRestore
                 /\ UNCHANGED <<shaft, motion, goal>> /\ pc = "boot" /\ pc' # "hold"
              \/ ToolReferenced
<1> DEFINE Goal == /\ ready /\ ~ready' => shaft' = shaft
                   /\ ~ready /\ ready' =>
                        \/ /\ ControllerRestore \/ ToolRestore
                           /\ UNCHANGED <<shaft, motion, goal>> /\ pc = "boot" /\ pc' # "hold"
                        \/ ToolReferenced
<1>1. ASSUME UNCHANGED ready PROVE Goal
  BY <1>1
<1>2. ASSUME NEW why \in {"none", "outside", "inside"}, Throw(why) PROVE UNCHANGED ready
  BY <1>2 DEF Throw, memVars
<1>3. CASE Machine \/ Writer
  BY <1>1, <1>3 DEF Machine, MoveShaft, Settle, BusWatchdog, Writer, WriterRename,
     WriterSync, WriterFail, memVars
<1>4. CASE ControllerRuns
  <2>1. CASE ControllerRestore
    BY <1>2, <2>1 DEF ControllerRestore, Controller, driveVars
  <2>2. CASE ~ControllerRestore
    BY <1>2, <1>4, <2>2 DEF ControllerRuns, Update, ControllerEnable, ControllerHold,
       ControllerHalts, UpdateFeedback, Poll, UpdatePollFails, PollFailure, Jog, AdvanceNothing,
       AdvanceIdle, QueueTarget, AdvanceQueued, AdvanceStaging, AdvanceTriggering,
       AdvanceAcknowledging, memVars
  <2> QED BY <2>1, <2>2
<1>5. CASE ToolRuns
  <2>1. CASE ToolRestore \/ ToolZeroBegin \/ ToolSetReference
    BY <1>1, <1>2, <2>1 DEF ToolRestore, Restore, Tool,
       ToolZeroBegin, Invalidate, ToolSetReference, SetReference, driveVars, memVars
  <2>2. CASE ~(ToolRestore \/ ToolReferenced \/ ToolZeroBegin \/ ToolSetReference)
    BY <1>2, <1>5, <2>2 DEF ToolRuns, ToolRefuses, ToolHold, ToolMonitor, vars,
       ToolStepCommand, ToolReserve, QueueTarget, ToolPoll, Poll, ToolPollFails, PollFailure,
       ToolMove, ToolReached, ToolInvalidated, ToolWriteFails, ToolSetZero, ToolSaveZero,
       memVars
  <2>3. CASE ToolReferenced
    BY <2>3 DEF ToolReferenced, ReferenceSet, IInv, Ordered, InvZero, Tool
  <2> QED BY <2>1, <2>2, <2>3
<1>6. CASE Lifecycle
  <2>1. CASE Exit \/ Crash
    BY <2>1 DEF Exit, Crash, Forget, driveVars
  <2>2. CASE PowerCut
    BY <2>2 DEF IInv, Ordered, TypeOK, DriveTypeOK, InvReady, PowerCut, Forget, SupplyOff
  <2>3. CASE \/ DriveFault \/ Shutdown \/ ReplaceMotor
             \/ \E program \in {"controller", "tool"} : Start(program)
    BY <1>2, <2>3 DEF DriveFault, Shutdown, ReplaceMotor, Start, memVars
  <2> QED BY <1>6, <2>1, <2>2, <2>3 DEF Lifecycle
<1> QED BY <1>3, <1>4, <1>5, <1>6 DEF Next

\* A controller comes to the point where it has just read the axis only by the
\* second reading of its start.
LEMMA SeenBy ==
  ASSUME IInv, Next, prog' = "controller", pc' = "hold"
  PROVE  \/ UNCHANGED progVars
         \/ ControllerEnable /\ Live(Raw) /\ pos' = Logical(Raw) /\ motion' = Halted
            /\ UNCHANGED <<shaft, ready, offset, frame>>
<1>1. ASSUME NEW why \in {"none", "outside", "inside"} PROVE ~Leave(why) /\ ~Throw(why)
  BY DEF Leave, Throw
<1>2. CASE Machine
  BY <1>2 DEF Machine, MoveShaft, Settle, BusWatchdog
<1>3. CASE Writer
  BY <1>3 DEF Writer
<1>4. CASE ControllerRuns
  BY <1>1, <1>4 DEF ControllerRuns, Update, ControllerRestore, ControllerEnable,
     ControllerHold, ControllerHalts, Jog, UpdateFeedback, UpdatePollFails, AdvanceNothing,
     AdvanceIdle, AdvanceQueued, AdvanceStaging, AdvanceTriggering, AdvanceAcknowledging,
     Controller, Advanced, memVars
<1>5. CASE ToolRuns
  BY <1>1, <1>5 DEF ToolRuns, ToolRestore, ToolRefuses, ToolHold, ToolMonitor,
     ToolStepCommand, ToolReserve, ToolPoll, ToolPollFails, ToolMove, ToolReached,
     ToolZeroBegin, ToolInvalidated, ToolWriteFails, ToolSetZero, ToolSaveZero,
     ToolSetReference, ToolReferenced, Tool, vars, progVars
<1>6. CASE Lifecycle
  BY <1>1, <1>6 DEF Lifecycle, Start, Exit, Crash, PowerCut, ReplaceMotor, DriveFault, Shutdown
<1> QED BY <1>2, <1>3, <1>4, <1>5, <1>6 DEF Next

\* The refinement mapping.
Known == IF ready THEN Logical(Raw) ELSE NoReading
Seen  == IF Controller("hold") THEN pos ELSE NoReading
Sent  == IF motion = "run" THEN goal ELSE NoReading
Kept  == IF motion = "hold" THEN goal ELSE NoReading

\* Every step of the system is a step of TurnReference or leaves its variables
\* unchanged.
LEMMA RefinementStep ==
  ASSUME IInv, IInv', Next
  PROVE  [Reference!TRNext]_<<shaft, Known, Seen, Sent, Kept, astray>>
<1>1. /\ shaft \in Int /\ shaft' \in Int /\ goal \in Int /\ goal' \in Int
      /\ NoReading \notin Int /\ astray \in BOOLEAN /\ astray' \in BOOLEAN
  <2>1. astray \in BOOLEAN /\ astray' \in BOOLEAN
    BY Zenon DEF IInv, Ordered, TypeOK, FlagsTypeOK
  <2> QED BY <2>1, AxisAssumption DEF IInv, Ordered, TypeOK, DriveTypeOK, NoReading
<1>2. /\ ~astray => Known = IF ready THEN shaft ELSE NoReading
      /\ ~astray' => Known' = IF ready' THEN shaft' ELSE NoReading
  BY DEF IInv, Ordered, TypeOK, DriveTypeOK, Truthful, TrueReference, Logical, Raw, Known
<1>3. CASE astray /\ astray'
  BY <1>3 DEF Reference!TRNext, Reference!Anything
<1>4. CASE ToolSetZero \/ ReplaceMotor
  <2>1. /\ ~ready /\ UNCHANGED ready /\ astray' = FALSE
        /\ motion = "still" /\ motion' = "still"
    BY <1>4 DEF ToolSetZero, ReplaceMotor, IInv, Ordered, InvZero, InvReady, Tool, memVars
  <2>2. ~Controller("hold") /\ ~Controller("hold")'
    BY <1>4 DEF ToolSetZero, ReplaceMotor, Tool, Controller, progVars
  <2>3. Known = NoReading /\ Known' = NoReading
    BY <2>1 DEF Known
  <2>4. /\ Seen = NoReading /\ Seen' = NoReading /\ Sent = NoReading /\ Sent' = NoReading
        /\ Kept = NoReading /\ Kept' = NoReading
    BY <2>1, <2>2 DEF Seen, Sent, Kept
  <2>5. Reference!Renew
    BY <1>1, <2>1, <2>3, <2>4 DEF Reference!Renew, Known, Seen, Sent, Kept
  <2> QED BY <2>5 DEF Reference!TRNext
<1>5. CASE ~astray /\ astray'
  <2>1. Settle /\ motion = "hold"
    BY <1>5, AstrayChanges
  <2>2. motion' = "still" /\ UNCHANGED <<ready, offset, frame, prog, pc, pos>>
    BY <2>1 DEF Settle, memVars, progVars
  <2>3. Known' = IF ready THEN shaft' ELSE NoReading
    BY <1>1, <1>5, <2>2 DEF IInv, Ordered, TypeOK, DriveTypeOK, Truthful, TrueReference, Known,
       Logical, Raw
  <2>4. Sent = NoReading /\ Sent' = NoReading /\ Kept = goal /\ Kept' = NoReading /\ Seen' = Seen
    BY <2>1, <2>2 DEF Sent, Kept, Seen, Controller
  <2>5. Known = NoReading <=> ~ready
    BY <1>1, <1>2, <1>5
  <2>6. Reference!Stray
    BY <1>1, <1>5, <2>3, <2>4, <2>5 DEF Reference!Stray, Known, Sent, Kept, Seen
  <2> QED BY <2>6 DEF Reference!TRNext
<1>6. CASE /\ ~astray /\ ~astray' /\ Triggered
  <2>1. CASE MayMark(target) /\ (AdvanceTriggering \/ (ToolMove /\ Monitored))
    <3>1. /\ motion' = "run" /\ UNCHANGED <<shaft, ready, astray>> /\ ready /\ pc' # "hold"
          /\ pc # "hold"
      BY <1>6, <2>1, MarkedTrigger DEF Controller, Tool
    <3>2. Sent' = goal' /\ Kept' = NoReading /\ Seen' = NoReading /\ Seen = NoReading
      BY <3>1 DEF Sent, Kept, Seen, Controller
    <3>3. Known = shaft /\ Known' = shaft
      BY <1>2, <1>6, <3>1
    <3>4. Reference!Send
      BY <1>1, <3>1, <3>2, <3>3 DEF Reference!Send, Known, Sent, Kept, Seen
    <3> QED BY <3>4 DEF Reference!TRNext
  <2>2. CASE ControllerHold
    <3>1. /\ goal' = pos /\ motion' = "hold" /\ ready /\ pos \in Int
          /\ UNCHANGED <<shaft, ready, astray>> /\ pc' # "hold" /\ Controller("hold")
      BY <1>6, <2>2, StartTrigger DEF ControllerHold, memVars
    <3>2. Kept' = pos /\ Sent' = NoReading /\ Seen = pos /\ Seen' = NoReading
      BY <3>1 DEF Sent, Kept, Seen, Controller
    <3>3. Known = shaft /\ Known' = shaft
      BY <1>2, <1>6, <3>1
    <3>4. Reference!Hold
      BY <1>1, <3>1, <3>2, <3>3 DEF Reference!Hold, Known, Sent, Kept, Seen
    <3> QED BY <3>4 DEF Reference!TRNext
  <2>3. CASE (ToolHold /\ (ready => Live(Raw))) \/ ToolReferenced
    <3>1. /\ goal' = shaft /\ motion' = "hold" /\ UNCHANGED <<shaft, astray>> /\ pc' # "hold"
      BY <2>3, HoldTrigger
    <3>2. Kept' = shaft /\ Sent' = NoReading /\ Seen' = NoReading
      BY <3>1 DEF Sent, Kept, Seen, Controller
    <3>3. UNCHANGED ready \/ ready'
      BY <2>3 DEF ToolHold, ToolReferenced, ReferenceSet, memVars
    <3>4. Known' \in {Known, shaft}
      BY <1>1, <1>2, <1>6, <3>1, <3>3
    <3>5. Reference!Hold
      BY <1>1, <3>1, <3>2, <3>4 DEF Reference!Hold, Known, Sent, Kept, Seen
    <3> QED BY <3>5 DEF Reference!TRNext
  <2> QED BY <1>6, <2>1, <2>2, <2>3, TriggeredBy
<1>7. CASE ~astray /\ ~astray' /\ ~Triggered
  <2>1. Sent' \in {Sent, NoReading} /\ Kept' \in {Kept, NoReading}
    BY <1>7 DEF Triggered, Sent, Kept
  <2>2. CASE ~(Controller("hold")' /\ ~UNCHANGED progVars)
    <3>1. Seen' \in {Seen, NoReading}
      BY <2>2 DEF Seen, Controller, progVars
    <3>2. CASE ready <=> ready'
      <4>1. Known' = IF Known = NoReading THEN NoReading ELSE shaft'
        BY <1>1, <1>2, <1>7, <3>2
      <4>2. Reference!Turn
        BY <1>1, <1>7, <2>1, <3>1, <4>1 DEF Reference!Turn, Known, Sent, Kept, Seen
      <4> QED BY <4>2 DEF Reference!TRNext
    <3>3. CASE ready /\ ~ready'
      <4>1. shaft' = shaft /\ Known' = NoReading
        BY <1>2, <1>7, <3>3, TrustChanges
      <4>2. Seen' = NoReading
        BY <3>3 DEF IInv, Ordered, InvReady, Seen, Controller
      <4>3. Reference!Lose
        BY <1>1, <1>7, <2>1, <4>1, <4>2 DEF Reference!Lose, Known, Sent, Kept, Seen
      <4> QED BY <4>3 DEF Reference!TRNext
    <3>4. CASE ~ready /\ ready'
      <4>1. ~ToolReferenced
        BY <1>7 DEF Triggered, ToolReferenced, Hold, Tool, IInv, Ordered, InvZero
      <4>2. UNCHANGED <<shaft, motion, goal>> /\ pc' # "hold" /\ pc = "boot"
        BY <3>4, <4>1, TrustChanges
      <4>3. Known = NoReading /\ Known' = shaft
        BY <1>2, <1>7, <3>4, <4>2
      <4>4. Sent' = Sent /\ Kept' = Kept /\ Seen' = Seen
        BY <4>2 DEF Sent, Kept, Seen, Controller
      <4>5. Reference!Learn
        BY <1>1, <1>7, <4>2, <4>3, <4>4 DEF Reference!Learn, Known, Sent, Kept, Seen
      <4> QED BY <4>5 DEF Reference!TRNext
    <3>5. ready \in BOOLEAN /\ ready' \in BOOLEAN
      BY Zenon DEF IInv, Ordered, TypeOK, FlagsTypeOK
    <3> QED BY <3>2, <3>3, <3>4, <3>5
  <2>3. CASE Controller("hold")' /\ ~UNCHANGED progVars
    <3>1. /\ Live(Raw) /\ pos' = Logical(Raw) /\ motion' = Halted
          /\ UNCHANGED <<shaft, ready, offset, frame>>
      BY <2>3, SeenBy DEF Controller
    <3>2. ready /\ motion' # "run" /\ motion' # "hold"
      BY <3>1 DEF Live, Trusted, Halted
    <3>3. Known = shaft /\ Known' = shaft /\ pos' = shaft
      BY <1>2, <1>7, <3>1, <3>2 DEF Known
    <3>4. Seen' = shaft /\ Sent' = NoReading /\ Kept' = NoReading
      BY <2>3, <3>2, <3>3 DEF Seen, Sent, Kept
    <3>5. Reference!See
      BY <1>1, <1>7, <3>1, <3>3, <3>4 DEF Reference!See, Known, Sent, Kept, Seen
    <3> QED BY <3>5 DEF Reference!TRNext
  <2> QED BY <2>2, <2>3
<1> QED BY <1>1, <1>3, <1>4, <1>5, <1>6, <1>7, AstrayChanges

\* The record, the encoder and both programs implement TurnReference.
THEOREM ReferenceKept == Spec => KeepsReference
<1>1. Init => Reference!TRInit
  BY AxisAssumption DEF Init, Reference!TRInit, NoReading, Controller
<1>2. IInv /\ IInv' /\ [Next]_vars =>
        [Reference!TRNext]_<<shaft, Known, Seen, Sent, Kept, astray>>
  <2>1. CASE UNCHANGED vars
    BY <2>1 DEF vars, memVars, driveVars, progVars, Logical, Raw, Known, Seen, Sent, Kept,
       Controller
  <2> QED BY <2>1, RefinementStep
<1>3. IInv /\ IInv' /\ [Next]_vars =>
        [Reference!TRNext]_<<shaft, IF ready THEN Logical(Raw) ELSE NoReading,
                             IF Controller("hold") THEN pos ELSE NoReading,
                             IF motion = "run" THEN goal ELSE NoReading,
                             IF motion = "hold" THEN goal ELSE NoReading, astray>>
  BY <1>2 DEF Known, Seen, Sent, Kept
<1> QED BY PTL, Invariance, <1>1, <1>3 DEF Spec, KeepsReference, Reference!TRSpec

-----------------------------------------------------------------------------
(* Motion as the operator holds the button                                 *)

\* The update loop of the controller.
Looping == prog = "controller" /\ pc \in {"run", "advance"}

\* The steps after which the update loop runs: of the world, of the writer, and
\* of the controller as long as nothing throws.
LEMMA LoopSteps ==
  ASSUME IInv, Next, Looping'
  PROVE  \/ UNCHANGED progVars
         \/ ControllerHalts
         \/ \E d \in {-1, 0, 1} : Jog(d) /\ Live(Raw)
         \/ UpdateFeedback /\ ready /\ Contains(committed', Logical(Raw))
         \/ \/ AdvanceNothing \/ AdvanceIdle \/ AdvanceQueued
            \/ AdvanceStaging \/ AdvanceTriggering \/ AdvanceAcknowledging
<1>1. ASSUME NEW why \in {"none", "outside", "inside"}
      PROVE  ~Leave(why) /\ ~Throw(why)
  BY DEF Leave, Throw, Looping
<1>2. CASE Machine
  BY <1>2 DEF Machine, MoveShaft, Settle, BusWatchdog
<1>3. CASE Writer
  BY <1>3 DEF Writer
<1>4. CASE ControllerRuns
  <2>1. CASE ControllerRestore \/ ControllerEnable \/ ControllerHold
    BY <1>1, <2>1 DEF ControllerRestore, ControllerEnable, ControllerHold, Looping
  <2>2. CASE \E d \in {-1, 0, 1} : Jog(d)
    BY <1>1, <2>2 DEF Jog
  <2>3. CASE UpdateFeedback
    BY <1>1, <2>3 DEF UpdateFeedback
  <2>4. ~UpdatePollFails
    BY <1>1 DEF UpdatePollFails
  <2> QED BY <1>4, <2>1, <2>2, <2>3, <2>4 DEF ControllerRuns, Update
<1>5. CASE ToolRuns
  BY <1>1, <1>5 DEF ToolRuns, ToolRestore, ToolRefuses, ToolHold, ToolMonitor, ToolStepCommand,
     ToolReserve, ToolPoll, ToolPollFails, ToolMove, ToolReached, ToolZeroBegin,
     ToolInvalidated, ToolWriteFails, ToolSetZero, ToolSaveZero, ToolSetReference,
     ToolReferenced, Tool, vars, progVars, Looping
<1>6. CASE Lifecycle
  BY <1>1, <1>6 DEF Lifecycle, Start, Exit, Crash, PowerCut, ReplaceMotor, DriveFault, Shutdown,
     progVars, Looping
<1> QED BY <1>2, <1>3, <1>4, <1>5, <1>6 DEF Next

\* A step ahead of a position that is not at the limit of the held direction.
LEMMA NextTargetAimed ==
  ASSUME NEW at \in Int, NEW d \in {-1, 1}, ~Blocked(at, d), dir = d, pos = at
  PROVE  /\ (NextTarget - at) * d \in 1..Step
         /\ d > 0 => NextTarget <= Upper
         /\ d < 0 => NextTarget >= 0
<1>0. Step \in Nat \ {0} /\ Upper \in Nat \ {0}
  BY AxisAssumption
<1>1. CASE d = 1
  BY <1>0, <1>1 DEF Blocked, NextTarget, Least, Greatest
<1>2. CASE d = -1
  <2>1. NextTarget \in Int /\ at - NextTarget \in 1..Step /\ NextTarget >= 0
    BY <1>0, <1>2 DEF Blocked, NextTarget, Least, Greatest
  <2>2. (NextTarget - at) * d = at - NextTarget
    BY <1>2, <2>1
  <2> QED BY <1>2, <2>1, <2>2
<1> QED BY <1>1, <1>2

\* A target that waits for its trigger is one of the held direction, a step
\* ahead of a reading, and within the software limits.
LEMMA AimedStep ==
  ASSUME IInv, InvAimed, Next
  PROVE  InvAimed'
<1> SUFFICES ASSUME Looping' PROVE InvAimed'
  BY DEF InvAimed, Looping
<1>0. pos \in Int /\ dir \in {-1, 0, 1}
  BY DEF IInv, Ordered, TypeOK, ProgramTypeOK
<1>1. CASE UNCHANGED progVars
  BY <1>1 DEF InvAimed, Blocked, progVars
<1>2. CASE ControllerHalts
  BY <1>2 DEF ControllerHalts, HaltFourthAxis, InvAimed
<1>3. ASSUME NEW d \in {-1, 0, 1}, Jog(d), Live(Raw) PROVE InvAimed'
  <2>1. /\ Controller("run")
        /\ pos' = Logical(Raw)
        /\ \/ UNCHANGED <<dir, phase, target, base>>
              /\ dir = (IF Blocked(Logical(Raw), d) THEN 0 ELSE d)
           \/ dir' = (IF Blocked(Logical(Raw), d) THEN 0 ELSE d) /\ phase' = "idle"
    BY <1>3 DEF Jog
  <2> QED BY <1>0, <2>1 DEF InvAimed, Blocked, Controller
<1>4. CASE UpdateFeedback /\ ready /\ Contains(committed', Logical(Raw))
  <2>1. /\ pos' = Logical(Raw) /\ Controller("run")
        /\ \/ dir' = 0 /\ phase' = "idle"
           \/ ~Blocked(Logical(Raw), dir) /\ UNCHANGED <<dir, phase, target, base>>
    BY <1>4 DEF UpdateFeedback, HaltFourthAxis
  <2> QED BY <2>1 DEF InvAimed, Blocked, Controller
<1>5. CASE AdvanceNothing
  BY <1>5 DEF AdvanceNothing, InvAimed, Blocked, Controller
<1>6. CASE AdvanceIdle
  <2>1. UNCHANGED <<pos, dir>> /\ MayAdvance
    BY <1>6 DEF AdvanceIdle, Throw, Leave, Looping
  <2>2. \/ phase' = "idle"
        \/ target' = NextTarget /\ base' = pos
    BY <1>6 DEF AdvanceIdle, Throw, Leave, Looping
  <2>3. dir \in {-1, 1} /\ ~Blocked(pos, dir)
    BY <1>0, <2>1 DEF InvAimed, MayAdvance, Controller
  <2>4. /\ (NextTarget - pos) * dir \in 1..Step
        /\ dir > 0 => NextTarget <= Upper
        /\ dir < 0 => NextTarget >= 0
    BY <1>0, <2>3, NextTargetAimed
  <2> QED BY <2>1, <2>2, <2>3, <2>4 DEF InvAimed, Blocked
<1>7. CASE AdvanceQueued \/ AdvanceStaging
  <2>1. UNCHANGED <<pos, dir, target, base>> /\ MayAdvance /\ phase \in {"queued", "staging"}
    BY <1>7 DEF AdvanceQueued, AdvanceStaging, Throw, Leave, Looping
  <2> QED BY <2>1 DEF InvAimed, Blocked, MayAdvance, Controller
<1>8. CASE AdvanceTriggering \/ AdvanceAcknowledging
  <2>1. /\ UNCHANGED <<pos, dir>> /\ MayAdvance
        /\ phase' \in {"acknowledging", "idle"}
    BY <1>8 DEF AdvanceTriggering, AdvanceAcknowledging, Throw, Leave, Looping
  <2> QED BY <2>1 DEF InvAimed, Blocked, MayAdvance, Controller
<1> QED BY <1>1, <1>2, <1>3, <1>4, <1>5, <1>6, <1>7, <1>8, LoopSteps

\* The axis is driven only as the button is held now, for every slack of the
\* shaft: at most a step ahead of a reading, never further out of its limits; the
\* only other trigger is the one at the start (control.cpp:176-181, 535-592).
THEOREM MovesOnlyAsHeld == Spec => MovesAsHeld
<1> DEFINE AsHeld ==
      \/ motion' = "hold" /\ motion # "run" /\ dir = 0 /\ goal' = pos
      \/ /\ motion' = "run" /\ dir # 0 /\ dir' = dir
         /\ (goal' - base) * dir \in 1..Step
         /\ dir > 0 => goal' <= Upper
         /\ dir < 0 => goal' >= 0
<1>1. Init => InvAimed
  BY DEF Init, InvAimed
<1>2. IInv /\ InvAimed /\ [Next]_vars => InvAimed'
  <2>1. CASE UNCHANGED vars
    BY <2>1 DEF vars, progVars, InvAimed, Blocked
  <2> QED BY <2>1, AimedStep
<1>3. ASSUME IInv, InvAimed, Next, Triggered, prog = "controller", ~astray PROVE AsHeld
  <2>1. CASE ControllerHold
    BY <1>3, <2>1, StartTrigger
  <2>2. CASE AdvanceTriggering /\ MayMark(target)
    <3>1. /\ goal' = target /\ motion' = "run" /\ dir' = dir /\ dir # 0 /\ phase = "triggering"
          /\ Controller("advance")
      BY <1>3, <2>2, MarkedTrigger DEF Tool
    <3> QED BY <1>3, <3>1 DEF InvAimed, Controller
  <2>3. ~ToolMove /\ ~ToolHold /\ ~ToolReferenced
    BY <1>3 DEF ToolMove, ToolHold, ToolReferenced, Tool
  <2> QED BY <1>3, <2>1, <2>2, <2>3, TriggeredBy
<1>4. IInv /\ InvAimed /\ [Next]_vars =>
        [Triggered /\ prog = "controller" /\ ~astray => AsHeld]_vars
  BY <1>3
<1> QED BY PTL, Invariance, <1>1, <1>2, <1>4 DEF Spec, MovesAsHeld

-----------------------------------------------------------------------------
(* What a program refuses                                                  *)

\* A running program that trusts its reference and an axis that is not astray.
Trusting == ~astray /\ ready /\ prog \in {"controller", "tool"}

\* What the memory and both programs rely on then.
LEMMA TrustingFacts ==
  ASSUME IInv, InvLive, Trusting
  PROVE  /\ Accepted(committed) /\ Covers(committed) /\ committed \in Record
         /\ ~Pending => committed \in survivors
         /\ Pending => Accepted(job.rec) /\ Covers(job.rec) /\ job.rec \in Record
         /\ Controller("advance") => Contains(committed, pos)
         /\ prog = "tool" /\ pc \notin {"boot", "holding", "triggering"} => Contains(committed, Logical(held))
         /\ Logical(Raw) = shaft /\ shaft \in Int /\ goal \in Int /\ Live(Raw)
<1>1. /\ Accepted(committed) /\ Covers(committed)
      /\ ~Pending => committed \in survivors
      /\ Pending => Accepted(job.rec)
      /\ Controller("advance") => Contains(committed, pos)
      /\ prog = "tool" /\ pc \notin {"boot", "holding", "triggering"} => Contains(committed, Logical(held))
  BY DEF InvLive, Trusting
<1>2. committed \in Record /\ job.rec \in Record /\ shaft \in Int /\ goal \in Int
  BY DEF IInv, Ordered, TypeOK, MemoryTypeOK, DriveTypeOK, Job
<1>3. Pending => Covers(job.rec)
  BY <1>1 DEF IInv, Truthful, TrueJob, Protects, Trusting
<1>4. Logical(Raw) = shaft
  BY DEF IInv, Ordered, TypeOK, DriveTypeOK, Truthful, TrueReference, Logical, Raw, Trusting
<1>5. Live(Raw)
  BY <1>1, <1>4 DEF Live, Trusted, Covers, IInv, Ordered, InvReady, Trusting
<1> QED BY <1>1, <1>2, <1>3, <1>4, <1>5

\* A program comes to trust the record it has just accepted or written.
LEMMA TrustGained ==
  ASSUME IInv, IInv', ~astray', ready', Pending' = FALSE, Accepted(committed)',
         (committed \in survivors)', ~Controller("advance")',
         (prog = "tool" /\ pc \notin {"boot", "holding", "triggering"} => Logical(held) = shaft)'
  PROVE  InvLive'
<1>1. Covers(committed)'
  BY DEF IInv, Truthful, TrueFile, Protects
<1> QED BY <1>1 DEF InvLive, Covers

\* A program that runs on is the same program.
LEMMA SameProgram ==
  ASSUME Machine \/ Writer \/ ControllerRuns \/ ToolRuns, prog' \in {"controller", "tool"}
  PROVE  prog' = prog
<1>1. ASSUME NEW why \in {"none", "outside", "inside"}
      PROVE  ~Leave(why) /\ ~Throw(why)
  BY DEF Leave, Throw
<1>2. CASE Machine
  BY <1>2 DEF Machine, MoveShaft, Settle, BusWatchdog, progVars
<1>3. CASE Writer
  BY <1>3 DEF Writer, progVars
<1>4. CASE ControllerRuns
  BY <1>1, <1>4 DEF ControllerRuns, Update, ControllerRestore, ControllerEnable,
     ControllerHold, ControllerHalts, Jog, UpdateFeedback, UpdatePollFails, AdvanceNothing,
     AdvanceIdle, AdvanceQueued, AdvanceStaging, AdvanceTriggering, AdvanceAcknowledging
<1>5. CASE ToolRuns
  BY <1>1, <1>5 DEF ToolRuns, ToolRestore, ToolRefuses, ToolHold, ToolMonitor,
     ToolStepCommand, ToolReserve, ToolPoll, ToolPollFails, ToolMove, ToolReached,
     ToolZeroBegin, ToolInvalidated, ToolWriteFails, ToolSetZero, ToolSaveZero,
     ToolSetReference, ToolReferenced, vars, progVars
<1> QED BY <1>2, <1>3, <1>4, <1>5

\* What has to be kept while a program trusts its reference.
LEMMA LiveAgain ==
  ASSUME Accepted(committed)', Covers(committed)',
         (~Pending => committed \in survivors)', (Pending => Accepted(job.rec))',
         (Controller("advance") => Contains(committed, pos))',
         (prog = "tool" /\ pc \notin {"boot", "holding", "triggering"} => Contains(committed, Logical(held)))'
  PROVE  InvLive'
BY DEF InvLive

\* The world and the writer keep it ...
LEMMA LiveWorld ==
  ASSUME IInv, IInv', InvLive, Trusting, Trusting', Machine \/ Writer
  PROVE  InvLive'
<1>0. /\ Accepted(committed) /\ Covers(committed) /\ committed \in Record
      /\ ~Pending => committed \in survivors
      /\ Pending => Accepted(job.rec)
      /\ Controller("advance") => Contains(committed, pos)
      /\ prog = "tool" /\ pc \notin {"boot", "holding", "triggering"} => Contains(committed, Logical(held))
      /\ shaft \in Int /\ goal \in Int
  BY TrustingFacts
<1>1. CASE Writer
  <2>1. /\ UNCHANGED <<id, committed, offset, held, pos, prog, pc, shaft, goal, motion>>
        /\ Pending /\ Pending' /\ job'.rec = job.rec
    BY <1>1 DEF Writer, WriterRename, WriterSync, WriterFail, Pending, IInv, Ordered, TypeOK,
       MemoryTypeOK, Job, driveVars, progVars
  <2>2. Covers(committed)' /\ Accepted(committed)' /\ Accepted(job.rec)'
    BY <1>0, <2>1 DEF Covers, Accepted
  <2> QED BY <1>0, <2>1, <2>2, LiveAgain DEF Controller, Logical
<1>2. CASE MoveShaft
  <2>1. Covers(committed)'
    BY <1>0, <1>2, TolFacts DEF MoveShaft, Covers, CheckWindow, Contains, Record, memVars
  <2> QED BY <1>0, <1>2, <2>1, LiveAgain DEF MoveShaft, Pending, Accepted, Controller, Logical,
             diskVars, memVars, progVars
<1>3. CASE Settle
  <2>1. Covers(committed)'
    <3>1. CASE motion = "hold"
      <4>1. ~Pending
        BY <3>1 DEF IInv, Ordered, InvShaft
      <4>2. Contains(committed, shaft')
        BY <1>0, <1>3, <3>1, <4>1 DEF Settle, Trusting
      <4> QED BY <1>0, <1>3, <4>2 DEF Settle, Covers, CheckWindow, Contains, memVars
    <3>2. CASE motion # "hold"
      BY <1>0, <1>3, <3>2, TolFacts, AxisAssumption DEF Settle, Covers, CheckWindow, Contains,
         Record, memVars
    <3> QED BY <3>1, <3>2
  <2> QED BY <1>0, <1>3, <2>1, LiveAgain DEF Settle, Pending, Accepted, Controller, Logical,
             diskVars, memVars, progVars
<1>4. ~BusWatchdog
  BY DEF BusWatchdog, Trusting
<1> QED BY <1>1, <1>2, <1>3, <1>4 DEF Machine

\* ... the controller keeps it ...
LEMMA LiveController ==
  ASSUME IInv, IInv', InvLive, Trusting, Trusting', ControllerRuns
  PROVE  InvLive'
<1>0. /\ Accepted(committed) /\ Covers(committed) /\ committed \in Record
      /\ ~Pending => committed \in survivors
      /\ Pending => Accepted(job.rec) /\ Covers(job.rec)
      /\ Controller("advance") => Contains(committed, pos)
      /\ Logical(Raw) = shaft
  BY TrustingFacts
<1>1. ASSUME NEW why \in {"none", "outside", "inside"}
      PROVE  ~Leave(why) /\ ~Throw(why)
  BY DEF Leave, Throw, Trusting
<1>2. ASSUME UNCHANGED <<id, shaft, offset, held, committed, survivors, job, prog>>,
             prog = "controller", Covers(committed)', Controller("advance")' => Contains(committed, pos)'
      PROVE  InvLive'
  BY <1>0, <1>2, LiveAgain DEF Pending, Accepted
<1>3. CASE ControllerRestore
  <2>1. Restorable(id, Raw) /\ Restore(Raw) /\ pc' = "enable" /\ UNCHANGED <<driveVars, prog>>
    BY <1>1, <1>3 DEF ControllerRestore
  <2>2. /\ committed' = disk /\ disk \in survivors /\ survivors' = survivors
        /\ Pending' = FALSE /\ Accepted(committed)'
    BY <2>1 DEF Restore, Restorable, Idle, Pending, Accepted, IInv, Ordered, TypeOK,
       MemoryTypeOK, driveVars
  <2> QED BY <1>3, <2>1, <2>2, TrustGained DEF ControllerRestore, Controller, Trusting
<1>4. CASE ControllerEnable \/ ControllerHalts
  <2>1. Covers(committed)'
    BY <1>0, <1>1, <1>4 DEF ControllerEnable, ControllerHalts, HaltFourthAxis, Halted, Covers, memVars
  <2> QED BY <1>1, <1>2, <1>4, <2>1 DEF ControllerEnable, ControllerHalts, Controller, diskVars, memVars
<1>5. CASE ControllerHold
  <2>1. goal' = pos /\ motion' = "hold" /\ Contains(committed, pos)
    <3>1. ~Pending
      BY <1>5 DEF ControllerHold, Controller, IInv, Ordered, InvStart
    <3> QED BY <1>0, <1>5, <3>1, StartTrigger DEF Trusting
  <2>2. Covers(committed)'
    BY <1>0, <1>5, <2>1 DEF ControllerHold, Covers, CheckWindow, Contains, memVars
  <2> QED BY <1>2, <1>5, <2>2 DEF ControllerHold, Controller, diskVars, memVars
<1>6. CASE \E d \in {-1, 0, 1} : Jog(d)
  <2>1. Covers(committed)'
    BY <1>0, <1>1, <1>6 DEF Jog, Halted, Covers, memVars
  <2> QED BY <1>1, <1>2, <1>6, <2>1 DEF Jog, Controller, diskVars, memVars
<1>7. CASE UpdateFeedback
  <2>1. /\ Poll /\ Controller("run") /\ pos' = Logical(Raw) /\ Contains(committed', Logical(Raw))
        /\ motion' \in {motion, Halted} /\ UNCHANGED <<id, shaft, goal, prog>>
    BY <1>1, <1>7 DEF UpdateFeedback, HaltFourthAxis
  <2>2. /\ committed' \in {committed, job.rec} /\ Accepted(committed') /\ Covers(committed')
    BY <1>0, <2>1 DEF Poll, PollTakes, Pending
  <2>3. Covers(committed)' /\ Accepted(committed)'
    BY <2>1, <2>2 DEF Covers, Accepted, Halted
  <2>4. (~Pending => committed \in survivors)' /\ (Pending => Accepted(job.rec))'
    <3>1. CASE PollTakes
      BY <2>1, <3>1, NoJobType DEF Poll, PollTakes, Pending, IInv, Ordered, InvJob
    <3>2. CASE ~PollTakes
      BY <1>0, <2>1, <3>2 DEF Poll, Pending, Accepted
    <3> QED BY <3>1, <3>2
  <2> QED BY <1>0, <2>1, <2>3, <2>4, LiveAgain DEF Controller, Contains
<1>8. ~UpdatePollFails
  BY <1>1 DEF UpdatePollFails
<1>9. CASE AdvanceNothing \/ AdvanceQueued \/ AdvanceStaging \/ AdvanceAcknowledging
  <2>1. Covers(committed)'
    BY <1>0, <1>1, <1>9 DEF AdvanceNothing, AdvanceQueued, AdvanceStaging, AdvanceAcknowledging,
       Covers, memVars, driveVars
  <2> QED BY <1>1, <1>2, <1>9, <2>1 DEF AdvanceNothing, AdvanceQueued, AdvanceStaging,
             AdvanceAcknowledging, MayAdvance, Advanced, Controller, diskVars, memVars, driveVars
<1>10. CASE AdvanceTriggering
  <2>1. MayMark(target)
    BY <1>1, <1>10 DEF AdvanceTriggering
  <2>2. /\ goal' = target /\ motion' = "run" /\ Reserves(committed)
        /\ Controller("advance") \/ Tool("triggering")
    BY <1>10, <2>1, MarkedTrigger DEF Trusting
  <2>3. UNCHANGED <<id, shaft, offset, held, committed, survivors, job, prog>> /\ Controller("advance")
    BY <1>10, <2>1 DEF AdvanceTriggering, MayAdvance, diskVars
  <2>4. pc' = "run"
    BY <1>10, <2>1 DEF AdvanceTriggering, Advanced
  <2>5. Covers(committed)'
    BY <1>0, <2>2, <2>3, TolFacts DEF Covers, CheckWindow, Contains, Reserves, Record
  <2> QED BY <1>2, <2>3, <2>4, <2>5 DEF Controller
<1>11. CASE AdvanceIdle
  <2>1. CASE UNCHANGED job
    <3>1. UNCHANGED <<diskVars, committed, offset, driveVars, prog, pos, held>> /\ pc' = "run"
      BY <1>1, <1>11 DEF AdvanceIdle, Advanced, QueueTarget, diskVars, memVars
    <3>2. Covers(committed)'
      BY <1>0, <3>1 DEF Covers, driveVars
    <3> QED BY <1>2, <1>11, <2>1, <3>1, <3>2 DEF AdvanceIdle, MayAdvance, Controller, diskVars,
               driveVars
  <2>2. CASE ~UNCHANGED job
    <3>1. /\ job' = Writing(Reservation(id, pos - offset, NextTarget)) /\ pc' = "run"
          /\ UNCHANGED <<diskVars, committed, offset, driveVars, prog, pos, held>>
          /\ Controller("advance")
      BY <1>1, <1>11, <2>2 DEF AdvanceIdle, MayAdvance, Advanced, QueueTarget, diskVars, memVars
    <3>2. Covers(committed)' /\ Accepted(committed)'
      BY <1>0, <3>1 DEF Covers, Accepted, driveVars
    <3>3. Pending' /\ Accepted(job.rec)'
      BY <3>1 DEF Pending, Writing, Reservation, Interval, Accepted, driveVars
    <3> QED BY <1>0, <3>1, <3>2, <3>3, LiveAgain DEF Controller
  <2> QED BY <2>1, <2>2
<1> QED BY <1>3, <1>4, <1>5, <1>6, <1>7, <1>8, <1>9, <1>10, <1>11 DEF ControllerRuns, Update

\* ... and so does the tool.
LEMMA LiveTool ==
  ASSUME IInv, IInv', InvLive, Trusting, Trusting', ToolRuns
  PROVE  InvLive'
<1>0. /\ Accepted(committed) /\ Covers(committed) /\ committed \in Record
      /\ ~Pending => committed \in survivors
      /\ Pending => Accepted(job.rec) /\ Covers(job.rec) /\ job.rec \in Record
      /\ prog = "tool" /\ pc \notin {"boot", "holding", "triggering"} => Contains(committed, Logical(held))
      /\ Logical(Raw) = shaft /\ shaft \in Int
  BY TrustingFacts
<1>1. ASSUME NEW why \in {"none", "outside", "inside"}
      PROVE  ~Leave(why) /\ ~Throw(why)
  BY DEF Leave, Throw, Trusting
<1>2. ASSUME UNCHANGED <<id, committed, survivors, job, prog>>,
             prog = "tool", Covers(committed)', Contains(committed, Logical(held))'
      PROVE  InvLive'
  BY <1>0, <1>2, LiveAgain DEF Pending, Accepted, Controller
<1>3. ready /\ ready'
  BY DEF Trusting
<1>4. CASE ToolRestore
  <2>1. UNCHANGED <<diskVars, memVars, driveVars, held, prog>> \/ Restore(Raw)
    BY <1>4 DEF ToolRestore
  <2>2. Tool("boot") /\ pc' = "holding" /\ UNCHANGED <<driveVars, held, prog>>
    BY <1>4 DEF ToolRestore
  <2>3. CASE UNCHANGED <<diskVars, memVars>>
    <3>1. Covers(committed)'
      BY <1>0, <2>2, <2>3 DEF Covers, driveVars, memVars
    <3> QED BY <1>0, <2>2, <2>3, <3>1, LiveAgain DEF Pending, Accepted, Controller, Tool, diskVars,
               memVars, driveVars
  <2>4. CASE Restorable(id, Raw) /\ Restore(Raw)
    <3>1. /\ committed' = disk /\ disk \in survivors /\ survivors' = survivors
          /\ Pending' = FALSE /\ Accepted(committed)'
      BY <2>2, <2>4 DEF Restore, Restorable, Idle, Pending, Accepted, IInv, Ordered, TypeOK,
         MemoryTypeOK, driveVars
    <3> QED BY <2>2, <3>1, TrustGained DEF Controller, Tool, Trusting
  <2> QED BY <1>4, <2>3, <2>4 DEF ToolRestore
<1>5. CASE ToolHold
  <2>1. /\ goal' = shaft /\ motion' = "hold" /\ held' = Raw
        /\ UNCHANGED <<id, shaft, committed, survivors, job, prog, offset>> /\ prog = "tool"
    BY <1>1, <1>5 DEF ToolHold, Hold, Tool, diskVars, memVars
  <2>2. Covers(committed)'
    BY <1>0, <2>1 DEF Covers, Contains, CheckWindow
  <2>3. Contains(committed, Logical(held))'
    BY <1>0, <2>1, <2>2 DEF Covers, Logical
  <2> QED BY <1>2, <2>1, <2>2, <2>3
<1>6. CASE ToolReserve
  <2>1. /\ job' = Writing(Reservation(id, Raw, target)) /\ Tool("stopping")
        /\ UNCHANGED <<survivors, committed, offset, driveVars, prog, held>>
    BY <1>1, <1>6 DEF ToolReserve, QueueTarget
  <2>2. Covers(committed)' /\ Accepted(committed)'
    BY <1>0, <2>1 DEF Covers, Accepted, driveVars
  <2>3. Pending' /\ Accepted(job.rec)'
    BY <2>1 DEF Pending, Writing, Reservation, Interval, Accepted, driveVars
  <2>4. Contains(committed, Logical(held))'
    BY <1>0, <2>1 DEF Tool, Logical
  <2> QED BY <2>1, <2>2, <2>3, <2>4, LiveAgain DEF Controller, Tool
<1>7. CASE ToolPoll
  <2>1. /\ Poll /\ PollTakes /\ Tool("reserving") /\ Monitored
        /\ UNCHANGED <<driveVars, prog>>
    BY <1>7 DEF ToolPoll
  <2>2. /\ committed' = job.rec /\ survivors' = {job.rec} /\ Pending' = FALSE
        /\ Accepted(job.rec) /\ Covers(job.rec) /\ UNCHANGED offset
    BY <1>0, <2>1, NoJobType DEF Poll, PollTakes, Pending, IInv, Ordered, InvJob
  <2>3. Accepted(committed)' /\ Covers(committed)'
    BY <2>1, <2>2 DEF Accepted, Covers, driveVars
  <2>4. pc' = "triggering"
    BY <1>7 DEF ToolPoll
  <2> QED BY <2>1, <2>2, <2>3, <2>4, LiveAgain DEF Controller, Tool
<1>8. CASE ToolMove
  <2>1. MayMark(target) /\ Monitored
    BY <1>1, <1>8 DEF ToolMove
  <2>2. goal' = target /\ target \in Int /\ motion' = "run" /\ Reserves(committed)
    BY <1>8, <2>1, MarkedTrigger DEF Trusting
  <2>3. /\ UNCHANGED <<id, shaft, offset, committed, survivors, job, prog>> /\ prog = "tool"
        /\ held' = RawTarget(target)
    BY <1>8, <2>1 DEF ToolMove, Tool, diskVars
  <2>4. Covers(committed)'
    BY <1>0, <2>2, <2>3, TolFacts DEF Covers, CheckWindow, Contains, Reserves, Record
  <2>5. Logical(held)' = target
    BY <2>2, <2>3 DEF Logical, RawTarget, IInv, Ordered, TypeOK, MemoryTypeOK
  <2>6. Contains(committed, Logical(held))'
    BY <2>2, <2>3, <2>4, <2>5 DEF Covers
  <2> QED BY <1>2, <2>3, <2>4, <2>6
<1>9. CASE ToolMonitor \/ ToolReached \/ \E sign \in {-1, 1} : ToolStepCommand(sign)
  <2>1. /\ UNCHANGED <<diskVars, memVars, driveVars, prog, held>> /\ prog = "tool"
        /\ pc \notin {"boot", "holding", "triggering"}
    BY <1>1, <1>9 DEF ToolMonitor, ToolReached, ToolStepCommand, Tool, vars, progVars
  <2>2. Covers(committed)'
    BY <1>0, <2>1 DEF Covers, memVars, driveVars
  <2> QED BY <1>0, <1>2, <2>1, <2>2 DEF Logical, diskVars, memVars, driveVars
<1>10. ~ToolRefuses /\ ~ToolPollFails /\ ~ToolWriteFails
  BY <1>1 DEF ToolRefuses, ToolPollFails, ToolWriteFails
<1>11. /\ ~ToolZeroBegin /\ ~ToolInvalidated /\ ~ToolSetZero /\ ~ToolSaveZero
       /\ ~ToolSetReference /\ ~ToolReferenced
  BY <1>1, <1>3 DEF ToolZeroBegin, Invalidate, ToolInvalidated, ToolSetZero, ToolSaveZero,
     ToolSetReference, SetReference, ToolReferenced, Tool, IInv, Ordered, InvZero, memVars
<1> QED BY <1>4, <1>5, <1>6, <1>7, <1>8, <1>9, <1>10, <1>11 DEF ToolRuns

\* The interval that live feedback must stay in covers the axis in every step.
LEMMA LiveStep ==
  ASSUME IInv, IInv', InvLive, Next
  PROVE  InvLive'
<1> SUFFICES ASSUME Trusting' PROVE InvLive'
  BY DEF InvLive, Trusting
<1>0. ~astray
  <2>1. ~ToolSetZero /\ ~ReplaceMotor
    BY DEF ToolSetZero, ReplaceMotor, Tool, memVars, progVars, Trusting, IInv, Ordered, InvZero
  <2>2. ~astray'
    BY DEF Trusting
  <2> QED BY <2>1, <2>2, AstrayChanges
<1>1. ASSUME NEW why \in {"none", "outside", "inside"}
      PROVE  ~Leave(why) /\ ~Throw(why)
  BY DEF Leave, Throw, Trusting
<1>2. CASE ~ready
  <2>1. CASE ToolReferenced
    <3>1. /\ Pending' = FALSE /\ ready' /\ pc' = "stopping" /\ prog' = "tool"
          /\ committed' = job.rec /\ survivors' = {job.rec} /\ id' = id
          /\ job.rec = Interval(id, shaft, shaft)
          /\ (Logical(held) = shaft)'
      BY <2>1, NoJobType DEF ToolReferenced, ReferenceSet, Hold, Tool, Pending, Logical, Raw, IInv,
         Ordered, TypeOK, DriveTypeOK, InvZero, InvJob
    <3>2. Accepted(committed)'
      BY <3>1 DEF Accepted, Interval
    <3> QED BY <1>0, <3>1, <3>2, TrustGained DEF Controller, Trusting
  <2>2. CASE ControllerRestore \/ ToolRestore
    <3>1. /\ Restorable(id, Raw) /\ Restore(Raw) /\ id' = id
          /\ (prog' = "controller" /\ pc' = "enable") \/ pc' = "holding"
      BY <1>1, <1>2, <2>2 DEF ControllerRestore, ToolRestore, Controller, Trusting, driveVars, memVars
    <3>2. /\ committed' = disk /\ disk \in survivors /\ survivors' = survivors
          /\ Pending' = FALSE /\ Accepted(committed)'
      BY <3>1 DEF Restore, Restorable, Idle, Pending, Accepted, IInv, Ordered, TypeOK, MemoryTypeOK
    <3> QED BY <1>0, <3>1, <3>2, TrustGained DEF Controller, Trusting
  <2>3. CASE ~ToolReferenced /\ ~ControllerRestore /\ ~ToolRestore
    BY <1>2, <2>3, TrustChanges DEF Trusting
  <2> QED BY <2>1, <2>2, <2>3
<1>3. CASE ready
  <2>0. ready => prog \in {"controller", "tool", "exiting"}
    BY DEF IInv, Ordered, TypeOK, ProgramTypeOK, InvReady
  <2>1. CASE Lifecycle
    BY <1>1, <1>3, <2>0, <2>1 DEF Lifecycle, Start, Exit, Crash, PowerCut, ReplaceMotor, DriveFault,
       Shutdown, progVars, Trusting
  <2>2. CASE ~Lifecycle
    <3>1. prog \in {"controller", "tool"}
      BY <2>2, SameProgram DEF Trusting, Next
    <3> QED BY <1>0, <1>3, <3>1, <2>2, LiveWorld, LiveController, LiveTool DEF Trusting, Next
  <2> QED BY <2>1, <2>2
<1>4. ready \in BOOLEAN
  BY Zenon DEF IInv, Ordered, TypeOK, FlagsTypeOK
<1> QED BY <1>2, <1>3, <1>4

\* What was reserved may be sent and triggered.
LEMMA ReservedIsIn ==
  ASSUME IInv, Reserves(committed)
  PROVE  Contains(committed, target)
BY TolFacts DEF Reserves, Contains, IInv, Ordered, TypeOK, MemoryTypeOK, Record

\* Why a program ends with a guard of its own: whoever refuses itself either
\* trusts nothing that is promised, or has computed a target that is too far.
LEMMA RefusalStep ==
  ASSUME IInv, InvLive, Next, fault' = "inside", fault # "inside", ~astray
  PROVE  TooWide
<1>1. ASSUME NEW why \in {"none", "outside"} PROVE ~Leave(why) /\ ~Throw(why)
  BY DEF Leave, Throw
<1>2. ~Machine /\ ~Writer /\ ~Lifecycle
  BY <1>1 DEF Machine, MoveShaft, Settle, BusWatchdog, Writer, Lifecycle, Start, Exit, Crash,
     PowerCut, ReplaceMotor, DriveFault, Shutdown, progVars
<1>3. CASE ControllerRuns
  <2>1. prog = "controller" /\ (pc = "boot" \/ ready)
    BY <1>1, <1>3 DEF ControllerRuns, Update, ControllerRestore, ControllerEnable, ControllerHold,
       ControllerHalts, Jog, UpdateFeedback, UpdatePollFails, AdvanceNothing, AdvanceIdle,
       AdvanceQueued, AdvanceStaging, AdvanceTriggering, AdvanceAcknowledging, MayAdvance,
       Controller, IInv, Ordered, InvReady
  <2>2. ~ControllerRestore
    BY <1>1 DEF ControllerRestore, Restore
  <2>3. pc # "boot" /\ Trusting
    BY <1>3, <2>1, <2>2 DEF ControllerRuns, Update, ControllerEnable, ControllerHold,
       ControllerHalts, Jog, UpdateFeedback, UpdatePollFails, AdvanceNothing, AdvanceIdle,
       AdvanceQueued, AdvanceStaging, AdvanceTriggering, AdvanceAcknowledging, MayAdvance,
       Controller, Trusting
  <2>4. /\ Covers(committed) /\ Live(Raw) /\ Logical(Raw) = shaft
        /\ Pending => Covers(job.rec)
        /\ Controller("advance") => Contains(committed, pos)
        /\ Trusted
    BY <2>3, TrustingFacts DEF Live
  <2>5. ~ControllerEnable /\ ~(\E d \in {-1, 0, 1} : Jog(d))
    BY <2>4 DEF ControllerEnable, Jog
  <2>6. ~ControllerHold /\ ~ControllerHalts /\ ~AdvanceNothing /\ ~AdvanceStaging
        /\ ~AdvanceAcknowledging /\ ~UpdatePollFails
    BY <1>1 DEF ControllerHold, ControllerHalts, AdvanceNothing, AdvanceStaging,
       AdvanceAcknowledging, UpdatePollFails
  <2>7. ~UpdateFeedback
    <3>1. ASSUME UpdateFeedback PROVE ready /\ Contains(committed', Logical(Raw))
      BY <2>1, <2>3, <2>4, <3>1 DEF UpdateFeedback, Poll, PollTakes, Pending, Covers
    <3> QED BY <3>1 DEF UpdateFeedback
  <2>8. ~AdvanceQueued /\ ~AdvanceTriggering
    <3>1. ASSUME AdvanceQueued, ~Pending PROVE MayTarget(target)
      <4>1. Reserves(committed)
        BY <3>1 DEF AdvanceQueued, MayAdvance, Controller, IInv, Truthful, TrueController
      <4> QED BY <2>4, <4>1, ReservedIsIn DEF MayTarget
    <3>2. ASSUME AdvanceTriggering PROVE MayMark(target)
      <4>1. Reserves(committed) /\ ~Pending
        BY <3>2 DEF AdvanceTriggering, MayAdvance, Controller, IInv, Ordered, InvPhase, Truthful,
           TrueController
      <4> QED BY <2>4, <4>1, ReservedIsIn DEF MayMark, MayTarget, Idle, Trusted
    <3> QED BY <3>1, <3>2 DEF AdvanceQueued, AdvanceTriggering
  <2>9. CASE AdvanceIdle
    <3>1. Controller("advance") /\ ~Pending /\ ~MayQueue(id, pos - offset, NextTarget)
      BY <2>9 DEF AdvanceIdle, MayAdvance
    <3>2. Live(pos - offset) /\ Idle
      BY <2>4, <3>1 DEF Live, Logical, Idle, Trusted, IInv, Ordered, TypeOK, MemoryTypeOK, ProgramTypeOK
    <3> QED BY <3>1, <3>2 DEF MayQueue, TooWide
  <2> QED BY <1>3, <2>2, <2>5, <2>6, <2>7, <2>8, <2>9 DEF ControllerRuns, Update
<1>4. CASE ToolRuns
  <2>1. prog = "tool"
    BY <1>4 DEF ToolRuns, ToolRestore, ToolRefuses, ToolHold, ToolMonitor, ToolStepCommand,
       ToolReserve, ToolPoll, ToolPollFails, ToolMove, ToolReached, ToolZeroBegin, ToolInvalidated,
       ToolWriteFails, ToolSetZero, ToolSaveZero, ToolSetReference, ToolReferenced, Tool
  <2>2. ready => /\ Trusting /\ Live(Raw) /\ Trusted /\ Monitored
                 /\ pc \notin {"boot", "holding", "triggering"} => Contains(committed, Logical(held))
    BY <2>1, TrustingFacts DEF Trusting, Live, Monitored
  <2>3. Monitored
    BY <2>2 DEF Monitored
  <2>4. ~ToolHold /\ ~ToolMonitor
    BY <2>2, <2>3 DEF ToolHold, ToolMonitor, vars, progVars
  <2>5. /\ ~ToolRestore /\ ~ToolRefuses /\ ~ToolPoll /\ ~ToolPollFails /\ ~ToolReached
        /\ ~ToolZeroBegin /\ ~ToolInvalidated /\ ~ToolWriteFails /\ ~ToolSetZero
        /\ ~ToolSaveZero /\ ~ToolReferenced
    BY <1>1 DEF ToolRestore, ToolRefuses, ToolPoll, ToolPollFails, ToolReached, ToolZeroBegin,
       ToolInvalidated, ToolWriteFails, ToolSetZero, ToolSaveZero, ToolReferenced
  <2>6. ~ToolSetReference
    BY DEF ToolSetReference, Idle, Tool, IInv, Ordered, InvReady, InvZero
  <2>7. ~(\E sign \in {-1, 1} : ToolStepCommand(sign))
    BY <2>2 DEF ToolStepCommand, MayStep, Tool, Live
  <2>8. ~ToolMove
    <3>1. ASSUME ToolMove PROVE MayMark(target)
      <4>1. Reserves(committed) /\ ~Pending /\ ready
        BY <3>1 DEF ToolMove, Tool, IInv, Ordered, InvZero, Truthful, TrueTool
      <4> QED BY <2>2, <4>1, ReservedIsIn DEF MayMark, MayTarget, Idle, Trusted
    <3> QED BY <2>3, <3>1 DEF ToolMove
  <2>9. CASE ToolReserve
    <3>1. Tool("stopping") /\ ~MayQueue(id, Raw, target)
      BY <2>9 DEF ToolReserve
    <3>2. ready /\ ~Pending
      BY <3>1 DEF Tool, IInv, Ordered, InvZero
    <3>3. Live(Raw) /\ Idle
      BY <2>2, <3>2 DEF Idle, Trusted
    <3> QED BY <3>1, <3>3 DEF MayQueue, TooWide
  <2> QED BY <1>4, <2>4, <2>5, <2>6, <2>7, <2>8, <2>9 DEF ToolRuns
<1> QED BY <1>2, <1>3, <1>4 DEF Next

\* Whatever the speed, the slack and the drive: neither program runs into a guard
\* of its own memory but by a target that no interval can hold together with the
\* place where the shaft may be, unless a hold led the shaft astray
\* (position_memory.cpp:234-254, 310-383).
THEOREM OnlyWideMovesRefused == Spec => RefusesOnlyWideMoves
<1>1. Init => InvLive
  BY DEF Init, InvLive
<1>2. IInv /\ IInv' /\ InvLive /\ [Next]_vars => InvLive'
  <2>1. CASE UNCHANGED vars
    BY <2>1 DEF vars, diskVars, memVars, driveVars, progVars, InvLive, Accepted, Covers, Pending,
       Controller, Logical
  <2> QED BY <2>1, LiveStep
<1>3. IInv /\ InvLive /\ [Next]_vars =>
        [fault' = "inside" /\ fault # "inside" => astray \/ TooWide]_vars
  BY RefusalStep
<1> QED BY PTL, Invariance, <1>1, <1>2, <1>3 DEF Spec, RefusesOnlyWideMoves

=============================================================================
