---------------------------- MODULE PositionMemory ----------------------------
(***************************************************************************)
(* The durable multi-turn memory of the fourth arm axis                    *)
(* (motor/yiyou/position_memory.cpp).                                      *)
(*                                                                         *)
(* The drive forgets how many whole turns its output shaft has made when   *)
(* its power is cut.  The host therefore keeps, on disk, an interval that  *)
(* is known to contain the accumulated position and is narrower than one   *)
(* turn; the encoder's position within the turn then selects one point of  *)
(* it.  This module holds the class: the record on disk, the volatile      *)
(* state, the background writer, and one operator per public method.  The  *)
(* program that calls it and the shaft it describes are in FourthAxis.     *)
(*                                                                         *)
(* Data: a record's interface, slave, identity and period are one value    *)
(* `binding`.  A missing, unreadable, malformed or invalidated file is one *)
(* record with valid = FALSE: restore() refuses them all.                  *)
(***************************************************************************)
EXTENDS Integers

CONSTANTS
    Period,      \* encoder counts per output revolution (an integral scale)
    Bindings     \* device bindings: interface, slave, identity and scale

VARIABLES
    disk,           \* the record a reader of the state file sees now
    survivors,      \* the records a power cut may leave in the file
    ready,          \* Impl::ready, a trusted reference exists
    committed,      \* Impl::committed, the interval live feedback must stay in
    offset,         \* Impl::offset, logical position minus raw position
    lastTriggered,  \* Impl::last_triggered
    job,            \* Impl::future and the thread that serves it
    writeError      \* Impl::write_error is set

diskVars == <<disk, survivors>>
memVars  == <<ready, committed, offset, lastTriggered, job, writeError>>

-----------------------------------------------------------------------------
Least(a, b)    == IF a <= b THEN a ELSE b
Greatest(a, b) == IF a >= b THEN a ELSE b

\* ceil(period / 180): two degrees, at least one count.
Tol == Period \div 180 + (IF Period % 180 # 0 THEN 1 ELSE 0)

\* The constructor refuses any other scale.
ASSUME ScaleAssumption ==
    /\ Period \in Nat \ {0}
    /\ Tol < Period - Tol

ASSUME BindingsAssumption == Bindings # {}

Record == [valid: BOOLEAN, binding: Bindings, lower: Int, upper: Int]

\* check_window: ordered, and narrower than one revolution.
CheckWindow(rec) == rec.lower <= rec.upper /\ rec.upper - rec.lower < Period

\* mutant: an interval without its margin
IntervalExact(id, lo, up) ==
    [valid |-> TRUE, binding |-> id, lower |-> lo, upper |-> up]

Interval(id, lo, up) ==
    [valid |-> TRUE, binding |-> id, lower |-> lo - Tol, upper |-> up + Tol]

\* The default-constructed binding record that invalidate() writes.
Invalid(id) == [valid |-> FALSE, binding |-> id, lower |-> 0, upper |-> 0]

Contains(rec, x) == rec.lower <= x /\ x <= rec.upper

-----------------------------------------------------------------------------
(***************************************************************************)
(* The writer: a temporary file, fsync, rename, fsync of the directory.    *)
(* The rename makes the new record visible; until the directory is synced  *)
(* a power cut may still leave an older one.  Any of the calls can fail.   *)
(***************************************************************************)
NoJob == [st |-> "none", rec |-> Invalid(CHOOSE b \in Bindings : TRUE)]

Job == [st: {"none", "writing", "renamed", "done", "failed"}, rec: Record]

Writing(rec) == [st |-> "writing", rec |-> rec]

WriterRename ==
    /\ job.st = "writing"
    /\ disk' = job.rec
    /\ survivors' = survivors \cup {job.rec}
    /\ job' = [job EXCEPT !.st = "renamed"]
    /\ UNCHANGED <<ready, committed, offset, lastTriggered, writeError>>

WriterSync ==
    /\ job.st = "renamed"
    /\ survivors' = {disk}
    /\ job' = [job EXCEPT !.st = "done"]
    /\ UNCHANGED <<disk, ready, committed, offset, lastTriggered, writeError>>

WriterFail ==
    /\ job.st \in {"writing", "renamed"}
    /\ job' = [job EXCEPT !.st = "failed"]
    /\ UNCHANGED <<disk, survivors, ready, committed, offset, lastTriggered, writeError>>

Pending == job.st # "none"                      \* future.valid()
Idle    == ~Pending /\ ~writeError              \* no_job() does not throw
Trusted == ready /\ ~writeError                 \* require_ready() does not throw

-----------------------------------------------------------------------------
(***************************************************************************)
(* restore(raw): the one position that is congruent to the encoder reading *)
(* and lies in the saved interval, or a refusal.                           *)
(***************************************************************************)
\* mutant: the way back taken for the way forward
DistanceUnsigned(rec, raw) ==
    LET l == rec.lower % Period
        r == raw % Period
    IN  IF r >= l THEN r - l ELSE l - r

Distance(rec, raw) ==
    LET l == rec.lower % Period
        r == raw % Period
    IN  IF r >= l THEN r - l ELSE Period - (l - r)

Restored(rec, raw) == rec.lower + Distance(rec, raw)

\* mutant: the record of another drive is accepted
RestorableAnyDevice(id, raw) ==
    /\ Idle
    /\ disk.valid
    /\ Restored(disk, raw) <= disk.upper

Restorable(id, raw) ==
    /\ Idle
    /\ disk.valid
    /\ disk.binding = id
    /\ Restored(disk, raw) <= disk.upper

Restore(raw) ==
    /\ offset' = Restored(disk, raw) - raw
    /\ committed' = disk
    /\ lastTriggered' = Restored(disk, raw)
    /\ ready' = TRUE
    /\ UNCHANGED <<disk, survivors, job, writeError>>

\* logical_position(raw) returns raw + offset, or throws unless Live(raw).
Logical(raw) == raw + offset
Live(raw)    == Trusted /\ Contains(committed, Logical(raw))

\* raw_target(logical) returns this, or throws outside the committed interval.
RawTarget(logical)   == logical - offset
MayTarget(logical)   == Trusted /\ Contains(committed, logical)

\* mutant: only where the axis is sent, not where it still is
ReservationOfTarget(id, raw, target) == Interval(id, target, target)

\* queue_target(raw, target): reserve an interval holding the measured position,
\* the target the shaft may still be heading for, and the new target.
Reservation(id, raw, target) ==
    Interval(id, Least(Logical(raw), Least(lastTriggered, target)),
                 Greatest(Logical(raw), Greatest(lastTriggered, target)))

MayQueue(id, raw, target) ==
    /\ Idle
    /\ Live(raw)
    /\ CheckWindow(Reservation(id, raw, target))

QueueTarget(id, raw, target) ==
    /\ job' = Writing(Reservation(id, raw, target))
    /\ UNCHANGED <<disk, survivors, ready, committed, offset, lastTriggered, writeError>>

(***************************************************************************)
(* poll(): an outstanding job is taken when its thread is done; a failed   *)
(* one, or one outstanding for more than a second, latches write_error.    *)
(* Nothing is cancelled: a job that timed out still runs.                  *)
(***************************************************************************)
\* mutant: the write is taken for done before the directory is synced
PollTakesRenamed == job.st \in {"renamed", "done"}

PollTakes == job.st = "done"

PollFailure ==
    /\ job.st \in {"writing", "renamed", "failed"}
    /\ writeError' = TRUE
    /\ job' = IF job.st = "failed" THEN NoJob ELSE job
    /\ UNCHANGED <<disk, survivors, ready, committed, offset, lastTriggered>>

Poll ==
    /\ job.st # "failed"
    /\ committed' = IF PollTakes THEN job.rec ELSE committed
    /\ job' = IF PollTakes THEN NoJob ELSE job
    /\ UNCHANGED <<disk, survivors, ready, offset, lastTriggered, writeError>>

\* mark_target(logical), called just before the drive is triggered.
MayMark(logical) == Idle /\ MayTarget(logical)

\* mutant: the reference stays trusted while its record is withdrawn
InvalidateTrusted(id) ==
    /\ Idle
    /\ job' = Writing(Invalid(id))
    /\ UNCHANGED <<disk, survivors, ready, committed, offset, lastTriggered, writeError>>

\* invalidate() and set_reference() write in the calling thread; `job` is that
\* write.  Neither trusts the old reference once it has begun.
Invalidate(id) ==
    /\ Idle
    /\ ready' = FALSE
    /\ job' = Writing(Invalid(id))
    /\ UNCHANGED <<disk, survivors, committed, offset, lastTriggered, writeError>>

SetReference(id, raw, logical) ==
    /\ Idle
    /\ (logical - raw) % Period = 0
    /\ CheckWindow(Interval(id, logical, logical))
    /\ ready' = FALSE
    /\ job' = Writing(Interval(id, logical, logical))
    /\ UNCHANGED <<disk, survivors, committed, offset, lastTriggered, writeError>>

\* The rest of set_reference(raw, logical), after its write returned.
ReferenceSet(raw, logical) ==
    /\ job.st = "done"
    /\ offset' = logical - raw
    /\ committed' = job.rec
    /\ lastTriggered' = logical
    /\ ready' = TRUE
    /\ job' = NoJob
    /\ UNCHANGED <<disk, survivors, writeError>>

\* The process is gone: what it kept in memory, and its writer, go with it.
Forget ==
    /\ ready' = FALSE
    /\ committed' = NoJob.rec
    /\ offset' = 0
    /\ lastTriggered' = 0
    /\ job' = NoJob
    /\ writeError' = FALSE

MemoryTypeOK ==
    /\ disk \in Record
    /\ survivors \subseteq Record
    /\ disk \in survivors
    /\ committed \in Record
    /\ offset \in Int
    /\ lastTriggered \in Int
    /\ job \in Job
=============================================================================
