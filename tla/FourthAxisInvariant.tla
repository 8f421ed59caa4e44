-------------------------- MODULE FourthAxisInvariant --------------------------
(***************************************************************************)
(* The inductive invariants of FourthAxisSystem, in named parts.  Ordered  *)
(* is how the programs, the writer and the drive follow each other,        *)
(* whatever the shaft does; Truthful is what the record, the reference and *)
(* the shaft have to do with each other until a hold leads the shaft       *)
(* astray.  IInv joins them; InvAimed and InvLive rest on it.  TLC checks  *)
(* them as invariants; FourthAxis_proofs proves them inductive.            *)
(***************************************************************************)
EXTENDS FourthAxisSystem

\* A record restore() would accept for the installed drive covers the shaft.
Protects(rec) == Accepted(rec) => Covers(rec)

\* Nothing in the file, or about to be, is accepted for this drive.
NoneAccepted == \A rec \in survivors : ~Accepted(rec)

\* rec is the reservation made for the present target.
Reserves(rec) ==
    /\ Accepted(rec)
    /\ target \in Int
    /\ rec.lower + Tol <= target /\ target <= rec.upper - Tol

\* x is between a and b, or not further than the margin from one of them.
Near(x, a, b) == Least(a, b) - Tol <= x /\ x <= Greatest(a, b) + Tol

-----------------------------------------------------------------------------
InvShaft ==
    /\ motion = "still" => goal = shaft
    /\ motion = "hold" => ~Pending
    /\ frame % Period = 0

\* The progress of the write in flight is visible.
InvJob ==
    Pending =>
        /\ prog # "none"
        /\ job.st = "renamed" => disk = job.rec
        /\ job.st = "done" => disk = job.rec /\ survivors = {job.rec}

InvReady ==
    /\ ready => unsaved = 0 /\ prog # "none"
    /\ prog = "controller" /\ pc # "boot" => ready
    /\ prog \in {"none", "controller", "tool"} => ~writeError

\* A zero that a power cut would undo: no record speaks of either coordinate.
InvUnsaved ==
    unsaved # 0 =>
        /\ NoneAccepted
        /\ Pending => ~job.rec.valid
        /\ prog = "tool" => pc \notin {"saved", "referencing"}

\* Only a program that runs has a write of its own, or a direction.
InvStart ==
    /\ prog \in {"controller", "tool"} /\ pc \in {"boot", "enable", "hold", "halting", "holding", "moving"} =>
           ~Pending
    /\ prog = "controller" =>
           pc \in {"boot", "enable", "hold", "halting", "run", "advance"}
    /\ dir # 0 => prog = "controller" /\ pc \in {"run", "advance"}
    /\ prog = "controller" /\ pc = "hold" => motion \in {"still", "halt"}
    /\ prog = "controller" /\ pc \in {"run", "advance"} => motion # "hold"

\* The controller prepares a target only on an axis that has stood still since
\* its direction was chosen, and with its own write finished.
InvPhase ==
    prog = "controller" /\ pc \in {"run", "advance"} =>
        /\ phase # "idle" => ~wait
        /\ ~wait /\ motion # "still" => motion = "run"
        /\ phase \in {"staging", "triggering"} => ~Pending

InvZero ==
    prog = "tool" =>
        /\ pc \in {"holding", "serving", "stopping", "reserving", "triggering", "moving",
                   "boot", "invalidating", "zeroing", "saving", "saved", "referencing"}
        /\ pc = "stopping" => target \in Int /\ ready /\ ~Pending
        /\ pc = "reserving" => Pending /\ ready
        /\ pc = "triggering" => ~Pending /\ ready
        /\ pc = "serving" => ~Pending
        /\ pc \in {"invalidating", "zeroing", "saving", "saved", "referencing"} =>
               motion = "still" /\ ~ready
        /\ pc = "invalidating" => Pending /\ job.rec = Invalid(id)
        /\ pc \in {"zeroing", "saving", "saved"} => ~Pending /\ NoneAccepted
        /\ pc \in {"saving", "saved", "referencing"} => frame = 0
        /\ pc = "referencing" => Pending /\ job.rec = Interval(id, shaft, shaft)

Ordered ==
    /\ TypeOK
    /\ InvShaft /\ InvJob /\ InvReady /\ InvUnsaved /\ InvStart /\ InvPhase /\ InvZero

-----------------------------------------------------------------------------
\* What survives and what is being written are true, and the reference is.
TrueFile      == \A rec \in survivors : Protects(rec)
TrueJob       == Pending => Protects(job.rec)
TrueReference == ready => offset = frame

\* The controller knows where the shaft can be: at the last reading if it is
\* at rest, otherwise on the way to the target it triggered last.
TrueController ==
    prog = "controller" =>
        /\ pc = "hold" => \A rec \in survivors : Accepted(rec) => Contains(rec, pos)
        /\ pc \in {"run", "advance"} =>
            /\ ~wait /\ motion # "still" => goal = lastTriggered
            /\ pc = "advance" /\ slow => motion = "still" /\ pos = shaft
            /\ pc = "advance" /\ ~wait => Near(shaft, pos, lastTriggered)
            /\ phase = "queued" => IF Pending THEN Reserves(job.rec)
                                   ELSE survivors = {committed} /\ Reserves(committed)
            /\ phase \in {"staging", "triggering"} =>
                   survivors = {committed} /\ Reserves(committed)

TrueTool ==
    prog = "tool" =>
        /\ pc = "reserving" => Reserves(job.rec)
        /\ pc = "triggering" => survivors = {committed} /\ Reserves(committed)

Truthful ==
    ~astray => TrueFile /\ TrueJob /\ TrueReference /\ TrueController /\ TrueTool

IInv == Ordered /\ Truthful

-----------------------------------------------------------------------------
\* A target that waits for its trigger was computed in the direction that is
\* still held, from a position read since, and not beyond the limit.
InvAimed ==
    prog = "controller" /\ pc \in {"run", "advance"} =>
        /\ dir # 0 => ~Blocked(pos, dir)
        /\ phase \in {"queued", "staging", "triggering"} =>
               /\ dir # 0
               /\ (target - base) * dir \in 1..Step
               /\ dir > 0 => target <= Upper
               /\ dir < 0 => target >= 0

\* While a program trusts its reference, the interval that live feedback must
\* stay in is one that covers the shaft, what was read of it, and what is held.
InvLive ==
    ~astray /\ ready /\ prog \in {"controller", "tool"} =>
        /\ Accepted(committed) /\ Covers(committed)
        /\ ~Pending => committed \in survivors
        /\ Pending => Accepted(job.rec)
        /\ Controller("advance") => Contains(committed, pos)
        /\ prog = "tool" /\ pc \notin {"boot", "holding", "triggering"} =>
               Contains(committed, Logical(held))
=============================================================================
