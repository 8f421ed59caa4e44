---------------------------- MODULE TorqueReports ----------------------------
(***************************************************************************)
(* The directory of torque recordings.  The car program records (class     *)
(* ArmTorqueLog): a session is written as .part under a lock and linked    *)
(* under its final name when it is complete.  tools/arm_torque_report.py,  *)
(* started by the car program before and after its work, and by hand,      *)
(* recovers the sessions of programs that died, prunes old ones, and draws *)
(* a picture (.png) with its summary (.json) of the newest.  Any of them   *)
(* may be killed, and they run at the same time.                           *)
(*                                                                         *)
(* Sessions are numbered in the order of their names.  .part and .csv of a *)
(* session are two names of one file, to which the lock belongs.           *)
(***************************************************************************)
EXTENDS Naturals, FiniteSets, FiniteSetsExt

CONSTANTS
    Sessions,    \* 1 .. the number of recordings followed
    Reporters,   \* runs of the report program that may overlap
    Keep         \* how many sessions are kept

NoOne == "none"

ASSUME SessionsAssumption == Sessions \subseteq Nat \ {0}
ASSUME ReportersAssumption == Reporters \cap {NoOne, "recorder"} = {}
ASSUME KeepAssumption == Keep \in Nat

VARIABLES
    part, csv,   \* the sessions that have this name
    lock,        \* who holds the lock of a session's file
    data,        \* what a session's file holds: it is unmade, empty or has samples
    json,        \* the summaries: "none", "other" (not written by the report program),
                 \* "empty" (no samples, so no picture), "old" (an older version's), "report"
    png,         \* the pictures: "none", "other", "plot"
    rec,         \* the recorder: its step and its session
    rp,          \* each report run: its step, its sessions left, the current one
    broken       \* history: sessions at which a report failed or was killed, or that
                 \* one run pruned while another drew their picture
reportsVars == <<part, csv, lock, data, json, png, rec, rp, broken>>

\* Another program may have put files of its own under the names of the outputs.
ReportsInit ==
    /\ part = {} /\ csv = {} /\ broken = {}
    /\ lock = [s \in Sessions |-> NoOne] /\ data = [s \in Sessions |-> "unmade"]
    /\ json \in [Sessions -> {"none", "other"}] /\ png \in [Sessions -> {"none", "other"}]
    /\ Cardinality({s \in Sessions : json[s] # "none" \/ png[s] # "none"}) <= 1
    /\ rec = [at |-> "idle", s |-> 0]
    /\ rp = [p \in Reporters |-> [at |-> "off", left |-> {}, s |-> 0]]

------------------------------------------------------------------------------
(* The recorder *)

\* The temporary name is created and locked.  Reports do not look at such names.
RecOpen ==
    /\ rec.at = "idle" /\ rec.s + 1 \in Sessions
    /\ rec' = [at |-> "temp", s |-> rec.s + 1]
    /\ lock' = [lock EXCEPT ![rec.s + 1] = "recorder"]
    /\ UNCHANGED <<part, csv, data>>

\* .part is linked, the temporary name removed, the header written.
RecLink ==
    /\ rec.at = "temp"
    /\ part' = part \cup {rec.s}
    /\ data' = [data EXCEPT ![rec.s] = "empty"]
    /\ rec' = [rec EXCEPT !.at = "recording"]
    /\ UNCHANGED <<csv, lock>>

RecRow ==
    /\ rec.at = "recording" /\ data[rec.s] = "empty"
    /\ data' = [data EXCEPT ![rec.s] = "samples"]
    /\ UNCHANGED <<part, csv, lock, rec>>

\* finish(): the file is synced, and closed under a second handle of the lock.
RecSync ==
    /\ rec.at = "recording"
    /\ rec' = [rec EXCEPT !.at = "synced"]
    /\ UNCHANGED <<part, csv, lock, data>>

RecComplete ==
    /\ rec.at = "synced"
    /\ csv' = csv \cup {rec.s}
    /\ rec' = [rec EXCEPT !.at = "complete"]
    /\ UNCHANGED <<part, lock, data>>

\* The end of finish(), or of the program; a write that failed ends it early.
RecUnlock ==
    /\ rec' = [rec EXCEPT !.at = "idle"]
    /\ lock' = [lock EXCEPT ![rec.s] = NoOne]

RecEnd ==
    /\ rec.at = "complete"
    /\ part' = part \ {rec.s}
    /\ RecUnlock /\ UNCHANGED <<csv, data>>

RecDies == rec.at # "idle" /\ RecUnlock /\ UNCHANGED <<part, csv, data>>

Recorder ==
    /\ RecOpen \/ RecLink \/ RecRow \/ RecSync \/ RecComplete \/ RecEnd \/ RecDies
    /\ UNCHANGED <<json, png, rp, broken>>

------------------------------------------------------------------------------
(* A report run *)

\* Mutant: the names are sorted the other way.
Oldest == {s \in csv : Cardinality({t \in csv : t < s}) < Keep}

Newest == {s \in csv : Cardinality({t \in csv : t > s}) < Keep}

NamesPicture(s) == json[s] \in {"old", "report"}           \* generated_png_for
Generated(s) == json[s] \in {"empty", "old", "report"}
Complete(s) == json[s] = "report" /\ png[s] # "none"

Working(s, steps) == \E p \in Reporters : rp[p].at \in steps /\ rp[p].s = s

At(p, step) == rp' = [rp EXCEPT ![p].at = step]
Next1(p, step) == rp' = [rp EXCEPT ![p].at = step, ![p].left = @ \ {rp[p].s}]
Enter(p, step, todo) == rp' = [rp EXCEPT ![p] = [at |-> step, left |-> todo, s |-> 0]]

RunStarts(p) ==
    /\ rp[p].at = "off"
    /\ Enter(p, "recover", part)
    /\ UNCHANGED <<part, csv, lock, json, png, broken>>

\* The next .part in the order of names, opened unless it is gone or complete.
RecoverOpens(p) ==
    /\ rp[p].at = "recover" /\ rp[p].left # {}
    /\ LET s == Min(rp[p].left)
       IN rp' = IF s \in csv \/ s \notin part THEN [rp EXCEPT ![p].left = @ \ {s}]
                ELSE [rp EXCEPT ![p].at = "opened", ![p].s = s]
    /\ UNCHANGED <<part, csv, lock, json, png, broken>>

\* Mutant: the file is taken without its lock.
RecoverTakes(p) ==
    /\ rp[p].at = "opened"
    /\ At(p, "locked")
    /\ UNCHANGED <<part, csv, lock, json, png, broken>>

\* flock(LOCK_EX | LOCK_NB)
RecoverLocks(p) ==
    /\ rp[p].at = "opened"
    /\ LET s == rp[p].s
       IN IF lock[s] # NoOne THEN Next1(p, "recover") /\ UNCHANGED lock
          ELSE lock' = [lock EXCEPT ![s] = p] /\ At(p, "locked")
    /\ UNCHANGED <<part, csv, json, png, broken>>

\* .part is still this file, and the final name is free.
RecoverLinks(p) ==
    /\ rp[p].at = "locked"
    /\ LET s == rp[p].s
       IN IF s \in part /\ s \notin csv
          THEN csv' = csv \cup {s} /\ At(p, "recovered") /\ UNCHANGED lock
          ELSE lock' = [lock EXCEPT ![s] = NoOne] /\ Next1(p, "recover") /\ UNCHANGED csv
    /\ UNCHANGED <<part, json, png, broken>>

RecoverUnlinks(p) ==
    /\ rp[p].at = "recovered"
    /\ part' = part \ {rp[p].s}
    /\ lock' = [lock EXCEPT ![rp[p].s] = NoOne]
    /\ Next1(p, "recover")
    /\ UNCHANGED <<csv, json, png, broken>>

\* cleanup_old_reports(): the names are listed once.
PruneStarts(p) ==
    /\ rp[p].at = "recover" /\ rp[p].left = {}
    /\ Enter(p, "prune", csv \ Newest)
    /\ UNCHANGED <<part, csv, lock, json, png, broken>>

\* The picture goes first, if the summary names it; then the summary, if it is
\* generated; then the recording.
PrunePng(p) ==
    /\ rp[p].at = "prune" /\ rp[p].left # {}
    /\ LET s == Max(rp[p].left)
       IN /\ png' = IF NamesPicture(s) THEN [png EXCEPT ![s] = "none"] ELSE png
          /\ rp' = [rp EXCEPT ![p].at = "json", ![p].s = s]
          /\ broken' = IF Working(s, {"draw", "summary"}) THEN broken \cup {s} ELSE broken
    /\ UNCHANGED <<part, csv, lock, json>>

PruneJson(p) ==
    /\ rp[p].at = "json"
    /\ json' = IF Generated(rp[p].s) THEN [json EXCEPT ![rp[p].s] = "none"] ELSE json
    /\ At(p, "csv")
    /\ UNCHANGED <<part, csv, lock, png, broken>>

\* Another run may have removed it: the run ends with an exception.
PruneCsv(p) ==
    /\ rp[p].at = "csv"
    /\ IF rp[p].s \in csv THEN csv' = csv \ {rp[p].s} /\ Next1(p, "prune")
       ELSE UNCHANGED csv /\ Enter(p, "off", {})
    /\ UNCHANGED <<part, lock, json, png, broken>>

GenerateStarts(p) ==
    /\ rp[p].at = "prune" /\ rp[p].left = {}
    /\ Enter(p, "generate", Newest)
    /\ UNCHANGED <<part, csv, lock, json, png, broken>>

\* Mutant: the summary is written before the picture.
GenerateReadsOnly(p) ==
    /\ rp[p].at = "generate" /\ rp[p].left # {}
    /\ LET s == Min(rp[p].left)
       IN rp' = IF Complete(s) THEN [rp EXCEPT ![p].left = @ \ {s}]
                ELSE [rp EXCEPT ![p].at = "summary", ![p].s = s]
    /\ UNCHANGED <<part, csv, lock, json, png, broken>>

\* generate_missing_for(), oldest first: a report that is complete is left; the
\* recording is read; a picture that no summary names is not overwritten.
GenerateReads(p) ==
    /\ rp[p].at = "generate" /\ rp[p].left # {}
    /\ LET s == Min(rp[p].left)
       IN rp' = IF Complete(s) \/ s \notin csv \/ (data[s] = "samples" /\ png[s] # "none" /\ ~ NamesPicture(s))
                THEN [rp EXCEPT ![p].left = @ \ {s}]
                ELSE [rp EXCEPT ![p].at = IF data[s] = "samples" THEN "draw" ELSE "summary", ![p].s = s]
    /\ UNCHANGED <<part, csv, lock, json, png, broken>>

GenerateDraws(p) ==
    /\ rp[p].at = "draw"
    /\ LET s == rp[p].s
       IN /\ png' = [png EXCEPT ![s] = "plot"]
          /\ broken' = IF s \notin csv \/ Working(s, {"json", "csv"}) THEN broken \cup {s}
                       ELSE broken
    /\ At(p, "summary")
    /\ UNCHANGED <<part, csv, lock, json>>

\* write_summary(): a summary that was not generated is not overwritten.
GenerateWrites(p) ==
    /\ rp[p].at = "summary"
    /\ LET s == rp[p].s
       IN IF json[s] = "other" THEN UNCHANGED json /\ broken' = broken \cup {s}
          ELSE /\ json' = [json EXCEPT ![s] = IF data[s] = "samples" THEN "report" ELSE "empty"]
               /\ UNCHANGED broken
    /\ Next1(p, "generate")
    /\ UNCHANGED <<part, csv, lock, png>>

\* Drawing or writing failed: the others are still tried.
GenerateFails(p) ==
    /\ rp[p].at \in {"draw", "summary"}
    /\ broken' = broken \cup {rp[p].s}
    /\ Next1(p, "generate")
    /\ UNCHANGED <<part, csv, lock, json, png>>

RunEnds(p) ==
    /\ rp[p].at = "generate" /\ rp[p].left = {}
    /\ Enter(p, "off", {})
    /\ UNCHANGED <<part, csv, lock, json, png, broken>>

\* The run is killed, or an error it does not expect ends it.
RunDies(p) ==
    /\ rp[p].at # "off"
    /\ Enter(p, "off", {})
    /\ lock' = [s \in Sessions |-> IF lock[s] = p THEN NoOne ELSE lock[s]]
    /\ broken' = IF rp[p].at \in {"draw", "summary"} THEN broken \cup {rp[p].s} ELSE broken
    /\ UNCHANGED <<part, csv, json, png>>

Report(p) ==
    /\ \/ RunStarts(p) \/ RecoverOpens(p) \/ RecoverLocks(p) \/ RecoverLinks(p)
       \/ RecoverUnlinks(p) \/ PruneStarts(p) \/ PrunePng(p) \/ PruneJson(p) \/ PruneCsv(p)
       \/ GenerateStarts(p) \/ GenerateReads(p) \/ GenerateDraws(p) \/ GenerateWrites(p)
       \/ GenerateFails(p) \/ RunEnds(p) \/ RunDies(p)
    /\ UNCHANGED <<data, rec>>

\* A program with a new REPORT_VERSION is installed.
Upgrade ==
    /\ \A p \in Reporters : rp[p].at = "off"
    /\ json' = [s \in Sessions |-> IF json[s] = "report" THEN "old" ELSE json[s]]
    /\ UNCHANGED <<part, csv, lock, data, png, rec, rp, broken>>

ReportsNext == Recorder \/ Upgrade \/ \E p \in Reporters : Report(p)

ReportsSpec == ReportsInit /\ [][ReportsNext]_reportsVars

------------------------------------------------------------------------------
(* Properties *)

\* The file a recorder is writing keeps its .part name and gets its final name
\* from that recorder alone, whatever report runs see of it in between.
LiveIsLeftAlone ==
    rec.at \in {"recording", "synced"} => rec.s \in part /\ rec.s \notin csv

\* A session that was recorded and has no name any more was pruned for at least
\* Keep newer ones: no crash, recovery or overlap loses one of the newest.
Gone(s) == data[s] # "unmade" /\ s \notin part \cup csv
NothingLost ==
    \A s \in Sessions : Gone(s) =>
        Cardinality({t \in Sessions : t > s /\ (t \in csv \/ Gone(t))}) >= Keep

\* The summary of a session that is kept never names a picture that is missing.
KeptReportIsWhole == \A s \in Newest : NamesPicture(s) => png[s] # "none"

\* A picture without a summary that names it, which no later run replaces or
\* removes, is left only where a report failed or was killed.
PictureHasItsSummary ==
    \A s \in Sessions : png[s] = "plot" /\ ~ NamesPicture(s) =>
        s \in broken \/ Working(s, {"summary"})
==============================================================================
