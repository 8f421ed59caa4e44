------------------------------ MODULE OtaPublish ------------------------------
(***************************************************************************)
(* A release of the car program: packed into an archive and its checksum   *)
(* (car2/scripts/package_ota.py), then published on a download site        *)
(* (scripts/publish_ota.py).  The site is external: it lists files, and it *)
(* executes transfer tasks that go on when the publisher that created them *)
(* has given up.  A transfer writes its target in place, so the target is  *)
(* listed before it is complete.  Several publishing runs of one release   *)
(* may overlap: an earlier one timed out and was repeated.                 *)
(*                                                                         *)
(* The bytes of a file are one of: "ours", the file of this release;       *)
(* "torn", what an interrupted packing left locally; "partial", a transfer *)
(* under way or broken off; "other", a file that was on the site before.   *)
(***************************************************************************)
EXTENDS FiniteSets

CONSTANT Runs        \* the publishing runs of this release

ASSUME RunsAssumption == IsFiniteSet(Runs)

VARIABLES
    packing,   \* where the packing program is
    local,     \* the pair in the output directory
    pc, file,  \* where each publishing run is, and which file it is working on
    mode,      \* "put": upload the bytes; "pull": let the site fetch them
    existing,  \* the listing each run took before it began
    task,      \* the transfer each run created for each file
    obj        \* the files on the site

packageVars == <<packing, local>>
runVars == <<pc, file, existing>>
vars == <<packing, local, pc, file, mode, existing, task, obj>>

Files == {"archive", "checksum"}
Ended == {"published", "failed"}
Under == {"queued", "writing"}       \* a transfer that has not ended

Init ==
    /\ packing = "idle"
    /\ local = [f \in Files |-> "none"]
    /\ pc = [r \in Runs |-> "start"]
    /\ file = [r \in Runs |-> "archive"]
    /\ mode \in [Runs -> {"put", "pull"}]
    /\ existing = [r \in Runs |-> {}]
    /\ task = [r \in Runs |-> [f \in Files |-> "none"]]
    /\ obj \in [Files -> {"none", "other"}]

------------------------------------------------------------------------------
(* Packing *)

\* Neither file of the pair may exist; the archive is opened and filled.
PackArchive ==
    /\ packing = "idle" /\ local = [f \in Files |-> "none"]
    /\ packing' = "archive"
    /\ local' = [local EXCEPT !["archive"] = "torn"]

PackDigest ==
    /\ packing = "archive"
    /\ packing' = "digest"
    /\ local' = [local EXCEPT !["archive"] = "ours"]

PackChecksum ==
    \/ /\ packing = "digest" /\ packing' = "checksum"
       /\ local' = [local EXCEPT !["checksum"] = "torn"]
    \/ /\ packing = "checksum" /\ packing' = "idle"
       /\ local' = [local EXCEPT !["checksum"] = "ours"]

\* An error removes the archive, and leaves what there is of the checksum.
PackFails ==
    /\ packing # "idle"
    /\ packing' = "idle"
    /\ local' = [local EXCEPT !["archive"] = "none"]

\* Killed: nothing is removed.
PackKilled == packing # "idle" /\ packing' = "idle" /\ UNCHANGED local

Package ==
    /\ PackArchive \/ PackDigest \/ PackChecksum \/ PackFails \/ PackKilled
    /\ UNCHANGED <<runVars, mode, task, obj>>

------------------------------------------------------------------------------
(* The site *)

\* Mutant: the total of an incomplete listing is not compared.
ListingIncomplete == {}

Listing == {f \in Files : obj[f] # "none"}

TaskStarts(r, f) ==
    /\ task[r][f] = "queued"
    /\ task' = [task EXCEPT ![r][f] = "writing"]
    /\ obj' = [obj EXCEPT ![f] = "partial"]

\* Two transfers of one file may be writing it: until the last one ends, it may
\* be incomplete.
TaskLands(r, f) ==
    /\ task[r][f] = "writing"
    /\ task' = [task EXCEPT ![r][f] = "landed"]
    /\ \E bytes \in {local[f]} \cup
                    (IF \E s \in Runs \ {r} : task[s][f] = "writing" THEN {"partial"} ELSE {}) :
          obj' = [obj EXCEPT ![f] = bytes]

TaskDrops(r, f) ==
    /\ task[r][f] \in Under
    /\ task' = [task EXCEPT ![r][f] = "dropped"]
    /\ IF task[r][f] = "queued" THEN UNCHANGED obj
       ELSE \E bytes \in {"none", "partial"} : obj' = [obj EXCEPT ![f] = bytes]

Site ==
    /\ \E r \in Runs, f \in Files : TaskStarts(r, f) \/ TaskLands(r, f) \/ TaskDrops(r, f)
    /\ UNCHANGED <<packageVars, runVars, mode>>

------------------------------------------------------------------------------
(* A publishing run *)

GoTo(r, step) == pc' = [pc EXCEPT ![r] = step]

\* The first step of sending f.
Sending(r) == IF mode[r] = "put" THEN "send" ELSE "recheck"

\* publish(): both local files, and the checksum describes the archive; then
\* login, the account's directory and mkdir, which change nothing here.
Start(r) ==
    /\ pc[r] = "start"
    /\ GoTo(r, IF \A f \in Files : local[f] = "ours" THEN "list" ELSE "failed")
    /\ UNCHANGED <<file, existing, task>>

List(r) ==
    /\ pc[r] = "list"
    /\ existing' = [existing EXCEPT ![r] = Listing]
    /\ GoTo(r, "guest")
    /\ UNCHANGED <<file, task>>

\* The anonymous listing works; a checksum without its archive is refused.
Guest(r) ==
    /\ pc[r] = "guest"
    /\ GoTo(r, IF existing[r] = {"checksum"} THEN "failed"
               ELSE IF "archive" \in existing[r] THEN "verify" ELSE Sending(r))
    /\ UNCHANGED <<file, existing, task>>

\* PUT with Overwrite: false.  The request is never repeated: when its answer is
\* lost, the task is on the site and the run fails.
Send(r) ==
    /\ pc[r] = "send"
    /\ IF file[r] \in Listing THEN GoTo(r, "failed") /\ UNCHANGED task
       ELSE /\ task' = [task EXCEPT ![r][file[r]] = "queued"]
            /\ GoTo(r, "wait") \/ GoTo(r, "failed")
    /\ UNCHANGED <<file, existing>>

\* pull() looks again at the directory: an offline download overwrites.
Recheck(r) ==
    /\ pc[r] = "recheck"
    /\ GoTo(r, IF file[r] \in Listing THEN "verify" ELSE "add")
    /\ UNCHANGED <<file, existing, task>>

Add(r) ==
    /\ pc[r] = "add"
    /\ task' = [task EXCEPT ![r][file[r]] = "queued"]
    /\ GoTo(r, "wait") \/ GoTo(r, "failed")
    /\ UNCHANGED <<file, existing>>

\* An upload task succeeds when the file is there.  An offline download may
\* report success, or have no task at all, while its transfer still runs.
Wait(r) ==
    /\ pc[r] = "wait"
    /\ LET t == task[r][file[r]]
       IN \/ t = "dropped" /\ GoTo(r, "failed")
          \/ mode[r] = "put" /\ t = "landed" /\ GoTo(r, "verify")
          \/ mode[r] = "pull" /\ GoTo(r, "settle")
    /\ UNCHANGED <<file, existing, task>>

\* The listing shows the size of the local file: "other" may have it as well.
Settle(r) ==
    /\ pc[r] = "settle" /\ obj[file[r]] \in {local[file[r]], "other"}
    /\ GoTo(r, "verify")
    /\ UNCHANGED <<file, existing, task>>

\* Mutant: no deadline for the transfer that follows an offline download.
DeadlineOfTask(r) ==
    /\ pc[r] \in {"recheck", "add", "wait"}
    /\ GoTo(r, "failed")
    /\ UNCHANGED <<file, existing, task>>

\* An upload or an offline transfer has 15 minutes.
Deadline(r) ==
    /\ pc[r] \in {"recheck", "add", "wait", "settle"}
    /\ GoTo(r, "failed")
    /\ UNCHANGED <<file, existing, task>>

\* Mutant: only the size the listing shows is compared.
VerifySize(r) ==
    /\ pc[r] = "verify"
    /\ GoTo(r, IF obj[file[r]] \in {local[file[r]], "other"} THEN "look" ELSE "failed")
    /\ UNCHANGED <<file, existing, task>>

\* The whole file is read through the robots' interface and hashed.
Verify(r) ==
    /\ pc[r] = "verify"
    /\ GoTo(r, IF obj[file[r]] = local[file[r]] THEN "look" ELSE "failed")
    /\ UNCHANGED <<file, existing, task>>

\* The anonymous listing has the archive: then the checksum, unless it was there;
\* it has the pair: the release is published.
Look(r) ==
    /\ pc[r] = "look"
    /\ \/ /\ file[r] = "archive" /\ "archive" \in Listing
          /\ file' = [file EXCEPT ![r] = "checksum"]
          /\ GoTo(r, IF "checksum" \in existing[r] THEN "verify" ELSE Sending(r))
       \/ /\ file[r] = "checksum" /\ Listing = Files
          /\ GoTo(r, "published") /\ UNCHANGED file
       \/ /\ ~ (file[r] = "archive" /\ "archive" \in Listing) /\ Listing # Files
          /\ GoTo(r, "failed") /\ UNCHANGED file
    /\ UNCHANGED <<existing, task>>

\* api(): four attempts, or one for a request that must not be repeated, failed,
\* or the answer was refused; or the job was killed.
Broken(r) ==
    /\ pc[r] \notin Ended
    /\ GoTo(r, "failed")
    /\ UNCHANGED <<file, existing, task>>

Advance(r) ==
    \/ Start(r) \/ List(r) \/ Guest(r) \/ Send(r) \/ Recheck(r) \/ Add(r)
    \/ Wait(r) \/ Settle(r) \/ Deadline(r) \/ Verify(r) \/ Look(r)

Publish(r) == Advance(r) /\ UNCHANGED <<packageVars, mode, obj>>

Interrupted(r) == Broken(r) /\ UNCHANGED <<packageVars, mode, obj>>

PublishNext == Package \/ Site \/ \E r \in Runs : Publish(r) \/ Interrupted(r)

------------------------------------------------------------------------------
(* Properties *)

\* Robots offer a release when they list the archive and its checksum.  When they
\* do, the archive is the complete one, unless a second transfer of the same
\* archive is rewriting it or broke off: one run timed out, and its task ran on
\* after the repetition had published.
Pair == obj["archive"] # "none" /\ obj["checksum"] = "ours"
SecondTransfer ==
    \E r, s \in Runs : r # s /\ task[r]["archive"] = "landed"
                              /\ task[s]["archive"] \in {"writing", "dropped"}
PairIsComplete == Pair => obj["archive"] = "ours" \/ SecondTransfer

\* A file that was on the site under the release's name is never overwritten,
\* and its archive never gets a checksum of ours.
OthersAreKept ==
    [][\A f \in Files : obj[f] = "other" => obj'[f] = "other" /\ ~ Pair']_vars

\* Every publishing run ends, whatever the site does with its tasks.
RunsEnd == \A r \in Runs : <>(pc[r] \in Ended)
==============================================================================
