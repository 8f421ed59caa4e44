------------------------------ MODULE Files_proofs ------------------------------
(***************************************************************************)
(* Proofs about what outlives the programs: the releases on the site, the  *)
(* persistent files of a robot and its torque recordings, for any names,   *)
(* any number of overlapping runs and however many of them are killed.     *)
(*                                                                         *)
(* First the installation by itself (InstallSpec of Postinstall): a file   *)
(* is seeded whole, once, and from the older machine first.  Then the      *)
(* release (OtaRelease): what robots are offered is complete, what was on  *)
(* the site is kept, and the robot's part implements InstallSpec, so that  *)
(* the theorems about the installation hold there too.  Last, and by       *)
(* themselves, the recordings (ReportsSpec of TorqueReports).              *)
(***************************************************************************)
EXTENDS OtaRelease, TorqueReports, FiniteSetTheorems, WellFoundedInduction, TLAPS


------------------------------------------------------------------------------
(* The installation *)

\* One file at a time is open, it is not filled yet, and between installations
\* none is open and none is left to be copied.
OneIsOpen ==
    /\ \A f, g \in copying : f = g
    /\ \A f \in copying : target[f] = "torn"
    /\ stage \in {"idle", "installed"} => copying = {} /\ todo = {}

\* Before the defaults come, a file of the older tree is copied, being copied or
\* still to be copied, and in the last case nothing has been put in its place.
CopyingOld == stage \in {"old settings", "old state"}
OldOnItsWay ==
    stage # "idle" /\ migrating =>
        \A f \in oldTree : before[f] = "none" =>
            \/ target[f] = "old"
            \/ CopyingOld /\ f \in copying
            \/ CopyingOld /\ f \in todo /\ target[f] = "none"
            \/ stage = "old settings" /\ f \in State /\ target[f] = "none"

InstallInv == InstallTypeOK /\ OneIsOpen /\ SeededWhole /\ OldOnItsWay

LEMMA InitHolds == InstallInit => InstallInv
  BY DEF InstallInit, InstallInv, InstallTypeOK, OneIsOpen, SeededWhole, OldOnItsWay,
         Stages, Contents, Names

LEMMA StartInstallPreserves == InstallInv /\ StartInstall => InstallInv'
  <1> SUFFICES ASSUME InstallInv, StartInstall PROVE InstallInv'
    OBVIOUS
  <1> USE DEF InstallInv, InstallTypeOK, Names, Stages, Contents
  <1>1. InstallTypeOK'
    BY DEF StartInstall, First
  <1>2. OneIsOpen'
    BY DEF StartInstall, First, OneIsOpen
  <1>3. SeededWhole'
    BY DEF StartInstall, First, OneIsOpen, SeededWhole
  <1>4. ASSUME migrating', NEW f \in oldTree', before'[f] = "none" PROVE
          \/ CopyingOld' /\ f \in todo' /\ target'[f] = "none"
          \/ stage' = "old settings" /\ f \in State /\ target'[f] = "none"
    <2>1. f \in Names /\ stage' = "old settings" /\ target'[f] = "none"
      BY <1>4 DEF StartInstall, First
    <2>2. f \in Settings => f \in todo'
      BY <1>4 DEF StartInstall
    <2> QED
      BY <2>1, <2>2 DEF CopyingOld
  <1>5. OldOnItsWay'
    BY <1>4 DEF OldOnItsWay
  <1> QED
    BY <1>1, <1>2, <1>3, <1>5

LEMMA OwnFilePreserves == InstallInv /\ OwnFile => InstallInv'
  <1> SUFFICES ASSUME InstallInv, OwnFile PROVE InstallInv'
    OBVIOUS
  <1> USE DEF InstallInv, InstallTypeOK, Names, Stages, Contents
  <1>1. InstallTypeOK'
    BY DEF OwnFile, Over
  <1>2. OneIsOpen'
    BY DEF OwnFile, Over, OneIsOpen
  <1>3. SeededWhole'
    BY DEF OwnFile, Over, OneIsOpen, SeededWhole
  <1>4. OldOnItsWay'
    BY DEF OwnFile, Over, OneIsOpen, OldOnItsWay, CopyingOld
  <1> QED
    BY <1>1, <1>2, <1>3, <1>4

LEMMA CopyOpensPreserves == InstallInv /\ CopyOpens => InstallInv'
  <1> SUFFICES ASSUME InstallInv, CopyOpens PROVE InstallInv'
    OBVIOUS
  <1> USE DEF InstallInv, InstallTypeOK, Names, Stages, Contents
  <1>1. InstallTypeOK'
    <2>1. PICK f \in todo :
            /\ todo' = todo \ {f}
            /\ \/ /\ copying' = {f} /\ cached' = cached \cup {f}
                  /\ target' = [target EXCEPT ![f] = "torn"]
               \/ UNCHANGED <<copying, cached, target>>
      BY DEF CopyOpens
    <2>2. UNCHANGED <<oldTree, stage, migrating, before, caught>>
      BY DEF CopyOpens
    <2>3. copying' \subseteq Names /\ cached' \subseteq Names /\ todo' \subseteq Names
      BY <2>1
    <2>4. target' \in [Names -> Contents]
      BY <2>1
    <2> QED
      BY <2>2, <2>3, <2>4
  <1>2. OneIsOpen'
    <2> PICK f \in todo :
           IF target[f] = "none"
           THEN copying' = {f} /\ target' = [target EXCEPT ![f] = "torn"]
           ELSE UNCHANGED <<copying, target>>
      BY DEF CopyOpens
    <2>1. copying = {} /\ UNCHANGED stage /\ stage \notin {"idle", "installed"}
      BY DEF CopyOpens, OneIsOpen
    <2>2. f \in Names
      OBVIOUS
    <2>3. \A g \in copying' : g = f /\ target'[g] = "torn"
      BY <2>1, <2>2
    <2> QED
      BY <2>1, <2>3 DEF OneIsOpen
  <1>3. SeededWhole'
    BY DEF CopyOpens, OneIsOpen, SeededWhole
  <1>4. OldOnItsWay'
    BY DEF CopyOpens, OneIsOpen, OldOnItsWay, CopyingOld
  <1> QED
    BY <1>1, <1>2, <1>3, <1>4

LEMMA CopyFillsPreserves == InstallInv /\ CopyFills => InstallInv'
  <1> SUFFICES ASSUME InstallInv, CopyFills PROVE InstallInv'
    OBVIOUS
  <1> USE DEF InstallInv, InstallTypeOK, Names, Stages, Contents
  <1>a. PICK h \in copying : target' = [target EXCEPT ![h] = Source(stage)]
    BY DEF CopyFills
  <1>b. /\ copying' = {} /\ cached' = cached \cup copying
        /\ UNCHANGED <<oldTree, stage, todo, migrating, before, caught>>
        /\ Source(stage) \in {"default", "old"}
    BY DEF CopyFills, Source
  <1>1. InstallTypeOK'
    BY <1>a, <1>b
  <1>2. OneIsOpen'
    BY <1>b DEF OneIsOpen
  <1>3. SeededWhole'
    <2>1. ASSUME NEW f \in Names, target'[f] = "torn" PROVE f \in caught'
      <3>1. f # h /\ target[f] = "torn"
        BY <1>a, <1>b, <2>1
      <3>2. f \notin copying
        BY <3>1 DEF OneIsOpen
      <3> QED
        BY <1>b, <3>1, <3>2 DEF SeededWhole
    <2> QED
      BY <2>1 DEF SeededWhole
  <1>4. ASSUME migrating, NEW f \in oldTree, before[f] = "none",
               target[f] = "old" \/ CopyingOld
        PROVE  target'[f] = "old" \/ (f \notin copying /\ UNCHANGED target[f])
    <2> PICK g \in copying : target' = [target EXCEPT ![g] = Source(stage)]
      BY DEF CopyFills
    <2>1. CASE f = g
      BY <1>4, <2>1 DEF OneIsOpen, CopyingOld, Source
    <2>2. CASE f # g
      BY <2>2 DEF OneIsOpen
    <2> QED
      BY <2>1, <2>2
  <1>5. UNCHANGED <<oldTree, stage, todo, migrating, before>>
    BY DEF CopyFills
  <1>6. OldOnItsWay'
    BY <1>4, <1>5 DEF OldOnItsWay, CopyingOld
  <1> QED
    BY <1>1, <1>2, <1>3, <1>6

LEMMA NextStagePreserves == InstallInv /\ NextStage => InstallInv'
  <1> SUFFICES ASSUME InstallInv, NextStage PROVE InstallInv'
    OBVIOUS
  <1> USE DEF InstallInv, InstallTypeOK, Names, Stages, Contents
  <1>1. InstallTypeOK'
    BY DEF NextStage, After, Copied
  <1>2. OneIsOpen'
    BY DEF NextStage, After, Copied, OneIsOpen
  <1>3. SeededWhole'
    BY DEF NextStage, After, Copied, OneIsOpen, SeededWhole
  <1>4. OldOnItsWay'
    BY DEF NextStage, After, Copied, OneIsOpen, OldOnItsWay, CopyingOld
  <1> QED
    BY <1>1, <1>2, <1>3, <1>4

LEMMA InstallFailsPreserves == InstallInv /\ InstallFails => InstallInv'
  <1> SUFFICES ASSUME InstallInv, InstallFails PROVE InstallInv'
    OBVIOUS
  <1> USE DEF InstallInv, InstallTypeOK, Names, Stages, Contents
  <1>1. InstallTypeOK'
    BY DEF InstallFails, Over
  <1>2. OneIsOpen'
    BY DEF InstallFails, Over, OneIsOpen
  <1>3. SeededWhole'
    BY DEF InstallFails, Over, OneIsOpen, SeededWhole
  <1>4. OldOnItsWay'
    BY DEF InstallFails, Over, OneIsOpen, OldOnItsWay, CopyingOld
  <1> QED
    BY <1>1, <1>2, <1>3, <1>4

LEMMA InstallKilledPreserves == InstallInv /\ InstallKilled => InstallInv'
  <1> SUFFICES ASSUME InstallInv, InstallKilled PROVE InstallInv'
    OBVIOUS
  <1> USE DEF InstallInv, InstallTypeOK, Names, Stages, Contents
  <1>1. InstallTypeOK'
    BY DEF InstallKilled, Over
  <1>2. OneIsOpen'
    BY DEF InstallKilled, Over, OneIsOpen
  <1>3. SeededWhole'
    BY DEF InstallKilled, Over, OneIsOpen, SeededWhole
  <1>4. OldOnItsWay'
    BY DEF InstallKilled, Over, OneIsOpen, OldOnItsWay, CopyingOld
  <1> QED
    BY <1>1, <1>2, <1>3, <1>4

LEMMA WrittenBackPreserves == InstallInv /\ WrittenBack => InstallInv'
  <1> SUFFICES ASSUME InstallInv, WrittenBack PROVE InstallInv'
    OBVIOUS
  <1>1. UNCHANGED <<oldTree, target, stage, todo, copying, migrating, before, caught>>
    BY DEF WrittenBack
  <1>2. cached' \subseteq cached
    BY DEF WrittenBack
  <1> QED
    BY <1>1, <1>2 DEF InstallInv, InstallTypeOK, OneIsOpen, SeededWhole, OldOnItsWay, CopyingOld

LEMMA PowerFailsPreserves == InstallInv /\ PowerFails => InstallInv'
  <1> SUFFICES ASSUME InstallInv, PowerFails PROVE InstallInv'
    OBVIOUS
  <1> USE DEF InstallInv, InstallTypeOK, Stages, Contents
  <1>1. PICK gone \in SUBSET cached, emptied \in SUBSET cached :
          target' = [f \in Names |-> IF f \in gone THEN "none"
                                     ELSE IF f \in emptied THEN "torn" ELSE target[f]]
    BY DEF PowerFails
  <1>2. /\ caught' = caught \cup copying \cup cached /\ cached' = {}
        /\ stage' = "idle" /\ todo' = {} /\ copying' = {}
        /\ migrating' = FALSE /\ oldTree' = {} /\ before' = target'
    BY DEF PowerFails, Over
  <1>3. InstallTypeOK'
    BY <1>1, <1>2
  <1>4. ASSUME NEW f \in Names, target'[f] = "torn" PROVE f \in caught'
    <2>1. f \in cached \/ target[f] = "torn"
      BY <1>1, <1>4
    <2> QED
      BY <1>2, <1>4, <2>1 DEF SeededWhole
  <1>5. OneIsOpen' /\ SeededWhole' /\ OldOnItsWay'
    BY <1>2, <1>4 DEF OneIsOpen, SeededWhole, OldOnItsWay
  <1> QED
    BY <1>3, <1>5

LEMMA StepPreserves == InstallInv /\ [InstallNext]_installVars => InstallInv'
  <1> SUFFICES ASSUME InstallInv, [InstallNext]_installVars PROVE InstallInv'
    OBVIOUS
  <1>1. CASE UNCHANGED installVars
    BY <1>1 DEF installVars, InstallInv, InstallTypeOK, OneIsOpen, SeededWhole, OldOnItsWay,
                CopyingOld
  <1>2. CASE InstallNext
    BY <1>2, StartInstallPreserves, OwnFilePreserves, CopyOpensPreserves, CopyFillsPreserves,
       NextStagePreserves, InstallFailsPreserves, InstallKilledPreserves,
       WrittenBackPreserves, PowerFailsPreserves
       DEF InstallNext, InstallGoesOn
  <1> QED
    BY <1>1, <1>2

\* The invariant is inductive.
LEMMA InstallInvariance == InstallSpec => []InstallInv
  <1> QED
    BY InitHolds, StepPreserves, PTL DEF InstallSpec

\* Every reachable state is well typed.
THEOREM InstallTypeCorrect == InstallSpec => []InstallTypeOK
  <1>1. InstallInv => InstallTypeOK
    BY DEF InstallInv
  <1> QED
    BY <1>1, InstallInvariance, PTL

\* However often installations are begun, fail or are killed, or the power is
\* cut, an incomplete file is the one being copied or one that a kill or a power
\* cut came upon. (postinstall.py:12, copy_missing)
THEOREM SeededAlwaysWhole == InstallSpec => []SeededWhole
  <1>1. InstallInv => SeededWhole
    BY DEF InstallInv
  <1> QED
    BY <1>1, InstallInvariance, PTL

\* After an installation with --migrate-from no default stands in the place of a
\* file of the older tree. (postinstall.py:32, main)
THEOREM OldMachineAlwaysFirst == InstallSpec => []OldMachineFirst
  <1>1. InstallInv => OldMachineFirst
    BY DEF InstallInv, OldOnItsWay, OldMachineFirst, CopyingOld
  <1> QED
    BY <1>1, InstallInvariance, PTL

\* No step of any installation changes a file that is complete, but for a power
\* cut before the file was written back. (postinstall.py:22, open "xb")
THEOREM CompleteAlwaysKept == InstallSpec => CompleteIsKept
  <1> DEFINE Kept == \A f \in Names : Whole(f) =>
                        target'[f] = target[f] \/ (PowerFails /\ f \in cached)
  <1>1. ASSUME InstallInv, [InstallNext]_installVars PROVE Kept
    <2> USE DEF InstallInv, InstallTypeOK, OneIsOpen, Whole
    <2>1. CASE UNCHANGED installVars
      BY <2>1 DEF installVars
    <2>2. CASE StartInstall
      BY <2>2 DEF StartInstall
    <2>3. CASE OwnFile
      BY <2>3 DEF OwnFile
    <2>4. CASE CopyOpens
      <3>1. PICK f \in todo :
               \/ target' = target
               \/ target[f] = "none" /\ target' = [target EXCEPT ![f] = "torn"]
        BY <2>4 DEF CopyOpens
      <3> QED
        BY <1>1, <3>1
    <2>5. CASE CopyFills
      <3>1. PICK f \in copying : target' = [target EXCEPT ![f] = Source(stage)]
        BY <2>5 DEF CopyFills
      <3>2. target[f] = "torn"
        BY <1>1
      <3> QED
        BY <1>1, <3>1, <3>2
    <2>6. CASE NextStage
      BY <2>6 DEF NextStage
    <2>7. CASE InstallFails
      BY <1>1, <2>7 DEF InstallFails
    <2>8. CASE InstallKilled
      BY <2>8 DEF InstallKilled
    <2>9. CASE WrittenBack
      BY <2>9 DEF WrittenBack
    <2>10. CASE PowerFails
      <3>1. PICK gone \in SUBSET cached, emptied \in SUBSET cached :
              target' = [f \in Names |-> IF f \in gone THEN "none"
                                         ELSE IF f \in emptied THEN "torn" ELSE target[f]]
        BY <2>10 DEF PowerFails
      <3>2. \A f \in Names : f \in cached \/ target'[f] = target[f]
        BY <3>1
      <3> QED
        BY <2>10, <3>2
    <2> QED
      BY <1>1, <2>1, <2>2, <2>3, <2>4, <2>5, <2>6, <2>7, <2>8, <2>9, <2>10 DEF InstallNext, InstallGoesOn
  <1>2. InstallInv /\ [InstallNext]_installVars => [Kept]_installVars
    BY <1>1
  <1> QED
    BY <1>2, InstallInvariance, PTL DEF InstallSpec, CompleteIsKept

------------------------------------------------------------------------------
(* Packing, publishing and the site *)

\* Where a run is, how far a transfer is, and what a file on the site may be.
Places == {"start", "list", "guest", "send", "recheck", "add", "wait", "settle",
           "verify", "look", "published", "failed"}
Progress == {"none", "queued", "writing", "landed", "dropped"}
Bytes == {"none", "partial", "ours", "other"}

PublishTypeOK ==
    /\ local \in [Files -> {"none", "torn", "ours"}]
    /\ pc \in [Runs -> Places]
    /\ file \in [Runs -> Files]
    /\ task \in [Runs -> [Files -> Progress]]
    /\ obj \in [Files -> Bytes]

\* Once a run has looked at the pair, nothing packs any more.
Begun(r) == pc[r] \notin {"start", "failed"} \/ \E f \in Files : task[r][f] # "none"
PackedFirst ==
    \A r \in Runs : Begun(r) => packing = "idle" /\ \A f \in Files : local[f] = "ours"

\* The checksum is the last file that is packed.
ChecksumLast == packing # "idle" => local["checksum"] # "ours"

\* Bytes of this release come from a transfer, and a file of somebody else's has
\* no transfer and will not get one.
Uploaded ==
    \A f \in Files : obj[f] = "ours" => \E r \in Runs : task[r][f] = "landed"
OthersUntouched ==
    \A f \in Files : obj[f] = "other" =>
        \A r \in Runs : task[r][f] = "none" /\ ~ (pc[r] = "add" /\ file[r] = f)

\* A checksum is sent by a run that has verified the archive, and a verified
\* archive is spoilt by a second transfer only.
Verified(r) == file[r] = "checksum" \/ pc[r] = "look"
ArchiveFirst ==
    \A r \in Runs :
        /\ task[r]["checksum"] # "none" => file[r] = "checksum"
        /\ Verified(r) =>
              obj["archive"] = "ours" \/ SecondTransfer

\* A run sends each file at most once.
SentOnce ==
    \A r \in Runs :
        pc[r] \in {"start", "list", "guest", "send", "recheck", "add"} =>
            task[r][file[r]] = "none"

PublishInv ==
    /\ PublishTypeOK /\ PackedFirst /\ ChecksumLast
    /\ Uploaded /\ OthersUntouched /\ ArchiveFirst /\ SentOnce

------------------------------------------------------------------------------
LEMMA PublishInitHolds == Init => PublishInv
  BY DEF Init, PublishInv, PublishTypeOK, PackedFirst, ChecksumLast, Uploaded,
         OthersUntouched, ArchiveFirst, SentOnce, Verified, Begun, Files, Places, Progress, Bytes

\* Packing touches nothing a run has looked at.
LEMMA PackagePreserves == PublishInv /\ Package => PublishInv'
  <1> SUFFICES ASSUME PublishInv, Package PROVE PublishInv'
    OBVIOUS
  <1> USE DEF PublishInv
  <1>1. UNCHANGED <<pc, file, mode, existing, task, obj>>
    BY DEF Package, runVars
  <1>2. \A r \in Runs : ~ Begun(r)
    <2>1. packing = "idle" => local = [f \in Files |-> "none"]
      BY DEF Package, PackArchive, PackDigest, PackChecksum, PackFails, PackKilled
    <2>2. local = [f \in Files |-> "none"] => \E f \in Files : local[f] # "ours"
      BY DEF Files
    <2> QED
      BY <2>1, <2>2 DEF PackedFirst
  <1>3. local' \in [Files -> {"none", "torn", "ours"}]
    BY DEF Package, PackArchive, PackDigest, PackChecksum, PackFails, PackKilled,
           PublishTypeOK, Files
  <1>4. ChecksumLast'
    BY DEF Package, PackArchive, PackDigest, PackChecksum, PackFails, PackKilled,
           PublishTypeOK, ChecksumLast, Files
  <1> QED
    BY <1>1, <1>2, <1>3, <1>4 DEF PublishTypeOK, PackedFirst, Uploaded, OthersUntouched,
       ArchiveFirst, SentOnce, Verified, Begun, SecondTransfer

\* Where a transfer may go.
Moved == {"writing", "landed", "dropped"}

\* A transfer of f moves: its task, and perhaps its target.
Moves(r, f, at, bytes) ==
    /\ task[r][f] \in Under /\ at \in Moved
    /\ task' = [task EXCEPT ![r][f] = at]
    /\ obj' = [obj EXCEPT ![f] = bytes]
    /\ bytes \in Bytes /\ (bytes = "other" => obj[f] = "other")
    /\ bytes = "ours" => at = "landed" \/ obj[f] = "ours"
    /\ at = "landed" /\ bytes # "ours" => \E s \in Runs \ {r} : task[s][f] = "writing"

LEMMA SiteMoves ==
  ASSUME PublishInv, Site
  PROVE  \E r \in Runs, f \in Files, at \in Moved, bytes \in Bytes : Moves(r, f, at, bytes)
  <1> USE DEF PublishInv
  <1> PICK r \in Runs, f \in Files : TaskStarts(r, f) \/ TaskLands(r, f) \/ TaskDrops(r, f)
    BY DEF Site
  <1> SUFFICES \E at \in Moved, bytes \in Bytes : Moves(r, f, at, bytes)
    OBVIOUS
  <1>1. CASE TaskStarts(r, f)
    <2>1. Moves(r, f, "writing", "partial")
      BY <1>1 DEF TaskStarts, Moves, Under, Bytes, Moved
    <2> QED
      BY <2>1 DEF Moved, Bytes
  <1>2. CASE TaskLands(r, f)
    <2>1. local[f] = "ours"
      BY <1>2 DEF TaskLands, PackedFirst, Begun
    <2>2. Moves(r, f, "landed", "ours") \/ Moves(r, f, "landed", "partial")
      BY <1>2, <2>1 DEF TaskLands, Moves, Under, Bytes, Moved
    <2> QED
      BY <2>2 DEF Moved, Bytes
  <1>3. CASE TaskDrops(r, f)
    <2>1. CASE task[r][f] = "queued"
      <3>1. obj' = [obj EXCEPT ![f] = obj[f]]
        BY <1>3, <2>1 DEF TaskDrops, PublishTypeOK
      <3>2. Moves(r, f, "dropped", obj[f])
        BY <1>3, <3>1 DEF TaskDrops, Moves, PublishTypeOK, Moved
      <3> QED
        BY <3>2 DEF Moved, Bytes, Moves, PublishTypeOK
    <2>2. CASE task[r][f] # "queued"
      <3>1. Moves(r, f, "dropped", "none") \/ Moves(r, f, "dropped", "partial")
        BY <1>3, <2>2 DEF TaskDrops, Moves, Bytes, Moved
      <3> QED
        BY <3>1 DEF Moved, Bytes
    <2> QED
      BY <2>1, <2>2
  <1> QED
    BY <1>1, <1>2, <1>3

LEMMA SitePreserves == PublishInv /\ Site => PublishInv'
  <1> SUFFICES ASSUME PublishInv, Site PROVE PublishInv'
    OBVIOUS
  <1> USE DEF PublishInv
  <1>1. UNCHANGED <<packing, local, pc, file, mode, existing>>
    BY DEF Site, packageVars, runVars
  <1> PICK r \in Runs, f \in Files, at \in Moved, bytes \in Bytes : Moves(r, f, at, bytes)
    BY SiteMoves
  <1>2. PublishTypeOK'
    BY <1>1 DEF PublishTypeOK, Moves, Moved, Progress, Under
  <1>3. \A q \in Runs, g \in Files :
           task'[q][g] = IF q = r /\ g = f THEN at ELSE task[q][g]
    BY DEF Moves, PublishTypeOK
  <1>4. \A g \in Files : obj'[g] = IF g = f THEN bytes ELSE obj[g]
    BY DEF Moves, PublishTypeOK
  <1>5. task[r][f] \in {"queued", "writing"} /\ at \in {"writing", "landed", "dropped"}
    BY DEF Moves, Under, Moved
  <1>6. PackedFirst'
    BY <1>1, <1>3, <1>5 DEF PackedFirst, Begun
  <1>7. Uploaded'
    BY <1>3, <1>4, <1>5 DEF Uploaded, Moves
  <1>8. OthersUntouched'
    BY <1>1, <1>3, <1>4, <1>5 DEF OthersUntouched, Moves
  <1>9. obj["archive"] = "ours" \/ SecondTransfer =>
           obj'["archive"] = "ours" \/ SecondTransfer'
    <2>1. CASE f # "archive"
      BY <1>3, <1>4, <2>1 DEF SecondTransfer, Files
    <2>2. CASE f = "archive" /\ at = "landed"
      BY <1>3, <1>4, <2>2 DEF SecondTransfer, Files, Moves
    <2>3. CASE f = "archive" /\ at # "landed"
      <3>1. SecondTransfer => SecondTransfer'
        BY <1>3, <1>5, <2>3 DEF SecondTransfer, Files
      <3>2. ASSUME obj["archive"] = "ours" PROVE SecondTransfer'
        <4>1. PICK q \in Runs : task[q]["archive"] = "landed"
          BY <3>2 DEF Uploaded, Files
        <4>2. q # r /\ task'[q]["archive"] = "landed" /\ task'[r]["archive"] = at
          BY <1>3, <1>5, <2>3, <4>1 DEF Files
        <4> QED
          BY <1>5, <2>3, <4>2 DEF SecondTransfer
      <3> QED
        BY <3>1, <3>2
    <2> QED
      BY <2>1, <2>2, <2>3
  <1>10. ArchiveFirst'
    BY <1>1, <1>3, <1>5, <1>9 DEF ArchiveFirst, Verified, Files
  <1>11. SentOnce'
    BY <1>1, <1>3, <1>5 DEF SentOnce, PublishTypeOK
  <1>12. ChecksumLast'
    BY <1>1 DEF ChecksumLast
  <1> QED
    BY <1>2, <1>6, <1>7, <1>8, <1>10, <1>11, <1>12

\* A run goes to p, and nothing else of the invariant's changes.
LEMMA Goes ==
  ASSUME PublishInv, NEW r \in Runs, NEW p \in Places,
         pc' = [pc EXCEPT ![r] = p], UNCHANGED <<packing, local, file, task, obj>>,
         p \notin {"start", "failed"} =>
             Begun(r) \/ (packing = "idle" /\ \A f \in Files : local[f] = "ours"),
         p \in {"start", "list", "guest", "send", "recheck", "add"} => task[r][file[r]] = "none",
         p = "add" => obj[file[r]] # "other",
         p = "look" => Verified(r) \/ obj["archive"] = "ours"
  PROVE  PublishInv'
  <1> USE DEF PublishInv
  <1>1. PublishTypeOK' /\ ChecksumLast' /\ Uploaded'
    BY DEF PublishTypeOK, ChecksumLast, Uploaded
  <1>2. \A q \in Runs : pc'[q] = IF q = r THEN p ELSE pc[q]
    BY DEF PublishTypeOK
  <1>3. PackedFirst'
    BY <1>2 DEF PackedFirst, Begun
  <1>4. OthersUntouched' /\ SentOnce'
    BY <1>2 DEF OthersUntouched, SentOnce
  <1>5. ArchiveFirst'
    BY <1>2 DEF ArchiveFirst, Verified, SecondTransfer
  <1> QED
    BY <1>1, <1>3, <1>4, <1>5

\* A run creates the transfer of its file.
LEMMA Creates ==
  ASSUME PublishInv, NEW r \in Runs, NEW p \in {"wait", "failed"},
         pc' = [pc EXCEPT ![r] = p], task' = [task EXCEPT ![r][file[r]] = "queued"],
         UNCHANGED <<packing, local, file, obj>>,
         pc[r] \in {"send", "add"}, obj[file[r]] # "other"
  PROVE  PublishInv'
  <1> USE DEF PublishInv
  <1>1. PublishTypeOK' /\ ChecksumLast'
    BY DEF PublishTypeOK, ChecksumLast, Places, Progress
  <1>2. \A q \in Runs : pc'[q] = IF q = r THEN p ELSE pc[q]
    BY DEF PublishTypeOK
  <1>3. \A q \in Runs, f \in Files :
           task'[q][f] = IF q = r /\ f = file[r] THEN "queued" ELSE task[q][f]
    BY DEF PublishTypeOK
  <1>4. task[r][file[r]] = "none" /\ Begun(r) /\ file[r] \in Files
    BY DEF SentOnce, Begun, PublishTypeOK
  <1>5. PackedFirst'
    BY <1>2, <1>3, <1>4 DEF PackedFirst, Begun
  <1>6. Uploaded' /\ OthersUntouched'
    BY <1>2, <1>3, <1>4 DEF Uploaded, OthersUntouched
  <1>7. SentOnce'
    BY <1>2, <1>3 DEF SentOnce, PublishTypeOK
  <1>8. SecondTransfer => SecondTransfer'
    BY <1>3, <1>4 DEF SecondTransfer, Files
  <1>9. ArchiveFirst'
    BY <1>2, <1>3, <1>8 DEF ArchiveFirst, Verified
  <1> QED
    BY <1>1, <1>5, <1>6, <1>7, <1>9

\* The archive is verified and listed: the checksum is next.
LEMMA TurnsToChecksum ==
  ASSUME PublishInv, NEW r \in Runs, NEW p \in {"verify", "send", "recheck"},
         pc' = [pc EXCEPT ![r] = p], file' = [file EXCEPT ![r] = "checksum"],
         UNCHANGED <<packing, local, task, obj>>,
         pc[r] = "look", file[r] = "archive"
  PROVE  PublishInv'
  <1> USE DEF PublishInv
  <1>1. PublishTypeOK' /\ ChecksumLast' /\ Uploaded'
    BY DEF PublishTypeOK, ChecksumLast, Uploaded, Places, Files
  <1>2. \A q \in Runs : /\ pc'[q] = IF q = r THEN p ELSE pc[q]
                        /\ file'[q] = IF q = r THEN "checksum" ELSE file[q]
    BY DEF PublishTypeOK
  <1>3. PackedFirst'
    BY <1>2 DEF PackedFirst, Begun
  <1>4. OthersUntouched'
    BY <1>2 DEF OthersUntouched
  <1>5. task[r]["checksum"] = "none"
    BY DEF ArchiveFirst, PublishTypeOK, Files, Progress
  <1>6. SentOnce'
    BY <1>2, <1>5 DEF SentOnce
  <1>7. ArchiveFirst'
    BY <1>2 DEF ArchiveFirst, Verified, SecondTransfer
  <1> QED
    BY <1>1, <1>3, <1>4, <1>6, <1>7

LEMMA RunPreserves ==
  ASSUME PublishInv, NEW r \in Runs, Publish(r) \/ Interrupted(r)
  PROVE  PublishInv'
  <1> USE DEF PublishInv
  <1>1. UNCHANGED <<packing, local, mode, obj>>
    BY DEF Publish, Interrupted, packageVars
  <1>2. CASE Start(r)
    <2>1. local["checksum"] = "ours" => packing = "idle"
      BY DEF ChecksumLast
    <2>2. task[r][file[r]] = "none"
      BY <1>2 DEF Start, SentOnce
    <2> QED
      BY <1>1, <1>2, <2>1, <2>2, Goes DEF Start, GoTo, Places, Files
  <1>3. CASE List(r)
    BY <1>1, <1>3, Goes DEF List, GoTo, Places, SentOnce, Begun
  <1>4. CASE Guest(r)
    BY <1>1, <1>4, Goes DEF Guest, GoTo, Places, SentOnce, Begun, Sending
  <1>5. CASE Send(r)
    <2>1. CASE file[r] \in Listing
      BY <1>1, <1>5, <2>1, Goes DEF Send, GoTo, Places
    <2>2. CASE file[r] \notin Listing
      BY <1>1, <1>5, <2>2, Creates DEF Send, GoTo, Listing, PublishTypeOK
    <2> QED
      BY <2>1, <2>2
  <1>6. CASE Recheck(r)
    BY <1>1, <1>6, Goes DEF Recheck, GoTo, Places, SentOnce, Begun, Listing, PublishTypeOK
  <1>7. CASE Add(r)
    <2>1. obj[file[r]] # "other"
      BY <1>7 DEF Add, OthersUntouched, PublishTypeOK
    <2> QED
      BY <1>1, <1>7, <2>1, Creates DEF Add, GoTo
  <1>8. CASE Wait(r)
    BY <1>1, <1>8, Goes DEF Wait, GoTo, Places, Begun
  <1>9. CASE Settle(r) \/ Deadline(r)
    BY <1>1, <1>9, Goes DEF Settle, Deadline, GoTo, Places, Begun
  <1>10. CASE Verify(r)
    <2>1. Begun(r) /\ local[file[r]] = "ours"
      BY <1>10 DEF Verify, PackedFirst, Begun, PublishTypeOK
    <2>2. obj[file[r]] = local[file[r]] => Verified(r) \/ obj["archive"] = "ours"
      BY <2>1 DEF Verified, PublishTypeOK, Files
    <2> QED
      BY <1>1, <1>10, <2>1, <2>2, Goes DEF Verify, GoTo, Places
  <1>11. CASE Look(r)
    <2>1. CASE file[r] = "archive" /\ "archive" \in Listing
      BY <1>1, <1>11, <2>1, TurnsToChecksum DEF Look, GoTo, Sending
    <2>2. CASE ~ (file[r] = "archive" /\ "archive" \in Listing)
      BY <1>1, <1>11, <2>2, Goes DEF Look, GoTo, Places, Begun
    <2> QED
      BY <2>1, <2>2
  <1>12. CASE Broken(r)
    BY <1>1, <1>12, Goes DEF Broken, GoTo, Places
  <1> QED
    BY <1>2, <1>3, <1>4, <1>5, <1>6, <1>7, <1>8, <1>9, <1>10, <1>11, <1>12
       DEF Publish, Interrupted, Advance

------------------------------------------------------------------------------
LEMMA NextPreserves == PublishInv /\ [Next]_releaseVars => PublishInv'
  <1> SUFFICES ASSUME PublishInv, [Next]_releaseVars PROVE PublishInv'
    OBVIOUS
  <1>1. CASE UNCHANGED vars
    BY <1>1 DEF vars, PublishInv, PublishTypeOK, PackedFirst, ChecksumLast, Uploaded,
       OthersUntouched, ArchiveFirst, SentOnce, Verified, Begun, SecondTransfer
  <1>2. CASE PublishNext
    BY <1>2, PackagePreserves, SitePreserves, RunPreserves DEF PublishNext
  <1> QED
    BY <1>1, <1>2 DEF Next, Release, Robot, releaseVars

\* The invariant of packing, publishing and the site is inductive.
THEOREM PublishInvariance == Spec => []PublishInv
  <1> QED
    BY PublishInitHolds, NextPreserves, PTL DEF Spec, ReleaseInit

LEMMA CompleteBySecond == PublishInv => PairIsComplete
  <1> SUFFICES ASSUME PublishInv, Pair PROVE obj["archive"] = "ours" \/ SecondTransfer
    BY DEF PairIsComplete
  <1>1. PICK r \in Runs : task[r]["checksum"] = "landed"
    BY DEF PublishInv, Uploaded, Pair, Files
  <1>2. Verified(r)
    BY <1>1 DEF PublishInv, ArchiveFirst, Verified
  <1> QED
    BY <1>2 DEF PublishInv, ArchiveFirst

\* Robots are offered a complete archive, or one that a second transfer rewrites,
\* whatever publishing runs overlap, fail or are repeated.
\* (publish_ota.py:325, publish)
THEOREM PairAlwaysComplete == Spec => []PairIsComplete
  <1> QED
    BY CompleteBySecond, PublishInvariance, PTL

\* A file that was on the site before is never overwritten, and it never gets a
\* checksum of this release. (publish_ota.py:252, pull)
THEOREM OthersAlwaysKept == Spec => OthersAreKept
  <1> DEFINE Kept == \A f \in Files : obj[f] = "other" => obj'[f] = "other" /\ ~ Pair'
  <1>1. ASSUME PublishInv, PublishInv', [Next]_releaseVars PROVE [Kept]_vars
    <2> USE DEF PublishInv
    <2>1. CASE UNCHANGED vars
      BY <2>1
    <2>2. ASSUME NEW f \in Files, obj[f] = "other", PublishNext PROVE obj'[f] = "other"
      <3>1. CASE Package
        BY <2>2, <3>1 DEF Package
      <3>2. CASE Site
        <4> PICK r \in Runs, g \in Files, at \in Moved, bytes \in Bytes : Moves(r, g, at, bytes)
          BY <1>1, <3>2, SiteMoves
        <4>1. g # f
          BY <1>1, <2>2 DEF Moves, Under, OthersUntouched
        <4> QED
          BY <1>1, <2>2, <4>1 DEF Moves, PublishTypeOK
      <3>3. CASE \E r \in Runs : Publish(r) \/ Interrupted(r)
        BY <2>2, <3>3 DEF Publish, Interrupted
      <3> QED
        BY <2>2, <3>1, <3>2, <3>3 DEF PublishNext
    <2>3. ASSUME NEW f \in Files, obj'[f] = "other" PROVE ~ Pair'
      <3> SUFFICES ASSUME Pair' PROVE FALSE
        OBVIOUS
      <3>1. PICK r \in Runs : task'[r]["checksum"] = "landed"
        BY <1>1 DEF Uploaded, Pair, Files
      <3>2. Verified(r)'
        BY <1>1, <3>1 DEF ArchiveFirst, Verified
      <3>3. obj'["archive"] = "ours" \/ SecondTransfer'
        BY <1>1, <3>2 DEF ArchiveFirst
      <3>4. obj'["archive"] # "other"
        BY <1>1, <3>3 DEF OthersUntouched, SecondTransfer, Files
      <3>5. obj'["checksum"] # "other"
        BY DEF Pair
      <3> QED
        BY <2>3, <3>4, <3>5 DEF Files
    <2>4. CASE PublishNext
      BY <2>2, <2>3, <2>4
    <2> QED
      BY <1>1, <2>1, <2>4 DEF Next, Release, Robot, releaseVars
  <1>2. PublishInv /\ PublishInv' /\ [Next]_releaseVars => [Kept]_vars
    BY <1>1
  <1> QED
    BY <1>2, PublishInvariance, PTL DEF Spec, OthersAreKept

\* The robot's part implements Postinstall.
THEOREM RobotImplementsPostinstall == Spec => InstallSpec
  <1>1. ReleaseInit => InstallInit
    BY DEF ReleaseInit
  <1>2. [Next]_releaseVars => [InstallNext]_installVars
    BY DEF Next, Release, Robot, RobotInstalls, releaseVars, InstallNext
  <1> QED
    BY <1>1, <1>2, PTL DEF Spec, InstallSpec

------------------------------------------------------------------------------
(* The directory of torque recordings *)

RunSteps == {"off", "recover", "opened", "locked", "recovered", "prune", "json", "csv",
             "generate", "draw", "summary"}
Run == [at : RunSteps, left : SUBSET Sessions, s : Sessions \cup {0}]

ReportsTypeOK ==
    /\ part \subseteq Sessions /\ csv \subseteq Sessions /\ broken \subseteq Sessions
    /\ lock \in [Sessions -> Reporters \cup {NoOne, "recorder"}]
    /\ data \in [Sessions -> {"unmade", "empty", "samples"}]
    /\ json \in [Sessions -> {"none", "other", "empty", "old", "report"}]
    /\ png \in [Sessions -> {"none", "other", "plot"}]
    /\ rec \in [at : {"idle", "temp", "recording", "synced", "complete"},
                s : Sessions \cup {0}]
    /\ rec.at # "idle" => rec.s \in Sessions
    /\ rp \in [Reporters -> Run]

\* The recorder has let go of a session, complete or not.
Recorded(s) == s < rec.s \/ (s = rec.s /\ rec.at \in {"idle", "complete"})

\* As many newer recordings as are kept: pruning a recording, which has newer ones
\* itself, never undoes this.
Superseded(s) == Cardinality({t \in csv : t > s}) >= Keep

\* Names are given by the recorder in order, and the final one at the end.
NamesInOrder ==
    /\ \A s \in Sessions : s \in part \cup csv => data[s] # "unmade"
    /\ \A s \in Sessions : data[s] # "unmade" => s <= rec.s
    /\ \A s \in csv : Recorded(s)
    /\ rec.at = "temp" => data[rec.s] = "unmade"
    /\ rec.at \in {"recording", "synced"} => rec.s \in part
    /\ rec.at = "complete" => rec.s \in csv \/ Superseded(rec.s)
    /\ \A s \in Sessions : lock[s] = "recorder" <=> (rec.at # "idle" /\ s = rec.s)

\* What a report run knows of the session it works at and of those it has left.
RunOK(p) ==
    LET s == rp[p].s
    IN /\ rp[p].at \in {"recover", "opened", "locked", "recovered"} =>
             \A t \in rp[p].left : data[t] # "unmade"
       /\ rp[p].at \in {"opened", "locked", "recovered"} => s \in Sessions /\ data[s] # "unmade"
       /\ rp[p].at \in {"locked", "recovered"} => lock[s] = p
       /\ rp[p].at = "recovered" => s \in csv \/ Superseded(s)
       /\ rp[p].at \in {"prune", "json", "csv"} =>
             \A t \in rp[p].left : Superseded(t) /\ data[t] # "unmade"
       /\ rp[p].at \in {"json", "csv"} => s \in rp[p].left
       /\ rp[p].at = "json" /\ png[s] = "plot" => s \in broken
       /\ rp[p].at \in {"draw", "summary"} => s \in Sessions /\ Recorded(s)
       /\ rp[p].at = "draw" => data[s] = "samples"
       /\ rp[p].at = "summary" /\ data[s] = "samples" => png[s] # "none" \/ Superseded(s)

\* No session loses its last name before it is superseded, and no summary its picture.
NamesKept ==
    \A s \in Sessions :
        /\ Gone(s) => Superseded(s)
        /\ NamesPicture(s) /\ png[s] = "none" => Superseded(s)
        /\ png[s] = "plot" => data[s] = "samples"

ReportsInv ==
    /\ ReportsTypeOK /\ NamesInOrder /\ (\A p \in Reporters : RunOK(p)) /\ NamesKept
    /\ PictureHasItsSummary

------------------------------------------------------------------------------
(* Names in order *)

\* Sessions are numbered from one; 0 stands for none.
LEMMA RecNumber == ASSUME ReportsTypeOK PROVE rec.s \in Nat
  <1>1. rec.s \in Sessions \cup {0}
    BY DEF ReportsTypeOK
  <1>2. \A s \in Sessions : s \in Nat
    BY SessionsAssumption
  <1> QED
    BY <1>1, <1>2

LEMMA Finite ==
  ASSUME ReportsTypeOK, NEW S, S \subseteq 0 .. rec.s
  PROVE  IsFiniteSet(S)
  <1>1. rec.s \in Int
    BY RecNumber
  <1>2. IsFiniteSet(0 .. rec.s)
    BY <1>1, FS_Interval
  <1> QED
    BY <1>2, FS_Subset

\* Every name is one of a session that was recorded, and these are finitely many.
LEMMA NamesBounded ==
  ASSUME ReportsTypeOK, NamesInOrder
  PROVE  /\ part \cup csv \subseteq 0 .. rec.s
         /\ \A s \in Sessions : s \in Nat /\ (data[s] # "unmade" => s \in 0 .. rec.s)
  BY SessionsAssumption DEF ReportsTypeOK, NamesInOrder

\* The first and the last of a set of names are in it.
LEMMA MinOfNames ==
  ASSUME NEW S, S \subseteq Nat, S # {}
  PROVE  Min(S) \in S
  <1>1. PICK i \in S : \A j \in S : <<j, i>> \notin OpToRel(<, Nat)
    BY WFMin, NatLessThanWellFounded, Zenon
  <1>2. \A j \in S : ~ (j < i)
    BY <1>1, Zenon DEF OpToRel
  <1>3. \E i2 \in S : \A j \in S : i2 =< j
    BY <1>2
  <1> QED
    BY <1>3, Zenon DEF Min

LEMMA MaxOfNames ==
  ASSUME NEW n \in Nat, NEW S, S \subseteq 0 .. n, S # {}
  PROVE  Max(S) \in S
  <1> DEFINE T == {i \in 0 .. n : n - i \in S}
  <1>1. T \subseteq Nat /\ T # {}
    <2>1. PICK s \in S : TRUE
      OBVIOUS
    <2>2. n - s \in 0 .. n /\ n - (n - s) = s
      BY <2>1
    <2> QED
      BY <2>1, <2>2
  <1>2. PICK i \in T : \A j \in T : <<j, i>> \notin OpToRel(<, Nat)
    BY <1>1, WFMin, NatLessThanWellFounded, Zenon
  <1>3. \A j \in T : ~ (j < i)
    BY <1>1, <1>2, Zenon DEF OpToRel
  <1>4. n - i \in S /\ i \in 0 .. n
    BY <1>2, Zenon
  <1>5. ASSUME NEW y \in S PROVE n - i >= y
    <2>1. y \in 0 .. n /\ n - y \in 0 .. n /\ n - (n - y) = y
      OBVIOUS
    <2>2. n - y \in T
      BY <2>1
    <2>3. ~ (n - y < i)
      BY <1>3, <2>2
    <2> QED
      BY <1>4, <2>1, <2>3
  <1>6. \E x \in S : \A y \in S : x >= y
    BY <1>4, <1>5
  <1> QED
    BY <1>6, Zenon DEF Max

\* Once superseded, a recording is superseded for good: names are only added, or one is
\* pruned that is superseded itself.
LEMMA SupersededStays ==
  ASSUME ReportsTypeOK, NamesInOrder, NEW x \in Sessions,
         csv \subseteq csv' \/ (csv' = csv \ {x} /\ Superseded(x)),
         IsFiniteSet(csv'), NEW s \in Sessions, Superseded(s)
  PROVE  Superseded(s)'
  <1>1. csv \subseteq Nat /\ x \in Nat /\ s \in Nat
    BY NamesBounded, SessionsAssumption DEF ReportsTypeOK
  <1>2. ASSUME NEW a, NEW b, a \subseteq b, IsFiniteSet(b), Cardinality(a) >= Keep
        PROVE  Cardinality(b) >= Keep
    <2>1. IsFiniteSet(a) /\ Cardinality(a) <= Cardinality(b)
      BY <1>2, FS_Subset
    <2>2. Cardinality(a) \in Nat /\ Cardinality(b) \in Nat
      BY <1>2, <2>1, FS_CardinalityType
    <2> QED
      BY <1>2, <2>1, <2>2, KeepAssumption
  <1> DEFINE newer(C, t) == {u \in C : u > t}
  <1>3. IsFiniteSet(newer(csv', s)) /\ newer(csv', s) \subseteq csv'
    BY FS_Subset
  <1>4. \E t \in {s, x} : newer(csv, t) \subseteq newer(csv', s) /\ Cardinality(newer(csv, t)) >= Keep
    <2>1. CASE csv \subseteq csv' \/ ~ (x > s)
      <3>1. newer(csv, s) \subseteq newer(csv', s)
        BY <1>1, <2>1
      <3> QED
        BY <3>1 DEF Superseded
    <2>2. CASE csv' = csv \ {x} /\ Superseded(x) /\ x > s
      <3>1. newer(csv, x) \subseteq newer(csv', s)
        <4> SUFFICES ASSUME NEW u \in csv, u > x PROVE u \in csv' /\ u > s
          BY Zenon
        <4> QED
          BY <1>1, <2>2
      <3> QED
        BY <2>2, <3>1 DEF Superseded
    <2> QED
      BY <2>1, <2>2
  <1>5. Cardinality(newer(csv', s)) >= Keep
    BY <1>2, <1>3, <1>4
  <1> QED
    BY <1>5 DEF Superseded

------------------------------------------------------------------------------
(* A step of one report run, and what it leaves to the others *)

\* Run p goes to a step, with sessions left and a session to work at.
RunGoes(p, step, rest, s) ==
    /\ rp' \in [Reporters -> Run]
    /\ rp'[p].at = step /\ rp'[p].left = rest /\ rp'[p].s = s
    /\ \A q \in Reporters \ {p} : rp'[q] = rp[q]

LEMMA RunFields ==
  ASSUME rp \in [Reporters -> Run], NEW p \in Reporters
  PROVE  rp[p].at \in RunSteps /\ rp[p].left \subseteq Sessions /\ rp[p].s \in Sessions \cup {0}
  BY DEF Run

LEMMA MovesTo ==
  ASSUME rp \in [Reporters -> Run], NEW p \in Reporters, NEW step \in RunSteps,
         NEW rest \in SUBSET Sessions, NEW s \in Sessions \cup {0},
         rp' = [rp EXCEPT ![p] = [at |-> step, left |-> rest, s |-> s]]
  PROVE  RunGoes(p, step, rest, s)
  BY DEF RunGoes, Run

LEMMA Entering ==
  ASSUME rp \in [Reporters -> Run], NEW p \in Reporters, NEW step \in RunSteps,
         NEW rest \in SUBSET Sessions, Enter(p, step, rest)
  PROVE  RunGoes(p, step, rest, 0)
  BY MovesTo DEF Enter

LEMMA Going ==
  ASSUME rp \in [Reporters -> Run], NEW p \in Reporters, NEW step \in RunSteps, At(p, step)
  PROVE  RunGoes(p, step, rp[p].left, rp[p].s)
  BY DEF At, RunGoes, Run

LEMMA GoingOn ==
  ASSUME rp \in [Reporters -> Run], NEW p \in Reporters, NEW step \in RunSteps, Next1(p, step)
  PROVE  RunGoes(p, step, rp[p].left \ {rp[p].s}, rp[p].s)
  <1>1. rp[p].left \ {rp[p].s} \in SUBSET Sessions
    BY RunFields
  <1> QED
    BY <1>1 DEF Next1, RunGoes, Run

LEMMA Skipping ==
  ASSUME rp \in [Reporters -> Run], NEW p \in Reporters, NEW s \in Sessions,
         rp' = [rp EXCEPT ![p].left = @ \ {s}]
  PROVE  RunGoes(p, rp[p].at, rp[p].left \ {s}, rp[p].s)
  <1>1. rp[p].left \ {s} \in SUBSET Sessions
    BY RunFields
  <1> QED
    BY <1>1 DEF RunGoes, Run

Takes(p, step, s) == rp' = [rp EXCEPT ![p].at = step, ![p].s = s]

LEMMA Choosing ==
  ASSUME rp \in [Reporters -> Run], NEW p \in Reporters, NEW step \in RunSteps,
         NEW s \in Sessions, Takes(p, step, s)
  PROVE  RunGoes(p, step, rp[p].left, s)
  BY DEF Takes, RunGoes, Run

\* What no step takes back: what was made, recorded, superseded or broken.
Grows ==
    /\ \A s \in Sessions :
          /\ data[s] # "unmade" => data'[s] # "unmade"
          /\ data[s] = "samples" => data'[s] = "samples"
          /\ Recorded(s) => Recorded(s)' /\ data'[s] = data[s]
          /\ Superseded(s) => Superseded(s)'
          /\ s \in csv => s \in csv' \/ Superseded(s)'
          /\ png'[s] = "none" => png[s] = "none" \/ Superseded(s)'
    /\ broken \subseteq broken'

\* What a step leaves to a run that does not take it.
Leaves(q) ==
    /\ rp'[q] = rp[q]
    /\ rp[q].at \in {"locked", "recovered"} /\ lock[rp[q].s] = q => lock'[rp[q].s] = q
    /\ rp[q].at = "json" /\ png'[rp[q].s] = "plot" =>
          png[rp[q].s] = "plot" \/ rp[q].s \in broken'

LEMMA RunKept ==
  ASSUME ReportsTypeOK, NEW q \in Reporters, RunOK(q), Grows, Leaves(q)
  PROVE  RunOK(q)'
  <1>1. rp'[q] = rp[q] /\ rp[q].left \subseteq Sessions /\ rp[q].s \in Sessions \cup {0}
    BY RunFields DEF ReportsTypeOK, Leaves
  <1>2. PICK s : s = rp[q].s
    OBVIOUS
  <1>3. PICK step : step = rp[q].at
    OBVIOUS
  <1>4. PICK left : left = rp[q].left
    OBVIOUS
  <1>5. rp'[q].s = s /\ rp'[q].at = step /\ rp'[q].left = left /\ left \subseteq Sessions
    BY <1>1, <1>2, <1>3, <1>4
  <1>6. /\ step \in {"recover", "opened", "locked", "recovered"} => \A t \in left : data[t] # "unmade"
        /\ step \in {"opened", "locked", "recovered"} => s \in Sessions /\ data[s] # "unmade"
        /\ step \in {"locked", "recovered"} => lock[s] = q
        /\ step = "recovered" => s \in csv \/ Superseded(s)
        /\ step \in {"prune", "json", "csv"} => \A t \in left : Superseded(t) /\ data[t] # "unmade"
        /\ step \in {"json", "csv"} => s \in left
        /\ step = "json" /\ png[s] = "plot" => s \in broken
        /\ step \in {"draw", "summary"} => s \in Sessions /\ Recorded(s)
        /\ step = "draw" => data[s] = "samples"
        /\ step = "summary" /\ data[s] = "samples" => png[s] # "none" \/ Superseded(s)
    BY <1>2, <1>3, <1>4 DEF RunOK
  <1>7. /\ step \in {"locked", "recovered"} /\ lock[s] = q => lock'[s] = q
        /\ step = "json" /\ png'[s] = "plot" => png[s] = "plot" \/ s \in broken'
    BY <1>2, <1>3 DEF Leaves
  <1>8. /\ step \in {"recover", "opened", "locked", "recovered"} => \A t \in left : data'[t] # "unmade"
        /\ step \in {"opened", "locked", "recovered"} => s \in Sessions /\ data'[s] # "unmade"
        /\ step \in {"prune", "json", "csv"} =>
              \A t \in left : Superseded(t)' /\ data'[t] # "unmade"
    BY <1>5, <1>6 DEF Grows
  <1>9. step = "recovered" => s \in csv' \/ Superseded(s)'
    BY <1>6 DEF Grows
  <1>10. /\ step \in {"draw", "summary"} => s \in Sessions /\ Recorded(s)'
         /\ step = "draw" => data'[s] = "samples"
         /\ step = "summary" /\ data'[s] = "samples" => png'[s] # "none" \/ Superseded(s)'
    BY <1>6 DEF Grows
  <1>11. step = "json" /\ png'[s] = "plot" => s \in broken'
    BY <1>6, <1>7 DEF Grows
  <1> QED
    BY <1>5, <1>6, <1>7, <1>8, <1>9, <1>10, <1>11 DEF RunOK

------------------------------------------------------------------------------
(* The recorder *)

LEMMA NamesFinite ==
  ASSUME ReportsTypeOK, NamesInOrder, NEW x, csv' \subseteq csv \cup {x}
  PROVE  IsFiniteSet(csv')
  <1>1. IsFiniteSet(csv)
    BY Finite, NamesBounded
  <1>2. IsFiniteSet(csv \cup {x})
    BY <1>1, FS_AddElement
  <1> QED
    BY <1>2, FS_Subset

\* A recording gets its name, or loses one of two: nothing is lost.
LEMMA RecorderGrows ==
  ASSUME ReportsTypeOK, NamesInOrder, NEW x \in Sessions,
         csv' = csv \/ csv' = csv \cup {x}, UNCHANGED <<png, broken>>,
         \A s \in Sessions :
            /\ data[s] # "unmade" => data'[s] # "unmade"
            /\ data[s] = "samples" => data'[s] = "samples"
            /\ Recorded(s) => Recorded(s)' /\ data'[s] = data[s]
  PROVE  Grows
  <1>1. IsFiniteSet(csv') /\ csv \subseteq csv'
    BY NamesFinite
  <1>2. \A s \in Sessions : Superseded(s) => Superseded(s)'
    BY <1>1, SupersededStays
  <1> QED
    BY <1>1, <1>2 DEF Grows

LEMMA RecorderKeeps ==
  ASSUME ReportsInv, UNCHANGED <<json, png, rp, broken>>,
         ReportsTypeOK', NamesInOrder', Grows,
         \A q \in Reporters : lock[rp[q].s] = q /\ rp[q].at \in {"locked", "recovered"} =>
                                lock'[rp[q].s] = q,
         \A s \in Sessions : Gone(s)' => Superseded(s)'
  PROVE  ReportsInv'
  <1>1. \A q \in Reporters : Leaves(q)
    BY DEF Leaves
  <1>2. \A q \in Reporters : RunOK(q)'
    BY <1>1, RunKept DEF ReportsInv
  <1>3. NamesKept'
    <2> SUFFICES ASSUME NEW s \in Sessions
                 PROVE  /\ NamesPicture(s)' /\ png'[s] = "none" => Superseded(s)'
                        /\ png'[s] = "plot" => data'[s] = "samples"
      BY DEF NamesKept
    <2> QED
      BY DEF ReportsInv, NamesKept, Grows, NamesPicture
  <1>4. PictureHasItsSummary'
    BY DEF ReportsInv, PictureHasItsSummary, NamesPicture, Working
  <1> QED
    BY <1>2, <1>3, <1>4 DEF ReportsInv

LEMMA RecOpenStep ==
  ASSUME ReportsInv, RecOpen, UNCHANGED <<json, png, rp, broken>>
  PROVE  ReportsInv'
  <1> DEFINE n == rec.s + 1
  <1>1. /\ rec.at = "idle" /\ n \in Sessions /\ rec' = [at |-> "temp", s |-> n]
        /\ lock' = [lock EXCEPT ![n] = "recorder"] /\ UNCHANGED <<part, csv, data>>
    BY DEF RecOpen
  <1>2. rec.s \in Nat /\ n \in Nat /\ n > rec.s
    BY RecNumber DEF ReportsInv
  <1> HIDE DEF n
  <1>3. data[n] = "unmade"
    BY <1>1, <1>2, NamesBounded DEF ReportsInv
  <1>4. ReportsTypeOK'
    BY <1>1 DEF ReportsInv, ReportsTypeOK
  <1>5. rec'.at = "temp" /\ rec'.s = n
    BY <1>1
  <1>6. \A s \in Sessions : Recorded(s) => Recorded(s)'
    BY <1>2, <1>5, NamesBounded DEF Recorded, ReportsInv
  <1>7. Grows
    BY <1>1, <1>6, RecorderGrows DEF ReportsInv
  <1>8. NamesInOrder'
    <2>1. \A s \in Sessions : data[s] # "unmade" => s <= n
      BY <1>2, NamesBounded DEF ReportsInv, NamesInOrder
    <2>2. \A s \in Sessions : lock'[s] = "recorder" <=> (s = n)
      BY <1>1, <1>2 DEF ReportsInv, ReportsTypeOK, NamesInOrder
    <2>3. \A s \in csv : Recorded(s)'
      BY <1>6 DEF ReportsInv, ReportsTypeOK, NamesInOrder
    <2>4. \A s \in Sessions : s \in part \cup csv => data[s] # "unmade"
      BY DEF ReportsInv, NamesInOrder
    <2> QED
      BY <1>1, <1>3, <1>5, <2>1, <2>2, <2>3, <2>4 DEF NamesInOrder
  <1>9. ASSUME NEW q \in Reporters, lock[rp[q].s] = q, rp[q].at \in {"locked", "recovered"}
        PROVE  lock'[rp[q].s] = q
    <2>1. rp[q].s \in Sessions /\ data[rp[q].s] # "unmade"
      BY <1>9 DEF ReportsInv, RunOK
    <2> QED
      BY <1>1, <1>3, <1>9, <2>1 DEF ReportsInv, ReportsTypeOK
  <1>10. \A s \in Sessions : Gone(s)' => Superseded(s)'
    BY <1>1, <1>7 DEF Gone, Grows, ReportsInv, NamesKept
  <1> QED
    BY <1>4, <1>7, <1>8, <1>9, <1>10, RecorderKeeps

\* While it records: the name, the rows, the end of the file.
LEMMA RecordingSteps ==
  ASSUME ReportsInv, RecLink \/ RecRow \/ RecSync, UNCHANGED <<json, png, rp, broken>>
  PROVE  ReportsInv'
  <1>1. /\ UNCHANGED <<csv, lock>> /\ rec.s \in Sessions /\ rec.at \in {"temp", "recording"}
        /\ rec' \in [at : {"recording", "synced"}, s : Sessions] /\ rec'.s = rec.s
    BY DEF RecLink, RecRow, RecSync, ReportsInv, ReportsTypeOK
  <1>2. /\ part' \subseteq Sessions /\ part \subseteq part' /\ rec.s \in part'
        /\ part' \subseteq part \cup {rec.s}
    BY <1>1 DEF RecLink, RecRow, RecSync, ReportsInv, ReportsTypeOK, NamesInOrder
  <1>3. /\ data' \in [Sessions -> {"unmade", "empty", "samples"}]
        /\ \A s \in Sessions : s # rec.s => data'[s] = data[s]
        /\ data'[rec.s] # "unmade" /\ (data[rec.s] = "samples" => data'[rec.s] = "samples")
    BY <1>1 DEF RecLink, RecRow, RecSync, ReportsInv, ReportsTypeOK, NamesInOrder
  <1>4. ReportsTypeOK'
    BY <1>1, <1>2, <1>3 DEF ReportsInv, ReportsTypeOK
  <1>5. rec'.at \in {"recording", "synced"} /\ rec.s \in Nat
    BY <1>1, RecNumber DEF ReportsInv
  <1>6. \A s \in Sessions : Recorded(s) => Recorded(s)' /\ s # rec.s
    BY <1>1, <1>5, NamesBounded DEF Recorded, ReportsInv
  <1>7. Grows
    BY <1>1, <1>3, <1>6, RecorderGrows DEF ReportsInv
  <1>8. NamesInOrder'
    <2>1. \A s \in Sessions : s \in part' \cup csv' => data'[s] # "unmade"
      BY <1>1, <1>2, <1>3 DEF ReportsInv, NamesInOrder
    <2>2. \A s \in Sessions : data'[s] # "unmade" => s <= rec'.s
      BY <1>1, <1>3, <1>5 DEF ReportsInv, NamesInOrder
    <2>3. \A s \in csv' : Recorded(s)'
      BY <1>1, <1>6 DEF ReportsInv, ReportsTypeOK, NamesInOrder
    <2>4. \A s \in Sessions : lock'[s] = "recorder" <=> (rec'.at # "idle" /\ s = rec'.s)
      BY <1>1, <1>5 DEF ReportsInv, NamesInOrder
    <2> QED
      BY <1>1, <1>2, <1>5, <2>1, <2>2, <2>3, <2>4 DEF NamesInOrder
  <1>9. ASSUME NEW s \in Sessions, Gone(s)' PROVE Superseded(s)'
    <2>1. s # rec.s
      BY <1>2, <1>9 DEF Gone
    <2>2. Gone(s)
      BY <1>1, <1>2, <1>3, <1>9, <2>1 DEF Gone
    <2> QED
      BY <1>7, <2>2 DEF Grows, ReportsInv, NamesKept
  <1> QED
    BY <1>1, <1>4, <1>7, <1>8, <1>9, RecorderKeeps

\* The final name is linked while the recorder holds the lock.
LEMMA RecCompleteStep ==
  ASSUME ReportsInv, RecComplete, UNCHANGED <<json, png, rp, broken>>
  PROVE  ReportsInv'
  <1>1. /\ rec.at = "synced" /\ csv' = csv \cup {rec.s} /\ rec' = [rec EXCEPT !.at = "complete"]
        /\ UNCHANGED <<part, lock, data>> /\ rec.s \in Sessions /\ rec.s \in part
    BY DEF RecComplete, ReportsInv, ReportsTypeOK, NamesInOrder
  <1>2. rec'.at = "complete" /\ rec'.s = rec.s /\ rec.s \in Nat
    BY <1>1, RecNumber DEF ReportsInv, ReportsTypeOK
  <1>3. ReportsTypeOK'
    BY <1>1 DEF ReportsInv, ReportsTypeOK
  <1>4. \A s \in Sessions : Recorded(s) => Recorded(s)'
    BY <1>2 DEF Recorded
  <1>5. Grows
    BY <1>1, <1>4, RecorderGrows DEF ReportsInv
  <1>6. NamesInOrder'
    <2>1. \A s \in csv' : Recorded(s)'
      BY <1>1, <1>2, <1>4 DEF ReportsInv, ReportsTypeOK, NamesInOrder, Recorded, Superseded
    <2>2. \A s \in Sessions : s \in part' \cup csv' => data'[s] # "unmade"
      BY <1>1 DEF ReportsInv, NamesInOrder
    <2> QED
      BY <1>1, <1>2, <2>1, <2>2 DEF ReportsInv, NamesInOrder
  <1>7. \A s \in Sessions : Gone(s)' => Superseded(s)'
    BY <1>1, <1>5 DEF Gone, Grows, ReportsInv, NamesKept
  <1> QED
    BY <1>1, <1>3, <1>5, <1>6, <1>7, RecorderKeeps

\* The recorder lets go: its recording is complete, or left for a report run.
LEMMA RecEndSteps ==
  ASSUME ReportsInv, RecEnd \/ RecDies, UNCHANGED <<json, png, rp, broken>>
  PROVE  ReportsInv'
  <1>1. /\ rec.at # "idle" /\ rec.s \in Sessions /\ rec' = [rec EXCEPT !.at = "idle"]
        /\ lock' = [lock EXCEPT ![rec.s] = NoOne] /\ UNCHANGED <<csv, data>>
        /\ part' = part \/ (part' = part \ {rec.s} /\ (rec.s \in csv \/ Superseded(rec.s)))
    BY DEF RecEnd, RecDies, RecUnlock, ReportsInv, ReportsTypeOK, NamesInOrder
  <1>2. rec'.at = "idle" /\ rec'.s = rec.s /\ rec.s \in Nat
    BY <1>1, RecNumber DEF ReportsInv, ReportsTypeOK
  <1>3. ReportsTypeOK'
    BY <1>1 DEF ReportsInv, ReportsTypeOK
  <1>4. \A s \in Sessions : Recorded(s) => Recorded(s)'
    BY <1>2 DEF Recorded
  <1>5. Grows
    BY <1>1, <1>4, RecorderGrows DEF ReportsInv
  <1>6. NamesInOrder'
    <2>1. \A s \in csv' : Recorded(s)'
      BY <1>1, <1>4 DEF ReportsInv, ReportsTypeOK, NamesInOrder
    <2>2. \A s \in Sessions : lock'[s] # "recorder"
      BY <1>1 DEF ReportsInv, ReportsTypeOK, NamesInOrder, NoOne
    <2>3. \A s \in Sessions : s \in part' \cup csv' => data'[s] # "unmade"
      BY <1>1 DEF ReportsInv, NamesInOrder
    <2> QED
      BY <1>1, <1>2, <2>1, <2>2, <2>3 DEF ReportsInv, NamesInOrder
  <1>7. \A s \in Sessions : Gone(s)' => Superseded(s)'
    BY <1>1, <1>5 DEF Gone, Grows, ReportsInv, NamesKept
  <1>8. ASSUME NEW q \in Reporters, lock[rp[q].s] = q, rp[q].at \in {"locked", "recovered"}
        PROVE  lock'[rp[q].s] = q
    <2>1. rp[q].s \in Sessions /\ lock[rec.s] = "recorder"
      BY <1>1, <1>8 DEF ReportsInv, RunOK, NamesInOrder
    <2>2. q # "recorder"
      BY ReportersAssumption
    <2> QED
      BY <1>1, <1>8, <2>1, <2>2 DEF ReportsInv, ReportsTypeOK
  <1> QED
    BY <1>3, <1>5, <1>6, <1>7, <1>8, RecorderKeeps

LEMMA RecorderStep ==
  ASSUME ReportsInv, Recorder
  PROVE  ReportsInv'
  BY RecOpenStep, RecordingSteps, RecCompleteStep, RecEndSteps DEF Recorder

------------------------------------------------------------------------------
(* A report run *)

\* The step of one run: what it knows of its own session, and what stays as it was.
LEMMA RunMoves ==
  ASSUME ReportsInv, NEW p \in Reporters, NEW step, NEW rest, NEW s, RunGoes(p, step, rest, s),
         UNCHANGED <<data, rec>>, ReportsTypeOK', NamesInOrder', Grows,
         \A q \in Reporters \ {p} : Leaves(q),
         RunOK(p)', NamesKept', PictureHasItsSummary'
  PROVE  ReportsInv'
  <1>1. ASSUME NEW q \in Reporters PROVE RunOK(q)'
    <2>1. CASE q = p
      BY <2>1
    <2>2. CASE q # p
      BY <2>2, RunKept DEF ReportsInv
    <2> QED
      BY <2>1, <2>2
  <1> QED
    BY <1>1 DEF ReportsInv

\* What is superseded stays so where names are only added, or an old one is pruned.
LEMMA RunGrows ==
  ASSUME ReportsTypeOK, NamesInOrder, NEW x \in Sessions,
         csv' = csv \/ csv' = csv \cup {x} \/ (csv' = csv \ {x} /\ Superseded(x)),
         UNCHANGED <<data, rec>>, broken \subseteq broken',
         \A s \in Sessions : png'[s] = "none" => png[s] = "none" \/ Superseded(s)
  PROVE  Grows /\ \A s \in Sessions : Superseded(s) => Superseded(s)'
  <1>1. IsFiniteSet(csv')
    BY NamesFinite
  <1>2. \A s \in Sessions : Superseded(s) => Superseded(s)'
    BY <1>1, SupersededStays
  <1>3. \A s \in Sessions : s \in csv => s \in csv' \/ Superseded(s)'
    BY <1>2
  <1>4. \A s \in Sessions : Recorded(s) => Recorded(s)'
    BY DEF Recorded
  <1> QED
    BY <1>2, <1>3, <1>4 DEF Grows

\* A step that only moves the run itself.
LEMMA QuietMove ==
  ASSUME ReportsInv, NEW p \in Reporters, NEW step \in RunSteps, NEW rest, NEW s,
         RunGoes(p, step, rest, s), UNCHANGED <<part, csv, lock, data, json, png, rec, broken>>,
         rp[p].at # "summary", RunOK(p)'
  PROVE  ReportsInv'
  <1>1. ReportsTypeOK' /\ NamesInOrder' /\ NamesKept'
    BY DEF ReportsInv, ReportsTypeOK, NamesInOrder, Recorded, NamesKept, Gone, Superseded, NamesPicture,
           RunGoes
  <1>2. Grows
    BY DEF Grows, Recorded, Superseded
  <1>3. \A q \in Reporters \ {p} : Leaves(q)
    BY DEF Leaves, RunGoes
  <1>4. PictureHasItsSummary'
    <2>1. \A t \in Sessions : Working(t, {"summary"}) => Working(t, {"summary"})'
      BY DEF Working, RunGoes
    <2> QED
      BY <2>1 DEF ReportsInv, PictureHasItsSummary, NamesPicture
  <1> QED
    BY <1>1, <1>2, <1>3, <1>4, RunMoves

\* The lists of a run: what is to be recovered, pruned, drawn.
LEMMA ListSteps ==
  ASSUME ReportsInv, NEW p \in Reporters, UNCHANGED <<data, rec>>,
         RunStarts(p) \/ PruneStarts(p) \/ GenerateStarts(p) \/ RunEnds(p)
  PROVE  ReportsInv'
  <1> USE DEF ReportsInv
  <1>1. UNCHANGED <<part, csv, lock, json, png, broken>> /\ rp[p].at # "summary"
    BY DEF RunStarts, PruneStarts, GenerateStarts, RunEnds
  <1>2. PICK step \in RunSteps, rest \in SUBSET Sessions :
          /\ Enter(p, step, rest)
          /\ \/ step = "recover" /\ rest = part
             \/ step = "prune" /\ rest = csv \ Newest
             \/ step \in {"generate", "off"}
    <2>1. CASE RunStarts(p)
      BY <2>1 DEF RunStarts, RunSteps, ReportsTypeOK
    <2>2. CASE PruneStarts(p)
      BY <2>2 DEF PruneStarts, RunSteps, ReportsTypeOK
    <2>3. CASE GenerateStarts(p)
      <3>1. Newest \in SUBSET Sessions /\ "generate" \in RunSteps
        BY DEF ReportsTypeOK, Newest, RunSteps
      <3>2. Enter(p, "generate", Newest)
        BY <2>3 DEF GenerateStarts
      <3> QED
        BY <3>1, <3>2
    <2>4. CASE RunEnds(p)
      BY <2>4 DEF RunEnds, RunSteps
    <2> QED
      BY <2>1, <2>2, <2>3, <2>4
  <1>3. RunGoes(p, step, rest, 0)
    BY <1>2, Entering DEF ReportsTypeOK
  <1>4. step = "recover" => \A t \in rest : data'[t] # "unmade"
    BY <1>2 DEF NamesInOrder, ReportsTypeOK
  <1>5. step = "prune" => \A t \in rest : Superseded(t)
    <2> SUFFICES ASSUME NEW t \in csv, t \notin Newest PROVE Superseded(t)
      BY <1>2, Zenon
    <2>1. IsFiniteSet({u \in csv : u > t})
      BY NamesFinite, Finite, NamesBounded, FS_Subset
    <2>2. Cardinality({u \in csv : u > t}) \in Nat
      BY <2>1, FS_CardinalityType
    <2> QED
      BY <2>2, KeepAssumption DEF Newest, Superseded
  <1>6. RunOK(p)'
    <2>1. rp'[p].at = step /\ rp'[p].left = rest
      BY <1>3 DEF RunGoes
    <2>2. step \in {"recover", "prune", "generate", "off"}
      BY <1>2
    <2>3. step = "prune" => \A t \in rest : Superseded(t)' /\ data'[t] # "unmade"
      <3>1. step = "prune" => \A t \in rest : t \in csv /\ t \in Sessions
        BY <1>2 DEF ReportsTypeOK
      <3> QED
        BY <1>1, <1>2, <1>5, <3>1 DEF Superseded, NamesInOrder
    <2> QED
      BY <1>4, <2>1, <2>2, <2>3 DEF RunOK
  <1> QED
    BY <1>1, <1>3, <1>6, QuietMove

\* What a run knows while it recovers.
LEMMA RecoverKnows ==
  ASSUME ReportsInv, NEW p \in Reporters,
         rp[p].at \in {"recover", "opened", "locked", "recovered"}
  PROVE  /\ rp[p].left \subseteq Sessions /\ rp[p].s \in Sessions \cup {0}
         /\ \A t \in rp[p].left : data[t] # "unmade"
         /\ rp[p].at # "recover" => rp[p].s \in Sessions /\ data[rp[p].s] # "unmade"
         /\ rp[p].at \in {"locked", "recovered"} => lock[rp[p].s] = p
         /\ rp[p].at = "recovered" => rp[p].s \in csv \/ Superseded(rp[p].s)
  <1>1. RunOK(p) /\ rp \in [Reporters -> Run]
    BY DEF ReportsInv, ReportsTypeOK
  <1> QED
    BY <1>1, RunFields DEF RunOK

\* A run goes on to recover the others it has listed.
LEMMA RecoversOn ==
  ASSUME ReportsInv, NEW p \in Reporters,
         rp[p].at \in {"recover", "opened", "locked", "recovered"}, UNCHANGED data,
         NEW rest \in SUBSET rp[p].left, NEW s \in Sessions \cup {0}, NEW step,
         RunGoes(p, step, rest, s),
         \/ step = "recover"
         \/ step = "opened" /\ s \in Sessions /\ data[s] # "unmade"
         \/ /\ step \in {"locked", "recovered"} /\ s \in Sessions /\ data[s] # "unmade"
            /\ lock'[s] = p /\ (step = "recovered" => s \in csv')
  PROVE  RunOK(p)'
  <1>1. rp'[p].at = step /\ rp'[p].left = rest /\ rp'[p].s = s
    BY DEF RunGoes
  <1>2. \A t \in rest : data'[t] # "unmade"
    BY RecoverKnows
  <1>3. step \in {"recover", "opened", "locked", "recovered"}
    OBVIOUS
  <1> QED
    BY <1>1, <1>2, <1>3 DEF RunOK

LEMMA RecoverOpensStep ==
  ASSUME ReportsInv, NEW p \in Reporters, UNCHANGED <<data, rec>>, RecoverOpens(p)
  PROVE  ReportsInv'
  <1> DEFINE s == Min(rp[p].left)
  <1>1. /\ rp[p].at = "recover" /\ rp[p].left # {}
        /\ UNCHANGED <<part, csv, lock, json, png, broken>>
        /\ \/ rp' = [rp EXCEPT ![p].left = @ \ {s}]
           \/ rp' = [rp EXCEPT ![p].at = "opened", ![p].s = s]
    BY DEF RecoverOpens
  <1>2. rp[p].left \subseteq Sessions /\ rp \in [Reporters -> Run] /\ rp[p].s \in Sessions \cup {0}
    BY <1>1, RecoverKnows DEF ReportsInv, ReportsTypeOK
  <1>3. s \in rp[p].left
    BY <1>1, <1>2, MinOfNames, SessionsAssumption
  <1> HIDE DEF s
  <1>4. s \in Sessions /\ data[s] # "unmade"
    BY <1>1, <1>2, <1>3, RecoverKnows
  <1>5. CASE rp' = [rp EXCEPT ![p].left = @ \ {s}]
    <2>1. RunGoes(p, "recover", rp[p].left \ {s}, rp[p].s)
      <3>1. RunGoes(p, rp[p].at, rp[p].left \ {s}, rp[p].s)
        BY <1>2, <1>4, <1>5, Skipping
      <3> QED
        BY <1>1, <3>1
    <2>2. RunOK(p)'
      BY <1>1, <1>2, <2>1, RecoversOn
    <2> QED
      BY <1>1, <2>1, <2>2, QuietMove DEF RunSteps
  <1>6. CASE rp' = [rp EXCEPT ![p].at = "opened", ![p].s = s]
    <2>1. RunGoes(p, "opened", rp[p].left, s)
      <3>1. Takes(p, "opened", s) /\ "opened" \in RunSteps
        BY <1>6 DEF Takes, RunSteps
      <3> QED
        BY <1>2, <1>4, <3>1, Choosing
    <2>2. RunOK(p)'
      BY <1>1, <1>4, <2>1, RecoversOn
    <2> QED
      BY <1>1, <2>1, <2>2, QuietMove DEF RunSteps
  <1> QED
    BY <1>1, <1>5, <1>6

\* The lock is taken, or another has it.
LEMMA RecoverLocksStep ==
  ASSUME ReportsInv, NEW p \in Reporters, UNCHANGED <<data, rec>>, RecoverLocks(p)
  PROVE  ReportsInv'
  <1> DEFINE s == rp[p].s
             left == rp[p].left
  <1>1. rp[p].at = "opened" /\ UNCHANGED <<part, csv, json, png, broken>>
    BY DEF RecoverLocks
  <1>2. s \in Sessions /\ data[s] # "unmade" /\ left \subseteq Sessions
    BY <1>1, RecoverKnows
  <1>3. rp \in [Reporters -> Run] /\ {"recover", "locked"} \subseteq RunSteps
    BY DEF ReportsInv, ReportsTypeOK, RunSteps
  <1>4. CASE lock[s] # NoOne
    <2>1. Next1(p, "recover") /\ UNCHANGED lock
      BY <1>4 DEF RecoverLocks
    <2>2. RunGoes(p, "recover", left \ {s}, s)
      BY <1>3, <2>1, GoingOn
    <2>3. RunOK(p)'
      BY <1>1, <1>2, <2>2, RecoversOn
    <2> QED
      BY <1>1, <1>3, <2>1, <2>2, <2>3, QuietMove
  <1>5. CASE lock[s] = NoOne
    <2>1. lock' = [lock EXCEPT ![s] = p] /\ At(p, "locked")
      BY <1>5 DEF RecoverLocks
    <2>2. RunGoes(p, "locked", left, s)
      BY <1>3, <2>1, Going
    <2>3. /\ lock' \in [Sessions -> Reporters \cup {NoOne, "recorder"}] /\ lock'[s] = p
          /\ \A t \in Sessions : t # s => lock'[t] = lock[t]
      BY <1>2, <2>1 DEF ReportsInv, ReportsTypeOK
    <2>4. RunOK(p)'
      BY <1>1, <1>2, <2>2, <2>3, RecoversOn
    <2>5. ReportsTypeOK'
      BY <1>1, <2>2, <2>3 DEF ReportsInv, ReportsTypeOK, RunGoes
    <2>6. NamesInOrder'
      <3>1. \A t \in Sessions : lock'[t] = "recorder" <=> lock[t] = "recorder"
        BY <1>2, <1>5, <2>3, ReportersAssumption DEF NoOne
      <3> QED
        BY <1>1, <3>1 DEF ReportsInv, NamesInOrder, Recorded, Superseded
    <2>7. Grows
      BY <1>1, <1>2, RunGrows DEF ReportsInv
    <2>8. ASSUME NEW q \in Reporters \ {p} PROVE Leaves(q)
      <3>1. rp[q].at \in {"locked", "recovered"} => rp[q].s \in Sessions
        BY RecoverKnows
      <3>2. q # NoOne
        BY ReportersAssumption
      <3> QED
        BY <1>1, <1>5, <2>2, <2>3, <3>1, <3>2 DEF Leaves, RunGoes
    <2>9. NamesKept'
      BY <1>1 DEF ReportsInv, NamesKept, Gone, Superseded, NamesPicture
    <2>10. PictureHasItsSummary'
      <3>1. \A t \in Sessions : Working(t, {"summary"}) => Working(t, {"summary"})'
        BY <1>1, <2>2 DEF Working, RunGoes
      <3> QED
        BY <1>1, <3>1 DEF ReportsInv, PictureHasItsSummary, NamesPicture
    <2> QED
      BY <2>2, <2>4, <2>5, <2>6, <2>7, <2>8, <2>9, <2>10, RunMoves
  <1> QED
    BY <1>4, <1>5

\* A lock is given back.
LEMMA Unlocked ==
  ASSUME ReportsInv, NEW p \in Reporters, rp[p].at \in {"locked", "recovered"},
         lock' = [lock EXCEPT ![rp[p].s] = NoOne]
  PROVE  /\ lock' \in [Sessions -> Reporters \cup {NoOne, "recorder"}]
         /\ \A t \in Sessions : lock'[t] = "recorder" <=> lock[t] = "recorder"
         /\ \A q \in Reporters \ {p} :
               rp[q].at \in {"locked", "recovered"} /\ lock[rp[q].s] = q => lock'[rp[q].s] = q
  <1>1. rp[p].s \in Sessions /\ lock[rp[p].s] = p /\ p # "recorder" /\ NoOne # "recorder"
    BY RecoverKnows, ReportersAssumption DEF NoOne
  <1>2. ASSUME NEW q \in Reporters \ {p}, rp[q].at \in {"locked", "recovered"}, lock[rp[q].s] = q
        PROVE  lock'[rp[q].s] = q
    <2>1. rp[q].s \in Sessions /\ rp[q].s # rp[p].s
      BY <1>1, <1>2, RecoverKnows
    <2> QED
      BY <1>1, <1>2, <2>1 DEF ReportsInv, ReportsTypeOK
  <1>3. \A t \in Sessions : t # rp[p].s => lock'[t] = lock[t]
    BY DEF ReportsInv, ReportsTypeOK
  <1>4. lock'[rp[p].s] = NoOne
    BY <1>1 DEF ReportsInv, ReportsTypeOK
  <1>5. lock' \in [Sessions -> Reporters \cup {NoOne, "recorder"}]
    BY <1>1 DEF ReportsInv, ReportsTypeOK
  <1> QED
    BY <1>1, <1>2, <1>3, <1>4, <1>5

\* Under the lock, the free final name is linked: the recorder is not at this file.
LEMMA RecoverLinksStep ==
  ASSUME ReportsInv, NEW p \in Reporters, UNCHANGED <<data, rec>>, RecoverLinks(p)
  PROVE  ReportsInv'
  <1> DEFINE s == rp[p].s
             left == rp[p].left
  <1>1. rp[p].at = "locked" /\ UNCHANGED <<part, json, png, broken>>
    BY DEF RecoverLinks
  <1>2. s \in Sessions /\ data[s] # "unmade" /\ left \subseteq Sessions /\ lock[s] = p
    BY <1>1, RecoverKnows
  <1>3. rp \in [Reporters -> Run] /\ {"recover", "recovered"} \subseteq RunSteps
    BY DEF ReportsInv, ReportsTypeOK, RunSteps
  <1>4. /\ \/ csv' = csv \cup {s} /\ s \in part /\ RunGoes(p, "recovered", left, s) /\ UNCHANGED lock
           \/ csv' = csv /\ RunGoes(p, "recover", left \ {s}, s) /\ lock' = [lock EXCEPT ![s] = NoOne]
    <2>1. CASE s \in part /\ s \notin csv
      <3>1. csv' = csv \cup {s} /\ At(p, "recovered") /\ UNCHANGED lock
        BY <2>1 DEF RecoverLinks
      <3> QED
        BY <1>3, <2>1, <3>1, Going
    <2>2. CASE ~ (s \in part /\ s \notin csv)
      <3>1. csv' = csv /\ Next1(p, "recover") /\ lock' = [lock EXCEPT ![s] = NoOne]
        BY <2>2 DEF RecoverLinks
      <3> QED
        BY <1>3, <3>1, GoingOn
    <2> QED
      BY <2>1, <2>2
  <1>5. PICK step, rest :
          /\ RunGoes(p, step, rest, s) /\ rest \subseteq left
          /\ \/ step = "recover"
             \/ step = "recovered" /\ s \in csv' /\ lock'[s] = p
    BY <1>2, <1>4
  <1>6. /\ lock' \in [Sessions -> Reporters \cup {NoOne, "recorder"}]
        /\ \A t \in Sessions : lock'[t] = "recorder" <=> lock[t] = "recorder"
        /\ \A q \in Reporters \ {p} :
              rp[q].at \in {"locked", "recovered"} /\ lock[rp[q].s] = q => lock'[rp[q].s] = q
    <2>1. CASE UNCHANGED lock
      BY <2>1 DEF ReportsInv, ReportsTypeOK
    <2>2. CASE lock' = [lock EXCEPT ![s] = NoOne]
      BY <1>1, <2>2, Unlocked
    <2> QED
      BY <1>4, <2>1, <2>2
  <1>7. RunOK(p)'
    BY <1>1, <1>2, <1>5, RecoversOn
  <1>8. ReportsTypeOK'
    <2>1. csv' \subseteq Sessions
      BY <1>2, <1>4 DEF ReportsInv, ReportsTypeOK
    <2> QED
      BY <1>1, <1>5, <1>6, <2>1 DEF ReportsInv, ReportsTypeOK, RunGoes
  <1>9. Grows /\ \A t \in Sessions : Superseded(t) => Superseded(t)'
    BY <1>1, <1>2, <1>4, RunGrows DEF ReportsInv
  <1>10. Recorded(s)
    <2>1. lock[s] # "recorder"
      BY <1>2, ReportersAssumption
    <2>2. s <= rec.s /\ ~ (rec.at # "idle" /\ s = rec.s)
      BY <1>2, <2>1 DEF ReportsInv, NamesInOrder
    <2>3. s \in Nat /\ rec.s \in Nat
      BY <1>2, NamesBounded, RecNumber DEF ReportsInv
    <2> QED
      BY <2>2, <2>3 DEF Recorded
  <1>11. NamesInOrder'
    <2>1. csv \subseteq csv' /\ \A t \in csv' : t \in csv \/ t = s
      BY <1>4
    <2>2. \A t \in csv' : Recorded(t)'
      BY <1>10, <2>1 DEF ReportsInv, NamesInOrder, Recorded
    <2>3. \A t \in Sessions : t \in part' \cup csv' => data'[t] # "unmade"
      BY <1>1, <1>2, <2>1 DEF ReportsInv, NamesInOrder
    <2>4. rec.at = "complete" => rec.s \in csv' \/ Superseded(rec.s)'
      BY <1>9, <2>1 DEF ReportsInv, ReportsTypeOK, NamesInOrder
    <2> QED
      BY <1>1, <1>6, <2>1, <2>2, <2>3, <2>4 DEF ReportsInv, NamesInOrder
  <1>12. \A q \in Reporters \ {p} : Leaves(q)
    BY <1>1, <1>5, <1>6 DEF Leaves, RunGoes
  <1>13. NamesKept'
    <2>1. \A t \in Sessions : Gone(t)' => Gone(t)
      BY <1>1, <1>4 DEF Gone
    <2> QED
      BY <1>1, <1>9, <2>1 DEF ReportsInv, NamesKept, NamesPicture, Grows
  <1>14. PictureHasItsSummary'
    <2>1. \A t \in Sessions : Working(t, {"summary"}) => Working(t, {"summary"})'
      BY <1>1, <1>5 DEF Working, RunGoes
    <2> QED
      BY <1>1, <2>1 DEF ReportsInv, PictureHasItsSummary, NamesPicture
  <1> QED
    BY <1>5, <1>7, <1>8, <1>9, <1>11, <1>12, <1>13, <1>14, RunMoves

\* The temporary name goes: the final one is there, or was pruned in between.
LEMMA RecoverUnlinksStep ==
  ASSUME ReportsInv, NEW p \in Reporters, UNCHANGED <<data, rec>>, RecoverUnlinks(p)
  PROVE  ReportsInv'
  <1> DEFINE s == rp[p].s
             left == rp[p].left
  <1>1. /\ rp[p].at = "recovered" /\ UNCHANGED <<csv, json, png, broken>>
        /\ part' = part \ {s} /\ lock' = [lock EXCEPT ![s] = NoOne] /\ Next1(p, "recover")
    BY DEF RecoverUnlinks
  <1>2. /\ s \in Sessions /\ data[s] # "unmade" /\ left \subseteq Sessions /\ lock[s] = p
        /\ s \in csv \/ Superseded(s)
    BY <1>1, RecoverKnows
  <1>3. rp \in [Reporters -> Run] /\ "recover" \in RunSteps
    BY DEF ReportsInv, ReportsTypeOK, RunSteps
  <1>4. RunGoes(p, "recover", left \ {s}, s)
    BY <1>1, <1>3, GoingOn
  <1>5. /\ lock' \in [Sessions -> Reporters \cup {NoOne, "recorder"}]
        /\ \A t \in Sessions : lock'[t] = "recorder" <=> lock[t] = "recorder"
        /\ \A q \in Reporters \ {p} :
              rp[q].at \in {"locked", "recovered"} /\ lock[rp[q].s] = q => lock'[rp[q].s] = q
    BY <1>1, Unlocked
  <1>6. RunOK(p)'
    BY <1>1, <1>2, <1>4, RecoversOn
  <1>7. ReportsTypeOK'
    <2>1. part' \subseteq Sessions
      BY <1>1 DEF ReportsInv, ReportsTypeOK
    <2> QED
      BY <1>1, <1>4, <1>5, <2>1 DEF ReportsInv, ReportsTypeOK, RunGoes
  <1>8. Grows
    BY <1>1, <1>2, RunGrows DEF ReportsInv
  <1>9. NamesInOrder'
    <2>1. p # "recorder"
      BY ReportersAssumption
    <2>2. rec.at \in {"recording", "synced"} => rec.s # s
      BY <1>2, <2>1 DEF ReportsInv, NamesInOrder
    <2> QED
      BY <1>1, <1>5, <2>2 DEF ReportsInv, NamesInOrder, Recorded, Superseded
  <1>10. \A q \in Reporters \ {p} : Leaves(q)
    BY <1>1, <1>4, <1>5 DEF Leaves, RunGoes
  <1>11. NamesKept'
    <2>1. \A t \in Sessions : Gone(t)' => Superseded(t)'
      BY <1>1, <1>2, <1>8 DEF Gone, Grows, ReportsInv, NamesKept
    <2> QED
      BY <1>1, <1>8, <2>1 DEF ReportsInv, NamesKept, NamesPicture, Grows
  <1>12. PictureHasItsSummary'
    <2>1. \A t \in Sessions : Working(t, {"summary"}) => Working(t, {"summary"})'
      BY <1>1, <1>4 DEF Working, RunGoes
    <2> QED
      BY <1>1, <2>1 DEF ReportsInv, PictureHasItsSummary, NamesPicture
  <1> QED
    BY <1>4, <1>6, <1>7, <1>8, <1>9, <1>10, <1>11, <1>12, RunMoves

\* What a run knows while it prunes, and while it draws.
LEMMA PruneKnows ==
  ASSUME ReportsInv, NEW p \in Reporters, rp[p].at \in {"prune", "json", "csv"}
  PROVE  /\ rp[p].left \subseteq Sessions /\ rp[p].s \in Sessions \cup {0}
         /\ \A t \in rp[p].left : Superseded(t) /\ data[t] # "unmade" /\ t \in 0 .. rec.s
         /\ rp[p].at # "prune" => rp[p].s \in rp[p].left
         /\ rp[p].at = "json" /\ png[rp[p].s] = "plot" => rp[p].s \in broken
  <1>1. RunOK(p) /\ rp \in [Reporters -> Run]
    BY DEF ReportsInv, ReportsTypeOK
  <1>2. /\ rp[p].left \subseteq Sessions /\ rp[p].s \in Sessions \cup {0}
        /\ \A t \in rp[p].left : Superseded(t) /\ data[t] # "unmade"
        /\ rp[p].at # "prune" => rp[p].s \in rp[p].left
        /\ rp[p].at = "json" /\ png[rp[p].s] = "plot" => rp[p].s \in broken
    BY <1>1, RunFields DEF RunOK
  <1>3. ASSUME NEW t \in rp[p].left PROVE t \in 0 .. rec.s
    BY <1>2, <1>3, NamesBounded DEF ReportsInv
  <1> QED
    BY <1>2, <1>3

LEMMA DrawKnows ==
  ASSUME ReportsInv, NEW p \in Reporters, rp[p].at \in {"draw", "summary"}
  PROVE  /\ rp[p].left \subseteq Sessions /\ rp[p].s \in Sessions /\ Recorded(rp[p].s)
         /\ rp[p].at = "draw" => data[rp[p].s] = "samples"
         /\ rp[p].at = "summary" /\ data[rp[p].s] = "samples" =>
               png[rp[p].s] # "none" \/ Superseded(rp[p].s)
  <1>1. RunOK(p) /\ rp \in [Reporters -> Run]
    BY DEF ReportsInv, ReportsTypeOK
  <1> QED
    BY <1>1, RunFields DEF RunOK

\* The run that works at the summary of a session is not one that does something else.
LEMMA StillWorking ==
  ASSUME NEW p \in Reporters, NEW step, NEW rest, NEW s, RunGoes(p, step, rest, s),
         NEW t, Working(t, {"summary"}), ~ (rp[p].at = "summary" /\ rp[p].s = t)
  PROVE  Working(t, {"summary"})'
  BY DEF Working, RunGoes

\* The picture goes first, of a session that has enough newer ones.
LEMMA PrunePngStep ==
  ASSUME ReportsInv, NEW p \in Reporters, UNCHANGED <<data, rec>>, PrunePng(p)
  PROVE  ReportsInv'
  <1> DEFINE s == Max(rp[p].left)
             left == rp[p].left
  <1>1. /\ rp[p].at = "prune" /\ left # {} /\ UNCHANGED <<part, csv, lock, json>>
        /\ png' = IF NamesPicture(s) THEN [png EXCEPT ![s] = "none"] ELSE png
        /\ Takes(p, "json", s)
        /\ broken' = IF Working(s, {"draw", "summary"}) THEN broken \cup {s} ELSE broken
    BY DEF PrunePng, Takes
  <1>2. /\ left \subseteq Sessions /\ left \subseteq 0 .. rec.s
        /\ \A t \in left : Superseded(t) /\ data[t] # "unmade"
    BY <1>1, PruneKnows
  <1>3. s \in left
    BY <1>1, <1>2, RecNumber, MaxOfNames DEF ReportsInv
  <1> HIDE DEF s
  <1>4. s \in Sessions /\ Superseded(s)
    BY <1>2, <1>3
  <1>5. rp \in [Reporters -> Run] /\ "json" \in RunSteps
    BY DEF ReportsInv, ReportsTypeOK, RunSteps
  <1>6. RunGoes(p, "json", left, s)
    BY <1>1, <1>4, <1>5, Choosing
  <1>7. /\ png' \in [Sessions -> {"none", "other", "plot"}]
        /\ \A t \in Sessions : png'[t] = "plot" => png[t] = "plot"
        /\ \A t \in Sessions : t # s => png'[t] = png[t]
        /\ NamesPicture(s) => png'[s] = "none"
    BY <1>1, <1>4 DEF ReportsInv, ReportsTypeOK
  <1>8. broken \subseteq broken' /\ broken' \subseteq Sessions
    BY <1>1, <1>4 DEF ReportsInv, ReportsTypeOK
  <1>9. ReportsTypeOK' /\ NamesInOrder'
    BY <1>1, <1>6, <1>7, <1>8 DEF ReportsInv, ReportsTypeOK, NamesInOrder, Recorded, Superseded, RunGoes
  <1>10. Grows /\ \A t \in Sessions : Superseded(t) => Superseded(t)'
    <2>1. \A t \in Sessions : png'[t] = "none" => png[t] = "none" \/ Superseded(t)
      BY <1>4, <1>7
    <2> QED
      BY <1>1, <1>4, <1>8, <2>1, RunGrows DEF ReportsInv
  <1>11. ASSUME NEW q \in Reporters \ {p} PROVE Leaves(q)
    <2>1. rp[q].at = "json" => rp[q].s \in Sessions
      BY PruneKnows
    <2> QED
      BY <1>1, <1>6, <1>7, <2>1 DEF Leaves, RunGoes
  <1>12. png'[s] = "plot" => s \in broken'
    <2> SUFFICES ASSUME png'[s] = "plot" PROVE s \in broken'
      OBVIOUS
    <2>1. png[s] = "plot" /\ ~ NamesPicture(s)
      BY <1>4, <1>7
    <2>2. s \in broken \/ Working(s, {"draw", "summary"})
      BY <1>4, <2>1 DEF ReportsInv, PictureHasItsSummary, Working
    <2> QED
      BY <1>1, <2>2
  <1>13. RunOK(p)'
    <2>1. rp'[p].at = "json" /\ rp'[p].left = left /\ rp'[p].s = s
      BY <1>6 DEF RunGoes
    <2>2. \A t \in left : Superseded(t)' /\ data'[t] # "unmade"
      BY <1>1, <1>2, <1>10
    <2> HIDE DEF left
    <2> QED
      BY <1>3, <1>12, <2>1, <2>2 DEF RunOK
  <1>14. NamesKept'
    <2> SUFFICES ASSUME NEW t \in Sessions
                 PROVE  /\ Gone(t)' => Superseded(t)'
                        /\ NamesPicture(t)' /\ png'[t] = "none" => Superseded(t)'
                        /\ png'[t] = "plot" => data'[t] = "samples"
      BY DEF NamesKept
    <2>1. NamesPicture(t)' <=> NamesPicture(t)
      BY <1>1 DEF NamesPicture
    <2>2. Gone(t)' <=> Gone(t)
      BY <1>1 DEF Gone
    <2> QED
      BY <1>1, <1>4, <1>7, <1>10, <2>1, <2>2 DEF ReportsInv, NamesKept
  <1>15. PictureHasItsSummary'
    <2> SUFFICES ASSUME NEW t \in Sessions, png'[t] = "plot", ~ NamesPicture(t)'
                 PROVE  t \in broken' \/ Working(t, {"summary"})'
      BY DEF PictureHasItsSummary
    <2>1. png[t] = "plot" /\ ~ NamesPicture(t)
      BY <1>1, <1>7 DEF NamesPicture
    <2>2. t \in broken \/ Working(t, {"summary"})
      BY <2>1 DEF ReportsInv, PictureHasItsSummary
    <2> QED
      BY <1>1, <1>6, <1>8, <2>2, StillWorking
  <1> QED
    BY <1>6, <1>9, <1>10, <1>11, <1>13, <1>14, <1>15, RunMoves

\* Then the summary, which names no picture any more or one that was broken.
LEMMA PruneJsonStep ==
  ASSUME ReportsInv, NEW p \in Reporters, UNCHANGED <<data, rec>>, PruneJson(p)
  PROVE  ReportsInv'
  <1> DEFINE s == rp[p].s
             left == rp[p].left
  <1>1. /\ rp[p].at = "json" /\ UNCHANGED <<part, csv, lock, png, broken>> /\ At(p, "csv")
        /\ json' = IF Generated(s) THEN [json EXCEPT ![s] = "none"] ELSE json
    BY DEF PruneJson
  <1>2. /\ left \subseteq Sessions /\ s \in left
        /\ \A t \in left : Superseded(t) /\ data[t] # "unmade"
        /\ png[s] = "plot" => s \in broken
    BY <1>1, PruneKnows
  <1>3. rp \in [Reporters -> Run] /\ "csv" \in RunSteps
    BY DEF ReportsInv, ReportsTypeOK, RunSteps
  <1>4. RunGoes(p, "csv", left, s)
    BY <1>1, <1>3, Going
  <1>5. /\ json' \in [Sessions -> {"none", "other", "empty", "old", "report"}]
        /\ \A t \in Sessions : t # s => json'[t] = json[t]
        /\ json'[s] = "none" \/ json'[s] = json[s]
    BY <1>1, <1>2 DEF ReportsInv, ReportsTypeOK
  <1>6. ReportsTypeOK' /\ NamesInOrder'
    BY <1>1, <1>4, <1>5 DEF ReportsInv, ReportsTypeOK, NamesInOrder, Recorded, Superseded, RunGoes
  <1>7. Grows /\ \A t \in Sessions : Superseded(t) => Superseded(t)'
    BY <1>1, <1>2, RunGrows DEF ReportsInv
  <1>8. \A q \in Reporters \ {p} : Leaves(q)
    BY <1>1, <1>4 DEF Leaves, RunGoes
  <1>9. RunOK(p)'
    <2>1. rp'[p].at = "csv" /\ rp'[p].left = left /\ rp'[p].s = s
      BY <1>4 DEF RunGoes
    <2>2. \A t \in left : Superseded(t)' /\ data'[t] # "unmade"
      BY <1>1, <1>2, <1>7
    <2> QED
      BY <1>2, <2>1, <2>2 DEF RunOK
  <1>10. \A t \in Sessions : NamesPicture(t)' => NamesPicture(t)
    BY <1>5 DEF NamesPicture
  <1>11. NamesKept'
    BY <1>1, <1>7, <1>10 DEF ReportsInv, NamesKept, Gone
  <1>12. PictureHasItsSummary'
    <2> SUFFICES ASSUME NEW t \in Sessions, png'[t] = "plot", ~ NamesPicture(t)'
                 PROVE  t \in broken' \/ Working(t, {"summary"})'
      BY DEF PictureHasItsSummary
    <2>1. CASE t = s
      BY <1>1, <1>2, <2>1
    <2>2. CASE t # s
      <3>1. png[t] = "plot" /\ ~ NamesPicture(t)
        BY <1>1, <1>5, <2>2 DEF NamesPicture
      <3>2. t \in broken \/ Working(t, {"summary"})
        BY <3>1 DEF ReportsInv, PictureHasItsSummary
      <3> QED
        BY <1>1, <1>4, <3>2, StillWorking
    <2> QED
      BY <2>1, <2>2
  <1> QED
    BY <1>4, <1>6, <1>7, <1>8, <1>9, <1>11, <1>12, RunMoves

\* At last the recording, which the newer ones have superseded.
LEMMA PruneCsvStep ==
  ASSUME ReportsInv, NEW p \in Reporters, UNCHANGED <<data, rec>>, PruneCsv(p)
  PROVE  ReportsInv'
  <1> DEFINE s == rp[p].s
             left == rp[p].left
  <1>1. /\ rp[p].at = "csv" /\ UNCHANGED <<part, lock, json, png, broken>>
        /\ \/ csv' = csv \ {s} /\ Next1(p, "prune")
           \/ csv' = csv /\ Enter(p, "off", {})
    BY DEF PruneCsv
  <1>2. /\ left \subseteq Sessions /\ s \in left
        /\ \A t \in left : Superseded(t) /\ data[t] # "unmade"
    BY <1>1, PruneKnows
  <1>3. rp \in [Reporters -> Run] /\ {"prune", "off"} \subseteq RunSteps
    BY DEF ReportsInv, ReportsTypeOK, RunSteps
  <1>4. PICK step, rest, n :
          /\ RunGoes(p, step, rest, n) /\ rest \subseteq left /\ step \in {"prune", "off"}
    <2>1. CASE Next1(p, "prune")
      <3>1. RunGoes(p, "prune", left \ {s}, s)
        BY <1>3, <2>1, GoingOn
      <3> QED
        BY <3>1
    <2>2. CASE Enter(p, "off", {})
      <3>1. RunGoes(p, "off", {}, 0)
        BY <1>3, <2>2, Entering
      <3> QED
        BY <3>1
    <2> QED
      BY <1>1, <2>1, <2>2
  <1>5. s \in Sessions /\ Superseded(s)
    BY <1>2
  <1>6. csv' = csv \/ (csv' = csv \ {s} /\ Superseded(s))
    BY <1>1, <1>5
  <1>7. Grows /\ \A t \in Sessions : Superseded(t) => Superseded(t)'
    BY <1>1, <1>5, <1>6, RunGrows DEF ReportsInv
  <1>8. ReportsTypeOK'
    <2>1. csv' \subseteq Sessions
      BY <1>6 DEF ReportsInv, ReportsTypeOK
    <2> QED
      BY <1>1, <1>4, <2>1 DEF ReportsInv, ReportsTypeOK, RunGoes
  <1>9. NamesInOrder'
    <2>1. csv' \subseteq csv /\ (rec.at = "complete" => rec.s \in csv' \/ Superseded(rec.s)')
      BY <1>1, <1>5, <1>6, <1>7 DEF ReportsInv, ReportsTypeOK, NamesInOrder
    <2> QED
      BY <1>1, <2>1 DEF ReportsInv, NamesInOrder, Recorded, Superseded
  <1>10. \A q \in Reporters \ {p} : Leaves(q)
    BY <1>1, <1>4 DEF Leaves, RunGoes
  <1>11. RunOK(p)'
    <2>1. rp'[p].at = step /\ rp'[p].left = rest
      BY <1>4 DEF RunGoes
    <2>2. \A t \in rest : Superseded(t)' /\ data'[t] # "unmade"
      BY <1>1, <1>2, <1>4, <1>7
    <2> QED
      BY <1>4, <2>1, <2>2 DEF RunOK
  <1>12. NamesKept'
    <2>1. ASSUME NEW t \in Sessions, Gone(t)' PROVE Superseded(t)'
      <3>1. CASE t = s
        BY <1>5, <1>7, <3>1
      <3>2. CASE t # s
        <4>1. Gone(t)
          BY <1>1, <2>1, <3>2 DEF Gone
        <4> QED
          BY <1>7, <4>1 DEF ReportsInv, NamesKept
      <3> QED
        BY <3>1, <3>2
    <2> QED
      BY <1>1, <1>7, <2>1 DEF ReportsInv, NamesKept, NamesPicture
  <1>13. PictureHasItsSummary'
    <2>1. \A t \in Sessions : Working(t, {"summary"}) => Working(t, {"summary"})'
      BY <1>1, <1>4, StillWorking
    <2> QED
      BY <1>1, <2>1 DEF ReportsInv, PictureHasItsSummary, NamesPicture
  <1> QED
    BY <1>4, <1>7, <1>8, <1>9, <1>10, <1>11, <1>12, <1>13, RunMoves

\* The recording is read, unless its report is complete.
LEMMA GenerateReadsStep ==
  ASSUME ReportsInv, NEW p \in Reporters, UNCHANGED <<data, rec>>, GenerateReads(p)
  PROVE  ReportsInv'
  <1> DEFINE s == Min(rp[p].left)
             step == IF data[s] = "samples" THEN "draw" ELSE "summary"
  <1>1. /\ rp[p].at = "generate" /\ rp[p].left # {}
        /\ UNCHANGED <<part, csv, lock, json, png, broken>>
        /\ \/ rp' = [rp EXCEPT ![p].left = @ \ {s}]
           \/ s \in csv /\ Takes(p, step, s)
    BY DEF GenerateReads, Takes
  <1>2. rp \in [Reporters -> Run] /\ rp[p].left \subseteq Sessions
    BY RunFields DEF ReportsInv, ReportsTypeOK
  <1>3. s \in Sessions
    BY <1>1, <1>2, MinOfNames, SessionsAssumption
  <1> HIDE DEF s
  <1>4. CASE rp' = [rp EXCEPT ![p].left = @ \ {s}]
    <2>1. RunGoes(p, "generate", rp[p].left \ {s}, rp[p].s)
      <3>1. RunGoes(p, rp[p].at, rp[p].left \ {s}, rp[p].s)
        BY <1>2, <1>3, <1>4, Skipping
      <3> QED
        BY <1>1, <3>1
    <2>2. RunOK(p)'
      BY <2>1 DEF RunGoes, RunOK
    <2> QED
      BY <1>1, <2>1, <2>2, QuietMove DEF RunSteps
  <1>5. CASE s \in csv /\ Takes(p, step, s)
    <2>1. step \in RunSteps /\ step \in {"draw", "summary"}
      BY DEF RunSteps
    <2>2. step = "draw" <=> data[s] = "samples"
      OBVIOUS
    <2> HIDE DEF step
    <2>3. RunGoes(p, step, rp[p].left, s)
      BY <1>2, <1>3, <1>5, <2>1, Choosing
    <2>4. PICK n : n = s
      OBVIOUS
    <2>5. rp'[p].at = step /\ rp'[p].s = n /\ n \in Sessions /\ data'[n] = data[n]
      BY <1>3, <2>3, <2>4 DEF RunGoes
    <2>6. Recorded(n)'
      BY <1>5, <2>4 DEF ReportsInv, NamesInOrder, Recorded
    <2>7. PICK now : now = step
      OBVIOUS
    <2>8. rp'[p].at = now /\ now \in {"draw", "summary"} /\ (now = "draw" <=> data'[n] = "samples")
      BY <2>1, <2>2, <2>4, <2>5, <2>7
    <2>9. RunOK(p)'
      BY <2>5, <2>6, <2>8 DEF RunOK
    <2> QED
      BY <1>1, <2>1, <2>3, <2>9, QuietMove
  <1> QED
    BY <1>1, <1>4, <1>5

\* The picture is drawn; if the session is being pruned, this is noted.
LEMMA GenerateDrawsStep ==
  ASSUME ReportsInv, NEW p \in Reporters, UNCHANGED <<data, rec>>, GenerateDraws(p)
  PROVE  ReportsInv'
  <1> DEFINE s == rp[p].s
             left == rp[p].left
  <1>1. /\ rp[p].at = "draw" /\ UNCHANGED <<part, csv, lock, json>> /\ At(p, "summary")
        /\ png' = [png EXCEPT ![s] = "plot"]
        /\ broken' = IF s \notin csv \/ Working(s, {"json", "csv"}) THEN broken \cup {s} ELSE broken
    BY DEF GenerateDraws
  <1>2. s \in Sessions /\ Recorded(s) /\ data[s] = "samples"
    BY <1>1, DrawKnows
  <1>3. rp \in [Reporters -> Run] /\ "summary" \in RunSteps
    BY DEF ReportsInv, ReportsTypeOK, RunSteps
  <1>4. RunGoes(p, "summary", left, s)
    BY <1>1, <1>3, Going
  <1>5. /\ png' \in [Sessions -> {"none", "other", "plot"}] /\ png'[s] = "plot"
        /\ \A t \in Sessions : t # s => png'[t] = png[t]
        /\ broken \subseteq broken' /\ broken' \subseteq Sessions
    BY <1>1, <1>2 DEF ReportsInv, ReportsTypeOK
  <1>6. ReportsTypeOK' /\ NamesInOrder'
    BY <1>1, <1>4, <1>5 DEF ReportsInv, ReportsTypeOK, NamesInOrder, Recorded, Superseded, RunGoes
  <1>7. Grows /\ \A t \in Sessions : Superseded(t) => Superseded(t)'
    <2>1. \A t \in Sessions : png'[t] = "none" => png[t] = "none" \/ Superseded(t)
      BY <1>5
    <2> QED
      BY <1>1, <1>2, <1>5, <2>1, RunGrows DEF ReportsInv
  <1>8. ASSUME NEW q \in Reporters \ {p} PROVE Leaves(q)
    <2>1. rp[q].at = "json" => rp[q].s \in Sessions
      BY PruneKnows
    <2>2. rp[q].at = "json" /\ rp[q].s = s => s \in broken'
      BY <1>1 DEF Working
    <2> QED
      BY <1>1, <1>4, <1>5, <2>1, <2>2 DEF Leaves, RunGoes
  <1>9. RunOK(p)'
    <2>1. PICK n : n = s
      OBVIOUS
    <2>2. /\ rp'[p].at = "summary" /\ rp'[p].s = n /\ n \in Sessions /\ png'[n] # "none"
      BY <1>2, <1>4, <1>5, <2>1 DEF RunGoes
    <2>3. Recorded(n)'
      BY <1>2, <2>1 DEF Recorded
    <2> QED
      BY <2>2, <2>3 DEF RunOK
  <1>10. NamesKept'
    <2> SUFFICES ASSUME NEW t \in Sessions
                 PROVE  /\ Gone(t)' => Superseded(t)'
                        /\ NamesPicture(t)' /\ png'[t] = "none" => Superseded(t)'
                        /\ png'[t] = "plot" => data'[t] = "samples"
      BY DEF NamesKept
    <2>1. (NamesPicture(t)' <=> NamesPicture(t)) /\ (Gone(t)' <=> Gone(t))
      BY <1>1 DEF NamesPicture, Gone
    <2>2. png'[t] = png[t] \/ (png'[t] = "plot" /\ data[t] = "samples")
      BY <1>2, <1>5
    <2> QED
      BY <1>7, <2>1, <2>2 DEF ReportsInv, NamesKept
  <1>11. PictureHasItsSummary'
    <2> SUFFICES ASSUME NEW t \in Sessions, png'[t] = "plot", ~ NamesPicture(t)'
                 PROVE  t \in broken' \/ Working(t, {"summary"})'
      BY DEF PictureHasItsSummary
    <2>1. CASE t = s
      BY <1>4, <2>1 DEF Working, RunGoes
    <2>2. CASE t # s
      <3>1. png[t] = "plot" /\ ~ NamesPicture(t)
        BY <1>1, <1>5, <2>2 DEF NamesPicture
      <3>2. t \in broken \/ Working(t, {"summary"})
        BY <3>1 DEF ReportsInv, PictureHasItsSummary
      <3> QED
        BY <1>1, <1>4, <1>5, <3>2, StillWorking
    <2> QED
      BY <2>1, <2>2
  <1> QED
    BY <1>4, <1>6, <1>7, <1>8, <1>9, <1>10, <1>11, RunMoves

\* The summary is written, after the picture it names.
LEMMA GenerateWritesStep ==
  ASSUME ReportsInv, NEW p \in Reporters, UNCHANGED <<data, rec>>, GenerateWrites(p)
  PROVE  ReportsInv'
  <1> DEFINE s == rp[p].s
             left == rp[p].left
             summary == IF data[s] = "samples" THEN "report" ELSE "empty"
  <1>1. /\ rp[p].at = "summary" /\ UNCHANGED <<part, csv, lock, png>> /\ Next1(p, "generate")
        /\ \/ json' = json /\ broken' = broken \cup {s}
           \/ json' = [json EXCEPT ![s] = summary] /\ broken' = broken
    BY DEF GenerateWrites
  <1>2. s \in Sessions /\ (data[s] = "samples" => png[s] # "none" \/ Superseded(s))
    BY <1>1, DrawKnows
  <1>3. rp \in [Reporters -> Run] /\ "generate" \in RunSteps
    BY DEF ReportsInv, ReportsTypeOK, RunSteps
  <1>4. RunGoes(p, "generate", left \ {s}, s)
    BY <1>1, <1>3, GoingOn
  <1>5. /\ json' \in [Sessions -> {"none", "other", "empty", "old", "report"}]
        /\ \A t \in Sessions : t # s => json'[t] = json[t]
        /\ \/ json'[s] = json[s] /\ s \in broken'
           \/ json'[s] = summary
        /\ broken \subseteq broken' /\ broken' \subseteq Sessions
    BY <1>1, <1>2 DEF ReportsInv, ReportsTypeOK
  <1>6. ReportsTypeOK' /\ NamesInOrder'
    BY <1>1, <1>4, <1>5 DEF ReportsInv, ReportsTypeOK, NamesInOrder, Recorded, Superseded, RunGoes
  <1>7. Grows /\ \A t \in Sessions : Superseded(t) => Superseded(t)'
    BY <1>1, <1>2, <1>5, RunGrows DEF ReportsInv
  <1>8. \A q \in Reporters \ {p} : Leaves(q)
    BY <1>1, <1>4 DEF Leaves, RunGoes
  <1>9. RunOK(p)'
    BY <1>4 DEF RunGoes, RunOK
  <1>10. NamesKept'
    <2> SUFFICES ASSUME NEW t \in Sessions
                 PROVE  /\ Gone(t)' => Superseded(t)'
                        /\ NamesPicture(t)' /\ png'[t] = "none" => Superseded(t)'
                        /\ png'[t] = "plot" => data'[t] = "samples"
      BY DEF NamesKept
    <2>1. Gone(t)' => Superseded(t)'
      BY <1>1, <1>7 DEF Gone, ReportsInv, NamesKept
    <2>2. png'[t] = "plot" => data'[t] = "samples"
      BY <1>1 DEF ReportsInv, NamesKept
    <2>3. NamesPicture(t)' => NamesPicture(t) \/ (t = s /\ data[s] = "samples")
      BY <1>5 DEF NamesPicture
    <2>4. NamesPicture(t)' /\ png'[t] = "none" => Superseded(t)
      BY <1>1, <1>2, <2>3 DEF ReportsInv, NamesKept
    <2> QED
      BY <1>7, <2>1, <2>2, <2>4
  <1>11. PictureHasItsSummary'
    <2> SUFFICES ASSUME NEW t \in Sessions, png'[t] = "plot", ~ NamesPicture(t)'
                 PROVE  t \in broken' \/ Working(t, {"summary"})'
      BY DEF PictureHasItsSummary
    <2>1. png[t] = "plot" /\ data[t] = "samples"
      BY <1>1 DEF ReportsInv, NamesKept
    <2>2. CASE t = s
      <3>1. json'[s] # "report"
        BY <2>2 DEF NamesPicture
      <3> QED
        BY <1>5, <2>1, <2>2, <3>1
    <2>3. CASE t # s
      <3>1. ~ NamesPicture(t)
        BY <1>5, <2>3 DEF NamesPicture
      <3>2. t \in broken \/ Working(t, {"summary"})
        BY <2>1, <3>1 DEF ReportsInv, PictureHasItsSummary
      <3> QED
        BY <1>4, <1>5, <2>3, <3>2, StillWorking
    <2> QED
      BY <2>2, <2>3
  <1> QED
    BY <1>4, <1>6, <1>7, <1>8, <1>9, <1>10, <1>11, RunMoves

\* A report that fails is noted, and the run goes on; a run that is killed lets go of
\* its lock.
LEMMA BrokenSteps ==
  ASSUME ReportsInv, NEW p \in Reporters, UNCHANGED <<data, rec>>,
         GenerateFails(p) \/ RunDies(p)
  PROVE  ReportsInv'
  <1> DEFINE s == rp[p].s
             left == rp[p].left
  <1>1. /\ UNCHANGED <<part, csv, json, png>>
        /\ broken' = IF rp[p].at \in {"draw", "summary"} THEN broken \cup {s} ELSE broken
        /\ \/ Next1(p, "generate") /\ lock' = lock
           \/ Enter(p, "off", {}) /\ lock' = [t \in Sessions |-> IF lock[t] = p THEN NoOne ELSE lock[t]]
    BY DEF GenerateFails, RunDies
  <1>2. rp[p].at \in {"draw", "summary"} => s \in Sessions
    BY DrawKnows
  <1>3. rp \in [Reporters -> Run] /\ {"generate", "off"} \subseteq RunSteps
    BY DEF ReportsInv, ReportsTypeOK, RunSteps
  <1>4. PICK step, rest, n : RunGoes(p, step, rest, n) /\ step \in {"generate", "off"}
    <2>1. CASE Next1(p, "generate")
      <3>1. RunGoes(p, "generate", left \ {s}, s)
        BY <1>3, <2>1, GoingOn
      <3> QED
        BY <3>1
    <2>2. CASE Enter(p, "off", {})
      <3>1. RunGoes(p, "off", {}, 0)
        BY <1>3, <2>2, Entering
      <3> QED
        BY <3>1
    <2> QED
      BY <1>1, <2>1, <2>2
  <1>5. broken \subseteq broken' /\ broken' \subseteq Sessions
    BY <1>1, <1>2 DEF ReportsInv, ReportsTypeOK
  <1>6. /\ lock' \in [Sessions -> Reporters \cup {NoOne, "recorder"}]
        /\ \A t \in Sessions : lock'[t] = lock[t] \/ (lock[t] = p /\ lock'[t] = NoOne)
    BY <1>1 DEF ReportsInv, ReportsTypeOK
  <1>7. ReportsTypeOK'
    BY <1>1, <1>4, <1>5, <1>6 DEF ReportsInv, ReportsTypeOK, RunGoes
  <1>8. NamesInOrder'
    <2>1. \A t \in Sessions : lock'[t] = "recorder" <=> lock[t] = "recorder"
      BY <1>6, ReportersAssumption DEF NoOne
    <2> QED
      BY <1>1, <2>1 DEF ReportsInv, NamesInOrder, Recorded, Superseded
  <1>9. Grows
    <2> SUFFICES ASSUME TRUE PROVE Grows
      OBVIOUS
    <2>1. \A t \in Sessions : (Superseded(t) => Superseded(t)') /\ (Recorded(t) => Recorded(t)')
      BY <1>1 DEF Superseded, Recorded
    <2> QED
      BY <1>1, <1>5, <2>1 DEF Grows
  <1>10. ASSUME NEW q \in Reporters \ {p} PROVE Leaves(q)
    <2>1. rp[q].at \in {"locked", "recovered"} => rp[q].s \in Sessions
      BY RecoverKnows
    <2> QED
      BY <1>1, <1>4, <1>6, <2>1 DEF Leaves, RunGoes
  <1>11. RunOK(p)'
    BY <1>4 DEF RunGoes, RunOK
  <1>12. NamesKept'
    BY <1>1 DEF ReportsInv, NamesKept, Gone, Superseded, NamesPicture
  <1>13. PictureHasItsSummary'
    <2> SUFFICES ASSUME NEW t \in Sessions, png'[t] = "plot", ~ NamesPicture(t)'
                 PROVE  t \in broken' \/ Working(t, {"summary"})'
      BY DEF PictureHasItsSummary
    <2>1. t \in broken \/ Working(t, {"summary"})
      BY <1>1 DEF ReportsInv, PictureHasItsSummary, NamesPicture
    <2>2. CASE rp[p].at = "summary" /\ s = t
      BY <1>1, <2>2
    <2>3. CASE ~ (rp[p].at = "summary" /\ s = t)
      BY <1>4, <1>5, <2>1, <2>3, StillWorking
    <2> QED
      BY <2>2, <2>3
  <1> QED
    BY <1>4, <1>7, <1>8, <1>9, <1>10, <1>11, <1>12, <1>13, RunMoves

LEMMA ReportStep ==
  ASSUME ReportsInv, NEW p \in Reporters, Report(p)
  PROVE  ReportsInv'
  BY ListSteps, RecoverOpensStep, RecoverLocksStep, RecoverLinksStep, RecoverUnlinksStep,
     PrunePngStep, PruneJsonStep, PruneCsvStep, GenerateReadsStep, GenerateDrawsStep,
     GenerateWritesStep, BrokenSteps DEF Report

------------------------------------------------------------------------------
(* The invariant *)

LEMMA DirectoryEmpty == ReportsInit => ReportsInv
  <1> SUFFICES ASSUME ReportsInit PROVE ReportsInv
    OBVIOUS
  <1> USE DEF ReportsInit
  <1>1. ReportsTypeOK
    <2>1. json \in [Sessions -> {"none", "other", "empty", "old", "report"}]
          /\ png \in [Sessions -> {"none", "other", "plot"}]
      OBVIOUS
    <2>2. rp \in [Reporters -> Run]
      BY DEF Run, RunSteps
    <2> QED
      BY <2>1, <2>2 DEF ReportsTypeOK
  <1>2. NamesInOrder
    BY DEF NamesInOrder, NoOne
  <1>3. \A p \in Reporters : RunOK(p)
    BY DEF RunOK
  <1>4. \A s \in Sessions : json[s] \in {"none", "other"} /\ png[s] # "plot" /\ data[s] = "unmade"
    OBVIOUS
  <1>5. NamesKept /\ PictureHasItsSummary
    BY <1>4 DEF NamesKept, PictureHasItsSummary, Gone, NamesPicture
  <1> QED
    BY <1>1, <1>2, <1>3, <1>5 DEF ReportsInv

\* A new version of the report program finds the summaries of an older one.
LEMMA UpgradeStep ==
  ASSUME ReportsInv, Upgrade
  PROVE  ReportsInv'
  <1>1. /\ json' \in [Sessions -> {"none", "other", "empty", "old", "report"}]
        /\ \A s \in Sessions : NamesPicture(s)' <=> NamesPicture(s)
    BY DEF Upgrade, ReportsInv, ReportsTypeOK, NamesPicture
  <1>2. UNCHANGED <<part, csv, lock, data, png, rec, rp, broken>>
    BY DEF Upgrade
  <1>3. ReportsTypeOK' /\ NamesInOrder'
    BY <1>1, <1>2 DEF ReportsInv, ReportsTypeOK, NamesInOrder, Recorded, Superseded
  <1>4. \A p \in Reporters : RunOK(p)'
    BY <1>2 DEF ReportsInv, RunOK, Recorded, Superseded
  <1>5. NamesKept' /\ PictureHasItsSummary'
    BY <1>1, <1>2 DEF ReportsInv, NamesKept, PictureHasItsSummary, Gone, Superseded, Working
  <1> QED
    BY <1>3, <1>4, <1>5 DEF ReportsInv

LEMMA ReportsStep == ReportsInv /\ [ReportsNext]_reportsVars => ReportsInv'
  <1> SUFFICES ASSUME ReportsInv, [ReportsNext]_reportsVars PROVE ReportsInv'
    OBVIOUS
  <1>1. CASE Recorder
    BY <1>1, RecorderStep
  <1>2. CASE Upgrade
    BY <1>2, UpgradeStep
  <1>3. CASE \E p \in Reporters : Report(p)
    BY <1>3, ReportStep
  <1>4. CASE UNCHANGED reportsVars
    <2>1. UNCHANGED <<part, csv, lock, data, json, png, rec, rp, broken>>
      BY <1>4 DEF reportsVars
    <2>2. ReportsTypeOK' /\ NamesInOrder'
      BY <2>1 DEF ReportsInv, ReportsTypeOK, NamesInOrder, Recorded, Superseded
    <2>3. \A p \in Reporters : RunOK(p)'
      BY <2>1 DEF ReportsInv, RunOK, Recorded, Superseded
    <2>4. NamesKept' /\ PictureHasItsSummary'
      BY <2>1 DEF ReportsInv, NamesKept, PictureHasItsSummary, Gone, NamesPicture, Superseded, Working
    <2> QED
      BY <2>2, <2>3, <2>4 DEF ReportsInv
  <1> QED
    BY <1>1, <1>2, <1>3, <1>4 DEF ReportsNext

\* What the recorder, the report runs and the directory know of each other is
\* inductive, for any number of sessions, of overlapping runs and of sessions kept.
THEOREM ReportsInvariance == ReportsSpec => []ReportsInv
  BY DirectoryEmpty, ReportsStep, PTL DEF ReportsSpec

\* No report run touches the names of the recording that is being written.
THEOREM LiveAlwaysLeftAlone == ReportsSpec => []LiveIsLeftAlone
  <1>1. ReportsInv => LiveIsLeftAlone
    <2> SUFFICES ASSUME ReportsInv, rec.at \in {"recording", "synced"}
                 PROVE  rec.s \in part /\ rec.s \notin csv
      BY DEF LiveIsLeftAlone
    <2>1. rec.s \in part /\ (rec.s \in csv => Recorded(rec.s))
      BY DEF ReportsInv, NamesInOrder
    <2>2. rec.s \in Nat
      BY RecNumber DEF ReportsInv
    <2> QED
      BY <2>1, <2>2 DEF Recorded
  <1> QED
    BY <1>1, ReportsInvariance, PTL

\* A recording without a name was pruned for enough newer ones: no crash, recovery or
\* overlap loses one of the newest.
THEOREM NothingEverLost == ReportsSpec => []NothingLost
  <1>1. ReportsInv => NothingLost
    <2> SUFFICES ASSUME ReportsInv, NEW s \in Sessions, Gone(s)
                 PROVE  Cardinality({t \in Sessions : t > s /\ (t \in csv \/ Gone(t))}) >= Keep
      BY DEF NothingLost
    <2> DEFINE a == {t \in csv : t > s}
               b == {t \in Sessions : t > s /\ (t \in csv \/ Gone(t))}
    <2>1. Cardinality(a) >= Keep
      BY DEF ReportsInv, NamesKept, Superseded
    <2>2. a \subseteq b
      BY DEF ReportsInv, ReportsTypeOK
    <2>3. IsFiniteSet(b)
      <3>1. b \subseteq 0 .. rec.s
        BY NamesBounded DEF ReportsInv, Gone
      <3> QED
        BY <3>1, Finite DEF ReportsInv
    <2> HIDE DEF a, b
    <2>4. IsFiniteSet(a) /\ Cardinality(a) <= Cardinality(b)
      BY <2>2, <2>3, FS_Subset
    <2>5. Cardinality(a) \in Nat /\ Cardinality(b) \in Nat
      BY <2>3, <2>4, FS_CardinalityType
    <2>6. Cardinality(b) >= Keep
      BY <2>1, <2>4, <2>5, KeepAssumption
    <2> QED
      BY <2>6 DEF b
  <1> QED
    BY <1>1, ReportsInvariance, PTL

\* The summary of a session that is kept names a picture that is there.
THEOREM KeptReportsAlwaysWhole == ReportsSpec => []KeptReportIsWhole
  <1>1. ReportsInv => KeptReportIsWhole
    <2> SUFFICES ASSUME ReportsInv, NEW s \in Newest, NamesPicture(s) PROVE png[s] # "none"
      BY DEF KeptReportIsWhole
    <2>1. s \in Sessions /\ IsFiniteSet({t \in csv : t > s})
      BY NamesFinite, Finite, NamesBounded, FS_Subset DEF ReportsInv, ReportsTypeOK, Newest
    <2>2. Cardinality({t \in csv : t > s}) \in Nat
      BY <2>1, FS_CardinalityType
    <2>3. ~ Superseded(s)
      BY <2>2, KeepAssumption DEF Newest, Superseded
    <2> QED
      BY <2>1, <2>3 DEF ReportsInv, NamesKept
  <1> QED
    BY <1>1, ReportsInvariance, PTL

\* A picture no summary names is left only where a report failed, was killed or was
\* overtaken by a run that pruned it.
THEOREM PicturesAlwaysNamed == ReportsSpec => []PictureHasItsSummary
  <1>1. ReportsInv => PictureHasItsSummary
    BY DEF ReportsInv
  <1> QED
    BY <1>1, ReportsInvariance, PTL
==============================================================================
