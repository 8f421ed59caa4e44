----------------------------- MODULE Postinstall -----------------------------
(***************************************************************************)
(* car2/scripts/postinstall.py: after a package was unpacked on a robot,   *)
(* the settings and the state outside the package are seeded.  A file that *)
(* exists is never replaced; with --migrate-from, the files of an older    *)
(* source tree are copied before the package's defaults.  Each file is     *)
(* created first and filled afterwards, and the program may fail or be     *)
(* killed in between.  Nothing is synced: until the system has written a   *)
(* file back, a power cut may lose it or leave it without its content.     *)
(***************************************************************************)
CONSTANTS
    Settings,   \* names of configuration files, which the package has
    State       \* names of state files, which only an older tree has

ASSUME SettingsAssumption == Settings \cap State = {}

VARIABLES
    oldTree,    \* the files of the older source tree this installation was given
    target,     \* the persistent files: what each holds
    stage,      \* what postinstall is copying
    todo,       \* the files of this stage that are left
    copying,    \* the file that is created and not filled, or none
    migrating,  \* this installation was given --migrate-from
    before,     \* target when this installation began
    cached,     \* the files that are not written back yet
    caught      \* history: the files a kill or a power cut came upon
installVars == <<oldTree, target, stage, todo, copying, migrating, before, cached, caught>>

Names == Settings \cup State
Stages == {"idle", "old settings", "old state", "defaults", "installed"}
Contents == {"none", "torn", "own", "old", "default"}

InstallTypeOK ==
    /\ oldTree \subseteq Names
    /\ target \in [Names -> Contents] /\ before \in [Names -> Contents]
    /\ stage \in Stages
    /\ todo \subseteq Names /\ copying \subseteq Names
    /\ cached \subseteq Names /\ caught \subseteq Names
    /\ migrating \in BOOLEAN

InstallInit ==
    /\ oldTree = {}
    /\ target = [f \in Names |-> "none"]
    /\ before = target
    /\ stage = "idle" /\ todo = {} /\ copying = {} /\ cached = {} /\ caught = {}
    /\ migrating = FALSE

\* What the stage copies, and from where.
Copied(s) == CASE s = "old settings" -> oldTree \cap Settings
               [] s = "old state" -> oldTree \cap State
               [] s = "defaults" -> Settings
               [] OTHER -> {}
Source(s) == IF s = "defaults" THEN "default" ELSE "old"

\* The stages of an installation, in order.
After(s) == CASE s = "old settings" -> "old state"
              [] s = "old state" -> "defaults"
              [] s = "defaults" -> "installed"

\* Mutant: the defaults are copied whether or not there is an older tree.
FirstDefaults(m) == "defaults"

First(m) == IF m THEN "old settings" ELSE "defaults"

\* The checks of the package and of the older tree passed; the directories exist.
StartInstall ==
    /\ stage \in {"idle", "installed"}
    /\ \E m \in BOOLEAN : migrating' = m /\ stage' = First(m)
    /\ oldTree' \in IF migrating' THEN SUBSET Names ELSE {{}}
    /\ todo' = IF migrating' THEN oldTree' \cap Settings ELSE Settings
    /\ before' = target
    /\ UNCHANGED <<target, copying, cached, caught>>

\* No installation runs, and its memory is gone.
Over ==
    /\ stage' = "idle" /\ todo' = {} /\ copying' = {}
    /\ migrating' = FALSE /\ oldTree' = {} /\ before' = target'

\* Between installations, the machine or its operator writes a file of its own,
\* and has it synced.
OwnFile ==
    /\ stage \in {"idle", "installed"}
    /\ \E f \in Names : target[f] = "none" /\ target' = [target EXCEPT ![f] = "own"]
    /\ Over /\ UNCHANGED <<cached, caught>>

\* copy_missing(): open(.., 'xb') creates the file, or finds it and goes on.
CopyOpens ==
    /\ copying = {}
    /\ \E f \in todo :
          /\ todo' = todo \ {f}
          /\ IF target[f] = "none"
             THEN /\ copying' = {f} /\ cached' = cached \cup {f}
                  /\ target' = [target EXCEPT ![f] = "torn"]
             ELSE UNCHANGED <<copying, cached, target>>
    /\ UNCHANGED <<oldTree, stage, migrating, before, caught>>

CopyFills ==
    /\ \E f \in copying : target' = [target EXCEPT ![f] = Source(stage)]
    /\ copying' = {} /\ cached' = cached \cup copying
    /\ UNCHANGED <<oldTree, stage, todo, migrating, before, caught>>

NextStage ==
    /\ stage \notin {"idle", "installed"} /\ todo = {} /\ copying = {}
    /\ stage' = After(stage) /\ todo' = Copied(stage')
    /\ UNCHANGED <<oldTree, target, copying, migrating, before, cached, caught>>

\* Mutant: an error leaves the file as it is.
InstallFailsDirty ==
    /\ stage \notin {"idle", "installed"}
    /\ UNCHANGED target
    /\ Over /\ UNCHANGED <<cached, caught>>

\* An error: the file being copied is removed, and the program ends.
InstallFails ==
    /\ stage \notin {"idle", "installed"}
    /\ target' = [f \in Names |-> IF f \in copying THEN "none" ELSE target[f]]
    /\ Over /\ UNCHANGED <<cached, caught>>

\* Killed: what was written stays as it is.
InstallKilled ==
    /\ stage \notin {"idle", "installed"}
    /\ caught' = caught \cup copying
    /\ UNCHANGED <<target, cached>> /\ Over

\* The system writes a file back, in its own order: its entry and its content
\* are on the disk as they are now.
WrittenBack ==
    /\ \E f \in cached : cached' = cached \ {f}
    /\ UNCHANGED <<oldTree, target, stage, todo, copying, migrating, before, caught>>

\* The power fails, during an installation or after it: of what was not written
\* back some files are gone, or are there without their content (also one that
\* was removed again).
PowerFails ==
    /\ cached # {} \/ stage \notin {"idle", "installed"}
    /\ \E gone, emptied \in SUBSET cached :
          target' = [f \in Names |-> IF f \in gone THEN "none"
                                     ELSE IF f \in emptied THEN "torn" ELSE target[f]]
    /\ caught' = caught \cup copying \cup cached
    /\ cached' = {} /\ Over

InstallGoesOn ==
    \/ OwnFile \/ CopyOpens \/ CopyFills \/ NextStage
    \/ InstallFails \/ InstallKilled \/ WrittenBack \/ PowerFails

InstallNext == StartInstall \/ InstallGoesOn

InstallSpec == InstallInit /\ [][InstallNext]_installVars

------------------------------------------------------------------------------
(* Properties *)

\* A file that is not complete is the one being copied, or one a kill or a power
\* cut came upon while it was copied or not yet on the disk: a failed installation
\* leaves none, although every later one keeps what it finds.
\* (copy_missing, postinstall.py:22-29)
SeededWhole == \A f \in Names : target[f] = "torn" => f \in copying \cup caught

\* After an installation with --migrate-from, each file of the older tree that
\* this robot did not have holds the older tree's content: no default took its
\* place.
OldMachineFirst ==
    stage = "installed" /\ migrating =>
        \A f \in oldTree : before[f] = "none" => target[f] = "old"

\* What was complete stays as it is, whatever is installed, repeated, broken off
\* or killed; only a power cut takes it, and only before it was written back.
\* (the exclusive creation, postinstall.py:22)
Whole(f) == target[f] \in {"own", "old", "default"}
CompleteIsKept ==
    [][\A f \in Names : Whole(f) =>
          target'[f] = target[f] \/ (PowerFails /\ f \in cached)]_installVars
==============================================================================
