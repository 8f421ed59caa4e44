------------------------------ MODULE OtaRelease ------------------------------
(***************************************************************************)
(* From the packing of a release to the settings of a robot that installs  *)
(* it: OtaPublish and Postinstall.  The robot is external: its updater     *)
(* takes an archive that is listed with a checksum, downloads it and       *)
(* compares the two before it unpacks the package and runs postinstall.    *)
(***************************************************************************)
EXTENDS OtaPublish, Postinstall

releaseVars == <<vars, installVars>>

ReleaseInit == Init /\ InstallInit

\* The robot installs what it downloaded and found intact.  The installation
\* shares nothing with the publishing runs: it is followed from the moment the
\* last of them has published.
RobotInstalls ==
    /\ \A r \in Runs : pc[r] = "published"
    /\ \A r \in Runs, f \in Files : task[r][f] \notin Under
    /\ obj["archive"] = "ours" /\ obj["checksum"] = "ours"
    /\ StartInstall

Release == PublishNext /\ stage = "idle" /\ UNCHANGED installVars
Robot == (RobotInstalls \/ InstallGoesOn) /\ UNCHANGED vars

Next == Release \/ Robot

Spec == ReleaseInit /\ [][Next]_releaseVars
        /\ \A r \in Runs : WF_vars(Publish(r))
==============================================================================
