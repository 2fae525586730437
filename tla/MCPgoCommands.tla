--------------------------- MODULE MCPgoCommands ----------------------------
(***************************************************************************)
(* Values for the constants of PgoCommands.  Each configuration picks the  *)
(* command lines and the foreign writes its question is about.             *)
(***************************************************************************)
EXTENDS PgoCommands, TLC

CONSTANTS p1, p2, r1, r2, o1, kubectl

Backup(repo, options, force) ==
    [Line("backup", force) EXCEPT !.repoName = repo, !.options = options]
Restore(repo, options, force) ==
    [Line("restore", force) EXCEPT !.repoName = repo, !.options = options]
Create0 == Line("create", FALSE)
CreateWithoutBackups == [Create0 EXCEPT !.disableBackups = TRUE]

MCTimes == 0..MaxTime
Symmetry == Permutations(Proc)

\* Settings: every command that patches, without force.
SettingsRequests ==
    {Backup(r1, o1, FALSE), Backup(Absent, Absent, FALSE),
     Restore(r1, Absent, FALSE), Line("disable", FALSE),
     Line("stop", FALSE), Line("start", FALSE)}
SettingsEdits ==
    {"shutdown" :> "true", "manual.repoName" :> r2,
     "restore.enabled" :> "true" @@ "restore.repoName" :> r2}
SettingsConfigs ==
    {[NoTree EXCEPT !.fields["restore.repoName"] = r1]}

\* Lifecycle: create and delete against patches, a command of every shape.
LifecycleRequests ==
    {Create0, CreateWithoutBackups, Line("delete", FALSE),
     Backup(r1, Absent, TRUE), Line("stop", TRUE), Restore(r1, Absent, FALSE)}
LifecycleEdits == {"manual.repoName" :> r2}

NoEdits == {}
NoConfigs == {}

BackupRequests == {Backup(r1, o1, FALSE), Backup(Absent, Absent, FALSE)}
=============================================================================
