------------------------------- MODULE Intents ------------------------------
(***************************************************************************)
(* How each patching command changes what it has extracted: the functions  *)
(* called modifyIntent of backup.go and restore.go and the payload of      *)
(* start.go, over the trees of module Unstructured.                        *)
(***************************************************************************)
EXTENDS Unstructured

Command == {"backup", "restore", "disable", "start", "stop", "create", "delete"}

\* A command line: a field is Absent or FALSE when the flag is not given.
Request == [command : Command,
            repoName : Repos \cup {Absent},
            options : OptionLists \cup {Absent},
            force : BOOLEAN,
            disableBackups : BOOLEAN]

Line(command, force) ==
    [command |-> command, repoName |-> Absent, options |-> Absent,
     force |-> force, disableBackups |-> FALSE]

\* Mutant: the sections emptied by the removals stay.
BackupIntent_Unpruned(t, r, time) ==
    LET annotated == MergeAnnotation(t, "backupAnnotation", time)
        options   == SetOrRemove(annotated, "manual.options", r.options)
    IN  SetOrRemove(options, "manual.repoName", r.repoName)

\* pgBackRestBackupArgs.modifyIntent
BackupIntent(t, r, time) ==
    LET annotated == MergeAnnotation(t, "backupAnnotation", time)
        options   == SetOrRemove(annotated, "manual.options", r.options)
        repoName  == SetOrRemove(options, "manual.repoName", r.repoName)
    IN  RemoveEmptyManualSections(repoName)

\* pgBackRestRestore.modifyIntent
RestoreIntent(t, r, time) ==
    LET annotated == MergeAnnotation(t, "restoreAnnotation", time)
        enabled   == SetNestedField(annotated, "restore.enabled", "true")
        options   == SetOrRemove(enabled, "restore.options", r.options)
    IN  SetOrRemove(options, "restore.repoName", r.repoName)

\* Mutant: only the flag is removed.
DisableIntent_FlagOnly(t) ==
    RemoveEmptySections(RemoveNestedField(t, "restore.enabled"))

\* pgBackRestRestoreDisable.modifyIntent
DisableIntent(t) ==
    RemoveEmptySections(RemoveNestedField(t, "restore"))

ShutdownValue(r) == IF r.command = "stop" THEN "true" ELSE "false"

\* patchClusterShutdown, the payload.
ShutdownIntent(t, r) == SetNestedField(t, "shutdown", ShutdownValue(r))

ModifyIntent(t, r, time) ==
    CASE r.command = "backup"  -> BackupIntent(t, r, time)
      [] r.command = "restore" -> RestoreIntent(t, r, time)
      [] r.command = "disable" -> DisableIntent(t)
      [] OTHER                 -> ShutdownIntent(t, r)
=============================================================================
