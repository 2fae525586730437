---------------------------- MODULE ExportStream ----------------------------
(***************************************************************************)
(* How "pgo support export" collects log files (internal/cmd/export.go):   *)
(* gatherPostgresLogsAndConfigs, gatherDbBackrestLogs, gatherRepoHostLogs  *)
(* and the streamFileFromPod they share.                                   *)
(*                                                                         *)
(* Each gatherer walks over pods, each pod over its log files.  A file is  *)
(* measured in the pod, copied to a local directory, measured again and    *)
(* added to the archive.  The database goes on writing meanwhile.  The     *)
(* local directory is named after the archive: all pods of all gatherers   *)
(* use the same one.                                                       *)
(***************************************************************************)
EXTENDS Naturals, Sequences

CONSTANTS
    DBPods,        \* the instance pods, in the order of the API's list
    RepoHostPods,  \* the repository host pods
    LogFiles,      \* paths of PostgreSQL logs
    BackrestFiles, \* paths of pgBackRest logs on the instances
    RepoFiles,     \* paths of pgBackRest logs on the repository host
    Absent,        \* no such local file
    MaxSize        \* bound on the size of a log file

Gatherers == {"postgres", "backrest", "repoHost", "done"}
Pod == {DBPods[i] : i \in DOMAIN DBPods} \cup {RepoHostPods[i] : i \in DOMAIN RepoHostPods}
File == LogFiles \cup BackrestFiles \cup RepoFiles
Sizes == 0..MaxSize
NoFile == [file |-> Absent, size |-> 0]

ASSUME PodsAssumption ==
    /\ DBPods \in Seq(Pod) /\ RepoHostPods \in Seq(Pod)
    /\ MaxSize \in Nat
    /\ Absent \notin [pod : Pod, size : Sizes]

\* A list has each pod once, a repository host is no instance, and pgBackRest's
\* logs are not where PostgreSQL's are.
ASSUME NamesAssumption ==
    /\ \A i, j \in DOMAIN DBPods : DBPods[i] = DBPods[j] => i = j
    /\ \A i, j \in DOMAIN RepoHostPods : RepoHostPods[i] = RepoHostPods[j] => i = j
    /\ \A i \in DOMAIN DBPods, j \in DOMAIN RepoHostPods : DBPods[i] # RepoHostPods[j]
    /\ LogFiles \cap BackrestFiles = {}

VARIABLES
    gatherer,   \* the gatherer that runs
    pods,       \* the pods it has still to visit, the current one first
    pc,         \* what it does next
    todo,       \* the files of the current pod that are still to be streamed
    measured,   \* the file to be streamed and its size when it was measured
    doCleanup,  \* the flag of that name, per pod
    size,       \* the size of that file in its pod now
    local,      \* the local directory: where each file was copied from, and how much
    archive,    \* the log files in the tar
    outcome,    \* history: what became of every file that was listed
    retained,   \* history: files whose error told the user to look at the directory
    undeleted   \* history: an error kept RemoveAll from working

vars == <<gatherer, pods, pc, todo, measured, doCleanup, size, local, archive,
          outcome, retained, undeleted>>

FilesOf(g) == CASE g = "postgres" -> LogFiles
                [] g = "backrest" -> BackrestFiles
                [] OTHER -> RepoFiles

PodsOf(g) == IF g = "repoHost" THEN RepoHostPods ELSE DBPods

NextGatherer(g) == CASE g = "postgres" -> "backrest"
                     [] g = "backrest" -> "repoHost"
                     [] OTHER -> "done"

pod == Head(pods)

Init ==
    /\ gatherer = "postgres"
    /\ pods = <<>>
    /\ pc = "listPods"
    /\ todo = {}
    /\ measured = NoFile
    /\ doCleanup = TRUE
    /\ size = 0
    /\ local = [f \in File |-> Absent]
    /\ archive = {}
    /\ outcome = {}
    /\ retained = {}
    /\ undeleted = FALSE

-----------------------------------------------------------------------------
(* Moving on.                                                              *)

\* The gatherer returns, with or without an error: RunE prints an error and
\* calls the next one.
Return ==
    /\ gatherer' = NextGatherer(gatherer)
    /\ pc' = IF gatherer' = "done" THEN "done" ELSE "listPods"
    /\ pods' = <<>>
    /\ todo' = {}

\* "continue" of the loop over pods, or its end.
NextPod ==
    IF Len(pods) = 1 THEN Return
    ELSE /\ pods' = Tail(pods)
         /\ pc' = "listFiles"
         /\ todo' = {}
         /\ UNCHANGED gatherer

GoTo(step) == pc' = step /\ UNCHANGED <<gatherer, pods, todo>>

-----------------------------------------------------------------------------
(* The steps of a gatherer.                                                *)

\* Pods(namespace).List; forbidden, failed or empty is the end of a gatherer.
ListPods ==
    /\ pc = "listPods"
    /\ \/ Return
       \/ /\ PodsOf(gatherer) # <<>>
          /\ pods' = PodsOf(gatherer)
          /\ pc' = "listFiles"
          /\ UNCHANGED <<gatherer, todo>>
    /\ UNCHANGED <<measured, doCleanup, size, local, archive, outcome, retained, undeleted>>

\* ls in the pod: an error or any output on stderr skips the pod, "forbidden"
\* ends the gatherer.  --pg-logs-count chooses among the logs.  No output at
\* all is the list of one file without a name, which cannot be measured.
ListFiles ==
    /\ pc = "listFiles"
    /\ \/ NextPod /\ UNCHANGED doCleanup
       \/ Return /\ UNCHANGED doCleanup
       \/ \E files \in SUBSET FilesOf(gatherer) :
            /\ todo' = files
            /\ doCleanup' = TRUE
            /\ pc' = IF files = {} THEN "cleanup" ELSE "measure"
            /\ UNCHANGED <<gatherer, pods>>
    /\ UNCHANGED <<measured, size, local, archive, outcome, retained, undeleted>>

\* Mutant: the next file is streamed without being measured.
Finish_Unmeasured(f, how) ==
    /\ todo' = todo \ {f}
    /\ outcome' = outcome \cup {<<gatherer, pod, f, how>>}
    /\ pc' = IF todo' = {} THEN "cleanup" ELSE "stream"

Finish(f, how) ==
    /\ todo' = todo \ {f}
    /\ outcome' = outcome \cup {<<gatherer, pod, f, how>>}
    /\ pc' = IF todo' = {} THEN "cleanup" ELSE "measure"

\* Mutant: a file that cannot be measured keeps the directory.
Measure_KeepsDirectory ==
    /\ pc = "measure"
    /\ \E f \in todo :
        \/ /\ size' \in Sizes
           /\ measured' = [file |-> f, size |-> size']
           /\ pc' = "stream"
           /\ UNCHANGED <<todo, outcome, doCleanup>>
        \/ /\ Finish(f, "logged")
           /\ doCleanup' = FALSE
           /\ UNCHANGED <<measured, size>>
    /\ UNCHANGED <<gatherer, pods, local, archive, retained, undeleted>>

\* Mutant: a file that cannot be measured ends the gatherer.
Measure_Returns ==
    /\ pc = "measure"
    /\ \E f \in todo :
        \/ /\ size' \in Sizes
           /\ measured' = [file |-> f, size |-> size']
           /\ pc' = "stream"
           /\ UNCHANGED <<gatherer, pods, todo, outcome>>
        \/ /\ Return
           /\ outcome' = outcome \cup {<<gatherer, pod, f, "logged">>}
           /\ UNCHANGED <<measured, size>>
    /\ UNCHANGED <<doCleanup, local, archive, retained, undeleted>>

\* getRemoteFileSize, of a file of any size; when it fails the file is
\* mentioned in the log only.
Measure ==
    /\ pc = "measure"
    /\ \E f \in todo :
        \/ /\ size' \in Sizes
           /\ measured' = [file |-> f, size |-> size']
           /\ pc' = "stream"
           /\ UNCHANGED <<todo, outcome>>
        \/ /\ Finish(f, "logged")
           /\ UNCHANGED <<measured, size>>
    /\ UNCHANGED <<gatherer, pods, doCleanup, local, archive, retained, undeleted>>

\* Mutant: the flag stays up.
Failed_Cleans(f) ==
    /\ Finish(f, "reported")
    /\ UNCHANGED <<doCleanup, archive>>

\* Mutant: the file is archived all the same.
Failed_Archives(f) ==
    /\ doCleanup' = FALSE
    /\ Finish(f, "reported")
    /\ archive' = archive \cup {[pod |-> pod, file |-> f, size |-> measured.size]}

\* streamFileFromPod failed: doCleanup goes down and the user is told how to
\* get the file by hand and to remove the directory afterwards.
Failed(f) ==
    /\ doCleanup' = FALSE
    /\ Finish(f, "reported")
    /\ UNCHANGED archive

\* streamFileFromPod.  os.Create truncates what an earlier pod left under the
\* same path; then "cat" copies what the file holds now, all of it or a part.
Stream ==
    /\ pc = "stream"
    /\ LET f == measured.file
       IN  \/ \* MkdirAll or Create fails
              /\ Failed(f)
              /\ UNCHANGED <<local, retained>>
           \/ \E copied \in 0..size :
                /\ local' = [local EXCEPT ![f] = [pod |-> pod, size |-> copied]]
                /\ \/ \* the sizes agree; the copy is added to the archive
                      /\ copied = size /\ copied = measured.size
                      /\ Finish(f, "archived")
                      /\ archive' = archive \cup
                            {[pod |-> pod, file |-> f, size |-> copied]}
                      /\ UNCHANGED <<doCleanup, retained>>
                   \/ \* cat failed, however much it had copied, the file was
                      \* written since it was measured, or the archive was not
                      /\ Failed(f)
                      /\ retained' = retained \cup {<<pod, f>>}
    /\ measured' = NoFile
    /\ size' = 0
    /\ UNCHANGED <<gatherer, pods, undeleted>>

\* The end of a pod's logs: RemoveAll when nothing failed in this pod.
Cleanup ==
    /\ pc = "cleanup"
    /\ \/ /\ doCleanup
          /\ local' = [f \in File |-> Absent]
          /\ IF gatherer = "postgres" THEN GoTo("configs") ELSE NextPod
          /\ UNCHANGED undeleted
       \/ /\ doCleanup  \* RemoveAll fails
          /\ undeleted' = TRUE
          /\ NextPod
          /\ UNCHANGED local
       \/ /\ ~doCleanup
          /\ IF gatherer = "postgres" THEN GoTo("configs") ELSE NextPod
          /\ UNCHANGED <<local, undeleted>>
    /\ UNCHANGED <<measured, doCleanup, size, archive, outcome, retained>>

\* Configuration files and diagnostic commands of an instance.  An error
\* listing files skips the pod; "forbidden", or failing to read one file, ends
\* the gatherer.
Configs ==
    /\ pc = "configs"
    /\ \/ GoTo("commands")
       \/ NextPod
       \/ Return
    /\ UNCHANGED <<measured, doCleanup, size, local, archive, outcome, retained, undeleted>>

\* pg_controldata, df, du, ...: an error skips the command, "forbidden" ends
\* the gatherer before the pod's output is written.
Commands ==
    /\ pc = "commands"
    /\ NextPod \/ Return
    /\ UNCHANGED <<measured, doCleanup, size, local, archive, outcome, retained, undeleted>>

\* PostgreSQL and pgBackRest write to their logs, or start them anew.  Only
\* the file between its measurement and its copy matters.
Write ==
    /\ pc = "stream"
    /\ size' \in Sizes \ {size}
    /\ UNCHANGED <<gatherer, pods, pc, todo, measured, doCleanup, local, archive,
                   outcome, retained, undeleted>>

Next == ListPods \/ ListFiles \/ Measure \/ Stream \/ Cleanup \/ Configs
          \/ Commands \/ Write

Spec == Init /\ [][Next]_vars

-----------------------------------------------------------------------------

Outcomes == {"archived", "reported", "logged"}

\* The types of the variables.
TypeOK ==
    /\ gatherer \in Gatherers
    /\ pods \in Seq(Pod)
    /\ pc \in {"listPods", "listFiles", "measure", "stream", "cleanup",
               "configs", "commands", "done"}
    /\ todo \subseteq File
    /\ measured \in [file : File \cup {Absent}, size : Sizes]
    /\ doCleanup \in BOOLEAN
    /\ size \in Sizes
    /\ local \in [File -> [pod : Pod, size : Sizes] \cup {Absent}]
    /\ archive \subseteq [pod : Pod, file : File, size : Sizes]
    /\ outcome \subseteq Gatherers \X Pod \X File \X Outcomes
    /\ retained \subseteq Pod \X File
    /\ undeleted \in BOOLEAN

\* Every log file that was looked at has one outcome, and it is in the archive
\* exactly when nothing was reported or logged about it.
OneOutcomeEach ==
    \A a \in outcome :
        /\ \A b \in outcome : a[2] = b[2] /\ a[3] = b[3] => a = b
        /\ a[4] = "archived" <=>
              \E entry \in archive : entry.pod = a[2] /\ entry.file = a[3]

\* The files of the current pod that were reported as not streamed.
ReportedHere == {a \in outcome : a[1] = gatherer /\ a[2] = pod /\ a[4] = "reported"}

\* The local directory is not removed at the end of a pod one of whose files
\* was reported.
FailedPodKeepsDirectory ==
    [][\A f \in File : local[f] # Absent /\ local'[f] = Absent
        => ReportedHere = {}]_vars

\* An export in which nothing failed leaves no local files behind.
NothingLeftBehind ==
    pc = "done" /\ ~undeleted /\ (\A a \in outcome : a[4] # "reported")
    => \A f \in File : local[f] = Absent

-----------------------------------------------------------------------------
(* The abstract specification these gatherers implement.                   *)

PodsLeft == IF pods = <<>> THEN 0 ELSE Len(pods) - 1

WalkPlace ==
    CASE pc = "listPods"                -> "pods"
      [] pc = "listFiles"               -> "listing"
      [] pc \in {"measure", "stream"}   -> "file"
      [] pc = "cleanup"                 -> "remove"
      [] pc \in {"configs", "commands"} -> "rest"
      [] OTHER                          -> "done"

Steps == INSTANCE Walk WITH left <- PodsLeft, files <- todo, at <- WalkPlace

\* Every error, of a list, a size, a copy or a removal, takes a gatherer as far
\* as Export says of it and no further: to the next file, the next pod or the
\* next gatherer.
StepsReach == Steps!Spec

-----------------------------------------------------------------------------
(* What the comments say of a file that could not be streamed.             *)

\* export.go:1368, "prevent the deletion of localDirectory so a user can
\* examine contents": what was copied of such a file is still there.
RetainedNotRemoved == \A r \in retained : local[r[2]] # Absent
=============================================================================
