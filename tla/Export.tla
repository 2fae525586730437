-------------------------------- MODULE Export ------------------------------
(***************************************************************************)
(* "pgo support export" from its first request to its last Close           *)
(* (internal/cmd/export.go): some thirty gatherers run one after the other *)
(* and write members to a tar, inside a gzip stream, inside a file.        *)
(*                                                                         *)
(* A gatherer makes a list request, perhaps, and then asks for things in   *)
(* groups: the files of a pod, the containers of a pod, the types of       *)
(* resources.  What differs between gatherers is how far an error reaches, *)
(* and module Reach says that of each thing.  A member of the  *)
(* archive is of size one.                                                 *)
(***************************************************************************)
EXTENDS Naturals, Sequences, Reach

CONSTANTS
    Many,     \* how many pods, containers, files or resource types there are
    NumLogs,  \* --pg-logs-count
    Window,   \* how many members the gzip writer may hold back
    Limit     \* 25 MiB

ASSUME BoundsAssumption ==
    Many \in Nat \ {0} /\ NumLogs \in Nat /\ Window \in Nat /\ Limit \in Nat

VARIABLES
    pc,        \* what RunE does next
    n,         \* the number of the gatherer that runs
    todo,      \* what it has still to ask for; the current group comes first
    tar,       \* the tar writer: "ok", in the middle of a member, or failed
    written,   \* members the tar writer has accepted
    stored,    \* those that are in the file; the gzip writer holds the others
    closing,   \* the writers that are still to be closed
    trailer,   \* the gzip writer has got the end of the tar
    found,     \* history: the cluster was found
    failedWrite, \* history: writing a member has failed
    hard,      \* history: the Kubernetes context or the server version was not to be had
    untold,    \* history: an error was printed that no archived cli.log has
    file,      \* the file has been created
    message,   \* the final message
    result     \* how the command ended

stream == <<tar, written, stored, failedWrite>>
vars == <<pc, n, todo, stream, hard, closing, trailer, found, untold, file, message, result>>

-----------------------------------------------------------------------------
(* The gatherers: the answers that end them at their list request, and the *)
(* groups of what they ask for.                                            *)

Gatherer(name, list, groups) == [name |-> name, list |-> list, groups |-> groups]

API == {"none", "forbidden", "failed"}
Each(x) == [i \in 1..Many |-> x]

PGOCLIVersion == Gatherer("version", {}, <<<<Object>>>>)
PostgresClusterNames == Gatherer("clusters", API, <<<<Object>>>>)
KubeContext == Gatherer("context", {"failed"}, <<<<Object>>>>)
KubeServerVersion == Gatherer("server", {"failed"}, <<<<Object>>>>)
Nodes == Gatherer("nodes", API, <<Each(Object), <<Object>>>>)
CurrentNamespace == Gatherer("namespace", API, <<<<Object>>>>)
ClusterSpec == Gatherer("spec", {}, <<<<Object>>>>)
NamespacedAPIResources == Gatherer("resources", {}, <<Each(Resource)>>)
Crds == Gatherer("crds", API, <<<<Object>>, Each(Object)>>)
Events == Gatherer("events", API, <<<<Object>>>>)

LogsOfPod == <<Listing>> \o Each(LogFile) \o <<RemoveLocal>>
PostgresLogsAndConfigs ==
    Gatherer("postgres", API,
             Each(LogsOfPod \o <<Listing>> \o Each(CatFile) \o Each(Output) \o <<Object>>))
DbBackrestLogs == Gatherer("backrest", API, Each(LogsOfPod))
PatroniLogs == Gatherer("patroni", API, Each(<<Listing>> \o Each(CatFile)))
RepoHostLogs == Gatherer("repoHost", API, <<LogsOfPod>>)
PodLogs == Gatherer("podLogs", API, Each(<<Describe>> \o Each(PodLog)))

\* Two commands in the primary; what they print is one member.
PrimaryInfo == Gatherer("info", API, <<<<Output, Output, Object>>>>)
ProcessInfo == Gatherer("processes", API, Each(Each(Process)))
SystemTimes == Gatherer("times", API, Each(Each(SystemTime)) \o <<<<Object>>>>)

PluginList == Gatherer("plugins", {}, <<<<Object>>>>)
\* Only when the cluster has the annotation.
PGUpgradeSpec == Gatherer("upgrade", {"none"}, <<<<KubectlObject>>>>)
KubectlCommand == Gatherer("describe", {}, <<<<Describe>>>>)
TwoSpellings == Gatherer("describe", {}, <<<<DescribeFirst, Describe>>>>)
\* gatherPodLogs for a PGAdmin: each pod is described and then its containers are
\* asked, all pods in one group.  A PGAdmin is two groups, and the second is its
\* own description.
PgadminPods ==
    [i \in 1..(Many * (Many + 1)) |-> IF i % (Many + 1) = 1 THEN Describe ELSE PgadminLog]
Pgadmins ==
    [i \in 1..(2 * Many) |->
        IF i % 2 = 1 THEN <<Object, PodListing>> \o PgadminPods ELSE <<Describe>>]
PgadminResources == Gatherer("pgadmin", API, <<<<Object>>>> \o Pgadmins)

\* RunE from its first gatherer to its last.
Plan ==
    <<PGOCLIVersion, PostgresClusterNames, KubeContext, KubeServerVersion, Nodes,
      CurrentNamespace, ClusterSpec, NamespacedAPIResources, NamespacedAPIResources,
      Crds, Events>>
    \o (IF NumLogs > 0 THEN <<PostgresLogsAndConfigs>> ELSE <<>>)
    \o <<DbBackrestLogs, PatroniLogs, RepoHostLogs, PodLogs, PodLogs,
         NamespacedAPIResources, PodLogs, PrimaryInfo, PrimaryInfo, ProcessInfo,
         SystemTimes, PluginList, PGUpgradeSpec, KubectlCommand, KubectlCommand,
         TwoSpellings, TwoSpellings, KubectlCommand, PgadminResources>>

-----------------------------------------------------------------------------
(* The archive.                                                            *)

\* The tar writer takes a member; the gzip writer compresses when it likes.
Accept ==
    /\ tar = "ok"
    /\ written' = written + 1
    /\ stored' \in {s \in stored..written' : written' - s <= Window}
    /\ UNCHANGED <<tar, failedWrite>>

\* A member is not written, or a part of it.  The first error stays with the
\* writer; a log file that cannot be read to its end leaves the tar writer
\* waiting for the rest, and it refuses every other header.
Break(thing) ==
    /\ failedWrite' = TRUE
    /\ tar' \in (IF tar # "ok" THEN {tar}
                 ELSE IF thing.streamed THEN {"short", "failed"} ELSE {"failed"})
    /\ stored' \in stored..written
    /\ UNCHANGED written

-----------------------------------------------------------------------------

Init ==
    /\ pc = "start"
    /\ n = 1
    /\ todo = <<>>
    /\ tar = "ok"
    /\ written = 0
    /\ stored = 0
    /\ closing = <<"gzip", "tar", "file">>
    /\ trailer = FALSE
    /\ found = FALSE
    /\ failedWrite = FALSE
    /\ hard = FALSE
    /\ untold = FALSE
    /\ file = FALSE
    /\ message = "none"
    /\ result = "none"

\* The cluster is looked for, then the file is created; each may fail.
Start ==
    /\ pc = "start"
    /\ \/ /\ found' = TRUE
          /\ file' = TRUE
          /\ pc' = "list"
          /\ UNCHANGED result
       \/ /\ found' \in BOOLEAN
          /\ pc' = "ended"
          /\ result' = "failed"
          /\ UNCHANGED file
    /\ UNCHANGED <<n, todo, stream, hard, closing, trailer, untold, message>>

\* A gatherer returns: whatever it returns, RunE prints it and goes on.
Return ==
    /\ n' = n + 1
    /\ pc' = IF n' > Len(Plan) THEN "log" ELSE "list"
    /\ todo' = <<>>

\* Mutant: what should end a group ends the gatherer.
Continue_Returns(reach) ==
    LET rest == IF reach = "item" /\ Len(Head(todo)) > 1
                THEN <<Tail(Head(todo))>> \o Tail(todo)
                ELSE Tail(todo)
    IN  IF reach # "item" \/ rest = <<>> THEN Return
        ELSE todo' = rest /\ UNCHANGED <<n, pc>>

\* Mutant: a group whose things have all been asked for stays.
Continue_EmptyGroup(reach) ==
    LET rest == IF reach = "item" THEN <<Tail(Head(todo))>> \o Tail(todo)
                ELSE Tail(todo)
    IN  IF reach = "gatherer" \/ rest = <<>> THEN Return
        ELSE todo' = rest /\ UNCHANGED <<n, pc>>

\* Mutant: what should end a group begins it again.
Continue_Retries(reach) ==
    LET rest == IF reach = "item" /\ Len(Head(todo)) > 1
                THEN <<Tail(Head(todo))>> \o Tail(todo)
                ELSE IF reach = "group" THEN todo ELSE Tail(todo)
    IN  IF reach = "gatherer" \/ rest = <<>> THEN Return
        ELSE todo' = rest /\ UNCHANGED <<n, pc>>

\* The loops of a gatherer go on behind what an answer reaches.
Continue(reach) ==
    LET rest == IF reach = "item" /\ Len(Head(todo)) > 1
                THEN <<Tail(Head(todo))>> \o Tail(todo)
                ELSE Tail(todo)
    IN  IF reach = "gatherer" \/ rest = <<>> THEN Return
        ELSE todo' = rest /\ UNCHANGED <<n, pc>>

\* export.md:23-24, "Get Kubernetes context (fail hard)", "Get server version (fail
\* hard)".
FailHard == {"context", "server"}

\* Mutant: RunE returns what the gatherer returns.
List_Returns ==
    /\ pc = "list"
    /\ \/ /\ todo' = Plan[n].groups
          /\ pc' = "ask"
          /\ UNCHANGED <<n, untold, hard, result>>
       \/ \E answer \in Plan[n].list :
            /\ hard' = (hard \/ Plan[n].name \in FailHard)
            /\ IF answer = "failed"
               THEN pc' = "close" /\ result' = "failed" /\ UNCHANGED <<n, todo, untold>>
               ELSE Return /\ UNCHANGED <<untold, result>>
    /\ UNCHANGED <<stream, closing, trailer, found, file, message>>

\* The list request of a gatherer.
List ==
    /\ pc = "list"
    /\ \/ /\ todo' = Plan[n].groups
          /\ pc' = "ask"
          /\ UNCHANGED <<n, untold, hard>>
       \/ \E answer \in Plan[n].list :
            /\ untold' = (untold \/ answer # "none")
            /\ hard' = (hard \/ Plan[n].name \in FailHard)
            /\ Return
    /\ UNCHANGED <<stream, closing, trailer, found, file, message, result>>

\* One thing is asked for and, if it is a member, written.
Ask ==
    /\ pc = "ask"
    /\ LET thing == Head(Head(todo))
       IN  \E answer \in DOMAIN thing.reach :
            /\ \/ answer = "broken" /\ Break(thing)
               \/ answer \in {"ok", "warned"} /\ IsMember(thing) /\ Accept
               \/ /\ answer \in {"ok", "warned"} => ~IsMember(thing)
                  /\ answer # "broken"
                  /\ UNCHANGED stream
            /\ untold' = (untold \/ answer \notin {"ok", "none"} \cup thing.quiet)
            /\ Continue(thing.reach[answer])
    /\ UNCHANGED <<hard, closing, trailer, found, file, message, result>>

\* Mutant: the error of the last member is printed like every other.
WriteLog_Goes ==
    /\ pc = "log"
    /\ \/ Accept /\ untold' = FALSE
       \/ Break(Object) /\ UNCHANGED untold
    /\ pc' = "stat"
    /\ UNCHANGED <<n, todo, hard, closing, trailer, found, file, message, result>>

\* Mutant: the log was saved before the errors were printed.
WriteLog_Early ==
    /\ pc = "log"
    /\ \/ Accept /\ pc' = "stat" /\ UNCHANGED <<untold, result>>
       \/ Break(Object) /\ pc' = "close" /\ result' = "failed" /\ UNCHANGED untold
    /\ UNCHANGED <<n, todo, hard, closing, trailer, found, file, message>>

\* cli.log, what writeInfo and writeDebug have collected, is the last member.
WriteLog ==
    /\ pc = "log"
    /\ \/ Accept /\ untold' = FALSE /\ pc' = "stat" /\ UNCHANGED result
       \/ Break(Object) /\ pc' = "close" /\ result' = "failed" /\ UNCHANGED untold
    /\ UNCHANGED <<n, todo, hard, closing, trailer, found, file, message>>

\* exportSizeReport of the file as it is now.  When os.Stat fails there is no
\* size to ask for and RunE panics.
Stat ==
    /\ pc = "stat"
    /\ \/ /\ message' = IF stored > Limit THEN "tooBig" ELSE "email"
          /\ result' = "succeeded"
       \/ /\ result' = "panicked"
          /\ UNCHANGED message
    /\ pc' = "close"
    /\ UNCHANGED <<n, todo, stream, hard, closing, trailer, found, untold, file>>

\* The deferred function: three writers, one after the other, errors ignored.
\* Closing gzip stores what it holds, if the file takes it; closing tar hands
\* the end of the archive to a gzip writer that is open.
Close ==
    /\ pc = "close"
    /\ closing' = Tail(closing)
    /\ pc' = IF closing' = <<>> THEN "ended" ELSE "close"
    /\ stored' \in (IF Head(closing) = "gzip" THEN stored..written ELSE {stored})
    /\ trailer' = (trailer \/ (Head(closing) = "tar" /\ tar = "ok"
                                 /\ \E i \in DOMAIN closing : closing[i] = "gzip"))
    /\ UNCHANGED <<n, todo, tar, written, failedWrite, hard, found, untold, file, message, result>>

\* The user interrupts the command: nothing is closed.
Kill ==
    /\ pc # "ended"
    /\ pc' = "ended"
    /\ result' = "killed"
    /\ UNCHANGED <<n, todo, stream, hard, closing, trailer, found, untold, file, message>>

Next == Start \/ List \/ Ask \/ WriteLog \/ Stat \/ Close \/ Kill

Spec == Init /\ [][Next]_vars

-----------------------------------------------------------------------------

\* The types of the variables; a group that is being asked for is not empty.
TypeOK ==
    /\ pc \in {"start", "list", "ask", "log", "stat", "close", "ended"}
    /\ n \in 1..(Len(Plan) + 1)
    /\ \A i \in DOMAIN todo : todo[i] \in Seq(Things) \ {<<>>}
    /\ tar \in {"ok", "short", "failed"}
    /\ written \in Nat /\ stored \in 0..written
    /\ closing \in Seq({"gzip", "tar", "file"})
    /\ {trailer, found, failedWrite, hard, untold, file} \subseteq BOOLEAN
    /\ message \in {"none", "email", "tooBig"}
    /\ result \in {"none", "succeeded", "failed", "panicked", "killed"}

\* export.md:11, "If the cluster doesn't exist, exit without creating a tar."
NoClusterNoTar == file => found

\* export.md:15, "If we run into an error getting info for part X, move on to
\* part Y, Z, et al.": once the file is there, a command that ends by itself has
\* been through all its gatherers, and fails only because a member could not be
\* written.  The property is silent where the context or the server version was
\* not to be had: export.md:23-24 says "fail hard" of these two, and the code
\* (export.go:415-424) goes on as it does with the others.
EveryPartHasItsTurn ==
    file /\ result \in {"succeeded", "failed", "panicked"} /\ ~hard =>
        /\ n = Len(Plan) + 1
        /\ result = "failed" => failedWrite

\* A command that succeeds has written every member it tried to write, though
\* RunE looks at none of those errors but the last: the writer keeps its first
\* error, and cli.log is written after everything else.
SuccessMeansAllWritten == result = "succeeded" => ~failedWrite

\* The cli.log that is mailed has every error that was printed.
LogTellsAll == result = "succeeded" => ~untold

\* Every answer brings the command on: a gatherer, a group or an item is done
\* with and nothing is added before it, whatever the answers are.  So a command
\* whose requests are answered makes finitely many, and reaches its log.
EveryAnswerCounts ==
    [][pc' # "ended" /\ pc \in {"list", "ask"} =>
        \/ n' = n + 1
        \/ n' = n /\ pc = "list" /\ pc' = "ask"
        \/ n' = n /\ pc = "ask" /\ Len(todo') < Len(todo)
        \/ /\ n' = n /\ pc = "ask" /\ Len(todo') = Len(todo)
           /\ Len(Head(todo')) < Len(Head(todo))]_vars

-----------------------------------------------------------------------------
(* The gatherers of log files among the others.                            *)

CopyLogs == {"postgres", "backrest", "repoHost"}

\* The gatherer of log files that runs, or the next one that will.
LogGatherer ==
    LET ahead == {i \in n..Len(Plan) : Plan[i].name \in CopyLogs}
    IN  IF ahead = {} THEN "done"
        ELSE Plan[CHOOSE i \in ahead : \A j \in ahead : i <= j].name

\* It asks for something.
InLogs == todo # <<>> /\ Plan[n].name = LogGatherer

\* The log files that are still to come in the group, counted from its end.
LogsAhead ==
    LET group == Head(todo)
    IN  {Len(group) - i : i \in {j \in DOMAIN group : group[j] = LogFile}}

LogPlace ==
    LET thing == Head(Head(todo))
    IN  CASE LogGatherer = "done"                      -> "done"
          [] LogGatherer # "done" /\ ~InLogs           -> "pods"
          [] InLogs /\ thing = LogFile                 -> "file"
          [] InLogs /\ thing = RemoveLocal             -> "remove"
          [] InLogs /\ thing = Listing /\ LogsAhead # {} -> "listing"
          [] OTHER                                     -> "rest"

Logs == INSTANCE Walk WITH
    File <- Nat,
    gatherer <- LogGatherer,
    left <- IF InLogs THEN Len(todo) - 1 ELSE 0,
    files <- IF LogPlace = "file" THEN LogsAhead ELSE {},
    at <- LogPlace

\* Among thirty gatherers, those of log files walk as Walk says: the end of a
\* file, of a pod or of a gatherer is never taken for another.
LogsWalk == Logs!Spec

-----------------------------------------------------------------------------
(* What the documentation and the comments say, and the code does not do.  *)

\* export.go:802, "If the size of the archive file is greater than 25MiB, an
\* alternate message is displayed."
SizeIsReported ==
    pc = "ended" /\ result = "succeeded" => (message = "tooBig" <=> stored > Limit)

\* export.go:389, "the writers will be closed when the program exits": the end of
\* the tar is in the file.
ArchiveHasAnEnd == pc = "ended" /\ result = "succeeded" => trailer
=============================================================================
