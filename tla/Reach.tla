-------------------------------- MODULE Reach -------------------------------
(***************************************************************************)
(* What the gatherers of "pgo support export" ask for, and how far each    *)
(* answer reaches (internal/cmd/export.go): to the thing asked for         *)
(* ("item"), to the rest of its group, to the rest of the gatherer.  That  *)
(* is "continue" of the innermost loop, "break" out of it or "continue" of *)
(* the next, and "return".  "broken" is a member that was not written; a   *)
(* thing without that answer is not a member; "warned" is one whose error  *)
(* is printed and written in its place.  A member that is streamed has its *)
(* header in the archive before its content has been read.                 *)
(***************************************************************************)

Thing(reach) == [reach |-> reach, quiet |-> {}, streamed |-> FALSE]
IsMember(thing) == "broken" \in DOMAIN thing.reach

\* An object that came with a list, or something local: only its write fails.
Object == Thing([ok |-> "item", broken |-> "gatherer"])

\* kubectl get, whose error is the content of the member.
KubectlObject == Thing([ok |-> "item", warned |-> "item", broken |-> "gatherer"])

\* gatherNamespacedAPIResources, one type of resource.
Resource == Thing([ok |-> "item", none |-> "item", forbidden |-> "item",
                   failed |-> "gatherer", broken |-> "gatherer"])

\* gatherPodLogs, one container.
PodLog == Thing([ok |-> "item", forbidden |-> "item", failed |-> "gatherer",
                 broken |-> "gatherer"])

\* The same in a group of its own, that of a PGAdmin: gatherPodLogs lists the pods
\* first, and what ends it is printed and ends nothing else.
PodListing == Thing([ok |-> "item", none |-> "group", forbidden |-> "group",
                     failed |-> "group"])
PgadminLog == Thing([ok |-> "item", forbidden |-> "item", failed |-> "group",
                     broken |-> "group"])

\* runKubectlCommand; and with the first of two spellings of a name.
Describe == Thing([ok |-> "item", failed |-> "item", broken |-> "item"])
DescribeFirst == [Describe EXCEPT !.reach.ok = "group"]

\* ls in a pod.
Listing == Thing([ok |-> "item", forbidden |-> "gatherer", failed |-> "group"])

\* getRemoteFileSize and streamFileFromPod of one log; then RemoveAll.
LogFile == [Thing([ok |-> "item", failed |-> "item", broken |-> "item"])
              EXCEPT !.streamed = TRUE]
RemoveLocal == Thing([ok |-> "item", failed |-> "group"])

\* cat of a configuration file or of a Patroni log.
CatFile == Thing([ok |-> "item", forbidden |-> "item", failed |-> "gatherer",
                  broken |-> "gatherer"])

\* A command whose output goes into one member with that of others.
Output == Thing([ok |-> "item", forbidden |-> "gatherer", failed |-> "item"])

\* ps in a container: an error is not mentioned.
Process == [Thing([ok |-> "item", forbidden |-> "group", failed |-> "item",
                   broken |-> "gatherer"]) EXCEPT !.quiet = {"failed"}]

\* date in one container of a pod after the other, until one answers.
SystemTime == [Thing([ok |-> "group", forbidden |-> "group", failed |-> "item"])
                 EXCEPT !.quiet = {"failed"}]

Things == {Object, KubectlObject, Resource, PodLog, PodListing, PgadminLog, Describe,
           DescribeFirst, Listing, LogFile, RemoveLocal, CatFile, Output, Process,
           SystemTime}
=============================================================================
