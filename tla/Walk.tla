--------------------------------- MODULE Walk -------------------------------
(***************************************************************************)
(* Abstract specification of the three gatherers that copy log files:      *)
(* where they are, and where an error may take them.  ExportStream has     *)
(* each step of them and Export has all gatherers; both implement this, so *)
(* that the steps of the one go exactly as far as the other says.          *)
(***************************************************************************)
EXTENDS Naturals, Reach

CONSTANT File  \* names of log files

VARIABLES
    gatherer,  \* the gatherer that runs, or the next of the three that will
    left,      \* the pods it has to visit after the current one
    files,     \* the log files of the current pod that are still to be copied
    at         \* where it is: see TypeOK

vars == <<gatherer, left, files, at>>

Gatherers == {"postgres", "backrest", "repoHost", "done"}

\* The types of the variables.
TypeOK ==
    /\ gatherer \in Gatherers
    /\ left \in Nat
    /\ files \subseteq File
    /\ at \in {"pods", "listing", "file", "remove", "rest", "done"}

NextGatherer ==
    [postgres |-> "backrest", backrest |-> "repoHost", repoHost |-> "done"]

\* What is asked for in these places.
Asked == [listing |-> Listing, file |-> LogFile, remove |-> RemoveLocal]

\* --pg-logs-count 0 leaves out the first gatherer.
Init ==
    /\ gatherer \in {"postgres", "backrest"}
    /\ at = "pods"
    /\ left = 0
    /\ files = {}

Return ==
    /\ gatherer' = NextGatherer[gatherer]
    /\ at' = IF gatherer' = "done" THEN "done" ELSE "pods"
    /\ left' = 0
    /\ files' = {}

NextPod ==
    \/ left = 0 /\ Return
    \/ /\ left > 0
       /\ left' = left - 1
       /\ at' = "listing"
       /\ files' = {}
       /\ UNCHANGED gatherer

\* The list of pods.
ListPods ==
    /\ at = "pods"
    /\ \/ Return
       \/ left' \in Nat /\ at' = "listing" /\ UNCHANGED <<gatherer, files>>

\* On to the next file, and after the last one to the local directory.
NextFile ==
    /\ at' = IF files' = {} THEN "remove" ELSE "file"
    /\ UNCHANGED <<gatherer, left>>

\* What follows an answer that ends nothing.
NextItem ==
    \/ at = "listing" /\ files' \in SUBSET File /\ NextFile
    \/ at = "file" /\ (\E f \in files : files' = files \ {f}) /\ NextFile
    \/ at = "remove" /\ gatherer = "postgres" /\ at' = "rest" /\ UNCHANGED <<gatherer, left, files>>
    \/ at = "remove" /\ gatherer # "postgres" /\ NextPod

\* One answer, as far as it reaches.
Ask ==
    /\ at \in DOMAIN Asked
    /\ \E answer \in DOMAIN Asked[at].reach :
        \/ Asked[at].reach[answer] = "item" /\ NextItem
        \/ Asked[at].reach[answer] = "group" /\ NextPod
        \/ Asked[at].reach[answer] = "gatherer" /\ Return

\* Configuration files and commands of an instance.
Rest == at = "rest" /\ (NextPod \/ Return)

Next == ListPods \/ Ask \/ Rest

Spec == Init /\ [][Next]_vars
=============================================================================
