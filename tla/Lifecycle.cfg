\* Creating and deleting the cluster under commands that patch it; every command ends.
CONSTANTS
    p1 = p1
    p2 = p2
    r1 = r1
    r2 = r2
    o1 = o1
    kubectl = kubectl
    Absent = Absent
    FieldManager = "kubectl-pgo"
    OtherManagers = {kubectl}
    Proc = {p1, p2}
    Repos = {r1, r2}
    OptionLists = {o1}
    Times <- MCTimes
    Requests <- LifecycleRequests
    Edits <- LifecycleEdits
    Configs <- NoConfigs
    MaxTime = 0
    MaxCommands = 3
    MaxEdits = 1
\* Once the bounds are used up nobody has anything left to do.
CHECK_DEADLOCK FALSE
SPECIFICATION FairSpec
PROPERTIES PatchNeverResurrects KeepsPromise CommandsEnd
