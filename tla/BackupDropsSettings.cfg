\* A backup without flags removes the manual settings the CLI wrote before.
CONSTANTS
    p1 = p1
    p2 = p2
    r1 = r1
    r2 = r2
    o1 = o1
    kubectl = kubectl
    Absent = Absent
    FieldManager = "kubectl-pgo"
    OtherManagers = {kubectl}
    Proc = {p1}
    Repos = {r1, r2}
    OptionLists = {o1}
    Times <- MCTimes
    Requests <- BackupRequests
    Edits <- NoEdits
    Configs <- NoConfigs
    MaxTime = 1
    MaxCommands = 2
    MaxEdits = 0
\* Once the bounds are used up nobody has anything left to do.
CHECK_DEADLOCK FALSE
SPECIFICATION Spec
PROPERTIES BackupWithoutFlagsKeepsSettings
