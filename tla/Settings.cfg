\* Two processes and every patching command.
CONSTANTS
    p1 = p1
    p2 = p2
    r1 = r1
    r2 = r2
    o1 = o1
    kubectl = kubectl
    Absent = Absent
    FieldManager = "kubectl-pgo"
    OtherManagers = {kubectl}
    Proc = {p1, p2}
    Repos = {r1, r2}
    OptionLists = {o1}
    Times <- MCTimes
    Requests <- SettingsRequests
    Edits <- SettingsEdits
    Configs <- SettingsConfigs
    MaxTime = 1
    MaxCommands = 3
    MaxEdits = 1
\* Once the bounds are used up nobody has anything left to do.
CHECK_DEADLOCK FALSE
SYMMETRY Symmetry
SPECIFICATION Spec
INVARIANTS TypeOK CliOwnsOnlySettings RetryChangesNothing
PROPERTIES CommandKeepsOtherSettings OthersKeepTheirSettings PreviewIsWhatHappens CommandTakesEffect
