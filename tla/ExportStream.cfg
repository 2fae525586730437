\* Two instances with two logs of the same name each, and a repository host.
CONSTANTS
    primary = primary
    replica = replica
    repoHost = repoHost
    Absent = Absent
    DBPods <- TwoInstances
    RepoHostPods <- OneRepoHost
    LogFiles = {"Mon.log", "Tue.log"}
    BackrestFiles = {"db-backup.log"}
    RepoFiles = {"db-backup.log"}
    MaxSize = 1
\* The export ends.
CHECK_DEADLOCK FALSE
SPECIFICATION Spec
INVARIANTS TypeOK OneOutcomeEach NothingLeftBehind
PROPERTIES FailedPodKeepsDirectory StepsReach
