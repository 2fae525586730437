CONSTANTS
    primary = primary
    replica = replica
    repoHost = repoHost
    Absent = Absent
    DBPods <- TwoInstances
    RepoHostPods <- OneRepoHost
    LogFiles = {"Mon.log", "Tue.log"}
    BackrestFiles = {"db-backup.log"}
    RepoFiles = {}
    MaxSize = 1
\* The export ends.
CHECK_DEADLOCK FALSE
SPECIFICATION Spec
INVARIANTS RetainedNotRemoved
