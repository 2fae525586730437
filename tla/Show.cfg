\* Every command that reads, while pods, secrets and the operator change.
CONSTANTS
    hippo = hippo
    rhino = rhino
    hippo1 = hippo1
    hippo2 = hippo2
    rhino1 = rhino1
    u1 = u1
    u2 = u2
    Absent = Absent
    Clusters = {hippo, rhino}
    Pods = {hippo1, hippo2, rhino1}
    ClusterOf <- MCClusterOf
    Users = {u1, u2}
    Passwords = {"old", "new"}
    Versions = {"5.7", "5.8"}
    Requests <- MCRequests
    FirstRoles <- MCFirstRoles
    FirstSecrets <- MCFirstSecrets
    FirstOperators = {"5.7"}
    MaxChanges = 2
    Attempts = 2
    MaxLines = 2
    Lines = {"yes", "no", "other", "endsInYes"}
\* The command ends.
CHECK_DEADLOCK FALSE
SPECIFICATION FairSpec
INVARIANTS TypeOK PrimaryAnswers OneReading PasswordsAreAskedFor SuccessShowsAll
PROPERTIES EndsUnlessExecHangs
