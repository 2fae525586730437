------------------------------- MODULE MCShow -------------------------------
(***************************************************************************)
(* A cluster of two instances, and a pod of another cluster in the same    *)
(* namespace; two users and two versions of their secrets.                 *)
(***************************************************************************)
EXTENDS Show

CONSTANTS hippo, rhino, hippo1, hippo2, rhino1, u1, u2

MCClusterOf == [p \in Pods |-> IF p = rhino1 THEN rhino ELSE hippo]

\* The other cluster has a primary.  This one begins with one, with two, in a
\* failover with none, or with an instance that is being replaced.
MCFirstRoles ==
    {[p \in Pods |-> IF p = hippo1 THEN first ELSE IF p = hippo2 THEN second ELSE "master"] :
        first \in {"master", "replica"}, second \in {"master", "replica", "gone"}}

MCFirstSecrets ==
    {[u \in Users |-> IF u = u1 THEN "old" ELSE second] : second \in {"old", Absent}}

ReadLine(command, user, sensitive) ==
    [command |-> command, cluster |-> hippo, user |-> user, sensitive |-> sensitive]

MCRequests ==
    {ReadLine("show", Absent, FALSE), ReadLine("backup", Absent, FALSE),
     ReadLine("ha", Absent, FALSE), ReadLine("version", Absent, FALSE),
     ReadLine("user", Absent, FALSE), ReadLine("user", Absent, TRUE),
     ReadLine("user", u1, TRUE)}
=============================================================================
