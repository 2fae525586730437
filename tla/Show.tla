-------------------------------- MODULE Show --------------------------------
(***************************************************************************)
(* The commands that only read (internal/cmd/show.go and version.go):      *)
(* "pgo show", "show backup", "show ha", "show user" and "version".        *)
(*                                                                         *)
(* They write nothing, so what can go wrong is what they say.  A pod is    *)
(* looked up by its labels and then asked by its name, secrets are read    *)
(* and printed after a question, and all the while Patroni moves labels,   *)
(* pods are replaced, passwords rotated and the operator upgraded.  The    *)
(* question of "show user" is the one of module Confirm.                   *)
(***************************************************************************)
EXTENDS Naturals, Sequences

CONSTANTS
    Clusters,   \* cluster names; their pods and secrets share a namespace
    Pods,       \* names of pods
    ClusterOf,  \* the cluster of each pod
    Users,      \* PostgreSQL users of the cluster that is shown
    Passwords,  \* versions of a user's secret
    Versions,   \* operator versions
    Absent,     \* no such thing
    Requests,   \* the command lines
    FirstRoles, FirstSecrets, FirstOperators,  \* what the world may be like at first
    MaxChanges, \* bound on what happens around the command
    Attempts,   \* see Confirm
    MaxLines,
    Lines       \* bound on what the user types, of the lines Confirm tells apart

Commands == {"show", "backup", "ha", "user", "version"}

Roles == {"master", "replica", "none", "gone"}

\* A command line; "user" is the optional argument of "show user" and
\* "sensitive" its flag --show-connection-info.
Request == [command : Commands, cluster : Clusters,
            user : Users \cup {Absent}, sensitive : BOOLEAN]

ASSUME PodsAssumption == ClusterOf \in [Pods -> Clusters]
ASSUME RequestsAssumption == Requests \subseteq Request
ASSUME AbsentAssumption == Absent \notin Pods \cup Users \cup Passwords \cup Versions
ASSUME ChangesAssumption == MaxChanges \in Nat
ASSUME QuestionAssumption == Attempts \in Nat \ {0} /\ MaxLines \in Nat
ASSUME FirstAssumption ==
    /\ FirstRoles \subseteq [Pods -> Roles]
    /\ FirstSecrets \subseteq [Users -> Passwords \cup {Absent}]
    /\ FirstOperators \subseteq Versions \cup {Absent}

VARIABLES
    role,     \* the label "role" of each pod; "gone" when there is no such pod
    secrets,  \* the secret of each user
    operator, \* the version label of the CRD
    changes,  \* how often the three above have changed
    request,  \* the command line
    pc,       \* what the command does next
    parts,    \* the parts "show" has still to show
    target,   \* the pod that was looked up
    list,     \* the secrets that were read
    printed,  \* what standard output has, in order
    result,   \* how the command ended
    piped, typed, closed, taken, rest, attempt, answer, heard,  \* see Confirm
    primaries, \* history: the pods that were the one primary at some moment
    readings,  \* history: the values "secrets" has had
    releases   \* history: the values "operator" has had

world == <<role, secrets, operator, changes, primaries, readings, releases>>
question == <<piped, typed, closed, taken, rest, attempt, answer, heard>>
local == <<request, pc, parts, target, list, printed, result>>
vars == <<world, question, local>>

Question == INSTANCE Confirm

ASSUME LinesAssumption == Lines \subseteq Question!Line

-----------------------------------------------------------------------------
(* Finding things by their labels (internal/util/naming.go).               *)

\* Mutant: the labels of every instance of the cluster.
PrimaryInstanceLabels_AnyInstance(cluster) ==
    [cluster |-> {cluster}, role |-> {"master", "replica"}]

\* A selector gives the values a label may have.  "data=postgres" selects the
\* instances, which are the only pods here.
PrimaryInstanceLabels(cluster) ==
    [cluster |-> {cluster}, role |-> {"master"}]

\* Pods(namespace).List
Selected(selector) ==
    {p \in Pods : ClusterOf[p] \in selector.cluster /\ role[p] \in selector.role}

\* getUsers: the user secrets of the cluster, or that of one user.
Matching(all) ==
    LET found == {u \in Users : all[u] # Absent /\ request.user \in {u, Absent}}
    IN  [u \in found |-> all[u]]

-----------------------------------------------------------------------------

\* What is true of the pods: p is the only one of its cluster that says it is
\* the primary.
OnePrimary(roles, p) ==
    /\ roles[p] = "master"
    /\ \A q \in Pods \ {p} : ClusterOf[q] = ClusterOf[p] => roles[q] # "master"

\* The first step of each command.
FirstStep(r) ==
    CASE r.command = "user"    -> "list"
      [] r.command = "version" -> "crd"
      [] OTHER                 -> "find"

\* The parts a command shows, in their order.
PartsOf(r) ==
    CASE r.command = "show"   -> <<"backup", "ha">>
      [] r.command = "backup" -> <<"backup">>
      [] r.command = "ha"     -> <<"ha">>
      [] OTHER                -> <<>>

Init ==
    /\ role \in FirstRoles
    /\ secrets \in FirstSecrets
    /\ operator \in FirstOperators
    /\ changes = 0
    /\ request \in Requests
    /\ pc = FirstStep(request)
    /\ parts = PartsOf(request)
    /\ target = Absent
    /\ list = <<>>
    /\ printed = <<>>
    /\ result = "none"
    /\ primaries = {p \in Pods : OnePrimary(role, p)}
    /\ readings = {secrets}
    /\ releases = {operator}
    /\ Question!Init

-----------------------------------------------------------------------------
(* The steps of a command.                                                 *)

End(how) == pc' = "ended" /\ result' = how

\* source : the pod that said it;  content : what it said.
Output(part, source, content) ==
    printed' = Append(printed, [part |-> part, source |-> source, content |-> content])

\* Mutant: only more than one pod is refused, and there is no first of none.
Find_NoneIsFine ==
    /\ pc = "find"
    /\ \/ \E p \in Pods :
            /\ Selected(PrimaryInstanceLabels(request.cluster)) = {p}
            /\ target' = p
            /\ pc' = "exec"
            /\ UNCHANGED result
       \/ /\ Selected(PrimaryInstanceLabels(request.cluster)) = {}
          /\ pc' = "exec"
          /\ UNCHANGED <<target, result>>
       \/ End("failed") /\ UNCHANGED target
    /\ UNCHANGED <<world, question, request, parts, list, printed>>

\* Mutant: without a primary the command waits for one.
Find_Waits ==
    /\ pc = "find"
    /\ \E p \in Pods :
        /\ Selected(PrimaryInstanceLabels(request.cluster)) = {p}
        /\ target' = p
        /\ pc' = "exec"
    /\ UNCHANGED <<world, question, request, parts, list, printed, result>>

\* getPrimaryExec: one pod, or an error.  The list request may fail too.
Find ==
    /\ pc = "find"
    /\ \/ \E p \in Pods :
            /\ Selected(PrimaryInstanceLabels(request.cluster)) = {p}
            /\ target' = p
            /\ pc' = "exec"
            /\ UNCHANGED result
       \/ End("failed") /\ UNCHANGED target
    /\ UNCHANGED <<world, question, request, parts, list, printed>>

\* The next part is looked up anew.
NextPart ==
    /\ parts' = Tail(parts)
    /\ IF parts' = <<>> THEN End("succeeded") ELSE pc' = "find" /\ UNCHANGED result

\* Mutant: an error of one part does not end the others.
Exec_GoesOn ==
    /\ pc = "exec"
    /\ \/ role[target] # "gone" /\ Output(Head(parts), target, "whole")
       \/ UNCHANGED printed
    /\ NextPart
    /\ UNCHANGED <<world, question, request, target, list>>

\* pgbackrest info or patronictl list in the pod of that name.  The stream may
\* break and the command may fail after a part of its output; then all of it is
\* dropped with the error.  What is printed is the answer of the pod as it is
\* now, whatever its role has become.
Exec ==
    /\ pc = "exec"
    /\ \/ /\ role[target] # "gone"
          /\ Output(Head(parts), target, "whole")
          /\ NextPart
       \/ End("failed") /\ UNCHANGED <<parts, printed>>
    /\ UNCHANGED <<world, question, request, target, list>>

\* getUsers, and RunE of show user: all secrets in one request.  No secret is
\* not an error.  Without the flag the names are printed.
ListUsers ==
    /\ pc = "list"
    /\ \/ End("failed") /\ UNCHANGED <<list, printed>>
       \/ /\ list' = Matching(secrets)
          /\ \/ /\ request.sensitive /\ DOMAIN list' # {}
                /\ pc' = "question"
                /\ UNCHANGED <<printed, result>>
             \/ /\ ~request.sensitive \/ DOMAIN list' = {}
                /\ Output("names", Absent, DOMAIN list')
                /\ End("succeeded")
    /\ UNCHANGED <<world, question, request, parts, target>>

\* Mutant: only a "no" is a refusal.
Ask_SilenceAgrees ==
    /\ pc = "question"
    /\ Question!Ask
    /\ \/ answer' = "pending" /\ UNCHANGED <<pc, printed, result>>
       \/ answer' \in {"yes", "nil"} /\ Output("passwords", Absent, list) /\ End("succeeded")
       \/ answer' = "no" /\ End("succeeded") /\ UNCHANGED printed
    /\ UNCHANGED <<world, request, parts, target, list>>

\* Mutant: the users of the list are looked up again to be printed.
Ask_ReadsAgain ==
    /\ pc = "question"
    /\ Question!Ask
    /\ \/ answer' = "pending" /\ UNCHANGED <<pc, printed, result>>
       \/ /\ answer' = "yes"
          /\ Output("passwords", Absent, [u \in DOMAIN list |-> secrets[u]])
          /\ End("succeeded")
       \/ answer' \in {"no", "nil"} /\ End("succeeded") /\ UNCHANGED printed
    /\ UNCHANGED <<world, request, parts, target, list>>

\* printUserConnectionStrings: one attempt of the question and what follows
\* the last one.  The secrets are those that were read before the question.
Ask ==
    /\ pc = "question"
    /\ Question!Ask
    /\ \/ answer' = "pending" /\ UNCHANGED <<pc, printed, result>>
       \/ answer' = "yes" /\ Output("passwords", Absent, list) /\ End("succeeded")
       \/ answer' \in {"no", "nil"} /\ End("succeeded") /\ UNCHANGED printed
    /\ UNCHANGED <<world, request, parts, target, list>>

\* version: the label of the CRD, if it has one.
GetVersion ==
    /\ pc = "crd"
    /\ \/ Output("operator", Absent, operator) /\ End("succeeded")
       \/ End("failed") /\ UNCHANGED printed
    /\ UNCHANGED <<world, question, request, parts, target, list>>

-----------------------------------------------------------------------------
(* The user and the world.                                                 *)

\* Only the question reads standard input; the user may be ahead of it.
Input ==
    /\ request.sensitive /\ pc # "ended"
    /\ Question!Close \/ \E line \in Lines : Question!Type(line)
    /\ UNCHANGED <<world, local>>

Interrupt ==
    /\ pc # "ended"
    /\ End("killed")
    /\ UNCHANGED <<world, question, request, parts, target, list, printed>>

\* A bound: the world changes while a command runs that looks at what changes.
Change(commands) ==
    /\ request.command \in commands /\ pc # "ended"
    /\ changes < MaxChanges
    /\ changes' = changes + 1
    /\ primaries' = primaries \cup {p \in Pods : OnePrimary(role', p)}
    /\ readings' = readings \cup {secrets'}
    /\ releases' = releases \cup {operator'}
    /\ UNCHANGED <<question, local>>

\* Patroni labels its pods, each member its own: during a failover none or two
\* may be "master".  A pod that is replaced has the same name and no role.
PodChanges ==
    /\ \E p \in Pods, r \in Roles : role' = [role EXCEPT ![p] = r]
    /\ UNCHANGED <<secrets, operator>>
    /\ Change({"show", "backup", "ha"})

\* A password is rotated, a user is added or removed.
SecretChanges ==
    /\ \E u \in Users, v \in Passwords \cup {Absent} :
            secrets' = [secrets EXCEPT ![u] = v]
    /\ UNCHANGED <<role, operator>>
    /\ Change({"user"})

OperatorChanges ==
    /\ operator' \in Versions \cup {Absent}
    /\ UNCHANGED <<role, secrets>>
    /\ Change({"version"})

Next ==
    \/ Find \/ Exec \/ ListUsers \/ Ask \/ GetVersion
    \/ Input \/ Interrupt
    \/ PodChanges \/ SecretChanges \/ OperatorChanges

Spec == Init /\ [][Next]_vars

\* The command runs, and API requests are answered.  An exec need not end: it
\* has no timeout.  The user need not answer.
FairSpec ==
    /\ Spec
    /\ WF_vars(Find) /\ WF_vars(ListUsers) /\ WF_vars(Ask) /\ WF_vars(GetVersion)

-----------------------------------------------------------------------------

Secrets == UNION {[D -> Passwords] : D \in SUBSET Users}

\* What may be printed.
Entries ==
    [part : {"backup", "ha"}, source : Pods, content : {"whole", "part"}]
    \cup [part : {"operator"}, source : {Absent}, content : Versions \cup {Absent}]
    \cup [part : {"names"}, source : {Absent}, content : SUBSET Users]
    \cup [part : {"passwords"}, source : {Absent}, content : Secrets]

\* The types of the variables; a pod was found before it is asked.
TypeOK ==
    /\ role \in [Pods -> Roles]
    /\ secrets \in [Users -> Passwords \cup {Absent}]
    /\ operator \in Versions \cup {Absent}
    /\ changes \in 0..MaxChanges
    /\ request \in Requests
    /\ pc \in {"find", "exec", "list", "question", "crd", "ended"}
    /\ parts \in Seq({"backup", "ha"})
    /\ pc \in {"find", "exec"} => parts # <<>>
    /\ target \in Pods \cup {Absent}
    /\ pc = "exec" => target \in Pods
    /\ list \in Secrets
    /\ printed \in Seq(Entries)
    /\ result \in {"none", "succeeded", "failed", "killed"}

Told(part) == {printed[i] : i \in {j \in DOMAIN printed : printed[j].part = part}}

\* Whatever is printed of backups or of high availability was said by a pod of
\* this cluster that was its one primary at some moment of the command, however
\* labels move and pods are replaced between the lookup and the exec; and it is
\* all that the pod said, never the beginning of an answer that broke off.
PrimaryAnswers ==
    \A x \in Told("backup") \cup Told("ha") :
        /\ x.source \in primaries
        /\ ClusterOf[x.source] = request.cluster
        /\ x.content = "whole"

\* What is printed of users is one reading of all secrets at one moment of the
\* command, and what is printed of the operator was its version then: no
\* mixture of the time before the question and the time after it.
OneReading ==
    /\ \A x \in Told("names") : \E all \in readings : x.content = DOMAIN Matching(all)
    /\ \A x \in Told("passwords") : \E all \in readings : x.content = Matching(all)
    /\ \A x \in Told("operator") : x.content \in releases

\* Passwords are printed only to a user who asked for them with the flag and who
\* typed a "yes", which at a terminal no "no" came before.  A pipe may have it,
\* after the first attempt, from the end of a longer line.
PasswordsAreAskedFor ==
    Told("passwords") # {} =>
        /\ request.sensitive
        /\ heard > 0
        /\ \/ typed[heard] = "yes"
           \/ typed[heard] = "endsInYes" /\ piped /\ attempt > 1
        /\ ~piped => \A j \in 1..(heard - 1) : typed[j] # "no"

\* A command that succeeds has shown every part it is for, in their order; it
\* has shown nothing only if its user did not agree.
SuccessShowsAll ==
    result = "succeeded" =>
        /\ PartsOf(request) # <<>> =>
              [i \in DOMAIN printed |-> printed[i].part] = PartsOf(request)
        /\ printed = <<>> => answer \in {"no", "nil"}

\* Once standard input has ended, a command that may ask ends, with or without
\* an answer; every other ends unless the pod it asks never answers.
EndsUnlessExecHangs ==
    closed \/ ~request.sensitive ~> pc \in {"ended", "exec"}
=============================================================================
