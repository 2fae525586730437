----------------------------- MODULE PgoCommands ----------------------------
(***************************************************************************)
(* The pgo commands that change a PostgresCluster (internal/cmd: backup,   *)
(* restore, restore disable, start, stop, create, delete), run by several  *)
(* users at once against one cluster name that other clients edit too.     *)
(*                                                                         *)
(* A command is a process of the operating system.  It talks to the API    *)
(* server a few times and to its user at most once, and between any two of *)
(* those steps anything may happen to the cluster: the patch it sends is   *)
(* built from the object it read before.  Every CLI process writes under   *)
(* the same field manager, so they share one managedFields entry.          *)
(***************************************************************************)
EXTENDS ServerSideApply, Intents, Naturals

CONSTANTS
    Proc,         \* the CLI processes
    Requests,     \* the command lines users may enter
    Edits,        \* what other clients may write with Update
    Configs,      \* what other managers may apply
    MaxTime,      \* bound on the clock
    MaxCommands,  \* bound on the commands invoked
    MaxEdits      \* bound on the writes of other clients

VARIABLES
    cluster,  \* the object in the API server
    now,      \* the wall clock, in seconds
    pc,       \* what each process does next, or how its last command ended
    request,  \* its command line
    intent,   \* the patch it has built
    preview,  \* the restore settings it has shown its user
    stale,    \* history: the processes whose intent is older than the cluster
    invoked,  \* number of commands invoked
    edits     \* number of writes by other clients

vars == <<cluster, now, pc, request, intent, preview, stale, invoked, edits>>

NoPreview == [options |-> Absent, repoName |-> Absent]

Ended == {"succeeded", "nothingToDo", "declined", "conflict", "failed", "killed"}
Asking == {"confirm"}
Working == {"get", "dryrun", "patch", "create", "delete"}

\* The managedFields entries of the CLI: applies of every command but create.
CliApply == [manager |-> FieldManager, operation |-> "Apply"]
CliUpdate == [manager |-> FieldManager, operation |-> "Update"]

ASSUME RequestsAssumption == Requests \subseteq Request
ASSUME TimesAssumption == Times = 0..MaxTime /\ MaxTime \in Nat
ASSUME BoundsAssumption == MaxCommands \in Nat /\ MaxEdits \in Nat

\* What other clients write is well formed: plain fields of the right type.
ASSUME EditsAssumption ==
    \A edit \in Edits :
        /\ DOMAIN edit \subseteq Field
        /\ \A f \in DOMAIN edit : edit[f] \in ValueOf[f] \cup {Absent}
ASSUME ConfigsAssumption ==
    \A config \in Configs : IsTree(config) /\ config.empty = {}

\* The cluster as somebody else created it.
ManifestFields(disableBackups) ==
    [f \in Field |-> IF f = "instances" \/ (f = "repos" /\ ~disableBackups)
                     THEN "present" ELSE Absent]

Init ==
    /\ cluster \in {NoObject}
         \cup {Created([manager |-> m, operation |-> "Update"], ManifestFields(FALSE)) :
                    m \in OtherManagers}
    /\ now = 0
    /\ pc = [p \in Proc |-> "succeeded"]
    /\ request = [p \in Proc |-> Line("delete", FALSE)]
    /\ intent = [p \in Proc |-> NoTree]
    /\ preview = [p \in Proc |-> NoPreview]
    /\ stale = {}
    /\ invoked = 0
    /\ edits = 0

-----------------------------------------------------------------------------
(* How a command turns what the CLI owns into what it wants.               *)

\* Mutant: the operation of the entry is not looked at.
FindManagedFields_AnyOperation(o) ==
    o.managedFields[CliApply] \cup o.managedFields[CliUpdate]

\* findManagedFields: the entry of this manager whose operation is Apply.
FindManagedFields(o) == o.managedFields[CliApply]

\* Mutant: the patch is not built on what the CLI owns.
ExtractFieldsInto_Nothing(o) == NoTree

ExtractFieldsInto(o) == ExtractDepthFirst(o.live, FindManagedFields(o))

\* patchClusterShutdown, the early return.
AlreadyThere(o, r) ==
    /\ r.command \in {"start", "stop"}
    /\ o.live["shutdown"] = ShutdownValue(r)

\* Mutant: the two settings are swapped.
Details_Swapped(o) == [options |-> o.live["restore.repoName"],
                       repoName |-> o.live["restore.options"]]

\* "details" of restore.go: the settings the user is asked about.
Details(o) == [options |-> o.live["restore.options"],
               repoName |-> o.live["restore.repoName"]]

\* What the user named by choosing a command.
Touches(r) ==
    CASE r.command = "backup"  -> {"backupAnnotation"} \cup ManualFields
      [] r.command = "restore" -> {"restoreAnnotation"} \cup RestoreFields
      [] r.command = "disable" -> RestoreFields
      [] r.command \in {"start", "stop"} -> {"shutdown"}
      [] OTHER -> Field

-----------------------------------------------------------------------------
(* The life of one command.                                                *)

\* Mutant: delete does not ask.
FirstStep_DeleteUnasked(r) ==
    CASE r.command \in {"backup", "restore", "disable", "start"} -> "get"
      [] r.command = "stop" -> "confirm"
      [] r.command = "delete" -> "delete"
      [] OTHER -> IF r.disableBackups THEN "confirm" ELSE "create"

\* The first thing each command does.
FirstStep(r) ==
    CASE r.command \in {"backup", "restore", "disable", "start"} -> "get"
      [] r.command \in {"stop", "delete"} -> "confirm"
      [] OTHER -> IF r.disableBackups THEN "confirm" ELSE "create"

\* A process that ends takes its local data with it.
End(p, how) ==
    /\ pc' = [pc EXCEPT ![p] = how]
    /\ request' = [request EXCEPT ![p] = Line("delete", FALSE)]
    /\ intent' = [intent EXCEPT ![p] = NoTree]
    /\ preview' = [preview EXCEPT ![p] = NoPreview]

\* Replacing the object makes stale every patch built from the one before.
Store(object) ==
    /\ cluster' = object
    /\ stale' = IF object = cluster THEN stale
                ELSE {p \in Proc : pc'[p] \in {"dryrun", "confirm", "patch"}}

Invoke(p, r) ==
    /\ pc[p] \in Ended
    /\ invoked < MaxCommands
    /\ invoked' = invoked + 1
    /\ pc' = [pc EXCEPT ![p] = FirstStep(r)]
    /\ request' = [request EXCEPT ![p] = r]
    /\ stale' = stale \ {p}
    /\ UNCHANGED <<cluster, now, intent, preview, edits>>

\* Mutant: an object that is not found is not an error.
Get_Found(p) ==
    /\ pc[p] = "get"
    /\ Exists(cluster)
    /\ \/ /\ AlreadyThere(cluster, request[p])
          /\ End(p, "nothingToDo")
          /\ UNCHANGED stale
       \/ /\ ~AlreadyThere(cluster, request[p])
          /\ intent' = [intent EXCEPT ![p] =
                ModifyIntent(ExtractFieldsInto(cluster), request[p], now)]
          /\ pc' = [pc EXCEPT ![p] =
                IF request[p].command = "restore" THEN "dryrun" ELSE "patch"]
          /\ stale' = stale \ {p}
          /\ UNCHANGED <<request, preview>>
    /\ UNCHANGED <<cluster, now, invoked, edits>>

\* Get, ExtractFieldsInto and modifyIntent: one request, then local work.
\* time.Now() is read here, not when the patch is sent.
Get(p) ==
    /\ pc[p] = "get"
    /\ \/ /\ ~Exists(cluster)
          /\ End(p, "failed")
          /\ UNCHANGED stale
       \/ /\ Exists(cluster)
          /\ AlreadyThere(cluster, request[p])
          /\ End(p, "nothingToDo")
          /\ UNCHANGED stale
       \/ /\ Exists(cluster)
          /\ ~AlreadyThere(cluster, request[p])
          /\ intent' = [intent EXCEPT ![p] =
                ModifyIntent(ExtractFieldsInto(cluster), request[p], now)]
          /\ pc' = [pc EXCEPT ![p] =
                IF request[p].command = "restore" THEN "dryrun" ELSE "patch"]
          /\ stale' = stale \ {p}
          /\ UNCHANGED <<request, preview>>
    /\ UNCHANGED <<cluster, now, invoked, edits>>

\* Mutant: Force is always set in the patch options.
Answer_Forced(p) == ApplyAnswer(cluster, CliApply, intent[p], TRUE)

Answer(p) == ApplyAnswer(cluster, CliApply, intent[p], request[p].force)

\* How an apply that changed nothing ends; "invalid" is the API server's word.
Refused(p) == IF Answer(p) = "conflict" THEN "conflict" ELSE "failed"

\* Mutant: the settings shown are those of the object read before.
DryRun_ShowsCurrent(p) ==
    /\ pc[p] = "dryrun"
    /\ \/ /\ Answer(p) = "ok"
          /\ preview' = [preview EXCEPT ![p] = Details(cluster)]
          /\ pc' = [pc EXCEPT ![p] = "confirm"]
          /\ UNCHANGED <<request, intent>>
       \/ /\ Answer(p) # "ok"
          /\ End(p, Refused(p))
    /\ UNCHANGED <<cluster, now, stale, invoked, edits>>

\* The dry-run patch of restore: the server's answer is shown to the user and
\* nothing is stored.
DryRun(p) ==
    /\ pc[p] = "dryrun"
    /\ \/ /\ Answer(p) = "ok"
          /\ preview' = [preview EXCEPT ![p] =
                Details(Apply(cluster, CliApply, intent[p]))]
          /\ pc' = [pc EXCEPT ![p] = "confirm"]
          /\ UNCHANGED <<request, intent>>
       \/ /\ Answer(p) # "ok"
          /\ End(p, Refused(p))
    /\ UNCHANGED <<cluster, now, stale, invoked, edits>>

\* What follows a "yes".
AfterYes(r) ==
    CASE r.command = "restore" -> "patch"
      [] r.command = "stop"    -> "get"
      [] r.command = "delete"  -> "delete"
      [] OTHER                 -> "create"

\* confirm: yes, no, or as many unusable answers as there are attempts.  Only
\* the first goes on.
Confirm(p) ==
    /\ pc[p] = "confirm"
    /\ \/ /\ pc' = [pc EXCEPT ![p] = AfterYes(request[p])]
          /\ UNCHANGED <<request, intent, preview>>
       \/ End(p, "declined")
    /\ UNCHANGED <<cluster, now, stale, invoked, edits>>

\* The patch that counts.  When an answer is lost on the way back the command
\* reports an error for a change that was made; so do Create and Delete.
Patch(p) ==
    /\ pc[p] = "patch"
    /\ \/ /\ Answer(p) = "ok"
          /\ \E how \in {"succeeded", "failed"} : End(p, how)
          /\ Store(Apply(cluster, CliApply, intent[p]))
       \/ /\ Answer(p) # "ok"
          /\ End(p, Refused(p))
          /\ UNCHANGED <<cluster, stale>>
    /\ UNCHANGED <<now, invoked, edits>>

Create(p) ==
    /\ pc[p] = "create"
    /\ \/ /\ ~Exists(cluster)
          /\ \E how \in {"succeeded", "failed"} : End(p, how)
          /\ Store(Created(CliUpdate, ManifestFields(request[p].disableBackups)))
       \/ /\ Exists(cluster)
          /\ End(p, "failed")
          /\ UNCHANGED <<cluster, stale>>
    /\ UNCHANGED <<now, invoked, edits>>

Delete(p) ==
    /\ pc[p] = "delete"
    /\ \/ /\ Exists(cluster)
          /\ \E how \in {"succeeded", "failed"} : End(p, how)
          /\ Store(NoObject)
       \/ /\ ~Exists(cluster)
          /\ End(p, "failed")
          /\ UNCHANGED <<cluster, stale>>
    /\ UNCHANGED <<now, invoked, edits>>

\* The user interrupts the program, or a request fails before it is served.
Kill(p) ==
    /\ pc[p] \notin Ended
    /\ End(p, "killed")
    /\ UNCHANGED <<cluster, now, stale, invoked, edits>>

-----------------------------------------------------------------------------
(* The clock and the other clients of the API server.                      *)

Tick ==
    /\ now < MaxTime
    /\ now' = now + 1
    /\ UNCHANGED <<cluster, pc, request, intent, preview, stale, invoked, edits>>

OtherWrite(object) ==
    /\ edits < MaxEdits
    /\ edits' = edits + 1
    /\ object # cluster
    /\ UNCHANGED <<now, pc, request, intent, preview, invoked>>
    /\ Store(object)

\* kubectl edit, patch, client-side apply.
OtherUpdate(m, edit) ==
    LET object == Update(cluster, [manager |-> m, operation |-> "Update"], edit)
    IN  /\ Exists(cluster)
        /\ Valid(object)
        /\ OtherWrite(object)

\* Server-side apply by another manager, with or without force.
OtherApply(m, config, force) ==
    LET e == [manager |-> m, operation |-> "Apply"]
    IN  /\ Exists(cluster)
        /\ ApplyAnswer(cluster, e, config, force) = "ok"
        /\ OtherWrite(Apply(cluster, e, config))

OtherCreate(m) ==
    /\ ~Exists(cluster)
    /\ OtherWrite(Created([manager |-> m, operation |-> "Update"], ManifestFields(FALSE)))

OtherDelete ==
    /\ Exists(cluster)
    /\ OtherWrite(NoObject)

-----------------------------------------------------------------------------

\* What a process does on its own once it is invoked.
Step(p) ==
    \/ Get(p)
    \/ DryRun(p)
    \/ Patch(p)
    \/ Create(p)
    \/ Delete(p)

Users ==
    \/ \E p \in Proc : (\E r \in Requests : Invoke(p, r)) \/ Confirm(p) \/ Kill(p)

Others ==
    \/ Tick
    \/ \E m \in OtherManagers, edit \in Edits : OtherUpdate(m, edit)
    \/ \E m \in OtherManagers, config \in Configs, force \in BOOLEAN :
            OtherApply(m, config, force)
    \/ \E m \in OtherManagers : OtherCreate(m)
    \/ OtherDelete

Next == (\E p \in Proc : Step(p)) \/ Users \/ Others

Spec == Init /\ [][Next]_vars

\* The operating system runs every process and every request is answered.  A
\* user need not answer a prompt, and nobody else need do anything.
FairSpec == Spec /\ \A p \in Proc : WF_vars(Step(p))

-----------------------------------------------------------------------------
(* Invariants.                                                             *)

\* The types of the variables: every object and every intent is a tree of
\* known paths with values of the right kind.
TypeOK ==
    /\ IsObject(cluster)
    /\ now \in Times
    /\ pc \in [Proc -> Ended \cup Asking \cup Working]
    /\ request \in [Proc -> Request]
    /\ intent = [p \in Proc |-> intent[p]]
    /\ \A p \in Proc : IsTree(intent[p])
    /\ preview \in [Proc -> [options : OptionLists \cup {Absent},
                             repoName : Repos \cup {Absent}]]
    /\ stale \subseteq Proc
    /\ invoked \in 0..MaxCommands
    /\ edits \in 0..MaxEdits

\* The settings the commands write.
CliFields == Annotations \cup ManualFields \cup RestoreFields \cup {"shutdown"}

\* The CLI's apply entry, and every patch about to be sent, names fields that
\* some command writes and nothing else: no field of the cluster's manifest,
\* and no map left empty by RemoveNestedField.  A section that is owned as a
\* leaf is extracted whole (ExtractFieldsInto), so the next patch would claim
\* what other clients put into it.
CliOwnsOnlySettings ==
    /\ cluster.managedFields[CliApply] \subseteq CliFields
    /\ \A p \in Proc : Leaves(intent[p]) \subseteq CliFields

\* A command that is run again, because its answer was lost, finds the object
\* that p's patch makes, and builds this patch.
Patched(p) == Apply(cluster, CliApply, intent[p])
Repeated(p, time) == ModifyIntent(ExtractFieldsInto(Patched(p)), request[p], time)

\* Whatever p's patch was built from, running its command once more is another
\* trigger and nothing else: the annotation gets the new time, and no setting
\* and no other ownership changes.  Within the same second it is not even
\* that: the object stays as it is and nobody objects, so one backup is made.
RetryChangesNothing ==
    \A p \in Proc : pc[p] = "patch" /\ Answer(p) = "ok" =>
        LET stamp == Annotations \cap Touches(request[p])
            once  == Patched(p)
        IN  \A time \in Times :
                LET twice == Apply(once, CliApply, Repeated(p, time))
                IN  /\ \A f \in Field :
                          twice.live[f] = IF f \in stamp THEN time ELSE once.live[f]
                    /\ \A e \in Entry : twice.managedFields[e] \ stamp
                                            = once.managedFields[e] \ stamp
                    /\ (\A f \in stamp : once.live[f] = time) =>
                          /\ twice = once
                          /\ ApplyAnswer(once, CliApply, Repeated(p, time), FALSE) = "ok"

-----------------------------------------------------------------------------
(* Action properties.                                                      *)

\* The step in which p's patch is answered.
Patches(p) == pc[p] = "patch" /\ pc'[p] # "patch"

\* A patch that is not stale changes no setting, and no ownership, outside
\* those its command is about: what earlier commands set is sent again, because
\* an apply drops what its field manager stops mentioning.
CommandKeepsOtherSettings ==
    [][\A p \in Proc : Patches(p) /\ p \notin stale =>
        /\ \A f \in Field \ Touches(request[p]) :
              cluster'.live[f] = cluster.live[f]
        /\ \A e \in Entry :
              cluster'.managedFields[e] \ Touches(request[p])
                = cluster.managedFields[e] \ Touches(request[p])]_vars

\* Without --force-conflicts no patch, however old, changes a field another
\* manager owns or takes its ownership away.
OthersKeepTheirSettings ==
    [][\A p \in Proc : Patches(p) /\ ~request[p].force =>
        \A e \in Entry \ {CliApply} :
            /\ cluster'.managedFields[e] = cluster.managedFields[e]
            /\ \A f \in cluster.managedFields[e] \cap Field :
                  cluster'.live[f] = cluster.live[f]]_vars

\* A cluster that appears was created: no patch brings a deleted cluster back,
\* not even one built before it was deleted.
PatchNeverResurrects ==
    [][~Exists(cluster) /\ Exists(cluster')
        => \A p \in Proc : ~Patches(p)]_vars

\* The restore that starts is the one the user agreed to, when nothing was
\* written between the dry run's object and the patch.
PreviewIsWhatHappens ==
    [][\A p \in Proc :
        Patches(p) /\ request[p].command = "restore" /\ cluster' # cluster
          /\ p \notin stale
        => Details(cluster') = preview[p]]_vars

\* What a command line asks of a setting it is about; Absent is to give it up.
Wanted(r, time, f) ==
    IF r.command = "disable" THEN Absent
    ELSE CASE f \in Annotations -> time
           [] f = "restore.enabled" -> "true"
           [] f \in {"manual.options", "restore.options"} -> r.options
           [] f \in {"manual.repoName", "restore.repoName"} -> r.repoName
           [] f = "shutdown" -> IF r.command = "stop" THEN "true" ELSE "false"
           [] OTHER -> Absent

\* A patch that succeeds, however old and whatever happened since it was built,
\* leaves every setting its command is about as the command line says, and the
\* CLI owning it exactly if the command line gives it.
CommandTakesEffect ==
    [][\A p \in Proc : Patches(p) /\ pc'[p] = "succeeded" =>
        \E time \in 0..now : \A f \in Touches(request[p]) :
            LET v == Wanted(request[p], time, f)
            IN  /\ f \in cluster'.managedFields[CliApply] <=> v # Absent
                /\ v # Absent => cluster'.live[f] = v]_vars

\* After "restore disable" the CLI claims nothing of the restore section: not
\* its fields, and not the section itself.
DisableReleasesRestore ==
    [][\A p \in Proc :
        Patches(p) /\ request[p].command = "disable" /\ pc'[p] = "succeeded"
        => cluster'.managedFields[CliApply] \cap (RestoreFields \cup {"restore"}) = {}]_vars

-----------------------------------------------------------------------------
(* The abstract specification these commands implement.                    *)

\* The commands whose RunE asks before it writes.
NeedsYes(r) ==
    \/ r.command \in {"restore", "stop", "delete"}
    \/ r.command = "create" /\ r.disableBackups

\* A question still has to be answered: "stop" and "delete" ask first,
\* "restore" after its dry run.
Unasked(p) ==
    \/ pc[p] = "confirm"
    \/ request[p].command = "restore" /\ pc[p] \in {"get", "dryrun"}

Stage == [p \in Proc |-> IF pc[p] \in Ended THEN "idle"
                         ELSE IF ~NeedsYes(request[p]) THEN "free"
                         ELSE IF Unasked(p) THEN "asking" ELSE "agreed"]

Promise == INSTANCE Consent WITH object <- cluster, outside <- edits, stage <- Stage

\* Commands write once, at their end, and those that ask write nothing before
\* a "yes" (restore.go:201, stop.go:56, delete.go:75, create.go:105).
KeepsPromise == Promise!Spec

-----------------------------------------------------------------------------
(* Liveness.                                                               *)

\* A command that waits for nobody comes to an end, or to its question.
CommandsEnd ==
    \A p \in Proc : pc[p] \in Working ~> pc[p] \in Ended \cup Asking

-----------------------------------------------------------------------------
(* What the documentation and the comments say, and the code does not do.  *)

\* backup.go:45, "Trigger a backup on the 'hippo' postgrescluster using the
\* current spec options": a backup without flags leaves the manual section as it is.
BackupWithoutFlagsKeepsSettings ==
    [][\A p \in Proc :
        /\ Patches(p)
        /\ request[p].command = "backup"
        /\ request[p].repoName = Absent /\ request[p].options = Absent
        => \A f \in ManualFields : cluster'.live[f] = cluster.live[f]]_vars
=============================================================================
