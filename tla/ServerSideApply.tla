-------------------------- MODULE ServerSideApply ---------------------------
(***************************************************************************)
(* The Kubernetes API server, as far as the CLI relies on it.  It is not   *)
(* part of the repository: the operators below are what the code under src/*)
(* and its end-to-end tests take for granted of a PATCH of type            *)
(* "application/apply-patch+yaml" with a field manager, of a CREATE with a *)
(* field manager and of the edits other clients make.                      *)
(*                                                                         *)
(* A cluster object is the value of its fields and metadata.managedFields: *)
(* for each entry, a pair of a manager and an operation, the paths that    *)
(* entry owns.  An object exists when its required field does, so an       *)
(* object that does not exist is the one with no field and no owner.       *)
(* Subresources (status) are left out: no command writes them.             *)
(***************************************************************************)
EXTENDS Unstructured

CONSTANTS
    FieldManager,  \* config.Patch.FieldManager: the name of the CLI's binary
    OtherManagers  \* kubectl, GitOps controllers, ...

ASSUME ManagersAssumption == FieldManager \notin OtherManagers

Entry == [manager : {FieldManager} \cup OtherManagers,
          operation : {"Apply", "Update"}]

NoObject == [live |-> NoFields, managedFields |-> [e \in Entry |-> {}]]

IsObject(o) ==
    /\ o = [live |-> o.live, managedFields |-> o.managedFields]
    /\ IsFields(o.live)
    /\ o.managedFields \in [Entry -> SUBSET Path]

Exists(o) == o.live["instances"] # Absent

\* What the CRD's schema demands of an object that is stored:
\* restore/01--validation.yaml, "repoName: Required value".
Valid(o) ==
    /\ Exists(o)
    /\ ( \/ \E f \in RestoreFields : o.live[f] # Absent
         \/ \E e \in Entry : "restore" \in o.managedFields[e] )
       => o.live["restore.repoName"] # Absent

-----------------------------------------------------------------------------
(* Server-side apply of the tree "config" by entry e.                      *)

\* The fields config would give a new value.
Changes(o, config) ==
    {f \in Field : config.fields[f] \notin {Absent, o.live[f]}}

\* Those another entry owns.  Equal values are no conflict: they make two
\* owners (restore/20--predefined-settings.yaml).
Conflicts(o, e, config) ==
    {f \in Changes(o, config) : \E x \in Entry \ {e} : f \in o.managedFields[x]}

\* What e owned, no longer asks for, and nobody else owns: pruned.
Dropped(o, e, config) ==
    {f \in o.managedFields[e] \cap Field :
        /\ config.fields[f] = Absent
        /\ \A x \in Entry \ {e} : f \notin o.managedFields[x]}

\* The object after the apply; conflicting fields change hands.
Apply(o, e, config) ==
    [live |->
        [f \in Field |-> IF config.fields[f] # Absent THEN config.fields[f]
                         ELSE IF f \in Dropped(o, e, config) THEN Absent
                         ELSE o.live[f]],
     managedFields |->
        [x \in Entry |-> IF x = e THEN Leaves(config)
                         ELSE o.managedFields[x] \ Conflicts(o, e, config)]]

\* The answer to an apply request: applying to a name that does not exist is
\* a create, which the schema refuses unless config has every required field.
ApplyAnswer(o, e, config, force) ==
    CASE Conflicts(o, e, config) # {} /\ ~force -> "conflict"
      [] ~Valid(Apply(o, e, config)) -> "invalid"
      [] OTHER -> "ok"

-----------------------------------------------------------------------------
(* Writes that are not applies.  They never conflict: the writer takes what *)
(* it changes away from every other entry.                                 *)

\* edit : a function from some fields to their new value, or Absent.
Update(o, e, edit) ==
    LET changed == {f \in DOMAIN edit : edit[f] # o.live[f]}
        removed == {f \in changed : edit[f] = Absent}
    IN  [live |->
            [f \in Field |-> IF f \in changed THEN edit[f] ELSE o.live[f]],
         managedFields |->
            [x \in Entry |-> IF x = e
                             THEN (o.managedFields[x] \cup changed) \ removed
                             ELSE o.managedFields[x] \ changed]]

\* A CREATE of "fields" is recorded as an Update entry of its field manager.
Created(e, fields) ==
    [live |-> fields,
     managedFields |->
        [x \in Entry |-> IF x = e THEN {f \in Field : fields[f] # Absent} ELSE {}]]
=============================================================================
