---------------------------- MODULE Unstructured ----------------------------
(***************************************************************************)
(* The PostgresCluster document as the CLI handles it: an untyped tree     *)
(* (unstructured.Unstructured) of which the CLI reads and writes a few     *)
(* fields, and the functions of internal/unstructured.go that turn the     *)
(* live object into an "intent", the body of a server-side apply patch.    *)
(*                                                                         *)
(* A path of the tree is a model name.  A Field is a path that holds a     *)
(* value; a Section is a map on the way to it.  A tree is then             *)
(*   fields : the value of each Field, or Absent;                          *)
(*   empty  : the sections that are present and hold nothing.              *)
(* "empty" is what makes removal delicate: RemoveNestedField deletes a key *)
(* and leaves its parent map behind, and an applied empty map is a field   *)
(* the field manager owns.                                                 *)
(***************************************************************************)

CONSTANTS
    Absent,       \* the value of a field that is not there
    Repos,        \* pgBackRest repository names
    OptionLists,  \* non-empty values of repeated --options flags
    Times         \* timestamps of one second (time.RFC3339)

Annotations == {"backupAnnotation", "restoreAnnotation"}
ManualFields == {"manual.options", "manual.repoName"}
RestoreFields == {"restore.enabled", "restore.options", "restore.repoName"}

\* "instances" stands for the fields every PostgresCluster must have, "repos"
\* for those of spec.backups.pgbackrest that no command but create writes.
Field == Annotations \cup ManualFields \cup RestoreFields
           \cup {"shutdown", "instances", "repos"}

Section == {"spec", "backups", "pgbackrest", "manual", "restore"}
Path == Field \cup Section

\* The values a field can hold.
ValueOf ==
    [f \in Field |->
        CASE f \in Annotations -> Times
          [] f \in {"manual.repoName", "restore.repoName"} -> Repos
          [] f \in {"manual.options", "restore.options"} -> OptionLists
          [] f \in {"shutdown", "restore.enabled"} -> {"true", "false"}
          [] OTHER -> {"present"}]

ASSUME AbsentAssumption == \A f \in Field : Absent \notin ValueOf[f]

IsFields(x) ==
    /\ x = [f \in Field |-> x[f]]
    /\ \A f \in Field : x[f] \in ValueOf[f] \cup {Absent}

IsTree(t) ==
    /\ t = [fields |-> t.fields, empty |-> t.empty]
    /\ IsFields(t.fields)
    /\ t.empty \subseteq Section

NoFields == [f \in Field |-> Absent]
NoTree == [fields |-> NoFields, empty |-> {}]

-----------------------------------------------------------------------------
(* The shape of the tree.                                                  *)

\* Every path strictly below a section.
Under ==
    LET pgbackrest == ManualFields \cup RestoreFields
                        \cup {"manual", "restore", "repos"}
        backups    == pgbackrest \cup {"pgbackrest"}
    IN  [s \in Section |->
            CASE s = "manual"     -> ManualFields
              [] s = "restore"    -> RestoreFields
              [] s = "pgbackrest" -> pgbackrest
              [] s = "backups"    -> backups
              [] s = "spec"       -> backups \cup {"backups", "shutdown", "instances"}]

\* The sections above a path.
Above(p) == {s \in Section : p \in Under[s]}

\* The section that holds a path: the innermost one above it, if any.
Holder(p) == {s \in Above(p) : \A t \in Above(p) : t = s \/ s \in Under[t]}

\* What a tree says something about: its leaves.
Leaves(t) == {f \in Field : t.fields[f] # Absent} \cup t.empty

Subtree(p) == IF p \in Section THEN {p} \cup Under[p] ELSE {p}

Present(t, p) == Leaves(t) \cap Subtree(p) # {}

-----------------------------------------------------------------------------
(* Setting and removing one field.                                         *)

\* SetNestedField: the maps on the way are created, so they are not empty.
SetNestedField(t, f, v) ==
    [fields |-> [t.fields EXCEPT ![f] = v],
     empty  |-> t.empty \ Above(f)]

\* RemoveNestedField deletes the last key of the path and nothing else: the
\* map that held it stays, possibly empty.
RemoveNestedField(t, p) ==
    LET fields == [f \in Field |-> IF f \in Subtree(p) THEN Absent ELSE t.fields[f]]
        empty  == t.empty \ Subtree(p)
        Bare(s) == /\ \A f \in Field \cap Under[s] : fields[f] = Absent
                   /\ empty \cap Under[s] = {}
    IN  IF Present(t, p)
        THEN [fields |-> fields,
              empty  |-> empty \cup {s \in Holder(p) : Bare(s)}]
        ELSE t

\* A flag that was not given removes the setting, one that was given sets it.
SetOrRemove(t, f, v) ==
    IF v = Absent THEN RemoveNestedField(t, f) ELSE SetNestedField(t, f, v)

\* RemoveEmptyField on a section: only an empty map is removed.
RemoveEmptyField(t, s) ==
    IF s \in t.empty THEN RemoveNestedField(t, s) ELSE t

\* RemoveEmptySections walks from the deepest section to the shallowest.
\* Its two callers pass "spec, backups, pgbackrest" and the same path with
\* "manual" below it.
RemoveEmptySections(t) ==
    RemoveEmptyField(
        RemoveEmptyField(
            RemoveEmptyField(t, "pgbackrest"), "backups"), "spec")

RemoveEmptyManualSections(t) ==
    RemoveEmptySections(RemoveEmptyField(t, "manual"))

-----------------------------------------------------------------------------
(* ExtractFieldsInto.                                                      *)

\* fieldpath.Set.Leaves: the owned paths with no owned path below them.
LeavesOf(paths) ==
    {p \in paths : p \in Field \/ paths \cap Under[p] = {}}

\* The copy of the live fields that "paths" names.  A section that is itself
\* a leaf of "paths" is copied whole, with whatever anybody put into it
\* (NestedFieldCopy); a path that src does not have is skipped.
ExtractDepthFirst(src, paths) ==
    LET members == LeavesOf(paths)
        copied  == {f \in Field : \E p \in members : f \in Subtree(p)}
        fields  == [f \in Field |-> IF f \in copied THEN src[f] ELSE Absent]
    IN  [fields |-> fields,
         empty  |-> {s \in members \cap Section :
                        \A f \in Field \cap Under[s] : fields[f] = Absent}]

\* Mutant: the left-most map wins.
MergeAnnotation_LeftMost(t, key, v) ==
    IF t.fields[key] # Absent THEN t
    ELSE [t EXCEPT !.fields = [f \in Field |-> IF f = key THEN v ELSE t.fields[f]]]

\* MergeStringMaps(annotations, {key: v}): the right-most map wins, every
\* other annotation is kept.
MergeAnnotation(t, key, v) ==
    [t EXCEPT !.fields = [f \in Field |-> IF f = key THEN v ELSE t.fields[f]]]
=============================================================================
