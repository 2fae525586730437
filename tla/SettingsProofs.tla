--------------------------- MODULE SettingsProofs ---------------------------
(***************************************************************************)
(* Proofs about what a patch of PgoCommands touches and what it achieves.  *)
(* A patch that is not stale was built from the object it meets, so        *)
(* nothing outside its command's settings changes; the dry run of a        *)
(* restore tells what its patch does; and "restore disable" gives its      *)
(* settings up.                                                            *)
(*                                                                         *)
(* Stale or not, the cluster says after a patch what the command line      *)
(* asked for, the manifest is as it was, and running the command again is  *)
(* another trigger and nothing else.  A patch is tailored to its command   *)
(* line: whatever object it was built from, of the settings its command is *)
(* about it has what the command line says.                                *)
(***************************************************************************)
EXTENDS PgoCommandsProofs

-----------------------------------------------------------------------------
(* Trees.                                                                  *)

\* A section that is recorded as empty holds no field.
Consistent(t) == \A s \in t.empty : \A f \in Field \cap Under[s] : t.fields[f] = Absent

\* No field is a section.
LEMMA FieldsAreNoSections == Field \cap Section = {}
BY DEF Field, Section, Annotations, ManualFields, RestoreFields

\* An annotation is in no section.
LEMMA MergeAnnotationConsistent ==
    ASSUME NEW t, IsTree(t), Consistent(t), NEW key \in Annotations, NEW v \in Times
    PROVE  Consistent(MergeAnnotation(t, key, v))
<1>1. \A s \in Section : key \notin Under[s]
  BY UnderSections DEF Annotations, Section, ManualFields, RestoreFields
<1>2. key \in Field /\ v \in ValueOf[key]
  BY ValuesOfFields DEF Field
<1>3. t.empty \subseteq Section
  BY DEF IsTree
<1>4. /\ MergeAnnotation(t, key, v).empty = t.empty
      /\ \A g \in Field : MergeAnnotation(t, key, v).fields[g]
                            = IF g = key THEN v ELSE t.fields[g]
  BY <1>2, MergeAnnotationProperties
<1> QED BY <1>1, <1>3, <1>4 DEF Consistent

\* Setting a field fills every section above it.
LEMMA SetNestedFieldConsistent ==
    ASSUME NEW t, IsTree(t), Consistent(t), NEW f \in Field, NEW v \in ValueOf[f] \cup {Absent}
    PROVE  Consistent(SetNestedField(t, f, v))
<1>1. SetNestedField(t, f, v).empty = t.empty \ Above(f)
  BY DEF SetNestedField
<1>2. \A g \in Field : SetNestedField(t, f, v).fields[g] = IF g = f THEN v ELSE t.fields[g]
  BY SetNestedFieldProperties
<1>3. t.empty \subseteq Section
  BY DEF IsTree
<1> QED BY <1>1, <1>2, <1>3 DEF Consistent, Above

\* Removing a path leaves a section empty only when it holds nothing more.
LEMMA RemoveNestedFieldConsistent ==
    ASSUME NEW t, IsTree(t), Consistent(t), NEW p \in Path
    PROVE  Consistent(RemoveNestedField(t, p))
<1> DEFINE fields == [f \in Field |-> IF f \in Subtree(p) THEN Absent ELSE t.fields[f]]
           empty == t.empty \ Subtree(p)
           Bare(s) == /\ \A f \in Field \cap Under[s] : fields[f] = Absent
                      /\ empty \cap Under[s] = {}
<1>1. CASE ~Present(t, p)
  BY <1>1 DEF RemoveNestedField
<1>2. CASE Present(t, p)
  <2>1. RemoveNestedField(t, p) =
            [fields |-> fields, empty |-> empty \cup {s \in Holder(p) : Bare(s)}]
    BY <1>2 DEF RemoveNestedField
  <2>2. \A s \in empty : \A f \in Field \cap Under[s] : fields[f] = Absent
    BY DEF Consistent
  <2>3. \A s \in empty \cup {s \in Holder(p) : Bare(s)} :
            \A f \in Field \cap Under[s] : fields[f] = Absent
    BY <2>2
  <2> HIDE DEF fields, empty, Bare
  <2> QED BY <2>1, <2>3 DEF Consistent
<1> QED BY <1>1, <1>2

\* A flag given or not.
LEMMA SetOrRemoveConsistent ==
    ASSUME NEW t, IsTree(t), Consistent(t), NEW f \in Field, NEW v \in ValueOf[f] \cup {Absent}
    PROVE  Consistent(SetOrRemove(t, f, v))
BY SetNestedFieldConsistent, RemoveNestedFieldConsistent DEF SetOrRemove, Path

\* Removing an empty section removes no field.
LEMMA RemoveEmptyFieldKeeps ==
    ASSUME NEW t, IsTree(t), Consistent(t), NEW s \in Section
    PROVE  /\ IsTree(RemoveEmptyField(t, s)) /\ Consistent(RemoveEmptyField(t, s))
           /\ \A f \in Field : RemoveEmptyField(t, s).fields[f] = t.fields[f]
<1>1. s \in Path
  BY DEF Path
<1>2. CASE s \notin t.empty
  BY <1>2 DEF RemoveEmptyField
<1>3. CASE s \in t.empty
  <2>1. RemoveEmptyField(t, s) = RemoveNestedField(t, s)
    BY <1>3 DEF RemoveEmptyField
  <2>2. \A f \in Field \cap Subtree(s) : t.fields[f] = Absent
    BY <1>3, FieldsAreNoSections DEF Consistent, Subtree
  <2> QED BY <1>1, <2>1, <2>2, RemoveNestedFieldProperties, RemoveNestedFieldConsistent
<1> QED BY <1>2, <1>3

\* Pruning removes no field.
LEMMA RemoveEmptySectionsKeeps ==
    ASSUME NEW t, IsTree(t), Consistent(t)
    PROVE  \A f \in Field : RemoveEmptySections(t).fields[f] = t.fields[f]
<1> DEFINE t1 == RemoveEmptyField(t, "pgbackrest")
           t2 == RemoveEmptyField(t1, "backups")
           t3 == RemoveEmptyField(t2, "spec")
<1>1. IsTree(t1) /\ Consistent(t1) /\ \A f \in Field : t1.fields[f] = t.fields[f]
  BY RemoveEmptyFieldKeeps DEF Section
<1>2. IsTree(t2) /\ Consistent(t2) /\ \A f \in Field : t2.fields[f] = t1.fields[f]
  <2> HIDE DEF t1
  <2> QED BY <1>1, RemoveEmptyFieldKeeps DEF Section
<1>3. \A f \in Field : t3.fields[f] = t2.fields[f]
  <2> HIDE DEF t2
  <2> QED BY <1>2, RemoveEmptyFieldKeeps DEF Section
<1>4. RemoveEmptySections(t) = t3
  BY DEF RemoveEmptySections
<1> HIDE DEF t1, t2, t3
<1> QED BY <1>1, <1>2, <1>3, <1>4

-----------------------------------------------------------------------------
(* Each modifyIntent changes the settings of its command and no others.    *)

\* backup.
LEMMA BackupIntentTouches ==
    ASSUME NEW t, IsTree(t), Consistent(t), NEW r \in Request, NEW time \in Times,
           NEW f \in Field \ ({"backupAnnotation"} \cup ManualFields)
    PROVE  BackupIntent(t, r, time).fields[f] = t.fields[f]
<1> DEFINE t1 == MergeAnnotation(t, "backupAnnotation", time)
           t2 == SetOrRemove(t1, "manual.options", r.options)
           t3 == SetOrRemove(t2, "manual.repoName", r.repoName)
           t4 == RemoveEmptyField(t3, "manual")
<1>0. /\ {"backupAnnotation", "manual.options", "manual.repoName"} \subseteq Field
      /\ ManualFields = {"manual.options", "manual.repoName"}
      /\ r.options \in ValueOf["manual.options"] \cup {Absent}
      /\ r.repoName \in ValueOf["manual.repoName"] \cup {Absent}
      /\ time \in ValueOf["backupAnnotation"]
      /\ "backupAnnotation" \in Annotations
  BY ValuesOfFields, SettingsAreFields, CliFieldsAreFields DEF Request, ManualFields
<1>1. IsTree(t1) /\ Consistent(t1) /\ t1.fields[f] = t.fields[f]
  BY <1>0, MergeAnnotationProperties, MergeAnnotationConsistent
<1>2. IsTree(t2) /\ Consistent(t2) /\ t2.fields[f] = t1.fields[f]
  <2> HIDE DEF t1
  <2> QED BY <1>0, <1>1, SetOrRemoveProperties, SetOrRemoveConsistent
<1>3. IsTree(t3) /\ Consistent(t3) /\ t3.fields[f] = t2.fields[f]
  <2> HIDE DEF t2
  <2> QED BY <1>0, <1>2, SetOrRemoveProperties, SetOrRemoveConsistent
<1>4. IsTree(t4) /\ Consistent(t4) /\ t4.fields[f] = t3.fields[f]
  <2> HIDE DEF t3
  <2> QED BY <1>3, RemoveEmptyFieldKeeps DEF Section
<1>5. RemoveEmptySections(t4).fields[f] = t4.fields[f]
  <2> HIDE DEF t4
  <2> QED BY <1>4, RemoveEmptySectionsKeeps
<1>6. BackupIntent(t, r, time) = RemoveEmptySections(t4)
  BY DEF BackupIntent, RemoveEmptyManualSections
<1> HIDE DEF t1, t2, t3, t4
<1> QED BY <1>1, <1>2, <1>3, <1>4, <1>5, <1>6

\* restore.
LEMMA RestoreIntentTouches ==
    ASSUME NEW t, IsTree(t), Consistent(t), NEW r \in Request, NEW time \in Times,
           NEW f \in Field \ ({"restoreAnnotation"} \cup RestoreFields)
    PROVE  RestoreIntent(t, r, time).fields[f] = t.fields[f]
<1> DEFINE t1 == MergeAnnotation(t, "restoreAnnotation", time)
           t2 == SetNestedField(t1, "restore.enabled", "true")
           t3 == SetOrRemove(t2, "restore.options", r.options)
           t4 == SetOrRemove(t3, "restore.repoName", r.repoName)
<1>0. /\ {"restoreAnnotation", "restore.enabled", "restore.options", "restore.repoName"}
             \subseteq Field
      /\ RestoreFields = {"restore.enabled", "restore.options", "restore.repoName"}
      /\ "true" \in ValueOf["restore.enabled"] \cup {Absent}
      /\ r.options \in ValueOf["restore.options"] \cup {Absent}
      /\ r.repoName \in ValueOf["restore.repoName"] \cup {Absent}
      /\ time \in ValueOf["restoreAnnotation"]
      /\ "restoreAnnotation" \in Annotations
  BY ValuesOfFields, SettingsAreFields, CliFieldsAreFields DEF Request, RestoreFields
<1>1. IsTree(t1) /\ t1.fields[f] = t.fields[f]
  BY <1>0, MergeAnnotationProperties
<1>2. IsTree(t2) /\ t2.fields[f] = t1.fields[f]
  <2> HIDE DEF t1
  <2> QED BY <1>0, <1>1, SetNestedFieldProperties
<1>3. IsTree(t3) /\ t3.fields[f] = t2.fields[f]
  <2> HIDE DEF t2
  <2> QED BY <1>0, <1>2, SetOrRemoveProperties
<1>4. IsTree(t4) /\ t4.fields[f] = t3.fields[f]
  <2> HIDE DEF t3
  <2> QED BY <1>0, <1>3, SetOrRemoveProperties
<1>5. RestoreIntent(t, r, time) = t4
  BY DEF RestoreIntent
<1> HIDE DEF t1, t2, t3, t4
<1> QED BY <1>1, <1>2, <1>3, <1>4, <1>5

\* restore disable: its settings go and no others.
LEMMA DisableIntentTouches ==
    ASSUME NEW t, IsTree(t), Consistent(t), NEW f \in Field
    PROVE  DisableIntent(t).fields[f] = IF f \in RestoreFields THEN Absent ELSE t.fields[f]
<1> DEFINE t1 == RemoveNestedField(t, "restore")
<1>1. Field \cap Subtree("restore") = Field \cap RestoreFields /\ "restore" \in Path
  BY UnderSections, FieldsAreNoSections DEF Subtree, Section, Path
<1>2. /\ IsTree(t1) /\ Consistent(t1)
      /\ t1.fields[f] = IF f \in RestoreFields THEN Absent ELSE t.fields[f]
  BY <1>1, RemoveNestedFieldProperties, RemoveNestedFieldConsistent
<1>3. RemoveEmptySections(t1).fields[f] = t1.fields[f]
  <2> HIDE DEF t1
  <2> QED BY <1>2, RemoveEmptySectionsKeeps
<1>4. DisableIntent(t) = RemoveEmptySections(t1)
  BY DEF DisableIntent
<1> HIDE DEF t1
<1> QED BY <1>2, <1>3, <1>4

\* All of them.
LEMMA ModifyIntentTouches ==
    ASSUME NEW t, IsTree(t), Consistent(t), NEW r \in Request, NEW time \in Times,
           NEW f \in Field \ Touches(r)
    PROVE  ModifyIntent(t, r, time).fields[f] = t.fields[f]
<1>1. CASE r.command = "backup"
  BY <1>1, BackupIntentTouches DEF ModifyIntent, Touches
<1>2. CASE r.command = "restore"
  BY <1>2, RestoreIntentTouches DEF ModifyIntent, Touches
<1>3. CASE r.command = "disable"
  BY <1>3, DisableIntentTouches DEF ModifyIntent, Touches
<1>4. CASE r.command \in {"start", "stop"}
  <2>1. f # "shutdown"
    BY <1>4 DEF Touches
  <2>2. ShutdownValue(r) \in ValueOf["shutdown"] \cup {Absent} /\ "shutdown" \in Field
    BY ValuesOfFields, SettingsAreFields, CliFieldsAreFields DEF ShutdownValue
  <2> QED BY <1>4, <2>1, <2>2, SetNestedFieldProperties DEF ModifyIntent, ShutdownIntent
<1>5. CASE r.command \in {"create", "delete"}
  BY <1>5 DEF Touches
<1> QED BY <1>1, <1>2, <1>3, <1>4, <1>5 DEF Request, Command

\* Of fields that are owned, their values are extracted and nothing is empty.
LEMMA ExtractExactly ==
    ASSUME NEW src, IsFields(src), NEW paths, paths \subseteq Field
    PROVE  /\ IsTree(ExtractDepthFirst(src, paths))
           /\ Consistent(ExtractDepthFirst(src, paths))
           /\ Leaves(ExtractDepthFirst(src, paths)) \subseteq paths
           /\ \A f \in Field : ExtractDepthFirst(src, paths).fields[f]
                                 = IF f \in paths THEN src[f] ELSE Absent
<1>1. \A p \in paths : Subtree(p) = {p}
  BY FieldsAreNoSections DEF Subtree
<1>2. LeavesOf(paths) = paths
  BY DEF LeavesOf
<1>3. ExtractDepthFirst(src, paths).empty = {}
  BY <1>2, FieldsAreNoSections DEF ExtractDepthFirst
<1>4. \A f \in Field : ExtractDepthFirst(src, paths).fields[f]
                         = IF f \in paths THEN src[f] ELSE Absent
  BY <1>1, <1>2 DEF ExtractDepthFirst
<1>5. paths \subseteq Path
  BY DEF Path
<1> QED BY <1>3, <1>4, <1>5, ExtractProperties, ExtractFieldsOnly DEF Consistent

-----------------------------------------------------------------------------
(* Objects.                                                                *)

\* A field that is owned has a value.
OwnedExist(o) == \A e \in Entry : \A f \in o.managedFields[e] \cap Field : o.live[f] # Absent

\* An apply gives its owner fields with values, and takes no value away from
\* another owner.
LEMMA ApplyOwnedExist ==
    ASSUME NEW o, IsObject(o), OwnedExist(o), NEW e \in Entry, NEW t, IsTree(t)
    PROVE  OwnedExist(Apply(o, e, t))
<1> SUFFICES ASSUME NEW x \in Entry, NEW f \in Apply(o, e, t).managedFields[x] \cap Field
             PROVE  Apply(o, e, t).live[f] # Absent
  BY DEF OwnedExist
<1>1. CASE t.fields[f] # Absent
  BY <1>1 DEF Apply
<1>2. CASE t.fields[f] = Absent
  <2>1. x # e /\ f \in o.managedFields[x]
    <3>1. t.empty \subseteq Section
      BY DEF IsTree
    <3>2. f \notin Leaves(t)
      BY <1>2, <3>1, FieldsAreNoSections DEF Leaves
    <3> QED BY <3>2 DEF Apply, IsObject
  <2>2. f \notin Dropped(o, e, t)
    BY <2>1 DEF Dropped
  <2>3. o.live[f] # Absent
    BY <2>1 DEF OwnedExist
  <2> QED BY <1>2, <2>2, <2>3 DEF Apply
<1> QED BY <1>1, <1>2

\* A write that removes a field removes its owners.
LEMMA UpdateOwnedExist ==
    ASSUME NEW o, IsObject(o), OwnedExist(o), NEW e \in Entry, NEW edit \in Edits
    PROVE  OwnedExist(Update(o, e, edit))
<1> SUFFICES ASSUME NEW x \in Entry, NEW f \in Update(o, e, edit).managedFields[x] \cap Field
             PROVE  Update(o, e, edit).live[f] # Absent
  BY DEF OwnedExist
<1> DEFINE changed == {g \in DOMAIN edit : edit[g] # o.live[g]}
           removed == {g \in changed : edit[g] = Absent}
<1>1. Update(o, e, edit).live[f] = IF f \in changed THEN edit[f] ELSE o.live[f]
  BY DEF Update
<1>2. Update(o, e, edit).managedFields[x] =
          IF x = e THEN (o.managedFields[x] \cup changed) \ removed
                   ELSE o.managedFields[x] \ changed
  BY DEF Update
<1>3. CASE f \in changed
  <2>1. f \notin removed
    BY <1>2, <1>3
  <2> QED BY <1>1, <1>3, <2>1
<1>4. CASE f \notin changed
  <2>1. f \in o.managedFields[x]
    BY <1>2, <1>4
  <2> QED BY <1>1, <1>4, <2>1 DEF OwnedExist
<1> QED BY <1>3, <1>4

\* A new object is owned by who created it; no object has no owner.
LEMMA CreatedOwnedExist ==
    /\ \A fields : \A e \in Entry : OwnedExist(Created(e, fields))
    /\ OwnedExist(NoObject)
BY DEF OwnedExist, Created, NoObject

\* A patch built from the object it meets.
FreshFor(o, r, t) == \E time \in Times : t = ModifyIntent(ExtractFieldsInto(o), r, time)

\* What it has of fields its command does not touch is what the CLI owns.
LEMMA FreshKeeps ==
    ASSUME NEW o, ObjectOK(o), NEW r \in Request, NEW t, FreshFor(o, r, t)
    PROVE  /\ IsTree(t) /\ Leaves(t) \subseteq CliFields
           /\ \A f \in Field \ Touches(r) :
                t.fields[f] = IF f \in o.managedFields[CliApply] THEN o.live[f] ELSE Absent
<1> DEFINE x == ExtractFieldsInto(o)
<1>1. PICK time \in Times : t = ModifyIntent(x, r, time)
  BY DEF FreshFor
<1>2. IsFields(o.live) /\ o.managedFields[CliApply] \subseteq CliFields
  BY DEF ObjectOK, IsObject
<1>3. o.managedFields[CliApply] \subseteq Field
  BY <1>2, CliFieldsAreFields
<1>4. /\ IsTree(x) /\ Consistent(x) /\ Leaves(x) \subseteq CliFields
      /\ \A f \in Field : x.fields[f] = IF f \in o.managedFields[CliApply] THEN o.live[f] ELSE Absent
  BY <1>2, <1>3, ExtractExactly DEF ExtractFieldsInto, FindManagedFields
<1> HIDE DEF x
<1> QED BY <1>1, <1>4, ModifyIntentClean, ModifyIntentTouches

\* Applying it changes no setting and no ownership outside its command's.
LEMMA FreshApplyKeeps ==
    ASSUME NEW o, ObjectOK(o), OwnedExist(o), NEW r \in Request, NEW t, FreshFor(o, r, t)
    PROVE  /\ \A f \in Field \ Touches(r) : Apply(o, CliApply, t).live[f] = o.live[f]
           /\ \A e \in Entry : Apply(o, CliApply, t).managedFields[e] \ Touches(r)
                                 = o.managedFields[e] \ Touches(r)
<1>1. /\ IsTree(t) /\ Leaves(t) \subseteq CliFields
      /\ \A f \in Field \ Touches(r) :
           t.fields[f] = IF f \in o.managedFields[CliApply] THEN o.live[f] ELSE Absent
  BY FreshKeeps
<1>2. /\ CliApply \in Entry
      /\ \A f \in o.managedFields[CliApply] \cap Field : o.live[f] # Absent
  BY Entries DEF OwnedExist
<1>3. ASSUME NEW f \in Field \ Touches(r)
      PROVE  Apply(o, CliApply, t).live[f] = o.live[f]
  <2>1. CASE t.fields[f] # Absent
    BY <1>1, <2>1 DEF Apply
  <2>2. CASE t.fields[f] = Absent
    <3>1. f \notin o.managedFields[CliApply]
      BY <1>1, <1>2, <2>2
    <3>2. f \notin Dropped(o, CliApply, t)
      BY <3>1 DEF Dropped
    <3> QED BY <2>2, <3>2 DEF Apply
  <2> QED BY <2>1, <2>2
<1>4. ASSUME NEW e \in Entry \ {CliApply}
      PROVE  Apply(o, CliApply, t).managedFields[e] \ Touches(r)
               = o.managedFields[e] \ Touches(r)
  <2>1. Conflicts(o, CliApply, t) \subseteq Touches(r)
    BY <1>1 DEF Conflicts, Changes
  <2>2. Apply(o, CliApply, t).managedFields[e] = o.managedFields[e] \ Conflicts(o, CliApply, t)
    BY DEF Apply
  <2> QED BY <2>1, <2>2
<1>5. Apply(o, CliApply, t).managedFields[CliApply] \ Touches(r)
        = o.managedFields[CliApply] \ Touches(r)
  <2>1. Apply(o, CliApply, t).managedFields[CliApply] = Leaves(t)
    BY <1>2 DEF Apply
  <2>2. t.empty \cap CliFields = {} /\ Leaves(t) \subseteq Field
    BY <1>1, CliFieldsAreFields DEF IsTree
  <2>3. t.empty = {}
    BY <1>1, <2>2 DEF Leaves
  <2>4. Leaves(t) = {f \in Field : t.fields[f] # Absent}
    BY <2>3 DEF Leaves
  <2>5. o.managedFields[CliApply] \subseteq Field
    BY CliFieldsAreFields DEF ObjectOK
  <2> QED BY <1>1, <1>2, <2>1, <2>4, <2>5
<1> QED BY <1>3, <1>4, <1>5

-----------------------------------------------------------------------------
(* Patches that are not stale.                                             *)

\* p has built the patch it is going to send, and has shown its preview.
Built(p) == \/ pc[p] \in {"dryrun", "patch"}
            \/ pc[p] = "confirm" /\ request[p].command = "restore"
Shown(p) == pc[p] \in {"confirm", "patch"} /\ request[p].command = "restore"

\* What is known of p's patch: built from this object unless it is stale,
\* shown as what it does to this object, and without what p is to give up.
Fresh(p) ==
    /\ Built(p) /\ p \notin stale => FreshFor(cluster, request[p], intent[p])
    /\ Shown(p) /\ p \notin stale =>
          preview[p] = Details(Apply(cluster, CliApply, intent[p]))
    /\ pc[p] = "patch" /\ request[p].command = "disable" =>
          \A f \in RestoreFields : intent[p].fields[f] = Absent

SettingsInv == Inv /\ PcFitsRequest /\ OwnedExist(cluster) /\ \A p \in Proc : Fresh(p)

\* What a step leaves alone of process q.
Same(q) == /\ pc'[q] = pc[q] /\ request'[q] = request[q]
           /\ intent'[q] = intent[q] /\ preview'[q] = preview[q]

\* A process whose state stays has a fresh patch after a step if it had one
\* before, because a new object makes all patches stale.
LEMMA SameFresh ==
    ASSUME NEW q \in Proc, Fresh(q), Same(q),
           \/ cluster' = cluster /\ (q \in stale => q \in stale')
           \/ stale' = {p \in Proc : pc'[p] \in {"dryrun", "confirm", "patch"}}
    PROVE  Fresh(q)'
<1>1. Built(q)' = Built(q) /\ Shown(q)' = Shown(q)
  BY DEF Same, Built, Shown
<1>2. CASE cluster' = cluster /\ (q \in stale => q \in stale')
  BY <1>1, <1>2 DEF Fresh, Same, FreshFor
<1>3. CASE stale' = {p \in Proc : pc'[p] \in {"dryrun", "confirm", "patch"}}
  <2>1. Built(q)' \/ Shown(q)' => q \in stale'
    BY <1>3 DEF Built, Shown
  <2> QED BY <2>1 DEF Fresh, Same
<1> QED BY <1>2, <1>3

\* A process that has ended, or has not read yet, has no patch.
LEMMA IdleFresh ==
    ASSUME NEW q \in Proc,
           \/ pc'[q] \in Ended \cup {"get", "create", "delete"}
           \/ pc'[q] = "confirm" /\ request'[q].command # "restore"
    PROVE  Fresh(q)'
BY DEF Fresh, Built, Shown, Ended

\* Ending one process leaves the others alone.
LEMMA EndSame ==
    ASSUME Inv, NEW p \in Proc, NEW how \in Ended, End(p, how)
    PROVE  pc'[p] \in Ended /\ \A q \in Proc \ {p} : Same(q)
<1>1. pc \in [Proc -> Ended \cup Asking \cup Working] /\ request \in [Proc -> Request]
  BY DEF Inv, TypeOK
<1>2. /\ intent = [q \in Proc |-> intent[q]]
      /\ preview \in [Proc -> [options : OptionLists \cup {Absent},
                               repoName : Repos \cup {Absent}]]
  BY DEF Inv, TypeOK
<1>3. pc'[p] = how /\ \A q \in Proc \ {p} : pc'[q] = pc[q] /\ request'[q] = request[q]
  BY <1>1 DEF End
<1>4. \A q \in Proc \ {p} : intent'[q] = intent[q] /\ preview'[q] = preview[q]
  BY <1>2 DEF End
<1> QED BY <1>3, <1>4 DEF Same

\* A process ends and nothing is stored, or a new object is.
LEMMA EndFresh ==
    ASSUME Inv, \A q \in Proc : Fresh(q), NEW p \in Proc, NEW how \in Ended, End(p, how),
           UNCHANGED <<cluster, stale>> \/ (\E o : Store(o))
    PROVE  \A q \in Proc : Fresh(q)'
<1>1. pc'[p] \in Ended /\ \A q \in Proc \ {p} : Same(q)
  BY EndSame
<1>2. Fresh(p)'
  BY <1>1, IdleFresh
<1>3. ASSUME NEW q \in Proc \ {p} PROVE Fresh(q)'
  BY <1>1, SameFresh DEF Store
<1> QED BY <1>2, <1>3

\* Nothing happens to the processes; something may be stored.
LEMMA StillFresh ==
    ASSUME \A q \in Proc : Fresh(q), UNCHANGED <<pc, request, intent, preview>>,
           UNCHANGED <<cluster, stale>> \/ (\E o : Store(o))
    PROVE  \A q \in Proc : Fresh(q)'
<1>1. \A q \in Proc : Same(q)
  BY DEF Same
<1> QED BY <1>1, SameFresh DEF Store

\* A command is entered: it has no patch yet.
LEMMA InvokeFresh ==
    ASSUME SettingsInv, NEW p \in Proc, NEW r \in Requests, Invoke(p, r)
    PROVE  \A q \in Proc : Fresh(q)'
<1>1. pc \in [Proc -> Ended \cup Asking \cup Working] /\ request \in [Proc -> Request]
  BY DEF SettingsInv, Inv, TypeOK
<1>2. pc'[p] = FirstStep(r) /\ request'[p] = r
  BY <1>1 DEF Invoke
<1>3. Fresh(p)'
  BY <1>2, IdleFresh, RequestsAssumption DEF FirstStep, Request, Command
<1>4. ASSUME NEW q \in Proc \ {p} PROVE Fresh(q)'
  <2>1. Same(q) /\ cluster' = cluster /\ (q \in stale => q \in stale')
    BY <1>1 DEF Invoke, Same
  <2> QED BY <2>1, SameFresh DEF SettingsInv
<1> QED BY <1>3, <1>4

\* The patch is built from the object that is there.
LEMMA GetFresh ==
    ASSUME SettingsInv, NEW p \in Proc, Get(p)
    PROVE  \A q \in Proc : Fresh(q)'
<1>0. Inv /\ ObjectOK(cluster) /\ ProcessesOK /\ CountsOK /\ \A q \in Proc : Fresh(q)
  BY InvParts DEF SettingsInv
<1>1. CASE (\E how \in Ended : End(p, how)) /\ UNCHANGED <<cluster, stale>>
  BY <1>0, <1>1, EndFresh
<1>2. CASE /\ intent' = [intent EXCEPT ![p] =
                  ModifyIntent(ExtractFieldsInto(cluster), request[p], now)]
           /\ pc' = [pc EXCEPT ![p] =
                  IF request[p].command = "restore" THEN "dryrun" ELSE "patch"]
           /\ stale' = stale \ {p}
           /\ UNCHANGED <<request, preview, cluster>>
  <2> DEFINE t == ModifyIntent(ExtractFieldsInto(cluster), request[p], now)
  <2>1. /\ intent'[p] = t
        /\ pc'[p] = IF request[p].command = "restore" THEN "dryrun" ELSE "patch"
        /\ \A q \in Proc \ {p} : pc'[q] = pc[q] /\ intent'[q] = intent[q]
    BY <1>0, <1>2 DEF ProcessesOK
  <2>2. FreshFor(cluster, request[p], t)
    BY <1>0 DEF FreshFor, CountsOK
  <2>3. request[p].command = "disable" => \A f \in RestoreFields : t.fields[f] = Absent
    <3>1. /\ IsTree(ExtractFieldsInto(cluster)) /\ Consistent(ExtractFieldsInto(cluster))
      <4>1. IsFields(cluster.live) /\ FindManagedFields(cluster) \subseteq Field
        BY <1>0, CliFieldsAreFields DEF ObjectOK, IsObject, FindManagedFields
      <4> QED BY <4>1, ExtractExactly DEF ExtractFieldsInto
    <3>2. RestoreFields \subseteq Field
      BY DEF Field
    <3> QED BY <3>1, <3>2, DisableIntentTouches DEF ModifyIntent
  <2>4. Fresh(p)'
    <3> HIDE DEF t
    <3>1. ~Shown(p)'
      BY <1>2, <2>1 DEF Shown
    <3>2. FreshFor(cluster', request'[p], intent'[p])
      BY <1>2, <2>1, <2>2
    <3>3. \A f \in RestoreFields : request'[p].command = "disable" => intent'[p].fields[f] = Absent
      BY <1>2, <2>1, <2>3
    <3> QED BY <3>1, <3>2, <3>3 DEF Fresh
  <2>5. ASSUME NEW q \in Proc \ {p} PROVE Fresh(q)'
    <3>1. Same(q) /\ cluster' = cluster /\ (q \in stale => q \in stale')
      BY <1>2, <2>1 DEF Same
    <3> QED BY <1>0, <3>1, SameFresh
  <2> QED BY <2>4, <2>5
<1> QED BY <1>1, <1>2 DEF Get, Ended

\* The dry run shows what the patch does to the object that is there.
LEMMA DryRunFresh ==
    ASSUME SettingsInv, NEW p \in Proc, DryRun(p)
    PROVE  \A q \in Proc : Fresh(q)'
<1>0. Inv /\ ProcessesOK /\ \A q \in Proc : Fresh(q)
  BY InvParts DEF SettingsInv
<1>1. CASE End(p, Refused(p)) /\ UNCHANGED <<cluster, stale>>
  BY <1>0, <1>1, RefusedIsEnd, EndFresh
<1>2. CASE /\ preview' = [preview EXCEPT ![p] =
                  Details(Apply(cluster, CliApply, intent[p]))]
           /\ pc' = [pc EXCEPT ![p] = "confirm"]
           /\ UNCHANGED <<request, intent, cluster, stale>>
  <2>1. /\ preview'[p] = Details(Apply(cluster, CliApply, intent[p]))
        /\ pc'[p] = "confirm"
        /\ \A q \in Proc \ {p} : pc'[q] = pc[q] /\ preview'[q] = preview[q]
    BY <1>0, <1>2 DEF ProcessesOK
  <2>2. Built(p)
    BY DEF DryRun, Built
  <2>3. p \notin stale => FreshFor(cluster, request[p], intent[p])
    BY <1>0, <2>2 DEF Fresh
  <2>4. Fresh(p)'
    BY <1>2, <2>1, <2>3 DEF Fresh
  <2>5. ASSUME NEW q \in Proc \ {p} PROVE Fresh(q)'
    <3>1. Same(q) /\ cluster' = cluster /\ (q \in stale => q \in stale')
      BY <1>2, <2>1 DEF Same
    <3> QED BY <1>0, <3>1, SameFresh
  <2> QED BY <2>4, <2>5
<1> QED BY <1>1, <1>2 DEF DryRun

\* A yes changes neither the patch nor the object.
LEMMA ConfirmFresh ==
    ASSUME SettingsInv, NEW p \in Proc, Confirm(p)
    PROVE  \A q \in Proc : Fresh(q)'
<1>0. Inv /\ ProcessesOK /\ \A q \in Proc : Fresh(q)
  BY InvParts DEF SettingsInv
<1>1. CASE End(p, "declined") /\ UNCHANGED <<cluster, stale>>
  BY <1>0, <1>1, EndFresh DEF Ended
<1>2. CASE /\ pc' = [pc EXCEPT ![p] = AfterYes(request[p])]
           /\ UNCHANGED <<request, intent, preview, cluster, stale>>
  <2>1. pc'[p] = AfterYes(request[p]) /\ \A q \in Proc \ {p} : pc'[q] = pc[q]
    BY <1>0, <1>2 DEF ProcessesOK
  <2>2. CASE request[p].command = "restore"
    <3>1. Built(p) /\ Shown(p)
      BY <2>2 DEF Confirm, Built, Shown
    <3>2. p \notin stale =>
              /\ FreshFor(cluster, request[p], intent[p])
              /\ preview[p] = Details(Apply(cluster, CliApply, intent[p]))
      BY <1>0, <3>1 DEF Fresh
    <3> QED BY <1>0, <1>2, <2>1, <2>2, <3>2, SameFresh DEF Fresh, Same
  <2>3. CASE request[p].command # "restore"
    <3>1. pc'[p] \in {"get", "create", "delete"}
      BY <2>1, <2>3 DEF AfterYes
    <3>2. Fresh(p)'
      BY <3>1, IdleFresh
    <3> QED BY <1>0, <1>2, <2>1, <3>2, SameFresh DEF Same
  <2> QED BY <2>2, <2>3
<1> QED BY <1>1, <1>2 DEF Confirm

\* The writes of the commands end them.
LEMMA WriteFresh ==
    ASSUME SettingsInv, NEW p \in Proc, Patch(p) \/ Create(p) \/ Delete(p) \/ Kill(p)
    PROVE  \A q \in Proc : Fresh(q)'
<1>1. \E how \in Ended : End(p, how)
  BY RefusedIsEnd DEF Patch, Create, Delete, Kill, Ended
<1>2. UNCHANGED <<cluster, stale>> \/ (\E o : Store(o))
  BY DEF Patch, Create, Delete, Kill
<1> QED BY <1>1, <1>2, EndFresh DEF SettingsInv

\* Other clients and the clock.
LEMMA OthersFresh ==
    ASSUME SettingsInv, Others PROVE \A q \in Proc : Fresh(q)'
<1>1. UNCHANGED <<pc, request, intent, preview>>
  BY DEF Others, Tick, OtherUpdate, OtherApply, OtherCreate, OtherDelete, OtherWrite
<1>2. UNCHANGED <<cluster, stale>> \/ (\E o : Store(o))
  BY DEF Others, Tick, OtherUpdate, OtherApply, OtherCreate, OtherDelete, OtherWrite
<1> QED BY <1>1, <1>2, StillFresh DEF SettingsInv

\* What is owned exists, whatever is stored.
LEMMA NextOwned ==
    ASSUME SettingsInv, [Next]_vars PROVE OwnedExist(cluster')
<1>0. /\ IsObject(cluster) /\ OwnedExist(cluster)
      /\ \A p \in Proc : IsTree(intent[p])
  BY InvParts DEF SettingsInv, ObjectOK, ProcessesOK
<1>1. CASE cluster' = cluster
  BY <1>0, <1>1
<1>2. ASSUME NEW p \in Proc, Step(p), cluster' # cluster PROVE OwnedExist(cluster')
  <2>1. \/ cluster' = Apply(cluster, CliApply, intent[p])
        \/ cluster' = Created(CliUpdate, ManifestFields(request[p].disableBackups))
        \/ cluster' = NoObject
    BY <1>2 DEF Step, Get, DryRun, Patch, Create, Delete, Store
  <2> QED BY <1>0, <2>1, Entries, ApplyOwnedExist, CreatedOwnedExist
<1>3. CASE Users \/ UNCHANGED vars
  BY <1>0, <1>3 DEF Users, Invoke, Confirm, Kill, vars
<1>4. CASE Others /\ cluster' # cluster
  <2>1. ASSUME NEW m \in OtherManagers, NEW edit \in Edits, OtherUpdate(m, edit)
        PROVE  OwnedExist(cluster')
    BY <1>0, <2>1, Entries, UpdateOwnedExist DEF OtherUpdate, OtherWrite, Store
  <2>2. ASSUME NEW m \in OtherManagers, NEW config \in Configs, NEW force \in BOOLEAN,
               OtherApply(m, config, force)
        PROVE  OwnedExist(cluster')
    BY <1>0, <2>2, Entries, ConfigsAssumption, ApplyOwnedExist DEF OtherApply, OtherWrite, Store
  <2>3. ASSUME NEW m \in OtherManagers, OtherCreate(m) PROVE OwnedExist(cluster')
    BY <2>3, Entries, CreatedOwnedExist DEF OtherCreate, OtherWrite, Store
  <2>4. CASE OtherDelete
    BY <2>4, CreatedOwnedExist DEF OtherDelete, OtherWrite, Store
  <2>5. CASE Tick
    BY <1>4, <2>5 DEF Tick
  <2> QED BY <1>4, <2>1, <2>2, <2>3, <2>4, <2>5 DEF Others
<1> QED BY <1>1, <1>2, <1>3, <1>4 DEF Next

\* SettingsInv is inductive.
LEMMA SettingsNext ==
    ASSUME SettingsInv, [Next]_vars PROVE SettingsInv'
<1>1. Inv' /\ PcFitsRequest'
  BY NextInv, NextFits DEF SettingsInv, Simulation
<1>2. OwnedExist(cluster)'
  BY NextOwned DEF OwnedExist
<1>3. \A q \in Proc : Fresh(q)'
  <2>1. ASSUME NEW p \in Proc, Step(p) PROVE \A q \in Proc : Fresh(q)'
    BY <2>1, GetFresh, DryRunFresh, WriteFresh DEF Step
  <2>2. CASE Users
    BY <2>2, InvokeFresh, ConfirmFresh, WriteFresh DEF Users
  <2>3. CASE Others
    BY <2>3, OthersFresh
  <2>4. CASE UNCHANGED vars
    BY <2>4, StillFresh DEF vars, SettingsInv
  <2> QED BY <2>1, <2>2, <2>3, <2>4 DEF Next
<1> QED BY <1>1, <1>2, <1>3 DEF SettingsInv

\* It holds initially, when no process has a patch.
LEMMA SettingsInit == Init => SettingsInv
<1> SUFFICES ASSUME Init PROVE SettingsInv
  OBVIOUS
<1>1. Inv /\ PcFitsRequest
  BY InitSimulation DEF Simulation
<1>2. OwnedExist(cluster)
  <2>1. ASSUME NEW m \in OtherManagers
        PROVE  OwnedExist(Created([manager |-> m, operation |-> "Update"], ManifestFields(FALSE)))
    BY Entries, CreatedOwnedExist
  <2> QED BY <2>1, CreatedOwnedExist DEF Init
<1>3. \A q \in Proc : Fresh(q)
  BY DEF Init, Fresh, Built, Shown
<1> QED BY <1>1, <1>2, <1>3 DEF SettingsInv

\* SettingsInv is an invariant for all values of the constants.
THEOREM SettingsInvariance == Spec => []SettingsInv
BY SettingsInit, SettingsNext, PTL DEF Spec

-----------------------------------------------------------------------------

\* A patch that is answered and changes the object is p's own.
LEMMA PatchAnswered ==
    ASSUME SettingsInv, [Next]_vars, NEW p \in Proc, Patches(p), cluster' # cluster
    PROVE  cluster' = Apply(cluster, CliApply, intent[p])
<1>1. Patch(p)
  BY WhoPatches DEF SettingsInv
<1> QED BY <1>1 DEF Patch, Store

\* A command says that it succeeded only when its own patch was accepted.
LEMMA PatchSucceeds ==
    ASSUME SettingsInv, [Next]_vars, NEW p \in Proc, Patches(p), pc'[p] = "succeeded"
    PROVE  Answer(p) = "ok" /\ cluster' = Apply(cluster, CliApply, intent[p])
<1>1. pc[p] = "patch" /\ pc \in [Proc -> Ended \cup Asking \cup Working]
  BY DEF Patches, SettingsInv, Inv, TypeOK
<1>2. Refused(p) # "succeeded"
  BY DEF Refused
<1>3. ASSUME NEW q \in Proc, Step(q) PROVE Patch(p)
  <2>1. q = p
    BY <1>1, <1>3 DEF Step, Get, DryRun, Patch, Create, Delete, End
  <2> QED BY <1>1, <1>3, <2>1 DEF Step, Get, DryRun, Create, Delete
<1>4. ~Users
  <2>1. ASSUME NEW q \in Proc, NEW r \in Requests, Invoke(q, r) PROVE FALSE
    BY <1>1, <2>1 DEF Invoke, Ended
  <2>2. ASSUME NEW q \in Proc, Confirm(q) \/ Kill(q) PROVE FALSE
    BY <1>1, <2>2 DEF Confirm, Kill, End
  <2> QED BY <2>1, <2>2 DEF Users
<1>5. ~Others /\ ~UNCHANGED vars
  BY <1>1 DEF Others, Tick, OtherUpdate, OtherApply, OtherCreate, OtherDelete,
              OtherWrite, vars
<1>6. Patch(p)
  BY <1>3, <1>4, <1>5 DEF Next
<1>7. Answer(p) = "ok"
  BY <1>1, <1>2, <1>6 DEF Patch, End
<1> QED BY <1>6, <1>7 DEF Patch, Store

\* A patch that meets the object it was built from changes no setting, and no
\* ownership, outside those its command is about.
THEOREM KeepsOtherSettings == Spec => CommandKeepsOtherSettings
<1>1. ASSUME SettingsInv, [Next]_vars, NEW p \in Proc, Patches(p), p \notin stale
      PROVE  /\ \A f \in Field \ Touches(request[p]) : cluster'.live[f] = cluster.live[f]
             /\ \A e \in Entry : cluster'.managedFields[e] \ Touches(request[p])
                                   = cluster.managedFields[e] \ Touches(request[p])
  <2>1. CASE cluster' = cluster
    BY <2>1
  <2>2. CASE cluster' # cluster
    <3>1. cluster' = Apply(cluster, CliApply, intent[p])
      BY <1>1, <2>2, PatchAnswered
    <3>2. ObjectOK(cluster) /\ OwnedExist(cluster) /\ request[p] \in Request
      BY <1>1, InvParts DEF SettingsInv, ProcessesOK
    <3>3. FreshFor(cluster, request[p], intent[p])
      BY <1>1 DEF SettingsInv, Fresh, Built, Patches
    <3> QED BY <3>1, <3>2, <3>3, FreshApplyKeeps
  <2> QED BY <2>1, <2>2
<1>2. ASSUME SettingsInv, [Next]_vars
      PROVE  [\A p \in Proc : Patches(p) /\ p \notin stale =>
                /\ \A f \in Field \ Touches(request[p]) :
                      cluster'.live[f] = cluster.live[f]
                /\ \A e \in Entry :
                      cluster'.managedFields[e] \ Touches(request[p])
                        = cluster.managedFields[e] \ Touches(request[p])]_vars
  BY <1>1, <1>2
<1> QED BY <1>2, SettingsInvariance, PTL DEF Spec, CommandKeepsOtherSettings

\* The restore that happens is the one the user was shown, unless somebody
\* wrote in the meantime.
THEOREM PreviewIsTrue == Spec => PreviewIsWhatHappens
<1>1. ASSUME SettingsInv, [Next]_vars, NEW p \in Proc, Patches(p),
             request[p].command = "restore", cluster' # cluster, p \notin stale
      PROVE  Details(cluster') = preview[p]
  <2>1. Shown(p)
    BY <1>1 DEF Shown, Patches
  <2> QED BY <1>1, <2>1, PatchAnswered DEF SettingsInv, Fresh
<1>2. ASSUME SettingsInv, [Next]_vars
      PROVE  [\A p \in Proc :
                Patches(p) /\ request[p].command = "restore" /\ cluster' # cluster
                  /\ p \notin stale
                => Details(cluster') = preview[p]]_vars
  BY <1>1, <1>2
<1> QED BY <1>2, SettingsInvariance, PTL DEF Spec, PreviewIsWhatHappens

\* However stale its patch, a "restore disable" that succeeds leaves the CLI
\* with no claim on the restore section.
THEOREM DisableReleases == Spec => DisableReleasesRestore
<1>1. ASSUME SettingsInv, [Next]_vars, NEW p \in Proc, Patches(p),
             request[p].command = "disable", pc'[p] = "succeeded"
      PROVE  cluster'.managedFields[CliApply] \cap (RestoreFields \cup {"restore"}) = {}
  <2>2. cluster' = Apply(cluster, CliApply, intent[p])
    BY <1>1, PatchSucceeds
  <2>3. cluster'.managedFields[CliApply] = Leaves(intent[p])
    BY <2>2, Entries DEF Apply
  <2>4. Leaves(intent[p]) \subseteq CliFields /\ "restore" \notin CliFields
    BY <1>1, CliFieldsAreFields DEF SettingsInv, Inv, CliOwnsOnlySettings, Section
  <2>5. \A f \in RestoreFields : intent[p].fields[f] = Absent
    BY <1>1 DEF SettingsInv, Fresh, Patches
  <2>6. intent[p].empty \cap RestoreFields = {}
    <3>1. IsTree(intent[p])
      BY <1>1 DEF SettingsInv, Inv, TypeOK
    <3>2. RestoreFields \subseteq Field
      BY DEF Field
    <3> QED BY <3>1, <3>2, FieldsAreNoSections DEF IsTree
  <2>7. Leaves(intent[p]) \cap RestoreFields = {}
    BY <2>5, <2>6 DEF Leaves
  <2> QED BY <2>3, <2>4, <2>7
<1>2. ASSUME SettingsInv, [Next]_vars
      PROVE  [\A p \in Proc :
                Patches(p) /\ request[p].command = "disable" /\ pc'[p] = "succeeded"
                => cluster'.managedFields[CliApply] \cap (RestoreFields \cup {"restore"}) = {}]_vars
  BY <1>1, <1>2
<1> QED BY <1>2, SettingsInvariance, PTL DEF Spec, DisableReleasesRestore

-----------------------------------------------------------------------------
(* Each modifyIntent writes what its command line says.                    *)

\* backup.
LEMMA BackupIntentSets ==
    ASSUME NEW t, IsTree(t), Consistent(t), NEW r \in Request, NEW time \in Times
    PROVE  /\ BackupIntent(t, r, time).fields["backupAnnotation"] = time
           /\ BackupIntent(t, r, time).fields["manual.options"] = r.options
           /\ BackupIntent(t, r, time).fields["manual.repoName"] = r.repoName
<1> DEFINE t1 == MergeAnnotation(t, "backupAnnotation", time)
           t2 == SetOrRemove(t1, "manual.options", r.options)
           t3 == SetOrRemove(t2, "manual.repoName", r.repoName)
           t4 == RemoveEmptyField(t3, "manual")
<1>0. /\ {"backupAnnotation", "manual.options", "manual.repoName"} \subseteq Field
      /\ r.options \in ValueOf["manual.options"] \cup {Absent}
      /\ r.repoName \in ValueOf["manual.repoName"] \cup {Absent}
      /\ time \in ValueOf["backupAnnotation"]
      /\ "backupAnnotation" \in Annotations
  BY ValuesOfFields, SettingsAreFields, CliFieldsAreFields DEF Request, Annotations
<1>1. IsTree(t1) /\ Consistent(t1) /\ t1.fields["backupAnnotation"] = time
  BY <1>0, MergeAnnotationProperties, MergeAnnotationConsistent
<1>2. /\ IsTree(t2) /\ Consistent(t2)
      /\ \A f \in Field : t2.fields[f] = IF f = "manual.options" THEN r.options
                                         ELSE t1.fields[f]
  <2> HIDE DEF t1
  <2> QED BY <1>0, <1>1, SetOrRemoveProperties, SetOrRemoveConsistent
<1>3. /\ IsTree(t3) /\ Consistent(t3)
      /\ \A f \in Field : t3.fields[f] = IF f = "manual.repoName" THEN r.repoName
                                         ELSE t2.fields[f]
  <2> HIDE DEF t2
  <2> QED BY <1>0, <1>2, SetOrRemoveProperties, SetOrRemoveConsistent
<1>4. IsTree(t4) /\ Consistent(t4) /\ \A f \in Field : t4.fields[f] = t3.fields[f]
  <2> HIDE DEF t3
  <2> QED BY <1>3, RemoveEmptyFieldKeeps DEF Section
<1>5. \A f \in Field : RemoveEmptySections(t4).fields[f] = t4.fields[f]
  <2> HIDE DEF t4
  <2> QED BY <1>4, RemoveEmptySectionsKeeps
<1>6. BackupIntent(t, r, time) = RemoveEmptySections(t4)
  BY DEF BackupIntent, RemoveEmptyManualSections
<1> HIDE DEF t1, t2, t3, t4
<1> QED BY <1>0, <1>1, <1>2, <1>3, <1>4, <1>5, <1>6

\* restore.
LEMMA RestoreIntentSets ==
    ASSUME NEW t, IsTree(t), Consistent(t), NEW r \in Request, NEW time \in Times
    PROVE  /\ RestoreIntent(t, r, time).fields["restoreAnnotation"] = time
           /\ RestoreIntent(t, r, time).fields["restore.enabled"] = "true"
           /\ RestoreIntent(t, r, time).fields["restore.options"] = r.options
           /\ RestoreIntent(t, r, time).fields["restore.repoName"] = r.repoName
<1> DEFINE t1 == MergeAnnotation(t, "restoreAnnotation", time)
           t2 == SetNestedField(t1, "restore.enabled", "true")
           t3 == SetOrRemove(t2, "restore.options", r.options)
           t4 == SetOrRemove(t3, "restore.repoName", r.repoName)
<1>0. /\ {"restoreAnnotation", "restore.enabled", "restore.options", "restore.repoName"}
             \subseteq Field
      /\ "true" \in ValueOf["restore.enabled"] \cup {Absent}
      /\ r.options \in ValueOf["restore.options"] \cup {Absent}
      /\ r.repoName \in ValueOf["restore.repoName"] \cup {Absent}
      /\ time \in ValueOf["restoreAnnotation"]
      /\ "restoreAnnotation" \in Annotations
  BY ValuesOfFields, SettingsAreFields, CliFieldsAreFields DEF Request, Annotations
<1>1. IsTree(t1) /\ t1.fields["restoreAnnotation"] = time
  BY <1>0, MergeAnnotationProperties
<1>2. /\ IsTree(t2)
      /\ \A f \in Field : t2.fields[f] = IF f = "restore.enabled" THEN "true"
                                         ELSE t1.fields[f]
  <2> HIDE DEF t1
  <2> QED BY <1>0, <1>1, SetNestedFieldProperties
<1>3. /\ IsTree(t3)
      /\ \A f \in Field : t3.fields[f] = IF f = "restore.options" THEN r.options
                                         ELSE t2.fields[f]
  <2> HIDE DEF t2
  <2> QED BY <1>0, <1>2, SetOrRemoveProperties
<1>4. /\ IsTree(t4)
      /\ \A f \in Field : t4.fields[f] = IF f = "restore.repoName" THEN r.repoName
                                         ELSE t3.fields[f]
  <2> HIDE DEF t3
  <2> QED BY <1>0, <1>3, SetOrRemoveProperties
<1>5. RestoreIntent(t, r, time) = t4
  BY DEF RestoreIntent
<1> HIDE DEF t1, t2, t3, t4
<1> QED BY <1>0, <1>1, <1>2, <1>3, <1>4, <1>5

Patching == {"backup", "restore", "disable", "start", "stop"}

\* All of them, on the settings they are about.
LEMMA ModifyIntentSets ==
    ASSUME NEW t, IsTree(t), Consistent(t), NEW r \in Request, r.command \in Patching,
           NEW time \in Times, NEW f \in Touches(r)
    PROVE  ModifyIntent(t, r, time).fields[f] = Wanted(r, time, f)
<1>1. CASE r.command = "backup"
  BY <1>1, BackupIntentSets DEF ModifyIntent, Touches, Wanted, Annotations, ManualFields
<1>2. CASE r.command = "restore"
  BY <1>2, RestoreIntentSets DEF ModifyIntent, Touches, Wanted, Annotations, RestoreFields
<1>3. CASE r.command = "disable"
  <2>1. f \in RestoreFields /\ f \in Field
    BY <1>3 DEF Touches, Field
  <2> QED BY <1>3, <2>1, DisableIntentTouches DEF ModifyIntent, Wanted
<1>4. CASE r.command \in {"start", "stop"}
  <2>1. f = "shutdown"
    BY <1>4 DEF Touches
  <2>2. ShutdownValue(r) \in ValueOf["shutdown"] \cup {Absent} /\ "shutdown" \in Field
    BY ValuesOfFields, SettingsAreFields, CliFieldsAreFields DEF ShutdownValue
  <2>3. ModifyIntent(t, r, time).fields[f] = ShutdownValue(r)
    BY <1>4, <2>1, <2>2, SetNestedFieldProperties DEF ModifyIntent, ShutdownIntent
  <2> QED BY <1>4, <2>1, <2>3 DEF ShutdownValue, Wanted, Annotations
<1> QED BY <1>1, <1>2, <1>3, <1>4 DEF Patching

\* Each annotation gets the time and nothing else depends on it.
LEMMA WantedStamp ==
    ASSUME NEW r \in Request, r.command \in Patching, NEW f \in Touches(r)
    PROVE  \A time, other :
             Wanted(r, time, f) = IF f \in Annotations THEN time ELSE Wanted(r, other, f)
BY DEF Wanted, Touches, Annotations, RestoreFields, Patching

\* What commands touch are settings.
LEMMA TouchesSettings ==
    ASSUME NEW r \in Request, r.command \in Patching PROVE Touches(r) \subseteq CliFields
BY DEF Touches, Patching, CliFields, Annotations

-----------------------------------------------------------------------------
(* Patches are tailored to their command lines.                            *)

\* p's patch says what p's command line asks for, with a time that has been.
Tailored(p) ==
    \E time \in 0..now : \A f \in Touches(request[p]) :
        intent[p].fields[f] = Wanted(request[p], time, f)

\* Only commands that patch get as far as reading the object.
Effective(p) ==
    /\ pc[p] \in {"get", "dryrun", "patch"} => request[p].command \in Patching
    /\ Built(p) => Tailored(p)

EffectsInv == SettingsInv /\ \A p \in Proc : Effective(p)

\* The clock is a number and does not go back.
LEMMA ClockGrows ==
    ASSUME SettingsInv, [Next]_vars
    PROVE  now \in Nat /\ now' \in Nat /\ now <= now'
<1>1. Inv /\ Inv'
  BY SettingsNext DEF SettingsInv
<1>2. now \in Nat /\ now' \in Nat
  BY <1>1, TimesAssumption DEF Inv, TypeOK
<1>3. now' = now \/ now' = now + 1
  <2>1. ASSUME NEW p \in Proc, Step(p) PROVE now' = now
    BY <2>1 DEF Step, Get, DryRun, Patch, Create, Delete
  <2>2. Users => now' = now
    BY DEF Users, Invoke, Confirm, Kill
  <2>3. Others => now' = now \/ now' = now + 1
    BY DEF Others, Tick, OtherUpdate, OtherApply, OtherCreate, OtherDelete, OtherWrite
  <2>4. UNCHANGED vars => now' = now
    BY DEF vars
  <2> QED BY <2>1, <2>2, <2>3, <2>4 DEF Next
<1> QED BY <1>2, <1>3

\* A process whose state stays keeps its patch, and the time in it stays past.
LEMMA SameEffective ==
    ASSUME NEW q \in Proc, Effective(q), Same(q),
           now \in Nat, now' \in Nat, now <= now'
    PROVE  Effective(q)'
<1>1. Built(q)' = Built(q) /\ Touches(request'[q]) = Touches(request[q])
  BY DEF Same, Built, Touches
<1>2. Tailored(q) => Tailored(q)'
  <2>1. ASSUME NEW time \in 0..now,
               \A f \in Touches(request[q]) :
                  intent[q].fields[f] = Wanted(request[q], time, f)
        PROVE  Tailored(q)'
    <3>1. time \in 0..now'
      OBVIOUS
    <3>2. \A f \in Touches(request'[q]) :
              intent'[q].fields[f] = Wanted(request'[q], time, f)
      BY <2>1, <1>1 DEF Same
    <3> QED BY <3>1, <3>2 DEF Tailored
  <2> QED BY <2>1 DEF Tailored
<1> QED BY <1>1, <1>2 DEF Effective, Same

\* A process that has ended, or is about to create or delete, or to be asked
\* first, has no patch.
LEMMA IdleEffective ==
    ASSUME NEW q \in Proc,
           \/ pc'[q] \in Ended \cup {"create", "delete"}
           \/ pc'[q] = "get" /\ request'[q].command \in Patching
           \/ pc'[q] = "confirm" /\ request'[q].command # "restore"
    PROVE  Effective(q)'
BY DEF Effective, Built, Ended

\* A process ends; the others go on as they were.
LEMMA EndEffective ==
    ASSUME EffectsInv, [Next]_vars, NEW p \in Proc, NEW how \in Ended, End(p, how)
    PROVE  \A q \in Proc : Effective(q)'
<1>1. pc'[p] \in Ended /\ \A q \in Proc \ {p} : Same(q)
  BY EndSame DEF EffectsInv, SettingsInv
<1>2. now \in Nat /\ now' \in Nat /\ now <= now'
  BY ClockGrows DEF EffectsInv
<1> QED BY <1>1, <1>2, IdleEffective, SameEffective DEF EffectsInv

\* A command is entered.
LEMMA InvokeEffective ==
    ASSUME EffectsInv, [Next]_vars, NEW p \in Proc, NEW r \in Requests, Invoke(p, r)
    PROVE  \A q \in Proc : Effective(q)'
<1>1. pc \in [Proc -> Ended \cup Asking \cup Working] /\ request \in [Proc -> Request]
  BY DEF EffectsInv, SettingsInv, Inv, TypeOK
<1>2. pc'[p] = FirstStep(r) /\ request'[p] = r
  BY <1>1 DEF Invoke
<1>3. Effective(p)'
  BY <1>2, IdleEffective, RequestsAssumption DEF FirstStep, Request, Command, Patching
<1>4. ASSUME NEW q \in Proc \ {p} PROVE Effective(q)'
  <2>1. Same(q)
    BY <1>1 DEF Invoke, Same
  <2>2. now \in Nat /\ now' \in Nat /\ now <= now'
    BY ClockGrows DEF EffectsInv
  <2> QED BY <2>1, <2>2, SameEffective DEF EffectsInv
<1> QED BY <1>3, <1>4

\* The patch that is built is tailored, and the time in it is now.
LEMMA GetEffective ==
    ASSUME EffectsInv, [Next]_vars, NEW p \in Proc, Get(p)
    PROVE  \A q \in Proc : Effective(q)'
<1>0. /\ Inv /\ ObjectOK(cluster) /\ ProcessesOK /\ CountsOK
      /\ now \in Nat /\ now' \in Nat /\ now <= now'
  BY InvParts, ClockGrows DEF EffectsInv, SettingsInv
<1>1. CASE \E how \in Ended : End(p, how)
  BY <1>1, EndEffective
<1>2. CASE /\ intent' = [intent EXCEPT ![p] =
                  ModifyIntent(ExtractFieldsInto(cluster), request[p], now)]
           /\ pc' = [pc EXCEPT ![p] =
                  IF request[p].command = "restore" THEN "dryrun" ELSE "patch"]
           /\ UNCHANGED <<request, preview, now>>
  <2> DEFINE x == ExtractFieldsInto(cluster)
  <2>1. /\ intent'[p] = ModifyIntent(x, request[p], now)
        /\ pc'[p] \in {"dryrun", "patch"}
        /\ \A q \in Proc \ {p} : pc'[q] = pc[q] /\ intent'[q] = intent[q]
    BY <1>0, <1>2 DEF ProcessesOK
  <2>2. IsTree(x) /\ Consistent(x)
    <3>1. IsFields(cluster.live) /\ FindManagedFields(cluster) \subseteq Field
      BY <1>0, CliFieldsAreFields DEF ObjectOK, IsObject, FindManagedFields
    <3> QED BY <3>1, ExtractExactly DEF ExtractFieldsInto
  <2>3. request[p] \in Request /\ request[p].command \in Patching /\ now \in Times
    BY <1>0 DEF ProcessesOK, CountsOK, EffectsInv, Effective, Get
  <2> HIDE DEF x
  <2>4. \A f \in Touches(request[p]) :
            intent'[p].fields[f] = Wanted(request[p], now, f)
    BY <2>1, <2>2, <2>3, ModifyIntentSets
  <2>5. Tailored(p)'
    <3>1. now' \in 0..now' /\ now' = now
      BY <1>0, <1>2
    <3>2. Touches(request'[p]) = Touches(request[p])
      BY <1>2
    <3>3. \A f \in Touches(request'[p]) :
              intent'[p].fields[f] = Wanted(request'[p], now', f)
      BY <1>2, <2>4, <3>1, <3>2
    <3> QED BY <3>1, <3>3 DEF Tailored
  <2>6. Effective(p)'
    BY <1>2, <2>3, <2>5 DEF Effective
  <2>7. ASSUME NEW q \in Proc \ {p} PROVE Effective(q)'
    BY <1>0, <1>2, <2>1, SameEffective DEF Same, EffectsInv
  <2> QED BY <2>6, <2>7
<1> QED BY <1>1, <1>2 DEF Get, Ended

\* A dry run and a question change no patch.
LEMMA AskEffective ==
    ASSUME EffectsInv, [Next]_vars, NEW p \in Proc, DryRun(p) \/ Confirm(p)
    PROVE  \A q \in Proc : Effective(q)'
<1>0. /\ Inv /\ ProcessesOK /\ PcFitsRequest /\ Effective(p)
      /\ now \in Nat /\ now' \in Nat /\ now <= now'
  BY InvParts, ClockGrows DEF EffectsInv, SettingsInv
<1>1. CASE \E how \in Ended : End(p, how)
  BY <1>1, EndEffective
<1>2. CASE /\ \/ pc[p] = "dryrun" /\ pc' = [pc EXCEPT ![p] = "confirm"]
                    /\ \E d : preview' = [preview EXCEPT ![p] = d]
              \/ pc[p] = "confirm" /\ pc' = [pc EXCEPT ![p] = AfterYes(request[p])]
                    /\ UNCHANGED preview
           /\ UNCHANGED <<request, intent, now>>
  <2>1. \A q \in Proc \ {p} : Same(q)
    BY <1>0, <1>2 DEF Same, ProcessesOK
  <2>2. CASE request[p].command = "restore"
    <3>1. Built(p) /\ Tailored(p)
      BY <1>0, <1>2, <2>2 DEF Built, Effective
    <3>2. Touches(request'[p]) = Touches(request[p])
      BY <1>2
    <3>3. PICK time \in 0..now : \A f \in Touches(request[p]) :
              intent[p].fields[f] = Wanted(request[p], time, f)
      BY <3>1 DEF Tailored
    <3>4. \A f \in Touches(request'[p]) :
              intent'[p].fields[f] = Wanted(request'[p], time, f)
      BY <1>2, <3>2, <3>3
    <3>5. Tailored(p)'
      BY <1>2, <3>3, <3>4 DEF Tailored
    <3>6. Effective(p)'
      BY <1>2, <2>2, <3>5 DEF Effective, Patching
    <3> QED BY <1>0, <2>1, <3>6, SameEffective DEF EffectsInv
  <2>3. CASE request[p].command # "restore"
    <3>1. NeedsYes(request[p]) /\ pc'[p] = AfterYes(request[p])
      BY <1>0, <1>2, <2>3 DEF PcFitsRequest, ProcessesOK
    <3>2. Effective(p)'
      BY <1>2, <2>3, <3>1, IdleEffective DEF NeedsYes, AfterYes, Patching
    <3> QED BY <1>0, <2>1, <3>2, SameEffective DEF EffectsInv
  <2> QED BY <2>2, <2>3
<1> QED BY <1>1, <1>2, RefusedIsEnd DEF DryRun, Confirm, Ended

\* EffectsInv is inductive.
LEMMA EffectsNext ==
    ASSUME EffectsInv, [Next]_vars PROVE EffectsInv'
<1>1. SettingsInv'
  BY SettingsNext DEF EffectsInv
<1>2. now \in Nat /\ now' \in Nat /\ now <= now'
  BY ClockGrows DEF EffectsInv
<1>3. ASSUME NEW p \in Proc, Step(p) PROVE \A q \in Proc : Effective(q)'
  <2>1. CASE Get(p)
    BY <2>1, GetEffective
  <2>2. CASE DryRun(p)
    BY <2>2, AskEffective
  <2>3. CASE Patch(p) \/ Create(p) \/ Delete(p)
    <3>1. \E how \in Ended : End(p, how)
      BY <2>3, RefusedIsEnd DEF Patch, Create, Delete, Ended
    <3> QED BY <3>1, EndEffective
  <2> QED BY <1>3, <2>1, <2>2, <2>3 DEF Step
<1>4. ASSUME Users PROVE \A q \in Proc : Effective(q)'
  <2>1. ASSUME NEW p \in Proc, Kill(p) PROVE \A q \in Proc : Effective(q)'
    BY <2>1, EndEffective DEF Kill, Ended
  <2> QED BY <1>4, <2>1, InvokeEffective, AskEffective DEF Users
<1>5. ASSUME Others \/ UNCHANGED vars PROVE \A q \in Proc : Effective(q)'
  <2>1. UNCHANGED <<pc, request, intent, preview>>
    BY <1>5 DEF Others, Tick, OtherUpdate, OtherApply, OtherCreate, OtherDelete,
                OtherWrite, vars
  <2>2. \A q \in Proc : Same(q)
    BY <2>1 DEF Same
  <2> QED BY <1>2, <2>2, SameEffective DEF EffectsInv
<1> QED BY <1>1, <1>3, <1>4, <1>5 DEF Next, EffectsInv

\* EffectsInv is an invariant for all values of the constants.
THEOREM EffectsInvariance == Spec => []EffectsInv
<1>1. Init => EffectsInv
  <2> SUFFICES ASSUME Init PROVE EffectsInv
    OBVIOUS
  <2>1. \A p \in Proc : Effective(p)
    BY DEF Init, Effective, Built
  <2> QED BY <2>1, SettingsInit DEF EffectsInv
<1> QED BY <1>1, EffectsNext, PTL DEF Spec

-----------------------------------------------------------------------------
(* What a patch achieves.                                                  *)

\* A tree with nothing empty owns the fields it gives a value.
LEMMA CleanOwns ==
    ASSUME NEW t, IsTree(t), Leaves(t) \subseteq CliFields
    PROVE  /\ t.empty = {}
           /\ Leaves(t) = {f \in Field : t.fields[f] # Absent}
           /\ \A f \in Field \ CliFields : t.fields[f] = Absent
BY CleanLeaves DEF Clean, Leaves

\* However old its patch and whatever happened since, a command that succeeds
\* has done what its command line says.
THEOREM TakesEffect == Spec => CommandTakesEffect
<1>1. ASSUME EffectsInv, [Next]_vars, NEW p \in Proc, Patches(p), pc'[p] = "succeeded"
      PROVE  \E time \in 0..now : \A f \in Touches(request[p]) :
                LET v == Wanted(request[p], time, f)
                IN  /\ f \in cluster'.managedFields[CliApply] <=> v # Absent
                    /\ v # Absent => cluster'.live[f] = v
  <2>1. cluster' = Apply(cluster, CliApply, intent[p])
    BY <1>1, PatchSucceeds DEF EffectsInv
  <2>2. /\ IsTree(intent[p]) /\ Leaves(intent[p]) \subseteq CliFields
        /\ request[p] \in Request
    BY <1>1, InvParts DEF EffectsInv, SettingsInv, ProcessesOK
  <2>3. Leaves(intent[p]) = {f \in Field : intent[p].fields[f] # Absent}
    BY <2>2, CleanOwns
  <2>4. Touches(request[p]) \subseteq Field /\ Tailored(p)
    <3>1. request[p].command \in Patching /\ Built(p)
      BY <1>1 DEF EffectsInv, Effective, Patches, Built
    <3> QED BY <1>1, <2>2, <3>1, TouchesSettings, CliFieldsAreFields DEF EffectsInv, Effective
  <2>5. PICK time \in 0..now : \A f \in Touches(request[p]) :
            intent[p].fields[f] = Wanted(request[p], time, f)
    BY <2>4 DEF Tailored
  <2>6. cluster'.managedFields[CliApply] = Leaves(intent[p])
    BY <2>1, Entries DEF Apply
  <2>7. \A f \in Field : intent[p].fields[f] # Absent
                            => cluster'.live[f] = intent[p].fields[f]
    BY <2>1 DEF Apply
  <2> QED BY <2>3, <2>4, <2>5, <2>6, <2>7
<1>2. ASSUME EffectsInv, [Next]_vars
      PROVE  [\A p \in Proc : Patches(p) /\ pc'[p] = "succeeded" =>
                \E time \in 0..now : \A f \in Touches(request[p]) :
                    LET v == Wanted(request[p], time, f)
                    IN  /\ f \in cluster'.managedFields[CliApply] <=> v # Absent
                        /\ v # Absent => cluster'.live[f] = v]_vars
  BY <1>1, <1>2
<1> QED BY <1>2, EffectsInvariance, PTL DEF Spec, CommandTakesEffect

\* No patch, however stale and even with --force-conflicts, changes a field of
\* the cluster's manifest or who owns it.
ManifestUntouched ==
    [][\A p \in Proc : Patches(p) =>
        /\ \A f \in Field \ CliFields : cluster'.live[f] = cluster.live[f]
        /\ \A e \in Entry : cluster'.managedFields[e] \ CliFields
                               = cluster.managedFields[e] \ CliFields]_vars

\* An apply of settings leaves the rest of the object to its owners.
LEMMA SettingsApplyKeeps ==
    ASSUME NEW o, ObjectOK(o), NEW t, IsTree(t), Leaves(t) \subseteq CliFields
    PROVE  /\ \A f \in Field \ CliFields : Apply(o, CliApply, t).live[f] = o.live[f]
           /\ \A e \in Entry : Apply(o, CliApply, t).managedFields[e] \ CliFields
                                  = o.managedFields[e] \ CliFields
<1>1. /\ \A f \in Field \ CliFields : t.fields[f] = Absent
      /\ o.managedFields[CliApply] \subseteq CliFields
  BY CleanOwns DEF ObjectOK
<1>2. Dropped(o, CliApply, t) \subseteq CliFields /\ Conflicts(o, CliApply, t) \subseteq CliFields
  BY <1>1 DEF Dropped, Conflicts, Changes
<1>3. \A f \in Field \ CliFields : Apply(o, CliApply, t).live[f] = o.live[f]
  BY <1>1, <1>2 DEF Apply
<1>4. ASSUME NEW e \in Entry
      PROVE  Apply(o, CliApply, t).managedFields[e] \ CliFields
               = o.managedFields[e] \ CliFields
  <2>1. CASE e = CliApply
    BY <1>1, <2>1 DEF Apply
  <2>2. CASE e # CliApply
    BY <1>2, <2>2 DEF Apply
  <2> QED BY <2>1, <2>2
<1> QED BY <1>3, <1>4

\* The manifest of a cluster is safe from the commands that patch.
THEOREM ManifestIsSafe == Spec => ManifestUntouched
<1>1. ASSUME EffectsInv, [Next]_vars, NEW p \in Proc, Patches(p)
      PROVE  /\ \A f \in Field \ CliFields : cluster'.live[f] = cluster.live[f]
             /\ \A e \in Entry : cluster'.managedFields[e] \ CliFields
                                    = cluster.managedFields[e] \ CliFields
  <2>1. CASE cluster' = cluster
    BY <2>1
  <2>2. CASE cluster' # cluster
    <3>1. cluster' = Apply(cluster, CliApply, intent[p])
      BY <1>1, <2>2, PatchAnswered DEF EffectsInv
    <3>2. ObjectOK(cluster) /\ IsTree(intent[p]) /\ Leaves(intent[p]) \subseteq CliFields
      BY <1>1, InvParts DEF EffectsInv, SettingsInv, ProcessesOK
    <3> QED BY <3>1, <3>2, SettingsApplyKeeps
  <2> QED BY <2>1, <2>2
<1>2. ASSUME EffectsInv, [Next]_vars
      PROVE  [\A p \in Proc : Patches(p) =>
                /\ \A f \in Field \ CliFields : cluster'.live[f] = cluster.live[f]
                /\ \A e \in Entry : cluster'.managedFields[e] \ CliFields
                                       = cluster.managedFields[e] \ CliFields]_vars
  BY <1>1, <1>2
<1> QED BY <1>2, EffectsInvariance, PTL DEF Spec, ManifestUntouched

-----------------------------------------------------------------------------
(* Running a command again.                                                *)

\* The fields a command stamps with the time.
Stamp(r) == Annotations \cap Touches(r)

\* What the CLI finds of its own after its patch is the patch.
LEMMA ExtractsWhatItApplied ==
    ASSUME NEW o, ObjectOK(o), NEW t, IsTree(t), Leaves(t) \subseteq CliFields
    PROVE  LET x == ExtractFieldsInto(Apply(o, CliApply, t))
           IN  /\ IsTree(x) /\ Consistent(x) /\ Leaves(x) \subseteq CliFields
               /\ \A f \in Field : x.fields[f] = t.fields[f]
<1> DEFINE once == Apply(o, CliApply, t)
<1>1. ObjectOK(once)
  BY CliApplyOK
<1>2. once.managedFields[CliApply] = {f \in Field : t.fields[f] # Absent}
  BY Entries, CleanOwns DEF Apply
<1>3. \A f \in Field : t.fields[f] # Absent => once.live[f] = t.fields[f]
  BY DEF Apply
<1> HIDE DEF once
<1>4. IsFields(once.live) /\ once.managedFields[CliApply] \subseteq CliFields \cap Field
  BY <1>1, CliFieldsAreFields DEF ObjectOK, IsObject
<1>5. LET x == ExtractFieldsInto(once)
      IN  /\ IsTree(x) /\ Consistent(x) /\ Leaves(x) \subseteq CliFields
          /\ \A f \in Field : x.fields[f]
                = IF f \in once.managedFields[CliApply] THEN once.live[f] ELSE Absent
  BY <1>4, ExtractExactly DEF ExtractFieldsInto, FindManagedFields
<1>6. \A f \in Field : ExtractFieldsInto(once).fields[f] = t.fields[f]
  BY <1>2, <1>3, <1>5
<1> QED BY <1>5, <1>6 DEF once

\* The patch of the second run is that of the first with a new stamp.
LEMMA RepeatedPatch ==
    ASSUME EffectsInv, NEW p \in Proc, Built(p), request[p].command \in Patching,
           NEW time \in Times
    PROVE  /\ IsTree(Repeated(p, time)) /\ Leaves(Repeated(p, time)) \subseteq CliFields
           /\ \A f \in Field : Repeated(p, time).fields[f]
                 = IF f \in Stamp(request[p]) THEN time ELSE intent[p].fields[f]
           /\ \A f \in Stamp(request[p]) : intent[p].fields[f] # Absent
<1> DEFINE x == ExtractFieldsInto(Patched(p))
           r == request[p]
<1>0. /\ ObjectOK(cluster) /\ IsTree(intent[p]) /\ Leaves(intent[p]) \subseteq CliFields
      /\ r \in Request /\ now \in Times
  BY InvParts DEF EffectsInv, SettingsInv, ProcessesOK, CountsOK
<1>1. /\ IsTree(x) /\ Consistent(x) /\ Leaves(x) \subseteq CliFields
      /\ \A f \in Field : x.fields[f] = intent[p].fields[f]
  BY <1>0, ExtractsWhatItApplied DEF Patched
<1>2. PICK first \in 0..now : \A f \in Touches(r) : intent[p].fields[f] = Wanted(r, first, f)
  BY DEF EffectsInv, Effective, Tailored
<1>3. Repeated(p, time) = ModifyIntent(x, r, time)
  BY DEF Repeated
<1> HIDE DEF x
<1>4. IsTree(Repeated(p, time)) /\ Leaves(Repeated(p, time)) \subseteq CliFields
  BY <1>0, <1>1, <1>3, ModifyIntentClean
<1>5. ASSUME NEW f \in Field
      PROVE  Repeated(p, time).fields[f]
               = IF f \in Stamp(r) THEN time ELSE intent[p].fields[f]
  <2>1. CASE f \in Touches(r)
    <3>1. Repeated(p, time).fields[f] = Wanted(r, time, f)
      BY <1>0, <1>1, <1>3, <2>1, ModifyIntentSets
    <3>2. Wanted(r, time, f) = IF f \in Annotations THEN time ELSE Wanted(r, first, f)
      BY <1>0, <2>1, WantedStamp
    <3> QED BY <1>2, <2>1, <3>1, <3>2 DEF Stamp
  <2>2. CASE f \notin Touches(r)
    BY <1>0, <1>1, <1>3, <2>2, ModifyIntentTouches DEF Stamp
  <2> QED BY <2>1, <2>2
<1>6. ASSUME NEW f \in Stamp(r) PROVE intent[p].fields[f] # Absent
  <2>1. f \in Touches(r) /\ f \in Annotations
    BY DEF Stamp
  <2>2. Wanted(r, first, f) = first
    BY <1>0, <2>1, WantedStamp
  <2>3. first \in Times
    BY <1>0, TimesAssumption
  <2>4. Absent \notin Times
    BY <2>1, AbsentAssumption, ValuesOfFields, SettingsAreFields, CliFieldsAreFields
  <2> QED BY <1>2, <2>1, <2>2, <2>3, <2>4
<1> QED BY <1>4, <1>5, <1>6

\* A retry is another trigger and nothing else, and within the second not
\* even that: RetryChangesNothing for all values of the constants.
THEOREM RetryIsHarmless == Spec => []RetryChangesNothing
<1>1. ASSUME EffectsInv, NEW p \in Proc, pc[p] = "patch", Answer(p) = "ok", NEW time \in Times
      PROVE  LET stamp == Annotations \cap Touches(request[p])
                 once  == Patched(p)
                 twice == Apply(once, CliApply, Repeated(p, time))
             IN  /\ \A f \in Field :
                        twice.live[f] = IF f \in stamp THEN time ELSE once.live[f]
                 /\ \A e \in Entry : twice.managedFields[e] \ stamp
                                          = once.managedFields[e] \ stamp
                 /\ (\A f \in stamp : once.live[f] = time) =>
                        /\ twice = once
                        /\ ApplyAnswer(once, CliApply, Repeated(p, time), FALSE) = "ok"
  <2> DEFINE stamp == Stamp(request[p])
             once == Patched(p)
             again == Repeated(p, time)
             twice == Apply(once, CliApply, again)
  <2>1. /\ ObjectOK(cluster) /\ IsTree(intent[p]) /\ Leaves(intent[p]) \subseteq CliFields
        /\ Built(p) /\ request[p].command \in Patching
    BY <1>1, InvParts DEF EffectsInv, SettingsInv, ProcessesOK, Built, Effective
  <2>2. stamp \subseteq Field /\ time # Absent
    <3>1. Annotations \subseteq Field
      BY SettingsAreFields, CliFieldsAreFields
    <3>2. Absent \notin Times
      BY <3>1, AbsentAssumption, ValuesOfFields, SettingsAreFields
    <3> QED BY <3>1, <3>2 DEF Stamp
  <2>3. /\ IsTree(again) /\ Leaves(again) \subseteq CliFields
        /\ \A f \in Field : again.fields[f] = IF f \in stamp THEN time ELSE intent[p].fields[f]
        /\ \A f \in stamp : intent[p].fields[f] # Absent
    BY <1>1, <2>1, RepeatedPatch
  <2>4. /\ once = Apply(cluster, CliApply, intent[p])
        /\ once.live = [f \in Field |-> once.live[f]]
        /\ once.managedFields = [e \in Entry |-> once.managedFields[e]]
        /\ once = [live |-> once.live, managedFields |-> once.managedFields]
    BY DEF Patched, Apply
  <2>5. /\ twice = [live |-> twice.live, managedFields |-> twice.managedFields]
        /\ twice.live = [f \in Field |-> twice.live[f]]
        /\ twice.managedFields = [e \in Entry |-> twice.managedFields[e]]
    <3> HIDE DEF once, again
    <3> QED BY DEF Apply
  <2>6. /\ Changes(once, again) \subseteq {f \in stamp : once.live[f] # time}
        /\ \A f \in Field : twice.live[f] = IF f \in stamp THEN time ELSE once.live[f]
        /\ \A e \in Entry : twice.managedFields[e]
              = IF e = CliApply THEN once.managedFields[e]
                ELSE once.managedFields[e] \ Conflicts(once, CliApply, again)
    <3> DEFINE t == intent[p]
    <3>0. twice = Apply(once, CliApply, again)
      OBVIOUS
    <3>1. /\ once.managedFields[CliApply] = {f \in Field : t.fields[f] # Absent}
          /\ \A f \in Field : t.fields[f] # Absent => once.live[f] = t.fields[f]
      BY <2>1, <2>4, Entries, CleanOwns DEF Apply
    <3> HIDE DEF once, twice, again, stamp, t
    <3>2. \A f \in Field : again.fields[f] = Absent <=> t.fields[f] = Absent
      BY <2>2, <2>3 DEF t
    <3>3. Changes(once, again) \subseteq {f \in stamp : once.live[f] # time}
      BY <2>3, <3>1 DEF Changes, t
    <3>4. Leaves(again) = once.managedFields[CliApply]
      BY <2>3, <3>1, <3>2, CleanOwns
    <3>5. Dropped(once, CliApply, again) = {}
      BY <3>1, <3>2 DEF Dropped
    <3>6. \A f \in Field : twice.live[f] = IF f \in stamp THEN time ELSE once.live[f]
      BY <2>2, <2>3, <3>0, <3>1, <3>5 DEF Apply, t
    <3>7. \A e \in Entry : twice.managedFields[e]
            = IF e = CliApply THEN once.managedFields[e]
              ELSE once.managedFields[e] \ Conflicts(once, CliApply, again)
      BY <3>0, <3>4 DEF Apply
    <3> QED BY <3>3, <3>6, <3>7
  <2>7. Valid(once)
    BY <1>1 DEF Answer, ApplyAnswer, Patched
  <2> HIDE DEF once, again, twice
  <2>8. Conflicts(once, CliApply, again) \subseteq Changes(once, again)
    BY DEF Conflicts
  <2>9. \A e \in Entry : twice.managedFields[e] \ stamp = once.managedFields[e] \ stamp
    BY <2>6, <2>8
  <2>10. ASSUME \A f \in stamp : once.live[f] = time
         PROVE  twice = once /\ ApplyAnswer(once, CliApply, again, FALSE) = "ok"
    <3>1. Conflicts(once, CliApply, again) = {}
      BY <2>6, <2>8, <2>10
    <3>2. twice.live = once.live
      BY <2>4, <2>5, <2>6, <2>10
    <3>3. twice.managedFields = once.managedFields
      BY <2>4, <2>5, <2>6, <3>1
    <3>4. twice = once
      BY <2>4, <2>5, <3>2, <3>3
    <3> QED BY <2>7, <3>1, <3>4 DEF ApplyAnswer, twice
  <2> QED BY <2>6, <2>9, <2>10 DEF once, again, twice, Stamp
<1>2. EffectsInv => RetryChangesNothing
  BY <1>1 DEF RetryChangesNothing
<1> QED BY <1>2, EffectsInvariance, PTL
=============================================================================
