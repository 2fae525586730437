-------------------------- MODULE PgoCommandsProofs -------------------------
(***************************************************************************)
(* Proofs about PgoCommands, for every set of processes, of requests, of   *)
(* foreign edits and of managers.  Type correctness and the claim that the *)
(* CLI's managedFields entry names nothing but settings are inductive      *)
(* together: the patch that is sent is built from the fields that are      *)
(* owned, and what it names is what will be owned.  The lemmas about trees *)
(* come first.                                                             *)
(***************************************************************************)
EXTENDS PgoCommands, TLAPS

-----------------------------------------------------------------------------
(* What the operators of Unstructured preserve: the type of a tree, and    *)
(* which sections they may leave empty.                                    *)

\* The values of the fields that commands write.
LEMMA ValuesOfFields ==
    /\ \A f \in Annotations : ValueOf[f] = Times
    /\ ValueOf["manual.repoName"] = Repos
    /\ ValueOf["restore.repoName"] = Repos
    /\ ValueOf["manual.options"] = OptionLists
    /\ ValueOf["restore.options"] = OptionLists
    /\ ValueOf["shutdown"] = {"true", "false"}
    /\ ValueOf["restore.enabled"] = {"true", "false"}
    /\ ValueOf["instances"] = {"present"}
    /\ ValueOf["repos"] = {"present"}
BY DEF ValueOf, Field, Annotations, ManualFields, RestoreFields

\* The shape of the tree, spelled out.
LEMMA UnderSections ==
    /\ Under["manual"] = ManualFields
    /\ Under["restore"] = RestoreFields
    /\ Under["pgbackrest"] = ManualFields \cup RestoreFields \cup {"manual", "restore", "repos"}
    /\ Under["backups"] = Under["pgbackrest"] \cup {"pgbackrest"}
    /\ Under["spec"] = Under["backups"] \cup {"backups", "shutdown", "instances"}
BY DEF Under, Section

\* Each section is held by the one above it.
LEMMA Holders ==
    /\ Holder("manual.options") = {"manual"}
    /\ Holder("manual.repoName") = {"manual"}
    /\ Holder("restore.options") = {"restore"}
    /\ Holder("restore.repoName") = {"restore"}
    /\ Holder("manual") = {"pgbackrest"}
    /\ Holder("restore") = {"pgbackrest"}
    /\ Holder("pgbackrest") = {"backups"}
    /\ Holder("backups") = {"spec"}
    /\ Holder("spec") = {}
BY UnderSections DEF Holder, Above, Section, ManualFields, RestoreFields

\* Setting a field keeps the type, empties nothing and adds one leaf.
LEMMA SetNestedFieldProperties ==
    ASSUME NEW t, IsTree(t), NEW f \in Field, NEW v \in ValueOf[f] \cup {Absent}
    PROVE  /\ IsTree(SetNestedField(t, f, v))
           /\ SetNestedField(t, f, v).empty \subseteq t.empty
           /\ \A g \in Field : SetNestedField(t, f, v).fields[g]
                                 = IF g = f THEN v ELSE t.fields[g]
BY DEF SetNestedField, IsTree, IsFields

\* The same of an annotation.
LEMMA MergeAnnotationProperties ==
    ASSUME NEW t, IsTree(t), NEW key \in Field, NEW v \in ValueOf[key]
    PROVE  /\ IsTree(MergeAnnotation(t, key, v))
           /\ MergeAnnotation(t, key, v).empty = t.empty
           /\ \A g \in Field : MergeAnnotation(t, key, v).fields[g]
                                 = IF g = key THEN v ELSE t.fields[g]
BY DEF MergeAnnotation, IsTree, IsFields

\* Removing a path keeps the type, adds no field, and may leave empty only the
\* section that held the path.
LEMMA RemoveNestedFieldProperties ==
    ASSUME NEW t, IsTree(t), NEW p \in Path
    PROVE  /\ IsTree(RemoveNestedField(t, p))
           /\ RemoveNestedField(t, p).empty
                \subseteq (t.empty \ Subtree(p)) \cup Holder(p)
           /\ \A g \in Field : RemoveNestedField(t, p).fields[g]
                                 = IF g \in Subtree(p) THEN Absent ELSE t.fields[g]
<1>1. Holder(p) \subseteq Section
  BY DEF Holder, Above
<1>2. CASE Present(t, p)
  BY <1>1, <1>2 DEF RemoveNestedField, IsTree, IsFields
<1>3. CASE ~Present(t, p)
  <2>1. RemoveNestedField(t, p) = t
    BY <1>3 DEF RemoveNestedField
  <2>2. t.empty = t.empty \ Subtree(p)
    BY <1>3 DEF Present, Leaves
  <2>3. \A g \in Field \cap Subtree(p) : t.fields[g] = Absent
    BY <1>3 DEF Present, Leaves
  <2> QED BY <2>1, <2>2, <2>3
<1> QED BY <1>2, <1>3

\* A section that keeps a field is not left empty.
LEMMA RemoveNestedFieldKeepsHolder ==
    ASSUME NEW t, IsTree(t), NEW p \in Path, NEW g \in Field,
           g \notin Subtree(p), t.fields[g] # Absent,
           \A s \in Holder(p) : g \in Under[s]
    PROVE  RemoveNestedField(t, p).empty \subseteq t.empty
BY DEF RemoveNestedField, IsTree, IsFields

\* Removing an empty section moves the question to the section that held it.
LEMMA RemoveEmptyFieldProperties ==
    ASSUME NEW t, IsTree(t), NEW s \in Section
    PROVE  /\ IsTree(RemoveEmptyField(t, s))
           /\ t.empty \subseteq {s} => RemoveEmptyField(t, s).empty \subseteq Holder(s)
           /\ \A g \in Field :
                RemoveEmptyField(t, s).fields[g] \in {t.fields[g], Absent}
BY RemoveNestedFieldProperties DEF RemoveEmptyField, Subtree, Path

\* RemoveEmptySections leaves nothing empty when at most the deepest of its
\* sections was.
LEMMA RemoveEmptySectionsProperties ==
    ASSUME NEW t, IsTree(t)
    PROVE  /\ IsTree(RemoveEmptySections(t))
           /\ t.empty \subseteq {"pgbackrest"} => RemoveEmptySections(t).empty = {}
           /\ \A g \in Field :
                RemoveEmptySections(t).fields[g] \in {t.fields[g], Absent}
<1> DEFINE t1 == RemoveEmptyField(t, "pgbackrest")
           t2 == RemoveEmptyField(t1, "backups")
           t3 == RemoveEmptyField(t2, "spec")
<1>1. /\ IsTree(t1)
      /\ t.empty \subseteq {"pgbackrest"} => t1.empty \subseteq {"backups"}
      /\ \A g \in Field : t1.fields[g] \in {t.fields[g], Absent}
  BY RemoveEmptyFieldProperties, Holders DEF Section
<1>2. /\ IsTree(t2)
      /\ t1.empty \subseteq {"backups"} => t2.empty \subseteq {"spec"}
      /\ \A g \in Field : t2.fields[g] \in {t1.fields[g], Absent}
  BY <1>1, RemoveEmptyFieldProperties, Holders DEF Section
<1>3. /\ IsTree(t3)
      /\ t2.empty \subseteq {"spec"} => t3.empty \subseteq {}
      /\ \A g \in Field : t3.fields[g] \in {t2.fields[g], Absent}
  BY <1>2, RemoveEmptyFieldProperties, Holders DEF Section
<1>4. RemoveEmptySections(t) = t3
  BY DEF RemoveEmptySections
<1> HIDE DEF t1, t2, t3
<1> QED BY <1>1, <1>2, <1>3, <1>4

\* A flag given or not.
LEMMA SetOrRemoveProperties ==
    ASSUME NEW t, IsTree(t), NEW f \in Field, NEW v \in ValueOf[f] \cup {Absent}
    PROVE  /\ IsTree(SetOrRemove(t, f, v))
           /\ SetOrRemove(t, f, v).empty \subseteq t.empty \cup Holder(f)
           /\ \A g \in Field : SetOrRemove(t, f, v).fields[g]
                                 = IF g = f THEN v ELSE t.fields[g]
<1>1. Subtree(f) = {f}
  BY DEF Subtree, Field, Section, Annotations, ManualFields, RestoreFields
<1>2. f \in Path
  BY DEF Path
<1>3. CASE v = Absent
  BY <1>1, <1>2, <1>3, RemoveNestedFieldProperties DEF SetOrRemove
<1>4. CASE v # Absent
  BY <1>4, SetNestedFieldProperties DEF SetOrRemove
<1> QED BY <1>3, <1>4

\* What is extracted from fields is a tree of them.
LEMMA ExtractProperties ==
    ASSUME NEW src, IsFields(src), NEW paths, paths \subseteq Path
    PROVE  IsTree(ExtractDepthFirst(src, paths))
BY DEF ExtractDepthFirst, IsTree, IsFields

\* Nothing but fields owned: nothing but those fields extracted.
LEMMA ExtractFieldsOnly ==
    ASSUME NEW src, IsFields(src), NEW paths, paths \subseteq Field
    PROVE  Leaves(ExtractDepthFirst(src, paths)) \subseteq paths
<1>1. Field \cap Section = {}
  BY DEF Field, Section, Annotations, ManualFields, RestoreFields
<1>2. \A p \in paths : Subtree(p) = {p}
  BY <1>1 DEF Subtree
<1>3. LeavesOf(paths) = paths
  BY DEF LeavesOf
<1> DEFINE t == ExtractDepthFirst(src, paths)
<1>4. \A f \in Field : t.fields[f] # Absent => f \in paths
  BY <1>2, <1>3 DEF ExtractDepthFirst
<1>5. t.empty = {}
  BY <1>1, <1>3 DEF ExtractDepthFirst
<1>6. Leaves(t) \subseteq paths
  <2> HIDE DEF t
  <2> QED BY <1>4, <1>5 DEF Leaves
<1> QED BY <1>6

-----------------------------------------------------------------------------
(* The invariant.                                                          *)

Inv == TypeOK /\ CliOwnsOnlySettings

\* The conjuncts of Inv about the object, about the processes, and the rest.
ObjectOK(o) == IsObject(o) /\ o.managedFields[CliApply] \subseteq CliFields

ProcessesOK ==
    /\ pc \in [Proc -> Ended \cup Asking \cup Working]
    /\ request \in [Proc -> Request]
    /\ intent = [p \in Proc |-> intent[p]]
    /\ \A p \in Proc : IsTree(intent[p]) /\ Leaves(intent[p]) \subseteq CliFields
    /\ preview \in [Proc -> [options : OptionLists \cup {Absent},
                             repoName : Repos \cup {Absent}]]

CountsOK ==
    /\ now \in Times
    /\ stale \subseteq Proc
    /\ invoked \in 0..MaxCommands
    /\ edits \in 0..MaxEdits

\* The invariant, part by part.
LEMMA InvParts == Inv <=> ObjectOK(cluster) /\ ProcessesOK /\ CountsOK
BY DEF Inv, TypeOK, CliOwnsOnlySettings, ObjectOK, ProcessesOK, CountsOK

-----------------------------------------------------------------------------
(* Intents.                                                                *)

\* A tree with no empty section and no field but the settings.
Clean(t) == t.empty = {} /\ \A f \in Field \ CliFields : t.fields[f] = Absent

\* Settings are fields, and no section is one.
LEMMA CliFieldsAreFields ==
    /\ CliFields \subseteq Field
    /\ CliFields \cap Section = {}
    /\ CliFields \subseteq Path
BY DEF CliFields, Field, Section, Path, Annotations, ManualFields, RestoreFields

\* A tree is clean exactly when its leaves are settings.
LEMMA CleanLeaves ==
    ASSUME NEW t, IsTree(t)
    PROVE  Clean(t) <=> Leaves(t) \subseteq CliFields
<1>1. Clean(t) => Leaves(t) \subseteq CliFields
  BY DEF Clean, Leaves
<1>2. Leaves(t) \subseteq CliFields => Clean(t)
  BY CliFieldsAreFields DEF Clean, Leaves, IsTree
<1> QED BY <1>1, <1>2

\* The patch of a process that has built none is clean.
LEMMA NoTreeClean == IsTree(NoTree) /\ Leaves(NoTree) \subseteq CliFields
BY DEF NoTree, NoFields, IsTree, IsFields, Leaves

\* The fields commands set are settings.
LEMMA SettingsAreFields ==
    /\ "backupAnnotation" \in Annotations /\ "restoreAnnotation" \in Annotations
    /\ Annotations \subseteq CliFields
    /\ {"manual.options", "manual.repoName", "restore.enabled", "restore.options",
        "restore.repoName", "shutdown"} \subseteq CliFields
BY DEF CliFields, Annotations, ManualFields, RestoreFields

\* backup: the manual section, emptied by two removals, is pruned from the
\* bottom up, so nothing empty is left of it.
LEMMA BackupIntentClean ==
    ASSUME NEW t, IsTree(t), Clean(t), NEW r \in Request, NEW time \in Times
    PROVE  IsTree(BackupIntent(t, r, time)) /\ Clean(BackupIntent(t, r, time))
<1> DEFINE t1 == MergeAnnotation(t, "backupAnnotation", time)
           t2 == SetOrRemove(t1, "manual.options", r.options)
           t3 == SetOrRemove(t2, "manual.repoName", r.repoName)
           t4 == RemoveEmptyField(t3, "manual")
           t5 == RemoveEmptySections(t4)
<1>1. /\ IsTree(t1) /\ t1.empty = {}
      /\ \A f \in Field \ CliFields : t1.fields[f] = Absent
  BY MergeAnnotationProperties, ValuesOfFields, SettingsAreFields, CliFieldsAreFields
     DEF Clean
<1>2. /\ IsTree(t2) /\ t2.empty \subseteq {"manual"}
      /\ \A f \in Field \ CliFields : t2.fields[f] = Absent
  <2> HIDE DEF t1
  <2>1. r.options \in ValueOf["manual.options"] \cup {Absent}
    BY ValuesOfFields DEF Request
  <2> QED BY <1>1, <2>1, SetOrRemoveProperties, Holders, SettingsAreFields, CliFieldsAreFields
<1>3. /\ IsTree(t3) /\ t3.empty \subseteq {"manual"}
      /\ \A f \in Field \ CliFields : t3.fields[f] = Absent
  <2> HIDE DEF t2
  <2>1. r.repoName \in ValueOf["manual.repoName"] \cup {Absent}
    BY ValuesOfFields DEF Request
  <2> QED BY <1>2, <2>1, SetOrRemoveProperties, Holders, SettingsAreFields, CliFieldsAreFields
<1>4. /\ IsTree(t4) /\ t4.empty \subseteq {"pgbackrest"}
      /\ \A f \in Field \ CliFields : t4.fields[f] = Absent
  <2> HIDE DEF t3
  <2> QED BY <1>3, RemoveEmptyFieldProperties, Holders DEF Section
<1>5. /\ IsTree(t5) /\ t5.empty = {}
      /\ \A f \in Field \ CliFields : t5.fields[f] = Absent
  <2> HIDE DEF t4
  <2> QED BY <1>4, RemoveEmptySectionsProperties
<1>6. BackupIntent(t, r, time) = t5
  BY DEF BackupIntent, RemoveEmptyManualSections
<1> HIDE DEF t5
<1> QED BY <1>5, <1>6 DEF Clean

\* restore: "enabled" keeps the restore section from becoming empty.
LEMMA RestoreIntentClean ==
    ASSUME NEW t, IsTree(t), Clean(t), NEW r \in Request, NEW time \in Times
    PROVE  IsTree(RestoreIntent(t, r, time)) /\ Clean(RestoreIntent(t, r, time))
<1> DEFINE t1 == MergeAnnotation(t, "restoreAnnotation", time)
           t2 == SetNestedField(t1, "restore.enabled", "true")
           t3 == SetOrRemove(t2, "restore.options", r.options)
           t4 == SetOrRemove(t3, "restore.repoName", r.repoName)
<1>0. "true" # Absent
  BY AbsentAssumption, ValuesOfFields, SettingsAreFields, CliFieldsAreFields
<1>1. /\ IsTree(t1) /\ t1.empty = {}
      /\ \A f \in Field \ CliFields : t1.fields[f] = Absent
  BY MergeAnnotationProperties, ValuesOfFields, SettingsAreFields, CliFieldsAreFields
     DEF Clean
<1>2. /\ IsTree(t2) /\ t2.empty = {} /\ t2.fields["restore.enabled"] = "true"
      /\ \A f \in Field \ CliFields : t2.fields[f] = Absent
  <2> HIDE DEF t1
  <2>1. "true" \in ValueOf["restore.enabled"] \cup {Absent}
    BY ValuesOfFields
  <2> QED BY <1>1, <2>1, SetNestedFieldProperties, SettingsAreFields, CliFieldsAreFields
<1>3. ASSUME NEW s, IsTree(s), s.empty = {}, s.fields["restore.enabled"] = "true",
             \A f \in Field \ CliFields : s.fields[f] = Absent,
             NEW f \in {"restore.options", "restore.repoName"},
             NEW v \in ValueOf[f] \cup {Absent}
      PROVE  /\ IsTree(SetOrRemove(s, f, v)) /\ SetOrRemove(s, f, v).empty = {}
             /\ SetOrRemove(s, f, v).fields["restore.enabled"] = "true"
             /\ \A g \in Field \ CliFields : SetOrRemove(s, f, v).fields[g] = Absent
  <2>1. f \in CliFields /\ f \in Field /\ f \in Path /\ "restore.enabled" \in Field
    BY SettingsAreFields, CliFieldsAreFields
  <2>2. /\ IsTree(SetOrRemove(s, f, v))
        /\ SetOrRemove(s, f, v).fields["restore.enabled"] = "true"
        /\ \A g \in Field \ CliFields : SetOrRemove(s, f, v).fields[g] = Absent
    BY <1>3, <2>1, SetOrRemoveProperties
  <2>3. SetOrRemove(s, f, v).empty = {}
    <3>1. CASE v = Absent
      <4>1. "restore.enabled" \notin Subtree(f)
        BY <2>1, CliFieldsAreFields DEF Subtree
      <4>2. \A x \in Holder(f) : "restore.enabled" \in Under[x]
        BY Holders, UnderSections DEF RestoreFields
      <4> QED BY <1>0, <1>3, <2>1, <3>1, <4>1, <4>2, RemoveNestedFieldKeepsHolder
              DEF SetOrRemove
    <3>2. CASE v # Absent
      BY <1>3, <2>1, <3>2, SetNestedFieldProperties DEF SetOrRemove
    <3> QED BY <3>1, <3>2
  <2> QED BY <2>2, <2>3
<1>4. /\ IsTree(t3) /\ t3.empty = {} /\ t3.fields["restore.enabled"] = "true"
      /\ \A f \in Field \ CliFields : t3.fields[f] = Absent
  <2> HIDE DEF t2
  <2>1. r.options \in ValueOf["restore.options"] \cup {Absent}
    BY ValuesOfFields DEF Request
  <2> QED BY <1>2, <1>3, <2>1
<1>5. /\ IsTree(t4) /\ t4.empty = {}
      /\ \A f \in Field \ CliFields : t4.fields[f] = Absent
  <2> HIDE DEF t3
  <2>1. r.repoName \in ValueOf["restore.repoName"] \cup {Absent}
    BY ValuesOfFields DEF Request
  <2> QED BY <1>3, <1>4, <2>1
<1>6. RestoreIntent(t, r, time) = t4
  BY DEF RestoreIntent
<1> HIDE DEF t4
<1> QED BY <1>5, <1>6 DEF Clean

\* restore disable: the section goes, and with it every section it leaves empty.
LEMMA DisableIntentClean ==
    ASSUME NEW t, IsTree(t), Clean(t)
    PROVE  IsTree(DisableIntent(t)) /\ Clean(DisableIntent(t))
<1> DEFINE t1 == RemoveNestedField(t, "restore")
<1>1. /\ IsTree(t1) /\ t1.empty \subseteq {"pgbackrest"}
      /\ \A f \in Field \ CliFields : t1.fields[f] = Absent
  BY RemoveNestedFieldProperties, Holders DEF Clean, Path, Section
<1> HIDE DEF t1
<1>2. /\ IsTree(RemoveEmptySections(t1)) /\ RemoveEmptySections(t1).empty = {}
      /\ \A f \in Field \ CliFields : RemoveEmptySections(t1).fields[f] = Absent
  BY <1>1, RemoveEmptySectionsProperties
<1> QED BY <1>2 DEF DisableIntent, Clean, t1

\* start, stop.
LEMMA ShutdownIntentClean ==
    ASSUME NEW t, IsTree(t), Clean(t), NEW r \in Request
    PROVE  IsTree(ShutdownIntent(t, r)) /\ Clean(ShutdownIntent(t, r))
<1>1. ShutdownValue(r) \in ValueOf["shutdown"] \cup {Absent}
  BY ValuesOfFields DEF ShutdownValue
<1> QED BY <1>1, SetNestedFieldProperties, SettingsAreFields, CliFieldsAreFields
        DEF ShutdownIntent, Clean

\* Every command turns a clean tree into a clean one.
LEMMA ModifyIntentClean ==
    ASSUME NEW t, IsTree(t), Leaves(t) \subseteq CliFields,
           NEW r \in Request, NEW time \in Times
    PROVE  /\ IsTree(ModifyIntent(t, r, time))
           /\ Leaves(ModifyIntent(t, r, time)) \subseteq CliFields
<1>1. Clean(t)
  BY CleanLeaves
<1>2. IsTree(ModifyIntent(t, r, time)) /\ Clean(ModifyIntent(t, r, time))
  <2>1. CASE r.command = "backup"
    BY <1>1, <2>1, BackupIntentClean DEF ModifyIntent
  <2>2. CASE r.command = "restore"
    BY <1>1, <2>2, RestoreIntentClean DEF ModifyIntent
  <2>3. CASE r.command = "disable"
    BY <1>1, <2>3, DisableIntentClean DEF ModifyIntent
  <2>4. CASE r.command \notin {"backup", "restore", "disable"}
    BY <1>1, <2>4, ShutdownIntentClean DEF ModifyIntent
  <2> QED BY <2>1, <2>2, <2>3, <2>4
<1> QED BY <1>2, CleanLeaves

-----------------------------------------------------------------------------
(* Objects.                                                                *)

\* The entries of the CLI are different from each other and from all others.
LEMMA Entries ==
    /\ CliApply \in Entry
    /\ CliUpdate \in Entry \ {CliApply}
    /\ \A m \in OtherManagers, op \in {"Apply", "Update"} :
            [manager |-> m, operation |-> op] \in Entry \ {CliApply}
BY ManagersAssumption DEF Entry, CliApply, CliUpdate

\* The leaves of a tree, which become the owned paths, are known paths.
LEMMA TreeLeaves ==
    ASSUME NEW t, IsTree(t) PROVE Leaves(t) \subseteq Path
BY DEF Leaves, IsTree, Path

\* The CLI's apply leaves the CLI owning what its patch names.
LEMMA CliApplyOK ==
    ASSUME NEW o, ObjectOK(o), NEW t, IsTree(t), Leaves(t) \subseteq CliFields
    PROVE  ObjectOK(Apply(o, CliApply, t))
<1>1. IsFields(Apply(o, CliApply, t).live)
  BY DEF ObjectOK, IsObject, IsTree, IsFields, Apply
<1>2. Apply(o, CliApply, t).managedFields \in [Entry -> SUBSET Path]
  BY TreeLeaves DEF ObjectOK, IsObject, Apply
<1>3. Apply(o, CliApply, t).managedFields[CliApply] \subseteq CliFields
  BY Entries DEF Apply
<1> QED BY <1>1, <1>2, <1>3 DEF ObjectOK, IsObject, Apply

\* Another manager's apply can only take fields from the CLI.
LEMMA OtherApplyOK ==
    ASSUME NEW o, ObjectOK(o), NEW t, IsTree(t), NEW e \in Entry \ {CliApply}
    PROVE  ObjectOK(Apply(o, e, t))
<1>1. IsFields(Apply(o, e, t).live)
  BY DEF ObjectOK, IsObject, IsTree, IsFields, Apply
<1>2. Apply(o, e, t).managedFields \in [Entry -> SUBSET Path]
  BY TreeLeaves DEF ObjectOK, IsObject, Apply
<1>3. Apply(o, e, t).managedFields[CliApply] \subseteq CliFields
  BY Entries DEF Apply, ObjectOK
<1> QED BY <1>1, <1>2, <1>3 DEF ObjectOK, IsObject, Apply

\* What other clients write with Update can only take fields from the CLI.
LEMMA UpdateOK ==
    ASSUME NEW o, ObjectOK(o), NEW edit \in Edits, NEW e \in Entry \ {CliApply}
    PROVE  ObjectOK(Update(o, e, edit))
<1>1. IsFields(Update(o, e, edit).live)
  BY EditsAssumption DEF ObjectOK, IsObject, IsFields, Update
<1>2. Update(o, e, edit).managedFields \in [Entry -> SUBSET Path]
  BY EditsAssumption DEF ObjectOK, IsObject, Update, Path
<1>3. Update(o, e, edit).managedFields[CliApply] \subseteq CliFields
  BY Entries DEF Update, ObjectOK
<1> QED BY <1>1, <1>2, <1>3 DEF ObjectOK, IsObject, Update

\* A created object has no apply entry of the CLI.
LEMMA CreatedOK ==
    ASSUME NEW e \in Entry \ {CliApply}, NEW b \in BOOLEAN
    PROVE  ObjectOK(Created(e, ManifestFields(b)))
<1>1. IsFields(ManifestFields(b))
  BY ValuesOfFields DEF ManifestFields, IsFields
<1>2. Created(e, ManifestFields(b)).managedFields \in [Entry -> SUBSET Path]
  BY DEF Created, Path
<1>3. Created(e, ManifestFields(b)).managedFields[CliApply] \subseteq CliFields
  BY Entries DEF Created
<1> QED BY <1>1, <1>2, <1>3 DEF ObjectOK, IsObject, Created

\* Nor has an object that does not exist.
LEMMA NoObjectOK == ObjectOK(NoObject)
BY Entries DEF NoObject, NoFields, ObjectOK, IsObject, IsFields

-----------------------------------------------------------------------------
(* Steps.                                                                  *)

\* The command line of a process that has ended is one.
LEMMA LineIsRequest == Line("delete", FALSE) \in Request
BY DEF Line, Request, Command

\* A process that ends is as it was before it was ever invoked.
LEMMA EndOK ==
    ASSUME ProcessesOK, NEW p \in Proc, NEW how \in Ended, End(p, how)
    PROVE  ProcessesOK'
<1>1. pc' \in [Proc -> Ended \cup Asking \cup Working]
  BY DEF ProcessesOK, End
<1>2. request' \in [Proc -> Request]
  BY LineIsRequest DEF ProcessesOK, End
<1>3. /\ intent' = [q \in Proc |-> intent'[q]]
      /\ \A q \in Proc : IsTree(intent'[q]) /\ Leaves(intent'[q]) \subseteq CliFields
  <2>1. intent' = [intent EXCEPT ![p] = NoTree]
    BY DEF End
  <2>2. \A q \in Proc : intent'[q] = IF q = p THEN NoTree ELSE intent[q]
    BY <2>1 DEF ProcessesOK
  <2>3. intent' = [q \in Proc |-> intent'[q]]
    BY <2>1 DEF ProcessesOK
  <2> QED BY <2>2, <2>3, NoTreeClean DEF ProcessesOK
<1>4. preview' \in [Proc -> [options : OptionLists \cup {Absent},
                             repoName : Repos \cup {Absent}]]
  BY DEF ProcessesOK, End, NoPreview
<1> QED BY <1>1, <1>2, <1>3, <1>4 DEF ProcessesOK

\* Storing a well-formed object.
LEMMA StoreOK ==
    ASSUME NEW o, ObjectOK(o), Store(o), stale \subseteq Proc
    PROVE  ObjectOK(cluster') /\ stale' \subseteq Proc
BY DEF Store

\* A step that moves p's program counter and nothing else of the processes.
LEMMA MoveOK ==
    ASSUME ProcessesOK, NEW p \in Proc, NEW s \in Asking \cup Working,
           pc' = [pc EXCEPT ![p] = s], UNCHANGED <<request, intent, preview>>
    PROVE  ProcessesOK'
BY DEF ProcessesOK

\* A user enters a command.
LEMMA InvokeInv ==
    ASSUME Inv, NEW p \in Proc, NEW r \in Requests, Invoke(p, r)
    PROVE  Inv'
<1>1. FirstStep(r) \in Asking \cup Working
  BY DEF FirstStep, Asking, Working
<1>2. ProcessesOK'
  BY <1>1, InvParts, RequestsAssumption DEF ProcessesOK, Invoke
<1>3. CountsOK'
  BY InvParts, BoundsAssumption DEF CountsOK, Invoke
<1>4. ObjectOK(cluster')
  BY InvParts DEF Invoke
<1> QED BY <1>2, <1>3, <1>4, InvParts DEF Inv, TypeOK, CliOwnsOnlySettings,
           ObjectOK, ProcessesOK, CountsOK

\* The parts together are the invariant after a step.
LEMMA InvPartsPrime == ObjectOK(cluster') /\ ProcessesOK' /\ CountsOK' => Inv'
BY DEF Inv, TypeOK, CliOwnsOnlySettings, ObjectOK, ProcessesOK, CountsOK

\* The object is read and the patch is built: the patch is clean because what
\* the CLI owns is.
LEMMA GetInv ==
    ASSUME Inv, NEW p \in Proc, Get(p) PROVE Inv'
<1>1. ObjectOK(cluster) /\ ProcessesOK /\ CountsOK
  BY InvParts
<1>2. ObjectOK(cluster') /\ CountsOK'
  BY <1>1 DEF Get, CountsOK
<1>3. ProcessesOK'
  <2>1. CASE \E how \in Ended : End(p, how)
    BY <1>1, <2>1, EndOK
  <2>2. CASE /\ intent' = [intent EXCEPT ![p] =
                    ModifyIntent(ExtractFieldsInto(cluster), request[p], now)]
             /\ pc' = [pc EXCEPT ![p] =
                    IF request[p].command = "restore" THEN "dryrun" ELSE "patch"]
             /\ UNCHANGED <<request, preview>>
    <3> DEFINE t == ModifyIntent(ExtractFieldsInto(cluster), request[p], now)
    <3>1. /\ IsTree(ExtractFieldsInto(cluster))
          /\ Leaves(ExtractFieldsInto(cluster)) \subseteq CliFields
      <4>1. /\ IsFields(cluster.live)
            /\ FindManagedFields(cluster) \subseteq CliFields
        BY <1>1 DEF ObjectOK, IsObject, FindManagedFields
      <4>2. /\ FindManagedFields(cluster) \subseteq Path
            /\ FindManagedFields(cluster) \subseteq Field
        BY <4>1, CliFieldsAreFields
      <4>3. IsTree(ExtractFieldsInto(cluster))
        BY <4>1, <4>2, ExtractProperties DEF ExtractFieldsInto
      <4>4. Leaves(ExtractFieldsInto(cluster)) \subseteq FindManagedFields(cluster)
        BY <4>1, <4>2, ExtractFieldsOnly DEF ExtractFieldsInto
      <4> QED BY <4>1, <4>3, <4>4
    <3>2. IsTree(t) /\ Leaves(t) \subseteq CliFields
      BY <1>1, <3>1, ModifyIntentClean DEF ProcessesOK, CountsOK
    <3> HIDE DEF t
    <3>3. intent' = [intent EXCEPT ![p] = t]
      BY <2>2 DEF t
    <3>4. pc' \in [Proc -> Ended \cup Asking \cup Working]
      BY <1>1, <2>2 DEF ProcessesOK, Working
    <3>5. /\ intent' = [q \in Proc |-> intent'[q]]
          /\ \A q \in Proc : intent'[q] = IF q = p THEN t ELSE intent[q]
      BY <1>1, <3>3 DEF ProcessesOK
    <3> QED BY <1>1, <2>2, <3>2, <3>4, <3>5 DEF ProcessesOK
  <2> QED BY <2>1, <2>2 DEF Get, Ended
<1> QED BY <1>2, <1>3, InvPartsPrime

\* A refused apply ends the command.
LEMMA RefusedIsEnd == \A p \in Proc : Refused(p) \in Ended
BY DEF Refused, Ended

\* The settings of a well-typed object are a well-typed preview.
LEMMA DetailsType ==
    ASSUME NEW o, IsFields(o.live)
    PROVE  Details(o) \in [options : OptionLists \cup {Absent},
                           repoName : Repos \cup {Absent}]
BY ValuesOfFields, SettingsAreFields, CliFieldsAreFields DEF Details, IsFields

\* The dry run stores nothing and shows settings of the right type.
LEMMA DryRunInv ==
    ASSUME Inv, NEW p \in Proc, DryRun(p) PROVE Inv'
<1>1. ObjectOK(cluster) /\ ProcessesOK /\ CountsOK
  BY InvParts
<1>2. ObjectOK(cluster') /\ CountsOK'
  BY <1>1 DEF DryRun, CountsOK
<1>3. ProcessesOK'
  <2>1. CASE End(p, Refused(p))
    BY <1>1, <2>1, EndOK, RefusedIsEnd
  <2>2. CASE /\ preview' = [preview EXCEPT ![p] =
                    Details(Apply(cluster, CliApply, intent[p]))]
             /\ pc' = [pc EXCEPT ![p] = "confirm"]
             /\ UNCHANGED <<request, intent>>
    <3>1. ObjectOK(Apply(cluster, CliApply, intent[p]))
      BY <1>1, CliApplyOK DEF ProcessesOK
    <3>2. Details(Apply(cluster, CliApply, intent[p]))
             \in [options : OptionLists \cup {Absent}, repoName : Repos \cup {Absent}]
      BY <3>1, DetailsType DEF ObjectOK, IsObject
    <3> QED BY <1>1, <2>2, <3>2 DEF ProcessesOK, Asking
  <2> QED BY <2>1, <2>2 DEF DryRun
<1> QED BY <1>2, <1>3, InvPartsPrime

\* A question is answered.
LEMMA ConfirmInv ==
    ASSUME Inv, NEW p \in Proc, Confirm(p) PROVE Inv'
<1>1. ObjectOK(cluster) /\ ProcessesOK /\ CountsOK
  BY InvParts
<1>2. ObjectOK(cluster') /\ CountsOK'
  BY <1>1 DEF Confirm, CountsOK
<1>3. AfterYes(request[p]) \in Working
  BY DEF AfterYes, Working
<1>4. ProcessesOK'
  BY <1>1, <1>3, EndOK, MoveOK DEF Confirm, Ended
<1> QED BY <1>2, <1>4, InvPartsPrime

\* The patch is applied: what it names is what the CLI owns from then on.
LEMMA PatchInv ==
    ASSUME Inv, NEW p \in Proc, Patch(p) PROVE Inv'
<1>1. ObjectOK(cluster) /\ ProcessesOK /\ CountsOK
  BY InvParts
<1>2. ProcessesOK'
  BY <1>1, EndOK, RefusedIsEnd DEF Patch, Ended
<1>3. ObjectOK(Apply(cluster, CliApply, intent[p]))
  BY <1>1, CliApplyOK DEF ProcessesOK
<1>4. ObjectOK(cluster') /\ CountsOK'
  BY <1>1, <1>3, StoreOK DEF Patch, CountsOK
<1> QED BY <1>2, <1>4, InvPartsPrime

\* A cluster is created under the Update entry of the CLI.
LEMMA CreateInv ==
    ASSUME Inv, NEW p \in Proc, Create(p) PROVE Inv'
<1>1. ObjectOK(cluster) /\ ProcessesOK /\ CountsOK
  BY InvParts
<1>2. ProcessesOK'
  BY <1>1, EndOK DEF Create, Ended
<1>3. ObjectOK(Created(CliUpdate, ManifestFields(request[p].disableBackups)))
  BY <1>1, Entries, CreatedOK DEF ProcessesOK, Request
<1>4. ObjectOK(cluster') /\ CountsOK'
  BY <1>1, <1>3, StoreOK DEF Create, CountsOK
<1> QED BY <1>2, <1>4, InvPartsPrime

\* A cluster is deleted, and its owners with it.
LEMMA DeleteInv ==
    ASSUME Inv, NEW p \in Proc, Delete(p) PROVE Inv'
<1>1. ObjectOK(cluster) /\ ProcessesOK /\ CountsOK
  BY InvParts
<1>2. ProcessesOK'
  BY <1>1, EndOK DEF Delete, Ended
<1>3. ObjectOK(cluster') /\ CountsOK'
  BY <1>1, NoObjectOK, StoreOK DEF Delete, CountsOK
<1> QED BY <1>2, <1>3, InvPartsPrime

\* A command is interrupted.
LEMMA KillInv ==
    ASSUME Inv, NEW p \in Proc, Kill(p) PROVE Inv'
<1>1. ObjectOK(cluster) /\ ProcessesOK /\ CountsOK
  BY InvParts
<1>2. ProcessesOK'
  BY <1>1, EndOK DEF Kill, Ended
<1>3. ObjectOK(cluster') /\ CountsOK'
  BY <1>1 DEF Kill, CountsOK
<1> QED BY <1>2, <1>3, InvPartsPrime

\* Time passes.
LEMMA TickInv ==
    ASSUME Inv, Tick PROVE Inv'
<1>1. ObjectOK(cluster) /\ ProcessesOK /\ CountsOK
  BY InvParts
<1>2. CountsOK'
  BY <1>1, TimesAssumption DEF Tick, CountsOK
<1>3. ObjectOK(cluster') /\ ProcessesOK'
  BY <1>1 DEF Tick, ProcessesOK
<1> QED BY <1>2, <1>3, InvPartsPrime

\* A write by another client, given that the object it stores is well formed.
LEMMA OtherWriteInv ==
    ASSUME Inv, NEW o, ObjectOK(o), OtherWrite(o) PROVE Inv'
<1>1. ObjectOK(cluster) /\ ProcessesOK /\ CountsOK
  BY InvParts
<1>2. ProcessesOK'
  BY <1>1 DEF OtherWrite, ProcessesOK
<1>3. ObjectOK(cluster') /\ CountsOK'
  BY <1>1, StoreOK, BoundsAssumption DEF OtherWrite, CountsOK
<1> QED BY <1>2, <1>3, InvPartsPrime

\* The writes of other clients.
LEMMA OthersInv ==
    ASSUME Inv, Others PROVE Inv'
<1>1. ObjectOK(cluster)
  BY InvParts
<1>2. CASE Tick
  BY <1>2, TickInv
<1>3. ASSUME NEW m \in OtherManagers, NEW edit \in Edits, OtherUpdate(m, edit)
      PROVE  Inv'
  BY <1>1, <1>3, Entries, UpdateOK, OtherWriteInv DEF OtherUpdate
<1>4. ASSUME NEW m \in OtherManagers, NEW config \in Configs, NEW force \in BOOLEAN,
             OtherApply(m, config, force)
      PROVE  Inv'
  BY <1>1, <1>4, Entries, ConfigsAssumption, OtherApplyOK, OtherWriteInv DEF OtherApply
<1>5. ASSUME NEW m \in OtherManagers, OtherCreate(m) PROVE Inv'
  BY <1>5, Entries, CreatedOK, OtherWriteInv DEF OtherCreate
<1>6. CASE OtherDelete
  BY <1>6, NoObjectOK, OtherWriteInv DEF OtherDelete
<1> QED BY <1>2, <1>3, <1>4, <1>5, <1>6 DEF Others

\* The invariant is preserved by every step.
LEMMA NextInv ==
    ASSUME Inv, [Next]_vars PROVE Inv'
<1>1. ASSUME NEW p \in Proc, Step(p) PROVE Inv'
  BY <1>1, GetInv, DryRunInv, PatchInv, CreateInv, DeleteInv DEF Step
<1>2. CASE Users
  BY <1>2, InvokeInv, ConfirmInv, KillInv DEF Users
<1>3. CASE Others
  BY <1>3, OthersInv
<1>4. CASE UNCHANGED vars
  <2>1. ObjectOK(cluster') /\ ProcessesOK' /\ CountsOK'
    BY <1>4, InvParts DEF vars, ProcessesOK, CountsOK
  <2> QED BY <2>1, InvPartsPrime
<1> QED BY <1>1, <1>2, <1>3, <1>4 DEF Next

\* The invariant holds initially.
LEMMA InitInv == Init => Inv
<1> SUFFICES ASSUME Init PROVE Inv
  OBVIOUS
<1>1. ObjectOK(cluster)
  <2>1. ASSUME NEW m \in OtherManagers
        PROVE  ObjectOK(Created([manager |-> m, operation |-> "Update"], ManifestFields(FALSE)))
    BY Entries, CreatedOK
  <2> QED BY <2>1, NoObjectOK DEF Init
<1>2. ProcessesOK
  BY LineIsRequest, NoTreeClean DEF Init, ProcessesOK, Ended, NoPreview
<1>3. CountsOK
  BY TimesAssumption, BoundsAssumption DEF Init, CountsOK
<1> QED BY <1>1, <1>2, <1>3, InvParts

\* Inv is an invariant for all values of the constants.
THEOREM Invariance == Spec => []Inv
BY InitInv, NextInv, PTL DEF Spec

\* Objects, intents and previews are well typed.
THEOREM TypeCorrect == Spec => []TypeOK
<1>1. Inv => TypeOK
  BY DEF Inv
<1> QED BY <1>1, Invariance, PTL

\* The CLI owns, and is about to claim, nothing but settings.
THEOREM OwnsOnlySettings == Spec => []CliOwnsOnlySettings
<1>1. Inv => CliOwnsOnlySettings
  BY DEF Inv
<1> QED BY <1>1, Invariance, PTL

-----------------------------------------------------------------------------
(* What a patch may not do.                                                *)

\* Only p's own patch, or its death, ends its waiting for an answer.
LEMMA WhoPatches ==
    ASSUME Inv, [Next]_vars, NEW p \in Proc, Patches(p)
    PROVE  Patch(p) \/ cluster' = cluster
<1>1. pc \in [Proc -> Ended \cup Asking \cup Working]
  BY DEF Inv, TypeOK
<1>2. pc[p] = "patch" /\ pc'[p] # "patch"
  BY DEF Patches
<1>3. ASSUME NEW q \in Proc, Step(q) PROVE Patch(p) \/ cluster' = cluster
  BY <1>1, <1>2, <1>3 DEF Step, Get, DryRun, Patch, Create, Delete, End
<1>4. CASE Users
  BY <1>4 DEF Users, Invoke, Confirm, Kill
<1>5. CASE Others
  BY <1>2, <1>5 DEF Others, Tick, OtherUpdate, OtherApply, OtherCreate, OtherDelete, OtherWrite
<1>6. CASE UNCHANGED vars
  BY <1>6 DEF vars
<1> QED BY <1>3, <1>4, <1>5, <1>6 DEF Next

\* An apply without force that is accepted meets no conflict.
LEMMA AcceptedWithoutForce ==
    ASSUME NEW o, NEW e, NEW t, ApplyAnswer(o, e, t, FALSE) = "ok"
    PROVE  Conflicts(o, e, t) = {}
BY DEF ApplyAnswer

\* An apply that meets no conflict leaves every field somebody else owns alone.
LEMMA ApplyKeepsOthers ==
    ASSUME NEW o, ObjectOK(o), NEW t, IsTree(t), Conflicts(o, CliApply, t) = {},
           NEW e \in Entry \ {CliApply}
    PROVE  /\ Apply(o, CliApply, t).managedFields[e] = o.managedFields[e]
           /\ \A f \in o.managedFields[e] \cap Field :
                Apply(o, CliApply, t).live[f] = o.live[f]
<1>1. Apply(o, CliApply, t).managedFields[e] = o.managedFields[e]
  BY DEF Apply, ObjectOK, IsObject
<1>2. ASSUME NEW f \in o.managedFields[e] \cap Field
      PROVE  Apply(o, CliApply, t).live[f] = o.live[f]
  <2>1. f \notin Changes(o, t)
    BY DEF Conflicts
  <2>2. f \notin Dropped(o, CliApply, t)
    BY DEF Dropped
  <2> QED BY <2>1, <2>2 DEF Changes, Apply
<1> QED BY <1>1, <1>2

\* Without --force-conflicts other managers keep their fields and their
\* values, however long ago the patch was built.
THEOREM WithoutForce == Spec => OthersKeepTheirSettings
<1>1. ASSUME Inv, [Next]_vars, NEW p \in Proc, Patches(p), ~request[p].force,
             NEW e \in Entry \ {CliApply}
      PROVE  /\ cluster'.managedFields[e] = cluster.managedFields[e]
             /\ \A f \in cluster.managedFields[e] \cap Field :
                  cluster'.live[f] = cluster.live[f]
  <2>1. CASE cluster' = cluster
    BY <2>1
  <2>2. CASE Patch(p) /\ cluster' # cluster
    <3>1. Answer(p) = "ok" /\ cluster' = Apply(cluster, CliApply, intent[p])
      BY <2>2 DEF Patch, Store
    <3>2. request[p].force = FALSE
      <4>1. request[p] \in Request
        BY <1>1 DEF Inv, TypeOK
      <4> QED BY <1>1, <4>1 DEF Request
    <3>3. Conflicts(cluster, CliApply, intent[p]) = {}
      BY <3>1, <3>2, AcceptedWithoutForce DEF Answer
    <3>4. ObjectOK(cluster) /\ IsTree(intent[p])
      BY <1>1, InvParts DEF ProcessesOK
    <3> QED BY <3>1, <3>3, <3>4, ApplyKeepsOthers
  <2> QED BY <1>1, <2>1, <2>2, WhoPatches
<1>2. ASSUME Inv, [Next]_vars
      PROVE  [\A p \in Proc : Patches(p) /\ ~request[p].force =>
                \A e \in Entry \ {CliApply} :
                    /\ cluster'.managedFields[e] = cluster.managedFields[e]
                    /\ \A f \in cluster.managedFields[e] \cap Field :
                          cluster'.live[f] = cluster.live[f]]_vars
  BY <1>1, <1>2
<1> QED BY <1>2, Invariance, PTL DEF Spec, OthersKeepTheirSettings

\* A patch never brings a deleted cluster back: it never names the fields a
\* cluster must have.
THEOREM NoResurrection == Spec => PatchNeverResurrects
<1>1. ASSUME Inv, [Next]_vars, NEW p \in Proc, Patches(p), ~Exists(cluster)
      PROVE  ~Exists(cluster')
  <2>1. CASE cluster' = cluster
    BY <1>1, <2>1 DEF Exists
  <2>2. CASE Patch(p) /\ cluster' # cluster
    <3>1. cluster' = Apply(cluster, CliApply, intent[p])
      BY <2>2 DEF Patch, Store
    <3>2. "instances" \in Field \ CliFields
      BY DEF Field, CliFields, Annotations, ManualFields, RestoreFields
    <3>3. intent[p].fields["instances"] = Absent
      BY <1>1, <3>2 DEF Inv, CliOwnsOnlySettings, Leaves
    <3> QED BY <1>1, <3>1, <3>2, <3>3 DEF Apply, Exists
  <2> QED BY <1>1, <2>1, <2>2, WhoPatches
<1>2. ASSUME Inv, [Next]_vars
      PROVE  [~Exists(cluster) /\ Exists(cluster')
                => \A p \in Proc : ~Patches(p)]_vars
  BY <1>1, <1>2
<1> QED BY <1>2, Invariance, PTL DEF Spec, PatchNeverResurrects

-----------------------------------------------------------------------------
(* The commands implement their promise.                                   *)

\* A process asks only when its command has a question, and makes a dry run
\* only for a restore.
PcFitsRequest ==
    \A p \in Proc :
        /\ pc[p] = "confirm" => NeedsYes(request[p])
        /\ pc[p] = "dryrun" => request[p].command = "restore"

Simulation == Inv /\ PcFitsRequest

\* A command that starts with a question is one that has to ask.
LEMMA FirstQuestion ==
    ASSUME NEW r \in Request
    PROVE  /\ FirstStep(r) \in Asking \cup Working
           /\ FirstStep(r) = "confirm" => NeedsYes(r)
           /\ FirstStep(r) # "dryrun"
BY DEF FirstStep, NeedsYes, Asking, Working, Request, Command

\* Every step keeps the question where it belongs.
LEMMA NextFits ==
    ASSUME Simulation, [Next]_vars PROVE PcFitsRequest'
<1> SUFFICES ASSUME NEW p \in Proc
             PROVE  /\ pc'[p] = "confirm" => NeedsYes(request'[p])
                    /\ pc'[p] = "dryrun" => request'[p].command = "restore"
  BY DEF PcFitsRequest
<1>0. /\ pc \in [Proc -> Ended \cup Asking \cup Working]
      /\ request \in [Proc -> Request]
      /\ pc[p] = "confirm" => NeedsYes(request[p])
      /\ pc[p] = "dryrun" => request[p].command = "restore"
  BY DEF Simulation, PcFitsRequest, Inv, TypeOK
<1>1. ASSUME NEW q \in Proc, Get(q)
      PROVE  /\ pc'[p] = "confirm" => NeedsYes(request'[p])
             /\ pc'[p] = "dryrun" => request'[p].command = "restore"
  BY <1>0, <1>1 DEF Get, End
<1>2. ASSUME NEW q \in Proc, DryRun(q)
      PROVE  /\ pc'[p] = "confirm" => NeedsYes(request'[p])
             /\ pc'[p] = "dryrun" => request'[p].command = "restore"
  <2>1. NeedsYes(request[q])
    BY <1>2 DEF Simulation, PcFitsRequest, DryRun, NeedsYes
  <2> QED BY <1>0, <1>2, <2>1 DEF DryRun, End, Refused
<1>3. ASSUME NEW q \in Proc, Patch(q) \/ Create(q) \/ Delete(q) \/ Kill(q)
      PROVE  /\ pc'[p] = "confirm" => NeedsYes(request'[p])
             /\ pc'[p] = "dryrun" => request'[p].command = "restore"
  BY <1>0, <1>3 DEF Patch, Create, Delete, Kill, End, Refused
<1>4. ASSUME NEW q \in Proc, Confirm(q)
      PROVE  /\ pc'[p] = "confirm" => NeedsYes(request'[p])
             /\ pc'[p] = "dryrun" => request'[p].command = "restore"
  BY <1>0, <1>4 DEF Confirm, End, AfterYes
<1>5. ASSUME NEW q \in Proc, NEW r \in Requests, Invoke(q, r)
      PROVE  /\ pc'[p] = "confirm" => NeedsYes(request'[p])
             /\ pc'[p] = "dryrun" => request'[p].command = "restore"
  BY <1>0, <1>5, FirstQuestion, RequestsAssumption DEF Invoke
<1>6. CASE Others \/ UNCHANGED vars
  BY <1>0, <1>6 DEF Others, Tick, OtherUpdate, OtherApply, OtherCreate, OtherDelete,
                    OtherWrite, vars
<1> QED BY <1>1, <1>2, <1>3, <1>4, <1>5, <1>6 DEF Next, Step, Users

\* Stage is a function of the processes.
LEMMA StageType == Stage = [p \in Proc |-> Stage[p]]
BY DEF Stage

\* The stage of one process, and of all of them after a step of one.
LEMMA StageOf ==
    ASSUME NEW p \in Proc
    PROVE  Stage[p] = IF pc[p] \in Ended THEN "idle"
                      ELSE IF ~NeedsYes(request[p]) THEN "free"
                      ELSE IF Unasked(p) THEN "asking" ELSE "agreed"
BY DEF Stage

\* A step of one process moves its stage and no other.
LEMMA StageMoves ==
    ASSUME NEW p \in Proc, NEW s, Stage'[p] = s,
           pc \in [Proc -> Ended \cup Asking \cup Working], request \in [Proc -> Request],
           \A q \in Proc \ {p} : pc'[q] = pc[q] /\ request'[q] = request[q]
    PROVE  Stage' = [Stage EXCEPT ![p] = s]
BY DEF Stage, Unasked, NeedsYes

\* A process that ends was not idle and is.
LEMMA EndStage ==
    ASSUME Inv, NEW p \in Proc, NEW how \in Ended, End(p, how)
    PROVE  Stage' = [Stage EXCEPT ![p] = "idle"]
<1>1. pc \in [Proc -> Ended \cup Asking \cup Working] /\ request \in [Proc -> Request]
  BY DEF Inv, TypeOK
<1>2. pc'[p] = how /\ \A q \in Proc \ {p} : pc'[q] = pc[q] /\ request'[q] = request[q]
  BY <1>1 DEF End
<1>3. Stage'[p] = "idle"
  BY <1>2 DEF Stage
<1> QED BY <1>1, <1>2, <1>3, StageMoves

\* Every step of the commands is a step of the promise, or none.
LEMMA StepSimulation ==
    ASSUME Simulation, [Next]_vars
    PROVE  [Promise!Next]_(Promise!vars)
<1> USE DEF Simulation
<1>0. /\ pc \in [Proc -> Ended \cup Asking \cup Working]
      /\ request \in [Proc -> Request]
  BY DEF Inv, TypeOK
<1>1. ASSUME NEW p \in Proc, NEW r \in Requests, Invoke(p, r)
      PROVE  Promise!Begin(p)
  <2>1. /\ pc'[p] = FirstStep(r) /\ request'[p] = r
        /\ \A q \in Proc \ {p} : pc'[q] = pc[q] /\ request'[q] = request[q]
    BY <1>0, <1>1 DEF Invoke
  <2>2. pc'[p] \notin Ended
    BY <2>1, FirstQuestion, RequestsAssumption DEF Ended, Asking, Working
  <2>3. Stage[p] = "idle"
    BY <1>1, StageOf DEF Invoke
  <2>4. Stage'[p] \in {"asking", "free"}
    <3>1. NeedsYes(r) => pc'[p] = "confirm" \/ (r.command = "restore" /\ pc'[p] = "get")
      BY <2>1 DEF FirstStep, NeedsYes
    <3> QED BY <2>1, <2>2, <3>1 DEF Stage, Unasked, NeedsYes
  <2>5. Stage' = [Stage EXCEPT ![p] = Stage'[p]]
    BY <1>0, <2>1, StageMoves
  <2> QED BY <1>1, <2>3, <2>4, <2>5 DEF Promise!Begin, Invoke
<1>2. ASSUME NEW p \in Proc, NEW how \in Ended, End(p, how), pc[p] \notin Ended,
             UNCHANGED <<cluster, edits>>
      PROVE  Promise!Abandon(p)
  <2>1. Stage[p] # "idle"
    BY <1>2, StageOf
  <2> QED BY <1>2, <2>1, EndStage DEF Promise!Abandon
<1>3. ASSUME NEW p \in Proc, NEW how \in Ended, End(p, how),
             pc[p] \in {"patch", "create", "delete"}, UNCHANGED edits
      PROVE  Promise!Write(p)
  <2>1. Stage[p] \in {"agreed", "free"}
    BY <1>3, StageOf DEF Ended, Unasked
  <2> QED BY <1>3, <2>1, EndStage DEF Promise!Write
<1>4. ASSUME NEW p \in Proc, Get(p)
      PROVE  Promise!Abandon(p) \/ UNCHANGED <<cluster, edits, Stage>>
  <2>1. CASE \E how \in Ended : End(p, how)
    BY <1>2, <1>4, <2>1 DEF Get, Ended
  <2>2. CASE /\ pc' = [pc EXCEPT ![p] =
                    IF request[p].command = "restore" THEN "dryrun" ELSE "patch"]
             /\ UNCHANGED request
    <3>1. pc[p] = "get"
      BY <1>4 DEF Get
    <3>2. Stage'[p] = Stage[p]
      BY <1>0, <2>2, <3>1 DEF Stage, Unasked, NeedsYes, Ended
    <3>3. Stage' = [Stage EXCEPT ![p] = Stage[p]]
      BY <1>0, <2>2, <3>2, StageMoves
    <3> QED BY <1>4, <3>3, StageType DEF Get
  <2> QED BY <1>4, <2>1, <2>2 DEF Get, Ended
<1>5. ASSUME NEW p \in Proc, DryRun(p)
      PROVE  Promise!Abandon(p) \/ UNCHANGED <<cluster, edits, Stage>>
  <2>1. CASE End(p, Refused(p))
    BY <1>2, <1>5, <2>1, RefusedIsEnd DEF DryRun, Ended
  <2>2. CASE pc' = [pc EXCEPT ![p] = "confirm"] /\ UNCHANGED request
    <3>1. pc[p] = "dryrun" /\ request[p].command = "restore"
      BY <1>5 DEF DryRun, PcFitsRequest
    <3>2. Stage'[p] = Stage[p]
      BY <1>0, <2>2, <3>1 DEF Stage, Unasked, NeedsYes, Ended
    <3>3. Stage' = [Stage EXCEPT ![p] = Stage[p]]
      BY <1>0, <2>2, <3>2, StageMoves
    <3> QED BY <1>5, <3>3, StageType DEF DryRun
  <2> QED BY <1>5, <2>1, <2>2 DEF DryRun
<1>6. ASSUME NEW p \in Proc, Confirm(p)
      PROVE  Promise!Agree(p) \/ Promise!Abandon(p)
  <2>1. pc[p] = "confirm" /\ NeedsYes(request[p])
    BY <1>6 DEF Confirm, PcFitsRequest
  <2>2. CASE End(p, "declined")
    BY <1>2, <1>6, <2>1, <2>2 DEF Confirm, Ended
  <2>3. CASE pc' = [pc EXCEPT ![p] = AfterYes(request[p])] /\ UNCHANGED request
    <3>1. Stage[p] = "asking"
      BY <2>1, StageOf DEF Unasked, Ended
    <3>2. request[p] \in Request
      BY <1>0
    <3>3. pc'[p] = AfterYes(request[p]) /\ request'[p] = request[p]
      BY <1>0, <2>3
    <3>4. Stage'[p] = "agreed"
      BY <2>1, <3>3 DEF Stage, Unasked, NeedsYes, AfterYes, Ended
    <3>5. Stage' = [Stage EXCEPT ![p] = "agreed"]
      BY <1>0, <2>3, <3>4, StageMoves
    <3> QED BY <1>6, <3>1, <3>5 DEF Promise!Agree, Confirm
  <2> QED BY <1>6, <2>2, <2>3 DEF Confirm
<1>7. ASSUME NEW p \in Proc, Patch(p) \/ Create(p) \/ Delete(p)
      PROVE  Promise!Write(p)
  BY <1>3, <1>7, RefusedIsEnd DEF Patch, Create, Delete, Ended
<1>8. ASSUME NEW p \in Proc, Kill(p) PROVE Promise!Abandon(p)
  BY <1>2, <1>8 DEF Kill, Ended
<1>9. CASE Tick \/ UNCHANGED vars
  <2>1. UNCHANGED <<cluster, edits, Stage>>
    BY <1>9 DEF Tick, vars, Stage, Unasked
  <2> QED BY <2>1 DEF Promise!vars
<1>10. ASSUME NEW o, OtherWrite(o) PROVE Promise!Outside
  BY <1>10 DEF OtherWrite, Promise!Outside, Stage, Unasked
<1>11. CASE Others
  BY <1>9, <1>10, <1>11 DEF Others, OtherUpdate, OtherApply, OtherCreate, OtherDelete,
                           Promise!Next
<1>12. CASE \E p \in Proc : Step(p)
  BY <1>4, <1>5, <1>7, <1>12 DEF Step, Promise!Next, Promise!vars
<1>13. CASE Users
  BY <1>1, <1>6, <1>8, <1>13 DEF Users, Promise!Next
<1> QED BY <1>9, <1>11, <1>12, <1>13 DEF Next

\* Initial states are initial states of the promise.
LEMMA InitSimulation == Init => Simulation /\ Promise!Init
<1> SUFFICES ASSUME Init PROVE Simulation /\ Promise!Init
  OBVIOUS
<1>1. Simulation
  BY InitInv DEF Simulation, PcFitsRequest, Init
<1>2. Promise!Init
  BY DEF Promise!Init, Init, Stage, Ended
<1> QED BY <1>1, <1>2

\* At most one write per command, its last step, and none before a needed yes.
THEOREM PromiseKept == Spec => KeepsPromise
<1>1. ASSUME Simulation, [Next]_vars PROVE Simulation'
  BY <1>1, NextInv, NextFits DEF Simulation
<1> QED BY <1>1, InitSimulation, StepSimulation, PTL DEF Spec, KeepsPromise, Promise!Spec
=============================================================================
