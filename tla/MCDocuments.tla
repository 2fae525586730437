----------------------------- MODULE MCDocuments ----------------------------
(***************************************************************************)
(* Objects with a few of the settings in every combination, and objects    *)
(* with lists.  CLI and others may each own any of it; at most MaxGone of   *)
(* the managed paths are gone from the object.                             *)
(***************************************************************************)
EXTENDS Documents

CONSTANT MaxGone

SettingFields ==
    {"backupAnnotation", "restoreAnnotation", "manual.options", "manual.repoName",
     "restore.repoName", "shutdown"}
LiveValue == [f \in SettingFields |->
    CASE f = "shutdown"       -> "true"
      [] f = "manual.options" -> "options"
      [] f \in {"manual.repoName", "restore.repoName"} -> "repo1"
      [] OTHER -> 0]

\* Everything the objects have fields for.
MCNames ==
    UNION {ToSet(NamesOf[p]) : p \in Flat!Path}
        \cup {"ownerReferences", "finalizers", "uid", "value"}

\* An object always has metadata and spec.instances.
Bare == SetNestedField(With(NewMap, "metadata", NewMap), NamesOf["instances"],
                       Value("present"))

SetAll(x, fields, values(_)) ==
    FoldLeft(LAMBDA y, f : SetNestedField(y, NamesOf[f], values(f)), x, SetToSeq(fields))

\* Sections without content are there as well as not.
SettingObjects ==
    LET Filled(fields) == SetAll(Bare, fields, LAMBDA f : Value(LiveValue[f]))
        Free(fields) == {s \in {"manual", "restore"} : Flat!Under[s] \cap fields = {}}
    IN  UNION {{SetAll(Filled(fields), sections, LAMBDA s : NewMap) :
                    sections \in SUBSET Free(fields)} : fields \in SUBSET SettingFields}

Item(key, fields) ==
    Map([n \in fields \cup {"uid"} |-> IF n = "uid" THEN Value(key) ELSE Value("x")])

\* Two items, the second key first or not, and two finalizers.
ListObjects ==
    {SetNestedField(SetNestedField(Bare, <<"metadata", "ownerReferences">>, List(items)),
                    <<"metadata", "finalizers">>, List(<<Value(2), Value(1)>>)) :
        items \in {<<Item(k, F), Item(3 - k, G)>> :
                      k \in {1, 2}, F \in SUBSET {"value"}, G \in SUBSET {"value"}}}

MCObjects == SettingObjects \cup ListObjects

\* What an applied configuration is recorded as: every item with its key, and
\* maps and items themselves as members beside what they hold.
ListPaths ==
    LET OfItem(k, fields) ==
            {ownerReferences \o <<Key(k)>>}
            \cup {ownerReferences \o <<Key(k), FieldName(n)>> : n \in fields \cup {"uid"}}
    IN  {UNION {OfItem(k, chosen[k]) : k \in keys}
           \cup {Append(finalizers, SetValue(v)) : v \in values} :
              keys \in SUBSET {1, 2}, values \in SUBSET {1, 2},
              chosen \in [{1, 2} -> SUBSET {"value"}]}

MCManaged(x) ==
    LET paths == {ElementsOf(NamesOf[p]) : p \in SettingFields \cup
                     {"spec", "pgbackrest", "manual", "restore"}}
        there == {p \in paths : Reach(x, p) # {}}
    IN  IF x \in ListObjects THEN ListPaths
        ELSE {old \cup gone : old \in SUBSET there,
                 gone \in {g \in SUBSET (paths \ there) : Cardinality(g) <= MaxGone}}

Line(command, options, repoName) ==
    [command |-> command, options |-> options, repoName |-> repoName,
     force |-> FALSE, disableBackups |-> FALSE]

MCRequests ==
    {Line("backup", Absent, Absent), Line("backup", "options", Absent),
     Line("backup", Absent, "repo1"),
     Line("restore", Absent, "repo1"), Line("restore", "options", Absent),
     Line("disable", Absent, Absent), Line("stop", Absent, Absent)}
=============================================================================
