------------------------------ MODULE Documents -----------------------------
(***************************************************************************)
(* internal/unstructured.go over the nested maps and lists it works on,    *)
(* and the modifyIntent functions as they call it.  Unstructured and       *)
(* Intents describe the same functions by what they amount to on a fixed   *)
(* set of paths; here they are recursive as in the code, with the cases    *)
(* the fixed set has no room for: lists, and nil where a managed path is   *)
(* gone from the object.                                                   *)
(*                                                                         *)
(* The system takes any object and any managed paths, extracts, and lets   *)
(* one command make its patch.                                             *)
(***************************************************************************)
EXTENDS Naturals, Sequences, FiniteSets, SequencesExt

CONSTANTS
    Absent, Repos, OptionLists, Times,  \* see Unstructured
    Names,      \* the names of fields
    MaxDepth,   \* how deep objects and managed paths go
    Objects,    \* the objects in the API server, as nested maps
    Managed(_), \* the managed paths an object may have
    Requests    \* the command lines

VARIABLES
    live,   \* the object that was read
    owned,  \* fieldsV1 of the CLI's entry: a set of sequences of path elements
    doc,    \* the intent, as the code has it
    flat,   \* the intent, as module Intents has it
    step    \* "read", "extracted", "built" or, after a local error, "failed"

vars == <<live, owned, doc, flat, step>>

Flat == INSTANCE Intents

-----------------------------------------------------------------------------
(* interface{}: maps, lists, values and nil; None is nothing at all.       *)

None == <<"none">>
Nil == <<"nil">>
Value(v) == <<"value", v>>
Map(f) == <<"map", f>>
List(s) == <<"list", s>>
NewMap == Map([n \in {} |-> Nil])

IsMap(x) == x[1] = "map"
Keys(x) == IF IsMap(x) THEN DOMAIN x[2] ELSE {}
Items(x) == IF x[1] = "list" THEN x[2] ELSE <<>>
FieldOf(x, n) == IF n \in Keys(x) THEN x[2][n] ELSE None
With(x, n, y) == Map([k \in Keys(x) \cup {n} |-> IF k = n THEN y ELSE x[2][k]])
Without(x, n) == Map([k \in Keys(x) \ {n} |-> x[2][k]])

\* Path elements: the field of a map, an item of a list by its "uid", a value of
\* a list.  A place in a document is a sequence of steps: the field of a map, an
\* item of a list by its index.
FieldName(n) == <<"f", n>>
Key(k) == <<"k", k>>
SetValue(v) == <<"v", v>>
Index(i) == <<"i", i>>

Element == ({"f"} \X Names) \cup ({"k", "v"} \X Nat)
Step == ({"f"} \X Names) \cup ({"i"} \X Nat)

\* The field names of the paths of module Unstructured.
NamesOf ==
    LET annotations == <<"metadata", "annotations">>
        spec == <<"spec">>
        backups == Append(spec, "backups")
        pgbackrest == Append(backups, "pgbackrest")
        manual == Append(pgbackrest, "manual")
        restore == Append(pgbackrest, "restore")
    IN  [p \in Flat!Path |->
            CASE p = "backupAnnotation"  -> Append(annotations, "backup")
              [] p = "restoreAnnotation" -> Append(annotations, "restore")
              [] p = "spec"              -> spec
              [] p = "instances"         -> Append(spec, "instances")
              [] p = "shutdown"          -> Append(spec, "shutdown")
              [] p = "backups"           -> backups
              [] p = "pgbackrest"        -> pgbackrest
              [] p = "repos"             -> Append(pgbackrest, "repos")
              [] p = "manual"            -> manual
              [] p = "manual.options"    -> Append(manual, "options")
              [] p = "manual.repoName"   -> Append(manual, "repoName")
              [] p = "restore"           -> restore
              [] p = "restore.enabled"   -> Append(restore, "enabled")
              [] p = "restore.options"   -> Append(restore, "options")
              [] p = "restore.repoName"  -> Append(restore, "repoName")]

ElementsOf(names) == [i \in DOMAIN names |-> FieldName(names[i])]

-----------------------------------------------------------------------------
(* The helpers of k8s.io/apimachinery.  A loop or a recursion of the code  *)
(* is a function of how far it has come.                                   *)

StepInto(x, s) ==
    IF s[1] = "f" THEN FieldOf(x, s[2])
    ELSE IF s[2] \in DOMAIN Items(x) THEN Items(x)[s[2]]
    ELSE None

\* What x has at a place.
At(x, place) ==
    LET at[i \in 0..Len(place)] ==
            IF i = 0 THEN x ELSE StepInto(at[i - 1], place[i])
    IN  at[Len(place)]

NestedField(x, names) == At(x, ElementsOf(names))

\* What is on the way has to be a map, or not to be there.
CanSet(x, names) ==
    \A i \in 1..(Len(names) - 1) :
        LET y == NestedField(x, SubSeq(names, 1, i)) IN IsMap(y) \/ y = None

\* From the last map on the way to the first, each with what is below it; one
\* that is not there is made.
SetNestedField(x, names, y) ==
    LET set[i \in 0..Len(names)] ==
            IF i = Len(names) THEN y
            ELSE With(NestedField(x, SubSeq(names, 1, i)), names[i + 1], set[i + 1])
    IN  set[0]

RemoveNestedField(x, names) ==
    IF NestedField(x, names) = None THEN x
    ELSE SetNestedField(x, Front(names),
                        Without(NestedField(x, Front(names)), Last(names)))

\* fieldpath.Set, as the set of its paths: the members and the children of the
\* node that a path leads to, and its Leaves.
Members(paths, path) ==
    {p[Len(path) + 1] : p \in
        {q \in paths : Len(q) = Len(path) + 1 /\ SubSeq(q, 1, Len(path)) = path}}

Children(paths, path) ==
    {p[Len(path) + 1] : p \in
        {q \in paths : Len(q) > Len(path) + 1 /\ SubSeq(q, 1, Len(path)) = path}}

Leaves(paths) == {p \in paths : \A q \in paths : ~IsStrictPrefix(p, q)}

-----------------------------------------------------------------------------
(* internal/unstructured.go                                                *)

\* Mutant: every item has the key.
objectHasKey_Any(item, key) == IsMap(item)

objectHasKey(item, key) == FieldOf(item, "uid") = Value(key)

\* Where a path element leads from x: to a field, to the items with a key, or to
\* the items that are a value.
StepsOf(x, e) ==
    IF e[1] = "f" THEN {e} \cap {FieldName(n) : n \in Keys(x)}
    ELSE {Index(i) : i \in
            {j \in DOMAIN Items(x) :
                \/ e[1] = "k" /\ objectHasKey(Items(x)[j], e[2])
                \/ e[1] = "v" /\ Items(x)[j] = Value(e[2])}}

\* Pairs of numbers in the order of the iterators: by the first, then by the second.
InOrder(pairs) ==
    CHOOSE s \in [1..Cardinality(pairs) -> pairs] :
        \A i, j \in DOMAIN s :
            i < j => s[i][1] < s[j][1] \/ (s[i][1] = s[j][1] /\ s[i][2] < s[j][2])

\* One call of extractDepthFirst is known by the place of its source in src and
\* by the path to its set in paths; "call" has the results of its own calls.
\*
\* The keys among the children, each with the items that have it.
KeyedItems(src, paths, place, path) ==
    LET items == Items(At(src, place))
    IN  {pair \in {e[2] : e \in {c \in Children(paths, path) : c[1] = "k"}} \X DOMAIN items :
            objectHasKey(items[pair[2]], pair[1])}

SetValues(paths, path) ==
    {<<e[2], 0>> : e \in {m \in Members(paths, path) : m[1] = "v"}}

\* What is managed of an item, with its key.
ItemOf(place, path, pair, call) ==
    LET item == call[<<Append(place, Index(pair[2])), Append(path, Key(pair[1]))>>]
    IN  IF IsMap(item) THEN With(item, "uid", Value(pair[1])) ELSE item

\* One list level: the items; then the managed values, whether the list has them
\* or not.
ListOf(src, paths, place, path, call) ==
    LET keyed  == InOrder(KeyedItems(src, paths, place, path))
        values == InOrder(SetValues(paths, path))
    IN  [i \in DOMAIN keyed |-> ItemOf(place, path, keyed[i], call)]
          \o [i \in DOMAIN values |-> Value(values[i][1])]

\* One map level: what src has of the children and of the members.
MapOf(src, paths, place, path, call) ==
    LET x == At(src, place)
        names  == {n \in Keys(x) : FieldName(n) \in Children(paths, path)}
        leaves == {n \in Keys(x) : FieldName(n) \in Members(paths, path)}
    IN  [n \in names \cup leaves |->
            IF n \in leaves THEN x[2][n]
            ELSE call[<<Append(place, FieldName(n)), Append(path, FieldName(n))>>]]

\* Nil when nothing is found; a child that is found is assigned, nil or not.
Extracted(src, paths, place, path, call) ==
    LET map  == MapOf(src, paths, place, path, call)
        list == ListOf(src, paths, place, path, call)
    IN  IF DOMAIN map # {} THEN Map(map)
        ELSE IF list # <<>> THEN List(list)
        ELSE Nil

extractDepthFirst(src, paths) ==
    LET call[c \in Seq(Step) \X Seq(Element)] == Extracted(src, paths, c[1], c[2], call)
    IN  call[<<<<>>, <<>>>>]

\* Mutant: sections are members too, with all they hold.
ExtractFieldsInto_Sections(src, paths) ==
    LET result == extractDepthFirst(src, paths)
    IN  IF IsMap(result) THEN result ELSE NewMap

\* ExtractFieldsInto: anything but a map at the top becomes an empty object.
ExtractFieldsInto(src, paths) ==
    LET result == extractDepthFirst(src, Leaves(paths))
    IN  IF IsMap(result) THEN result ELSE NewMap

\* RemoveEmptyField: nil, the zero value of a type, an empty map or list.
RemoveEmptyField(x, names) ==
    IF NestedField(x, names) \in {None, Nil, NewMap, List(<<>>), Value("false")}
    THEN RemoveNestedField(x, names) ELSE x

\* Mutant: from the shallowest section to the deepest.
RemoveEmptySections_TopDown(x, sections) ==
    LET after[i \in 0..Len(sections)] ==
            IF i = 0 THEN x ELSE RemoveEmptyField(after[i - 1], SubSeq(sections, 1, i))
    IN  after[Len(sections)]

\* RemoveEmptySections: from the deepest section to the shallowest.
RemoveEmptySections(x, sections) ==
    LET after[i \in 1..(Len(sections) + 1)] ==
            IF i > Len(sections) THEN x
            ELSE RemoveEmptyField(after[i + 1], SubSeq(sections, 1, i))
    IN  after[1]

-----------------------------------------------------------------------------
(* modifyIntent.  A result is Nil when an error ends the function.         *)

\* SetAnnotations ignores the error of SetNestedField.
Annotate(x, annotation, v) ==
    LET names == NamesOf[annotation]
        map   == Front(names)
        merged == With(NestedField(x, map), Last(names), Value(v))
    IN  IF CanSet(x, map) THEN SetNestedField(x, map, merged) ELSE x

Set(x, p, v) ==
    IF x # Nil /\ CanSet(x, NamesOf[p])
    THEN SetNestedField(x, NamesOf[p], Value(v)) ELSE Nil

\* A flag, or its absence.
Flag(x, p, v) ==
    IF x = Nil THEN Nil
    ELSE IF v = Absent THEN RemoveNestedField(x, NamesOf[p])
    ELSE Set(x, p, v)

BackupIntent(x, r, time) ==
    LET options  == Flag(Annotate(x, "backupAnnotation", time), "manual.options", r.options)
        repoName == Flag(options, "manual.repoName", r.repoName)
    IN  IF repoName = Nil THEN Nil ELSE RemoveEmptySections(repoName, NamesOf["manual"])

RestoreIntent(x, r, time) ==
    LET enabled == Set(Annotate(x, "restoreAnnotation", time), "restore.enabled", "true")
        options == Flag(enabled, "restore.options", r.options)
    IN  Flag(options, "restore.repoName", r.repoName)

DisableIntent(x) ==
    RemoveEmptySections(RemoveNestedField(x, NamesOf["restore"]), NamesOf["pgbackrest"])

ModifyIntent(x, r, time) ==
    CASE r.command = "backup"  -> BackupIntent(x, r, time)
      [] r.command = "restore" -> RestoreIntent(x, r, time)
      [] r.command = "disable" -> DisableIntent(x)
      [] OTHER                 -> Set(x, "shutdown", Flat!ShutdownValue(r))

-----------------------------------------------------------------------------
(* What objects and managed paths are like.                                *)

\* The places a path leads to.
Reach(x, path) ==
    LET reach[i \in 0..Len(path)] ==
            IF i = 0 THEN {<<>>}
            ELSE UNION {{Append(place, s) : s \in StepsOf(At(x, place), path[i])} :
                          place \in reach[i - 1]}
    IN  reach[Len(path)]

\* All places of a document.
Places(x) ==
    LET places[i \in 0..MaxDepth] ==
            IF i = 0 THEN {<<>>}
            ELSE UNION {LET y == At(x, place)
                        IN  {Append(place, FieldName(n)) : n \in Keys(y) \cap Names}
                              \cup {Append(place, Index(j)) : j \in DOMAIN Items(y) \cap Nat} :
                          place \in places[i - 1]}
    IN  UNION {places[i] : i \in 0..MaxDepth}

HasNil(x) == \E place \in Places(x) : At(x, place) = Nil
-----------------------------------------------------------------------------

\* A document as a tree of module Unstructured; nil is no field and no map.
Flatten(x) ==
    [fields |-> [f \in Flat!Field |->
                    LET y == NestedField(x, NamesOf[f])
                    IN  IF y[1] = "value" THEN y[2] ELSE Absent],
     empty  |-> {s \in Flat!Section : NestedField(x, NamesOf[s]) = NewMap}]

\* The managed paths module Unstructured knows.
FlatOwned == {p \in Flat!Path : ElementsOf(NamesOf[p]) \in owned}

Init ==
    /\ live \in Objects
    /\ owned \in Managed(live)
    /\ doc = NewMap
    /\ flat = Flat!NoTree
    /\ step = "read"

Extract ==
    /\ step = "read"
    /\ doc' = ExtractFieldsInto(live, owned)
    /\ flat' = Flat!ExtractDepthFirst(Flatten(live).fields, FlatOwned)
    /\ step' = "extracted"
    /\ UNCHANGED <<live, owned>>

Modify(r, time) ==
    /\ step = "extracted"
    /\ LET built == ModifyIntent(doc, r, time)
       IN  /\ doc' = built
           /\ step' = IF built = Nil THEN "failed" ELSE "built"
    /\ flat' = Flat!ModifyIntent(flat, r, time)
    /\ UNCHANGED <<live, owned>>

Next == Extract \/ \E r \in Requests, time \in Times : Modify(r, time)

Spec == Init /\ [][Next]_vars

-----------------------------------------------------------------------------

\* A document without null and no deeper than MaxDepth, whose fields have Names and
\* whose lists are lists and have one item of a key.
IsDocument(x) ==
    /\ ~HasNil(x)
    /\ \A place \in Places(x) :
          LET keys  == Keys(At(x, place))
              items == Items(At(x, place))
          IN  /\ keys \subseteq Names
              /\ \A n \in keys : FieldOf(At(x, place), n) # None
              /\ IsMap(At(x, place)) =>
                    At(x, place) = Map([n \in keys |-> FieldOf(At(x, place), n)])
              /\ Len(items) \in Nat
              /\ DOMAIN items = 1..Len(items)
              /\ Len(place) = MaxDepth => keys = {} /\ items = <<>>
              /\ \A i, j \in DOMAIN items :
                    (i # j /\ "uid" \in Keys(items[i]))
                        => FieldOf(items[i], "uid") # FieldOf(items[j], "uid")

\* The paths of module Unstructured are where it has them: sections are maps that
\* hold nothing else, and fields are values.
IsCluster(x) ==
    /\ IsMap(x)
    /\ \A names \in {<<"metadata">>, <<"metadata", "annotations">>} :
          NestedField(x, names) = None \/ IsMap(NestedField(x, names))
    /\ \A s \in Flat!Section :
          LET y == NestedField(x, NamesOf[s])
          IN  \/ y = None
              \/ IsMap(y) /\ \A n \in Keys(y) :
                              \E p \in Flat!Path : NamesOf[p] = Append(NamesOf[s], n)
    /\ \A f \in Flat!Field :
          LET y == NestedField(x, NamesOf[f])
          IN  y = None \/ \E v \in Flat!ValueOf[f] : y = Value(v)

ObjectsAssumption == \A x \in Objects : IsDocument(x) /\ IsCluster(x)

ASSUME ObjectsAssumption

\* The lists ListsFollowTheirKeys is about.
ownerReferences == ElementsOf(<<"metadata", "ownerReferences">>)
finalizers == ElementsOf(<<"metadata", "finalizers">>)

\* A managed path is one of module Unstructured, has nothing to do with them, or
\* is a map on the way to an annotation that is managed.  The last element of a
\* leaf is a field or a value.  By their types, an item of ownerReferences is known
\* by its key and one of finalizers is a value.
IsManaged(paths) ==
    /\ IsFiniteSet(paths)
    /\ \A p \in paths :
          /\ p \in Seq(Element)
          /\ Len(p) \in 1..MaxDepth
          /\ \/ \E q \in Flat!Path : p = ElementsOf(NamesOf[q])
             \/ \A q \in Flat!Path : /\ ~IsPrefix(p, ElementsOf(NamesOf[q]))
                                     /\ ~IsPrefix(ElementsOf(NamesOf[q]), p)
             \/ p \in {ElementsOf(<<"metadata">>), ElementsOf(<<"metadata", "annotations">>)}
                  /\ p \notin Leaves(paths)
          /\ p \in Leaves(paths) => p[Len(p)][1] # "k"
          /\ IsStrictPrefix(ownerReferences, p) => p[3][1] = "k"
          /\ IsStrictPrefix(finalizers, p) => p[3][1] = "v"

ManagedAssumption == \A x \in Objects : \A paths \in Managed(x) : IsManaged(paths)

ASSUME ManagedAssumption

RequestsAssumption ==
    /\ Requests \subseteq Flat!Request
    /\ \A r \in Requests : r.command \in {"backup", "restore", "disable", "start", "stop"}

ASSUME RequestsAssumption

NamesAssumption ==
    /\ MaxDepth \in Nat
    /\ {"metadata", "annotations", "ownerReferences", "finalizers", "uid"} \subseteq Names
    /\ \A p \in Flat!Path : NamesOf[p] \in Seq(Names)

ASSUME NamesAssumption

\* What module Unstructured assumes.
ValuesAssumption == \A f \in Flat!Field : Absent \notin Flat!ValueOf[f]

ASSUME ValuesAssumption

-----------------------------------------------------------------------------

\* managedFields names nothing the object has lost: wherever a path has led, it
\* leads on.
Tracked ==
    \A path \in owned : \A i \in 1..Len(path) :
        \A place \in Reach(live, SubSeq(path, 1, i - 1)) :
            StepsOf(At(live, place), path[i]) # {}

\* No empty map of the object is below a section that is copied whole: the trees
\* of module Unstructured that stand for objects have no empty sections.
Full == \A s \in Flatten(live).empty : Flat!LeavesOf(FlatOwned) \cap Flat!Above(s) = {}

\* Where managedFields follows the object, as the API server sees to, a command
\* never fails between its read and its patch, no patch has a null in it, and
\* the patch is the one module Intents describes: extracting recursively,
\* removing keys one by one and pruning from the bottom come to the same.
IntentsAgree ==
    Tracked =>
        /\ step # "failed"
        /\ ~HasNil(doc)
        /\ Full => Flatten(doc) = flat

\* Where managedFields names something that is gone, a null or a local error may
\* come of it, but never a setting nobody made: what is extracted has the value
\* it has in the object, and is managed or under a section that is, as a leaf.
OnlyWhatIsManaged ==
    step = "extracted" =>
        \A f \in Flat!Field :
            LET field == NestedField(doc, NamesOf[f])
            IN  field # None =>
                    /\ field = NestedField(live, NamesOf[f])
                    /\ \E p \in Flat!LeavesOf(FlatOwned) : f \in Flat!Subtree(p)

\* Of a list of items with a key that is not managed as a whole, the patch has, in
\* the order of their keys, those that are managed, each with its key and its
\* managed fields, which have the values of one item of the object; of a list of
\* values it has the managed ones.
ListsFollowTheirKeys ==
    step = "extracted" /\ Tracked =>
        LET items  == Items(At(doc, ownerReferences))
            source == Items(At(live, ownerReferences))
            InItem(key) ==
                {p \in owned : IsStrictPrefix(Append(ownerReferences, Key(key)), p)}
            KeyOf(item) == FieldOf(item, "uid")[2]
        IN  /\ ownerReferences \notin Leaves(owned) =>
                /\ {KeyOf(items[i]) : i \in DOMAIN items} =
                      {p[3][2] : p \in {q \in owned : IsStrictPrefix(ownerReferences, q)}}
                /\ \A i, j \in DOMAIN items : i < j => KeyOf(items[i]) < KeyOf(items[j])
                /\ \A i \in DOMAIN items : \E j \in DOMAIN source :
                      LET key == KeyOf(items[i])
                      IN  /\ objectHasKey(items[i], key)
                          /\ objectHasKey(source[j], key)
                          /\ Keys(items[i]) = {"uid"} \cup {p[4][2] : p \in InItem(key)}
                          /\ \A n \in Keys(items[i]) :
                                ownerReferences \o <<Key(key), FieldName(n)>> \in Leaves(owned)
                                    => FieldOf(items[i], n) = FieldOf(source[j], n)
            /\ finalizers \notin Leaves(owned) =>
                ToSet(Items(At(doc, finalizers))) =
                    {Value(p[3][2]) : p \in {q \in owned : IsStrictPrefix(finalizers, q)}}
=============================================================================
