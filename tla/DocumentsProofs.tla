--------------------------- MODULE DocumentsProofs ---------------------------
(***************************************************************************)
(* Proofs about Documents, for every object, every set of managed paths    *)
(* and every command line.  The intent is at every step a function of what *)
(* was read: the extraction of the object, or that changed by one command. *)
(* So a theorem about the system is one about these functions.             *)
(*                                                                         *)
(* A document Stands for a tree of module Unstructured when it is null     *)
(* free, its sections are maps and it flattens to the tree.  Each          *)
(* operation of the commands keeps that, setting and removing a field,     *)
(* pruning and extracting included; where managedFields follows the        *)
(* object, the extraction Stands for the one of module Intents, and a      *)
(* document that Stands for a tree is not nil, so no command fails.        *)
(***************************************************************************)
EXTENDS DocumentsLemmas

-----------------------------------------------------------------------------
(* The invariant, and what can be extracted.                               *)

\* The intent as it is extracted.
Copied == ExtractFieldsInto(live, owned)
\* The intent as module Intents has it extracted.
FlatCopied == Flat!ExtractDepthFirst(Flatten(live).fields, FlatOwned)

\* The intent of both modules at each step, as a function of what was read.
IInv ==
    /\ live \in Objects
    /\ owned \in Managed(live)
    /\ step \in {"read", "extracted", "built", "failed"}
    /\ step = "read" => doc = NewMap /\ flat = Flat!NoTree
    /\ step = "extracted" => doc = Copied /\ flat = FlatCopied
    /\ step \in {"built", "failed"} =>
          \E r \in Requests, time \in Times :
              /\ doc = ModifyIntent(Copied, r, time)
              /\ flat = Flat!ModifyIntent(FlatCopied, r, time)
              /\ step = "failed" <=> doc = Nil

\* IInv is an invariant.
LEMMA Invariant == Spec => []IInv
<1>1. Init => IInv
  BY DEF Init, IInv
<1>2. IInv /\ [Next]_vars => IInv'
  <2> SUFFICES ASSUME IInv, [Next]_vars PROVE IInv'
    OBVIOUS
  <2>1. ASSUME Extract PROVE IInv'
    BY <2>1 DEF Extract, IInv, Copied, FlatCopied, Flatten, FlatOwned
  <2>2. ASSUME NEW r \in Requests, NEW time \in Times, Modify(r, time) PROVE IInv'
    <3>1. /\ live' = live /\ owned' = owned
          /\ doc' = ModifyIntent(doc, r, time)
          /\ flat' = Flat!ModifyIntent(flat, r, time)
          /\ step' = IF doc' = Nil THEN "failed" ELSE "built"
          /\ doc = Copied /\ flat = FlatCopied
      BY <2>2 DEF Modify, IInv
    <3>2. Copied' = Copied /\ FlatCopied' = FlatCopied
      BY <3>1 DEF Copied, FlatCopied, Flatten, FlatOwned
    <3> QED BY <3>1, <3>2 DEF IInv
  <2>3. CASE UNCHANGED vars
    BY <2>3 DEF vars, IInv, Copied, FlatCopied, Flatten, FlatOwned
  <2> QED BY <2>1, <2>2, <2>3 DEF Next
<1> QED BY <1>1, <1>2, PTL DEF Spec

\* Whatever the object and the managed paths are, those that follow the object and those
\* that do not, what is extracted has the value it has in the object, and is managed or
\* under a section that is, as a leaf.
THEOREM OnlyWhatIsManagedTheorem == Spec => []OnlyWhatIsManaged
<1>1. IInv => OnlyWhatIsManaged
  <2> SUFFICES ASSUME IInv, step = "extracted", NEW f \in Flat!Field,
                      NestedField(doc, NamesOf[f]) # None
               PROVE  /\ NestedField(doc, NamesOf[f]) = NestedField(live, NamesOf[f])
                      /\ \E p \in Flat!LeavesOf(FlatOwned) : f \in Flat!Subtree(p)
    BY DEF OnlyWhatIsManaged
  <2>1. live \in Objects /\ owned \in Managed(live) /\ doc = ExtractFieldsInto(live, owned)
    BY DEF IInv, Copied
  <2>2. PICK call : /\ IsCalls(live, Leaves(owned), call)
                    /\ extractDepthFirst(live, Leaves(owned)) = call[<<<<>>, <<>>>>]
    BY <2>1, ManagedIs, ExtractionIsACall
  <2>3. f \in Flat!Path /\ Flat!Subtree(f) = {f}
    BY ThePaths DEF Flat!Subtree
  <2>4. NestedField(doc, NamesOf[f]) =
            IF \E q \in Flat!LeavesOf(FlatOf(owned)) : f \in Flat!Subtree(q)
            THEN NestedField(live, NamesOf[f])
            ELSE None
    <3>1. ~\E q \in Flat!LeavesOf(FlatOf(owned)) : q \in Flat!Subtree(f) \ {f}
      BY <2>3
    <3> QED BY <2>1, <2>2, <2>3, <3>1, PathExtracted
  <2>5. FlatOwned = FlatOf(owned)
    BY DEF FlatOwned, FlatOf, PlaceOf
  <2> QED BY <2>4, <2>5
<1> QED BY <1>1, Invariant, PTL

-----------------------------------------------------------------------------
(* Documents as the commands know them.                                    *)

\* What a document has at a path of module Unstructured.
Got(x, p) == NestedField(x, NamesOf[p])

\* A map that holds nothing but paths of module Unstructured.
IsSection(y, s) ==
    /\ y = Map([n \in Keys(y) |-> FieldOf(y, n)])
    /\ \A n \in Keys(y) : /\ FieldOf(y, n) # None
                          /\ \E p \in Flat!Path : NamesOf[p] = Append(NamesOf[s], n)

\* What IsCluster says of an object, and no null: this holds of the intent, too.
Shape(x) ==
    /\ IsMap(x)
    /\ NoNil(x)
    /\ \A names \in {<<"metadata">>, annotations} :
          NestedField(x, names) = None \/ IsMap(NestedField(x, names))
    /\ \A s \in Flat!Section : Got(x, s) = None \/ IsSection(Got(x, s), s)
    /\ \A f \in Flat!Field :
          Got(x, f) = None \/ \E v \in Flat!ValueOf[f] : Got(x, f) = Value(v)

\* The paths a document has.
There(x) == {p \in Flat!Path : Got(x, p) # None}

\* A section is a map.
LEMMA SectionIsMap ==
    ASSUME NEW y, NEW s, IsSection(y, s)
    PROVE  IsMap(y) /\ y # None /\ y # Nil
<1> DEFINE f == [n \in Keys(y) |-> FieldOf(y, n)]
<1>1. y = Map(f)
  BY DEF IsSection
<1> HIDE DEF f
<1> QED BY <1>1 DEF Map, IsMap, None, Nil

\* Only the empty section is an empty map.
LEMMA EmptySection ==
    ASSUME NEW y, NEW s, IsSection(y, s)
    PROVE  y = NewMap <=> Keys(y) = {}
<1>1. ASSUME Keys(y) = {}
      PROVE  y = NewMap
  <2>1. y = Map([n \in {} |-> FieldOf(y, n)])
    BY <1>1 DEF IsSection
  <2>2. [n \in {} |-> FieldOf(y, n)] = [n \in {} |-> Nil]
    OBVIOUS
  <2> QED BY <2>1, <2>2 DEF NewMap
<1>2. Keys(NewMap) = {}
  BY DEF Keys, IsMap, NewMap, Map
<1> QED BY <1>1, <1>2

\* A section with another of its fields.
LEMMA SectionWith ==
    ASSUME NEW y, NEW s, y = None \/ IsSection(y, s), NEW n, NEW z, z # None,
           NEW p \in Flat!Path, NamesOf[p] = Append(NamesOf[s], n)
    PROVE  IsSection(With(y, n, z), s)
<1> DEFINE w == With(y, n, z)
<1>1. /\ Keys(w) = Keys(y) \cup {n}
      /\ \A m : FieldOf(w, m) = IF m = n THEN z ELSE FieldOf(y, m)
  <2>1. Keys(w) = Keys(y) \cup {n}
    BY FieldOfWith
  <2>2. ASSUME NEW m PROVE FieldOf(w, m) = IF m = n THEN z ELSE FieldOf(y, m)
    BY FieldOfWith
  <2> QED BY <2>1, <2>2
<1>2. w = Map([m \in Keys(w) |-> FieldOf(w, m)])
  <2>1. w = Map([m \in Keys(y) \cup {n} |-> IF m = n THEN z ELSE y[2][m]])
    BY DEF With
  <2>2. [m \in Keys(y) \cup {n} |-> IF m = n THEN z ELSE y[2][m]] = [m \in Keys(w) |-> FieldOf(w, m)]
    <3>1. \A m \in Keys(y) : FieldOf(y, m) = y[2][m]
      BY DEF FieldOf
    <3> HIDE DEF w
    <3> QED BY <1>1, <3>1
  <2> QED BY <2>1, <2>2
<1>3. Keys(None) = {}
  BY DEF Keys, IsMap, None
<1>4. ASSUME NEW m \in Keys(w)
      PROVE  FieldOf(w, m) # None /\ \E q \in Flat!Path : NamesOf[q] = Append(NamesOf[s], m)
  <2> HIDE DEF w
  <2> QED BY <1>1, <1>3 DEF IsSection
<1> QED BY <1>2, <1>4 DEF IsSection

\* A section without a field is a section.
LEMMA SectionWithout ==
    ASSUME NEW y, NEW s, IsSection(y, s), NEW n
    PROVE  IsSection(Without(y, n), s)
<1> DEFINE w == Without(y, n)
<1>1. Keys(w) = Keys(y) \ {n} /\ \A m : FieldOf(w, m) = IF m = n THEN None ELSE FieldOf(y, m)
  BY FieldOfWithout
<1>2. w = Map([m \in Keys(w) |-> FieldOf(w, m)])
  <2>1. w = Map([m \in Keys(y) \ {n} |-> y[2][m]])
    BY DEF Without
  <2>2. [m \in Keys(y) \ {n} |-> y[2][m]] = [m \in Keys(w) |-> FieldOf(w, m)]
    <3>1. \A m \in Keys(y) : FieldOf(y, m) = y[2][m]
      BY DEF FieldOf
    <3> HIDE DEF w
    <3> QED BY <1>1, <3>1
  <2> QED BY <2>1, <2>2
<1>3. ASSUME NEW m \in Keys(w)
      PROVE  FieldOf(w, m) # None /\ \E q \in Flat!Path : NamesOf[q] = Append(NamesOf[s], m)
  <2> HIDE DEF w
  <2> QED BY <1>1 DEF IsSection
<1> QED BY <1>2, <1>3 DEF IsSection

\* Between a section and a path below it there are only paths.
LEMMA NextPath ==
    ASSUME NEW s \in Flat!Section, NEW f \in Flat!Path, NEW n \in Names,
           IsPrefix(Append(NamesOf[s], n), NamesOf[f])
    PROVE  \E p \in Flat!Path : NamesOf[p] = Append(NamesOf[s], n)
<1> DEFINE longer == Append(NamesOf[s], n)
<1>0. NamesOf[s] \in Seq(Names) /\ longer \in Seq(Names)
  BY PathsAreNames, AppendProperties DEF Flat!Path
<1> HIDE DEF longer
<1>1. ~IsPrefix(longer, <<>>) /\ ~IsPrefix(longer, annotations)
  <2>1. ~IsPrefix(longer, <<>>)
    BY <1>0, NoPrefixOfEmpty DEF longer
  <2>2. ~IsPrefix(NamesOf[s], annotations)
    BY NoPrefixOfAnnotations DEF Flat!Path
  <2>3. IsPrefix(NamesOf[s], longer)
    BY <1>0, PrefixOfItself, PrefixOfAppend DEF longer
  <2>4. ~IsPrefix(longer, annotations)
    BY <1>0, <2>2, <2>3, PrefixTransitive, AnnotationsAreNames
  <2> QED BY <2>1, <2>4
<1> DEFINE Fine(names) == IsPrefix(longer, names) => \E p \in Flat!Path : NamesOf[p] = longer
<1>2. ASSUME NEW q \in Flat!Path, Fine(FrontOf[q])
      PROVE  Fine(NamesOf[q])
  <2> DEFINE t == FrontOf[q]
             k == LastOf[q]
  <2>1. t \in Seq(Names) /\ k \in Names /\ NamesOf[q] = Append(t, k)
    BY PathIs
  <2> HIDE DEF t, k
  <2>2. IsPrefix(longer, Append(t, k)) <=> longer = Append(t, k) \/ IsPrefix(longer, t)
    BY <1>0, <2>1, PrefixOfAppend
  <2> QED BY <1>2, <2>1, <2>2 DEF t
<1> DEFINE F(q) == Fine(NamesOf[q])
<1>3. F("spec")
  BY <1>1, <1>2, ThePaths, FrontTable
<1>4. Fine(annotations)
  BY <1>1
<1> HIDE DEF Fine
<1>5. F("backups") /\ F("shutdown") /\ F("instances")
  BY <1>2, <1>3, ThePaths, FrontTable
<1>6. F("pgbackrest")
  BY <1>2, <1>5, ThePaths, FrontTable
<1>7. F("manual") /\ F("restore") /\ F("repos")
  BY <1>2, <1>6, ThePaths, FrontTable
<1>8. /\ F("manual.options") /\ F("manual.repoName") /\ F("restore.options")
      /\ F("restore.repoName") /\ F("restore.enabled")
  BY <1>2, <1>7, ThePaths, FrontTable
<1>9. F("backupAnnotation") /\ F("restoreAnnotation")
  BY <1>2, <1>4, ThePaths, FrontTable
<1>10. F(f)
  BY <1>3, <1>5, <1>6, <1>7, <1>8, <1>9, ThePaths
<1> QED BY <1>10 DEF Fine, longer

-----------------------------------------------------------------------------
(* The tree of the paths.                                                  *)

\* Sections are in each other or apart.
LEMMA TreeOfPaths ==
    /\ \A s \in Flat!Section : s \notin Flat!Under[s] /\ Flat!Under[s] \subseteq Flat!Path
    /\ \A s, t \in Flat!Section : t \in Flat!Under[s] => Flat!Under[t] \subseteq Flat!Under[s]
    /\ \A s, t \in Flat!Section : \A p \in Flat!Path :
          p \in Flat!Under[s] /\ p \in Flat!Under[t] =>
              s = t \/ s \in Flat!Under[t] \/ t \in Flat!Under[s]
BY UnderTable, ThePaths DEF Flat!ManualFields, Flat!RestoreFields

\* A document has all sections above what it has.
LEMMA ThereUp ==
    ASSUME NEW x, NEW s \in Flat!Section, NEW p \in There(x), p \in Flat!Under[s]
    PROVE  s \in There(x)
<1>1. s \in Flat!Path /\ p \in Flat!Path
  BY DEF Flat!Path, There
<1>2. IsPrefix(NamesOf[s], NamesOf[p])
  BY <1>1, PathTree DEF Flat!Subtree
<1>3. NamesOf[s] \in Seq(Names) /\ NamesOf[p] \in Seq(Names)
  BY <1>1, PathsAreNames
<1>4. PICK r \in Seq(Names) : NamesOf[p] = NamesOf[s] \o r
  BY <1>2, <1>3, PrefixSplits
<1>5. Got(x, p) = NestedField(Got(x, s), r)
  BY <1>3, <1>4, NestedFieldConcat DEF Got
<1>6. NestedField(None, r) = None
  <2>1. None[1] \notin {"map", "list"}
    BY DEF None
  <2> QED BY <2>1, NestedFieldNothing, NestedFieldEmpty
<1>7. Got(x, s) # None
  BY <1>5, <1>6 DEF There
<1> QED BY <1>1, <1>7 DEF There

\* There is nothing in an empty map.
LEMMA NothingInNewMap ==
    ASSUME NEW names \in Seq(Names), names # <<>>
    PROVE  NestedField(NewMap, names) = None
<1> DEFINE T == {m \in Seq(Names) : NestedField(NewMap, m) \in {NewMap, None}}
           Empty(y) == \A n : FieldOf(y, n) = None
<1>1. <<>> \in T
  BY NestedFieldEmpty
<1>2. Empty(NewMap) /\ Empty(None)
  BY DEF FieldOf, Keys, IsMap, NewMap, Map, None
<1>3. ASSUME NEW m \in Seq(Names), NEW n \in Names, m \in T
      PROVE  NestedField(NewMap, Append(m, n)) = None
  BY <1>2, <1>3, NestedFieldAppend
<1>4. \A m \in Seq(Names), n \in Names : m \in T => Append(m, n) \in T
  BY <1>3, AppendProperties
<1>5. PICK m \in Seq(Names), n \in Names : names = Append(m, n)
  BY SequenceEmptyOrAppend
<1> HIDE DEF T
<1>6. m \in T
  BY <1>1, <1>4, SequenceInduction
<1> QED BY <1>3, <1>5, <1>6

\* A section is an empty map when nothing is there below it.
LEMMA SectionIsEmpty ==
    ASSUME NEW x, Shape(x), NEW s \in Flat!Section
    PROVE  Got(x, s) = NewMap <=> s \in There(x) /\ Flat!Under[s] \cap There(x) = {}
<1> DEFINE y == Got(x, s)
<1>0. s \in Flat!Path /\ NamesOf[s] \in Seq(Names)
  BY PathsAreNames DEF Flat!Path
<1>1. ASSUME y = NewMap, NEW p \in Flat!Under[s] \cap There(x)
      PROVE  FALSE
  <2>1. p \in Flat!Path /\ p \in Flat!Subtree(s) /\ p # s
    BY <1>1, TreeOfPaths DEF There, Flat!Subtree
  <2>2. NamesOf[p] \in Seq(Names) /\ IsPrefix(NamesOf[s], NamesOf[p])
    BY <1>0, <2>1, PathTree, PathsAreNames
  <2>3. NamesOf[s] # NamesOf[p]
    BY <1>0, <2>1, PlaceTree DEF PlaceOf
  <2>4. PICK r \in Seq(Names) : NamesOf[p] = NamesOf[s] \o r
    BY <1>0, <2>2, PrefixSplits
  <2>5. r # <<>>
    BY <1>0, <2>3, <2>4, ConcatEmptySeq
  <2>6. Got(x, p) = NestedField(NewMap, r)
    BY <1>0, <1>1, <2>4, NestedFieldConcat DEF Got
  <2> QED BY <1>1, <2>5, <2>6, NothingInNewMap DEF There
<1>2. y = NewMap => y # None
  BY DEF NewMap, Map, None
<1>3. ASSUME y # None, Flat!Under[s] \cap There(x) = {}
      PROVE  y = NewMap
  <2>1. IsSection(y, s)
    BY <1>3 DEF Shape
  <2>2. ASSUME NEW n \in Keys(y)
        PROVE  FALSE
    <3>1. PICK p \in Flat!Path : NamesOf[p] = Append(NamesOf[s], n)
      BY <2>1, <2>2 DEF IsSection
    <3>2. n \in Names
      BY <1>0, <3>1, LastIsAName, PathsAreNames
    <3>3. Got(x, p) = FieldOf(y, n)
      BY <1>0, <3>1, <3>2, NestedFieldAppend DEF Got
    <3>4. Got(x, p) # None
      BY <2>1, <2>2, <3>3 DEF IsSection
    <3>5. IsPrefix(NamesOf[s], NamesOf[p]) /\ NamesOf[s] # NamesOf[p]
      <4>1. IsPrefix(NamesOf[s], Append(NamesOf[s], n))
        BY <1>0, <3>2, PrefixOfItself, PrefixOfAppend
      <4>2. Len(Append(NamesOf[s], n)) = Len(NamesOf[s]) + 1 /\ Len(NamesOf[s]) \in Nat
        BY <1>0, <3>2, AppendProperties, LenProperties
      <4>3. NamesOf[s] # Append(NamesOf[s], n)
        BY <4>2
      <4> QED BY <3>1, <4>1, <4>3
    <3>6. p \in Flat!Under[s]
      BY <1>0, <3>5, PathTree DEF Flat!Subtree
    <3> QED BY <1>3, <3>4, <3>6 DEF There
  <2> QED BY <2>1, <2>2, EmptySection
<1> QED BY <1>0, <1>1, <1>2, <1>3 DEF There

\* A document of that shape is the tree of what is there.
LEMMA FlattenIs ==
    ASSUME NEW x, Shape(x)
    PROVE  /\ Flatten(x) = [fields |-> Flatten(x).fields, empty |-> Flatten(x).empty]
           /\ Flatten(x).fields = [f \in Flat!Field |-> Flatten(x).fields[f]]
           /\ Flatten(x).empty =
                 {s \in Flat!Section : s \in There(x) /\ Flat!Under[s] \cap There(x) = {}}
           /\ \A f \in Flat!Field :
                 /\ f \in There(x) => /\ Got(x, f) = Value(Flatten(x).fields[f])
                                      /\ Flatten(x).fields[f] # Absent
                                      /\ Flatten(x).fields[f] \in Flat!ValueOf[f]
                 /\ f \notin There(x) => Flatten(x).fields[f] = Absent
<1> DEFINE F == [f \in Flat!Field |-> LET y == NestedField(x, NamesOf[f])
                                      IN  IF y[1] = "value" THEN y[2] ELSE Absent]
           E == {s \in Flat!Section : NestedField(x, NamesOf[s]) = NewMap}
<1>1. Flatten(x) = [fields |-> F, empty |-> E]
  BY DEF Flatten
<1>2. E = {s \in Flat!Section : s \in There(x) /\ Flat!Under[s] \cap There(x) = {}}
  BY SectionIsEmpty DEF Got
<1>3. ASSUME NEW f \in Flat!Field
      PROVE  /\ f \in There(x) => /\ Got(x, f) = Value(F[f])
                                  /\ F[f] # Absent
                                  /\ F[f] \in Flat!ValueOf[f]
             /\ f \notin There(x) => F[f] = Absent
  <2> DEFINE y == Got(x, f)
  <2>1. F[f] = IF y[1] = "value" THEN y[2] ELSE Absent
    BY DEF Got
  <2>2. y = None \/ \E v \in Flat!ValueOf[f] : y = Value(v)
    BY DEF Shape
  <2>3. f \in There(x) <=> y # None
    BY DEF There, Flat!Path
  <2>4. None[1] # "value" /\ \A v : Value(v)[1] = "value" /\ Value(v)[2] = v
    BY DEF None, Value
  <2> HIDE DEF y, F
  <2> QED BY <2>1, <2>2, <2>3, <2>4, ValuesAssumption DEF ValuesAssumption, y
<1>4. F = [f \in Flat!Field |-> F[f]]
  OBVIOUS
<1> HIDE DEF F, E
<1>5. Flatten(x).fields = F /\ Flatten(x).empty = E
  BY <1>1
<1> QED BY <1>1, <1>2, <1>3, <1>4, <1>5

-----------------------------------------------------------------------------
(* Setting a field.                                                        *)

\* Where a path is, seen from another.
LEMMA PathsRelate ==
    ASSUME NEW p \in Flat!Path, NEW q \in Flat!Path
    PROVE  /\ NamesOf[p] \in Seq(Names) /\ NamesOf[q] \in Seq(Names) /\ NamesOf[p] # <<>>
           /\ IsPrefix(NamesOf[p], NamesOf[q]) <=> q \in Flat!Subtree(p)
           /\ NamesOf[p] = NamesOf[q] <=> p = q
           /\ IsStrictPrefix(NamesOf[p], NamesOf[q]) <=> q \in Flat!Subtree(p) \ {p}
<1>1. NamesOf[p] = NamesOf[q] <=> p = q
  BY PlaceTree DEF PlaceOf
<1>2. NamesOf[p] = Append(FrontOf[p], LastOf[p]) /\ FrontOf[p] \in Seq(Names) /\ LastOf[p] \in Names
  BY PathIs
<1>3. NamesOf[p] # <<>>
  BY <1>2, AppendProperties
<1>4. IsPrefix(NamesOf[p], NamesOf[q]) <=> q \in Flat!Subtree(p)
  BY PathTree
<1>5. NamesOf[p] \in Seq(Names) /\ NamesOf[q] \in Seq(Names)
  BY PathsAreNames
<1> QED BY <1>1, <1>3, <1>4, <1>5 DEF IsStrictPrefix

\* What is a map stays a map when something that is not above it is set.
LEMMA SetKeepsMap ==
    ASSUME NEW x, NEW s \in Seq(Names), NEW y, y # None,
           NEW m \in Seq(Names), ~IsPrefix(s, m),
           NestedField(x, m) = None \/ IsMap(NestedField(x, m))
    PROVE  \/ NestedField(SetNestedField(x, s, y), m) = None
           \/ IsMap(NestedField(SetNestedField(x, s, y), m))
<1>1. CASE IsPrefix(m, s)
  <2>1. IsStrictPrefix(m, s)
    <3>1. m # s
      BY <1>1, PrefixOfItself
    <3> QED BY <1>1, <3>1 DEF IsStrictPrefix
  <2>2. Extended(NestedField(x, m), NestedField(SetNestedField(x, s, y), m), m, s)
    BY <2>1, SetAbove
  <2>3. PICK n, w : NestedField(SetNestedField(x, s, y), m) = With(NestedField(x, m), n, w)
    BY <2>2 DEF Extended
  <2>4. IsMap(With(NestedField(x, m), n, w))
    BY FieldOfWith
  <2> QED BY <2>3, <2>4
<1>2. CASE ~IsPrefix(m, s)
  <2>1. NestedField(SetNestedField(x, s, y), m) = NestedField(x, m)
    BY <1>2, SetApart
  <2> QED BY <2>1
<1> QED BY <1>1, <1>2

\* Setting a field makes the sections above it and leaves other paths alone.
LEMMA SetPaths ==
    ASSUME NEW x, Shape(x), NEW f \in Flat!Field, NEW v \in Flat!ValueOf[f], NEW z,
           z = SetNestedField(x, NamesOf[f], Value(v))
    PROVE  /\ Got(z, f) = Value(v)
           /\ \A s \in Flat!Above(f) : IsSection(Got(z, s), s)
           /\ \A q \in Flat!Path : q = f \/ q \in Flat!Above(f) \/ Got(z, q) = Got(x, q)
<1>0. f \in Flat!Path /\ Flat!Subtree(f) = {f} /\ Value(v) # None
  BY ThePaths DEF Flat!Subtree, Value, None
<1>1. Got(z, f) = Value(v)
  BY <1>0, PathsRelate, SetThere DEF Got
<1>2. ASSUME NEW s \in Flat!Above(f)
      PROVE  IsSection(Got(z, s), s)
  <2>1. s \in Flat!Section /\ s \in Flat!Path /\ f \in Flat!Subtree(s) \ {s}
    BY <1>0, ThePaths DEF Flat!Above, Flat!Subtree
  <2>2. IsStrictPrefix(NamesOf[s], NamesOf[f]) /\ NamesOf[s] \in Seq(Names) /\ NamesOf[f] \in Seq(Names)
    BY <1>0, <2>1, PathsRelate
  <2>3. Extended(Got(x, s), Got(z, s), NamesOf[s], NamesOf[f])
    BY <1>0, <2>2, SetAbove DEF Got
  <2>4. PICK n \in Names : /\ IsPrefix(Append(NamesOf[s], n), NamesOf[f])
                           /\ \E w : w # None /\ Got(z, s) = With(Got(x, s), n, w)
    BY <2>3 DEF Extended
  <2>5. PICK p \in Flat!Path : NamesOf[p] = Append(NamesOf[s], n)
    BY <1>0, <2>1, <2>4, NextPath
  <2>6. Got(x, s) = None \/ IsSection(Got(x, s), s)
    BY <2>1 DEF Shape
  <2>7. PICK w : w # None /\ Got(z, s) = With(Got(x, s), n, w)
    BY <2>4
  <2>8. IsSection(With(Got(x, s), n, w), s)
    BY <2>5, <2>6, <2>7, SectionWith
  <2> QED BY <2>7, <2>8
<1>3. ASSUME NEW q \in Flat!Path, q # f, q \notin Flat!Above(f)
      PROVE  Got(z, q) = Got(x, q)
  <2>1. f \notin Flat!Subtree(q) /\ q \notin Flat!Subtree(f)
    BY <1>0, <1>3 DEF Flat!Above, Flat!Subtree
  <2>2. /\ ~IsPrefix(NamesOf[q], NamesOf[f]) /\ ~IsPrefix(NamesOf[f], NamesOf[q])
        /\ NamesOf[q] \in Seq(Names) /\ NamesOf[f] \in Seq(Names)
    BY <1>0, <2>1, PathsRelate
  <2> QED BY <2>2, SetApart DEF Got
<1> QED BY <1>1, <1>2, <1>3

\* Setting a field keeps the shape of a document; then the field and the sections above
\* it are there.
LEMMA SetShape ==
    ASSUME NEW x, Shape(x), NEW f \in Flat!Field, NEW v \in Flat!ValueOf[f], NEW z,
           z = SetNestedField(x, NamesOf[f], Value(v))
    PROVE  /\ Shape(z)
           /\ There(z) = There(x) \cup {f} \cup Flat!Above(f)
<1>0. /\ f \in Flat!Path /\ NamesOf[f] \in Seq(Names) /\ NamesOf[f] # <<>>
      /\ Flat!Above(f) \subseteq Flat!Section /\ Flat!Section \subseteq Flat!Path
      /\ Flat!Field \subseteq Flat!Path /\ Value(v) # None
      /\ Flat!Section \cap Flat!Field = {}
  BY PathsRelate, ThePaths DEF Flat!Above, Value, None
<1>1. /\ Got(z, f) = Value(v)
      /\ \A s \in Flat!Above(f) : IsSection(Got(z, s), s)
      /\ \A q \in Flat!Path : q = f \/ q \in Flat!Above(f) \/ Got(z, q) = Got(x, q)
  BY SetPaths
<1>2. IsMap(z)
  BY <1>0, SetIsThere
<1>3. NoNil(z)
  BY <1>0, NoNilSet, NoNilValue DEF Shape
<1>4. \A names \in {<<"metadata">>, annotations} :
         NestedField(z, names) = None \/ IsMap(NestedField(z, names))
  <2> SUFFICES ASSUME NEW names \in {<<"metadata">>, annotations}
               PROVE  NestedField(z, names) = None \/ IsMap(NestedField(z, names))
    OBVIOUS
  <2>1. names \in Seq(Names) /\ ~IsPrefix(NamesOf[f], names)
    BY <1>0, AnnotationsAreNames, NoPrefixOfAnnotations
  <2>2. NestedField(x, names) = None \/ IsMap(NestedField(x, names))
    BY DEF Shape
  <2> QED BY <1>0, <2>1, <2>2, SetKeepsMap
<1>5. ASSUME NEW s \in Flat!Section
      PROVE  Got(z, s) = None \/ IsSection(Got(z, s), s)
  <2>1. Got(x, s) = None \/ IsSection(Got(x, s), s)
    BY DEF Shape
  <2> QED BY <1>0, <1>1, <2>1
<1>6. ASSUME NEW g \in Flat!Field
      PROVE  Got(z, g) = None \/ \E w \in Flat!ValueOf[g] : Got(z, g) = Value(w)
  <2>1. Got(x, g) = None \/ \E w \in Flat!ValueOf[g] : Got(x, g) = Value(w)
    BY DEF Shape
  <2> QED BY <1>0, <1>1, <2>1
<1>7. Shape(z)
  BY <1>2, <1>3, <1>4, <1>5, <1>6 DEF Shape
<1>8. \A s \in Flat!Above(f) : Got(z, s) # None
  BY <1>1, SectionIsMap
<1>9. There(z) = There(x) \cup {f} \cup Flat!Above(f)
  BY <1>0, <1>1, <1>8 DEF There
<1> QED BY <1>7, <1>9

\* Setting a field is SetNestedField of module Unstructured.
LEMMA SetFlattens ==
    ASSUME NEW x, Shape(x), NEW f \in Flat!Field, NEW v \in Flat!ValueOf[f]
    PROVE  Flatten(SetNestedField(x, NamesOf[f], Value(v))) = Flat!SetNestedField(Flatten(x), f, v)
<1> DEFINE z == SetNestedField(x, NamesOf[f], Value(v))
           t == Flatten(x)
           u == Flatten(z)
           w == Flat!SetNestedField(t, f, v)
<1>1. Shape(z) /\ There(z) = There(x) \cup {f} \cup Flat!Above(f)
  BY SetShape
<1>2. /\ Got(z, f) = Value(v)
      /\ \A q \in Flat!Path : q = f \/ q \in Flat!Above(f) \/ Got(z, q) = Got(x, q)
  BY SetPaths
<1> HIDE DEF z
<1>3. /\ t.fields = [g \in Flat!Field |-> t.fields[g]]
      /\ t.empty = {s \in Flat!Section : s \in There(x) /\ Flat!Under[s] \cap There(x) = {}}
      /\ \A g \in Flat!Field :
            /\ g \in There(x) => Got(x, g) = Value(t.fields[g])
            /\ g \notin There(x) => t.fields[g] = Absent
  BY FlattenIs
<1>4. /\ u = [fields |-> u.fields, empty |-> u.empty]
      /\ u.fields = [g \in Flat!Field |-> u.fields[g]]
      /\ u.empty = {s \in Flat!Section : s \in There(z) /\ Flat!Under[s] \cap There(z) = {}}
      /\ \A g \in Flat!Field :
            /\ g \in There(z) => Got(z, g) = Value(u.fields[g])
            /\ g \notin There(z) => u.fields[g] = Absent
  BY <1>1, FlattenIs
<1>5. w = [fields |-> [t.fields EXCEPT ![f] = v], empty |-> t.empty \ Flat!Above(f)]
  BY DEF Flat!SetNestedField
<1> HIDE DEF t, u, w
<1>6. /\ w = [fields |-> w.fields, empty |-> w.empty]
      /\ w.fields = [g \in Flat!Field |-> w.fields[g]]
      /\ \A g \in Flat!Field : w.fields[g] = IF g = f THEN v ELSE t.fields[g]
      /\ w.empty = t.empty \ Flat!Above(f)
  BY <1>3, <1>5
<1>7. \A a, b : Value(a) = Value(b) => a = b
  BY DEF Value
<1>8. ASSUME NEW g \in Flat!Field
      PROVE  u.fields[g] = w.fields[g]
  <2>0. f \in Flat!Path /\ g \in Flat!Path /\ f \in There(z)
    BY <1>1 DEF Flat!Path
  <2>1. CASE g = f
    BY <1>2, <1>4, <1>6, <1>7, <2>0, <2>1
  <2>2. CASE g # f
    <3>1. g \notin Flat!Above(f)
      BY ThePaths DEF Flat!Above
    <3>2. Got(z, g) = Got(x, g) /\ (g \in There(z) <=> g \in There(x))
      BY <1>1, <1>2, <2>0, <2>2, <3>1
    <3> QED BY <1>3, <1>4, <1>6, <1>7, <2>2, <3>2
  <2> QED BY <2>1, <2>2
<1>9. u.empty = w.empty
  <2>1. ASSUME NEW s \in Flat!Section
        PROVE  (s \in There(z) /\ Flat!Under[s] \cap There(z) = {})
                 <=> (s \in There(x) /\ Flat!Under[s] \cap There(x) = {} /\ s \notin Flat!Above(f))
    <3>1. \A r \in Flat!Above(f) : r \in Flat!Under[s] => f \in Flat!Under[s]
      BY TreeOfPaths DEF Flat!Above
    <3>2. s \in Flat!Above(f) <=> f \in Flat!Under[s]
      BY DEF Flat!Above
    <3>3. s # f
      BY ThePaths
    <3> QED BY <1>1, <3>1, <3>2, <3>3
  <2> QED BY <1>3, <1>4, <1>6, <2>1
<1>10. u.fields = w.fields
  BY <1>4, <1>6, <1>8
<1>11. u = w
  BY <1>4, <1>6, <1>9, <1>10
<1> QED BY <1>11 DEF u, w, t, z

-----------------------------------------------------------------------------
(* Removing a path.                                                        *)

\* Removing a path leaves other paths alone, and the sections above it are sections.
LEMMA RemovePaths ==
    ASSUME NEW x, Shape(x), NEW p \in There(x), NEW z,
           z = SetNestedField(x, FrontOf[p], Without(NestedField(x, FrontOf[p]), LastOf[p]))
    PROVE  /\ \A q \in Flat!Subtree(p) : Got(z, q) = None
           /\ \A s \in Flat!Above(p) : IsSection(Got(z, s), s)
           /\ \A q \in Flat!Path : \/ q \in Flat!Subtree(p)
                                   \/ q \in Flat!Above(p)
                                   \/ Got(z, q) = Got(x, q)
<1> DEFINE t == FrontOf[p]
           k == LastOf[p]
           y == Without(NestedField(x, t), k)
<1>0. /\ p \in Flat!Path /\ t \in Seq(Names) /\ k \in Names
      /\ NamesOf[p] = Append(t, k) /\ NamesOf[p] \in Seq(Names)
      /\ Flat!Subtree(p) \subseteq Flat!Path
  <2>1. p \in Flat!Path
    BY DEF There
  <2>2. Flat!Subtree(p) \subseteq Flat!Path
    BY <2>1, TreeOfPaths DEF Flat!Subtree
  <2> QED BY <2>1, <2>2, PathIs, PathsAreNames
<1> HIDE DEF t, k
<1>1. ASSUME NEW q \in Flat!Subtree(p)
      PROVE  Got(z, q) = None
  <2>1. NamesOf[q] \in Seq(Names) /\ IsPrefix(Append(t, k), NamesOf[q])
    <3>1. NamesOf[q] \in Seq(Names) /\ IsPrefix(NamesOf[p], NamesOf[q])
      BY <1>0, PathsRelate
    <3> QED BY <1>0, <3>1
  <2> QED BY <1>0, <2>1, RemovedBelow DEF Got, t, k
<1>2. ASSUME NEW s \in Flat!Above(p)
      PROVE  IsSection(Got(z, s), s)
  <2> DEFINE m == NamesOf[s]
  <2>1. s \in Flat!Section /\ s \in Flat!Path /\ p \in Flat!Subtree(s) \ {s}
    BY <1>0, TreeOfPaths DEF Flat!Above, Flat!Subtree, Flat!Path
  <2>2. s \in There(x)
    BY <1>2, <2>1, ThereUp DEF Flat!Above
  <2>3. IsSection(Got(x, s), s)
    BY <2>1, <2>2 DEF Shape, There
  <2>4. m \in Seq(Names) /\ IsPrefix(m, Append(t, k)) /\ m # Append(t, k)
    <3>1. m \in Seq(Names) /\ IsPrefix(m, NamesOf[p]) /\ m # NamesOf[p]
      BY <1>0, <2>1, PathsRelate
    <3> QED BY <1>0, <3>1
  <2>5. IsPrefix(m, t)
    BY <1>0, <2>4, PrefixOfAppend
  <2>6. CASE m = t
    <3>1. Got(z, s) = Without(Got(x, s), k)
      BY <1>0, <2>6, SetThere DEF Got, t, k
    <3> QED BY <2>3, <3>1, SectionWithout
  <2>7. CASE m # t
    <3>1. IsStrictPrefix(m, t)
      BY <2>5, <2>7 DEF IsStrictPrefix
    <3>2. y # None
      BY DEF Without, Map, None
    <3>3. z = SetNestedField(x, t, y)
      BY DEF t, k
    <3> HIDE DEF m, y
    <3>4. Extended(NestedField(x, m), NestedField(z, m), m, t)
      BY <1>0, <2>4, <3>1, <3>2, <3>3, SetAbove
    <3>5. PICK n \in Names :
             /\ IsPrefix(Append(m, n), t)
             /\ \E w : w # None /\ NestedField(z, m) = With(NestedField(x, m), n, w)
      BY <3>4 DEF Extended
    <3>6. IsPrefix(Append(m, n), NamesOf[p])
      <4> DEFINE longer == Append(m, n)
      <4>1. longer \in Seq(Names)
        BY <2>4, AppendProperties
      <4> HIDE DEF longer
      <4>2. IsPrefix(longer, t)
        BY <3>5 DEF longer
      <4>3. IsPrefix(longer, Append(t, k))
        BY <1>0, <4>1, <4>2, PrefixOfAppend
      <4> QED BY <1>0, <4>3 DEF longer
    <3>7. PICK q \in Flat!Path : NamesOf[q] = Append(NamesOf[s], n)
      BY <1>0, <2>1, <3>6, NextPath DEF m
    <3>8. PICK w : w # None /\ NestedField(z, m) = With(NestedField(x, m), n, w)
      BY <3>5
    <3>9. IsSection(With(Got(x, s), n, w), s)
      BY <2>3, <3>7, <3>8, SectionWith
    <3> QED BY <3>8, <3>9 DEF Got, m
  <2> QED BY <2>6, <2>7
<1>3. ASSUME NEW q \in Flat!Path, q \notin Flat!Subtree(p), q \notin Flat!Above(p)
      PROVE  Got(z, q) = Got(x, q)
  <2> DEFINE m == NamesOf[q]
  <2>1. m \in Seq(Names) /\ ~IsPrefix(Append(t, k), m)
    <3>1. m \in Seq(Names) /\ ~IsPrefix(NamesOf[p], m)
      BY <1>0, <1>3, PathsRelate
    <3> QED BY <1>0, <3>1
  <2>2. ~IsPrefix(m, t)
    <3>1. p \notin Flat!Subtree(q)
      BY <1>0, <1>3 DEF Flat!Above, Flat!Subtree
    <3>2. ~IsPrefix(m, Append(t, k))
      <4>1. ~IsPrefix(m, NamesOf[p])
        BY <1>0, <3>1, PathsRelate
      <4> QED BY <1>0, <4>1
    <3> QED BY <1>0, <2>1, <3>2, PrefixOfAppend
  <2> QED BY <1>0, <2>1, <2>2, RemovedApart DEF Got, t, k
<1> QED BY <1>1, <1>2, <1>3

\* Removing a path keeps the shape of a document; then what is at the path is gone.
LEMMA RemoveShape ==
    ASSUME NEW x, Shape(x), NEW p \in There(x), NEW z, z = RemoveNestedField(x, NamesOf[p])
    PROVE  /\ Shape(z)
           /\ There(z) = There(x) \ Flat!Subtree(p)
           /\ \A f \in Flat!Field \ Flat!Subtree(p) : Got(z, f) = Got(x, f)
<1> DEFINE t == FrontOf[p]
           k == LastOf[p]
           y == Without(NestedField(x, t), k)
<1>0. /\ p \in Flat!Path /\ t \in Seq(Names) /\ k \in Names
      /\ NamesOf[p] = Append(t, k) /\ NamesOf[p] \in Seq(Names)
      /\ Flat!Subtree(p) \subseteq Flat!Path /\ Flat!Field \subseteq Flat!Path
      /\ Flat!Section \subseteq Flat!Path /\ Flat!Above(p) \subseteq Flat!Section
      /\ Flat!Section \cap Flat!Field = {}
      /\ Flat!Above(p) \cap Flat!Subtree(p) = {}
  <2>1. p \in Flat!Path
    BY DEF There
  <2>2. Flat!Subtree(p) \subseteq Flat!Path
    BY <2>1, TreeOfPaths DEF Flat!Subtree
  <2>3. Flat!Field \subseteq Flat!Path /\ Flat!Section \subseteq Flat!Path /\ Flat!Section \cap Flat!Field = {}
    BY ThePaths
  <2>4. Flat!Above(p) \cap Flat!Subtree(p) = {}
    BY TreeOfPaths DEF Flat!Above, Flat!Subtree
  <2> QED BY <2>1, <2>2, <2>3, <2>4, PathIs, PathsAreNames DEF Flat!Above
<1>1. z = SetNestedField(x, t, y)
  <2>1. NestedField(x, NamesOf[p]) # None
    BY DEF There, Got
  <2> HIDE DEF t, k
  <2> QED BY <1>0, <2>1, RemoveIs
<1>2. /\ \A q \in Flat!Subtree(p) : Got(z, q) = None
      /\ \A s \in Flat!Above(p) : IsSection(Got(z, s), s)
      /\ \A q \in Flat!Path : q \in Flat!Subtree(p) \/ q \in Flat!Above(p) \/ Got(z, q) = Got(x, q)
  BY <1>1, RemovePaths
<1> HIDE DEF t, k
<1>3. IsMap(y) /\ y # None
  <2>1. IsMap(y)
    BY FieldOfWithout
  <2> QED BY DEF Without, Map, None, IsMap
<1>4. IsMap(z)
  BY <1>0, <1>1, <1>3, SetIsThere
<1>5. NoNil(z)
  BY <1>0, <1>1, NoNilSet, NoNilWithout, NoNilNested DEF Shape
<1> HIDE DEF y
<1>6. ASSUME NEW names \in {<<"metadata">>, annotations}
      PROVE  NestedField(z, names) = None \/ IsMap(NestedField(z, names))
  <2>1. names \in Seq(Names) /\ ~IsPrefix(Append(t, k), names)
    BY <1>0, AnnotationsAreNames, NoPrefixOfAnnotations
  <2>2. NestedField(x, names) = None \/ IsMap(NestedField(x, names))
    BY DEF Shape
  <2>3. CASE names = t
    BY <1>0, <1>1, <1>3, <2>3, SetThere
  <2>4. CASE ~IsPrefix(names, t)
    <3>1. NestedField(z, names) = NestedField(x, names)
      BY <1>0, <1>1, <2>1, <2>4, RemovedApart DEF y
    <3> QED BY <2>2, <3>1
  <2>5. CASE IsPrefix(names, t) /\ names # t
    <3>1. IsStrictPrefix(names, t)
      BY <2>5 DEF IsStrictPrefix
    <3>2. Extended(NestedField(x, names), NestedField(z, names), names, t)
      BY <1>0, <1>1, <1>3, <2>1, <3>1, SetAbove
    <3>3. PICK n, w : NestedField(z, names) = With(NestedField(x, names), n, w)
      BY <3>2 DEF Extended
    <3>4. IsMap(With(NestedField(x, names), n, w))
      BY FieldOfWith
    <3> QED BY <3>3, <3>4
  <2> QED BY <2>3, <2>4, <2>5
<1>7. ASSUME NEW s \in Flat!Section
      PROVE  Got(z, s) = None \/ IsSection(Got(z, s), s)
  <2>1. Got(x, s) = None \/ IsSection(Got(x, s), s)
    BY DEF Shape
  <2> QED BY <1>0, <1>2, <2>1
<1>8. ASSUME NEW g \in Flat!Field
      PROVE  Got(z, g) = None \/ \E w \in Flat!ValueOf[g] : Got(z, g) = Value(w)
  <2>1. Got(x, g) = None \/ \E w \in Flat!ValueOf[g] : Got(x, g) = Value(w)
    BY DEF Shape
  <2> QED BY <1>0, <1>2, <2>1
<1>9. Shape(z)
  BY <1>4, <1>5, <1>6, <1>7, <1>8 DEF Shape
<1>10. There(z) = There(x) \ Flat!Subtree(p)
  <2>1. \A s \in Flat!Above(p) : Got(z, s) # None /\ s \in There(x)
    BY <1>0, <1>2, SectionIsMap, ThereUp DEF Flat!Above
  <2> QED BY <1>0, <1>2, <2>1 DEF There
<1>11. \A f \in Flat!Field \ Flat!Subtree(p) : Got(z, f) = Got(x, f)
  BY <1>0, <1>2
<1> QED BY <1>9, <1>10, <1>11

\* Below whatever a document has there is a field or a section without content.
LEMMA LeafBelow ==
    ASSUME NEW x, NEW q \in There(x)
    PROVE  \E l \in Flat!Subtree(q) \cap There(x) :
              \/ l \in Flat!Field
              \/ l \in Flat!Section /\ Flat!Under[l] \cap There(x) = {}
<1> DEFINE H == There(x)
           Good(l) == l \in Flat!Field \/ (l \in Flat!Section /\ Flat!Under[l] \cap H = {})
           Fine(s) == s \in H => \E l \in Flat!Subtree(s) \cap H : Good(l)
<1>0. H \subseteq Flat!Path
  BY DEF There
<1> HIDE DEF H
<1>1. \A f \in Flat!Field : Fine(f)
  BY DEF Flat!Subtree
<1>2. ASSUME NEW s \in Flat!Section, \A p \in Flat!Under[s] : Fine(p)
      PROVE  Fine(s)
  <2>1. CASE Flat!Under[s] \cap H = {}
    BY <2>1 DEF Flat!Subtree
  <2>2. CASE Flat!Under[s] \cap H # {}
    <3>1. PICK p \in Flat!Under[s] \cap H : TRUE
      BY <2>2
    <3>2. PICK l \in Flat!Subtree(p) \cap H : Good(l)
      BY <1>2, <3>1
    <3>3. l \in Flat!Subtree(s)
      BY <1>0, <3>1, TreeOfPaths DEF Flat!Subtree
    <3> QED BY <3>2, <3>3
  <2> QED BY <2>1, <2>2
<1> HIDE DEF Fine
<1>3. Fine("manual") /\ Fine("restore")
  BY <1>1, <1>2, UnderTable, ThePaths DEF Flat!ManualFields, Flat!RestoreFields
<1>4. Fine("pgbackrest")
  BY <1>1, <1>2, <1>3, UnderTable, ThePaths DEF Flat!ManualFields, Flat!RestoreFields
<1>5. \A p \in Flat!Under["backups"] : Fine(p)
  BY <1>1, <1>3, <1>4, UnderTable, ThePaths DEF Flat!ManualFields, Flat!RestoreFields
<1>6. Fine("backups")
  BY <1>2, <1>5, ThePaths
<1>7. \A p \in Flat!Under["spec"] : Fine(p)
  BY <1>1, <1>5, <1>6, UnderTable, ThePaths
<1>8. Fine("spec")
  BY <1>2, <1>7, ThePaths
<1>9. Fine(q)
  BY <1>0, <1>1, <1>3, <1>4, <1>6, <1>8, ThePaths DEF H
<1> QED BY <1>9 DEF Fine, H

\* Module Unstructured finds a path where the document has it.
LEMMA PresentIs ==
    ASSUME NEW x, Shape(x), NEW p \in Flat!Path
    PROVE  Flat!Present(Flatten(x), p) <=> p \in There(x)
<1> DEFINE t == Flatten(x)
           H == There(x)
<1>1. /\ t.empty = {s \in Flat!Section : s \in H /\ Flat!Under[s] \cap H = {}}
      /\ \A f \in Flat!Field : /\ f \in H => t.fields[f] # Absent
                               /\ f \notin H => t.fields[f] = Absent
  BY FlattenIs
<1> HIDE DEF t
<1>2. ASSUME p \in H
      PROVE  Flat!Present(t, p)
  <2>1. PICK l \in Flat!Subtree(p) \cap H :
           l \in Flat!Field \/ (l \in Flat!Section /\ Flat!Under[l] \cap H = {})
    BY <1>2, LeafBelow
  <2>2. l \in Flat!Leaves(t)
    BY <1>1, <2>1 DEF Flat!Leaves
  <2> QED BY <2>1, <2>2 DEF Flat!Present
<1>3. ASSUME Flat!Present(t, p)
      PROVE  p \in H
  <2>1. PICK l \in Flat!Subtree(p) : l \in Flat!Leaves(t)
    BY <1>3 DEF Flat!Present
  <2>2. l \in H
    BY <1>1, <2>1 DEF Flat!Leaves
  <2>3. l = p \/ (p \in Flat!Section /\ l \in Flat!Under[p])
    BY <2>1 DEF Flat!Subtree
  <2> QED BY <2>2, <2>3, ThereUp
<1> QED BY <1>2, <1>3 DEF t

\* Two paths above the same are above one another.
LEMMA SubtreesMeet ==
    ASSUME NEW p \in Flat!Path, NEW q \in Flat!Path, NEW l \in Flat!Subtree(p) \cap Flat!Subtree(q)
    PROVE  q \in Flat!Subtree(p) \/ (q \in Flat!Section /\ p \in Flat!Under[q])
<1>1. l = p \/ (p \in Flat!Section /\ l \in Flat!Under[p])
  BY DEF Flat!Subtree
<1>2. l = q \/ (q \in Flat!Section /\ l \in Flat!Under[q])
  BY DEF Flat!Subtree
<1>3. p \in Flat!Section /\ l \in Flat!Under[p] => l \in Flat!Path
  BY TreeOfPaths
<1> QED BY <1>1, <1>2, <1>3, TreeOfPaths DEF Flat!Subtree

\* Removing a path is RemoveNestedField of module Unstructured.
LEMMA RemoveFlattens ==
    ASSUME NEW x, Shape(x), NEW p \in Flat!Path
    PROVE  /\ Shape(RemoveNestedField(x, NamesOf[p]))
           /\ Flatten(RemoveNestedField(x, NamesOf[p])) = Flat!RemoveNestedField(Flatten(x), p)
<1> DEFINE z == RemoveNestedField(x, NamesOf[p])
           t == Flatten(x)
           u == Flatten(z)
           w == Flat!RemoveNestedField(t, p)
           H == There(x)
           G == H \ Flat!Subtree(p)
<1>1. CASE p \notin H
  <2>1. z = x
    BY <1>1 DEF RemoveNestedField, There, Got
  <2>2. w = t
    BY <1>1, PresentIs DEF Flat!RemoveNestedField
  <2> QED BY <2>1, <2>2
<1>2. CASE p \in H
  <2>1. Shape(z) /\ There(z) = G /\ \A f \in Flat!Field \ Flat!Subtree(p) : Got(z, f) = Got(x, f)
    BY <1>2, RemoveShape
  <2>2. Flat!Present(t, p)
    BY <1>2, PresentIs
  <2> HIDE DEF z
  <2>3. /\ t.fields = [g \in Flat!Field |-> t.fields[g]]
        /\ t.empty = {s \in Flat!Section : s \in H /\ Flat!Under[s] \cap H = {}}
        /\ \A g \in Flat!Field :
              /\ g \in H => Got(x, g) = Value(t.fields[g]) /\ t.fields[g] # Absent
              /\ g \notin H => t.fields[g] = Absent
    BY FlattenIs
  <2>4. /\ u = [fields |-> u.fields, empty |-> u.empty]
        /\ u.fields = [g \in Flat!Field |-> u.fields[g]]
        /\ u.empty = {s \in Flat!Section : s \in There(z) /\ Flat!Under[s] \cap There(z) = {}}
        /\ \A g \in Flat!Field :
              /\ g \in There(z) => Got(z, g) = Value(u.fields[g])
              /\ g \notin There(z) => u.fields[g] = Absent
    BY <2>1, FlattenIs
  <2> DEFINE fields == [f \in Flat!Field |-> IF f \in Flat!Subtree(p) THEN Absent ELSE t.fields[f]]
             empty == t.empty \ Flat!Subtree(p)
             Bare(s) == /\ \A f \in Flat!Field \cap Flat!Under[s] : fields[f] = Absent
                        /\ empty \cap Flat!Under[s] = {}
  <2>5. w = [fields |-> fields, empty |-> empty \cup {s \in Flat!Holder(p) : Bare(s)}]
    BY <2>2 DEF Flat!RemoveNestedField
  <2>6. ASSUME NEW s \in Flat!Section
        PROVE  (s \in G /\ Flat!Under[s] \cap G = {})
                 <=> s \in empty \/ (s \in Flat!Holder(p) /\ Bare(s))
    <3>1. ASSUME s \in G, Flat!Under[s] \cap G = {}, s \notin empty
          PROVE  s \in Flat!Holder(p) /\ Bare(s)
      <4>1. PICK q \in Flat!Under[s] : q \in H /\ q \in Flat!Subtree(p)
        BY <2>3, <3>1
      <4>2. s \notin Flat!Subtree(p) /\ s \in Flat!Path /\ q \in Flat!Subtree(s)
        BY <3>1, <4>1 DEF Flat!Subtree, Flat!Path
      <4>3. p \in Flat!Under[s]
        BY <4>1, <4>2, SubtreesMeet
      <4>4. ASSUME NEW r \in Flat!Above(p), r # s, s \notin Flat!Under[r]
            PROVE  FALSE
        <5>1. r \in Flat!Section /\ p \in Flat!Under[r] /\ r \in H
          BY <1>2, ThereUp DEF Flat!Above
        <5>2. r \in Flat!Under[s]
          BY <4>3, <4>4, <5>1, TreeOfPaths
        <5>3. r \notin Flat!Subtree(p)
          BY <5>1, TreeOfPaths DEF Flat!Subtree
        <5> QED BY <3>1, <5>1, <5>2, <5>3
      <4>5. s \in Flat!Holder(p)
        BY <4>3, <4>4 DEF Flat!Holder, Flat!Above
      <4>6. Bare(s)
        <5>1. ASSUME NEW f \in Flat!Field \cap Flat!Under[s], f \notin Flat!Subtree(p)
              PROVE  t.fields[f] = Absent
          BY <2>3, <3>1, <5>1
        <5>2. empty \subseteq G
          BY <2>3
        <5> HIDE DEF empty
        <5> QED BY <3>1, <5>1, <5>2
      <4> QED BY <4>5, <4>6
    <3>2. ASSUME s \in empty
          PROVE  s \in G /\ Flat!Under[s] \cap G = {}
      BY <2>3, <3>2
    <3>3. ASSUME s \in Flat!Holder(p), Bare(s)
          PROVE  s \in G /\ Flat!Under[s] \cap G = {}
      <4>1. p \in Flat!Under[s] /\ \A r \in Flat!Above(p) : r = s \/ s \in Flat!Under[r]
        BY <3>3 DEF Flat!Holder, Flat!Above
      <4>2. s \in H
        BY <1>2, <4>1, ThereUp
      <4>3. s \notin Flat!Subtree(p)
        BY <4>1, TreeOfPaths DEF Flat!Subtree
      <4>4. ASSUME NEW q \in Flat!Under[s], q \in H, q \notin Flat!Subtree(p)
            PROVE  FALSE
        <5>1. PICK l \in Flat!Subtree(q) \cap H :
                 l \in Flat!Field \/ (l \in Flat!Section /\ Flat!Under[l] \cap H = {})
          BY <4>4, LeafBelow
        <5>2. q \in Flat!Path
          BY <4>4 DEF There
        <5>3. l \in Flat!Under[s]
          BY <4>4, <5>1, TreeOfPaths DEF Flat!Subtree
        <5>4. CASE l \in Flat!Subtree(p)
          <6>1. q \in Flat!Section /\ p \in Flat!Under[q]
            BY <4>4, <5>1, <5>2, <5>4, SubtreesMeet
          <6>2. q = s \/ s \in Flat!Under[q]
            BY <4>1, <6>1 DEF Flat!Above
          <6> QED BY <4>4, <6>1, <6>2, TreeOfPaths
        <5>5. CASE l \notin Flat!Subtree(p)
          <6>1. CASE l \in Flat!Field
            <7>1. fields[l] = t.fields[l] /\ t.fields[l] # Absent
              BY <2>3, <5>1, <5>5, <6>1
            <7> HIDE DEF fields
            <7> QED BY <3>3, <5>3, <6>1, <7>1
          <6>2. CASE l \in Flat!Section /\ Flat!Under[l] \cap H = {}
            <7>1. l \in empty
              BY <2>3, <5>1, <5>5, <6>2
            <7> HIDE DEF empty
            <7> QED BY <3>3, <5>3, <7>1
          <6> QED BY <5>1, <6>1, <6>2
        <5> QED BY <5>4, <5>5
      <4> QED BY <4>2, <4>3, <4>4
    <3> QED BY <3>1, <3>2, <3>3
  <2>7. empty \cup {s \in Flat!Holder(p) : Bare(s)} = u.empty
    <3>1. empty \subseteq Flat!Section /\ Flat!Holder(p) \subseteq Flat!Section
      BY <2>3 DEF Flat!Holder, Flat!Above
    <3> HIDE DEF empty, Bare, G, u
    <3> QED BY <2>1, <2>4, <2>6, <3>1
  <2>8. fields = u.fields
    <3>1. ASSUME NEW f \in Flat!Field
          PROVE  fields[f] = u.fields[f]
      <4>1. CASE f \in Flat!Subtree(p)
        <5>1. f \notin There(z)
          BY <2>1, <4>1
        <5> HIDE DEF u
        <5> QED BY <2>4, <4>1, <5>1
      <4>2. CASE f \notin Flat!Subtree(p)
        <5>1. Got(z, f) = Got(x, f) /\ (f \in There(z) <=> f \in H)
          BY <2>1, <4>2
        <5>2. \A a, b : Value(a) = Value(b) => a = b
          BY DEF Value
        <5>3. fields[f] = t.fields[f]
          BY <4>2
        <5> HIDE DEF u, fields, t, H
        <5> QED BY <2>3, <2>4, <5>1, <5>2, <5>3
      <4> QED BY <4>1, <4>2
    <3> HIDE DEF u
    <3> QED BY <2>4, <3>1
  <2> HIDE DEF u, fields, empty, Bare, w
  <2>9. u = w
    BY <2>4, <2>5, <2>7, <2>8
  <2> QED BY <2>1, <2>9 DEF u, w, z, t
<1> QED BY <1>1, <1>2

-----------------------------------------------------------------------------
(* RemoveEmptySections.                                                    *)

\* What is left from each section on.
IsPruning(x, names, after) ==
    after = [i \in 1..(Len(names) + 1) |->
                IF i > Len(names) THEN x
                ELSE RemoveEmptyField(after[i + 1], SubSeq(names, 1, i))]

\* Without a section nothing is removed.
LEMMA PruningEmpty ==
    ASSUME NEW x PROVE IsPruning(x, <<>>, [i \in 1..1 |-> x])
<1>1. Len(<<>>) = 0 /\ 1..1 = {1}
  OBVIOUS
<1> QED BY <1>1 DEF IsPruning

\* One more section is the first to go.
LEMMA PruningLonger ==
    ASSUME NEW names \in Seq(Names), NEW n \in Names, NEW x, NEW after,
           IsPruning(RemoveEmptyField(x, Append(names, n)), names, after)
    PROVE  IsPruning(x, Append(names, n),
                     [i \in 1..(Len(names) + 2) |-> IF i = Len(names) + 2 THEN x ELSE after[i]])
<1> DEFINE k == Len(names)
           longer == Append(names, n)
           g == [i \in 1..(k + 2) |-> IF i = k + 2 THEN x ELSE after[i]]
<1>1. k \in Nat /\ Len(longer) = k + 1
  BY LenProperties, AppendProperties
<1>2. \A i \in 1..k : SubSeq(longer, 1, i) = SubSeq(names, 1, i)
  BY SubSeqOfAppend
<1>3. SubSeq(longer, 1, k + 1) = longer
  <2>1. longer \in Seq(Names)
    BY AppendProperties
  <2> HIDE DEF longer
  <2> QED BY <1>1, <2>1, SubSeqFull
<1> HIDE DEF longer
<1>4. ASSUME NEW i \in 1..(k + 2)
      PROVE  g[i] = IF i > k + 1 THEN x ELSE RemoveEmptyField(g[i + 1], SubSeq(longer, 1, i))
  <2>1. CASE i = k + 2
    BY <1>1, <2>1
  <2>2. CASE i = k + 1
    <3>1. g[i] = after[i] /\ g[i + 1] = x
      BY <1>1, <2>2
    <3>2. after[i] = RemoveEmptyField(x, longer)
      BY <1>1, <2>2 DEF IsPruning, longer
    <3>3. ~(i > k + 1)
      BY <1>1, <2>2
    <3> HIDE DEF g, k
    <3> QED BY <1>3, <2>2, <3>1, <3>2, <3>3
  <2>3. CASE i \in 1..k
    <3>1. g[i] = after[i] /\ g[i + 1] = after[i + 1]
      BY <1>1, <2>3
    <3>2. after[i] = RemoveEmptyField(after[i + 1], SubSeq(names, 1, i))
      BY <1>1, <2>3 DEF IsPruning
    <3>3. ~(i > k + 1)
      BY <1>1, <2>3
    <3> HIDE DEF g, k
    <3> QED BY <1>2, <2>3, <3>1, <3>2, <3>3
  <2>4. i = k + 2 \/ i = k + 1 \/ i \in 1..k
    BY <1>1
  <2> HIDE DEF g
  <2> QED BY <2>1, <2>2, <2>3, <2>4
<1>5. g = [i \in 1..(k + 2) |-> g[i]]
  OBVIOUS
<1>6. (k + 1) + 1 = k + 2
  BY <1>1
<1> HIDE DEF g, k
<1>7. IsPruning(x, longer, g)
  BY <1>1, <1>4, <1>5, <1>6 DEF IsPruning
<1> QED BY <1>7 DEF g, k, longer

\* After the first to go the rest is as without it.
LEMMA PruningShorter ==
    ASSUME NEW names \in Seq(Names), NEW n \in Names, NEW x, NEW after,
           IsPruning(x, Append(names, n), after)
    PROVE  IsPruning(RemoveEmptyField(x, Append(names, n)), names,
                     [i \in 1..(Len(names) + 1) |-> after[i]])
<1> DEFINE k == Len(names)
           longer == Append(names, n)
           g == [i \in 1..(k + 1) |-> after[i]]
<1>1. k \in Nat /\ Len(longer) = k + 1
  BY LenProperties, AppendProperties
<1>2. \A i \in 1..k : SubSeq(longer, 1, i) = SubSeq(names, 1, i)
  BY SubSeqOfAppend
<1>3. SubSeq(longer, 1, k + 1) = longer
  <2>1. longer \in Seq(Names)
    BY AppendProperties
  <2> HIDE DEF longer
  <2> QED BY <1>1, <2>1, SubSeqFull
<1>4. IsPruning(x, longer, after)
  OBVIOUS
<1> HIDE DEF longer
<1>5. after[k + 2] = x
  BY <1>1, <1>4 DEF IsPruning
<1>6. ASSUME NEW i \in 1..(k + 1)
      PROVE  g[i] = IF i > k THEN RemoveEmptyField(x, longer)
                    ELSE RemoveEmptyField(g[i + 1], SubSeq(names, 1, i))
  <2>1. after[i] = RemoveEmptyField(after[i + 1], SubSeq(longer, 1, i))
    BY <1>1, <1>4 DEF IsPruning
  <2>2. CASE i = k + 1
    <3>1. i + 1 = k + 2 /\ i > k
      BY <1>1, <2>2
    <3> QED BY <1>3, <1>5, <2>1, <2>2, <3>1
  <2>3. CASE i \in 1..k
    <3>1. g[i] = after[i] /\ g[i + 1] = after[i + 1] /\ ~(i > k)
      BY <1>1, <2>3
    <3> HIDE DEF g, k
    <3> QED BY <1>2, <2>1, <2>3, <3>1
  <2>4. i = k + 1 \/ i \in 1..k
    BY <1>1
  <2> QED BY <2>2, <2>3, <2>4
<1>7. g = [i \in 1..(k + 1) |-> g[i]]
  OBVIOUS
<1> HIDE DEF g, k
<1>8. IsPruning(RemoveEmptyField(x, longer), names, g)
  BY <1>6, <1>7 DEF IsPruning, k
<1> QED BY <1>8 DEF g, k, longer

\* There is one such function.
LEMMA PruningExists ==
    ASSUME NEW names \in Seq(Names), NEW x
    PROVE  \E after : IsPruning(x, names, after)
<1> DEFINE T == {m \in Seq(Names) : \A z : \E after : IsPruning(z, m, after)}
<1>1. <<>> \in T
  <2>1. ASSUME NEW z PROVE \E after : IsPruning(z, <<>>, after)
    BY PruningEmpty
  <2> QED BY <2>1
<1>2. ASSUME NEW m \in Seq(Names), NEW n \in Names, m \in T
      PROVE  Append(m, n) \in T
  <2>1. ASSUME NEW z
        PROVE  \E after : IsPruning(z, Append(m, n), after)
    <3>1. PICK after : IsPruning(RemoveEmptyField(z, Append(m, n)), m, after)
      BY <1>2
    <3> QED BY <3>1, PruningLonger
  <2> QED BY <2>1
<1> HIDE DEF T
<1>3. names \in T
  BY <1>1, <1>2, SequenceInduction
<1> QED BY <1>3 DEF T

\* There is one result of pruning, by induction on the path.
LEMMA PruningUnique ==
    ASSUME NEW names \in Seq(Names), NEW x, NEW a, NEW b,
           IsPruning(x, names, a), IsPruning(x, names, b)
    PROVE  a[1] = b[1]
<1> DEFINE T == {m \in Seq(Names) : \A z, f, g :
                    IsPruning(z, m, f) /\ IsPruning(z, m, g) => f[1] = g[1]}
<1>1. <<>> \in T
  <2>1. ASSUME NEW z, NEW f, NEW g, IsPruning(z, <<>>, f), IsPruning(z, <<>>, g)
        PROVE  f[1] = g[1]
    BY <2>1 DEF IsPruning
  <2> QED BY <2>1
<1>2. ASSUME NEW m \in Seq(Names), NEW n \in Names, m \in T
      PROVE  Append(m, n) \in T
  <2>1. ASSUME NEW z, NEW f, NEW g, IsPruning(z, Append(m, n), f),
               IsPruning(z, Append(m, n), g)
        PROVE  f[1] = g[1]
    <3> DEFINE ff == [i \in 1..(Len(m) + 1) |-> f[i]]
               gg == [i \in 1..(Len(m) + 1) |-> g[i]]
    <3>1. /\ IsPruning(RemoveEmptyField(z, Append(m, n)), m, ff)
          /\ IsPruning(RemoveEmptyField(z, Append(m, n)), m, gg)
      BY <2>1, PruningShorter
    <3>2. ff[1] = f[1] /\ gg[1] = g[1]
      BY LenProperties
    <3> HIDE DEF ff, gg
    <3>3. ff[1] = gg[1]
      BY <1>2, <3>1
    <3> QED BY <3>2, <3>3
  <2> QED BY <2>1
<1> HIDE DEF T
<1>3. names \in T
  BY <1>1, <1>2, SequenceInduction
<1> QED BY <1>3 DEF T

\* RemoveEmptySections is that result.
LEMMA PruningIs ==
    ASSUME NEW x, NEW names \in Seq(Names)
    PROVE  \E after : IsPruning(x, names, after) /\ RemoveEmptySections(x, names) = after[1]
<1> DEFINE after == CHOOSE after : after = [i \in 1..(Len(names) + 1) |->
                IF i > Len(names) THEN x
                ELSE RemoveEmptyField(after[i + 1], SubSeq(names, 1, i))]
<1>1. IsPruning(x, names, after)
  BY PruningExists DEF IsPruning
<1>2. RemoveEmptySections(x, names) = after[1]
  BY DEF RemoveEmptySections
<1> HIDE DEF after
<1> QED BY <1>1, <1>2

\* The deepest section goes first, if it is empty.
LEMMA RemoveEmptySectionsAppend ==
    ASSUME NEW x, NEW names \in Seq(Names), NEW n \in Names
    PROVE  RemoveEmptySections(x, Append(names, n)) =
              RemoveEmptySections(RemoveEmptyField(x, Append(names, n)), names)
<1> DEFINE z == RemoveEmptyField(x, Append(names, n))
<1>0. Append(names, n) \in Seq(Names)
  OBVIOUS
<1>1. PICK f : IsPruning(x, Append(names, n), f)
               /\ RemoveEmptySections(x, Append(names, n)) = f[1]
  BY <1>0, PruningIs
<1> HIDE DEF z
<1>2. PICK g : IsPruning(z, names, g) /\ RemoveEmptySections(z, names) = g[1]
  BY PruningIs
<1> DEFINE ff == [i \in 1..(Len(names) + 1) |-> f[i]]
<1>3. IsPruning(z, names, ff)
  BY <1>1, PruningShorter DEF z
<1>4. ff[1] = f[1]
  BY LenProperties
<1> HIDE DEF ff
<1>5. ff[1] = g[1]
  BY <1>2, <1>3, PruningUnique
<1> QED BY <1>1, <1>2, <1>4, <1>5 DEF z

\* Without sections there is nothing to prune.
LEMMA RemoveEmptySectionsEmpty ==
    ASSUME NEW x PROVE RemoveEmptySections(x, <<>>) = x
<1>1. <<>> \in Seq(Names)
  OBVIOUS
<1>2. PICK after : IsPruning(x, <<>>, after) /\ RemoveEmptySections(x, <<>>) = after[1]
  BY <1>1, PruningIs
<1> QED BY <1>2 DEF IsPruning

-----------------------------------------------------------------------------
(* The commands.                                                           *)

\* A document of that shape that is a tree of module Unstructured.
Stands(x, t) == Shape(x) /\ t = Flatten(x)

\* One more name can be set where there is a map or nothing.
LEMMA CanSetAppend ==
    ASSUME NEW x, NEW s \in Seq(Names), NEW n \in Names, CanSet(x, s),
           NestedField(x, s) = None \/ IsMap(NestedField(x, s))
    PROVE  CanSet(x, Append(s, n))
<1> DEFINE longer == Append(s, n)
<1>1. Len(s) \in Nat /\ Len(longer) = Len(s) + 1
  BY LenProperties, AppendProperties
<1>2. SubSeq(longer, 1, Len(s)) = s
  BY SubSeqBeforeAppend
<1>3. \A i \in 0..Len(s) : SubSeq(longer, 1, i) = SubSeq(s, 1, i)
  BY SubSeqOfAppend
<1> HIDE DEF longer
<1>4. ASSUME NEW i \in 1..(Len(longer) - 1)
      PROVE  IsMap(NestedField(x, SubSeq(longer, 1, i))) \/ NestedField(x, SubSeq(longer, 1, i)) = None
  <2>1. CASE i = Len(s)
    BY <1>2, <2>1
  <2>2. CASE i \in 1..(Len(s) - 1)
    <3>1. IsMap(NestedField(x, SubSeq(s, 1, i))) \/ NestedField(x, SubSeq(s, 1, i)) = None
      BY <2>2 DEF CanSet
    <3>2. SubSeq(longer, 1, i) = SubSeq(s, 1, i)
      BY <1>1, <1>3, <2>2
    <3> QED BY <3>1, <3>2
  <2>3. i = Len(s) \/ i \in 1..(Len(s) - 1)
    BY <1>1
  <2> QED BY <2>1, <2>2, <2>3
<1>5. CanSet(x, longer)
  BY <1>4 DEF CanSet
<1> QED BY <1>5 DEF longer

\* The commands can set every path, and the annotations.
LEMMA ShapeCanSet ==
    ASSUME NEW x, Shape(x)
    PROVE  /\ CanSet(x, annotations)
           /\ \A p \in Flat!Path : CanSet(x, NamesOf[p])
<1> DEFINE none == <<>>
           one == <<"metadata">>
<1>0. none \in Seq(Names) /\ Len(none) = 0
  OBVIOUS
<1>1. CanSet(x, none)
  BY DEF CanSet
<1>2. NestedField(x, none) = x /\ IsMap(x)
  BY NestedFieldEmpty DEF Shape
<1>3. one \in Seq(Names) /\ "metadata" \in Names /\ "annotations" \in Names /\ annotations \in Seq(Names)
  BY AnnotationsAreNames, NamesAreNames
<1>4. Append(none, "metadata") = one /\ Append(one, "annotations") = annotations
  BY EmptyNoPath, AppendToOne DEF annotations
<1>5. NestedField(x, one) = None \/ IsMap(NestedField(x, one))
  BY DEF Shape
<1>6. NestedField(x, annotations) = None \/ IsMap(NestedField(x, annotations))
  BY DEF Shape
<1> HIDE DEF none, one
<1>7. CanSet(x, one)
  BY <1>0, <1>1, <1>2, <1>3, <1>4, CanSetAppend
<1>8. CanSet(x, annotations)
  BY <1>3, <1>4, <1>5, <1>7, CanSetAppend
<1>9. ASSUME NEW p \in Flat!Path, CanSet(x, FrontOf[p]),
             NestedField(x, FrontOf[p]) = None \/ IsMap(NestedField(x, FrontOf[p]))
      PROVE  CanSet(x, NamesOf[p])
  <2>1. /\ FrontOf[p] \in Seq(Names) /\ LastOf[p] \in Names
        /\ NamesOf[p] = Append(FrontOf[p], LastOf[p])
    BY PathIs
  <2>2. CanSet(x, Append(FrontOf[p], LastOf[p]))
    BY <1>9, <2>1, CanSetAppend
  <2> QED BY <2>1, <2>2
<1>10. ASSUME NEW p \in Flat!Path, NEW s \in Flat!Section, FrontOf[p] = NamesOf[s], CanSet(x, NamesOf[s])
       PROVE  CanSet(x, NamesOf[p])
  <2>1. NestedField(x, NamesOf[s]) = None \/ IsMap(NestedField(x, NamesOf[s]))
    BY SectionIsMap DEF Shape, Got
  <2> QED BY <1>9, <1>10, <2>1
<1>11. CanSet(x, NamesOf["spec"])
  <2>1. "spec" \in Flat!Path /\ FrontOf["spec"] = none
    BY ThePaths, FrontTable DEF none
  <2> QED BY <1>1, <1>2, <1>9, <2>1
<1>12. CanSet(x, NamesOf["backups"])
  BY <1>10, <1>11, ThePaths, FrontTable
<1>13. CanSet(x, NamesOf["pgbackrest"])
  BY <1>10, <1>12, ThePaths, FrontTable
<1>14. CanSet(x, NamesOf["manual"])
  BY <1>10, <1>13, ThePaths, FrontTable
<1>15. CanSet(x, NamesOf["restore"])
  BY <1>10, <1>13, ThePaths, FrontTable
<1>16. CanSet(x, NamesOf["shutdown"]) /\ CanSet(x, NamesOf["instances"])
  BY <1>10, <1>11, ThePaths, FrontTable
<1>17. CanSet(x, NamesOf["repos"])
  BY <1>10, <1>13, ThePaths, FrontTable
<1>18. CanSet(x, NamesOf["manual.options"]) /\ CanSet(x, NamesOf["manual.repoName"])
  BY <1>10, <1>14, ThePaths, FrontTable
<1>19. CanSet(x, NamesOf["restore.enabled"]) /\ CanSet(x, NamesOf["restore.options"])
         /\ CanSet(x, NamesOf["restore.repoName"])
  BY <1>10, <1>15, ThePaths, FrontTable
<1>20. CanSet(x, NamesOf["backupAnnotation"]) /\ CanSet(x, NamesOf["restoreAnnotation"])
  BY <1>6, <1>8, <1>9, ThePaths, FrontTable
<1> QED BY <1>8, <1>11, <1>12, <1>13, <1>14, <1>15, <1>16, <1>17, <1>18, <1>19, <1>20, ThePaths

\* A document the commands know is not nil.
LEMMA ShapeNotNil ==
    ASSUME NEW x, Shape(x) PROVE x # Nil
BY DEF Shape, IsMap, Nil

\* Setting a field never fails.
LEMMA SetStands ==
    ASSUME NEW x, NEW t, Stands(x, t), NEW f \in Flat!Field, NEW v \in Flat!ValueOf[f]
    PROVE  Stands(Set(x, f, v), Flat!SetNestedField(t, f, v))
<1> DEFINE z == SetNestedField(x, NamesOf[f], Value(v))
<1>1. f \in Flat!Path /\ Shape(x) /\ t = Flatten(x)
  BY ThePaths DEF Stands
<1>2. Set(x, f, v) = z
  BY <1>1, ShapeCanSet, ShapeNotNil DEF Set
<1>3. Flatten(z) = Flat!SetNestedField(Flatten(x), f, v)
  BY <1>1, SetFlattens
<1> HIDE DEF z
<1>4. Shape(z)
  BY <1>1, SetShape DEF z
<1> QED BY <1>1, <1>2, <1>3, <1>4 DEF Stands

\* A flag, or its absence, comes to the same in both modules.
LEMMA FlagStands ==
    ASSUME NEW x, NEW t, Stands(x, t), NEW f \in Flat!Field, NEW v,
           v = Absent \/ v \in Flat!ValueOf[f]
    PROVE  Stands(Flag(x, f, v), Flat!SetOrRemove(t, f, v))
<1>1. f \in Flat!Path /\ Shape(x) /\ t = Flatten(x)
  BY ThePaths DEF Stands
<1>2. CASE v = Absent
  <2>1. Flag(x, f, v) = RemoveNestedField(x, NamesOf[f])
    BY <1>1, <1>2, ShapeNotNil DEF Flag
  <2>2. Flat!SetOrRemove(t, f, v) = Flat!RemoveNestedField(t, f)
    BY <1>2 DEF Flat!SetOrRemove
  <2> QED BY <1>1, <2>1, <2>2, RemoveFlattens DEF Stands
<1>3. CASE v # Absent
  <2>1. Flag(x, f, v) = Set(x, f, v)
    BY <1>1, <1>3, ShapeNotNil DEF Flag
  <2>2. Flat!SetOrRemove(t, f, v) = Flat!SetNestedField(t, f, v)
    BY <1>3 DEF Flat!SetOrRemove
  <2> QED BY <1>3, <2>1, <2>2, SetStands
<1> QED BY <1>2, <1>3

\* Merging an annotation never fails.
LEMMA AnnotateStands ==
    ASSUME NEW x, NEW t, Stands(x, t), NEW a \in Flat!Annotations, NEW v \in Times
    PROVE  Stands(Annotate(x, a, v), Flat!MergeAnnotation(t, a, v))
<1> DEFINE z == SetNestedField(x, NamesOf[a], Value(v))
<1>1. Shape(x) /\ t = Flatten(x)
  BY DEF Stands
<1>2. a \in Flat!Field /\ a \in Flat!Path /\ v \in Flat!ValueOf[a]
  <2>1. a \in Flat!Field /\ a \in Flat!Path
    BY DEF Flat!Field, Flat!Path
  <2>2. Flat!ValueOf[a] = Times
    <3>1. a \in {"backupAnnotation", "restoreAnnotation"}
      BY DEF Flat!Annotations
    <3> QED BY <2>1, <3>1 DEF Flat!ValueOf, Flat!Annotations
  <2> QED BY <2>1, <2>2
<1>3. FrontOf[a] = annotations
  BY FrontTable DEF Flat!Annotations
<1>4. LastOf[a] \in Names /\ NamesOf[a] = Append(annotations, LastOf[a]) /\ annotations \in Seq(Names)
  BY <1>2, <1>3, PathIs
<1>5. Front(NamesOf[a]) = annotations /\ Last(NamesOf[a]) = LastOf[a]
  <2>1. Front(Append(annotations, LastOf[a])) = annotations /\ Last(Append(annotations, LastOf[a])) = LastOf[a]
    BY <1>4, FrontOfAppend
  <2> QED BY <1>4, <2>1
<1>6. z = SetNestedField(x, annotations, With(NestedField(x, annotations), LastOf[a], Value(v)))
  <2>1. SetNestedField(x, Append(annotations, LastOf[a]), Value(v)) =
            SetNestedField(x, annotations, With(NestedField(x, annotations), LastOf[a], Value(v)))
    BY <1>4, SetAppend
  <2> QED BY <1>4, <2>1
<1> HIDE DEF z
<1>7. Annotate(x, a, v) = z
  BY <1>1, <1>5, <1>6, ShapeCanSet DEF Annotate
<1>8. Shape(z) /\ Flatten(z) = Flat!SetNestedField(t, a, v)
  BY <1>1, <1>2, SetShape, SetFlattens DEF z
<1>9. Flat!SetNestedField(t, a, v) = Flat!MergeAnnotation(t, a, v)
  <2>1. Flat!Above(a) = {}
    <3>1. a \in {"backupAnnotation", "restoreAnnotation"}
      BY DEF Flat!Annotations
    <3>2. ASSUME NEW s \in Flat!Section PROVE a \notin Flat!Under[s]
      BY <3>1, UnderTable, ThePaths DEF Flat!ManualFields, Flat!RestoreFields
    <3> QED BY <3>2 DEF Flat!Above
  <2>2. t = [fields |-> t.fields, empty |-> t.empty] /\ t.fields = [f \in Flat!Field |-> t.fields[f]]
    BY <1>1, FlattenIs
  <2>3. [t.fields EXCEPT ![a] = v] = [f \in Flat!Field |-> IF f = a THEN v ELSE t.fields[f]]
    BY <1>2, <2>2
  <2>4. Flat!SetNestedField(t, a, v) =
            [fields |-> [f \in Flat!Field |-> IF f = a THEN v ELSE t.fields[f]], empty |-> t.empty]
    BY <2>1, <2>3 DEF Flat!SetNestedField
  <2>5. Flat!MergeAnnotation(t, a, v) =
            [fields |-> [f \in Flat!Field |-> IF f = a THEN v ELSE t.fields[f]], empty |-> t.empty]
    BY <2>2 DEF Flat!MergeAnnotation
  <2> QED BY <2>4, <2>5
<1> QED BY <1>7, <1>8, <1>9 DEF Stands

\* An empty section is removed, and nothing else.
LEMMA RemoveEmptyStands ==
    ASSUME NEW x, NEW t, Stands(x, t), NEW s \in Flat!Section
    PROVE  Stands(RemoveEmptyField(x, NamesOf[s]), Flat!RemoveEmptyField(t, s))
<1>1. s \in Flat!Path /\ Shape(x) /\ t = Flatten(x)
  BY ThePaths DEF Stands
<1>2. s \in t.empty <=> Got(x, s) = NewMap
  BY <1>1 DEF Flatten, Got
<1>3. CASE Got(x, s) = NewMap
  <2>1. RemoveEmptyField(x, NamesOf[s]) = RemoveNestedField(x, NamesOf[s])
    BY <1>3 DEF RemoveEmptyField, Got
  <2>2. Flat!RemoveEmptyField(t, s) = Flat!RemoveNestedField(t, s)
    BY <1>2, <1>3 DEF Flat!RemoveEmptyField
  <2> QED BY <1>1, <2>1, <2>2, RemoveFlattens DEF Stands
<1>4. CASE Got(x, s) # NewMap
  <2>1. Flat!RemoveEmptyField(t, s) = t
    BY <1>2, <1>4 DEF Flat!RemoveEmptyField
  <2>2. CASE Got(x, s) = None
    <3>1. RemoveEmptyField(x, NamesOf[s]) = x
      BY <2>2 DEF RemoveEmptyField, RemoveNestedField, Got
    <3> QED BY <2>1, <3>1
  <2>3. CASE IsSection(Got(x, s), s)
    <3>1. IsMap(Got(x, s))
      BY <2>3, SectionIsMap
    <3>2. ~IsMap(None) /\ ~IsMap(Nil) /\ ~IsMap(List(<<>>)) /\ ~IsMap(Value("false"))
      BY DEF IsMap, None, Nil, List, Value
    <3>3. Got(x, s) \notin {None, Nil, NewMap, List(<<>>), Value("false")}
      BY <1>4, <3>1, <3>2
    <3>4. RemoveEmptyField(x, NamesOf[s]) = x
      BY <3>3 DEF RemoveEmptyField, Got
    <3> QED BY <2>1, <3>4
  <2> QED BY <1>1, <2>2, <2>3 DEF Shape
<1> QED BY <1>3, <1>4

\* Each section on the way, from the deepest to the shallowest.
LEMMA PruneStep ==
    ASSUME NEW x, NEW p \in Flat!Path
    PROVE  RemoveEmptySections(x, NamesOf[p]) =
              RemoveEmptySections(RemoveEmptyField(x, NamesOf[p]), FrontOf[p])
<1>1. /\ FrontOf[p] \in Seq(Names) /\ LastOf[p] \in Names
      /\ NamesOf[p] = Append(FrontOf[p], LastOf[p])
  BY PathIs
<1>2. RemoveEmptySections(x, Append(FrontOf[p], LastOf[p])) =
          RemoveEmptySections(RemoveEmptyField(x, Append(FrontOf[p], LastOf[p])), FrontOf[p])
  BY <1>1, RemoveEmptySectionsAppend
<1> QED BY <1>1, <1>2

\* Pruning from pgbackrest up comes to the same in both modules.
LEMMA RemoveEmptySectionsStands ==
    ASSUME NEW x, NEW t, Stands(x, t)
    PROVE  Stands(RemoveEmptySections(x, NamesOf["pgbackrest"]), Flat!RemoveEmptySections(t))
<1> DEFINE x1 == RemoveEmptyField(x, NamesOf["pgbackrest"])
           x2 == RemoveEmptyField(x1, NamesOf["backups"])
           x3 == RemoveEmptyField(x2, NamesOf["spec"])
           t1 == Flat!RemoveEmptyField(t, "pgbackrest")
           t2 == Flat!RemoveEmptyField(t1, "backups")
           t3 == Flat!RemoveEmptyField(t2, "spec")
           none == <<>>
<1>0. {"pgbackrest", "backups", "spec"} \subseteq Flat!Section
         /\ {"pgbackrest", "backups", "spec"} \subseteq Flat!Path
  BY ThePaths
<1>1. Stands(x1, t1)
  BY <1>0, RemoveEmptyStands
<1>2. RemoveEmptySections(x, NamesOf["pgbackrest"]) = RemoveEmptySections(x1, NamesOf["backups"])
  BY <1>0, PruneStep, FrontTable
<1>3. Flat!RemoveEmptySections(t) = t3
  BY DEF Flat!RemoveEmptySections
<1> HIDE DEF x1, t1
<1>4. Stands(x2, t2)
  BY <1>0, <1>1, RemoveEmptyStands
<1>5. RemoveEmptySections(x1, NamesOf["backups"]) = RemoveEmptySections(x2, NamesOf["spec"])
  BY <1>0, PruneStep, FrontTable
<1> HIDE DEF x2, t2
<1>6. Stands(x3, t3)
  BY <1>0, <1>4, RemoveEmptyStands
<1>7. RemoveEmptySections(x2, NamesOf["spec"]) = RemoveEmptySections(x3, none)
  BY <1>0, PruneStep, FrontTable
<1> HIDE DEF x3, t3
<1>8. RemoveEmptySections(x3, none) = x3
  BY RemoveEmptySectionsEmpty
<1> QED BY <1>2, <1>3, <1>5, <1>6, <1>7, <1>8

\* What the command line gives is what the fields hold.
LEMMA RequestValues ==
    ASSUME NEW r \in Requests
    PROVE  /\ r.command \in {"backup", "restore", "disable", "start", "stop"}
           /\ \A f \in {"manual.options", "restore.options"} :
                 r.options = Absent \/ r.options \in Flat!ValueOf[f]
           /\ \A f \in {"manual.repoName", "restore.repoName"} :
                 r.repoName = Absent \/ r.repoName \in Flat!ValueOf[f]
           /\ Flat!ShutdownValue(r) \in Flat!ValueOf["shutdown"]
           /\ "true" \in Flat!ValueOf["restore.enabled"]
<1>1. r \in Flat!Request /\ r.command \in {"backup", "restore", "disable", "start", "stop"}
  BY RequestsAssumption DEF RequestsAssumption
<1>2. r.options \in OptionLists \cup {Absent} /\ r.repoName \in Repos \cup {Absent}
  BY <1>1 DEF Flat!Request
<1>3. \A f \in {"manual.options", "restore.options"} : Flat!ValueOf[f] = OptionLists
  BY ThePaths DEF Flat!ValueOf, Flat!Annotations
<1>4. \A f \in {"manual.repoName", "restore.repoName"} : Flat!ValueOf[f] = Repos
  BY ThePaths DEF Flat!ValueOf, Flat!Annotations
<1>5. \A f \in {"shutdown", "restore.enabled"} : Flat!ValueOf[f] = {"true", "false"}
  BY ThePaths DEF Flat!ValueOf, Flat!Annotations
<1> QED BY <1>1, <1>2, <1>3, <1>4, <1>5 DEF Flat!ShutdownValue

\* Every command does to the document what it does to the tree.
LEMMA ModifyStands ==
    ASSUME NEW x, NEW t, Stands(x, t), NEW r \in Requests, NEW time \in Times
    PROVE  Stands(ModifyIntent(x, r, time), Flat!ModifyIntent(t, r, time))
<1>0. /\ {"manual.options", "manual.repoName", "restore.enabled", "restore.options",
          "restore.repoName", "shutdown"} \subseteq Flat!Field
      /\ "backupAnnotation" \in Flat!Annotations /\ "restoreAnnotation" \in Flat!Annotations
      /\ "restore" \in Flat!Path /\ "manual" \in Flat!Section /\ "manual" \in Flat!Path
  BY ThePaths DEF Flat!Annotations
<1>1. CASE r.command = "backup"
  <2> DEFINE x1 == Annotate(x, "backupAnnotation", time)
             x2 == Flag(x1, "manual.options", r.options)
             x3 == Flag(x2, "manual.repoName", r.repoName)
             x4 == RemoveEmptyField(x3, NamesOf["manual"])
             t1 == Flat!MergeAnnotation(t, "backupAnnotation", time)
             t2 == Flat!SetOrRemove(t1, "manual.options", r.options)
             t3 == Flat!SetOrRemove(t2, "manual.repoName", r.repoName)
             t4 == Flat!RemoveEmptyField(t3, "manual")
  <2>1. ModifyIntent(x, r, time) = IF x3 = Nil THEN Nil ELSE RemoveEmptySections(x3, NamesOf["manual"])
    BY <1>1 DEF ModifyIntent, BackupIntent
  <2>2. Flat!ModifyIntent(t, r, time) = Flat!RemoveEmptySections(t4)
    BY <1>1 DEF Flat!ModifyIntent, Flat!BackupIntent, Flat!RemoveEmptyManualSections
  <2>3. Stands(x1, t1)
    BY <1>0, AnnotateStands
  <2> HIDE DEF x1, t1
  <2>4. Stands(x2, t2)
    BY <1>0, <2>3, FlagStands, RequestValues
  <2> HIDE DEF x2, t2
  <2>5. Stands(x3, t3)
    BY <1>0, <2>4, FlagStands, RequestValues
  <2> HIDE DEF x3, t3
  <2>6. x3 # Nil
    BY <2>5, ShapeNotNil DEF Stands
  <2>7. RemoveEmptySections(x3, NamesOf["manual"]) = RemoveEmptySections(x4, NamesOf["pgbackrest"])
    BY <1>0, PruneStep, FrontTable
  <2>8. Stands(x4, t4)
    BY <1>0, <2>5, RemoveEmptyStands
  <2> HIDE DEF x4, t4
  <2>9. Stands(RemoveEmptySections(x4, NamesOf["pgbackrest"]), Flat!RemoveEmptySections(t4))
    BY <2>8, RemoveEmptySectionsStands
  <2> QED BY <2>1, <2>2, <2>6, <2>7, <2>9
<1>2. CASE r.command = "restore"
  <2> DEFINE x1 == Annotate(x, "restoreAnnotation", time)
             x2 == Set(x1, "restore.enabled", "true")
             x3 == Flag(x2, "restore.options", r.options)
             x4 == Flag(x3, "restore.repoName", r.repoName)
             t1 == Flat!MergeAnnotation(t, "restoreAnnotation", time)
             t2 == Flat!SetNestedField(t1, "restore.enabled", "true")
             t3 == Flat!SetOrRemove(t2, "restore.options", r.options)
             t4 == Flat!SetOrRemove(t3, "restore.repoName", r.repoName)
  <2>1. ModifyIntent(x, r, time) = x4
    BY <1>2 DEF ModifyIntent, RestoreIntent
  <2>2. Flat!ModifyIntent(t, r, time) = t4
    BY <1>2 DEF Flat!ModifyIntent, Flat!RestoreIntent
  <2>3. Stands(x1, t1)
    BY <1>0, AnnotateStands
  <2> HIDE DEF x1, t1
  <2>4. Stands(x2, t2)
    BY <1>0, <2>3, SetStands, RequestValues
  <2> HIDE DEF x2, t2
  <2>5. Stands(x3, t3)
    BY <1>0, <2>4, FlagStands, RequestValues
  <2> HIDE DEF x3, t3
  <2>6. Stands(x4, t4)
    BY <1>0, <2>5, FlagStands, RequestValues
  <2> QED BY <2>1, <2>2, <2>6
<1>3. CASE r.command = "disable"
  <2> DEFINE x1 == RemoveNestedField(x, NamesOf["restore"])
             t1 == Flat!RemoveNestedField(t, "restore")
  <2>1. ModifyIntent(x, r, time) = RemoveEmptySections(x1, NamesOf["pgbackrest"])
    BY <1>3 DEF ModifyIntent, DisableIntent
  <2>2. Flat!ModifyIntent(t, r, time) = Flat!RemoveEmptySections(t1)
    BY <1>3 DEF Flat!ModifyIntent, Flat!DisableIntent
  <2>3. Stands(x1, t1)
    BY <1>0, RemoveFlattens DEF Stands
  <2> HIDE DEF x1, t1
  <2> QED BY <2>1, <2>2, <2>3, RemoveEmptySectionsStands
<1>4. CASE r.command \in {"start", "stop"}
  <2>1. ModifyIntent(x, r, time) = Set(x, "shutdown", Flat!ShutdownValue(r))
    BY <1>4 DEF ModifyIntent
  <2>2. Flat!ModifyIntent(t, r, time) = Flat!SetNestedField(t, "shutdown", Flat!ShutdownValue(r))
    BY <1>4 DEF Flat!ModifyIntent, Flat!ShutdownIntent
  <2> QED BY <1>0, <2>1, <2>2, SetStands, RequestValues
<1> QED BY <1>1, <1>2, <1>3, <1>4, RequestValues

-----------------------------------------------------------------------------
(* What is extracted when the managed paths follow the object.             *)

\* A map with one of its fields or more, none of them nothing.
IsPart(y, z) ==
    /\ Keys(y) # {} /\ Keys(y) \subseteq Keys(z)
    /\ y = Map([n \in Keys(y) |-> FieldOf(y, n)])
    /\ \A n \in Keys(y) : FieldOf(y, n) # None

\* A map has no items.
LEMMA MapHasFields ==
    ASSUME NEW y, IsMap(y), NEW e \in Element, StepsOf(y, e) # {}
    PROVE  \E n \in Keys(y) : e = FieldName(n)
<1>1. Items(y) = <<>>
  BY DEF IsMap, Items
<1>2. DOMAIN <<>> = {}
  OBVIOUS
<1>3. e[1] = "f"
  <2> SUFFICES ASSUME e[1] # "f" PROVE FALSE
    OBVIOUS
  <2> QED BY <1>1, <1>2 DEF StepsOf
<1>4. StepsOf(y, e) = {e} \cap {FieldName(n) : n \in Keys(y)}
  BY <1>3 DEF StepsOf
<1> QED BY <1>4

\* A call has a result, nil or not.
LEMMA ExtractedIsSomething ==
    ASSUME NEW src, NEW paths, NEW place, NEW path, NEW call
    PROVE  Extracted(src, paths, place, path, call) # None
<1> DEFINE map == MapOf(src, paths, place, path, call)
           list == ListOf(src, paths, place, path, call)
           r == Extracted(src, paths, place, path, call)
<1>1. \/ DOMAIN map # {} /\ r = Map(map)
      \/ DOMAIN map = {} /\ list # <<>> /\ r = List(list)
      \/ DOMAIN map = {} /\ list = <<>> /\ r = Nil
  BY ExtractedIs
<1> HIDE DEF map, list, r
<1>2. r # None
  BY <1>1 DEF Map, List, Nil, None
<1> QED BY <1>2 DEF r

\* A call finds part of a map that a path leads to.
LEMMA CallOfMap ==
    ASSUME NEW x, NEW paths, Extractable(x, paths), Follows(x, paths),
           NEW call, IsCalls(x, paths, call),
           NEW names \in Seq(Names), IsMap(NestedField(x, names)),
           Leading(paths, ElementsOf(names))
    PROVE  IsPart(call[<<ElementsOf(names), ElementsOf(names)>>], NestedField(x, names))
<1> DEFINE e == ElementsOf(names)
           z == NestedField(x, names)
           map == MapOf(x, paths, e, e, call)
           y == call[<<e, e>>]
<1>0. /\ paths \subseteq Seq(Element) /\ IsDocument(x)
      /\ e \in Seq(Step) /\ e \in Seq(Element)
      /\ z = At(x, e)
  BY ElementsOfNames DEF Extractable, NestedField
<1>1. z # None
  BY DEF IsMap, None
<1>2. e \in Reach(x, e)
  BY <1>1, ReachNames
<1>3. PICK q \in paths : IsStrictPrefix(e, q)
  BY DEF Leading
<1> DEFINE c == q[Len(e) + 1]
<1>4. /\ c \in Element /\ c \in Members(paths, e) \cup Children(paths, e)
      /\ \A place \in Reach(x, e) : StepsOf(At(x, place), c) # {}
  BY <1>0, <1>3, FollowedStep
<1> HIDE DEF c
<1>5. StepsOf(z, c) # {}
  BY <1>0, <1>2, <1>4
<1>6. PICK n \in Keys(z) : c = FieldName(n)
  BY <1>4, <1>5, MapHasFields
<1>7. y = Extracted(x, paths, e, e, call)
  BY <1>0, CallIs
<1> HIDE DEF e, z
<1>8. n \in DOMAIN map /\ DOMAIN map \subseteq Keys(z) /\ map = [k \in DOMAIN map |-> map[k]]
  BY <1>0, <1>4, <1>6 DEF MapOf
<1>9. y = Map(map)
  <2> DEFINE list == ListOf(x, paths, e, e, call)
             r == Extracted(x, paths, e, e, call)
  <2>1. \/ DOMAIN map # {} /\ r = Map(map)
        \/ DOMAIN map = {} /\ list # <<>> /\ r = List(list)
        \/ DOMAIN map = {} /\ list = <<>> /\ r = Nil
    BY ExtractedIs
  <2> HIDE DEF map, list, r
  <2> QED BY <1>7, <1>8, <2>1 DEF r
<1>10. \A k \in DOMAIN map : map[k] # None
  <2> SUFFICES ASSUME NEW k \in DOMAIN map PROVE map[k] # None
    OBVIOUS
  <2>1. k \in Keys(z) /\ k \in Names /\ FieldOf(z, k) # None
    BY <1>0, <1>8, DocumentAt
  <2>2. FieldOf(z, k) = z[2][k]
    BY <2>1 DEF FieldOf
  <2> DEFINE place == Append(e, FieldName(k))
  <2>3. call[<<place, place>>] # None
    <3>1. FieldName(k) \in Step /\ FieldName(k) \in Element
      BY <2>1 DEF FieldName, Step, Element
    <3>2. place \in Seq(Step) /\ place \in Seq(Element)
      BY <1>0, <3>1, AppendProperties
    <3> HIDE DEF place
    <3>3. call[<<place, place>>] = Extracted(x, paths, place, place, call)
      BY <3>2, CallIs
    <3> QED BY <3>3, ExtractedIsSomething
  <2>4. map[k] = z[2][k] \/ map[k] = call[<<place, place>>]
    BY <1>0 DEF MapOf
  <2> HIDE DEF map, place
  <2> QED BY <2>1, <2>2, <2>3, <2>4
<1> HIDE DEF map, y
<1>11. Keys(y) = DOMAIN map /\ \A k \in DOMAIN map : FieldOf(y, k) = map[k]
  BY <1>9 DEF Keys, IsMap, Map, FieldOf
<1>12. [k \in Keys(y) |-> FieldOf(y, k)] = map
  BY <1>8, <1>11
<1>13. IsPart(y, z)
  BY <1>8, <1>9, <1>10, <1>11, <1>12 DEF IsPart
<1> QED BY <1>13 DEF y, z, e

\* A part of a map is a map, and not an empty one.
LEMMA PartIsMap ==
    ASSUME NEW y, NEW z, IsPart(y, z)
    PROVE  IsMap(y) /\ y # NewMap /\ y # None
<1> DEFINE f == [n \in Keys(y) |-> FieldOf(y, n)]
<1>1. y = Map(f) /\ Keys(y) # {}
  BY DEF IsPart
<1> HIDE DEF f
<1>2. IsMap(y) /\ y # None
  BY <1>1 DEF Map, IsMap, None
<1>3. Keys(NewMap) = {}
  BY DEF Keys, IsMap, NewMap, Map
<1> QED BY <1>1, <1>2, <1>3

\* What is followed is there.
LEMMA FollowedIsThere ==
    ASSUME NEW x, x # None, NEW paths, Extractable(x, paths), Follows(x, paths),
           NEW q \in paths, NEW names \in Seq(Names), IsPrefix(ElementsOf(names), q)
    PROVE  NestedField(x, names) # None
<1> DEFINE T == {s \in Seq(Names) : IsPrefix(ElementsOf(s), q) => NestedField(x, s) # None}
<1>0. paths \subseteq Seq(Element) /\ IsDocument(x) /\ q \in Seq(Element)
  BY DEF Extractable
<1>1. <<>> \in T
  BY NestedFieldEmpty
<1>2. ASSUME NEW s \in Seq(Names), NEW n \in Names, s \in T
      PROVE  Append(s, n) \in T
  <2> DEFINE e == ElementsOf(s)
             longer == Append(s, n)
  <2>1. SUFFICES ASSUME IsPrefix(ElementsOf(longer), q)
                 PROVE  NestedField(x, longer) # None
    OBVIOUS
  <2>2. e \in Seq(Element) /\ e \in Seq(Step) /\ At(x, e) = NestedField(x, s)
    BY ElementsOfNames DEF NestedField
  <2>3. ElementsOf(longer) = Append(e, FieldName(n))
    BY ElementsOfAppend
  <2>4. FieldName(n) \in Element
    BY DEF FieldName, Element
  <2>5. NestedField(x, longer) = FieldOf(NestedField(x, s), n)
    BY NestedFieldAppend
  <2> HIDE DEF e, longer
  <2>6. IsStrictPrefix(e, q) /\ q[Len(e) + 1] = FieldName(n)
    BY <1>0, <2>1, <2>2, <2>3, <2>4, AppendIsPrefix
  <2>7. NestedField(x, s) # None
    BY <1>2, <2>6 DEF e, IsStrictPrefix
  <2>8. e \in Reach(x, e)
    BY <2>7, ReachNames DEF e
  <2>9. StepsOf(At(x, e), q[Len(e) + 1]) # {}
    BY <1>0, <2>2, <2>6, <2>8, FollowedStep
  <2>10. n \in Keys(NestedField(x, s))
    <3>1. StepsOf(At(x, e), FieldName(n)) # {}
      BY <2>6, <2>9
    <3>2. FieldName(n)[1] = "f" /\ \A k : FieldName(k) = FieldName(n) => k = n
      BY DEF FieldName
    <3>3. StepsOf(At(x, e), FieldName(n)) = {FieldName(n)} \cap {FieldName(k) : k \in Keys(At(x, e))}
      BY <3>2 DEF StepsOf
    <3> QED BY <2>2, <3>1, <3>2, <3>3
  <2> QED BY <1>0, <2>2, <2>5, <2>10, DocumentAt
<1> HIDE DEF T
<1>3. names \in T
  BY <1>1, <1>2, SequenceInduction
<1> QED BY <1>3 DEF T

\* The leaves are followed, too, and end well.
LEMMA LeavesFollow ==
    ASSUME NEW x \in Objects, NEW paths \in Managed(x), Follows(x, paths)
    PROVE  /\ Leaves(paths) \subseteq paths
           /\ Follows(x, Leaves(paths))
           /\ EndsWell(Leaves(paths))
<1>1. Leaves(paths) \subseteq paths
  BY DEF Leaves
<1>2. IsManaged(paths)
  BY ManagedIs
<1>3. EndsWell(Leaves(paths))
  BY <1>1, <1>2 DEF EndsWell, IsManaged
<1> QED BY <1>1, <1>3 DEF Follows

\* The objects have the shape the commands know.
LEMMA ObjectShape ==
    ASSUME NEW x \in Objects PROVE Shape(x)
<1>1. IsDocument(x) /\ IsCluster(x)
  BY ObjectsAssumption DEF ObjectsAssumption
<1>2. \A names \in {<<"metadata">>, annotations} :
          NestedField(x, names) = None \/ IsMap(NestedField(x, names))
  BY <1>1 DEF IsCluster, annotations
<1>3. ASSUME NEW s \in Flat!Section, Got(x, s) # None
      PROVE  IsSection(Got(x, s), s)
  <2> DEFINE y == Got(x, s)
             e == ElementsOf(NamesOf[s])
  <2>0. s \in Flat!Path /\ NamesOf[s] \in Seq(Names)
    BY PathsAreNames DEF Flat!Path
  <2>1. IsMap(y) /\ \A n \in Keys(y) : \E p \in Flat!Path : NamesOf[p] = Append(NamesOf[s], n)
    BY <1>1, <1>3 DEF IsCluster, Got
  <2>2. e \in Seq(Step) /\ y = At(x, e)
    BY <2>0, ElementsOfNames DEF Got, NestedField
  <2> HIDE DEF y, e
  <2>3. y = Map([n \in Keys(y) |-> FieldOf(y, n)]) /\ \A n \in Keys(y) : FieldOf(y, n) # None
    BY <1>1, <2>1, <2>2, DocumentAt
  <2>4. IsSection(y, s)
    BY <2>1, <2>3 DEF IsSection
  <2> QED BY <2>4 DEF y
<1>4. \A f \in Flat!Field : Got(x, f) = None \/ \E v \in Flat!ValueOf[f] : Got(x, f) = Value(v)
  BY <1>1 DEF IsCluster, Got
<1>5. IsMap(x) /\ NoNil(x)
  BY <1>1, DocumentNoNil DEF IsCluster
<1> QED BY <1>2, <1>3, <1>4, <1>5 DEF Shape

\* What is extracted is a map without null.
LEMMA CopiedIsMap ==
    ASSUME NEW x \in Objects, NEW paths \in Managed(x), Follows(x, paths)
    PROVE  IsMap(ExtractFieldsInto(x, paths)) /\ NoNil(ExtractFieldsInto(x, paths))
<1> DEFINE none == <<>>
           L == Leaves(paths)
           r == extractDepthFirst(x, L)
<1>1. ExtractFieldsInto(x, paths) = IF IsMap(r) THEN r ELSE NewMap
  BY DEF ExtractFieldsInto
<1>2. Extractable(x, L)
  BY ManagedIs
<1>3. PICK call : IsCalls(x, L, call) /\ r = call[<<none, none>>]
  BY <1>2, ExtractionIsACall
<1>4. none \in Seq(Element) /\ none \in Seq(Step)
  OBVIOUS
<1>5. IsMap(NewMap) /\ NoNil(NewMap)
  <2>1. IsMap(NewMap) /\ Keys(NewMap) = {}
    BY DEF IsMap, NewMap, Map, Keys
  <2>2. \A n \in Names : FieldOf(NewMap, n) = None
    BY <2>1 DEF FieldOf
  <2>3. \A n \in Names : NoNil(FieldOf(NewMap, n))
    BY <2>2, NoNilNone
  <2> QED BY <2>1, <2>3, NoNilMap
<1>6. CASE Leading(L, none)
  <2>1. none \in Reach(x, none)
    BY ReachEmpty DEF Top
  <2>2. Follows(x, L) /\ EndsWell(L)
    BY LeavesFollow
  <2> HIDE DEF none, L, r
  <2>3. NoNil(r)
    BY <1>2, <1>3, <1>4, <1>6, <2>1, <2>2, CallNoNil
  <2> QED BY <1>1, <1>5, <2>3 DEF r, L
<1>7. CASE ~Leading(L, none)
  <2>1. ASSUME NEW p \in L PROVE FALSE
    <3>1. p \in Seq(Element) /\ Len(p) \in 1..MaxDepth
      BY <1>2 DEF Extractable
    <3>2. Len(none) = 0
      OBVIOUS
    <3>3. IsPrefix(none, p)
      BY <3>1, PrefixOfItself
    <3> HIDE DEF none
    <3>4. IsStrictPrefix(none, p)
      <4>1. 0 < Len(p)
        BY <3>1, NamesAssumption DEF NamesAssumption
      <4> QED BY <1>4, <3>1, <3>2, <3>3, <4>1, ShorterIsStrict
    <3> QED BY <1>7, <2>1, <3>4 DEF Leading
  <2>2. L = {}
    BY <2>1
  <2> DEFINE map == MapOf(x, L, none, none, call)
             list == ListOf(x, L, none, none, call)
             q == Extracted(x, L, none, none, call)
  <2>3. DOMAIN map = {}
    <3>1. Members(L, none) = {} /\ Children(L, none) = {}
      BY <2>2 DEF Members, Children
    <3> QED BY <3>1 DEF MapOf
  <2>4. r = q
    BY <1>3, <1>4, CallIs
  <2>5. \/ DOMAIN map # {} /\ q = Map(map)
        \/ DOMAIN map = {} /\ list # <<>> /\ q = List(list)
        \/ DOMAIN map = {} /\ list = <<>> /\ q = Nil
    BY ExtractedIs
  <2> HIDE DEF map, list, q, r
  <2>6. ~IsMap(r)
    BY <2>3, <2>4, <2>5 DEF IsMap, List, Nil
  <2> QED BY <1>1, <1>5, <2>6
<1> QED BY <1>6, <1>7

\* A map of the object, in what is extracted.
LEMMA MapExtracted ==
    ASSUME NEW x \in Objects, NEW paths \in Managed(x), Follows(x, paths),
           NEW names \in Seq(Names), names # <<>>, IsMap(NestedField(x, names))
    PROVE  LET z == NestedField(ExtractFieldsInto(x, paths), names)
               L == Leaves(paths)
           IN  /\ Covered(L, ElementsOf(names)) => z = NestedField(x, names)
               /\ ~Covered(L, ElementsOf(names)) => z = None \/ IsPart(z, NestedField(x, names))
<1> DEFINE z == NestedField(ExtractFieldsInto(x, paths), names)
           e == ElementsOf(names)
           L == Leaves(paths)
<1>1. Extractable(x, L) /\ Follows(x, L)
  BY ManagedIs, LeavesFollow
<1>2. PICK call : IsCalls(x, L, call) /\ extractDepthFirst(x, L) = call[<<<<>>, <<>>>>]
  BY <1>1, ExtractionIsACall
<1>3. ExtractFieldsInto(x, paths) = TopMap(call[<<<<>>, <<>>>>])
  BY <1>2 DEF ExtractFieldsInto, TopMap
<1>4. z = IF Covered(L, e) THEN NestedField(x, names)
          ELSE IF names = <<>> THEN TopMap(call[<<<<>>, <<>>>>])
          ELSE IF Leading(L, e) /\ NestedField(x, names) # None THEN call[<<e, e>>]
          ELSE None
  <2>1. NestedField(TopMap(call[<<<<>>, <<>>>>]), names) =
          IF Covered(L, e) THEN NestedField(x, names)
          ELSE IF names = <<>> THEN TopMap(call[<<<<>>, <<>>>>])
          ELSE IF Leading(L, e) /\ NestedField(x, names) # None THEN call[<<e, e>>]
          ELSE None
    BY <1>1, <1>2, NestedExtracted
  <2> QED BY <1>3, <2>1
<1>5. Leading(L, e) => IsPart(call[<<e, e>>], NestedField(x, names))
  BY <1>1, <1>2, CallOfMap
<1> HIDE DEF z, e, L
<1>6. /\ Covered(L, e) => z = NestedField(x, names)
      /\ ~Covered(L, e) => z = None \/ IsPart(z, NestedField(x, names))
  BY <1>4, <1>5
<1> QED BY <1>6 DEF z, e, L

\* Nothing is extracted from where the object has nothing.
LEMMA NothingExtracted ==
    ASSUME NEW x \in Objects, NEW paths \in Managed(x), NEW names \in Seq(Names), names # <<>>,
           NestedField(x, names) = None
    PROVE  NestedField(ExtractFieldsInto(x, paths), names) = None
<1> DEFINE L == Leaves(paths)
           e == ElementsOf(names)
<1>1. Extractable(x, L)
  BY ManagedIs
<1>2. PICK call : IsCalls(x, L, call) /\ extractDepthFirst(x, L) = call[<<<<>>, <<>>>>]
  BY <1>1, ExtractionIsACall
<1>3. ExtractFieldsInto(x, paths) = TopMap(call[<<<<>>, <<>>>>])
  BY <1>2 DEF ExtractFieldsInto, TopMap
<1>4. NestedField(TopMap(call[<<<<>>, <<>>>>]), names) =
          IF Covered(L, e) THEN NestedField(x, names)
          ELSE IF names = <<>> THEN TopMap(call[<<<<>>, <<>>>>])
          ELSE IF Leading(L, e) /\ NestedField(x, names) # None THEN call[<<e, e>>]
          ELSE None
    BY <1>1, <1>2, NestedExtracted
<1> QED BY <1>3, <1>4

\* A field of the object, in what is extracted.
LEMMA FieldExtracted ==
    ASSUME NEW x \in Objects, NEW paths \in Managed(x), NEW f \in Flat!Field
    PROVE  Got(ExtractFieldsInto(x, paths), f) =
              IF \E q \in Flat!LeavesOf(FlatOf(paths)) : f \in Flat!Subtree(q)
              THEN Got(x, f) ELSE None
<1>1. PICK call : /\ IsCalls(x, Leaves(paths), call)
                  /\ extractDepthFirst(x, Leaves(paths)) = call[<<<<>>, <<>>>>]
  BY ManagedIs, ExtractionIsACall
<1>2. f \in Flat!Path /\ Flat!Subtree(f) = {f}
  BY ThePaths DEF Flat!Subtree
<1>3. ~\E q \in Flat!LeavesOf(FlatOf(paths)) : q \in Flat!Subtree(f) \ {f}
  BY <1>2
<1> QED BY <1>1, <1>2, <1>3, PathExtracted DEF Got

\* What is extracted has the shape the commands know.
LEMMA CopiedShape ==
    ASSUME NEW x \in Objects, NEW paths \in Managed(x), Follows(x, paths)
    PROVE  Shape(ExtractFieldsInto(x, paths))
<1> DEFINE c == ExtractFieldsInto(x, paths)
<1>1. Shape(x)
  BY ObjectShape
<1>2. IsMap(c) /\ NoNil(c)
  BY CopiedIsMap
<1>3. ASSUME NEW names \in Seq(Names), names # <<>>,
             NestedField(x, names) = None \/ IsMap(NestedField(x, names))
      PROVE  NestedField(c, names) = None \/ IsMap(NestedField(c, names))
  <2>1. CASE NestedField(x, names) = None
    BY <1>3, <2>1, NothingExtracted
  <2>2. CASE IsMap(NestedField(x, names))
    <3>1. \/ NestedField(c, names) = NestedField(x, names)
          \/ NestedField(c, names) = None
          \/ IsPart(NestedField(c, names), NestedField(x, names))
      BY <1>3, <2>2, MapExtracted
    <3> HIDE DEF c
    <3> QED BY <2>2, <3>1, PartIsMap
  <2> QED BY <1>3, <2>1, <2>2
<1>4. \A names \in {<<"metadata">>, annotations} :
         NestedField(c, names) = None \/ IsMap(NestedField(c, names))
  <2> SUFFICES ASSUME NEW names \in {<<"metadata">>, annotations}
               PROVE  NestedField(c, names) = None \/ IsMap(NestedField(c, names))
    OBVIOUS
  <2>1. names \in Seq(Names) /\ names # <<>>
    BY AnnotationsAreNames, EmptyNoPath, NamesAreNames
  <2>2. NestedField(x, names) = None \/ IsMap(NestedField(x, names))
    BY <1>1 DEF Shape
  <2> HIDE DEF c
  <2> QED BY <1>3, <2>1, <2>2
<1>5. ASSUME NEW s \in Flat!Section
      PROVE  Got(c, s) = None \/ IsSection(Got(c, s), s)
  <2>1. s \in Flat!Path /\ NamesOf[s] \in Seq(Names) /\ NamesOf[s] # <<>>
    BY PathsRelate DEF Flat!Path
  <2>2. CASE Got(x, s) = None
    BY <2>1, <2>2, NothingExtracted DEF Got
  <2>3. CASE IsSection(Got(x, s), s)
    <3>1. IsMap(Got(x, s))
      BY <2>3, SectionIsMap
    <3>2. \/ Got(c, s) = Got(x, s)
          \/ Got(c, s) = None
          \/ IsPart(Got(c, s), Got(x, s))
      BY <2>1, <3>1, MapExtracted DEF Got
    <3>3. ASSUME IsPart(Got(c, s), Got(x, s)) PROVE IsSection(Got(c, s), s)
      BY <2>3, <3>3 DEF IsPart, IsSection
    <3> QED BY <2>3, <3>2, <3>3
  <2> QED BY <1>1, <2>2, <2>3 DEF Shape
<1>6. ASSUME NEW f \in Flat!Field
      PROVE  Got(c, f) = None \/ \E v \in Flat!ValueOf[f] : Got(c, f) = Value(v)
  <2>1. Got(x, f) = None \/ \E v \in Flat!ValueOf[f] : Got(x, f) = Value(v)
    BY <1>1 DEF Shape
  <2> QED BY <2>1, FieldExtracted
<1> HIDE DEF c
<1>7. Shape(c)
  BY <1>2, <1>4, <1>5, <1>6 DEF Shape
<1> QED BY <1>7 DEF c

\* Full, of any object and any paths.
Filled(x, paths) ==
    \A s \in Flatten(x).empty : Flat!LeavesOf(FlatOf(paths)) \cap Flat!Above(s) = {}

\* A managed path that is followed is there.
LEMMA ManagedIsThere ==
    ASSUME NEW x \in Objects, NEW paths \in Managed(x), Follows(x, paths), NEW p \in FlatOf(paths)
    PROVE  p \in There(x)
<1>1. p \in Flat!Path /\ PlaceOf(p) \in paths /\ Extractable(x, paths)
  BY ManagedIs DEF FlatOf
<1>2. NamesOf[p] \in Seq(Names) /\ PlaceOf(p) \in Seq(Element)
  BY <1>1, PathsAreNames, PlaceTree
<1>3. IsPrefix(ElementsOf(NamesOf[p]), PlaceOf(p))
  BY <1>2, PrefixOfItself DEF PlaceOf
<1>4. x # None
  BY ObjectShape DEF Shape, IsMap, None
<1>5. NestedField(x, NamesOf[p]) # None
  BY <1>1, <1>2, <1>3, <1>4, FollowedIsThere
<1> QED BY <1>1, <1>5 DEF There, Got

\* The empty sections of what is extracted.
LEMMA EmptyExtracted ==
    ASSUME NEW x \in Objects, NEW paths \in Managed(x), Follows(x, paths), Filled(x, paths),
           NEW s \in Flat!Section
    PROVE  Got(ExtractFieldsInto(x, paths), s) = NewMap
             <=> /\ s \in Flat!LeavesOf(FlatOf(paths))
                 /\ \A f \in Flat!Field \cap Flat!Under[s] : f \notin There(x)
<1> DEFINE c == ExtractFieldsInto(x, paths)
           members == Flat!LeavesOf(FlatOf(paths))
           L == Leaves(paths)
           Nothing == \A f \in Flat!Field \cap Flat!Under[s] : f \notin There(x)
<1>0. /\ s \in Flat!Path /\ NamesOf[s] \in Seq(Names) /\ NamesOf[s] # <<>>
      /\ Shape(x) /\ IsManaged(paths)
      /\ Flat!Section \subseteq Flat!Path
  BY PathsRelate, ObjectShape, ManagedIs DEF Flat!Path
<1>1. Covered(L, PlaceOf(s)) <=> \E q \in members : s \in Flat!Subtree(q)
  BY <1>0, CoveredIs
<1>2. Got(x, s) = None => Got(c, s) = None
  BY <1>0, NothingExtracted DEF Got
<1>3. Got(x, s) # None =>
        /\ Covered(L, PlaceOf(s)) => Got(c, s) = Got(x, s)
        /\ ~Covered(L, PlaceOf(s)) => Got(c, s) = None \/ IsPart(Got(c, s), Got(x, s))
  <2>1. Got(x, s) # None => IsMap(Got(x, s))
    BY <1>0, SectionIsMap DEF Shape
  <2> QED BY <1>0, <2>1, MapExtracted DEF Got, PlaceOf
<1>4. None # NewMap
  BY DEF None, NewMap, Map
<1>5. members \subseteq FlatOf(paths) /\ FlatOf(paths) \subseteq Flat!Path
  BY DEF Flat!LeavesOf, FlatOf
<1>6. \A u \in Flat!Section :
         u \in Flatten(x).empty <=> u \in There(x) /\ Flat!Under[u] \cap There(x) = {}
  BY <1>0, FlattenIs
<1>7. Got(x, s) = NewMap <=> s \in There(x) /\ Flat!Under[s] \cap There(x) = {}
  BY <1>0, SectionIsEmpty
<1> HIDE DEF c, L, members
<1>8. ASSUME Got(c, s) = NewMap
      PROVE  s \in members /\ Nothing
  <2>1. Got(x, s) # None /\ Covered(L, PlaceOf(s)) /\ Got(x, s) = NewMap
    BY <1>2, <1>3, <1>4, <1>8, PartIsMap
  <2>2. PICK q \in members : s \in Flat!Subtree(q)
    BY <1>1, <2>1
  <2>3. s \in Flatten(x).empty /\ Flat!Under[s] \cap There(x) = {}
    BY <1>6, <1>7, <2>1
  <2>4. members \cap Flat!Above(s) = {}
    BY <2>3 DEF Filled, members
  <2>5. s = q
    BY <2>2, <2>4 DEF Flat!Subtree, Flat!Above
  <2> QED BY <2>2, <2>3, <2>5
<1>9. ASSUME s \in members, Nothing
      PROVE  Got(c, s) = NewMap
  <2>1. s \in There(x)
    BY <1>5, <1>9, ManagedIsThere
  <2>2. ASSUME NEW p \in Flat!Under[s] \cap There(x) PROVE FALSE
    <3>1. p \in Flat!Path /\ Shape(x) /\ p \in There(x)
      BY <1>0, <2>2 DEF There
    <3>2. PICK l \in Flat!Subtree(p) \cap There(x) :
             l \in Flat!Field \/ (l \in Flat!Section /\ Flat!Under[l] \cap There(x) = {})
      BY <3>1, LeafBelow
    <3>3. l \in Flat!Under[s]
      BY <2>2, <3>2, TreeOfPaths DEF Flat!Subtree
    <3>4. l \notin Flat!Field
      BY <1>9, <3>2, <3>3
    <3>5. l \in Flatten(x).empty
      BY <1>6, <3>2, <3>4
    <3>6. s \in Flat!Above(l)
      BY <3>3 DEF Flat!Above
    <3> QED BY <1>9, <3>5, <3>6 DEF Filled, members
  <2>3. Got(x, s) = NewMap
    BY <1>7, <2>1, <2>2
  <2>4. s \in Flat!Subtree(s)
    BY DEF Flat!Subtree
  <2> QED BY <1>1, <1>3, <1>4, <1>9, <2>3, <2>4
<1> QED BY <1>8, <1>9 DEF c, members

\* What is extracted is ExtractDepthFirst of module Unstructured.
LEMMA CopiedFlattens ==
    ASSUME NEW x \in Objects, NEW paths \in Managed(x), Follows(x, paths), Filled(x, paths)
    PROVE  Flatten(ExtractFieldsInto(x, paths)) =
              Flat!ExtractDepthFirst(Flatten(x).fields, FlatOf(paths))
<1> DEFINE c == ExtractFieldsInto(x, paths)
           src == Flatten(x).fields
           members == Flat!LeavesOf(FlatOf(paths))
           copied == {f \in Flat!Field : \E p \in members : f \in Flat!Subtree(p)}
           fields == [f \in Flat!Field |-> IF f \in copied THEN src[f] ELSE Absent]
           empty == {s \in members \cap Flat!Section :
                        \A f \in Flat!Field \cap Flat!Under[s] : fields[f] = Absent}
           F(f) == IF Got(c, f)[1] = "value" THEN Got(c, f)[2] ELSE Absent
           G(f) == IF Got(x, f)[1] = "value" THEN Got(x, f)[2] ELSE Absent
           E == {s \in Flat!Section : Got(c, s) = NewMap}
<1>1. Flat!ExtractDepthFirst(src, FlatOf(paths)) = [fields |-> fields, empty |-> empty]
  BY DEF Flat!ExtractDepthFirst
<1>2. Flatten(c) = [fields |-> [f \in Flat!Field |-> F(f)], empty |-> E]
  BY DEF Flatten, Got
<1>3. \A f \in Flat!Field : src[f] = G(f)
  BY DEF Flatten, Got
<1>4. None[1] # "value"
  BY DEF None
<1>5. ASSUME NEW f \in Flat!Field
      PROVE  F(f) = fields[f]
  <2>1. Got(c, f) = IF f \in copied THEN Got(x, f) ELSE None
    BY FieldExtracted
  <2>2. src[f] = G(f)
    BY <1>3
  <2>3. fields[f] = IF f \in copied THEN src[f] ELSE Absent
    OBVIOUS
  <2> HIDE DEF c, src, fields, copied
  <2> QED BY <1>4, <2>1, <2>2, <2>3
<1>6. ASSUME NEW s \in Flat!Section
      PROVE  s \in E <=> s \in empty
  <2>1. Got(c, s) = NewMap <=> /\ s \in members
                               /\ \A f \in Flat!Field \cap Flat!Under[s] : f \notin There(x)
    BY EmptyExtracted
  <2>2. ASSUME s \in members, NEW f \in Flat!Field \cap Flat!Under[s]
        PROVE  fields[f] = Absent <=> f \notin There(x)
    <3>1. f \in copied
      BY <2>2 DEF Flat!Subtree
    <3>2. fields[f] = src[f]
      BY <3>1
    <3>3. /\ f \in There(x) => src[f] # Absent
          /\ f \notin There(x) => src[f] = Absent
      BY ObjectShape, FlattenIs
    <3> HIDE DEF fields, src, copied
    <3> QED BY <3>2, <3>3
  <2> HIDE DEF members, fields, c
  <2> QED BY <2>1, <2>2
<1>7. E = empty
  <2>1. E \subseteq Flat!Section /\ empty \subseteq Flat!Section
    OBVIOUS
  <2> HIDE DEF E, empty
  <2> QED BY <1>6, <2>1
<1>8. [f \in Flat!Field |-> F(f)] = fields
  <2>1. fields = [f \in Flat!Field |-> fields[f]]
    OBVIOUS
  <2> HIDE DEF fields, F
  <2> QED BY <1>5, <2>1
<1> HIDE DEF E, empty, F, fields
<1> QED BY <1>1, <1>2, <1>7, <1>8

\* Before anything is read the intent is empty in both modules.
LEMMA NothingRead == NoNil(NewMap) /\ Flatten(NewMap) = Flat!NoTree
<1>1. IsMap(NewMap) /\ Keys(NewMap) = {}
  BY DEF IsMap, NewMap, Map, Keys
<1>2. \A n \in Names : NoNil(FieldOf(NewMap, n))
  BY <1>1, NoNilNone DEF FieldOf
<1>3. NoNil(NewMap)
  BY <1>1, <1>2, NoNilMap
<1>4. \A p \in Flat!Path : NestedField(NewMap, NamesOf[p]) = None
  BY PathsRelate, NothingInNewMap
<1>5. None # NewMap /\ None[1] # "value"
  BY DEF None, NewMap, Map
<1>6. Flat!Field \subseteq Flat!Path /\ Flat!Section \subseteq Flat!Path
  BY DEF Flat!Path
<1> DEFINE F == [f \in Flat!Field |-> LET y == NestedField(NewMap, NamesOf[f])
                                      IN  IF y[1] = "value" THEN y[2] ELSE Absent]
           E == {s \in Flat!Section : NestedField(NewMap, NamesOf[s]) = NewMap}
<1>7. Flatten(NewMap) = [fields |-> F, empty |-> E]
  BY DEF Flatten
<1>8. F = [f \in Flat!Field |-> Absent]
  BY <1>4, <1>5, <1>6
<1>9. E = {}
  BY <1>4, <1>5, <1>6
<1> HIDE DEF F, E
<1> QED BY <1>3, <1>7, <1>8, <1>9 DEF Flat!NoTree, Flat!NoFields

\* Where managedFields follows the object, whatever the object, the managed paths
\* and the command line are: no command fails between its read and its patch, no
\* patch has a null in it, and the patch is the one of module Intents.
THEOREM IntentsAgreeTheorem == Spec => []IntentsAgree
<1>1. IInv => IntentsAgree
  <2> SUFFICES ASSUME IInv, Tracked
               PROVE  /\ step # "failed"
                      /\ ~HasNil(doc)
                      /\ Full => Flatten(doc) = flat
    BY DEF IntentsAgree
  <2>1. live \in Objects /\ owned \in Managed(live)
    BY DEF IInv
  <2>2. Follows(live, owned)
    BY DEF Tracked, Follows
  <2>3. Full => Filled(live, owned)
    BY DEF Full, Filled, FlatOwned, FlatOf, PlaceOf
  <2>4. Shape(Copied)
    BY <2>1, <2>2, CopiedShape DEF Copied
  <2>5. FlatOwned = FlatOf(owned)
    BY DEF FlatOwned, FlatOf, PlaceOf
  <2>6. Full => Flatten(Copied) = FlatCopied
    <3>1. Filled(live, owned) =>
            Flatten(ExtractFieldsInto(live, owned)) =
              Flat!ExtractDepthFirst(Flatten(live).fields, FlatOf(owned))
      BY <2>1, <2>2, CopiedFlattens
    <3> QED BY <2>3, <2>5, <3>1 DEF Copied, FlatCopied
  <2>7. CASE step = "read"
    <3>1. doc = NewMap /\ flat = Flat!NoTree
      BY <2>7 DEF IInv
    <3>2. ~HasNil(NewMap)
      BY NothingRead, NoNilHasNoNil
    <3> QED BY <2>7, <3>1, <3>2, NothingRead
  <2>8. CASE step = "extracted"
    <3>1. doc = Copied /\ flat = FlatCopied
      BY <2>8 DEF IInv
    <3>2. ~HasNil(Copied)
      BY <2>4, NoNilHasNoNil DEF Shape
    <3> QED BY <2>6, <2>8, <3>1, <3>2
  <2>9. CASE step \in {"built", "failed"}
    <3>1. PICK r \in Requests, time \in Times :
             /\ doc = ModifyIntent(Copied, r, time)
             /\ flat = Flat!ModifyIntent(FlatCopied, r, time)
             /\ step = "failed" <=> doc = Nil
      BY <2>9 DEF IInv
    <3> DEFINE t == Flatten(Copied)
    <3>2. Stands(Copied, t)
      BY <2>4 DEF Stands
    <3> HIDE DEF t
    <3>3. Stands(doc, Flat!ModifyIntent(t, r, time))
      BY <3>1, <3>2, ModifyStands
    <3>4. Shape(doc) /\ Flatten(doc) = Flat!ModifyIntent(t, r, time)
      BY <3>3 DEF Stands
    <3>5. doc # Nil /\ ~HasNil(doc)
      BY <3>4, ShapeNotNil, NoNilHasNoNil DEF Shape
    <3>6. Full => t = FlatCopied
      BY <2>6 DEF t
    <3> QED BY <3>1, <3>4, <3>5, <3>6
  <2> QED BY <2>7, <2>8, <2>9 DEF IInv
<1> QED BY <1>1, Invariant, PTL

-----------------------------------------------------------------------------
(* Lists.                                                                  *)

\* Every path leads to a leaf.
LEMMA LeafAbove ==
    ASSUME NEW x, NEW paths, Extractable(x, paths), NEW q \in paths
    PROVE  \E l \in Leaves(paths) : IsPrefix(q, l)
<1> DEFINE T == {n \in Nat : \A p \in paths :
                    Len(p) + n >= MaxDepth => \E l \in Leaves(paths) : IsPrefix(p, l)}
<1>0. /\ paths \subseteq Seq(Element) /\ MaxDepth \in Nat
      /\ \A p \in paths : Len(p) \in Nat /\ Len(p) <= MaxDepth
  BY NamesAssumption DEF Extractable, NamesAssumption
<1>1. ASSUME NEW p \in paths, NEW r \in paths, IsStrictPrefix(p, r)
      PROVE  Len(p) < Len(r)
  <2>1. Len(p) + 1 \in 1..Len(r)
    BY <1>0, <1>1, StrictPrefixShorter
  <2> QED BY <1>0, <2>1
<1>2. 0 \in T
  <2>1. ASSUME NEW p \in paths, Len(p) + 0 >= MaxDepth
        PROVE  \E l \in Leaves(paths) : IsPrefix(p, l)
    <3>1. \A r \in paths : ~IsStrictPrefix(p, r)
      BY <1>0, <1>1, <2>1
    <3>2. p \in Leaves(paths)
      BY <3>1 DEF Leaves
    <3>3. IsPrefix(p, p)
      BY <1>0, PrefixOfItself
    <3> QED BY <3>2, <3>3
  <2> QED BY <2>1
<1>3. ASSUME NEW n \in Nat, n \in T
      PROVE  n + 1 \in T
  <2>1. ASSUME NEW p \in paths, Len(p) + (n + 1) >= MaxDepth
        PROVE  \E l \in Leaves(paths) : IsPrefix(p, l)
    <3>1. CASE p \in Leaves(paths)
      <4>1. IsPrefix(p, p)
        BY <1>0, PrefixOfItself
      <4> QED BY <3>1, <4>1
    <3>2. CASE p \notin Leaves(paths)
      <4>1. PICK r \in paths : IsStrictPrefix(p, r)
        BY <3>2 DEF Leaves
      <4>2. Len(r) + n >= MaxDepth
        BY <1>0, <1>1, <2>1, <4>1
      <4>3. PICK l \in Leaves(paths) : IsPrefix(r, l)
        BY <1>3, <4>2
      <4>4. l \in paths
        BY DEF Leaves
      <4>5. IsPrefix(p, r)
        BY <4>1 DEF IsStrictPrefix
      <4>6. IsPrefix(p, l)
        BY <1>0, <4>3, <4>4, <4>5, PrefixTransitive
      <4> QED BY <4>6
    <3> QED BY <3>1, <3>2
  <2> QED BY <2>1
<1> HIDE DEF T
<1>4. MaxDepth \in T
  BY <1>0, <1>2, <1>3, NumberInduction
<1>5. Len(q) + MaxDepth >= MaxDepth
  BY <1>0
<1> QED BY <1>4, <1>5 DEF T

\* A path below another and a leaf it leads to go on alike.
LEMMA LeafGoesOn ==
    ASSUME NEW x, NEW paths, Extractable(x, paths), NEW path \in Seq(Element),
           NEW q \in paths, IsStrictPrefix(path, q)
    PROVE  \E l \in Leaves(paths) : /\ IsStrictPrefix(path, l)
                                    /\ l[Len(path) + 1] = q[Len(path) + 1]
                                    /\ q[Len(path) + 1] \in Element
<1>0. paths \subseteq Seq(Element)
  BY DEF Extractable
<1>1. PICK l \in Leaves(paths) : IsPrefix(q, l)
  BY LeafAbove
<1>2. l \in paths /\ l \in Seq(Element) /\ q \in Seq(Element)
  BY <1>0 DEF Leaves
<1> DEFINE c == q[Len(path) + 1]
           longer == Append(path, c)
<1>3. c \in Element
  BY <1>2, StrictPrefixShorter
<1> HIDE DEF c
<1>4. IsPrefix(longer, q)
  BY <1>2, <1>3, AppendIsPrefix DEF c
<1>5. longer \in Seq(Element)
  BY <1>3, AppendProperties
<1>6. IsPrefix(longer, l)
  BY <1>1, <1>2, <1>4, <1>5, PrefixTransitive
<1>7. IsStrictPrefix(path, l) /\ l[Len(path) + 1] = c
  BY <1>2, <1>3, <1>6, AppendIsPrefix
<1> QED BY <1>3, <1>7 DEF c

\* Only a path that is no more than a field of the metadata, or the metadata, covers
\* such a field; the metadata is no leaf.
LEMMA CoveredMetadata ==
    ASSUME NEW x \in Objects, NEW paths \in Managed(x), NEW n \in Names
    PROVE  /\ <<"metadata", n>> \in Seq(Names)
           /\ <<"metadata", n>> # <<>>
           /\ Len(ElementsOf(<<"metadata", n>>)) = 2
           /\ Covered(Leaves(paths), ElementsOf(<<"metadata", n>>))
                => ElementsOf(<<"metadata", n>>) \in Leaves(paths)
<1> DEFINE one == <<"metadata">>
           two == <<"metadata", n>>
           none == <<>>
           L == Leaves(paths)
           pm == ElementsOf(one)
<1>0. /\ one \in Seq(Names) /\ two \in Seq(Names) /\ Len(two) = 2
      /\ none \in Seq(Element) /\ Len(none) = 0 /\ "metadata" \in Names
  BY AnnotationsAreNames, NamesAreNames
<1>1. two = Append(one, n) /\ one = Append(none, "metadata") /\ ElementsOf(none) = none
  BY AppendToOne, EmptyNoPath, ElementsOfEmpty
<1>2. two # none
  BY <1>0
<1>3. Extractable(x, L) /\ IsManaged(paths)
  BY ManagedIs
<1>4. L \subseteq Seq(Element) /\ \A p \in L : Len(p) \in 1..MaxDepth
  BY <1>3 DEF Extractable
<1>5. Len(ElementsOf(two)) = 2
  BY <1>0, ElementsOfNames
<1> HIDE DEF one, two, none, L
<1>6. /\ pm \in Seq(Element) /\ ElementsOf(two) = Append(pm, FieldName(n))
      /\ FieldName(n) \in Element /\ FieldName("metadata") \in Element
  BY <1>0, <1>1, ElementsOfNames, ElementsOfAppend DEF FieldName, Element
<1>7. pm = Append(none, FieldName("metadata"))
  <2>1. none \in Seq(Names)
    BY DEF none
  <2> QED BY <1>0, <1>1, <2>1, ElementsOfAppend
<1>8. ~Covered(L, none)
  <2> SUFFICES ASSUME NEW p \in L, IsPrefix(p, none) PROVE FALSE
    BY DEF Covered
  <2>1. Len(p) <= Len(none) /\ Len(p) \in Nat /\ Len(p) >= 1
    <3>1. Len(p) \in 1..MaxDepth /\ p \in Seq(Element) /\ MaxDepth \in Nat
      BY <1>4, NamesAssumption DEF NamesAssumption
    <3>2. Len(p) <= Len(none)
      BY <1>0, <3>1, PrefixMeans
    <3> QED BY <3>1, <3>2
  <2> QED BY <1>0, <2>1
<1>9. pm \notin L
  <2> SUFFICES ASSUME pm \in L PROVE FALSE
    OBVIOUS
  <2>1. pm \in paths
    BY DEF Leaves, L
  <2>2. \/ \E q \in Flat!Path : pm = ElementsOf(NamesOf[q])
        \/ \A q \in Flat!Path : ~IsPrefix(pm, ElementsOf(NamesOf[q]))
        \/ pm \notin Leaves(paths)
    BY <1>3, <2>1 DEF IsManaged
  <2>3. \A q \in Flat!Path : pm # ElementsOf(NamesOf[q])
    <3> SUFFICES ASSUME NEW q \in Flat!Path, pm = ElementsOf(NamesOf[q]) PROVE FALSE
      OBVIOUS
    <3>1. NamesOf[q] = one /\ NamesOf[q] \in Seq(Names)
      BY <1>0, PathsAreNames, ElementsPrefix
    <3>2. IsPrefix(NamesOf[q], one)
      BY <3>1, PrefixOfItself
    <3> QED BY <3>2, NoPrefixOfAnnotations DEF one
  <2>4. \E q \in Flat!Path : IsPrefix(pm, ElementsOf(NamesOf[q]))
    <3>1. "backupAnnotation" \in Flat!Path /\ NamesOf["backupAnnotation"] = Append(annotations, "backup")
      BY ThePaths, NamesTable
    <3>2. annotations \in Seq(Names) /\ annotations = Append(one, "annotations")
            /\ "annotations" \in Names /\ "backup" \in Names
      BY AnnotationsAreNames, EmptyNoPath, NamesAreNames DEF one
    <3>3. IsPrefix(one, one)
      BY <1>0, PrefixOfItself
    <3>4. IsPrefix(one, annotations)
      BY <1>0, <3>2, <3>3, PrefixOfAppend
    <3>5. IsPrefix(one, NamesOf["backupAnnotation"])
      BY <1>0, <3>1, <3>2, <3>4, PrefixOfAppend
    <3>6. IsPrefix(pm, ElementsOf(NamesOf["backupAnnotation"]))
      BY <1>0, <3>1, <3>5, PathsAreNames, ElementsPrefix
    <3> QED BY <3>1, <3>6
  <2> QED BY <2>2, <2>3, <2>4 DEF L
<1> HIDE DEF pm
<1>10. ~Covered(L, pm)
  BY <1>0, <1>4, <1>6, <1>7, <1>8, <1>9, NextCovered
<1>11. Covered(L, ElementsOf(two)) => ElementsOf(two) \in L
  BY <1>4, <1>6, <1>10, NextCovered
<1> QED BY <1>0, <1>2, <1>5, <1>11 DEF two, L, none

\* What comes next on the paths below another.
Ahead(paths, path) == {p[Len(path) + 1][2] : p \in {q \in paths : IsStrictPrefix(path, q)}}

\* A call with a map finds a field of it for every path that leads on, and no other.
LEMMA CallOfItem ==
    ASSUME NEW x, NEW paths, Extractable(x, paths), Follows(x, paths),
           NEW call, IsCalls(x, paths, call),
           NEW path \in Seq(Element), NEW place \in Reach(x, path),
           IsMap(At(x, place)), Leading(paths, path)
    PROVE  LET y == call[<<place, path>>]
               z == At(x, place)
           IN  /\ IsMap(y)
               /\ Keys(y) \subseteq Keys(z)
               /\ Keys(y) = Ahead(paths, path)
               /\ \A n \in Keys(y) :
                     FieldName(n) \in Members(paths, path) => FieldOf(y, n) = FieldOf(z, n)
<1> DEFINE y == call[<<place, path>>]
           z == At(x, place)
           map == MapOf(x, paths, place, path, call)
           On == {q \in paths : IsStrictPrefix(path, q)}
           k == Len(path) + 1
<1>0. paths \subseteq Seq(Element) /\ IsDocument(x) /\ place \in Seq(Step)
  BY ReachSteps DEF Extractable
<1>1. ASSUME NEW q \in On
      PROVE  \E n \in Keys(z) : /\ q[k] = FieldName(n)
                                /\ q[k] \in Members(paths, path) \cup Children(paths, path)
  <2>1. /\ q[k] \in Element /\ q[k] \in Members(paths, path) \cup Children(paths, path)
        /\ StepsOf(z, q[k]) # {}
    BY <1>0, FollowedStep
  <2> HIDE DEF k, z
  <2>2. PICK n \in Keys(z) : q[k] = FieldName(n)
    BY <2>1, MapHasFields DEF z
  <2> QED BY <2>1, <2>2
<1>2. y = Extracted(x, paths, place, path, call)
  BY <1>0, CallIs
<1>3. DOMAIN map = {n \in Keys(z) : FieldName(n) \in Members(paths, path) \cup Children(paths, path)}
  BY DEF MapOf
<1>4. \A n \in DOMAIN map : FieldName(n) \in Members(paths, path) => map[n] = FieldOf(z, n)
  BY DEF MapOf, FieldOf
<1>5. \A n : FieldName(n)[2] = n
  BY DEF FieldName
<1>6. ASSUME NEW n \in DOMAIN map
      PROVE  \E q \in On : q[k][2] = n
  <2> DEFINE e == FieldName(n)
             longer == Append(path, e)
  <2>1. n \in Names
    BY <1>0, <1>3, DocumentAt
  <2>2. e \in Element
    BY <2>1 DEF FieldName, Element
  <2>3. longer \in Seq(Element)
    BY <2>2, AppendProperties
  <2>4. e \in Members(paths, path) \cup Children(paths, path) /\ e[2] = n
    BY <1>3, <1>5
  <2> HIDE DEF e
  <2>5. \E q \in paths : IsPrefix(longer, q)
    <3>1. CASE e \in Members(paths, path)
      <4>1. longer \in paths
        BY <1>0, <2>2, <3>1, MembersAre
      <4>2. IsPrefix(longer, longer)
        BY <2>3, PrefixOfItself
      <4> QED BY <4>1, <4>2
    <3>2. CASE e \in Children(paths, path)
      <4>1. PICK q \in paths : IsStrictPrefix(longer, q)
        BY <1>0, <2>2, <3>2, ChildrenAre
      <4> QED BY <4>1 DEF IsStrictPrefix
    <3> QED BY <2>4, <3>1, <3>2
  <2>6. PICK q \in paths : IsPrefix(longer, q)
    BY <2>5
  <2>7. IsStrictPrefix(path, q) /\ q[Len(path) + 1] = e
    BY <1>0, <2>2, <2>6, AppendIsPrefix
  <2> QED BY <2>4, <2>7
<1>7. ASSUME NEW q \in On
      PROVE  q[k][2] \in DOMAIN map
  <2>1. PICK n \in Keys(z) : /\ q[k] = FieldName(n)
                             /\ q[k] \in Members(paths, path) \cup Children(paths, path)
    BY <1>1
  <2> HIDE DEF k, z, map
  <2> QED BY <1>3, <1>5, <2>1
<1> HIDE DEF k
<1>8. DOMAIN map = {q[k][2] : q \in On}
  <2> HIDE DEF map, On
  <2> QED BY <1>6, <1>7
<1>9. DOMAIN map # {}
  <2>1. On # {}
    BY DEF Leading
  <2> HIDE DEF map, On
  <2> QED BY <1>8, <2>1
<1>10. y = Map(map)
  <2> DEFINE list == ListOf(x, paths, place, path, call)
             r == Extracted(x, paths, place, path, call)
  <2>1. \/ DOMAIN map # {} /\ r = Map(map)
        \/ DOMAIN map = {} /\ list # <<>> /\ r = List(list)
        \/ DOMAIN map = {} /\ list = <<>> /\ r = Nil
    BY ExtractedIs
  <2> HIDE DEF map, list, r
  <2> QED BY <1>2, <1>9, <2>1 DEF r
<1> HIDE DEF map, y, z, On
<1>11. IsMap(y) /\ Keys(y) = DOMAIN map /\ \A n \in DOMAIN map : FieldOf(y, n) = map[n]
  BY <1>10 DEF Keys, IsMap, Map, FieldOf
<1>12. /\ IsMap(y)
       /\ Keys(y) \subseteq Keys(z)
       /\ Keys(y) = {q[k][2] : q \in On}
       /\ \A n \in Keys(y) : FieldName(n) \in Members(paths, path) => FieldOf(y, n) = FieldOf(z, n)
  BY <1>3, <1>4, <1>8, <1>11
<1> QED BY <1>12 DEF Ahead, y, z, On, k

\* No path goes on from here with a field.
NoFieldsBelow(paths, path) ==
    \A q \in paths : IsStrictPrefix(path, q) => q[Len(path) + 1][1] # "f"

\* No field is extracted where no path goes on with one.
LEMMA NoMapOf ==
    ASSUME NEW x, NEW paths, Extractable(x, paths), NEW path \in Seq(Element),
           NoFieldsBelow(paths, path), NEW place \in Seq(Step), NEW call
    PROVE  DOMAIN MapOf(x, paths, place, path, call) = {}
<1>0. paths \subseteq Seq(Element) /\ IsDocument(x)
  BY DEF Extractable
<1>1. ASSUME NEW n \in Names, FieldName(n) \in Members(paths, path) \cup Children(paths, path)
      PROVE  FALSE
  <2> DEFINE e == FieldName(n)
             longer == Append(path, e)
  <2>2. e \in Element /\ e[1] = "f"
    BY DEF FieldName, Element
  <2>3. longer \in Seq(Element)
    BY <2>2, AppendProperties
  <2>4. e \in Members(paths, path) \cup Children(paths, path)
    BY <1>1
  <2> HIDE DEF e
  <2>5. \E q \in paths : IsPrefix(longer, q)
    <3>1. CASE e \in Members(paths, path)
      <4>1. longer \in paths
        BY <1>0, <2>2, <3>1, MembersAre
      <4>2. IsPrefix(longer, longer)
        BY <2>3, PrefixOfItself
      <4> QED BY <4>1, <4>2
    <3>2. CASE e \in Children(paths, path)
      <4>1. PICK q \in paths : IsStrictPrefix(longer, q)
        BY <1>0, <2>2, <3>2, ChildrenAre
      <4> QED BY <4>1 DEF IsStrictPrefix
    <3> QED BY <2>4, <3>1, <3>2
  <2>6. PICK q \in paths : IsPrefix(longer, q)
    BY <2>5
  <2>7. IsStrictPrefix(path, q) /\ q[Len(path) + 1] = e
    BY <1>0, <2>2, <2>6, AppendIsPrefix
  <2> QED BY <2>2, <2>7 DEF NoFieldsBelow
<1>2. Keys(At(x, place)) \subseteq Names
  BY <1>0, DocumentAt
<1> QED BY <1>1, <1>2 DEF MapOf

\* The list that is extracted where paths lead on to items and values.
ListThere(x, paths, call, e, items) ==
    LET L == Leaves(paths)
    IN  IF \E q \in paths : IsStrictPrefix(e, q)
        THEN e \in Reach(x, e) /\ items = ListOf(x, L, e, e, call)
        ELSE items = <<>>

\* Where paths go on with items or values, ListOf is extracted.
LEMMA ListExtracted ==
    ASSUME NEW x \in Objects, NEW paths \in Managed(x), Follows(x, paths),
           NEW call, IsCalls(x, Leaves(paths), call),
           extractDepthFirst(x, Leaves(paths)) = call[<<<<>>, <<>>>>],
           NEW names \in Seq(Names), names # <<>>,
           ~Covered(Leaves(paths), ElementsOf(names)), NoFieldsBelow(paths, ElementsOf(names))
    PROVE  ListThere(x, paths, call, ElementsOf(names),
                     Items(NestedField(ExtractFieldsInto(x, paths), names)))
<1> DEFINE L == Leaves(paths)
           e == ElementsOf(names)
           doc0 == ExtractFieldsInto(x, paths)
           z == NestedField(doc0, names)
<1>0. /\ Extractable(x, L) /\ Extractable(x, paths) /\ L \subseteq paths
      /\ paths \subseteq Seq(Element)
      /\ e \in Seq(Step) /\ e \in Seq(Element)
  BY ManagedIs, ElementsOfNames DEF Leaves, Extractable
<1>1. doc0 = TopMap(call[<<<<>>, <<>>>>])
  BY DEF ExtractFieldsInto, TopMap
<1>2. z = IF Leading(L, e) /\ NestedField(x, names) # None THEN call[<<e, e>>] ELSE None
  <2>1. NestedField(TopMap(call[<<<<>>, <<>>>>]), names) =
          IF Covered(L, e) THEN NestedField(x, names)
          ELSE IF names = <<>> THEN TopMap(call[<<<<>>, <<>>>>])
          ELSE IF Leading(L, e) /\ NestedField(x, names) # None THEN call[<<e, e>>]
          ELSE None
    BY <1>0, NestedExtracted
  <2> QED BY <1>1, <2>1
<1>3. CASE \E q \in paths : IsStrictPrefix(e, q)
  <2>1. PICK q \in paths : IsStrictPrefix(e, q)
    BY <1>3
  <2>2. Leading(L, e)
    BY <1>0, <2>1, LeafGoesOn DEF Leading
  <2>3. NestedField(x, names) # None
    <3>1. x # None
      BY ObjectShape DEF Shape, IsMap, None
    <3>2. IsPrefix(e, q)
      BY <2>1 DEF IsStrictPrefix
    <3> QED BY <1>0, <2>1, <3>1, <3>2, FollowedIsThere
  <2>4. e \in Reach(x, e)
    BY <2>3, ReachNames
  <2> DEFINE list == ListOf(x, L, e, e, call)
             map == MapOf(x, L, e, e, call)
             r == Extracted(x, L, e, e, call)
  <2>5. z = r
    BY <1>0, <1>2, <2>2, <2>3, CallIs
  <2>6. DOMAIN map = {}
    <3>1. NoFieldsBelow(L, e)
      BY <1>0 DEF NoFieldsBelow
    <3> QED BY <1>0, <3>1, NoMapOf
  <2>7. \/ DOMAIN map # {} /\ r = Map(map)
        \/ DOMAIN map = {} /\ list # <<>> /\ r = List(list)
        \/ DOMAIN map = {} /\ list = <<>> /\ r = Nil
    BY ExtractedIs
  <2> HIDE DEF list, map, r, z
  <2>8. Items(z) = list
    BY <2>5, <2>6, <2>7 DEF Items, List, Nil
  <2> QED BY <1>3, <2>4, <2>8 DEF ListThere, list, z
<1>4. CASE ~\E q \in paths : IsStrictPrefix(e, q)
  <2>1. ~Leading(L, e)
    BY <1>0, <1>4 DEF Leading
  <2>2. z = None
    BY <1>2, <2>1
  <2>3. Items(None) = <<>>
    BY DEF Items, None
  <2> QED BY <1>4, <2>2, <2>3 DEF ListThere
<1> QED BY <1>3, <1>4

\* The key of an item of a list.
KeyOf(item) == FieldOf(item, "uid")[2]

\* Paths go on from here with keys only.
OnlyKeysBelow(paths, path) ==
    \A q \in paths : IsStrictPrefix(path, q) => q[Len(path) + 1][1] = "k"

\* Paths go on from here with values only.
OnlyValuesBelow(paths, path) ==
    \A q \in paths : IsStrictPrefix(path, q) => q[Len(path) + 1][1] = "v"

\* An item with its key and its managed fields, from an item of a list.
IsItem(paths, e, item, key, source) ==
    /\ IsMap(item)
    /\ FieldOf(item, "uid") = Value(key)
    /\ FieldOf(source, "uid") = Value(key)
    /\ Keys(item) = {"uid"} \cup Ahead(paths, Append(e, Key(key)))
    /\ \A n \in Keys(item) :
          Append(Append(e, Key(key)), FieldName(n)) \in Leaves(paths)
             => FieldOf(item, n) = FieldOf(source, n)

\* ItemOf has the key and the managed fields of its item of the object.
LEMMA ItemIs ==
    ASSUME NEW x \in Objects, NEW paths \in Managed(x), Follows(x, paths),
           NEW call, IsCalls(x, Leaves(paths), call),
           NEW e \in Seq(Element), e \in Seq(Step), e \in Reach(x, e),
           NEW key, NEW j, <<key, j>> \in KeyedItems(x, Leaves(paths), e, e)
    PROVE  IsItem(paths, e, ItemOf(e, e, <<key, j>>, call), key, Items(At(x, e))[j])
<1> DEFINE L == Leaves(paths)
           source == Items(At(x, e))
           path == Append(e, Key(key))
           place == Append(e, Index(j))
           y == call[<<place, path>>]
           item == ItemOf(e, e, <<key, j>>, call)
<1>0. /\ Extractable(x, L) /\ Extractable(x, paths) /\ L \subseteq paths
      /\ IsDocument(x) /\ paths \subseteq Seq(Element) /\ Follows(x, L) /\ L \subseteq Seq(Element)
      /\ IsCalls(x, L, call)
  BY ManagedIs, LeavesFollow DEF Extractable
<1>1. /\ Key(key) \in Children(L, e)
      /\ j \in DOMAIN source
      /\ objectHasKey(source[j], key)
  BY <1>0, KeyedItemsAre
<1>2. Key(key) \in Element
  BY <1>0, <1>1, MembersAreElements
<1>3. DOMAIN source = 1..Len(source) /\ Len(source) \in Nat
  BY <1>0, DocumentAt
<1>4. j \in Nat /\ Index(j) \in Step
  <2>1. j \in Nat
    <3> HIDE DEF source
    <3> QED BY <1>1, <1>3
  <2> QED BY <2>1 DEF Index, Step
<1>5. Index(j) \in StepsOf(At(x, e), Key(key))
  BY <1>1 DEF StepsOf, Key
<1>6. place \in Reach(x, path)
  BY <1>2, <1>5, ReachNext
<1>7. At(x, place) = source[j]
  <2>1. At(x, place) = StepInto(At(x, e), Index(j))
    BY <1>4, AtAppend
  <2>2. StepInto(At(x, e), Index(j)) = source[j]
    BY <1>1 DEF StepInto, Index
  <2> QED BY <2>1, <2>2
<1>8. FieldOf(source[j], "uid") = Value(key)
  BY <1>1 DEF objectHasKey
<1>9. "uid" \in Keys(source[j]) /\ IsMap(source[j])
  <2>1. "uid" \in Keys(source[j])
    BY <1>8 DEF FieldOf, Value, None
  <2> QED BY <2>1 DEF Keys
<1>10. path \in Seq(Element) /\ Len(path) = Len(e) + 1 /\ Len(e) \in Nat
  BY <1>2, AppendProperties, LenProperties
<1>11. Leading(L, path)
  BY <1>0, <1>1, <1>2, ChildrenAre DEF Leading
<1>12. /\ IsMap(y)
       /\ Keys(y) \subseteq Keys(source[j])
       /\ Keys(y) = Ahead(L, path)
       /\ \A n \in Keys(y) :
             FieldName(n) \in Members(L, path) => FieldOf(y, n) = FieldOf(source[j], n)
  <2>1. IsMap(At(x, place))
    BY <1>7, <1>9
  <2> HIDE DEF path, place, source, L
  <2>2. IsMap(call[<<place, path>>]) /\ Keys(call[<<place, path>>]) \subseteq Keys(At(x, place))
    BY <1>0, <1>6, <1>10, <1>11, <2>1, CallOfItem
  <2>3. Keys(call[<<place, path>>]) = Ahead(L, path)
    BY <1>0, <1>6, <1>10, <1>11, <2>1, CallOfItem
  <2>4. \A n \in Keys(call[<<place, path>>]) :
             FieldName(n) \in Members(L, path)
                => FieldOf(call[<<place, path>>], n) = FieldOf(At(x, place), n)
    BY <1>0, <1>6, <1>10, <1>11, <2>1, CallOfItem
  <2> QED BY <1>7, <2>2, <2>3, <2>4
<1>13. item = With(y, "uid", Value(key))
  <2>1. <<key, j>>[1] = key /\ <<key, j>>[2] = j
    OBVIOUS
  <2>2. item = IF IsMap(y) THEN With(y, "uid", Value(key)) ELSE y
    BY <2>1 DEF ItemOf
  <2> QED BY <1>12, <2>2
<1>14. Ahead(L, path) =
       Ahead(paths, path)
  <2> HIDE DEF path
  <2>1. ASSUME NEW q \in paths, IsStrictPrefix(path, q)
        PROVE  \E l \in L : IsStrictPrefix(path, l) /\ l[Len(path) + 1] = q[Len(path) + 1]
    BY <1>0, <1>10, <2>1, LeafGoesOn
  <2> HIDE DEF L
  <2> QED BY <1>0, <2>1 DEF Ahead
<1>16. \A n : FieldName(n) \in Members(L, path) <=> FieldName(n) \in Element /\ Append(path, FieldName(n)) \in L
  <2>1. Members(L, path) \subseteq Element
    BY <1>0, <1>10, MembersAreElements
  <2>2. \A c \in Element : c \in Members(L, path) <=> Append(path, c) \in L
    BY <1>0, <1>10, MembersAre
  <2> HIDE DEF L, path
  <2> QED BY <2>1, <2>2
<1> HIDE DEF y, place, item
<1>17. /\ IsMap(item) /\ Keys(item) = Keys(y) \cup {"uid"}
       /\ \A n : FieldOf(item, n) = IF n = "uid" THEN Value(key) ELSE FieldOf(y, n)
  <2>1. IsMap(item) /\ Keys(item) = Keys(y) \cup {"uid"}
    BY <1>13, FieldOfWith
  <2>2. ASSUME NEW n PROVE FieldOf(item, n) = IF n = "uid" THEN Value(key) ELSE FieldOf(y, n)
    BY <1>13, FieldOfWith
  <2> QED BY <2>1, <2>2
<1> HIDE DEF path, L
<1>18. Keys(item) = {"uid"} \cup Ahead(paths, path)
  BY <1>12, <1>14, <1>17
<1>19. ASSUME NEW n \in Keys(item), Append(path, FieldName(n)) \in L
       PROVE  FieldOf(item, n) = FieldOf(source[j], n)
  <2>1. CASE n = "uid"
    BY <1>8, <1>17, <2>1
  <2>2. CASE n # "uid"
    <3>1. n \in Keys(y)
      BY <1>17, <2>2
    <3>2. n \in Names
      <4>1. Keys(source[j]) \subseteq Names
        <5>1. place \in Seq(Step)
          BY <1>4, AppendProperties DEF place
        <5> QED BY <1>0, <1>7, <5>1, DocumentAt
      <4> QED BY <1>12, <3>1, <4>1
    <3>3. FieldName(n) \in Element
      BY <3>2 DEF FieldName, Element
    <3> QED BY <1>12, <1>16, <1>17, <1>19, <2>2, <3>1, <3>3
  <2> QED BY <2>1, <2>2
<1>20. IsItem(paths, e, item, key, source[j])
  BY <1>8, <1>17, <1>18, <1>19 DEF IsItem, path, L
<1> QED BY <1>20 DEF item, source

\* Where only keys follow, every managed key has its items, in order.
LEMMA KeyedList ==
    ASSUME NEW x \in Objects, NEW paths \in Managed(x), Follows(x, paths),
           NEW call, IsCalls(x, Leaves(paths), call),
           NEW e \in Seq(Element), e \in Seq(Step), e \in Reach(x, e), OnlyKeysBelow(paths, e),
           NEW list, list = ListOf(x, Leaves(paths), e, e, call)
    PROVE  /\ {KeyOf(list[i]) : i \in DOMAIN list} = Ahead(paths, e)
           /\ \A i, j \in DOMAIN list : i < j => KeyOf(list[i]) < KeyOf(list[j])
           /\ \A i \in DOMAIN list : \E j \in DOMAIN Items(At(x, e)) :
                 IsItem(paths, e, list[i], KeyOf(list[i]), Items(At(x, e))[j])
<1> DEFINE L == Leaves(paths)
           source == Items(At(x, e))
           keyed == KeyedItems(x, L, e, e)
           values == SetValues(L, e)
           K == Cardinality(keyed)
           V == Cardinality(values)
           s == InOrder(keyed)
<1>0. /\ Extractable(x, L) /\ Extractable(x, paths) /\ L \subseteq paths
      /\ IsDocument(x) /\ paths \subseteq Seq(Element) /\ Follows(x, L) /\ L \subseteq Seq(Element)
      /\ IsCalls(x, L, call) /\ EndsWell(L)
  BY ManagedIs, LeavesFollow DEF Extractable
<1>1. values = {}
  <2> SUFFICES ASSUME NEW p \in values PROVE FALSE
    OBVIOUS
  <2>1. PICK m \in Members(L, e) : m[1] = "v"
    BY DEF SetValues
  <2>2. m \in Element /\ Append(e, m) \in L
    BY <1>0, <2>1, MembersAre, MembersAreElements
  <2> DEFINE longer == Append(e, m)
  <2>3. longer \in Seq(Element)
    BY <2>2, AppendProperties
  <2>4. IsPrefix(longer, longer)
    BY <2>3, PrefixOfItself
  <2>5. longer \in paths
    BY <1>0, <2>2
  <2>6. IsStrictPrefix(e, longer) /\ longer[Len(e) + 1] = m
    BY <2>2, <2>3, <2>4, AppendIsPrefix
  <2> HIDE DEF longer
  <2>7. m[1] = "k"
    BY <2>5, <2>6 DEF OnlyKeysBelow
  <2> QED BY <2>1, <2>7
<1>2. V = 0
  BY <1>1, FS_EmptySet
<1>3. /\ K \in Nat
      /\ DOMAIN list = 1..(K + V)
      /\ \A i \in 1..K : list[i] = ItemOf(e, e, s[i], call)
  BY <1>0, ListIs
<1>4. keyed \subseteq Nat \X Nat /\ IsFiniteSet(keyed)
  BY <1>0, KeyedItemsAre
<1>5. \A key, i : <<key, i>> \in keyed
          <=> Key(key) \in Children(L, e) /\ i \in DOMAIN source /\ objectHasKey(source[i], key)
  BY <1>0, KeyedItemsAre
<1> HIDE DEF keyed, values, K, V
<1>6. s \in [1..K -> keyed] /\ Increasing(s) /\ \A p \in keyed : \E i \in 1..K : s[i] = p
  BY <1>4, InOrderIs DEF K
<1> HIDE DEF s
<1>7. DOMAIN list = 1..K
  BY <1>2, <1>3
<1>8. ASSUME NEW i \in 1..K
      PROVE  \E key \in Nat, j \in Nat :
                /\ s[i] = <<key, j>> /\ <<key, j>> \in keyed
                /\ j \in DOMAIN source
                /\ IsItem(paths, e, list[i], key, source[j])
                /\ KeyOf(list[i]) = key
  <2>1. s[i] \in keyed
    BY <1>6
  <2>2. PICK key \in Nat, j \in Nat : s[i] = <<key, j>>
    BY <1>4, <2>1
  <2>3. <<key, j>> \in keyed
    BY <2>1, <2>2
  <2>4. IsItem(paths, e, ItemOf(e, e, <<key, j>>, call), key, source[j])
    BY <2>3, ItemIs DEF keyed
  <2>5. list[i] = ItemOf(e, e, <<key, j>>, call)
    BY <1>3, <2>2
  <2>6. FieldOf(list[i], "uid") = Value(key)
    BY <2>4, <2>5 DEF IsItem
  <2>7. KeyOf(list[i]) = key
    BY <2>6 DEF KeyOf, Value
  <2>8. j \in DOMAIN source
    BY <1>5, <2>3
  <2> QED BY <2>2, <2>3, <2>4, <2>5, <2>7, <2>8
<1>9. ASSUME NEW i \in DOMAIN list
      PROVE  KeyOf(list[i]) \in Ahead(paths, e)
  <2>1. PICK key \in Nat, j \in Nat : <<key, j>> \in keyed /\ KeyOf(list[i]) = key
    BY <1>7, <1>8
  <2>2. Key(key) \in Children(L, e)
    BY <1>5, <2>1
  <2>3. Key(key) \in Element /\ Key(key)[2] = key
    BY <1>0, <2>2, MembersAreElements DEF Key
  <2> DEFINE longer == Append(e, Key(key))
  <2>4. PICK q \in L : IsStrictPrefix(longer, q)
    BY <1>0, <2>2, <2>3, ChildrenAre
  <2>5. q \in paths /\ q \in Seq(Element) /\ IsPrefix(longer, q)
    BY <1>0, <2>4 DEF IsStrictPrefix
  <2>6. IsStrictPrefix(e, q) /\ q[Len(e) + 1] = Key(key)
    BY <2>3, <2>5, AppendIsPrefix
  <2> QED BY <2>1, <2>3, <2>5, <2>6 DEF Ahead
<1>10. ASSUME NEW q \in paths, IsStrictPrefix(e, q)
       PROVE  \E i \in DOMAIN list : KeyOf(list[i]) = q[Len(e) + 1][2]
  <2> DEFINE c == q[Len(e) + 1]
  <2>1. PICK l \in L : IsStrictPrefix(e, l) /\ l[Len(e) + 1] = c /\ c \in Element
    BY <1>0, <1>10, LeafGoesOn
  <2>2. c[1] = "k"
    BY <1>10 DEF OnlyKeysBelow
  <2>3. StepsOf(At(x, e), c) # {}
    <3>1. \A place \in Reach(x, e) : StepsOf(At(x, place), l[Len(e) + 1]) # {}
      BY <1>0, <2>1, FollowedStep
    <3> QED BY <2>1, <3>1
  <2> HIDE DEF c
  <2>4. c = Key(c[2])
    BY <2>1, <2>2 DEF Element, Key
  <2>5. PICK j \in DOMAIN source : objectHasKey(source[j], c[2])
    BY <2>2, <2>3 DEF StepsOf
  <2>6. c \in Children(L, e)
    <3> DEFINE longer == Append(e, c)
    <3>1. l \in Seq(Element)
      BY <1>0
    <3>2. longer \in Seq(Element) /\ Len(longer) = Len(e) + 1 /\ longer[Len(e) + 1] = c
      BY <2>1, AppendProperties
    <3>3. IsPrefix(longer, l)
      BY <2>1, <3>1, AppendIsPrefix
    <3>4. l[Len(l)][1] # "k"
      BY <1>0 DEF EndsWell
    <3>5. longer # l
      <4> HIDE DEF longer
      <4> QED BY <2>2, <3>2, <3>4
    <3>6. IsStrictPrefix(longer, l)
      BY <3>3, <3>5 DEF IsStrictPrefix
    <3> QED BY <1>0, <2>1, <3>6, ChildrenAre
  <2>7. <<c[2], j>> \in keyed
    BY <1>5, <2>4, <2>5, <2>6
  <2>8. PICK i \in 1..K : s[i] = <<c[2], j>>
    BY <1>6, <2>7
  <2>9. PICK key \in Nat, k \in Nat : s[i] = <<key, k>> /\ KeyOf(list[i]) = key
    BY <1>8
  <2>10. key = c[2]
    BY <2>8, <2>9
  <2> QED BY <1>7, <2>9, <2>10 DEF c
<1>11. {KeyOf(list[i]) : i \in DOMAIN list} = Ahead(paths, e)
  <2>1. \A k \in Ahead(paths, e) : \E i \in DOMAIN list : KeyOf(list[i]) = k
    BY <1>10 DEF Ahead
  <2> QED BY <1>9, <2>1
<1>12. ASSUME NEW i \in DOMAIN list, NEW j \in DOMAIN list, i < j
       PROVE  KeyOf(list[i]) < KeyOf(list[j])
  <2>1. PICK k1 \in Nat, j1 \in Nat :
           s[i] = <<k1, j1>> /\ <<k1, j1>> \in keyed /\ KeyOf(list[i]) = k1
    BY <1>7, <1>8
  <2>2. PICK k2 \in Nat, j2 \in Nat :
           s[j] = <<k2, j2>> /\ <<k2, j2>> \in keyed /\ KeyOf(list[j]) = k2
    BY <1>7, <1>8
  <2>3. Before(s[i], s[j])
    <3>1. DOMAIN s = 1..K
      BY <1>6
    <3> QED BY <1>6, <1>7, <1>12, <3>1 DEF Increasing
  <2>4. k1 < k2 \/ (k1 = k2 /\ j1 < j2)
    BY <2>1, <2>2, <2>3 DEF Before
  <2>5. CASE k1 = k2 /\ j1 < j2
    <3>1. /\ j1 \in DOMAIN source /\ FieldOf(source[j1], "uid") = Value(k1)
          /\ j2 \in DOMAIN source /\ FieldOf(source[j2], "uid") = Value(k1)
      BY <1>5, <2>1, <2>2, <2>5 DEF objectHasKey
    <3>2. j1 # j2
      BY <2>5
    <3>3. "uid" \in Keys(source[j1])
      BY <3>1 DEF FieldOf, Value, None
    <3>4. FieldOf(source[j1], "uid") # FieldOf(source[j2], "uid")
      BY <1>0, <3>1, <3>2, <3>3, DocumentAt
    <3> QED BY <3>1, <3>4
  <2> QED BY <2>1, <2>2, <2>4, <2>5
<1>13. ASSUME NEW i \in DOMAIN list
       PROVE  \E j \in DOMAIN source : IsItem(paths, e, list[i], KeyOf(list[i]), source[j])
  BY <1>7, <1>8
<1> QED BY <1>11, <1>12, <1>13

\* Where only values follow, the list has those that are managed.
LEMMA ValueList ==
    ASSUME NEW x \in Objects, NEW paths \in Managed(x), Follows(x, paths),
           NEW call, IsCalls(x, Leaves(paths), call),
           NEW e \in Seq(Element), e \in Seq(Step), e \in Reach(x, e), OnlyValuesBelow(paths, e),
           NEW list, list = ListOf(x, Leaves(paths), e, e, call)
    PROVE  ToSet(list) = {Value(v) : v \in Ahead(paths, e)}
<1> DEFINE L == Leaves(paths)
           source == Items(At(x, e))
           keyed == KeyedItems(x, L, e, e)
           values == SetValues(L, e)
           K == Cardinality(keyed)
           V == Cardinality(values)
           s == InOrder(values)
<1>0. /\ Extractable(x, L) /\ Extractable(x, paths) /\ L \subseteq paths
      /\ IsDocument(x) /\ paths \subseteq Seq(Element) /\ Follows(x, L) /\ L \subseteq Seq(Element)
      /\ EndsWell(L)
  BY ManagedIs, LeavesFollow DEF Extractable
<1>1. keyed = {}
  <2> SUFFICES ASSUME NEW p \in keyed PROVE FALSE
    OBVIOUS
  <2>0. keyed \subseteq Nat \X Nat
    BY <1>0, KeyedItemsAre
  <2>1. PICK key \in Nat, j \in Nat : p = <<key, j>>
    BY <2>0
  <2>2. Key(key) \in Children(L, e)
    BY <1>0, <2>1, KeyedItemsAre
  <2> DEFINE m == Key(key)
             longer == Append(e, m)
  <2>3. m \in Element /\ m[1] = "k"
    BY <1>0, <2>2, MembersAreElements DEF Key
  <2> HIDE DEF m
  <2>4. PICK q \in L : IsStrictPrefix(longer, q)
    BY <1>0, <2>2, <2>3, ChildrenAre DEF m
  <2>5. q \in paths /\ q \in Seq(Element) /\ IsPrefix(longer, q)
    BY <1>0, <2>4 DEF IsStrictPrefix
  <2>6. IsStrictPrefix(e, q) /\ q[Len(e) + 1] = m
    BY <2>3, <2>5, AppendIsPrefix
  <2> QED BY <2>3, <2>5, <2>6 DEF OnlyValuesBelow
<1>2. K = 0
  BY <1>1, FS_EmptySet
<1>3. /\ K \in Nat /\ V \in Nat
      /\ DOMAIN list = 1..(K + V)
      /\ \A i \in 1..V : list[K + i] = Value(s[i][1])
  BY <1>0, ListIs
<1>4. values \subseteq Nat \X Nat /\ IsFiniteSet(values) /\ \A p \in values : p[2] = 0
  BY <1>0, SetValuesAre
<1>5. \A v : <<v, 0>> \in values <=> SetValue(v) \in Members(L, e)
  BY <1>0, SetValuesAre
<1> HIDE DEF keyed, values, K, V
<1>6. s \in [1..V -> values] /\ \A p \in values : \E i \in 1..V : s[i] = p
  BY <1>4, InOrderIs DEF V
<1> HIDE DEF s
<1>7. DOMAIN list = 1..V /\ \A i \in 1..V : list[i] = Value(s[i][1])
  BY <1>2, <1>3
<1>8. ASSUME NEW i \in 1..V
      PROVE  \E v \in Ahead(paths, e) : list[i] = Value(v)
  <2>1. s[i] \in values
    BY <1>6
  <2>2. PICK v \in Nat, j \in Nat : s[i] = <<v, j>>
    BY <1>4, <2>1
  <2>3. list[i] = Value(v)
    BY <1>7, <2>2
  <2>4. <<v, 0>> \in values
    BY <1>4, <2>1, <2>2
  <2> DEFINE m == SetValue(v)
             longer == Append(e, m)
  <2>5. m \in Members(L, e) /\ m[2] = v
    BY <1>5, <2>4 DEF SetValue
  <2> HIDE DEF m
  <2>6. m \in Element /\ longer \in L
    BY <1>0, <2>5, MembersAre, MembersAreElements
  <2>7. longer \in Seq(Element) /\ longer \in paths
    BY <1>0, <2>6
  <2>8. IsPrefix(longer, longer)
    BY <2>7, PrefixOfItself
  <2>9. IsStrictPrefix(e, longer) /\ longer[Len(e) + 1] = m
    BY <2>6, <2>7, <2>8, AppendIsPrefix
  <2> HIDE DEF longer
  <2>10. v \in Ahead(paths, e)
    BY <2>5, <2>7, <2>9 DEF Ahead
  <2> QED BY <2>3, <2>10
<1>9. ASSUME NEW q \in paths, IsStrictPrefix(e, q)
      PROVE  \E i \in 1..V : list[i] = Value(q[Len(e) + 1][2])
  <2> DEFINE c == q[Len(e) + 1]
             longer == Append(e, c)
  <2>1. PICK l \in L : IsStrictPrefix(e, l) /\ l[Len(e) + 1] = c /\ c \in Element
    BY <1>0, <1>9, LeafGoesOn
  <2>2. c[1] = "v"
    BY <1>9 DEF OnlyValuesBelow
  <2>3. StepsOf(At(x, e), c) # {}
    <3>1. \A place \in Reach(x, e) : StepsOf(At(x, place), l[Len(e) + 1]) # {}
      BY <1>0, <2>1, FollowedStep
    <3> QED BY <2>1, <3>1
  <2> HIDE DEF c
  <2>4. c = SetValue(c[2])
    BY <2>1, <2>2 DEF Element, SetValue
  <2>5. PICK j \in DOMAIN source : source[j] = Value(c[2])
    BY <2>2, <2>3 DEF StepsOf
  <2>6. longer \in Seq(Element) /\ l \in Seq(Element)
    BY <1>0, <2>1, AppendProperties
  <2>7. IsPrefix(longer, l)
    BY <2>1, <2>6, AppendIsPrefix
  <2>8. ~IsStrictPrefix(longer, l)
    <3> SUFFICES ASSUME IsStrictPrefix(longer, l) PROVE FALSE
      OBVIOUS
    <3> DEFINE further == Append(e, Index(j))
    <3>1. Index(j) \in StepsOf(At(x, e), c)
      BY <2>2, <2>5 DEF StepsOf
    <3>2. further \in Reach(x, longer)
      BY <2>1, <3>1, ReachNext
    <3>3. DOMAIN source = 1..Len(source) /\ Len(source) \in Nat
      BY <1>0, DocumentAt
    <3>4. j \in Nat
      <4> HIDE DEF source
      <4> QED BY <2>5, <3>3
    <3>5. At(x, further) = StepInto(At(x, e), Index(j))
      BY <3>4, AtAppend DEF Index, Step
    <3>6. StepInto(At(x, e), Index(j)) = source[j]
      BY <2>5 DEF StepInto, Index
    <3> HIDE DEF further, longer
    <3>7. StepsOf(At(x, further), l[Len(longer) + 1]) # {}
      BY <1>0, <2>6, <3>2, FollowedStep
    <3> QED BY <2>5, <3>5, <3>6, <3>7, ValueHasNoSteps
  <2>9. longer = l
    BY <2>7, <2>8 DEF IsStrictPrefix
  <2>10. c \in Members(L, e)
    BY <1>0, <2>1, <2>9, MembersAre
  <2>11. <<c[2], 0>> \in values
    BY <1>5, <2>4, <2>10
  <2>12. PICK i \in 1..V : s[i] = <<c[2], 0>>
    BY <1>6, <2>11
  <2>13. list[i] = Value(c[2])
    BY <1>7, <2>12
  <2> QED BY <2>13 DEF c
<1>10. ToSet(list) = {list[i] : i \in 1..V}
  BY <1>7 DEF ToSet
<1>11. \A v \in Ahead(paths, e) : \E i \in 1..V : list[i] = Value(v)
  BY <1>9 DEF Ahead
<1> QED BY <1>8, <1>10, <1>11

\* Two more elements.
LEMMA TwoMore ==
    ASSUME NEW S, NEW e \in Seq(S), NEW a, NEW b
    PROVE  Len(Append(e, a)) = Len(e) + 1 /\ e \o <<a, b>> = Append(Append(e, a), b)
<1> DEFINE T == S \cup {a, b}
<1>1. e \in Seq(T) /\ a \in T /\ b \in T
  OBVIOUS
<1> HIDE DEF T
<1>2. Len(Append(e, a)) = Len(e) + 1 /\ Append(e, a) \in Seq(T)
  BY <1>1
<1> DEFINE ab == <<a, b>>
           l == e \o ab
           r == Append(Append(e, a), b)
<1>3. ab \in Seq(T) /\ Len(ab) = 2 /\ ab[1] = a /\ ab[2] = b
  BY <1>1
<1> HIDE DEF ab
<1>4. l \in Seq(T) /\ Len(l) = Len(e) + 2 /\ Len(e) \in Nat
  <2>1. l \in Seq(T) /\ Len(l) = Len(e) + Len(ab)
    <3> HIDE DEF l
    <3>1. e \o ab \in Seq(T) /\ Len(e \o ab) = Len(e) + Len(ab)
      BY <1>1, <1>3, ConcatProperties
    <3> QED BY <3>1 DEF l
  <2>2. Len(e) \in Nat
    BY <1>1, LenProperties
  <2> QED BY <1>3, <2>1, <2>2
<1>5. r \in Seq(T) /\ Len(r) = Len(e) + 2
  BY <1>1, <1>2
<1>6. ASSUME NEW i \in 1..(Len(e) + 2) PROVE l[i] = r[i]
  <2>1. l[i] = IF i <= Len(e) THEN e[i] ELSE ab[i - Len(e)]
    BY <1>1, <1>3, <1>4
  <2>2. r[i] = IF i <= Len(e) THEN e[i] ELSE IF i = Len(e) + 1 THEN a ELSE b
    BY <1>1, <1>2, <1>4
  <2>3. i <= Len(e) \/ i = Len(e) + 1 \/ i = Len(e) + 2
    BY <1>4
  <2>4. Len(e) + 1 - Len(e) = 1 /\ Len(e) + 2 - Len(e) = 2
    BY <1>4
  <2> QED BY <1>3, <1>4, <2>1, <2>2, <2>3, <2>4
<1> HIDE DEF l, r
<1>7. l = r
  <2>1. DOMAIN l = 1..(Len(e) + 2) /\ DOMAIN r = 1..(Len(e) + 2)
    BY <1>4, <1>5
  <2>2. l = [i \in DOMAIN l |-> l[i]] /\ r = [i \in DOMAIN r |-> r[i]]
    BY <1>4, <1>5
  <2> QED BY <1>6, <2>1, <2>2
<1> QED BY <1>2, <1>7 DEF l, r, ab

\* What KeyedList shows of the list at e.
KeyedThere(x, paths, e, items) ==
    /\ {KeyOf(items[i]) : i \in DOMAIN items} = Ahead(paths, e)
    /\ \A i, j \in DOMAIN items : i < j => KeyOf(items[i]) < KeyOf(items[j])
    /\ \A i \in DOMAIN items : \E j \in DOMAIN Items(At(x, e)) :
          IsItem(paths, e, items[i], KeyOf(items[i]), Items(At(x, e))[j])

\* What ValueList shows of the list at e.
ValuesThere(paths, e, items) == ToSet(items) = {Value(v) : v \in Ahead(paths, e)}

\* Where the paths below a list that is not managed as a whole are keys, the patch has its keyed
\* items, and where they are values it has its values.
LEMMA ListOfMetadata ==
    ASSUME NEW x \in Objects, NEW paths \in Managed(x), Follows(x, paths), NEW n \in Names,
           ElementsOf(<<"metadata", n>>) \notin Leaves(paths)
    PROVE  LET e == ElementsOf(<<"metadata", n>>)
               items == Items(At(ExtractFieldsInto(x, paths), e))
           IN  /\ OnlyKeysBelow(paths, e) => KeyedThere(x, paths, e, items)
               /\ OnlyValuesBelow(paths, e) => ValuesThere(paths, e, items)
<1> DEFINE names == <<"metadata", n>>
           e == ElementsOf(names)
           L == Leaves(paths)
           items == Items(At(ExtractFieldsInto(x, paths), e))
<1>1. names \in Seq(Names) /\ names # <<>> /\ Len(e) = 2 /\ ~Covered(L, e)
  BY CoveredMetadata
<1>2. PICK call : IsCalls(x, L, call) /\ extractDepthFirst(x, L) = call[<<<<>>, <<>>>>]
  BY ManagedIs, ExtractionIsACall
<1> HIDE DEF names
<1>3. e \in Seq(Element) /\ e \in Seq(Step)
  BY <1>1, ElementsOfNames
<1>4. items = Items(NestedField(ExtractFieldsInto(x, paths), names))
  BY DEF NestedField
<1>5. NoFieldsBelow(paths, e) => ListThere(x, paths, call, e, items)
  BY <1>1, <1>2, <1>4, ListExtracted
<1>6. OnlyKeysBelow(paths, e) => NoFieldsBelow(paths, e)
  BY DEF OnlyKeysBelow, NoFieldsBelow
<1>7. OnlyValuesBelow(paths, e) => NoFieldsBelow(paths, e)
  BY DEF OnlyValuesBelow, NoFieldsBelow
<1> DEFINE Some == \E q \in paths : IsStrictPrefix(e, q)
<1> HIDE DEF items, e
<1>8. NoFieldsBelow(paths, e) /\ Some
         => e \in Reach(x, e) /\ items = ListOf(x, Leaves(paths), e, e, call)
  BY <1>5 DEF ListThere
<1>9. NoFieldsBelow(paths, e) /\ ~Some => items = <<>> /\ Ahead(paths, e) = {}
  BY <1>5 DEF ListThere, Ahead
<1>10. OnlyKeysBelow(paths, e) => KeyedThere(x, paths, e, items)
  <2>1. CASE OnlyKeysBelow(paths, e) /\ Some
    <3>1. e \in Reach(x, e) /\ items = ListOf(x, Leaves(paths), e, e, call)
      BY <1>6, <1>8, <2>1
    <3>2. {KeyOf(items[i]) : i \in DOMAIN items} = Ahead(paths, e)
      BY <1>2, <1>3, <2>1, <3>1, KeyedList
    <3>3. \A i, j \in DOMAIN items : i < j => KeyOf(items[i]) < KeyOf(items[j])
      BY <1>2, <1>3, <2>1, <3>1, KeyedList
    <3>4. \A i \in DOMAIN items : \E j \in DOMAIN Items(At(x, e)) :
             IsItem(paths, e, items[i], KeyOf(items[i]), Items(At(x, e))[j])
      BY <1>2, <1>3, <2>1, <3>1, KeyedList
    <3> QED BY <3>2, <3>3, <3>4 DEF KeyedThere
  <2>2. CASE OnlyKeysBelow(paths, e) /\ ~Some
    <3>1. items = <<>> /\ Ahead(paths, e) = {}
      BY <1>6, <1>9, <2>2
    <3>2. DOMAIN items = {}
      BY <3>1
    <3> QED BY <3>1, <3>2 DEF KeyedThere
  <2> QED BY <2>1, <2>2
<1>11. OnlyValuesBelow(paths, e) => ValuesThere(paths, e, items)
  <2>1. CASE OnlyValuesBelow(paths, e) /\ Some
    <3>1. e \in Reach(x, e) /\ items = ListOf(x, Leaves(paths), e, e, call)
      BY <1>7, <1>8, <2>1
    <3>2. ToSet(items) = {Value(v) : v \in Ahead(paths, e)}
      BY <1>2, <1>3, <2>1, <3>1, ValueList
    <3> QED BY <3>2 DEF ValuesThere
  <2>2. CASE OnlyValuesBelow(paths, e) /\ ~Some
    <3>1. items = <<>> /\ Ahead(paths, e) = {}
      BY <1>7, <1>9, <2>2
    <3>2. DOMAIN items = {}
      BY <3>1
    <3> QED BY <3>1, <3>2 DEF ValuesThere, ToSet
  <2> QED BY <2>1, <2>2
<1> QED BY <1>10, <1>11 DEF items, e, names

\* Where managedFields follows the object, a list of items with keys has those that are managed,
\* in the order of their keys, each with its key and its managed fields from one item of the
\* object, and a list of values has the managed ones.
THEOREM ListsFollowTheirKeysTheorem == Spec => []ListsFollowTheirKeys
<1>1. IInv => ListsFollowTheirKeys
  <2> DEFINE e == ownerReferences
             f == finalizers
             items == Items(At(doc, e))
             source == Items(At(live, e))
             InItem(key) == {p \in owned : IsStrictPrefix(Append(e, Key(key)), p)}
  <2> SUFFICES ASSUME IInv, step = "extracted", Tracked
               PROVE  /\ e \notin Leaves(owned) =>
                          /\ {KeyOf(items[i]) : i \in DOMAIN items} =
                                {p[3][2] : p \in {q \in owned : IsStrictPrefix(e, q)}}
                          /\ \A i, j \in DOMAIN items : i < j => KeyOf(items[i]) < KeyOf(items[j])
                          /\ \A i \in DOMAIN items : \E j \in DOMAIN source :
                                LET key == KeyOf(items[i])
                                IN  /\ objectHasKey(items[i], key)
                                    /\ objectHasKey(source[j], key)
                                    /\ Keys(items[i]) = {"uid"} \cup {p[4][2] : p \in InItem(key)}
                                    /\ \A n \in Keys(items[i]) :
                                          e \o <<Key(key), FieldName(n)>> \in Leaves(owned)
                                              => FieldOf(items[i], n) = FieldOf(source[j], n)
                      /\ f \notin Leaves(owned) =>
                            ToSet(Items(At(doc, f))) =
                                {Value(p[3][2]) : p \in {q \in owned : IsStrictPrefix(f, q)}}
    BY DEF ListsFollowTheirKeys, KeyOf
  <2>1. live \in Objects /\ owned \in Managed(live) /\ doc = ExtractFieldsInto(live, owned)
    BY DEF IInv, Copied
  <2>2. Follows(live, owned)
    BY DEF Tracked, Follows
  <2>3. "ownerReferences" \in Names /\ "finalizers" \in Names
    BY NamesAssumption DEF NamesAssumption
  <2>4. Len(e) = 2 /\ Len(f) = 2
    BY <2>1, <2>3, CoveredMetadata DEF ownerReferences, finalizers
  <2>5. e \in Seq(Element)
    <3>1. <<"metadata", "ownerReferences">> \in Seq(Names)
      BY <2>1, <2>3, CoveredMetadata
    <3> QED BY <3>1, ElementsOfNames DEF ownerReferences
  <2>6. IsManaged(owned)
    BY <2>1, ManagedIs
  <2>7. OnlyKeysBelow(owned, e)
    BY <2>4, <2>6 DEF OnlyKeysBelow, IsManaged
  <2>8. OnlyValuesBelow(owned, f)
    BY <2>4, <2>6 DEF OnlyValuesBelow, IsManaged
  <2>9. e \notin Leaves(owned) => KeyedThere(live, owned, e, items)
    BY <2>1, <2>2, <2>3, <2>7, ListOfMetadata DEF ownerReferences
  <2>10. f \notin Leaves(owned) => ValuesThere(owned, f, Items(At(doc, f)))
    BY <2>1, <2>2, <2>3, <2>8, ListOfMetadata DEF finalizers
  <2>11. Ahead(owned, e) = {p[3][2] : p \in {q \in owned : IsStrictPrefix(e, q)}}
    BY <2>4 DEF Ahead
  <2>12. {Value(v) : v \in Ahead(owned, f)} =
            {Value(p[3][2]) : p \in {q \in owned : IsStrictPrefix(f, q)}}
    BY <2>4 DEF Ahead
  <2>13. ASSUME NEW key
         PROVE  Ahead(owned, Append(e, Key(key))) = {p[4][2] : p \in InItem(key)}
    <3>1. Len(Append(e, Key(key))) = Len(e) + 1
      BY <2>5, TwoMore
    <3>2. Len(Append(e, Key(key))) + 1 = 4
      BY <2>4, <3>1
    <3> QED BY <3>2 DEF Ahead
  <2>14. ASSUME NEW key, NEW n
         PROVE  e \o <<Key(key), FieldName(n)>> = Append(Append(e, Key(key)), FieldName(n))
    BY <2>5, TwoMore
  <2> HIDE DEF e, f, items, source
  <2>15. ASSUME e \notin Leaves(owned), NEW i \in DOMAIN items
         PROVE  \E j \in DOMAIN source :
                  LET key == KeyOf(items[i])
                  IN  /\ objectHasKey(items[i], key)
                      /\ objectHasKey(source[j], key)
                      /\ Keys(items[i]) = {"uid"} \cup {p[4][2] : p \in InItem(key)}
                      /\ \A n \in Keys(items[i]) :
                            e \o <<Key(key), FieldName(n)>> \in Leaves(owned)
                                => FieldOf(items[i], n) = FieldOf(source[j], n)
    <3>1. PICK j \in DOMAIN source : IsItem(owned, e, items[i], KeyOf(items[i]), source[j])
      BY <2>9, <2>15 DEF KeyedThere, source
    <3> DEFINE key == KeyOf(items[i])
    <3> HIDE DEF key
    <3>2. IsItem(owned, e, items[i], key, source[j])
      BY <3>1 DEF key
    <3>3. objectHasKey(items[i], key) /\ objectHasKey(source[j], key)
      BY <3>2 DEF IsItem, objectHasKey
    <3>4. Keys(items[i]) = {"uid"} \cup {p[4][2] : p \in InItem(key)}
      BY <2>13, <3>2 DEF IsItem
    <3>5. \A n \in Keys(items[i]) :
             e \o <<Key(key), FieldName(n)>> \in Leaves(owned)
                 => FieldOf(items[i], n) = FieldOf(source[j], n)
      BY <2>14, <3>2 DEF IsItem
    <3> QED BY <3>3, <3>4, <3>5 DEF key
  <2>16. e \notin Leaves(owned) =>
            /\ {KeyOf(items[i]) : i \in DOMAIN items} =
                  {p[3][2] : p \in {q \in owned : IsStrictPrefix(e, q)}}
            /\ \A i, j \in DOMAIN items : i < j => KeyOf(items[i]) < KeyOf(items[j])
    BY <2>9, <2>11 DEF KeyedThere
  <2>17. f \notin Leaves(owned) =>
            ToSet(Items(At(doc, f))) =
                {Value(p[3][2]) : p \in {q \in owned : IsStrictPrefix(f, q)}}
    BY <2>10, <2>12 DEF ValuesThere
  <2> QED BY <2>15, <2>16, <2>17
<1> QED BY <1>1, Invariant, PTL
=============================================================================
