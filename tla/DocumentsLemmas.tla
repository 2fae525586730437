--------------------------- MODULE DocumentsLemmas ---------------------------
(***************************************************************************)
(* Lemmas about the operators of Documents, for documents and managed      *)
(* paths of any size.  A recursion of the code is a recursive function     *)
(* there, and each is treated alike: there is a function with the          *)
(* equations of its definition, any two of them agree, and so the          *)
(* operator has the equations too.  Induction is on sets of numbers and of *)
(* sequences: a set with 0 and the successor of each of its members has    *)
(* all numbers.                                                            *)
(*                                                                         *)
(* Then: what SetNestedField leaves alone, the order of the iterators, the *)
(* calls of extractDepthFirst, what it extracts of fields in maps, where   *)
(* managed paths lead, and where no null comes from.                       *)
(***************************************************************************)
EXTENDS Documents, FiniteSetTheorems, SequenceTheorems, TLAPS

-----------------------------------------------------------------------------
(* Induction.                                                              *)

\* A set of numbers has a least one.
LEMMA LeastNumber ==
    ASSUME NEW T, T \subseteq Nat, T # {}
    PROVE  \E n \in T : \A m \in T : n <= m
<1> DEFINE R == {ss \in Nat \X Nat : ss[1] < ss[2]}
<1>1. IsWellFoundedOn(R, Nat)
  BY NatLessThanWellFounded, Zenon DEF OpToRel
<1>2. PICK n \in T : \A m \in T : <<m, n>> \notin R
  <2> HIDE DEF R
  <2> QED BY <1>1, WFMin
<1>3. ASSUME NEW m \in T
      PROVE  n <= m
  <2>1. n \in Nat /\ m \in Nat /\ <<m, n>> \in Nat \X Nat
    OBVIOUS
  <2>2. ~(m < n)
    BY <1>2, <2>1
  <2> QED BY <2>1, <2>2
<1> QED BY <1>3

\* What holds of zero and passes on to the next number holds of all.
LEMMA NumberInduction ==
    ASSUME NEW S, 0 \in S, \A n \in Nat : n \in S => n + 1 \in S
    PROVE  Nat \subseteq S
<1> DEFINE T == Nat \ S
<1>1. SUFFICES ASSUME T # {} PROVE FALSE
  OBVIOUS
<1>2. PICK n \in T : \A m \in T : n <= m
  <2>1. T \subseteq Nat
    OBVIOUS
  <2> HIDE DEF T
  <2> QED BY <1>1, <2>1, LeastNumber
<1>3. n \in Nat /\ n # 0 /\ n - 1 \in Nat /\ ~(n <= n - 1)
  BY <1>2
<1>4. n - 1 \in S
  BY <1>2, <1>3
<1>5. (n - 1) + 1 \in S
  BY <1>3, <1>4
<1> QED BY <1>3, <1>5

\* The same of sequences, by their last element.
LEMMA SequenceInduction ==
    ASSUME NEW S, NEW T, <<>> \in T,
           \A s \in Seq(S), e \in S : s \in T => Append(s, e) \in T
    PROVE  Seq(S) \subseteq T
<1> DEFINE L == {n \in Nat : \A s \in Seq(S) : Len(s) = n => s \in T}
<1>1. 0 \in L
  BY EmptySeq
<1>2. ASSUME NEW n \in Nat, n \in L
      PROVE  n + 1 \in L
  <2> SUFFICES ASSUME NEW s \in Seq(S), Len(s) = n + 1
               PROVE  s \in T
    OBVIOUS
  <2>1. s # <<>>
    BY EmptySeq
  <2>2. PICK t \in Seq(S), e \in S : s = Append(t, e)
    BY <2>1, SequenceEmptyOrAppend
  <2>3. Len(t) = n
    BY <2>2
  <2> QED BY <1>2, <2>2, <2>3
<1> HIDE DEF L
<1>3. Nat \subseteq L
  BY <1>1, <1>2, NumberInduction
<1> QED
  <2> SUFFICES ASSUME NEW s \in Seq(S) PROVE s \in T
    OBVIOUS
  <2>1. Len(s) \in L
    BY <1>3, LenProperties
  <2> QED BY <2>1 DEF L

-----------------------------------------------------------------------------
(* At.                                                                     *)

\* What a walk of n steps from x meets.
IsWay(x, place, n, at) ==
    at = [i \in 0..n |-> IF i = 0 THEN x ELSE StepInto(at[i - 1], place[i])]

\* There is a walk along any place.
LEMMA WayExists ==
    ASSUME NEW x, NEW place, NEW n \in Nat
    PROVE  \E at : IsWay(x, place, n, at)
<1> DEFINE S == {m \in Nat : \E at : IsWay(x, place, m, at)}
<1>1. 0 \in S
  <2> DEFINE f == [i \in 0..0 |-> x]
  <2>1. IsWay(x, place, 0, f)
    BY DEF IsWay
  <2> QED BY <2>1
<1>2. ASSUME NEW m \in Nat, m \in S
      PROVE  m + 1 \in S
  <2>1. PICK f : IsWay(x, place, m, f)
    BY <1>2
  <2> DEFINE g == [i \in 0..(m + 1) |->
                      IF i = m + 1 THEN StepInto(f[m], place[m + 1]) ELSE f[i]]
  <2>2. IsWay(x, place, m + 1, g)
    BY <2>1 DEF IsWay
  <2>3. \E at : IsWay(x, place, m + 1, at)
    <3> HIDE DEF g
    <3> QED BY <2>2
  <2> QED BY <2>3
<1> HIDE DEF S
<1>3. Nat \subseteq S
  BY <1>1, <1>2, NumberInduction
<1> QED BY <1>3 DEF S

\* Two walks along the same steps meet the same.
LEMMA SameWay ==
    ASSUME NEW x, NEW p, NEW q, NEW k \in Nat, NEW a, NEW b,
           IsWay(x, p, k, a), IsWay(x, q, k + 1, b), \A i \in 1..k : p[i] = q[i]
    PROVE  a[k] = b[k]
<1> DEFINE S == {j \in Nat : j <= k => a[j] = b[j]}
<1>1. 0 \in S
  BY DEF IsWay
<1>2. ASSUME NEW j \in Nat, j \in S
      PROVE  j + 1 \in S
  <2>1. SUFFICES ASSUME j + 1 <= k PROVE a[j + 1] = b[j + 1]
    OBVIOUS
  <2>2. a[j] = b[j] /\ p[j + 1] = q[j + 1]
    BY <1>2, <2>1
  <2>3. a[j + 1] = StepInto(a[j], p[j + 1]) /\ b[j + 1] = StepInto(b[j], q[j + 1])
    BY <2>1 DEF IsWay
  <2> QED BY <2>2, <2>3
<1> HIDE DEF S
<1>3. Nat \subseteq S
  BY <1>1, <1>2, NumberInduction
<1> QED BY <1>3 DEF S

\* At is where a walk ends.
LEMMA AtIsAWay ==
    ASSUME NEW x, NEW place, Len(place) \in Nat
    PROVE  \E at : IsWay(x, place, Len(place), at) /\ At(x, place) = at[Len(place)]
<1> DEFINE at == CHOOSE at : at = [i \in 0..Len(place) |->
                        IF i = 0 THEN x ELSE StepInto(at[i - 1], place[i])]
<1>1. IsWay(x, place, Len(place), at)
  BY WayExists DEF IsWay
<1>2. At(x, place) = at[Len(place)]
  BY DEF At
<1> HIDE DEF at
<1> QED BY <1>1, <1>2

\* The place without steps is the document itself.
LEMMA AtEmpty ==
    ASSUME NEW x PROVE At(x, <<>>) = x
<1>1. PICK at : IsWay(x, <<>>, Len(<<>>), at) /\ At(x, <<>>) = at[Len(<<>>)]
  BY AtIsAWay
<1> QED BY <1>1 DEF IsWay

\* One more step is taken from where the others lead.
LEMMA AtAppend ==
    ASSUME NEW x, NEW S, NEW place \in Seq(S), NEW s \in S
    PROVE  At(x, Append(place, s)) = StepInto(At(x, place), s)
<1> DEFINE n == Len(place)
           longer == Append(place, s)
<1>1. n \in Nat /\ n + 1 \in Nat /\ n <= n /\ n <= n + 1 /\ Len(longer) = n + 1 /\ longer[n + 1] = s
  OBVIOUS
<1>2. \A i \in 1..n : place[i] = longer[i]
  OBVIOUS
<1>3. PICK a : IsWay(x, place, n, a) /\ At(x, place) = a[n]
  BY <1>1, AtIsAWay
<1> HIDE DEF longer
<1>4. PICK b : IsWay(x, longer, n + 1, b) /\ At(x, longer) = b[n + 1]
  BY <1>1, AtIsAWay
<1> HIDE DEF n
<1>5. a[n] = b[n]
  BY <1>1, <1>2, <1>3, <1>4, SameWay
<1>6. b[n + 1] = StepInto(b[n], longer[n + 1])
  BY <1>1, <1>4 DEF IsWay
<1> QED BY <1>1, <1>3, <1>4, <1>5, <1>6 DEF longer

\* A place in what is at a place.
LEMMA AtConcat ==
    ASSUME NEW x, NEW S, NEW p \in Seq(S), NEW q \in Seq(S)
    PROVE  At(x, p \o q) = At(At(x, p), q)
<1> DEFINE T == {r \in Seq(S) : At(x, p \o r) = At(At(x, p), r)}
<1>1. <<>> \in T
  BY ConcatEmptySeq, AtEmpty
<1>2. ASSUME NEW t \in Seq(S), NEW s \in S, t \in T
      PROVE  Append(t, s) \in T
  <2>1. p \o t \in Seq(S)
    BY ConcatProperties
  <2>2. p \o Append(t, s) = Append(p \o t, s)
    <3>1. <<s>> \in Seq(S)
      OBVIOUS
    <3>2. (p \o t) \o <<s>> = p \o (t \o <<s>>)
      BY <3>1, ConcatAssociative
    <3> QED BY <2>1, <3>2, AppendIsConcat
  <2>3. At(x, Append(p \o t, s)) = StepInto(At(x, p \o t), s)
    BY <2>1, AtAppend
  <2>4. At(At(x, p), Append(t, s)) = StepInto(At(At(x, p), t), s)
    BY AtAppend
  <2>5. At(x, p \o t) = At(At(x, p), t)
    BY <1>2
  <2>6. Append(t, s) \in Seq(S)
    OBVIOUS
  <2> QED BY <2>2, <2>3, <2>4, <2>5, <2>6
<1> HIDE DEF T
<1>3. q \in T
  BY <1>1, <1>2, SequenceInduction
<1> QED BY <1>3 DEF T

\* Below what is no map and no list there is nothing.
LEMMA AtNothing ==
    ASSUME NEW x, x[1] \notin {"map", "list"}, NEW S, NEW p \in Seq(S), p # <<>>
    PROVE  At(x, p) = None
<1> DEFINE T == {r \in Seq(S) : r # <<>> => At(x, r) = None}
<1>1. \A s : StepInto(x, s) = None /\ StepInto(None, s) = None
  BY DEF StepInto, FieldOf, Keys, IsMap, Items, None
<1>2. <<>> \in T
  OBVIOUS
<1>3. ASSUME NEW t \in Seq(S), NEW s \in S, t \in T
      PROVE  Append(t, s) \in T
  <2>1. At(x, Append(t, s)) = StepInto(At(x, t), s)
    BY AtAppend
  <2>2. At(x, t) \in {x, None}
    BY <1>3, AtEmpty
  <2>3. Append(t, s) \in Seq(S)
    OBVIOUS
  <2> QED BY <1>1, <2>1, <2>2, <2>3
<1> HIDE DEF T
<1>4. p \in T
  BY <1>2, <1>3, SequenceInduction
<1> QED BY <1>4 DEF T

-----------------------------------------------------------------------------
(* NestedField.                                                            *)

\* The names of fields are a place as well as a path.
LEMMA ElementsOfNames ==
    ASSUME NEW names \in Seq(Names)
    PROVE  /\ ElementsOf(names) \in Seq(Step)
           /\ ElementsOf(names) \in Seq(Element)
           /\ Len(ElementsOf(names)) = Len(names)
           /\ \A i \in 1..Len(names) : ElementsOf(names)[i] = FieldName(names[i])
BY DEF ElementsOf, FieldName, Step, Element

\* No names, no elements.
LEMMA ElementsOfEmpty == ElementsOf(<<>>) = <<>>
BY DEF ElementsOf

\* One more name is one more element.
LEMMA ElementsOfAppend ==
    ASSUME NEW names \in Seq(Names), NEW n \in Names
    PROVE  ElementsOf(Append(names, n)) = Append(ElementsOf(names), FieldName(n))
<1> DEFINE longer == Append(names, n)
           a == ElementsOf(longer)
           b == Append(ElementsOf(names), FieldName(n))
<1>1. longer \in Seq(Names) /\ Len(longer) = Len(names) + 1
  OBVIOUS
<1>2. FieldName(n) \in Step
  BY DEF FieldName, Step
<1>3. a \in Seq(Step) /\ Len(a) = Len(names) + 1
  BY <1>1, ElementsOfNames
<1>4. b \in Seq(Step) /\ Len(b) = Len(names) + 1
  BY <1>2, ElementsOfNames, AppendProperties
<1>5. \A i \in 1..Len(a) : a[i] = b[i]
  <2> SUFFICES ASSUME NEW i \in 1..(Len(names) + 1) PROVE a[i] = b[i]
    BY <1>3
  <2>1. a[i] = FieldName(longer[i])
    BY <1>1, ElementsOfNames
  <2>2. CASE i \in 1..Len(names)
    BY <2>1, <2>2, <1>2, ElementsOfNames, AppendProperties
  <2>3. CASE i = Len(names) + 1
    BY <2>1, <2>3, <1>2, ElementsOfNames, AppendProperties
  <2>4. Len(names) \in Nat
    BY LenProperties
  <2> HIDE DEF a, b
  <2> QED BY <2>2, <2>3, <2>4
<1> HIDE DEF a, b
<1>6. a = b
  BY <1>3, <1>4, <1>5, SeqEqual
<1> QED BY <1>6 DEF a, b

\* The elements of names after names.
LEMMA ElementsOfConcat ==
    ASSUME NEW p \in Seq(Names), NEW q \in Seq(Names)
    PROVE  ElementsOf(p \o q) = ElementsOf(p) \o ElementsOf(q)
<1> DEFINE pq == p \o q
           a == ElementsOf(pq)
           b == ElementsOf(p) \o ElementsOf(q)
<1>1. pq \in Seq(Names) /\ Len(pq) = Len(p) + Len(q)
  BY ConcatProperties
<1>2. a \in Seq(Step) /\ Len(a) = Len(p) + Len(q)
  BY <1>1, ElementsOfNames
<1>3. b \in Seq(Step) /\ Len(b) = Len(p) + Len(q)
  BY ElementsOfNames, ConcatProperties
<1>4. \A i \in 1..Len(a) : a[i] = b[i]
  <2> SUFFICES ASSUME NEW i \in 1..(Len(p) + Len(q)) PROVE a[i] = b[i]
    BY <1>2
  <2>1. a[i] = FieldName(pq[i])
    BY <1>1, ElementsOfNames
  <2>2. pq[i] = IF i <= Len(p) THEN p[i] ELSE q[i - Len(p)]
    BY ConcatProperties
  <2>3. b[i] = IF i <= Len(p) THEN ElementsOf(p)[i] ELSE ElementsOf(q)[i - Len(p)]
    BY ElementsOfNames, ConcatProperties
  <2>4. CASE i <= Len(p)
    BY <2>1, <2>2, <2>3, <2>4, ElementsOfNames
  <2>5. CASE ~(i <= Len(p))
    <3>1. i - Len(p) \in 1..Len(q)
      BY <2>5
    <3> QED BY <2>1, <2>2, <2>3, <2>5, <3>1, ElementsOfNames
  <2> QED BY <2>4, <2>5
<1> HIDE DEF a, b
<1>5. a = b
  BY <1>2, <1>3, <1>4, SeqEqual
<1> QED BY <1>5 DEF a, b

\* The field without names is the document itself.
LEMMA NestedFieldEmpty ==
    ASSUME NEW x PROVE NestedField(x, <<>>) = x
BY ElementsOfEmpty, AtEmpty DEF NestedField

\* The field of a field.
LEMMA NestedFieldAppend ==
    ASSUME NEW x, NEW names \in Seq(Names), NEW n \in Names
    PROVE  NestedField(x, Append(names, n)) = FieldOf(NestedField(x, names), n)
<1>1. FieldName(n) \in Step
  BY DEF FieldName, Step
<1>2. At(x, Append(ElementsOf(names), FieldName(n))) = StepInto(NestedField(x, names), FieldName(n))
  BY <1>1, ElementsOfNames, AtAppend DEF NestedField
<1> QED BY <1>2, ElementsOfAppend DEF NestedField, StepInto, FieldName

\* A nested field of a nested field.
LEMMA NestedFieldConcat ==
    ASSUME NEW x, NEW p \in Seq(Names), NEW q \in Seq(Names)
    PROVE  NestedField(x, p \o q) = NestedField(NestedField(x, p), q)
<1>1. ElementsOf(p) \in Seq(Step) /\ ElementsOf(q) \in Seq(Step)
  BY ElementsOfNames
<1>2. At(x, ElementsOf(p) \o ElementsOf(q)) = At(At(x, ElementsOf(p)), ElementsOf(q))
  BY <1>1, AtConcat
<1> QED BY <1>2, ElementsOfConcat DEF NestedField

\* A value, nil or nothing has no fields.
LEMMA NestedFieldNothing ==
    ASSUME NEW x, x[1] \notin {"map", "list"}, NEW names \in Seq(Names), names # <<>>
    PROVE  NestedField(x, names) = None
<1>1. ElementsOf(names) # <<>>
  BY ElementsOfNames, EmptySeq
<1> QED BY <1>1, ElementsOfNames, AtNothing DEF NestedField

\* What a longer sequence begins with.
LEMMA SubSeqOfAppend ==
    ASSUME NEW S, NEW s \in Seq(S), NEW e \in S, NEW i \in 0..Len(s)
    PROVE  SubSeq(Append(s, e), 1, i) = SubSeq(s, 1, i)
<1> DEFINE longer == Append(s, e)
<1>1. longer \in Seq(S) /\ Len(longer) = Len(s) + 1 /\ \A j \in 1..Len(s) : longer[j] = s[j]
  BY AppendProperties
<1>2. \A j \in 1..i : longer[j] = s[j] /\ s[j] \in S
  BY <1>1
<1> HIDE DEF longer
<1>3. /\ SubSeq(s, 1, i) \in Seq(S)
      /\ Len(SubSeq(s, 1, i)) = i
      /\ \A j \in 1..i : SubSeq(s, 1, i)[j] = s[j]
  BY <1>2, SubSeqProperties
<1>4. /\ SubSeq(longer, 1, i) \in Seq(S)
      /\ Len(SubSeq(longer, 1, i)) = i
      /\ \A j \in 1..i : SubSeq(longer, 1, i)[j] = longer[j]
  BY <1>2, SubSeqProperties
<1>5. SubSeq(longer, 1, i) = SubSeq(s, 1, i)
  BY <1>2, <1>3, <1>4, SeqEqual
<1> QED BY <1>5 DEF longer

\* A longer sequence begins with the shorter one.
LEMMA SubSeqBeforeAppend ==
    ASSUME NEW S, NEW s \in Seq(S), NEW e \in S
    PROVE  SubSeq(Append(s, e), 1, Len(s)) = s
BY SubSeqOfAppend, SubSeqFull, LenProperties

\* Appending is undone by Front and Last.
LEMMA FrontOfAppend ==
    ASSUME NEW S, NEW s \in Seq(S), NEW e \in S
    PROVE  Front(Append(s, e)) = s /\ Last(Append(s, e)) = e
<1>1. Len(Append(s, e)) = Len(s) + 1 /\ Append(s, e)[Len(s) + 1] = e /\ Len(s) \in Nat
  BY AppendProperties, LenProperties
<1>2. (Len(s) + 1) - 1 = Len(s)
  BY <1>1
<1> QED BY <1>1, <1>2, SubSeqBeforeAppend DEF Front, Last

-----------------------------------------------------------------------------
(* SetNestedField.                                                         *)

\* The results of SetNestedField on the way back to the top, by the depth they are at.
IsSetting(x, names, y, set) ==
    set = [i \in 0..Len(names) |->
              IF i = Len(names) THEN y
              ELSE With(NestedField(x, SubSeq(names, 1, i)), names[i + 1], set[i + 1])]

\* Nothing is made on an empty way.
LEMMA SettingEmpty ==
    ASSUME NEW x, NEW y PROVE IsSetting(x, <<>>, y, [i \in 0..0 |-> y])
<1>1. Len(<<>>) = 0 /\ 0..0 = {0}
  OBVIOUS
<1> QED BY <1>1 DEF IsSetting

\* Setting the field n of a map is setting the map with that field.
LEMMA SettingLonger ==
    ASSUME NEW x, NEW names \in Seq(Names), NEW n \in Names, NEW y, NEW set,
           IsSetting(x, names, With(NestedField(x, names), n, y), set)
    PROVE  IsSetting(x, Append(names, n), y,
                     [i \in 0..(Len(names) + 1) |-> IF i = Len(names) + 1 THEN y ELSE set[i]])
<1> DEFINE k == Len(names)
           longer == Append(names, n)
           g == [i \in 0..(k + 1) |-> IF i = k + 1 THEN y ELSE set[i]]
<1>1. k \in Nat /\ Len(longer) = k + 1 /\ longer[k + 1] = n /\ \A i \in 1..k : longer[i] = names[i]
  BY LenProperties, AppendProperties
<1>2. \A i \in 0..k : SubSeq(longer, 1, i) = SubSeq(names, 1, i)
  BY SubSeqOfAppend
<1>3. SubSeq(longer, 1, k) = names
  BY SubSeqBeforeAppend
<1> HIDE DEF longer
<1>4. ASSUME NEW i \in 0..(k + 1)
      PROVE  g[i] = IF i = k + 1 THEN y
                    ELSE With(NestedField(x, SubSeq(longer, 1, i)), longer[i + 1], g[i + 1])
  <2>1. CASE i = k + 1
    BY <2>1
  <2>2. CASE i = k
    <3>1. g[i] = With(NestedField(x, names), n, y)
      BY <1>1, <2>2 DEF IsSetting
    <3>2. g[i + 1] = y
      BY <1>1, <2>2
    <3> HIDE DEF g
    <3> QED BY <1>1, <1>3, <2>2, <3>1, <3>2
  <2>3. CASE i \in 0..(k - 1)
    <3>1. g[i] = set[i] /\ g[i + 1] = set[i + 1]
      BY <1>1, <2>3
    <3>2. set[i] = With(NestedField(x, SubSeq(names, 1, i)), names[i + 1], set[i + 1])
      BY <1>1, <2>3 DEF IsSetting
    <3>3. SubSeq(longer, 1, i) = SubSeq(names, 1, i) /\ longer[i + 1] = names[i + 1]
      BY <1>1, <1>2, <2>3
    <3>4. i # k + 1
      BY <1>1, <2>3
    <3> HIDE DEF g, k
    <3> QED BY <3>1, <3>2, <3>3, <3>4
  <2> HIDE DEF g
  <2> QED BY <1>1, <2>1, <2>2, <2>3
<1>5. g = [i \in 0..(k + 1) |-> g[i]]
  OBVIOUS
<1> HIDE DEF g, k
<1>6. IsSetting(x, longer, y, g)
  BY <1>1, <1>4, <1>5 DEF IsSetting
<1> QED BY <1>6 DEF g, k, longer

\* The same, read the other way.
LEMMA SettingShorter ==
    ASSUME NEW x, NEW names \in Seq(Names), NEW n \in Names, NEW y, NEW set,
           IsSetting(x, Append(names, n), y, set)
    PROVE  IsSetting(x, names, With(NestedField(x, names), n, y),
                     [i \in 0..Len(names) |-> set[i]])
<1> DEFINE k == Len(names)
           longer == Append(names, n)
           g == [i \in 0..k |-> set[i]]
<1>1. k \in Nat /\ Len(longer) = k + 1 /\ longer[k + 1] = n /\ \A i \in 1..k : longer[i] = names[i]
  BY LenProperties, AppendProperties
<1>2. \A i \in 0..k : SubSeq(longer, 1, i) = SubSeq(names, 1, i)
  BY SubSeqOfAppend
<1>3. SubSeq(longer, 1, k) = names
  BY SubSeqBeforeAppend
<1> HIDE DEF longer
<1>4. ASSUME NEW i \in 0..k
      PROVE  g[i] = IF i = k THEN With(NestedField(x, names), n, y)
                    ELSE With(NestedField(x, SubSeq(names, 1, i)), names[i + 1], g[i + 1])
  <2>1. set[i] = With(NestedField(x, SubSeq(longer, 1, i)), longer[i + 1], set[i + 1])
    BY <1>1 DEF IsSetting, longer
  <2>2. set[k + 1] = y
    BY <1>1 DEF IsSetting, longer
  <2>3. CASE i = k
    BY <1>1, <1>3, <2>1, <2>2, <2>3
  <2>4. CASE i # k
    <3>1. i + 1 \in 0..k /\ i + 1 \in 1..k
      BY <1>1, <2>4
    <3>2. g[i + 1] = set[i + 1] /\ g[i] = set[i] /\ longer[i + 1] = names[i + 1]
      BY <1>1, <3>1
    <3> HIDE DEF g
    <3> QED BY <1>1, <1>2, <2>1, <2>4, <3>2
  <2> QED BY <2>3, <2>4
<1>5. g = [i \in 0..k |-> g[i]]
  OBVIOUS
<1> HIDE DEF g
<1>6. IsSetting(x, names, With(NestedField(x, names), n, y), g)
  BY <1>1, <1>4, <1>5 DEF IsSetting
<1> QED BY <1>6 DEF g

\* The results on the way exist, by induction on the way.
LEMMA SettingExists ==
    ASSUME NEW x, NEW names \in Seq(Names), NEW y
    PROVE  \E set : IsSetting(x, names, y, set)
<1> DEFINE T == {m \in Seq(Names) : \A z : \E set : IsSetting(x, m, z, set)}
<1>1. <<>> \in T
  <2>1. ASSUME NEW z PROVE \E set : IsSetting(x, <<>>, z, set)
    BY SettingEmpty
  <2> QED BY <2>1
<1>2. ASSUME NEW m \in Seq(Names), NEW n \in Names, m \in T
      PROVE  Append(m, n) \in T
  <2>1. ASSUME NEW z
        PROVE  \E set : IsSetting(x, Append(m, n), z, set)
    <3>1. PICK set : IsSetting(x, m, With(NestedField(x, m), n, z), set)
      BY <1>2
    <3> QED BY <3>1, SettingLonger
  <2> QED BY <2>1
<1> HIDE DEF T
<1>3. names \in T
  BY <1>1, <1>2, SequenceInduction
<1> QED BY <1>3 DEF T

\* There is one result at the top, by induction on the way.
LEMMA SettingUnique ==
    ASSUME NEW x, NEW names \in Seq(Names), NEW y, NEW a, NEW b,
           IsSetting(x, names, y, a), IsSetting(x, names, y, b)
    PROVE  a[0] = b[0]
<1> DEFINE T == {m \in Seq(Names) : \A z, f, g :
                    IsSetting(x, m, z, f) /\ IsSetting(x, m, z, g) => f[0] = g[0]}
<1>1. <<>> \in T
  BY DEF IsSetting
<1>2. ASSUME NEW m \in Seq(Names), NEW n \in Names, m \in T
      PROVE  Append(m, n) \in T
  <2>1. ASSUME NEW z, NEW f, NEW g, IsSetting(x, Append(m, n), z, f),
               IsSetting(x, Append(m, n), z, g)
        PROVE  f[0] = g[0]
    <3> DEFINE ff == [i \in 0..Len(m) |-> f[i]]
               gg == [i \in 0..Len(m) |-> g[i]]
    <3>1. /\ IsSetting(x, m, With(NestedField(x, m), n, z), ff)
          /\ IsSetting(x, m, With(NestedField(x, m), n, z), gg)
      BY <2>1, SettingShorter
    <3>2. ff[0] = f[0] /\ gg[0] = g[0]
      BY LenProperties
    <3> HIDE DEF ff, gg
    <3>3. ff[0] = gg[0]
      BY <1>2, <3>1
    <3> QED BY <3>2, <3>3
  <2> QED BY <2>1
<1> HIDE DEF T
<1>3. names \in T
  BY <1>1, <1>2, SequenceInduction
<1> QED BY <1>3 DEF T

\* SetNestedField is the result at the top.
LEMMA SetIsASetting ==
    ASSUME NEW x, NEW names \in Seq(Names), NEW y
    PROVE  \E set : IsSetting(x, names, y, set) /\ SetNestedField(x, names, y) = set[0]
<1> DEFINE set == CHOOSE set : set = [i \in 0..Len(names) |->
              IF i = Len(names) THEN y
              ELSE With(NestedField(x, SubSeq(names, 1, i)), names[i + 1], set[i + 1])]
<1>1. IsSetting(x, names, y, set)
  BY SettingExists DEF IsSetting
<1>2. SetNestedField(x, names, y) = set[0]
  BY DEF SetNestedField
<1> HIDE DEF set
<1> QED BY <1>1, <1>2

\* Setting the document itself.
LEMMA SetEmpty ==
    ASSUME NEW x, NEW y PROVE SetNestedField(x, <<>>, y) = y
<1>1. <<>> \in Seq(Names)
  OBVIOUS
<1>2. PICK set : IsSetting(x, <<>>, y, set) /\ SetNestedField(x, <<>>, y) = set[0]
  BY <1>1, SetIsASetting
<1> QED BY <1>2 DEF IsSetting

\* Setting a field is setting the map it is in.
LEMMA SetAppend ==
    ASSUME NEW x, NEW names \in Seq(Names), NEW n \in Names, NEW y
    PROVE  SetNestedField(x, Append(names, n), y) =
              SetNestedField(x, names, With(NestedField(x, names), n, y))
<1> DEFINE z == With(NestedField(x, names), n, y)
<1>0. Append(names, n) \in Seq(Names)
  OBVIOUS
<1>1. PICK f : IsSetting(x, Append(names, n), y, f)
               /\ SetNestedField(x, Append(names, n), y) = f[0]
  BY <1>0, SetIsASetting
<1> HIDE DEF z
<1>2. PICK g : IsSetting(x, names, z, g) /\ SetNestedField(x, names, z) = g[0]
  BY SetIsASetting
<1> DEFINE ff == [i \in 0..Len(names) |-> f[i]]
<1>3. IsSetting(x, names, z, ff)
  BY <1>1, SettingShorter DEF z
<1>4. ff[0] = f[0]
  BY LenProperties
<1> HIDE DEF ff
<1>5. ff[0] = g[0]
  BY <1>2, <1>3, SettingUnique
<1> QED BY <1>1, <1>2, <1>4, <1>5 DEF z

\* Setting a nested field is setting a field of it.
LEMMA SetConcat ==
    ASSUME NEW x, NEW p \in Seq(Names), NEW q \in Seq(Names), NEW y
    PROVE  SetNestedField(x, p \o q, y) =
              SetNestedField(x, p, SetNestedField(NestedField(x, p), q, y))
<1> DEFINE T == {r \in Seq(Names) : \A z :
                    SetNestedField(x, p \o r, z) =
                        SetNestedField(x, p, SetNestedField(NestedField(x, p), r, z))}
<1>1. <<>> \in T
  BY ConcatEmptySeq, SetEmpty
<1>2. ASSUME NEW t \in Seq(Names), NEW n \in Names, t \in T
      PROVE  Append(t, n) \in T
  <2>1. p \o t \in Seq(Names) /\ Append(t, n) \in Seq(Names)
    BY ConcatProperties
  <2>2. p \o Append(t, n) = Append(p \o t, n)
    <3>1. <<n>> \in Seq(Names)
      OBVIOUS
    <3>2. (p \o t) \o <<n>> = p \o (t \o <<n>>)
      BY <3>1, ConcatAssociative
    <3> QED BY <2>1, <3>2, AppendIsConcat
  <2>3. ASSUME NEW z
        PROVE  SetNestedField(x, p \o Append(t, n), z) =
                  SetNestedField(x, p, SetNestedField(NestedField(x, p), Append(t, n), z))
    <3> DEFINE w == With(NestedField(x, p \o t), n, z)
               w2 == With(NestedField(NestedField(x, p), t), n, z)
    <3>1. w = w2
      BY NestedFieldConcat
    <3>2. SetNestedField(x, Append(p \o t, n), z) = SetNestedField(x, p \o t, w)
      BY <2>1, SetAppend
    <3>3. SetNestedField(NestedField(x, p), Append(t, n), z) =
              SetNestedField(NestedField(x, p), t, w2)
      BY SetAppend
    <3> HIDE DEF w, w2
    <3>4. SetNestedField(x, p \o t, w) =
              SetNestedField(x, p, SetNestedField(NestedField(x, p), t, w))
      BY <1>2
    <3> QED BY <2>2, <3>1, <3>2, <3>3, <3>4
  <2> QED BY <2>1, <2>3
<1> HIDE DEF T
<1>3. q \in T
  BY <1>1, <1>2, SequenceInduction
<1> QED BY <1>3 DEF T

\* A map with a field has that field, and its others as before.
LEMMA FieldOfWith ==
    ASSUME NEW x, NEW n, NEW y, NEW m
    PROVE  /\ IsMap(With(x, n, y))
           /\ Keys(With(x, n, y)) = Keys(x) \cup {n}
           /\ FieldOf(With(x, n, y), m) = IF m = n THEN y ELSE FieldOf(x, m)
BY DEF IsMap, With, Map, Keys, FieldOf

\* A map without a field has its others as before.
LEMMA FieldOfWithout ==
    ASSUME NEW x, NEW n, NEW m
    PROVE  /\ IsMap(Without(x, n))
           /\ Keys(Without(x, n)) = Keys(x) \ {n}
           /\ FieldOf(Without(x, n), m) = IF m = n THEN None ELSE FieldOf(x, m)
BY DEF IsMap, Without, Map, Keys, FieldOf

\* What was set is there.
LEMMA SetThere ==
    ASSUME NEW x, NEW names \in Seq(Names), NEW y
    PROVE  NestedField(SetNestedField(x, names, y), names) = y
<1> DEFINE T == {r \in Seq(Names) : \A z : NestedField(SetNestedField(x, r, z), r) = z}
<1>1. <<>> \in T
  BY SetEmpty, NestedFieldEmpty
<1>2. ASSUME NEW t \in Seq(Names), NEW n \in Names, t \in T
      PROVE  Append(t, n) \in T
  <2>1. ASSUME NEW z
        PROVE  NestedField(SetNestedField(x, Append(t, n), z), Append(t, n)) = z
    <3> DEFINE w == With(NestedField(x, t), n, z)
    <3>1. SetNestedField(x, Append(t, n), z) = SetNestedField(x, t, w)
      BY SetAppend
    <3>2. FieldOf(w, n) = z
      BY FieldOfWith
    <3> HIDE DEF w
    <3>3. NestedField(SetNestedField(x, t, w), t) = w
      BY <1>2
    <3> QED BY <3>1, <3>2, <3>3, NestedFieldAppend
  <2>2. Append(t, n) \in Seq(Names)
    OBVIOUS
  <2> QED BY <2>1, <2>2
<1> HIDE DEF T
<1>3. names \in T
  BY <1>1, <1>2, SequenceInduction
<1> QED BY <1>3 DEF T

\* On the way there is a map, with one key set.
LEMMA SetOnTheWay ==
    ASSUME NEW x, NEW p \in Seq(Names), NEW n \in Names, NEW q \in Seq(Names), NEW y
    PROVE  NestedField(SetNestedField(x, Append(p, n) \o q, y), p) =
              With(NestedField(x, p), n,
                   SetNestedField(NestedField(x, Append(p, n)), q, y))
<1> DEFINE pn == Append(p, n)
           z == SetNestedField(NestedField(x, pn), q, y)
<1>1. pn \in Seq(Names)
  OBVIOUS
<1>3. SetNestedField(x, pn, z) = SetNestedField(x, p, With(NestedField(x, p), n, z))
  <2> HIDE DEF z
  <2> QED BY SetAppend
<1> HIDE DEF pn
<1>2. SetNestedField(x, pn \o q, y) = SetNestedField(x, pn, z)
  BY <1>1, SetConcat
<1> HIDE DEF z
<1>4. NestedField(SetNestedField(x, p, With(NestedField(x, p), n, z)), p) =
          With(NestedField(x, p), n, z)
  BY SetThere
<1> QED BY <1>2, <1>3, <1>4 DEF z, pn

\* Where the ways part nothing changes.
LEMMA SetElsewhere ==
    ASSUME NEW x, NEW p \in Seq(Names), NEW n \in Names, NEW q \in Seq(Names), NEW y,
           NEW m \in Names, m # n, NEW r \in Seq(Names)
    PROVE  NestedField(SetNestedField(x, Append(p, n) \o q, y), Append(p, m) \o r) =
              NestedField(x, Append(p, m) \o r)
<1> DEFINE w == SetNestedField(x, Append(p, n) \o q, y)
           z == SetNestedField(NestedField(x, Append(p, n)), q, y)
<1>1. NestedField(w, p) = With(NestedField(x, p), n, z)
  BY SetOnTheWay
<1> HIDE DEF w, z
<1>2. NestedField(w, Append(p, m)) = NestedField(x, Append(p, m))
  BY <1>1, NestedFieldAppend, FieldOfWith
<1> DEFINE pm == Append(p, m)
<1>3. pm \in Seq(Names)
  OBVIOUS
<1>4. NestedField(w, pm) = NestedField(x, pm)
  BY <1>2
<1> HIDE DEF pm
<1>5. NestedField(w, pm \o r) = NestedField(x, pm \o r)
  BY <1>3, <1>4, NestedFieldConcat
<1> QED BY <1>5 DEF w, pm

-----------------------------------------------------------------------------
(* Places.                                                                 *)

\* The places one step further.
Longer(x, before) ==
    UNION {LET y == At(x, place)
           IN  {Append(place, FieldName(n)) : n \in Keys(y) \cap Names}
                 \cup {Append(place, Index(j)) : j \in DOMAIN Items(y) \cap Nat} :
             place \in before}

\* The place that everything starts from.
Top == {<<>>}

\* The places of a document by their length.
IsLevels(x, n, places) ==
    places = [i \in 0..n |-> IF i = 0 THEN Top ELSE Longer(x, places[i - 1])]

\* Documents have places of any length up to n.
LEMMA LevelsExist ==
    ASSUME NEW x, NEW n \in Nat
    PROVE  \E places : IsLevels(x, n, places)
<1> DEFINE S == {m \in Nat : \E places : IsLevels(x, m, places)}
<1>1. 0 \in S
  <2> DEFINE f == [i \in 0..0 |-> Top]
  <2>1. IsLevels(x, 0, f)
    BY DEF IsLevels
  <2> QED BY <2>1
<1>2. ASSUME NEW m \in Nat, m \in S
      PROVE  m + 1 \in S
  <2>1. PICK f : IsLevels(x, m, f)
    BY <1>2
  <2> DEFINE g == [i \in 0..(m + 1) |-> IF i = m + 1 THEN Longer(x, f[m]) ELSE f[i]]
  <2>2. IsLevels(x, m + 1, g)
    BY <2>1 DEF IsLevels
  <2>3. \E places : IsLevels(x, m + 1, places)
    <3> HIDE DEF g
    <3> QED BY <2>2
  <2> QED BY <2>3
<1> HIDE DEF S
<1>3. Nat \subseteq S
  BY <1>1, <1>2, NumberInduction
<1> QED BY <1>3 DEF S

\* Places are those of all lengths.
LEMMA PlacesAreLevels ==
    ASSUME NEW x
    PROVE  \E places : /\ IsLevels(x, MaxDepth, places)
                       /\ Places(x) = UNION {places[i] : i \in 0..MaxDepth}
<1> DEFINE places == CHOOSE places : places = [i \in 0..MaxDepth |->
            IF i = 0 THEN {<<>>}
            ELSE UNION {LET y == At(x, place)
                        IN  {Append(place, FieldName(n)) : n \in Keys(y) \cap Names}
                              \cup {Append(place, Index(j)) : j \in DOMAIN Items(y) \cap Nat} :
                          place \in places[i - 1]}]
<1>1. IsLevels(x, MaxDepth, places)
  <2>1. \E f : IsLevels(x, MaxDepth, f)
    BY LevelsExist, NamesAssumption DEF NamesAssumption
  <2> QED BY <2>1, Zenon DEF IsLevels, Longer, Top
<1>2. Places(x) = UNION {places[i] : i \in 0..MaxDepth}
  BY DEF Places
<1> HIDE DEF places
<1> QED BY <1>1, <1>2

\* Each level is one step further than the one before.
LEMMA LevelNext ==
    ASSUME NEW x, NEW n \in Nat, NEW places, IsLevels(x, n, places),
           NEW i \in Nat, i + 1 <= n
    PROVE  places[i + 1] = Longer(x, places[i])
BY DEF IsLevels

\* Places are sequences of steps.
LEMMA PlacesAreSteps ==
    ASSUME NEW x
    PROVE  Places(x) \subseteq Seq(Step)
<1>0. MaxDepth \in Nat
  BY NamesAssumption DEF NamesAssumption
<1>1. PICK places : /\ IsLevels(x, MaxDepth, places)
                    /\ Places(x) = UNION {places[i] : i \in 0..MaxDepth}
  BY PlacesAreLevels
<1> DEFINE S == {i \in Nat : i <= MaxDepth => places[i] \subseteq Seq(Step)}
<1>2. 0 \in S
  <2>1. places[0] = {<<>>}
    BY <1>0, <1>1 DEF IsLevels, Top
  <2> QED BY <2>1, EmptySeq
<1>3. ASSUME NEW i \in Nat, i \in S
      PROVE  i + 1 \in S
  <2> SUFFICES ASSUME i + 1 <= MaxDepth, NEW longer \in places[i + 1]
               PROVE  longer \in Seq(Step)
    OBVIOUS
  <2>1. longer \in Longer(x, places[i])
    BY <1>0, <1>1, LevelNext
  <2>2. PICK place \in places[i] :
            \/ \E n \in Keys(At(x, place)) \cap Names : longer = Append(place, FieldName(n))
            \/ \E j \in DOMAIN Items(At(x, place)) \cap Nat : longer = Append(place, Index(j))
    BY <2>1 DEF Longer
  <2>3. place \in Seq(Step)
    BY <1>0, <1>3, <2>2
  <2>4. PICK s \in Step : longer = Append(place, s)
    BY <2>2 DEF Step, FieldName, Index
  <2> QED BY <2>3, <2>4
<1> HIDE DEF S
<1>4. Nat \subseteq S
  BY <1>2, <1>3, NumberInduction
<1> QED BY <1>0, <1>1, <1>4 DEF S

\* Without keys and items there is nowhere to go.
LEMMA StepIntoNothing ==
    ASSUME NEW x, NEW s, Keys(x) = {}, Items(x) = <<>>
    PROVE  StepInto(x, s) = None
<1>1. DOMAIN <<>> = {}
  OBVIOUS
<1> QED BY <1>1 DEF StepInto, FieldOf

\* A value, nil or nothing has neither keys nor items.
LEMMA NothingIn ==
    ASSUME NEW x, x[1] \notin {"map", "list"}
    PROVE  Keys(x) = {} /\ Items(x) = <<>>
BY DEF Keys, Items, IsMap

\* Wherever a document has something is one of its places.
LEMMA ThereIsAPlace ==
    ASSUME NEW x, IsDocument(x), NEW place \in Seq(Step), At(x, place) # None
    PROVE  place \in Places(x)
<1>0. MaxDepth \in Nat
  BY NamesAssumption DEF NamesAssumption
<1>1. PICK places : /\ IsLevels(x, MaxDepth, places)
                    /\ Places(x) = UNION {places[i] : i \in 0..MaxDepth}
  BY PlacesAreLevels
<1> DEFINE T == {p \in Seq(Step) : At(x, p) # None =>
                    Len(p) <= MaxDepth /\ p \in places[Len(p)]}
<1>2. <<>> \in T
  <2>1. places[0] = {<<>>} /\ Len(<<>>) = 0
    BY <1>0, <1>1 DEF IsLevels, Top
  <2> QED BY <1>0, <2>1
<1>3. ASSUME NEW p \in Seq(Step), NEW s \in Step, p \in T
      PROVE  Append(p, s) \in T
  <2> SUFFICES ASSUME At(x, Append(p, s)) # None
               PROVE  /\ Len(Append(p, s)) <= MaxDepth
                      /\ Append(p, s) \in places[Len(Append(p, s))]
    OBVIOUS
  <2> DEFINE y == At(x, p)
  <2>0. Len(p) \in Nat /\ Len(Append(p, s)) = Len(p) + 1
    BY LenProperties, AppendProperties
  <2>1. StepInto(y, s) # None
    BY AtAppend
  <2>2. y # None
    BY <2>1, StepIntoNothing, NothingIn DEF None
  <2>3. Len(p) <= MaxDepth /\ p \in places[Len(p)]
    BY <1>3, <2>2
  <2>4. p \in Places(x)
    BY <1>0, <1>1, <2>0, <2>3
  <2>5. /\ Keys(y) \subseteq Names
        /\ Len(p) = MaxDepth => Keys(y) = {} /\ Items(y) = <<>>
    BY <2>4 DEF IsDocument
  <2>6. Len(p) # MaxDepth
    BY <2>1, <2>5, StepIntoNothing
  <2>7. \/ \E n \in Keys(y) \cap Names : s = FieldName(n)
        \/ \E j \in DOMAIN Items(y) \cap Nat : s = Index(j)
    <3>1. CASE s[1] = "f"
      BY <2>1, <2>5, <3>1 DEF StepInto, FieldOf, Step, FieldName
    <3>2. CASE s[1] # "f"
      BY <2>1, <3>2 DEF StepInto, Step, Index
    <3> QED BY <3>1, <3>2
  <2>8. Append(p, s) \in Longer(x, places[Len(p)])
    BY <2>3, <2>7 DEF Longer
  <2>9. places[Len(p) + 1] = Longer(x, places[Len(p)])
    BY <1>0, <1>1, <2>0, <2>3, <2>6, LevelNext
  <2> QED BY <1>0, <2>0, <2>3, <2>6, <2>8, <2>9
<1> HIDE DEF T
<1>4. place \in T
  BY <1>2, <1>3, SequenceInduction
<1>5. Len(place) \in 0..MaxDepth /\ place \in places[Len(place)]
  BY <1>0, <1>4, LenProperties DEF T
<1> QED BY <1>1, <1>5

\* What a document is like at any place.
LEMMA DocumentAt ==
    ASSUME NEW x, IsDocument(x), NEW place \in Seq(Step)
    PROVE  /\ At(x, place) # Nil
           /\ Keys(At(x, place)) \subseteq Names
           /\ \A n \in Keys(At(x, place)) : FieldOf(At(x, place), n) # None
           /\ IsMap(At(x, place)) =>
                 At(x, place) = Map([n \in Keys(At(x, place)) |-> FieldOf(At(x, place), n)])
           /\ Len(Items(At(x, place))) \in Nat
           /\ DOMAIN Items(At(x, place)) = 1..Len(Items(At(x, place)))
           /\ \A i, j \in DOMAIN Items(At(x, place)) :
                 (i # j /\ "uid" \in Keys(Items(At(x, place))[i]))
                    => FieldOf(Items(At(x, place))[i], "uid") # FieldOf(Items(At(x, place))[j], "uid")
<1> DEFINE y == At(x, place)
<1>1. CASE y = None
  <2>1. Keys(y) = {} /\ Items(y) = <<>> /\ y # Nil /\ ~IsMap(y)
    BY <1>1, NothingIn DEF None, Nil, IsMap
  <2>2. Len(<<>>) = 0 /\ DOMAIN <<>> = {} /\ 1..0 = {}
    OBVIOUS
  <2> QED BY <2>1, <2>2
<1>2. CASE y # None
  <2>1. place \in Places(x)
    BY <1>2, ThereIsAPlace
  <2>2. y # Nil
    BY <2>1 DEF IsDocument, HasNil
  <2> QED BY <2>1, <2>2 DEF IsDocument
<1> QED BY <1>1, <1>2

\* Nothing is nil, whatever place is asked for.
NoNil(x) == \A place \in Seq(Step) : At(x, place) # Nil

\* No place of an object is nil, those that are not its Places included.
LEMMA DocumentNoNil ==
    ASSUME NEW x, IsDocument(x)
    PROVE  NoNil(x)
BY DocumentAt DEF NoNil

\* What is nowhere nil has no nil in its Places.
LEMMA NoNilHasNoNil ==
    ASSUME NEW x, NoNil(x)
    PROVE  ~HasNil(x)
BY PlacesAreSteps DEF NoNil, HasNil

-----------------------------------------------------------------------------
(* Prefixes.                                                               *)

\* A prefix is no longer and is the same as far as it goes.
LEMMA PrefixMeans ==
    ASSUME NEW S, NEW s \in Seq(S), NEW t \in Seq(S)
    PROVE  IsPrefix(s, t) <=> Len(s) <= Len(t) /\ \A i \in 1..Len(s) : s[i] = t[i]
<1>0. Len(s) \in Nat /\ Len(t) \in Nat
  BY LenProperties
<1>1. SubSeq(s, 1, Len(s)) = s
  BY SubSeqFull
<1>2. ASSUME Len(s) <= Len(t)
      PROVE  /\ SubSeq(t, 1, Len(s)) \in Seq(S)
             /\ Len(SubSeq(t, 1, Len(s))) = Len(s)
             /\ \A i \in 1..Len(s) : SubSeq(t, 1, Len(s))[i] = t[i]
  <2>1. \A i \in 1..Len(s) : t[i] \in S
    BY <1>0, <1>2, ElementOfSeq
  <2> QED BY <1>0, <2>1, SubSeqProperties
<1>3. ASSUME Len(s) <= Len(t), \A i \in 1..Len(s) : s[i] = t[i]
      PROVE  s = SubSeq(t, 1, Len(s))
  BY <1>2, <1>3, SeqEqual
<1> QED BY <1>1, <1>2, <1>3 DEF IsPrefix

\* A sequence begins with itself and with nothing.
LEMMA PrefixOfItself ==
    ASSUME NEW S, NEW s \in Seq(S)
    PROVE  IsPrefix(s, s) /\ IsPrefix(<<>>, s)
<1>1. <<>> \in Seq(S) /\ Len(<<>>) = 0 /\ Len(s) \in Nat /\ 1..0 = {}
  BY EmptySeq, LenProperties
<1>2. Len(<<>>) <= Len(s) /\ \A i \in 1..Len(<<>>) : <<>>[i] = s[i]
  BY <1>1
<1>3. IsPrefix(<<>>, s)
  BY <1>1, <1>2, PrefixMeans
<1>4. Len(s) <= Len(s) /\ \A i \in 1..Len(s) : s[i] = s[i]
  BY <1>1
<1>5. IsPrefix(s, s)
  BY <1>4, PrefixMeans
<1> QED BY <1>3, <1>5

\* A prefix of a prefix is a prefix.
LEMMA PrefixTransitive ==
    ASSUME NEW S, NEW s \in Seq(S), NEW t \in Seq(S), NEW u \in Seq(S),
           IsPrefix(s, t), IsPrefix(t, u)
    PROVE  IsPrefix(s, u)
<1>1. Len(s) \in Nat /\ Len(t) \in Nat /\ Len(u) \in Nat
  BY LenProperties
<1>2. Len(s) <= Len(t) /\ \A i \in 1..Len(s) : s[i] = t[i]
  BY PrefixMeans
<1>3. Len(t) <= Len(u) /\ \A i \in 1..Len(t) : t[i] = u[i]
  BY PrefixMeans
<1>4. Len(s) <= Len(u) /\ \A i \in 1..Len(s) : s[i] = u[i]
  BY <1>1, <1>2, <1>3
<1> QED BY <1>4, PrefixMeans

\* A strict prefix leaves an element to come.
LEMMA StrictPrefixShorter ==
    ASSUME NEW S, NEW s \in Seq(S), NEW t \in Seq(S), IsStrictPrefix(s, t)
    PROVE  Len(s) + 1 \in 1..Len(t) /\ t[Len(s) + 1] \in S
<1>1. Len(s) \in Nat /\ Len(t) \in Nat
  BY LenProperties
<1>2. IsPrefix(s, t) /\ s # t
  BY DEF IsStrictPrefix
<1>3. Len(s) <= Len(t) /\ \A i \in 1..Len(s) : s[i] = t[i]
  BY <1>2, PrefixMeans
<1>4. Len(s) # Len(t)
  BY <1>2, <1>3, SeqEqual
<1>5. Len(s) + 1 \in 1..Len(t)
  BY <1>1, <1>3, <1>4
<1> QED BY <1>5, ElementOfSeq

\* A prefix that is shorter is strict.
LEMMA ShorterIsStrict ==
    ASSUME NEW S, NEW s \in Seq(S), NEW t \in Seq(S), IsPrefix(s, t), Len(s) < Len(t)
    PROVE  IsStrictPrefix(s, t)
BY LenProperties DEF IsStrictPrefix

\* A longer prefix names the element to come.
LEMMA AppendIsPrefix ==
    ASSUME NEW S, NEW s \in Seq(S), NEW e \in S, NEW t \in Seq(S)
    PROVE  IsPrefix(Append(s, e), t) <=> IsStrictPrefix(s, t) /\ t[Len(s) + 1] = e
<1> DEFINE longer == Append(s, e)
<1>1. Len(s) \in Nat /\ Len(t) \in Nat
  BY LenProperties
<1>2. /\ longer \in Seq(S)
      /\ Len(longer) = Len(s) + 1
      /\ \A i \in 1..Len(s) : longer[i] = s[i]
      /\ longer[Len(s) + 1] = e
  BY AppendProperties
<1> HIDE DEF longer
<1>3. ASSUME IsPrefix(longer, t)
      PROVE  IsStrictPrefix(s, t) /\ t[Len(s) + 1] = e
  <2>1. Len(s) + 1 <= Len(t) /\ \A i \in 1..(Len(s) + 1) : longer[i] = t[i]
    BY <1>2, <1>3, PrefixMeans
  <2>2. Len(s) <= Len(t) /\ Len(s) < Len(t)
    BY <1>1, <2>1
  <2>3. \A i \in 1..Len(s) : s[i] = t[i]
    BY <1>1, <1>2, <2>1
  <2>4. t[Len(s) + 1] = e
    BY <1>1, <1>2, <2>1
  <2>5. IsPrefix(s, t)
    BY <2>2, <2>3, PrefixMeans
  <2> QED BY <2>2, <2>4, <2>5, ShorterIsStrict
<1>4. ASSUME IsStrictPrefix(s, t), t[Len(s) + 1] = e
      PROVE  IsPrefix(longer, t)
  <2>1. Len(s) + 1 \in 1..Len(t)
    BY <1>4, StrictPrefixShorter
  <2>2. IsPrefix(s, t)
    BY <1>4 DEF IsStrictPrefix
  <2>3. \A i \in 1..Len(s) : s[i] = t[i]
    BY <2>2, PrefixMeans
  <2>4. \A i \in 1..(Len(s) + 1) : longer[i] = t[i]
    BY <1>1, <1>2, <1>4, <2>3
  <2>5. Len(s) + 1 <= Len(t)
    BY <1>1, <2>1
  <2> QED BY <1>2, <2>4, <2>5, PrefixMeans
<1>5. IsPrefix(longer, t) <=> IsStrictPrefix(s, t) /\ t[Len(s) + 1] = e
  BY <1>3, <1>4
<1> QED BY <1>5 DEF longer

\* A prefix of a longer sequence is all of it or one of the shorter.
LEMMA PrefixOfAppend ==
    ASSUME NEW S, NEW s \in Seq(S), NEW e \in S, NEW r \in Seq(S)
    PROVE  IsPrefix(r, Append(s, e)) <=> r = Append(s, e) \/ IsPrefix(r, s)
<1> DEFINE longer == Append(s, e)
<1>1. Len(s) \in Nat /\ Len(r) \in Nat
  BY LenProperties
<1>2. /\ longer \in Seq(S)
      /\ Len(longer) = Len(s) + 1
      /\ \A i \in 1..Len(s) : longer[i] = s[i]
  BY AppendProperties
<1> HIDE DEF longer
<1>3. ASSUME IsPrefix(r, longer), r # longer
      PROVE  IsPrefix(r, s)
  <2>1. Len(r) <= Len(s) + 1 /\ \A i \in 1..Len(r) : r[i] = longer[i]
    BY <1>2, <1>3, PrefixMeans
  <2>2. Len(r) # Len(s) + 1
    BY <1>2, <1>3, <2>1, SeqEqual
  <2>3. Len(r) <= Len(s)
    BY <1>1, <2>1, <2>2
  <2>4. \A i \in 1..Len(r) : r[i] = s[i]
    BY <1>1, <1>2, <2>1, <2>3
  <2> QED BY <2>3, <2>4, PrefixMeans
<1>4. ASSUME IsPrefix(r, s)
      PROVE  IsPrefix(r, longer)
  <2>1. Len(r) <= Len(s) /\ \A i \in 1..Len(r) : r[i] = s[i]
    BY <1>4, PrefixMeans
  <2>2. Len(r) <= Len(s) + 1 /\ \A i \in 1..Len(r) : r[i] = longer[i]
    BY <1>1, <1>2, <2>1
  <2> QED BY <1>2, <2>2, PrefixMeans
<1>5. IsPrefix(longer, longer)
  BY <1>2, PrefixOfItself
<1>6. IsPrefix(r, longer) <=> r = longer \/ IsPrefix(r, s)
  BY <1>3, <1>4, <1>5
<1> QED BY <1>6 DEF longer

\* A set of sequences: what follows a sequence in it.
LEMMA MembersAre ==
    ASSUME NEW S, NEW paths, paths \subseteq Seq(S), NEW path \in Seq(S), NEW e \in S
    PROVE  e \in Members(paths, path) <=> Append(path, e) \in paths
<1> DEFINE longer == Append(path, e)
           k == Len(path)
<1>1. /\ longer \in Seq(S)
      /\ Len(longer) = k + 1
      /\ longer[k + 1] = e
      /\ k \in Nat
  BY AppendProperties, LenProperties
<1>2. SubSeq(longer, 1, k) = path
  BY SubSeqBeforeAppend
<1>3. ASSUME longer \in paths
      PROVE  e \in Members(paths, path)
  <2> HIDE DEF longer
  <2> QED BY <1>1, <1>2, <1>3 DEF Members
<1>4. ASSUME e \in Members(paths, path)
      PROVE  longer \in paths
  <2>1. PICK q \in paths : Len(q) = k + 1 /\ SubSeq(q, 1, k) = path /\ q[k + 1] = e
    BY <1>4 DEF Members
  <2>2. \A i \in 1..k : q[i] \in S
    BY <1>1, <2>1, ElementOfSeq
  <2>3. \A i \in 1..k : SubSeq(q, 1, k)[i] = q[i]
    BY <1>1, <2>2, SubSeqProperties
  <2>4. \A i \in 1..k : longer[i] = path[i]
    BY AppendProperties
  <2>5. \A i \in 1..(k + 1) : longer[i] = q[i]
    BY <1>1, <2>1, <2>3, <2>4
  <2> HIDE DEF longer, k
  <2>6. longer = q
    BY <1>1, <2>1, <2>5, SeqEqual
  <2> QED BY <2>1, <2>6
<1> QED BY <1>3, <1>4

\* Children are the elements that lead on to a path.
LEMMA ChildrenAre ==
    ASSUME NEW S, NEW paths, paths \subseteq Seq(S), NEW path \in Seq(S), NEW e \in S
    PROVE  e \in Children(paths, path) <=>
              \E q \in paths : IsStrictPrefix(Append(path, e), q)
<1> DEFINE longer == Append(path, e)
           k == Len(path)
<1>1. /\ longer \in Seq(S)
      /\ Len(longer) = k + 1
      /\ k \in Nat
  BY AppendProperties, LenProperties
<1> HIDE DEF longer
<1>2. ASSUME NEW q \in paths
      PROVE  IsStrictPrefix(longer, q)
               <=> Len(q) > k + 1 /\ SubSeq(q, 1, k) = path /\ q[k + 1] = e
  <2>1. Len(q) \in Nat /\ q \in Seq(S)
    BY LenProperties
  <2>2. IsPrefix(longer, q) <=> IsStrictPrefix(path, q) /\ q[k + 1] = e
    BY <2>1, AppendIsPrefix DEF longer
  <2>3. SubSeq(path, 1, k) = path
    BY SubSeqFull
  <2>4. IsPrefix(path, q) <=> k <= Len(q) /\ SubSeq(q, 1, k) = path
    BY <2>3 DEF IsPrefix
  <2>5. IsStrictPrefix(longer, q) <=> IsPrefix(longer, q) /\ Len(q) > k + 1
    BY <1>1, <2>1, StrictPrefixShorter, ShorterIsStrict DEF IsStrictPrefix
  <2>6. IsStrictPrefix(path, q) <=> IsPrefix(path, q) /\ Len(q) > k
    BY <1>1, <2>1, StrictPrefixShorter, ShorterIsStrict DEF IsStrictPrefix
  <2> HIDE DEF k
  <2> QED BY <1>1, <2>1, <2>2, <2>4, <2>5, <2>6
<1>3. e \in Children(paths, path)
        <=> \E q \in paths : Len(q) > k + 1 /\ SubSeq(q, 1, k) = path /\ q[k + 1] = e
  BY DEF Children
<1> HIDE DEF k
<1> QED BY <1>2, <1>3 DEF longer

\* Members and children are elements of paths.
LEMMA MembersAreElements ==
    ASSUME NEW S, NEW paths, paths \subseteq Seq(S), NEW path \in Seq(S)
    PROVE  Members(paths, path) \subseteq S /\ Children(paths, path) \subseteq S
<1>1. ASSUME NEW q \in paths, Len(q) >= Len(path) + 1
      PROVE  q[Len(path) + 1] \in S
  <2>1. Len(path) + 1 \in 1..Len(q)
    BY <1>1, LenProperties
  <2> QED BY <2>1, ElementOfSeq
<1>2. Len(path) \in Nat /\ \A q \in paths : Len(q) \in Nat
  BY LenProperties
<1> QED BY <1>1, <1>2 DEF Members, Children

-----------------------------------------------------------------------------
(* InOrder.                                                                *)

\* The order of the iterators.
Before(p, q) == p[1] < q[1] \/ (p[1] = q[1] /\ p[2] < q[2])

\* In that order, and without repetition.
Increasing(s) == \A i, j \in DOMAIN s : i < j => Before(s[i], s[j])

\* Finitely many pairs have a last one.
LEMMA LastPair ==
    ASSUME NEW pairs, pairs \subseteq Nat \X Nat, IsFiniteSet(pairs), pairs # {}
    PROVE  \E m \in pairs : \A p \in pairs : p = m \/ Before(p, m)
<1> DEFINE HasLast(S) == \E m \in S : \A p \in S : p = m \/ Before(p, m)
           T == {n \in Nat : \A S : S \subseteq Nat \X Nat /\ IsFiniteSet(S)
                                /\ Cardinality(S) = n + 1 => HasLast(S)}
<1>1. 0 \in T
  <2> SUFFICES ASSUME NEW S, IsFiniteSet(S), Cardinality(S) = 1 PROVE HasLast(S)
    OBVIOUS
  <2>1. PICK m : S = {m}
    BY FS_Singleton
  <2> QED BY <2>1
<1>2. ASSUME NEW n \in Nat, n \in T
      PROVE  n + 1 \in T
  <2> SUFFICES ASSUME NEW S, S \subseteq Nat \X Nat, IsFiniteSet(S),
                      Cardinality(S) = (n + 1) + 1
               PROVE  HasLast(S)
    OBVIOUS
  <2>1. PICK a \in S : TRUE
    BY FS_EmptySet
  <2>2. IsFiniteSet(S \ {a}) /\ Cardinality(S \ {a}) = n + 1
    BY <2>1, FS_RemoveElement
  <2>3. S \ {a} \subseteq Nat \X Nat
    OBVIOUS
  <2>4. HasLast(S \ {a})
    BY <1>2, <2>2, <2>3
  <2>5. PICK m \in S \ {a} : \A p \in S \ {a} : p = m \/ Before(p, m)
    BY <2>4
  <2>6. a \in Nat \X Nat /\ m \in Nat \X Nat /\ a # m
    BY <2>1, <2>5
  <2>7. CASE Before(a, m)
    BY <2>5, <2>7
  <2>8. CASE ~Before(a, m)
    <3>1. Before(m, a)
      BY <2>6, <2>8 DEF Before
    <3>2. ASSUME NEW p \in S, p # a PROVE Before(p, a)
      <4>1. p = m \/ Before(p, m)
        BY <2>5, <3>2
      <4>2. p \in Nat \X Nat
        OBVIOUS
      <4> QED BY <2>6, <3>1, <4>1, <4>2 DEF Before
    <3> QED BY <2>1, <3>2
  <2> QED BY <2>7, <2>8
<1> HIDE DEF T
<1>3. Nat \subseteq T
  BY <1>1, <1>2, NumberInduction
<1>4. Cardinality(pairs) \in Nat /\ Cardinality(pairs) # 0
  BY FS_CardinalityType, FS_EmptySet
<1>5. Cardinality(pairs) - 1 \in Nat /\ Cardinality(pairs) = (Cardinality(pairs) - 1) + 1
  BY <1>4
<1>6. Cardinality(pairs) - 1 \in T
  BY <1>3, <1>5
<1> QED BY <1>5, <1>6 DEF T

\* Finitely many pairs can be put in order, by induction on how many.
LEMMA OrderExists ==
    ASSUME NEW pairs, pairs \subseteq Nat \X Nat, IsFiniteSet(pairs)
    PROVE  \E s \in [1..Cardinality(pairs) -> pairs] : Increasing(s)
<1> DEFINE HasOrder(S, n) == \E s \in [1..n -> S] : Increasing(s)
           T == {n \in Nat : \A S : S \subseteq Nat \X Nat /\ IsFiniteSet(S)
                                /\ Cardinality(S) = n => HasOrder(S, n)}
<1>1. 0 \in T
  <2> SUFFICES ASSUME NEW S PROVE HasOrder(S, 0)
    OBVIOUS
  <2> DEFINE e == [i \in 1..0 |-> 0]
  <2>1. e \in [1..0 -> S] /\ Increasing(e)
    BY DEF Increasing
  <2> QED BY <2>1
<1>2. ASSUME NEW n \in Nat, n \in T
      PROVE  n + 1 \in T
  <2> SUFFICES ASSUME NEW S, S \subseteq Nat \X Nat, IsFiniteSet(S), Cardinality(S) = n + 1
               PROVE  HasOrder(S, n + 1)
    OBVIOUS
  <2>0. S # {}
    BY FS_EmptySet
  <2>1. PICK m \in S : \A p \in S : p = m \/ Before(p, m)
    BY <2>0, LastPair
  <2>2. IsFiniteSet(S \ {m}) /\ Cardinality(S \ {m}) = n
    <3>1. IsFiniteSet(S \ {m}) /\ Cardinality(S \ {m}) = Cardinality(S) - 1
      BY <2>1, FS_RemoveElement
    <3>2. (n + 1) - 1 = n
      OBVIOUS
    <3> QED BY <3>1, <3>2
  <2>3. S \ {m} \subseteq Nat \X Nat
    OBVIOUS
  <2>4. PICK s \in [1..n -> S \ {m}] : Increasing(s)
    BY <1>2, <2>2, <2>3
  <2> DEFINE t == [i \in 1..(n + 1) |-> IF i = n + 1 THEN m ELSE s[i]]
  <2>5. t \in [1..(n + 1) -> S]
    OBVIOUS
  <2>6. Increasing(t)
    <3> SUFFICES ASSUME NEW i \in 1..(n + 1), NEW j \in 1..(n + 1), i < j
                 PROVE  Before(t[i], t[j])
      BY DEF Increasing
    <3>1. i \in 1..n /\ t[i] = s[i] /\ s[i] \in S \ {m}
      OBVIOUS
    <3>2. CASE j = n + 1
      <4>1. t[j] = m
        BY <3>2
      <4> HIDE DEF t
      <4> QED BY <2>1, <3>1, <4>1
    <3>3. CASE j # n + 1
      <4>1. j \in 1..n /\ t[j] = s[j]
        BY <3>3
      <4>2. Before(s[i], s[j])
        BY <2>4, <3>1, <4>1 DEF Increasing
      <4> QED BY <3>1, <4>1, <4>2
    <3> QED BY <3>2, <3>3
  <2> HIDE DEF t
  <2> QED BY <2>5, <2>6
<1> HIDE DEF T
<1>3. Nat \subseteq T
  BY <1>1, <1>2, NumberInduction
<1>4. Cardinality(pairs) \in T
  BY <1>3, FS_CardinalityType
<1> QED BY <1>4 DEF T

\* InOrder has every pair once, in the order of the iterators.
LEMMA InOrderIs ==
    ASSUME NEW pairs, pairs \subseteq Nat \X Nat, IsFiniteSet(pairs)
    PROVE  /\ Cardinality(pairs) \in Nat
           /\ InOrder(pairs) \in [1..Cardinality(pairs) -> pairs]
           /\ Increasing(InOrder(pairs))
           /\ \A p \in pairs : \E i \in 1..Cardinality(pairs) : InOrder(pairs)[i] = p
<1> DEFINE n == Cardinality(pairs)
           s == InOrder(pairs)
<1>1. n \in Nat
  BY FS_CardinalityType
<1>2. \E t \in [1..n -> pairs] : Increasing(t)
  BY OrderExists
<1>3. s \in [1..n -> pairs] /\ Increasing(s)
  BY <1>2 DEF InOrder, Increasing, Before
<1>4. s \in Injection(1..n, pairs)
  <2> HIDE DEF s, n
  <2>1. ASSUME NEW i \in 1..n, NEW j \in 1..n, i < j
        PROVE  s[i] # s[j]
    <3>1. Before(s[i], s[j])
      BY <1>3, <2>1 DEF Increasing
    <3>2. s[i] \in Nat \X Nat
      BY <1>3
    <3> QED BY <3>1, <3>2 DEF Before
  <2>2. \A i, j \in 1..n : s[i] = s[j] => i = j
    BY <1>1, <2>1
  <2> QED BY <1>3, <2>2 DEF Injection, IsInjective
<1>5. IsFiniteSet(1..n) /\ Cardinality(1..n) = n
  BY <1>1, FS_Interval
<1>6. s \in Surjection(1..n, pairs)
  BY <1>4, <1>5, FS_Injection
<1> QED BY <1>1, <1>3, <1>6 DEF Surjection

-----------------------------------------------------------------------------
(* The calls of extractDepthFirst.                                         *)

\* What extractDepthFirst is given: a document and finitely many paths that end.
Extractable(src, paths) ==
    /\ IsDocument(src)
    /\ paths \subseteq Seq(Element)
    /\ IsFiniteSet(paths)
    /\ \A p \in paths : Len(p) \in 1..MaxDepth

\* A function has finitely many values on a finite set.
LEMMA ImageFinite ==
    ASSUME NEW S, IsFiniteSet(S), NEW f
    PROVE  IsFiniteSet({f[x] : x \in S})
<1> DEFINE T == {f[x] : x \in S}
           g == [x \in S |-> f[x]]
<1>1. g \in Surjection(S, T)
  BY DEF Surjection
<1> HIDE DEF g, T
<1>2. IsFiniteSet(T)
  BY <1>1, FS_Surjection
<1> QED BY <1>2 DEF T

\* A node has finitely many members and children.
LEMMA ChildrenFinite ==
    ASSUME NEW paths, IsFiniteSet(paths), NEW path
    PROVE  IsFiniteSet(Members(paths, path)) /\ IsFiniteSet(Children(paths, path))
<1> DEFINE k == Len(path)
           f == [q \in paths |-> q[k + 1]]
           S == {q \in paths : Len(q) = k + 1 /\ SubSeq(q, 1, k) = path}
           T == {q \in paths : Len(q) > k + 1 /\ SubSeq(q, 1, k) = path}
<1>1. IsFiniteSet(S) /\ IsFiniteSet(T)
  BY FS_Subset
<1>2. Members(paths, path) = {f[q] : q \in S} /\ Children(paths, path) = {f[q] : q \in T}
  BY DEF Members, Children
<1> HIDE DEF f, S, T
<1>3. IsFiniteSet({f[q] : q \in S}) /\ IsFiniteSet({f[q] : q \in T})
  BY <1>1, ImageFinite
<1> QED BY <1>2, <1>3

\* KeyedItems has pairs of numbers, finitely many: of each key, the items that have it.
LEMMA KeyedItemsAre ==
    ASSUME NEW src, NEW paths, Extractable(src, paths),
           NEW place \in Seq(Step), NEW path \in Seq(Element)
    PROVE  /\ KeyedItems(src, paths, place, path) \subseteq Nat \X Nat
           /\ IsFiniteSet(KeyedItems(src, paths, place, path))
           /\ \A key, i : <<key, i>> \in KeyedItems(src, paths, place, path)
                 <=> /\ Key(key) \in Children(paths, path)
                     /\ i \in DOMAIN Items(At(src, place))
                     /\ objectHasKey(Items(At(src, place))[i], key)
<1> DEFINE items == Items(At(src, place))
           C == {c \in Children(paths, path) : c[1] = "k"}
           f == [e \in C |-> e[2]]
           K == {e[2] : e \in C}
<1>1. Children(paths, path) \subseteq Element
  BY MembersAreElements DEF Extractable
<1>2. Len(items) \in Nat /\ DOMAIN items = 1..Len(items)
  BY DocumentAt DEF Extractable
<1>3. K \subseteq Nat
  BY <1>1 DEF Element
<1>4. IsFiniteSet(C)
  <2>1. IsFiniteSet(Children(paths, path))
    BY ChildrenFinite DEF Extractable
  <2> QED BY <2>1, FS_Subset
<1>5. IsFiniteSet(K)
  <2>1. K = {f[e] : e \in C}
    OBVIOUS
  <2> HIDE DEF f, K, C
  <2> QED BY <1>4, <2>1, ImageFinite
<1>6. \A key : key \in K <=> Key(key) \in Children(paths, path)
  BY <1>1 DEF Element, Key
<1>7. KeyedItems(src, paths, place, path) =
        {pair \in K \X DOMAIN items : objectHasKey(items[pair[2]], pair[1])}
  BY DEF KeyedItems
<1> HIDE DEF K, C
<1>8. IsFiniteSet(DOMAIN items) /\ DOMAIN items \subseteq Nat
  BY <1>2, FS_Interval
<1>9. IsFiniteSet(K \X DOMAIN items)
  BY <1>5, <1>8, FS_Product
<1>10. IsFiniteSet(KeyedItems(src, paths, place, path))
  BY <1>7, <1>9, FS_Subset
<1> HIDE DEF items
<1>11. KeyedItems(src, paths, place, path) \subseteq Nat \X Nat
  BY <1>3, <1>7, <1>8
<1>12. \A key, i : <<key, i>> \in KeyedItems(src, paths, place, path)
                 <=> key \in K /\ i \in DOMAIN items /\ objectHasKey(items[i], key)
  BY <1>7
<1> QED BY <1>6, <1>10, <1>11, <1>12 DEF items

\* SetValues has pairs of numbers, finitely many: the values that are managed.
LEMMA SetValuesAre ==
    ASSUME NEW src, NEW paths, Extractable(src, paths), NEW path \in Seq(Element)
    PROVE  /\ SetValues(paths, path) \subseteq Nat \X Nat
           /\ IsFiniteSet(SetValues(paths, path))
           /\ \A p \in SetValues(paths, path) : p[2] = 0
           /\ \A v : <<v, 0>> \in SetValues(paths, path) <=> SetValue(v) \in Members(paths, path)
<1> DEFINE M == {m \in Members(paths, path) : m[1] = "v"}
           f == [e \in M |-> <<e[2], 0>>]
<1>1. Members(paths, path) \subseteq Element
  BY MembersAreElements DEF Extractable
<1>2. IsFiniteSet(M)
  <2>1. IsFiniteSet(Members(paths, path))
    BY ChildrenFinite DEF Extractable
  <2> QED BY <2>1, FS_Subset
<1>3. SetValues(paths, path) = {<<e[2], 0>> : e \in M}
  BY DEF SetValues
<1>4. \A e \in M : e[2] \in Nat /\ e = SetValue(e[2])
  BY <1>1 DEF Element, SetValue
<1>5. IsFiniteSet(SetValues(paths, path))
  <2>1. SetValues(paths, path) = {f[e] : e \in M}
    BY <1>3
  <2> HIDE DEF f, M
  <2> QED BY <1>2, <2>1, ImageFinite
<1>6. SetValues(paths, path) \subseteq Nat \X Nat /\ \A p \in SetValues(paths, path) : p[2] = 0
  BY <1>3, <1>4
<1>7. ASSUME NEW v
      PROVE  <<v, 0>> \in SetValues(paths, path) <=> SetValue(v) \in Members(paths, path)
  <2>1. SetValue(v) \in Members(paths, path) => SetValue(v) \in M /\ SetValue(v)[2] = v
    BY DEF SetValue
  <2>2. <<v, 0>> \in SetValues(paths, path) => \E e \in M : e[2] = v
    BY <1>3
  <2> QED BY <1>3, <1>4, <2>1, <2>2
<1> QED BY <1>5, <1>6, <1>7

\* The two parts of a list.
LEMMA ListIs ==
    ASSUME NEW src, NEW paths, Extractable(src, paths),
           NEW place \in Seq(Step), NEW path \in Seq(Element), NEW call
    PROVE  LET list  == ListOf(src, paths, place, path, call)
               keyed == KeyedItems(src, paths, place, path)
               values == SetValues(paths, path)
               K == Cardinality(keyed)
               V == Cardinality(values)
           IN  /\ K \in Nat /\ V \in Nat
               /\ Len(list) = K + V
               /\ DOMAIN list = 1..(K + V)
               /\ \A i \in 1..K : list[i] = ItemOf(place, path, InOrder(keyed)[i], call)
               /\ \A i \in 1..V : list[K + i] = Value(InOrder(values)[i][1])
<1> DEFINE list  == ListOf(src, paths, place, path, call)
           keyed == KeyedItems(src, paths, place, path)
           values == SetValues(paths, path)
           K == Cardinality(keyed)
           V == Cardinality(values)
           a == [i \in 1..K |-> ItemOf(place, path, InOrder(keyed)[i], call)]
           b == [i \in 1..V |-> Value(InOrder(values)[i][1])]
           S == {ItemOf(place, path, pair, call) : pair \in keyed} \cup {Value(pair[1]) : pair \in values}
<1>1. K \in Nat /\ InOrder(keyed) \in [1..K -> keyed]
  BY KeyedItemsAre, InOrderIs
<1>2. V \in Nat /\ InOrder(values) \in [1..V -> values]
  BY SetValuesAre, InOrderIs
<1>3. list = a \o b
  BY <1>1, <1>2 DEF ListOf
<1> HIDE DEF keyed, values, K, V
<1>4. a \in Seq(S) /\ Len(a) = K
  <2>1. a \in [1..K -> S]
    BY <1>1
  <2> HIDE DEF a, S
  <2> QED BY <1>1, <2>1
<1>5. b \in Seq(S) /\ Len(b) = V
  <2>1. b \in [1..V -> S]
    BY <1>2
  <2> HIDE DEF b, S
  <2> QED BY <1>2, <2>1
<1>a. \A i \in 1..K : a[i] = ItemOf(place, path, InOrder(keyed)[i], call)
  OBVIOUS
<1>b. \A i \in 1..V : b[i] = Value(InOrder(values)[i][1])
  OBVIOUS
<1> HIDE DEF a, b, S, list
<1>6. /\ list \in Seq(S)
      /\ Len(list) = K + V
      /\ \A i \in 1..(K + V) : list[i] = IF i <= K THEN a[i] ELSE b[i - K]
  BY <1>3, <1>4, <1>5, ConcatProperties
<1>7. DOMAIN list = 1..(K + V)
  BY <1>6, LenProperties
<1>8. \A i \in 1..K : list[i] = a[i]
  BY <1>1, <1>2, <1>6
<1>9. \A i \in 1..V : list[K + i] = b[i]
  <2> TAKE i \in 1..V
  <2>1. K + i \in 1..(K + V) /\ ~(K + i <= K) /\ (K + i) - K = i
    BY <1>1, <1>2
  <2> QED BY <1>6, <2>1
<1> QED BY <1>1, <1>2, <1>6, <1>7, <1>8, <1>9, <1>a, <1>b DEF list, keyed, values, K, V

\* The calls of extractDepthFirst, whether they are made or not.
Calls == Seq(Step) \X Seq(Element)

\* Two results of calls are the same one level below path.
AgreeBelow(paths, path, f, g) ==
    \A p \in Seq(Step) : \A e \in Children(paths, path) :
        f[<<p, Append(path, e)>>] = g[<<p, Append(path, e)>>]

\* A call depends on the calls one level below it and no others.
LEMMA SameBelow ==
    ASSUME NEW src, NEW paths, Extractable(src, paths),
           NEW place \in Seq(Step), NEW path \in Seq(Element), NEW f, NEW g,
           AgreeBelow(paths, path, f, g)
    PROVE  Extracted(src, paths, place, path, f) = Extracted(src, paths, place, path, g)
<1> DEFINE x == At(src, place)
           keyed == KeyedItems(src, paths, place, path)
           values == SetValues(paths, path)
           lf == ListOf(src, paths, place, path, f)
           lg == ListOf(src, paths, place, path, g)
<1>0. Members(paths, path) \subseteq Element /\ Children(paths, path) \subseteq Element
  BY MembersAreElements DEF Extractable
<1>1. ASSUME NEW s \in Step, NEW e \in Children(paths, path)
      PROVE  f[<<Append(place, s), Append(path, e)>>] = g[<<Append(place, s), Append(path, e)>>]
  BY AppendProperties DEF AgreeBelow
<1>2. MapOf(src, paths, place, path, f) = MapOf(src, paths, place, path, g)
  <2>1. ASSUME NEW n \in Keys(x), FieldName(n) \in Children(paths, path)
        PROVE  f[<<Append(place, FieldName(n)), Append(path, FieldName(n))>>]
                 = g[<<Append(place, FieldName(n)), Append(path, FieldName(n))>>]
    <3>1. FieldName(n) \in Step
      BY <1>0, <2>1 DEF FieldName, Element, Step
    <3> QED BY <1>1, <2>1, <3>1
  <2> QED BY <2>1 DEF MapOf
<1>3. ASSUME NEW pair \in keyed
      PROVE  ItemOf(place, path, pair, f) = ItemOf(place, path, pair, g)
  <2>1. pair \in Nat \X Nat /\ pair = <<pair[1], pair[2]>>
    BY KeyedItemsAre
  <2>2. Key(pair[1]) \in Children(paths, path)
    BY <2>1, KeyedItemsAre
  <2>3. Index(pair[2]) \in Step
    BY <2>1 DEF Index, Step
  <2>4. f[<<Append(place, Index(pair[2])), Append(path, Key(pair[1]))>>]
          = g[<<Append(place, Index(pair[2])), Append(path, Key(pair[1]))>>]
    BY <1>1, <2>2, <2>3
  <2> QED BY <2>4 DEF ItemOf
<1>4. lf = lg
  <2>1. InOrder(keyed) \in [1..Cardinality(keyed) -> keyed]
    BY KeyedItemsAre, InOrderIs
  <2>2. [i \in DOMAIN InOrder(keyed) |-> ItemOf(place, path, InOrder(keyed)[i], f)]
          = [i \in DOMAIN InOrder(keyed) |-> ItemOf(place, path, InOrder(keyed)[i], g)]
    BY <1>3, <2>1
  <2> QED BY <2>2 DEF ListOf
<1> QED BY <1>2, <1>4 DEF Extracted

\* The results of calls, each made from those of its own calls.
IsCalls(src, paths, call) ==
    call = [c \in Calls |-> Extracted(src, paths, c[1], c[2], call)]

\* Beyond the last element of a path nothing is called.
LEMMA NoChildren ==
    ASSUME NEW src, NEW paths, Extractable(src, paths), NEW path \in Seq(Element),
           Len(path) >= MaxDepth
    PROVE  Children(paths, path) = {}
<1>1. ASSUME NEW e \in Children(paths, path)
      PROVE  FALSE
  <2>1. PICK q \in paths : Len(q) > Len(path) + 1
    BY <1>1 DEF Children
  <2>2. Len(q) \in Nat /\ Len(path) \in Nat /\ Len(q) <= MaxDepth /\ MaxDepth \in Nat
    BY <2>1, LenProperties, NamesAssumption DEF Extractable, NamesAssumption
  <2> QED BY <2>1, <2>2
<1> QED BY <1>1

\* There are such results, by induction on how much of the longest path is left: a path
\* as long as the longest has no children.
LEMMA CallsExist ==
    ASSUME NEW src, NEW paths, Extractable(src, paths)
    PROVE  \E call : IsCalls(src, paths, call)
<1> DEFINE Right(f, n) == \A place \in Seq(Step), path \in Seq(Element) :
                              Len(path) + n >= MaxDepth =>
                                  f[<<place, path>>] = Extracted(src, paths, place, path, f)
           S == {n \in Nat : \E f : f = [c \in Calls |-> f[c]] /\ Right(f, n)}
<1>0. MaxDepth \in Nat
  BY NamesAssumption DEF NamesAssumption
<1>1. 0 \in S
  <2> DEFINE none == <<>>
             f == [c \in Calls |-> Extracted(src, paths, c[1], c[2], none)]
  <2>1. f = [c \in Calls |-> f[c]]
    OBVIOUS
  <2>2. \A place \in Seq(Step), path \in Seq(Element) :
          f[<<place, path>>] = Extracted(src, paths, place, path, none)
    BY DEF Calls
  <2> HIDE DEF f, none
  <2>3. ASSUME NEW place \in Seq(Step), NEW path \in Seq(Element), Len(path) + 0 >= MaxDepth
        PROVE  f[<<place, path>>] = Extracted(src, paths, place, path, f)
    <3>1. Len(path) >= MaxDepth
      BY <2>3, LenProperties
    <3>2. Children(paths, path) = {}
      BY <3>1, NoChildren
    <3>3. AgreeBelow(paths, path, none, f)
      BY <3>2 DEF AgreeBelow
    <3>4. Extracted(src, paths, place, path, none) = Extracted(src, paths, place, path, f)
      BY <3>3, SameBelow
    <3> QED BY <2>2, <3>4
  <2> QED BY <2>1, <2>3
<1>2. ASSUME NEW n \in Nat, n \in S
      PROVE  n + 1 \in S
  <2>1. PICK f : f = [c \in Calls |-> f[c]] /\ Right(f, n)
    BY <1>2
  <2> DEFINE g == [c \in Calls |-> Extracted(src, paths, c[1], c[2], f)]
  <2>2. g = [c \in Calls |-> g[c]]
    OBVIOUS
  <2>3. \A place \in Seq(Step), path \in Seq(Element) :
          g[<<place, path>>] = Extracted(src, paths, place, path, f)
    BY DEF Calls
  <2> HIDE DEF g
  <2>4. ASSUME NEW place \in Seq(Step), NEW path \in Seq(Element),
               Len(path) + (n + 1) >= MaxDepth
        PROVE  g[<<place, path>>] = Extracted(src, paths, place, path, g)
    <3>1. ASSUME NEW p \in Seq(Step), NEW e \in Children(paths, path)
          PROVE  f[<<p, Append(path, e)>>] = g[<<p, Append(path, e)>>]
      <4> DEFINE longer == Append(path, e)
                 k == Len(path)
      <4>1. e \in Element
        BY MembersAreElements DEF Extractable
      <4>2. longer \in Seq(Element) /\ Len(longer) = k + 1 /\ k \in Nat /\ k + (n + 1) >= MaxDepth
        BY <2>4, <4>1, AppendProperties, LenProperties
      <4> HIDE DEF longer, k
      <4>3. Len(longer) + n >= MaxDepth
        BY <1>0, <4>2
      <4>4. f[<<p, longer>>] = Extracted(src, paths, p, longer, f)
        BY <2>1, <4>2, <4>3
      <4>5. g[<<p, longer>>] = Extracted(src, paths, p, longer, f)
        BY <2>3, <4>2
      <4> QED BY <4>4, <4>5 DEF longer
    <3>2. Extracted(src, paths, place, path, f) = Extracted(src, paths, place, path, g)
      <4>1. AgreeBelow(paths, path, f, g)
        BY <3>1 DEF AgreeBelow
      <4> QED BY <4>1, SameBelow
    <3> QED BY <2>3, <3>2
  <2> QED BY <2>2, <2>4
<1> HIDE DEF S
<1>3. MaxDepth \in S
  BY <1>0, <1>1, <1>2, NumberInduction
<1>4. PICK f : f = [c \in Calls |-> f[c]] /\ Right(f, MaxDepth)
  BY <1>3 DEF S
<1>5. ASSUME NEW c \in Calls
      PROVE  f[c] = Extracted(src, paths, c[1], c[2], f)
  <2>1. PICK place \in Seq(Step), path \in Seq(Element) : c = <<place, path>>
    BY DEF Calls
  <2>2. Len(path) + MaxDepth >= MaxDepth
    BY <1>0, LenProperties
  <2>3. f[<<place, path>>] = Extracted(src, paths, place, path, f)
    BY <1>4, <2>2
  <2> QED BY <2>1, <2>3
<1>6. [c \in Calls |-> f[c]] = [c \in Calls |-> Extracted(src, paths, c[1], c[2], f)]
  BY <1>5
<1>7. IsCalls(src, paths, f)
  BY <1>4, <1>6 DEF IsCalls
<1> QED BY <1>7

\* extractDepthFirst is the result of the call at the top.
LEMMA ExtractionIsACall ==
    ASSUME NEW src, NEW paths, Extractable(src, paths)
    PROVE  \E call : /\ IsCalls(src, paths, call)
                     /\ extractDepthFirst(src, paths) = call[<<<<>>, <<>>>>]
<1> DEFINE call == CHOOSE call : call =
        [c \in Seq(Step) \X Seq(Element) |-> Extracted(src, paths, c[1], c[2], call)]
<1>1. IsCalls(src, paths, call)
  <2>1. \E f : IsCalls(src, paths, f)
    BY CallsExist
  <2> QED BY <2>1, Zenon DEF IsCalls, Calls
<1>2. extractDepthFirst(src, paths) = call[<<<<>>, <<>>>>]
  BY DEF extractDepthFirst
<1> HIDE DEF call
<1> QED BY <1>1, <1>2

\* The equation of extractDepthFirst.
LEMMA CallIs ==
    ASSUME NEW src, NEW paths, NEW call, IsCalls(src, paths, call),
           NEW place \in Seq(Step), NEW path \in Seq(Element)
    PROVE  call[<<place, path>>] = Extracted(src, paths, place, path, call)
<1>1. <<place, path>> \in Calls
  BY DEF Calls
<1> QED BY <1>1 DEF IsCalls

\* The fields of what is extracted from a map.
LEMMA FieldOfExtracted ==
    ASSUME NEW src, NEW paths, NEW call, NEW place, NEW path, NEW n
    PROVE  FieldOf(Extracted(src, paths, place, path, call), n) =
              IF n \notin Keys(At(src, place)) THEN None
              ELSE IF FieldName(n) \in Members(paths, path) THEN FieldOf(At(src, place), n)
              ELSE IF FieldName(n) \in Children(paths, path)
                   THEN call[<<Append(place, FieldName(n)), Append(path, FieldName(n))>>]
              ELSE None
<1> DEFINE x == At(src, place)
           map == MapOf(src, paths, place, path, call)
           r == Extracted(src, paths, place, path, call)
           names == {k \in Keys(x) : FieldName(k) \in Children(paths, path)}
           leaves == {k \in Keys(x) : FieldName(k) \in Members(paths, path)}
<1>1. DOMAIN map = names \cup leaves
  BY DEF MapOf
<1>2. \A k \in names \cup leaves : map[k] = IF k \in leaves THEN x[2][k]
            ELSE call[<<Append(place, FieldName(k)), Append(path, FieldName(k))>>]
  BY DEF MapOf
<1>3. FieldOf(r, n) = IF n \in DOMAIN map THEN map[n] ELSE None
  <2>1. CASE DOMAIN map # {}
    <3>1. r = Map(map)
      BY <2>1 DEF Extracted
    <3> HIDE DEF map, r
    <3> QED BY <3>1 DEF FieldOf, Keys, IsMap, Map
  <2>2. CASE DOMAIN map = {}
    <3>1. r = Nil \/ \E l : r = List(l)
      BY <2>2 DEF Extracted
    <3>2. FieldOf(r, n) = None
      <4> HIDE DEF r
      <4> QED BY <3>1 DEF FieldOf, Keys, IsMap, Nil, List
    <3> QED BY <2>2, <3>2
  <2> QED BY <2>1, <2>2
<1> HIDE DEF map, r
<1> QED BY <1>1, <1>2, <1>3 DEF r, FieldOf

-----------------------------------------------------------------------------
(* What is extracted of fields in maps.                                    *)

\* A path leads to one of the paths, or one of them leads to it.
Leading(paths, path) == \E p \in paths : IsStrictPrefix(path, p)
\* Something on the way to path is managed as a whole.
Covered(paths, path) == \E p \in paths : IsPrefix(p, path)

\* ExtractFieldsInto keeps a map only.
TopMap(x) == IF IsMap(x) THEN x ELSE NewMap

\* What is covered, and what leads on, one element further.
LEMMA NextCovered ==
    ASSUME NEW S, NEW paths, paths \subseteq Seq(S), NEW path \in Seq(S), NEW e \in S
    PROVE  /\ Covered(paths, Append(path, e)) <=> Append(path, e) \in paths \/ Covered(paths, path)
           /\ Leading(paths, Append(path, e)) => Leading(paths, path)
           /\ Append(path, e) \in paths => Leading(paths, path)
<1> DEFINE longer == Append(path, e)
<1>1. longer \in Seq(S)
  OBVIOUS
<1>2. ASSUME NEW q \in paths
      PROVE  IsPrefix(q, longer) <=> q = longer \/ IsPrefix(q, path)
  BY PrefixOfAppend
<1>3. ASSUME NEW q \in paths, IsPrefix(longer, q)
      PROVE  IsStrictPrefix(path, q)
  BY <1>3, AppendIsPrefix
<1>4. IsPrefix(longer, longer)
  BY <1>1, PrefixOfItself
<1> HIDE DEF longer
<1>5. Covered(paths, longer) <=> longer \in paths \/ Covered(paths, path)
  BY <1>2 DEF Covered
<1>6. Leading(paths, longer) => Leading(paths, path)
  BY <1>3 DEF Leading, IsStrictPrefix
<1>7. longer \in paths => Leading(paths, path)
  BY <1>3, <1>4 DEF Leading
<1> QED BY <1>5, <1>6, <1>7 DEF longer

\* One level of what is extracted, below a call or below the top.
LEMMA NextExtracted ==
    ASSUME NEW src, NEW paths, Extractable(src, paths), NEW call, IsCalls(src, paths, call),
           NEW names \in Seq(Names), NEW n \in Names, ~Covered(paths, ElementsOf(names)),
           NEW y, y \in {call[<<ElementsOf(names), ElementsOf(names)>>],
                         TopMap(call[<<ElementsOf(names), ElementsOf(names)>>])}
    PROVE  FieldOf(y, n) =
              IF Covered(paths, ElementsOf(Append(names, n)))
              THEN NestedField(src, Append(names, n))
              ELSE IF /\ Leading(paths, ElementsOf(Append(names, n)))
                      /\ NestedField(src, Append(names, n)) # None
                   THEN call[<<ElementsOf(Append(names, n)), ElementsOf(Append(names, n))>>]
              ELSE None
<1> DEFINE e == ElementsOf(names)
           m == FieldName(n)
           e2 == Append(e, m)
           x == NestedField(src, names)
           r == Extracted(src, paths, e, e, call)
<1>1. e \in Seq(Step) /\ e \in Seq(Element) /\ m \in Element
  BY ElementsOfNames DEF FieldName, Element
<1>2. ElementsOf(Append(names, n)) = e2
  BY ElementsOfAppend
<1>3. NestedField(src, Append(names, n)) = FieldOf(x, n)
  BY NestedFieldAppend
<1>4. At(src, e) = x
  BY DEF NestedField
<1>5. paths \subseteq Seq(Element)
  BY DEF Extractable
<1>6. n \in Keys(x) => FieldOf(x, n) # None
  BY <1>1, <1>4, DocumentAt DEF Extractable
<1>7. n \notin Keys(x) => FieldOf(x, n) = None
  BY DEF FieldOf
<1> HIDE DEF e, m, x
<1>8. call[<<e, e>>] = r
  BY <1>1, CallIs
<1>9. FieldOf(y, n) = FieldOf(r, n)
  <2> HIDE DEF r
  <2> QED BY <1>8 DEF TopMap, FieldOf, Keys, IsMap, NewMap, Map, e
<1>10. FieldOf(r, n) = IF n \notin Keys(x) THEN None
                       ELSE IF m \in Members(paths, e) THEN FieldOf(x, n)
                       ELSE IF m \in Children(paths, e) THEN call[<<e2, e2>>]
                       ELSE None
  BY <1>4, FieldOfExtracted DEF m
<1>11. m \in Members(paths, e) <=> Covered(paths, e2)
  <2>1. m \in Members(paths, e) <=> e2 \in paths
    BY <1>1, <1>5, MembersAre
  <2>2. Covered(paths, e2) <=> e2 \in paths \/ Covered(paths, e)
    BY <1>1, <1>5, NextCovered
  <2> QED BY <2>1, <2>2 DEF e
<1>12. m \in Children(paths, e) <=> Leading(paths, e2)
  BY <1>1, <1>5, ChildrenAre DEF Leading
<1> HIDE DEF r, e2
<1> QED BY <1>2, <1>3, <1>6, <1>7, <1>9, <1>10, <1>11, <1>12

\* A field of what is extracted is copied when it or a section above it is a path;
\* it is the result of a call when it leads to a path; else there is none.
LEMMA NestedExtracted ==
    ASSUME NEW src, NEW paths, Extractable(src, paths), NEW call, IsCalls(src, paths, call),
           NEW names \in Seq(Names)
    PROVE  NestedField(TopMap(call[<<<<>>, <<>>>>]), names) =
              IF Covered(paths, ElementsOf(names)) THEN NestedField(src, names)
              ELSE IF names = <<>> THEN TopMap(call[<<<<>>, <<>>>>])
              ELSE IF Leading(paths, ElementsOf(names)) /\ NestedField(src, names) # None
                   THEN call[<<ElementsOf(names), ElementsOf(names)>>]
              ELSE None
<1> DEFINE top == TopMap(call[<<<<>>, <<>>>>])
           E(m) == ElementsOf(m)
           What(m) == IF Covered(paths, E(m)) THEN NestedField(src, m)
                      ELSE IF m = <<>> THEN top
                      ELSE IF Leading(paths, E(m)) /\ NestedField(src, m) # None
                           THEN call[<<E(m), E(m)>>]
                      ELSE None
           T == {m \in Seq(Names) : NestedField(top, m) = What(m)}
<1>0. paths \subseteq Seq(Element)
  BY DEF Extractable
<1>1. <<>> \in T
  <2>1. E(<<>>) = <<>>
    BY ElementsOfEmpty
  <2>2. ASSUME NEW p \in paths PROVE ~IsPrefix(p, <<>>)
    <3>1. p \in Seq(Element) /\ <<>> \in Seq(Element) /\ Len(<<>>) = 0
      BY <1>0
    <3>2. Len(p) \in 1..MaxDepth /\ Len(p) \in Nat
      BY <3>1, LenProperties DEF Extractable
    <3>3. ~(Len(p) <= 0)
      BY <3>2, NamesAssumption DEF NamesAssumption
    <3> QED BY <3>1, <3>3 DEF IsPrefix
  <2>3. ~Covered(paths, <<>>)
    BY <2>2 DEF Covered
  <2> QED BY <2>1, <2>3, NestedFieldEmpty
<1>2. ASSUME NEW m \in Seq(Names), NEW n \in Names, m \in T
      PROVE  Append(m, n) \in T
  <2> DEFINE m2 == Append(m, n)
             y == NestedField(top, m)
             e == E(m)
             e2 == E(m2)
  <2>0. y = What(m)
    BY <1>2
  <2>1. m2 \in Seq(Names) /\ m2 # <<>>
    BY AppendProperties
  <2>2. NestedField(top, m2) = FieldOf(y, n)
    BY NestedFieldAppend
  <2>3. NestedField(src, m2) = FieldOf(NestedField(src, m), n)
    BY NestedFieldAppend
  <2>4. /\ Covered(paths, e2) <=> e2 \in paths \/ Covered(paths, e)
        /\ Leading(paths, e2) => Leading(paths, e)
        /\ e2 \in paths => Leading(paths, e)
    <3>1. e \in Seq(Element) /\ FieldName(n) \in Element
      BY ElementsOfNames DEF FieldName, Element
    <3>2. e2 = Append(e, FieldName(n))
      BY ElementsOfAppend
    <3> HIDE DEF e, e2
    <3> QED BY <1>0, <3>1, <3>2, NextCovered
  <2>5. CASE Covered(paths, e)
    <3>1. y = NestedField(src, m)
      BY <2>0, <2>5
    <3>2. What(m2) = NestedField(src, m2)
      BY <2>4, <2>5
    <3>3. NestedField(top, m2) = What(m2)
      <4> HIDE DEF y, m2, top
      <4> QED BY <2>2, <2>3, <3>1, <3>2
    <3> QED BY <2>1, <3>3
  <2>6. CASE /\ ~Covered(paths, e)
             /\ m = <<>> \/ (Leading(paths, e) /\ NestedField(src, m) # None)
    <3>1. y \in {call[<<e, e>>], TopMap(call[<<e, e>>])}
      <4>1. CASE m = <<>>
        <5>1. y = top /\ e = <<>>
          BY <2>0, <2>6, <4>1, ElementsOfEmpty
        <5> QED BY <5>1
      <4>2. CASE m # <<>>
        <5>1. y = call[<<e, e>>]
          BY <2>0, <2>6, <4>2
        <5> QED BY <5>1
      <4> QED BY <4>1, <4>2
    <3> HIDE DEF y
    <3>2. FieldOf(y, n) =
            IF Covered(paths, ElementsOf(Append(m, n))) THEN NestedField(src, Append(m, n))
            ELSE IF /\ Leading(paths, ElementsOf(Append(m, n)))
                    /\ NestedField(src, Append(m, n)) # None
                 THEN call[<<ElementsOf(Append(m, n)), ElementsOf(Append(m, n))>>]
            ELSE None
      BY <2>6, <3>1, NextExtracted
    <3>3. FieldOf(y, n) = What(m2)
      BY <2>1, <3>2
    <3> QED BY <2>1, <2>2, <3>3
  <2>7. CASE /\ ~Covered(paths, e) /\ m # <<>>
             /\ ~(Leading(paths, e) /\ NestedField(src, m) # None)
    <3>1. y = None
      BY <2>0, <2>7
    <3>2. \A k : FieldOf(None, k) = None
      BY DEF FieldOf, Keys, IsMap, None
    <3>3. ~Leading(paths, e) \/ NestedField(src, m2) = None
      <4>1. CASE NestedField(src, m) = None
        BY <2>3, <3>2, <4>1
      <4> QED BY <2>7, <4>1
    <3>4. What(m2) = None
      <4> HIDE DEF m2, e, e2
      <4> QED BY <2>1, <2>4, <2>7, <3>3 DEF e2, e
    <3> HIDE DEF y
    <3> QED BY <2>1, <2>2, <3>1, <3>2, <3>4
  <2> QED BY <2>5, <2>6, <2>7
<1> HIDE DEF T
<1>3. names \in T
  BY <1>1, <1>2, SequenceInduction
<1> QED BY <1>3 DEF T

-----------------------------------------------------------------------------
(* The paths of module Unstructured as sequences of names.                 *)

\* Where the annotations are.
annotations == <<"metadata", "annotations">>

\* A sequence of two.
LEMMA AppendToOne ==
    ASSUME NEW m, NEW n
    PROVE  Append(<<m>>, n) = <<m, n>>
<1> DEFINE S == {m, n}
           s == <<m>>
           t == <<m, n>>
           u == Append(s, n)
<1>1. s \in Seq(S) /\ Len(s) = 1 /\ s[1] = m /\ n \in S
  OBVIOUS
<1>2. t \in Seq(S) /\ Len(t) = 2 /\ t[1] = m /\ t[2] = n
  OBVIOUS
<1> HIDE DEF s, t, S
<1>3. u \in Seq(S) /\ Len(u) = Len(s) + 1 /\ u[Len(s) + 1] = n /\ \A i \in 1..Len(s) : u[i] = s[i]
  BY <1>1, AppendProperties
<1> HIDE DEF u
<1>4. \A i \in 1..2 : i = 1 \/ i = 2
  OBVIOUS
<1>5. \A i \in 1..2 : u[i] = t[i]
  BY <1>1, <1>2, <1>3, <1>4
<1>6. u = t
  BY <1>1, <1>2, <1>3, <1>5, SeqEqual
<1> QED BY <1>6 DEF s, t, u

\* The paths of module Unstructured.
LEMMA ThePaths ==
    /\ Flat!Path = {"backupAnnotation", "restoreAnnotation", "manual.options", "manual.repoName",
                    "restore.enabled", "restore.options", "restore.repoName",
                    "shutdown", "instances", "repos",
                    "spec", "backups", "pgbackrest", "manual", "restore"}
    /\ Flat!Field = {"backupAnnotation", "restoreAnnotation", "manual.options", "manual.repoName",
                    "restore.enabled", "restore.options", "restore.repoName",
                    "shutdown", "instances", "repos"}
    /\ Flat!Section = {"spec", "backups", "pgbackrest", "manual", "restore"}
BY DEF Flat!Path, Flat!Field, Flat!Section, Flat!Annotations, Flat!ManualFields, Flat!RestoreFields

\* Their names.
LEMMA NamesTable ==
    /\ NamesOf["backupAnnotation"] = Append(annotations, "backup")
    /\ NamesOf["restoreAnnotation"] = Append(annotations, "restore")
    /\ NamesOf["spec"] = <<"spec">>
    /\ NamesOf["instances"] = Append(NamesOf["spec"], "instances")
    /\ NamesOf["shutdown"] = Append(NamesOf["spec"], "shutdown")
    /\ NamesOf["backups"] = Append(NamesOf["spec"], "backups")
    /\ NamesOf["pgbackrest"] = Append(NamesOf["backups"], "pgbackrest")
    /\ NamesOf["repos"] = Append(NamesOf["pgbackrest"], "repos")
    /\ NamesOf["manual"] = Append(NamesOf["pgbackrest"], "manual")
    /\ NamesOf["manual.options"] = Append(NamesOf["manual"], "options")
    /\ NamesOf["manual.repoName"] = Append(NamesOf["manual"], "repoName")
    /\ NamesOf["restore"] = Append(NamesOf["pgbackrest"], "restore")
    /\ NamesOf["restore.enabled"] = Append(NamesOf["restore"], "enabled")
    /\ NamesOf["restore.options"] = Append(NamesOf["restore"], "options")
    /\ NamesOf["restore.repoName"] = Append(NamesOf["restore"], "repoName")
BY ThePaths DEF NamesOf, annotations

\* What ends a sequence of names is a name.
LEMMA LastIsAName ==
    ASSUME NEW s \in Seq(Names), NEW n, Append(s, n) \in Seq(Names)
    PROVE  n \in Names
<1> DEFINE S == Names \cup {n}
           longer == Append(s, n)
<1>1. s \in Seq(S) /\ n \in S
  BY SeqMonotonic
<1> HIDE DEF S
<1>2. Len(longer) = Len(s) + 1 /\ longer[Len(s) + 1] = n
  BY <1>1, AppendProperties
<1>3. Len(longer) \in 1..Len(longer)
  BY <1>2, LenProperties
<1>4. longer[Len(longer)] = n
  BY <1>2
<1> HIDE DEF longer
<1> QED BY <1>3, <1>4, ElementOfSeq DEF longer

\* A path is a sequence of names.
LEMMA PathsAreNames ==
    ASSUME NEW p \in Flat!Path
    PROVE  NamesOf[p] \in Seq(Names)
BY NamesAssumption DEF NamesAssumption

\* So is the way to the annotations.
LEMMA AnnotationsAreNames == <<"metadata">> \in Seq(Names) /\ annotations \in Seq(Names)
BY NamesAssumption DEF NamesAssumption, annotations

\* The names that the commands know are Names.
LEMMA NamesAreNames ==
    {"metadata", "annotations", "uid", "backup", "restore", "spec", "instances", "shutdown", "backups",
     "pgbackrest", "repos", "manual", "options", "repoName", "enabled"} \subseteq Names
<1>1. {"metadata", "annotations", "uid"} \subseteq Names
  BY NamesAssumption DEF NamesAssumption
<1>2. "spec" \in Names
  <2>1. NamesOf["spec"] = <<"spec">> /\ NamesOf["spec"] \in Seq(Names)
    BY ThePaths, NamesTable, PathsAreNames
  <2> QED BY <2>1
<1>3. ASSUME NEW p \in Flat!Path, NEW s \in Seq(Names), NEW n, NamesOf[p] = Append(s, n)
      PROVE  n \in Names
  BY <1>3, PathsAreNames, LastIsAName
<1>4. "backup" \in Names /\ "restore" \in Names
  BY <1>3, ThePaths, NamesTable, AnnotationsAreNames
<1>5. "instances" \in Names /\ "shutdown" \in Names /\ "backups" \in Names
  BY <1>3, ThePaths, NamesTable, PathsAreNames
<1>6. "pgbackrest" \in Names /\ "repos" \in Names /\ "manual" \in Names
  BY <1>3, ThePaths, NamesTable, PathsAreNames
<1>7. "options" \in Names /\ "repoName" \in Names /\ "enabled" \in Names
  BY <1>3, ThePaths, NamesTable, PathsAreNames
<1> QED BY <1>1, <1>2, <1>4, <1>5, <1>6, <1>7

\* Every path but "spec" is a name below another, every section one below another.
LEMMA EmptyNoPath ==
    /\ NamesOf["spec"] = Append(<<>>, "spec")
    /\ <<"metadata">> = Append(<<>>, "metadata")
    /\ annotations = Append(<<"metadata">>, "annotations")
    /\ \A s \in Seq(Names) : \A n \in Names : Append(s, n) # <<>>
<1>1. \A n : <<n>> = Append(<<>>, n)
  OBVIOUS
<1>2. annotations = Append(<<"metadata">>, "annotations")
  BY AppendToOne DEF annotations
<1> QED BY <1>1, <1>2, NamesTable, AppendProperties

\* What a path of module Unstructured is in.
FrontOf ==
    [p \in Flat!Path |->
        CASE p \in Flat!Annotations -> annotations
          [] p = "spec" -> <<>>
          [] p \in {"backups", "instances", "shutdown"} -> NamesOf["spec"]
          [] p = "pgbackrest" -> NamesOf["backups"]
          [] p \in {"manual", "restore", "repos"} -> NamesOf["pgbackrest"]
          [] p \in Flat!ManualFields -> NamesOf["manual"]
          [] p \in Flat!RestoreFields -> NamesOf["restore"]]

\* What it is called there.
LastOf ==
    [p \in Flat!Path |->
        CASE p = "backupAnnotation" -> "backup"
          [] p \in {"restoreAnnotation", "restore"} -> "restore"
          [] p \in {"manual.options", "restore.options"} -> "options"
          [] p \in {"manual.repoName", "restore.repoName"} -> "repoName"
          [] p = "restore.enabled" -> "enabled"
          [] OTHER -> p]

\* FrontOf, path by path.
LEMMA FrontTable ==
    /\ FrontOf["backupAnnotation"] = annotations
    /\ FrontOf["restoreAnnotation"] = annotations
    /\ FrontOf["spec"] = <<>>
    /\ FrontOf["instances"] = NamesOf["spec"]
    /\ FrontOf["shutdown"] = NamesOf["spec"]
    /\ FrontOf["backups"] = NamesOf["spec"]
    /\ FrontOf["pgbackrest"] = NamesOf["backups"]
    /\ FrontOf["repos"] = NamesOf["pgbackrest"]
    /\ FrontOf["manual"] = NamesOf["pgbackrest"]
    /\ FrontOf["restore"] = NamesOf["pgbackrest"]
    /\ FrontOf["manual.options"] = NamesOf["manual"]
    /\ FrontOf["manual.repoName"] = NamesOf["manual"]
    /\ FrontOf["restore.enabled"] = NamesOf["restore"]
    /\ FrontOf["restore.options"] = NamesOf["restore"]
    /\ FrontOf["restore.repoName"] = NamesOf["restore"]
BY ThePaths DEF FrontOf, Flat!Annotations, Flat!ManualFields, Flat!RestoreFields

\* LastOf, path by path.
LEMMA LastTable ==
    /\ LastOf["backupAnnotation"] = "backup"
    /\ LastOf["restoreAnnotation"] = "restore"
    /\ LastOf["spec"] = "spec"
    /\ LastOf["instances"] = "instances"
    /\ LastOf["shutdown"] = "shutdown"
    /\ LastOf["backups"] = "backups"
    /\ LastOf["pgbackrest"] = "pgbackrest"
    /\ LastOf["repos"] = "repos"
    /\ LastOf["manual"] = "manual"
    /\ LastOf["restore"] = "restore"
    /\ LastOf["manual.options"] = "options"
    /\ LastOf["manual.repoName"] = "repoName"
    /\ LastOf["restore.enabled"] = "enabled"
    /\ LastOf["restore.options"] = "options"
    /\ LastOf["restore.repoName"] = "repoName"
BY ThePaths DEF LastOf

\* A path is the last of its names below the others.
LEMMA PathIs ==
    ASSUME NEW p \in Flat!Path
    PROVE  /\ FrontOf[p] \in Seq(Names)
           /\ LastOf[p] \in Names
           /\ NamesOf[p] = Append(FrontOf[p], LastOf[p])
<1>1. <<>> \in Seq(Names)
  OBVIOUS
<1>2. FrontOf[p] \in Seq(Names)
  BY <1>1, ThePaths, FrontTable, PathsAreNames, AnnotationsAreNames
<1>3. LastOf[p] \in Names
  BY ThePaths, LastTable, NamesAreNames
<1>4. NamesOf[p] = Append(FrontOf[p], LastOf[p])
  BY ThePaths, FrontTable, LastTable, NamesTable, EmptyNoPath
<1> QED BY <1>2, <1>3, <1>4

\* Nothing is not begun with something.
LEMMA NoPrefixOfEmpty ==
    ASSUME NEW s \in Seq(Names), NEW n \in Names
    PROVE  ~IsPrefix(Append(s, n), <<>>)
<1>1. Len(Append(s, n)) = Len(s) + 1 /\ Len(<<>>) = 0 /\ Len(s) \in Nat
  BY AppendProperties, LenProperties
<1> QED BY <1>1 DEF IsPrefix

\* A path that begins another names it or begins what the other is in.
LEMMA PrefixStep ==
    ASSUME NEW p \in Flat!Path, NEW s \in Seq(Names), NEW n \in Names
    PROVE  IsPrefix(NamesOf[p], Append(s, n))
             <=> (FrontOf[p] = s /\ LastOf[p] = n) \/ IsPrefix(NamesOf[p], s)
<1>1. NamesOf[p] = Append(FrontOf[p], LastOf[p]) /\ FrontOf[p] \in Seq(Names) /\ LastOf[p] \in Names
  BY PathIs
<1>2. NamesOf[p] = Append(s, n) <=> FrontOf[p] = s /\ LastOf[p] = n
  BY <1>1, AppendInjective
<1> QED BY <1>2, PathsAreNames, PrefixOfAppend

\* No path is on the way to the annotations.
LEMMA NoPrefixOfAnnotations ==
    ASSUME NEW p \in Flat!Path
    PROVE  ~IsPrefix(NamesOf[p], annotations) /\ ~IsPrefix(NamesOf[p], <<"metadata">>)
<1>0. "metadata" \in Names /\ "annotations" \in Names /\ <<>> \in Seq(Names)
  BY NamesAreNames
<1>1. ~IsPrefix(NamesOf[p], <<>>)
  BY PathIs, NoPrefixOfEmpty
<1>2. LastOf[p] # "metadata" /\ LastOf[p] # "annotations"
  BY ThePaths, LastTable
<1>3. ~IsPrefix(NamesOf[p], Append(<<>>, "metadata"))
  BY <1>0, <1>1, <1>2, PrefixStep
<1>4. ~IsPrefix(NamesOf[p], Append(<<"metadata">>, "annotations"))
  <2>1. ~IsPrefix(NamesOf[p], <<"metadata">>)
    BY <1>3, EmptyNoPath
  <2>2. <<"metadata">> \in Seq(Names)
    BY AnnotationsAreNames
  <2> QED BY <1>0, <1>2, <2>1, <2>2, PrefixStep
<1> QED BY <1>3, <1>4, EmptyNoPath

\* The paths on the way to each path.
LEMMA PathChain ==
    ASSUME NEW p \in Flat!Path
    PROVE  /\ IsPrefix(NamesOf[p], NamesOf["spec"]) <=> p = "spec"
           /\ IsPrefix(NamesOf[p], NamesOf["instances"]) <=> p \in {"instances", "spec"}
           /\ IsPrefix(NamesOf[p], NamesOf["shutdown"]) <=> p \in {"shutdown", "spec"}
           /\ IsPrefix(NamesOf[p], NamesOf["backups"]) <=> p \in {"backups", "spec"}
           /\ IsPrefix(NamesOf[p], NamesOf["pgbackrest"]) <=> p \in {"pgbackrest", "backups", "spec"}
           /\ IsPrefix(NamesOf[p], NamesOf["repos"]) <=> p \in {"repos", "pgbackrest", "backups", "spec"}
           /\ IsPrefix(NamesOf[p], NamesOf["manual"]) <=> p \in {"manual", "pgbackrest", "backups", "spec"}
           /\ IsPrefix(NamesOf[p], NamesOf["restore"]) <=> p \in {"restore", "pgbackrest", "backups", "spec"}
           /\ \A f \in Flat!ManualFields :
                 IsPrefix(NamesOf[p], NamesOf[f]) <=> p \in {f, "manual", "pgbackrest", "backups", "spec"}
           /\ \A f \in Flat!RestoreFields :
                 IsPrefix(NamesOf[p], NamesOf[f]) <=> p \in {f, "restore", "pgbackrest", "backups", "spec"}
           /\ \A f \in Flat!Annotations : IsPrefix(NamesOf[p], NamesOf[f]) <=> p = f
<1>0. ~IsPrefix(NamesOf[p], <<>>) /\ ~IsPrefix(NamesOf[p], annotations)
  BY PathIs, NoPrefixOfEmpty, NoPrefixOfAnnotations
<1>1. ASSUME NEW q \in Flat!Path
      PROVE  IsPrefix(NamesOf[p], NamesOf[q])
               <=> (FrontOf[p] = FrontOf[q] /\ LastOf[p] = LastOf[q]) \/ IsPrefix(NamesOf[p], FrontOf[q])
  <2> DEFINE s == FrontOf[q]
             n == LastOf[q]
  <2>1. s \in Seq(Names) /\ n \in Names /\ NamesOf[q] = Append(s, n)
    BY PathIs
  <2> HIDE DEF s, n
  <2>2. IsPrefix(NamesOf[p], Append(s, n))
          <=> (FrontOf[p] = s /\ LastOf[p] = n) \/ IsPrefix(NamesOf[p], s)
    BY <2>1, PrefixStep
  <2> QED BY <2>1, <2>2 DEF s, n
<1>2. annotations # NamesOf["pgbackrest"] /\ NamesOf["manual"] # NamesOf["restore"]
  <2>1. \A s, t \in Seq(Names) : Append(s, "annotations") # Append(t, "pgbackrest")
    BY NamesAreNames, AppendInjective
  <2>2. \A s, t \in Seq(Names) : Append(s, "manual") # Append(t, "restore")
    BY NamesAreNames, AppendInjective
  <2> QED BY <2>1, <2>2, ThePaths, NamesTable, EmptyNoPath, PathsAreNames, AnnotationsAreNames
<1>3. ASSUME NEW q \in Flat!Path
      PROVE  FrontOf[p] = FrontOf[q] /\ LastOf[p] = LastOf[q] <=> p = q
  BY <1>2, ThePaths, FrontTable, LastTable
<1>4. ASSUME NEW q \in Flat!Path
      PROVE  IsPrefix(NamesOf[p], NamesOf[q]) <=> p = q \/ IsPrefix(NamesOf[p], FrontOf[q])
  BY <1>1, <1>3
<1>5. IsPrefix(NamesOf[p], NamesOf["spec"]) <=> p = "spec"
  BY <1>0, <1>4, ThePaths, FrontTable
<1>6. IsPrefix(NamesOf[p], NamesOf["backups"]) <=> p \in {"backups", "spec"}
  BY <1>4, <1>5, ThePaths, FrontTable
<1>7. IsPrefix(NamesOf[p], NamesOf["pgbackrest"]) <=> p \in {"pgbackrest", "backups", "spec"}
  BY <1>4, <1>6, ThePaths, FrontTable
<1>8. IsPrefix(NamesOf[p], NamesOf["manual"]) <=> p \in {"manual", "pgbackrest", "backups", "spec"}
  BY <1>4, <1>7, ThePaths, FrontTable
<1>9. IsPrefix(NamesOf[p], NamesOf["restore"]) <=> p \in {"restore", "pgbackrest", "backups", "spec"}
  BY <1>4, <1>7, ThePaths, FrontTable
<1>10. IsPrefix(NamesOf[p], NamesOf["repos"]) <=> p \in {"repos", "pgbackrest", "backups", "spec"}
  BY <1>4, <1>7, ThePaths, FrontTable
<1>11. IsPrefix(NamesOf[p], NamesOf["instances"]) <=> p \in {"instances", "spec"}
  BY <1>4, <1>5, ThePaths, FrontTable
<1>12. IsPrefix(NamesOf[p], NamesOf["shutdown"]) <=> p \in {"shutdown", "spec"}
  BY <1>4, <1>5, ThePaths, FrontTable
<1>13. \A f \in Flat!ManualFields :
         IsPrefix(NamesOf[p], NamesOf[f]) <=> p \in {f, "manual", "pgbackrest", "backups", "spec"}
  BY <1>4, <1>8, ThePaths, FrontTable DEF Flat!ManualFields
<1>14. \A f \in Flat!RestoreFields :
         IsPrefix(NamesOf[p], NamesOf[f]) <=> p \in {f, "restore", "pgbackrest", "backups", "spec"}
  BY <1>4, <1>9, ThePaths, FrontTable DEF Flat!RestoreFields
<1>15. \A f \in Flat!Annotations : IsPrefix(NamesOf[p], NamesOf[f]) <=> p = f
  BY <1>0, <1>4, ThePaths, FrontTable DEF Flat!Annotations
<1> QED BY <1>5, <1>6, <1>7, <1>8, <1>9, <1>10, <1>11, <1>12, <1>13, <1>14, <1>15

\* The paths under each section.
LEMMA UnderTable ==
    /\ Flat!Under["manual"] = Flat!ManualFields
    /\ Flat!Under["restore"] = Flat!RestoreFields
    /\ Flat!Under["pgbackrest"] =
          Flat!ManualFields \cup Flat!RestoreFields \cup {"manual", "restore", "repos"}
    /\ Flat!Under["backups"] = Flat!Under["pgbackrest"] \cup {"pgbackrest"}
    /\ Flat!Under["spec"] = Flat!Under["backups"] \cup {"backups", "shutdown", "instances"}
BY DEF Flat!Under, Flat!Section

\* The shape of the tree of module Unstructured is that of the names.
LEMMA PathTree ==
    ASSUME NEW p \in Flat!Path, NEW q \in Flat!Path
    PROVE  IsPrefix(NamesOf[p], NamesOf[q]) <=> q \in Flat!Subtree(p)
<1>1. q \in Flat!Subtree(p) <=> q = p \/ (p \in Flat!Section /\ q \in Flat!Under[p])
  BY DEF Flat!Subtree
<1> QED BY <1>1, PathChain, UnderTable, ThePaths
        DEF Flat!Annotations, Flat!ManualFields, Flat!RestoreFields

\* Names and their elements begin with each other alike.
LEMMA ElementsPrefix ==
    ASSUME NEW s \in Seq(Names), NEW t \in Seq(Names)
    PROVE  /\ IsPrefix(ElementsOf(s), ElementsOf(t)) <=> IsPrefix(s, t)
           /\ ElementsOf(s) = ElementsOf(t) <=> s = t
<1>1. /\ ElementsOf(s) \in Seq(Element) /\ Len(ElementsOf(s)) = Len(s)
      /\ \A i \in 1..Len(s) : ElementsOf(s)[i] = FieldName(s[i])
  BY ElementsOfNames
<1>2. /\ ElementsOf(t) \in Seq(Element) /\ Len(ElementsOf(t)) = Len(t)
      /\ \A i \in 1..Len(t) : ElementsOf(t)[i] = FieldName(t[i])
  BY ElementsOfNames
<1>3. \A m, n : FieldName(m) = FieldName(n) <=> m = n
  BY DEF FieldName
<1>4. Len(s) \in Nat /\ Len(t) \in Nat
  BY LenProperties
<1>5. ASSUME Len(s) <= Len(t)
      PROVE  (\A i \in 1..Len(s) : ElementsOf(s)[i] = ElementsOf(t)[i])
               <=> \A i \in 1..Len(s) : s[i] = t[i]
  BY <1>1, <1>2, <1>3, <1>4, <1>5
<1>6. IsPrefix(ElementsOf(s), ElementsOf(t))
        <=> Len(s) <= Len(t) /\ \A i \in 1..Len(s) : ElementsOf(s)[i] = ElementsOf(t)[i]
  BY <1>1, <1>2, PrefixMeans
<1>7. IsPrefix(s, t) <=> Len(s) <= Len(t) /\ \A i \in 1..Len(s) : s[i] = t[i]
  BY PrefixMeans
<1>8. IsPrefix(ElementsOf(s), ElementsOf(t)) <=> IsPrefix(s, t)
  BY <1>5, <1>6, <1>7
<1>9. ElementsOf(s) = ElementsOf(t) => s = t
  <2> SUFFICES ASSUME ElementsOf(s) = ElementsOf(t) PROVE s = t
    OBVIOUS
  <2>1. Len(s) = Len(t)
    BY <1>1, <1>2
  <2>2. \A i \in 1..Len(s) : s[i] = t[i]
    BY <1>4, <1>5, <2>1
  <2> QED BY <2>1, <2>2, SeqEqual
<1> QED BY <1>8, <1>9

\* The place of a path of module Unstructured.
PlaceOf(p) == ElementsOf(NamesOf[p])

\* The paths of module Unstructured are a tree, and their places are the same tree.
LEMMA PlaceTree ==
    ASSUME NEW p \in Flat!Path, NEW q \in Flat!Path
    PROVE  /\ PlaceOf(p) \in Seq(Element)
           /\ PlaceOf(p) \in Seq(Step)
           /\ IsPrefix(PlaceOf(p), PlaceOf(q)) <=> q \in Flat!Subtree(p)
           /\ PlaceOf(p) = PlaceOf(q) <=> p = q
           /\ IsStrictPrefix(PlaceOf(p), PlaceOf(q)) <=> q \in Flat!Subtree(p) \ {p}
<1>1. NamesOf[p] \in Seq(Names) /\ NamesOf[q] \in Seq(Names)
  BY PathsAreNames
<1>2. PlaceOf(p) \in Seq(Element) /\ PlaceOf(p) \in Seq(Step)
  BY <1>1, ElementsOfNames DEF PlaceOf
<1>3. IsPrefix(PlaceOf(p), PlaceOf(q)) <=> q \in Flat!Subtree(p)
  BY <1>1, ElementsPrefix, PathTree DEF PlaceOf
<1>4. PlaceOf(p) = PlaceOf(q) <=> NamesOf[p] = NamesOf[q]
  BY <1>1, ElementsPrefix DEF PlaceOf
<1>5. NamesOf[p] = NamesOf[q] => p = q
  <2> SUFFICES ASSUME NamesOf[p] = NamesOf[q] PROVE p = q
    OBVIOUS
  <2>1. IsPrefix(NamesOf[p], NamesOf[q]) /\ IsPrefix(NamesOf[q], NamesOf[p])
    BY <1>1, PrefixOfItself
  <2>2. q \in Flat!Subtree(p) /\ p \in Flat!Subtree(q)
    BY <2>1, PathTree
  <2> QED BY <2>2, UnderTable, ThePaths
          DEF Flat!Subtree, Flat!ManualFields, Flat!RestoreFields
<1> QED BY <1>2, <1>3, <1>4, <1>5 DEF IsStrictPrefix

-----------------------------------------------------------------------------
(* What is managed.                                                        *)

\* The managed paths that module Unstructured knows.
FlatOf(paths) == {p \in Flat!Path : PlaceOf(p) \in paths}

\* What the assumptions on the constants say of an object and its paths.
LEMMA ManagedIs ==
    ASSUME NEW x \in Objects, NEW paths \in Managed(x)
    PROVE  /\ IsManaged(paths) /\ IsDocument(x) /\ IsCluster(x)
           /\ Extractable(x, paths)
           /\ Extractable(x, Leaves(paths))
<1>1. IsManaged(paths) /\ IsDocument(x) /\ IsCluster(x)
  BY ManagedAssumption, ObjectsAssumption DEF ManagedAssumption, ObjectsAssumption
<1>2. Extractable(x, paths)
  BY <1>1 DEF IsManaged, Extractable
<1>3. Leaves(paths) \subseteq paths
  BY DEF Leaves
<1>4. IsFiniteSet(Leaves(paths))
  BY <1>2, <1>3, FS_Subset DEF Extractable
<1>5. Extractable(x, Leaves(paths))
  BY <1>2, <1>3, <1>4 DEF Extractable
<1> QED BY <1>1, <1>2, <1>5

\* The leaves of one module are the leaves of the other.
LEMMA LeavesAre ==
    ASSUME NEW paths, IsManaged(paths), NEW p \in Flat!Path
    PROVE  PlaceOf(p) \in Leaves(paths) <=> p \in Flat!LeavesOf(FlatOf(paths))
<1>1. PlaceOf(p) \in paths <=> p \in FlatOf(paths)
  BY DEF FlatOf
<1>2. Flat!Subtree(p) \ {p} = IF p \in Flat!Field THEN {} ELSE Flat!Under[p]
  BY ThePaths, UnderTable DEF Flat!Subtree, Flat!ManualFields, Flat!RestoreFields
<1>3. ASSUME PlaceOf(p) \in Leaves(paths)
      PROVE  p \in Flat!LeavesOf(FlatOf(paths))
  <2>1. p \in FlatOf(paths)
    BY <1>1, <1>3 DEF Leaves
  <2>2. ASSUME NEW q \in FlatOf(paths), q \in Flat!Under[p], p \notin Flat!Field
        PROVE  FALSE
    <3>1. q \in Flat!Path /\ PlaceOf(q) \in paths
      BY DEF FlatOf
    <3>2. IsStrictPrefix(PlaceOf(p), PlaceOf(q))
      BY <1>2, <2>2, <3>1, PlaceTree
    <3> QED BY <1>3, <3>1, <3>2 DEF Leaves
  <2> QED BY <2>1, <2>2 DEF Flat!LeavesOf
<1>4. ASSUME p \in Flat!LeavesOf(FlatOf(paths))
      PROVE  PlaceOf(p) \in Leaves(paths)
  <2>1. p \in FlatOf(paths) /\ (p \in Flat!Field \/ FlatOf(paths) \cap Flat!Under[p] = {})
    BY <1>4 DEF Flat!LeavesOf
  <2>2. ASSUME NEW r \in paths, IsStrictPrefix(PlaceOf(p), r)
        PROVE  FALSE
    <3>0. IsPrefix(PlaceOf(p), r)
      BY <2>2 DEF IsStrictPrefix
    <3>1. CASE \E q \in Flat!Path : r = PlaceOf(q)
      <4>1. PICK q \in Flat!Path : r = PlaceOf(q)
        BY <3>1
      <4>2. q \in FlatOf(paths)
        BY <4>1 DEF FlatOf
      <4>3. q \in Flat!Subtree(p) \ {p}
        BY <2>2, <4>1, PlaceTree
      <4> QED BY <1>2, <2>1, <4>2, <4>3
    <3>2. CASE \A q \in Flat!Path : ~IsPrefix(PlaceOf(q), r)
      BY <3>0, <3>2
    <3>3. CASE r \in {ElementsOf(<<"metadata">>), ElementsOf(annotations)}
      <4>1. IsPrefix(NamesOf[p], <<"metadata">>) \/ IsPrefix(NamesOf[p], annotations)
        <5> DEFINE names == NamesOf[p]
        <5>1. names \in Seq(Names)
          BY PathsAreNames
        <5>2. \A s \in Seq(Names) : IsPrefix(ElementsOf(names), ElementsOf(s)) => IsPrefix(names, s)
          BY <5>1, ElementsPrefix
        <5>3. IsPrefix(ElementsOf(names), r)
          BY <3>0 DEF PlaceOf
        <5> HIDE DEF names
        <5> QED BY <3>3, <5>2, <5>3, AnnotationsAreNames DEF names
      <4> QED BY <4>1, NoPrefixOfAnnotations
    <3> QED BY <3>1, <3>2, <3>3 DEF IsManaged, PlaceOf, annotations
  <2> QED BY <1>1, <2>1, <2>2 DEF Leaves
<1> QED BY <1>3, <1>4

\* A leaf is one of module Unstructured, or has nothing to do with its paths.
LEMMA LeafIs ==
    ASSUME NEW paths, IsManaged(paths), NEW leaf \in Leaves(paths)
    PROVE  \/ \E q \in Flat!LeavesOf(FlatOf(paths)) : q \in Flat!Path /\ leaf = PlaceOf(q)
           \/ \A q \in Flat!Path : ~IsPrefix(leaf, PlaceOf(q)) /\ ~IsPrefix(PlaceOf(q), leaf)
<1>1. leaf \in paths
  BY DEF Leaves
<1>2. \/ \E q \in Flat!Path : leaf = PlaceOf(q)
      \/ \A q \in Flat!Path : ~IsPrefix(leaf, PlaceOf(q)) /\ ~IsPrefix(PlaceOf(q), leaf)
  BY <1>1 DEF IsManaged, PlaceOf
<1> QED BY <1>2, LeavesAre

\* A path is covered when module Unstructured has it under a leaf.
LEMMA CoveredIs ==
    ASSUME NEW paths, IsManaged(paths), NEW p \in Flat!Path
    PROVE  Covered(Leaves(paths), PlaceOf(p))
             <=> \E q \in Flat!LeavesOf(FlatOf(paths)) : p \in Flat!Subtree(q)
<1>0. Flat!LeavesOf(FlatOf(paths)) \subseteq Flat!Path
  BY DEF Flat!LeavesOf, FlatOf
<1>1. ASSUME NEW leaf \in Leaves(paths), IsPrefix(leaf, PlaceOf(p))
      PROVE  \E q \in Flat!LeavesOf(FlatOf(paths)) : p \in Flat!Subtree(q)
  BY <1>1, LeafIs, PlaceTree
<1>2. ASSUME NEW q \in Flat!LeavesOf(FlatOf(paths)), p \in Flat!Subtree(q)
      PROVE  Covered(Leaves(paths), PlaceOf(p))
  <2>1. q \in Flat!Path
    BY <1>0
  <2>2. PlaceOf(q) \in Leaves(paths)
    BY <2>1, LeavesAre
  <2>3. IsPrefix(PlaceOf(q), PlaceOf(p))
    BY <1>2, <2>1, PlaceTree
  <2> QED BY <2>2, <2>3 DEF Covered
<1> QED BY <1>1, <1>2 DEF Covered

\* Paths lead on from a path when module Unstructured has a leaf under it.
LEMMA LeadingIs ==
    ASSUME NEW paths, IsManaged(paths), NEW p \in Flat!Path
    PROVE  Leading(Leaves(paths), PlaceOf(p))
             <=> \E q \in Flat!LeavesOf(FlatOf(paths)) : q \in Flat!Subtree(p) \ {p}
<1>0. Flat!LeavesOf(FlatOf(paths)) \subseteq Flat!Path
  BY DEF Flat!LeavesOf, FlatOf
<1>1. ASSUME NEW leaf \in Leaves(paths), IsStrictPrefix(PlaceOf(p), leaf)
      PROVE  \E q \in Flat!LeavesOf(FlatOf(paths)) : q \in Flat!Subtree(p) \ {p}
  <2>1. IsPrefix(PlaceOf(p), leaf)
    BY <1>1 DEF IsStrictPrefix
  <2>2. PICK q \in Flat!LeavesOf(FlatOf(paths)) : q \in Flat!Path /\ leaf = PlaceOf(q)
    BY <2>1, LeafIs
  <2> QED BY <1>1, <2>2, PlaceTree
<1>2. ASSUME NEW q \in Flat!LeavesOf(FlatOf(paths)), q \in Flat!Subtree(p) \ {p}
      PROVE  Leading(Leaves(paths), PlaceOf(p))
  <2>1. q \in Flat!Path
    BY <1>0
  <2>2. PlaceOf(q) \in Leaves(paths)
    BY <2>1, LeavesAre
  <2>3. IsStrictPrefix(PlaceOf(p), PlaceOf(q))
    BY <1>2, <2>1, PlaceTree
  <2> QED BY <2>2, <2>3 DEF Leading
<1> QED BY <1>1, <1>2 DEF Leading

-----------------------------------------------------------------------------
(* The intent as it is extracted.                                          *)

\* A path of module Unstructured in what is extracted.
LEMMA PathExtracted ==
    ASSUME NEW x \in Objects, NEW paths \in Managed(x), NEW call,
           IsCalls(x, Leaves(paths), call),
           extractDepthFirst(x, Leaves(paths)) = call[<<<<>>, <<>>>>],
           NEW p \in Flat!Path
    PROVE  NestedField(ExtractFieldsInto(x, paths), NamesOf[p]) =
              IF \E q \in Flat!LeavesOf(FlatOf(paths)) : p \in Flat!Subtree(q)
              THEN NestedField(x, NamesOf[p])
              ELSE IF /\ \E q \in Flat!LeavesOf(FlatOf(paths)) : q \in Flat!Subtree(p) \ {p}
                      /\ NestedField(x, NamesOf[p]) # None
                   THEN call[<<PlaceOf(p), PlaceOf(p)>>]
              ELSE None
<1>1. ExtractFieldsInto(x, paths) = TopMap(call[<<<<>>, <<>>>>])
  BY DEF ExtractFieldsInto, TopMap
<1>2. NamesOf[p] \in Seq(Names) /\ NamesOf[p] # <<>>
  <2>1. NamesOf[p] = Append(FrontOf[p], LastOf[p]) /\ FrontOf[p] \in Seq(Names) /\ LastOf[p] \in Names
    BY PathIs
  <2> QED BY <2>1, AppendProperties
<1>3. IsManaged(paths) /\ Extractable(x, Leaves(paths))
  BY ManagedIs
<1> QED BY <1>1, <1>2, <1>3, NestedExtracted, CoveredIs, LeadingIs DEF PlaceOf

-----------------------------------------------------------------------------
(* Where a path leads.                                                     *)

\* One element further from some places.
Further(x, e, places) ==
    UNION {{Append(place, s) : s \in StepsOf(At(x, place), e)} : place \in places}

\* The places that a path leads to, by how far it has come.
IsReach(x, path, n, reach) ==
    reach = [i \in 0..n |-> IF i = 0 THEN Top ELSE Further(x, path[i], reach[i - 1])]

\* Reach is well defined on every path.
LEMMA ReachExists ==
    ASSUME NEW x, NEW path, NEW n \in Nat
    PROVE  \E reach : IsReach(x, path, n, reach)
<1> DEFINE S == {m \in Nat : \E reach : IsReach(x, path, m, reach)}
<1>1. 0 \in S
  <2> DEFINE f == [i \in 0..0 |-> Top]
  <2>1. IsReach(x, path, 0, f)
    BY DEF IsReach
  <2> QED BY <2>1
<1>2. ASSUME NEW m \in Nat, m \in S
      PROVE  m + 1 \in S
  <2>1. PICK f : IsReach(x, path, m, f)
    BY <1>2
  <2> DEFINE g == [i \in 0..(m + 1) |-> IF i = m + 1 THEN Further(x, path[m + 1], f[m]) ELSE f[i]]
  <2>2. IsReach(x, path, m + 1, g)
    BY <2>1 DEF IsReach
  <2> QED BY <2>2
<1> HIDE DEF S
<1>3. n \in S
  BY <1>1, <1>2, NumberInduction
<1> QED BY <1>3 DEF S

\* Two paths that agree so far lead to the same places.
LEMMA SameReach ==
    ASSUME NEW x, NEW p, NEW q, NEW k \in Nat, NEW a, NEW b,
           IsReach(x, p, k, a), IsReach(x, q, k + 1, b), \A i \in 1..k : p[i] = q[i]
    PROVE  a[k] = b[k]
<1> DEFINE S == {i \in Nat : i <= k => a[i] = b[i]}
<1>1. 0 \in S
  BY DEF IsReach
<1>2. ASSUME NEW i \in Nat, i \in S
      PROVE  i + 1 \in S
  <2> SUFFICES ASSUME i + 1 <= k PROVE a[i + 1] = b[i + 1]
    OBVIOUS
  <2>1. a[i + 1] = Further(x, p[i + 1], a[i])
    BY DEF IsReach
  <2>2. b[i + 1] = Further(x, q[i + 1], b[i])
    BY DEF IsReach
  <2>3. p[i + 1] = q[i + 1]
    OBVIOUS
  <2> QED BY <1>2, <2>1, <2>2, <2>3
<1> HIDE DEF S
<1>3. k \in S
  BY <1>1, <1>2, NumberInduction
<1> QED BY <1>3 DEF S

\* Reach is one of these.
LEMMA ReachIs ==
    ASSUME NEW x, NEW path, Len(path) \in Nat
    PROVE  \E reach : IsReach(x, path, Len(path), reach) /\ Reach(x, path) = reach[Len(path)]
<1> DEFINE reach == CHOOSE reach : reach = [i \in 0..Len(path) |->
            IF i = 0 THEN {<<>>}
            ELSE UNION {{Append(place, s) : s \in StepsOf(At(x, place), path[i])} :
                          place \in reach[i - 1]}]
<1>1. IsReach(x, path, Len(path), reach)
  <2>1. \E f : IsReach(x, path, Len(path), f)
    BY ReachExists
  <2> QED BY <2>1, Zenon DEF IsReach, Further, Top
<1>2. Reach(x, path) = reach[Len(path)]
  BY DEF Reach
<1> HIDE DEF reach
<1> QED BY <1>1, <1>2

\* The empty path leads to the whole document.
LEMMA ReachEmpty ==
    ASSUME NEW x PROVE Reach(x, <<>>) = Top
<1>1. Len(<<>>) = 0
  OBVIOUS
<1>2. PICK reach : IsReach(x, <<>>, Len(<<>>), reach) /\ Reach(x, <<>>) = reach[Len(<<>>)]
  BY <1>1, ReachIs
<1> QED BY <1>1, <1>2 DEF IsReach

\* The last element leads one step further.
LEMMA ReachAppend ==
    ASSUME NEW x, NEW S, NEW path \in Seq(S), NEW e \in S
    PROVE  Reach(x, Append(path, e)) = Further(x, e, Reach(x, path))
<1> DEFINE longer == Append(path, e)
           k == Len(path)
<1>1. /\ Len(longer) = k + 1 /\ k \in Nat /\ longer[k + 1] = e
      /\ \A i \in 1..k : path[i] = longer[i]
  BY AppendProperties, LenProperties
<1> HIDE DEF longer
<1>2. PICK a : IsReach(x, path, k, a) /\ Reach(x, path) = a[k]
  BY <1>1, ReachIs
<1>3. PICK b : IsReach(x, longer, k + 1, b) /\ Reach(x, longer) = b[k + 1]
  BY <1>1, ReachIs
<1> HIDE DEF k
<1>4. a[k] = b[k]
  BY <1>1, <1>2, <1>3, SameReach
<1>5. b[k + 1] = Further(x, longer[k + 1], b[k])
  BY <1>1, <1>3 DEF IsReach
<1> QED BY <1>1, <1>2, <1>3, <1>4, <1>5 DEF longer

\* In a document a path leads to sequences of steps.
LEMMA ReachSteps ==
    ASSUME NEW x, IsDocument(x), NEW path \in Seq(Element)
    PROVE  Reach(x, path) \subseteq Seq(Step)
<1> DEFINE T == {p \in Seq(Element) : Reach(x, p) \subseteq Seq(Step)}
<1>1. <<>> \in T
  <2>1. <<>> \in Seq(Step) /\ <<>> \in Seq(Element)
    OBVIOUS
  <2>2. Top \subseteq Seq(Step)
    BY <2>1 DEF Top
  <2> QED BY <2>1, <2>2, ReachEmpty
<1>2. ASSUME NEW p \in Seq(Element), NEW e \in Element, p \in T
      PROVE  Append(p, e) \in T
  <2>1. ASSUME NEW place \in Reach(x, p), NEW s \in StepsOf(At(x, place), e)
        PROVE  Append(place, s) \in Seq(Step)
    <3>1. place \in Seq(Step)
      BY <1>2
    <3>2. DOMAIN Items(At(x, place)) = 1..Len(Items(At(x, place)))
      BY <3>1, DocumentAt
    <3>3. s \in Step
      <4>1. CASE e[1] = "f"
        <5>1. s = e
          BY <2>1, <4>1 DEF StepsOf
        <5> QED BY <4>1, <5>1 DEF Element, Step
      <4>2. CASE e[1] # "f"
        <5>1. PICK i \in DOMAIN Items(At(x, place)) : s = Index(i)
          BY <2>1, <4>2 DEF StepsOf
        <5>2. i \in Nat
          BY <3>2, <5>1
        <5> QED BY <5>1, <5>2 DEF Index, Step
      <4> QED BY <4>1, <4>2
    <3> QED BY <3>1, <3>3, AppendProperties
  <2>2. Further(x, e, Reach(x, p)) \subseteq Seq(Step)
    BY <2>1 DEF Further
  <2>3. Reach(x, Append(p, e)) \subseteq Seq(Step)
    BY <2>2, ReachAppend
  <2> QED BY <2>3, AppendProperties
<1> HIDE DEF T
<1>3. path \in T
  BY <1>1, <1>2, SequenceInduction
<1> QED BY <1>3 DEF T

\* Where a place is reached, a step of the next element reaches the next.
LEMMA ReachNext ==
    ASSUME NEW x, NEW path \in Seq(Element), NEW e \in Element,
           NEW place \in Reach(x, path), NEW s \in StepsOf(At(x, place), e)
    PROVE  Append(place, s) \in Reach(x, Append(path, e))
<1>1. Reach(x, Append(path, e)) = Further(x, e, Reach(x, path))
  BY ReachAppend
<1> QED BY <1>1 DEF Further

\* The step of the name of a field.
LEMMA StepOfName ==
    ASSUME NEW y, NEW n
    PROVE  FieldName(n) \in StepsOf(y, FieldName(n)) <=> n \in Keys(y)
BY DEF StepsOf, FieldName

\* Names lead where there is something.
LEMMA ReachNames ==
    ASSUME NEW x, NEW names \in Seq(Names), NestedField(x, names) # None
    PROVE  ElementsOf(names) \in Reach(x, ElementsOf(names))
<1> DEFINE T == {m \in Seq(Names) : NestedField(x, m) # None =>
                     ElementsOf(m) \in Reach(x, ElementsOf(m))}
<1>1. <<>> \in T
  BY ReachEmpty, ElementsOfEmpty, EmptySeq DEF Top
<1>2. ASSUME NEW m \in Seq(Names), NEW n \in Names, m \in T
      PROVE  Append(m, n) \in T
  <2> SUFFICES ASSUME NestedField(x, Append(m, n)) # None
               PROVE  ElementsOf(Append(m, n)) \in Reach(x, ElementsOf(Append(m, n)))
    BY AppendProperties
  <2> DEFINE y == NestedField(x, m)
             e == ElementsOf(m)
  <2>1. FieldOf(y, n) # None
    BY NestedFieldAppend
  <2>2. n \in Keys(y)
    BY <2>1 DEF FieldOf
  <2>3. y # None
    BY <2>2 DEF Keys, IsMap, None
  <2>4. e \in Reach(x, e)
    BY <1>2, <2>3
  <2>5. e \in Seq(Element) /\ FieldName(n) \in Element
    BY ElementsOfNames DEF FieldName, Element
  <2>6. At(x, e) = y
    BY DEF NestedField
  <2>7. FieldName(n) \in StepsOf(At(x, e), FieldName(n))
    BY <2>2, <2>6, StepOfName
  <2>8. ElementsOf(Append(m, n)) = Append(e, FieldName(n))
    BY ElementsOfAppend
  <2> HIDE DEF e, y
  <2> QED BY <2>4, <2>5, <2>7, <2>8, ReachNext
<1> HIDE DEF T
<1>3. names \in T
  BY <1>1, <1>2, SequenceInduction
<1> QED BY <1>3 DEF T

-----------------------------------------------------------------------------
(* Paths that an object has.                                               *)

\* Tracked, of any object and any paths.
Follows(x, paths) ==
    \A path \in paths : \A i \in 1..Len(path) :
        \A place \in Reach(x, SubSeq(path, 1, i - 1)) :
            StepsOf(At(x, place), path[i]) # {}

\* By their types no leaf ends in a key.
EndsWell(paths) == \A p \in paths : p[Len(p)][1] # "k"

\* Where a path that is followed leads, it leads on.
LEMMA FollowedStep ==
    ASSUME NEW x, NEW paths, paths \subseteq Seq(Element), Follows(x, paths),
           NEW path \in Seq(Element), NEW q \in paths, IsStrictPrefix(path, q)
    PROVE  /\ q[Len(path) + 1] \in Element
           /\ q[Len(path) + 1] \in Members(paths, path) \cup Children(paths, path)
           /\ IsPrefix(Append(path, q[Len(path) + 1]), q)
           /\ \A place \in Reach(x, path) : StepsOf(At(x, place), q[Len(path) + 1]) # {}
<1> DEFINE k == Len(path)
           e == q[k + 1]
<1>1. q \in Seq(Element) /\ k \in Nat
  BY LenProperties
<1>2. k + 1 \in 1..Len(q) /\ e \in Element
  BY <1>1, StrictPrefixShorter
<1>3. SubSeq(q, 1, k) = path
  <2>1. SubSeq(path, 1, k) = path
    BY SubSeqFull
  <2>2. SubSeq(path, 1, k) = SubSeq(q, 1, k)
    BY DEF IsStrictPrefix, IsPrefix
  <2> QED BY <2>1, <2>2
<1>4. \A place \in Reach(x, path) : StepsOf(At(x, place), e) # {}
  <2> HIDE DEF k
  <2>1. (k + 1) - 1 = k
    BY <1>1
  <2>2. \A place \in Reach(x, SubSeq(q, 1, (k + 1) - 1)) : StepsOf(At(x, place), q[k + 1]) # {}
    BY <1>2 DEF Follows
  <2> QED BY <1>3, <2>1, <2>2
<1>5. IsPrefix(Append(path, e), q)
  BY <1>1, <1>2, AppendIsPrefix
<1>6. e \in Members(paths, path) \cup Children(paths, path)
  <2>1. CASE Append(path, e) = q
    BY <1>2, <2>1, MembersAre
  <2>2. CASE Append(path, e) # q
    <3>1. IsStrictPrefix(Append(path, e), q)
      BY <1>5, <2>2 DEF IsStrictPrefix
    <3> HIDE DEF e
    <3> QED BY <1>2, <3>1, ChildrenAre
  <2> QED BY <2>1, <2>2
<1> QED BY <1>2, <1>4, <1>5, <1>6

\* What a call finds.
LEMMA ExtractedIs ==
    ASSUME NEW src, NEW paths, NEW place, NEW path, NEW call
    PROVE  LET map  == MapOf(src, paths, place, path, call)
               list == ListOf(src, paths, place, path, call)
               r    == Extracted(src, paths, place, path, call)
           IN  \/ DOMAIN map # {} /\ r = Map(map)
               \/ DOMAIN map = {} /\ list # <<>> /\ r = List(list)
               \/ DOMAIN map = {} /\ list = <<>> /\ r = Nil
<1> DEFINE map == MapOf(src, paths, place, path, call)
           list == ListOf(src, paths, place, path, call)
<1>1. Extracted(src, paths, place, path, call) =
          IF DOMAIN map # {} THEN Map(map) ELSE IF list # <<>> THEN List(list) ELSE Nil
  BY DEF Extracted
<1> HIDE DEF map, list
<1> QED BY <1>1 DEF map, list

\* There is something in a list that keys or values lead to.
LEMMA ListIsNotEmpty ==
    ASSUME NEW src, NEW paths, Extractable(src, paths),
           NEW place \in Seq(Step), NEW path \in Seq(Element), NEW call,
           KeyedItems(src, paths, place, path) # {} \/ SetValues(paths, path) # {}
    PROVE  ListOf(src, paths, place, path, call) # <<>>
<1> DEFINE keyed == KeyedItems(src, paths, place, path)
           values == SetValues(paths, path)
           K == Cardinality(keyed)
           V == Cardinality(values)
           list == ListOf(src, paths, place, path, call)
<1>1. K \in Nat /\ V \in Nat /\ Len(list) = K + V
  BY ListIs
<1>2. keyed # {} => K # 0
  BY KeyedItemsAre, InOrderIs
<1>3. values # {} => V # 0
  BY SetValuesAre, InOrderIs
<1>4. Len(<<>>) = 0
  OBVIOUS
<1> HIDE DEF K, V, keyed, values, list
<1> QED BY <1>1, <1>2, <1>3, <1>4 DEF keyed, values, list

\* A value leads nowhere.
LEMMA ValueHasNoSteps ==
    ASSUME NEW v, NEW e PROVE StepsOf(Value(v), e) = {}
<1>1. Keys(Value(v)) = {} /\ Items(Value(v)) = <<>>
  BY NothingIn DEF Value
<1>2. DOMAIN <<>> = {}
  OBVIOUS
<1> QED BY <1>1, <1>2 DEF StepsOf

\* A call that a path leads to, and that leads on, finds something.
LEMMA CallFinds ==
    ASSUME NEW x, NEW paths, Extractable(x, paths), Follows(x, paths), EndsWell(paths),
           NEW call, IsCalls(x, paths, call),
           NEW path \in Seq(Element), Leading(paths, path), NEW place \in Reach(x, path)
    PROVE  call[<<place, path>>] # Nil
<1> DEFINE y == At(x, place)
           r == Extracted(x, paths, place, path, call)
           map == MapOf(x, paths, place, path, call)
           list == ListOf(x, paths, place, path, call)
<1>0. paths \subseteq Seq(Element) /\ IsDocument(x)
  BY DEF Extractable
<1>1. place \in Seq(Step)
  BY <1>0, ReachSteps
<1>2. PICK q \in paths : IsStrictPrefix(path, q)
  BY DEF Leading
<1> DEFINE c == q[Len(path) + 1]
<1>3. /\ c \in Element /\ c \in Members(paths, path) \cup Children(paths, path)
      /\ StepsOf(y, c) # {}
  BY <1>0, <1>2, FollowedStep
<1> HIDE DEF c
<1>4. call[<<place, path>>] = r
  BY <1>1, CallIs
<1>5. SUFFICES DOMAIN map # {} \/ list # <<>>
  <2>1. r # Nil
    <3>1. \/ DOMAIN map # {} /\ r = Map(map)
          \/ DOMAIN map = {} /\ list # <<>> /\ r = List(list)
          \/ DOMAIN map = {} /\ list = <<>> /\ r = Nil
      BY ExtractedIs
    <3> HIDE DEF map, list, r
    <3> QED BY <1>5, <3>1 DEF Map, List, Nil
  <2> QED BY <1>4, <2>1
<1>6. CASE c[1] = "f"
  <2>1. c \in Step /\ c = FieldName(c[2])
    BY <1>3, <1>6 DEF Element, Step, FieldName
  <2>2. c[2] \in Keys(y)
    <3>1. PICK n \in Keys(y) : c = FieldName(n)
      BY <1>3, <1>6 DEF StepsOf
    <3> QED BY <3>1 DEF FieldName
  <2>3. c[2] \in DOMAIN map
    BY <1>3, <2>1, <2>2 DEF MapOf
  <2> QED BY <2>3
<1>7. CASE c[1] = "k"
  <2>1. c = Key(c[2])
    BY <1>3, <1>7 DEF Element, Key
  <2>2. PICK j \in DOMAIN Items(y) : objectHasKey(Items(y)[j], c[2])
    BY <1>3, <1>7 DEF StepsOf
  <2>3. c \in Children(paths, path)
    <3> SUFFICES ASSUME c \in Members(paths, path) PROVE FALSE
      BY <1>3
    <3> DEFINE longer == Append(path, c)
    <3>1. longer \in paths
      BY <1>0, <1>3, MembersAre
    <3>2. Len(longer) = Len(path) + 1 /\ longer[Len(path) + 1] = c
      BY <1>3, AppendProperties
    <3> HIDE DEF longer
    <3> QED BY <1>7, <3>1, <3>2 DEF EndsWell
  <2>4. <<c[2], j>> \in KeyedItems(x, paths, place, path)
    BY <1>1, <2>1, <2>2, <2>3, KeyedItemsAre
  <2> QED BY <1>1, <2>4, ListIsNotEmpty
<1>8. CASE c[1] = "v"
  <2>1. c = SetValue(c[2])
    BY <1>3, <1>8 DEF Element, SetValue
  <2>2. PICK j \in DOMAIN Items(y) : Items(y)[j] = Value(c[2])
    BY <1>3, <1>8 DEF StepsOf
  <2>3. CASE c \in Members(paths, path)
    <3>1. <<c[2], 0>> \in SetValues(paths, path)
      BY <2>1, <2>3, SetValuesAre
    <3> QED BY <1>1, <3>1, ListIsNotEmpty
  <2>4. CASE c \in Children(paths, path)
    <3> DEFINE longer == Append(path, c)
               further == Append(place, Index(j))
    <3>1. PICK p \in paths : IsStrictPrefix(longer, p)
      BY <1>0, <1>3, <2>4, ChildrenAre
    <3>2. longer \in Seq(Element)
      BY <1>3, AppendProperties
    <3>3. Index(j) \in StepsOf(y, c)
      BY <1>8, <2>2 DEF StepsOf
    <3>4. further \in Reach(x, longer)
      BY <1>3, <3>3, ReachNext
    <3>5. At(x, further) = Value(c[2])
      <4>1. Index(j) \in Step
        <5>0. DOMAIN Items(y) = 1..Len(Items(y)) /\ Len(Items(y)) \in Nat
          BY <1>0, <1>1, DocumentAt
        <5>1. j \in Nat
          <6> HIDE DEF y
          <6> QED BY <2>2, <5>0
        <5> QED BY <5>1 DEF Index, Step
      <4>2. At(x, further) = StepInto(y, Index(j))
        BY <1>1, <4>1, AtAppend
      <4>3. StepInto(y, Index(j)) = Items(y)[j]
        BY <2>2 DEF StepInto, Index
      <4> QED BY <2>2, <4>2, <4>3
    <3> HIDE DEF longer, further
    <3>6. StepsOf(At(x, further), p[Len(longer) + 1]) # {}
      BY <1>0, <3>1, <3>2, <3>4, FollowedStep
    <3> QED BY <3>5, <3>6, ValueHasNoSteps
  <2> QED BY <1>3, <2>3, <2>4
<1> QED BY <1>3, <1>6, <1>7, <1>8 DEF Element

-----------------------------------------------------------------------------
(* Documents without null.                                                 *)

\* One step from the top.
LEMMA AtFirst ==
    ASSUME NEW x, NEW s \in Step
    PROVE  /\ Append(<<>>, s) \in Seq(Step)
           /\ At(x, Append(<<>>, s)) = StepInto(x, s)
<1> DEFINE none == <<>>
<1>1. none \in Seq(Step) /\ At(x, none) = x
  BY AtEmpty
<1> HIDE DEF none
<1>2. Append(none, s) \in Seq(Step) /\ At(x, Append(none, s)) = StepInto(At(x, none), s)
  BY <1>1, AtAppend, AppendProperties
<1> QED BY <1>1, <1>2 DEF none

\* No part of a document without null has one.
LEMMA NoNilNext ==
    ASSUME NEW x, NoNil(x), NEW s \in Step
    PROVE  NoNil(StepInto(x, s))
<1>1. ASSUME NEW place \in Seq(Step)
      PROVE  At(StepInto(x, s), place) # Nil
  <2> DEFINE first == Append(<<>>, s)
  <2>1. <<>> \in Seq(Step)
    OBVIOUS
  <2>2. first \in Seq(Step) /\ At(x, first) = StepInto(x, s)
    BY <2>1, AtFirst
  <2> HIDE DEF first
  <2>3. first \o place \in Seq(Step) /\ At(x, first \o place) = At(At(x, first), place)
    BY <2>2, AtConcat, ConcatProperties
  <2> QED BY <2>2, <2>3 DEF NoNil
<1> QED BY <1>1 DEF NoNil

\* What is in a document without nil has none either.
LEMMA NoNilAt ==
    ASSUME NEW x, NoNil(x), NEW p \in Seq(Step)
    PROVE  NoNil(At(x, p))
<1>1. ASSUME NEW q \in Seq(Step)
      PROVE  At(At(x, p), q) # Nil
  <2>1. p \o q \in Seq(Step) /\ At(x, p \o q) = At(At(x, p), q)
    BY AtConcat, ConcatProperties
  <2> QED BY <2>1 DEF NoNil
<1> QED BY <1>1 DEF NoNil

\* A document without null is one whose parts are.
LEMMA NoNilFrom ==
    ASSUME NEW x, x # Nil, \A s \in Step : NoNil(StepInto(x, s))
    PROVE  NoNil(x)
<1>1. ASSUME NEW place \in Seq(Step), place # <<>>
      PROVE  At(x, place) # Nil
  <2> DEFINE s == Head(place)
             rest == Tail(place)
             first == Append(<<>>, s)
  <2>1. s \in Step /\ rest \in Seq(Step) /\ <<>> \in Seq(Step)
    BY <1>1, HeadTailProperties
  <2>2. first \in Seq(Step) /\ At(x, first) = StepInto(x, s)
    BY <2>1, AtFirst
  <2>3. place = first \o rest
    <3>1. place = <<s>> \o rest
      BY <1>1
    <3>2. first = <<s>>
      BY <2>1
    <3> QED BY <3>1, <3>2
  <2> HIDE DEF first, s, rest
  <2>4. At(x, place) = At(StepInto(x, s), rest)
    BY <2>1, <2>2, <2>3, AtConcat
  <2> QED BY <2>1, <2>4 DEF NoNil
<1> QED BY <1>1, AtEmpty DEF NoNil

\* A value is no null.
LEMMA NoNilFlat ==
    ASSUME NEW x, x[1] \notin {"map", "list"}, x # Nil
    PROVE  NoNil(x)
<1>1. \A s : StepInto(x, s) = None
  BY NothingIn, StepIntoNothing
<1>2. ASSUME NEW place \in Seq(Step), place # <<>>
      PROVE  At(x, place) # Nil
  BY <1>2, AtNothing DEF None, Nil
<1> QED BY <1>2, AtEmpty DEF NoNil

\* Nothing is not nil.
LEMMA NoNilNone == NoNil(None)
BY NoNilFlat DEF None, Nil

\* Nor is a value, or what is in it.
LEMMA NoNilValue == ASSUME NEW v PROVE NoNil(Value(v))
BY NoNilFlat DEF Value, Nil

\* Maps, by their fields.
LEMMA NoNilMap ==
    ASSUME NEW x, IsMap(x), \A n \in Names : NoNil(FieldOf(x, n))
    PROVE  NoNil(x)
<1>1. x # Nil
  BY DEF IsMap, Nil
<1>2. Items(x) = <<>> /\ DOMAIN <<>> = {}
  BY DEF Items, IsMap
<1>3. ASSUME NEW s \in Step
      PROVE  NoNil(StepInto(x, s))
  <2>1. CASE s[1] = "f"
    <3>1. s[2] \in Names /\ StepInto(x, s) = FieldOf(x, s[2])
      BY <2>1 DEF Step, StepInto
    <3> QED BY <3>1
  <2>2. CASE s[1] # "f"
    <3>1. StepInto(x, s) = None
      BY <1>2, <2>2 DEF StepInto
    <3> QED BY <3>1, NoNilNone
  <2> QED BY <2>1, <2>2
<1> QED BY <1>1, <1>3, NoNilFrom

\* Lists, by their items.
LEMMA NoNilList ==
    ASSUME NEW list, \A i \in DOMAIN list : NoNil(list[i])
    PROVE  NoNil(List(list))
<1> DEFINE x == List(list)
<1>1. x # Nil /\ Keys(x) = {} /\ Items(x) = list
  BY DEF List, Nil, Keys, Items, IsMap
<1> HIDE DEF x
<1>2. ASSUME NEW s \in Step
      PROVE  NoNil(StepInto(x, s))
  <2>1. StepInto(x, s) = None \/ \E i \in DOMAIN list : StepInto(x, s) = list[i]
    BY <1>1 DEF StepInto, FieldOf
  <2> QED BY <2>1, NoNilNone
<1>3. NoNil(x)
  BY <1>1, <1>2, NoNilFrom
<1> QED BY <1>3 DEF x

\* The fields of a document without null.
LEMMA NoNilField ==
    ASSUME NEW x, NoNil(x), NEW n \in Names
    PROVE  NoNil(FieldOf(x, n))
<1>1. FieldName(n) \in Step /\ StepInto(x, FieldName(n)) = FieldOf(x, n)
  BY DEF FieldName, Step, StepInto
<1> QED BY <1>1, NoNilNext

\* No nil in a nested field.
LEMMA NoNilNested ==
    ASSUME NEW x, NoNil(x), NEW names \in Seq(Names)
    PROVE  NoNil(NestedField(x, names))
<1> DEFINE T == {m \in Seq(Names) : NoNil(NestedField(x, m))}
<1>1. <<>> \in T
  BY NestedFieldEmpty
<1>2. ASSUME NEW m \in Seq(Names), NEW n \in Names, m \in T
      PROVE  Append(m, n) \in T
  BY <1>2, NestedFieldAppend, NoNilField, AppendProperties
<1> HIDE DEF T
<1>3. names \in T
  BY <1>1, <1>2, SequenceInduction
<1> QED BY <1>3 DEF T

\* A field more or less.
LEMMA NoNilWith ==
    ASSUME NEW x, NoNil(x), NEW n, NEW y, NoNil(y)
    PROVE  NoNil(With(x, n, y))
<1>1. \A m \in Names : NoNil(FieldOf(With(x, n, y), m))
  BY FieldOfWith, NoNilField
<1> QED BY <1>1, FieldOfWith, NoNilMap

\* No nil comes from taking a field away.
LEMMA NoNilWithout ==
    ASSUME NEW x, NoNil(x), NEW n
    PROVE  NoNil(Without(x, n))
<1>1. \A m \in Names : NoNil(FieldOf(Without(x, n), m))
  BY FieldOfWithout, NoNilField, NoNilNone
<1> QED BY <1>1, FieldOfWithout, NoNilMap

\* Setting a field makes no null.
LEMMA NoNilSet ==
    ASSUME NEW x, NoNil(x), NEW names \in Seq(Names), NEW y, NoNil(y)
    PROVE  NoNil(SetNestedField(x, names, y))
<1> DEFINE T == {m \in Seq(Names) : \A z : NoNil(z) => NoNil(SetNestedField(x, m, z))}
<1>1. <<>> \in T
  BY SetEmpty
<1>2. ASSUME NEW m \in Seq(Names), NEW n \in Names, m \in T
      PROVE  Append(m, n) \in T
  <2>1. ASSUME NEW z, NoNil(z)
        PROVE  NoNil(SetNestedField(x, Append(m, n), z))
    <3>1. NoNil(With(NestedField(x, m), n, z))
      BY <2>1, NoNilNested, NoNilWith
    <3>2. NoNil(SetNestedField(x, m, With(NestedField(x, m), n, z)))
      BY <1>2, <3>1
    <3> QED BY <3>2, SetAppend
  <2> QED BY <2>1, AppendProperties
<1> HIDE DEF T
<1>3. names \in T
  BY <1>1, <1>2, SequenceInduction
<1> QED BY <1>3 DEF T

-----------------------------------------------------------------------------
(* What a followed path leads to is without null.                          *)

\* Where paths follow the document, a call on the way to one has no nil in its result, by
\* induction on how much of the longest path is left.
LEMMA CallNoNil ==
    ASSUME NEW x, NEW paths, Extractable(x, paths), Follows(x, paths), EndsWell(paths),
           NEW call, IsCalls(x, paths, call),
           NEW path \in Seq(Element), Leading(paths, path), NEW place \in Reach(x, path)
    PROVE  NoNil(call[<<place, path>>])
<1> DEFINE Fine(k) == \A e \in Seq(Element) : Leading(paths, e) /\ Len(e) + k >= MaxDepth =>
                          \A p \in Reach(x, e) : NoNil(call[<<p, e>>])
           S == {k \in Nat : Fine(k)}
<1>0. paths \subseteq Seq(Element) /\ IsDocument(x) /\ NoNil(x) /\ MaxDepth \in Nat
  BY DocumentNoNil, NamesAssumption DEF Extractable, NamesAssumption
<1>1. 0 \in S
  <2>1. ASSUME NEW e \in Seq(Element), Leading(paths, e), Len(e) + 0 >= MaxDepth
        PROVE  FALSE
    <3>1. PICK q \in paths : IsStrictPrefix(e, q)
      BY <2>1 DEF Leading
    <3>2. q \in Seq(Element) /\ Len(e) + 1 \in 1..Len(q) /\ Len(e) \in Nat
      BY <1>0, <3>1, StrictPrefixShorter, LenProperties
    <3>3. Len(q) \in Nat /\ Len(q) <= MaxDepth
      BY <1>0, <3>1, <3>2, LenProperties DEF Extractable
    <3> QED BY <1>0, <2>1, <3>2, <3>3
  <2> QED BY <2>1
<1>2. ASSUME NEW k \in Nat, k \in S
      PROVE  k + 1 \in S
  <2> SUFFICES ASSUME NEW e \in Seq(Element), Leading(paths, e), Len(e) + (k + 1) >= MaxDepth,
                      NEW p \in Reach(x, e)
               PROVE  NoNil(call[<<p, e>>])
    OBVIOUS
  <2> DEFINE y == At(x, p)
             r == Extracted(x, paths, p, e, call)
             map == MapOf(x, paths, p, e, call)
             list == ListOf(x, paths, p, e, call)
             keyed == KeyedItems(x, paths, p, e)
  <2>1. p \in Seq(Step)
    BY <1>0, ReachSteps
  <2>2. call[<<p, e>>] = r /\ r # Nil
    BY <2>1, CallIs, CallFinds
  <2>3. ASSUME NEW c \in Element, c \in Children(paths, e), NEW s \in StepsOf(y, c)
        PROVE  NoNil(call[<<Append(p, s), Append(e, c)>>])
    <3> DEFINE longer == Append(e, c)
               further == Append(p, s)
    <3>1. longer \in Seq(Element) /\ Len(longer) = Len(e) + 1 /\ Len(e) \in Nat
      BY AppendProperties, LenProperties
    <3>2. further \in Reach(x, longer)
      BY <2>3, ReachNext
    <3>3. Leading(paths, longer)
      BY <1>0, <2>3, ChildrenAre DEF Leading
    <3> HIDE DEF longer, further
    <3>4. Len(longer) + k >= MaxDepth
      BY <1>0, <3>1
    <3>5. Fine(k)
      BY <1>2
    <3>6. NoNil(call[<<further, longer>>])
      BY <3>1, <3>2, <3>3, <3>4, <3>5
    <3> QED BY <3>6 DEF longer, further
  <2>4. NoNil(y)
    BY <1>0, <2>1, NoNilAt
  <2>5. ASSUME NEW n \in Names
        PROVE  NoNil(FieldOf(r, n))
    <3>1. FieldName(n) \in Element
      BY DEF FieldName, Element
    <3>2. ASSUME n \in Keys(y), FieldName(n) \in Children(paths, e)
          PROVE  NoNil(call[<<Append(p, FieldName(n)), Append(e, FieldName(n))>>])
      BY <2>3, <3>1, <3>2, StepOfName
    <3>3. FieldOf(r, n) = IF n \notin Keys(y) THEN None
                          ELSE IF FieldName(n) \in Members(paths, e) THEN FieldOf(y, n)
                          ELSE IF FieldName(n) \in Children(paths, e)
                               THEN call[<<Append(p, FieldName(n)), Append(e, FieldName(n))>>]
                          ELSE None
      BY FieldOfExtracted
    <3>4. NoNil(FieldOf(y, n))
      BY <2>4, NoNilField
    <3> HIDE DEF y, r
    <3> QED BY <3>2, <3>3, <3>4, NoNilNone
  <2>6. ASSUME NEW i \in DOMAIN list
        PROVE  NoNil(list[i])
    <3> DEFINE K == Cardinality(keyed)
               values == SetValues(paths, e)
               V == Cardinality(values)
    <3>1. /\ K \in Nat /\ V \in Nat /\ DOMAIN list = 1..(K + V)
          /\ \A j \in 1..K : list[j] = ItemOf(p, e, InOrder(keyed)[j], call)
          /\ \A j \in 1..V : list[K + j] = Value(InOrder(values)[j][1])
      BY <2>1, ListIs
    <3>2. CASE i \in 1..K
      <4> DEFINE pair == InOrder(keyed)[i]
      <4>1. keyed \subseteq Nat \X Nat /\ IsFiniteSet(keyed)
        BY <2>1, KeyedItemsAre
      <4>2. pair \in keyed
        BY <3>2, <4>1, InOrderIs
      <4>3. PICK key \in Nat, j \in Nat : pair = <<key, j>>
        BY <4>1, <4>2
      <4>4. /\ Key(key) \in Children(paths, e) /\ j \in DOMAIN Items(y)
            /\ objectHasKey(Items(y)[j], key)
        BY <2>1, <4>2, <4>3, KeyedItemsAre
      <4>5. Key(key) \in Element /\ Index(j) \in StepsOf(y, Key(key))
        BY <4>4 DEF Key, Element, StepsOf, Index
      <4> DEFINE item == call[<<Append(p, Index(j)), Append(e, Key(key))>>]
      <4>6. NoNil(item)
        BY <2>3, <4>4, <4>5
      <4>7. ItemOf(p, e, pair, call) \in {item, With(item, "uid", Value(key))}
        <5>1. pair[1] = key /\ pair[2] = j
          BY <4>3
        <5> HIDE DEF pair
        <5> QED BY <5>1 DEF ItemOf
      <4>8. NoNil(ItemOf(p, e, pair, call))
        <5> HIDE DEF item, pair
        <5> QED BY <4>6, <4>7, NoNilWith, NoNilValue
      <4> QED BY <3>1, <3>2, <4>8
    <3>3. CASE i \notin 1..K
      <4> HIDE DEF K, V, list, keyed, values
      <4>1. i - K \in 1..V /\ K + (i - K) = i
        BY <3>1, <3>3
      <4>2. list[i] = Value(InOrder(values)[i - K][1])
        BY <3>1, <4>1
      <4> QED BY <4>2, NoNilValue
    <3> QED BY <3>2, <3>3
  <2>7. CASE DOMAIN map # {}
    <3>1. r = Map(map)
      BY <2>7, ExtractedIs
    <3>2. IsMap(r)
      <4> HIDE DEF r, map
      <4> QED BY <3>1 DEF IsMap, Map
    <3> HIDE DEF r
    <3> QED BY <2>2, <2>5, <3>2, NoNilMap
  <2>8. CASE DOMAIN map = {}
    <3>1. r = List(list)
      BY <2>2, <2>8, ExtractedIs
    <3> HIDE DEF r, list
    <3> QED BY <2>2, <2>6, <3>1, NoNilList
  <2> QED BY <2>7, <2>8
<1> HIDE DEF S
<1>3. MaxDepth \in S
  BY <1>0, <1>1, <1>2, NumberInduction
<1>4. Len(path) + MaxDepth >= MaxDepth
  BY <1>0, LenProperties
<1> QED BY <1>3, <1>4 DEF S

-----------------------------------------------------------------------------
(* Setting and removing, seen from any other place.                        *)

\* What comes after a prefix.
LEMMA PrefixSplits ==
    ASSUME NEW S, NEW s \in Seq(S), NEW t \in Seq(S), IsPrefix(s, t)
    PROVE  \E r \in Seq(S) : t = s \o r
<1> DEFINE k == Len(s)
           r == SubSeq(t, k + 1, Len(t))
<1>1. /\ k \in Nat /\ Len(t) \in Nat /\ k <= Len(t)
      /\ \A i \in 1..k : s[i] = t[i]
  BY PrefixMeans, LenProperties
<1>2. r \in Seq(S) /\ Len(r) = Len(t) - k /\ \A i \in 1..(Len(t) - k) : r[i] = t[k + i]
  BY <1>1
<1> HIDE DEF r
<1>3. s \o r \in Seq(S) /\ Len(s \o r) = Len(t)
  BY <1>1, <1>2, ConcatProperties
<1>4. ASSUME NEW i \in 1..Len(t)
      PROVE  (s \o r)[i] = t[i]
  <2>1. (s \o r)[i] = IF i <= k THEN s[i] ELSE r[i - k]
    BY <1>1, <1>2, ConcatProperties
  <2>2. i <= k => i \in 1..k
    BY <1>1
  <2>3. i > k => i - k \in 1..(Len(t) - k) /\ k + (i - k) = i
    BY <1>1
  <2> HIDE DEF k
  <2> QED BY <1>1, <1>2, <2>1, <2>2, <2>3
<1>5. s \o r = t
  BY <1>3, <1>4, SeqEqual
<1> QED BY <1>2, <1>5

\* A sequence is a strict prefix of it, the element to come, and the rest.
LEMMA StrictPrefixSplits ==
    ASSUME NEW S, NEW s \in Seq(S), NEW t \in Seq(S), IsStrictPrefix(s, t)
    PROVE  \E n \in S : \E r \in Seq(S) : /\ t = Append(s, n) \o r
                                          /\ n = t[Len(s) + 1]
<1> DEFINE n == t[Len(s) + 1]
<1>1. n \in S /\ IsPrefix(Append(s, n), t) /\ Append(s, n) \in Seq(S)
  BY StrictPrefixShorter, AppendIsPrefix, AppendProperties
<1> HIDE DEF n
<1>2. PICK r \in Seq(S) : t = Append(s, n) \o r
  BY <1>1, PrefixSplits
<1> QED BY <1>1, <1>2 DEF n

\* Two sequences that part ways somewhere.
Parted(S, s, t) ==
    \E p \in Seq(S), n \in S, m \in S, q \in Seq(S), r \in Seq(S) :
       /\ n # m
       /\ s = Append(p, n) \o q
       /\ t = Append(p, m) \o r

\* Two sequences part when neither is a prefix of the other.
LEMMA SequencesPart ==
    ASSUME NEW S, NEW s \in Seq(S), NEW t \in Seq(S), ~IsPrefix(s, t), ~IsPrefix(t, s)
    PROVE  Parted(S, s, t)
<1> DEFINE Part(u) == Parted(S, u, t)
           T == {u \in Seq(S) : IsPrefix(u, t) \/ IsPrefix(t, u) \/ Part(u)}
<1>1. <<>> \in T
  <2>1. <<>> \in Seq(S)
    OBVIOUS
  <2> HIDE DEF Part
  <2> QED BY <2>1, PrefixOfItself
<1>2. ASSUME NEW u \in Seq(S), NEW e \in S, u \in T
      PROVE  Append(u, e) \in T
  <2> DEFINE longer == Append(u, e)
  <2>1. longer \in Seq(S)
    BY AppendProperties
  <2>2. CASE IsPrefix(t, u)
    BY <2>1, <2>2, PrefixOfAppend
  <2>3. CASE IsPrefix(u, t) /\ u # t
    <3>1. IsStrictPrefix(u, t)
      BY <2>3 DEF IsStrictPrefix
    <3>2. PICK m \in S, r \in Seq(S) : t = Append(u, m) \o r /\ m = t[Len(u) + 1]
      BY <3>1, StrictPrefixSplits
    <3>3. IsPrefix(longer, t) <=> m = e
      BY <3>1, <3>2, AppendIsPrefix
    <3>4. <<>> \in Seq(S) /\ longer = Append(u, e) \o <<>>
      BY <2>1, ConcatEmptySeq
    <3>5. m # e => Part(longer)
      BY <3>2, <3>4 DEF Parted
    <3> HIDE DEF Part, longer
    <3> QED BY <2>1, <3>3, <3>5 DEF longer
  <2>4. CASE Part(u)
    <3>1. PICK p \in Seq(S), n \in S, m \in S, q \in Seq(S), r \in Seq(S) :
             n # m /\ u = Append(p, n) \o q /\ t = Append(p, m) \o r
      BY <2>4 DEF Parted
    <3>2. longer = Append(p, n) \o Append(q, e)
      <4> DEFINE first == Append(p, n)
      <4>1. first \in Seq(S) /\ <<e>> \in Seq(S) /\ u = first \o q
        BY <3>1, AppendProperties
      <4> HIDE DEF first
      <4>2. (first \o q) \o <<e>> = first \o (q \o <<e>>)
        BY <4>1, ConcatAssociative
      <4>3. u \o <<e>> = Append(u, e) /\ q \o <<e>> = Append(q, e)
        BY AppendIsConcat
      <4> QED BY <4>1, <4>2, <4>3 DEF first
    <3>3. Append(q, e) \in Seq(S)
      BY AppendProperties
    <3>4. Part(longer)
      BY <3>1, <3>2, <3>3 DEF Parted
    <3> HIDE DEF Part, longer
    <3> QED BY <2>1, <3>4 DEF longer
  <2>5. u = t => IsPrefix(t, u)
    BY PrefixOfItself
  <2> HIDE DEF Part
  <2> QED BY <1>2, <2>2, <2>3, <2>4, <2>5
<1> HIDE DEF T
<1>3. s \in T
  BY <1>1, <1>2, SequenceInduction
<1> QED BY <1>3 DEF T

\* What is set is there.
LEMMA SetIsThere ==
    ASSUME NEW x, NEW names \in Seq(Names), NEW y
    PROVE  /\ y # None => SetNestedField(x, names, y) # None
           /\ IsMap(y) \/ names # <<>> => IsMap(SetNestedField(x, names, y))
<1> DEFINE T == {m \in Seq(Names) : \A z : IsMap(z) => IsMap(SetNestedField(x, m, z))}
<1>1. <<>> \in T
  BY SetEmpty
<1>2. ASSUME NEW m \in Seq(Names), NEW n \in Names, m \in T
      PROVE  Append(m, n) \in T
  <2>1. ASSUME NEW z
        PROVE  IsMap(SetNestedField(x, Append(m, n), z))
    <3>1. IsMap(With(NestedField(x, m), n, z))
      BY FieldOfWith
    <3> QED BY <1>2, <3>1, SetAppend
  <2> QED BY <2>1, AppendProperties
<1> HIDE DEF T
<1>3. Seq(Names) \subseteq T
  BY <1>1, <1>2, SequenceInduction
<1>4. ASSUME names # <<>>
      PROVE  IsMap(SetNestedField(x, names, y))
  <2>1. PICK m \in Seq(Names), n \in Names : names = Append(m, n)
    BY <1>4, SequenceEmptyOrAppend
  <2>2. IsMap(With(NestedField(x, m), n, y))
    BY FieldOfWith
  <2>3. IsMap(SetNestedField(x, m, With(NestedField(x, m), n, y)))
    BY <1>3, <2>1, <2>2 DEF T
  <2> QED BY <2>1, <2>3, SetAppend
<1>5. IsMap(y) => IsMap(SetNestedField(x, names, y))
  BY <1>3 DEF T
<1>6. names = <<>> => SetNestedField(x, names, y) = y
  BY SetEmpty
<1>7. \A z : IsMap(z) => z # None
  BY DEF IsMap, None
<1> QED BY <1>4, <1>5, <1>6, <1>7

\* What was at m is given something on the way to names.
Extended(old, new, m, names) ==
    \E n \in Names : \E z :
       /\ IsPrefix(Append(m, n), names)
       /\ z # None
       /\ new = With(old, n, z)

\* On the way to what is set.
LEMMA SetAbove ==
    ASSUME NEW x, NEW names \in Seq(Names), NEW y, y # None,
           NEW m \in Seq(Names), IsStrictPrefix(m, names)
    PROVE  Extended(NestedField(x, m), NestedField(SetNestedField(x, names, y), m), m, names)
<1>1. PICK n \in Names, r \in Seq(Names) : names = Append(m, n) \o r /\ n = names[Len(m) + 1]
  BY StrictPrefixSplits
<1> DEFINE z == SetNestedField(NestedField(x, Append(m, n)), r, y)
<1>2. NestedField(SetNestedField(x, names, y), m) = With(NestedField(x, m), n, z)
  BY <1>1, SetOnTheWay
<1>3. z # None
  BY SetIsThere
<1>4. IsPrefix(Append(m, n), names)
  BY <1>1, AppendIsPrefix
<1> HIDE DEF z
<1> QED BY <1>2, <1>3, <1>4 DEF Extended

\* Elsewhere.
LEMMA SetApart ==
    ASSUME NEW x, NEW names \in Seq(Names), NEW y, NEW m \in Seq(Names),
           ~IsPrefix(m, names), ~IsPrefix(names, m)
    PROVE  NestedField(SetNestedField(x, names, y), m) = NestedField(x, m)
<1>0. Parted(Names, names, m)
  BY SequencesPart
<1>1. PICK p \in Seq(Names), n \in Names, k \in Names, q \in Seq(Names), r \in Seq(Names) :
         n # k /\ names = Append(p, n) \o q /\ m = Append(p, k) \o r
  BY <1>0 DEF Parted
<1> QED BY <1>1, SetElsewhere

\* The same of a removal.
LEMMA RemoveIs ==
    ASSUME NEW x, NEW s \in Seq(Names), NEW n \in Names
    PROVE  /\ RemoveNestedField(x, Append(s, n)) =
                 IF NestedField(x, Append(s, n)) = None THEN x
                 ELSE SetNestedField(x, s, Without(NestedField(x, s), n))
           /\ NestedField(x, Append(s, n)) # None => n \in Keys(NestedField(x, s))
<1>1. Front(Append(s, n)) = s /\ Last(Append(s, n)) = n
  BY FrontOfAppend
<1>2. NestedField(x, Append(s, n)) = FieldOf(NestedField(x, s), n)
  BY NestedFieldAppend
<1> QED BY <1>1, <1>2 DEF RemoveNestedField, FieldOf

\* A place that neither is in what was removed nor has it in it is as before.
LEMMA RemovedApart ==
    ASSUME NEW x, NEW s \in Seq(Names), NEW n \in Names, NEW m \in Seq(Names),
           ~IsPrefix(Append(s, n), m), ~IsPrefix(m, s)
    PROVE  NestedField(SetNestedField(x, s, Without(NestedField(x, s), n)), m) = NestedField(x, m)
<1> DEFINE y == Without(NestedField(x, s), n)
<1>1. CASE IsPrefix(s, m)
  <2>1. IsStrictPrefix(s, m)
    <3>1. s # m
      BY <1>1, PrefixOfItself
    <3> QED BY <1>1, <3>1 DEF IsStrictPrefix
  <2>2. PICK k \in Names, r \in Seq(Names) : m = Append(s, k) \o r /\ k = m[Len(s) + 1]
    BY <2>1, StrictPrefixSplits
  <2>3. k # n
    BY <2>1, <2>2, AppendIsPrefix
  <2>4. \A z : NestedField(z, m) = NestedField(FieldOf(NestedField(z, s), k), r)
    <3>1. Append(s, k) \in Seq(Names)
      BY AppendProperties
    <3>2. ASSUME NEW z PROVE NestedField(z, m) = NestedField(FieldOf(NestedField(z, s), k), r)
      <4>1. NestedField(z, Append(s, k)) = FieldOf(NestedField(z, s), k)
        BY NestedFieldAppend
      <4>2. NestedField(z, m) = NestedField(NestedField(z, Append(s, k)), r)
        BY <2>2, <3>1, NestedFieldConcat
      <4> QED BY <4>1, <4>2
    <3> QED BY <3>2
  <2>5. NestedField(SetNestedField(x, s, y), s) = y
    BY SetThere
  <2>6. FieldOf(y, k) = FieldOf(NestedField(x, s), k)
    BY <2>3, FieldOfWithout
  <2> QED BY <2>4, <2>5, <2>6
<1>2. CASE ~IsPrefix(s, m)
  BY <1>2, SetApart
<1> QED BY <1>1, <1>2

\* What was in what was removed is gone.
LEMMA RemovedBelow ==
    ASSUME NEW x, NEW s \in Seq(Names), NEW n \in Names, NEW m \in Seq(Names),
           IsPrefix(Append(s, n), m)
    PROVE  NestedField(SetNestedField(x, s, Without(NestedField(x, s), n)), m) = None
<1> DEFINE y == Without(NestedField(x, s), n)
           z == SetNestedField(x, s, y)
           longer == Append(s, n)
<1>1. longer \in Seq(Names)
  BY AppendProperties
<1>2. NestedField(z, longer) = None
  BY NestedFieldAppend, SetThere, FieldOfWithout
<1> HIDE DEF longer, z
<1>3. PICK r \in Seq(Names) : m = longer \o r
  BY <1>1, PrefixSplits DEF longer
<1>4. NestedField(z, m) = NestedField(None, r)
  BY <1>1, <1>2, <1>3, NestedFieldConcat
<1>5. NestedField(None, r) = None
  <2>1. None[1] \notin {"map", "list"}
    BY DEF None
  <2> QED BY <2>1, NestedFieldNothing, NestedFieldEmpty
<1> QED BY <1>4, <1>5 DEF z
=============================================================================
