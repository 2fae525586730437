----------------------------- MODULE ShowProofs -----------------------------
(***************************************************************************)
(* Proofs about Show, for any pods, clusters, users and operators, however *)
(* often they change.  What is printed is said of three histories, which   *)
(* only grow; what a command holds between two of its steps (the pod it    *)
(* looked up, the list it read, the parts it has still to show) is said of *)
(* the same histories.  The question is that of ConfirmProofs, whose       *)
(* lemmas are used here for the steps of show user.                        *)
(***************************************************************************)
EXTENDS Show, TLAPS

Heard == INSTANCE ConfirmProofs

-----------------------------------------------------------------------------
(* The inductive invariant.                                                *)

\* The histories have what is true now.
Remembered ==
    /\ \A p \in Pods : OnePrimary(role, p) => p \in primaries
    /\ secrets \in readings
    /\ operator \in releases

\* What the command holds between two steps was true at some moment.
HeldTrue ==
    /\ pc = "exec" => target \in primaries /\ ClusterOf[target] = request.cluster
    /\ pc = "question" =>
          /\ request.sensitive
          /\ \E all \in readings : list = Matching(all)

\* What was true of an entry when it was printed.
EntryTrue(x) ==
    /\ x.part \in {"backup", "ha"} =>
          /\ x.source \in primaries
          /\ ClusterOf[x.source] = request.cluster
          /\ x.content = "whole"
    /\ x.part = "names" => \E all \in readings : x.content = DOMAIN Matching(all)
    /\ x.part = "passwords" =>
          /\ request.sensitive /\ answer = "yes"
          /\ \E all \in readings : x.content = Matching(all)
    /\ x.part = "operator" => x.content \in releases

PrintedTrue == \A i \in 1..Len(printed) : EntryTrue(printed[i])

\* The parts that are printed and those that are still to be shown are all.
InOrder ==
    /\ Len(printed) + Len(parts) = Len(PartsOf(request))
    /\ \A i \in 1..Len(printed) : printed[i].part = PartsOf(request)[i]
    /\ \A i \in 1..Len(parts) : parts[i] = PartsOf(request)[Len(printed) + i]

\* A command is at one of its own steps, and there is something left to show.
AtItsStep ==
    /\ pc \in {"find", "exec"} =>
          request.command \in {"show", "backup", "ha"} /\ InOrder /\ parts # <<>>
    /\ pc \in {"list", "question"} => request.command = "user" /\ printed = <<>>
    /\ pc = "crd" => request.command = "version" /\ printed = <<>>
    /\ pc # "ended" => result = "none"

IInv ==
    /\ TypeOK
    /\ Heard!IInv
    /\ Remembered
    /\ HeldTrue
    /\ PrintedTrue
    /\ AtItsStep
    /\ SuccessShowsAll

-----------------------------------------------------------------------------
(* Lemmas.                                                                 *)

\* The question of show user is the one ConfirmProofs is about.
LEMMA SameQuestion ==
    /\ Question!Init => Heard!Init
    /\ Question!Ask => Heard!Ask
    /\ Question!Close => Heard!Close
    /\ \A line : Question!Type(line) => Heard!Type(line)
BY DEF Question!Init, Heard!Init, Question!Ask, Heard!Ask, Question!Hear, Heard!Hear,
       Question!Close, Heard!Close, Question!Type, Heard!Type, Question!Answer,
       Heard!Answer, Question!Response, Heard!Response, Question!Takes, Heard!Takes,
       Question!Waiting, Heard!Waiting, Question!First, Heard!First, Question!EndsOf,
       Heard!EndsOf, Question!Recognised, Heard!Recognised

\* The invariant of the question holds at first, after an attempt, after a line
\* or the end of input, and as long as nothing of it changes.
LEMMA QuestionHolds ==
    /\ Question!Init => Heard!IInv
    /\ Heard!IInv /\ Question!Ask => Heard!IInv'
    /\ Heard!IInv /\ Question!Close => Heard!IInv'
    /\ \A line \in Question!Line : Heard!IInv /\ Question!Type(line) => Heard!IInv'
    /\ Heard!IInv /\ UNCHANGED question => Heard!IInv'
<1>1. Question!Init => Heard!IInv
  BY SameQuestion, Heard!InitIInv, QuestionAssumption
<1>2. Heard!IInv /\ Question!Ask => Heard!IInv'
  BY SameQuestion, Heard!AskIInv, QuestionAssumption
<1>3. Heard!IInv /\ Question!Close => Heard!IInv'
  BY SameQuestion, Heard!CloseIInv, QuestionAssumption
<1>4. ASSUME NEW line \in Question!Line, Heard!IInv, Question!Type(line)
      PROVE  Heard!IInv'
  BY <1>4, SameQuestion, Heard!TypeIInv, QuestionAssumption
     DEF Question!Line, Heard!Line
<1>5. Heard!IInv /\ UNCHANGED question => Heard!IInv'
  BY Heard!SameIInv, QuestionAssumption DEF question, Heard!vars
<1> QED BY <1>1, <1>2, <1>3, <1>4, <1>5

\* What a list matches does not change with the secrets.
LEMMA MatchingIsFixed ==
    ASSUME UNCHANGED request PROVE \A all : Matching(all)' = Matching(all)
BY DEF Matching

\* What getUsers returns is a list of secrets.
LEMMA MatchingType ==
    ASSUME NEW all \in [Users -> Passwords \cup {Absent}]
    PROVE  Matching(all) \in Secrets
<1> DEFINE D == {u \in Users : all[u] # Absent /\ request.user \in {u, Absent}}
<1>1. Matching(all) \in [D -> Passwords]
  BY DEF Matching
<1>2. D \in SUBSET Users
  OBVIOUS
<1> HIDE DEF D
<1> QED BY <1>1, <1>2 DEF Secrets

\* A selection of the primary labels that is one pod is the one primary.
LEMMA SelectedIsPrimary ==
    ASSUME TypeOK, NEW p \in Pods,
           Selected(PrimaryInstanceLabels(request.cluster)) = {p}
    PROVE  OnePrimary(role, p) /\ ClusterOf[p] = request.cluster
BY DEF Selected, PrimaryInstanceLabels, OnePrimary

\* What was true of an entry stays true.
LEMMA EntriesStay ==
    ASSUME UNCHANGED request,
           primaries \subseteq primaries', readings \subseteq readings',
           releases \subseteq releases', answer = "yes" => answer' = "yes"
    PROVE  \A x : EntryTrue(x) => EntryTrue(x)'
<1>1. \A all : Matching(all)' = Matching(all)
  BY MatchingIsFixed
<1> QED BY <1>1 DEF EntryTrue

\* Printing nothing, or something true, keeps what is printed true.
LEMMA PrintedStays ==
    ASSUME PrintedTrue, \A x : EntryTrue(x) => EntryTrue(x)', UNCHANGED printed
    PROVE  PrintedTrue'
BY DEF PrintedTrue, EntryTrue

LEMMA PrintedGrows ==
    ASSUME TypeOK, PrintedTrue, \A x : EntryTrue(x) => EntryTrue(x)',
           NEW part, NEW source, NEW content, Output(part, source, content),
           EntryTrue([part |-> part, source |-> source, content |-> content])'
    PROVE  PrintedTrue'
<1> DEFINE entry == [part |-> part, source |-> source, content |-> content]
<1>1. printed' = Append(printed, entry)
  BY DEF Output
<1>2. /\ Len(printed') = Len(printed) + 1
      /\ printed'[Len(printed) + 1] = entry
      /\ \A i \in 1..Len(printed) : printed'[i] = printed[i]
  BY <1>1 DEF TypeOK
<1>3. Len(printed) \in Nat
  BY DEF TypeOK
<1>4. EntryTrue(entry)'
  OBVIOUS
<1> HIDE DEF entry
<1> SUFFICES ASSUME NEW i \in 1..Len(printed') PROVE EntryTrue(printed[i])'
  BY DEF PrintedTrue
<1>5. CASE i = Len(printed) + 1
  BY <1>2, <1>4, <1>5 DEF EntryTrue
<1>6. CASE i # Len(printed) + 1
  <2>1. i \in 1..Len(printed)
    BY <1>2, <1>3, <1>6
  <2>2. EntryTrue(printed[i])
    BY <2>1 DEF PrintedTrue
  <2> QED BY <2>1, <2>2, <1>2 DEF EntryTrue
<1> QED BY <1>5, <1>6

\* The parts of a command are a sequence of parts.
LEMMA PartsOfType == \A r : PartsOf(r) \in Seq({"backup", "ha"})
<1>1. /\ <<"backup", "ha">> \in Seq({"backup", "ha"})
      /\ <<"backup">> \in Seq({"backup", "ha"})
      /\ <<"ha">> \in Seq({"backup", "ha"})
      /\ <<>> \in Seq({"backup", "ha"})
  OBVIOUS
<1> QED BY <1>1 DEF PartsOf

-----------------------------------------------------------------------------
(* One lemma per action.                                                   *)

LEMMA InitIInv == Init => IInv
<1> SUFFICES ASSUME Init PROVE IInv
  OBVIOUS
<1>1. /\ printed = <<>> /\ Len(printed) = 0 /\ list = <<>> /\ DOMAIN list = {}
      /\ request \in Request /\ parts = PartsOf(request) /\ pc = FirstStep(request)
      /\ result = "none" /\ target = Absent /\ changes = 0
  BY RequestsAssumption DEF Init
<1>2. parts \in Seq({"backup", "ha"})
  BY <1>1, PartsOfType
<1>3. pc \in {"find", "exec"} => pc = "find" /\ parts # <<>>
                                   /\ request.command \in {"show", "backup", "ha"}
  BY <1>1 DEF FirstStep, PartsOf, Request, Commands
<1>4. TypeOK
  <2>1. list \in Secrets
    <3>1. list \in [{} -> Passwords]
      BY <1>1
    <3> QED BY <3>1 DEF Secrets
  <2>2. printed \in Seq(Entries)
    BY <1>1
  <2>3. pc \in {"find", "exec", "list", "question", "crd", "ended"}
    BY <1>1 DEF FirstStep
  <2> QED BY <1>1, <1>2, <1>3, <2>1, <2>2, <2>3, FirstAssumption, ChangesAssumption
          DEF Init, TypeOK
<1>5. Heard!IInv
  BY QuestionHolds DEF Init
<1>6. Remembered
  BY DEF Init, Remembered
<1>7. HeldTrue
  BY <1>1, <1>3 DEF HeldTrue, FirstStep
<1>8. PrintedTrue
  BY <1>1 DEF PrintedTrue
<1>9. InOrder
  BY <1>1, <1>2 DEF InOrder
<1>10. AtItsStep
  BY <1>1, <1>3, <1>9 DEF AtItsStep, FirstStep, Request, Commands
<1>11. SuccessShowsAll
  BY <1>1 DEF SuccessShowsAll
<1> QED BY <1>4, <1>5, <1>6, <1>7, <1>8, <1>10, <1>11 DEF IInv

\* What an action leaves alone stays as it was.
LEMMA WorldStays ==
    ASSUME IInv, UNCHANGED <<world, request>>
    PROVE  /\ Remembered'
           /\ answer' = answer => \A x : EntryTrue(x) => EntryTrue(x)'
           /\ answer # "yes" => \A x : EntryTrue(x) => EntryTrue(x)'
<1>1. Remembered'
  BY DEF IInv, Remembered, world, OnePrimary
<1>2. ASSUME answer = "yes" => answer' = "yes"
      PROVE  \A x : EntryTrue(x) => EntryTrue(x)'
  BY <1>2, EntriesStay DEF world
<1> QED BY <1>1, <1>2

LEMMA FindIInv ==
    ASSUME IInv, Find PROVE IInv'
<1>1. /\ pc = "find" /\ result = "none"
      /\ UNCHANGED <<world, question, request, parts, list, printed>>
  BY DEF Find, IInv, AtItsStep
<1>2. Remembered' /\ Heard!IInv' /\ PrintedTrue'
  BY <1>1, WorldStays, QuestionHolds, PrintedStays DEF IInv, question
<1>3. InOrder'
  BY <1>1 DEF InOrder, IInv, AtItsStep
<1>4. CASE \E p \in Pods :
              /\ Selected(PrimaryInstanceLabels(request.cluster)) = {p}
              /\ target' = p /\ pc' = "exec" /\ UNCHANGED result
  <2>1. PICK p \in Pods :
              /\ Selected(PrimaryInstanceLabels(request.cluster)) = {p}
              /\ target' = p /\ pc' = "exec" /\ UNCHANGED result
    BY <1>4
  <2>2. p \in primaries /\ ClusterOf[p] = request.cluster
    BY <2>1, SelectedIsPrimary DEF IInv, Remembered
  <2>3. TypeOK'
    BY <1>1, <2>1 DEF IInv, TypeOK, world
  <2>4. HeldTrue'
    BY <1>1, <2>1, <2>2 DEF HeldTrue, world
  <2>5. AtItsStep' /\ SuccessShowsAll'
    BY <1>1, <1>3, <2>1 DEF IInv, AtItsStep, SuccessShowsAll
  <2> QED BY <1>2, <2>3, <2>4, <2>5 DEF IInv
<1>5. CASE End("failed") /\ UNCHANGED target
  <2>1. TypeOK'
    BY <1>1, <1>5 DEF IInv, TypeOK, world, End
  <2>2. HeldTrue' /\ AtItsStep' /\ SuccessShowsAll'
    BY <1>1, <1>5 DEF HeldTrue, AtItsStep, SuccessShowsAll, End
  <2> QED BY <1>2, <2>1, <2>2 DEF IInv
<1> QED BY <1>4, <1>5 DEF Find

\* What an exec that answers leaves to show, and has shown when nothing is left.
LEMMA ShowsNext ==
    ASSUME IInv, pc = "exec", Output(Head(parts), target, "whole"),
           parts' = Tail(parts), UNCHANGED request
    PROVE  /\ Head(parts) \in {"backup", "ha"}
           /\ parts' \in Seq({"backup", "ha"})
           /\ InOrder'
           /\ printed' # <<>>
           /\ parts' = <<>> =>
                 [i \in DOMAIN printed' |-> printed'[i].part] = PartsOf(request)
<1> DEFINE part == Head(parts)
           entry == [part |-> part, source |-> target, content |-> "whole"]
<1>1. /\ parts \in Seq({"backup", "ha"}) /\ parts # <<>> /\ InOrder
      /\ printed \in Seq(Entries)
  BY DEF IInv, TypeOK, AtItsStep
<1>2. /\ Len(parts) \in Nat \ {0} /\ Len(printed) \in Nat
      /\ part = parts[1] /\ part \in {"backup", "ha"}
      /\ parts' \in Seq({"backup", "ha"})
      /\ Len(parts') = Len(parts) - 1
      /\ \A i \in 1..Len(parts') : parts'[i] = parts[i + 1]
  BY <1>1
<1>3. printed' = Append(printed, entry) /\ entry.part = part
  BY DEF Output
<1>4. /\ Len(printed') = Len(printed) + 1
      /\ DOMAIN printed' = 1..(Len(printed) + 1)
      /\ printed'[Len(printed) + 1].part = part
      /\ \A i \in 1..Len(printed) : printed'[i] = printed[i]
      /\ printed' # <<>>
  <2> HIDE DEF entry, part
  <2> QED BY <1>1, <1>3
<1> HIDE DEF entry, part
<1>5. PartsOf(request)' = PartsOf(request)
  BY DEF PartsOf
<1>6. /\ Len(printed') + Len(parts') = Len(PartsOf(request))
      /\ \A i \in 1..Len(printed') : printed'[i].part = PartsOf(request)[i]
      /\ \A i \in 1..Len(parts') : parts'[i] = PartsOf(request)[Len(printed') + i]
  <2>1. Len(printed') + Len(parts') = Len(PartsOf(request))
    BY <1>1, <1>2, <1>4 DEF InOrder
  <2>2. part = PartsOf(request)[Len(printed) + 1]
    BY <1>1, <1>2 DEF InOrder
  <2>3. ASSUME NEW i \in 1..Len(printed') PROVE printed'[i].part = PartsOf(request)[i]
    <3>1. CASE i = Len(printed) + 1
      BY <3>1, <2>2, <1>4
    <3>2. CASE i # Len(printed) + 1
      <4>1. i \in 1..Len(printed)
        BY <3>2, <1>2, <1>4
      <4> QED BY <4>1, <1>1, <1>4 DEF InOrder
    <3> QED BY <3>1, <3>2
  <2>4. ASSUME NEW i \in 1..Len(parts')
        PROVE  parts'[i] = PartsOf(request)[Len(printed') + i]
    <3>1. i + 1 \in 1..Len(parts)
      BY <1>2
    <3>2. parts[i + 1] = PartsOf(request)[Len(printed) + (i + 1)]
      BY <3>1, <1>1 DEF InOrder
    <3> QED BY <3>2, <1>2, <1>4
  <2> QED BY <2>1, <2>3, <2>4
<1>7. InOrder'
  BY <1>5, <1>6 DEF InOrder
<1>8. ASSUME parts' = <<>>
      PROVE  [i \in DOMAIN printed' |-> printed'[i].part] = PartsOf(request)
  <2>1. DOMAIN PartsOf(request) = 1..(Len(printed) + 1)
        /\ PartsOf(request) \in Seq({"backup", "ha"})
    <3>1. Len(parts') = 0
      <4>1. Len(<<>>) = 0
        OBVIOUS
      <4> QED BY <4>1, <1>8
    <3>2. Len(PartsOf(request)) = Len(printed) + 1
      BY <3>1, <1>2, <1>4, <1>6
    <3> QED BY <3>2, PartsOfType
  <2>2. PartsOf(request) = [i \in 1..(Len(printed) + 1) |-> PartsOf(request)[i]]
    BY <2>1
  <2>3. \A i \in 1..(Len(printed) + 1) : printed'[i].part = PartsOf(request)[i]
    BY <1>4, <1>6
  <2> QED BY <1>4, <2>2, <2>3
<1> QED BY <1>2, <1>4, <1>7, <1>8 DEF part

LEMMA ExecIInv ==
    ASSUME IInv, Exec PROVE IInv'
<1>1. /\ pc = "exec" /\ result = "none" /\ target \in Pods
      /\ target \in primaries /\ ClusterOf[target] = request.cluster
      /\ request.command \in {"show", "backup", "ha"}
      /\ UNCHANGED <<world, question, request, target, list>>
  BY DEF Exec, IInv, AtItsStep, TypeOK, HeldTrue
<1>2. Remembered' /\ Heard!IInv' /\ (\A x : EntryTrue(x) => EntryTrue(x)')
  BY <1>1, WorldStays, QuestionHolds DEF IInv, question
<1>3. CASE Output(Head(parts), target, "whole") /\ NextPart
  <2>1. /\ Head(parts) \in {"backup", "ha"}
        /\ parts' \in Seq({"backup", "ha"})
        /\ InOrder'
        /\ printed' # <<>>
        /\ parts' = <<>> =>
              [i \in DOMAIN printed' |-> printed'[i].part] = PartsOf(request)
    BY <1>1, <1>3, ShowsNext DEF NextPart
  <2>2. PrintedTrue'
    <3>1. PICK part, source : part = Head(parts) /\ source = target
      OBVIOUS
    <3>2. EntryTrue([part |-> part, source |-> source, content |-> "whole"])'
      BY <1>1, <2>1, <3>1 DEF EntryTrue, world
    <3>3. Output(part, source, "whole")
      BY <1>3, <3>1
    <3> QED BY <1>2, <3>2, <3>3, PrintedGrows DEF IInv
  <2>3. printed' \in Seq(Entries)
    <3>1. [part |-> Head(parts), source |-> target, content |-> "whole"] \in Entries
      BY <1>1, <2>1 DEF Entries
    <3>2. printed \in Seq(Entries)
      BY DEF IInv, TypeOK
    <3> HIDE DEF Entries
    <3> QED BY <1>3, <3>1, <3>2 DEF Output
  <2>4. TypeOK'
    BY <1>1, <1>3, <2>1, <2>3 DEF IInv, TypeOK, world, NextPart, End
  <2>5. HeldTrue' /\ AtItsStep'
    BY <1>1, <1>3, <2>1 DEF HeldTrue, AtItsStep, NextPart, End
  <2>6. SuccessShowsAll'
    <3>1. PartsOf(request)' = PartsOf(request)
      BY <1>1 DEF PartsOf
    <3>2. result' = "succeeded" => parts' = <<>>
      BY <1>1, <1>3 DEF NextPart, End
    <3> QED BY <2>1, <3>1, <3>2 DEF SuccessShowsAll
  <2> QED BY <1>2, <2>2, <2>4, <2>5, <2>6 DEF IInv
<1>4. CASE End("failed") /\ UNCHANGED <<parts, printed>>
  <2>1. TypeOK'
    BY <1>1, <1>4 DEF IInv, TypeOK, world, End
  <2>2. HeldTrue' /\ AtItsStep' /\ SuccessShowsAll'
    BY <1>1, <1>4 DEF HeldTrue, AtItsStep, SuccessShowsAll, End
  <2>3. PrintedTrue'
    BY <1>2, <1>4, PrintedStays DEF IInv
  <2> QED BY <1>2, <2>1, <2>2, <2>3 DEF IInv
<1> QED BY <1>3, <1>4 DEF Exec

\* A first entry is all there is.
LEMMA FirstEntry ==
    ASSUME IInv, printed = <<>>, \A x : EntryTrue(x) => EntryTrue(x)',
           NEW part, NEW source, NEW content, Output(part, source, content),
           [part |-> part, source |-> source, content |-> content] \in Entries,
           EntryTrue([part |-> part, source |-> source, content |-> content])'
    PROVE  printed' \in Seq(Entries) /\ printed' # <<>> /\ PrintedTrue'
<1>1. PrintedTrue'
  BY PrintedGrows DEF IInv
<1> DEFINE entry == [part |-> part, source |-> source, content |-> content]
<1>2. printed' = Append(<<>>, entry)
  BY DEF Output
<1>3. entry \in Entries
  OBVIOUS
<1> HIDE DEF entry, Entries
<1>4. printed' \in Seq(Entries) /\ Len(printed') = 1
  BY <1>2, <1>3
<1>5. Len(<<>>) = 0
  OBVIOUS
<1> QED BY <1>1, <1>4, <1>5

LEMMA ListUsersIInv ==
    ASSUME IInv, ListUsers PROVE IInv'
<1>1. /\ pc = "list" /\ result = "none" /\ printed = <<>>
      /\ request.command = "user" /\ PartsOf(request) = <<>>
      /\ UNCHANGED <<world, question, request, parts, target>>
      /\ secrets \in readings /\ secrets \in [Users -> Passwords \cup {Absent}]
  BY DEF ListUsers, IInv, AtItsStep, TypeOK, Remembered, PartsOf
<1>2. Remembered' /\ Heard!IInv' /\ (\A x : EntryTrue(x) => EntryTrue(x)')
  BY <1>1, WorldStays, QuestionHolds DEF IInv, question
<1>3. PartsOf(request)' = <<>>
  BY <1>1 DEF PartsOf
<1>4. CASE End("failed") /\ UNCHANGED <<list, printed>>
  <2>1. TypeOK'
    BY <1>1, <1>4 DEF IInv, TypeOK, world, End
  <2>2. HeldTrue' /\ AtItsStep' /\ SuccessShowsAll'
    BY <1>1, <1>4 DEF HeldTrue, AtItsStep, SuccessShowsAll, End
  <2>3. PrintedTrue'
    BY <1>2, <1>4, PrintedStays DEF IInv
  <2> QED BY <1>2, <2>1, <2>2, <2>3 DEF IInv
<1>5. CASE /\ list' = Matching(secrets)
           /\ \/ request.sensitive /\ pc' = "question" /\ UNCHANGED <<printed, result>>
              \/ Output("names", Absent, DOMAIN list') /\ End("succeeded")
  <2>1. list' \in Secrets
    BY <1>1, <1>5, MatchingType
  <2>2. \E all \in readings' : list' = Matching(all)'
    <3>1. Matching(secrets) = Matching(secrets)' /\ \A all : Matching(all)' = Matching(all)
      BY <1>1, MatchingIsFixed DEF Matching, world
    <3> QED BY <1>1, <1>5, <3>1 DEF world
  <2>3. CASE /\ request.sensitive
             /\ pc' = "question" /\ UNCHANGED <<printed, result>>
    <3>1. TypeOK'
      BY <1>1, <2>1, <2>3 DEF IInv, TypeOK, world
    <3>2. HeldTrue'
      BY <1>1, <2>2, <2>3 DEF HeldTrue
    <3>3. AtItsStep' /\ SuccessShowsAll'
      BY <1>1, <2>3 DEF AtItsStep, SuccessShowsAll
    <3>4. PrintedTrue'
      BY <1>2, <2>3, PrintedStays DEF IInv
    <3> QED BY <1>2, <3>1, <3>2, <3>3, <3>4 DEF IInv
  <2>4. CASE Output("names", Absent, DOMAIN list') /\ End("succeeded")
    <3>1. PICK names : names = DOMAIN list'
      OBVIOUS
    <3>2. names \in SUBSET Users
      BY <2>1, <3>1 DEF Secrets
    <3>3. [part |-> "names", source |-> Absent, content |-> names] \in Entries
      BY <3>2 DEF Entries
    <3>4. EntryTrue([part |-> "names", source |-> Absent, content |-> names])'
      BY <2>2, <3>1 DEF EntryTrue
    <3>5. printed' \in Seq(Entries) /\ printed' # <<>> /\ PrintedTrue'
      BY <1>1, <1>2, <2>4, <3>1, <3>3, <3>4, FirstEntry
    <3>6. TypeOK'
      BY <1>1, <2>1, <2>4, <3>5 DEF IInv, TypeOK, world, End
    <3>7. HeldTrue' /\ AtItsStep' /\ SuccessShowsAll'
      BY <1>3, <2>4, <3>5 DEF HeldTrue, AtItsStep, SuccessShowsAll, End
    <3> QED BY <1>2, <3>5, <3>6, <3>7 DEF IInv
  <2> QED BY <1>5, <2>3, <2>4
<1> QED BY <1>4, <1>5 DEF ListUsers

LEMMA AskIInv ==
    ASSUME IInv, Ask PROVE IInv'
<1>1. /\ pc = "question" /\ result = "none" /\ printed = <<>>
      /\ request.command = "user" /\ PartsOf(request) = <<>>
      /\ request.sensitive /\ list \in Secrets
      /\ UNCHANGED <<world, request, parts, target, list>>
  BY DEF Ask, IInv, AtItsStep, TypeOK, HeldTrue, PartsOf
<1>2. Question!Ask /\ answer = "pending"
  BY DEF Ask, Question!Ask
<1>3. Remembered' /\ Heard!IInv' /\ (\A x : EntryTrue(x) => EntryTrue(x)')
  BY <1>1, <1>2, WorldStays, QuestionHolds DEF IInv
<1>4. PartsOf(request)' = <<>>
  BY <1>1 DEF PartsOf
<1>5. \E all \in readings' : list = Matching(all)'
  BY <1>1, MatchingIsFixed DEF IInv, HeldTrue, world
<1>6. CASE UNCHANGED <<pc, printed, result>>
  <2>1. TypeOK'
    BY <1>1, <1>6 DEF IInv, TypeOK, world
  <2>2. HeldTrue' /\ AtItsStep' /\ SuccessShowsAll'
    BY <1>1, <1>5, <1>6 DEF HeldTrue, AtItsStep, SuccessShowsAll
  <2>3. PrintedTrue'
    BY <1>3, <1>6, PrintedStays DEF IInv
  <2> QED BY <1>3, <2>1, <2>2, <2>3 DEF IInv
<1>7. CASE answer' = "yes" /\ Output("passwords", Absent, list) /\ End("succeeded")
  <2>1. PICK passwords : passwords = list
    OBVIOUS
  <2>2. [part |-> "passwords", source |-> Absent, content |-> passwords] \in Entries
    BY <1>1, <2>1 DEF Entries
  <2>3. EntryTrue([part |-> "passwords", source |-> Absent, content |-> passwords])'
    BY <1>1, <1>5, <1>7, <2>1 DEF EntryTrue
  <2>4. printed' \in Seq(Entries) /\ printed' # <<>> /\ PrintedTrue'
    BY <1>1, <1>3, <1>7, <2>1, <2>2, <2>3, FirstEntry
  <2>5. TypeOK'
    BY <1>1, <1>7, <2>4 DEF IInv, TypeOK, world, End
  <2>6. HeldTrue' /\ AtItsStep' /\ SuccessShowsAll'
    BY <1>4, <1>7, <2>4 DEF HeldTrue, AtItsStep, SuccessShowsAll, End
  <2> QED BY <1>3, <2>4, <2>5, <2>6 DEF IInv
<1>8. CASE answer' \in {"no", "nil"} /\ End("succeeded") /\ UNCHANGED printed
  <2>1. TypeOK'
    BY <1>1, <1>8 DEF IInv, TypeOK, world, End
  <2>2. HeldTrue' /\ AtItsStep' /\ SuccessShowsAll'
    BY <1>4, <1>8 DEF HeldTrue, AtItsStep, SuccessShowsAll, End
  <2>3. PrintedTrue'
    BY <1>3, <1>8, PrintedStays DEF IInv
  <2> QED BY <1>3, <2>1, <2>2, <2>3 DEF IInv
<1> QED BY <1>6, <1>7, <1>8 DEF Ask

LEMMA GetVersionIInv ==
    ASSUME IInv, GetVersion PROVE IInv'
<1>1. /\ pc = "crd" /\ result = "none" /\ printed = <<>>
      /\ request.command = "version" /\ PartsOf(request) = <<>>
      /\ UNCHANGED <<world, question, request, parts, target, list>>
      /\ operator \in releases /\ operator \in Versions \cup {Absent}
  BY DEF GetVersion, IInv, AtItsStep, TypeOK, Remembered, PartsOf
<1>2. Remembered' /\ Heard!IInv' /\ (\A x : EntryTrue(x) => EntryTrue(x)')
  BY <1>1, WorldStays, QuestionHolds DEF IInv, question
<1>3. PartsOf(request)' = <<>>
  BY <1>1 DEF PartsOf
<1>4. CASE Output("operator", Absent, operator) /\ End("succeeded")
  <2>1. PICK version : version = operator
    OBVIOUS
  <2>2. [part |-> "operator", source |-> Absent, content |-> version] \in Entries
    BY <1>1, <2>1 DEF Entries
  <2>3. EntryTrue([part |-> "operator", source |-> Absent, content |-> version])'
    BY <1>1, <2>1 DEF EntryTrue, world
  <2>4. printed' \in Seq(Entries) /\ printed' # <<>> /\ PrintedTrue'
    BY <1>1, <1>2, <1>4, <2>1, <2>2, <2>3, FirstEntry
  <2>5. TypeOK'
    BY <1>1, <1>4, <2>4 DEF IInv, TypeOK, world, End
  <2>6. HeldTrue' /\ AtItsStep' /\ SuccessShowsAll'
    BY <1>3, <1>4, <2>4 DEF HeldTrue, AtItsStep, SuccessShowsAll, End
  <2> QED BY <1>2, <2>4, <2>5, <2>6 DEF IInv
<1>5. CASE End("failed") /\ UNCHANGED printed
  <2>1. TypeOK'
    BY <1>1, <1>5 DEF IInv, TypeOK, world, End
  <2>2. HeldTrue' /\ AtItsStep' /\ SuccessShowsAll'
    BY <1>1, <1>5 DEF HeldTrue, AtItsStep, SuccessShowsAll, End
  <2>3. PrintedTrue'
    BY <1>2, <1>5, PrintedStays DEF IInv
  <2> QED BY <1>2, <2>1, <2>2, <2>3 DEF IInv
<1> QED BY <1>4, <1>5 DEF GetVersion

LEMMA InputIInv ==
    ASSUME IInv, Input PROVE IInv'
<1>1. /\ UNCHANGED <<world, local>> /\ UNCHANGED answer
  BY DEF Input, Question!Close, Question!Type
<1>2. Remembered' /\ (\A x : EntryTrue(x) => EntryTrue(x)')
  BY <1>1, WorldStays DEF IInv, local
<1>3. Heard!IInv'
  BY QuestionHolds, LinesAssumption DEF Input, IInv
<1>4. TypeOK'
  BY <1>1 DEF IInv, TypeOK, world, local
<1>5. HeldTrue' /\ PrintedTrue'
  <2>1. \A all : Matching(all)' = Matching(all)
    BY <1>1, MatchingIsFixed DEF local
  <2> QED BY <1>1, <1>2, <2>1, PrintedStays DEF IInv, HeldTrue, world, local
<1>6. AtItsStep' /\ SuccessShowsAll'
  BY <1>1 DEF IInv, AtItsStep, InOrder, SuccessShowsAll, local, PartsOf
<1> QED BY <1>2, <1>3, <1>4, <1>5, <1>6 DEF IInv

LEMMA InterruptIInv ==
    ASSUME IInv, Interrupt PROVE IInv'
<1>1. /\ pc' = "ended" /\ result' = "killed"
      /\ UNCHANGED <<world, question, request, parts, target, list, printed>>
  BY DEF Interrupt, End
<1>2. Remembered' /\ Heard!IInv' /\ PrintedTrue'
  BY <1>1, WorldStays, QuestionHolds, PrintedStays DEF IInv, question
<1>3. TypeOK'
  BY <1>1 DEF IInv, TypeOK, world
<1>4. HeldTrue' /\ AtItsStep' /\ SuccessShowsAll'
  BY <1>1 DEF HeldTrue, AtItsStep, SuccessShowsAll
<1> QED BY <1>2, <1>3, <1>4 DEF IInv

\* Whatever happens around the command is added to the histories.
LEMMA ChangeIInv ==
    ASSUME IInv, NEW commands, Change(commands),
           role' \in [Pods -> Roles],
           secrets' \in [Users -> Passwords \cup {Absent}],
           operator' \in Versions \cup {Absent}
    PROVE  IInv'
<1>1. /\ changes < MaxChanges /\ changes' = changes + 1
      /\ primaries' = primaries \cup {p \in Pods : OnePrimary(role', p)}
      /\ readings' = readings \cup {secrets'}
      /\ releases' = releases \cup {operator'}
      /\ UNCHANGED <<question, local>>
  BY DEF Change
<1>2. Remembered'
  BY <1>1 DEF Remembered, OnePrimary
<1>3. \A x : EntryTrue(x) => EntryTrue(x)'
  BY <1>1, EntriesStay DEF question, local
<1>4. Heard!IInv' /\ PrintedTrue'
  BY <1>1, <1>3, QuestionHolds, PrintedStays DEF IInv, local
<1>5. TypeOK'
  BY <1>1, ChangesAssumption DEF IInv, TypeOK, local
<1>6. HeldTrue'
  <2>1. \A all : Matching(all)' = Matching(all)
    BY <1>1, MatchingIsFixed DEF local
  <2> QED BY <1>1, <2>1 DEF IInv, HeldTrue, local
<1>7. AtItsStep' /\ SuccessShowsAll'
  BY <1>1 DEF IInv, AtItsStep, InOrder, SuccessShowsAll, local, question, PartsOf
<1> QED BY <1>2, <1>4, <1>5, <1>6, <1>7 DEF IInv

-----------------------------------------------------------------------------
(* The theorems.                                                           *)

\* The invariant is inductive.
THEOREM Invariance == Spec => []IInv
<1>1. ASSUME IInv, [Next]_vars PROVE IInv'
  <2>1. CASE PodChanges
    <3>1. role' \in [Pods -> Roles] /\ UNCHANGED <<secrets, operator>>
      BY <1>1, <2>1 DEF PodChanges, IInv, TypeOK
    <3> QED BY <1>1, <2>1, <3>1, ChangeIInv DEF PodChanges, IInv, TypeOK
  <2>2. CASE SecretChanges
    <3>1. secrets' \in [Users -> Passwords \cup {Absent}] /\ UNCHANGED <<role, operator>>
      BY <1>1, <2>2 DEF SecretChanges, IInv, TypeOK
    <3> QED BY <1>1, <2>2, <3>1, ChangeIInv DEF SecretChanges, IInv, TypeOK
  <2>3. CASE OperatorChanges
    BY <1>1, <2>3, ChangeIInv DEF OperatorChanges, IInv, TypeOK
  <2>4. CASE UNCHANGED vars
    <3>1. UNCHANGED <<world, question, local>>
      BY <2>4 DEF vars
    <3>2. Remembered' /\ Heard!IInv' /\ PrintedTrue'
      BY <1>1, <3>1, WorldStays, QuestionHolds, PrintedStays DEF IInv, local, question
    <3>3. TypeOK'
      BY <1>1, <3>1 DEF IInv, TypeOK, world, local
    <3>4. HeldTrue'
      <4>1. \A all : Matching(all)' = Matching(all)
        BY <3>1, MatchingIsFixed DEF local
      <4> QED BY <1>1, <3>1, <4>1 DEF IInv, HeldTrue, local, world
    <3>5. AtItsStep' /\ SuccessShowsAll'
      BY <1>1, <3>1 DEF IInv, AtItsStep, InOrder, SuccessShowsAll, local, question, PartsOf
    <3> QED BY <3>2, <3>3, <3>4, <3>5 DEF IInv
  <2> QED BY <1>1, <2>1, <2>2, <2>3, <2>4, FindIInv, ExecIInv, ListUsersIInv, AskIInv,
             GetVersionIInv, InputIInv, InterruptIInv DEF Next
<1> QED BY <1>1, InitIInv, PTL DEF Spec

\* Every variable keeps its type; a pod was found before it is asked.
THEOREM TypeCorrect == Spec => []TypeOK
<1>1. IInv => TypeOK
  BY DEF IInv
<1> QED BY <1>1, Invariance, PTL

\* However labels move, what show prints was said by a pod of the cluster that
\* was its one primary while the command ran (show.go:475), and it is the whole
\* of it (exec.go:29).
THEOREM PrimariesAnswer == Spec => []PrimaryAnswers
<1>1. IInv => PrimaryAnswers
  BY DEF IInv, TypeOK, PrimaryAnswers, PrintedTrue, EntryTrue, Told
<1> QED BY <1>1, Invariance, PTL

\* No mixture of what was before the question and what was after it
\* (show.go:459).
THEOREM ReadOnce == Spec => []OneReading
<1>1. IInv => OneReading
  BY DEF IInv, TypeOK, OneReading, PrintedTrue, EntryTrue, Told
<1> QED BY <1>1, Invariance, PTL

\* No password is printed without the flag and a "yes" that was typed: a line, at a
\* terminal before every "no", or the end of a line that an earlier attempt on a
\* pipe had begun to read.
THEOREM PasswordsNeedConsent == Spec => []PasswordsAreAskedFor
<1>1. ASSUME IInv, Told("passwords") # {} PROVE PasswordsAreAskedFor
  <2>1. request.sensitive /\ answer = "yes"
    BY <1>1 DEF IInv, TypeOK, PrintedTrue, EntryTrue, Told
  <2>2. /\ heard > 0
        /\ \/ typed[heard] = "yes"
           \/ typed[heard] = "endsInYes" /\ piped /\ attempt > 1
    BY <1>1, <2>1, Heard!HeardConsent, QuestionAssumption DEF IInv, Heard!ConsentIsTyped
  <2>3. ~piped => \A j \in 1..(heard - 1) : typed[j] # "no"
    BY <1>1, <2>1 DEF IInv, Heard!IInv, Heard!Given, Heard!FirstHeard, Heard!Recognised
  <2> QED BY <2>1, <2>2, <2>3 DEF PasswordsAreAskedFor
<1>2. IInv => PasswordsAreAskedFor
  BY <1>1 DEF PasswordsAreAskedFor
<1> QED BY <1>2, Invariance, PTL

\* Success means that every part was shown.
THEOREM SuccessIsComplete == Spec => []SuccessShowsAll
<1>1. IInv => SuccessShowsAll
  BY DEF IInv
<1> QED BY <1>1, Invariance, PTL
=============================================================================
