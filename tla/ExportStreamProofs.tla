------------------------- MODULE ExportStreamProofs -------------------------
(***************************************************************************)
(* Proofs about ExportStream, for any lists of pods and any log files.     *)
(* The argument is about the order of the walk: every outcome is of a      *)
(* gatherer, a pod or a file that lies behind, so a file never gets a      *)
(* second one; and while a pod is being visited, its flag says whether one *)
(* of its outcomes was reported.                                           *)
(***************************************************************************)
EXTENDS ExportStream, TLAPS

PodSet(s) == {s[i] : i \in 1..Len(s)}

Distinct(s) == \A i, j \in 1..Len(s) : s[i] = s[j] => i = j

Rank(g) == CASE g = "postgres" -> 1
             [] g = "backrest" -> 2
             [] g = "repoHost" -> 3
             [] OTHER -> 4

\* Where the walk is, and what is still ahead of it.
Place ==
    /\ Distinct(pods)
    /\ PodSet(pods) \subseteq PodSet(PodsOf(gatherer))
    /\ pc = "done" <=> gatherer = "done"
    /\ pc \in {"listPods", "done"} <=> Len(pods) = 0
    /\ todo \subseteq FilesOf(gatherer)
    /\ pc = "stream" => measured.file \in todo

\* What has an outcome lies behind.
Behind ==
    \A a \in outcome :
        /\ a[2] \in PodSet(PodsOf(a[1])) /\ a[3] \in FilesOf(a[1])
        /\ Rank(a[1]) <= Rank(gatherer)
        /\ a[1] = gatherer =>
              /\ pc # "listPods"
              /\ a[2] \in PodSet(pods) => a[2] = pod /\ a[3] \notin todo /\ pc # "listFiles"

\* What is in the archive has an outcome that says so.
Archived ==
    \A entry \in archive :
        \E a \in outcome : a[2] = entry.pod /\ a[3] = entry.file /\ a[4] = "archived"

AtFiles == pc \in {"measure", "stream", "cleanup"}
Reported == \E a \in outcome : a[4] = "reported"

\* The flag of the pod tells of its outcomes.
Flag ==
    AtFiles =>
        /\ doCleanup => ReportedHere = {}
        /\ ~doCleanup => Reported

\* Where nothing failed, local files are those of the pod that is visited.
Empty ==
    ~undeleted /\ ~Reported /\ ~AtFiles => \A f \in File : local[f] = Absent

IInv == TypeOK /\ Place /\ Behind /\ Archived /\ OneOutcomeEach /\ Flag /\ Empty

-----------------------------------------------------------------------------
(* Lemmas.                                                                 *)

\* An outcome tells gatherer, pod, file and how.
LEMMA OutcomeType ==
    ASSUME TypeOK, NEW a \in outcome
    PROVE  /\ a[1] \in Gatherers /\ a[2] \in Pod /\ a[3] \in File /\ a[4] \in Outcomes
           /\ a = <<a[1], a[2], a[3], a[4]>>
BY DEF TypeOK

\* The lists of pods and of files of a gatherer.
LEMMA ListTypes ==
    ASSUME NEW g \in Gatherers
    PROVE  /\ PodsOf(g) \in Seq(Pod) /\ Distinct(PodsOf(g))
           /\ FilesOf(g) \subseteq File
           /\ Rank(g) \in 1..4
BY PodsAssumption, NamesAssumption
   DEF PodsOf, FilesOf, File, Distinct, Rank, Gatherers

\* No file of a pod is listed by two gatherers.
LEMMA GatherersApart ==
    ASSUME NEW g \in Gatherers \ {"done"}, NEW h \in Gatherers \ {"done"},
           NEW p, p \in PodSet(PodsOf(g)), p \in PodSet(PodsOf(h)),
           NEW f, f \in FilesOf(g), f \in FilesOf(h)
    PROVE  g = h
<1>1. \A q : ~(q \in PodSet(DBPods) /\ q \in PodSet(RepoHostPods))
  BY PodsAssumption, NamesAssumption DEF PodSet
<1> QED BY <1>1, NamesAssumption DEF PodsOf, FilesOf, Gatherers

\* The rest of a list of pods.
LEMMA TailOfPods ==
    ASSUME NEW s \in Seq(Pod), Len(s) # 0, Distinct(s)
    PROVE  /\ Tail(s) \in Seq(Pod) /\ Distinct(Tail(s))
           /\ PodSet(Tail(s)) \subseteq PodSet(s)
           /\ Head(s) \in Pod /\ Head(s) \in PodSet(s)
           /\ Head(s) \notin PodSet(Tail(s))
           /\ Len(Tail(s)) = Len(s) - 1
<1>1. /\ Len(s) \in Nat \ {0} /\ Len(Tail(s)) = Len(s) - 1
      /\ \A i \in 1..Len(Tail(s)) : Tail(s)[i] = s[i + 1]
      /\ Tail(s) \in Seq(Pod) /\ Head(s) = s[1] /\ s[1] \in Pod
  OBVIOUS
<1>2. Distinct(Tail(s))
  BY <1>1 DEF Distinct
<1>3. PodSet(Tail(s)) \subseteq PodSet(s) /\ s[1] \in PodSet(s)
  BY <1>1 DEF PodSet
<1>4. s[1] \notin PodSet(Tail(s))
  BY <1>1 DEF PodSet, Distinct
<1> QED BY <1>1, <1>2, <1>3, <1>4

\* A gatherer returns, or goes on to its next pod: the place is one where no
\* outcome is ahead.
LEMMA ReturnMoves ==
    ASSUME TypeOK, Place, Behind, gatherer # "done", Return, UNCHANGED outcome
    PROVE  /\ Place' /\ Behind'
           /\ gatherer' \in Gatherers /\ pods' = <<>> /\ todo' = {}
           /\ pc' \in {"listPods", "done"}
<1>1. /\ gatherer \in Gatherers /\ gatherer' \in Gatherers
      /\ Rank(gatherer') = Rank(gatherer) + 1
      /\ pods' = <<>> /\ todo' = {} /\ Len(<<>>) = 0
      /\ pc' \in {"listPods", "done"}
      /\ pc' = "done" <=> gatherer' = "done"
  BY DEF Return, NextGatherer, TypeOK, Gatherers, Rank
<1>2. Place'
  BY <1>1 DEF Place, Distinct, PodSet
<1>3. Behind'
  <2> SUFFICES ASSUME NEW a \in outcome
               PROVE  /\ a[2] \in PodSet(PodsOf(a[1])) /\ a[3] \in FilesOf(a[1])
                      /\ Rank(a[1]) <= Rank(gatherer')
                      /\ a[1] # gatherer'
    BY DEF Behind, PodSet, PodsOf, FilesOf, Rank
  <2>1. a[1] \in Gatherers
    BY OutcomeType
  <2>2. Rank(a[1]) \in Nat /\ Rank(gatherer) \in Nat
    BY <1>1, <2>1, ListTypes
  <2> QED BY <1>1, <2>2 DEF Behind
<1> QED BY <1>1, <1>2, <1>3

LEMMA NextPodMoves ==
    ASSUME TypeOK, Place, Behind, Len(pods) # 0, gatherer # "done", NextPod,
           UNCHANGED outcome
    PROVE  /\ Place' /\ Behind'
           /\ gatherer' \in Gatherers /\ pods' \in Seq(Pod) /\ todo' = {}
           /\ pc' \in {"listPods", "done", "listFiles"}
<1>1. CASE Len(pods) = 1
  BY <1>1, ReturnMoves DEF NextPod
<1>2. CASE Len(pods) # 1
  <2>1. /\ pods' = Tail(pods) /\ pc' = "listFiles" /\ todo' = {}
        /\ gatherer' = gatherer /\ gatherer \in Gatherers /\ pods \in Seq(Pod)
    BY <1>2 DEF NextPod, TypeOK
  <2>2. /\ pods' \in Seq(Pod) /\ Distinct(pods') /\ Len(pods') # 0
        /\ PodSet(pods') \subseteq PodSet(pods)
        /\ pod \notin PodSet(pods')
    BY <1>2, <2>1, TailOfPods DEF Place, pod
  <2>3. Place'
    BY <2>1, <2>2 DEF Place, Distinct, PodSet, PodsOf, FilesOf
  <2>4. Behind'
    <3> SUFFICES ASSUME NEW a \in outcome
                 PROVE  /\ a[2] \in PodSet(PodsOf(a[1])) /\ a[3] \in FilesOf(a[1])
                        /\ Rank(a[1]) <= Rank(gatherer)
                        /\ a[1] = gatherer => a[2] \notin PodSet(pods')
      BY <2>1 DEF Behind, PodSet, PodsOf, FilesOf, Rank
    <3> QED BY <2>2 DEF Behind
  <2> QED BY <2>1, <2>2, <2>3, <2>4
<1> QED BY <1>1, <1>2

\* A file that is still to be done has no outcome yet, of any gatherer.
LEMMA NoneYet ==
    ASSUME IInv, pc \in {"measure", "stream"}, NEW f \in todo
    PROVE  /\ \A a \in outcome : ~(a[2] = pod /\ a[3] = f)
           /\ \A entry \in archive : ~(entry.pod = pod /\ entry.file = f)
<1>1. /\ gatherer \in Gatherers \ {"done"} /\ pods \in Seq(Pod) /\ Len(pods) # 0
      /\ pod \in PodSet(pods) /\ pod \in PodSet(PodsOf(gatherer))
      /\ f \in FilesOf(gatherer)
  BY TailOfPods DEF IInv, TypeOK, Place, pod
<1>2. ASSUME NEW a \in outcome, a[2] = pod, a[3] = f PROVE FALSE
  <2>1. /\ a[1] \in Gatherers /\ Rank(a[1]) <= Rank(gatherer)
        /\ pod \in PodSet(PodsOf(a[1])) /\ f \in FilesOf(a[1])
    BY <1>2, OutcomeType DEF IInv, Behind
  <2>2. a[1] # "done"
    BY <1>1, <2>1 DEF Rank, Gatherers
  <2>3. a[1] = gatherer
    BY <1>1, <2>1, <2>2, GatherersApart
  <2> QED BY <1>1, <1>2, <2>3 DEF IInv, Behind
<1>3. ASSUME NEW entry \in archive, entry.pod = pod, entry.file = f PROVE FALSE
  BY <1>2, <1>3 DEF IInv, Archived
<1> QED BY <1>2, <1>3

\* One more outcome, of a file that had none.
LEMMA FinishMoves ==
    ASSUME IInv, pc \in {"measure", "stream"}, NEW f \in todo, NEW how \in Outcomes,
           Finish(f, how), UNCHANGED <<gatherer, pods>>,
           \/ how # "archived" /\ archive' = archive
           \/ /\ how = "archived"
              /\ \E n \in Sizes :
                    archive' = archive \cup {[pod |-> pod, file |-> f, size |-> n]}
    PROVE  /\ todo' \subseteq File /\ pc' \in {"measure", "cleanup"}
           /\ outcome' \subseteq Gatherers \X Pod \X File \X Outcomes
           /\ archive' \subseteq [pod : Pod, file : File, size : Sizes]
           /\ Place' /\ Behind' /\ Archived' /\ OneOutcomeEach'
           /\ how # "reported" => ReportedHere' = ReportedHere
           /\ Reported' <=> (Reported \/ how = "reported")
<1> DEFINE new == <<gatherer, pod, f, how>>
<1>1. /\ gatherer \in Gatherers \ {"done"} /\ pods \in Seq(Pod) /\ Len(pods) # 0
      /\ pod \in Pod /\ pod \in PodSet(pods) /\ pod \in PodSet(PodsOf(gatherer))
      /\ f \in FilesOf(gatherer) /\ f \in File
  BY TailOfPods DEF IInv, TypeOK, Place, pod
<1>2. /\ todo' = todo \ {f} /\ outcome' = outcome \cup {new}
      /\ pc' \in {"measure", "cleanup"} /\ UNCHANGED pod
      /\ new[1] = gatherer /\ new[2] = pod /\ new[3] = f /\ new[4] = how
      /\ new \in Gatherers \X Pod \X File \X Outcomes
  BY <1>1 DEF Finish, pod
<1>3. \A a \in outcome : ~(a[2] = pod /\ a[3] = f)
  BY NoneYet
<1>4. \A entry \in archive : ~(entry.pod = pod /\ entry.file = f)
  BY NoneYet
<1> HIDE DEF new
<1>5. /\ todo' \subseteq File
      /\ outcome' \subseteq Gatherers \X Pod \X File \X Outcomes
      /\ archive' \subseteq [pod : Pod, file : File, size : Sizes]
  BY <1>1, <1>2 DEF IInv, TypeOK
<1>6. Place'
  BY <1>2 DEF IInv, Place, Distinct, PodSet, PodsOf, FilesOf
<1>7. Behind'
  <2> SUFFICES ASSUME NEW a \in outcome'
               PROVE  /\ a[2] \in PodSet(PodsOf(a[1])) /\ a[3] \in FilesOf(a[1])
                      /\ Rank(a[1]) <= Rank(gatherer)
                      /\ a[1] = gatherer =>
                            (a[2] \in PodSet(pods) => a[2] = pod /\ a[3] \notin todo')
    BY <1>2 DEF Behind, PodSet, PodsOf, FilesOf, Rank
  <2>1. CASE a \in outcome
    BY <1>2, <2>1 DEF IInv, Behind
  <2>2. CASE a = new
    <3>1. Rank(gatherer) \in 1..4
      BY <1>1, ListTypes
    <3> QED BY <1>1, <1>2, <2>2, <3>1
  <2> QED BY <1>2, <2>1, <2>2
<1>8. Archived'
  <2> SUFFICES ASSUME NEW entry \in archive'
               PROVE  \E a \in outcome' :
                        a[2] = entry.pod /\ a[3] = entry.file /\ a[4] = "archived"
    BY DEF Archived
  <2>1. CASE entry \in archive
    BY <1>2, <2>1 DEF IInv, Archived
  <2>2. CASE how = "archived" /\ entry.pod = pod /\ entry.file = f
    BY <1>2, <2>2
  <2> QED BY <2>1, <2>2
<1>9. OneOutcomeEach'
  <2>1. ASSUME NEW a \in outcome', NEW b \in outcome', a[2] = b[2], a[3] = b[3]
        PROVE  a = b
    BY <1>2, <1>3, <2>1 DEF IInv, OneOutcomeEach
  <2>2. ASSUME NEW a \in outcome'
        PROVE  a[4] = "archived" <=>
                 \E entry \in archive' : entry.pod = a[2] /\ entry.file = a[3]
    <3>1. CASE a \in outcome
      <4>1. ASSUME NEW entry \in archive', entry.pod = a[2], entry.file = a[3]
            PROVE  entry \in archive
        BY <1>3, <3>1, <4>1
      <4>2. archive \subseteq archive'
        OBVIOUS
      <4> QED BY <3>1, <4>1, <4>2 DEF IInv, OneOutcomeEach
    <3>2. CASE a = new
      <4>1. CASE how # "archived" /\ archive' = archive
        BY <1>2, <1>4, <3>2, <4>1
      <4>2. CASE /\ how = "archived"
                 /\ \E n \in Sizes :
                       archive' = archive \cup {[pod |-> pod, file |-> f, size |-> n]}
        <5>1. PICK n \in Sizes :
                  archive' = archive \cup {[pod |-> pod, file |-> f, size |-> n]}
          BY <4>2
        <5>2. [pod |-> pod, file |-> f, size |-> n] \in archive'
          BY <5>1
        <5> QED BY <1>2, <3>2, <4>2, <5>2
      <4> QED BY <4>1, <4>2
    <3> QED BY <1>2, <3>1, <3>2
  <2> QED BY <2>1, <2>2 DEF OneOutcomeEach
<1>10. how # "reported" => ReportedHere' = ReportedHere
  BY <1>2 DEF ReportedHere
<1>11. Reported' <=> (Reported \/ how = "reported")
  BY <1>2 DEF Reported
<1> QED BY <1>2, <1>5, <1>6, <1>7, <1>8, <1>9, <1>10, <1>11

-----------------------------------------------------------------------------
(* One lemma per action.                                                   *)

LEMMA InitIInv == Init => IInv
<1> SUFFICES ASSUME Init PROVE IInv
  OBVIOUS
<1>1. /\ pods \in Seq(Pod) /\ Len(pods) = 0 /\ outcome = {} /\ archive = {}
  BY DEF Init
<1>2. TypeOK
  <2>1. 0 \in Sizes
    BY PodsAssumption DEF Sizes
  <2> QED BY <1>1, <2>1 DEF Init, TypeOK, Gatherers, NoFile
<1>3. Place
  BY <1>1 DEF Init, Place, Distinct, PodSet
<1> QED BY <1>1, <1>2, <1>3
        DEF Init, IInv, Behind, Archived, OneOutcomeEach, Flag, AtFiles, Empty

\* What follows when no file gets an outcome and the walk is not at files.
LEMMA WalkOn ==
    ASSUME IInv, TypeOK', Place', Behind', UNCHANGED <<archive, outcome>>, ~AtFiles',
           ~undeleted' /\ ~Reported => \A f \in File : local'[f] = Absent
    PROVE  IInv'
<1>1. Archived' /\ OneOutcomeEach' /\ (Reported' <=> Reported)
  BY DEF IInv, Archived, OneOutcomeEach, Reported
<1>2. Flag' /\ Empty'
  BY <1>1 DEF Flag, Empty
<1> QED BY <1>1, <1>2 DEF IInv

LEMMA ListPodsIInv == ASSUME IInv, ListPods PROVE IInv'
<1>1. /\ pc = "listPods" /\ gatherer # "done" /\ gatherer \in Gatherers
      /\ UNCHANGED <<measured, doCleanup, size, local, archive, outcome, retained,
                     undeleted>>
  BY DEF ListPods, IInv, TypeOK, Place
<1>2. CASE Return
  <2>1. TypeOK' /\ Place' /\ Behind' /\ pc' \in {"listPods", "done"}
    <3>1. pods' \in Seq(Pod)
      BY <1>1, <1>2, ReturnMoves DEF IInv
    <3> QED BY <1>1, <1>2, <3>1, ReturnMoves DEF IInv, TypeOK
  <2> QED BY <1>1, <2>1, WalkOn DEF IInv, Empty, AtFiles
<1>3. CASE /\ PodsOf(gatherer) # <<>> /\ pods' = PodsOf(gatherer)
           /\ pc' = "listFiles" /\ UNCHANGED <<gatherer, todo>>
  <2>1. pods' \in Seq(Pod) /\ Distinct(pods') /\ Len(pods') # 0
    BY <1>1, <1>3, ListTypes
  <2>2. TypeOK'
    BY <1>1, <1>3, <2>1 DEF IInv, TypeOK
  <2>3. Place'
    BY <1>1, <1>3, <2>1 DEF IInv, Place, Distinct, PodSet, PodsOf, FilesOf
  <2>4. Behind'
    BY <1>1, <1>3 DEF IInv, Behind, PodSet, PodsOf, FilesOf, Rank
  <2> QED BY <1>1, <1>3, <2>2, <2>3, <2>4, WalkOn DEF IInv, Empty, AtFiles
<1> QED BY <1>2, <1>3 DEF ListPods

LEMMA ListFilesIInv == ASSUME IInv, ListFiles PROVE IInv'
<1>1. /\ pc = "listFiles" /\ gatherer # "done" /\ gatherer \in Gatherers
      /\ Len(pods) # 0 /\ pods \in Seq(Pod)
      /\ UNCHANGED <<measured, size, local, archive, outcome, retained, undeleted>>
  BY DEF ListFiles, IInv, TypeOK, Place
<1>2. CASE (NextPod \/ Return) /\ UNCHANGED doCleanup
  <2>1. /\ Place' /\ Behind' /\ gatherer' \in Gatherers /\ todo' = {}
        /\ pods' \in Seq(Pod) /\ pc' \in {"listPods", "done", "listFiles"}
    <3>1. CASE NextPod
      BY <1>1, <3>1, NextPodMoves DEF IInv
    <3>2. CASE Return
      BY <1>1, <3>2, ReturnMoves DEF IInv
    <3> QED BY <1>2, <3>1, <3>2
  <2>2. TypeOK'
    BY <1>1, <1>2, <2>1 DEF IInv, TypeOK
  <2> QED BY <1>1, <2>1, <2>2, WalkOn DEF IInv, Empty, AtFiles
<1>3. CASE \E files \in SUBSET FilesOf(gatherer) :
              /\ todo' = files /\ doCleanup' = TRUE
              /\ pc' = IF files = {} THEN "cleanup" ELSE "measure"
              /\ UNCHANGED <<gatherer, pods>>
  <2>1. /\ todo' \subseteq FilesOf(gatherer) /\ todo' \subseteq File
        /\ doCleanup' = TRUE /\ pc' \in {"cleanup", "measure"}
        /\ UNCHANGED <<gatherer, pods>>
    BY <1>1, <1>3, ListTypes
  <2>2. TypeOK'
    BY <1>1, <2>1 DEF IInv, TypeOK
  <2>3. Place'
    <3>1. Distinct(pods) /\ PodSet(pods) \subseteq PodSet(PodsOf(gatherer))
      BY DEF IInv, Place
    <3>2. Distinct(pods)'
      BY <2>1, <3>1 DEF Distinct
    <3>3. PodSet(pods)' = PodSet(pods) /\ PodSet(PodsOf(gatherer))' = PodSet(PodsOf(gatherer))
      BY <2>1 DEF PodSet, PodsOf
    <3>4. FilesOf(gatherer)' = FilesOf(gatherer)
      BY <2>1 DEF FilesOf
    <3> QED BY <1>1, <2>1, <3>1, <3>2, <3>3, <3>4 DEF Place
  <2>4. \A a \in outcome : a[1] = gatherer => a[2] \notin PodSet(pods)
    BY <1>1 DEF IInv, Behind
  <2>5. pod \in PodSet(pods)
    BY <1>1, TailOfPods DEF IInv, Place, pod
  <2>6. Behind'
    BY <1>1, <2>1, <2>4 DEF IInv, Behind, PodSet, PodsOf, FilesOf, Rank
  <2>7. Archived' /\ OneOutcomeEach'
    BY <1>1 DEF IInv, Archived, OneOutcomeEach
  <2>8. Flag'
    <3>1. ReportedHere' = {}
      BY <1>1, <2>1, <2>4, <2>5 DEF ReportedHere, pod
    <3> QED BY <2>1, <3>1 DEF Flag
  <2>9. Empty'
    <3>1. AtFiles'
      BY <2>1 DEF AtFiles
    <3> QED BY <3>1 DEF Empty
  <2> QED BY <2>2, <2>3, <2>6, <2>7, <2>8, <2>9 DEF IInv
<1> QED BY <1>2, <1>3 DEF ListFiles

\* What the two steps of a file have in common.
LEMMA FileMoves ==
    ASSUME IInv, pc \in {"measure", "stream"}, NEW f \in todo, NEW how \in Outcomes,
           Finish(f, how), UNCHANGED <<gatherer, pods, undeleted>>,
           \/ how # "archived" /\ archive' = archive
           \/ /\ how = "archived"
              /\ \E n \in Sizes :
                    archive' = archive \cup {[pod |-> pod, file |-> f, size |-> n]},
           doCleanup' = IF how = "reported" THEN FALSE ELSE doCleanup,
           measured' \in [file : File \cup {Absent}, size : Sizes], size' \in Sizes,
           local' \in [File -> [pod : Pod, size : Sizes] \cup {Absent}],
           retained' \subseteq Pod \X File
    PROVE  IInv'
<1>1. /\ todo' \subseteq File /\ pc' \in {"measure", "cleanup"}
      /\ outcome' \subseteq Gatherers \X Pod \X File \X Outcomes
      /\ archive' \subseteq [pod : Pod, file : File, size : Sizes]
      /\ Place' /\ Behind' /\ Archived' /\ OneOutcomeEach'
      /\ how # "reported" => ReportedHere' = ReportedHere
      /\ Reported' <=> (Reported \/ how = "reported")
  BY FinishMoves
<1>2. TypeOK'
  BY <1>1 DEF IInv, TypeOK
<1>3. AtFiles /\ AtFiles'
  BY <1>1 DEF AtFiles
<1>4. Flag'
  BY <1>1, <1>3 DEF IInv, Flag
<1>5. Empty'
  BY <1>3 DEF Empty
<1> QED BY <1>1, <1>2, <1>4, <1>5 DEF IInv

LEMMA MeasureIInv == ASSUME IInv, Measure PROVE IInv'
<1>1. /\ pc = "measure"
      /\ UNCHANGED <<gatherer, pods, doCleanup, local, archive, retained, undeleted>>
  BY DEF Measure
<1>2. PICK f \in todo :
        \/ /\ size' \in Sizes
           /\ measured' = [file |-> f, size |-> size']
           /\ pc' = "stream"
           /\ UNCHANGED <<todo, outcome>>
        \/ Finish(f, "logged") /\ UNCHANGED <<measured, size>>
  BY DEF Measure
<1>3. CASE /\ size' \in Sizes
           /\ measured' = [file |-> f, size |-> size']
           /\ pc' = "stream"
           /\ UNCHANGED <<todo, outcome>>
  <2>1. f \in File /\ measured'.file = f
    BY <1>3 DEF IInv, TypeOK
  <2>2. TypeOK'
    BY <1>1, <1>3, <2>1 DEF IInv, TypeOK
  <2>3. Place'
    <3>1. /\ Distinct(pods)' /\ (PodSet(pods) \subseteq PodSet(PodsOf(gatherer)))'
          /\ FilesOf(gatherer)' = FilesOf(gatherer)
      BY <1>1 DEF IInv, Place, Distinct, PodSet, PodsOf, FilesOf
    <3> QED BY <1>1, <1>3, <2>1, <3>1 DEF IInv, Place
  <2>4. Behind'
    BY <1>1, <1>3 DEF IInv, Behind, PodSet, PodsOf, FilesOf, Rank, pod
  <2>5. Archived' /\ OneOutcomeEach'
    BY <1>1, <1>3 DEF IInv, Archived, OneOutcomeEach
  <2>6. AtFiles /\ AtFiles' /\ ReportedHere' = ReportedHere /\ (Reported' <=> Reported)
    BY <1>1, <1>3 DEF AtFiles, ReportedHere, Reported, pod
  <2>7. Flag' /\ Empty'
    BY <1>1, <2>6 DEF IInv, Flag, Empty
  <2> QED BY <2>2, <2>3, <2>4, <2>5, <2>7 DEF IInv
<1>4. CASE Finish(f, "logged") /\ UNCHANGED <<measured, size>>
  <2>1. /\ measured' \in [file : File \cup {Absent}, size : Sizes] /\ size' \in Sizes
        /\ local' \in [File -> [pod : Pod, size : Sizes] \cup {Absent}]
        /\ retained' \subseteq Pod \X File
    BY <1>1, <1>4 DEF IInv, TypeOK
  <2> QED BY <1>1, <1>4, <2>1, FileMoves DEF Outcomes
<1> QED BY <1>2, <1>3, <1>4

LEMMA StreamIInv == ASSUME IInv, Stream PROVE IInv'
<1> DEFINE f == measured.file
<1>1. /\ pc = "stream" /\ UNCHANGED <<gatherer, pods, undeleted>>
      /\ f \in todo /\ f \in File /\ size \in Sizes /\ pod \in Pod
  BY TailOfPods DEF Stream, IInv, TypeOK, Place, pod
<1>2. measured' \in [file : File \cup {Absent}, size : Sizes] /\ size' \in Sizes
  BY PodsAssumption DEF Stream, NoFile, Sizes
<1>3. CASE Failed(f) /\ UNCHANGED <<local, retained>>
  <2>1. /\ local' \in [File -> [pod : Pod, size : Sizes] \cup {Absent}]
        /\ retained' \subseteq Pod \X File
    BY <1>3 DEF IInv, TypeOK
  <2>2. Finish(f, "reported") /\ doCleanup' = FALSE /\ archive' = archive
    BY <1>3 DEF Failed
  <2> HIDE DEF f
  <2> QED BY <1>1, <1>2, <2>1, <2>2, FileMoves DEF Outcomes
<1>4. ASSUME NEW copied \in 0..size,
             local' = [local EXCEPT ![f] = [pod |-> pod, size |-> copied]],
             \/ /\ copied = size /\ copied = measured.size
                /\ Finish(f, "archived")
                /\ archive' = archive \cup {[pod |-> pod, file |-> f, size |-> copied]}
                /\ UNCHANGED <<doCleanup, retained>>
             \/ Failed(f) /\ retained' = retained \cup {<<pod, f>>}
      PROVE  IInv'
  <2>1. copied \in Sizes
    BY <1>1, PodsAssumption DEF Sizes
  <2>2. local' \in [File -> [pod : Pod, size : Sizes] \cup {Absent}]
    BY <1>1, <1>4, <2>1 DEF IInv, TypeOK
  <2>3. retained' \subseteq Pod \X File
    BY <1>1, <1>4 DEF IInv, TypeOK
  <2> HIDE DEF f
  <2>4. CASE Failed(f)
    <3>1. Finish(f, "reported") /\ doCleanup' = FALSE /\ archive' = archive
      BY <2>4 DEF Failed
    <3> QED BY <1>1, <1>2, <2>2, <2>3, <3>1, FileMoves DEF Outcomes
  <2>5. CASE /\ Finish(f, "archived")
             /\ archive' = archive \cup {[pod |-> pod, file |-> f, size |-> copied]}
             /\ UNCHANGED <<doCleanup, retained>>
    BY <1>1, <1>2, <2>1, <2>2, <2>3, <2>5, FileMoves DEF Outcomes
  <2> QED BY <1>4, <2>4, <2>5
<1> QED BY <1>3, <1>4 DEF Stream

\* A pod or a part of it is left behind.
LEMMA LeaveMoves ==
    ASSUME IInv, pc \in {"listFiles", "cleanup", "configs", "commands"},
           UNCHANGED outcome,
           \/ NextPod \/ Return
           \/ GoTo("configs") \/ GoTo("commands")
    PROVE  /\ Place' /\ Behind' /\ ~AtFiles'
           /\ gatherer' \in Gatherers /\ pods' \in Seq(Pod) /\ todo' \subseteq File
           /\ pc' \in {"listPods", "done", "listFiles", "configs", "commands"}
<1>1. /\ gatherer # "done" /\ gatherer \in Gatherers /\ Len(pods) # 0
      /\ pods \in Seq(Pod) /\ todo \subseteq File
  BY DEF IInv, TypeOK, Place
<1>2. CASE NextPod
  BY <1>1, <1>2, NextPodMoves DEF IInv, AtFiles
<1>3. CASE Return
  BY <1>1, <1>3, ReturnMoves DEF IInv, AtFiles
<1>4. CASE GoTo("configs") \/ GoTo("commands")
  <2>1. pc' \in {"configs", "commands"} /\ UNCHANGED <<gatherer, pods, todo>>
    BY <1>4 DEF GoTo
  <2>2. Place'
    <3>1. /\ Distinct(pods)' /\ (PodSet(pods) \subseteq PodSet(PodsOf(gatherer)))'
          /\ FilesOf(gatherer)' = FilesOf(gatherer)
      BY <2>1 DEF IInv, Place, Distinct, PodSet, PodsOf, FilesOf
    <3> QED BY <1>1, <2>1, <3>1 DEF IInv, Place
  <2>3. Behind'
    BY <2>1 DEF IInv, Behind, PodSet, PodsOf, FilesOf, Rank, pod
  <2> QED BY <1>1, <2>1, <2>2, <2>3 DEF AtFiles
<1> QED BY <1>2, <1>3, <1>4

LEMMA CleanupIInv == ASSUME IInv, Cleanup PROVE IInv'
<1>1. /\ pc = "cleanup" /\ AtFiles
      /\ UNCHANGED <<measured, doCleanup, size, archive, outcome, retained>>
      /\ NextPod \/ GoTo("configs")
  BY DEF Cleanup, AtFiles
<1>2. /\ local' \in [File -> [pod : Pod, size : Sizes] \cup {Absent}]
      /\ undeleted' \in BOOLEAN
  BY DEF Cleanup, IInv, TypeOK
<1>3. /\ Place' /\ Behind' /\ ~AtFiles'
      /\ gatherer' \in Gatherers /\ pods' \in Seq(Pod) /\ todo' \subseteq File
      /\ pc' \in {"listPods", "done", "listFiles", "configs", "commands"}
  BY <1>1, LeaveMoves
<1>4. TypeOK'
  BY <1>1, <1>2, <1>3 DEF IInv, TypeOK
<1>5. ~undeleted' /\ ~Reported => \A f \in File : local'[f] = Absent
  <2>1. CASE doCleanup /\ local' = [f \in File |-> Absent]
    BY <2>1
  <2>2. CASE undeleted' = TRUE
    BY <2>2
  <2>3. CASE ~doCleanup
    BY <1>1, <2>3 DEF IInv, Flag
  <2> QED BY <2>1, <2>2, <2>3 DEF Cleanup
<1> QED BY <1>1, <1>3, <1>4, <1>5, WalkOn

LEMMA DiagnoseIInv == ASSUME IInv, Configs \/ Commands PROVE IInv'
<1>1. /\ pc \in {"configs", "commands"} /\ ~AtFiles
      /\ UNCHANGED <<measured, doCleanup, size, local, archive, outcome, retained,
                     undeleted>>
      /\ NextPod \/ Return \/ GoTo("commands")
  BY DEF Configs, Commands, AtFiles
<1>2. /\ Place' /\ Behind' /\ ~AtFiles'
      /\ gatherer' \in Gatherers /\ pods' \in Seq(Pod) /\ todo' \subseteq File
      /\ pc' \in {"listPods", "done", "listFiles", "configs", "commands"}
  BY <1>1, LeaveMoves
<1>3. TypeOK'
  BY <1>1, <1>2 DEF IInv, TypeOK
<1>4. ~undeleted' /\ ~Reported => \A f \in File : local'[f] = Absent
  BY <1>1 DEF IInv, Empty
<1> QED BY <1>1, <1>2, <1>3, <1>4, WalkOn

\* A log that grows between its measurement and its copy changes nothing else.
LEMMA UnchangedIInv ==
    ASSUME IInv, size' \in Sizes,
           UNCHANGED <<gatherer, pods, pc, todo, measured, doCleanup, local, archive,
                       outcome, retained, undeleted>>
    PROVE  IInv'
<1>1. TypeOK'
  BY DEF IInv, TypeOK
<1>2. Place'
  BY DEF IInv, Place, Distinct, PodSet, PodsOf, FilesOf
<1>3. Behind'
  BY DEF IInv, Behind, PodSet, PodsOf, FilesOf, Rank, pod
<1>4. Archived' /\ OneOutcomeEach'
  BY DEF IInv, Archived, OneOutcomeEach
<1>5. Flag' /\ Empty'
  BY DEF IInv, Flag, Empty, AtFiles, ReportedHere, Reported, pod
<1> QED BY <1>1, <1>2, <1>3, <1>4, <1>5 DEF IInv

-----------------------------------------------------------------------------
(* The theorems.                                                           *)

LEMMA NextIInv == ASSUME IInv, [Next]_vars PROVE IInv'
<1>1. CASE Write
  BY <1>1, UnchangedIInv DEF Write
<1>2. CASE UNCHANGED vars
  BY <1>2, UnchangedIInv DEF vars, IInv, TypeOK
<1> QED BY <1>1, <1>2, ListPodsIInv, ListFilesIInv, MeasureIInv, StreamIInv, CleanupIInv,
           DiagnoseIInv DEF Next

\* The invariant is inductive.
THEOREM Invariance == Spec => []IInv
<1> QED BY InitIInv, NextIInv, PTL DEF Spec

\* Every variable keeps its type.
THEOREM TypeCorrect == Spec => []TypeOK
<1>1. IInv => TypeOK
  BY DEF IInv
<1> QED BY <1>1, Invariance, PTL

\* A log file has one outcome, and it is archived exactly when nothing was said
\* about it (export.go:1347-1376).
THEOREM OneOutcome == Spec => []OneOutcomeEach
<1>1. IInv => OneOutcomeEach
  BY DEF IInv
<1> QED BY <1>1, Invariance, PTL

\* Without a reported file, and when RemoveAll works, nothing is left behind
\* (export.go:1378).
THEOREM LeavesNothing == Spec => []NothingLeftBehind
<1>1. IInv => NothingLeftBehind
  BY DEF IInv, NothingLeftBehind, Empty, Reported, AtFiles
<1> QED BY <1>1, Invariance, PTL

\* A pod one of whose files was reported does not remove the directory
\* (export.go:1345).
THEOREM KeepsDirectory == Spec => FailedPodKeepsDirectory
<1>1. ASSUME IInv, [Next]_vars,
             NEW f \in File, local[f] # Absent, local'[f] = Absent
      PROVE  ReportedHere = {}
  <2>1. CASE Cleanup
    BY <1>1, <2>1 DEF Cleanup, IInv, Flag, AtFiles
  <2>2. CASE Stream
    <3>1. ASSUME NEW copied \in 0..size,
                 local' = [local EXCEPT ![measured.file] = [pod |-> pod, size |-> copied]]
          PROVE  FALSE
      <4>1. /\ local \in [File -> [pod : Pod, size : Sizes] \cup {Absent}]
            /\ size \in Sizes /\ pod \in Pod
        BY <1>1, <2>2, TailOfPods DEF Stream, IInv, TypeOK, Place, pod
      <4>2. [pod |-> pod, size |-> copied] # Absent
        BY <4>1, PodsAssumption DEF Sizes
      <4> QED BY <1>1, <3>1, <4>1, <4>2
    <3>2. CASE UNCHANGED local
      BY <1>1, <3>2
    <3> QED BY <2>2, <3>1, <3>2 DEF Stream
  <2>3. CASE UNCHANGED local
    BY <1>1, <2>3
  <2> QED BY <1>1, <2>1, <2>2, <2>3
          DEF Next, ListPods, ListFiles, Measure, Configs, Commands, Write, vars
<1>2. IInv /\ [Next]_vars =>
        [\A f \in File : local[f] # Absent /\ local'[f] = Absent => ReportedHere = {}]_vars
  BY <1>1
<1> QED BY <1>2, Invariance, PTL DEF Spec, FailedPodKeepsDirectory

-----------------------------------------------------------------------------
(* The refinement.                                                         *)

\* What may answer a list, a log file and a removal.
LEMMA Answers ==
    /\ DOMAIN Steps!Asked = {"listing", "file", "remove"}
    /\ \A place \in DOMAIN Steps!Asked :
          \E answer \in DOMAIN Steps!Asked[place].reach :
              Steps!Asked[place].reach[answer] = "item"
    /\ \A place \in {"listing", "remove"} :
          \E answer \in DOMAIN Steps!Asked[place].reach :
              Steps!Asked[place].reach[answer] = "group"
    /\ \E answer \in DOMAIN Steps!Asked["listing"].reach :
          Steps!Asked["listing"].reach[answer] = "gatherer"
<1> USE DEF Steps!Asked, Steps!Listing, Steps!LogFile, Steps!RemoveLocal, Steps!Thing
<1>1. DOMAIN Steps!Asked = {"listing", "file", "remove"}
  OBVIOUS
<1>2. /\ \A place \in DOMAIN Steps!Asked : /\ "ok" \in DOMAIN Steps!Asked[place].reach
                                          /\ Steps!Asked[place].reach["ok"] = "item"
      /\ \A place \in {"listing", "remove"} :
            /\ "failed" \in DOMAIN Steps!Asked[place].reach
            /\ Steps!Asked[place].reach["failed"] = "group"
      /\ "forbidden" \in DOMAIN Steps!Asked["listing"].reach
      /\ Steps!Asked["listing"].reach["forbidden"] = "gatherer"
  OBVIOUS
<1> HIDE DEF Steps!Asked
<1> QED BY <1>1, <1>2

\* The place of a gatherer in Walk.
LEMMA WalkPlaces ==
    /\ pc = "listPods" => WalkPlace = "pods"
    /\ pc = "listFiles" => WalkPlace = "listing"
    /\ pc \in {"measure", "stream"} => WalkPlace = "file"
    /\ pc = "cleanup" => WalkPlace = "remove"
    /\ pc \in {"configs", "commands"} => WalkPlace = "rest"
    /\ pc = "done" => WalkPlace = "done"
BY DEF WalkPlace

LEMMA WalkPlacesNext ==
    /\ pc' = "listPods" => WalkPlace' = "pods"
    /\ pc' = "listFiles" => WalkPlace' = "listing"
    /\ pc' \in {"measure", "stream"} => WalkPlace' = "file"
    /\ pc' = "cleanup" => WalkPlace' = "remove"
    /\ pc' \in {"configs", "commands"} => WalkPlace' = "rest"
    /\ pc' = "done" => WalkPlace' = "done"
BY DEF WalkPlace

\* To return is to return there.
LEMMA ReturnWalks ==
    ASSUME IInv, gatherer # "done", Return
    PROVE  Steps!Return
<1>1. gatherer \in {"postgres", "backrest", "repoHost"}
  BY DEF IInv, TypeOK, Gatherers
<1>2. gatherer' = Steps!NextGatherer[gatherer]
  BY <1>1 DEF Return, NextGatherer, Steps!NextGatherer
<1>3. PodsLeft' = 0 /\ todo' = {}
  BY DEF Return, PodsLeft
<1>4. WalkPlace' = IF gatherer' = "done" THEN "done" ELSE "pods"
  BY WalkPlacesNext DEF Return
<1> QED BY <1>2, <1>3, <1>4 DEF Steps!Return

\* The next pod is the next pod there.
LEMMA NextPodWalks ==
    ASSUME IInv, gatherer # "done", Len(pods) # 0, NextPod
    PROVE  Steps!NextPod
<1>1. pods \in Seq(Pod) /\ pods # <<>> /\ Len(pods) \in Nat \ {0}
  BY DEF IInv, TypeOK
<1>2. PodsLeft = Len(pods) - 1
  BY <1>1 DEF PodsLeft
<1>3. CASE Len(pods) = 1
  BY <1>2, <1>3, ReturnWalks DEF NextPod, Steps!NextPod
<1>4. CASE Len(pods) # 1
  <2>1. pods' = Tail(pods) /\ pc' = "listFiles" /\ todo' = {} /\ UNCHANGED gatherer
    BY <1>4 DEF NextPod
  <2>2. Len(pods') = Len(pods) - 1
    BY <1>1, <2>1
  <2>3. PodsLeft' = PodsLeft - 1 /\ PodsLeft > 0
    <3>1. pods' # <<>>
      BY <1>1, <1>4, <2>2
    <3> QED BY <1>1, <1>2, <1>4, <2>2, <3>1 DEF PodsLeft
  <2>4. WalkPlace' = "listing"
    BY <2>1, WalkPlacesNext
  <2> QED BY <2>1, <2>3, <2>4 DEF Steps!NextPod
<1> QED BY <1>3, <1>4

\* Every step of these gatherers is one of Walk or none.
LEMMA StepWalks ==
    ASSUME IInv, [Next]_vars
    PROVE  Steps!Next \/ UNCHANGED <<gatherer, PodsLeft, todo, WalkPlace>>
<1>1. /\ pc # "done" => gatherer # "done"
      /\ pc \notin {"listPods", "done"} => Len(pods) # 0
      /\ pc = "stream" => measured.file \in todo
  BY DEF IInv, Place
<1>2. CASE ListPods
  <2>1. CASE Return
    BY <1>1, <1>2, <2>1, ReturnWalks, WalkPlaces DEF ListPods, Steps!Next, Steps!ListPods
  <2>2. CASE pods' = PodsOf(gatherer) /\ PodsOf(gatherer) # <<>> /\ pc' = "listFiles"
               /\ UNCHANGED <<gatherer, todo>>
    <3>1. PodsOf(gatherer) \in Seq(Pod)
      BY ListTypes DEF IInv, TypeOK
    <3>2. PodsLeft' \in Nat
      <4>1. Len(pods') \in Nat \ {0}
        BY <2>2, <3>1
      <4> QED BY <4>1 DEF PodsLeft
    <3> QED BY <1>2, <2>2, <3>2, WalkPlaces, WalkPlacesNext
            DEF ListPods, Steps!Next, Steps!ListPods
  <2> QED BY <1>2, <2>1, <2>2 DEF ListPods
<1>3. CASE ListFiles
  <2>1. WalkPlace = "listing" /\ gatherer # "done" /\ Len(pods) # 0
    BY <1>1, <1>3, WalkPlaces DEF ListFiles
  <2>2. CASE NextPod
    <3>1. Steps!NextPod
      BY <2>1, <2>2, NextPodWalks
    <3> QED BY <2>1, <3>1, Answers DEF Steps!Next, Steps!Ask
  <2>3. CASE Return
    <3>1. Steps!Return
      BY <2>1, <2>3, ReturnWalks
    <3> QED BY <2>1, <3>1, Answers DEF Steps!Next, Steps!Ask
  <2>4. CASE \E files \in SUBSET FilesOf(gatherer) :
                /\ todo' = files
                /\ pc' = IF files = {} THEN "cleanup" ELSE "measure"
                /\ UNCHANGED <<gatherer, pods>>
    <3>1. todo' \in SUBSET File /\ UNCHANGED <<gatherer, PodsLeft>>
      BY <2>4, ListTypes DEF IInv, TypeOK, PodsLeft
    <3>2. WalkPlace' = IF todo' = {} THEN "remove" ELSE "file"
      BY <2>4, WalkPlacesNext
    <3>3. Steps!NextItem
      BY <2>1, <3>1, <3>2 DEF Steps!NextItem, Steps!NextFile
    <3> QED BY <2>1, <3>3, Answers DEF Steps!Next, Steps!Ask
  <2> QED BY <1>3, <2>2, <2>3, <2>4 DEF ListFiles
<1>4. ASSUME NEW f \in todo, NEW how, Finish(f, how), pc \in {"measure", "stream"},
             UNCHANGED <<gatherer, pods>>
      PROVE  Steps!Next
  <2>1. WalkPlace = "file" /\ UNCHANGED <<gatherer, PodsLeft>>
    BY <1>4, WalkPlaces DEF PodsLeft
  <2>2. WalkPlace' = IF todo' = {} THEN "remove" ELSE "file"
    BY <1>4, WalkPlacesNext DEF Finish
  <2>3. Steps!NextItem
    BY <1>4, <2>1, <2>2 DEF Finish, Steps!NextItem, Steps!NextFile
  <2> QED BY <2>1, <2>3, Answers DEF Steps!Next, Steps!Ask
<1>5. CASE Measure
  <2>1. PICK f \in todo : \/ pc' = "stream" /\ UNCHANGED todo
                          \/ Finish(f, "logged")
    BY <1>5 DEF Measure
  <2>2. pc = "measure" /\ UNCHANGED <<gatherer, pods>>
    BY <1>5 DEF Measure
  <2>3. CASE pc' = "stream" /\ UNCHANGED todo
    BY <2>2, <2>3, WalkPlaces, WalkPlacesNext DEF PodsLeft
  <2> QED BY <1>4, <2>1, <2>2, <2>3
<1>6. CASE Stream
  <2>1. pc = "stream" /\ UNCHANGED <<gatherer, pods>> /\ measured.file \in todo
    BY <1>1, <1>6 DEF Stream
  <2>2. \E how : Finish(measured.file, how)
    BY <1>6 DEF Stream, Failed
  <2> QED BY <1>4, <2>1, <2>2
<1>7. CASE Cleanup
  <2>1. WalkPlace = "remove" /\ gatherer # "done" /\ Len(pods) # 0
    BY <1>1, <1>7, WalkPlaces DEF Cleanup
  <2>2. CASE NextPod
    <3>1. Steps!NextPod
      BY <2>1, <2>2, NextPodWalks
    <3> QED BY <2>1, <3>1, Answers DEF Steps!Next, Steps!Ask
  <2>3. CASE gatherer = "postgres" /\ GoTo("configs")
    <3>1. WalkPlace' = "rest" /\ UNCHANGED <<gatherer, PodsLeft, todo>>
      BY <2>3, WalkPlacesNext DEF GoTo, PodsLeft
    <3>2. Steps!NextItem
      BY <2>1, <2>3, <3>1 DEF Steps!NextItem
    <3> QED BY <2>1, <3>2, Answers DEF Steps!Next, Steps!Ask
  <2> QED BY <1>7, <2>2, <2>3 DEF Cleanup
<1>8. CASE Configs \/ Commands
  <2>1. WalkPlace = "rest" /\ gatherer # "done" /\ Len(pods) # 0
    BY <1>1, <1>8, WalkPlaces DEF Configs, Commands
  <2>2. CASE GoTo("commands")
    BY <2>1, <2>2, WalkPlacesNext DEF GoTo, PodsLeft
  <2>3. CASE NextPod
    BY <2>1, <2>3, NextPodWalks DEF Steps!Next, Steps!Rest
  <2>4. CASE Return
    BY <2>1, <2>4, ReturnWalks DEF Steps!Next, Steps!Rest
  <2> QED BY <1>8, <2>2, <2>3, <2>4 DEF Configs, Commands
<1>9. CASE Write \/ UNCHANGED vars
  <2>1. UNCHANGED <<gatherer, pods, pc, todo>>
    BY <1>9 DEF Write, vars
  <2> QED BY <2>1 DEF PodsLeft, WalkPlace
<1> QED BY <1>2, <1>3, <1>5, <1>6, <1>7, <1>8, <1>9 DEF Next

\* The gatherers of log files implement Walk: an error takes them as far as
\* module Reach, and with it Export, says (export.go:1298-1389).
THEOREM StepsReachAsSaid == Spec => StepsReach
<1>1. Init => Steps!Init
  BY DEF Init, Steps!Init, PodsLeft, WalkPlace
<1>2. IInv /\ [Next]_vars => [Steps!Next]_(Steps!vars)
  BY StepWalks DEF Steps!vars
<1> QED BY <1>1, <1>2, Invariance, PTL DEF Spec, StepsReach, Steps!Spec
=============================================================================
