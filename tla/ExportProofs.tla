---------------------------- MODULE ExportProofs ----------------------------
(***************************************************************************)
(* Proofs about Export, for every number of pods, containers, files and    *)
(* resource types, every --pg-logs-count and every behaviour of the gzip   *)
(* writer.  The argument about writes does not look into the plan: a write *)
(* that fails is remembered by the tar writer (tar # "ok"), a writer that  *)
(* remembers accepts nothing, and the command succeeds only behind an      *)
(* accepted write of its log.  Types need the plan; with them follow that  *)
(* every gatherer has its turn, that no loop goes back and, last and       *)
(* longest, that the gatherers of log files implement Walk.                *)
(***************************************************************************)
EXTENDS Export, SequenceTheorems, TLAPS

\* What holds between the state of the writer, the place in RunE and the
\* result: the inductive strengthening of the properties about writes.
IInv ==
    /\ tar = "ok" <=> ~failedWrite
    /\ file => found
    /\ pc = "start" => ~file /\ result = "none"
    /\ pc \in {"list", "ask", "log"} => result = "none"
    /\ pc = "stat" => result = "none" /\ ~failedWrite /\ ~untold
    /\ result = "succeeded" => ~failedWrite /\ ~untold
    /\ file /\ result = "failed" => failedWrite

\* A gatherer's loops move inside RunE and touch nothing but their place.
LEMMA ContinueMoves ==
    ASSUME NEW reach, Continue(reach), pc = "ask"
    PROVE  pc' \in {"list", "ask", "log"}
BY DEF Continue, Return

\* Accepting or breaking a member keeps the writer's memory right.
LEMMA WriterRemembers ==
    ASSUME IInv, NEW thing, Accept \/ Break(thing) \/ UNCHANGED stream
    PROVE  /\ (tar = "ok" <=> ~failedWrite)'
           /\ failedWrite => failedWrite'
           /\ Accept => ~failedWrite'
           /\ Break(thing) => failedWrite'
BY DEF IInv, Accept, Break, stream

\* The invariant is inductive.
THEOREM Invariance == Spec => []IInv
<1>1. Init => IInv
  BY DEF Init, IInv
<1>2. ASSUME IInv, [Next]_vars PROVE IInv'
  <2>1. CASE Start
    BY <1>2, <2>1 DEF IInv, Start, stream
  <2>2. CASE List
    BY <1>2, <2>2 DEF IInv, List, Return, stream
  <2>3. CASE Ask
    <3>1. pc = "ask" /\ result = "none" /\ UNCHANGED <<found, file, result>>
      BY <1>2, <2>3 DEF Ask, IInv
    <3>2. PICK answer \in DOMAIN Head(Head(todo)).reach :
             /\ \/ Break(Head(Head(todo)))
                \/ Accept
                \/ UNCHANGED stream
             /\ Continue(Head(Head(todo)).reach[answer])
      BY <2>3 DEF Ask
    <3>3. pc' \in {"list", "ask", "log"}
      BY <3>1, <3>2, ContinueMoves
    <3>4. (tar = "ok" <=> ~failedWrite)'
      BY <1>2, <3>2, WriterRemembers
    <3> QED BY <1>2, <3>1, <3>3, <3>4 DEF IInv
  <2>4. CASE WriteLog
    <3>1. (tar = "ok" <=> ~failedWrite)'
      BY <1>2, <2>4, WriterRemembers DEF WriteLog
    <3>2. CASE Accept /\ ~untold' /\ pc' = "stat" /\ UNCHANGED result
      BY <1>2, <2>4, <3>1, <3>2, WriterRemembers DEF IInv, WriteLog
    <3>3. CASE Break(Object) /\ pc' = "close" /\ result' = "failed"
      BY <1>2, <2>4, <3>1, <3>3, WriterRemembers DEF IInv, WriteLog
    <3> QED BY <2>4, <3>2, <3>3 DEF WriteLog
  <2>5. CASE Stat
    BY <1>2, <2>5 DEF IInv, Stat, stream
  <2>6. CASE Close
    BY <1>2, <2>6 DEF IInv, Close
  <2>7. CASE Kill
    BY <1>2, <2>7 DEF IInv, Kill, stream
  <2>8. CASE UNCHANGED vars
    BY <1>2, <2>8 DEF IInv, vars, stream
  <2> QED BY <1>2, <2>1, <2>2, <2>3, <2>4, <2>5, <2>6, <2>7, <2>8 DEF Next
<1> QED BY <1>1, <1>2, PTL DEF Spec

\* No cluster, no tar (export.md:11).
THEOREM ClusterFirst == Spec => []NoClusterNoTar
<1>1. IInv => NoClusterNoTar
  BY DEF IInv, NoClusterNoTar
<1> QED BY <1>1, Invariance, PTL

\* Success means that no write failed, though only the last one is looked at.
THEOREM SuccessIsComplete == Spec => []SuccessMeansAllWritten
<1>1. IInv => SuccessMeansAllWritten
  BY DEF IInv, SuccessMeansAllWritten
<1> QED BY <1>1, Invariance, PTL

\* Success means that the archived log tells every error.
THEOREM LogIsComplete == Spec => []LogTellsAll
<1>1. IInv => LogTellsAll
  BY DEF IInv, LogTellsAll
<1> QED BY <1>1, Invariance, PTL

-----------------------------------------------------------------------------
(* Types.  Here the plan matters: a gatherer asks for at least one group   *)
(* of at least one thing, whatever the bounds are, or its loop would look  *)
(* for the head of nothing.                                                *)

Group == Seq(Things) \ {<<>>}
Groups == Seq(Group) \ {<<>>}

\* A loop over Many things is a sequence of them that is not empty.
LEMMA EachIsMany ==
    ASSUME NEW S, NEW x \in S PROVE Each(x) \in Seq(S) \ {<<>>}
<1>1. Each(x) \in [1..Many -> S] /\ Many \in Nat \ {0}
  BY BoundsAssumption DEF Each
<1>2. Each(x) \in Seq(S)
  BY <1>1
<1>3. Len(Each(x)) # 0
  BY <1>1
<1> QED BY <1>2, <1>3

\* One part after another.
LEMMA Concatenation ==
    ASSUME NEW S, NEW s \in Seq(S), NEW t \in Seq(S), s # <<>> \/ t # <<>>
    PROVE  s \o t \in Seq(S) \ {<<>>}
<1>1. s \o t \in Seq(S) /\ Len(s \o t) = Len(s) + Len(t)
  OBVIOUS
<1>2. Len(s) # 0 \/ Len(t) # 0
  OBVIOUS
<1>3. Len(s) \in Nat /\ Len(t) \in Nat
  OBVIOUS
<1> QED BY <1>1, <1>2, <1>3

\* One, two or more things in a row.
LEMMA Rows ==
    /\ \A x \in Things : <<x>> \in Group
    /\ \A x, y \in Things : <<x, y>> \in Group
    /\ \A x, y, z \in Things : <<x, y, z>> \in Group
    /\ \A w, x, y, z \in Things : <<w, x, y, z>> \in Group
    /\ \A g \in Group : <<g>> \in Groups
    /\ \A g, h \in Group : <<g, h>> \in Groups
BY DEF Group, Groups

\* The things are things.
LEMMA AllThings ==
    {Object, KubectlObject, Resource, PodLog, PodListing, PgadminLog, Describe,
     DescribeFirst, Listing, LogFile, RemoveLocal, CatFile, Output, Process,
     SystemTime} \subseteq Things
BY DEF Things

\* The same loops over things and over groups.
LEMMA EachGroup ==
    /\ \A x \in Things : Each(x) \in Group
    /\ \A g \in Group : Each(g) \in Groups
    /\ \A g, h \in Group : g \o h \in Group
    /\ \A g, h \in Groups : g \o h \in Groups
BY EachIsMany, Concatenation DEF Group, Groups

\* Two groups for each PGAdmin.
LEMMA PgadminsGroups == Pgadmins \in Groups
<1>1. <<Object, PodListing>> \in Seq(Things) /\ <<Describe>> \in Group
  BY AllThings, Rows
<1>2. PgadminPods \in Seq(Things)
  <2>1. \A i, j \in Nat : i * j \in Nat
    OBVIOUS
  <2>2. Many * (Many + 1) \in Nat
    BY <2>1, BoundsAssumption
  <2>3. PgadminPods \in [1..(Many * (Many + 1)) -> Things]
    BY AllThings DEF PgadminPods
  <2> QED BY <2>2, <2>3
<1>3. <<Object, PodListing>> \o PgadminPods \in Group
  BY <1>1, <1>2, Concatenation DEF Group
<1>4. Pgadmins \in [1..(2 * Many) -> Group] /\ 2 * Many \in Nat \ {0}
  BY <1>1, <1>3, BoundsAssumption DEF Pgadmins
<1>5. Pgadmins \in Seq(Group) /\ Len(Pgadmins) # 0
  BY <1>4
<1> QED BY <1>5 DEF Groups

\* The groups of each gatherer.
LEMMA GathererGroups ==
    /\ {PGOCLIVersion.groups, PostgresClusterNames.groups, KubeContext.groups,
        KubeServerVersion.groups, CurrentNamespace.groups, ClusterSpec.groups,
        Events.groups, PluginList.groups, PGUpgradeSpec.groups} \subseteq Groups
    /\ {Nodes.groups, NamespacedAPIResources.groups, Crds.groups} \subseteq Groups
    /\ {PostgresLogsAndConfigs.groups, DbBackrestLogs.groups, PatroniLogs.groups,
        RepoHostLogs.groups, PodLogs.groups} \subseteq Groups
    /\ {PrimaryInfo.groups, ProcessInfo.groups, SystemTimes.groups,
        KubectlCommand.groups, TwoSpellings.groups, PgadminResources.groups} \subseteq Groups
<1>1. {PGOCLIVersion.groups, PostgresClusterNames.groups, KubeContext.groups,
       KubeServerVersion.groups, CurrentNamespace.groups, ClusterSpec.groups,
       Events.groups, PluginList.groups, PGUpgradeSpec.groups} \subseteq Groups
  <2>1. <<<<Object>>>> \in Groups /\ <<<<KubectlObject>>>> \in Groups
    BY AllThings, Rows
  <2> QED BY <2>1 DEF PGOCLIVersion, PostgresClusterNames, KubeContext,
             KubeServerVersion, CurrentNamespace, ClusterSpec, Events, PluginList,
             PGUpgradeSpec, Gatherer
<1>2. {Nodes.groups, NamespacedAPIResources.groups, Crds.groups} \subseteq Groups
  <2>1. /\ <<Each(Object), <<Object>>>> \in Groups
        /\ <<Each(Resource)>> \in Groups
        /\ <<<<Object>>, Each(Object)>> \in Groups
    BY AllThings, Rows, EachGroup
  <2> QED BY <2>1 DEF Nodes, NamespacedAPIResources, Crds, Gatherer
<1>3. {PostgresLogsAndConfigs.groups, DbBackrestLogs.groups, PatroniLogs.groups,
       RepoHostLogs.groups, PodLogs.groups} \subseteq Groups
  <2>1. LogsOfPod \in Group
    BY AllThings, Rows, EachGroup DEF LogsOfPod
  <2>2. LogsOfPod \o <<Listing>> \o Each(CatFile) \o Each(Output) \o <<Object>> \in Group
    <3>1. LogsOfPod \o <<Listing>> \in Group
      BY <2>1, AllThings, Rows, EachGroup
    <3>2. LogsOfPod \o <<Listing>> \o Each(CatFile) \in Group
      BY <3>1, AllThings, EachGroup
    <3>3. LogsOfPod \o <<Listing>> \o Each(CatFile) \o Each(Output) \in Group
      BY <3>2, AllThings, EachGroup
    <3> QED BY <3>3, AllThings, Rows, EachGroup
  <2>3. PostgresLogsAndConfigs.groups \in Groups
    BY <2>2, EachGroup DEF PostgresLogsAndConfigs, Gatherer
  <2>4. DbBackrestLogs.groups \in Groups /\ RepoHostLogs.groups \in Groups
    BY <2>1, EachGroup, Rows DEF DbBackrestLogs, RepoHostLogs, Gatherer
  <2>5. PatroniLogs.groups \in Groups /\ PodLogs.groups \in Groups
    <3>1. <<Listing>> \o Each(CatFile) \in Group /\ <<Describe>> \o Each(PodLog) \in Group
      BY AllThings, Rows, EachGroup
    <3> QED BY <3>1, EachGroup DEF PatroniLogs, PodLogs, Gatherer
  <2> QED BY <2>3, <2>4, <2>5
<1>4. {PrimaryInfo.groups, ProcessInfo.groups, SystemTimes.groups,
       KubectlCommand.groups, TwoSpellings.groups, PgadminResources.groups} \subseteq Groups
  <2>1. PrimaryInfo.groups \in Groups
    BY AllThings, Rows DEF PrimaryInfo, Gatherer
  <2>2. ProcessInfo.groups \in Groups
    BY AllThings, EachGroup DEF ProcessInfo, Gatherer
  <2>3. SystemTimes.groups \in Groups
    <3>1. Each(Each(SystemTime)) \in Groups /\ <<<<Object>>>> \in Groups
      BY AllThings, Rows, EachGroup
    <3> QED BY <3>1, EachGroup DEF SystemTimes, Gatherer
  <2>4. KubectlCommand.groups \in Groups /\ TwoSpellings.groups \in Groups
    BY AllThings, Rows DEF KubectlCommand, TwoSpellings, Gatherer
  <2>5. PgadminResources.groups \in Groups
    <3>1. <<<<Object>>>> \in Groups
      BY AllThings, Rows
    <3> QED BY <3>1, PgadminsGroups, EachGroup DEF PgadminResources, Gatherer
  <2> QED BY <2>1, <2>2, <2>3, <2>4, <2>5
<1> QED BY <1>1, <1>2, <1>3, <1>4

Gatherers ==
    {PGOCLIVersion, PostgresClusterNames, KubeContext, KubeServerVersion, Nodes,
     CurrentNamespace, ClusterSpec, NamespacedAPIResources, Crds, Events,
     PostgresLogsAndConfigs, DbBackrestLogs, PatroniLogs, RepoHostLogs, PodLogs,
     PrimaryInfo, ProcessInfo, SystemTimes, PluginList, PGUpgradeSpec,
     KubectlCommand, TwoSpellings, PgadminResources}

\* The plan, without the gatherer that --pg-logs-count 0 leaves out.
FirstGatherers ==
    <<PGOCLIVersion, PostgresClusterNames, KubeContext, KubeServerVersion, Nodes,
      CurrentNamespace, ClusterSpec, NamespacedAPIResources, NamespacedAPIResources,
      Crds, Events>>
LastGatherers ==
    <<DbBackrestLogs, PatroniLogs, RepoHostLogs, PodLogs, PodLogs,
      NamespacedAPIResources, PodLogs, PrimaryInfo, PrimaryInfo, ProcessInfo,
      SystemTimes, PluginList, PGUpgradeSpec, KubectlCommand, KubectlCommand,
      TwoSpellings, TwoSpellings, KubectlCommand, PgadminResources>>

\* The plan is a sequence of gatherers and each has something to ask for.
LEMMA PlanType ==
    /\ Len(Plan) \in Nat \ {0}
    /\ \A i \in 1..Len(Plan) : Plan[i].groups \in Groups
<1> DEFINE logs == IF NumLogs > 0 THEN <<PostgresLogsAndConfigs>> ELSE <<>>
<1>1. FirstGatherers \in Seq(Gatherers) /\ FirstGatherers # <<>>
  BY DEF FirstGatherers, Gatherers
<1>2. logs \in Seq(Gatherers)
  <2>1. PostgresLogsAndConfigs \in Gatherers
    BY DEF Gatherers
  <2> HIDE DEF Gatherers
  <2>2. <<PostgresLogsAndConfigs>> \in Seq(Gatherers) /\ <<>> \in Seq(Gatherers)
    BY <2>1
  <2> QED BY <2>2
<1>3. LastGatherers \in Seq(Gatherers)
  BY DEF LastGatherers, Gatherers
<1>4. Plan = FirstGatherers \o logs \o LastGatherers
  BY DEF Plan, FirstGatherers, LastGatherers
<1>5. \A g \in Gatherers : g.groups \in Groups
  BY GathererGroups DEF Gatherers
<1> HIDE DEF logs
<1>6. FirstGatherers \o logs \in Seq(Gatherers) \ {<<>>}
  BY <1>1, <1>2, Concatenation
<1>7. Plan \in Seq(Gatherers) \ {<<>>}
  BY <1>3, <1>4, <1>6, Concatenation
<1>8. Len(Plan) # 0
  BY <1>7
<1> QED BY <1>5, <1>7, <1>8

\* Types, and what the steps of a gatherer need of them.
Typed ==
    /\ TypeOK
    /\ todo \in Seq(Group)
    /\ pc = "ask" => todo # <<>>
    /\ pc \in {"start", "list", "ask"} => n \in 1..Len(Plan)
    /\ pc = "close" => closing # <<>>
    /\ pc \notin {"close", "ended"} => closing = <<"gzip", "tar", "file">>

\* The archive keeps its types whatever happens to a member.
LEMMA ArchiveType ==
    ASSUME tar \in {"ok", "short", "failed"}, written \in Nat, stored \in 0..written,
           failedWrite \in BOOLEAN, NEW thing, Accept \/ Break(thing) \/ UNCHANGED stream
    PROVE  /\ tar' \in {"ok", "short", "failed"} /\ written' \in Nat
           /\ stored' \in 0..written' /\ failedWrite' \in BOOLEAN
<1>1. CASE Accept
  BY <1>1 DEF Accept
<1>2. CASE Break(thing)
  BY <1>2 DEF Break
<1>3. CASE UNCHANGED stream
  BY <1>3 DEF stream
<1> QED BY <1>1, <1>2, <1>3

\* A gatherer returns to RunE.
LEMMA ReturnType ==
    ASSUME n \in 1..Len(Plan), Return
    PROVE  /\ n' \in 1..(Len(Plan) + 1) /\ todo' \in Seq(Group)
           /\ pc' \in {"log", "list"} /\ (pc' = "list" => n' \in 1..Len(Plan))
BY PlanType DEF Return

\* What is left of more than one.
LEMMA TailOfMany ==
    ASSUME NEW S, NEW s \in Seq(S), Len(s) > 1 PROVE Tail(s) \in Seq(S) \ {<<>>}
<1>1. Tail(s) \in Seq(S) /\ Len(Tail(s)) = Len(s) - 1 /\ Len(s) \in Nat
  BY s # <<>>
<1>2. Len(Tail(s)) # 0
  BY <1>1
<1> QED BY <1>1, <1>2, EmptySeq

\* What is left of a group, or of the groups, is of the same kind.
LEMMA ContinueType ==
    ASSUME n \in 1..Len(Plan), todo \in Seq(Group), todo # <<>>, pc = "ask",
           NEW reach, Continue(reach)
    PROVE  /\ n' \in 1..(Len(Plan) + 1) /\ todo' \in Seq(Group)
           /\ pc' \in {"log", "list", "ask"} /\ (pc' \in {"list", "ask"} => n' \in 1..Len(Plan))
           /\ pc' = "ask" => todo' # <<>>
<1> DEFINE rest == IF reach = "item" /\ Len(Head(todo)) > 1
                   THEN <<Tail(Head(todo))>> \o Tail(todo) ELSE Tail(todo)
<1>1. Head(todo) \in Group /\ Tail(todo) \in Seq(Group)
  OBVIOUS
<1>2. Len(Head(todo)) > 1 => Tail(Head(todo)) \in Group
  <2>1. Head(todo) \in Seq(Things)
    BY <1>1 DEF Group
  <2> QED BY <2>1, TailOfMany DEF Group
<1>3. rest \in Seq(Group)
  BY <1>1, <1>2
<1>4. CASE reach = "gatherer" \/ rest = <<>>
  <2>1. Return
    BY <1>4 DEF Continue
  <2> QED BY <2>1, ReturnType
<1>5. CASE ~(reach = "gatherer" \/ rest = <<>>)
  <2>1. todo' = rest /\ UNCHANGED <<n, pc>>
    BY <1>5 DEF Continue
  <2> HIDE DEF rest
  <2>2. n \in 1..(Len(Plan) + 1)
    BY PlanType
  <2> QED BY <1>3, <1>5, <2>1, <2>2
<1> QED BY <1>4, <1>5

\* The types are inductive.
LEMMA TypedNext ==
    ASSUME Typed, [Next]_vars PROVE Typed'
<1> USE DEF Typed, TypeOK
<1>0. Len(Plan) \in Nat \ {0}
  BY PlanType
<1>9. <<"gzip", "tar", "file">> # <<>>
  OBVIOUS
<1>1. CASE Start
  <2>1. {trailer', found', failedWrite', hard', untold', file'} \subseteq BOOLEAN
    BY <1>1 DEF Start, stream
  <2> QED BY <1>0, <1>1, <2>1 DEF Start, stream
<1>2. CASE List
  <2>1. CASE todo' = Plan[n].groups /\ pc' = "ask" /\ UNCHANGED <<n, untold, hard>>
    <3>1. todo' \in Seq(Group) /\ todo' # <<>>
      BY <1>2, <2>1, PlanType DEF List, Groups
    <3> QED BY <1>2, <2>1, <3>1 DEF List, stream, Group
  <2>2. CASE Return /\ untold' \in BOOLEAN /\ hard' \in BOOLEAN
    <3>1. /\ n' \in 1..(Len(Plan) + 1) /\ todo' \in Seq(Group)
          /\ pc' \in {"log", "list"} /\ (pc' = "list" => n' \in 1..Len(Plan))
      BY <1>2, <2>2, ReturnType DEF List
    <3> QED BY <1>2, <3>1, <2>2 DEF List, stream, Group
  <2> QED BY <1>2, <2>1, <2>2 DEF List
<1>3. CASE Ask
  <2> DEFINE thing == Head(Head(todo))
  <2>1. PICK answer \in DOMAIN thing.reach :
            /\ Break(thing) \/ Accept \/ UNCHANGED stream
            /\ untold' \in BOOLEAN
            /\ Continue(thing.reach[answer])
    BY <1>3 DEF Ask
  <2>2. /\ n' \in 1..(Len(Plan) + 1) /\ todo' \in Seq(Group)
        /\ pc' \in {"log", "list", "ask"} /\ (pc' \in {"list", "ask"} => n' \in 1..Len(Plan))
        /\ pc' = "ask" => todo' # <<>>
    <3>1. pc = "ask"
      BY <1>3 DEF Ask
    <3> QED BY <2>1, <3>1, ContinueType
  <2>3. /\ tar' \in {"ok", "short", "failed"} /\ written' \in Nat
        /\ stored' \in 0..written' /\ failedWrite' \in BOOLEAN
    BY <2>1, ArchiveType
  <2> HIDE DEF thing
  <2> QED BY <1>3, <2>1, <2>2, <2>3 DEF Ask, Group
<1>4. CASE WriteLog
  <2>1. /\ tar' \in {"ok", "short", "failed"} /\ written' \in Nat
        /\ stored' \in 0..written' /\ failedWrite' \in BOOLEAN
    BY <1>4, ArchiveType DEF WriteLog
  <2>2. {trailer', found', failedWrite', hard', untold', file'} \subseteq BOOLEAN
    BY <1>4, <2>1 DEF WriteLog
  <2> QED BY <1>4, <1>9, <2>1, <2>2 DEF WriteLog
<1>5. CASE Stat
  <2>1. {trailer', found', failedWrite', hard', untold', file'} \subseteq BOOLEAN
    BY <1>5 DEF Stat, stream
  <2>2. message' \in {"none", "email", "tooBig"} /\ result' \in {"succeeded", "panicked"}
    BY <1>5 DEF Stat
  <2> QED BY <1>5, <1>9, <2>1, <2>2 DEF Stat, stream
<1>6. CASE Close
  <2>1. closing \in Seq({"gzip", "tar", "file"}) /\ closing # <<>>
    BY <1>6 DEF Close
  <2>2. closing' \in Seq({"gzip", "tar", "file"})
    BY <1>6, <2>1 DEF Close
  <2>3. stored' \in 0..written'
    BY <1>6 DEF Close
  <2> QED BY <1>6, <2>2, <2>3 DEF Close
<1>7. CASE Kill
  BY <1>7 DEF Kill, stream
<1>8. CASE UNCHANGED vars
  BY <1>8 DEF vars, stream
<1> QED BY <1>1, <1>2, <1>3, <1>4, <1>5, <1>6, <1>7, <1>8 DEF Next

\* They hold initially.
LEMMA TypedInit == Init => Typed
<1> SUFFICES ASSUME Init PROVE Typed
  OBVIOUS
<1> USE DEF Init
<1>1. {trailer, found, failedWrite, hard, untold, file} \subseteq BOOLEAN
  OBVIOUS
<1>2. n \in 1..(Len(Plan) + 1) /\ n \in 1..Len(Plan)
  BY PlanType
<1>3. todo \in Seq(Group) /\ closing \in Seq({"gzip", "tar", "file"})
  OBVIOUS
<1>4. \A i \in DOMAIN todo : todo[i] \in Seq(Things) \ {<<>>}
  OBVIOUS
<1> QED BY <1>1, <1>2, <1>3, <1>4 DEF Typed, TypeOK

\* Typed is an invariant.
LEMMA TypedAlways == Spec => []Typed
BY TypedInit, TypedNext, PTL DEF Spec

\* Every variable keeps its type, and no gatherer asks an empty group.
THEOREM TypeCorrect == Spec => []TypeOK
<1>1. Typed => TypeOK
  BY DEF Typed
<1> QED BY <1>1, TypedAlways, PTL

\* Behind the gatherers all of them have run.
Gathered ==
    /\ pc \in {"log", "stat", "close"} => n = Len(Plan) + 1
    /\ file /\ pc = "ended" /\ result # "killed" => n = Len(Plan) + 1

\* The end of a gatherer is the end of the loop only for the last.
LEMMA GatheredNext ==
    ASSUME Typed, IInv, Gathered, [Next]_vars PROVE Gathered'
<1>0. Len(Plan) \in Nat
  BY PlanType
<1>1. ASSUME Return, n \in 1..Len(Plan) PROVE pc' = "log" => n' = Len(Plan) + 1
  BY <1>0, <1>1 DEF Return
<1>2. CASE Start
  BY <1>2 DEF IInv, Start, Gathered
<1>3. CASE List
  BY <1>1, <1>3 DEF List, Return, Gathered, Typed
<1>4. CASE Ask
  <2>1. PICK reach : Continue(reach)
    BY <1>4 DEF Ask
  <2> QED BY <1>1, <1>4, <2>1 DEF Ask, Continue, Return, Gathered, Typed
<1>5. CASE WriteLog
  BY <1>5 DEF WriteLog, Gathered
<1>6. CASE Stat
  BY <1>6 DEF Stat, Gathered
<1>7. CASE Close
  BY <1>7 DEF Close, Gathered
<1>8. CASE Kill
  BY <1>8 DEF Kill, Gathered
<1>9. CASE UNCHANGED vars
  BY <1>9 DEF vars, Gathered
<1> QED BY <1>2, <1>3, <1>4, <1>5, <1>6, <1>7, <1>8, <1>9 DEF Next

\* No error of a gatherer ends the command (export.md:15): all of them run, and
\* only a write makes it fail.
THEOREM PartsAreIndependent == Spec => []EveryPartHasItsTurn
<1>1. Init => Gathered
  BY DEF Init, Gathered
<1>2. Typed /\ IInv /\ Gathered => EveryPartHasItsTurn
  <2>1. Typed /\ IInv /\ result # "none" => pc \in {"close", "ended"}
    BY DEF Typed, TypeOK, IInv
  <2> QED BY <2>1 DEF IInv, Gathered, EveryPartHasItsTurn
<1> QED BY <1>1, <1>2, GatheredNext, TypedAlways, Invariance, PTL DEF Spec

-----------------------------------------------------------------------------
(* Progress.                                                               *)

\* An answer takes at least one thing off what is to be asked for.
LEMMA ContinueCounts ==
    ASSUME todo \in Seq(Group), todo # <<>>, NEW reach, Continue(reach)
    PROVE  \/ n' = n + 1
           \/ n' = n /\ Len(todo') < Len(todo)
           \/ n' = n /\ Len(todo') = Len(todo) /\ Len(Head(todo')) < Len(Head(todo))
<1> DEFINE rest == IF reach = "item" /\ Len(Head(todo)) > 1
                   THEN <<Tail(Head(todo))>> \o Tail(todo) ELSE Tail(todo)
<1>1. CASE reach = "gatherer" \/ rest = <<>>
  BY <1>1 DEF Continue, Return
<1>2. CASE ~(reach = "gatherer" \/ rest = <<>>)
  <2>1. todo' = rest /\ n' = n
    BY <1>2 DEF Continue
  <2>2. /\ Head(todo) \in Seq(Things) \ {<<>>}
        /\ Tail(todo) \in Seq(Group) /\ Len(Tail(todo)) = Len(todo) - 1
        /\ Len(todo) \in Nat
    BY DEF Group
  <2>3. CASE reach = "item" /\ Len(Head(todo)) > 1
    <3>1. /\ Tail(Head(todo)) \in Seq(Things)
          /\ Len(Tail(Head(todo))) = Len(Head(todo)) - 1 /\ Len(Head(todo)) \in Nat
      BY <2>2
    <3>2. todo' = <<Tail(Head(todo))>> \o Tail(todo)
      BY <2>1, <2>3
    <3>3. Len(todo') = Len(todo) /\ Head(todo') = Tail(Head(todo))
      <4>1. <<Tail(Head(todo))>> \in Seq(Seq(Things)) /\ Tail(todo) \in Seq(Seq(Things))
        BY <2>2, <3>1 DEF Group
      <4> QED BY <2>2, <3>2, <4>1
    <3> QED BY <2>1, <3>1, <3>3
  <2>4. CASE ~(reach = "item" /\ Len(Head(todo)) > 1)
    <3>1. todo' = Tail(todo)
      BY <2>1, <2>4
    <3>2. Len(todo') = Len(todo) - 1
      BY <2>2, <3>1
    <3>3. \A i, j : i \in Nat /\ j = i - 1 => j < i
      OBVIOUS
    <3>4. Len(todo') < Len(todo)
      BY <2>2, <3>2, <3>3
    <3>5. n' = n
      BY <2>1
    <3> QED BY <3>4, <3>5
  <2> QED BY <2>3, <2>4
<1> QED BY <1>1, <1>2

\* However the API server, the pods and kubectl answer, no loop of a gatherer
\* goes back (RunE, export.go:403 to export.go:646).
THEOREM NoRequestTwice == Spec => EveryAnswerCounts
<1>1. ASSUME Typed, [Next]_vars, pc' # "ended", pc \in {"list", "ask"}
      PROVE  \/ n' = n + 1
             \/ n' = n /\ pc = "list" /\ pc' = "ask"
             \/ n' = n /\ pc = "ask" /\ Len(todo') < Len(todo)
             \/ /\ n' = n /\ pc = "ask" /\ Len(todo') = Len(todo)
                /\ Len(Head(todo')) < Len(Head(todo))
             \/ UNCHANGED vars
  <2>1. List \/ Ask \/ UNCHANGED vars
    BY <1>1 DEF Next, Start, WriteLog, Stat, Close, Kill
  <2>2. CASE List
    BY <1>1, <2>2 DEF List, Return
  <2>3. CASE Ask
    <3>1. PICK reach : Continue(reach)
      BY <2>3 DEF Ask
    <3>2. pc = "ask"
      BY <2>3 DEF Ask
    <3> QED BY <1>1, <3>1, <3>2, ContinueCounts DEF Typed
  <2> QED BY <2>1, <2>2, <2>3
<1>2. ASSUME Typed, [Next]_vars
      PROVE  [pc' # "ended" /\ pc \in {"list", "ask"} =>
                \/ n' = n + 1
                \/ n' = n /\ pc = "list" /\ pc' = "ask"
                \/ n' = n /\ pc = "ask" /\ Len(todo') < Len(todo)
                \/ /\ n' = n /\ pc = "ask" /\ Len(todo') = Len(todo)
                   /\ Len(Head(todo')) < Len(Head(todo))]_vars
  BY <1>1, <1>2
<1> QED BY <1>2, TypedAlways, PTL DEF Spec, EveryAnswerCounts

-----------------------------------------------------------------------------
(* The refinement of Walk.  Three gatherers of thirty copy log files; the  *)
(* first lemmas say where they are in the plan and which has its turn, the *)
(* next ones what their groups look like.  From these the state of Walk is *)
(* a function of the gatherer and the number of the thing it asks for, and *)
(* the invariant that makes it one is Walking: what is left of a group is  *)
(* its end, and the groups behind it are whole.                            *)

Before == 11 + (IF NumLogs > 0 THEN 1 ELSE 0)

\* Of the gatherers only three copy log files.
LEMMA Names ==
    /\ PostgresLogsAndConfigs.name = "postgres"
    /\ DbBackrestLogs.name = "backrest"
    /\ RepoHostLogs.name = "repoHost"
    /\ \A x \in {PGOCLIVersion, PostgresClusterNames, KubeContext, KubeServerVersion, Nodes,
                 CurrentNamespace, ClusterSpec, NamespacedAPIResources, Crds, Events} :
            x.name \notin CopyLogs \cup {"done"}
    /\ \A x \in {PatroniLogs, PodLogs, NamespacedAPIResources, PrimaryInfo, ProcessInfo,
                 SystemTimes, PluginList, PGUpgradeSpec, KubectlCommand, TwoSpellings,
                 PgadminResources} : x.name \notin CopyLogs \cup {"done"}
<1>1. /\ PostgresLogsAndConfigs.name = "postgres"
      /\ DbBackrestLogs.name = "backrest"
      /\ RepoHostLogs.name = "repoHost"
  BY DEF PostgresLogsAndConfigs, DbBackrestLogs, RepoHostLogs, Gatherer
<1>2. \A x \in {PGOCLIVersion, PostgresClusterNames, KubeContext, KubeServerVersion, Nodes,
                CurrentNamespace, ClusterSpec, NamespacedAPIResources, Crds, Events} :
          x.name \notin CopyLogs \cup {"done"}
  BY DEF PGOCLIVersion, PostgresClusterNames, KubeContext, KubeServerVersion, Nodes,
         CurrentNamespace, ClusterSpec, NamespacedAPIResources, Crds, Events, Gatherer,
         CopyLogs
<1>3. \A x \in {PatroniLogs, PodLogs, NamespacedAPIResources, PrimaryInfo, ProcessInfo,
                SystemTimes, PluginList, PGUpgradeSpec, KubectlCommand, TwoSpellings,
                PgadminResources} : x.name \notin CopyLogs \cup {"done"}
  BY DEF PatroniLogs, PodLogs, NamespacedAPIResources, PrimaryInfo, ProcessInfo,
         SystemTimes, PluginList, PGUpgradeSpec, KubectlCommand, TwoSpellings,
         PgadminResources, Gatherer, CopyLogs
<1> QED BY <1>1, <1>2, <1>3

\* None of the gatherers that run before them does.
LEMMA FirstNames ==
    /\ Len(FirstGatherers) = 11 /\ FirstGatherers \in Seq(Gatherers)
    /\ \A i \in 1..11 : FirstGatherers[i].name \notin CopyLogs \cup {"done"}
<1>1. Len(FirstGatherers) = 11
  BY DEF FirstGatherers
<1>2. FirstGatherers \in Seq(Gatherers)
  BY DEF FirstGatherers, Gatherers
<1>3. \A i \in 1..11 : FirstGatherers[i] \in {PGOCLIVersion, PostgresClusterNames, KubeContext, KubeServerVersion, Nodes,
                 CurrentNamespace, ClusterSpec, NamespacedAPIResources, Crds, Events}
  BY DEF FirstGatherers
<1> QED BY <1>1, <1>2, <1>3, Names

\* Two of the others do.
LEMMA LastNames ==
    /\ Len(LastGatherers) = 19 /\ LastGatherers \in Seq(Gatherers)
    /\ LastGatherers[1] = DbBackrestLogs /\ LastGatherers[3] = RepoHostLogs
    /\ \A i \in (1..19) \ {1, 3} : LastGatherers[i].name \notin CopyLogs \cup {"done"}
<1>1. Len(LastGatherers) = 19
  BY DEF LastGatherers
<1>2. LastGatherers \in Seq(Gatherers)
  BY DEF LastGatherers, Gatherers
<1>4. LastGatherers[1] = DbBackrestLogs /\ LastGatherers[3] = RepoHostLogs
  BY DEF LastGatherers
<1>3. \A i \in (1..19) \ {1, 3} : LastGatherers[i] \in {PatroniLogs, PodLogs, NamespacedAPIResources, PrimaryInfo, ProcessInfo,
                 SystemTimes, PluginList, PGUpgradeSpec, KubectlCommand, TwoSpellings,
                 PgadminResources}
  BY DEF LastGatherers
<1> QED BY <1>1, <1>2, <1>3, <1>4, Names

\* What a concatenation has where.
LEMMA ConcatOf ==
    ASSUME NEW S, NEW s \in Seq(S), NEW t \in Seq(S)
    PROVE  /\ s \o t \in Seq(S)
           /\ Len(s \o t) = Len(s) + Len(t)
           /\ \A i \in 1..(Len(s) + Len(t)) :
                 (s \o t)[i] = IF i <= Len(s) THEN s[i] ELSE t[i - Len(s)]
OBVIOUS

\* The plan, place by place.
LEMMA PlanPlaces ==
    /\ Before \in {11, 12} /\ (NumLogs > 0 <=> Before = 12)
    /\ Len(Plan) = Before + 19
    /\ NumLogs > 0 => Plan[Before] = PostgresLogsAndConfigs
    /\ Plan[Before + 1] = DbBackrestLogs
    /\ Plan[Before + 3] = RepoHostLogs
    /\ \A i \in 1..Len(Plan) :
          Plan[i].name \in CopyLogs
            <=> i \in {Before + 1, Before + 3} \/ (NumLogs > 0 /\ i = Before)
    /\ \A i \in 1..Len(Plan) : Plan[i].name # "done"
<1> DEFINE logs == IF NumLogs > 0 THEN <<PostgresLogsAndConfigs>> ELSE <<>>
<1>1. Before \in {11, 12} /\ (NumLogs > 0 <=> Before = 12)
  BY DEF Before
<1>2. /\ logs \in Seq(Gatherers) /\ Len(logs) = Before - 11
      /\ NumLogs > 0 => logs[1] = PostgresLogsAndConfigs
  <2>1. PostgresLogsAndConfigs \in Gatherers
    BY DEF Gatherers
  <2> HIDE DEF Gatherers
  <2> QED BY <2>1 DEF Before
<1>3. Plan = FirstGatherers \o logs \o LastGatherers
  BY DEF Plan, FirstGatherers, LastGatherers
<1> HIDE DEF logs
<1>4. /\ FirstGatherers \in Seq(Gatherers) /\ Len(FirstGatherers) = 11
      /\ LastGatherers \in Seq(Gatherers) /\ Len(LastGatherers) = 19
  BY FirstNames, LastNames
<1>5. /\ FirstGatherers \o logs \in Seq(Gatherers)
      /\ Len(FirstGatherers \o logs) = Before
      /\ \A i \in 1..Before : (FirstGatherers \o logs)[i]
            = IF i <= 11 THEN FirstGatherers[i] ELSE logs[i - 11]
  <2> HIDE DEF Gatherers
  <2>1. Len(FirstGatherers \o logs) = Len(FirstGatherers) + Len(logs)
    BY <1>2, <1>4, ConcatOf
  <2>2. Len(FirstGatherers \o logs) = Before
    BY <1>1, <1>2, <1>4, <2>1
  <2>3. \A i \in 1..(Len(FirstGatherers) + Len(logs)) : (FirstGatherers \o logs)[i]
            = IF i <= Len(FirstGatherers) THEN FirstGatherers[i] ELSE logs[i - Len(FirstGatherers)]
    BY <1>2, <1>4, ConcatOf
  <2>4. Len(FirstGatherers) + Len(logs) = Before
    BY <1>1, <1>2, <1>4
  <2>5. FirstGatherers \o logs \in Seq(Gatherers)
    BY <1>2, <1>4, ConcatOf
  <2> QED BY <1>4, <2>2, <2>3, <2>4, <2>5
<1>6. /\ Len(Plan) = Before + 19
      /\ \A i \in 1..(Before + 19) : Plan[i]
            = IF i <= Before THEN (FirstGatherers \o logs)[i] ELSE LastGatherers[i - Before]
  <2> HIDE DEF Gatherers
  <2> DEFINE upTo == FirstGatherers \o logs
  <2>1. upTo \in Seq(Gatherers) /\ Len(upTo) = Before
    BY <1>5
  <2>2. Plan = upTo \o LastGatherers
    BY <1>3
  <2> HIDE DEF upTo
  <2>3. Len(upTo) + Len(LastGatherers) = Before + 19
    BY <1>1, <1>4, <2>1
  <2>4. Len(Plan) = Len(upTo) + Len(LastGatherers)
    BY <1>4, <2>1, <2>2, ConcatOf
  <2>5. \A i \in 1..(Len(upTo) + Len(LastGatherers)) :
            Plan[i] = IF i <= Len(upTo) THEN upTo[i] ELSE LastGatherers[i - Len(upTo)]
    BY <1>4, <2>1, <2>2, ConcatOf
  <2> QED BY <2>1, <2>3, <2>4, <2>5 DEF upTo
<1>7. /\ NumLogs > 0 => Plan[Before] = PostgresLogsAndConfigs
      /\ Plan[Before + 1] = DbBackrestLogs
      /\ Plan[Before + 3] = RepoHostLogs
  <2>1. NumLogs > 0 => Plan[Before] = PostgresLogsAndConfigs
    BY <1>1, <1>2, <1>5, <1>6
  <2>2. Plan[Before + 1] = LastGatherers[1] /\ Plan[Before + 3] = LastGatherers[3]
    BY <1>1, <1>6
  <2> QED BY <2>1, <2>2, LastNames
<1>8. ASSUME NEW i \in 1..Len(Plan)
      PROVE  /\ Plan[i].name \in CopyLogs
                   <=> i \in {Before + 1, Before + 3} \/ (NumLogs > 0 /\ i = Before)
             /\ Plan[i].name # "done"
  <2>1. CASE i \in {Before + 1, Before + 3} \/ (NumLogs > 0 /\ i = Before)
    BY <1>7, <2>1, Names DEF CopyLogs
  <2>2. CASE i <= 11 /\ ~(NumLogs > 0 /\ i = Before)
    <3>1. Plan[i] = FirstGatherers[i]
      BY <1>1, <1>5, <1>6, <2>2
    <3> QED BY <1>1, <2>2, <3>1, FirstNames
  <2>3. CASE i > Before /\ i \notin {Before + 1, Before + 3}
    <3>1. Plan[i] = LastGatherers[i - Before] /\ i - Before \in (1..19) \ {1, 3}
      BY <1>1, <1>6, <2>3
    <3> QED BY <1>1, <2>3, <3>1, LastNames
  <2> QED BY <1>1, <2>1, <2>2, <2>3
<1> QED BY <1>1, <1>6, <1>7, <1>8

\* The gatherer of log files that runs, or the next one, when number m runs.
Turn(m) == IF NumLogs > 0 /\ m <= Before THEN "postgres"
           ELSE IF m <= Before + 1 THEN "backrest"
           ELSE IF m <= Before + 3 THEN "repoHost" ELSE "done"

\* It is the nearest one in the plan.
LEMMA TurnIsNext ==
    ASSUME NEW m \in 1..(Len(Plan) + 1)
    PROVE  LET ahead == {i \in m..Len(Plan) : Plan[i].name \in CopyLogs}
           IN  Turn(m) = IF ahead = {} THEN "done"
                         ELSE Plan[CHOOSE i \in ahead : \A j \in ahead : i <= j].name
<1> DEFINE ahead == {i \in m..Len(Plan) : Plan[i].name \in CopyLogs}
           least == CHOOSE i \in ahead : \A j \in ahead : i <= j
<1>1. ahead = {i \in {Before, Before + 1, Before + 3} :
                    m <= i /\ (i = Before => NumLogs > 0)}
  BY PlanPlaces
<1>2. ASSUME NEW k \in ahead, \A j \in ahead : k <= j PROVE least = k
  <2>1. least \in ahead /\ \A j \in ahead : least <= j
    BY <1>2
  <2>2. least <= k /\ k <= least /\ least \in Int /\ k \in Int
    BY <1>1, <1>2, <2>1, PlanPlaces
  <2> QED BY <2>2
<1>3. m \in Int /\ Before \in Int
  BY PlanPlaces
<1> HIDE DEF ahead, least
<1>4. CASE NumLogs > 0 /\ m <= Before
  <2>1. least = Before
    BY <1>1, <1>2, <1>3, <1>4
  <2>2. Turn(m) = "postgres"
    BY <1>3, <1>4 DEF Turn
  <2>3. Plan[least].name = "postgres"
    BY <1>4, <2>1, PlanPlaces, Names
  <2>4. ahead # {}
    BY <1>1, <1>3, <1>4
  <2> QED BY <2>2, <2>3, <2>4 DEF ahead, least
<1>5. CASE ~(NumLogs > 0 /\ m <= Before) /\ m <= Before + 1
  <2>1. least = Before + 1
    BY <1>1, <1>2, <1>3, <1>5
  <2>2. Turn(m) = "backrest"
    BY <1>3, <1>5 DEF Turn
  <2>3. Plan[least].name = "backrest"
    BY <1>5, <2>1, PlanPlaces, Names
  <2>4. ahead # {}
    BY <1>1, <1>3, <1>5
  <2> QED BY <2>2, <2>3, <2>4 DEF ahead, least
<1>6. CASE Before + 1 < m /\ m <= Before + 3
  <2>1. least = Before + 3
    BY <1>1, <1>2, <1>3, <1>6
  <2>2. Turn(m) = "repoHost"
    BY <1>3, <1>6 DEF Turn
  <2>3. Plan[least].name = "repoHost"
    BY <1>6, <2>1, PlanPlaces, Names
  <2>4. ahead # {}
    BY <1>1, <1>3, <1>6
  <2> QED BY <2>2, <2>3, <2>4 DEF ahead, least
<1>7. CASE m > Before + 3
  <2>1. ahead = {}
    BY <1>1, <1>3, <1>7
  <2> QED BY <1>3, <1>7, <2>1 DEF Turn, ahead
<1> QED BY <1>3, <1>4, <1>5, <1>6, <1>7

\* So it is what Export says, before a step and after it.
LEMMA TurnNow == n \in 1..(Len(Plan) + 1) => LogGatherer = Turn(n)
BY TurnIsNext DEF LogGatherer

\* The same after a step.
LEMMA TurnThen == n' \in 1..(Len(Plan) + 1) => LogGatherer' = Turn(n')
BY TurnIsNext DEF LogGatherer

\* A gatherer of log files has its turn when it runs, and then it is the turn of
\* the next; the others leave the turn as it is.
LEMMA TurnsOf ==
    ASSUME NEW m \in 1..Len(Plan)
    PROVE  /\ m + 1 \in 1..(Len(Plan) + 1)
           /\ Turn(m) \in CopyLogs \cup {"done"}
           /\ Plan[m].name \in CopyLogs =>
                /\ Turn(m) = Plan[m].name
                /\ Turn(m + 1) = Logs!NextGatherer[Turn(m)]
           /\ Plan[m].name \notin CopyLogs => Turn(m + 1) = Turn(m)
<1>1. m + 1 \in 1..(Len(Plan) + 1) /\ m \in Int /\ Before \in {11, 12}
  BY PlanPlaces
<1>2. Turn(m) \in CopyLogs \cup {"done"}
  BY DEF Turn, CopyLogs
<1>3. ASSUME Plan[m].name \in CopyLogs
      PROVE  Turn(m) = Plan[m].name /\ Turn(m + 1) = Logs!NextGatherer[Turn(m)]
  <2>1. CASE NumLogs > 0 /\ m = Before
    BY <1>1, <2>1, PlanPlaces, Names DEF Turn, Logs!NextGatherer
  <2>2. CASE m = Before + 1
    BY <1>1, <2>2, PlanPlaces, Names DEF Turn, Logs!NextGatherer
  <2>3. CASE m = Before + 3
    BY <1>1, <2>3, PlanPlaces, Names DEF Turn, Logs!NextGatherer
  <2> QED BY <1>3, <2>1, <2>2, <2>3, PlanPlaces
<1>4. ASSUME Plan[m].name \notin CopyLogs PROVE Turn(m + 1) = Turn(m)
  <2>1. m \notin {Before + 1, Before + 3} /\ ~(NumLogs > 0 /\ m = Before)
    BY <1>4, PlanPlaces
  <2> QED BY <1>1, <2>1 DEF Turn
<1> QED BY <1>1, <1>2, <1>3, <1>4

-----------------------------------------------------------------------------
(* The groups of the gatherers of log files.                               *)

GroupOf(g) ==
    IF g = "postgres"
    THEN LogsOfPod \o <<Listing>> \o Each(CatFile) \o Each(Output) \o <<Object>>
    ELSE LogsOfPod

\* The things of these groups are different.
LEMMA Distinct ==
    /\ LogFile \notin {Listing, RemoveLocal, CatFile, Output, Object}
    /\ RemoveLocal \notin {Listing, LogFile, CatFile, Output, Object}
    /\ Listing # LogFile
<1>1. LogFile.streamed = TRUE /\ \A x \in {Listing, RemoveLocal, CatFile, Output, Object} : x.streamed = FALSE
  BY DEF LogFile, Listing, RemoveLocal, CatFile, Output, Object, Thing
<1>2. /\ RemoveLocal.reach = [ok |-> "item", failed |-> "group"]
      /\ Listing.reach = [ok |-> "item", forbidden |-> "gatherer", failed |-> "group"]
      /\ CatFile.reach = [ok |-> "item", forbidden |-> "item", failed |-> "gatherer", broken |-> "gatherer"]
      /\ Output.reach = [ok |-> "item", forbidden |-> "gatherer", failed |-> "item"]
      /\ Object.reach = [ok |-> "item", broken |-> "gatherer"]
  BY DEF LogFile, Listing, RemoveLocal, CatFile, Output, Object, Thing
<1>3. /\ DOMAIN RemoveLocal.reach = {"ok", "failed"}
      /\ DOMAIN Listing.reach = {"ok", "forbidden", "failed"}
      /\ DOMAIN CatFile.reach = {"ok", "forbidden", "failed", "broken"}
      /\ DOMAIN Output.reach = {"ok", "forbidden", "failed"}
      /\ DOMAIN Object.reach = {"ok", "broken"}
  BY <1>2
<1>4. RemoveLocal \notin {Listing, CatFile, Output, Object}
  <2>1. /\ "forbidden" \in DOMAIN Listing.reach /\ "forbidden" \notin DOMAIN RemoveLocal.reach
        /\ "forbidden" \in DOMAIN CatFile.reach
        /\ "forbidden" \in DOMAIN Output.reach
        /\ "broken" \in DOMAIN Object.reach /\ "broken" \notin DOMAIN RemoveLocal.reach
    BY <1>3
  <2> QED BY <2>1
<1>5. LogFile \notin {Listing, RemoveLocal, CatFile, Output, Object}
  BY <1>1
<1> QED BY <1>4, <1>5

\* A group: a listing, log files, the local directory; more in a Postgres pod.
Shape(G, g) ==
    /\ G \in Seq(Things)
    /\ IF g = "postgres" THEN Len(G) > Many + 2 ELSE Len(G) = Many + 2
    /\ G[1] = Listing
    /\ \A i \in 2..(Many + 1) : G[i] = LogFile
    /\ G[Many + 2] = RemoveLocal
    /\ \A i \in (Many + 3)..Len(G) : G[i] \notin {LogFile, RemoveLocal}

\* The group of a repository host has it.
LEMMA LogsShape == Shape(LogsOfPod, "backrest")
<1> DEFINE e == Each(LogFile)
<1>0. Many \in Nat \ {0}
  BY BoundsAssumption
<1>1. e \in Seq(Things) /\ Len(e) = Many /\ \A i \in 1..Many : e[i] = LogFile
  <2>1. e \in Seq(Things)
    BY EachIsMany, AllThings
  <2> QED BY <1>0, <2>1 DEF Each
<1>2. LogsOfPod = (<<Listing>> \o e) \o <<RemoveLocal>>
  BY DEF LogsOfPod
<1>3. <<Listing>> \in Seq(Things) /\ <<RemoveLocal>> \in Seq(Things)
  BY AllThings
<1> HIDE DEF e
<1>4. /\ <<Listing>> \o e \in Seq(Things) /\ Len(<<Listing>> \o e) = Many + 1
      /\ (<<Listing>> \o e)[1] = Listing
      /\ \A i \in 2..(Many + 1) : (<<Listing>> \o e)[i] = LogFile
  BY <1>0, <1>1, <1>3
<1> DEFINE f == <<Listing>> \o e
<1> HIDE DEF f
<1>5. /\ f \in Seq(Things) /\ Len(f) = Many + 1 /\ f[1] = Listing
      /\ \A i \in 2..(Many + 1) : f[i] = LogFile
  BY <1>4 DEF f
<1>6. LogsOfPod = f \o <<RemoveLocal>>
  BY <1>2 DEF f
<1>7. /\ LogsOfPod \in Seq(Things) /\ Len(LogsOfPod) = Many + 2
      /\ \A i \in 1..(Many + 1) : LogsOfPod[i] = f[i]
      /\ LogsOfPod[Many + 2] = RemoveLocal
  BY <1>0, <1>3, <1>5, <1>6
<1> QED BY <1>0, <1>5, <1>7 DEF Shape

\* So has that of each gatherer of log files.
LEMMA GroupShape == ASSUME NEW g \in CopyLogs PROVE Shape(GroupOf(g), g)
<1>0. Many \in Nat \ {0}
  BY BoundsAssumption
<1>1. CASE g # "postgres"
  BY <1>1, LogsShape DEF GroupOf, Shape
<1>2. CASE g = "postgres"
  <2> DEFINE more == {Listing, CatFile, Output, Object}
             a == <<Listing>> \o Each(CatFile)
             b == a \o Each(Output)
             c == b \o <<Object>>
  <2>1. <<Listing>> \in Seq(more) /\ Each(CatFile) \in Seq(more) /\ Each(Output) \in Seq(more) /\ <<Object>> \in Seq(more)
    <3>1. Each(CatFile) \in Seq(more) /\ Each(Output) \in Seq(more)
      BY EachIsMany
    <3> QED BY <3>1
  <2> HIDE DEF more
  <2>2. a \in Seq(more) \ {<<>>}
    BY <2>1, Concatenation
  <2>3. b \in Seq(more) \ {<<>>}
    BY <2>1, <2>2, Concatenation
  <2>4. c \in Seq(more) \ {<<>>}
    BY <2>1, <2>3, Concatenation
  <2>5. GroupOf(g) = LogsOfPod \o c
    <3>1. \A s, t, u : s \in Seq(Things) /\ t \in Seq(Things) /\ u \in Seq(Things)
            => (s \o t) \o u = s \o (t \o u)
      OBVIOUS
    <3>2. /\ LogsOfPod \in Seq(Things) /\ <<Listing>> \in Seq(Things)
          /\ Each(CatFile) \in Seq(Things) /\ Each(Output) \in Seq(Things)
          /\ <<Object>> \in Seq(Things)
      BY EachIsMany, AllThings, LogsShape DEF Shape
    <3>3. a \in Seq(Things) /\ b \in Seq(Things)
      BY <3>2
    <3>4. LogsOfPod \o a = LogsOfPod \o <<Listing>> \o Each(CatFile)
      BY <3>1, <3>2
    <3>5. LogsOfPod \o b = LogsOfPod \o <<Listing>> \o Each(CatFile) \o Each(Output)
      BY <3>1, <3>2, <3>3, <3>4
    <3>6. LogsOfPod \o c = LogsOfPod \o <<Listing>> \o Each(CatFile) \o Each(Output) \o <<Object>>
      BY <3>1, <3>2, <3>3, <3>5
    <3> QED BY <1>2, <3>6 DEF GroupOf
  <2> HIDE DEF c
  <2>6. c \in Seq(Things) /\ c # <<>>
    BY <2>4, AllThings DEF more
  <2>7. \A i \in 1..Len(c) : c[i] \notin {LogFile, RemoveLocal}
    <3>1. \A i \in 1..Len(c) : c[i] \in more
      BY <2>4
    <3> QED BY <3>1, Distinct DEF more
  <2>8. LogsOfPod \in Seq(Things) /\ Len(LogsOfPod) = Many + 2
    BY LogsShape DEF Shape
  <2>9. Len(c) \in Nat \ {0}
    BY <2>6
  <2>10. /\ GroupOf(g) \in Seq(Things) /\ Len(GroupOf(g)) = Many + 2 + Len(c)
         /\ \A i \in 1..(Many + 2) : GroupOf(g)[i] = LogsOfPod[i]
         /\ \A i \in (Many + 3)..(Many + 2 + Len(c)) : GroupOf(g)[i] = c[i - (Many + 2)]
    <3>1. /\ LogsOfPod \o c \in Seq(Things)
          /\ Len(LogsOfPod \o c) = Len(LogsOfPod) + Len(c)
          /\ \A i \in 1..(Len(LogsOfPod) + Len(c)) : (LogsOfPod \o c)[i]
                = IF i <= Len(LogsOfPod) THEN LogsOfPod[i] ELSE c[i - Len(LogsOfPod)]
      BY <2>6, <2>8, ConcatOf
    <3> QED BY <1>0, <2>5, <2>8, <2>9, <3>1
  <2>11. \A i \in (Many + 3)..Len(GroupOf(g)) : GroupOf(g)[i] \notin {LogFile, RemoveLocal}
    BY <1>0, <2>7, <2>9, <2>10
  <2> QED BY <1>0, <1>2, <2>9, <2>10, <2>11, LogsShape DEF Shape
<1> QED BY <1>1, <1>2

\* The groups of a gatherer of log files are all alike.
LEMMA LogGroups ==
    ASSUME NEW m \in 1..Len(Plan), Plan[m].name \in CopyLogs
    PROVE  /\ Plan[m].groups \in Seq(Group) /\ Plan[m].groups # <<>>
           /\ \A i \in 1..Len(Plan[m].groups) : Plan[m].groups[i] = GroupOf(Plan[m].name)
<1>1. Plan[m].groups \in Seq(Group) /\ Plan[m].groups # <<>>
  BY PlanType DEF Groups
<1>2. Plan[m] \in {PostgresLogsAndConfigs, DbBackrestLogs, RepoHostLogs}
  BY PlanPlaces
<1>3. \A i \in 1..Len(Plan[m].groups) : Plan[m].groups[i] = GroupOf(Plan[m].name)
  <2>1. \A x : \A i \in 1..Len(Each(x)) : Each(x)[i] = x
    BY BoundsAssumption DEF Each
  <2>2. CASE Plan[m] = PostgresLogsAndConfigs
    <3>1. Plan[m].groups = Each(GroupOf("postgres"))
      BY <2>2 DEF PostgresLogsAndConfigs, Gatherer, GroupOf
    <3> QED BY <2>1, <2>2, <3>1, Names
  <2>3. CASE Plan[m] = DbBackrestLogs
    <3>1. Plan[m].groups = Each(GroupOf("backrest"))
      BY <2>3 DEF DbBackrestLogs, Gatherer, GroupOf
    <3> QED BY <2>1, <2>3, <3>1, Names
  <2>4. CASE Plan[m] = RepoHostLogs
    <3>1. Plan[m].groups = <<GroupOf("repoHost")>>
      BY <2>4 DEF RepoHostLogs, Gatherer, GroupOf
    <3> HIDE DEF GroupOf
    <3> QED BY <2>4, <3>1, Names
  <2> QED BY <1>2, <2>2, <2>3, <2>4
<1> QED BY <1>1, <1>3

\* What is left of a group when its next thing is number j.
From(h, g, j) ==
    /\ j \in 1..Len(GroupOf(g))
    /\ h \in Seq(Things)
    /\ Len(h) = Len(GroupOf(g)) - j + 1
    /\ \A i \in 1..Len(h) : h[i] = GroupOf(g)[i + j - 1]

\* The log files among it, and where it begins.
Ahead(g, j) == {Len(GroupOf(g)) - i : i \in {k \in 2..(Many + 1) : k >= j}}
PlaceAt(j) == IF j = 1 THEN "listing" ELSE IF j <= Many + 1 THEN "file"
              ELSE IF j = Many + 2 THEN "remove" ELSE "rest"

\* What Export looks at, the head of a group and the log files ahead, follows from
\* the place alone.
LEMMA HeadAt ==
    ASSUME NEW g \in CopyLogs, NEW h, NEW j, From(h, g, j)
    PROVE  /\ Head(h) = GroupOf(g)[j]
           /\ {Len(h) - i : i \in {k \in DOMAIN h : h[k] = LogFile}} = Ahead(g, j)
           /\ Ahead(g, j) # {} <=> j <= Many + 1
           /\ Ahead(g, j) \subseteq Nat
<1> DEFINE G == GroupOf(g)
<1>0. Many \in Nat \ {0}
  BY BoundsAssumption
<1>1. Shape(G, g)
  BY GroupShape
<1> HIDE DEF G
<1>2. /\ j \in 1..Len(G) /\ h \in Seq(Things) /\ Len(h) = Len(G) - j + 1
      /\ \A i \in 1..Len(h) : h[i] = G[i + j - 1]
      /\ Len(G) \in Nat /\ Len(h) \in Nat /\ Len(G) >= Many + 2
  BY <1>0, <1>1 DEF G, From, Shape
<1>3. Head(h) = G[j]
  <2>1. Head(h) = h[1] /\ 1 \in 1..Len(h)
    BY <1>2
  <2>2. h[1] = G[1 + j - 1] /\ 1 + j - 1 = j
    BY <1>2, <2>1
  <2> QED BY <2>1, <2>2
<1>4. \A k \in 1..Len(G) : G[k] = LogFile <=> k \in 2..(Many + 1)
  BY <1>0, <1>1, <1>2, Distinct DEF Shape
<1>5. DOMAIN h = 1..Len(h)
  BY <1>2
<1>6. \A i \in 1..Len(h) : h[i] = LogFile <=> i + j - 1 \in 2..(Many + 1)
  BY <1>2, <1>4
<1>7. ASSUME NEW i \in DOMAIN h, h[i] = LogFile PROVE Len(h) - i \in Ahead(g, j)
  <2>1. i + j - 1 \in 2..(Many + 1) /\ i + j - 1 >= j /\ Len(h) - i = Len(G) - (i + j - 1)
    <3>1. i \in 1..Len(h) /\ i \in Int /\ j \in Int /\ Len(h) \in Int /\ Len(G) \in Int
      BY <1>2, <1>5, <1>7
    <3>2. i + j - 1 \in 2..(Many + 1)
      BY <1>6, <1>7, <3>1
    <3> QED BY <1>2, <3>1, <3>2
  <2> QED BY <2>1 DEF Ahead, G
<1>8. ASSUME NEW k \in 2..(Many + 1), k >= j
      PROVE  \E i \in DOMAIN h : h[i] = LogFile /\ Len(G) - k = Len(h) - i
  <2>1. k - j + 1 \in 1..Len(h) /\ (k - j + 1) + j - 1 = k /\ Len(G) - k = Len(h) - (k - j + 1)
    BY <1>0, <1>2, <1>8
  <2>2. h[k - j + 1] = LogFile
    BY <1>6, <2>1
  <2> QED BY <1>5, <2>1, <2>2
<1>9. {Len(h) - i : i \in {k \in DOMAIN h : h[k] = LogFile}} = Ahead(g, j)
  BY <1>7, <1>8 DEF Ahead, G
<1>10. Ahead(g, j) # {} <=> j <= Many + 1
  <2>1. j <= Many + 1 => Many + 1 \in {k \in 2..(Many + 1) : k >= j}
    BY <1>0, <1>2
  <2>2. j > Many + 1 => {k \in 2..(Many + 1) : k >= j} = {}
    BY <1>0, <1>2
  <2>3. Ahead(g, j) # {} <=> {k \in 2..(Many + 1) : k >= j} # {}
    BY DEF Ahead
  <2>4. j <= Many + 1 \/ j > Many + 1
    BY <1>0, <1>2
  <2> QED BY <1>0, <1>2, <2>1, <2>2, <2>3, <2>4
<1>11. Ahead(g, j) \subseteq Nat
  BY <1>0, <1>2 DEF Ahead, G
<1> QED BY <1>3, <1>9, <1>10, <1>11 DEF G

\* Only log files are in the places of log files, and so on.
LEMMA ThingAt ==
    ASSUME NEW g \in CopyLogs, NEW j \in 1..Len(GroupOf(g))
    PROVE  /\ PlaceAt(j) = "listing" => GroupOf(g)[j] = Listing
           /\ PlaceAt(j) = "file" <=> GroupOf(g)[j] = LogFile
           /\ PlaceAt(j) = "remove" <=> GroupOf(g)[j] = RemoveLocal
           /\ PlaceAt(j) \in {"listing", "file", "remove", "rest"}
<1>0. Many \in Nat \ {0} /\ Shape(GroupOf(g), g)
  BY BoundsAssumption, GroupShape
<1>1. CASE j = 1
  BY <1>0, <1>1, Distinct DEF Shape, PlaceAt
<1>2. CASE j \in 2..(Many + 1)
  BY <1>0, <1>2, Distinct DEF Shape, PlaceAt
<1>3. CASE j = Many + 2
  BY <1>0, <1>3, Distinct DEF Shape, PlaceAt
<1>4. CASE j \in (Many + 3)..Len(GroupOf(g))
  BY <1>0, <1>4, Distinct DEF Shape, PlaceAt
<1>5. Len(GroupOf(g)) \in Nat
  BY <1>0 DEF Shape
<1> QED BY <1>0, <1>1, <1>2, <1>3, <1>4, <1>5

\* The state of Walk.
Left == IF InLogs THEN Len(todo) - 1 ELSE 0
Files == IF LogPlace = "file" THEN LogsAhead ELSE {}

\* While a gatherer of log files asks for something ...
LEMMA Seen ==
    ASSUME n \in 1..Len(Plan), todo # <<>>, NEW g \in CopyLogs, Plan[n].name = g,
           NEW j, From(Head(todo), g, j)
    PROVE  /\ LogGatherer = g /\ Left = Len(todo) - 1 /\ LogPlace = PlaceAt(j)
           /\ Files = IF PlaceAt(j) = "file" THEN Ahead(g, j) ELSE {}
<1>1. LogGatherer = g /\ g # "done"
  BY PlanType, TurnNow, TurnsOf DEF CopyLogs
<1>2. InLogs
  BY <1>1 DEF InLogs
<1>3. Head(Head(todo)) = GroupOf(g)[j] /\ LogsAhead = Ahead(g, j)
  BY HeadAt DEF LogsAhead
<1>4. Ahead(g, j) # {} <=> j <= Many + 1
  BY HeadAt
<1>5. j \in 1..Len(GroupOf(g)) /\ Many \in Nat /\ j \in Int
  BY BoundsAssumption DEF From
<1>6. LogPlace = PlaceAt(j)
  <2>1. CASE PlaceAt(j) \in {"file", "remove"}
    BY <1>1, <1>2, <1>3, <1>5, <2>1, ThingAt, Distinct DEF LogPlace
  <2>2. CASE PlaceAt(j) = "listing"
    BY <1>1, <1>2, <1>3, <1>4, <1>5, <2>2, ThingAt, Distinct DEF LogPlace, PlaceAt
  <2>3. CASE PlaceAt(j) = "rest"
    BY <1>1, <1>2, <1>3, <1>4, <1>5, <2>3, ThingAt DEF LogPlace, PlaceAt
  <2> QED BY <1>5, <2>1, <2>2, <2>3, ThingAt
<1> QED BY <1>1, <1>2, <1>3, <1>6 DEF Left, Files

\* ... and after a step.
LEMMA SeenThen ==
    ASSUME n' \in 1..Len(Plan), todo' # <<>>, NEW g \in CopyLogs, Plan[n'].name = g,
           NEW j, From(Head(todo'), g, j)
    PROVE  /\ LogGatherer' = g /\ Left' = Len(todo') - 1 /\ LogPlace' = PlaceAt(j)
           /\ Files' = IF PlaceAt(j) = "file" THEN Ahead(g, j) ELSE {}
<1>1. LogGatherer' = g /\ g # "done"
  BY PlanType, TurnThen, TurnsOf DEF CopyLogs
<1>2. InLogs'
  <2>1. InLogs' = (todo' # <<>> /\ Plan[n'].name = LogGatherer')
    BY DEF InLogs
  <2> QED BY <1>1, <2>1
<1>3. Head(Head(todo')) = GroupOf(g)[j] /\ LogsAhead' = Ahead(g, j)
  <2>1. LogsAhead' = {Len(Head(todo')) - i : i \in {k \in DOMAIN Head(todo') : Head(todo')[k] = LogFile}}
    BY DEF LogsAhead
  <2> QED BY <2>1, HeadAt
<1>4. Ahead(g, j) # {} <=> j <= Many + 1
  BY HeadAt
<1>5. j \in 1..Len(GroupOf(g)) /\ Many \in Nat /\ j \in Int
  BY BoundsAssumption DEF From
<1>6. LogPlace' = PlaceAt(j)
  <2>1. CASE PlaceAt(j) \in {"file", "remove"}
    BY <1>1, <1>2, <1>3, <1>5, <2>1, ThingAt, Distinct DEF LogPlace
  <2>2. CASE PlaceAt(j) = "listing"
    BY <1>1, <1>2, <1>3, <1>4, <1>5, <2>2, ThingAt, Distinct DEF LogPlace, PlaceAt
  <2>3. CASE PlaceAt(j) = "rest"
    BY <1>1, <1>2, <1>3, <1>4, <1>5, <2>3, ThingAt DEF LogPlace, PlaceAt
  <2> QED BY <1>5, <2>1, <2>2, <2>3, ThingAt
<1>7. Left' = IF InLogs' THEN Len(todo') - 1 ELSE 0
  BY DEF Left
<1>8. Files' = IF LogPlace' = "file" THEN LogsAhead' ELSE {}
  BY DEF Files
<1> QED BY <1>1, <1>2, <1>3, <1>6, <1>7, <1>8

\* While none does ...
LEMMA Unseen ==
    ASSUME n \in 1..(Len(Plan) + 1),
           todo = <<>> \/ (n \in 1..Len(Plan) /\ Plan[n].name \notin CopyLogs)
    PROVE  /\ LogGatherer = Turn(n) /\ Left = 0 /\ Files = {}
           /\ LogPlace = IF Turn(n) = "done" THEN "done" ELSE "pods"
<1>1. LogGatherer = Turn(n) /\ Turn(n) \in CopyLogs \cup {"done"}
  BY TurnNow DEF Turn, CopyLogs
<1>2. ~InLogs
  BY <1>1, PlanPlaces DEF InLogs
<1> QED BY <1>1, <1>2 DEF LogPlace, Left, Files

\* ... and after a step.
LEMMA UnseenThen ==
    ASSUME n' \in 1..(Len(Plan) + 1),
           todo' = <<>> \/ (n' \in 1..Len(Plan) /\ Plan[n'].name \notin CopyLogs)
    PROVE  /\ LogGatherer' = Turn(n') /\ Left' = 0 /\ Files' = {}
           /\ LogPlace' = IF Turn(n') = "done" THEN "done" ELSE "pods"
<1>1. LogGatherer' = Turn(n') /\ Turn(n') \in CopyLogs \cup {"done"}
  BY TurnThen DEF Turn, CopyLogs
<1>2. ~InLogs'
  <2>1. InLogs' = (todo' # <<>> /\ Plan[n'].name = LogGatherer')
    BY DEF InLogs
  <2> QED BY <1>1, <2>1, PlanPlaces
<1>3. LogPlace' = IF Turn(n') = "done" THEN "done" ELSE "pods"
  BY <1>1, <1>2 DEF LogPlace
<1> QED BY <1>1, <1>2, <1>3 DEF Left, Files

\* A gatherer of log files asks for thing number j of a group.
InGroup(g, j) ==
    /\ g \in CopyLogs /\ n \in 1..Len(Plan) /\ Plan[n].name = g
    /\ todo \in Seq(Group) /\ todo # <<>>
    /\ From(Head(todo), g, j)
    /\ \A i \in 2..Len(todo) : todo[i] = GroupOf(g)

\* What is asked for is a suffix of the group, and whole groups follow.
Walking ==
    /\ pc \in {"start", "list", "log"} => todo = <<>>
    /\ todo # <<>> => n \in 1..Len(Plan)
    /\ todo # <<>> /\ Plan[n].name \in CopyLogs => \E g, j : InGroup(g, j)

\* The last log file of those ahead is the one that is asked for.
LEMMA AheadNext ==
    ASSUME NEW g \in CopyLogs, NEW j \in 2..(Many + 1)
    PROVE  /\ Len(GroupOf(g)) - j \in Ahead(g, j)
           /\ Ahead(g, j + 1) = Ahead(g, j) \ {Len(GroupOf(g)) - j}
<1>1. Many \in Nat \ {0} /\ Len(GroupOf(g)) \in Nat
  BY BoundsAssumption, GroupShape DEF Shape
<1>2. \A k \in 2..(Many + 1) : k >= j + 1 <=> k >= j /\ k # j
  BY <1>1
<1>3. \A k \in 2..(Many + 1) : Len(GroupOf(g)) - k = Len(GroupOf(g)) - j => k = j
  BY <1>1
<1>4. j >= j
  BY <1>1
<1> QED BY <1>2, <1>3, <1>4 DEF Ahead

\* What Walk asks for in a place is what the group has there.
LEMMA AskedAt ==
    ASSUME NEW g \in CopyLogs, NEW j \in 1..Len(GroupOf(g)), PlaceAt(j) # "rest"
    PROVE  /\ PlaceAt(j) \in DOMAIN Logs!Asked
           /\ Logs!Asked[PlaceAt(j)] = GroupOf(g)[j]
           /\ \A answer \in DOMAIN GroupOf(g)[j].reach :
                 GroupOf(g)[j].reach[answer] \in {"item", "group", "gatherer"}
<1>1. /\ Logs!Listing = Listing /\ Logs!LogFile = LogFile /\ Logs!RemoveLocal = RemoveLocal
  BY DEF Logs!Listing, Logs!LogFile, Logs!RemoveLocal, Logs!Thing,
         Listing, LogFile, RemoveLocal, Thing
<1>2. Logs!Asked = [listing |-> Listing, file |-> LogFile, remove |-> RemoveLocal]
  BY <1>1 DEF Logs!Asked
<1>3. \A x \in {Listing, LogFile, RemoveLocal} : \A answer \in DOMAIN x.reach :
          x.reach[answer] \in {"item", "group", "gatherer"}
  BY DEF Listing, LogFile, RemoveLocal, Thing
<1>4. GroupOf(g)[j] = Logs!Asked[PlaceAt(j)] /\ PlaceAt(j) \in {"listing", "file", "remove"}
      /\ GroupOf(g)[j] \in {Listing, LogFile, RemoveLocal}
  BY <1>2, ThingAt
<1> QED BY <1>2, <1>3, <1>4

\* A gatherer of log files returns ...
LEMMA LogsReturn ==
    ASSUME n \in 1..Len(Plan), Plan[n].name \in CopyLogs, Return
    PROVE  Logs!Return
<1>1. n' = n + 1 /\ todo' = <<>>
  BY DEF Return
<1>2. n' \in 1..(Len(Plan) + 1)
  BY <1>1, TurnsOf
<1>3. /\ LogGatherer' = Turn(n') /\ Left' = 0 /\ Files' = {}
      /\ LogPlace' = IF Turn(n') = "done" THEN "done" ELSE "pods"
  BY <1>1, <1>2, UnseenThen
<1>4. n \in 1..(Len(Plan) + 1)
  BY PlanType
<1>5. LogGatherer = Turn(n)
  BY <1>4, TurnNow
<1>6. Turn(n + 1) = Logs!NextGatherer[Turn(n)]
  BY TurnsOf
<1> QED BY <1>1, <1>3, <1>5, <1>6 DEF Logs!Return, Left, Files

\* ... and the others do not count.
LEMMA OthersReturn ==
    ASSUME n \in 1..Len(Plan), Plan[n].name \notin CopyLogs, Return
    PROVE  UNCHANGED Logs!vars
<1>1. n' = n + 1 /\ todo' = <<>>
  BY DEF Return
<1>2. n' \in 1..(Len(Plan) + 1) /\ Turn(n + 1) = Turn(n)
  BY <1>1, TurnsOf
<1>3. /\ LogGatherer' = Turn(n') /\ Left' = 0 /\ Files' = {}
      /\ LogPlace' = IF Turn(n') = "done" THEN "done" ELSE "pods"
  BY <1>1, <1>2, UnseenThen
<1>4. n \in 1..(Len(Plan) + 1)
  BY PlanType
<1>5. /\ LogGatherer = Turn(n) /\ Left = 0 /\ Files = {}
      /\ LogPlace = IF Turn(n) = "done" THEN "done" ELSE "pods"
  BY <1>4, Unseen
<1> QED BY <1>1, <1>2, <1>3, <1>5 DEF Logs!vars, Left, Files

\* A whole group is From its first thing.
LEMMA WholeGroup == ASSUME NEW g \in CopyLogs PROVE From(GroupOf(g), g, 1)
<1>1. GroupOf(g) \in Seq(Things) /\ Len(GroupOf(g)) \in Nat \ {0} /\ Many \in Nat
  BY BoundsAssumption, GroupShape DEF Shape
<1> QED BY <1>1 DEF From

\* The group is done with: the next pod, or none.
LEMMA LogsNextPod ==
    ASSUME NEW g, NEW j, InGroup(g, j),
           IF Tail(todo) = <<>> THEN Return ELSE todo' = Tail(todo) /\ n' = n
    PROVE  /\ Logs!NextPod
           /\ Tail(todo) # <<>> => InGroup(g, 1)'
<1>1. /\ LogGatherer = g /\ Left = Len(todo) - 1
      /\ Len(todo) \in Nat /\ Len(Tail(todo)) = Len(todo) - 1
      /\ Tail(todo) \in Seq(Group)
  BY Seen DEF InGroup
<1>2. CASE Tail(todo) = <<>>
  <2>1. Left = 0
    BY <1>1, <1>2
  <2>2. Logs!Return
    BY <1>2, LogsReturn DEF InGroup
  <2> QED BY <1>2, <2>1, <2>2 DEF Logs!NextPod, Left
<1>3. CASE Tail(todo) # <<>>
  <2>1. todo' = Tail(todo) /\ n' = n
    BY <1>3
  <2>2. Len(todo') = Len(todo) - 1 /\ Len(todo') > 0 /\ todo' \in Seq(Group) /\ todo' # <<>>
    BY <1>1, <1>3, <2>1
  <2>3. \A i \in 1..Len(todo') : todo'[i] = todo[i + 1] /\ i + 1 \in 2..Len(todo)
    BY <1>1, <2>1, <2>2
  <2>4. \A i \in 1..Len(todo') : todo'[i] = GroupOf(g)
    BY <2>3 DEF InGroup
  <2>5. Head(todo') = GroupOf(g)
    BY <2>2, <2>4
  <2>6. From(Head(todo'), g, 1) /\ \A i \in 2..Len(todo') : todo'[i] = GroupOf(g)
    BY <2>4, <2>5, WholeGroup DEF InGroup
  <2>7. g \in CopyLogs /\ n' \in 1..Len(Plan) /\ Plan[n'].name = g
    BY <2>1 DEF InGroup
  <2>8. InGroup(g, 1)'
    BY <2>2, <2>6, <2>7 DEF InGroup
  <2>9. /\ LogGatherer' = g /\ Left' = Len(todo') - 1 /\ LogPlace' = PlaceAt(1)
        /\ Files' = IF PlaceAt(1) = "file" THEN Ahead(g, 1) ELSE {}
    BY <2>2, <2>6, <2>7, SeenThen
  <2>10. LogPlace' = "listing" /\ Files' = {} /\ Left' = Left - 1 /\ Left > 0
    BY <1>1, <2>2, <2>9 DEF PlaceAt
  <2> QED BY <1>1, <1>3, <2>8, <2>9, <2>10 DEF Logs!NextPod, Left, Files
<1> QED BY <1>2, <1>3

\* On to the next thing of the group.
LEMMA LogsNextItem ==
    ASSUME NEW g, NEW j, InGroup(g, j), Len(Head(todo)) > 1,
           todo' = <<Tail(Head(todo))>> \o Tail(todo), n' = n
    PROVE  /\ InGroup(g, j + 1)'
           /\ PlaceAt(j) # "rest" => Logs!NextItem
           /\ PlaceAt(j) = "rest" => UNCHANGED Logs!vars
<1> DEFINE G == GroupOf(g)
<1>0. /\ Many \in Nat \ {0} /\ Shape(G, g) /\ Len(G) \in Nat
  BY BoundsAssumption, GroupShape DEF InGroup, Shape
<1>1. /\ g \in CopyLogs /\ n \in 1..Len(Plan) /\ Plan[n].name = g
      /\ todo \in Seq(Group) /\ todo # <<>>
      /\ From(Head(todo), g, j)
      /\ \A i \in 2..Len(todo) : todo[i] = G
  BY DEF InGroup
<1>2. /\ j \in 1..Len(G) /\ Head(todo) \in Seq(Things)
      /\ Len(Head(todo)) = Len(G) - j + 1
      /\ \A i \in 1..Len(Head(todo)) : Head(todo)[i] = G[i + j - 1]
  BY <1>1 DEF From
<1> HIDE DEF G
<1>3. Tail(Head(todo)) \in Group /\ Len(Tail(Head(todo))) = Len(Head(todo)) - 1
      /\ \A i \in 1..(Len(Head(todo)) - 1) : Tail(Head(todo))[i] = Head(todo)[i + 1]
  BY <1>2, TailOfMany DEF Group
<1>4. j + 1 \in 1..Len(G)
  BY <1>0, <1>2
<1>5. From(Tail(Head(todo)), g, j + 1)
  <2>1. Len(Tail(Head(todo))) = Len(G) - (j + 1) + 1
    BY <1>0, <1>2, <1>3
  <2>2. ASSUME NEW i \in 1..Len(Tail(Head(todo))) PROVE Tail(Head(todo))[i] = G[i + (j + 1) - 1]
    <3>1. i + 1 \in 1..Len(Head(todo)) /\ i \in 1..(Len(Head(todo)) - 1)
      BY <1>2, <1>3
    <3>2. Tail(Head(todo))[i] = G[(i + 1) + j - 1]
      BY <1>2, <1>3, <3>1
    <3>3. (i + 1) + j - 1 = i + (j + 1) - 1
      BY <1>2
    <3> QED BY <3>2, <3>3
  <2>3. Tail(Head(todo)) \in Seq(Things)
    BY <1>3 DEF Group
  <2> QED BY <1>4, <2>1, <2>2, <2>3 DEF From, G
<1>6. /\ todo' \in Seq(Group) /\ todo' # <<>> /\ Len(todo') = Len(todo)
      /\ Head(todo') = Tail(Head(todo))
      /\ \A i \in 2..Len(todo') : todo'[i] = G
  <2>1. /\ <<Tail(Head(todo))>> \in Seq(Group) /\ Len(<<Tail(Head(todo))>>) = 1
        /\ Tail(todo) \in Seq(Group) /\ Len(Tail(todo)) = Len(todo) - 1 /\ Len(todo) \in Nat \ {0}
        /\ \A i \in 1..(Len(todo) - 1) : Tail(todo)[i] = todo[i + 1]
    BY <1>1, <1>3
  <2>2. /\ todo' \in Seq(Group) /\ Len(todo') = Len(todo)
        /\ \A i \in 1..Len(todo) : todo'[i] = IF i <= 1 THEN <<Tail(Head(todo))>>[i] ELSE Tail(todo)[i - 1]
    BY <2>1, ConcatOf
  <2>3. todo'[1] = Tail(Head(todo)) /\ Head(todo') = todo'[1] /\ todo' # <<>>
    BY <2>1, <2>2
  <2>4. ASSUME NEW i \in 2..Len(todo') PROVE todo'[i] = G
    <3>1. i \in 1..Len(todo) /\ ~(i <= 1) /\ i - 1 \in 1..(Len(todo) - 1) /\ (i - 1) + 1 = i
      BY <2>1, <2>2
    <3> QED BY <1>1, <2>1, <2>2, <3>1
  <2> QED BY <2>2, <2>3, <2>4
<1>7. InGroup(g, j + 1)'
  BY <1>1, <1>5, <1>6 DEF InGroup, G
<1>8. /\ LogGatherer = g /\ Left = Len(todo) - 1 /\ LogPlace = PlaceAt(j)
      /\ Files = IF PlaceAt(j) = "file" THEN Ahead(g, j) ELSE {}
  BY <1>1, Seen
<1>9. /\ LogGatherer' = g /\ Left' = Len(todo') - 1 /\ LogPlace' = PlaceAt(j + 1)
      /\ Files' = IF PlaceAt(j + 1) = "file" THEN Ahead(g, j + 1) ELSE {}
  BY <1>1, <1>5, <1>6, SeenThen
<1>10. LogGatherer' = LogGatherer /\ Left' = Left
  BY <1>6, <1>8, <1>9
<1>11. ASSUME PlaceAt(j) # "rest" PROVE Logs!NextItem
  <2>1. CASE j = 1
    <3>1. PlaceAt(j) = "listing" /\ PlaceAt(j + 1) = "file"
      BY <1>0, <2>1 DEF PlaceAt
    <3>2. Ahead(g, j + 1) # {} /\ Ahead(g, j + 1) \subseteq Nat
      BY <1>0, <1>1, <1>5, <2>1, HeadAt
    <3> QED BY <1>8, <1>9, <1>10, <3>1, <3>2 DEF Logs!NextItem, Logs!NextFile, Left, Files
  <2>2. CASE j \in 2..(Many + 1)
    <3>1. PlaceAt(j) = "file" /\ Files = Ahead(g, j)
      BY <1>0, <1>8, <2>2 DEF PlaceAt
    <3>2. Ahead(g, j + 1) # {} <=> j + 1 <= Many + 1
      BY <1>1, <1>5, HeadAt
    <3>3. PlaceAt(j + 1) = IF Ahead(g, j + 1) = {} THEN "remove" ELSE "file"
      BY <1>0, <2>2, <3>2 DEF PlaceAt
    <3>4. Files' = Ahead(g, j + 1)
      BY <1>9, <3>3
    <3>5. \E f \in Files : Files' = Files \ {f}
      BY <1>1, <2>2, <3>1, <3>4, AheadNext
    <3>6. LogPlace' = IF Files' = {} THEN "remove" ELSE "file"
      BY <1>9, <3>3, <3>4
    <3> QED BY <1>8, <1>10, <3>1, <3>5, <3>6 DEF Logs!NextItem, Logs!NextFile, Left, Files
  <2>3. CASE j = Many + 2
    <3>1. PlaceAt(j) = "remove" /\ PlaceAt(j + 1) = "rest"
      BY <1>0, <2>3 DEF PlaceAt
    <3>2. g = "postgres"
      BY <1>0, <1>4, <2>3 DEF Shape
    <3> QED BY <1>8, <1>9, <1>10, <3>1, <3>2 DEF Logs!NextItem, Left, Files
  <2> QED BY <1>0, <1>2, <1>11, <2>1, <2>2, <2>3 DEF PlaceAt
<1>12. ASSUME PlaceAt(j) = "rest" PROVE UNCHANGED Logs!vars
  <2>1. PlaceAt(j + 1) = "rest"
    BY <1>0, <1>2, <1>12 DEF PlaceAt
  <2>2. LogPlace' = LogPlace /\ Files' = Files
    BY <1>8, <1>9, <1>12, <2>1
  <2> QED BY <1>10, <2>2 DEF Logs!vars, Left, Files
<1> QED BY <1>7, <1>11, <1>12

\* A step that leaves what is asked for alone is no step of the walk.
LEMMA LogsWait ==
    ASSUME UNCHANGED <<n, todo>> PROVE UNCHANGED Logs!vars
<1>1. LogGatherer' = LogGatherer
  BY DEF LogGatherer
<1>2. InLogs' = InLogs
  <2>1. InLogs' = (todo' # <<>> /\ Plan[n'].name = LogGatherer')
    BY DEF InLogs
  <2> QED BY <1>1, <2>1 DEF InLogs
<1>3. LogsAhead' = LogsAhead
  BY DEF LogsAhead
<1>4. LogPlace' = LogPlace
  BY <1>1, <1>2, <1>3 DEF LogPlace
<1>5. Left' = Left /\ Files' = Files
  BY <1>2, <1>3, <1>4 DEF Left, Files
<1> QED BY <1>1, <1>4, <1>5 DEF Logs!vars, Left, Files

\* One answer in the group of a gatherer of log files.
LEMMA LogsAsk ==
    ASSUME Typed, NEW g, NEW j, InGroup(g, j), pc = "ask",
           NEW answer \in DOMAIN Head(Head(todo)).reach,
           Continue(Head(Head(todo)).reach[answer])
    PROVE  /\ [Logs!Next]_(Logs!vars)
           /\ todo' = <<>> \/ (n' = n /\ pc' = pc /\ \E k : InGroup(g, k)')
<1> DEFINE reach == Head(Head(todo)).reach[answer]
           rest == IF reach = "item" /\ Len(Head(todo)) > 1
                   THEN <<Tail(Head(todo))>> \o Tail(todo) ELSE Tail(todo)
<1>1. /\ g \in CopyLogs /\ n \in 1..Len(Plan) /\ Plan[n].name = g
      /\ From(Head(todo), g, j) /\ todo \in Seq(Group) /\ todo # <<>>
  BY DEF InGroup
<1>2. j \in 1..Len(GroupOf(g)) /\ Head(Head(todo)) = GroupOf(g)[j]
      /\ Len(Head(todo)) = Len(GroupOf(g)) - j + 1
  BY <1>1, HeadAt DEF From
<1>3. /\ LogGatherer = g /\ LogPlace = PlaceAt(j)
  BY <1>1, Seen
<1>4. PlaceAt(j) # "rest" =>
        /\ LogPlace \in DOMAIN Logs!Asked
        /\ answer \in DOMAIN Logs!Asked[LogPlace].reach
        /\ Logs!Asked[LogPlace].reach[answer] = reach
        /\ reach \in {"item", "group", "gatherer"}
  BY <1>1, <1>2, <1>3, AskedAt
<1>5. IF reach = "gatherer" \/ rest = <<>> THEN Return
      ELSE todo' = rest /\ UNCHANGED <<n, pc>>
  BY DEF Continue
<1>6. <<Tail(Head(todo))>> \o Tail(todo) # <<>>
  <2>1. <<Tail(Head(todo))>> \in Seq({Tail(Head(todo))} \cup Group)
        /\ Tail(todo) \in Seq({Tail(Head(todo))} \cup Group)
        /\ <<Tail(Head(todo))>> # <<>>
    BY <1>1
  <2> QED BY <2>1, Concatenation
<1> HIDE DEF reach
<1>7. CASE reach = "gatherer"
  <2>1. Return
    BY <1>5, <1>7
  <2>2. Logs!Return
    BY <1>1, <2>1, LogsReturn
  <2>3. PlaceAt(j) = "rest" => Logs!Rest
    BY <1>3, <2>2 DEF Logs!Rest
  <2>4. PlaceAt(j) # "rest" => Logs!Ask
    BY <1>4, <1>7, <2>2 DEF Logs!Ask
  <2> QED BY <2>1, <2>3, <2>4 DEF Logs!Next, Return
<1>8. CASE reach = "item" /\ Len(Head(todo)) > 1
  <2>1. todo' = <<Tail(Head(todo))>> \o Tail(todo) /\ n' = n /\ pc' = pc
    BY <1>5, <1>6, <1>8
  <2>2. /\ InGroup(g, j + 1)'
        /\ PlaceAt(j) # "rest" => Logs!NextItem
        /\ PlaceAt(j) = "rest" => UNCHANGED Logs!vars
    BY <1>8, <2>1, LogsNextItem
  <2>3. PlaceAt(j) # "rest" => Logs!Ask
    BY <1>4, <1>8, <2>2 DEF Logs!Ask
  <2> QED BY <2>1, <2>2, <2>3 DEF Logs!Next
<1>9. CASE reach # "gatherer" /\ ~(reach = "item" /\ Len(Head(todo)) > 1)
  <2>1. IF Tail(todo) = <<>> THEN Return ELSE todo' = Tail(todo) /\ n' = n /\ pc' = pc
    BY <1>5, <1>9
  <2>2. Logs!NextPod /\ (Tail(todo) # <<>> => InGroup(g, 1)')
    BY <2>1, LogsNextPod
  <2>3. PlaceAt(j) = "rest" => Logs!Rest
    BY <1>3, <2>2 DEF Logs!Rest
  <2>4. PlaceAt(j) # "rest" /\ reach = "group" => Logs!Ask
    BY <1>4, <2>2 DEF Logs!Ask
  <2>5. ASSUME PlaceAt(j) # "rest", reach = "item" PROVE Logs!Ask
    <3>1. Many \in Nat /\ Shape(GroupOf(g), g)
      BY <1>1, BoundsAssumption, GroupShape
    <3>2. j = Len(GroupOf(g))
      BY <1>2, <1>9, <2>5, <3>1 DEF Shape
    <3>3. g # "postgres" /\ PlaceAt(j) = "remove"
      BY <2>5, <3>1, <3>2 DEF Shape, PlaceAt
    <3>4. Logs!NextItem
      BY <1>3, <2>2, <3>3 DEF Logs!NextItem
    <3> QED BY <1>4, <2>5, <3>4 DEF Logs!Ask
  <2>6. todo' = <<>> \/ (n' = n /\ pc' = pc /\ InGroup(g, 1)')
    BY <2>1, <2>2 DEF Return
  <2> QED BY <1>4, <1>9, <2>3, <2>4, <2>5, <2>6 DEF Logs!Next
<1> QED BY <1>7, <1>8, <1>9

\* The list request of a gatherer of log files.
LEMMA LogsList ==
    ASSUME Typed, Walking, List, Plan[n].name \in CopyLogs
    PROVE  /\ Logs!ListPods
           /\ todo' = <<>> \/ (n' = n /\ pc' = "ask" /\ \E g, k : InGroup(g, k)')
<1>0. PICK g : g = Plan[n].name
  OBVIOUS
<1>1. n \in 1..Len(Plan) /\ todo = <<>> /\ n \in 1..(Len(Plan) + 1)
  BY PlanType DEF List, Typed, Walking
<1>2. /\ LogGatherer = Turn(n) /\ Left = 0 /\ Files = {}
      /\ LogPlace = IF Turn(n) = "done" THEN "done" ELSE "pods"
  BY <1>1, Unseen
<1>3. Turn(n) = g /\ g # "done" /\ LogPlace = "pods"
  BY <1>0, <1>1, <1>2, TurnsOf DEF CopyLogs
<1>4. CASE Return
  BY <1>1, <1>3, <1>4, LogsReturn DEF Logs!ListPods, Return
<1>5. CASE todo' = Plan[n].groups /\ pc' = "ask" /\ n' = n
  <2>1. /\ todo' \in Seq(Group) /\ todo' # <<>>
        /\ \A i \in 1..Len(todo') : todo'[i] = GroupOf(g)
    BY <1>0, <1>1, <1>5, LogGroups
  <2>2. Len(todo') \in Nat \ {0} /\ Head(todo') = todo'[1]
    BY <2>1
  <2>3. Head(todo') = GroupOf(g) /\ \A i \in 2..Len(todo') : todo'[i] = GroupOf(g)
    BY <2>1, <2>2
  <2>4. From(Head(todo'), g, 1)
    BY <1>0, <2>3, WholeGroup
  <2>5. g \in CopyLogs /\ n' \in 1..Len(Plan) /\ Plan[n'].name = g
    BY <1>0, <1>1, <1>5
  <2>6. InGroup(g, 1)'
    BY <2>1, <2>3, <2>4, <2>5 DEF InGroup
  <2>7. /\ LogGatherer' = g /\ Left' = Len(todo') - 1 /\ LogPlace' = PlaceAt(1)
        /\ Files' = IF PlaceAt(1) = "file" THEN Ahead(g, 1) ELSE {}
    BY <2>1, <2>4, <2>5, SeenThen
  <2>8. LogPlace' = "listing" /\ Files' = {} /\ Left' \in Nat /\ LogGatherer' = LogGatherer
    BY <1>2, <1>3, <2>2, <2>7 DEF PlaceAt
  <2>9. Logs!ListPods
    BY <1>2, <1>3, <2>8 DEF Logs!ListPods, Left, Files
  <2> QED BY <1>5, <2>6, <2>9
<1>6. Return \/ (todo' = Plan[n].groups /\ pc' = "ask" /\ n' = n)
  BY DEF List
<1> QED BY <1>4, <1>5, <1>6

\* Every step of the command is a step of the walk or none.
LEMMA LogsStep ==
    ASSUME Typed, Walking, [Next]_vars
    PROVE  [Logs!Next]_(Logs!vars) /\ Walking'
<1>1. CASE List
  <2>1. n \in 1..Len(Plan) /\ todo = <<>> /\ pc = "list" /\ n \in 1..(Len(Plan) + 1)
    BY <1>1, PlanType DEF List, Typed, Walking
  <2>2. CASE Plan[n].name \in CopyLogs
    <3>1. /\ Logs!ListPods
          /\ todo' = <<>> \/ (n' = n /\ pc' = "ask" /\ \E g, k : InGroup(g, k)')
      BY <1>1, <2>2, LogsList
    <3>2. Walking'
      BY <2>1, <3>1 DEF Walking
    <3> QED BY <3>1, <3>2 DEF Logs!Next
  <2>3. CASE Plan[n].name \notin CopyLogs
    <3>1. CASE Return
      <4>1. UNCHANGED Logs!vars
        BY <2>1, <2>3, <3>1, OthersReturn
      <4>2. Walking'
        BY <3>1 DEF Return, Walking
      <4> QED BY <4>1, <4>2
    <3>2. CASE n' = n /\ pc' = "ask"
      <4>1. /\ LogGatherer' = Turn(n') /\ Left' = 0 /\ Files' = {}
            /\ LogPlace' = IF Turn(n') = "done" THEN "done" ELSE "pods"
        BY <2>1, <2>3, <3>2, UnseenThen
      <4>2. /\ LogGatherer = Turn(n) /\ Left = 0 /\ Files = {}
            /\ LogPlace = IF Turn(n) = "done" THEN "done" ELSE "pods"
        BY <2>1, Unseen
      <4>3. Walking'
        BY <2>1, <2>3, <3>2 DEF Walking
      <4> QED BY <3>2, <4>1, <4>2, <4>3 DEF Logs!vars, Left, Files
    <3> QED BY <1>1, <3>1, <3>2 DEF List
  <2> QED BY <2>2, <2>3
<1>2. CASE Ask
  <2>1. n \in 1..Len(Plan) /\ todo # <<>> /\ pc = "ask" /\ n \in 1..(Len(Plan) + 1)
    BY <1>2, PlanType DEF Ask, Typed
  <2>2. PICK answer \in DOMAIN Head(Head(todo)).reach : Continue(Head(Head(todo)).reach[answer])
    BY <1>2 DEF Ask
  <2>3. CASE Plan[n].name \in CopyLogs
    <3>1. PICK g, j : InGroup(g, j)
      BY <2>1, <2>3 DEF Walking
    <3>2. /\ [Logs!Next]_(Logs!vars)
          /\ todo' = <<>> \/ (n' = n /\ pc' = pc /\ \E k : InGroup(g, k)')
      BY <2>1, <2>2, <3>1, LogsAsk
    <3>3. Walking'
      BY <2>1, <3>2 DEF Walking
    <3> QED BY <3>2, <3>3
  <2>4. CASE Plan[n].name \notin CopyLogs
    <3>1. Return \/ (n' = n /\ pc' = pc)
      BY <2>2 DEF Continue
    <3>2. CASE Return
      <4>1. UNCHANGED Logs!vars
        BY <2>1, <2>4, <3>2, OthersReturn
      <4>2. Walking'
        BY <3>2 DEF Return, Walking
      <4> QED BY <4>1, <4>2
    <3>3. CASE n' = n /\ pc' = pc
      <4>1. /\ LogGatherer' = Turn(n') /\ Left' = 0 /\ Files' = {}
            /\ LogPlace' = IF Turn(n') = "done" THEN "done" ELSE "pods"
        BY <2>1, <2>4, <3>3, UnseenThen
      <4>2. /\ LogGatherer = Turn(n) /\ Left = 0 /\ Files = {}
            /\ LogPlace = IF Turn(n) = "done" THEN "done" ELSE "pods"
        BY <2>1, <2>4, Unseen
      <4>3. Walking'
        BY <2>1, <2>4, <3>3 DEF Walking
      <4> QED BY <3>3, <4>1, <4>2, <4>3 DEF Logs!vars, Left, Files
    <3> QED BY <3>1, <3>2, <3>3
  <2> QED BY <2>3, <2>4
<1>3. ASSUME ~List, ~Ask
      PROVE  /\ UNCHANGED <<n, todo>>
             /\ pc' \in {"start", "list", "log"} => todo = <<>>
  BY <1>3 DEF Next, Start, WriteLog, Stat, Close, Kill, vars, Walking
<1>4. CASE ~List /\ ~Ask
  <2>1. UNCHANGED Logs!vars
    BY <1>3, <1>4, LogsWait
  <2>2. \A g, j : InGroup(g, j) => InGroup(g, j)'
    BY <1>3, <1>4 DEF InGroup
  <2>3. Walking'
    BY <1>3, <1>4, <2>2 DEF Walking
  <2> QED BY <2>1, <2>3
<1> QED BY <1>1, <1>2, <1>4

\* Export implements Walk: among thirty gatherers those of log files visit every
\* pod and every file that an error does not keep them from, and no other answer
\* takes their turn (RunE and the loops of the three gatherers in export.go).
THEOREM LogsAreWalked == Spec => LogsWalk
<1>1. Init => Logs!Init /\ Walking
  <2> SUFFICES ASSUME Init PROVE Logs!Init /\ Walking
    OBVIOUS
  <2>1. n = 1 /\ todo = <<>> /\ n \in 1..(Len(Plan) + 1)
    BY PlanType DEF Init
  <2>2. /\ LogGatherer = Turn(1) /\ Left = 0 /\ Files = {}
        /\ LogPlace = IF Turn(1) = "done" THEN "done" ELSE "pods"
    BY <2>1, Unseen
  <2>3. Turn(1) \in {"postgres", "backrest"}
    BY PlanPlaces DEF Turn
  <2> QED BY <2>1, <2>2, <2>3 DEF Logs!Init, Walking, Left, Files
<1>2. Typed /\ Walking /\ [Next]_vars => [Logs!Next]_(Logs!vars) /\ Walking'
  BY LogsStep
<1> QED BY <1>1, <1>2, TypedAlways, PTL DEF Spec, LogsWalk, Logs!Spec
=============================================================================
