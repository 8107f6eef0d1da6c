--------------------------- MODULE LibraryProofs ----------------------------
(***************************************************************************)
(* Theorems about Library and its page for any configurations, forms,      *)
(* failures, albums, names of picks_dir and number of clients.  What a     *)
(* rebuild makes of an album they take from GroupingProofs, what requests  *)
(* make of the settings from SettingsProofs: every step of Library is one  *)
(* of Settings or leaves the settings alone.                               *)
(***************************************************************************)
EXTENDS LibraryPage, GroupingProofs, SettingsProofs

USE DEF settings, tables, vars

-----------------------------------------------------------------------------
(* The inductive invariant                                                 *)

Task ==
  [at : {"idle", "files", "embeds", "write"}, cfg : Configs,
   files : SUBSET Photo, embeds : SUBSET Photo]

TasksOK ==
  /\ analyzed \subseteq Photo /\ embedded \subseteq Photo
  /\ task \in [Rebuilder -> Task] /\ renewed \subseteq Rebuilder /\ moves \in Nat

\* The rebuild of a request is the last thing it does.
RegroupLast == \A c \in Client : AtWork(c) => post[c].at = "regroup"

\* A request that is alone regroups with what the file says.
Loners ==
  \A c \in alone : AtWork(c) /\ "live" \notin spoiled => task[c].cfg = Loaded

\* The clusters of a table: no photo in two, each with a row, and those of a device
\* without a time behind the others.
Tabled(defs, S) ==
  /\ defs \in Seq(ClusterDefs) /\ NullsLast(defs)
  /\ \A i \in DOMAIN defs : defs[i].members \subseteq S
  /\ \A i, j \in DOMAIN defs : i # j => defs[i].members \cap defs[j].members = {}

\* An embedding or a status has its row, whatever is evicted meanwhile.
TablesOK ==
  /\ album \in Albums /\ scan \in {"idle", "ready", "working"}
  /\ rows \subseteq Photo /\ analyzed \subseteq rows /\ embedded \subseteq rows
  /\ Tabled(clusters, rows)

LibraryInv == SettingsInv /\ TasksOK /\ TablesOK /\ RegroupLast /\ Loners

-----------------------------------------------------------------------------
(* Types                                                                   *)

LEMMA InvTypes ==
  ASSUME SettingsInv
  PROVE  /\ TypeInv /\ Apart /\ Served
         /\ live \in Configs /\ started \in Configs /\ file \in Contents
         /\ post \in [Saver -> Handling] /\ alone \subseteq Client /\ Client \subseteq Saver
BY DEF SettingsInv, FileInv, TypeInv, SettingsTypeOK, Saver

\* What Library does to the settings.
LEMMA StepOfSettings ==
  ASSUME LibraryNext
  PROVE  SettingsNext \/ UNCHANGED settings
<1>1. CASE Configure \/ Stop \/ \E c \in Client : handleReclusterPost(c)
  BY <1>1 DEF Configure, Stop, handleReclusterPost, SettingsNext
<1>2. ASSUME NEW p \in Rebuilder, Write(p) \/ WriteFails(p)
      PROVE  SettingsNext \/ UNCHANGED settings
  <2>1. Over(p) /\ UNCHANGED moves
    BY <1>2 DEF Write, WriteFails
  <2>2. CASE p = Scan
    BY <2>1, <2>2 DEF Over
  <2>3. CASE p # Scan
    <3>1. p \in Client /\ Answer(p)
      BY <2>1, <2>3 DEF Over, Rebuilder
    <3>. QED
      BY <2>1, <3>1 DEF SettingsNext
  <2>. QED
    BY <2>2, <2>3
<1>. QED
  BY <1>1, <1>2 DEF LibraryNext, ScanStarts, Finalize, ClusterStage, Analyze, recluster, ReadFiles,
     ReadEmbeds

LEMMA NoTaskType == NoTask \in Task /\ NoTask.at = "idle"
BY SettingsAssumption DEF NoTask, Task

\* One rebuild moves on.
LEMMA TaskMoves ==
  ASSUME TasksOK, NEW p \in Rebuilder, NEW t \in Task, task' = [task EXCEPT ![p] = t]
  PROVE  /\ task' \in [Rebuilder -> Task] /\ task'[p] = t
         /\ \A q \in Rebuilder : q # p => task'[q] = task[q]
BY DEF TasksOK

LEMMA BeginType ==
  ASSUME TasksOK, NEW p \in Rebuilder, NEW cfg \in Configs, Begin(p, cfg)
  PROVE  /\ task' \in [Rebuilder -> Task] /\ task'[p].cfg = cfg
         /\ \A q \in Rebuilder : q # p => task'[q] = task[q]
<1>1. [NoTask EXCEPT !.at = "files", !.cfg = cfg] \in Task
  BY NoTaskType DEF Task
<1>2. [NoTask EXCEPT !.at = "files", !.cfg = cfg].cfg = cfg
  BY DEF NoTask
<1>. QED
  BY <1>1, <1>2, TaskMoves DEF Begin

LEMMA OverType ==
  ASSUME TasksOK, NEW p \in Rebuilder, Over(p)
  PROVE  /\ task' \in [Rebuilder -> Task] /\ task'[p].at = "idle"
         /\ \A q \in Rebuilder : q # p => task'[q] = task[q]
         /\ renewed' \subseteq renewed
BY NoTaskType, TaskMoves DEF Over

\* A read keeps the rest of the task.
LEMMA ReadType ==
  ASSUME TasksOK, NEW p \in Rebuilder, ReadFiles(p) \/ ReadEmbeds(p)
  PROVE  /\ task' \in [Rebuilder -> Task] /\ task[p].at # "idle" /\ task'[p].cfg = task[p].cfg
         /\ \A q \in Rebuilder : q # p => task'[q] = task[q]
<1>1. task[p] \in Task /\ analyzed \in SUBSET Photo /\ embedded \in SUBSET Photo
  BY DEF TasksOK
<1>2. CASE ReadFiles(p)
  <2>1. PICK at \in {"embeds", "write"} :
          task' = [task EXCEPT ![p] = [task[p] EXCEPT !.files = analyzed, !.at = at]]
    BY <1>2 DEF ReadFiles
  <2>2. [task[p] EXCEPT !.files = analyzed, !.at = at] \in Task
    BY <1>1 DEF Task
  <2>3. [task[p] EXCEPT !.files = analyzed, !.at = at].cfg = task[p].cfg
    BY <1>1 DEF Task
  <2>. QED
    BY <1>2, <2>1, <2>2, <2>3, TaskMoves DEF ReadFiles
<1>3. CASE ReadEmbeds(p)
  <2>1. task' = [task EXCEPT ![p] = [task[p] EXCEPT !.embeds = embedded, !.at = "write"]]
    BY <1>3 DEF ReadEmbeds
  <2>2. [task[p] EXCEPT !.embeds = embedded, !.at = "write"] \in Task
    BY <1>1 DEF Task
  <2>3. [task[p] EXCEPT !.embeds = embedded, !.at = "write"].cfg = task[p].cfg
    BY <1>1 DEF Task
  <2>. QED
    BY <1>3, <2>1, <2>2, <2>3, TaskMoves DEF ReadEmbeds
<1>. QED
  BY <1>2, <1>3

LEMMA StepTasks ==
  ASSUME SettingsInv, TasksOK, LibraryNext
  PROVE  TasksOK'
<1>1. live \in Configs /\ started \in Configs /\ Client \subseteq Rebuilder /\ Scan \in Rebuilder
  BY InvTypes DEF Rebuilder
<1>2. moves' \in Nat
  <2>1. SettingsStep => moves' = moves \/ (moves > 0 /\ moves' = moves - 1)
    BY DEF SettingsStep, Launch, MigrateLoad, MigrateDelete, MigrateEnds, LoadLive, OpenTmp, WriteTmp,
           RenameConfig, SaveFails, Post, ReloadLoad, ReloadStore, ReloadFails
  <2>2. ScanStarts => moves' = moves \/ (moves' >= 0 /\ moves' = moves - 1)
    BY DEF ScanStarts
  <2>3. ~ Configure /\ ~ ScanStarts => moves' = moves \/ (moves > 0 /\ moves' = moves - 1)
    BY DEF LibraryNext, Stop, Exit, Finalize, ClusterStage, Analyze, handleReclusterPost, Ask, recluster,
           ReadFiles, ReadEmbeds, Write, WriteFails
  <2>. QED
    BY <2>1, <2>2, <2>3 DEF TasksOK, Configure
<1>3. CASE Configure \/ \E c \in Client : handleReclusterPost(c)
  BY <1>2, <1>3 DEF Configure, handleReclusterPost, TasksOK
<1>4. CASE Stop
  BY <1>2, <1>4, NoTaskType DEF Stop, TasksOK
<1>5. CASE ScanStarts
  BY <1>2, <1>5 DEF ScanStarts, TasksOK
<1>6. CASE Finalize \/ \E f \in Photo : Analyze(f)
  BY <1>2, <1>6 DEF Finalize, Analyze, TasksOK
<1>7. CASE ClusterStage
  BY <1>1, <1>2, <1>7, BeginType DEF ClusterStage, TasksOK
<1>8. ASSUME NEW c \in Client, recluster(c)
      PROVE  TasksOK'
  BY <1>1, <1>2, <1>8, BeginType DEF recluster, TasksOK
<1>9. ASSUME NEW p \in Rebuilder, ReadFiles(p) \/ ReadEmbeds(p)
      PROVE  TasksOK'
  BY <1>2, <1>9, ReadType DEF ReadFiles, ReadEmbeds, TasksOK
<1>10. ASSUME NEW p \in Rebuilder, Write(p) \/ WriteFails(p)
       PROVE  TasksOK'
  <2>1. /\ Over(p) /\ analyzed' = analyzed /\ embedded' = embedded
    BY <1>10 DEF Write, WriteFails
  <2>. QED
    BY <1>2, <2>1, OverType DEF TasksOK
<1>. QED
  BY <1>3, <1>4, <1>5, <1>6, <1>7, <1>8, <1>9, <1>10 DEF LibraryNext

-----------------------------------------------------------------------------
(* The clusters tables                                                     *)

\* What a rebuild hands to WriteClusters.
LEMMA GroupedTabled ==
  ASSUME NEW a \in Albums, NEW files \in SUBSET Photo, NEW embeds, NEW cfg \in Configs,
         NEW S, files \subseteq S
  PROVE  Tabled(RebuildAll(a, files, embeds, cfg), S)
<1>. DEFINE defs == RebuildAll(a, files, embeds, cfg)
            V == Scenes(a, files, embeds, cfg)
<1>1. cfg.bucket \in Int
  BY SettingsAssumption
<1>2. Divides(defs, files, V) /\ NullsLast(defs)
  BY <1>1, RebuildAllDivides
<1>3. V \subseteq ClusterDefs
  BY DEF Scenes
<1>. HIDE DEF defs, V
<1>4. defs \in Seq(V) /\ DOMAIN defs = 1 .. Len(defs)
  BY <1>2 DEF Divides
<1>5. defs \in Seq(ClusterDefs)
  <2>1. \A i \in 1 .. Len(defs) : defs[i] \in ClusterDefs
    BY <1>3, <1>4
  <2>. QED
    BY <1>4, <2>1
<1>6. \A i \in DOMAIN defs : defs[i].members \subseteq S
  BY <1>2, <1>4 DEF Divides
<1>7. \A i, j \in DOMAIN defs : i # j => defs[i].members \cap defs[j].members = {}
  BY <1>2, <1>4 DEF Divides
<1>8. Tabled(defs, S)
  BY <1>2, <1>5, <1>6, <1>7 DEF Tabled
<1>. QED
  BY <1>8 DEF defs

\* Evicting files takes them out of the clusters and changes nothing else.
LEMMA EvictedTabled ==
  ASSUME NEW defs, NEW S, S \subseteq Photo, Tabled(defs, S), NEW hidden
  PROVE  Tabled([i \in DOMAIN defs |-> [defs[i] EXCEPT !.members = @ \ hidden]], Photo \ hidden)
<1>. DEFINE left == [i \in DOMAIN defs |-> [defs[i] EXCEPT !.members = @ \ hidden]]
<1>1. defs \in Seq(ClusterDefs) /\ DOMAIN defs = 1 .. Len(defs) /\ Len(defs) \in Nat
  BY DEF Tabled
<1>2. \A i \in DOMAIN defs : /\ left[i].device = defs[i].device /\ left[i].bucket = defs[i].bucket
                             /\ left[i].members = defs[i].members \ hidden
                             /\ left[i] \in ClusterDefs
  <2>1. \A i \in DOMAIN defs : defs[i] \in ClusterDefs
    BY <1>1
  <2>. QED
    BY <2>1 DEF ClusterDefs
<1>3. DOMAIN left = DOMAIN defs
  OBVIOUS
<1>. HIDE DEF left
<1>4. left \in Seq(ClusterDefs)
  <2>1. left \in [1 .. Len(defs) -> ClusterDefs]
    <3>1. left = [i \in DOMAIN defs |-> left[i]]
      BY <1>3 DEF left
    <3>. QED
      BY <1>1, <1>2, <3>1
  <2>. QED
    BY <1>1, <2>1
<1>5. NullsLast(left)
  BY <1>2, <1>3 DEF Tabled, NullsLast
<1>6. \A i \in DOMAIN left : left[i].members \subseteq Photo \ hidden
  BY <1>2, <1>3 DEF Tabled
<1>7. \A i, j \in DOMAIN left : i # j => left[i].members \cap left[j].members = {}
  <2>1. ASSUME NEW i \in DOMAIN left, NEW j \in DOMAIN left, i # j
        PROVE  left[i].members \cap left[j].members = {}
    <3>1. defs[i].members \cap defs[j].members = {}
      BY <1>3, <2>1 DEF Tabled
    <3>. QED
      BY <1>2, <1>3, <3>1
  <2>. QED
    BY <2>1
<1>8. Tabled(left, Photo \ hidden)
  BY <1>4, <1>5, <1>6, <1>7 DEF Tabled
<1>. QED
  BY <1>8 DEF left

\* A table whose members have rows has them also when there are more rows.
LEMMA TabledMore ==
  ASSUME NEW defs, NEW S, NEW T, Tabled(defs, S), S \subseteq T
  PROVE  Tabled(defs, T)
BY DEF Tabled

\* Of the steps that change the tables, evicting files and writing clusters could take a
\* row away from a member or put a photo in two places.
LEMMA StepKeepsTables ==
  ASSUME SettingsInv, TasksOK, TablesOK, LibraryNext
  PROVE  TablesOK'
<1>1. CASE Configure \/ Stop
  BY <1>1 DEF Configure, Stop, TablesOK
<1>2. CASE ScanStarts
  <2>. DEFINE evicted == Matched[ScanDir]
  <2>1. \E cfg \in Configs : ScanDir = cfg.dir
    <3>1. Effective(Loaded) \in Configs /\ started \in Configs
      BY LoadedType, InvTypes, SettingsAssumption DEF Effective
    <3>. QED
      BY <3>1 DEF ScanDir
  <2>2. Photo \ evicted \subseteq Photo \ Under[ScanDir]
    BY <2>1, LibraryAssumption
  <2>3. /\ rows' = Photo \ Under[ScanDir] /\ embedded' = embedded \ evicted
        /\ clusters' = [i \in DOMAIN clusters |-> [clusters[i] EXCEPT !.members = @ \ evicted]]
        /\ \E changed : analyzed' = analyzed \ (evicted \cup changed)
        /\ scan' = "working" /\ album' = album
    BY <1>2 DEF ScanStarts
  <2>. HIDE DEF evicted
  <2>4. Tabled(clusters', Photo \ evicted)
    BY <2>3, EvictedTabled DEF TablesOK
  <2>5. Tabled(clusters', rows')
    BY <2>2, <2>3, <2>4, TabledMore
  <2>6. analyzed' \subseteq rows' /\ embedded' \subseteq rows' /\ rows' \subseteq Photo
    BY <2>2, <2>3 DEF TablesOK
  <2>. QED
    BY <2>3, <2>5, <2>6 DEF TablesOK
<1>3. CASE Finalize \/ ClusterStage
  BY <1>3 DEF Finalize, ClusterStage, TablesOK
<1>4. CASE \E f \in Photo : Analyze(f)
  BY <1>4 DEF Analyze, TablesOK
<1>5. CASE \E c \in Client : handleReclusterPost(c) \/ recluster(c)
  BY <1>5 DEF handleReclusterPost, recluster, TablesOK
<1>6. ASSUME NEW p \in Rebuilder, ReadFiles(p) \/ ReadEmbeds(p) \/ WriteFails(p)
      PROVE  TablesOK'
  BY <1>6 DEF ReadFiles, ReadEmbeds, WriteFails, TablesOK
<1>7. ASSUME NEW p \in Rebuilder, Write(p)
      PROVE  TablesOK'
  <2>1. task[p].files \in SUBSET Photo /\ task[p].cfg \in Configs
    BY DEF TasksOK, Task
  <2>2. /\ task[p].files \subseteq rows
        /\ clusters' = RebuildAll(album, task[p].files, task[p].embeds, task[p].cfg)
    BY <1>7 DEF Write, HasRows, Grouped
  <2>3. Tabled(clusters', rows)
    BY <2>1, <2>2, GroupedTabled DEF TablesOK
  <2>. QED
    BY <1>7, <2>3 DEF Write, TablesOK
<1>. QED
  BY <1>1, <1>2, <1>3, <1>4, <1>5, <1>6, <1>7 DEF LibraryNext

-----------------------------------------------------------------------------
(* The order of the library page                                           *)

PageOrder == {p \in (DOMAIN clusters) \X (DOMAIN clusters) : Before(p[1], p[2])}

LEMMA ClusterType ==
  ASSUME NEW S, Tabled(clusters, S)
  PROVE  /\ DOMAIN clusters = 1 .. Len(clusters) /\ Len(clusters) \in Nat
         /\ \A i \in DOMAIN clusters :
              clusters[i].device \in Int /\ (clusters[i].bucket = None \/ clusters[i].bucket \in Int)
<1>1. clusters \in Seq(ClusterDefs)
  BY DEF Tabled
<1>2. \A i \in DOMAIN clusters : clusters[i] \in ClusterDefs
  BY <1>1
<1>. QED
  BY <1>1, <1>2 DEF ClusterDefs

\* ORDER BY puts the clusters in one order.
LEMMA BeforeOrders ==
  ASSUME NEW S, Tabled(clusters, S)
  PROVE  Ordered(DOMAIN clusters, PageOrder)
<1>. DEFINE D(i) == clusters[i].device
            B(i) == clusters[i].bucket
            ids == DOMAIN clusters
<1>1. \A i \in ids : i \in Int /\ D(i) \in Int /\ (B(i) = None \/ B(i) \in Int)
  BY ClusterType
<1>2. None \notin Int
  BY GroupingAssumption
<1>3. \A i, j \in ids : <<i, j>> \in PageOrder <=>
        \/ D(i) < D(j)
        \/ D(i) = D(j) /\ B(i) # None /\ B(j) = None
        \/ D(i) = D(j) /\ B(i) # None /\ B(j) # None /\ B(i) < B(j)
        \/ D(i) = D(j) /\ B(i) = B(j) /\ i < j
  BY DEF PageOrder, Before
<1>. HIDE DEF D, B
<1>4. \A x \in ids : <<x, x>> \notin PageOrder
  BY <1>1, <1>2, <1>3
<1>5. \A x, y \in ids : x # y => <<x, y>> \in PageOrder \/ <<y, x>> \in PageOrder
  <2>1. ASSUME NEW x \in ids, NEW y \in ids, x # y
        PROVE  <<x, y>> \in PageOrder \/ <<y, x>> \in PageOrder
    <3>1. CASE D(x) # D(y)
      BY <1>1, <1>3, <3>1
    <3>2. CASE D(x) = D(y) /\ (B(x) = None \/ B(y) = None)
      BY <1>1, <1>2, <1>3, <2>1, <3>2
    <3>3. CASE D(x) = D(y) /\ B(x) # None /\ B(y) # None
      BY <1>1, <1>2, <1>3, <2>1, <3>3
    <3>. QED
      BY <3>1, <3>2, <3>3
  <2>. QED
    BY <2>1
<1>6. \A x, y, z \in ids : <<x, y>> \in PageOrder /\ <<y, z>> \in PageOrder => <<x, z>> \in PageOrder
  <2>1. ASSUME NEW x \in ids, NEW y \in ids, NEW z \in ids, <<x, y>> \in PageOrder, <<y, z>> \in PageOrder
        PROVE  <<x, z>> \in PageOrder
    <3>1. D(x) <= D(y) /\ D(y) <= D(z)
      BY <1>1, <1>3, <2>1
    <3>2. CASE D(x) < D(z)
      BY <1>3, <3>2
    <3>3. CASE D(x) = D(z)
      <4>1. D(x) = D(y) /\ D(y) = D(z)
        BY <1>1, <3>1, <3>3
      <4>2. CASE B(z) = None
        BY <1>1, <1>2, <1>3, <2>1, <4>1, <4>2
      <4>3. CASE B(z) # None
        <5>1. B(z) \in Int /\ B(y) \in Int /\ B(y) # None
          BY <1>1, <1>2, <1>3, <2>1, <4>1, <4>3
        <5>2. B(x) \in Int /\ B(x) # None
          BY <1>1, <1>2, <1>3, <2>1, <4>1, <5>1
        <5>. QED
          BY <1>1, <1>2, <1>3, <2>1, <4>1, <5>1, <5>2
      <4>. QED
        BY <4>2, <4>3
    <3>. QED
      BY <1>1, <3>1, <3>2, <3>3
  <2>. QED
    BY <2>1
<1>. QED
  BY <1>4, <1>5, <1>6 DEF Ordered

\* The page lists every cluster once, in that order.
LEMMA AllOrderedLists ==
  ASSUME NEW S, Tabled(clusters, S)
  PROVE  /\ AllOrdered \in Seq(DOMAIN clusters) /\ Len(AllOrdered) = Len(clusters)
         /\ \A i \in DOMAIN clusters : \E k \in 1 .. Len(clusters) : AllOrdered[k] = i
         /\ \A k, m \in 1 .. Len(clusters) :
              k < m <=> <<AllOrdered[k], AllOrdered[m]>> \in PageOrder
<1>1. DOMAIN clusters = 1 .. Len(clusters) /\ Len(clusters) \in Nat
  BY ClusterType
<1>2. IsFiniteSet(1 .. Len(clusters)) /\ Cardinality(1 .. Len(clusters)) = Len(clusters)
  <2>1. 1 \in Int /\ Len(clusters) \in Int
    BY <1>1
  <2>2. Cardinality(1 .. Len(clusters)) = IF 1 > Len(clusters) THEN 0 ELSE Len(clusters) - 1 + 1
    BY <2>1, FS_Interval
  <2>. QED
    BY <1>1, <2>1, <2>2, FS_Interval
<1>. DEFINE ids == DOMAIN clusters
            order == AllOrdered
<1>3. order = Sorted(ids, PageOrder)
  BY DEF AllOrdered, PageOrder
<1>4. Ordered(ids, PageOrder) /\ IsFiniteSet(ids) /\ Cardinality(ids) = Len(clusters)
  BY <1>1, <1>2, BeforeOrders
<1>. HIDE DEF ids, order
<1>5. /\ order \in Seq(ids) /\ Len(order) = Cardinality(ids)
      /\ \A x \in ids : \E i \in 1 .. Cardinality(ids) : order[i] = x
      /\ \A i, j \in 1 .. Cardinality(ids) : i < j <=> <<order[i], order[j]>> \in PageOrder
  BY <1>3, <1>4, SortedIsSorted
<1>6. /\ order \in Seq(ids) /\ Len(order) = Len(clusters)
      /\ \A x \in ids : \E i \in 1 .. Len(clusters) : order[i] = x
      /\ \A i, j \in 1 .. Len(clusters) : i < j <=> <<order[i], order[j]>> \in PageOrder
  BY <1>4, <1>5
<1>. QED
  BY <1>6 DEF ids, order

\* The WHERE clauses of NextAfter ask for the rows that come later.  That a bucket without
\* a time compares ids only is right because such buckets have the greatest ones.
LEMMA LaterRows ==
  ASSUME NEW S, Tabled(clusters, S), NEW i \in DOMAIN clusters
  PROVE  NextAfter(i) = FirstRow({j \in DOMAIN clusters : <<i, j>> \in PageOrder})
<1>. DEFINE D(j) == clusters[j].device
            B(j) == clusters[j].bucket
            ids == DOMAIN clusters
            clauses(j) ==
              \/ D(j) > D(i)
              \/ D(j) = D(i) /\ B(i) = None /\ j > i
              \/ D(j) = D(i) /\ B(i) # None /\ B(j) = None
              \/ /\ D(j) = D(i) /\ B(i) # None /\ B(j) # None
                 /\ (B(j) > B(i) \/ (B(j) = B(i) /\ j > i))
<1>1. \A j \in ids : j \in Int /\ D(j) \in Int /\ (B(j) = None \/ B(j) \in Int)
  BY ClusterType
<1>2. None \notin Int
  BY GroupingAssumption
<1>3. \A j \in ids : <<i, j>> \in PageOrder <=>
        \/ D(i) < D(j)
        \/ D(i) = D(j) /\ B(i) # None /\ B(j) = None
        \/ D(i) = D(j) /\ B(i) # None /\ B(j) # None /\ B(i) < B(j)
        \/ D(i) = D(j) /\ B(i) = B(j) /\ i < j
  BY DEF PageOrder, Before
<1>4. \A j \in ids : i < j /\ D(i) = D(j) /\ B(i) = None => B(j) = None
  BY DEF Tabled, NullsLast
<1>5. NextAfter(i) = FirstRow({j \in ids : clauses(j)})
  BY DEF NextAfter
<1>. HIDE DEF D, B
<1>6. ASSUME NEW j \in ids
      PROVE  clauses(j) <=> <<i, j>> \in PageOrder
  <2>1. i \in Int /\ j \in Int /\ D(i) \in Int /\ D(j) \in Int
    BY <1>1
  <2>2. CASE D(i) # D(j)
    BY <1>3, <2>1, <2>2
  <2>3. CASE D(i) = D(j) /\ B(i) = None
    BY <1>2, <1>3, <1>4, <2>1, <2>3
  <2>4. CASE D(i) = D(j) /\ B(i) # None /\ B(j) = None
    BY <1>3, <2>1, <2>4
  <2>5. CASE D(i) = D(j) /\ B(i) # None /\ B(j) # None
    BY <1>1, <1>3, <2>1, <2>5
  <2>. QED
    BY <2>2, <2>3, <2>4, <2>5
<1>. HIDE DEF clauses
<1>7. {j \in ids : clauses(j)} = {j \in ids : <<i, j>> \in PageOrder}
  BY <1>6
<1>. QED
  BY <1>5, <1>7

\* In the list of the page the next cluster is the next one.
LEMMA NextIsNext ==
  ASSUME NEW S, Tabled(clusters, S), NEW k \in 1 .. Len(clusters)
  PROVE  NextAfter(AllOrdered[k]) = IF k = Len(clusters) THEN 0 ELSE AllOrdered[k + 1]
<1>. DEFINE order == AllOrdered
            n == Len(clusters)
            later == {j \in DOMAIN clusters : <<order[k], j>> \in PageOrder}
<1>1. /\ order \in Seq(DOMAIN clusters) /\ Len(order) = n /\ n \in Nat
      /\ \A i \in DOMAIN clusters : \E m \in 1 .. n : order[m] = i
      /\ \A l, m \in 1 .. n : l < m <=> <<order[l], order[m]>> \in PageOrder
  BY AllOrderedLists, ClusterType
<1>. HIDE DEF order
<1>2. \A m \in 1 .. n : order[m] \in DOMAIN clusters
  BY <1>1
<1>3. NextAfter(order[k]) = FirstRow(later)
  BY <1>2, LaterRows
<1>4. \A m \in 1 .. n : order[m] \in later <=> k < m
  BY <1>1, <1>2
<1>5. CASE k = n
  <2>1. later = {}
    <3>1. ASSUME NEW j \in later
          PROVE  FALSE
      <4>1. PICK m \in 1 .. n : order[m] = j
        BY <1>1
      <4>. QED
        BY <1>1, <1>4, <1>5, <3>1, <4>1
    <3>. QED
      BY <3>1
  <2>. QED
    BY <1>3, <1>5, <2>1 DEF FirstRow, order
<1>6. CASE k # n
  <2>1. k + 1 \in 1 .. n /\ k \in Int
    BY <1>1, <1>6
  <2>2. order[k + 1] \in later
    BY <1>4, <2>1
  <2>3. \A j \in later \ {order[k + 1]} : <<order[k + 1], j>> \in PageOrder
    <3>1. ASSUME NEW j \in later, j # order[k + 1]
          PROVE  <<order[k + 1], j>> \in PageOrder
      <4>1. PICK m \in 1 .. n : order[m] = j
        BY <1>1
      <4>2. k < m /\ m # k + 1
        BY <1>4, <3>1, <4>1
      <4>3. k + 1 < m
        BY <2>1, <4>2
      <4>. QED
        BY <1>1, <2>1, <4>1, <4>3
    <3>. QED
      BY <3>1
  <2>4. \A j \in later : (\A x \in later \ {j} : Before(j, x)) => j = order[k + 1]
    <3>1. ASSUME NEW j \in later, \A x \in later \ {j} : Before(j, x), j # order[k + 1]
          PROVE  FALSE
      <4>1. PICK m \in 1 .. n : order[m] = j
        BY <1>1
      <4>2. <<j, order[k + 1]>> \in PageOrder
        <5>1. Before(j, order[k + 1])
          BY <2>2, <3>1
        <5>2. j \in DOMAIN clusters /\ order[k + 1] \in DOMAIN clusters
          BY <1>2, <2>1
        <5>. QED
          BY <5>1, <5>2 DEF PageOrder
      <4>3. <<order[k + 1], j>> \in PageOrder
        BY <2>3, <3>1
      <4>4. m < k + 1 /\ k + 1 < m
        BY <1>1, <2>1, <4>1, <4>2, <4>3
      <4>. QED
        BY <2>1, <4>4
    <3>. QED
      BY <3>1
  <2>5. \A x \in later \ {order[k + 1]} : Before(order[k + 1], x)
    BY <2>3 DEF PageOrder
  <2>6. (CHOOSE j \in later : \A x \in later \ {j} : Before(j, x)) = order[k + 1]
    BY <2>2, <2>4, <2>5
  <2>. QED
    BY <1>3, <1>6, <2>2, <2>6 DEF FirstRow, order
<1>. QED
  BY <1>5, <1>6

\* The one before the next one is the one.
LEMMA PrevIsPrev ==
  ASSUME NEW S, Tabled(clusters, S), NEW k \in 1 .. Len(clusters), k > 1
  PROVE  PrevOf(AllOrdered[k]) = AllOrdered[k - 1]
<1>. DEFINE order == AllOrdered
            n == Len(clusters)
            I == {m \in 1 .. Len(order) : order[m] = order[k]}
<1>1. /\ order \in Seq(DOMAIN clusters) /\ Len(order) = n /\ n \in Nat
      /\ \A l, m \in 1 .. n : l < m <=> <<order[l], order[m]>> \in PageOrder
  BY AllOrderedLists, ClusterType
<1>2. SelectInSeq(order, LAMBDA j : j = order[k]) = IF I # {} THEN Min(I) ELSE 0
  BY DEF SelectInSeq
<1>3. PrevOf(order[k]) = IF SelectInSeq(order, LAMBDA j : j = order[k]) = 1 THEN 0
                         ELSE order[SelectInSeq(order, LAMBDA j : j = order[k]) - 1]
  BY DEF PrevOf
<1>. HIDE DEF order
<1>4. I = {k}
  <2>1. \A m \in 1 .. n : order[m] = order[k] => m = k
    <3>1. ASSUME NEW m \in 1 .. n, order[m] = order[k]
          PROVE  m = k
      <4>1. ~ m < k
        <5>1. m < k => <<order[m], order[k]>> \in PageOrder
          BY <1>1
        <5>2. k < k <=> <<order[k], order[k]>> \in PageOrder
          BY <1>1
        <5>. QED
          BY <3>1, <5>1, <5>2
      <4>2. ~ k < m
        <5>1. k < m => <<order[k], order[m]>> \in PageOrder
          BY <1>1
        <5>2. k < k <=> <<order[k], order[k]>> \in PageOrder
          BY <1>1
        <5>. QED
          BY <3>1, <5>1, <5>2
      <4>. QED
        BY <4>1, <4>2
    <3>. QED
      BY <3>1
  <2>. QED
    BY <1>1, <2>1
<1>5. Min(I) = k
  <2>1. {k} \in SUBSET Int /\ {k} # {}
    BY <1>1
  <2>2. IsFiniteSet({k})
    BY FS_Singleton
  <2>3. Min({k}) \in {k}
    BY <2>1, <2>2, MinOf
  <2>. QED
    BY <1>4, <2>3
<1>6. SelectInSeq(order, LAMBDA j : j = order[k]) = k
  BY <1>2, <1>4, <1>5
<1>. QED
  BY <1>3, <1>6 DEF order

\* Forward by the query and back by the list.
LEMMA TabledInverts ==
  ASSUME NEW S, Tabled(clusters, S)
  PROVE  NextInvertsPrev
<1>. DEFINE order == AllOrdered
            n == Len(clusters)
<1>1. /\ order \in Seq(DOMAIN clusters) /\ Len(order) = n /\ n \in Nat
      /\ \A i \in DOMAIN clusters : \E k \in 1 .. n : order[k] = i
  BY AllOrderedLists, ClusterType
<1>2. \A k \in 1 .. n : NextAfter(order[k]) = IF k = n THEN 0 ELSE order[k + 1]
  BY NextIsNext
<1>3. \A k \in 1 .. n : k > 1 => PrevOf(order[k]) = order[k - 1]
  BY PrevIsPrev
<1>. HIDE DEF order
<1>4. \A k \in 1 .. n : order[k] \in DOMAIN clusters
  <2>1. ASSUME NEW D, order \in Seq(D), Len(order) = n
        PROVE  \A k \in 1 .. n : order[k] \in D
    BY ONLY <2>1
  <2>. QED
    BY <1>1, <2>1
<1>5. 0 \notin DOMAIN clusters
  BY ClusterType
<1>6. ASSUME NEW i \in DOMAIN clusters
      PROVE  /\ NextAfter(i) # 0 => PrevOf(NextAfter(i)) = i
             /\ NextAfter(i) = 0 => order[Len(order)] = i
  <2>1. PICK k \in 1 .. n : order[k] = i
    BY <1>1
  <2>2. CASE k = n
    BY <1>1, <1>2, <2>1, <2>2
  <2>3. CASE k # n
    <3>1. k + 1 \in 1 .. n /\ k + 1 > 1 /\ k + 1 - 1 = k
      <4>1. k \in 1 .. n /\ n \in Nat
        BY <1>1
      <4>. HIDE DEF n
      <4>. QED
        BY ONLY <2>3, <4>1
    <3>2. NextAfter(i) = order[k + 1]
      BY <1>2, <2>1, <2>3
    <3>3. order[k + 1] # 0
      BY <1>4, <1>5, <3>1
    <3>4. PrevOf(order[k + 1]) = order[k]
      BY <1>3, <3>1
    <3>. QED
      BY <2>1, <3>2, <3>3, <3>4
  <2>. QED
    BY <2>2, <2>3
<1>. QED
  BY <1>6 DEF NextInvertsPrev, order

-----------------------------------------------------------------------------
(* Requests that are alone                                                 *)

\* The server is up while a request regroups; no other saver is it, and nobody else
\* writes the file if it is alone.
LEMMA WhileRegrouping ==
  ASSUME SettingsInv, SettingsStep, NEW c \in Client, post[c].at = "regroup"
  PROVE  /\ post'[c] = post[c]
         /\ c \in alone => file' = file /\ ("live" \in spoiled => "live" \in spoiled')
<1>1. TypeInv /\ Apart /\ c \in Saver /\ proc = "up" /\ post[Server].at = "idle"
  BY InvTypes DEF TypeInv, Quiet, Saver
<1>2. ~ Launch /\ ~ MigrateLoad /\ ~ MigrateDelete /\ ~ MigrateEnds /\ ~ LoadLive
  BY <1>1 DEF Launch, MigrateLoad, MigrateDelete, MigrateEnds, LoadLive
<1>3. PICK s \in Saver : \/ OpenTmp(s) \/ WriteTmp(s) \/ RenameConfig(s) \/ SaveFails(s)
                         \/ s \in Client /\ \/ \E form \in Forms : Post(s, form)
                                            \/ ReloadLoad(s) \/ ReloadStore(s) \/ ReloadFails(s)
  BY <1>2 DEF SettingsStep, Saver
<1>4. s # c
  BY <1>1, <1>3, Where
<1>5. post'[c] = post[c]
  BY <1>1, <1>3, <1>4, OneMovesAt DEF OneMoves
<1>6. ASSUME c \in alone
      PROVE  file' = file /\ ("live" \in spoiled => "live" \in spoiled')
  <2>1. post[s].at \in {"idle", "regroup"}
    BY <1>1, <1>4, <1>6, Sole
  <2>2. \E form \in Forms : Post(s, form)
    BY <1>1, <1>3, <2>1, Where
  <2>. QED
    BY <2>2 DEF Post
<1>. QED
  BY <1>5, <1>6

\* Whose rebuild is under way after a step has begun it, or goes on with it.
LEMMA AtWorkThen ==
  ASSUME SettingsInv, TasksOK, LibraryNext, NEW c \in Client, task'[c].at # "idle"
  PROVE  \/ recluster(c) /\ task'[c].cfg = live
         \/ /\ AtWork(c) /\ task'[c].cfg = task[c].cfg /\ ~ Stop
            /\ \A p \in Rebuilder : Over(p) => p # c
<1>1. c \in Rebuilder /\ c # Scan /\ Client \subseteq Rebuilder /\ Scan \in Rebuilder
  BY LibraryAssumption DEF Rebuilder
<1>2. ~ Stop
  BY <1>1, NoTaskType DEF Stop
<1>3. \A p \in Rebuilder : Over(p) => p # c
  BY OverType
<1>4. CASE task' = task
  BY <1>2, <1>3, <1>4 DEF AtWork
<1>5. CASE ClusterStage
  <2>1. task'[c] = task[c]
    BY <1>1, <1>5, InvTypes, BeginType DEF ClusterStage
  <2>. QED
    BY <1>2, <1>3, <2>1 DEF AtWork
<1>6. ASSUME NEW d \in Client, recluster(d)
      PROVE  (d = c => task'[c].cfg = live) /\ (d # c => task'[c] = task[c])
  BY <1>1, <1>6, InvTypes, BeginType DEF recluster
<1>7. ASSUME NEW p \in Rebuilder, ReadFiles(p) \/ ReadEmbeds(p)
      PROVE  task[c].at # "idle" /\ task'[c].cfg = task[c].cfg
  <2>1. CASE p = c
    BY <1>7, <2>1, ReadType
  <2>2. CASE p # c
    BY <1>1, <1>7, <2>2, ReadType
  <2>. QED
    BY <2>1, <2>2
<1>8. ASSUME NEW p \in Rebuilder, Write(p) \/ WriteFails(p)
      PROVE  task'[c] = task[c]
  <2>1. Over(p)
    BY <1>8 DEF Write, WriteFails
  <2>. QED
    BY <1>1, <1>3, <2>1, OverType
<1>9. \/ task' = task \/ ClusterStage \/ \E d \in Client : recluster(d)
      \/ \E p \in Rebuilder : ReadFiles(p) \/ ReadEmbeds(p) \/ Write(p) \/ WriteFails(p)
  BY <1>2 DEF LibraryNext, Configure, ScanStarts, Finalize, Analyze, handleReclusterPost
<1>. QED
  BY <1>2, <1>3, <1>4, <1>5, <1>6, <1>7, <1>8, <1>9 DEF AtWork

\* While a request regroups its place stays, and if it is alone the file.
LEMMA RegroupStays ==
  ASSUME SettingsInv, LibraryNext, ~ Stop, NEW c \in Client, post[c].at = "regroup",
         \A p \in Rebuilder : Over(p) => p # c
  PROVE  /\ post'[c] = post[c]
         /\ c \in alone => file' = file /\ ("live" \in spoiled => "live" \in spoiled')
<1>1. TypeInv /\ c \in Saver /\ Client \subseteq Saver
  BY InvTypes DEF Saver
<1>2. CASE Configure
  BY <1>2, WhileRegrouping DEF Configure
<1>3. ASSUME NEW d \in Client, handleReclusterPost(d)
      PROVE  post'[c] = post[c] /\ file' = file /\ spoiled' = spoiled
  <2>1. Ask(d) /\ d \in Saver
    BY <1>1, <1>3 DEF handleReclusterPost
  <2>2. d # c
    BY <1>1, <2>1, Where
  <2>3. post'[c] = post[c]
    BY <1>1, <2>1, <2>2, OneMovesAt DEF OneMoves
  <2>. QED
    BY <2>1, <2>3 DEF Ask
<1>4. ASSUME NEW p \in Rebuilder, Over(p)
      PROVE  post'[c] = post[c] /\ file' = file /\ spoiled' = spoiled
  <2>1. CASE p = Scan
    BY <1>4, <2>1 DEF Over
  <2>2. CASE p # Scan
    <3>1. Answer(p) /\ p \in Client /\ p \in Saver /\ p # c
      BY <1>1, <1>4, <2>2 DEF Over, Rebuilder
    <3>2. post'[c] = post[c]
      BY <1>1, <3>1, OneMovesAt DEF OneMoves
    <3>. QED
      BY <3>1, <3>2 DEF Answer
  <2>. QED
    BY <2>1, <2>2
<1>5. \/ UNCHANGED settings \/ Configure \/ \E d \in Client : handleReclusterPost(d)
      \/ \E p \in Rebuilder : Over(p)
  BY DEF LibraryNext, ScanStarts, Finalize, ClusterStage, Analyze, recluster, ReadFiles, ReadEmbeds,
         Write, WriteFails
<1>. QED
  BY <1>2, <1>3, <1>4, <1>5

\* A request that begins to regroup while it is alone finds in liveCfg what the file says.
LEMMA LonerBegins ==
  ASSUME SettingsInv, NEW c \in alone, recluster(c), "live" \notin spoiled
  PROVE  live = Loaded
<1>1. proc = "up" /\ post[c].at = "regroup" /\ TypeInv /\ Apart /\ Served
  BY InvTypes DEF recluster, Handles
<1>2. ASSUME NEW d \in alone, post[d].at \in {"renamed", "reloaded"}
      PROVE  FALSE
  <2>1. d # c /\ d \in Saver
    BY <1>1, <1>2, InvTypes
  <2>. QED
    BY <1>1, <1>2, <2>1, Sole
<1>. QED
  BY <1>1, <1>2 DEF Served

LEMMA StepLoners ==
  ASSUME SettingsInv, TasksOK, RegroupLast, Loners, LibraryNext
  PROVE  RegroupLast' /\ Loners'
<1>1. ASSUME NEW c \in Client, task'[c].at # "idle"
      PROVE  /\ post'[c].at = "regroup"
             /\ c \in alone' /\ "live" \notin spoiled' => task'[c].cfg = Loaded'
  <2>1. CASE recluster(c) /\ task'[c].cfg = live
    <3>1. UNCHANGED settings /\ post[c].at = "regroup"
      BY <2>1 DEF recluster, Handles
    <3>. QED
      BY <2>1, <3>1, LonerBegins DEF Loaded
  <2>2. CASE /\ AtWork(c) /\ task'[c].cfg = task[c].cfg /\ ~ Stop
             /\ \A p \in Rebuilder : Over(p) => p # c
    <3>1. post[c].at = "regroup"
      BY <2>2 DEF RegroupLast
    <3>2. /\ post'[c] = post[c]
          /\ c \in alone => file' = file /\ ("live" \in spoiled => "live" \in spoiled')
      BY <2>2, <3>1, RegroupStays
    <3>3. c \in alone' => c \in alone
      BY <3>1, StepOfSettings, InvTypes, AloneGrows
    <3>. QED
      BY <2>2, <3>1, <3>2, <3>3 DEF Loners, Loaded
  <2>. QED
    BY <1>1, <2>1, <2>2, AtWorkThen
<1>2. alone' \subseteq Client
  <2>1. SettingsInv'
    BY StepOfSettings, StepSettings
  <2>. QED
    BY <2>1 DEF SettingsInv, TypeInv, SettingsTypeOK
<1>. QED
  BY <1>1, <1>2 DEF RegroupLast, Loners, AtWork

LEMMA NextKeepsInv ==
  ASSUME LibraryInv, [LibraryNext]_vars
  PROVE  LibraryInv'
<1>1. SettingsInv'
  BY StepOfSettings, StepSettings DEF LibraryInv
<1>2. CASE UNCHANGED vars
  BY <1>1, <1>2
     DEF LibraryInv, TasksOK, TablesOK, RegroupLast, Loners, Loaded, AtWork
<1>3. CASE LibraryNext
  BY <1>1, <1>3, StepTasks, StepKeepsTables, StepLoners DEF LibraryInv
<1>. QED
  BY <1>2, <1>3

LEMMA InitInv == LibraryInit => LibraryInv
<1>. SUFFICES ASSUME LibraryInit
              PROVE  LibraryInv
  OBVIOUS
<1>1. PICK s \in Scenarios :
        moves = s.moves /\ album \in s.albums /\ analyzed \in s.analyzed /\ embedded \in s.embedded
  BY DEF LibraryInit
<1>2. task = [p \in Rebuilder |-> NoTask] /\ alone = {} /\ renewed = {}
  BY DEF LibraryInit, SettingsInit
<1>3. TasksOK
  BY <1>1, <1>2, NoTaskType, LibraryAssumption DEF TasksOK
<1>4. SettingsInv
  BY InitSettings DEF LibraryInit
<1>5. RegroupLast /\ Loners
  BY <1>2, NoTaskType DEF RegroupLast, Loners, AtWork, Rebuilder
<1>6. TablesOK
  <2>1. album \in Albums /\ rows = Photo /\ analyzed \subseteq Photo /\ embedded \subseteq Photo
    BY <1>1, LibraryAssumption DEF LibraryInit
  <2>2. clusters = <<>> /\ scan = "idle"
    BY DEF LibraryInit
  <2>3. Tabled(clusters, rows)
    BY <2>2 DEF Tabled, NullsLast
  <2>. QED
    BY <2>1, <2>2, <2>3 DEF TablesOK
<1>. QED
  BY <1>3, <1>4, <1>5, <1>6 DEF LibraryInv

LEMMA LibraryInvHolds == LibrarySpec => []LibraryInv
<1>1. LibraryInv /\ [LibraryNext]_vars => LibraryInv'
  BY NextKeepsInv
<1>. QED
  BY <1>1, InitInv, PTL DEF LibrarySpec

-----------------------------------------------------------------------------
(* The theorems about the library                                          *)

\* Whatever rebuilds, evictions, scans and requests meet, the members of the clusters,
\* the embeddings and the analyzed files have their rows.
THEOREM LibraryTypeCorrect == LibrarySpec => []LibraryTypeOK
<1>1. LibraryInv => LibraryTypeOK
  <2>. SUFFICES ASSUME LibraryInv
                PROVE  LibraryTypeOK
    OBVIOUS
  <2>1. \A p \in Rebuilder : task[p].at \in {"idle", "files", "embeds", "write"}
    BY DEF LibraryInv, TasksOK, Task
  <2>2. SettingsTypeOK
    BY DEF LibraryInv, SettingsInv, TypeInv
  <2>. QED
    BY <2>1, <2>2 DEF LibraryInv, TasksOK, TablesOK, Tabled, LibraryTypeOK
<1>. QED
  BY <1>1, LibraryInvHolds, PTL

\* A request that no settings request met regroups with the settings that are in the
\* file when it writes, whatever the scan was built with and whatever other rebuilds
\* are under way, once a request has reloaded the configuration since two have met.
THEOREM SavedChangeShowsHolds == LibrarySpec => SavedChangeShows
<1>1. LibraryInv => \A c \in alone : Write(c) /\ "live" \notin spoiled => BySaved(c)
  BY DEF LibraryInv, Loners, Write, AtWork, BySaved
<1>2. LibraryInv /\ [LibraryNext]_vars =>
        [\A c \in alone : Write(c) /\ "live" \notin spoiled => BySaved(c)]_vars
  BY <1>1
<1>. QED
  BY <1>2, LibraryInvHolds, PTL DEF LibrarySpec, SavedChangeShows

\* What a rebuild writes are the scenes of what it has read, for any album and settings
\* and whatever has changed since it read: GroupsAreScenes says it without the sorting,
\* the walk and the union-find of the code.
THEOREM GroupedBySceneHolds == LibrarySpec => GroupedByScene
<1>1. ASSUME LibraryInv, NEW p \in Rebuilder, Write(p)
      PROVE  GroupsAreScenes(clusters', album, task[p].files, task[p].embeds, task[p].cfg)
  <2>1. task[p].files \in SUBSET Photo /\ task[p].cfg \in Configs
    BY <1>1 DEF LibraryInv, TasksOK, Task
  <2>2. task[p].cfg.bucket \in Int /\ album \in Albums
    BY <1>1, <2>1, SettingsAssumption DEF LibraryInv, TablesOK
  <2>3. clusters' = RebuildAll(album, task[p].files, task[p].embeds, task[p].cfg)
    BY <1>1 DEF Write, Grouped
  <2>. QED
    BY <2>1, <2>2, <2>3, RebuildAllIsScenes
<1>2. LibraryInv =>
        \A p \in Rebuilder : Write(p) =>
          GroupsAreScenes(clusters', album, task[p].files, task[p].embeds, task[p].cfg)
  BY <1>1
<1>3. LibraryInv /\ [LibraryNext]_vars =>
        [\A p \in Rebuilder : Write(p) =>
           GroupsAreScenes(clusters', album, task[p].files, task[p].embeds, task[p].cfg)]_vars
  BY <1>2
<1>. QED
  BY <1>3, LibraryInvHolds, PTL DEF LibrarySpec, GroupedByScene

\* A clock is moved by what most anchors say and never beyond what one of them says, for
\* any album and for the rows and embeddings any rebuild may have read.
THEOREM SkewByMajorityHolds == LibrarySpec => []SkewByMajority
<1>1. LibraryInv => SkewByMajority
  <2>. SUFFICES ASSUME LibraryInv, NEW p \in Rebuilder
                PROVE  SkewIsFair(album, task[p].files, task[p].embeds)
    BY DEF SkewByMajority
  <2>1. task[p].files \in SUBSET Photo /\ album \in Albums
    BY DEF LibraryInv, TasksOK, Task, TablesOK
  <2>. QED
    BY <2>1, EstimateSkewIs
<1>. QED
  BY <1>1, LibraryInvHolds, PTL

\* The query for the next cluster and the place of the one before agree on one order, in
\* every table a rebuild, an eviction or a restart may leave.
THEOREM NextInvertsPrevHolds == LibrarySpec => []NextInvertsPrev
<1>1. LibraryInv => NextInvertsPrev
  BY TabledInverts DEF LibraryInv, TablesOK
<1>. QED
  BY <1>1, LibraryInvHolds, PTL

-----------------------------------------------------------------------------
(* The library page                                                        *)

PageShape ==
  page = [at |-> page.at, order |-> page.order, rejected |-> page.rejected, hide |-> page.hide,
          strips |-> page.strips, undisturbed |-> page.undisturbed]

Shown(i) == IF page.hide THEN clusters[i].members \ page.rejected ELSE clusters[i].members

Ahead(i) == \E k \in 1 .. Len(page.order) : page.order[k] = i

\* What an undisturbed page shows are clusters of the table, and what it does not show is
\* yet to be read or has nothing left to show.
PageOK ==
  page.at # "idle" /\ page.undisturbed =>
    /\ page.order \in Seq(DOMAIN clusters)
    /\ page.at \in {"states", "hide"} =>
         page.strips = {} /\ \A i \in DOMAIN clusters : Ahead(i)
    /\ page.at = "done" => page.order = <<>>
    /\ \A s \in page.strips : \E i \in DOMAIN clusters : s = <<i, Shown(i)>>
    /\ \A i \in DOMAIN clusters : Ahead(i) \/ <<i, Shown(i)>> \in page.strips \/ Shown(i) = {}

PageInv == LibraryInv /\ PageShape /\ PageOK

LEMMA InitPage == PageInit => PageInv
BY InitInv DEF PageInit, NoPage, PageInv, PageShape, PageOK

\* Beside the other steps of the server the page keeps what it has read.
LEMMA DisturbedKeeps ==
  ASSUME PageShape, PageOK, Disturbed
  PROVE  PageShape' /\ PageOK'
<1>1. CASE page' = NoPage
  BY <1>1 DEF NoPage, PageShape, PageOK
<1>2. CASE page' = [page EXCEPT !.undisturbed = IF clusters' = clusters THEN @ ELSE FALSE]
  <2>1. /\ page'.at = page.at /\ page'.order = page.order /\ page'.rejected = page.rejected
        /\ page'.hide = page.hide /\ page'.strips = page.strips
        /\ page'.undisturbed = IF clusters' = clusters THEN page.undisturbed ELSE FALSE
        /\ PageShape'
    BY <1>2 DEF PageShape
  <2>2. CASE clusters' = clusters
    BY <2>1, <2>2 DEF PageOK, Shown, Ahead
  <2>3. CASE clusters' # clusters
    BY <2>1, <2>3 DEF PageOK
  <2>. QED
    BY <2>1, <2>2, <2>3
<1>. QED
  BY <1>1, <1>2 DEF Disturbed

LEMMA OrderKeeps ==
  ASSUME TablesOK, AllOrderedRead
  PROVE  PageShape' /\ PageOK'
<1>1. /\ page'.at = "states" /\ page'.order = AllOrdered /\ page'.strips = {}
      /\ PageShape' /\ clusters' = clusters
  BY DEF AllOrderedRead, NoPage, PageShape
<1>2. AllOrdered \in Seq(DOMAIN clusters) /\ Len(AllOrdered) = Len(clusters)
  BY AllOrderedLists DEF TablesOK
<1>3. \A i \in DOMAIN clusters : \E k \in 1 .. Len(AllOrdered) : AllOrdered[k] = i
  BY <1>2, AllOrderedLists DEF TablesOK
<1>. QED
  BY <1>1, <1>2, <1>3 DEF PageOK, Ahead

LEMMA FlagsKeep ==
  ASSUME PageShape, PageOK, StateMapRead \/ HideRead \/ PageAnswered
  PROVE  PageShape' /\ PageOK'
<1>1. /\ page'.order = page.order /\ page'.strips = page.strips /\ clusters' = clusters
      /\ page'.undisturbed = page.undisturbed /\ PageShape'
  BY DEF StateMapRead, HideRead, PageAnswered, PageShape
<1>2. CASE StateMapRead
  <2>1. page.at = "states" /\ page'.at = "hide"
    BY <1>2 DEF StateMapRead, PageShape
  <2>. QED
    BY <1>1, <2>1 DEF PageOK, Ahead
<1>3. CASE HideRead
  <2>1. page.at = "hide" /\ page'.at = "members"
    BY <1>3 DEF HideRead, PageShape
  <2>. QED
    BY <1>1, <2>1 DEF PageOK, Ahead
<1>4. CASE PageAnswered
  <2>1. /\ page.at = "members" /\ page'.at = "done" /\ page.order = <<>>
        /\ page'.hide = page.hide /\ page'.rejected = page.rejected
    BY <1>4 DEF PageAnswered, PageShape
  <2>. QED
    BY <1>1, <2>1 DEF PageOK, Ahead, Shown
<1>. QED
  BY <1>2, <1>3, <1>4

LEMMA TailType ==
  ASSUME NEW D, NEW q \in Seq(D), q # <<>>
  PROVE  /\ Head(q) \in D /\ Head(q) = q[1] /\ Tail(q) \in Seq(D)
         /\ Len(q) \in Nat /\ Len(q) > 0 /\ Len(Tail(q)) = Len(q) - 1
         /\ \A k \in 1 .. Len(q) - 1 : Tail(q)[k] = q[k + 1]
OBVIOUS

LEMMA MembersKeep ==
  ASSUME PageShape, PageOK, MembersRead
  PROVE  PageShape' /\ PageOK'
<1>. DEFINE id == Head(page.order)
            shown == IF page.hide THEN Members(id) \ page.rejected ELSE Members(id)
<1>1. /\ page.at = "members" /\ page.order # <<>> /\ clusters' = clusters
      /\ page' = [page EXCEPT !.order = Tail(@),
                    !.strips = IF page.hide /\ shown = {} THEN @ ELSE @ \cup {<<id, shown>>}]
  BY DEF MembersRead
<1>. HIDE DEF id, shown
<1>2. /\ page'.at = "members" /\ page'.order = Tail(page.order)
      /\ page'.strips = (IF page.hide /\ shown = {} THEN page.strips
                         ELSE page.strips \cup {<<id, shown>>})
      /\ page'.hide = page.hide /\ page'.rejected = page.rejected
      /\ page'.undisturbed = page.undisturbed /\ PageShape'
  BY <1>1 DEF PageShape
<1>3. ASSUME page.undisturbed
      PROVE  PageOK'
  <2>1. /\ page.order \in Seq(DOMAIN clusters)
        /\ \A s \in page.strips : \E i \in DOMAIN clusters : s = <<i, Shown(i)>>
        /\ \A i \in DOMAIN clusters : Ahead(i) \/ <<i, Shown(i)>> \in page.strips \/ Shown(i) = {}
    BY <1>1, <1>3 DEF PageOK
  <2>2. /\ id \in DOMAIN clusters /\ page'.order \in Seq(DOMAIN clusters)
        /\ Len(page.order) \in Nat /\ Len(page.order) > 0
        /\ Len(page'.order) = Len(page.order) - 1 /\ id = page.order[1]
        /\ \A k \in 1 .. Len(page.order) - 1 : page'.order[k] = page.order[k + 1]
    <3>1. page.order \in Seq(DOMAIN clusters) /\ page.order # <<>>
      BY <1>1, <2>1
    <3>. QED
      BY <1>2, <3>1, TailType, Zenon DEF id
  <2>3. shown = Shown(id) /\ \A i \in DOMAIN clusters : Shown(i)' = Shown(i)
    BY <1>1, <1>2, <2>2 DEF shown, Shown, Members
  <2>4. \A s \in page'.strips : \E i \in DOMAIN clusters : s = <<i, Shown(i)>>
    BY <1>2, <2>1, <2>2, <2>3
  <2>5. ASSUME NEW i \in DOMAIN clusters, Ahead(i), i # id
        PROVE  Ahead(i)'
    <3>1. PICK k \in 1 .. Len(page.order) : page.order[k] = i
      BY <2>5 DEF Ahead
    <3>2. k - 1 \in 1 .. Len(page.order) - 1 /\ k - 1 + 1 = k
      BY <2>2, <2>5, <3>1
    <3>. QED
      BY <2>2, <3>1, <3>2 DEF Ahead
  <2>6. \A i \in DOMAIN clusters : Ahead(i)' \/ <<i, Shown(i)>> \in page'.strips \/ Shown(i) = {}
    BY <1>2, <2>1, <2>3, <2>5
  <2>. QED
    BY <1>1, <1>2, <2>2, <2>3, <2>4, <2>6 DEF PageOK
<1>4. CASE ~ page.undisturbed
  BY <1>2, <1>4 DEF PageOK
<1>. QED
  BY <1>2, <1>3, <1>4

LEMMA PageInvHolds == PageSpec => []PageInv
<1>1. ASSUME PageInv, [PageNext]_pageVars
      PROVE  PageInv'
  <2>1. CASE UNCHANGED pageVars
    <3>1. LibraryInv'
      BY <1>1, <2>1, NextKeepsInv DEF PageInv, pageVars
    <3>2. page' = page /\ clusters' = clusters
      BY <2>1 DEF pageVars
    <3>. QED
      BY <1>1, <3>1, <3>2 DEF PageInv, PageShape, PageOK, Shown, Ahead
  <2>2. CASE LibraryNext /\ Disturbed
    BY <1>1, <2>2, NextKeepsInv, DisturbedKeeps DEF PageInv
  <2>3. CASE AllOrderedRead \/ StateMapRead \/ HideRead \/ MembersRead \/ PageAnswered
    <3>1. LibraryInv'
      BY <1>1, <2>3, NextKeepsInv
         DEF PageInv, AllOrderedRead, StateMapRead, HideRead, MembersRead, PageAnswered
    <3>. QED
      BY <1>1, <2>3, <3>1, OrderKeeps, FlagsKeep, MembersKeep DEF PageInv, LibraryInv
  <2>. QED
    BY <1>1, <2>1, <2>2, <2>3 DEF PageNext
<1>2. PageInv /\ [PageNext]_pageVars => PageInv'
  BY <1>1
<1>. QED
  BY <1>2, InitPage, PTL DEF PageSpec

\* A page that no rebuild and no eviction wrote into while it was read, statement by
\* statement, shows every photo that is not to be hidden, and in one strip: whatever
\* settings requests, marks and reads of rebuilds go on meanwhile, and whatever the table
\* it has met was written by.
THEOREM OnePlaceHolds == PageSpec => []OnePlace
<1>1. PageInv => OnePlace
  <2>. SUFFICES ASSUME PageInv, page.at = "done", page.undisturbed
                PROVE  /\ NotTwice
                       /\ \A i \in DOMAIN clusters : \A f \in clusters[i].members :
                            (\E s \in page.strips : f \in s[2]) <=> ~ (page.hide /\ f \in page.rejected)
    BY DEF OnePlace
  <2>1. \A s \in page.strips : \E i \in DOMAIN clusters : s = <<i, Shown(i)>>
    BY DEF PageInv, PageOK
  <2>2. \A i \in DOMAIN clusters : <<i, Shown(i)>> \in page.strips \/ Shown(i) = {}
    BY DEF PageInv, PageOK, Ahead
  <2>3. \A i, j \in DOMAIN clusters : i # j => clusters[i].members \cap clusters[j].members = {}
    BY DEF PageInv, LibraryInv, TablesOK, Tabled
  <2>4. \A i \in DOMAIN clusters : /\ Shown(i) \subseteq clusters[i].members
                                   /\ \A f \in clusters[i].members :
                                        f \in Shown(i) <=> ~ (page.hide /\ f \in page.rejected)
    BY DEF Shown
  <2>5. NotTwice
    BY <2>1, <2>3, <2>4 DEF NotTwice
  <2>6. ASSUME NEW i \in DOMAIN clusters, NEW f \in clusters[i].members
        PROVE  (\E s \in page.strips : f \in s[2]) <=> ~ (page.hide /\ f \in page.rejected)
    <3>1. ASSUME NEW s \in page.strips, f \in s[2]
          PROVE  ~ (page.hide /\ f \in page.rejected)
      <4>1. PICK j \in DOMAIN clusters : s = <<j, Shown(j)>>
        BY <2>1
      <4>. QED
        BY <2>4, <3>1, <4>1
    <3>2. ASSUME ~ (page.hide /\ f \in page.rejected)
          PROVE  \E s \in page.strips : f \in s[2]
      <4>1. f \in Shown(i)
        BY <2>4, <3>2
      <4>2. <<i, Shown(i)>> \in page.strips
        BY <2>2, <4>1
      <4>. QED
        BY <4>1, <4>2
    <3>. QED
      BY <3>1, <3>2
  <2>. QED
    BY <2>5, <2>6
<1>. QED
  BY <1>1, PageInvHolds, PTL
=============================================================================
