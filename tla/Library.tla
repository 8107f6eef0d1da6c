------------------------------- MODULE Library -------------------------------
(***************************************************************************)
(* The clusters of a folder and everything that reads or rebuilds them:    *)
(* the cluster stage of the scan, POST /api/recluster, POST /api/settings  *)
(* (internal/server), the clusters tables (internal/store) and the views   *)
(* the browser asks for.  A rebuild reads the analyzed rows and the        *)
(* embeddings in two statements and replaces the tables in a transaction;  *)
(* several rebuilds, the analyze stage and the users go on side by side.   *)
(***************************************************************************)
EXTENDS GroupingReference, Settings

CONSTANTS
  Under,     \* Under[dir]: the photos below that picks_dir, which the walk skips
  Matched,   \* Matched[dir]: those whose path is LIKE dir/%, _ and % in dir being wildcards
  Scenarios  \* how the folder may be at first

Scan == "scan"
Rebuilder == Client \cup {Scan}

ASSUME LibraryAssumption ==
  /\ Scan \notin Client
  /\ \A cfg \in Configs : Under[cfg.dir] \subseteq Matched[cfg.dir]
  /\ \A s \in Scenarios : /\ s.moves \in Nat /\ s.albums \subseteq Albums
                         /\ s.analyzed \subseteq SUBSET Photo
                         /\ s.embedded \subseteq SUBSET Photo

VARIABLES
  album,     \* device, capture time and likeness of the photos
  rows,      \* photos that have a row
  analyzed,  \* rows with scan_status analyzed
  embedded,  \* rows of ai_signals with an embedding
  rejected,  \* picks rows that say rejected
  clusters,  \* the clusters and cluster_members tables; the index is the id
  scan,      \* the scan up to its cluster stage: "idle", "ready", "working"
  task,      \* for each rebuilder: its Grouper and what RebuildAll has read
  renewed    \* rebuilders that have read a row that has come back under another id

tables == <<rows, analyzed, embedded, rejected, clusters>>
vars == <<settings, moves, album, tables, scan, task, renewed>>

NoTask == [at |-> "idle", cfg |-> Defaults, files |-> {}, embeds |-> {}]
AtWork(p) == task[p].at # "idle"

LibraryInit ==
  /\ SettingsInit
  /\ \E s \in Scenarios :
       /\ album \in s.albums /\ rejected \in s.rejected /\ moves = s.moves
       /\ rows = Photo /\ analyzed \in s.analyzed /\ embedded \in s.embedded
       /\ file \in s.configs /\ kv \in s.kv
  /\ clusters = <<>>
  /\ scan = "idle" /\ task = [p \in Rebuilder |-> NoTask] /\ renewed = {}

-----------------------------------------------------------------------------
(* The configuration, the process, and the scan up to its cluster stage    *)

\* Module Settings; runServe starts the first scan once the server is up.
Configure ==
  /\ SettingsStep
  /\ scan' = IF proc # "up" /\ proc' = "up" THEN "ready" ELSE scan
  /\ UNCHANGED <<album, tables, task, renewed>>

Stop ==
  /\ Exit
  /\ scan' = "idle" /\ task' = [p \in Rebuilder |-> NoTask] /\ renewed' = {}
  /\ UNCHANGED <<album, tables>>

\* preRun: picks_dir as it is now, or as it was when the file cannot be read.
ScanDir == IF Loads THEN Effective(Loaded).dir ELSE started.dir

\* The walk deletes the rows that picks_dir matches, and with them their members,
\* embeddings and picks rows; it then inserts those it finds no row of, under a new
\* id or the old one, and sends a changed file through the stages again, its
\* embedding still there.
ScanStarts ==
  /\ scan = "ready" /\ proc = "up" /\ scan' = "working"
  /\ LET evicted == Matched[ScanDir]
         inserted == (Photo \ Under[ScanDir]) \ (rows \ evicted)
     IN  /\ rows' = Photo \ Under[ScanDir]
         /\ \E changed \in {{}} \cup {{f} : f \in analyzed} :
              /\ analyzed' = analyzed \ (evicted \cup changed)
              /\ moves' = IF changed = {} THEN moves ELSE moves - 1
         /\ moves' >= 0
         /\ embedded' = embedded \ evicted /\ rejected' = rejected \ evicted
         /\ clusters' = [i \in DOMAIN clusters |-> [clusters[i] EXCEPT !.members = @ \ evicted]]
         /\ \E new \in SUBSET inserted :
              renewed' = renewed \cup {p \in Rebuilder : task[p].files \cap new # {}}
  /\ UNCHANGED <<settings, album, task>>

Analyze(f) ==
  /\ scan = "working" /\ f \in rows \ analyzed
  /\ analyzed' = analyzed \cup {f}
  /\ embedded' \in {embedded \cup {f}, embedded \ {f}}
  /\ UNCHANGED <<settings, moves, album, rows, rejected, clusters, scan, task, renewed>>

\* POST /api/setup/finalize; a running pipeline is left alone.
Finalize ==
  /\ proc = "up" /\ moves > 0 /\ moves' = moves - 1
  /\ analyzed' = analyzed \cap embedded
  /\ scan' = IF scan = "idle" /\ ~ AtWork(Scan) THEN "ready" ELSE scan
  /\ UNCHANGED <<settings, album, rows, embedded, rejected, clusters, task, renewed>>

-----------------------------------------------------------------------------
(* Rebuilding                                                              *)

Begin(p, cfg) == task' = [task EXCEPT ![p] = [NoTask EXCEPT !.at = "files", !.cfg = cfg]]

\* The scan keeps the Grouper it was built with.  Files that are not analyzed by
\* now have failed.
ClusterStage ==
  /\ scan = "working"
  /\ scan' = "idle" /\ Begin(Scan, started)
  /\ UNCHANGED <<settings, moves, album, tables, renewed>>

handleReclusterPost(c) ==
  /\ Ask(c)
  /\ UNCHANGED <<album, tables, scan, task, renewed>>

\* Mutant of recluster: with the configuration of the scan's Grouper.
reclusterAsStarted(c) ==
  /\ Handles(c, "regroup") /\ ~ AtWork(c)
  /\ Begin(c, started)
  /\ UNCHANGED <<settings, moves, album, tables, scan, renewed>>

recluster(c) ==
  /\ Handles(c, "regroup") /\ ~ AtWork(c)
  /\ Begin(c, live)
  /\ UNCHANGED <<settings, moves, album, tables, scan, renewed>>

\* ListAllAnalyzed; without any file the tables are emptied at once.
ReadFiles(p) ==
  /\ task[p].at = "files"
  /\ task' = [task EXCEPT ![p].files = analyzed,
                          ![p].at = IF analyzed = {} THEN "write" ELSE "embeds"]
  /\ UNCHANGED <<settings, moves, album, tables, scan, renewed>>

\* AllEmbeddings
ReadEmbeds(p) ==
  /\ task[p].at = "embeds"
  /\ task' = [task EXCEPT ![p].embeds = embedded, ![p].at = "write"]
  /\ UNCHANGED <<settings, moves, album, tables, scan, renewed>>

\* The rebuild is over, and so is the request it belongs to.
Over(p) ==
  /\ task' = [task EXCEPT ![p] = NoTask] /\ renewed' = renewed \ {p}
  /\ IF p = Scan THEN UNCHANGED settings ELSE Answer(p)

Grouped(p) == RebuildAll(album, task[p].files, task[p].embeds, task[p].cfg)

\* What has been read has its rows yet, so that every member has one.
HasRows(p) == task[p].files \subseteq rows /\ p \notin renewed

\* Mutant of Write: a member need not have a row (foreign keys are off).
WriteUnchecked(p) ==
  /\ task[p].at = "write"
  /\ clusters' = Grouped(p)
  /\ Over(p)
  /\ UNCHANGED <<moves, album, rows, analyzed, embedded, rejected, scan>>

\* WriteClusters.  Ids begin at 1 again.
Write(p) ==
  /\ task[p].at = "write" /\ HasRows(p)
  /\ clusters' = Grouped(p)
  /\ Over(p)
  /\ UNCHANGED <<moves, album, rows, analyzed, embedded, rejected, scan>>

\* A statement fails, as the insert of a member without a row does, or the context of
\* the request or of the run is cancelled; the transaction is rolled back.
WriteFails(p) ==
  /\ AtWork(p)
  /\ Over(p)
  /\ UNCHANGED <<moves, album, tables, scan>>

LibraryNext ==
  \/ Configure \/ Stop \/ ScanStarts \/ Finalize \/ ClusterStage
  \/ \E f \in Photo : Analyze(f)
  \/ \E c \in Client : handleReclusterPost(c) \/ recluster(c)
  \/ \E p \in Rebuilder : ReadFiles(p) \/ ReadEmbeds(p) \/ Write(p) \/ WriteFails(p)

LibrarySpec == LibraryInit /\ [][LibraryNext]_vars

-----------------------------------------------------------------------------
(* The order of the clusters, GET /api/clusters/{id}                       *)

Before(i, j) ==
  LET c == clusters[i]
      d == clusters[j]
  IN  \/ c.device < d.device
      \/ c.device = d.device /\ c.bucket # None /\ d.bucket = None
      \/ c.device = d.device /\ c.bucket # None /\ d.bucket # None /\ c.bucket < d.bucket
      \/ c.device = d.device /\ c.bucket = d.bucket /\ i < j

AllOrdered ==
  LET ids == DOMAIN clusters
  IN  Sorted(ids, {p \in ids \X ids : Before(p[1], p[2])})

\* ORDER BY ... LIMIT 1; 0 is ErrNotFound.
FirstRow(S) == IF S = {} THEN 0 ELSE CHOOSE i \in S : \A j \in S \ {i} : Before(i, j)

\* Mutant of NextAfter: in a bucket with a time, NULL is not counted as later.
NextAfterSkipsNull(i) ==
  LET c == clusters[i]
      later == {j \in DOMAIN clusters :
                  LET d == clusters[j]
                  IN  \/ d.device > c.device
                      \/ d.device = c.device /\ c.bucket = None /\ j > i
                      \/ /\ d.device = c.device /\ c.bucket # None /\ d.bucket # None
                         /\ (d.bucket > c.bucket \/ (d.bucket = c.bucket /\ j > i))}
  IN  FirstRow(later)

\* The WHERE clauses of NextAfter.
NextAfter(i) ==
  LET c == clusters[i]
      later == {j \in DOMAIN clusters :
                  LET d == clusters[j]
                  IN  \/ d.device > c.device
                      \/ d.device = c.device /\ c.bucket = None /\ j > i
                      \/ d.device = c.device /\ c.bucket # None /\ d.bucket = None
                      \/ /\ d.device = c.device /\ c.bucket # None /\ d.bucket # None
                         /\ (d.bucket > c.bucket \/ (d.bucket = c.bucket /\ j > i))}
  IN  FirstRow(later)

\* handleClusterJSON finds the one before by position.
PrevOf(i) ==
  LET at == SelectInSeq(AllOrdered, LAMBDA j : j = i)
  IN  IF at = 1 THEN 0 ELSE AllOrdered[at - 1]

-----------------------------------------------------------------------------
(* Properties                                                              *)

LibraryTypeOK ==
  /\ SettingsTypeOK /\ moves \in Nat
  /\ rows \subseteq Photo /\ analyzed \subseteq rows /\ embedded \subseteq rows
  /\ \A i \in DOMAIN clusters : clusters[i].members \subseteq rows
  /\ scan \in {"idle", "ready", "working"} /\ renewed \subseteq Rebuilder
  /\ \A p \in Rebuilder : task[p].at \in {"idle", "files", "embeds", "write"}

\* What a rebuild writes is what its reads and settings ask for: photos are
\* together when a chain of gaps of at most the bucket size joins them, and
\* within that a chain of likenesses above the threshold; cameras are merged only
\* on embeddings (group.go:93-113).
GroupedByScene ==
  [][\A p \in Rebuilder : Write(p) =>
       GroupsAreScenes(clusters', album, task[p].files, task[p].embeds, task[p].cfg)]_vars

\* The clock of a camera is moved by what most anchors say (skew.go:40-45).
SkewByMajority ==
  \A p \in Rebuilder : task[p].at = "write" => SkewIsFair(album, task[p].files, task[p].embeds)

\* Going to the next cluster until there is none visits the order of the library
\* page, and going back undoes it, although one is a query and the other a position
\* in a list (clusters_web.go:74-75, library.go:188-197).
NextInvertsPrev ==
  \A i \in DOMAIN clusters :
    /\ NextAfter(i) # 0 => PrevOf(NextAfter(i)) = i
    /\ NextAfter(i) = 0 => AllOrdered[Len(AllOrdered)] = i

BySaved(p) == \A field \in Clustering : task[p].cfg[field] = Loaded[field]

\* A request that no settings request met leaves the library grouped by the settings
\* in the file, so after a change that was just saved by the new ones, whatever other
\* rebuilds are under way: unless two settings requests met before, and none has gone
\* through alone since (recluster.go:15-18, "so the operation reflects whatever the
\* user just changed in Settings").
SavedChangeShows ==
  [][\A c \in alone : Write(c) /\ "live" \notin spoiled => BySaved(c)]_vars

\* What these words say without the exception (does not hold, library_tabs).
RegroupsBySaved == [][\A c \in alone : Write(c) => BySaved(c)]_vars

\* The same of the scan, when nothing but the file sets the fields (does not hold,
\* library_reverted.cfg; serve.go:245-247, "so the auto-triggered first scan uses what
\* the user last saved in Settings").
ScansBySaved == [][Write(Scan) /\ (\A c \in Client : ~ Saving(c)) => BySaved(Scan)]_vars

\* A rebuild takes no photo that is analyzed out of the clusters (does not hold,
\* library_overtaken.cfg; recluster.go:13-14, "recluster rebuilds every (device,
\* time-bucket) cluster from the current analyzed files. It's safe to call at any time").
InClusters(f) == \E i \in DOMAIN clusters : f \in clusters[i].members
RebuildsFromCurrent ==
  [][\A p \in Rebuilder : Write(p) => \A f \in analyzed : InClusters(f) => InClusters(f)']_vars

\* When the server answers from the configuration in the file, a scan leaves out what
\* lies below the folder that picks are copied to (does not hold, library_override.cfg;
\* scanner.go:48-50, "This must match the picks_dir resolved from the per-folder KV /
\* config.toml, otherwise files copied into the picks dir would get re-indexed").
ScanSkipsExports ==
  [][ScanStarts /\ live = Loaded => rows' \cap Under[live.dir] = {}]_vars
=============================================================================
