------------------------------ MODULE Pipeline ------------------------------
(***************************************************************************)
(* The scan: discover -> metadata -> thumb -> analyze -> cluster           *)
(* (internal/pipeline, internal/scanner, the files rows of internal/store, *)
(* the processors of meta, thumb and ai/local), its start and its end      *)
(* (internal/cli/serve.go), and the one request that interferes with it,   *)
(* POST /api/setup/finalize.  Users edit, remove and add files all along,  *)
(* the process is interrupted or killed and started again.                 *)
(*                                                                         *)
(* A file is its row id.  What the scanner compares of a file (size, mtime *)
(* and hash) is one version number; a thumbnail, the EXIF columns and an   *)
(* embedding are the version they were made from.                          *)
(***************************************************************************)
EXTENDS Naturals, FiniteSets

CONSTANTS
  NumFiles,     \* paths under the scan root, numbered in walk order
  MaxVersion,   \* how often the content of a path may change
  Workers,      \* Workers[st]: goroutines in the pool of stage st
  BatchSize,    \* ids fetched per ListByStatus
  Bad,          \* <<st, f>>: a tool of stage st rejects the content of f
  Unreadable,   \* files the scanner cannot open
  PicksDir,     \* what the user may set picks_dir to
  Default,      \* what it is at first
  Below,        \* Below[d]: the files below d, where the walk does not go
  Matched,      \* Matched[d]: those whose path is LIKE d/%, _ and % in d being wildcards
  Budget,       \* how many moves the environment makes in all
  Faults,       \* which of "interrupt", "kill", "db" and "clip" may happen
  None

File == 1 .. NumFiles
Version == 0 .. MaxVersion
Stage == {"metadata", "thumb", "analyze"}
Status == {"none", "discovered", "metadata", "thumbed", "analyzed", "failed", "missing"}

ASSUME PipelineAssumption ==
  /\ NumFiles \in Nat /\ MaxVersion \in Nat /\ Budget \in Nat
  /\ BatchSize \in Nat \ {0}
  /\ Workers \in [Stage -> Nat \ {0}]
  /\ Bad \subseteq Stage \X File /\ Unreadable \subseteq File
  /\ Default \in PicksDir
  /\ Below \in [PicksDir -> SUBSET File] /\ Matched \in [PicksDir -> SUBSET File]
  /\ None \notin Version

VARIABLES
  \* the disk and the machine-wide state
  present,      \* the files on disk
  version,      \* the version each path has, or had last
  setting,      \* picks_dir in the configuration
  model,        \* the CLIP model is installed
  budget,       \* moves the environment has left
  \* the database; "none" in status means that there is no row
  status, hash, \* scan_status and size/mtime/content_hash of each row
  exif, thumb,  \* metadata columns, thumbs row
  embed,        \* ai_signals.clip_embedding
  clustered,    \* files that are a member of a cluster
  \* the process
  proc,         \* "down", "up" or "stopping"
  auto,         \* the goroutine of the first scan has not called Start yet
  fin,          \* the finalize handler: "idle" or "bumped"
  \* the pipeline goroutine and its pool
  pc, stage,
  picksDir,     \* of the scanner
  entries, seen,\* directory entries to visit; Scanner.seen
  before,       \* countBefore
  batch,        \* ids not yet handed to a worker
  work,         \* what a worker does with each file: "no", "taken", "written"
  analyzed,     \* the rows RebuildAll has read
  result        \* how the last run ended

disk == <<present, version>>
derived == <<exif, thumb, embed>>
rows == <<status, hash, derived, clustered>>
process == <<proc, auto, fin>>
walk == <<picksDir, entries, seen>>
pool == <<before, batch, work>>
vars == <<present, version, setting, model, budget, status, hash, exif, thumb, embed,
          clustered, proc, auto, fin, pc, stage, picksDir, entries, seen, before,
          batch, work, analyzed, result>>

\* Interrupting the process cancels the context of the run at once.
Cancelled == proc = "stopping"

\* stageStatusFrom
From(st) ==
  CASE st = "metadata" -> "discovered" [] st = "thumb" -> "metadata" [] st = "analyze" -> "thumbed"

Queue(st) == {f \in File : status[f] = From(st)}

\* ORDER BY id, with and without LIMIT.
Lowest(S, n) == {f \in S : Cardinality({g \in S : g <= f}) <= n}
First(S) == CHOOSE f \in S : \A g \in S : f <= g

Idle == pc = "idle"

Init ==
  /\ present = File /\ version = [f \in File |-> 0]
  /\ setting = Default /\ picksDir = Default /\ model = FALSE /\ budget = Budget
  /\ status = [f \in File |-> "none"]
  /\ hash = [f \in File |-> None]
  /\ exif = [f \in File |-> None]
  /\ thumb = [f \in File |-> None]
  /\ embed = [f \in File |-> None]
  /\ clustered = {}
  /\ proc = "down" /\ auto = FALSE /\ fin = "idle"
  /\ pc = "idle" /\ stage = "metadata"
  /\ entries = {} /\ seen = {} /\ analyzed = {}
  /\ before = 0 /\ batch = {} /\ work = [f \in File |-> "no"]
  /\ result = "none"

-----------------------------------------------------------------------------
(* servePipelineAdapter: Start, and the end of the goroutine it starts     *)

\* preRun hands the configured picks_dir to the scanner.
Start ==
  /\ pc' = "walk" /\ result' = "running"
  /\ picksDir' = setting

AutoStart ==
  /\ proc # "down" /\ auto /\ auto' = FALSE
  /\ IF Idle THEN Start ELSE UNCHANGED <<pc, result, picksDir>>
  /\ UNCHANGED <<disk, setting, model, budget, rows, proc, fin, stage, entries, seen,
                 pool, analyzed>>

\* The run is over and the adapter's run flag is down.
End(how) ==
  /\ pc' = "idle" /\ result' = how
  /\ stage' = "metadata" /\ entries' = {} /\ seen' = {} /\ analyzed' = {}
  /\ before' = 0 /\ batch' = {} /\ work' = [f \in File |-> "no"]
  /\ UNCHANGED <<disk, setting, model, budget, process, picksDir>>

\* Every step outside the pool looks at the context first, or passes it on; only
\* the sweep after the last directory entry does not.
GiveUp ==
  /\ Cancelled /\ pc \notin {"idle", "pool"}
  /\ pc = "visit" => entries # {}
  /\ End("cancelled") /\ UNCHANGED rows

DbFails ==
  /\ "db" \in Faults /\ pc \notin {"idle", "pool"}
  /\ End("error") /\ UNCHANGED rows

-----------------------------------------------------------------------------
(* Scanner.Walk                                                            *)

Wiped(column, evicted) == [f \in File |-> IF f \in evicted THEN None ELSE column[f]]

\* DeleteUnderPath deletes the rows that picks_dir matches, with everything that
\* cascades; then the root is read, but for the folder itself.
List ==
  /\ pc = "walk" /\ ~ Cancelled
  /\ LET evicted == Matched[picksDir]
     IN  /\ status' = [f \in File |-> IF f \in evicted THEN "none" ELSE status[f]]
         /\ hash' = Wiped(hash, evicted) /\ exif' = Wiped(exif, evicted)
         /\ thumb' = Wiped(thumb, evicted) /\ embed' = Wiped(embed, evicted)
         /\ clustered' = clustered \ evicted
  /\ entries' = present \ Below[picksDir] /\ seen' = {}
  /\ pc' = "visit"
  /\ UNCHANGED <<disk, setting, model, budget, process, stage, picksDir, pool, analyzed, result>>

\* Mutant of Upsert: a changed file keeps its status.
UpsertKeepsStatus(f) ==
  /\ hash' = [hash EXCEPT ![f] = version[f]]
  /\ status' = [status EXCEPT ![f] = IF @ = "none" THEN "discovered" ELSE @]

\* UpsertOnRescan.  What was derived from the old version stays in the row.
Upsert(f) ==
  /\ hash' = [hash EXCEPT ![f] = version[f]]
  /\ status' = [status EXCEPT ![f] = IF hash[f] = version[f] THEN @ ELSE "discovered"]

NextEntry == First(entries)

Visit ==
  /\ pc = "visit" /\ ~ Cancelled /\ entries # {}
  /\ NextEntry \in present \ Unreadable
  /\ Upsert(NextEntry)
  /\ entries' = entries \ {NextEntry} /\ seen' = seen \cup {NextEntry}
  /\ UNCHANGED <<disk, setting, model, budget, derived, clustered, process, pc, stage,
                 picksDir, pool, analyzed, result>>

\* Mutant of VisitFails: what a broken walk did not see is marked missing.
VisitFailsAndSweeps ==
  /\ pc = "visit" /\ ~ Cancelled /\ entries # {}
  /\ NextEntry \notin present \ Unreadable
  /\ status' = [f \in File |-> IF status[f] # "none" /\ f \notin seen THEN "missing"
                               ELSE status[f]]
  /\ End("unreadable") /\ UNCHANGED <<hash, derived, clustered>>

\* A file that vanished or cannot be opened ends the walk, and the run.
VisitFails ==
  /\ pc = "visit" /\ ~ Cancelled /\ entries # {}
  /\ NextEntry \notin present \ Unreadable
  /\ End("unreadable") /\ UNCHANGED rows

\* MarkMissingExcept; the walk is complete.
Sweep ==
  /\ pc = "visit" /\ entries = {}
  /\ status' = [f \in File |-> IF status[f] # "none" /\ f \notin seen THEN "missing"
                               ELSE status[f]]
  /\ seen' = {}
  /\ pc' = "count"
  /\ UNCHANGED <<disk, setting, model, budget, hash, derived, clustered, process, stage,
                 picksDir, entries, pool, analyzed, result>>

-----------------------------------------------------------------------------
(* runStage: one turn of its loop is count, fetch, pool, recount           *)

Count ==
  /\ pc = "count" /\ ~ Cancelled
  /\ before' = Cardinality(Queue(stage))
  /\ pc' = "fetch"
  /\ UNCHANGED <<disk, setting, model, budget, rows, process, stage, walk, batch, work,
                 analyzed, result>>

Fetch ==
  /\ pc = "fetch" /\ ~ Cancelled /\ Queue(stage) # {}
  /\ batch' = Lowest(Queue(stage), BatchSize)
  /\ pc' = "pool"
  /\ UNCHANGED <<disk, setting, model, budget, rows, process, stage, walk, before, work,
                 analyzed, result>>

\* The queue is empty: the next stage, or the cluster stage.
Drain ==
  /\ pc = "fetch" /\ ~ Cancelled /\ Queue(stage) = {}
  /\ stage' = CASE stage = "metadata" -> "thumb" [] OTHER -> "analyze"
  /\ pc' = IF stage = "analyze" THEN "group" ELSE "count"
  /\ before' = 0
  /\ UNCHANGED <<disk, setting, model, budget, rows, process, walk, batch, work, analyzed,
                 result>>

\* Mutants of Recount: the loop goes on without progress; it ends after a batch.
RecountAnyway ==
  /\ pc = "recount" /\ ~ Cancelled
  /\ pc' = "count" /\ before' = 0
  /\ UNCHANGED <<disk, setting, model, budget, rows, process, stage, walk, batch, work,
                 analyzed, result>>

RecountMovesOn ==
  /\ pc = "recount" /\ ~ Cancelled
  /\ Cardinality(Queue(stage)) < before
  /\ stage' = CASE stage = "metadata" -> "thumb" [] OTHER -> "analyze"
  /\ pc' = IF stage = "analyze" THEN "group" ELSE "count"
  /\ before' = 0
  /\ UNCHANGED <<disk, setting, model, budget, rows, process, walk, batch, work, analyzed,
                 result>>

\* The no-progress guard.
Recount ==
  /\ pc = "recount" /\ ~ Cancelled
  /\ Cardinality(Queue(stage)) < before
  /\ pc' = "count" /\ before' = 0
  /\ UNCHANGED <<disk, setting, model, budget, rows, process, stage, walk, batch, work,
                 analyzed, result>>

Stuck ==
  /\ pc = "recount" /\ ~ Cancelled
  /\ Cardinality(Queue(stage)) >= before
  /\ End("stuck") /\ UNCHANGED rows

-----------------------------------------------------------------------------
(* RunPool, and what a worker does with one file                           *)

Working == {f \in File : work[f] # "no"}

\* A worker receives the next id.  With the context cancelled it may still:
\* select takes either ready case.
Take ==
  /\ pc = "pool" /\ batch # {}
  /\ Cardinality(Working) < Workers[stage]
  /\ work' = [work EXCEPT ![First(batch)] = "taken"]
  /\ batch' = batch \ {First(batch)}
  /\ UNCHANGED <<disk, setting, model, budget, rows, process, pc, stage, walk, before,
                 analyzed, result>>

PoolEnds ==
  /\ pc = "pool" /\ batch = {} /\ Working = {}
  /\ pc' = "recount"
  /\ UNCHANGED <<disk, setting, model, budget, rows, process, stage, walk, pool, analyzed,
                 result>>

PoolCancelled ==
  /\ pc = "pool" /\ Cancelled /\ Working = {}
  /\ End("cancelled") /\ UNCHANGED rows

Does(f, st, phase) == pc = "pool" /\ stage = st /\ work[f] = phase
Advance(f, phase) == work' = [work EXCEPT ![f] = phase]
SetStatus(f, s) == status' = [status EXCEPT ![f] = s]
Readable(f) == f \in present /\ <<stage, f>> \notin Bad
OutsidePool == <<disk, setting, model, budget, process, pc, stage, walk, before, batch,
                 analyzed, result>>

\* Extractor.Process: one transaction, refused once the context is cancelled.
ReadExif(f) ==
  /\ Does(f, "metadata", "taken") /\ Readable(f) /\ ~ Cancelled
  /\ exif' = [exif EXCEPT ![f] = version[f]]
  /\ SetStatus(f, "metadata") /\ Advance(f, "no")
  /\ UNCHANGED <<OutsidePool, hash, thumb, embed, clustered>>

\* Builder.Build: the thumbs rows first, the status after them.
BuildThumb(f) ==
  /\ Does(f, "thumb", "taken") /\ Readable(f)
  /\ thumb' = [thumb EXCEPT ![f] = version[f]]
  /\ Advance(f, "written")
  /\ UNCHANGED <<OutsidePool, status, hash, exif, embed, clustered>>

\* Analyzer.Analyze: the ai_signals row is replaced, with a NULL embedding when
\* there is no model or it fails; the status follows.
Embed(f) ==
  /\ Does(f, "analyze", "taken") /\ <<stage, f>> \notin Bad
  /\ \/ model /\ embed' = [embed EXCEPT ![f] = thumb[f]]
     \/ (~ model \/ "clip" \in Faults) /\ embed' = [embed EXCEPT ![f] = None]
  /\ Advance(f, "written")
  /\ UNCHANGED <<OutsidePool, status, hash, exif, thumb, clustered>>

MarkDone(f) ==
  /\ \/ Does(f, "thumb", "written") /\ SetStatus(f, "thumbed")
     \/ Does(f, "analyze", "written") /\ SetStatus(f, "analyzed")
  /\ Advance(f, "no")
  /\ UNCHANGED <<OutsidePool, hash, derived, clustered>>

\* The item fails and its row says so: a tool rejects it, a statement fails, or
\* the context is cancelled while its thumbnail is made.  The metadata stage
\* records a failure under the run's context, so not after a cancel.
Fails(f) ==
  /\ pc = "pool" /\ work[f] = "taken"
  /\ \/ <<stage, f>> \in Bad
     \/ stage # "analyze" /\ f \notin present
     \/ stage = "thumb" /\ Cancelled
     \/ "db" \in Faults
  /\ ~ (stage = "metadata" /\ Cancelled)
  /\ SetStatus(f, "failed") /\ Advance(f, "no")
  /\ UNCHANGED <<OutsidePool, hash, derived, clustered>>

\* The item fails and its row stays as it is.
Skip(f) ==
  /\ pc = "pool" /\ work[f] # "no"
  /\ \/ "db" \in Faults
     \/ Cancelled /\ stage # "thumb" /\ work[f] = "taken"
  /\ Advance(f, "no")
  /\ UNCHANGED <<OutsidePool, rows>>

Process(f) ==
  ReadExif(f) \/ BuildThumb(f) \/ Embed(f) \/ MarkDone(f) \/ Fails(f) \/ Skip(f)

-----------------------------------------------------------------------------
(* Grouper.RebuildAll: reads, computes, then replaces all clusters at once *)

Group ==
  /\ pc = "group" /\ ~ Cancelled
  /\ analyzed' = {f \in File : status[f] = "analyzed"}
  /\ pc' = "write"
  /\ UNCHANGED <<disk, setting, model, budget, rows, process, stage, walk, pool, result>>

\* Mutant of WriteClusters: the old clusters are not deleted.
AddClusters ==
  /\ pc = "write" /\ ~ Cancelled
  /\ clustered' = clustered \cup analyzed
  /\ End("ok") /\ UNCHANGED <<status, hash, derived>>

WriteClusters ==
  /\ pc = "write" /\ ~ Cancelled
  /\ clustered' = analyzed
  /\ End("ok") /\ UNCHANGED <<status, hash, derived>>

-----------------------------------------------------------------------------
(* handleSetupFinalize: BumpAnalyzedMissingEmbedding, then Start unless a  *)
(* run is going on.  The wizard sends it once the model is installed.      *)

\* Mutant of Bump: the rows are set to a status no stage consumes.
BumpToThumb ==
  /\ proc = "up" /\ fin = "idle" /\ model /\ budget > 0 /\ budget' = budget - 1
  /\ status' = [f \in File |-> IF status[f] = "analyzed" /\ embed[f] = None THEN "thumb"
                               ELSE status[f]]
  /\ fin' = "bumped"
  /\ UNCHANGED <<disk, setting, model, hash, derived, clustered, proc, auto, pc, stage,
                 walk, pool, analyzed, result>>

Bump ==
  /\ proc = "up" /\ fin = "idle" /\ model /\ budget > 0 /\ budget' = budget - 1
  /\ status' = [f \in File |-> IF status[f] = "analyzed" /\ embed[f] = None THEN "thumbed"
                               ELSE status[f]]
  /\ fin' = "bumped"
  /\ UNCHANGED <<disk, setting, model, hash, derived, clustered, proc, auto, pc, stage,
                 walk, pool, analyzed, result>>

FinalizeStart ==
  /\ fin = "bumped" /\ fin' = "idle"
  /\ IF Idle THEN Start ELSE UNCHANGED <<pc, result, picksDir>>
  /\ UNCHANGED <<disk, setting, model, budget, rows, proc, auto, stage, entries, seen,
                 pool, analyzed>>

-----------------------------------------------------------------------------
(* The environment                                                         *)

Move == budget > 0 /\ budget' = budget - 1
OnlyDisk == <<setting, model, rows, process, pc, stage, walk, pool, analyzed, result>>

\* A file is edited, or another one appears under its name.
Edit(f) ==
  /\ Move /\ version[f] < MaxVersion
  /\ version' = [version EXCEPT ![f] = @ + 1] /\ present' = present \cup {f}
  /\ UNCHANGED OnlyDisk

Delete(f) ==
  /\ Move /\ f \in present
  /\ present' = present \ {f}
  /\ UNCHANGED <<version, OnlyDisk>>

InstallModel ==
  /\ ~ model /\ model' = TRUE
  /\ UNCHANGED <<disk, setting, budget, rows, process, pc, stage, walk, pool, analyzed,
                 result>>

SetPicksDir(d) ==
  /\ Move /\ d # setting /\ setting' = d
  /\ UNCHANGED <<disk, model, rows, process, pc, stage, walk, pool, analyzed, result>>

\* runServe starts the first scan by itself.
Boot ==
  /\ proc = "down" /\ proc' = "up" /\ auto' = TRUE
  /\ UNCHANGED <<disk, setting, model, budget, rows, fin, pc, stage, walk, pool, analyzed,
                 result>>

\* Ctrl-C, or nobody sent a request for a while.
Interrupt ==
  /\ "interrupt" \in Faults /\ Move
  /\ proc = "up" /\ proc' = "stopping"
  /\ UNCHANGED <<disk, setting, model, rows, auto, fin, pc, stage, walk, pool, analyzed,
                 result>>

Gone == proc' = "down" /\ auto' = FALSE /\ fin' = "idle"

\* Wait has returned.
Exit ==
  /\ Cancelled /\ Idle /\ Gone
  /\ result' = "none"
  /\ UNCHANGED <<disk, setting, model, budget, rows, pc, stage, walk, pool, analyzed>>

\* The process dies; what was committed stays.
Kill ==
  /\ "kill" \in Faults /\ Move /\ proc # "down" /\ Gone
  /\ pc' = "idle" /\ result' = "none"
  /\ stage' = "metadata" /\ entries' = {} /\ seen' = {} /\ analyzed' = {}
  /\ before' = 0 /\ batch' = {} /\ work' = [f \in File |-> "no"]
  /\ UNCHANGED <<disk, setting, model, rows, picksDir>>

Run ==
  \/ GiveUp \/ DbFails \/ List \/ Visit \/ VisitFails \/ Sweep
  \/ Count \/ Fetch \/ Drain \/ Recount \/ Stuck
  \/ Take \/ PoolEnds \/ PoolCancelled
  \/ Group \/ WriteClusters

System ==
  Run \/ (\E f \in File : Process(f)) \/ AutoStart \/ FinalizeStart \/ Exit

Environment ==
  \/ \E f \in File : Edit(f) \/ Delete(f)
  \/ \E d \in PicksDir : SetPicksDir(d)
  \/ InstallModel \/ Boot \/ Bump \/ Interrupt \/ Kill

Next == System \/ Environment

\* A goroutine that can run is run, and the external tools return; users need
\* not do anything, and need not start the program again.
Fairness ==
  /\ WF_vars(Run) /\ \A f \in File : WF_vars(Process(f))
  /\ WF_vars(AutoStart) /\ WF_vars(FinalizeStart) /\ WF_vars(Exit)

Spec == Init /\ [][Next]_vars /\ Fairness

-----------------------------------------------------------------------------
(* Properties                                                              *)

TypeOK ==
  /\ present \subseteq File /\ version \in [File -> Version]
  /\ setting \in PicksDir /\ picksDir \in PicksDir /\ model \in BOOLEAN /\ budget \in 0 .. Budget
  /\ status \in [File -> Status]
  /\ hash \in [File -> Version \cup {None}]
  /\ exif \in [File -> Version \cup {None}]
  /\ thumb \in [File -> Version \cup {None}]
  /\ embed \in [File -> Version \cup {None}]
  /\ clustered \subseteq File /\ analyzed \subseteq File
  /\ proc \in {"down", "up", "stopping"} /\ auto \in BOOLEAN /\ fin \in {"idle", "bumped"}
  /\ pc \in {"idle", "walk", "visit", "count", "fetch", "pool", "recount", "group", "write"}
  /\ stage \in Stage
  /\ entries \subseteq File /\ seen \subseteq File
  /\ before \in 0 .. NumFiles
  /\ batch \subseteq File
  /\ work \in [File -> {"no", "taken", "written"}]
  /\ result \in {"none", "running", "ok", "cancelled", "unreadable", "stuck", "error"}

\* The row of f describes the file that is on disk now.
UpToDate(f) == f \in present /\ hash[f] = version[f]

\* What a row carries fits the file it describes, whatever was edited between
\* two stages and wherever a run broke off: UpsertOnRescan's reset of the status
\* together with the order of the stages.
Fresh ==
  \A f \in File : UpToDate(f) =>
    /\ status[f] \in {"metadata", "thumbed", "analyzed"} => exif[f] = hash[f]
    /\ status[f] \in {"thumbed", "analyzed"} => thumb[f] = hash[f]
    /\ status[f] = "analyzed" => embed[f] \in {None, hash[f]}

\* A run that succeeds leaves nothing behind that it should have processed; the
\* rows at "thumbed" are those a finalize request put there meanwhile.
Drained ==
  (Idle /\ result = "ok") =>
    \A f \in File : /\ status[f] \notin {"discovered", "metadata"}
                    /\ status[f] = "thumbed" => embed[f] = None

\* After a successful run the library shows every analyzed file, and nothing
\* that is missing, failed or below picks_dir.
LibraryUpToDate ==
  (Idle /\ result = "ok") =>
    /\ {f \in File : status[f] = "analyzed"} \subseteq clustered
    /\ \A f \in clustered : status[f] \in {"analyzed", "thumbed"}

Complete(f) == UpToDate(f) /\ status[f] = "analyzed" /\ embed[f] = version[f]

Stays(f) == status'[f] = "analyzed" /\ thumb'[f] = thumb[f] /\ embed'[f] = embed[f]

\* Once a file is analyzed with an embedding, no restart, interrupted walk, finalize
\* request or change of another file processes it again (files.go:288-292), unless it
\* is below picks_dir or picks_dir matches it as a pattern.
UnchangedStayDone ==
  [][\A f \in File : Complete(f) /\ f \notin Below[picksDir] \cup Matched[picksDir] => Stays(f)]_vars

\* Without that exception: "Idempotent. Running `choix .` twice is a no-op for unchanged
\* files" (README.md:113).
Idempotent == [][\A f \in File : Complete(f) /\ f \notin Below[picksDir] => Stays(f)]_vars

\* A run comes to an end, even when items fail without leaving their queue.
RunEnds == ~ Idle ~> Idle

\* "Completed work is durable; the next run picks up where this one stopped":
\* only a file a tool rejects, or that was gone, ends up failed.
OnlyBadFilesFail ==
  \A f \in File : (status[f] = "failed" /\ UpToDate(f)) => \E st \in Stage : <<st, f>> \in Bad

\* "Per-file failures are isolated": no file makes the whole run fail (does not hold,
\* pipeline_unreadable.cfg; README.md:111).
RunSurvivesBadFiles == result # "unreadable"

\* "We bump every analyzed row whose clip_embedding is NULL so the analyze stage
\* picks them up, then start the pipeline": after a finalize request every file
\* gets its embedding, unless a tool rejects it.
FinalizeEmbeds ==
  (fin = "bumped") ~>
    (\A f \in present : (\A st \in Stage : <<st, f>> \notin Bad) => Complete(f))
=============================================================================
