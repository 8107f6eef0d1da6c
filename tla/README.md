# choix in TLA+

choix scans a folder of photos and videos, groups what looks alike and lets
the user pick or reject in the browser; picks are copied into a folder of
their own. This directory holds TLA+ specifications of the parts of the
program whose correctness depends on order, interleaving, failure and restart,
the TLC configurations that check them on small instances, and proofs that
TLAPS checks for every instance. Paths below are relative to the repository
(`src/`).

## The system

| Part | Code | State it keeps | Operations |
|---|---|---|---|
| Picks service | `internal/picks`, `internal/store/picks.go`, `internal/server/picks.go` | `picks` table, the picks folder | pick, unpick, reject, unreject |
| Scanner | `internal/scanner` | `files` rows, the set of files seen | walk: evict, upsert, mark missing |
| Pipeline | `internal/pipeline` | `scan_status` of each file, the stage at work | run: discover, metadata, thumb, analyze, cluster |
| Workers | `internal/meta`, `internal/thumb`, `internal/ai/local` | EXIF columns, `thumbs`, `ai_signals` | process one file |
| Grouper | `internal/group`, `internal/store/clusters_write.go` | `clusters`, `cluster_members` | rebuild all |
| Serve command | `internal/cli/serve.go` | the run flag, the context of the run | first scan, start, stop, wait, close |
| Finalize | `internal/server/setup.go` | none | rewind files without embedding, start a run |
| Settings | `internal/server/settings.go`, `settings_migration.go`, `internal/config` | `config.toml`, the live copy, the copy of the scan, legacy rows of `kv` | migrate, load, change, save, reload, recluster |
| Recluster | `internal/server/recluster.go` | none | rebuild all with the live settings |
| Library, thumbnails, full-size pictures | `internal/server/library.go`, `thumb.go`, `full.go` | cached JPEGs | read; convert once on demand |
| Model installer | `internal/ai/local/install.go`, `models.go`, `internal/firstrun` | model files | download, verify, rename |
| Progress | `internal/pipeline/progress.go`, `internal/server/progress.go` | a bounded channel, a replay buffer | update, forward |
| Server life cycle | `internal/server/server.go` | time of the last request | idle shutdown, forced close |

**How they interact.** Everything durable is in one SQLite database with a
single connection and in files next to it. HTTP handlers run in goroutines of
their own and the scan in another one; they meet in the tables, in the picks
folder, in the configuration and in the run flag of the serve adapter. No lock
spans two statements. The pipeline hands files from stage to stage only by
`scan_status`: each stage takes the rows at its input status and its workers
move them on. The scanner must skip the folder the picks service exports to,
which it learns from the configuration at the start of each run.

**What is hard.** A pick is five durable steps (row, temporary file, copy,
rename, path in the row) that may fail or be cut off anywhere, while another
request does the same for another file whose candidate names overlap. A scan
takes minutes while files are edited, the process is interrupted, and the
wizard rewinds rows under the running stages. Restarting is the only recovery,
so what a broken run leaves in the tables must be what the next run needs. The
complete list, with the line where each one bites and the property that would
catch it, is `hazards` in `PROJECT.json`.

**What makes the parts correct.**

- Picks: the row and the folder agree whenever no request is at work on the
  file; answers are true; no half file, no orphan, no second copy; originals
  and files of the user's are never touched.
- Pipeline and scanner: a row never carries results made from another content;
  a successful run leaves nothing unprocessed; unchanged files are not
  processed again; every run ends; a broken walk does not hide files; failures
  stay with the file that caused them.
- Grouper: the buckets and visual groups of a rebuild are what their definitions
  say of the rows it has read; every member has a row. A slower rebuild may put
  back what it read before a faster one wrote, and does (`library_overtaken`).
- Settings and recluster: the configuration file is whole, the server answers
  from what is in it, the upgrade loses no setting, and a recluster request
  groups by what is in the file. All that is true of requests that do not meet:
  handlers hold no lock, and when two settings requests meet, the file may be
  torn (`settings_torn`) and the server may go on with an older
  configuration (`library_tabs`), until one goes through alone or a restart.
- Serve command: one run at a time; the analyzer is not closed under a worker.
- Installer, progress, picture cache: only a verified file gets the final name;
  the last event of a run arrives; a request for a picture is not answered from a file
  that is being written, and shares one conversion with the others.

## Modules

| Module | Role |
|---|---|
| `Picks` | the picks service, its handlers, the picks table and the files it touches |
| `PickBook` | what the service promises: an abstract specification |
| `PicksRefinement` | the mapping under which `Picks` implements `PickBook` |
| `Pipeline` | the scan, the scanner, the workers, start and stop, finalize |
| `Grouping` | how the library is cut into clusters: operators, no state |
| `GroupingReference` | what the grouping promises, without its algorithms |
| `Settings` | `config.toml` and the calls that save it, its copies, the migration, the settings handler |
| `Library` | extends `GroupingReference` and `Settings`: the clusters tables, everything that rebuilds them, the order of the views |
| `LibraryPage` | extends `Library`: `GET /api/library`, statement by statement |
| `Progress` | the channel of a run and the pump to the browser |
| `Lifecycle` | extends `Progress`: runs, signals, idle stop, shutdown, the CLIP session |
| `Pictures` | `GET /full/`: shared conversion, slots, cached JPEG |
| `Installer` | the model download |
| `MCPicks`, `MCPipeline`, `MCLibrary`, `MCServing` | instances for TLC; `MCLibrary` checks `Settings`, `Library` and `LibraryPage` in one run, `MCServing` `Lifecycle`, `Pictures` and `Installer` |
| `PicksProofs`, `PipelineProofs`, `GroupingProofs`, `SettingsProofs`, `LibraryProofs`, `LifecycleProofs`, `PicturesProofs`, `InstallerProofs` | theorems and their proofs; `PicksProofs` also proves the refinement of `PickBook`, and `LibraryProofs` rests on `GroupingProofs` |

Operators that begin with "Mutant of" in their comment are faulty variants of
the definition next to them; no specification uses them. They show that the
properties notice the fault.

### Picks

Each slot in `Request` is one HTTP request with its own program counter `pc`
and locals; `Begin` is `handlePicksPost` building the service with the live
`picks_dir`, `Respond` its answer. Every SQL statement and every file operation
is an action: `Load` and `Lookup` read the row (`PicksRepo.Get`), `SetState`,
`Record`, `Clear`, `Unlist`, `Drop` and `Rollback` write it; `OpenSource`,
`Probe`, `CreateTmp`, `Copy`, `Publish` are `exportFile` and `resolveTarget`;
`Remove` is the removal in `Unexport`. `FailExport` is every error return of
`exportFile`, which leads to the rollback in `Pick`; `StepFails` every other
error return. Errors that the code ignores are ignored: those of `Get`
(`Seen`), and that of the `DELETE` in the rollback.

The row of a file is `state` and `exported`; no row is `"unmarked"`. The file
system is `fs` (path to inode), `tmp` (path to the inode of `<path>.tmp`) and
`data` (inode to content), so that a rename under an open handle, and a
temporary file that another request truncates, do what the system does. Names are not
built from characters: `Slots[d][f]` lists the candidates `<d>/f`, `<d>/f_2`, …
that `resolveTarget` would try, `Within[d]` the paths `isUnder` accepts. A
content is a model value; `Windowed` holds the contents longer than two 64 KiB
windows, for which the hash in the row and the hash of the copy differ.

`PickBook` has one mark and one copy per file and changes both at one moment,
between the question and the answer. In the refinement a pick takes effect
when its path is recorded, or when its row is deleted after a failed export:
that is why `MarkNow` shows the state the request loaded until then. A pick of
a rejected file that fails leaves it unmarked, and `FailPick` says so.

### Pipeline

A file is the id of its first row, which is also its place in the walk. What the scanner
compares (size, mtime, hash) is one `version`; `exif`, `thumb` and `embed` are
the versions they were made from. The pipeline goroutine is `pc` and `stage`:
`walk` (evict and read the folder), `visit` (one `UpsertOnRescan` per entry,
then the sweep), then for each stage `count`, `fetch`, `pool`, `recount` as in
`runStage`, then `group` and `write`. In the pool `batch` holds the ids the
producer still has, which it hands out lowest first, and `work` what the
workers do. Metadata is written in one
transaction; thumbnails and embeddings are written first (`BuildThumb`,
`Embed`) and the status after them (`MarkDone`), so a kill between the two is a
step of its own. `picks_dir` is one of a few names: `Below[d]` are the files
below it, which the walk leaves out, `Matched[d]` those whose path its
`DELETE ... LIKE` matches. The pattern is the name with `/%` behind it, and `_` or `%` in the name
is a wildcard (`internal/store/files.go:265-286`), so that `Matched` may hold more:
`List` deletes the rows of them all, and those that are not below come back as
new files. A worker reads the file and writes its result in one step: an
edit after the read leaves the same state as an edit after the write.

`Cancelled` is the context of the run. `GiveUp` is every place that looks at
it; the sweep after the last entry and thumbnail failures do not, and neither
do they here. `Start` is the adapter's `Start` with its `preRun`, `End` the
end of the goroutine. `Bump` and `FinalizeStart` are the two halves of
`handleSetupFinalize`; the wizard page offers them only when the model is
installed (`internal/firstrun/templates/setup.html:193-211`), hence the guard.
The model is never removed while the program runs. The environment edits, adds
and removes files, changes `picks_dir`, installs the model, interrupts, kills
and starts the program.

### Grouping and GroupingReference

`Grouping` follows `internal/group` operator by operator: `gapWalk` is a fold
over the sorted photos of a device, `Cluster` a fold of `union` over all pairs
above the threshold, `pairDeltas` the two-pointer walk over two devices,
`EstimateSkew` the median of what it finds, and `rebuildAllPerDevice` and
`rebuildAllCrossDevice` put the `ClusterDef`s in the order in which they are
written. Embeddings are abstracted to `like`, the level of the cosine of each
pair, which is all the code looks at. The union-find of the code is a
partition; its parent links are an optimisation of that. Sorting is `Sorted`,
which puts each element behind as many as come before it in an order that is
total (`earlier` on rows, `Before` on clusters, the least id on groups), so that
any sorting algorithm, stable or not, has this result; several timelines are put
one after the other by `Concat`. `GroupingAssumption` says that the devices are
finitely many and at least one, as the keys of the rows of one database are; with
none at all `Reference` would have nothing to choose from.

`GroupingReference` says which photos belong together without sorting, walking
or merging: two photos are `Connected` when no way to divide the set between
them leaves every link whole. A burst is what gaps of at most the bucket size
connect, a scene what likenesses above the threshold connect within a burst.
`GroupsAreScenes` compares the two, with the device and time of each group;
`SkewIsFair` says what may become of the clocks.

### Settings

`file` and `tmp` are the machine-wide `config.toml` and `config.toml.tmp`, `live`
the copy in the server, `started` the configuration the scan's grouper was
built with, which alone sees the folder's own file and the environment
(`Effective`). `proc` follows `runServe` and `server.New` from the launch over the
legacy migration (each row is deleted in a step of its own) until the server is
up. The migration is a saver like the settings requests of the tabs, and
`config.Save` is its calls: `OpenTmp` opens and truncates the one temporary
file, `WriteTmp` writes it and closes it, `RenameConfig` puts it into place. A
saver writes to the file it has open, whatever that is called by then (`open`),
and a write over another's bytes may leave text that is no TOML (`Garbled`,
which `config.Load` refuses; an empty file it takes for the defaults). A call may
fail (`SaveFails`), and the process may end (`Exit`), at any point.

`post[c]` is the settings request of tab `c`: `Post` loads the file and puts the
form over it, the three calls save it, `ReloadLoad` and `ReloadStore` are the two
halves of `ReloadConfig`, between which another request may do both of its own, and
then it regroups if a clustering field has changed. `Ask` is a recluster
request, which goes on there.

Two history variables tell the properties what has met what. `alone` are the
clients whose request has met no settings request of another. `spoiled` has
`"file"` and `"live"` from when two have met until a rename, or a store, of one
that is alone (for `"live"` also a start of the server).

### Library and LibraryPage

In `Library` every rebuild, the scan's and each tab's, is a `task`: it reads
the analyzed rows (`ReadFiles`), then the embeddings (`ReadEmbeds`), and writes
everything in one transaction (`Write`). Between these steps the scan evicts
rows, the analyze stage adds some, settings change and other rebuilds write.
Foreign keys make a write with a vanished row fail (`HasRows`, `WriteFails`);
rows that the pattern of `picks_dir` deletes (`Matched`, as in `Pipeline`) come
back in the same walk, under the old id or a new one, and `renewed` keeps the
rebuilds for which it is a new one. The scan before its cluster stage is reduced
to what it does to rows and embeddings; `Pipeline` has it in full.

The order of the views is `AllOrdered`, `NextAfter` and `PrevOf`. `LibraryPage`
follows `buildLibraryJSON` through its statements: `AllOrderedRead`,
`StateMapRead`, `HideRead` (the live settings), and one `MembersRead` per cluster,
with every action of `Library` in between. `CountState` only gives a number and
is left out. `page.undisturbed` is history: no statement has changed the
clusters since the page began.

### Lifecycle and Progress

`main` is the goroutine of `runServe` from `Server.Run` to the exit. The
`starter`s are the goroutine of the first scan and the finalize handlers:
`Running` (asked outside the lock), `Start` (under it), `Attach`. A run is the
number of its `Start`; `at` follows its goroutine, which works, infers under
the mutex of the analyzer, reports its last event (`Finish`: the cluster stage is done, or the run
has failed or is cancelled and says so), returns, clears the flag and closes its
channel. It returns without an event when its context was done as it began
(`Return`) and when a statement that counts or lists a queue fails (`RunFails`). `current` is the run that the adapter's `stop` and
`done` belong to. `Stop`, `Wait`, `Waited`, `Close` are the steps of the
shutdown, in the order of `serve.go:228-235`. `Late` holds when a handler that
outlived the forced close has started a run after `Stop`; `Wait` may then have
taken the channel of an older run, and the properties about the end say so.

`Update` in `Progress` begins a call of `Reporter.Update` by one worker; the
attempt to send and the dropping of the oldest event are steps of their own,
so that workers and the pump meet in between.

### Pictures

A request is `Stat`, `Join` of the single flight, `Serve` or `Fallback`; the
flight of a picture is `Recheck`, `Acquire` of a slot, `Convert`, `RenameJPEG`,
`Size`, with `Failed` at every point for the next tool or the end of the
flight. A version of a picture is what the original shows at a time; the row
speaks of the version of the last scan. `Convert` may leave a file that is no JPEG
(`Broken`) though the tool has exited with 0: it is renamed, the look at its
size then fails, and it stays under the name, where the next request finds it.
`RestartServer` may lose the bytes of files that were renamed without a sync, or
leave their length without their bytes. `damaged` is history: the pictures to which
either has happened.

### Installer

A file is an inode, because a download writes to the file it has opened
whatever is renamed meanwhile, and two tabs may download at once. `Verify`
compares the hash of the bytes received, not of the file. The deferred removal
takes whatever has the temporary name by then. `RestartDuringInstall` is a
kill or a loss of power, with files that were not synced losing their bytes,
their length or neither.

## Runs

All bounds are constants of the modules or of the configurations.

| Run | Instance | Shows |
|---|---|---|
| `picks_serial` | 2 files, 2 requests, 2 values of `picks_dir`, failing file operations | `Consistent`, `NoOrphan`, `AnswerHolds`, `OnlyOwnCopiesGo`, and the refinement `ImplementsBook` with its liveness |
| `picks_crash` | 2 files, 2 requests, failing statements and file operations, crashes | `NoTornFile`, `NoDuplicateCopy`, `OriginalsUntouched`, `UsersFilesStay` |
| `picks_suffix` | `a.jpg` and `a_2.jpg`, `picks/a.jpg` taken | counterexample to `OnlyOwnCopiesGo` |
| `pipeline` | 2 files, 2 versions each, 3 values of `picks_dir`, one of them a pattern that matches the file beside it, 3 moves of the environment, interrupts, kills, failing statements, one bad thumbnail | `Fresh`, `Drained`, `LibraryUpToDate`, `UnchangedStayDone`, `RunEnds` |
| `pipeline_interrupt` | 1 interrupt | counterexample to `OnlyBadFilesFail` |
| `pipeline_finalize` | 3 files, batches of 2, 1 finalize request | counterexample to `FinalizeEmbeds` |
| `pipeline_wildcard` | 2 moves: `picks_dir` is set to `my_photos`, and a finalize request starts a second scan | counterexample to `Idempotent` |
| `settings_torn` | 2 tabs, 4 posts or kills | counterexample to `SavesAreAtomic` |
| `library` | each part alone: 4 photos and 2 cameras, 3 kinds of library to begin with; one library, 2 tabs, 2 moves; the same with 1 move and a page being read, rejected photos shown or hidden; settings requests of 2 tabs with 4 moves, legacy rows or none, failing calls | `SkewByMajority`, `NextInvertsPrev`, `GroupedByScene`; `LibraryTypeOK`, `SavedChangeShows`; `OnePlace`; `WholeFile`, `LiveIsSaved`, `LegacyKept` |
| `library_tabs` | one library, 2 tabs, 3 moves | counterexample to `RegroupsBySaved` |
| `serving` | each part alone: 2 runs; 2 pictures, 1 slot; 2 tabs that install | `LifecycleTypeOK`, `OneRun`, `OverBeforeClose`, `Exits`, `LastWordArrives`; `PicturesTypeOK`, `ServedWhole`, `ConvertedOnce`, `EveryViewAnswered`; `InstallerTypeOK`, `ModelWhole` |
| `pictures_stale` | the same | counterexample to `FullShowsFile` |

**Why the bounds are enough.** Requests for different files meet only in the
folders, and two are enough to have one act between any two steps of the other.
One file has its first candidate free and the other has to go to its second,
so every branch of the probe is taken; the list of candidates ends where the
instance has no file that could occupy a further one. `Spare` inodes cover
every file that can be open or named at once. In the pipeline, two files are
enough for one to fail while the other goes on and for a batch to leave the
pool half done, two workers for two files at once. Three moves of the
environment allow an edit or a removal during each of two runs and a kill
between them, or a change of `picks_dir` before each; installing the model and
starting the program do not count. With
`NumFiles = 3` and batches of 2 a stage turns its loop more than once.

`picks_serial` has no failing statements: the code does not, and cannot,
restore the row when the database fails. `Consistent` and `NoOrphan` are
properties of clients that wait for an answer before acting on the same file
again (`OnePerFile`), which the page does
(`internal/ui/web/src/components/Focus.tsx:283-307`) and the comment at
`internal/picks/picks.go:21` asks for. With two requests for one file, or with
a crash, `Consistent` does not hold.

`picks_crash` reduces states by `SYMMETRY` of the requests, which is sound as
no property names a request and all are safety properties; it and
`picks_serial` use the `VIEW` `Reachable`, which drops the content of inodes
nobody can reach.

`library` is one run of three parts (`part`); whatever is left of the others in a
part stands still. In it the initial states carry the inputs of the algorithms: every
likeness and every set of missing embeddings for one burst of four photos
(`bursts`), every assignment of times out of {none, 0, 1, 3} for one camera,
two cameras and a camera without a name, with and without merging (`clocks`:
gaps below, at and above the bucket size of 1), every pair of short timelines
with every set of anchors (`anchors`: 0 to 4 anchors around the minimum of 3,
offsets on both sides of the limit of 2). Four photos are the fewest with two
bursts of two, a chain of three and one outside, or three anchors and a fourth
that contradicts them. Those scenarios leave the users no moves.

The interleavings begin with one library that exercises all of it (`Party`). A
move is a settings request, a recluster request, a finalize request, a changed
file or a restart. Two (`PartyMoves`) suffice for each pair to meet, with the
scan as the third party, which evicts and inserts rows when `picks_dir` has
changed to `my_photos`: that folder holds the fourth photo and, as a pattern,
matches the third. `library_tabs` needs three, as the stale configuration of two
tabs shows only in a third request. While the page is read, one move
(`PageMoves`) is enough: the scan and one request can each rebuild, and the page has
up to three clusters. `Settings` alone has four moves (`SettingsMoves`): two
requests that meet, one that goes through alone afterwards, and a kill anywhere;
the migration runs on the first start and again on later ones. It starts without a
file and with one in which a migrated field is set already. Any call of a save
and any statement of the migration may fail.

In `serving` a behaviour is one of four parts, the others being switched off,
since they share nothing but the process. Two runs are one more than may be at
work, so that a third adds nothing the second does not show; a channel of one
event and three events from two workers make it overflow and make workers meet
in it. Two requests for two pictures with one slot make requests share a
flight, wait for each other's slot and come after each other. Three inodes are
what two downloads and an installed model hold; two chunks let a file be torn
or mixed.

The runs of `Pipeline`, `Library` and the serving process say
`CHECK_DEADLOCK FALSE`: with its moves used up, the environment may leave an
idle server alone for ever, and a process that has exited does nothing more;
neither is a fault of the program.

### What the counterexamples say

Each contradicts a line the repository states; the quotes are in
`PROJECT.json` under `findings`.

- `picks_suffix`: the target is probed, and replaced by a rename later; two
  requests served at once may choose the same one.
- `pipeline_interrupt`: a cancelled tool marks the file failed, and a failed
  file that does not change is never tried again.
- `pipeline_finalize`: a request during a run misses files that are just being
  analyzed without the model, and may make the run stop as stuck.
- `pipeline_wildcard`: with `picks_dir = "my_photos"` the rows of `my-photos/` are
  deleted at the start of every scan and their files are processed again, each
  time; their marks go with them.
- `settings_torn`: savers share `config.toml.tmp`. The second truncates it between
  the write and the rename of the first, and `config.toml` is empty.
- `library_tabs`: of two `ReloadConfig`, the one that loaded first stores last. The
  settings stay those of the older file, and a recluster long after groups by them.
- `pictures_stale`: the full-size JPEG is cached under the row id and is served
  for ever, also under the URL with the hash of the edited photo.

### Further counterexamples

These configurations are not among the runs of `PROJECT.json`. TLC finds the
property violated in a few seconds with `tlc -config <name>.cfg <module>`. Each
shows why a property above has the exception, or a theorem the hypothesis, that
it has.

| Configuration | Module | Property | What the code does, and which line says otherwise |
|---|---|---|---|
| `picks_originals` | `MCPicks` | `OriginalsUntouched` | A folder with originals is accepted as `picks_dir` (`internal/server/settings.go:155-174`); an original there with the content of the picked file is taken for an earlier export (`internal/picks/export.go:104`), recorded, and removed by unpick. `README.md:107-108`: "Originals are sacred." |
| `picks_windowed` | `MCPicks` | `NoDuplicateCopy` | Copies are hashed whole (`export.go:155-171`), originals by windows (`internal/scanner/identity.go:20`): above 128 KiB an existing copy is never recognised, and after a crash before the record a second one is made. `export.go:18-20`: "If the target exists with the same content_hash, the existing path is returned". |
| `pipeline_unreadable` | `MCPipeline` | `RunSurvivesBadFiles` | One file that cannot be opened ends the walk and the run (`internal/scanner/scanner.go:134-142`). `README.md:111-112`: "Per-file failures are isolated." |
| `library_half` | `MCLibrary` | `NeverHalf` | Ids begin at 1 with every rebuild, so a page that has the order of the old clusters (`internal/server/library.go:85`) reads members of new ones (line 111): a photo is in two strips, or in none. `internal/store/clusters_write.go:83-86`: readers "either see the old clusters or the new ones (never a half-rebuild)". |
| `library_overtaken` | `MCLibrary` | `RebuildsFromCurrent` | A request reads the analyzed rows (`internal/group/group.go:126`), the scan analyzes the last file and clusters, the request writes: the file is in no cluster until the next rebuild. `internal/server/recluster.go:13-14`: "from the current analyzed files. It's safe to call at any time". |
| `library_reverted` | `MCLibrary` | `ScansBySaved` | The grouper of the scan is built at launch (`internal/cli/pipeline_build.go:103`), so its cluster stage undoes a regrouping that a settings request has asked for meanwhile. `internal/cli/serve.go:245-247`: "so the auto-triggered first scan uses what the user last saved in Settings". |
| `library_override` | `MCLibrary` | `ScanSkipsExports` | The server exports to the folder of the machine-wide file (`internal/server/settings.go:37-43`), the scanner skips that of the folder's own file or the environment (`serve.go:257-266`), so the copies come back as photos. `scanner.go:48-50`: "This must match the picks_dir resolved from the per-folder KV / config.toml". |
| `pictures_broken` | `MCServing` | `SeesSomething` | What a tool has made is renamed before its header is read (`internal/thumb/photo.go:99-103`); the request falls back, and every later one is served the broken file (`internal/server/full.go:106`). `full.go:70-71`: "so the user sees *something* rather than a broken icon". |

## Fairness

`Picks` has weak fairness of each request's next step: its goroutine is
scheduled, statements and file operations return. Requests, changes of
settings and crashes need not happen. `Pipeline` has weak fairness of the
pipeline goroutine, of each worker (the external tools return), of the goroutine of
the first scan, of the finalize handler and of the exit. Nothing is assumed of
users, nor that the program is started again.

`LifecycleFairness` has weak fairness of `runServe` once it has a reason to
go on, of each starter, of what a run does by itself once it has begun to infer
or to end, and of senders and pumps. A run is not assumed to finish: what ends it
after a signal is its context, which the tools it waits for obey
(`exec.CommandContext`), and no signal is assumed to come. The one assumption on
time is that a finalize request is answered within the idle timeout.
`PicturesFairness` has weak fairness of each handler and each flight, and
strong fairness of `Acquire`, because a Go channel serves those who wait for
it in turn. `Settings`, `Library`, `LibraryPage` and `Installer` state safety only:
what they do when nobody asks is nothing.

## Proofs

`PicksProofs` is about every set of files, requests, folders, paths and
contents that satisfies `PathAssumption`, with every fault enabled.

- `TypeCorrect`: `Spec => []TypeOK`. `TypeOK` is not inductive: a step uses the
  slot number as an index of the candidates and follows handles that earlier
  steps left. `TypeInv` adds `StagesOK`: a request that is not idle has a job;
  one that probes has a slot within its candidates; one that creates, copies,
  publishes, records or removes has a target; one that copies holds both
  handles. One lemma per action shows that it keeps `TypeInv`.
- `OriginalsSafe`: if no original lies below a value of `picks_dir`
  (`OriginalsOutside`), then `Spec => OriginalsUntouched`. The invariant
  `OriginalsApart` says that no `.tmp` name and no handle opened for writing
  refers to the inode of an original; that no target is one follows from the
  assumption and from `StagesOK`, which keeps targets below the picks folder.
  `picks_originals` shows that the assumption is needed.
- `UsersFilesSafe`: `Spec => UsersFilesStay`, without assumption on the layout.
  `UsersFilesApart` says the same of the user's files, that each is still in
  place, and that none is a target or a recorded path: a slot taken by one is neither free
  nor equal to the content of an original.

The other theorems of `PicksProofs` are about clients that wait for the answer
before they act on the same file again (`OnePerFile`) and folders in which no path
is a candidate twice (`SlotsApart`); `picks_suffix` is what happens without the
latter.

- `NoTornFileHolds`: `Spec => []NoTornFile`, with every fault. The invariant
  `WholeInv` adds to `TypeInv` who holds what: one request a file (`OneEach`);
  targets and recorded paths are candidates of the own file (`OwnSlots`); what is
  open for writing is the temporary file of the own target, and no final name
  and no reader has the inode of a temporary one (`Handles`); what is published
  next is complete (`Whole`).
- `NoDuplicateCopyHolds`, with every fault, if originals lie outside the picks
  folders (`OriginalsOutside`), nobody has put a copy there beforehand
  (`NoneYet`) and originals are short enough for their hashes to agree
  (`ShortOriginals`, which `picks_windowed` shows to be needed). The folder alone does
  not say why a second copy cannot appear: `CopiesOf` says that the candidates in
  front of a copy were taken from the start, and `PassedBy` that a request
  which probes has passed by such candidates only, so that it meets the copy
  before it meets a free path.
- `ConsistentHolds`, `NoOrphanHolds`, `AnswerHoldsAlways`, `OnlyOwnCopiesGoHolds`,
  with originals outside the picks folders, failing file operations, and without
  failing statements or crashes (`Undisturbed`), as in `picks_serial`. `Agrees`
  says at each program counter what the row and the folder are like: for
  example that the target of a request about to rename is still free, that
  one about to record has its copy there, that one about to clear the path has
  removed the copy. `Accounted` says that a target is free, recorded or about to
  be. Other requests keep all that because their candidates are other paths.
- `StepsImplementBook`: under the same hypotheses
  `Spec => BookInit /\ [][BookNext]_bookVars` through the mapping of
  `PicksRefinement`, which is the safety part of `ImplementsBook`. `BookView`
  writes out, per program counter, what the mapped variables are; each step is then
  one of the book for its own file (`Ask`, `DoPick`, `FailPick`, …, `Answer`) or leaves
  all of the book alone.

`PipelineProofs`, for any number of files, versions and workers, any batch
size, any tools that fail, and every fault:

- `PipelineTypeCorrect`: `TypeInv` adds `PoolOK`: only a pool at work has
  files in hand, and what a worker has is no longer in the batch.
- `FreshHolds`. `Fresh` speaks of files whose row is up to date and says nothing of
  the moment between a result and its status. `RowOK` says of each row that what
  is in hand has the status its stage reads, that no row is ahead of the disk
  (so that an edit makes it out of date, never up to date by accident), and that
  results fit, those included whose status is still to be set. That another
  worker, a finalize request or an edit leaves the row of a file as it is, is
  `Untouched`, shown once.
- `DrainedHolds` and `LibraryUpToDateHolds`. `StagesInOrder`: a stage
  begins with the queues before it empty, and nothing refills them, since only
  the walk and the stage in front put rows there. `Finishing`: from the
  last queue on, only a finalize request puts a row back, and only one without
  an embedding. `Shown`: what the grouper has read is what there is to show.
- `UnchangedStayDoneHolds`, of files that `picks_dir` neither hides nor matches as a
  pattern (`pipeline_wildcard` shows the latter): `Walked` says that the walk has
  visited or will visit every unchanged file, which the sweep therefore leaves
  alone; that no worker has a finished file in hand follows from `RowOK`.

`LifecycleProofs`, for any number of finalize requests, runs and workers and
any buffer:

- `LifecycleTypeCorrect`: `MainTypeOK` says of the adapter that while the flag
  is set its run is one that works or has just returned.
- `OneRunHolds` and `OverBeforeCloseHolds`. The flag alone does not carry them:
  `Stop` clears it under a run that works on, and that run clears it once more.
  The invariant adds `RunsInOrder` (a run is begun when its number is at most
  `begun`, and `current` is the newest), `OlderRunsOver` (before `Stop` only the
  newest run is not over, and not even that one unless the flag is set; later,
  those before the newest at `Stop` are over) and `WaitsForNewest` (what `Wait`
  holds is the newest run there was at `Stop`, or a later one). Without a late
  start the run that `Waited` saw ended is then the only one that could still
  be at work.

`PicturesProofs`, for any number of requests, pictures, slots and tools:

- `PicturesTypeCorrect`: the slots taken are as many as the conversions under
  way. This needs the cardinality of a set that one step changes by one element,
  and that a flight ends with its slot given back on every path.
- `ServedWholeHolds`: a request is sent to `Serve` only by a look that found
  bytes, and between the look and the answer nothing but a restart, which ends the
  request too, empties the file. What is no JPEG is served of `damaged` pictures
  only, of which `pictures_broken` is the run.
- `ConvertedOnceHolds`: between `Recheck` and `Acquire` the file cannot appear,
  since only the flight of the picture makes it, and there is one.

`GroupingProofs`, for any album, any rows and embeddings that were read, and any
settings. The algorithms are folds, and what a fold computes is proved by
induction over the finite sets it has taken in (`SetInduction`, `CountingUp`), each
with its own invariant:

- `gapWalkParts`: the sorted list is cut where a bucket ends (`Cuts`, kept by
  `WalkedCuts`), so the buckets share out the photos and each is a piece of the
  list. `PieceIsBurst`: such a piece is a burst. Inside it every division cuts two
  neighbours (`Crossing`), and across its ends the gap is too long, not only
  between neighbours but between any two, because the times ascend.
- `ClusterJoins`: after every pair has been looked at, the groups are a partition,
  no link leaves a group, and no set that links do not leave cuts one (`Joined`,
  kept by `unionJoins`). `PartsAreScenes`: the groups of a burst are its scenes.
- `pairDeltasFinds`: the window never moves back, and loses nothing, because a photo
  that is too early for one photo of the reference device is too early for all
  later ones (`FoundMore`); each anchor is found once. `medianInt64Is`: what
  more than half of a list says stands in the middle of the sorted list, and the
  mean of two numbers lies between them, also below zero. Together: `EstimateSkewIs`,
  the formula `SkewIsFair`.
- `RebuildAllDivides`, `RebuildAllIsScenes`: a lane is a set of photos that are
  compared by one clock (`DeviceLane`, `MergedLane`, `NoEmbLane`, `NoTimeLane`);
  the clusters of a lane share out its photos, and those of disjoint lanes one
  after the other share out the union (`DividesConcat`). The same argument carries
  `NullsLast`: the clusters of a device without a time come behind the others.

`SettingsProofs`, for any configurations, forms, legacy rows and number of tabs, over
`SettingsInv`, and with failing calls and kills at any point:

- `WholeFileHolds`: `FileInv` says that a settings request which is not alone has
  met another one and spoiled the file (`Apart`), and that nobody else has a hand in what
  a lone saver, or the migration, opens, writes and renames (`OwnFile`).
- `LiveIsSavedHolds`: `Served` says that, while the live copy is not spoiled, it is
  what is in the file, or a lone request has renamed and is about to reload.
- `LegacyKeptHolds`: what the migration is about to save has all that it is about
  to delete, and nobody else saves before the server is up.

`LibraryProofs`, for any configurations, forms, albums and number of tabs, over the
invariant `LibraryInv`, which has that of `SettingsProofs` as a part:

- `SavedChangeShowsHolds`: a request regroups only after it has reloaded, and a client
  in `alone` has, while the live copy is not spoiled, a configuration that agrees
  with the file.
- `LibraryTypeCorrect`, `NextInvertsPrevHolds`, from `TablesOK`: the
  clusters are what `WriteClusters` may be given (`Tabled`), with members that have
  rows and are in one cluster, and with the clusters of a device without a time
  last. A rebuild brings that about (`RebuildAllDivides`), whatever was evicted
  since it read, as the write fails otherwise; an eviction keeps it. The
  last part is needed for `NextAfter`: from a cluster without a time its query
  asks for a greater id only, which is right because no cluster with a time has
  one (`LaterRows`). Ids given in another order would make it go back.
- `OnePlaceHolds`, about `PageSpec`: while the page is undisturbed, what it has
  still to read and the strips it has are together the ids of the table, and each
  strip has the members of its id.
- `GroupedBySceneHolds` and `SkewByMajorityHolds`, from the theorems of
  `GroupingProofs` and the types of what a rebuild has read.

`InstallerProofs`, for any length of the model and number of tabs:
`InstallerTypeCorrect` and `ModelWholeHolds`. While installs have not
overlapped (`Alone`: one is busy at most), the file under the temporary name is
the one the install has open (`InstallKnows`), its first chunks are what was
received (`CopyKnows`), and it is synced before it is verified.

Each of these invariants of a specification was checked by TLC on the instances
of the runs; those of the folds in `GroupingProofs` follow the operators, which the
run `library` checks against `GroupingReference`.

Only model-checked: `Exits`, `LastWordArrives`, `EveryViewAnswered`, `RunEnds` and the
liveness half of `ImplementsBook`, which are liveness under fairness and outside
what TLAPS can prove. Every invariant and every other property of a passing run
is stated by a theorem, some under the hypotheses named above.

## Not modelled

- Picks: the user changing the picks folder or an original while a request
  runs; eviction of rows from the table by the scanner; names that collide
  after case folding. Observed outside the runs: after a change of `picks_dir`
  the copies made before can no longer be unpicked, the request answers with an
  error each time.
- Pipeline: `Resume`, called by tests only; parsing of EXIF and the backfills at
  startup; the fallbacks between image tools; the names below `picks_dir`
  beyond two sets of files; that a row which is inserted again has a greater id, and
  that SQLite may give the id of a deleted row to another file. A file that comes
  back unchanged keeps the status `missing`, and a touched one is processed
  again; both are what the code says.
- Grouping: the value of an embedding, and with it the rounding of the cosine;
  `RebuildBucket`, called by tests only. Devices are taken in alphabetical order
  instead of that of their first photo; only ids depend on it.
- Settings: a file the user breaks by hand and a form that is refused change
  nothing. A file is read in one step, as it is opened and read by one small
  `read`. Loss of power, since `Save` does not sync. Several processes,
  for several folders, share the one `config.toml`; their saves meet as those of
  two tabs do, and no reload of theirs follows.
- Library: rows that come back after an eviction have another id, and with it
  another place among clusters of the same time, which is left out; a photo keeps
  its number. Names outside ASCII, for which SQLite's `LOWER` and
  `strings.EqualFold` differ.
- Lifecycle: a run started after `Stop` is in the model and excepted (`Late`)
  in what is promised of the end. Ports, logs, static files, the browser that is
  opened.
- Pictures: a broken JPEG whose header can be read, which nothing tells from a
  good one; thumbnails and originals that are only read, path checks, byte
  ranges, the cache files of the two smaller tiers.
- Installer: installs that overlap are in the model and excepted in
  `ModelWhole` (`overlap`); the progress events; `Fetch`, called by tests only.
- Migrations of the schema run before anything else, one transaction each.
- Process runner and directories are pure input and output. The web user
  interface is used for assumptions only.

## Plan

What is left, in this order:

1. `Picks` composed with the eviction of rows and with originals that are
   edited between scan and pick.
2. Loss of power in `Pipeline`: the last commits undone while thumbnails stay.
