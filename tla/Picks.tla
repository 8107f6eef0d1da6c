------------------------------- MODULE Picks -------------------------------
(***************************************************************************)
(* The pick / reject state machine and the export of picked files          *)
(* (internal/picks, internal/store/picks.go, internal/server/picks.go).    *)
(*                                                                         *)
(* Every HTTP request runs in a goroutine of its own and nothing in the    *)
(* server orders two of them, so each statement on the picks table and     *)
(* each file-system call of a request is one step here.  A row of the      *)
(* picks table is split over `state` and `exported` ("unmarked" means that *)
(* there is no row); the file system is a map from paths to inodes, one    *)
(* more for the ".tmp" names, and the contents of the inodes.              *)
(***************************************************************************)
EXTENDS Naturals, FiniteSets, Sequences

CONSTANTS
  File,        \* rows of the files table: originals the scanner indexed
  Request,     \* slots for requests being served at the same time
  Dir,         \* values the picks_dir setting takes; the initial one is StartDir
  StartDir,
  Path,        \* relative paths under the scan root that matter
  Spare,       \* inode numbers besides those of the files already on disk
  Content,     \* what a complete file can contain
  Source,      \* Source[f]: where the original of f lives
  Disk,        \* Disk[p]: content found at p at the start, None if no file
  Slots,       \* Slots[d][f]: the candidates <d>/f, <d>/f_2, <d>/f_3, ...
  Within,      \* Within[d]: the paths below <scan root>/d; {} when d escapes it
  Windowed,    \* contents longer than the two 64 KiB windows the scanner hashes
  OnePerFile,  \* TRUE: a client waits for the answer before it acts on a file again
  Faults,      \* which of "io", "db" and "crash" may happen
  Torn,        \* content of an inode that is not completely written
  None

Act == {"pick", "unpick", "reject", "unreject"}
Mark == {"unmarked", "picked", "rejected"}
Inode == Path \cup Spare   \* a file on disk at the start has its path as number
Job == [act : Act, file : File, dir : Dir]
Label == {"idle", "load", "mark", "open", "probe", "create", "copy", "publish",
          "record", "rollback", "lookup", "remove", "clear", "drop", "unlist",
          "ok", "error"}

ASSUME PathAssumption ==
  /\ None \notin Path /\ None \notin Inode /\ None \notin Job
  /\ Torn \notin Content /\ None \notin Content /\ Windowed \subseteq Content
  /\ StartDir \in Dir
  /\ Source \in [File -> Path]
  /\ Disk \in [Path -> Content \cup {None}]
  /\ \A f \in File : Disk[Source[f]] # None
  /\ Slots \in [Dir -> [File -> Seq(Path)]]
  /\ \A d \in Dir : \A f \in File : Len(Slots[d][f]) > 0
  /\ Within \in [Dir -> SUBSET Path]
  /\ OnePerFile \in BOOLEAN

VARIABLES
  picksDir,    \* picks_dir of the live configuration
  state,       \* picks.state of each file
  exported,    \* picks.exported_path of each file
  fs,          \* the inode each path names
  tmp,         \* the inode each path + ".tmp" names
  data,        \* the content of each inode
  pc, job,     \* what each request is about to do, and for whom
  current,     \* the state Load found in the row
  slot,        \* n of resolveTarget
  target,      \* path being exported to, or removed
  src, dst     \* inodes the request holds open

rows == <<state, exported>>
disk == <<fs, tmp, data>>
locals == <<job, current, slot, target, src, dst>>
vars == <<picksDir, state, exported, fs, tmp, data, pc, job, current, slot,
          target, src, dst>>

FileOf(r) == job[r].file
Root(r) == Within[job[r].dir]
Candidates(r) == Slots[job[r].dir][FileOf(r)]
Original(f) == Disk[Source[f]]
Busy(f) == \E r \in Request : job[r] # None /\ job[r].file = f
InUse == {fs[p] : p \in Path} \cup {tmp[p] : p \in Path}
           \cup {src[r] : r \in Request} \cup {dst[r] : r \in Request}

\* Mutants of SameHash: any file in the way is the copy; none ever is.
SameName(i, f) == data[i] # Torn
NeverSame(i, f) == data[i] = Original(f) /\ data[i] \in Windowed

\* The whole-file hash of the copy against the windowed hash in the row.
SameHash(i, f) == data[i] = Original(f) /\ data[i] \notin Windowed

Goto(r, l) == pc' = [pc EXCEPT ![r] = l]
At(r, l) == pc[r] = l

Init ==
  /\ picksDir = StartDir
  /\ state = [f \in File |-> "unmarked"]
  /\ exported = [f \in File |-> None]
  /\ fs = [p \in Path |-> IF Disk[p] = None THEN None ELSE p]
  /\ tmp = [p \in Path |-> None]
  /\ data = [i \in Inode |-> IF i \in Path /\ Disk[i] # None THEN Disk[i] ELSE Torn]
  /\ pc = [r \in Request |-> "idle"]
  /\ job = [r \in Request |-> None]
  /\ current = [r \in Request |-> "unmarked"]
  /\ slot = [r \in Request |-> 1]
  /\ target = [r \in Request |-> None]
  /\ src = [r \in Request |-> None]
  /\ dst = [r \in Request |-> None]

-----------------------------------------------------------------------------
(* A request arrives; picks.New captures the live picks_dir.               *)

Begin(r, a, f) ==
  /\ At(r, "idle")
  /\ OnePerFile => ~ Busy(f)
  /\ job' = [job EXCEPT ![r] = [act |-> a, file |-> f, dir |-> picksDir]]
  /\ Goto(r, "load")
  /\ UNCHANGED <<picksDir, rows, disk, current, slot, target, src, dst>>

\* What PicksRepo.Get shows: its callers take an error for a missing row.
Seen(f) == {state[f]} \cup (IF "db" \in Faults THEN {"unmarked"} ELSE {})

\* Mutant of Load: an unpick deletes the row and leaves the copy where it is.
LoadAndForget(r) ==
  /\ At(r, "load")
  /\ \E s \in Seen(FileOf(r)) :
       /\ current' = [current EXCEPT ![r] = s]
       /\ Goto(r, IF job[r].act = "unpick" THEN "drop"
                  ELSE IF job[r].act = "unreject" THEN "ok" ELSE "mark")
  /\ UNCHANGED <<picksDir, rows, disk, job, slot, target, src, dst>>

\* The row is read once; Pick, Unpick, Reject and Unreject branch on it.
Load(r) ==
  /\ At(r, "load")
  /\ \E s \in Seen(FileOf(r)) :
       LET a == job[r].act
       IN  /\ current' = [current EXCEPT ![r] = s]
           /\ \/ a = "pick" /\ Goto(r, IF s = "picked" THEN "ok" ELSE "mark")
              \/ a = "unpick" /\ Goto(r, IF s = "picked" THEN "lookup" ELSE "ok")
              \/ a = "reject" /\ Goto(r, IF s = "picked" THEN "lookup" ELSE "mark")
              \/ a = "unreject" /\ Goto(r, IF s = "rejected" THEN "drop" ELSE "ok")
  /\ UNCHANGED <<picksDir, rows, disk, job, slot, target, src, dst>>

\* Mutant of SetState: the row gets the name of the action.
SetStateToAction(r) ==
  /\ At(r, "mark")
  /\ state' = [state EXCEPT ![FileOf(r)] = job[r].act]
  /\ Goto(r, IF job[r].act = "pick" THEN "open" ELSE "unlist")
  /\ UNCHANGED <<picksDir, exported, disk, locals>>

\* SetState inserts the row or updates its state only: exported_path stays.
SetState(r) ==
  /\ At(r, "mark")
  /\ state' = [state EXCEPT ![FileOf(r)] =
                 IF job[r].act = "pick" THEN "picked" ELSE "rejected"]
  /\ Goto(r, IF job[r].act = "pick" THEN "open" ELSE "unlist")
  /\ UNCHANGED <<picksDir, exported, disk, locals>>

-----------------------------------------------------------------------------
(* exportFile                                                              *)

OpenSource(r) ==
  /\ At(r, "open")
  /\ Root(r) # {}
  /\ fs[Source[FileOf(r)]] # None
  /\ src' = [src EXCEPT ![r] = fs[Source[FileOf(r)]]]
  /\ slot' = [slot EXCEPT ![r] = 1]
  /\ Goto(r, "probe")
  /\ UNCHANGED <<picksDir, rows, disk, job, current, target, dst>>

\* Mutant of FailExport: the error is dropped.
FailSilently(r) ==
  /\ src' = [src EXCEPT ![r] = None]
  /\ dst' = [dst EXCEPT ![r] = None]
  /\ Goto(r, "ok")
  /\ UNCHANGED <<picksDir, rows, fs, data, job, current, slot, target>>

\* exportFile fails: the source handle is closed and Pick deletes the row.
FailExport(r) ==
  /\ src' = [src EXCEPT ![r] = None]
  /\ dst' = [dst EXCEPT ![r] = None]
  /\ Goto(r, "rollback")
  /\ UNCHANGED <<picksDir, rows, fs, data, job, current, slot, target>>

OpenSourceFails(r) ==
  /\ At(r, "open")
  /\ \/ Root(r) = {}
     \/ fs[Source[FileOf(r)]] = None
     \/ "io" \in Faults
  /\ UNCHANGED tmp
  /\ FailExport(r)

\* Mutant of Probe: the first candidate is taken without a look.
ProbeBlindly(r) ==
  /\ At(r, "probe")
  /\ target' = [target EXCEPT ![r] = Candidates(r)[slot[r]]]
  /\ Goto(r, "create")
  /\ UNCHANGED <<picksDir, rows, disk, job, current, slot, src, dst>>

\* One turn of resolveTarget's loop: the slot is free, holds the same content,
\* or is taken.  The length of Slots[d][f] bounds the loop.
Probe(r) ==
  /\ At(r, "probe")
  /\ LET p == Candidates(r)[slot[r]]
     IN  \/ /\ fs[p] = None /\ p \in Root(r)
            /\ target' = [target EXCEPT ![r] = p]
            /\ Goto(r, "create")
            /\ UNCHANGED <<slot, src>>
         \/ /\ fs[p] # None /\ SameHash(fs[p], FileOf(r))
            /\ target' = [target EXCEPT ![r] = p]
            /\ src' = [src EXCEPT ![r] = None]
            /\ Goto(r, "record")
            /\ UNCHANGED slot
         \/ /\ fs[p] # None /\ ~ SameHash(fs[p], FileOf(r))
            /\ slot[r] < Len(Candidates(r))
            /\ slot' = [slot EXCEPT ![r] = @ + 1]
            /\ UNCHANGED <<pc, target, src>>
  /\ UNCHANGED <<picksDir, rows, disk, job, current, dst>>

ProbeFails(r) ==
  /\ At(r, "probe")
  /\ LET p == Candidates(r)[slot[r]]
     IN  "io" \in Faults \/ (fs[p] = None /\ p \notin Root(r))
  /\ UNCHANGED tmp
  /\ FailExport(r)

\* Mutant of CreateTmp: the target itself is created and then written.
CreateTarget(r) ==
  /\ At(r, "create")
  /\ Inode \ InUse # {}
  /\ LET p == target[r]
         i == CHOOSE n \in Inode \ InUse : TRUE
     IN  /\ tmp' = [tmp EXCEPT ![p] = i]
         /\ fs' = [fs EXCEPT ![p] = i]
         /\ data' = [data EXCEPT ![i] = Torn]
         /\ dst' = [dst EXCEPT ![r] = i]
  /\ Goto(r, "copy")
  /\ UNCHANGED <<picksDir, rows, job, current, slot, target, src>>

\* O_CREATE|O_TRUNC on <target>.tmp: an existing one is truncated in place.
CreateTmp(r) ==
  /\ At(r, "create")
  /\ Inode \ InUse # {}
  /\ LET p == target[r]
         i == IF tmp[p] # None THEN tmp[p] ELSE CHOOSE n \in Inode \ InUse : TRUE
     IN  /\ tmp' = [tmp EXCEPT ![p] = i]
         /\ data' = [data EXCEPT ![i] = Torn]
         /\ dst' = [dst EXCEPT ![r] = i]
  /\ Goto(r, "copy")
  /\ UNCHANGED <<picksDir, rows, fs, job, current, slot, target, src>>

Copy(r) ==
  /\ At(r, "copy")
  /\ data' = [data EXCEPT ![dst[r]] = data[src[r]]]
  /\ Goto(r, "publish")
  /\ UNCHANGED <<picksDir, rows, fs, tmp, locals>>

\* Mutant of Publish: the original is moved into the picks folder.
PublishByMoving(r) ==
  /\ At(r, "publish")
  /\ LET p == target[r]
     IN  /\ tmp[p] # None
         /\ fs' = [fs EXCEPT ![p] = src[r], ![Source[FileOf(r)]] = None]
         /\ tmp' = [tmp EXCEPT ![p] = None]
  /\ src' = [src EXCEPT ![r] = None]
  /\ dst' = [dst EXCEPT ![r] = None]
  /\ Goto(r, "record")
  /\ UNCHANGED <<picksDir, rows, data, job, current, slot, target>>

\* The rename replaces whatever the target names by now.
Publish(r) ==
  /\ At(r, "publish")
  /\ LET p == target[r]
     IN  /\ tmp[p] # None
         /\ fs' = [fs EXCEPT ![p] = tmp[p]]
         /\ tmp' = [tmp EXCEPT ![p] = None]
  /\ src' = [src EXCEPT ![r] = None]
  /\ dst' = [dst EXCEPT ![r] = None]
  /\ Goto(r, "record")
  /\ UNCHANGED <<picksDir, rows, data, job, current, slot, target>>

\* Creating the tmp file fails; or copying, closing or renaming it fails (the
\* rename also when another request moved it away), and it is removed.
ExportFails(r) ==
  /\ \/ At(r, "create") /\ "io" \in Faults /\ UNCHANGED tmp
     \/ /\ At(r, "copy") /\ "io" \in Faults
        /\ tmp' = [tmp EXCEPT ![target[r]] = None]
     \/ /\ At(r, "publish") /\ ("io" \in Faults \/ tmp[target[r]] = None)
        /\ tmp' = [tmp EXCEPT ![target[r]] = None]
  /\ FailExport(r)

\* SetExportedPath is an UPDATE: nothing happens when the row is gone.
Record(r) ==
  /\ At(r, "record")
  /\ exported' = [exported EXCEPT ![FileOf(r)] =
                    IF state[FileOf(r)] = "unmarked" THEN None ELSE target[r]]
  /\ Goto(r, "ok")
  /\ UNCHANGED <<picksDir, state, disk, locals>>

DeleteRow(f) ==
  /\ state' = [state EXCEPT ![f] = "unmarked"]
  /\ exported' = [exported EXCEPT ![f] = None]

\* Mutant of Rollback: the row of the failed pick stays.
RollbackForgotten(r) ==
  /\ At(r, "rollback")
  /\ Goto(r, "error")
  /\ UNCHANGED <<picksDir, rows, disk, locals>>

Rollback(r) ==
  /\ At(r, "rollback")
  /\ DeleteRow(FileOf(r))
  /\ Goto(r, "error")
  /\ UNCHANGED <<picksDir, disk, locals>>

-----------------------------------------------------------------------------
(* Unexport, on behalf of Unpick and of Reject                             *)

\* Mutant of AfterUnexport: a reject, too, ends with the row deleted.
AlwaysDrop(r) == "drop"

AfterUnexport(r) == IF job[r].act = "unpick" THEN "drop" ELSE "mark"

\* The row is read again; without one there is nothing to do, and the recorded
\* path must be below the current picks_dir.
Lookup(r) ==
  /\ At(r, "lookup")
  /\ Root(r) # {}
  /\ \E s \in Seen(FileOf(r)) :
       LET p == exported[FileOf(r)]
       IN  \/ s = "unmarked" /\ Goto(r, AfterUnexport(r)) /\ UNCHANGED target
           \/ s # "unmarked" /\ p = None /\ Goto(r, "clear") /\ UNCHANGED target
           \/ /\ s # "unmarked" /\ p \in Root(r)
              /\ Goto(r, "remove")
              /\ target' = [target EXCEPT ![r] = p]
  /\ UNCHANGED <<picksDir, rows, disk, job, current, slot, src, dst>>

LookupFails(r) ==
  /\ At(r, "lookup")
  /\ \/ Root(r) = {}
     \/ state[FileOf(r)] # "unmarked" /\ exported[FileOf(r)] \notin Root(r) \cup {None}
  /\ Goto(r, "error")
  /\ UNCHANGED <<picksDir, rows, disk, locals>>

Remove(r) ==
  /\ At(r, "remove")
  /\ fs' = [fs EXCEPT ![target[r]] = None]
  /\ Goto(r, "clear")
  /\ UNCHANGED <<picksDir, rows, tmp, data, locals>>

Clear(r) ==
  /\ At(r, "clear")
  /\ exported' = [exported EXCEPT ![FileOf(r)] = None]
  /\ Goto(r, AfterUnexport(r))
  /\ UNCHANGED <<picksDir, state, disk, locals>>

Drop(r) ==
  /\ At(r, "drop")
  /\ DeleteRow(FileOf(r))
  /\ Goto(r, "ok")
  /\ UNCHANGED <<picksDir, disk, locals>>

\* Reject's last statement, ClearExportedPath.
Unlist(r) ==
  /\ At(r, "unlist")
  /\ exported' = [exported EXCEPT ![FileOf(r)] = None]
  /\ Goto(r, "ok")
  /\ UNCHANGED <<picksDir, state, disk, locals>>

\* A statement on the tables, or the removal of the copy, returns an error.
\* Rollback ignores the error of its DELETE.
StepFails(r) ==
  /\ \/ pc[r] \in {"load", "mark", "record", "rollback", "clear", "drop", "unlist"} /\ "db" \in Faults
     \/ At(r, "remove") /\ "io" \in Faults
  /\ Goto(r, "error")
  /\ UNCHANGED <<picksDir, rows, disk, locals>>

ForgetLocals(R) ==
  /\ job' = [r \in Request |-> IF r \in R THEN None ELSE job[r]]
  /\ current' = [r \in Request |-> IF r \in R THEN "unmarked" ELSE current[r]]
  /\ slot' = [r \in Request |-> IF r \in R THEN 1 ELSE slot[r]]
  /\ target' = [r \in Request |-> IF r \in R THEN None ELSE target[r]]
  /\ src' = [r \in Request |-> IF r \in R THEN None ELSE src[r]]
  /\ dst' = [r \in Request |-> IF r \in R THEN None ELSE dst[r]]
  /\ pc' = [r \in Request |-> IF r \in R THEN "idle" ELSE pc[r]]

\* The answer leaves: 200 for "ok", 500 for "error".
Respond(r) ==
  /\ pc[r] \in {"ok", "error"}
  /\ ForgetLocals({r})
  /\ UNCHANGED <<picksDir, rows, disk>>

-----------------------------------------------------------------------------
(* The environment                                                         *)

\* The process is killed and started again: tables and files survive.
Crash ==
  /\ "crash" \in Faults
  /\ \E r \in Request : ~ At(r, "idle")
  /\ ForgetLocals(Request)
  /\ UNCHANGED <<picksDir, rows, disk>>

\* POST /api/settings stores another picks_dir.
SetPicksDir(d) ==
  /\ d # picksDir
  /\ picksDir' = d
  /\ UNCHANGED <<rows, disk, pc, locals>>

Serve(r) ==
  \/ Load(r) \/ SetState(r)
  \/ OpenSource(r) \/ OpenSourceFails(r)
  \/ Probe(r) \/ ProbeFails(r)
  \/ CreateTmp(r) \/ Copy(r) \/ Publish(r) \/ ExportFails(r)
  \/ Record(r) \/ Rollback(r)
  \/ Lookup(r) \/ LookupFails(r) \/ Remove(r) \/ Clear(r) \/ Drop(r) \/ Unlist(r)
  \/ StepFails(r) \/ Respond(r)

Next ==
  \/ \E r \in Request : \E a \in Act : \E f \in File : Begin(r, a, f)
  \/ \E r \in Request : Serve(r)
  \/ \E d \in Dir : SetPicksDir(d)
  \/ Crash

\* A goroutine that can run is run eventually; clients need not send anything.
Fairness == \A r \in Request : WF_vars(Serve(r))

Spec == Init /\ [][Next]_vars /\ Fairness

-----------------------------------------------------------------------------
(* Properties                                                              *)

TypeOK ==
  /\ picksDir \in Dir
  /\ state \in [File -> Mark]
  /\ exported \in [File -> Path \cup {None}]
  /\ fs \in [Path -> Inode \cup {None}]
  /\ tmp \in [Path -> Inode \cup {None}]
  /\ data \in [Inode -> Content \cup {Torn}]
  /\ pc \in [Request -> Label]
  /\ job \in [Request -> Job \cup {None}]
  /\ current \in [Request -> Mark]
  /\ slot \in [Request -> Nat \ {0}]
  /\ target \in [Request -> Path \cup {None}]
  /\ src \in [Request -> Inode \cup {None}]
  /\ dst \in [Request -> Inode \cup {None}]

HasCopy(f) ==
  /\ exported[f] # None
  /\ fs[exported[f]] # None
  /\ data[fs[exported[f]]] = Original(f)

\* "Keep DB consistent with disk": between two requests for a file, a picked
\* file has a complete copy at its exported_path and no other file has a path.
Consistent ==
  \A f \in File : ~ Busy(f) =>
    IF state[f] = "picked" THEN HasCopy(f) ELSE exported[f] = None

\* No copy is left behind: whatever the service put into a picks folder is some
\* file's exported_path, or a request is still working on it.
NoOrphan ==
  \A p \in Path : (fs[p] # None /\ Disk[p] = None) =>
    \/ \E f \in File : exported[f] = p
    \/ \E r \in Request : target[r] = p

\* A 200 answer tells the truth: when it leaves, the row and the picks folder
\* are as the action promises.
AnswerHolds ==
  \A r \in Request : At(r, "ok") =>
    LET f == FileOf(r)
        a == job[r].act
    IN  /\ a = "pick" => state[f] = "picked" /\ HasCopy(f)
        /\ a = "reject" => state[f] = "rejected" /\ exported[f] = None
        /\ a = "unpick" => state[f] # "picked"
        /\ a = "unreject" => state[f] # "rejected"

KeepsOriginals ==
  \A f \in File :
    /\ fs'[Source[f]] = fs[Source[f]]
    /\ fs[Source[f]] # None => data'[fs[Source[f]]] = data[fs[Source[f]]]

\* "Originals are sacred": no step of the service replaces, removes or writes
\* an original.
OriginalsUntouched == [][KeepsOriginals]_vars

\* Where a step of the service takes a file away from a path in a picks folder,
\* it was the copy of exactly one file, which recorded it.
OnlyOwnCopiesGo ==
  [][\A p \in Path : (fs[p] # None /\ fs'[p] # fs[p]) =>
       \E f \in File :
         /\ exported[f] = p
         /\ data[fs[p]] = Original(f)
         /\ \A g \in File \ {f} : exported[g] # p]_vars

Users(p) == Disk[p] # None /\ \A f \in File : Disk[p] # Original(f)

KeepsUsersFiles ==
  \A p \in Path : Users(p) => fs'[p] = fs[p] /\ data'[p] = data[p]

\* A file the user keeps in the picks folder, with a content no original has, is
\* neither overwritten nor removed, however many clients act at once: the suffix
\* rule of resolveTarget.
UsersFilesStay == [][KeepsUsersFiles]_vars

\* Nobody ever sees half a file under a final name, at any interleaving and
\* across restarts.
NoTornFile == \A p \in Path : fs[p] # None => data[fs[p]] # Torn

\* Re-export idempotency: a file is never exported twice into one picks folder.
NoDuplicateCopy ==
  \A f \in File : \A d \in Dir :
    Cardinality({n \in 1 .. Len(Slots[d][f]) :
                   LET i == fs[Slots[d][f][n]] IN i # None /\ data[i] = Original(f)}) <= 1
=============================================================================
