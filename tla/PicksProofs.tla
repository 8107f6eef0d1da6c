---------------------------- MODULE PicksProofs ----------------------------
(***************************************************************************)
(* Theorems about Picks for any files, requests, paths and picks folders.  *)
(***************************************************************************)
EXTENDS Picks, PicksRefinement, FiniteSetTheorems, TLAPS

Working == Label \ {"idle"}

\* What each stage of a request knows about its job, its candidate and its
\* handles.  The type invariant is inductive only together with it.
StagesOK ==
  \A r \in Request :
    /\ pc[r] \in Working => job[r] \in Job
    /\ pc[r] = "probe" => slot[r] \in 1 .. Len(Candidates(r))
    /\ pc[r] \in {"probe", "create", "copy"} => src[r] \in Inode
    /\ pc[r] \in {"copy", "publish"} => dst[r] \in Inode
    /\ pc[r] \in {"create", "copy", "publish", "remove"} => target[r] \in Root(r)
    /\ pc[r] = "record" => target[r] \in Path

TypeInv == TypeOK /\ StagesOK

USE DEF rows, disk, locals, Goto, At, FileOf, Root, Candidates, Working

LEMMA InitTypeInv == Init => TypeInv
BY PathAssumption DEF Init, TypeInv, TypeOK, StagesOK, Inode, Mark, Label

LEMMA BeginTypeInv ==
  ASSUME TypeInv, NEW r \in Request, NEW a \in Act, NEW f \in File, Begin(r, a, f)
  PROVE  TypeInv'
<1>1. [act |-> a, file |-> f, dir |-> picksDir] \in Job /\ None \notin Job
  BY PathAssumption DEF TypeInv, TypeOK, Job
<1>2. /\ pc[r] = "idle" /\ Goto(r, "load")
      /\ job' = [job EXCEPT ![r] = [act |-> a, file |-> f, dir |-> picksDir]]
      /\ UNCHANGED <<picksDir, rows, disk, current, slot, target, src, dst>>
  BY DEF Begin
<1>3. TypeOK'
  BY <1>1, <1>2 DEF TypeInv, TypeOK, Label
<1>4. StagesOK'
  <2>1. pc'[r] = "load" /\ job'[r] \in Job
    BY <1>1, <1>2 DEF TypeInv, TypeOK
  <2>. SUFFICES ASSUME NEW q \in Request
       PROVE  /\ pc'[q] \in Working => job'[q] \in Job
              /\ pc'[q] = "probe" => slot'[q] \in 1 .. Len(Candidates(q)')
              /\ pc'[q] \in {"probe", "create", "copy"} => src'[q] \in Inode
              /\ pc'[q] \in {"copy", "publish"} => dst'[q] \in Inode
              /\ pc'[q] \in {"create", "copy", "publish", "remove"}
                   => target'[q] \in Root(q)'
              /\ pc'[q] = "record" => target'[q] \in Path
    BY DEF StagesOK
  <2>2. CASE q = r
    BY <2>1, <2>2
  <2>3. CASE q # r
    <3>1. pc'[q] = pc[q] /\ job'[q] = job[q]
      BY <1>2, <2>3 DEF TypeInv, TypeOK
    <3>. QED
      BY <1>2, <3>1 DEF TypeInv, StagesOK
  <2>. QED
    BY <2>2, <2>3
<1>. QED
  BY <1>3, <1>4 DEF TypeInv

LEMMA JobFacts ==
  ASSUME TypeInv, NEW r \in Request, pc[r] # "idle"
  PROVE  /\ job[r] \in Job
         /\ FileOf(r) \in File
         /\ Root(r) \subseteq Path
         /\ Candidates(r) \in Seq(Path) /\ Len(Candidates(r)) > 0
BY PathAssumption DEF TypeInv, TypeOK, StagesOK, Label, Job

LEMMA LoadTypeInv ==
  ASSUME TypeInv, NEW r \in Request, Load(r)
  PROVE  TypeInv'
<1>1. job[r] \in Job /\ FileOf(r) \in File /\ pc[r] = "load"
  BY JobFacts DEF Load
<1>2. PICK s \in Seen(FileOf(r)) : current' = [current EXCEPT ![r] = s]
  BY DEF Load
<1>3. s \in Mark
  BY <1>1 DEF Seen, TypeInv, TypeOK, Mark
<1>4. PICK l \in {"ok", "mark", "lookup", "drop"} : Goto(r, l)
  BY DEF Load
<1>5. UNCHANGED <<picksDir, rows, disk, job, slot, target, src, dst>>
  BY DEF Load
<1>. QED
  BY <1>1, <1>2, <1>3, <1>4, <1>5 DEF TypeInv, TypeOK, StagesOK, Label

LEMMA SetStateTypeInv ==
  ASSUME TypeInv, NEW r \in Request, SetState(r)
  PROVE  TypeInv'
<1>1. job[r] \in Job /\ FileOf(r) \in File /\ Root(r) \subseteq Path
  BY JobFacts DEF SetState
<1>. QED
  BY <1>1, JobFacts, PathAssumption DEF SetState, TypeInv, TypeOK, StagesOK, Label, Mark

LEMMA OpenSourceTypeInv ==
  ASSUME TypeInv, NEW r \in Request, OpenSource(r)
  PROVE  TypeInv'
<1>1. job[r] \in Job /\ FileOf(r) \in File /\ Len(Candidates(r)) > 0
  BY JobFacts DEF OpenSource
<1>2. Source[FileOf(r)] \in Path
  BY <1>1, PathAssumption
<1>3. fs[Source[FileOf(r)]] \in Inode
  BY <1>2 DEF OpenSource, TypeInv, TypeOK
<1>4. TypeOK'
  BY <1>3 DEF OpenSource, TypeInv, TypeOK, Label
<1>5. StagesOK'
  <2>1. Len(Candidates(r)) \in Nat
    BY JobFacts DEF OpenSource
  <2>2. 1 \in 1 .. Len(Candidates(r))
    BY <1>1, <2>1
  <2>. QED
    BY <1>1, <1>3, <2>2 DEF OpenSource, TypeInv, TypeOK, StagesOK, Label
<1>. QED
  BY <1>4, <1>5 DEF TypeInv

LEMMA RecordTypeInv ==
  ASSUME TypeInv, NEW r \in Request, Record(r)
  PROVE  TypeInv'
<1>1. job[r] \in Job /\ FileOf(r) \in File /\ Root(r) \subseteq Path
  BY JobFacts DEF Record
<1>. QED
  BY <1>1, JobFacts, PathAssumption DEF Record, TypeInv, TypeOK, StagesOK, Label, Mark

LEMMA RollbackTypeInv ==
  ASSUME TypeInv, NEW r \in Request, Rollback(r)
  PROVE  TypeInv'
<1>1. job[r] \in Job /\ FileOf(r) \in File /\ Root(r) \subseteq Path
  BY JobFacts DEF Rollback
<1>. QED
  BY <1>1, JobFacts, PathAssumption DEF Rollback, DeleteRow, TypeInv, TypeOK, StagesOK, Label, Mark

LEMMA ClearTypeInv ==
  ASSUME TypeInv, NEW r \in Request, Clear(r)
  PROVE  TypeInv'
<1>1. job[r] \in Job /\ FileOf(r) \in File /\ Root(r) \subseteq Path
  BY JobFacts DEF Clear
<1>. QED
  BY <1>1, JobFacts, PathAssumption DEF Clear, AfterUnexport, TypeInv, TypeOK, StagesOK, Label, Mark

LEMMA DropTypeInv ==
  ASSUME TypeInv, NEW r \in Request, Drop(r)
  PROVE  TypeInv'
<1>1. job[r] \in Job /\ FileOf(r) \in File /\ Root(r) \subseteq Path
  BY JobFacts DEF Drop
<1>. QED
  BY <1>1, JobFacts, PathAssumption DEF Drop, DeleteRow, TypeInv, TypeOK, StagesOK, Label, Mark

LEMMA UnlistTypeInv ==
  ASSUME TypeInv, NEW r \in Request, Unlist(r)
  PROVE  TypeInv'
<1>1. job[r] \in Job /\ FileOf(r) \in File /\ Root(r) \subseteq Path
  BY JobFacts DEF Unlist
<1>. QED
  BY <1>1, JobFacts, PathAssumption DEF Unlist, TypeInv, TypeOK, StagesOK, Label, Mark

LEMMA StepFailsTypeInv ==
  ASSUME TypeInv, NEW r \in Request, StepFails(r)
  PROVE  TypeInv'
<1>1. job[r] \in Job /\ FileOf(r) \in File /\ Root(r) \subseteq Path
  BY JobFacts DEF StepFails
<1>. QED
  BY <1>1, JobFacts, PathAssumption DEF StepFails, TypeInv, TypeOK, StagesOK, Label, Mark

LEMMA LookupTypeInv ==
  ASSUME TypeInv, NEW r \in Request, Lookup(r)
  PROVE  TypeInv'
<1>1. job[r] \in Job /\ FileOf(r) \in File /\ Root(r) \subseteq Path /\ pc[r] = "lookup"
  BY JobFacts DEF Lookup
<1>2. \/ /\ UNCHANGED target
         /\ \E l \in {"drop", "mark", "clear"} : Goto(r, l)
      \/ /\ Goto(r, "remove")
         /\ exported[FileOf(r)] \in Root(r)
         /\ target' = [target EXCEPT ![r] = exported[FileOf(r)]]
  BY DEF Lookup, AfterUnexport
<1>3. UNCHANGED <<picksDir, rows, disk, job, current, slot, src, dst>>
  BY DEF Lookup
<1>4. TypeOK'
  BY <1>1, <1>2, <1>3 DEF TypeInv, TypeOK, Label
<1>5. StagesOK'
  BY <1>1, <1>2, <1>3 DEF TypeInv, TypeOK, StagesOK, Label
<1>. QED
  BY <1>4, <1>5 DEF TypeInv

LEMMA LookupFailsTypeInv ==
  ASSUME TypeInv, NEW r \in Request, LookupFails(r)
  PROVE  TypeInv'
<1>1. job[r] \in Job /\ FileOf(r) \in File /\ Root(r) \subseteq Path
  BY JobFacts DEF LookupFails
<1>. QED
  BY <1>1, JobFacts, PathAssumption DEF LookupFails, TypeInv, TypeOK, StagesOK, Label, Mark

LEMMA RemoveTypeInv ==
  ASSUME TypeInv, NEW r \in Request, Remove(r)
  PROVE  TypeInv'
<1>1. job[r] \in Job /\ FileOf(r) \in File /\ Root(r) \subseteq Path
  BY JobFacts DEF Remove
<1>. QED
  BY <1>1, JobFacts, PathAssumption DEF Remove, TypeInv, TypeOK, StagesOK, Label, Mark

LEMMA PublishTypeInv ==
  ASSUME TypeInv, NEW r \in Request, Publish(r)
  PROVE  TypeInv'
<1>1. job[r] \in Job /\ FileOf(r) \in File /\ Root(r) \subseteq Path
  BY JobFacts DEF Publish
<1>. QED
  BY <1>1, JobFacts, PathAssumption DEF Publish, TypeInv, TypeOK, StagesOK, Label, Mark

LEMMA CopyTypeInv ==
  ASSUME TypeInv, NEW r \in Request, Copy(r)
  PROVE  TypeInv'
<1>1. job[r] \in Job /\ FileOf(r) \in File /\ Root(r) \subseteq Path
  BY JobFacts DEF Copy
<1>. QED
  BY <1>1, JobFacts, PathAssumption DEF Copy, TypeInv, TypeOK, StagesOK, Label, Mark

LEMMA OpenSourceFailsTypeInv ==
  ASSUME TypeInv, NEW r \in Request, OpenSourceFails(r)
  PROVE  TypeInv'
<1>1. job[r] \in Job /\ FileOf(r) \in File /\ Root(r) \subseteq Path
  BY JobFacts DEF OpenSourceFails
<1>. QED
  BY <1>1, JobFacts, PathAssumption DEF OpenSourceFails, FailExport, TypeInv, TypeOK, StagesOK, Label, Mark

LEMMA ProbeFailsTypeInv ==
  ASSUME TypeInv, NEW r \in Request, ProbeFails(r)
  PROVE  TypeInv'
<1>1. job[r] \in Job /\ FileOf(r) \in File /\ Root(r) \subseteq Path
  BY JobFacts DEF ProbeFails
<1>. QED
  BY <1>1, JobFacts, PathAssumption DEF ProbeFails, FailExport, TypeInv, TypeOK, StagesOK, Label, Mark

LEMMA ExportFailsTypeInv ==
  ASSUME TypeInv, NEW r \in Request, ExportFails(r)
  PROVE  TypeInv'
<1>1. job[r] \in Job /\ FileOf(r) \in File /\ pc[r] # "idle"
  BY JobFacts DEF ExportFails
<1>2. tmp' \in [Path -> Inode \cup {None}]
  BY DEF ExportFails, TypeInv, TypeOK
<1>3. FailExport(r)
  BY DEF ExportFails
<1>4. TypeOK'
  BY <1>2, <1>3 DEF FailExport, TypeInv, TypeOK, Label
<1>5. StagesOK'
  BY <1>1, <1>3 DEF FailExport, TypeInv, TypeOK, StagesOK, Label
<1>. QED
  BY <1>4, <1>5 DEF TypeInv

LEMMA ProbeTypeInv ==
  ASSUME TypeInv, NEW r \in Request, Probe(r)
  PROVE  TypeInv'
<1> DEFINE p == Candidates(r)[slot[r]]
<1>1. job[r] \in Job /\ FileOf(r) \in File /\ Candidates(r) \in Seq(Path) /\ pc[r] = "probe"
  BY JobFacts DEF Probe
<1>2. slot[r] \in 1 .. Len(Candidates(r)) /\ src[r] \in Inode
  BY <1>1 DEF TypeInv, StagesOK
<1>3. p \in Path
  BY <1>1, <1>2
<1>4. CASE /\ p \in Root(r)
           /\ target' = [target EXCEPT ![r] = p]
           /\ Goto(r, "create")
           /\ UNCHANGED <<slot, src>>
  BY <1>1, <1>2, <1>3, <1>4 DEF Probe, TypeInv, TypeOK, StagesOK, Label
<1>5. CASE /\ target' = [target EXCEPT ![r] = p]
           /\ src' = [src EXCEPT ![r] = None]
           /\ Goto(r, "record")
           /\ UNCHANGED slot
  BY <1>1, <1>3, <1>5 DEF Probe, TypeInv, TypeOK, StagesOK, Label
<1>6. CASE /\ slot[r] < Len(Candidates(r))
           /\ slot' = [slot EXCEPT ![r] = @ + 1]
           /\ UNCHANGED <<pc, target, src>>
  <2>1. slot[r] + 1 \in 1 .. Len(Candidates(r)) /\ slot[r] + 1 \in Nat \ {0}
    BY <1>1, <1>2, <1>6
  <2>. QED
    BY <1>1, <1>6, <2>1 DEF Probe, TypeInv, TypeOK, StagesOK, Label
<1>. QED
  BY <1>4, <1>5, <1>6 DEF Probe

LEMMA CreateTmpTypeInv ==
  ASSUME TypeInv, NEW r \in Request, CreateTmp(r)
  PROVE  TypeInv'
<1>1. job[r] \in Job /\ FileOf(r) \in File /\ Root(r) \subseteq Path
  BY JobFacts DEF CreateTmp
<1>. QED
  BY <1>1, JobFacts, PathAssumption DEF CreateTmp, InUse, TypeInv, TypeOK, StagesOK, Label, Mark

LEMMA RespondTypeInv ==
  ASSUME TypeInv, NEW r \in Request, Respond(r)
  PROVE  TypeInv'
<1>1. job[r] \in Job /\ FileOf(r) \in File /\ Root(r) \subseteq Path
  BY JobFacts DEF Respond
<1>. QED
  BY <1>1, JobFacts, PathAssumption DEF Respond, ForgetLocals, TypeInv, TypeOK, StagesOK, Label, Mark

LEMMA CrashTypeInv ==
  ASSUME TypeInv, Crash
  PROVE  TypeInv'
BY PathAssumption DEF Crash, ForgetLocals, TypeInv, TypeOK, StagesOK, Label, Mark

LEMMA NextTypeInv == TypeInv /\ [Next]_vars => TypeInv'
<1>1. ASSUME TypeInv, Next
      PROVE  TypeInv'
  <2>1. CASE \E r \in Request : \E a \in Act : \E f \in File : Begin(r, a, f)
    BY <1>1, <2>1, BeginTypeInv
  <2>2. CASE \E r \in Request : Serve(r)
    BY <1>1, <2>2, LoadTypeInv, SetStateTypeInv, OpenSourceTypeInv, OpenSourceFailsTypeInv,
       ProbeTypeInv, ProbeFailsTypeInv, CreateTmpTypeInv, CopyTypeInv, PublishTypeInv,
       ExportFailsTypeInv, RecordTypeInv, RollbackTypeInv, LookupTypeInv, LookupFailsTypeInv,
       RemoveTypeInv, ClearTypeInv, DropTypeInv, UnlistTypeInv, StepFailsTypeInv,
       RespondTypeInv DEF Serve
  <2>3. CASE \E d \in Dir : SetPicksDir(d)
    BY <1>1, <2>3 DEF SetPicksDir, TypeInv, TypeOK, StagesOK
  <2>4. CASE Crash
    BY <1>1, <2>4, CrashTypeInv
  <2>. QED
    BY <1>1, <2>1, <2>2, <2>3, <2>4 DEF Next
<1>2. ASSUME TypeInv, UNCHANGED vars
      PROVE  TypeInv'
  BY <1>2 DEF vars, TypeInv, TypeOK, StagesOK
<1>. QED
  BY <1>1, <1>2

LEMMA TypeInvHolds == Spec => []TypeInv
BY InitTypeInv, NextTypeInv, PTL DEF Spec

\* Every variable keeps its type, and every stage of a request has the job, the
\* candidate and the handles it is about to use.
THEOREM TypeCorrect == Spec => []TypeOK
<1>1. TypeInv => TypeOK
  BY DEF TypeInv
<1>. QED
  BY <1>1, TypeInvHolds, PTL

-----------------------------------------------------------------------------
(* Originals.  No stage ever writes to the inode of an original: neither a *)
(* tmp name nor the destination handle of a request refers to one.  This   *)
(* needs the picks folders to be apart from the originals, which is what   *)
(* the run picks_originals refutes for a picks_dir that holds originals.   *)

OriginalsOutside == \A f \in File : \A d \in Dir : Source[f] \notin Within[d]

OriginalsApart ==
  \A f \in File : fs[Source[f]] # None =>
    /\ \A p \in Path : tmp[p] # fs[Source[f]]
    /\ \A r \in Request : dst[r] # fs[Source[f]]

\* One step of a request, with the originals out of its reach.
LEMMA ServeKeepsOriginals ==
  ASSUME OriginalsOutside, TypeInv, OriginalsApart, NEW r \in Request, Serve(r),
         NEW f \in File
  PROVE  /\ fs'[Source[f]] = fs[Source[f]]
         /\ fs[Source[f]] # None =>
              /\ data'[fs[Source[f]]] = data[fs[Source[f]]]
              /\ \A p \in Path : tmp'[p] # fs[Source[f]]
              /\ \A q \in Request : dst'[q] # fs[Source[f]]
<1> DEFINE i == fs[Source[f]]
<1>1. Source[f] \in Path /\ fs \in [Path -> Inode \cup {None}] /\ None \notin Inode
  BY PathAssumption DEF TypeInv, TypeOK
<1>2. CASE UNCHANGED disk /\ UNCHANGED dst
  BY <1>2 DEF OriginalsApart
<1>3. CASE FailExport(r) /\ tmp' \in {tmp, [tmp EXCEPT ![target[r]] = None]}
  BY <1>1, <1>3 DEF FailExport, OriginalsApart, TypeInv, TypeOK
<1>4. CASE CreateTmp(r)
  <2> DEFINE n == IF tmp[target[r]] # None THEN tmp[target[r]]
                  ELSE CHOOSE m \in Inode \ InUse : TRUE
  <2>1. target[r] \in Path
    BY <1>4, PathAssumption, JobFacts DEF CreateTmp, TypeInv, TypeOK, StagesOK
  <2>2. i # None => n # i
    <3>1. CASE tmp[target[r]] # None
      BY <2>1, <3>1 DEF OriginalsApart
    <3>2. CASE tmp[target[r]] = None
      <4>1. n \in Inode \ InUse
        BY <1>4, <3>2 DEF CreateTmp
      <4>2. i \in InUse
        BY <1>1 DEF InUse
      <4>. QED
        BY <4>1, <4>2
    <3>. QED
      BY <3>1, <3>2
  <2>3. /\ tmp' = [tmp EXCEPT ![target[r]] = n]
        /\ data' = [data EXCEPT ![n] = Torn]
        /\ dst' = [dst EXCEPT ![r] = n]
        /\ fs' = fs
    BY <1>4 DEF CreateTmp
  <2>. QED
    BY <1>1, <2>2, <2>3 DEF OriginalsApart, TypeInv, TypeOK
<1>5. CASE Copy(r)
  BY <1>1, <1>5 DEF Copy, OriginalsApart, TypeInv, TypeOK
<1>6. CASE Publish(r)
  <2>1. target[r] \in Root(r) /\ target[r] # Source[f]
    BY <1>6, JobFacts, PathAssumption DEF Publish, OriginalsOutside, TypeInv, StagesOK, Job
  <2>. QED
    BY <1>1, <1>6, <2>1 DEF Publish, OriginalsApart, TypeInv, TypeOK
<1>7. CASE Remove(r)
  <2>1. target[r] \in Root(r) /\ target[r] # Source[f]
    BY <1>7, JobFacts, PathAssumption DEF Remove, OriginalsOutside, TypeInv, StagesOK, Job
  <2>. QED
    BY <1>1, <1>7, <2>1 DEF Remove, OriginalsApart, TypeInv, TypeOK
<1>8. CASE Respond(r)
  BY <1>1, <1>8 DEF Respond, ForgetLocals, OriginalsApart
<1>. QED
  BY <1>2, <1>3, <1>4, <1>5, <1>6, <1>7, <1>8
     DEF Serve, Load, SetState, OpenSource, OpenSourceFails, Probe, ProbeFails, ExportFails,
         Record, Rollback, Lookup, LookupFails, Clear, Drop, Unlist, StepFails

LEMMA NextKeepsOriginals ==
  ASSUME OriginalsOutside, TypeInv, OriginalsApart, [Next]_vars
  PROVE  OriginalsApart' /\ KeepsOriginals
<1>1. CASE \E r \in Request : \E a \in Act : \E f \in File : Begin(r, a, f)
  BY <1>1 DEF Begin, OriginalsApart, KeepsOriginals
<1>2. CASE \E r \in Request : Serve(r)
  BY <1>2, ServeKeepsOriginals DEF OriginalsApart, KeepsOriginals
<1>3. CASE \E d \in Dir : SetPicksDir(d)
  BY <1>3 DEF SetPicksDir, OriginalsApart, KeepsOriginals
<1>4. CASE Crash
  BY <1>4 DEF Crash, ForgetLocals, OriginalsApart, KeepsOriginals
<1>5. CASE UNCHANGED vars
  BY <1>5 DEF vars, OriginalsApart, KeepsOriginals
<1>. QED
  BY <1>1, <1>2, <1>3, <1>4, <1>5 DEF Next

\* "Originals are sacred": as long as no picks_dir contains an original, no
\* interleaving of requests, failed calls and restarts changes one.
THEOREM OriginalsSafe ==
  ASSUME OriginalsOutside
  PROVE  Spec => OriginalsUntouched
<1>1. Init => OriginalsApart
  BY PathAssumption DEF Init, OriginalsApart
<1>2. TypeInv /\ OriginalsApart /\ [Next]_vars => OriginalsApart'
  BY NextKeepsOriginals
<1>3. TypeInv /\ OriginalsApart /\ [Next]_vars => [KeepsOriginals]_vars
  BY NextKeepsOriginals
<1>. QED
  BY <1>1, <1>2, <1>3, TypeInvHolds, PTL DEF Spec, OriginalsUntouched

-----------------------------------------------------------------------------
(* The user's own files in a picks folder.  Their content is no original's,*)
(* so resolveTarget passes them by: they never become a target, and a path *)
(* that never was a target is never recorded, hence never removed.         *)

UsersFilesApart ==
  \A p \in Path : Users(p) =>
    /\ fs[p] = p /\ data[p] = Disk[p]
    /\ \A q \in Path : tmp[q] # p
    /\ \A r \in Request : dst[r] # p /\ target[r] # p
    /\ \A f \in File : exported[f] # p

LEMMA ServeKeepsUsersFiles ==
  ASSUME TypeInv, UsersFilesApart, NEW r \in Request, Serve(r),
         NEW p \in Path, Users(p)
  PROVE  /\ fs'[p] = p /\ data'[p] = Disk[p]
         /\ \A q \in Path : tmp'[q] # p
         /\ \A q \in Request : dst'[q] # p /\ target'[q] # p
         /\ \A f \in File : exported'[f] # p
<1>1. p # None /\ fs[p] = p /\ data[p] = Disk[p] /\ p \in Inode
  BY PathAssumption DEF UsersFilesApart, Inode
<1>2. CASE UNCHANGED <<disk, dst, target, exported>>
  BY <1>2 DEF UsersFilesApart
<1>3. CASE FailExport(r) /\ tmp' \in {tmp, [tmp EXCEPT ![target[r]] = None]}
  BY <1>1, <1>3 DEF FailExport, UsersFilesApart, TypeInv, TypeOK
<1>4. CASE Probe(r)
  <2> DEFINE c == Candidates(r)[slot[r]]
  <2>1. FileOf(r) \in File
    BY <1>4, JobFacts DEF Probe
  <2>2. c = p => fs[c] # None /\ ~ SameHash(fs[c], FileOf(r))
    BY <1>1, <2>1 DEF SameHash, Users
  <2>3. target' = target \/ (c # p /\ target' = [target EXCEPT ![r] = c])
    BY <1>4, <2>2 DEF Probe
  <2>4. UNCHANGED <<rows, disk, dst>>
    BY <1>4 DEF Probe
  <2>. QED
    BY <2>3, <2>4 DEF UsersFilesApart, TypeInv, TypeOK
<1>5. CASE CreateTmp(r)
  <2> DEFINE n == IF tmp[target[r]] # None THEN tmp[target[r]]
                  ELSE CHOOSE m \in Inode \ InUse : TRUE
  <2>1. target[r] \in Path
    BY <1>5, PathAssumption, JobFacts DEF CreateTmp, TypeInv, TypeOK, StagesOK
  <2>2. n # p
    <3>1. CASE tmp[target[r]] # None
      BY <2>1, <3>1 DEF UsersFilesApart
    <3>2. CASE tmp[target[r]] = None
      <4>1. n \in Inode \ InUse
        BY <1>5, <3>2 DEF CreateTmp
      <4>2. p \in InUse
        BY <1>1 DEF InUse
      <4>. QED
        BY <4>1, <4>2
    <3>. QED
      BY <3>1, <3>2
  <2>3. /\ tmp' = [tmp EXCEPT ![target[r]] = n]
        /\ data' = [data EXCEPT ![n] = Torn]
        /\ dst' = [dst EXCEPT ![r] = n]
        /\ UNCHANGED <<fs, target, exported>>
    BY <1>5 DEF CreateTmp
  <2>. QED
    BY <1>1, <2>2, <2>3 DEF UsersFilesApart, TypeInv, TypeOK
<1>6. CASE Copy(r)
  BY <1>1, <1>6 DEF Copy, UsersFilesApart, TypeInv, TypeOK
<1>7. CASE Publish(r)
  BY <1>1, <1>7 DEF Publish, UsersFilesApart, TypeInv, TypeOK
<1>8. CASE Remove(r)
  BY <1>1, <1>8 DEF Remove, UsersFilesApart, TypeInv, TypeOK
<1>9. CASE Record(r) \/ Rollback(r) \/ Clear(r) \/ Drop(r) \/ Unlist(r)
  BY <1>1, <1>9 DEF Record, Rollback, Clear, Drop, Unlist, DeleteRow, UsersFilesApart,
     TypeInv, TypeOK
<1>10. CASE Lookup(r)
  <2>1. FileOf(r) \in File
    BY <1>10, JobFacts DEF Lookup
  <2>2. target' = target \/ target' = [target EXCEPT ![r] = exported[FileOf(r)]]
    BY <1>10 DEF Lookup
  <2>3. UNCHANGED <<rows, disk, dst>>
    BY <1>10 DEF Lookup
  <2>. QED
    BY <2>1, <2>2, <2>3 DEF UsersFilesApart, TypeInv, TypeOK
<1>11. CASE Respond(r)
  BY <1>1, <1>11 DEF Respond, ForgetLocals, UsersFilesApart
<1>. QED
  BY <1>2, <1>3, <1>4, <1>5, <1>6, <1>7, <1>8, <1>9, <1>10, <1>11
     DEF Serve, Load, SetState, OpenSource, OpenSourceFails, ProbeFails, ExportFails,
         LookupFails, StepFails

LEMMA NextKeepsUsersFiles ==
  ASSUME TypeInv, UsersFilesApart, [Next]_vars
  PROVE  UsersFilesApart' /\ KeepsUsersFiles
<1>1. CASE \E r \in Request : \E a \in Act : \E f \in File : Begin(r, a, f)
  BY <1>1 DEF Begin, UsersFilesApart, KeepsUsersFiles
<1>2. CASE \E r \in Request : Serve(r)
  <2>1. UsersFilesApart'
    BY <1>2, ServeKeepsUsersFiles DEF UsersFilesApart, Users
  <2>. QED
    BY <2>1 DEF UsersFilesApart, KeepsUsersFiles, Users
<1>3. CASE \E d \in Dir : SetPicksDir(d)
  BY <1>3 DEF SetPicksDir, UsersFilesApart, KeepsUsersFiles
<1>4. CASE Crash
  BY <1>4, PathAssumption DEF Crash, ForgetLocals, UsersFilesApart, KeepsUsersFiles
<1>5. CASE UNCHANGED vars
  BY <1>5 DEF vars, UsersFilesApart, KeepsUsersFiles
<1>. QED
  BY <1>1, <1>2, <1>3, <1>4, <1>5 DEF Next

\* A user's file in a picks folder outlives every interleaving of requests,
\* every failed call and every restart: resolveTarget's suffix rule protects it.
THEOREM UsersFilesSafe == Spec => UsersFilesStay
<1>1. Init => UsersFilesApart
  BY PathAssumption DEF Init, UsersFilesApart, Users, Inode
<1>2. TypeInv /\ UsersFilesApart /\ [Next]_vars => UsersFilesApart'
  BY NextKeepsUsersFiles
<1>3. TypeInv /\ UsersFilesApart /\ [Next]_vars => [KeepsUsersFiles]_vars
  BY NextKeepsUsersFiles
<1>. QED
  BY <1>1, <1>2, <1>3, TypeInvHolds, PTL DEF Spec, UsersFilesStay

-----------------------------------------------------------------------------
(* Clients that wait for an answer before they act on a file again, and    *)
(* folders in which no path is a candidate twice.                          *)

\* Two candidates are never the same path.  The run picks_suffix shows what
\* happens otherwise.
SlotsApart ==
  \A d, e \in Dir : \A f, g \in File :
    \A n \in 1 .. Len(Slots[d][f]), m \in 1 .. Len(Slots[e][g]) :
      Slots[d][f][n] = Slots[e][g][m] => d = e /\ f = g /\ n = m

SlotOf(f) == {p \in Path : \E d \in Dir : \E n \in 1 .. Len(Slots[d][f]) : p = Slots[d][f][n]}

-----------------------------------------------------------------------------
(* Who holds what                                                          *)

\* A file has one request at most, and a request that is served has a job.
OneEach ==
  /\ \A r \in Request : pc[r] = "idle" <=> job[r] = None
  /\ \A r, q \in Request :
       job[r] # None /\ job[q] # None /\ FileOf(r) = FileOf(q) => r = q

\* Requests and rows keep to the candidates of their files.
OwnSlots ==
  /\ \A f \in File : exported[f] # None => exported[f] \in SlotOf(f)
  /\ \A r \in Request : target[r] # None => job[r] # None /\ target[r] \in SlotOf(FileOf(r))

\* What is open for writing is the temporary file of the own target; no file
\* under a final name, and none open for reading, is a temporary one.
Handles ==
  /\ \A r \in Request : dst[r] # None =>
       pc[r] \in {"copy", "publish"} /\ dst[r] = tmp[target[r]]
  /\ \A r \in Request : src[r] # None => pc[r] \in {"probe", "create", "copy", "publish"}
  /\ \A p, q \in Path : tmp[p] # None /\ tmp[p] = tmp[q] => p = q
  /\ \A p, q \in Path : fs[p] # None => fs[p] # tmp[q]
  /\ \A r \in Request : \A q \in Path : src[r] # None => src[r] # tmp[q]

\* What can be read is complete.
Whole ==
  /\ NoTornFile
  /\ \A r \in Request : src[r] # None => data[src[r]] # Torn
  /\ \A r \in Request : pc[r] = "publish" => data[dst[r]] # Torn

WholeInv == TypeInv /\ OneEach /\ OwnSlots /\ Handles /\ Whole

LEMMA SlotsDisjoint ==
  ASSUME SlotsApart, NEW f \in File, NEW g \in File, NEW p \in SlotOf(f), p \in SlotOf(g)
  PROVE  f = g
BY DEF SlotsApart, SlotOf

LEMMA SlotIsSlot ==
  ASSUME NEW d \in Dir, NEW f \in File, NEW n \in 1 .. Len(Slots[d][f])
  PROVE  Slots[d][f][n] \in Path /\ Slots[d][f][n] \in SlotOf(f)
<1>1. Slots[d][f] \in Seq(Path)
  BY PathAssumption
<1>2. Slots[d][f][n] \in Path
  BY <1>1
<1>. QED
  BY <1>2 DEF SlotOf

LEMMA CandidateIsSlot ==
  ASSUME TypeInv, NEW r \in Request, pc[r] # "idle", NEW n \in 1 .. Len(Candidates(r))
  PROVE  Candidates(r)[n] \in Path /\ Candidates(r)[n] \in SlotOf(FileOf(r))
<1>1. job[r] \in Job
  BY JobFacts
<1>. QED
  BY <1>1, SlotIsSlot DEF Job

\* What a step of one request leaves alone: the locals of the others, the rows
\* of other files, and every path but its target.
LEMMA ServeLocals ==
  ASSUME TypeInv, NEW q \in Request, Serve(q)
  PROVE  /\ pc[q] # "idle"
         /\ \A r \in Request \ {q} :
              /\ pc'[r] = pc[r] /\ job'[r] = job[r] /\ current'[r] = current[r]
              /\ slot'[r] = slot[r] /\ target'[r] = target[r]
              /\ src'[r] = src[r] /\ dst'[r] = dst[r]
         /\ Respond(q) \/ (job' = job /\ pc'[q] # "idle")
<1>1. CASE Load(q)
  BY <1>1 DEF Load, TypeInv, TypeOK
<1>2. CASE Probe(q)
  BY <1>2 DEF Probe, TypeInv, TypeOK
<1>3. CASE Lookup(q)
  BY <1>3 DEF Lookup, AfterUnexport, TypeInv, TypeOK
<1>4. CASE SetState(q) \/ Record(q) \/ Clear(q) \/ Unlist(q)
  BY <1>4 DEF SetState, Record, Clear, Unlist, AfterUnexport, TypeInv, TypeOK
<1>5. CASE Rollback(q) \/ Drop(q) \/ LookupFails(q) \/ StepFails(q) \/ Remove(q)
  BY <1>5 DEF Rollback, Drop, LookupFails, StepFails, Remove, TypeInv, TypeOK
<1>6. CASE OpenSource(q) \/ CreateTmp(q) \/ Copy(q) \/ Publish(q)
  BY <1>6 DEF OpenSource, CreateTmp, Copy, Publish, TypeInv, TypeOK
<1>7. CASE pc[q] # "idle" /\ FailExport(q)
  BY <1>7 DEF FailExport, TypeInv, TypeOK
<1>8. CASE Respond(q)
  <2>1. pc[q] # "idle" /\ ForgetLocals({q})
    BY <1>8 DEF Respond
  <2>. QED
    BY <1>8, <2>1 DEF ForgetLocals
<1>. QED
  BY <1>1, <1>2, <1>3, <1>4, <1>5, <1>6, <1>7, <1>8
     DEF Serve, OpenSourceFails, ProbeFails, ExportFails

LEMMA ServeRows ==
  ASSUME TypeInv, NEW q \in Request, Serve(q), NEW f \in File, f # FileOf(q)
  PROVE  state'[f] = state[f] /\ exported'[f] = exported[f]
<1>1. CASE UNCHANGED rows
  BY <1>1
<1>2. CASE SetState(q) \/ Record(q) \/ Clear(q) \/ Unlist(q) \/ Rollback(q) \/ Drop(q)
  BY <1>2 DEF SetState, Record, Clear, Unlist, Rollback, Drop, DeleteRow, TypeInv, TypeOK
<1>. QED
  BY <1>1, <1>2 DEF Serve, Load, OpenSource, OpenSourceFails, Probe, ProbeFails, CreateTmp, Copy,
     Publish, ExportFails, FailExport, Lookup, LookupFails, Remove, StepFails, Respond

LEMMA ServePaths ==
  ASSUME TypeInv, NEW q \in Request, Serve(q), NEW p \in Path, p # target[q]
  PROVE  fs'[p] = fs[p] /\ tmp'[p] = tmp[p]
<1>1. CASE UNCHANGED <<fs, tmp>>
  BY <1>1
<1>2. CASE CreateTmp(q) \/ Publish(q) \/ Remove(q)
  BY <1>2 DEF CreateTmp, Publish, Remove, TypeInv, TypeOK
<1>3. CASE ExportFails(q)
  BY <1>3 DEF ExportFails, FailExport, TypeInv, TypeOK
<1>. QED
  BY <1>1, <1>2, <1>3 DEF Serve, Load, SetState, OpenSource, OpenSourceFails, Probe, ProbeFails,
     Copy, FailExport, Record, Rollback, Lookup, LookupFails, Clear, Drop, Unlist, StepFails, Respond

LEMMA ServeOneEach ==
  ASSUME TypeInv, OneEach, NEW q \in Request, Serve(q)
  PROVE  OneEach'
<1>1. CASE Respond(q)
  BY <1>1, PathAssumption DEF Respond, ForgetLocals, OneEach
<1>2. CASE job' = job /\ pc'[q] # "idle"
  BY <1>2, ServeLocals DEF OneEach
<1>. QED
  BY <1>1, <1>2, ServeLocals

LEMMA ServeOwnSlots ==
  ASSUME TypeInv, OneEach, OwnSlots, NEW q \in Request, Serve(q)
  PROVE  OwnSlots'
<1> DEFINE f == FileOf(q)
<1>1. f \in File /\ job[q] \in Job /\ job[q] # None /\ None \notin Path
  BY ServeLocals, JobFacts, PathAssumption
<1>2. \/ exported' = exported
      \/ exported' = [exported EXCEPT ![f] = None]
      \/ target[q] # None /\ exported' = [exported EXCEPT ![f] = target[q]]
  <2>1. CASE Record(q)
    BY <1>1, <2>1 DEF Record, TypeInv, StagesOK
  <2>2. CASE UNCHANGED exported
    BY <2>2
  <2>3. CASE Rollback(q) \/ Drop(q) \/ Clear(q) \/ Unlist(q)
    BY <2>3 DEF Rollback, Drop, Clear, Unlist, DeleteRow
  <2>. QED
    BY <2>1, <2>2, <2>3 DEF Serve, Load, SetState, OpenSource, OpenSourceFails, Probe, ProbeFails,
       CreateTmp, Copy, Publish, ExportFails, FailExport, Lookup, LookupFails, Remove, StepFails,
       Respond
<1>3. \A g \in File : exported'[g] # None => exported'[g] \in SlotOf(g)
  BY <1>1, <1>2 DEF OwnSlots, TypeInv, TypeOK
<1>4. \/ target' = target
      \/ Respond(q)
      \/ \E p \in SlotOf(f) : target' = [target EXCEPT ![q] = p]
  <2>1. CASE Probe(q)
    <3>1. Candidates(q)[slot[q]] \in SlotOf(f)
      BY <2>1, CandidateIsSlot DEF Probe, TypeInv, StagesOK
    <3>. QED
      BY <2>1, <3>1 DEF Probe
  <2>2. CASE Lookup(q)
    <3>1. Root(q) \subseteq Path
      BY <2>2, JobFacts DEF Lookup
    <3>2. exported[f] \in Root(q) => exported[f] \in SlotOf(f)
      BY <1>1, <3>1 DEF OwnSlots
    <3>. QED
      BY <2>2, <3>2 DEF Lookup
  <2>3. CASE UNCHANGED target
    BY <2>3
  <2>. QED
    BY <2>1, <2>2, <2>3 DEF Serve, Load, SetState, OpenSource, OpenSourceFails, ProbeFails,
       CreateTmp, Copy, Publish, ExportFails, FailExport, Record, Rollback, LookupFails, Remove,
       Clear, Drop, Unlist, StepFails
<1>5. ASSUME NEW r \in Request, target'[r] # None
      PROVE  job'[r] # None /\ target'[r] \in SlotOf(job'[r].file)
  <2>1. CASE Respond(q)
    BY <1>5, <2>1 DEF Respond, ForgetLocals, OwnSlots
  <2>2. CASE job' = job
    BY <1>1, <1>4, <1>5, <2>2 DEF Respond, ForgetLocals, OwnSlots, TypeInv, TypeOK
  <2>. QED
    BY <2>1, <2>2, ServeLocals
<1>. QED
  BY <1>3, <1>5 DEF OwnSlots, SlotOf

LEMMA HandleFacts ==
  ASSUME SlotsApart, TypeInv, OneEach, OwnSlots, Handles, NEW r \in Request, dst[r] # None
  PROVE  /\ target[r] \in Path /\ target[r] # None
         /\ dst[r] = tmp[target[r]]
         /\ \A q \in Request \ {r} : target[r] # target[q]
<1>1. pc[r] \in {"copy", "publish"} /\ dst[r] = tmp[target[r]]
  BY DEF Handles
<1>2. target[r] \in Path /\ target[r] # None
  BY <1>1, JobFacts, PathAssumption DEF TypeInv, StagesOK
<1>. QED
  BY <1>1, <1>2, SlotsDisjoint DEF OwnSlots, OneEach, TypeInv, TypeOK, Job

\* A step leaves the contents that anybody else can read, or has written, alone.
LEMMA ServeKeepsData ==
  ASSUME SlotsApart, TypeInv, OneEach, OwnSlots, Handles, NEW q \in Request, Serve(q)
  PROVE  /\ \A p \in Path : fs[p] # None => data'[fs[p]] = data[fs[p]]
         /\ \A r \in Request : src[r] # None => data'[src[r]] = data[src[r]]
         /\ \A r \in Request \ {q} : dst[r] # None => data'[dst[r]] = data[dst[r]]
         /\ data'[dst[q]] = data[dst[q]] \/ CreateTmp(q) \/ Copy(q)
<1>1. CASE CreateTmp(q)
  <2> DEFINE n == IF tmp[target[q]] # None THEN tmp[target[q]]
                  ELSE CHOOSE m \in Inode \ InUse : TRUE
  <2>1. target[q] \in Path /\ data' = [data EXCEPT ![n] = Torn]
    BY <1>1, PathAssumption, JobFacts DEF CreateTmp, TypeInv, TypeOK, StagesOK
  <2>2. n = tmp[target[q]] \/ n \in Inode \ InUse
    BY <1>1 DEF CreateTmp
  <2>. HIDE DEF n
  <2>3. \A p \in Path : fs[p] # None => fs[p] # n
    BY <2>1, <2>2 DEF Handles, InUse
  <2>4. \A r \in Request : src[r] # None => src[r] # n
    BY <2>1, <2>2 DEF Handles, InUse
  <2>5. \A r \in Request \ {q} : dst[r] # None => dst[r] # n
    BY <2>1, <2>2, HandleFacts DEF Handles, InUse
  <2>. QED
    BY <1>1, <2>1, <2>3, <2>4, <2>5 DEF TypeInv, TypeOK
<1>2. CASE Copy(q)
  <2>1. dst[q] \in Inode /\ dst[q] # None
    BY <1>2, PathAssumption DEF Copy, TypeInv, StagesOK
  <2>2. dst[q] = tmp[target[q]] /\ target[q] \in Path
    BY <1>2, <2>1, PathAssumption, JobFacts DEF Copy, Handles, TypeInv, TypeOK, StagesOK
  <2>3. \A r \in Request \ {q} : dst[r] # None => dst[r] # dst[q]
    BY <2>1, <2>2, HandleFacts DEF Handles
  <2>4. \A p \in Path : fs[p] # None => fs[p] # dst[q]
    BY <2>2 DEF Handles
  <2>5. \A r \in Request : src[r] # None => src[r] # dst[q]
    BY <2>2 DEF Handles
  <2>. QED
    BY <1>2, <2>3, <2>4, <2>5 DEF Copy, TypeInv, TypeOK
<1>3. CASE UNCHANGED data
  BY <1>3
<1>. QED
  BY <1>1, <1>2, <1>3 DEF Serve, Load, SetState, OpenSource, OpenSourceFails, Probe, ProbeFails,
     Publish, ExportFails, FailExport, Record, Rollback, Lookup, LookupFails, Remove, Clear, Drop,
     Unlist, StepFails, Respond
\* Only the requests that copy hold a destination, only those that export hold
\* a source.
LEMMA ServeHandles12 ==
  ASSUME SlotsApart, TypeInv, OneEach, OwnSlots, Handles, NEW q \in Request, Serve(q),
         NEW r \in Request
  PROVE  /\ dst'[r] # None => pc'[r] \in {"copy", "publish"} /\ dst'[r] = tmp'[target'[r]]
         /\ src'[r] # None => pc'[r] \in {"probe", "create", "copy", "publish"}
<1>1. CASE r # q
  <2>1. dst[r] # None => tmp'[target[r]] = tmp[target[r]]
    BY <1>1, HandleFacts, ServePaths
  <2>. QED
    BY <1>1, <2>1, ServeLocals DEF Handles
<1>2. CASE r = q /\ CreateTmp(q)
  <2>1. target[q] \in Path /\ tmp \in [Path -> Inode \cup {None}]
    BY <1>2, PathAssumption, JobFacts DEF CreateTmp, TypeInv, TypeOK, StagesOK
  <2>. QED
    BY <1>2, <2>1 DEF CreateTmp, TypeInv, TypeOK
<1>3. CASE r = q /\ Copy(q)
  BY <1>3 DEF Copy, Handles, TypeInv, TypeOK
<1>4. CASE r = q /\ Probe(q)
  BY <1>4 DEF Probe, Handles, TypeInv, TypeOK
<1>5. CASE r = q /\ (OpenSource(q) \/ Publish(q) \/ FailExport(q))
  BY <1>5 DEF OpenSource, Publish, FailExport, Handles, TypeInv, TypeOK
<1>6. CASE r = q /\ Respond(q)
  BY <1>6 DEF Respond, ForgetLocals
<1>7. CASE /\ r = q
           /\ pc[q] \notin {"probe", "create", "copy", "publish"}
           /\ UNCHANGED <<src, dst>>
  BY <1>7 DEF Handles
<1>. QED
  BY <1>1, <1>2, <1>3, <1>4, <1>5, <1>6, <1>7
     DEF Serve, Load, SetState, OpenSourceFails, ProbeFails, ExportFails, Record, Rollback, Lookup,
         LookupFails, Remove, Clear, Drop, Unlist, StepFails

LEMMA ServeSources ==
  ASSUME TypeInv, NEW q \in Request, Serve(q), NEW r \in Request
  PROVE  \/ src'[r] = src[r] \/ src'[r] = None
         \/ r = q /\ OpenSource(q)
<1>1. CASE r # q
  BY <1>1, ServeLocals
<1>2. CASE r = q /\ (Probe(q) \/ Publish(q) \/ FailExport(q))
  BY <1>2 DEF Probe, Publish, FailExport, TypeInv, TypeOK
<1>3. CASE r = q /\ Respond(q)
  BY <1>3 DEF Respond, ForgetLocals
<1>4. CASE UNCHANGED src \/ OpenSource(q)
  BY <1>1, <1>4
<1>. QED
  BY <1>1, <1>2, <1>3, <1>4
     DEF Serve, Load, SetState, OpenSourceFails, ProbeFails, CreateTmp, Copy, ExportFails, Record,
         Rollback, Lookup, LookupFails, Remove, Clear, Drop, Unlist, StepFails

LEMMA ServeHandles345 ==
  ASSUME SlotsApart, TypeInv, OneEach, OwnSlots, Handles, NEW q \in Request, Serve(q)
  PROVE  /\ \A x, y \in Path : tmp'[x] # None /\ tmp'[x] = tmp'[y] => x = y
         /\ \A x, y \in Path : fs'[x] # None => fs'[x] # tmp'[y]
         /\ \A r \in Request : \A y \in Path : src'[r] # None => src'[r] # tmp'[y]
<1>1. CASE CreateTmp(q)
  <2> DEFINE n == IF tmp[target[q]] # None THEN tmp[target[q]]
                  ELSE CHOOSE m \in Inode \ InUse : TRUE
  <2>1. /\ target[q] \in Path
        /\ tmp' = [tmp EXCEPT ![target[q]] = n]
        /\ UNCHANGED <<fs, src>>
    BY <1>1, PathAssumption, JobFacts DEF CreateTmp, TypeInv, TypeOK, StagesOK
  <2>2. n = tmp[target[q]] \/ n \in Inode \ InUse
    BY <1>1 DEF CreateTmp
  <2>. HIDE DEF n
  <2>3. \A x \in Path : tmp'[x] = IF x = target[q] THEN n ELSE tmp[x]
    BY <2>1 DEF TypeInv, TypeOK
  <2>4. CASE n = tmp[target[q]]
    BY <2>1, <2>3, <2>4 DEF Handles
  <2>5. CASE n \in Inode \ InUse
    BY <2>1, <2>3, <2>5 DEF Handles, InUse
  <2>. QED
    BY <2>2, <2>4, <2>5
<1>2. CASE Publish(q)
  <2>1. /\ target[q] \in Path
        /\ tmp[target[q]] # None
        /\ fs' = [fs EXCEPT ![target[q]] = tmp[target[q]]]
        /\ tmp' = [tmp EXCEPT ![target[q]] = None]
    BY <1>2, PathAssumption, JobFacts DEF Publish, TypeInv, TypeOK, StagesOK
  <2>2. \A x \in Path : /\ fs'[x] = IF x = target[q] THEN tmp[target[q]] ELSE fs[x]
                        /\ tmp'[x] = IF x = target[q] THEN None ELSE tmp[x]
    BY <2>1 DEF TypeInv, TypeOK
  <2>3. \A r \in Request : src'[r] = src[r] \/ src'[r] = None
    BY <1>2, ServeSources DEF Publish, OpenSource
  <2>. QED
    BY <2>1, <2>2, <2>3 DEF Handles
<1>3. CASE OpenSource(q)
  <2>1. Source[FileOf(q)] \in Path
    BY <1>3, JobFacts, PathAssumption DEF OpenSource
  <2>2. src'[q] = fs[Source[FileOf(q)]] /\ src'[q] # None /\ UNCHANGED <<fs, tmp>>
    BY <1>3 DEF OpenSource, TypeInv, TypeOK
  <2>. QED
    BY <2>1, <2>2, ServeSources DEF Handles
<1>4. CASE /\ tmp' \in {tmp, [tmp EXCEPT ![target[q]] = None]}
           /\ fs' \in {fs, [fs EXCEPT ![target[q]] = None]}
           /\ ~ OpenSource(q)
  <2>1. \A x \in Path : fs'[x] \in {fs[x], None} /\ tmp'[x] \in {tmp[x], None}
    BY <1>4 DEF TypeInv, TypeOK
  <2>. QED
    BY <1>4, <2>1, ServeSources DEF Handles
<1>5. fs' = fs \/ Publish(q) \/ fs' = [fs EXCEPT ![target[q]] = None]
  BY DEF Serve, Load, SetState, OpenSource, OpenSourceFails, Probe, ProbeFails, CreateTmp, Copy,
     ExportFails, FailExport, Record, Rollback, Lookup, LookupFails, Remove, Clear, Drop, Unlist,
     StepFails, Respond
<1>6. tmp' = tmp \/ Publish(q) \/ CreateTmp(q) \/ tmp' = [tmp EXCEPT ![target[q]] = None]
  BY DEF Serve, Load, SetState, OpenSource, OpenSourceFails, Probe, ProbeFails, Copy,
     ExportFails, FailExport, Record, Rollback, Lookup, LookupFails, Remove, Clear, Drop, Unlist,
     StepFails, Respond
<1>. QED
  BY <1>1, <1>2, <1>3, <1>4, <1>5, <1>6

LEMMA ServeHandles ==
  ASSUME SlotsApart, TypeInv, OneEach, OwnSlots, Handles, NEW q \in Request, Serve(q)
  PROVE  Handles'
BY ServeHandles12, ServeHandles345 DEF Handles

LEMMA ServeWhole ==
  ASSUME SlotsApart, WholeInv, NEW q \in Request, Serve(q)
  PROVE  Whole'
<1>. USE DEF WholeInv
<1>1. ASSUME NEW p \in Path, fs'[p] # None
      PROVE  data'[fs'[p]] # Torn
  <2>1. CASE fs'[p] = fs[p]
    BY <1>1, <2>1, ServeKeepsData DEF Whole, NoTornFile
  <2>2. CASE Publish(q)
    <3>1. dst[q] # None /\ data[dst[q]] # Torn /\ UNCHANGED data
      BY <2>2, PathAssumption DEF Publish, TypeInv, StagesOK, Whole
    <3>2. fs'[target[q]] = dst[q]
      BY <2>2, <3>1, HandleFacts DEF Publish, TypeInv, TypeOK
    <3>. QED
      BY <2>1, <3>1, <3>2, ServePaths
  <2>3. CASE fs' = fs \/ Remove(q)
    BY <1>1, <2>1, <2>3, ServePaths DEF Remove, TypeInv, TypeOK
  <2>. QED
    BY <2>2, <2>3 DEF Serve, Load, SetState, OpenSource, OpenSourceFails, Probe, ProbeFails,
       CreateTmp, Copy, ExportFails, FailExport, Record, Rollback, Lookup, LookupFails, Clear,
       Drop, Unlist, StepFails, Respond
<1>2. ASSUME NEW r \in Request, src'[r] # None
      PROVE  data'[src'[r]] # Torn
  <2>1. CASE src'[r] = src[r]
    BY <1>2, <2>1, ServeKeepsData DEF Whole
  <2>2. CASE r = q /\ OpenSource(q)
    <3>1. /\ Source[FileOf(q)] \in Path
          /\ src'[q] = fs[Source[FileOf(q)]] /\ UNCHANGED data
      BY <2>2, JobFacts, PathAssumption DEF OpenSource, TypeInv, TypeOK
    <3>. QED
      BY <1>2, <2>2, <3>1 DEF Whole, NoTornFile
  <2>. QED
    BY <1>2, <2>1, <2>2, ServeSources
<1>3. ASSUME NEW r \in Request, pc'[r] = "publish"
      PROVE  data'[dst'[r]] # Torn
  <2>1. CASE r # q
    <3>1. pc[r] = "publish" /\ dst'[r] = dst[r]
      BY <1>3, <2>1, ServeLocals
    <3>2. dst[r] # None
      BY <3>1, PathAssumption DEF TypeInv, StagesOK
    <3>. QED
      BY <2>1, <3>1, <3>2, ServeKeepsData DEF Whole
  <2>2. CASE r = q
    <3>1. Copy(q)
      BY <1>3, <2>2 DEF TypeInv, TypeOK, Serve, Load, SetState, OpenSource, OpenSourceFails, Probe,
         ProbeFails, CreateTmp, Publish, ExportFails, FailExport, Record, Rollback, Lookup,
         AfterUnexport, LookupFails, Remove, Clear, Drop, Unlist, StepFails, Respond, ForgetLocals
    <3>2. src[q] \in Inode /\ dst[q] \in Inode /\ src[q] # None
      BY <3>1, PathAssumption DEF Copy, TypeInv, StagesOK
    <3>. QED
      BY <2>2, <3>1, <3>2 DEF Copy, Whole, TypeInv, TypeOK
  <2>. QED
    BY <2>1, <2>2
<1>. QED
  BY <1>1, <1>2, <1>3 DEF Whole, NoTornFile
LEMMA InitWholeInv == Init => WholeInv
<1>. SUFFICES ASSUME Init PROVE WholeInv
  OBVIOUS
<1>1. OneEach /\ OwnSlots
  BY DEF Init, OneEach, OwnSlots
<1>2. Handles
  BY DEF Init, Handles
<1>3. \A p \in Path : fs[p] # None => data[fs[p]] = Disk[p] /\ Disk[p] \in Content
  BY PathAssumption DEF Init, Inode
<1>4. Whole
  BY <1>3, PathAssumption DEF Init, Whole, NoTornFile
<1>. QED
  BY <1>1, <1>2, <1>4, InitTypeInv DEF WholeInv

LEMMA BeginWholeInv ==
  ASSUME OnePerFile, WholeInv, NEW r \in Request, NEW a \in Act, NEW f \in File, Begin(r, a, f)
  PROVE  WholeInv'
<1>. USE DEF WholeInv
<1>1. /\ job' = [job EXCEPT ![r] = [act |-> a, file |-> f, dir |-> picksDir]]
      /\ pc' = [pc EXCEPT ![r] = "load"]
      /\ pc[r] = "idle" /\ job[r] = None /\ ~ Busy(f)
      /\ UNCHANGED <<rows, disk, current, slot, target, src, dst>>
  BY DEF Begin, OneEach
<1>2. job'[r] # None /\ job'[r].file = f
  <2>1. [act |-> a, file |-> f, dir |-> picksDir] \in Job
    BY DEF Job, TypeInv, TypeOK
  <2>. QED
    BY <1>1, <2>1, PathAssumption DEF TypeInv, TypeOK
<1>3. OneEach'
  BY <1>1, <1>2 DEF OneEach, Busy, TypeInv, TypeOK
<1>4. OwnSlots'
  <2>1. \A x \in Request : target[x] # None => job'[x] = job[x]
    BY <1>1 DEF OwnSlots, TypeInv, TypeOK
  <2>. QED
    BY <1>1, <2>1 DEF OwnSlots, SlotOf
<1>5. Handles'
  BY <1>1 DEF Handles, TypeInv, TypeOK
<1>6. Whole'
  BY <1>1 DEF Whole, NoTornFile, TypeInv, TypeOK
<1>. QED
  BY <1>3, <1>4, <1>5, <1>6, BeginTypeInv

LEMMA CrashWholeInv ==
  ASSUME WholeInv, Crash
  PROVE  WholeInv'
<1>. USE DEF WholeInv
<1>1. UNCHANGED <<rows, disk>>
  BY DEF Crash
<1>2. \A r \in Request :
        /\ pc'[r] = "idle" /\ job'[r] = None /\ target'[r] = None
        /\ src'[r] = None /\ dst'[r] = None
  BY DEF Crash, ForgetLocals
<1>3. OneEach' /\ OwnSlots' /\ Handles' /\ Whole'
  BY <1>1, <1>2 DEF OneEach, OwnSlots, SlotOf, Handles, Whole, NoTornFile
<1>. QED
  BY <1>3, CrashTypeInv

LEMMA NextWholeInv == OnePerFile /\ SlotsApart /\ WholeInv /\ [Next]_vars => WholeInv'
<1>. SUFFICES ASSUME OnePerFile, SlotsApart, WholeInv, [Next]_vars
              PROVE  WholeInv'
  OBVIOUS
<1>1. CASE \E r \in Request : \E a \in Act : \E f \in File : Begin(r, a, f)
  BY <1>1, BeginWholeInv
<1>2. CASE \E r \in Request : Serve(r)
  <2>1. TypeInv'
    BY NextTypeInv DEF WholeInv
  <2>. QED
    BY <1>2, <2>1, ServeOneEach, ServeOwnSlots, ServeHandles, ServeWhole DEF WholeInv
<1>3. CASE (\E d \in Dir : SetPicksDir(d)) \/ UNCHANGED vars
  <2>1. UNCHANGED <<rows, disk, pc, locals>>
    BY <1>3 DEF SetPicksDir, vars
  <2>2. OneEach' /\ OwnSlots' /\ Handles' /\ Whole'
    BY <2>1 DEF WholeInv, OneEach, OwnSlots, SlotOf, Handles, Whole, NoTornFile
  <2>. QED
    BY <2>2, NextTypeInv DEF WholeInv
<1>4. CASE Crash
  BY <1>4, CrashWholeInv
<1>. QED
  BY <1>1, <1>2, <1>3, <1>4 DEF Next

LEMMA WholeInvHolds ==
  ASSUME OnePerFile, SlotsApart
  PROVE  Spec => []WholeInv
<1>1. WholeInv /\ [Next]_vars => WholeInv'
  BY NextWholeInv
<1>. QED
  BY <1>1, InitWholeInv, PTL DEF Spec

\* Nobody ever sees half a file under a final name, at any interleaving, when
\* any call fails and across restarts: a copy is complete before the rename, and
\* no request writes to what another one has opened or published.
THEOREM NoTornFileHolds ==
  ASSUME OnePerFile, SlotsApart
  PROVE  Spec => []NoTornFile
<1>1. WholeInv => NoTornFile
  BY DEF WholeInv, Whole
<1>. QED
  BY <1>1, WholeInvHolds, PTL
-----------------------------------------------------------------------------
(* Copies                                                                  *)

\* Nobody has put a copy of an original under one of its candidates beforehand.
NoneYet == \A f \in File : \A p \in SlotOf(f) : Disk[p] # Original(f)

\* Originals are short enough to be recognised, which picks_windowed shows to
\* be needed.
ShortOriginals == \A f \in File : Original(f) \notin Windowed

\* An original is where it was, with its content, and that is what is copied.
Faithful ==
  /\ OriginalsApart
  /\ \A f \in File : fs[Source[f]] = Source[f] /\ data[Source[f]] = Original(f)
  /\ \A r \in Request : src[r] # None => src[r] = Source[FileOf(r)]
  /\ \A r \in Request : pc[r] = "publish" => data[dst[r]] = Original(FileOf(r))

\* A request has passed by what was there at the start, and nothing else.
PassedBy(r) ==
  /\ pc[r] \in {"probe", "create", "copy", "publish"} =>
       \A n \in 1 .. slot[r] - 1 : Disk[Candidates(r)[n]] # None
  /\ pc[r] \in {"create", "copy", "publish"} =>
       slot[r] \in 1 .. Len(Candidates(r)) /\ target[r] = Candidates(r)[slot[r]]

\* What the service has put under a candidate is a copy, and the candidates in
\* front of it have been taken from the start; it works on nothing else.
CopiesOf(f) ==
  /\ \A p \in SlotOf(f) : IF Disk[p] = None THEN fs[p] # None => data[fs[p]] = Original(f)
                                            ELSE fs[p] = p /\ data[p] = Disk[p]
  /\ \A d \in Dir : \A m \in 1 .. Len(Slots[d][f]) :
       fs[Slots[d][f][m]] # None /\ Disk[Slots[d][f][m]] = None =>
         \A n \in 1 .. m - 1 : Disk[Slots[d][f][n]] # None
  /\ exported[f] # None => Disk[exported[f]] = None

CopiesInv ==
  /\ WholeInv /\ Faithful
  /\ \A r \in Request : PassedBy(r) /\ (target[r] # None => Disk[target[r]] = None)
  /\ \A f \in File : CopiesOf(f)

LEMMA ServeFiles ==
  ASSUME SlotsApart, WholeInv, NEW q \in Request, Serve(q), NEW p \in Path
  PROVE  \/ fs'[p] = fs[p] /\ (fs[p] # None => data'[fs[p]] = data[fs[p]])
         \/ /\ Publish(q) /\ p = target[q]
            /\ dst[q] # None /\ fs'[p] = dst[q] /\ data' = data
         \/ Remove(q) /\ p = target[q] /\ fs'[p] = None
<1>. USE DEF WholeInv
<1>1. CASE p # target[q] \/ fs' = fs
  BY <1>1, ServePaths, ServeKeepsData
<1>2. CASE p = target[q] /\ Publish(q)
  <2>1. dst[q] # None /\ UNCHANGED data
    BY <1>2, PathAssumption DEF Publish, TypeInv, StagesOK
  <2>. QED
    BY <1>2, <2>1, HandleFacts DEF Publish, TypeInv, TypeOK
<1>3. CASE p = target[q] /\ Remove(q)
  BY <1>3 DEF Remove, TypeInv, TypeOK
<1>. QED
  BY <1>1, <1>2, <1>3 DEF Serve, Load, SetState, OpenSource, OpenSourceFails, Probe, ProbeFails,
     CreateTmp, Copy, ExportFails, FailExport, Record, Rollback, Lookup, LookupFails, Clear, Drop,
     Unlist, StepFails, Respond

\* No request touches a candidate of another file.
LEMMA ServeOthersFiles ==
  ASSUME SlotsApart, WholeInv, NEW q \in Request, Serve(q), NEW f \in File, f # FileOf(q),
         NEW p \in SlotOf(f)
  PROVE  fs'[p] = fs[p] /\ (fs[p] # None => data'[fs[p]] = data[fs[p]])
<1>1. FileOf(q) \in File /\ p \in Path /\ p # None
  BY ServeLocals, JobFacts, PathAssumption DEF WholeInv, SlotOf
<1>2. p # target[q]
  BY <1>1, SlotsDisjoint DEF WholeInv, OwnSlots
<1>. QED
  BY <1>1, <1>2, ServePaths, ServeKeepsData DEF WholeInv

LEMMA ServeJobs ==
  ASSUME TypeInv, NEW q \in Request, Serve(q), NEW r \in Request
  PROVE  job'[r] = job[r] \/ (r = q /\ Respond(q))
BY ServeLocals

LEMMA ServeFaithful ==
  ASSUME SlotsApart, OriginalsOutside, WholeInv, Faithful, NEW q \in Request, Serve(q)
  PROVE  Faithful'
<1>. USE DEF WholeInv
<1>1. ASSUME NEW f \in File
      PROVE  fs'[Source[f]] = Source[f] /\ data'[Source[f]] = Original(f)
  <2>1. fs[Source[f]] = Source[f] /\ Source[f] # None /\ data[Source[f]] = Original(f)
    BY PathAssumption DEF Faithful
  <2>2. fs'[Source[f]] = fs[Source[f]] /\ data'[fs[Source[f]]] = data[fs[Source[f]]]
    BY <2>1, ServeKeepsOriginals DEF Faithful
  <2>. QED
    BY <2>1, <2>2
<1>2. OriginalsApart'
  BY ServeKeepsOriginals DEF Faithful, OriginalsApart
<1>3. ASSUME NEW r \in Request, src'[r] # None
      PROVE  src'[r] = Source[FileOf(r)']
  <2>1. CASE Respond(q) /\ r = q
    BY <1>3, <2>1 DEF Respond, ForgetLocals
  <2>2. CASE job'[r] = job[r] /\ src'[r] = src[r]
    BY <1>3, <2>2 DEF Faithful
  <2>3. CASE r = q /\ OpenSource(q)
    <3>1. FileOf(q) \in File /\ job' = job
      BY <2>3, JobFacts DEF OpenSource
    <3>. QED
      BY <2>3, <3>1 DEF OpenSource, Faithful, TypeInv, TypeOK
  <2>. QED
    BY <1>3, <2>1, <2>2, <2>3, ServeSources, ServeJobs
<1>4. ASSUME NEW r \in Request, pc'[r] = "publish"
      PROVE  data'[dst'[r]] = Original(FileOf(r)')
  <2>1. CASE r # q
    <3>1. pc[r] = "publish" /\ dst'[r] = dst[r] /\ job'[r] = job[r]
      BY <1>4, <2>1, ServeLocals
    <3>2. dst[r] # None
      BY <3>1, PathAssumption DEF TypeInv, StagesOK
    <3>. QED
      BY <2>1, <3>1, <3>2, ServeKeepsData DEF Faithful, Original
  <2>2. CASE r = q
    <3>1. Copy(q)
      BY <1>4, <2>2 DEF TypeInv, TypeOK, Serve, Load, SetState, OpenSource, OpenSourceFails, Probe,
         ProbeFails, CreateTmp, Publish, ExportFails, FailExport, Record, Rollback, Lookup,
         AfterUnexport, LookupFails, Remove, Clear, Drop, Unlist, StepFails, Respond, ForgetLocals
    <3>2. src[q] # None /\ dst[q] \in Inode /\ FileOf(q) \in File
      BY <3>1, PathAssumption, JobFacts DEF Copy, TypeInv, StagesOK
    <3>3. data'[dst[q]] = data[src[q]] /\ job' = job /\ dst' = dst
      BY <3>1, <3>2 DEF Copy, TypeInv, TypeOK
    <3>. QED
      BY <2>2, <3>2, <3>3 DEF Faithful
  <2>. QED
    BY <2>1, <2>2
<1>. QED
  BY <1>1, <1>2, <1>3, <1>4 DEF Faithful, Original
\* What resolveTarget finds at a candidate.
LEMMA ProbeFinds ==
  ASSUME SlotsApart, NoneYet, ShortOriginals, CopiesInv, NEW q \in Request, pc[q] = "probe",
         NEW p, p = Candidates(q)[slot[q]]
  PROVE  /\ p \in Path /\ p \in SlotOf(FileOf(q)) /\ p # None
         /\ fs[p] = None => Disk[p] = None
         /\ fs[p] # None /\ SameHash(fs[p], FileOf(q)) => Disk[p] = None
         /\ fs[p] # None /\ ~ SameHash(fs[p], FileOf(q)) => Disk[p] # None
<1>1. p \in Path /\ p \in SlotOf(FileOf(q)) /\ p # None /\ FileOf(q) \in File
  BY CandidateIsSlot, JobFacts, PathAssumption DEF CopiesInv, WholeInv, TypeInv, StagesOK
<1>2. IF Disk[p] = None THEN fs[p] # None => data[fs[p]] = Original(FileOf(q))
                        ELSE fs[p] = p /\ data[p] = Disk[p]
  BY <1>1 DEF CopiesInv, CopiesOf
<1>. QED
  BY <1>1, <1>2 DEF SameHash, NoneYet, ShortOriginals

LEMMA ServePassedBy ==
  ASSUME SlotsApart, NoneYet, ShortOriginals, CopiesInv, NEW q \in Request, Serve(q),
         NEW r \in Request
  PROVE  PassedBy(r)' /\ (target'[r] # None => Disk[target'[r]] = None)
<1>1. CASE r # q
  BY <1>1, ServeLocals DEF CopiesInv, WholeInv, PassedBy
<1>2. CASE r = q /\ Probe(q)
  <2> DEFINE p == Candidates(q)[slot[q]]
  <2>1. pc[q] = "probe" /\ job' = job /\ slot[q] \in Nat
    BY <1>2 DEF Probe, CopiesInv, WholeInv, TypeInv, TypeOK
  <2>2. \A n \in 1 .. slot[q] - 1 : Disk[Candidates(q)[n]] # None
    BY <2>1 DEF CopiesInv, PassedBy
  <2>3. CASE /\ fs[p] = None \/ SameHash(fs[p], FileOf(q))
             /\ target' = [target EXCEPT ![q] = p]
             /\ pc' = [pc EXCEPT ![q] = "create"] \/ pc' = [pc EXCEPT ![q] = "record"]
             /\ UNCHANGED slot
    <3>1. Disk[p] = None
      BY <2>1, <2>3, ProbeFinds
    <3>2. target'[q] = p /\ slot'[q] = slot[q]
      BY <2>3 DEF CopiesInv, WholeInv, TypeInv, TypeOK
    <3>3. slot[q] \in 1 .. Len(Candidates(q))
      BY <2>1 DEF CopiesInv, WholeInv, TypeInv, StagesOK
    <3>. QED
      BY <1>2, <2>1, <2>2, <3>1, <3>2, <3>3 DEF PassedBy
  <2>4. CASE /\ fs[p] # None /\ ~ SameHash(fs[p], FileOf(q))
             /\ slot' = [slot EXCEPT ![q] = @ + 1]
             /\ UNCHANGED <<pc, target>>
    <3>1. Disk[p] # None /\ slot'[q] = slot[q] + 1
      <4>1. Disk[p] # None
        BY <2>1, <2>4, ProbeFinds
      <4>. QED
        BY <2>4, <4>1 DEF CopiesInv, WholeInv, TypeInv, TypeOK
    <3>2. \A n \in 1 .. slot'[q] - 1 : n \in 1 .. slot[q] - 1 \/ n = slot[q]
      BY <2>1, <3>1
    <3>3. \A n \in 1 .. slot'[q] - 1 : Disk[Candidates(q)[n]] # None
      BY <2>2, <3>1, <3>2
    <3>4. PassedBy(q)'
      BY <2>1, <2>4, <3>3 DEF PassedBy
    <3>. QED
      BY <1>2, <2>4, <3>4 DEF CopiesInv
  <2>. QED
    BY <1>2, <2>3, <2>4 DEF Probe
<1>3. CASE r = q /\ OpenSource(q)
  <2>1. slot'[q] = 1 /\ pc'[q] = "probe" /\ target' = target
    BY <1>3 DEF OpenSource, CopiesInv, WholeInv, TypeInv, TypeOK
  <2>. QED
    BY <1>3, <2>1 DEF CopiesInv, PassedBy
<1>4. CASE r = q /\ Lookup(q)
  <2>1. FileOf(q) \in File /\ pc'[q] \notin {"probe", "create", "copy", "publish"}
    BY <1>4, JobFacts DEF Lookup, AfterUnexport, CopiesInv, WholeInv, TypeInv, TypeOK
  <2>2. target'[q] = target[q] \/ target'[q] = exported[FileOf(q)]
    BY <1>4 DEF Lookup, CopiesInv, WholeInv, TypeInv, TypeOK
  <2>. QED
    BY <1>4, <2>1, <2>2 DEF CopiesInv, CopiesOf, PassedBy
<1>5. CASE r = q /\ (CreateTmp(q) \/ Copy(q))
  <2>1. pc[q] \in {"create", "copy"} /\ job' = job /\ UNCHANGED <<slot, target>>
    BY <1>5 DEF CreateTmp, Copy
  <2>. QED
    BY <1>5, <2>1 DEF CopiesInv, PassedBy
<1>6. CASE r = q /\ Respond(q)
  BY <1>6 DEF Respond, ForgetLocals, PassedBy
<1>7. CASE /\ r = q /\ UNCHANGED target
           /\ pc'[q] \notin {"probe", "create", "copy", "publish"}
  BY <1>7 DEF CopiesInv, PassedBy
<1>8. pc \in [Request -> Label]
  BY DEF CopiesInv, WholeInv, TypeInv, TypeOK
<1>. QED
  BY <1>1, <1>2, <1>3, <1>4, <1>5, <1>6, <1>7, <1>8
     DEF Serve, Load, SetState, OpenSourceFails, ProbeFails, Publish, ExportFails, FailExport,
         Record, Rollback, LookupFails, Remove, Clear, AfterUnexport, Drop, Unlist, StepFails

LEMMA ServeCopies ==
  ASSUME SlotsApart, CopiesInv, NEW q \in Request, Serve(q), NEW f \in File
  PROVE  CopiesOf(f)'
<1>1. CASE f # FileOf(q)
  <2>1. exported'[f] = exported[f]
    BY <1>1, ServeRows DEF CopiesInv, WholeInv
  <2>2. \A d \in Dir : \A m \in 1 .. Len(Slots[d][f]) : Slots[d][f][m] \in SlotOf(f)
    BY SlotIsSlot
  <2>3. \A p \in SlotOf(f) : /\ fs'[p] = fs[p]
                             /\ fs[p] # None => data'[fs[p]] = data[fs[p]]
    BY <1>1, ServeOthersFiles DEF CopiesInv
  <2>4. CopiesOf(f) /\ \A p \in SlotOf(f) : p # None
    BY PathAssumption DEF SlotOf, CopiesInv
  <2>5. \A p \in SlotOf(f) : IF Disk[p] = None THEN fs'[p] # None => data'[fs'[p]] = Original(f)
                                               ELSE fs'[p] = p /\ data'[p] = Disk[p]
    BY <2>3, <2>4 DEF CopiesOf
  <2>6. \A d \in Dir : \A m \in 1 .. Len(Slots[d][f]) :
          fs'[Slots[d][f][m]] # None /\ Disk[Slots[d][f][m]] = None =>
            \A n \in 1 .. m - 1 : Disk[Slots[d][f][n]] # None
    BY <2>2, <2>3, <2>4 DEF CopiesOf
  <2>. QED
    BY <2>1, <2>4, <2>5, <2>6 DEF CopiesOf, SlotOf
<1>2. CASE f = FileOf(q)
  <2>1. ASSUME NEW p \in SlotOf(f)
        PROVE  IF Disk[p] = None THEN fs'[p] # None => data'[fs'[p]] = Original(f)
                                 ELSE fs'[p] = p /\ data'[p] = Disk[p]
    <3>1. p \in Path /\ p # None
      BY PathAssumption DEF SlotOf
    <3>2. IF Disk[p] = None THEN fs[p] # None => data[fs[p]] = Original(f)
                            ELSE fs[p] = p /\ data[p] = Disk[p]
      BY DEF CopiesInv, CopiesOf
    <3>3. p = target[q] => Disk[p] = None
      BY <3>1 DEF CopiesInv
    <3>4. Publish(q) => data[dst[q]] = Original(f)
      BY <1>2 DEF Publish, CopiesInv, Faithful
    <3>. QED
      BY <3>1, <3>2, <3>3, <3>4, ServeFiles DEF CopiesInv
  <2>2. ASSUME NEW d \in Dir, NEW m \in 1 .. Len(Slots[d][f]),
               fs'[Slots[d][f][m]] # None, Disk[Slots[d][f][m]] = None,
               NEW n \in 1 .. m - 1
        PROVE  Disk[Slots[d][f][n]] # None
    <3> DEFINE p == Slots[d][f][m]
    <3>1. p \in Path
      BY SlotIsSlot
    <3>2. CASE fs[p] # None
      BY <2>2, <3>2 DEF CopiesInv, CopiesOf
    <3>3. CASE Publish(q) /\ p = target[q]
      <4>1. pc[q] = "publish" /\ job[q] \in Job /\ slot[q] \in 1 .. Len(Candidates(q))
        BY <3>3, JobFacts DEF Publish, CopiesInv, WholeInv, PassedBy
      <4>2. target[q] = Candidates(q)[slot[q]]
        BY <4>1 DEF CopiesInv, PassedBy
      <4>3. d = job[q].dir /\ m = slot[q]
        BY <1>2, <3>3, <4>1, <4>2 DEF SlotsApart, Job
      <4>. QED
        BY <1>2, <4>1, <4>3 DEF CopiesInv, PassedBy
    <3>. QED
      BY <2>2, <3>1, <3>2, <3>3, ServeFiles DEF CopiesInv
  <2>3. exported'[f] # None => Disk[exported'[f]] = None
    <3>1. f \in File /\ exported \in [File -> Path \cup {None}]
      BY DEF CopiesInv, WholeInv, TypeInv, TypeOK
    <3>2. exported'[f] = exported[f] \/ exported'[f] = None \/ exported'[f] = target[q]
      BY <1>2, <3>1 DEF Serve, Load, SetState, OpenSource, OpenSourceFails, Probe, ProbeFails,
         CreateTmp, Copy, Publish, ExportFails, FailExport, Record, Rollback, DeleteRow, Lookup,
         LookupFails, Remove, Clear, Drop, Unlist, StepFails, Respond
    <3>. QED
      BY <3>2 DEF CopiesInv, CopiesOf
  <2>. QED
    BY <2>1, <2>2, <2>3 DEF CopiesOf, SlotOf
<1>. QED
  BY <1>1, <1>2
LEMMA InitCopiesInv ==
  ASSUME Init
  PROVE  CopiesInv
<1>1. Faithful
  <2>1. \A f \in File : Source[f] \in Path /\ Disk[Source[f]] # None /\ None \notin Path
    BY PathAssumption
  <2>. QED
    BY <2>1 DEF Init, Faithful, OriginalsApart, Original, Inode
<1>2. \A r \in Request : PassedBy(r) /\ target[r] = None
  BY DEF Init, PassedBy
<1>3. ASSUME NEW f \in File
      PROVE  CopiesOf(f)
  <2>1. \A p \in Path : IF Disk[p] = None THEN fs[p] = None ELSE fs[p] = p /\ data[p] = Disk[p]
    BY DEF Init, Inode
  <2>2. exported[f] = None
    BY DEF Init
  <2>. QED
    BY <2>1, <2>2, SlotIsSlot DEF CopiesOf, SlotOf
<1>. QED
  BY <1>1, <1>2, <1>3, InitWholeInv DEF CopiesInv

\* A step that serves no request leaves rows and files alone; the requests that
\* it concerns are new, or lost.
LEMMA OtherSteps ==
  ASSUME WholeInv, [Next]_vars, ~ \E q \in Request : Serve(q), NEW r \in Request
  PROVE  /\ UNCHANGED <<rows, disk>>
         /\ \/ /\ pc'[r] = pc[r] /\ job'[r] = job[r] /\ current'[r] = current[r]
               /\ slot'[r] = slot[r] /\ target'[r] = target[r]
               /\ src'[r] = src[r] /\ dst'[r] = dst[r]
            \/ pc'[r] \in {"idle", "load"} /\ target'[r] = None /\ src'[r] = None
<1>1. CASE \E x \in Request : \E a \in Act : \E f \in File : Begin(x, a, f)
  <2>1. PICK x \in Request, a \in Act, f \in File : Begin(x, a, f)
    BY <1>1
  <2>2. pc[x] = "idle" /\ target[x] = None /\ src[x] = None
    BY <2>1 DEF Begin, WholeInv, OneEach, OwnSlots, Handles
  <2>. QED
    BY <2>1, <2>2 DEF Begin, WholeInv, TypeInv, TypeOK
<1>2. CASE (\E d \in Dir : SetPicksDir(d)) \/ UNCHANGED vars
  BY <1>2 DEF SetPicksDir, vars
<1>3. CASE Crash
  BY <1>3 DEF Crash, ForgetLocals
<1>. QED
  BY <1>1, <1>2, <1>3 DEF Next

LEMMA NextFaithful ==
  ASSUME SlotsApart, OriginalsOutside, WholeInv, Faithful, [Next]_vars
  PROVE  Faithful'
<1>1. CASE \E q \in Request : Serve(q)
  BY <1>1, ServeFaithful
<1>2. CASE ~ \E q \in Request : Serve(q)
  <2>1. OriginalsApart'
    BY NextKeepsOriginals DEF Faithful, WholeInv
  <2>2. UNCHANGED <<rows, disk>>
    BY <1>2 DEF Next, Begin, SetPicksDir, Crash, vars
  <2>3. ASSUME NEW r \in Request, src'[r] # None
        PROVE  src'[r] = Source[FileOf(r)']
    BY <1>2, <2>3, OtherSteps DEF Faithful
  <2>4. ASSUME NEW r \in Request, pc'[r] = "publish"
        PROVE  data'[dst'[r]] = Original(FileOf(r)')
    BY <1>2, <2>2, <2>4, OtherSteps DEF Faithful
  <2>. QED
    BY <2>1, <2>2, <2>3, <2>4 DEF Faithful, Original
<1>. QED
  BY <1>1, <1>2

LEMMA NextCopiesInv ==
  ASSUME OnePerFile, SlotsApart, OriginalsOutside, NoneYet, ShortOriginals, CopiesInv, [Next]_vars
  PROVE  CopiesInv'
<1>1. WholeInv'
  BY NextWholeInv DEF CopiesInv
<1>2. Faithful'
  BY NextFaithful DEF CopiesInv
<1>3. CASE \E q \in Request : Serve(q)
  BY <1>1, <1>2, <1>3, ServePassedBy, ServeCopies DEF CopiesInv
<1>4. CASE ~ \E q \in Request : Serve(q)
  <2>. USE DEF CopiesInv
  <2>1. UNCHANGED <<rows, disk>>
    BY <1>4 DEF Next, Begin, SetPicksDir, Crash, vars
  <2>2. ASSUME NEW r \in Request
        PROVE  PassedBy(r)' /\ (target'[r] # None => Disk[target'[r]] = None)
    BY <1>4, OtherSteps DEF PassedBy
  <2>3. \A f \in File : CopiesOf(f)'
    BY <2>1 DEF CopiesOf, SlotOf
  <2>. QED
    BY <1>1, <1>2, <2>2, <2>3
<1>. QED
  BY <1>3, <1>4

LEMMA OneCopy ==
  ASSUME NoneYet, CopiesInv, NEW f \in File, NEW d \in Dir
  PROVE  Cardinality({n \in 1 .. Len(Slots[d][f]) :
                       LET i == fs[Slots[d][f][n]] IN i # None /\ data[i] = Original(f)}) <= 1
<1> DEFINE S == {n \in 1 .. Len(Slots[d][f]) :
                   LET i == fs[Slots[d][f][n]] IN i # None /\ data[i] = Original(f)}
<1>1. ASSUME NEW n \in S
      PROVE  fs[Slots[d][f][n]] # None /\ Disk[Slots[d][f][n]] = None
  <2>1. CopiesOf(f) /\ Slots[d][f][n] \in SlotOf(f)
    BY SlotIsSlot DEF CopiesInv
  <2>. QED
    BY <2>1 DEF CopiesOf, NoneYet
<1>2. ASSUME NEW m \in S, NEW n \in S, n < m
      PROVE  FALSE
  <2>1. n \in 1 .. m - 1
    BY <1>2
  <2>2. Disk[Slots[d][f][n]] # None
    BY <1>1, <2>1 DEF CopiesInv, CopiesOf
  <2>. QED
    BY <1>1, <2>2
<1>3. \A m, n \in S : m = n
  BY <1>2
<1>4. Cardinality(S) <= 1
  <2>. HIDE DEF S
  <2>1. CASE S = {}
    <3>1. Cardinality(S) = 0
      BY <2>1, FS_EmptySet
    <3>. QED
      BY <3>1
  <2>2. CASE \E n \in S : S = {n}
    <3>1. Cardinality(S) = 1
      BY <2>2, FS_Singleton
    <3>. QED
      BY <3>1
  <2>. QED
    BY <1>3, <2>1, <2>2
<1>. QED
  BY <1>4

\* Re-export idempotency: at any interleaving, when any call fails and across
\* restarts, the candidates of a file hold one copy of it at most.  A request
\* that finds a copy has passed by all candidates in front of it, and these were
\* taken from the start.
THEOREM NoDuplicateCopyHolds ==
  ASSUME OnePerFile, SlotsApart, OriginalsOutside, NoneYet, ShortOriginals
  PROVE  Spec => []NoDuplicateCopy
<1>1. CopiesInv => NoDuplicateCopy
  BY OneCopy DEF NoDuplicateCopy
<1>2. Init => CopiesInv
  BY InitCopiesInv
<1>3. CopiesInv /\ [Next]_vars => CopiesInv'
  BY NextCopiesInv
<1>. QED
  BY <1>1, <1>2, <1>3, PTL DEF Spec
-----------------------------------------------------------------------------
(* Rows and copies agree                                                   *)

Settled(f) == IF state[f] = "picked" THEN HasCopy(f) ELSE exported[f] = None

Answered(r) ==
  LET f == FileOf(r)
      a == job[r].act
  IN  /\ a = "pick" => state[f] = "picked" /\ HasCopy(f)
      /\ a = "reject" => state[f] = "rejected" /\ exported[f] = None
      /\ a = "unpick" => state[f] # "picked"
      /\ a = "unreject" => state[f] # "rejected"

\* What the row and the folder are like at each stage of a request.
Agrees(r) ==
  LET f == FileOf(r)
      a == job[r].act
  IN  /\ pc[r] \in {"load", "ok", "error"} => Settled(f)
      /\ pc[r] = "mark" =>
           /\ exported[f] = None /\ a \in {"pick", "reject"}
           /\ a = "pick" => state[f] = current[r] /\ state[f] # "picked"
      /\ Exporting(r, f) =>
           a = "pick" /\ state[f] = "picked" /\ exported[f] = None /\ current[r] # "picked"
      /\ pc[r] \in {"create", "copy", "publish"} => fs[target[r]] = None
      /\ pc[r] = "record" => fs[target[r]] # None /\ data[fs[target[r]]] = Original(f)
      /\ pc[r] \in {"lookup", "remove", "clear"} => a \in {"unpick", "reject"} /\ state[f] = "picked"
      /\ pc[r] \in {"lookup", "remove"} => HasCopy(f)
      /\ pc[r] \in {"remove", "clear"} => target[r] = exported[f]
      /\ pc[r] = "clear" => target[r] # None /\ fs[target[r]] = None
      /\ pc[r] = "drop" =>
           /\ exported[f] = None
           /\ \/ a = "unpick" /\ state[f] = "picked"
              \/ a = "unreject" /\ state[f] = "rejected"
      /\ pc[r] = "unlist" => a = "reject" /\ state[f] = "rejected" /\ exported[f] = None
      /\ pc[r] = "ok" => Answered(r)

\* A target is free, recorded, or about to be.
Accounted(r) ==
  target[r] # None => fs[target[r]] = None \/ exported[FileOf(r)] = target[r] \/ pc[r] = "record"

AgreeInv ==
  /\ WholeInv /\ Faithful
  /\ \A r \in Request : job[r] # None => Agrees(r) /\ Accounted(r)
  /\ Consistent /\ NoOrphan

LEMMA OwnFacts ==
  ASSUME AgreeInv, NEW q \in Request, pc[q] # "idle"
  PROVE  /\ job[q] \in Job /\ FileOf(q) \in File /\ Agrees(q) /\ Accounted(q)
         /\ job[q].act \in Act
         /\ state \in [File -> Mark] /\ exported \in [File -> Path \cup {None}]
         /\ pc \in [Request -> Label] /\ target \in [Request -> Path \cup {None}]
         /\ current \in [Request -> Mark]
<1>1. TypeInv
  BY DEF AgreeInv, WholeInv
<1>2. job[q] \in Job /\ FileOf(q) \in File /\ job[q] # None
  BY <1>1, JobFacts, PathAssumption
<1>. QED
  BY <1>1, <1>2 DEF AgreeInv, TypeInv, TypeOK, Job

\* The request's own step keeps what it knows.  First the steps on the tables.
LEMMA RowStepsAgree ==
  ASSUME "db" \notin Faults, AgreeInv, NEW q \in Request,
         \/ Load(q) \/ SetState(q) \/ Record(q) \/ Rollback(q)
         \/ Clear(q) \/ Drop(q) \/ Unlist(q)
  PROVE  Agrees(q)' /\ Accounted(q)'
<1> DEFINE f == FileOf(q)
           a == job[q].act
<1>1. pc[q] # "idle"
  BY DEF Load, SetState, Record, Rollback, Clear, Drop, Unlist
<1>2. f \in File /\ a \in Act /\ Agrees(q) /\ Accounted(q) /\ None \notin Path
  BY <1>1, OwnFacts, PathAssumption
<1>3. /\ state \in [File -> Mark] /\ exported \in [File -> Path \cup {None}]
      /\ pc \in [Request -> Label] /\ current \in [Request -> Mark]
  BY <1>1, OwnFacts
<1>4. job' = job /\ UNCHANGED <<fs, data, target>>
  BY DEF Load, SetState, Record, Rollback, Clear, Drop, Unlist
<1>. USE DEF Agrees, Accounted, Exporting, Settled, HasCopy, Answered
<1>5. CASE Load(q)
  <2>1. current'[q] = state[f] /\ UNCHANGED rows
    BY <1>3, <1>5 DEF Load, Seen
  <2>2. \/ a = "pick" /\ pc'[q] = IF state[f] = "picked" THEN "ok" ELSE "mark"
        \/ a = "unpick" /\ pc'[q] = IF state[f] = "picked" THEN "lookup" ELSE "ok"
        \/ a = "reject" /\ pc'[q] = IF state[f] = "picked" THEN "lookup" ELSE "mark"
        \/ a = "unreject" /\ pc'[q] = IF state[f] = "rejected" THEN "drop" ELSE "ok"
    BY <1>3, <1>5 DEF Load, Seen
  <2>. QED
    BY <1>2, <1>4, <1>5, <2>1, <2>2 DEF Load
<1>6. CASE SetState(q)
  BY <1>2, <1>3, <1>4, <1>6 DEF SetState
<1>7. CASE Record(q)
  <2>1. job[q] # None /\ target[q] \in Path
    BY <1>1, <1>7, OwnFacts, PathAssumption DEF Record, AgreeInv, WholeInv, TypeInv, StagesOK
  <2>2. state[f] = "picked" /\ a = "pick" /\ state' = state /\ exported'[f] = target[q]
    BY <1>2, <1>3, <1>7, <2>1 DEF Record
  <2>. QED
    BY <1>2, <1>3, <1>4, <1>7, <2>1, <2>2 DEF Record
<1>8. CASE Rollback(q)
  <2>1. exported[f] = None
    BY <1>1, <1>2, <1>8, OwnFacts, PathAssumption DEF Rollback
  <2>. QED
    BY <1>2, <1>3, <1>4, <1>8, <2>1 DEF Rollback, DeleteRow
<1>9. CASE Clear(q)
  BY <1>2, <1>3, <1>4, <1>9 DEF Clear, AfterUnexport
<1>10. CASE Drop(q)
  BY <1>2, <1>3, <1>4, <1>10 DEF Drop, DeleteRow
<1>11. CASE Unlist(q)
  BY <1>2, <1>3, <1>4, <1>11 DEF Unlist
<1>. QED
  BY <1>5, <1>6, <1>7, <1>8, <1>9, <1>10, <1>11

\* Then the steps on files.
LEMMA FileStepsAgree ==
  ASSUME SlotsApart, "db" \notin Faults, AgreeInv, NEW q \in Request, Serve(q),
         \/ OpenSource(q) \/ OpenSourceFails(q) \/ Probe(q) \/ ProbeFails(q)
         \/ CreateTmp(q) \/ Copy(q) \/ Publish(q) \/ ExportFails(q)
         \/ Lookup(q) \/ LookupFails(q) \/ Remove(q) \/ StepFails(q)
  PROVE  Agrees(q)' /\ Accounted(q)'
<1> DEFINE f == FileOf(q)
           a == job[q].act
<1>1. pc[q] # "idle" /\ WholeInv /\ TypeInv
  BY ServeLocals DEF AgreeInv, WholeInv
<1>2. /\ f \in File /\ a \in Act /\ Agrees(q) /\ Accounted(q)
      /\ None \notin Path /\ job[q] # None
  BY <1>1, OwnFacts, PathAssumption
<1>3. /\ pc \in [Request -> Label] /\ target \in [Request -> Path \cup {None}]
      /\ fs \in [Path -> Inode \cup {None}]
  BY <1>1 DEF TypeInv, TypeOK
<1>4. job' = job /\ UNCHANGED <<rows, current>>
  BY DEF OpenSource, OpenSourceFails, Probe, ProbeFails, CreateTmp, Copy, Publish, ExportFails,
     FailExport, Lookup, LookupFails, Remove, StepFails
<1>. USE DEF Agrees, Accounted, Exporting, Settled, HasCopy, Answered
<1>5. CASE Publish(q)
  <2>1. target[q] \in Path
    BY <1>1, <1>5, JobFacts DEF Publish, TypeInv, StagesOK
  <2>2. data[dst[q]] = Original(f) /\ dst[q] # None
    BY <1>1, <1>5, PathAssumption DEF Publish, AgreeInv, Faithful, TypeInv, StagesOK
  <2>3. fs'[target[q]] = dst[q] /\ data' = data
    BY <1>1, <1>3, <1>5, <2>1, <2>2, HandleFacts DEF Publish, WholeInv
  <2>. QED
    BY <1>2, <1>3, <1>4, <1>5, <2>1, <2>2, <2>3 DEF Publish
<1>6. CASE OpenSource(q)
  BY <1>2, <1>3, <1>4, <1>6 DEF OpenSource
<1>7. CASE /\ pc[q] \in {"open", "probe", "create", "copy", "publish"}
           /\ FailExport(q)
  BY <1>2, <1>3, <1>4, <1>7 DEF FailExport
<1>8. CASE Probe(q)
  BY <1>2, <1>3, <1>4, <1>8 DEF Probe, SameHash
<1>9. CASE CreateTmp(q) \/ Copy(q)
  BY <1>2, <1>3, <1>4, <1>9 DEF CreateTmp, Copy
<1>10. CASE Lookup(q)
  <2>1. state[f] = "picked" /\ exported[f] # None /\ a \in {"unpick", "reject"} /\ HasCopy(f)
    BY <1>2, <1>10 DEF Lookup
  <2>2. pc'[q] = "remove" /\ target'[q] = exported[f] /\ UNCHANGED disk
    BY <1>3, <1>10, <2>1 DEF Lookup, Seen
  <2>. QED
    BY <1>2, <1>4, <2>1, <2>2
<1>11. CASE LookupFails(q) \/ StepFails(q)
  BY <1>2, <1>3, <1>4, <1>11 DEF LookupFails, StepFails
<1>12. CASE Remove(q)
  <2>1. target[q] \in Path
    BY <1>1, <1>12, JobFacts DEF Remove, TypeInv, StagesOK
  <2>. QED
    BY <1>2, <1>3, <1>4, <1>12, <2>1 DEF Remove
<1>. QED
  BY <1>5, <1>6, <1>7, <1>8, <1>9, <1>10, <1>11, <1>12 DEF OpenSourceFails, ProbeFails, ExportFails
\* A step of one request changes nothing for another one's file.
LEMMA OthersRow ==
  ASSUME SlotsApart, WholeInv, NEW q \in Request, Serve(q), NEW f \in File, f # FileOf(q)
  PROVE  /\ state'[f] = state[f] /\ exported'[f] = exported[f]
         /\ HasCopy(f)' <=> HasCopy(f)
         /\ Settled(f)' <=> Settled(f)
<1>1. state'[f] = state[f] /\ exported'[f] = exported[f]
  BY ServeRows DEF WholeInv
<1>2. exported[f] # None => exported[f] \in SlotOf(f)
  BY DEF WholeInv, OwnSlots
<1>3. HasCopy(f)' <=> HasCopy(f)
  BY <1>1, <1>2, ServeOthersFiles DEF HasCopy, Original
<1>. QED
  BY <1>1, <1>3 DEF Settled

LEMMA OthersAgree ==
  ASSUME SlotsApart, AgreeInv, NEW q \in Request, Serve(q),
         NEW r \in Request \ {q}, job[r] # None
  PROVE  Agrees(r)' /\ Accounted(r)'
<1> DEFINE f == FileOf(r)
<1>1. pc[r] # "idle" /\ WholeInv /\ TypeInv
  BY DEF AgreeInv, WholeInv, OneEach
<1>2. f \in File /\ job[r] \in Job /\ Agrees(r) /\ Accounted(r)
  BY <1>1, OwnFacts
<1>3. job[q] # None
  BY <1>1, ServeLocals, JobFacts, PathAssumption
<1>4. f # FileOf(q)
  BY <1>3 DEF AgreeInv, WholeInv, OneEach
<1>5. /\ pc'[r] = pc[r] /\ job'[r] = job[r] /\ current'[r] = current[r]
      /\ target'[r] = target[r]
  BY <1>1, ServeLocals
<1>6. /\ state'[f] = state[f] /\ exported'[f] = exported[f]
      /\ HasCopy(f)' <=> HasCopy(f)
      /\ Settled(f)' <=> Settled(f)
  <2>1. PICK g \in File : g = f
    BY <1>2
  <2>2. /\ state'[g] = state[g] /\ exported'[g] = exported[g]
        /\ HasCopy(g)' <=> HasCopy(g)
        /\ Settled(g)' <=> Settled(g)
    BY <1>1, <1>4, <2>1, OthersRow
  <2>. QED
    BY <1>5, <2>1, <2>2 DEF HasCopy, Settled, Original
<1>7. target[r] # None =>
        fs'[target[r]] = fs[target[r]]
          /\ (fs[target[r]] # None => data'[fs[target[r]]] = data[fs[target[r]]])
  BY <1>1, <1>2, <1>4, ServeOthersFiles DEF WholeInv, OwnSlots
<1>8. pc[r] \in {"create", "copy", "publish", "record"} => target[r] # None
  BY <1>1, <1>2, JobFacts, PathAssumption DEF TypeInv, StagesOK
<1>9. Answered(r)' <=> Answered(r)
  BY <1>5, <1>6 DEF Answered
<1>10. Agrees(r)'
  BY <1>2, <1>5, <1>6, <1>7, <1>8, <1>9 DEF Agrees, Exporting, Original
<1>. QED
  BY <1>2, <1>5, <1>6, <1>7, <1>10 DEF Accounted

LEMMA ServeSettled ==
  ASSUME SlotsApart, AgreeInv, NEW q \in Request, Serve(q), NEW f \in File, ~ Busy(f)'
  PROVE  Settled(f)'
<1>1. pc[q] # "idle" /\ WholeInv /\ job[q] # None /\ FileOf(q) \in File
  BY ServeLocals, OwnFacts, PathAssumption DEF AgreeInv, WholeInv
<1>2. CASE f # FileOf(q)
  <2>1. ~ Busy(f)
    <3>1. \A r \in Request : job'[r] = job[r] \/ r = q
      BY <1>1, ServeLocals DEF WholeInv
    <3>. QED
      BY <1>2, <3>1 DEF Busy
  <2>2. Settled(f)
    BY <2>1 DEF AgreeInv, Consistent, Settled
  <2>. QED
    BY <1>1, <1>2, <2>2, OthersRow
<1>3. CASE f = FileOf(q)
  <2>1. Respond(q)
    BY <1>1, <1>3, ServeLocals DEF Busy, WholeInv
  <2>2. Settled(f)
    BY <1>1, <1>3, <2>1, OwnFacts DEF Respond, Agrees
  <2>. QED
    BY <2>1, <2>2 DEF Respond, Settled, HasCopy, Original
<1>. QED
  BY <1>2, <1>3

LEMMA ServeNoOrphan ==
  ASSUME SlotsApart, "db" \notin Faults, AgreeInv, NEW q \in Request, Serve(q),
         NEW p \in Path, fs'[p] # None, Disk[p] = None
  PROVE  \/ \E f \in File : exported'[f] = p
         \/ \E r \in Request : target'[r] = p
<1> DEFINE g == FileOf(q)
<1>1. /\ pc[q] # "idle" /\ WholeInv /\ TypeInv /\ p # None
      /\ exported \in [File -> Path \cup {None}] /\ target \in [Request -> Path \cup {None}]
  BY ServeLocals, PathAssumption DEF AgreeInv, WholeInv, TypeInv, TypeOK
<1>2. g \in File /\ Agrees(q) /\ Accounted(q) /\ job[q] # None
  BY <1>1, OwnFacts, PathAssumption
<1>3. CASE Publish(q) /\ p = target[q]
  BY <1>3 DEF Publish
<1>4. CASE fs'[p] = fs[p] /\ \E f \in File : exported[f] = p
  <2>1. PICK f \in File : exported[f] = p
    BY <1>4
  <2>2. CASE f # g
    BY <1>1, <2>1, <2>2, ServeRows
  <2>3. CASE f = g
    <3>1. ~ Record(q)
      BY <1>1, <1>2, <2>1, <2>3 DEF Record, Agrees, Exporting
    <3>2. ~ Rollback(q) /\ ~ Drop(q) /\ ~ Unlist(q)
      BY <1>1, <1>2, <2>1, <2>3 DEF Rollback, Drop, Unlist, Agrees, Exporting
    <3>3. ~ Clear(q)
      BY <1>1, <1>2, <1>4, <2>1, <2>3 DEF Clear, Agrees
    <3>4. exported' = exported
      BY <3>1, <3>2, <3>3 DEF Serve, Load, SetState, OpenSource, OpenSourceFails, Probe, ProbeFails,
         CreateTmp, Copy, Publish, ExportFails, FailExport, Lookup, LookupFails, Remove, StepFails,
         Respond
    <3>. QED
      BY <2>1, <3>4
  <2>. QED
    BY <2>2, <2>3
<1>5. CASE fs'[p] = fs[p] /\ \E r \in Request : target[r] = p
  <2>1. PICK r \in Request : target[r] = p
    BY <1>5
  <2>2. CASE r # q \/ target' = target
    BY <1>1, <2>1, <2>2, ServeLocals
  <2>3. CASE r = q /\ (Probe(q) \/ Lookup(q) \/ Respond(q))
    <3>1. exported[g] = p
      BY <1>1, <1>2, <1>5, <2>1, <2>3 DEF Accounted, Probe, Lookup, Respond
    <3>. QED
      BY <1>2, <1>4, <1>5, <3>1
  <2>. QED
    BY <2>2, <2>3 DEF Serve, Load, SetState, OpenSource, OpenSourceFails, ProbeFails, CreateTmp,
       Copy, Publish, ExportFails, FailExport, Record, Rollback, LookupFails, Remove, Clear, Drop,
       Unlist, StepFails
<1>. QED
  BY <1>1, <1>3, <1>4, <1>5, ServeFiles DEF AgreeInv, NoOrphan
LEMMA InitAgreeInv ==
  ASSUME Init
  PROVE  AgreeInv
<1>1. Faithful
  BY InitCopiesInv DEF CopiesInv
<1>2. Consistent /\ NoOrphan
  BY DEF Init, Consistent, NoOrphan
<1>3. \A r \in Request : job[r] = None
  BY DEF Init
<1>. QED
  BY <1>1, <1>2, <1>3, InitWholeInv DEF AgreeInv

\* A new request finds its file as the last one left it.
LEMMA BeginAgreeInv ==
  ASSUME OnePerFile, AgreeInv, WholeInv', Faithful',
         NEW r \in Request, NEW a \in Act, NEW f \in File, Begin(r, a, f)
  PROVE  AgreeInv'
<1>1. /\ pc[r] = "idle" /\ ~ Busy(f)
      /\ UNCHANGED <<rows, disk, current, target>>
      /\ pc' = [pc EXCEPT ![r] = "load"]
      /\ job' = [job EXCEPT ![r] = [act |-> a, file |-> f, dir |-> picksDir]]
  BY DEF Begin
<1>2. /\ pc \in [Request -> Label] /\ job \in [Request -> Job \cup {None}]
      /\ job[r] = None /\ target[r] = None
  BY <1>1 DEF AgreeInv, WholeInv, TypeInv, TypeOK, OneEach, OwnSlots
<1>3. pc'[r] = "load" /\ job'[r] # None /\ FileOf(r)' = f
  <2>1. pc'[r] = "load" /\ job'[r].file = f
    BY <1>1, <1>2
  <2>. QED
    BY <2>1 DEF OneEach, WholeInv
<1>4. Agrees(r)' /\ Accounted(r)'
  <2>1. Settled(f)
    BY <1>1 DEF AgreeInv, Consistent, Settled
  <2>2. Settled(FileOf(r))'
    BY <1>1, <1>3, <2>1 DEF Settled, HasCopy, Original
  <2>. QED
    BY <1>1, <1>2, <1>3, <2>2 DEF Agrees, Accounted, Exporting
<1>5. ASSUME NEW x \in Request \ {r}, job'[x] # None
      PROVE  Agrees(x)' /\ Accounted(x)'
  <2>1. job'[x] = job[x] /\ pc'[x] = pc[x]
    BY <1>1, <1>2
  <2>2. Agrees(x) /\ Accounted(x)
    BY <1>5, <2>1 DEF AgreeInv
  <2>. QED
    BY <1>1, <2>1, <2>2 DEF Agrees, Accounted, Exporting, Settled, HasCopy, Answered, Original
<1>6. Consistent'
  <2>1. ASSUME NEW g \in File, ~ Busy(g)'
        PROVE  ~ Busy(g)
    BY <1>1, <1>2, <2>1 DEF Busy
  <2>. QED
    BY <1>1, <2>1 DEF AgreeInv, Consistent, HasCopy, Original
<1>7. NoOrphan'
  BY <1>1 DEF AgreeInv, NoOrphan
<1>. QED
  BY <1>4, <1>5, <1>6, <1>7 DEF AgreeInv

Undisturbed == {"db", "crash"} \cap Faults = {}

LEMMA NextAgreeInv ==
  ASSUME OnePerFile, SlotsApart, OriginalsOutside, Undisturbed, AgreeInv, [Next]_vars
  PROVE  AgreeInv'
<1>1. WholeInv'
  BY NextWholeInv DEF AgreeInv
<1>2. Faithful'
  BY NextFaithful DEF AgreeInv
<1>3. CASE \E r \in Request : \E a \in Act : \E f \in File : Begin(r, a, f)
  BY <1>1, <1>2, <1>3, BeginAgreeInv
<1>4. CASE \E q \in Request : Serve(q)
  <2>1. PICK q \in Request : Serve(q)
    BY <1>4
  <2>2. CASE Respond(q)
    <3>1. job'[q] = None
      BY <2>2 DEF Respond, ForgetLocals
    <3>2. \A r \in Request : job'[r] # None => r # q /\ job[r] # None
      BY <2>1, <3>1, ServeLocals DEF AgreeInv, WholeInv
    <3>. QED
      BY <1>1, <1>2, <2>1, <3>2, OthersAgree, ServeSettled, ServeNoOrphan
         DEF AgreeInv, Consistent, NoOrphan, Settled, Undisturbed
  <2>3. CASE ~ Respond(q)
    <3>1. Agrees(q)' /\ Accounted(q)'
      BY <2>1, <2>3, RowStepsAgree, FileStepsAgree DEF Undisturbed, Serve
    <3>2. \A r \in Request : job'[r] = job[r]
      BY <2>1, <2>3, ServeLocals DEF AgreeInv, WholeInv
    <3>. QED
      BY <1>1, <1>2, <2>1, <3>1, <3>2, OthersAgree, ServeSettled, ServeNoOrphan
         DEF AgreeInv, Consistent, NoOrphan, Settled, Undisturbed
  <2>. QED
    BY <2>2, <2>3
<1>5. CASE (\E d \in Dir : SetPicksDir(d)) \/ UNCHANGED vars
  <2>1. UNCHANGED <<rows, disk, pc, locals>>
    BY <1>5 DEF SetPicksDir, vars
  <2>2. \A r \in Request : job'[r] # None => Agrees(r)' /\ Accounted(r)'
    BY <2>1 DEF AgreeInv, Agrees, Accounted, Exporting, Settled, HasCopy, Answered, Original
  <2>. QED
    BY <1>1, <1>2, <2>1, <2>2 DEF AgreeInv, Consistent, NoOrphan, Busy, HasCopy, Original
<1>6. ~ Crash
  BY DEF Crash, Undisturbed
<1>. QED
  BY <1>3, <1>4, <1>5, <1>6 DEF Next

LEMMA AgreeInvHolds ==
  ASSUME OnePerFile, SlotsApart, OriginalsOutside, Undisturbed
  PROVE  Spec => []AgreeInv
<1>1. Init => AgreeInv
  BY InitAgreeInv
<1>2. AgreeInv /\ [Next]_vars => AgreeInv'
  BY NextAgreeInv
<1>. QED
  BY <1>1, <1>2, PTL DEF Spec

\* "Keep DB consistent with disk": whatever calls on files fail and whatever
\* requests for other files do in between, a file that nobody works on has its
\* complete copy at the recorded path when it is picked, and no path when not.
THEOREM ConsistentHolds ==
  ASSUME OnePerFile, SlotsApart, OriginalsOutside, Undisturbed
  PROVE  Spec => []Consistent
<1>1. AgreeInv => Consistent
  BY DEF AgreeInv
<1>. QED
  BY <1>1, AgreeInvHolds, PTL

\* No copy is left behind in a picks folder without a row or a request that
\* knows it.
THEOREM NoOrphanHolds ==
  ASSUME OnePerFile, SlotsApart, OriginalsOutside, Undisturbed
  PROVE  Spec => []NoOrphan
<1>1. AgreeInv => NoOrphan
  BY DEF AgreeInv
<1>. QED
  BY <1>1, AgreeInvHolds, PTL

\* A 200 answer tells the truth about the row and the picks folder.
THEOREM AnswerHoldsAlways ==
  ASSUME OnePerFile, SlotsApart, OriginalsOutside, Undisturbed
  PROVE  Spec => []AnswerHolds
<1>1. ASSUME AgreeInv, NEW r \in Request, pc[r] = "ok"
      PROVE  Answered(r)
  BY <1>1, OwnFacts DEF Agrees
<1>2. AgreeInv => AnswerHolds
  BY <1>1 DEF AnswerHolds, Answered
<1>. QED
  BY <1>2, AgreeInvHolds, PTL

\* The service takes a file away only where it was the copy of one file that
\* recorded it: a rename finds its target free, a removal finds its own copy.
THEOREM OnlyOwnCopiesGoHolds ==
  ASSUME OnePerFile, SlotsApart, OriginalsOutside, Undisturbed
  PROVE  Spec => OnlyOwnCopiesGo
<1> DEFINE OwnGoes == \A p \in Path : (fs[p] # None /\ fs'[p] # fs[p]) =>
              \E f \in File :
                /\ exported[f] = p
                /\ data[fs[p]] = Original(f)
                /\ \A g \in File \ {f} : exported[g] # p
<1>1. ASSUME AgreeInv, [Next]_vars
      PROVE  OwnGoes
  <2>. SUFFICES ASSUME NEW p \in Path, fs[p] # None, fs'[p] # fs[p]
                PROVE  \E f \in File :
                         /\ exported[f] = p
                         /\ data[fs[p]] = Original(f)
                         /\ \A g \in File \ {f} : exported[g] # p
    OBVIOUS
  <2>1. PICK q \in Request : Serve(q)
    BY <1>1 DEF Next, Begin, SetPicksDir, Crash, vars
  <2>2. /\ FileOf(q) \in File /\ Agrees(q) /\ p # None
        /\ (Publish(q) \/ Remove(q)) /\ p = target[q]
    BY <1>1, <2>1, ServeLocals, ServeFiles, OwnFacts, PathAssumption DEF AgreeInv, WholeInv
  <2>3. Remove(q) /\ exported[FileOf(q)] = p /\ HasCopy(FileOf(q))
    BY <2>2 DEF Agrees, Publish, Remove
  <2>4. \A g \in File \ {FileOf(q)} : exported[g] # p
    BY <1>1, <2>2, <2>3, SlotsDisjoint DEF AgreeInv, WholeInv, OwnSlots
  <2>. QED
    BY <2>2, <2>3, <2>4 DEF HasCopy
<1>2. AgreeInv /\ [Next]_vars => [OwnGoes]_vars
  BY <1>1
<1>. QED
  BY <1>2, AgreeInvHolds, PTL DEF Spec, OnlyOwnCopiesGo
-----------------------------------------------------------------------------
(* The refinement of PickBook                                              *)

\* The mark a client sees while the request r is served.
MarkOf(r) ==
  IF pc[r] \in {"open", "probe", "create", "copy", "publish", "record", "rollback"}
    THEN current[r] ELSE state[FileOf(r)]

\* What the refinement mapping shows of a file: there is no choice between
\* requests, and the copies are those of the marks.
BookView ==
  /\ \A r \in Request : job[r] # None =>
       MarkNow(FileOf(r)) = MarkOf(r) /\ AskedNow(FileOf(r)) = job[r].act
  /\ \A f \in File : ~ Busy(f) => MarkNow(f) = state[f] /\ AskedNow(f) = "none"
  /\ \A f \in File : CopiedNow(f) <=> MarkNow(f) = "picked"

LEMMA BookViewHolds == AgreeInv => BookView
<1>. SUFFICES ASSUME AgreeInv PROVE BookView
  OBVIOUS
<1>1. OneEach
  BY DEF AgreeInv, WholeInv
<1>2. ASSUME NEW r \in Request, job[r] # None
      PROVE  MarkNow(FileOf(r)) = MarkOf(r)
  <2> DEFINE f == FileOf(r)
             c == CHOOSE x \in Request : Exporting(x, f)
  <2>1. \A x \in Request : Exporting(x, f) => x = r
    BY <1>1, <1>2 DEF Exporting, OneEach
  <2>2. CASE Exporting(r, f)
    <3>1. c \in Request /\ Exporting(c, f)
      BY <2>2
    <3>2. c = r
      BY <2>1, <3>1
    <3>3. MarkNow(f) = current[c]
      BY <2>2 DEF MarkNow
    <3>. QED
      BY <2>2, <3>2, <3>3 DEF MarkOf, Exporting
  <2>3. CASE ~ Exporting(r, f)
    <3>1. MarkNow(f) = state[f]
      BY <2>1, <2>3 DEF MarkNow
    <3>. QED
      BY <1>2, <2>3, <3>1 DEF MarkOf, Exporting
  <2>. QED
    BY <2>2, <2>3
<1>3. ASSUME NEW r \in Request, job[r] # None
      PROVE  AskedNow(FileOf(r)) = job[r].act
  <2> DEFINE f == FileOf(r)
             c == CHOOSE x \in Request : job[x] # None /\ FileOf(x) = f
  <2>1. c \in Request /\ job[c] # None /\ FileOf(c) = f
    BY <1>3
  <2>2. c = r
    BY <1>1, <1>3, <2>1 DEF OneEach
  <2>3. AskedNow(f) = job[c].act
    BY <1>3 DEF AskedNow, Busy
  <2>. QED
    BY <2>2, <2>3
<1>4. ASSUME NEW f \in File, ~ Busy(f)
      PROVE  MarkNow(f) = state[f] /\ AskedNow(f) = "none"
  BY <1>4 DEF MarkNow, AskedNow, Busy, Exporting
<1>5. ASSUME NEW f \in File
      PROVE  CopiedNow(f) <=> MarkNow(f) = "picked"
  BY <1>4 DEF CopiedNow, AgreeInv, Consistent, HasCopy
<1>. QED
  BY <1>2, <1>3, <1>4, <1>5 DEF BookView

\* The book does not see a step of a request on another file.
LEMMA OthersBook ==
  ASSUME SlotsApart, AgreeInv, AgreeInv', NEW q \in Request, Serve(q),
         NEW f \in File, f # FileOf(q)
  PROVE  MarkNow(f)' = MarkNow(f) /\ AskedNow(f)' = AskedNow(f)
<1>1. BookView /\ BookView'
  BY BookViewHolds, PTL
<1>2. WholeInv /\ TypeInv
  BY DEF AgreeInv, WholeInv
<1>3. state'[f] = state[f]
  BY <1>2, ServeRows
<1>4. CASE Busy(f)
  <2>1. PICK r \in Request : job[r] # None /\ FileOf(r) = f /\ r # q
    BY <1>4 DEF Busy
  <2>2. /\ pc'[r] = pc[r] /\ job'[r] = job[r] /\ current'[r] = current[r]
    BY <1>2, <2>1, ServeLocals
  <2>3. MarkOf(r)' = MarkOf(r)
    BY <1>3, <2>1, <2>2 DEF MarkOf
  <2>4. MarkNow(f) = MarkOf(r) /\ AskedNow(f) = job[r].act
    BY <1>1, <2>1 DEF BookView
  <2>5. MarkNow(f)' = MarkOf(r)' /\ AskedNow(f)' = job'[r].act
    <3>1. MarkNow(FileOf(r))' = MarkOf(r)' /\ AskedNow(FileOf(r))' = job'[r].act
      BY <1>1, <2>1, <2>2 DEF BookView
    <3>2. FileOf(r)' = f
      BY <2>1, <2>2
    <3>. QED
      BY <3>1, <3>2 DEF MarkNow, AskedNow, Exporting, Busy
  <2>. QED
    BY <2>2, <2>3, <2>4, <2>5
<1>5. CASE ~ Busy(f)
  <2>1. \A r \in Request : job'[r] = job[r] \/ job'[r] = None
    BY <1>2, ServeJobs DEF Respond, ForgetLocals
  <2>2. ~ Busy(f)'
    BY <1>5, <2>1 DEF Busy
  <2>. QED
    BY <1>1, <1>3, <1>5, <2>2 DEF BookView
<1>. QED
  BY <1>4, <1>5
\* A change of the mark of f that the book allows to the action a.
Changes(a, m, n) ==
  \/ a = "pick" /\ m # "picked" /\ n = "picked"
  \/ a = "pick" /\ m = "rejected" /\ n = "unmarked"
  \/ a = "unpick" /\ m = "picked" /\ n = "unmarked"
  \/ a = "reject" /\ n = "rejected"
  \/ a = "unreject" /\ m = "rejected" /\ n = "unmarked"

\* The step of a request that takes effect is one the book allows to its action;
\* all others leave the mark as it is.
LEMMA OwnMark ==
  ASSUME "db" \notin Faults, AgreeInv, NEW q \in Request, Serve(q), ~ Respond(q)
  PROVE  MarkOf(q)' = MarkOf(q) \/ Changes(job[q].act, MarkOf(q), MarkOf(q)')
<1> DEFINE f == FileOf(q)
           a == job[q].act
<1>1. pc[q] # "idle" /\ job' = job
  BY ServeLocals DEF AgreeInv, WholeInv
<1>2. f \in File /\ a \in Act /\ Agrees(q) /\ job[q] # None
  BY <1>1, OwnFacts, PathAssumption
<1>3. /\ state \in [File -> Mark] /\ pc \in [Request -> Label] /\ current \in [Request -> Mark]
  BY <1>1, OwnFacts
<1>4. CASE Load(q)
  BY <1>1, <1>3, <1>4 DEF Load, MarkOf
<1>5. CASE SetState(q)
  BY <1>1, <1>2, <1>3, <1>5 DEF SetState, MarkOf, Changes, Agrees
<1>6. CASE Record(q)
  BY <1>1, <1>2, <1>3, <1>6 DEF Record, MarkOf, Changes, Agrees, Exporting
<1>7. CASE Rollback(q)
  <2>1. a = "pick" /\ current[q] \in {"unmarked", "rejected"}
    BY <1>2, <1>3, <1>7 DEF Rollback, Agrees, Exporting, Mark
  <2>. QED
    BY <1>1, <1>2, <1>3, <1>7, <2>1 DEF Rollback, DeleteRow, MarkOf, Changes
<1>8. CASE Drop(q)
  BY <1>1, <1>2, <1>3, <1>8 DEF Drop, DeleteRow, MarkOf, Changes, Agrees
<1>9. CASE \/ OpenSource(q) \/ Probe(q) \/ CreateTmp(q) \/ Copy(q) \/ Publish(q)
           \/ OpenSourceFails(q) \/ ProbeFails(q) \/ ExportFails(q)
  BY <1>1, <1>3, <1>9 DEF OpenSource, Probe, CreateTmp, Copy, Publish, OpenSourceFails, ProbeFails,
     ExportFails, FailExport, MarkOf
<1>10. CASE Lookup(q) \/ LookupFails(q) \/ Remove(q) \/ Clear(q) \/ Unlist(q) \/ StepFails(q)
  BY <1>1, <1>3, <1>10 DEF Lookup, LookupFails, Remove, Clear, Unlist, StepFails, AfterUnexport,
     MarkOf
<1>. QED
  BY <1>4, <1>5, <1>6, <1>7, <1>8, <1>9, <1>10 DEF Serve

LEMMA OwnBook ==
  ASSUME "db" \notin Faults, AgreeInv, AgreeInv', NEW q \in Request, Serve(q),
         NEW f \in File, f = FileOf(q)
  PROVE  \/ /\ AskedNow(f)' = "none" /\ AskedNow(f) # "none"
            /\ MarkNow(f)' = MarkNow(f)
         \/ /\ AskedNow(f)' = AskedNow(f)
            /\ \/ MarkNow(f)' = MarkNow(f)
               \/ Changes(AskedNow(f), MarkNow(f), MarkNow(f)')
<1>1. BookView /\ BookView'
  BY BookViewHolds, PTL
<1>2. pc[q] # "idle" /\ job[q] # None /\ OneEach /\ job[q].act \in Act
  BY ServeLocals, OwnFacts, PathAssumption DEF AgreeInv, WholeInv
<1>3. MarkNow(f) = MarkOf(q) /\ AskedNow(f) = job[q].act
  BY <1>1, <1>2 DEF BookView
<1>4. CASE Respond(q)
  <2>1. /\ \A r \in Request : job'[r] = IF r = q THEN None ELSE job[r]
        /\ state' = state /\ pc[q] \in {"ok", "error"}
    BY <1>4 DEF Respond, ForgetLocals
  <2>2. ~ Busy(f)'
    BY <1>2, <2>1 DEF Busy, OneEach
  <2>3. MarkNow(f)' = state[f] /\ AskedNow(f)' = "none"
    BY <1>1, <2>1, <2>2 DEF BookView
  <2>4. MarkOf(q) = state[f]
    BY <2>1 DEF MarkOf
  <2>. QED
    BY <1>2, <1>3, <2>3, <2>4 DEF Act
<1>5. CASE ~ Respond(q)
  <2>1. job'[q] = job[q]
    BY <1>5, ServeJobs DEF AgreeInv, WholeInv
  <2>2. MarkNow(FileOf(q))' = MarkOf(q)' /\ AskedNow(FileOf(q))' = job'[q].act
    BY <1>1, <1>2, <2>1 DEF BookView
  <2>3. MarkNow(f)' = MarkOf(q)' /\ AskedNow(f)' = job[q].act
    BY <2>1, <2>2 DEF MarkNow, AskedNow, Exporting, Busy
  <2>. QED
    BY <1>3, <1>5, <2>3, OwnMark
<1>. QED
  BY <1>4, <1>5

\* Where the marks change as Changes allows, and the copies with them, the book
\* makes a step.
LEMMA BookSteps ==
  ASSUME BookView, BookView', NEW f \in File,
         \A g \in File \ {f} : MarkNow(g)' = MarkNow(g) /\ AskedNow(g)' = AskedNow(g)
  PROVE  /\ MarkNow(f)' = MarkNow(f) /\ AskedNow(f)' = AskedNow(f) => UNCHANGED Book!bookVars
         /\ MarkNow(f)' = MarkNow(f) /\ AskedNow(f)' = "none" /\ AskedNow(f) # "none"
              => Book!Answer(f)
         /\ \A a \in Act :
              MarkNow(f)' = MarkNow(f) /\ AskedNow(f) = "none" /\ AskedNow(f)' = a
                => Book!Ask(f, a)
         /\ AskedNow(f)' = AskedNow(f) /\ Changes(AskedNow(f), MarkNow(f), MarkNow(f)')
              => Book!BookNext
<1> DEFINE marks == [g \in File |-> MarkNow(g)]
           copies == {g \in File : CopiedNow(g)}
           asks == [g \in File |-> AskedNow(g)]
<1>1. /\ \A g \in File : CopiedNow(g) <=> MarkNow(g) = "picked"
      /\ \A g \in File : CopiedNow(g)' <=> MarkNow(g)' = "picked"
  BY DEF BookView
<1>2. ASSUME MarkNow(f)' = MarkNow(f)
      PROVE  marks' = marks /\ copies' = copies
  BY <1>1, <1>2
<1>3. asks' = [asks EXCEPT ![f] = AskedNow(f)']
  OBVIOUS
<1>4. marks' = [marks EXCEPT ![f] = MarkNow(f)']
  OBVIOUS
<1>5. copies' = IF MarkNow(f)' = "picked" THEN copies \cup {f} ELSE copies \ {f}
  BY <1>1
<1>6. asks[f] = AskedNow(f) /\ marks[f] = MarkNow(f)
  OBVIOUS
<1>7. ASSUME AskedNow(f)' = AskedNow(f)
      PROVE  asks' = asks
  BY <1>7
<1>8. MarkNow(f)' = MarkNow(f) /\ AskedNow(f)' = AskedNow(f) => UNCHANGED Book!bookVars
  BY <1>2, <1>7 DEF Book!bookVars
<1>9. MarkNow(f)' = MarkNow(f) /\ AskedNow(f)' = "none" /\ AskedNow(f) # "none"
        => Book!Answer(f)
  BY <1>2, <1>3, <1>6 DEF Book!Answer
<1>10. ASSUME NEW a \in Act
       PROVE  MarkNow(f)' = MarkNow(f) /\ AskedNow(f) = "none" /\ AskedNow(f)' = a
                => Book!Ask(f, a)
  BY <1>2, <1>3, <1>6 DEF Book!Ask
<1>11. ASSUME AskedNow(f)' = AskedNow(f), Changes(AskedNow(f), MarkNow(f), MarkNow(f)')
       PROVE  Book!BookNext
  <2>1. Book!Become(f, MarkNow(f)')
    BY <1>4, <1>5, <1>7, <1>11 DEF Book!Become
  <2>2. \/ Book!DoPick(f) \/ Book!FailPick(f) \/ Book!DoUnpick(f) \/ Book!DoReject(f)
        \/ Book!DoUnreject(f)
    BY <1>6, <1>11, <2>1
       DEF Changes, Book!DoPick, Book!FailPick, Book!DoUnpick, Book!DoReject, Book!DoUnreject
  <2>. QED
    BY <2>2 DEF Book!BookNext
<1>. QED
  BY <1>8, <1>9, <1>10, <1>11
LEMMA NextBook ==
  ASSUME OnePerFile, SlotsApart, OriginalsOutside, Undisturbed, AgreeInv, [Next]_vars
  PROVE  [Book!BookNext]_(Book!bookVars)
<1>1. AgreeInv'
  BY NextAgreeInv
<1>2. BookView /\ BookView'
  BY <1>1, BookViewHolds, PTL
<1>3. ASSUME NEW r \in Request, NEW a \in Act, NEW f \in File, Begin(r, a, f)
      PROVE  Book!BookNext
  <2>1. /\ ~ Busy(f) /\ pc[r] = "idle"
        /\ UNCHANGED <<rows, disk, current>>
        /\ pc' = [pc EXCEPT ![r] = "load"]
        /\ job' = [job EXCEPT ![r] = [act |-> a, file |-> f, dir |-> picksDir]]
    BY <1>3 DEF Begin
  <2>2. /\ pc \in [Request -> Label] /\ job \in [Request -> Job \cup {None}]
        /\ job[r] = None /\ OneEach'
    BY <1>1, <2>1 DEF AgreeInv, WholeInv, TypeInv, TypeOK, OneEach
  <2>3. pc'[r] = "load" /\ job'[r].file = f /\ job'[r].act = a /\ job'[r] # None
    <3>1. pc'[r] = "load" /\ job'[r] = [act |-> a, file |-> f, dir |-> picksDir]
      BY <2>1, <2>2
    <3>. QED
      BY <2>2, <3>1 DEF OneEach
  <2>4. \A x \in Request \ {r} : pc'[x] = pc[x] /\ job'[x] = job[x]
    BY <2>1, <2>2
  <2>5. MarkNow(f) = state[f] /\ AskedNow(f) = "none"
    BY <1>2, <2>1 DEF BookView
  <2>6. MarkNow(f)' = state[f] /\ AskedNow(f)' = a
    <3>1. MarkNow(FileOf(r))' = MarkOf(r)' /\ AskedNow(FileOf(r))' = job'[r].act
      BY <1>2, <2>3 DEF BookView
    <3>2. MarkNow(f)' = MarkOf(r)' /\ AskedNow(f)' = job'[r].act
      BY <2>3, <3>1 DEF MarkNow, AskedNow, Exporting, Busy
    <3>. QED
      BY <2>1, <2>3, <3>2 DEF MarkOf
  <2>7. ASSUME NEW g \in File \ {f}
        PROVE  MarkNow(g)' = MarkNow(g) /\ AskedNow(g)' = AskedNow(g)
    <3>1. CASE Busy(g)
      <4>1. PICK x \in Request : job[x] # None /\ FileOf(x) = g /\ x # r
        BY <2>2, <3>1 DEF Busy
      <4>2. MarkNow(g) = MarkOf(x) /\ AskedNow(g) = job[x].act
        BY <1>2, <4>1 DEF BookView
      <4>3. MarkNow(FileOf(x))' = MarkOf(x)' /\ AskedNow(FileOf(x))' = job'[x].act
        BY <1>2, <2>4, <4>1 DEF BookView
      <4>4. MarkNow(g)' = MarkOf(x)' /\ AskedNow(g)' = job'[x].act
        BY <2>4, <4>1, <4>3 DEF MarkNow, AskedNow, Exporting, Busy
      <4>5. MarkOf(x)' = MarkOf(x)
        BY <2>1, <2>4, <4>1 DEF MarkOf
      <4>. QED
        BY <2>4, <4>1, <4>2, <4>4, <4>5
    <3>2. CASE ~ Busy(g)
      <4>1. ~ Busy(g)'
        BY <2>3, <2>4, <3>2 DEF Busy
      <4>. QED
        BY <1>2, <2>1, <3>2, <4>1 DEF BookView
    <3>. QED
      BY <3>1, <3>2
  <2>8. Book!Ask(f, a)
    BY <1>2, <2>5, <2>6, <2>7, BookSteps
  <2>. QED
    BY <2>8 DEF Book!BookNext, Book!Actions, Act
<1>4. ASSUME NEW q \in Request, Serve(q)
      PROVE  Book!BookNext \/ UNCHANGED Book!bookVars
  <2>1. PICK f \in File : f = FileOf(q)
    BY <1>4, ServeLocals, OwnFacts DEF AgreeInv, WholeInv
  <2>2. \A g \in File \ {f} : MarkNow(g)' = MarkNow(g) /\ AskedNow(g)' = AskedNow(g)
    BY <1>1, <1>4, <2>1, OthersBook
  <2>3. \/ /\ AskedNow(f)' = "none" /\ AskedNow(f) # "none"
           /\ MarkNow(f)' = MarkNow(f)
        \/ /\ AskedNow(f)' = AskedNow(f)
           /\ \/ MarkNow(f)' = MarkNow(f)
              \/ Changes(AskedNow(f), MarkNow(f), MarkNow(f)')
    BY <1>1, <1>4, <2>1, OwnBook DEF Undisturbed
  <2>4. Book!Answer(f) => Book!BookNext
    BY DEF Book!BookNext
  <2>. QED
    BY <1>2, <2>2, <2>3, <2>4, BookSteps
<1>5. CASE (\E d \in Dir : SetPicksDir(d)) \/ UNCHANGED vars
  <2>1. UNCHANGED <<rows, disk, pc, locals>>
    BY <1>5 DEF SetPicksDir, vars
  <2>2. \A f \in File : /\ MarkNow(f)' = MarkNow(f) /\ AskedNow(f)' = AskedNow(f)
                        /\ CopiedNow(f)' = CopiedNow(f)
    BY <2>1 DEF MarkNow, AskedNow, CopiedNow, Exporting, Busy, HasCopy, Original
  <2>. QED
    BY <2>2 DEF Book!bookVars
<1>6. ~ Crash
  BY DEF Crash, Undisturbed
<1>. QED
  BY <1>3, <1>4, <1>5, <1>6 DEF Next

\* The service implements the book, step by step: at every moment a client sees
\* one mark per file, exactly the picked files have a copy, and both change
\* together, as the request that is being served asks.  (That every request is
\* answered is the part of ImplementsBook the model checker sees to.)
THEOREM StepsImplementBook ==
  ASSUME OnePerFile, SlotsApart, OriginalsOutside, Undisturbed
  PROVE  Spec => Book!BookInit /\ [][Book!BookNext]_(Book!bookVars)
<1>1. Init => Book!BookInit
  <2>. SUFFICES ASSUME Init PROVE Book!BookInit
    OBVIOUS
  <2>1. BookView
    BY InitAgreeInv, BookViewHolds
  <2>2. \A f \in File : ~ Busy(f) /\ state[f] = "unmarked"
    BY DEF Init, Busy
  <2>3. \A f \in File : /\ MarkNow(f) = "unmarked" /\ AskedNow(f) = "none"
                        /\ ~ CopiedNow(f)
    BY <2>1, <2>2 DEF BookView
  <2>. QED
    BY <2>3 DEF Book!BookInit
<1>2. AgreeInv /\ [Next]_vars => [Book!BookNext]_(Book!bookVars)
  BY NextBook
<1>. QED
  BY <1>1, <1>2, AgreeInvHolds, PTL DEF Spec
=============================================================================
