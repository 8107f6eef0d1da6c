--------------------------- MODULE PipelineProofs ---------------------------
(***************************************************************************)
(* Theorems about Pipeline for any number of files, versions and workers,  *)
(* any batch size, any files that tools reject or that cannot be opened,   *)
(* and every fault.                                                        *)
(***************************************************************************)
EXTENDS Pipeline, FiniteSetTheorems, WellFoundedInduction, TLAPS

USE DEF disk, derived, rows, process, walk, pool, OutsidePool, OnlyDisk, Cancelled, Idle

-----------------------------------------------------------------------------
(* Sets of files                                                           *)

\* Of the sets of files up to each of its members, a set has a smallest.
LEMMA FinitelyMany ==
  /\ File \subseteq Nat
  /\ IsFiniteSet(File) /\ Cardinality(File) = NumFiles
<1>1. 1 \in Int /\ NumFiles \in Int /\ NumFiles >= 0
  BY PipelineAssumption
<1>2. IsFiniteSet(1 .. NumFiles) /\ Cardinality(1 .. NumFiles) = NumFiles
  BY <1>1, FS_Interval
<1>. QED
  BY <1>2 DEF File

LEMMA CountOf ==
  ASSUME NEW S \in SUBSET File
  PROVE  IsFiniteSet(S) /\ Cardinality(S) \in 0 .. NumFiles
<1>1. IsFiniteSet(S) /\ Cardinality(S) <= NumFiles
  BY FinitelyMany, FS_Subset
<1>2. Cardinality(S) \in Nat
  BY <1>1, FS_CardinalityType
<1>. QED
  BY <1>1, <1>2, PipelineAssumption

LEMMA FirstOf ==
  ASSUME NEW S \in SUBSET File, S # {}
  PROVE  First(S) \in S
<1> DEFINE Upto(f) == {g \in S : g <= f}
           Family == {Upto(f) : f \in S}
<1>1. S \subseteq Nat /\ IsFiniteSet(S)
  BY FinitelyMany, CountOf
<1>2. Family \subseteq FiniteSubsetsOf(S) /\ Family # {}
  <2>1. ASSUME NEW f \in S
        PROVE  Upto(f) \in FiniteSubsetsOf(S)
    <3>1. Upto(f) \in SUBSET S
      OBVIOUS
    <3>2. IsFiniteSet(Upto(f))
      BY <1>1, <3>1, FS_Subset
    <3>. QED
      BY <3>1, <3>2 DEF FiniteSubsetsOf
  <2>. QED
    BY <2>1
<1>3. PICK U \in Family : \A V \in Family : ~ (<<V, U>> \in StrictSubsetOrdering(S))
  <2>. HIDE DEF Family
  <2>. QED
    BY <1>2, WFMin, FS_StrictSubsetOrderingWellFounded
<1>4. PICK f \in S : U = Upto(f)
  BY <1>3
<1>5. \A g \in S : f <= g
  <2>1. SUFFICES ASSUME NEW g \in S, g < f
                 PROVE  FALSE
    BY <1>1
  <2>2. Upto(g) \subseteq Upto(f) /\ f \in Upto(f) /\ f \notin Upto(g)
    <3>. HIDE DEF Family
    <3>1. f \in Nat /\ g \in Nat /\ \A h \in S : h \in Nat
      BY <1>1
    <3>2. f <= f /\ ~ (f <= g) /\ \A h \in S : h <= g => h <= f
      BY <2>1, <3>1
    <3>. QED
      BY <3>2
  <2>3. <<Upto(g), U>> \in StrictSubsetOrdering(S)
    BY <1>4, <2>2 DEF StrictSubsetOrdering
  <2>4. Upto(g) \in Family
    OBVIOUS
  <2>. HIDE DEF Family, Upto
  <2>. QED
    BY <1>3, <2>3, <2>4
<1>. QED
  BY <1>5 DEF First

-----------------------------------------------------------------------------
(* Types                                                                   *)

\* The pool has work only while it runs.
PoolOK ==
  /\ pc # "pool" => batch = {} /\ work = [f \in File |-> "no"]
  /\ \A f \in batch : work[f] = "no"
  /\ \A f \in File : work[f] = "written" => stage # "metadata"

TypeInv == TypeOK /\ PoolOK

LEMMA InitType == Init => TypeInv
<1>. SUFFICES ASSUME Init
              PROVE  TypeInv
  OBVIOUS
<1>1. /\ present \subseteq File /\ version \in [File -> Version]
      /\ setting \in PicksDir /\ picksDir \in PicksDir /\ budget \in 0 .. Budget
  BY PipelineAssumption DEF Init, Version
<1>2. /\ status \in [File -> Status]
      /\ hash \in [File -> Version \cup {None}] /\ exif \in [File -> Version \cup {None}]
      /\ thumb \in [File -> Version \cup {None}] /\ embed \in [File -> Version \cup {None}]
  BY DEF Init, Status
<1>3. /\ stage \in Stage /\ before \in 0 .. NumFiles
      /\ work \in [File -> {"no", "taken", "written"}]
  BY PipelineAssumption DEF Init, Stage
<1>4. model \in BOOLEAN /\ auto \in BOOLEAN
  BY Zenon DEF Init
<1>5. PoolOK
  BY DEF Init, PoolOK
<1>. QED
  BY <1>1, <1>2, <1>3, <1>4, <1>5 DEF Init, TypeInv, TypeOK

\* The end of a run leaves a state that fits.
LEMMA EndType ==
  ASSUME TypeInv, NEW how, End(how),
         how \in {"cancelled", "unreadable", "stuck", "error", "ok"},
         status' \in [File -> Status], hash' \in [File -> Version \cup {None}],
         clustered' \subseteq File, UNCHANGED derived
  PROVE  TypeInv'
BY PipelineAssumption DEF End, TypeInv, TypeOK, PoolOK, Stage

LEMMA WalkType ==
  ASSUME TypeInv, List \/ Visit \/ VisitFails \/ Sweep
  PROVE  TypeInv'
<1>. USE DEF TypeInv, TypeOK, PoolOK
<1>1. CASE List
  <2>1. /\ status' \in [File -> Status] /\ hash' \in [File -> Version \cup {None}]
        /\ exif' \in [File -> Version \cup {None}]
    BY <1>1 DEF List, Wiped, Status
  <2>2. /\ thumb' \in [File -> Version \cup {None}]
        /\ embed' \in [File -> Version \cup {None}]
    BY <1>1 DEF List, Wiped
  <2>3. clustered' \subseteq File /\ entries' \subseteq File /\ seen' \subseteq File
    BY <1>1 DEF List
  <2>. QED
    BY <1>1, <2>1, <2>2, <2>3 DEF List
<1>2. CASE Visit
  <2>1. NextEntry \in File
    BY <1>2 DEF Visit
  <2>2. hash' \in [File -> Version \cup {None}] /\ status' \in [File -> Status]
    BY <1>2, <2>1 DEF Visit, Upsert, Status
  <2>. QED
    BY <1>2, <2>1, <2>2 DEF Visit
<1>3. CASE VisitFails
  BY <1>3, EndType DEF VisitFails
<1>4. CASE Sweep
  <2>1. status' \in [File -> Status]
    BY <1>4 DEF Sweep, Status
  <2>. QED
    BY <1>4, <2>1 DEF Sweep
<1>. QED
  BY <1>1, <1>2, <1>3, <1>4

LEMMA LoopType ==
  ASSUME TypeInv, Count \/ Fetch \/ Drain \/ Recount \/ Stuck
  PROVE  TypeInv'
<1>. USE DEF TypeInv, TypeOK, PoolOK
<1>1. CASE Count
  <2>1. before' \in 0 .. NumFiles
    BY <1>1, CountOf DEF Count, Queue
  <2>. QED
    BY <1>1, <2>1 DEF Count
<1>2. CASE Fetch
  <2>1. batch' \subseteq File
    BY <1>2 DEF Fetch, Lowest, Queue
  <2>. QED
    BY <1>2, <2>1 DEF Fetch
<1>3. CASE Drain
  BY <1>3, PipelineAssumption DEF Drain, Stage
<1>4. CASE Recount
  BY <1>4, PipelineAssumption DEF Recount
<1>5. CASE Stuck
  BY <1>5, EndType DEF Stuck
<1>. QED
  BY <1>1, <1>2, <1>3, <1>4, <1>5

LEMMA PoolType ==
  ASSUME TypeInv, Take \/ PoolEnds \/ PoolCancelled
  PROVE  TypeInv'
<1>. USE DEF TypeInv, TypeOK, PoolOK
<1>1. CASE Take
  <2>1. First(batch) \in batch
    BY <1>1, FirstOf DEF Take
  <2>. QED
    BY <1>1, <2>1 DEF Take
<1>2. CASE PoolEnds
  BY <1>2 DEF PoolEnds, Working
<1>3. CASE PoolCancelled
  BY <1>3, EndType DEF PoolCancelled
<1>. QED
  BY <1>1, <1>2, <1>3

LEMMA ProcessType ==
  ASSUME TypeInv, NEW f \in File, Process(f)
  PROVE  TypeInv'
<1>. USE DEF TypeInv, TypeOK, PoolOK, Does, Advance, SetStatus
<1>1. CASE ReadExif(f)
  BY <1>1 DEF ReadExif, Status
<1>2. CASE BuildThumb(f)
  BY <1>2 DEF BuildThumb
<1>3. CASE Embed(f)
  <2>1. embed' \in [File -> Version \cup {None}]
    BY <1>3 DEF Embed
  <2>. QED
    BY <1>3, <2>1 DEF Embed
<1>4. CASE MarkDone(f)
  BY <1>4 DEF MarkDone, Status
<1>5. CASE Fails(f)
  BY <1>5 DEF Fails, Status
<1>6. CASE Skip(f)
  BY <1>6 DEF Skip
<1>. QED
  BY <1>1, <1>2, <1>3, <1>4, <1>5, <1>6 DEF Process

LEMMA RestType ==
  ASSUME TypeInv, GiveUp \/ DbFails \/ Group \/ WriteClusters \/ AutoStart \/ FinalizeStart \/ Exit
  PROVE  TypeInv'
<1>. USE DEF TypeInv, TypeOK, PoolOK
<1>1. CASE GiveUp \/ DbFails
  BY <1>1, EndType DEF GiveUp, DbFails
<1>2. CASE Group
  BY <1>2 DEF Group
<1>3. CASE WriteClusters
  BY <1>3, EndType DEF WriteClusters
<1>4. CASE AutoStart \/ FinalizeStart
  <2>1. /\ UNCHANGED <<disk, setting, model, budget, rows, proc, stage, entries, seen, pool, analyzed>>
        /\ picksDir' \in {picksDir, setting} /\ result' \in {result, "running"}
        /\ pc' = pc \/ (pc = "idle" /\ pc' = "walk")
        /\ fin' \in {fin, "idle"}
    BY <1>4 DEF AutoStart, FinalizeStart, Start
  <2>2. auto' \in BOOLEAN
    BY <1>4, Zenon DEF AutoStart, FinalizeStart
  <2>. QED
    BY <2>1, <2>2
<1>5. CASE Exit
  BY <1>5 DEF Exit, Gone
<1>. QED
  BY <1>1, <1>2, <1>3, <1>4, <1>5

LEMMA EnvironmentType ==
  ASSUME TypeInv, Environment
  PROVE  TypeInv'
<1>. USE PipelineAssumption DEF TypeInv, TypeOK, PoolOK, Move
<1>0. budget > 0 => budget - 1 \in 0 .. Budget
  OBVIOUS
<1>1. ASSUME NEW f \in File, Edit(f) \/ Delete(f)
      PROVE  TypeInv'
  <2>1. version' \in [File -> Version]
    BY <1>1 DEF Edit, Delete, Version
  <2>. QED
    BY <1>0, <1>1, <2>1 DEF Edit, Delete
<1>2. ASSUME NEW d \in PicksDir, SetPicksDir(d)
      PROVE  TypeInv'
  BY <1>0, <1>2 DEF SetPicksDir
<1>3. CASE InstallModel \/ Boot
  <2>1. model' \in BOOLEAN /\ auto' \in BOOLEAN
    BY <1>3, Zenon DEF InstallModel, Boot
  <2>2. /\ UNCHANGED <<disk, setting, budget, rows, fin, pc, stage, walk, pool, analyzed, result>>
        /\ proc' \in {proc, "up"}
    BY <1>3 DEF InstallModel, Boot
  <2>. QED
    BY <2>1, <2>2
<1>4. CASE Bump
  <2>1. status' \in [File -> Status]
    BY <1>4 DEF Bump, Status
  <2>. QED
    BY <1>0, <1>4, <2>1 DEF Bump
<1>5. CASE Interrupt
  BY <1>0, <1>5 DEF Interrupt
<1>6. CASE Kill
  <2>1. auto' \in BOOLEAN
    BY <1>6, Zenon DEF Kill, Gone
  <2>2. stage' \in Stage /\ before' \in 0 .. NumFiles /\ PoolOK'
    BY <1>6 DEF Kill, Stage
  <2>3. /\ budget' \in 0 .. Budget
        /\ UNCHANGED <<disk, setting, model, rows, picksDir>>
        /\ proc' = "down" /\ fin' = "idle" /\ pc' = "idle" /\ result' = "none"
        /\ entries' = {} /\ seen' = {} /\ analyzed' = {} /\ batch' = {}
        /\ work' = [f \in File |-> "no"]
    BY <1>0, <1>6 DEF Kill, Gone
  <2>. QED
    BY <2>1, <2>2, <2>3
<1>. QED
  BY <1>1, <1>2, <1>3, <1>4, <1>5, <1>6 DEF Environment

LEMMA StepType == TypeInv /\ [Next]_vars => TypeInv'
<1>1. ASSUME TypeInv, UNCHANGED vars
      PROVE  TypeInv'
  BY <1>1 DEF vars, TypeInv, TypeOK, PoolOK
<1>. QED
  BY <1>1, WalkType, LoopType, PoolType, ProcessType, RestType, EnvironmentType
     DEF Next, System, Run

\* Every variable keeps its type, whatever users, faults and the pool do.
THEOREM PipelineTypeCorrect == Spec => []TypeOK
BY InitType, StepType, PTL DEF Spec, TypeInv

-----------------------------------------------------------------------------
(* One row                                                                 *)

\* What the row of f knows in the middle of a run: what is in hand has the
\* status its stage reads, no row is ahead of the disk, and results fit, those
\* included whose status is still to be set.
InHand(f) == f \in batch \/ work[f] # "no"

Fits(f) ==
  /\ status[f] \in {"metadata", "thumbed", "analyzed"} => exif[f] = hash[f]
  /\ status[f] \in {"thumbed", "analyzed"} => thumb[f] = hash[f]
  /\ status[f] = "analyzed" => embed[f] \in {None, hash[f]}
  /\ work[f] = "written" => IF stage = "thumb" THEN thumb[f] = hash[f]
                                               ELSE embed[f] \in {None, hash[f]}

RowOK(f) ==
  /\ InHand(f) => status[f] = From(stage)
  /\ hash[f] # None => hash[f] <= version[f]
  /\ UpToDate(f) => Fits(f)

RowsInv == TypeInv /\ \A f \in File : RowOK(f)

\* A step that leaves the row of f alone and takes nothing new in hand, whatever
\* becomes of the file itself.
Untouched(f) ==
  /\ UNCHANGED <<status[f], hash[f], exif[f], thumb[f], embed[f]>>
  /\ version'[f] >= version[f]
  /\ UpToDate(f)' => UpToDate(f)
  /\ InHand(f)' => InHand(f) /\ stage' = stage
  /\ work'[f] = "written" => work[f] = "written" /\ stage' = stage

LEMMA UntouchedRow ==
  ASSUME TypeInv, TypeInv', NEW f \in File, RowOK(f), Untouched(f)
  PROVE  RowOK(f)'
<1>1. hash[f] # None => hash[f] \in Nat
  BY PipelineAssumption DEF TypeInv, TypeOK, Version
<1>2. version[f] \in Nat /\ version'[f] \in Nat
  BY PipelineAssumption DEF TypeInv, TypeOK, Version
<1>3. InHand(f)' => status'[f] = From(stage')
  BY DEF Untouched, RowOK
<1>4. hash'[f] # None => hash'[f] <= version'[f]
  BY <1>1, <1>2 DEF Untouched, RowOK
<1>5. UpToDate(f)' => Fits(f)'
  BY DEF Untouched, RowOK, Fits
<1>. QED
  BY <1>3, <1>4, <1>5 DEF RowOK

LEMMA InitRows == Init => \A f \in File : RowOK(f)
BY PipelineAssumption DEF Init, RowOK, InHand, UpToDate, Version

LEMMA WalkRows ==
  ASSUME RowsInv, TypeInv', NEW f \in File, List \/ Visit \/ Sweep
  PROVE  RowOK(f)'
<1>. USE DEF RowsInv, TypeInv, TypeOK, PoolOK
<1>1. ~ InHand(f) /\ work[f] = "no" /\ UNCHANGED <<batch, work, stage, disk>>
  BY DEF List, Visit, Sweep, InHand
<1>2. version[f] \in Nat /\ version[f] # None
  BY PipelineAssumption DEF Version
<1>3. CASE List
  <2>1. CASE f \in Matched[picksDir]
    BY <1>1, <1>2, <1>3, <2>1 DEF List, Wiped, RowOK, InHand, UpToDate
  <2>2. CASE f \notin Matched[picksDir]
    <3>1. Untouched(f)
      BY <1>1, <1>2, <1>3, <2>2 DEF List, Wiped, Untouched, InHand, UpToDate
    <3>. QED
      BY <3>1, UntouchedRow
  <2>. QED
    BY <2>1, <2>2
<1>4. CASE Visit
  <2>1. CASE f = NextEntry /\ hash[f] # version[f]
    BY <1>1, <1>2, <1>4, <2>1 DEF Visit, Upsert, RowOK, Fits, InHand, UpToDate
  <2>2. CASE f # NextEntry \/ hash[f] = version[f]
    <3>1. Untouched(f)
      BY <1>1, <1>2, <1>4, <2>2 DEF Visit, Upsert, Untouched, InHand, UpToDate
    <3>. QED
      BY <3>1, UntouchedRow
  <2>. QED
    BY <2>1, <2>2
<1>5. CASE Sweep
  <2>1. status'[f] \in {"missing", status[f]} /\ UNCHANGED <<hash, derived>>
    BY <1>5 DEF Sweep
  <2>. QED
    BY <1>1, <2>1 DEF RowOK, Fits, InHand, UpToDate
<1>. QED
  BY <1>3, <1>4, <1>5

LEMMA OthersUntouched ==
  ASSUME RowsInv, NEW g \in File, Process(g), NEW f \in File, f # g
  PROVE  Untouched(f)
<1>1. version[f] \in Nat
  BY PipelineAssumption DEF RowsInv, TypeInv, TypeOK, Version
<1>2. UNCHANGED OutsidePool /\ UNCHANGED hash /\ work'[f] = work[f]
  BY DEF Process, ReadExif, BuildThumb, Embed, MarkDone, Fails, Skip, Advance,
         RowsInv, TypeInv, TypeOK
<1>3. UNCHANGED <<status[f], exif[f], thumb[f], embed[f]>>
  BY DEF Process, ReadExif, BuildThumb, Embed, MarkDone, Fails, Skip, SetStatus,
         RowsInv, TypeInv, TypeOK
<1>. QED
  BY <1>1, <1>2, <1>3 DEF Untouched, UpToDate, InHand

\* A worker finishes a step of the file it has in hand.
LEMMA ProcessRow ==
  ASSUME RowsInv, TypeInv', NEW f \in File, Process(f)
  PROVE  RowOK(f)'
<1>. USE DEF RowsInv, TypeInv, TypeOK, PoolOK, Does, Advance, SetStatus
<1>1. f \notin batch /\ status[f] = From(stage) /\ stage' = stage /\ batch' = batch
      /\ UNCHANGED <<hash, disk>>
  BY DEF Process, ReadExif, BuildThumb, Embed, MarkDone, Fails, Skip, RowOK, InHand
<1>2. CASE ReadExif(f)
  BY <1>1, <1>2 DEF ReadExif, RowOK, Fits, UpToDate, InHand
<1>3. CASE BuildThumb(f)
  BY <1>1, <1>3 DEF BuildThumb, RowOK, Fits, UpToDate, InHand, From
<1>4. CASE Embed(f)
  BY <1>1, <1>4 DEF Embed, RowOK, Fits, UpToDate, InHand, From
<1>5. CASE MarkDone(f)
  BY <1>1, <1>5 DEF MarkDone, RowOK, Fits, UpToDate, InHand, From
<1>6. CASE Fails(f)
  BY <1>1, <1>6 DEF Fails, RowOK, Fits, UpToDate, InHand
<1>7. CASE Skip(f)
  BY <1>1, <1>7 DEF Skip, RowOK, Fits, UpToDate, InHand
<1>. QED
  BY <1>2, <1>3, <1>4, <1>5, <1>6, <1>7 DEF Process

\* The rest of a run, its beginning and its end change no row but for what is
\* taken from a queue.
LEMMA RunRows ==
  ASSUME RowsInv, TypeInv', NEW f \in File,
         \/ GiveUp \/ DbFails \/ VisitFails \/ Count \/ Fetch \/ Drain \/ Recount \/ Stuck
         \/ Take \/ PoolEnds \/ PoolCancelled \/ Group \/ WriteClusters
         \/ AutoStart \/ FinalizeStart \/ Exit
  PROVE  RowOK(f)'
<1>. USE DEF RowsInv, TypeInv, TypeOK, PoolOK
<1>1. version[f] \in Nat
  BY PipelineAssumption DEF Version
<1>2. UNCHANGED <<disk, status, hash, derived>>
  BY DEF GiveUp, DbFails, VisitFails, Count, Fetch, Drain, Recount, Stuck, Take, PoolEnds,
         PoolCancelled, Group, WriteClusters, AutoStart, FinalizeStart, Exit, End
<1>3. CASE Fetch
  <2>1. f \in batch' => status[f] = From(stage)
    BY <1>3 DEF Fetch, Lowest, Queue
  <2>2. UNCHANGED <<work, stage>>
    BY <1>3 DEF Fetch
  <2>. QED
    BY <1>2, <1>3, <2>1, <2>2 DEF Fetch, RowOK, Fits, UpToDate, InHand
<1>4. CASE Take
  <2>1. First(batch) \in batch
    BY <1>4, FirstOf DEF Take
  <2>2. InHand(f)' => InHand(f)
    BY <1>4, <2>1 DEF Take, InHand
  <2>3. work'[f] = "written" => work[f] = "written"
    BY <1>4, <2>1 DEF Take
  <2>4. stage' = stage
    BY <1>4 DEF Take
  <2>. QED
    BY <1>2, <2>2, <2>3, <2>4 DEF RowOK, Fits, UpToDate
<1>5. CASE \/ GiveUp \/ DbFails \/ VisitFails \/ Stuck \/ PoolCancelled \/ WriteClusters
  <2>1. batch' = {} /\ work' = [g \in File |-> "no"]
    BY <1>5 DEF GiveUp, DbFails, VisitFails, Stuck, PoolCancelled, WriteClusters, End
  <2>. QED
    BY <1>2, <2>1 DEF RowOK, Fits, UpToDate, InHand
<1>6. CASE Count \/ Recount \/ PoolEnds \/ Group \/ AutoStart \/ FinalizeStart \/ Exit
  <2>1. UNCHANGED <<batch, work, stage>>
    BY <1>6 DEF Count, Recount, PoolEnds, Group, AutoStart, FinalizeStart, Exit
  <2>. QED
    BY <1>2, <2>1 DEF RowOK, Fits, UpToDate, InHand
<1>7. CASE Drain
  <2>1. ~ InHand(f) /\ work[f] = "no" /\ UNCHANGED <<batch, work>>
    BY <1>7 DEF Drain, InHand
  <2>. QED
    BY <1>2, <2>1 DEF RowOK, Fits, UpToDate, InHand
<1>. QED
  BY <1>3, <1>4, <1>5, <1>6, <1>7

LEMMA EnvironmentRows ==
  ASSUME RowsInv, TypeInv', NEW f \in File, Environment
  PROVE  RowOK(f)'
<1>. USE DEF RowsInv, TypeInv, TypeOK, PoolOK
<1>1. version[f] \in Nat /\ (hash[f] # None => hash[f] \in Nat)
  BY PipelineAssumption DEF Version
<1>2. ASSUME NEW g \in File, Edit(g)
      PROVE  RowOK(f)'
  <2>1. ASSUME f = g
        PROVE  ~ UpToDate(f)'
    <3>1. version'[f] = version[f] + 1 /\ version'[f] # None /\ hash' = hash
      BY <1>2, <2>1, PipelineAssumption DEF Edit
    <3>2. hash[f] # None => hash[f] <= version[f]
      BY DEF RowOK
    <3>. QED
      BY <1>1, <3>1, <3>2 DEF UpToDate
  <2>2. version'[f] >= version[f] /\ (f # g => (UpToDate(f)' <=> UpToDate(f)))
    BY <1>1, <1>2 DEF Edit, UpToDate
  <2>3. Untouched(f)
    BY <1>2, <2>1, <2>2 DEF Edit, Untouched, InHand
  <2>. QED
    BY <2>3, UntouchedRow
<1>3. CASE Bump
  <2>1. /\ status'[f] = status[f] \/ (status[f] = "analyzed" /\ status'[f] = "thumbed")
        /\ UNCHANGED <<disk, hash, derived, batch, work, stage>>
    BY <1>3 DEF Bump
  <2>2. From(stage) # "analyzed"
    BY DEF From, Stage
  <2>. QED
    BY <2>1, <2>2 DEF RowOK, Fits, UpToDate, InHand
<1>4. CASE Kill
  <2>1. batch' = {} /\ work' = [g \in File |-> "no"] /\ UNCHANGED <<disk, rows>>
    BY <1>4 DEF Kill
  <2>. QED
    BY <2>1 DEF RowOK, Fits, UpToDate, InHand
<1>5. ASSUME \/ \E g \in File : Delete(g)
             \/ \E d \in PicksDir : SetPicksDir(d)
             \/ InstallModel \/ Boot \/ Interrupt
      PROVE  RowOK(f)'
  <2>1. UNCHANGED <<version, rows, batch, work, stage>> /\ present' \subseteq present
    BY <1>5 DEF Delete, SetPicksDir, InstallModel, Boot, Interrupt
  <2>2. Untouched(f)
    BY <1>1, <2>1 DEF Untouched, UpToDate, InHand
  <2>. QED
    BY <2>2, UntouchedRow
<1>. QED
  BY <1>2, <1>3, <1>4, <1>5 DEF Environment

LEMMA StepRows == RowsInv /\ [Next]_vars => RowsInv'
<1>1. SUFFICES ASSUME RowsInv, [Next]_vars, TypeInv', NEW f \in File
               PROVE  RowOK(f)'
  BY StepType DEF RowsInv
<1>2. ASSUME NEW g \in File, Process(g)
      PROVE  RowOK(f)'
  BY <1>1, <1>2, ProcessRow, OthersUntouched, UntouchedRow DEF RowsInv
<1>3. CASE UNCHANGED vars
  BY <1>1, <1>3 DEF vars, RowsInv, RowOK, Fits, UpToDate, InHand
<1>. QED
  BY <1>1, <1>2, <1>3, WalkRows, RunRows, EnvironmentRows DEF Next, System, Run

\* A row never carries a result that was made from another content than the one
\* it describes, as long as that is the content on disk.
THEOREM FreshHolds == Spec => []Fresh
<1>1. Init => RowsInv
  BY InitType, InitRows DEF RowsInv
<1>2. RowsInv => Fresh
  BY DEF RowsInv, RowOK, Fits, Fresh
<1>. QED
  BY <1>1, <1>2, StepRows, PTL DEF Spec

-----------------------------------------------------------------------------
(* The whole table                                                         *)

\* No stage begins before the one in front of it has emptied its queue.
StagesInOrder ==
  /\ pc \in {"idle", "walk", "visit"} => stage = "metadata"
  /\ pc \in {"group", "write"} => stage = "analyze"
  /\ stage # "metadata" => Queue("metadata") = {}
  /\ stage = "analyze" => Queue("thumb") = {}

\* From the last queue on, only a finalize request puts a row back.
NothingLeft ==
  \A f \in File : status[f] = "thumbed" => embed[f] = None

Finishing ==
  /\ pc \in {"group", "write"} => NothingLeft
  /\ Drained

\* What the grouper has read is what there is to show.
Shown ==
  /\ pc = "write" =>
       /\ {f \in File : status[f] = "analyzed"} \subseteq analyzed
       /\ \A f \in analyzed : status[f] \in {"analyzed", "thumbed"}
  /\ LibraryUpToDate

TableInv == RowsInv /\ StagesInOrder /\ Finishing /\ Shown

\* The walk has visited every unchanged file, or will.
Walked ==
  pc = "visit" => \A f \in File : UpToDate(f) /\ f \notin Below[picksDir] => f \in entries \cup seen

LEMMA InitTable == Init => StagesInOrder /\ Finishing /\ Shown /\ Walked
BY DEF Init, StagesInOrder, Finishing, Drained, Shown, LibraryUpToDate, Walked

\* A run that ends without success promises nothing.
LEMMA EndTable ==
  ASSUME NEW how, how # "ok", End(how)
  PROVE  (StagesInOrder /\ Finishing /\ Shown)'
BY DEF End, StagesInOrder, Finishing, Drained, Shown, LibraryUpToDate

LEMMA WalkTable ==
  ASSUME TableInv, List \/ Visit \/ VisitFails \/ Sweep \/ AutoStart \/ FinalizeStart
  PROVE  (StagesInOrder /\ Finishing /\ Shown)'
<1>. USE DEF TableInv, StagesInOrder, Finishing, Drained, Shown, LibraryUpToDate
<1>1. CASE List \/ Visit \/ Sweep
  BY <1>1 DEF List, Visit, Sweep
<1>2. CASE VisitFails
  BY <1>2, EndTable DEF VisitFails
<1>3. CASE AutoStart \/ FinalizeStart
  <2>1. UNCHANGED <<stage, rows, analyzed>>
        /\ ((pc = "idle" /\ pc' = "walk") \/ UNCHANGED <<pc, result>>)
    BY <1>3 DEF AutoStart, FinalizeStart, Start
  <2>. QED
    BY <2>1 DEF Queue, From, NothingLeft
<1>. QED
  BY <1>1, <1>2, <1>3

LEMMA LoopTable ==
  ASSUME TableInv, Count \/ Fetch \/ Drain \/ Recount \/ Take \/ PoolEnds
  PROVE  (StagesInOrder /\ Finishing /\ Shown)'
<1>. USE DEF TableInv, StagesInOrder, Finishing, Drained, Shown, LibraryUpToDate, Queue, From, NothingLeft
<1>1. CASE Count \/ Fetch \/ Recount \/ Take \/ PoolEnds
  BY <1>1 DEF Count, Fetch, Recount, Take, PoolEnds
<1>2. CASE Drain
  BY <1>2 DEF Drain, Stage, RowsInv, TypeInv, TypeOK
<1>. QED
  BY <1>1, <1>2

LEMMA ProcessTable ==
  ASSUME TableInv, NEW f \in File, Process(f)
  PROVE  (StagesInOrder /\ Finishing /\ Shown)'
<1>1. pc = "pool" /\ UNCHANGED <<pc, stage>>
  BY DEF Process, ReadExif, BuildThumb, Embed, MarkDone, Fails, Skip, Does, TableInv, RowsInv,
         TypeInv, PoolOK
<1>2. \A g \in File : \/ status'[g] = status[g]
                      \/ status'[g] \in {"thumbed", "analyzed", "failed"}
                      \/ stage = "metadata"
  BY DEF Process, ReadExif, BuildThumb, Embed, MarkDone, Fails, Skip, Does, SetStatus,
         TableInv, RowsInv, TypeInv, TypeOK
<1>3. StagesInOrder'
  BY <1>1, <1>2 DEF TableInv, StagesInOrder, Queue, From
<1>. QED
  BY <1>1, <1>3 DEF Finishing, Drained, Shown, LibraryUpToDate

LEMMA GroupTable ==
  ASSUME TableInv, Group \/ WriteClusters
  PROVE  (StagesInOrder /\ Finishing /\ Shown)'
<1>. USE DEF TableInv, StagesInOrder, Finishing, Drained, Shown, LibraryUpToDate, Queue, From, NothingLeft
<1>1. CASE Group
  BY <1>1 DEF Group
<1>2. CASE WriteClusters
  BY <1>2 DEF WriteClusters, End
<1>. QED
  BY <1>1, <1>2

LEMMA EnvironmentTable ==
  ASSUME TableInv, Environment \/ Exit
  PROVE  (StagesInOrder /\ Finishing /\ Shown)'
<1>. USE DEF TableInv, StagesInOrder, Finishing, Drained, Shown, LibraryUpToDate, Queue, From, NothingLeft
<1>1. CASE Bump
  <2>1. \A f \in File : \/ status'[f] = status[f]
                        \/ status[f] = "analyzed" /\ status'[f] = "thumbed" /\ embed[f] = None
    BY <1>1 DEF Bump, RowsInv, TypeInv, TypeOK
  <2>2. UNCHANGED <<stage, pc, result, derived, clustered, analyzed>>
    BY <1>1 DEF Bump
  <2>3. StagesInOrder'
    BY <2>1, <2>2
  <2>4. Finishing'
    BY <2>1, <2>2
  <2>5. analyzed \subseteq File /\ clustered \subseteq File
    BY DEF RowsInv, TypeInv, TypeOK
  <2>6. Shown'
    BY <2>1, <2>2, <2>5
  <2>. QED
    BY <2>3, <2>4, <2>6
<1>2. CASE Kill \/ Exit
  BY <1>2 DEF Kill, Exit
<1>3. ASSUME \/ \E f \in File : Edit(f) \/ Delete(f)
             \/ \E d \in PicksDir : SetPicksDir(d)
             \/ InstallModel \/ Boot \/ Interrupt
      PROVE  (StagesInOrder /\ Finishing /\ Shown)'
  <2>1. UNCHANGED <<stage, pc, result, rows, analyzed>>
    BY <1>3 DEF Edit, Delete, SetPicksDir, InstallModel, Boot, Interrupt
  <2>. QED
    BY <2>1
<1>. QED
  BY <1>1, <1>2, <1>3 DEF Environment

LEMMA StepTable == TableInv /\ [Next]_vars => TableInv'
<1>1. SUFFICES ASSUME TableInv, [Next]_vars
               PROVE  (StagesInOrder /\ Finishing /\ Shown)'
  BY StepRows DEF TableInv
<1>2. CASE GiveUp \/ DbFails \/ Stuck \/ PoolCancelled
  BY <1>2, EndTable DEF GiveUp, DbFails, Stuck, PoolCancelled
<1>3. CASE UNCHANGED vars
  BY <1>1, <1>3 DEF vars, TableInv, StagesInOrder, Finishing, Drained, Shown, LibraryUpToDate,
                   Queue, From, NothingLeft
<1>. QED
  BY <1>1, <1>2, <1>3, WalkTable, LoopTable, ProcessTable, GroupTable, EnvironmentTable
     DEF Next, System, Run

LEMMA TableInvHolds == Spec => []TableInv
<1>1. Init => TableInv
  BY InitType, InitRows, InitTable DEF TableInv, RowsInv
<1>. QED
  BY <1>1, StepTable, PTL DEF Spec

\* A run that succeeds has processed all there was, in whatever batches and with
\* whatever requests in between.
THEOREM DrainedHolds == Spec => []Drained
BY TableInvHolds, PTL DEF TableInv, Finishing

\* What a successful run leaves in the clusters is what there is to show.
THEOREM LibraryUpToDateHolds == Spec => []LibraryUpToDate
BY TableInvHolds, PTL DEF TableInv, Shown

-----------------------------------------------------------------------------
(* Unchanged files                                                         *)

LEMMA StepWalked ==
  ASSUME RowsInv, Walked, [Next]_vars
  PROVE  Walked'
<1>. USE DEF RowsInv, TypeInv, TypeOK, Walked
<1>1. ASSUME pc' # "visit"
      PROVE  Walked'
  BY <1>1
<1>2. CASE List
  BY <1>2, PipelineAssumption DEF List, Wiped, UpToDate
<1>3. CASE Visit
  BY <1>3, PipelineAssumption DEF Visit, Upsert, UpToDate
<1>4. ASSUME NEW f \in File, Edit(f)
      PROVE  Walked'
  <2>1. ~ UpToDate(f)'
    <3>1. version'[f] = version[f] + 1 /\ hash' = hash /\ version[f] \in Nat
      BY <1>4, PipelineAssumption DEF Edit, Version
    <3>2. RowOK(f) /\ hash[f] \in Version \cup {None}
      BY DEF RowsInv
    <3>3. version[f] + 1 # None
      BY <1>4, <3>1, PipelineAssumption DEF Edit, Version
    <3>. QED
      BY <3>1, <3>2, <3>3 DEF RowOK, UpToDate, Version
  <2>2. \A g \in File : g # f => (UpToDate(g)' <=> UpToDate(g))
    BY <1>4 DEF Edit, UpToDate
  <2>. QED
    BY <1>4, <2>1, <2>2 DEF Edit
<1>5. ASSUME UNCHANGED <<pc, hash, version, picksDir, entries, seen>>, present' \subseteq present
      PROVE  Walked'
  BY <1>5 DEF UpToDate
<1>6. ASSUME NEW f \in File, Process(f)
      PROVE  Walked'
  BY <1>5, <1>6 DEF Process, ReadExif, BuildThumb, Embed, MarkDone, Fails, Skip
<1>7. CASE Environment /\ ~ \E f \in File : Edit(f)
  BY <1>1, <1>5, <1>7 DEF Environment, Delete, SetPicksDir, InstallModel, Boot, Bump, Interrupt, Kill
<1>8. CASE UNCHANGED vars
  BY <1>5, <1>8 DEF vars
<1>9. CASE AutoStart \/ FinalizeStart \/ Exit
  <2>1. pc' # "visit" \/ UNCHANGED <<pc, hash, version, picksDir, entries, seen, present>>
    BY <1>9 DEF AutoStart, FinalizeStart, Start, Exit
  <2>. QED
    BY <1>1, <1>5, <2>1
<1>10. CASE Run /\ ~ List /\ ~ Visit
  <2>1. pc' # "visit"
    BY <1>10 DEF Run, GiveUp, DbFails, VisitFails, Sweep, Count, Fetch, Drain, Recount, Stuck,
                 Take, PoolEnds, PoolCancelled, Group, WriteClusters, End
  <2>. QED
    BY <1>1, <2>1
<1>. QED
  BY <1>2, <1>3, <1>4, <1>6, <1>7, <1>8, <1>9, <1>10 DEF Next, System, Environment

\* What is done stays done in one step: the walk finds the file as it was, no
\* queue holds it, and there is an embedding.
LEMMA StaysDone ==
  ASSUME RowsInv, Walked, [Next]_vars, NEW f \in File, Complete(f),
         f \notin Below[picksDir] \cup Matched[picksDir]
  PROVE  Stays(f)
<1>. USE DEF RowsInv, TypeInv, TypeOK, PoolOK, Stays
<1>1. /\ status[f] = "analyzed" /\ hash[f] = version[f] /\ f \in present
      /\ embed[f] # None
  BY PipelineAssumption DEF Complete, UpToDate
<1>2. work[f] = "no"
  BY <1>1 DEF RowOK, InHand, From, Stage
<1>3. ASSUME NEW g \in File, Process(g)
      PROVE  UNCHANGED <<status[f], thumb[f], embed[f]>>
  BY <1>2, <1>3 DEF Process, ReadExif, BuildThumb, Embed, MarkDone, Fails, Skip, SetStatus, Does
<1>4. CASE List
  BY <1>1, <1>4 DEF List, Wiped
<1>5. CASE Visit
  BY <1>1, <1>5 DEF Visit, Upsert
<1>6. CASE Sweep
  BY <1>1, <1>6 DEF Sweep, Walked, Complete
<1>7. CASE Bump
  BY <1>1, <1>7 DEF Bump
<1>8. CASE \/ GiveUp \/ DbFails \/ VisitFails \/ Count \/ Fetch \/ Drain \/ Recount \/ Stuck
          \/ Take \/ PoolEnds \/ PoolCancelled \/ Group \/ WriteClusters
          \/ AutoStart \/ FinalizeStart \/ Exit
  <2>1. UNCHANGED <<status, derived>>
    BY <1>8 DEF GiveUp, DbFails, VisitFails, Count, Fetch, Drain, Recount, Stuck, Take, PoolEnds,
                PoolCancelled, Group, WriteClusters, AutoStart, FinalizeStart, Exit, End
  <2>. QED
    BY <1>1, <2>1
<1>9. CASE (Environment /\ ~ Bump) \/ UNCHANGED vars
  <2>1. UNCHANGED rows
    BY <1>9 DEF Environment, Edit, Delete, SetPicksDir, InstallModel, Boot, Interrupt, Kill, vars
  <2>. QED
    BY <1>1, <2>1
<1>. QED
  BY <1>1, <1>3, <1>4, <1>5, <1>6, <1>7, <1>8, <1>9 DEF Next, System, Run, Environment

\* What is done stays done, whatever breaks off, restarts, or happens to other files,
\* unless picks_dir hides the file or matches it as a pattern.
THEOREM UnchangedStayDoneHolds == Spec => UnchangedStayDone
<1> DEFINE KeepsDone ==
      \A f \in File : Complete(f) /\ f \notin Below[picksDir] \cup Matched[picksDir] => Stays(f)
<1>1. Init => RowsInv /\ Walked
  BY InitType, InitRows, InitTable DEF RowsInv
<1>2. RowsInv /\ Walked /\ [Next]_vars => RowsInv' /\ Walked'
  BY StepRows, StepWalked
<1>3. RowsInv /\ Walked /\ [Next]_vars => [KeepsDone]_vars
  BY StaysDone
<1>. QED
  BY <1>1, <1>2, <1>3, PTL DEF Spec, UnchangedStayDone
=============================================================================
