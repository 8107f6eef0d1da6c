-------------------------- MODULE LifecycleProofs ---------------------------
(***************************************************************************)
(* Theorems about Lifecycle for any number of finalize requests, workers,  *)
(* runs and events, and any size of the channel.                           *)
(***************************************************************************)
EXTENDS Lifecycle, TLAPS

USE DEF adapter, progress

-----------------------------------------------------------------------------
(* The type invariant                                                      *)

LEMMA InitType ==
  ASSUME NEW clients, LifecycleInit(TRUE, clients, FALSE)
  PROVE  LifecycleTypeOK
<1>1. starter \in [Starter -> {"none", "check", "start", "attach", "answered"}]
  BY DEF LifecycleInit
<1>2. got \in [Starter -> 0 .. MaxRuns]
      /\ at \in [Run -> Working \cup {"none", "returned", "cleared", "ended"}]
  BY LifecycleAssumption DEF LifecycleInit
<1>3. /\ main = "serving" /\ rootDone = FALSE /\ idleStop = FALSE
      /\ run = FALSE /\ current = 0 /\ begun = 0 /\ cancelled = {}
      /\ session = FALSE /\ waiting = 0 /\ atStop = MaxRuns
  BY DEF LifecycleInit
<1>4. 0 \in 0 .. MaxRuns /\ MaxRuns \in 0 .. MaxRuns
  BY LifecycleAssumption
<1>5. MainTypeOK
  BY <1>1, <1>2, <1>3, <1>4, Zenon DEF MainTypeOK
<1>6. ProgressTypeOK
  BY LifecycleAssumption, ProgressAssumption
     DEF LifecycleInit, ProgressInit, ProgressTypeOK, Quiet, Event
<1>. QED
  BY <1>5, <1>6 DEF LifecycleTypeOK

\* One more state of a goroutine in Update.
LEMMA UpdateInType ==
  ASSUME ProgressTypeOK, NEW r \in Run, NEW w \in Worker,
         NEW u \in [event : 0 .. Last, full : BOOLEAN],
         update' = [update EXCEPT ![r][w] = u]
  PROVE  update' \in [Run -> [Worker -> [event : 0 .. Last, full : BOOLEAN]]]
<1>1. update[r] \in [Worker -> [event : 0 .. Last, full : BOOLEAN]]
  BY DEF ProgressTypeOK
<1>2. [update[r] EXCEPT ![w] = u] \in [Worker -> [event : 0 .. Last, full : BOOLEAN]]
  BY <1>1
<1>. QED
  BY <1>2 DEF ProgressTypeOK

LEMMA UpdateType ==
  ASSUME ProgressTypeOK, NEW r \in Run, NEW w \in Worker, NEW e \in 0 .. Last, Update(r, w, e)
  PROVE  ProgressTypeOK'
<1>1. update[r][w] \in [event : 0 .. Last, full : BOOLEAN]
  BY DEF ProgressTypeOK
<1>2. [update[r][w] EXCEPT !.event = e] \in [event : 0 .. Last, full : BOOLEAN]
  BY <1>1
<1>3. update' = [update EXCEPT ![r][w] = [update[r][w] EXCEPT !.event = e]]
  BY DEF Update
<1>4. update' \in [Run -> [Worker -> [event : 0 .. Last, full : BOOLEAN]]]
  BY <1>2, <1>3, UpdateInType
<1>. QED
  BY <1>4 DEF Update, ProgressTypeOK

LEMMA ProgressStepType ==
  ASSUME ProgressTypeOK, NEW r \in Run, ProgressStep(r)
  PROVE  ProgressTypeOK'
<1>1. CASE pump(r)
  <2>1. channel[r] \in Seq(Event) /\ channel[r] # <<>>
    BY <1>1 DEF pump, ProgressTypeOK
  <2>2. Head(channel[r]) \in Event /\ Tail(channel[r]) \in Seq(Event)
        /\ Len(Tail(channel[r])) <= Len(channel[r])
    BY <2>1
  <2>. QED
    BY <1>1, <2>2, ProgressAssumption DEF pump, ProgressTypeOK, Event
<1>2. ASSUME NEW w \in Worker, Send(r, w)
      PROVE  ProgressTypeOK'
  <2>1. update[r][w].event \in Event
    BY <1>2, ProgressAssumption DEF Send, ProgressTypeOK, Event
  <2>2. CASE Len(channel[r]) < BufferSize
    <3>1. channel' = [channel EXCEPT ![r] = Append(@, update[r][w].event)]
          /\ update' = [update EXCEPT ![r][w] = Quiet] /\ UNCHANGED <<made, pumped, shown>>
      BY <1>2, <2>2 DEF Send
    <3>2. Append(channel[r], update[r][w].event) \in Seq(Event)
          /\ Len(Append(channel[r], update[r][w].event)) <= BufferSize
      BY <2>1, <2>2, ProgressAssumption DEF ProgressTypeOK
    <3>3. Quiet \in [event : 0 .. Last, full : BOOLEAN]
      BY ProgressAssumption DEF Quiet
    <3>. QED
      BY <3>1, <3>2, <3>3 DEF ProgressTypeOK
  <2>3. CASE ~ Len(channel[r]) < BufferSize
    <3>1. update' = [update EXCEPT ![r][w] = [update[r][w] EXCEPT !.full = TRUE]]
          /\ UNCHANGED <<made, channel, pumped, shown>>
      BY <1>2, <2>3 DEF Send
    <3>2. update[r][w] \in [event : 0 .. Last, full : BOOLEAN]
      BY DEF ProgressTypeOK
    <3>3. [update[r][w] EXCEPT !.full = TRUE] \in [event : 0 .. Last, full : BOOLEAN]
      BY <3>2
    <3>. QED
      BY <3>1, <3>3, UpdateInType DEF ProgressTypeOK
  <2>. QED
    BY <2>2, <2>3
<1>3. ASSUME NEW w \in Worker, DropOldest(r, w)
      PROVE  ProgressTypeOK'
  <2>1. channel[r] \in Seq(Event) /\ Len(channel[r]) <= BufferSize
    BY DEF ProgressTypeOK
  <2>2. channel[r] # <<>> => Tail(channel[r]) \in Seq(Event) /\ Len(Tail(channel[r])) <= BufferSize
    BY <2>1, ProgressAssumption
  <2>3. update' = [update EXCEPT ![r][w] = [update[r][w] EXCEPT !.full = FALSE]]
    BY <1>3 DEF DropOldest
  <2>4. update[r][w] \in [event : 0 .. Last, full : BOOLEAN]
    BY DEF ProgressTypeOK
  <2>5. [update[r][w] EXCEPT !.full = FALSE] \in [event : 0 .. Last, full : BOOLEAN]
    BY <2>4
  <2>6. update' \in [Run -> [Worker -> [event : 0 .. Last, full : BOOLEAN]]]
    BY <2>3, <2>5, UpdateInType
  <2>. QED
    BY <1>3, <2>1, <2>2, <2>6 DEF DropOldest, ProgressTypeOK
<1>. QED
  BY <1>1, <1>2, <1>3 DEF ProgressStep

\* An action on the run r that only moves its goroutine on, from a place where a
\* run with the flag set may be to another, or from one where it cannot be.
LEMMA GoesType ==
  ASSUME MainTypeOK, NEW r \in Run, NEW from, NEW to, Goes(r, from, to),
         to \in Working \cup {"returned", "cleared", "ended"},
         to \in Working \cup {"returned"} \/ from = "cleared",
         UNCHANGED <<main, rootDone, idleStop, starter, got, run, current, begun, cancelled,
                     waiting, atStop>>,
         session' \in BOOLEAN
  PROVE  MainTypeOK'
BY DEF Goes, MainTypeOK, Working

LEMMA StartingType ==
  ASSUME LifecycleTypeOK, NEW s \in Starter, Starting(s)
  PROVE  LifecycleTypeOK'
<1>. MainTypeOK /\ ProgressTypeOK
  BY DEF LifecycleTypeOK
<1>1. CASE Running(s)
  BY <1>1 DEF LifecycleTypeOK, Running, MainTypeOK, ProgressTypeOK
<1>2. CASE Start(s)
  <2>1. ProgressTypeOK'
    BY <1>2 DEF Start, ProgressTypeOK
  <2>2. CASE run /\ starter' = [starter EXCEPT ![s] = "answered"] /\ UNCHANGED <<adapter, got>>
    BY <1>2, <2>1, <2>2 DEF LifecycleTypeOK, Start, MainTypeOK
  <2>3. CASE ~ run /\ begun < MaxRuns /\ NewRun(s)
    <3>1. begun + 1 \in Run /\ begun + 1 \in 0 .. MaxRuns /\ begun + 1 # 0
      BY <2>3, LifecycleAssumption DEF MainTypeOK
    <3>2. MainTypeOK'
      BY <1>2, <2>3, <3>1 DEF Start, NewRun, MainTypeOK, Working
    <3>. QED
      BY <2>1, <3>2 DEF LifecycleTypeOK
  <2>. QED
    BY <1>2, <2>2, <2>3 DEF Start
<1>3. CASE Attach(s)
  <2>1. MainTypeOK'
    BY <1>3 DEF Attach, MainTypeOK
  <2>2. ProgressTypeOK'
    BY <1>3 DEF Attach, AttachProgress, ProgressTypeOK
  <2>. QED
    BY <2>1, <2>2 DEF LifecycleTypeOK
<1>. QED
  BY <1>1, <1>2, <1>3 DEF Starting

LEMMA RunType ==
  ASSUME LifecycleTypeOK, NEW r \in Run,
         \/ Ending(r) \/ Deliver(r) \/ Analyze(r) \/ Finish(r) \/ RunFails(r)
         \/ \E w \in Worker : Report(r, w)
  PROVE  LifecycleTypeOK'
<1>. MainTypeOK /\ ProgressTypeOK
  BY DEF LifecycleTypeOK
<1>1. CASE \/ lockedClipSession(r) \/ Inferred(r) \/ Return(r) \/ RunFails(r) \/ CloseDone(r)
           \/ Analyze(r)
  <2>1. ProgressTypeOK'
    BY <1>1 DEF lockedClipSession, Inferred, Return, RunFails, CloseDone, Analyze, ProgressTypeOK
  <2>2. MainTypeOK'
    BY <1>1, GoesType
       DEF lockedClipSession, Inferred, Return, RunFails, CloseDone, Analyze, MainTypeOK, Working
  <2>. QED
    BY <2>1, <2>2 DEF LifecycleTypeOK
<1>2. CASE ClearFlag(r)
  <2>1. ProgressTypeOK'
    BY <1>2 DEF ClearFlag, ProgressTypeOK
  <2>2. MainTypeOK'
    BY <1>2 DEF ClearFlag, Goes, MainTypeOK
  <2>. QED
    BY <2>1, <2>2 DEF LifecycleTypeOK
<1>3. CASE Deliver(r)
  <2>1. ProgressTypeOK'
    BY <1>3, ProgressStepType DEF Deliver
  <2>2. MainTypeOK'
    BY <1>3 DEF Deliver, MainTypeOK
  <2>. QED
    BY <2>1, <2>2 DEF LifecycleTypeOK
<1>4. CASE Finish(r)
  <2>1. Last \in 0 .. Last
    BY ProgressAssumption
  <2>2. ProgressTypeOK'
    BY <1>4, <2>1, UpdateType, LifecycleAssumption DEF Finish
  <2>3. MainTypeOK'
    BY <1>4, GoesType DEF Finish, MainTypeOK, Working
  <2>. QED
    BY <2>2, <2>3 DEF LifecycleTypeOK
<1>5. ASSUME NEW w \in Worker, Report(r, w)
      PROVE  LifecycleTypeOK'
  <2>1. made[r] + 1 \in 0 .. Last
    BY <1>5, ProgressAssumption DEF Report, ProgressTypeOK
  <2>2. ProgressTypeOK'
    BY <1>5, <2>1, UpdateType DEF Report
  <2>3. MainTypeOK'
    BY <1>5 DEF Report, MainTypeOK
  <2>. QED
    BY <2>2, <2>3 DEF LifecycleTypeOK
<1>. QED
  BY <1>1, <1>2, <1>3, <1>4, <1>5 DEF Ending

LEMMA MainType ==
  ASSUME LifecycleTypeOK,
         Signal \/ idleWatcher \/ runServe \/ (\E h \in Handler : Request(h))
  PROVE  LifecycleTypeOK'
<1>. MainTypeOK /\ ProgressTypeOK
  BY DEF LifecycleTypeOK
<1>1. ProgressTypeOK'
  BY DEF Signal, idleWatcher, runServe, StopServing, Shutdown, Stop, Wait, Waited, Close, Exit,
         Request, ProgressTypeOK
<1>. SUFFICES MainTypeOK'
  BY <1>1 DEF LifecycleTypeOK
<1>2. CASE Signal
  BY <1>2 DEF Signal, MainTypeOK
<1>3. CASE idleWatcher
  BY <1>3 DEF idleWatcher, MainTypeOK
<1>4. CASE \E h \in Handler : Request(h)
  BY <1>4 DEF Request, Starter, MainTypeOK
<1>5. CASE StopServing
  BY <1>5 DEF StopServing, Advance, MainTypeOK
<1>6. CASE Shutdown \/ Waited
  BY <1>6 DEF Shutdown, Waited, Advance, MainTypeOK
<1>7. CASE Close \/ Exit
  <2>1. main' \in {"closed", "exit"} /\ session' \in BOOLEAN
    BY <1>7 DEF Close, Exit, Advance, MainTypeOK
  <2>2. UNCHANGED <<rootDone, idleStop, starter, got, adapter, waiting, atStop>>
    BY <1>7 DEF Close, Exit
  <2>. QED
    BY <2>1, <2>2 DEF MainTypeOK
<1>8. CASE Stop
  <2>1. {current} \ {0} \subseteq Run
    BY LifecycleAssumption DEF MainTypeOK
  <2>2. cancelled' \subseteq Run
    BY <1>8, <2>1 DEF Stop, MainTypeOK
  <2>. QED
    BY <1>8, <2>2 DEF Stop, Advance, MainTypeOK
<1>9. CASE Wait
  BY <1>9 DEF Wait, Advance, MainTypeOK
<1>. QED
  BY <1>2, <1>3, <1>4, <1>5, <1>6, <1>7, <1>8, <1>9 DEF runServe

\* The state of the process has its type: the channel of a run never holds more
\* than fits, and a flag that is set belongs to a run that has not returned.
THEOREM LifecycleTypeCorrect == LifecycleSpec => []LifecycleTypeOK
<1>1. LifecycleInit(TRUE, Handler, FALSE) => LifecycleTypeOK
  BY InitType
<1>2. LifecycleTypeOK /\ [LifecycleNext]_lifecycle => LifecycleTypeOK'
  <2>1. CASE UNCHANGED lifecycle
    BY <2>1 DEF lifecycle, LifecycleTypeOK, MainTypeOK, ProgressTypeOK
  <2>2. CASE LifecycleNext
    BY <2>2, StartingType, RunType, MainType DEF LifecycleNext
  <2>. QED
    BY <2>1, <2>2
<1>. QED
  BY <1>1, <1>2, PTL DEF LifecycleSpec

-----------------------------------------------------------------------------
(* The order of the runs                                                   *)

Done(r) == at[r] \in {"cleared", "ended"}
BeforeStop == main \in {"serving", "shutdown", "stop"}

\* The adapter's fields are those of the newest run.
RunsInOrder ==
  /\ current = begun
  /\ \A r \in Run : at[r] = "none" <=> r > begun

\* Before Stop only the newest run is not over, and not even that one unless the
\* flag is set; Stop clears the flag under a run that works on, and what is known
\* from then on is that the runs before that one are over.
OlderRunsOver ==
  /\ BeforeStop => \A r \in Run : r < begun \/ (r = begun /\ ~ run) => Done(r)
  /\ ~ BeforeStop => atStop <= begun /\ \A r \in Run : r < atStop => Done(r)

\* Wait waits for the newest run there was at Stop, or a later one.
WaitsForNewest ==
  /\ main \in {"waiting", "close", "closed", "exit"} => waiting \in atStop .. begun
  /\ main \in {"close", "closed", "exit"} => waiting = 0 \/ at[waiting] = "ended"

RunsInv == MainTypeOK /\ RunsInOrder /\ OlderRunsOver /\ WaitsForNewest

\* The goroutine of a run moves on and the others stay; the flag can only be
\* cleared, and only when that run has returned.
LEMMA GoesKeepsRuns ==
  ASSUME RunsInv, MainTypeOK', NEW r \in Run, NEW from, NEW to, Goes(r, from, to),
         from \notin {"none", "ended"}, to # "none", from = "cleared" => to = "ended",
         run' = run \/ (from = "returned" /\ to = "cleared"),
         UNCHANGED <<main, current, begun, waiting, atStop>>
  PROVE  RunsInv'
<1>1. at \in [Run -> Working \cup {"none", "returned", "cleared", "ended"}]
      /\ at' = [at EXCEPT ![r] = to] /\ at[r] = from /\ begun \in Nat /\ atStop \in Nat
  BY LifecycleAssumption DEF Goes, RunsInv, MainTypeOK
<1>2. r \in Nat /\ r <= begun
  BY <1>1, LifecycleAssumption DEF RunsInv, RunsInOrder
<1>3. RunsInOrder'
  BY <1>1, <1>2, LifecycleAssumption DEF RunsInv, RunsInOrder
<1>4. \A o \in Run : Done(o) => Done(o)'
  BY <1>1 DEF Done
<1>5. OlderRunsOver'
  <2>1. CASE BeforeStop
    <3>1. run' # run => r = begun
      BY <1>1, <1>2, <2>1 DEF RunsInv, OlderRunsOver, Done
    <3>2. run' # run => Done(r)'
      BY <1>1 DEF Done
    <3>. QED
      BY <1>4, <2>1, <3>1, <3>2 DEF RunsInv, OlderRunsOver, BeforeStop
  <2>2. CASE ~ BeforeStop
    BY <1>4, <2>2 DEF RunsInv, OlderRunsOver, BeforeStop
  <2>. QED
    BY <2>1, <2>2
<1>6. WaitsForNewest'
  <2>1. waiting \in Run /\ at[waiting] = "ended" => at'[waiting] = "ended"
    BY <1>1
  <2>. QED
    BY <2>1, LifecycleAssumption DEF RunsInv, MainTypeOK, WaitsForNewest
<1>. QED
  BY <1>3, <1>5, <1>6 DEF RunsInv

LEMMA NewRunKeepsRuns ==
  ASSUME RunsInv, MainTypeOK', NEW s \in Starter, ~ run, begun < MaxRuns, NewRun(s),
         UNCHANGED <<main, waiting, atStop>>
  PROVE  RunsInv'
<1>1. at \in [Run -> Working \cup {"none", "returned", "cleared", "ended"}]
      /\ begun \in Nat /\ atStop \in Nat /\ begun + 1 \in Run /\ waiting \in Nat
  BY LifecycleAssumption DEF RunsInv, MainTypeOK
<1>2. at' = [at EXCEPT ![begun + 1] = "work"] /\ begun' = begun + 1 /\ current' = begun + 1
      /\ run' = TRUE
  BY DEF NewRun
<1>3. RunsInOrder'
  BY <1>1, <1>2, LifecycleAssumption DEF RunsInv, RunsInOrder
<1>4. \A o \in Run : o # begun + 1 => at'[o] = at[o]
  BY <1>1, <1>2
<1>5. OlderRunsOver'
  <2>1. ASSUME BeforeStop, NEW o \in Run, o < begun'
        PROVE  Done(o)'
    BY <1>1, <1>2, <1>4, <2>1, LifecycleAssumption DEF RunsInv, OlderRunsOver, Done
  <2>2. ASSUME ~ BeforeStop
        PROVE  atStop <= begun' /\ \A o \in Run : o < atStop => Done(o)'
    BY <1>1, <1>2, <1>4, <2>2, LifecycleAssumption DEF RunsInv, OlderRunsOver, Done
  <2>. QED
    BY <1>2, <2>1, <2>2 DEF OlderRunsOver, BeforeStop
<1>6. WaitsForNewest'
  BY <1>1, <1>2, <1>4, LifecycleAssumption DEF RunsInv, WaitsForNewest
<1>. QED
  BY <1>3, <1>5, <1>6 DEF RunsInv

\* runServe, one step per stage.
LEMMA ServeKeepsRuns ==
  ASSUME RunsInv, MainTypeOK', runServe
  PROVE  RunsInv'
<1>. UNCHANGED <<current, begun, at>> /\ RunsInOrder'
  BY DEF runServe, StopServing, Shutdown, Stop, Wait, Waited, Close, Exit, RunsInv, RunsInOrder
<1>. SUFFICES OlderRunsOver' /\ WaitsForNewest'
  BY DEF RunsInv
<1>1. CASE StopServing \/ Shutdown
  BY <1>1 DEF StopServing, Shutdown, Advance, RunsInv, OlderRunsOver, WaitsForNewest, BeforeStop,
     Done
<1>2. CASE Stop
  <2>1. main = "stop" /\ main' = "wait" /\ atStop' = begun
    BY <1>2 DEF Stop, Advance
  <2>2. begun \in Nat
    BY LifecycleAssumption DEF RunsInv, MainTypeOK
  <2>. QED
    BY <2>1, <2>2 DEF RunsInv, OlderRunsOver, WaitsForNewest, BeforeStop, Done
<1>3. CASE Wait
  <2>1. main = "wait" /\ main' = "waiting" /\ waiting' = current /\ atStop' = atStop
    BY <1>3 DEF Wait, Advance
  <2>2. begun \in Nat /\ atStop \in Nat
    BY LifecycleAssumption DEF RunsInv, MainTypeOK
  <2>. QED
    BY <2>1, <2>2 DEF RunsInv, RunsInOrder, OlderRunsOver, WaitsForNewest, BeforeStop, Done
<1>4. CASE Waited
  BY <1>4 DEF Waited, Advance, RunsInv, OlderRunsOver, WaitsForNewest, BeforeStop, Done
<1>5. CASE Close
  BY <1>5 DEF Close, Advance, RunsInv, OlderRunsOver, WaitsForNewest, BeforeStop, Done
<1>6. CASE Exit
  BY <1>6 DEF Exit, Advance, RunsInv, OlderRunsOver, WaitsForNewest, BeforeStop, Done
<1>. QED
  BY <1>1, <1>2, <1>3, <1>4, <1>5, <1>6 DEF runServe

LEMMA NextKeepsRuns ==
  ASSUME RunsInv, MainTypeOK', [LifecycleNext]_lifecycle
  PROVE  RunsInv'
<1>1. CASE UNCHANGED <<main, adapter, waiting, atStop>>
  BY <1>1 DEF RunsInv, RunsInOrder, OlderRunsOver, WaitsForNewest, BeforeStop, Done
<1>2. CASE runServe
  BY <1>2, ServeKeepsRuns
<1>3. CASE Signal \/ idleWatcher \/ (\E h \in Handler : Request(h)) \/ UNCHANGED lifecycle
  BY <1>1, <1>3 DEF Signal, idleWatcher, Request, lifecycle
<1>4. ASSUME NEW s \in Starter, Starting(s)
      PROVE  RunsInv'
  <2>1. CASE Running(s) \/ Attach(s)
    BY <1>1, <2>1 DEF Running, Attach
  <2>2. CASE Start(s)
    BY <1>1, <2>2, NewRunKeepsRuns DEF Start
  <2>. QED
    BY <1>4, <2>1, <2>2 DEF Starting
<1>5. ASSUME NEW r \in Run,
             \/ Ending(r) \/ Deliver(r) \/ Analyze(r) \/ Finish(r) \/ RunFails(r)
             \/ \E w \in Worker : Report(r, w)
      PROVE  RunsInv'
  <2>1. CASE Deliver(r) \/ \E w \in Worker : Report(r, w)
    BY <1>1, <2>1 DEF Deliver, Report
  <2>2. CASE Analyze(r) \/ Finish(r) \/ lockedClipSession(r) \/ Inferred(r)
    BY <2>2, GoesKeepsRuns DEF Analyze, Finish, lockedClipSession, Inferred
  <2>3. CASE Return(r) \/ RunFails(r)
    BY <2>3, GoesKeepsRuns DEF Return, RunFails
  <2>4. CASE ClearFlag(r) \/ CloseDone(r)
    BY <2>4, GoesKeepsRuns DEF ClearFlag, CloseDone
  <2>. QED
    BY <1>5, <2>1, <2>2, <2>3, <2>4 DEF Ending
<1>. QED
  BY <1>2, <1>3, <1>4, <1>5 DEF LifecycleNext

LEMMA RunsInvHolds == LifecycleSpec => []RunsInv
<1>1. LifecycleInit(TRUE, Handler, FALSE) => RunsInv
  <2>. SUFFICES ASSUME LifecycleInit(TRUE, Handler, FALSE)
                PROVE  RunsInv
    OBVIOUS
  <2>1. MainTypeOK
    BY InitType DEF LifecycleTypeOK
  <2>2. main = "serving" /\ current = 0 /\ begun = 0 /\ at = [r \in Run |-> "none"]
    BY DEF LifecycleInit
  <2>. QED
    BY <2>1, <2>2, LifecycleAssumption
       DEF RunsInv, RunsInOrder, OlderRunsOver, WaitsForNewest, BeforeStop
<1>2. LifecycleTypeOK => MainTypeOK
  BY DEF LifecycleTypeOK
<1>3. RunsInv /\ MainTypeOK' /\ [LifecycleNext]_lifecycle => RunsInv'
  BY NextKeepsRuns
<1>. QED
  BY <1>1, <1>2, <1>3, LifecycleTypeCorrect, PTL DEF LifecycleSpec

\* However the first scan and any number of finalize requests meet, there is never
\* more than one run at work before Stop, and it is the adapter's: what Running told
\* the handler may be out of date, Start's own look at the flag is not.
THEOREM OneRunHolds == LifecycleSpec => []OneRun
<1>1. RunsInv => OneRun
  BY LifecycleAssumption
     DEF RunsInv, MainTypeOK, RunsInOrder, OlderRunsOver, OneRun, AtWork, Working, BeforeStop, Done
<1>. QED
  BY <1>1, RunsInvHolds, PTL

\* When the CLIP session is destroyed and the store closed, every run begun before
\* Stop has returned: they were all over but the newest, which Wait waited for.
THEOREM OverBeforeCloseHolds == LifecycleSpec => []OverBeforeClose
<1>1. RunsInv => OverBeforeClose
  <2>. SUFFICES ASSUME RunsInv, main \in {"close", "closed", "exit"}, ~ Late, NEW r \in Run
                PROVE  ~ AtWork(r) /\ at[r] # "returned"
    BY DEF OverBeforeClose
  <2>1. begun \in Nat /\ atStop \in Nat /\ r \in Nat \ {0}
    BY LifecycleAssumption DEF RunsInv, MainTypeOK
  <2>2. begun = atStop /\ waiting = begun
    BY <2>1 DEF RunsInv, OlderRunsOver, WaitsForNewest, BeforeStop, Late
  <2>3. CASE r > begun
    BY <2>3 DEF RunsInv, RunsInOrder, AtWork, Working
  <2>4. CASE r = begun
    BY <2>1, <2>2, <2>4 DEF RunsInv, WaitsForNewest, AtWork, Working
  <2>5. CASE r < begun
    BY <2>2, <2>5 DEF RunsInv, OlderRunsOver, BeforeStop, Done, AtWork, Working
  <2>. QED
    BY <2>1, <2>3, <2>4, <2>5
<1>. QED
  BY <1>1, RunsInvHolds, PTL
=============================================================================
