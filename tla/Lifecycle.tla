----------------------------- MODULE Lifecycle ------------------------------
(***************************************************************************)
(* One process of choix from the first scan to its exit: runServe and the  *)
(* pipeline adapter (internal/cli), Server.Run, Shutdown and the finalize  *)
(* handler (internal/server), and the CLIP session of the analyzer         *)
(* (internal/ai/local).  What a run does to the library is module          *)
(* Pipeline; here it works, infers and reports.                            *)
(*                                                                         *)
(* A run is numbered by the Start that made it.  A finalize request is     *)
(* answered within the idle timeout; that is the one assumption on time.   *)
(***************************************************************************)
EXTENDS Progress, FiniteSets

CONSTANTS
  Handler,   \* finalize requests
  AutoScan,  \* the goroutine that starts the first scan
  Main,      \* the worker of a run that is Pipeline.Run itself
  MaxRuns    \* Starts that can succeed

Starter == Handler \cup {AutoScan}

ASSUME LifecycleAssumption ==
  /\ Main \in Worker /\ AutoScan \notin Handler
  /\ MaxRuns \in Nat /\ Run = 1 .. MaxRuns

VARIABLES
  main,       \* where runServe is
  rootDone,   \* a signal has come: rootCtx is done
  idleStop,   \* idleStopCh is closed
  starter,    \* where a starter is
  got,        \* the run whose channel Start gave it
  run,        \* the adapter's flag
  current,    \* the run that a.stop and a.done belong to, 0 for none
  begun,      \* runs so far
  at,         \* where the goroutine of a run is
  cancelled,  \* runs whose own context Stop has cancelled
  session,    \* the CLIP session is open
  waiting,    \* the run whose done channel Wait has taken
  atStop      \* runs begun when Stop was called

adapter == <<run, current, begun, at, cancelled>>
lifecycle == <<main, rootDone, idleStop, starter, got, adapter, session, waiting, atStop, progress>>

Working == {"work", "analyze", "infer", "last"}
AtWork(r) == at[r] \in Working
ContextDone(r) == rootDone \/ r \in cancelled

\* Start came after Stop: from a handler that outlived the forced close.
Late == begun > atStop

\* on: there is a process at all; clients: the finalize requests that may come.
LifecycleInit(on, clients, quiet) ==
  /\ main = IF on THEN "serving" ELSE "exit"
  /\ rootDone = FALSE /\ idleStop = FALSE
  /\ starter = [s \in Starter |-> IF s = AutoScan THEN "start"
                              ELSE IF s \in clients THEN "none" ELSE "answered"]
  /\ got = [s \in Starter |-> 0]
  /\ run = FALSE /\ current = 0 /\ begun = 0
  /\ at = [r \in Run |-> "none"] /\ cancelled = {}
  /\ session = FALSE /\ waiting = 0 /\ atStop = MaxRuns
  /\ ProgressInit(quiet)

-----------------------------------------------------------------------------
(* What starts a run                                                       *)

\* handleSetupFinalize, the rows sent back to the analyze stage (module Pipeline).
Request(h) ==
  /\ main = "serving" /\ starter[h] = "none"
  /\ starter' = [starter EXCEPT ![h] = "check"]
  /\ UNCHANGED <<main, rootDone, idleStop, got, adapter, session, waiting, atStop, progress>>

Running(h) ==
  /\ starter[h] = "check"
  /\ starter' = [starter EXCEPT ![h] = IF run THEN "answered" ELSE "start"]
  /\ UNCHANGED <<main, rootDone, idleStop, got, adapter, session, waiting, atStop, progress>>

NewRun(s) ==
  /\ begun' = begun + 1
  /\ current' = begun' /\ run' = TRUE
  /\ at' = [at EXCEPT ![begun'] = "work"]
  /\ got' = [got EXCEPT ![s] = begun']
  /\ starter' = [starter EXCEPT ![s] = "attach"]
  /\ UNCHANGED cancelled

\* Mutant of Start: it relies on the answer Running gave the handler.
StartUnchecked(s) ==
  /\ starter[s] = "start" /\ begun < MaxRuns
  /\ NewRun(s)
  /\ UNCHANGED <<main, rootDone, idleStop, session, waiting, atStop, progress>>

Start(s) ==
  /\ starter[s] = "start"
  /\ \/ run /\ starter' = [starter EXCEPT ![s] = "answered"] /\ UNCHANGED <<adapter, got>>
     \/ ~ run /\ begun < MaxRuns /\ NewRun(s)
  /\ UNCHANGED <<main, rootDone, idleStop, session, waiting, atStop, progress>>

Attach(s) ==
  /\ starter[s] = "attach"
  /\ AttachProgress(got[s])
  /\ starter' = [starter EXCEPT ![s] = "answered"]
  /\ UNCHANGED <<main, rootDone, idleStop, got, adapter, session, waiting, atStop>>

-----------------------------------------------------------------------------
(* The goroutine of a run                                                  *)

Goes(r, from, to) == at[r] = from /\ at' = [at EXCEPT ![r] = to]

\* A worker of the run has progress to report.
Report(r, w) ==
  /\ w # Main /\ at[r] \in {"work", "analyze", "infer"} /\ made[r] < Last - 1
  /\ Update(r, w, made[r] + 1)
  /\ UNCHANGED <<main, rootDone, idleStop, starter, got, adapter, session, waiting, atStop>>

\* Analyzer.Analyze looks at the context first, and infers under its mutex.
Analyze(r) ==
  /\ ~ ContextDone(r) /\ Goes(r, "work", "analyze")
  /\ UNCHANGED <<main, rootDone, idleStop, starter, got, run, current, begun, cancelled,
                 session, waiting, atStop, progress>>

lockedClipSession(r) ==
  /\ \A o \in Run : at[o] # "infer"
  /\ Goes(r, "analyze", "infer")
  /\ session' = TRUE
  /\ UNCHANGED <<main, rootDone, idleStop, starter, got, run, current, begun, cancelled,
                 waiting, atStop, progress>>

Inferred(r) ==
  /\ Goes(r, "infer", "work")
  /\ UNCHANGED <<main, rootDone, idleStop, starter, got, run, current, begun, cancelled,
                 session, waiting, atStop, progress>>

\* The last event: the cluster stage is done, or the run has failed or is cancelled and
\* says so.
Finish(r) ==
  /\ ~ Reporting(r)
  /\ Goes(r, "work", "last")
  /\ Update(r, Main, Last)
  /\ UNCHANGED <<main, rootDone, idleStop, starter, got, run, current, begun, cancelled,
                 session, waiting, atStop>>

\* Run returns: after its last event, or because its context was done when it began.
Return(r) ==
  /\ ~ Reporting(r)
  /\ Goes(r, "last", "returned") \/ (ContextDone(r) /\ Goes(r, "work", "returned"))
  /\ UNCHANGED <<main, rootDone, idleStop, starter, got, run, current, begun, cancelled,
                 session, waiting, atStop, progress>>

\* A statement that counts or lists a queue fails, and Run returns without a word.
RunFails(r) ==
  /\ ~ Reporting(r)
  /\ Goes(r, "work", "returned")
  /\ UNCHANGED <<main, rootDone, idleStop, starter, got, run, current, begun, cancelled,
                 session, waiting, atStop, progress>>

\* Mutant of ClearFlag: the flag stays.
KeepFlag(r) ==
  /\ Goes(r, "returned", "cleared")
  /\ UNCHANGED <<main, rootDone, idleStop, starter, got, run, current, begun, cancelled,
                 session, waiting, atStop, progress>>

ClearFlag(r) ==
  /\ Goes(r, "returned", "cleared")
  /\ run' = FALSE
  /\ UNCHANGED <<main, rootDone, idleStop, starter, got, current, begun, cancelled,
                 session, waiting, atStop, progress>>

CloseDone(r) ==
  /\ Goes(r, "cleared", "ended")
  /\ UNCHANGED <<main, rootDone, idleStop, starter, got, run, current, begun, cancelled,
                 session, waiting, atStop, progress>>

\* What it has reported goes on its way.
Deliver(r) ==
  /\ ProgressStep(r)
  /\ UNCHANGED <<main, rootDone, idleStop, starter, got, adapter, session, waiting, atStop>>

-----------------------------------------------------------------------------
(* Server.Run, Shutdown and the rest of runServe                           *)

Signal ==
  /\ ~ rootDone /\ rootDone' = TRUE
  /\ UNCHANGED <<main, idleStop, starter, got, adapter, session, waiting, atStop, progress>>

\* The time of a request is taken when it begins, and a scan is no request.
idleWatcher ==
  /\ main = "serving" /\ ~ idleStop /\ idleStop' = TRUE
  /\ \A s \in Starter : starter[s] \in {"none", "answered"}
  /\ UNCHANGED <<main, rootDone, starter, got, adapter, session, waiting, atStop, progress>>

Advance(from, to) == main = from /\ main' = to

\* The select of Server.Run; serving itself may fail.
StopServing ==
  /\ \/ (rootDone \/ idleStop) /\ Advance("serving", "shutdown")
     \/ Advance("serving", "stop")
  /\ UNCHANGED <<rootDone, idleStop, starter, got, adapter, session, waiting, atStop, progress>>

\* The handlers have answered, or half a second has passed.
Shutdown ==
  /\ Advance("shutdown", "stop")
  /\ UNCHANGED <<rootDone, idleStop, starter, got, adapter, session, waiting, atStop, progress>>

\* Mutant of Stop: the flag is cleared and the context of the run left alone.
StopFlagOnly ==
  /\ Advance("stop", "wait")
  /\ run' = FALSE /\ atStop' = begun
  /\ UNCHANGED <<rootDone, idleStop, starter, got, current, begun, at, cancelled, session,
                 waiting, progress>>

Stop ==
  /\ Advance("stop", "wait")
  /\ run' = FALSE /\ atStop' = begun
  /\ cancelled' = cancelled \cup ({current} \ {0})
  /\ UNCHANGED <<rootDone, idleStop, starter, got, current, begun, at, session, waiting, progress>>

\* Mutant of Wait: there is nothing to wait for when the flag is not set.
WaitWhileFlagged ==
  /\ Advance("wait", "waiting")
  /\ waiting' = IF run THEN current ELSE 0
  /\ UNCHANGED <<rootDone, idleStop, starter, got, adapter, session, atStop, progress>>

Wait ==
  /\ Advance("wait", "waiting")
  /\ waiting' = current
  /\ UNCHANGED <<rootDone, idleStop, starter, got, adapter, session, atStop, progress>>

Waited ==
  /\ waiting # 0 => at[waiting] = "ended"
  /\ Advance("waiting", "close")
  /\ UNCHANGED <<rootDone, idleStop, starter, got, adapter, session, waiting, atStop, progress>>

\* Analyzer.Close, under the mutex of the analyzer.
Close ==
  /\ \A r \in Run : at[r] # "infer"
  /\ Advance("close", "closed")
  /\ session' = FALSE
  /\ UNCHANGED <<rootDone, idleStop, starter, got, adapter, waiting, atStop, progress>>

\* The store is closed and the process ends.
Exit ==
  /\ Advance("closed", "exit")
  /\ UNCHANGED <<rootDone, idleStop, starter, got, adapter, session, waiting, atStop, progress>>

runServe == StopServing \/ Shutdown \/ Stop \/ Wait \/ Waited \/ Close \/ Exit

\* What the goroutines do by themselves.
Starting(s) == (s \in Handler /\ Running(s)) \/ Start(s) \/ Attach(s)
Ending(r) == lockedClipSession(r) \/ Inferred(r) \/ Return(r) \/ ClearFlag(r) \/ CloseDone(r)

LifecycleNext ==
  /\ main # "exit"
  /\ \/ Signal \/ idleWatcher \/ runServe
     \/ \E h \in Handler : Request(h)
     \/ \E s \in Starter : Starting(s)
     \/ \E r \in Run : \/ Ending(r) \/ Deliver(r) \/ Analyze(r) \/ Finish(r) \/ RunFails(r)
                      \/ \E w \in Worker : Report(r, w)

\* Goroutines go on, a select with a channel that is ready is left, and external
\* tools end once their context is done (exec.CommandContext).  Nothing says how
\* long a run works, or that a signal ever comes.
LifecycleFairness ==
  /\ WF_lifecycle((rootDone \/ idleStop \/ main # "serving") /\ runServe)
  /\ \A s \in Starter : WF_lifecycle(main # "exit" /\ Starting(s))
  /\ \A r \in Run : /\ WF_lifecycle(main # "exit" /\ Ending(r))
                   /\ WF_lifecycle(main # "exit" /\ Deliver(r))

LifecycleSpec ==
  LifecycleInit(TRUE, Handler, FALSE) /\ [][LifecycleNext]_lifecycle /\ LifecycleFairness

-----------------------------------------------------------------------------
(* Properties                                                              *)

MainTypeOK ==
  /\ main \in {"serving", "shutdown", "stop", "wait", "waiting", "close", "closed", "exit"}
  /\ rootDone \in BOOLEAN /\ idleStop \in BOOLEAN /\ run \in BOOLEAN /\ session \in BOOLEAN
  /\ starter \in [Starter -> {"none", "check", "start", "attach", "answered"}]
  /\ got \in [Starter -> 0 .. MaxRuns] /\ begun \in 0 .. MaxRuns /\ current \in 0 .. MaxRuns
  /\ at \in [Run -> Working \cup {"none", "returned", "cleared", "ended"}]
  /\ cancelled \subseteq Run /\ waiting \in 0 .. MaxRuns /\ atStop \in 0 .. MaxRuns
  /\ run => current # 0 /\ at[current] \in Working \cup {"returned"}

LifecycleTypeOK == MainTypeOK /\ ProgressTypeOK

\* However the first scan and finalize requests meet, until Stop is called one run
\* works at most, it is the one the adapter stops and waits for, and its reporter
\* has not been replaced (serve.go:78-90).
OneRun ==
  main \in {"serving", "shutdown", "stop"} =>
    \A r \in Run : AtWork(r) => run /\ r = current

\* The CLIP session is destroyed and the store closed only when every run begun
\* before Stop is over (serve.go:230-232, "Order matters"), unless a handler that
\* outlived the forced close has begun another run.
OverBeforeClose ==
  main \in {"close", "closed", "exit"} /\ ~ Late =>
    \A r \in Run : ~ AtWork(r) /\ at[r] # "returned"

\* Once it is told to stop the process does: after a signal always, after the idle
\* timeout or a failure to serve unless a run was begun later than Stop
\* (server.go:198-200).
Exits ==
  /\ rootDone ~> main = "exit"
  /\ main # "serving" ~> main = "exit" \/ Late

\* The browser learns that a run has been through its stages, or has failed and said so,
\* however full the channel was (pipeline/progress.go:19-21).
LastWordArrives ==
  \A r \in Run : at[r] = "last" ~> shown[r] = Last \/ main = "exit"
=============================================================================
