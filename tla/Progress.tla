------------------------------ MODULE Progress ------------------------------
(***************************************************************************)
(* The progress of a run on its way to the browser: Reporter.Update        *)
(* (internal/pipeline) writes to the buffered channel of the run without   *)
(* ever blocking, and a pump of the progress hub (internal/server) sends   *)
(* what it reads to the one SSE stream.  Every run has a channel and a     *)
(* pump of its own.                                                        *)
(***************************************************************************)
EXTENDS Naturals, Sequences

CONSTANTS
  Run,         \* runs of the pipeline
  Worker,      \* goroutines of a run that report
  Last,        \* the last event of a run: its cluster stage is done, or it has failed
  BufferSize   \* of the channel

Event == 1 .. Last

ASSUME ProgressAssumption ==
  /\ Last \in Nat \ {0} /\ BufferSize \in Nat \ {0}

VARIABLES
  made,      \* events a run has come up with
  update,    \* for each goroutine: the event it is in Update with, 0 for none,
             \* and whether its last attempt to send found the channel full
  channel,   \* what is in the channel
  pumped,    \* AttachProgress has been called
  shown      \* the newest event of the run on the stream, 0 for none

progress == <<made, update, channel, pumped, shown>>

Quiet == [event |-> 0, full |-> FALSE]
Reporting(r) == \E w \in Worker : update[r][w] # Quiet

\* quiet: the runs say nothing before their last event.
ProgressInit(quiet) ==
  /\ made = [r \in Run |-> IF quiet THEN Last - 1 ELSE 0]
  /\ update = [r \in Run |-> [w \in Worker |-> Quiet]]
  /\ channel = [r \in Run |-> <<>>]
  /\ pumped = [r \in Run |-> FALSE]
  /\ shown = [r \in Run |-> 0]

-----------------------------------------------------------------------------
(* Reporter.Update                                                         *)

Update(r, w, e) ==
  /\ update[r][w] = Quiet
  /\ made' = [made EXCEPT ![r] = e]
  /\ update' = [update EXCEPT ![r][w].event = e]
  /\ UNCHANGED <<channel, pumped, shown>>

\* The first select.
Send(r, w) ==
  /\ update[r][w].event # 0 /\ ~ update[r][w].full
  /\ IF Len(channel[r]) < BufferSize
     THEN /\ channel' = [channel EXCEPT ![r] = Append(@, update[r][w].event)]
          /\ update' = [update EXCEPT ![r][w] = Quiet]
     ELSE /\ update' = [update EXCEPT ![r][w].full = TRUE]
          /\ UNCHANGED channel
  /\ UNCHANGED <<made, pumped, shown>>

\* Mutant of DropOldest: the new event is dropped instead.
DropNewest(r, w) ==
  /\ update[r][w].full
  /\ update' = [update EXCEPT ![r][w] = Quiet]
  /\ UNCHANGED <<made, channel, pumped, shown>>

\* The second select: by now the channel may have room, or be empty.
DropOldest(r, w) ==
  /\ update[r][w].full
  /\ channel' = [channel EXCEPT ![r] = IF @ = <<>> THEN @ ELSE Tail(@)]
  /\ update' = [update EXCEPT ![r][w].full = FALSE]
  /\ UNCHANGED <<made, pumped, shown>>

-----------------------------------------------------------------------------
(* The hub                                                                 *)

AttachProgress(r) ==
  /\ pumped' = [pumped EXCEPT ![r] = TRUE]
  /\ UNCHANGED <<made, update, channel, shown>>

pump(r) ==
  /\ pumped[r] /\ channel[r] # <<>>
  /\ shown' = [shown EXCEPT ![r] = Head(channel[r])]
  /\ channel' = [channel EXCEPT ![r] = Tail(@)]
  /\ UNCHANGED <<made, update, pumped>>

ProgressStep(r) == pump(r) \/ \E w \in Worker : Send(r, w) \/ DropOldest(r, w)

ProgressTypeOK ==
  /\ made \in [Run -> 0 .. Last] /\ shown \in [Run -> 0 .. Last]
  /\ update \in [Run -> [Worker -> [event : 0 .. Last, full : BOOLEAN]]]
  /\ channel \in [Run -> Seq(Event)] /\ \A r \in Run : Len(channel[r]) <= BufferSize
  /\ pumped \in [Run -> BOOLEAN]
=============================================================================
