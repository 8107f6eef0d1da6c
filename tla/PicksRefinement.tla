-------------------------- MODULE PicksRefinement --------------------------
(***************************************************************************)
(* Picks, with one request per file at a time, implements PickBook.  A     *)
(* pick takes effect when its exported_path is recorded, or when the row   *)
(* is deleted because the export failed; the other actions take effect     *)
(* with the statement that changes the row's state.                        *)
(***************************************************************************)
EXTENDS Picks

\* A pick has set the state of f and not yet recorded the copy.
Exporting(r, f) ==
  /\ job[r] # None /\ FileOf(r) = f
  /\ pc[r] \in {"open", "probe", "create", "copy", "publish", "record", "rollback"}

MarkNow(f) ==
  IF \E r \in Request : Exporting(r, f)
    THEN current[CHOOSE r \in Request : Exporting(r, f)]
    ELSE state[f]

\* Between two requests a file counts as copied only when the copy is there.
CopiedNow(f) == IF Busy(f) THEN MarkNow(f) = "picked" ELSE HasCopy(f)

AskedNow(f) ==
  IF Busy(f)
    THEN job[CHOOSE r \in Request : job[r] # None /\ FileOf(r) = f].act
    ELSE "none"

Book == INSTANCE PickBook WITH
  mark <- [f \in File |-> MarkNow(f)],
  copied <- {f \in File : CopiedNow(f)},
  asked <- [f \in File |-> AskedNow(f)]

\* Every behaviour of the service is one of the book: marks and copies change
\* together, as the request that is being served asks, and it is answered.
ImplementsBook == Book!BookSpec
=============================================================================
