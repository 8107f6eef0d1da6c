------------------------------ MODULE PickBook ------------------------------
(***************************************************************************)
(* What the picks service promises to a client that sends one request per  *)
(* file at a time: every file carries one mark, exactly the picked files   *)
(* have a copy in the picks folder, a request changes both together, at    *)
(* one moment, and is answered.  A pick that fails leaves the file         *)
(* unmarked, whatever it was before.                                       *)
(***************************************************************************)
CONSTANT File

VARIABLES
  mark,     \* "unmarked", "picked" or "rejected"
  copied,   \* the files that have a copy
  asked     \* the action a client waits for, per file

bookVars == <<mark, copied, asked>>

Actions == {"pick", "unpick", "reject", "unreject"}

BookInit ==
  /\ mark = [f \in File |-> "unmarked"]
  /\ copied = {}
  /\ asked = [f \in File |-> "none"]

Ask(f, a) ==
  /\ asked[f] = "none"
  /\ asked' = [asked EXCEPT ![f] = a]
  /\ UNCHANGED <<mark, copied>>

Become(f, m) ==
  /\ mark' = [mark EXCEPT ![f] = m]
  /\ copied' = IF m = "picked" THEN copied \cup {f} ELSE copied \ {f}
  /\ UNCHANGED asked

DoPick(f) == asked[f] = "pick" /\ mark[f] # "picked" /\ Become(f, "picked")
FailPick(f) == asked[f] = "pick" /\ mark[f] = "rejected" /\ Become(f, "unmarked")
DoUnpick(f) == asked[f] = "unpick" /\ mark[f] = "picked" /\ Become(f, "unmarked")
DoReject(f) == asked[f] = "reject" /\ Become(f, "rejected")
DoUnreject(f) == asked[f] = "unreject" /\ mark[f] = "rejected" /\ Become(f, "unmarked")

Answer(f) ==
  /\ asked[f] # "none"
  /\ asked' = [asked EXCEPT ![f] = "none"]
  /\ UNCHANGED <<mark, copied>>

BookNext ==
  \E f \in File :
    \/ \E a \in Actions : Ask(f, a)
    \/ DoPick(f) \/ FailPick(f) \/ DoUnpick(f) \/ DoReject(f) \/ DoUnreject(f)
    \/ Answer(f)

BookSpec ==
  BookInit /\ [][BookNext]_bookVars /\ \A f \in File : WF_bookVars(Answer(f))
=============================================================================
