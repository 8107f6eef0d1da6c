------------------------------ MODULE MCPicks ------------------------------
(***************************************************************************)
(* Instances of Picks.  Two originals, a.jpg and b.jpg; picks/b.jpg is     *)
(* taken by a file of the user's with another content, so that the export  *)
(* of b.jpg has to go to picks/b_2.jpg.                                    *)
(***************************************************************************)
EXTENDS PicksRefinement, TLC

CONSTANTS A, B, X   \* the contents of a.jpg, of b.jpg and of the user's file

TwoFiles == {"a.jpg", "b.jpg"}

SourceIs == [f \in TwoFiles |-> f]

PlainPaths == {"a.jpg", "b.jpg", "picks/a.jpg", "picks/a_2.jpg", "picks/b.jpg",
               "picks/b_2.jpg", "out/a.jpg", "out/b.jpg"}

PlainDisk == [p \in PlainPaths |->
  CASE p = "a.jpg" -> A [] p = "b.jpg" -> B [] p = "picks/b.jpg" -> X [] OTHER -> None]

\* "up" stands for a picks_dir that leaves the scan root: nothing is within it.
PlainSlots == [d \in Dir |-> [f \in TwoFiles |->
  CASE d = "picks" /\ f = "a.jpg" -> <<"picks/a.jpg", "picks/a_2.jpg">>
    [] d = "picks" /\ f = "b.jpg" -> <<"picks/b.jpg", "picks/b_2.jpg">>
    [] d = "out" /\ f = "a.jpg" -> <<"out/a.jpg">>
    [] d = "out" /\ f = "b.jpg" -> <<"out/b.jpg">>
    [] OTHER -> <<"out/a.jpg">>]]

PlainWithin == [d \in Dir |->
  IF d = "picks" THEN {"picks/a.jpg", "picks/a_2.jpg", "picks/b.jpg", "picks/b_2.jpg"}
  ELSE IF d = "out" THEN {"out/a.jpg", "out/b.jpg"} ELSE {}]

Symmetry == Permutations(Request)

\* The content of an inode nobody can reach any more tells states apart for nothing.
Reachable == <<picksDir, rows, fs, tmp, [i \in InUse \ {None} |-> data[i]], pc, locals>>

-----------------------------------------------------------------------------
(* Originals a.jpg and a_2.jpg: picks/a.jpg is taken, so that the second   *)
(* candidate of one is the first candidate of the other.                   *)

PairFiles == {"a.jpg", "a_2.jpg"}
PairSource == [f \in PairFiles |-> f]
PairPaths == {"a.jpg", "a_2.jpg", "picks/a.jpg", "picks/a_2.jpg", "picks/a_3.jpg", "picks/a_2_2.jpg"}
PairDisk == [p \in PairPaths |->
  CASE p = "a.jpg" -> A [] p = "a_2.jpg" -> B [] p = "picks/a.jpg" -> X [] OTHER -> None]
PairSlots == [picks |-> [f \in PairFiles |->
  IF f = "a.jpg" THEN <<"picks/a.jpg", "picks/a_2.jpg", "picks/a_3.jpg">>
  ELSE <<"picks/a_2.jpg", "picks/a_2_2.jpg">>]]
PairWithin == [picks |-> {"picks/a.jpg", "picks/a_2.jpg", "picks/a_3.jpg", "picks/a_2_2.jpg"}]

-----------------------------------------------------------------------------
(* picks_dir names the folder trip, which holds an original of its own     *)
(* with the content of the original a.jpg.                                 *)

TripFiles == {"a.jpg", "trip/a.jpg"}
TripSource == [f \in TripFiles |-> f]
TripPaths == {"a.jpg", "trip/a.jpg", "trip/a_2.jpg", "trip/trip/a.jpg"}
TripDisk == [p \in TripPaths |-> IF p \in TripFiles THEN A ELSE None]
TripSlots == [trip |-> [f \in TripFiles |->
  IF f = "a.jpg" THEN <<"trip/a.jpg", "trip/a_2.jpg">> ELSE <<"trip/trip/a.jpg">>]]
TripWithin == [trip |-> {"trip/a.jpg", "trip/a_2.jpg", "trip/trip/a.jpg"}]
=============================================================================
