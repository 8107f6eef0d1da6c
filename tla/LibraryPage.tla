----------------------------- MODULE LibraryPage -----------------------------
(***************************************************************************)
(* GET /api/library beside everything in Library that changes the tables:  *)
(* buildLibraryJSON reads the order of the clusters, the states of the     *)
(* photos and the members of one cluster after the other, each in a        *)
(* statement of its own and outside a transaction.  Every rebuild numbers  *)
(* the clusters from 1 again, so the id of an old cluster is that of a new *)
(* one.                                                                    *)
(***************************************************************************)
EXTENDS Library

VARIABLE page  \* the request, and what it has read; one at a time

\* order: ids of which the members are yet to be read; strips: those it will show;
\* undisturbed (history): no statement has changed the clusters since it began.
NoPage == [at |-> "idle", order |-> <<>>, rejected |-> {}, hide |-> FALSE, strips |-> {},
           undisturbed |-> TRUE]

pageVars == <<vars, page>>

PageInit == LibraryInit /\ page = NoPage

AllOrderedRead ==
  /\ page.at \in {"idle", "done"} /\ proc = "up"
  /\ page' = [NoPage EXCEPT !.at = "states", !.order = AllOrdered]
  /\ UNCHANGED vars

StateMapRead ==
  /\ page.at = "states"
  /\ page' = [page EXCEPT !.at = "hide", !.rejected = rejected]
  /\ UNCHANGED vars

HideRead ==
  /\ page.at = "hide"
  /\ page' = [page EXCEPT !.at = "members", !.hide = live.hide]
  /\ UNCHANGED vars

\* No rows for an id that has gone.
Members(id) == IF id \in DOMAIN clusters THEN clusters[id].members ELSE {}

\* Mutant of MembersRead: rejected photos are shown although they are to be hidden.
MembersShown ==
  /\ page.at = "members" /\ page.order # <<>>
  /\ page' = [page EXCEPT !.order = Tail(@),
                          !.strips = @ \cup {<<Head(page.order), Members(Head(page.order))>>}]
  /\ UNCHANGED vars

\* The members of the next cluster, as the page will show them.
MembersRead ==
  /\ page.at = "members" /\ page.order # <<>>
  /\ LET id == Head(page.order)
         shown == IF page.hide THEN Members(id) \ page.rejected ELSE Members(id)
     IN  page' = [page EXCEPT !.order = Tail(@),
                    !.strips = IF page.hide /\ shown = {} THEN @ ELSE @ \cup {<<id, shown>>}]
  /\ UNCHANGED vars

PageAnswered ==
  /\ page.at = "members" /\ page.order = <<>>
  /\ page' = [page EXCEPT !.at = "done"]
  /\ UNCHANGED vars

\* A page that is being read when the process ends is lost.
Disturbed ==
  page' = IF proc' = "down" THEN NoPage
          ELSE [page EXCEPT !.undisturbed = IF clusters' = clusters THEN @ ELSE FALSE]

PageNext ==
  \/ LibraryNext /\ Disturbed
  \/ AllOrderedRead \/ StateMapRead \/ HideRead \/ MembersRead \/ PageAnswered

PageSpec == PageInit /\ [][PageNext]_pageVars

-----------------------------------------------------------------------------
(* Properties                                                              *)

NotTwice == \A s, t \in page.strips : s # t => s[2] \cap t[2] = {}

\* A page that no rebuild and no eviction wrote into shows every photo once and
\* nothing of what it is to hide, whatever else goes on while it is read
\* (library.go:115-121, 128-138).
OnePlace ==
  page.at = "done" /\ page.undisturbed =>
    /\ NotTwice
    /\ \A i \in DOMAIN clusters : \A f \in clusters[i].members :
         (\E s \in page.strips : f \in s[2]) <=> ~ (page.hide /\ f \in page.rejected)

\* Without the exception: old clusters or new ones, and never some of each, also when a
\* rebuild comes between two of the statements (does not hold, library_half.cfg;
\* clusters_write.go:83-86, "in-flight readers either see the old clusters or the new
\* ones (never a half-rebuild)").
NeverHalf == page.at = "done" => NotTwice
=============================================================================
