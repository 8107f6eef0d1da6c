------------------------------ MODULE Pictures ------------------------------
(***************************************************************************)
(* GET /full/ for a photo a browser cannot show: the handler serves the    *)
(* JPEG cached under the id of the row and makes it first when there is    *)
(* none (internal/server/full.go, internal/thumb/photo.go).  Requests for  *)
(* one picture share a conversion, and conversions share two slots.        *)
(*                                                                         *)
(* A picture is the id of a row.  What it shows is a number, its version:  *)
(* an edit of the photo gives it a new one, and so does a photo that comes *)
(* to the folder after another was deleted, when SQLite hands it the id of *)
(* that one.                                                               *)
(***************************************************************************)
EXTENDS Integers, FiniteSets

CONSTANTS
  Viewer,      \* requests at a time
  Picture,
  Slots,       \* the capacity of fullTranscodeSem
  Tools,       \* how many ways to convert BuildPhotoFullJPEG tries
  MaxVersion,  \* bound: versions of a picture
  Previewed    \* pictures with a tier-2 preview to fall back to

Version == 1 .. MaxVersion
Missing == -1
Empty == 0     \* a file without bytes
Broken == -2   \* bytes that are no JPEG

ASSUME PicturesAssumption ==
  /\ Slots \in Nat \ {0} /\ Tools \in Nat \ {0} /\ MaxVersion \in Nat \ {0}
  /\ IsFiniteSet(Picture) /\ Picture # {}

VARIABLES
  photo,     \* the version in the original file
  row,       \* the version the row, its hash and its URLs speak of
  cache,     \* <id>-full.jpg
  unsynced,  \* pictures whose cache file is not on the disk yet
  damaged,   \* history: pictures that were made, or left by a loss of power, as no JPEG
  flight,    \* the conversion of a picture in fullTranscodeGroup
  slots,     \* slots taken
  viewer,    \* where a request is, for which picture and version, and its answer
  stopping,  \* BackgroundContext is done
  left       \* bound: requests, changes and crashes that may still come

pictures == <<photo, row, cache, unsynced, damaged, flight, slots, viewer, stopping, left>>

NoFlight == [at |-> "none", tool |-> 0, made |-> Missing]
NoRequest(p) == [at |-> "idle", picture |-> p, version |-> 0, answer |-> "none", shown |-> Missing]

Has(p) == cache[p] \notin {Missing, Empty}
Converting(p) == flight[p].at \in {"convert", "rename", "size"}

PicturesInit(n) ==
  /\ photo = [p \in Picture |-> 1] /\ row = photo
  /\ cache = [p \in Picture |-> Missing] /\ unsynced = {} /\ damaged = {}
  /\ flight = [p \in Picture |-> NoFlight] /\ slots = 0
  /\ viewer = [v \in Viewer |-> NoRequest(CHOOSE p \in Picture : TRUE)]
  /\ stopping = FALSE /\ left = n

-----------------------------------------------------------------------------
(* handleFull and ensureFullJPEG, for one request                          *)

At(v, where) == viewer[v].at = where
Moves(v, where) == viewer' = [viewer EXCEPT ![v].at = where]
Others == UNCHANGED <<photo, row, cache, unsynced, damaged, stopping, left>>

\* The page builds the URL from the row: path and content hash.
View(v, p) ==
  /\ viewer[v].at \in {"idle", "answered"} /\ left > 0 /\ left' = left - 1
  /\ viewer' = [viewer EXCEPT ![v] =
       [NoRequest(p) EXCEPT !.at = "stat", !.version = row[p]]]
  /\ UNCHANGED <<photo, row, cache, unsynced, damaged, flight, slots, stopping>>

\* Mutant of Stat: a file is enough, whatever its size.
StatAny(v) ==
  /\ At(v, "stat")
  /\ Moves(v, IF cache[viewer[v].picture] # Missing THEN "serve" ELSE "join")
  /\ Others /\ UNCHANGED <<flight, slots>>

Stat(v) ==
  /\ At(v, "stat")
  /\ Moves(v, IF Has(viewer[v].picture) THEN "serve" ELSE "join")
  /\ Others /\ UNCHANGED <<flight, slots>>

\* singleflight: the first request begins, the others wait for its result.
Join(v) ==
  /\ At(v, "join") /\ Moves(v, "wait")
  /\ LET p == viewer[v].picture
     IN  flight' = IF flight[p] = NoFlight THEN [flight EXCEPT ![p].at = "recheck"] ELSE flight
  /\ Others /\ UNCHANGED slots

\* serveFile
Serve(v) ==
  /\ At(v, "serve")
  /\ viewer' = [viewer EXCEPT ![v].at = "answered", ![v].answer = "full",
                              ![v].shown = cache[viewer[v].picture]]
  /\ Others /\ UNCHANGED <<flight, slots>>

\* The preview of the library, or an error.
Fallback(v) ==
  /\ At(v, "fallback")
  /\ viewer' = [viewer EXCEPT ![v].at = "answered",
       ![v].answer = IF viewer[v].picture \in Previewed THEN "preview" ELSE "error"]
  /\ Others /\ UNCHANGED <<flight, slots>>

-----------------------------------------------------------------------------
(* The conversion                                                          *)

\* Everyone who waits gets the result.
Land(p, where) ==
  /\ flight' = [flight EXCEPT ![p] = NoFlight]
  /\ viewer' = [v \in Viewer |->
       IF viewer[v].picture = p /\ At(v, "wait") THEN [viewer[v] EXCEPT !.at = where]
       ELSE viewer[v]]

\* Mutant of Recheck: the conversion goes ahead.
RecheckNothing(p) ==
  /\ flight[p].at = "recheck"
  /\ flight' = [flight EXCEPT ![p].at = "sem"]
  /\ Others /\ UNCHANGED <<slots, viewer>>

\* An earlier flight may have landed since Stat.
Recheck(p) ==
  /\ flight[p].at = "recheck"
  /\ \/ Has(p) /\ Land(p, "serve")
     \/ ~ Has(p) /\ flight' = [flight EXCEPT ![p].at = "sem"] /\ UNCHANGED viewer
  /\ Others /\ UNCHANGED slots

Acquire(p) ==
  /\ flight[p].at = "sem" /\ slots < Slots
  /\ slots' = slots + 1
  /\ flight' = [flight EXCEPT ![p] = [at |-> "convert", tool |-> 1, made |-> Missing]]
  /\ Others /\ UNCHANGED viewer

GiveUp(p) ==
  /\ flight[p].at = "sem" /\ stopping
  /\ Land(p, "fallback")
  /\ Others /\ UNCHANGED slots

\* A tool writes the temporary file from the original as it is now, and says that it
\* is done; what it has written need not be a JPEG.
Convert(p) ==
  /\ flight[p].at = "convert"
  /\ \E made \in {photo[p], Broken} :
       /\ flight' = [flight EXCEPT ![p].at = "rename", ![p].made = made]
       /\ damaged' = IF made = Broken THEN damaged \cup {p} ELSE damaged
  /\ UNCHANGED <<photo, row, cache, unsynced, slots, viewer, stopping, left>>

RenameJPEG(p) ==
  /\ flight[p].at = "rename"
  /\ cache' = [cache EXCEPT ![p] = flight[p].made]
  /\ unsynced' = unsynced \cup {p}
  /\ flight' = [flight EXCEPT ![p].at = "size"]
  /\ UNCHANGED <<photo, row, damaged, slots, viewer, stopping, left>>

\* readJPEGSize; the semaphore is released when the closure returns.
Size(p) ==
  /\ flight[p].at = "size" /\ cache[p] \in Version
  /\ Land(p, "serve") /\ slots' = slots - 1
  /\ Others

\* Mutant of Failed: the slot is kept when no tool could do it.
FailedKeepsSlot(p) ==
  /\ Converting(p)
  /\ IF flight[p].tool < Tools
     THEN /\ flight' = [flight EXCEPT ![p].at = "convert", ![p].tool = @ + 1]
          /\ UNCHANGED viewer
     ELSE Land(p, "fallback")
  /\ Others /\ UNCHANGED slots

\* The tool, the rename or the look at the result fails, as it does when that is no
\* JPEG: the next tool is tried.  What was renamed stays under the name.
Failed(p) ==
  /\ Converting(p)
  /\ IF flight[p].tool < Tools
     THEN /\ flight' = [flight EXCEPT ![p].at = "convert", ![p].tool = @ + 1]
          /\ UNCHANGED <<viewer, slots>>
     ELSE Land(p, "fallback") /\ slots' = slots - 1
  /\ Others

-----------------------------------------------------------------------------
(* What goes on around it                                                  *)

Change(p) ==
  /\ photo[p] < MaxVersion /\ left > 0 /\ left' = left - 1
  /\ photo' = [photo EXCEPT ![p] = @ + 1]
  /\ UNCHANGED <<row, cache, unsynced, damaged, flight, slots, viewer, stopping>>

\* The next scan; nothing in it touches <id>-full.jpg.
Rescan(p) ==
  /\ row[p] # photo[p]
  /\ row' = [row EXCEPT ![p] = photo[p]]
  /\ UNCHANGED <<photo, cache, unsynced, damaged, flight, slots, viewer, stopping, left>>

StopBackground ==
  /\ ~ stopping /\ left > 0 /\ left' = left - 1
  /\ stopping' = TRUE
  /\ UNCHANGED <<photo, row, cache, unsynced, damaged, flight, slots, viewer>>

\* The process ends and another starts; without power, files that were not
\* written out may be found empty, or with bytes lost.
RestartServer ==
  /\ left > 0 /\ left' = left - 1
  /\ \E lost \in SUBSET unsynced : \E torn \in SUBSET lost :
       /\ cache' = [p \in Picture |-> IF p \in torn THEN Broken
                                     ELSE IF p \in lost THEN Empty ELSE cache[p]]
       /\ damaged' = damaged \cup torn
  /\ unsynced' = {} /\ slots' = 0 /\ stopping' = FALSE
  /\ flight' = [p \in Picture |-> NoFlight]
  /\ viewer' = [v \in Viewer |-> NoRequest(viewer[v].picture)]
  /\ UNCHANGED <<photo, row>>

Handling(v) == Stat(v) \/ Join(v) \/ Serve(v) \/ Fallback(v)
Flying(p) ==
  Recheck(p) \/ Acquire(p) \/ GiveUp(p) \/ Convert(p) \/ RenameJPEG(p) \/ Size(p) \/ Failed(p)

PicturesNext ==
  \/ StopBackground \/ RestartServer
  \/ \E v \in Viewer : Handling(v) \/ \E p \in Picture : View(v, p)
  \/ \E p \in Picture : Flying(p) \/ Change(p) \/ Rescan(p)

\* Goroutines go on and tools end; a slot goes round, as a Go channel serves those
\* who wait for it in turn.
PicturesFairness ==
  /\ \A v \in Viewer : WF_pictures(Handling(v))
  /\ \A p \in Picture : WF_pictures(Flying(p)) /\ SF_pictures(Acquire(p))

PicturesSpec ==
  (\E n \in Nat : PicturesInit(n)) /\ [][PicturesNext]_pictures /\ PicturesFairness

-----------------------------------------------------------------------------
(* Properties                                                              *)

Flight ==
  [at : {"none", "recheck", "sem", "convert", "rename", "size"},
   tool : 0 .. Tools, made : Version \cup {Missing, Broken}]
Viewing ==
  [at : {"idle", "stat", "join", "wait", "serve", "fallback", "answered"},
   picture : Picture, version : 0 .. MaxVersion,
   answer : {"none", "full", "preview", "error"}, shown : Version \cup {Missing, Empty, Broken}]

PicturesTypeOK ==
  /\ photo \in [Picture -> Version] /\ row \in [Picture -> Version]
  /\ cache \in [Picture -> Version \cup {Missing, Empty, Broken}]
  /\ unsynced \subseteq Picture /\ damaged \subseteq Picture
  /\ flight \in [Picture -> Flight] /\ viewer \in [Viewer -> Viewing]
  /\ stopping \in BOOLEAN /\ left \in Nat
  /\ slots = Cardinality({p \in Picture : Converting(p)}) /\ slots <= Slots

\* What a request is served as the full picture is a whole JPEG, whatever else is
\* converted, fails and restarts: unless a tool once made something else of that
\* photo, or power was lost before its file was on the disk, and even then it is no
\* empty file (full.go:106, 125).
ServedWhole ==
  \A v \in Viewer : viewer[v].answer = "full" =>
    viewer[v].shown \in Version
      \/ (viewer[v].shown = Broken /\ viewer[v].picture \in damaged)

\* Without the exception: a browser is sent something that it can show, be it the
\* preview (does not hold, pictures_broken.cfg; full.go:70-71, "Fall back to tier-2
\* preview (1600w) so the user sees *something* rather than a broken icon if the
\* transcode failed").
SeesSomething ==
  \A v \in Viewer : viewer[v].answer = "full" => viewer[v].shown \in Version

\* However requests meet, a picture that is in the cache is not converted again
\* (full.go:123-124, "another caller's transcode may have finished while we were
\* waiting").
ConvertedOnce ==
  [][\A p \in Picture : Acquire(p) => ~ Has(p)]_pictures

\* Every request is answered, whatever fails in its own conversion or in others,
\* and when the server stops (full.go:128-139).
EveryViewAnswered ==
  \A v \in Viewer : viewer[v].at # "idle" ~> viewer[v].at \in {"answered", "idle"}

\* A URL with the hash of a version shows that version (ui/web/src/api.ts:13-16,
\* "when the file's bytes change the API hands back a new content_hash and the URL
\* changes").
FullShowsFile ==
  \A v \in Viewer : viewer[v].answer = "full" /\ viewer[v].shown \in Version =>
    viewer[v].shown >= viewer[v].version
=============================================================================
