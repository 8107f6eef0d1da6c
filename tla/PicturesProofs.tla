--------------------------- MODULE PicturesProofs ---------------------------
(***************************************************************************)
(* Theorems about Pictures for any requests, pictures, versions, slots and *)
(* tools.                                                                  *)
(***************************************************************************)
EXTENDS Pictures, FiniteSetTheorems, TLAPS

USE DEF pictures, Others, At, Moves, Missing, Empty, Broken, Version

-----------------------------------------------------------------------------
(* The inductive invariant                                                 *)

DataOK ==
  /\ photo \in [Picture -> Version] /\ row \in [Picture -> Version]
  /\ cache \in [Picture -> Version \cup {Missing, Empty, Broken}] /\ unsynced \subseteq Picture
  /\ stopping \in BOOLEAN /\ left \in Nat

\* What is in the cache and no JPEG has been made so, or was lost.
DamageOK == damaged \subseteq Picture /\ \A p \in Picture : cache[p] = Broken => p \in damaged

Holders == {p \in Picture : Converting(p)}

\* As many slots are taken as pictures are being converted.
SlotsOK == slots = Cardinality(Holders) /\ slots <= Slots

\* What a flight is about to rename, and what a request has been served.
Made(p, f) == f.made \in Version \/ (f.made = Broken /\ p \in damaged)
Whole(u) == u.shown \in Version \/ (u.shown = Broken /\ u.picture \in damaged)

\* A flight that waits for a slot is for a picture that is not in the cache, one
\* that is about to rename has something to rename, and what it looks at last is there.
FlightsOK ==
  /\ flight \in [Picture -> Flight]
  /\ \A p \in Picture :
       /\ flight[p].at = "sem" => ~ Has(p)
       /\ flight[p].at = "rename" => Made(p, flight[p])
       /\ flight[p].at = "size" => Has(p)

\* Who is about to serve a picture finds it, and who has served one served it whole
\* unless it was damaged.
ViewersOK ==
  /\ viewer \in [Viewer -> Viewing]
  /\ \A v \in Viewer :
       /\ viewer[v].at = "serve" => Has(viewer[v].picture)
       /\ viewer[v].answer = "full" => Whole(viewer[v])

PicturesInv == DataOK /\ DamageOK /\ SlotsOK /\ FlightsOK /\ ViewersOK

LEMMA InitInv ==
  ASSUME NEW n \in Nat, PicturesInit(n)
  PROVE  PicturesInv
<1>1. DataOK
  <2>1. photo \in [Picture -> Version] /\ row \in [Picture -> Version]
        /\ cache \in [Picture -> Version \cup {Missing, Empty, Broken}]
    BY PicturesAssumption DEF PicturesInit
  <2>2. unsynced = {} /\ stopping = FALSE /\ left \in Nat
    BY DEF PicturesInit
  <2>. QED
    BY <2>1, <2>2, Zenon DEF DataOK
<1>2. FlightsOK
  BY PicturesAssumption DEF PicturesInit, FlightsOK, Flight, NoFlight
<1>3. SlotsOK
  <2>1. Holders = {}
    BY DEF PicturesInit, Holders, Converting, NoFlight
  <2>. QED
    BY <2>1, FS_EmptySet, PicturesAssumption DEF PicturesInit, SlotsOK
<1>4. ViewersOK
  <2>1. (CHOOSE p \in Picture : TRUE) \in Picture
    BY PicturesAssumption
  <2>. QED
    BY <2>1, PicturesAssumption DEF PicturesInit, ViewersOK, Viewing, NoRequest
<1>5. DamageOK
  BY DEF PicturesInit, DamageOK
<1>. QED
  BY <1>1, <1>2, <1>3, <1>4, <1>5 DEF PicturesInv

-----------------------------------------------------------------------------
(* The slots                                                               *)

\* A flight that neither takes nor gives back a slot.
LEMMA SameHolders ==
  ASSUME SlotsOK, UNCHANGED slots, NEW p \in Picture, NEW g,
         flight \in [Picture -> Flight], flight' = [flight EXCEPT ![p] = g],
         flight[p].at \in {"convert", "rename", "size"} <=> g.at \in {"convert", "rename", "size"}
  PROVE  SlotsOK'
<1>1. Holders' = Holders
  BY DEF Holders, Converting
<1>. QED
  BY <1>1 DEF SlotsOK

LEMMA MoreHolders ==
  ASSUME SlotsOK, slots < Slots, slots' = slots + 1, NEW p \in Picture, NEW g,
         flight \in [Picture -> Flight], flight' = [flight EXCEPT ![p] = g],
         ~ Converting(p), g.at \in {"convert", "rename", "size"}
  PROVE  SlotsOK'
<1>1. Holders' = Holders \cup {p} /\ p \notin Holders
  BY DEF Holders, Converting
<1>2. IsFiniteSet(Holders)
  BY PicturesAssumption, FS_Subset DEF Holders
<1>3. Cardinality(Holders \cup {p}) = Cardinality(Holders) + 1
  BY <1>1, <1>2, FS_AddElement
<1>4. slots \in Nat
  BY <1>2, FS_CardinalityType DEF SlotsOK
<1>. QED
  BY <1>1, <1>3, <1>4, PicturesAssumption DEF SlotsOK

LEMMA FewerHolders ==
  ASSUME SlotsOK, slots' = slots - 1, NEW p \in Picture, NEW g,
         flight \in [Picture -> Flight], flight' = [flight EXCEPT ![p] = g],
         Converting(p), g.at \notin {"convert", "rename", "size"}
  PROVE  SlotsOK'
<1>1. Holders' = Holders \ {p} /\ p \in Holders
  BY DEF Holders, Converting
<1>2. IsFiniteSet(Holders)
  BY PicturesAssumption, FS_Subset DEF Holders
<1>3. Cardinality(Holders \ {p}) = Cardinality(Holders) - 1
  BY <1>1, <1>2, FS_RemoveElement
<1>4. slots \in Nat
  BY <1>2, FS_CardinalityType DEF SlotsOK
<1>. QED
  BY <1>1, <1>3, <1>4, PicturesAssumption DEF SlotsOK

-----------------------------------------------------------------------------
(* The steps                                                               *)

\* One request moves on.
LEMMA ViewerMoves ==
  ASSUME ViewersOK, NEW v \in Viewer, NEW u \in Viewing, viewer' = [viewer EXCEPT ![v] = u],
         u.at = "serve" => Has(u.picture), u.answer = "full" => Whole(u),
         UNCHANGED <<cache, damaged>>
  PROVE  ViewersOK'
BY DEF ViewersOK, Has, Whole

LEMMA HandlingKeepsInv ==
  ASSUME PicturesInv, NEW v \in Viewer, Handling(v)
  PROVE  PicturesInv'
<1>1. viewer[v] \in Viewing /\ viewer[v].picture \in Picture
  BY DEF PicturesInv, ViewersOK, Viewing
<1>2. DataOK' /\ DamageOK' /\ UNCHANGED <<cache, damaged>>
  BY DEF Handling, Stat, Join, Serve, Fallback, PicturesInv, DataOK, DamageOK
<1>3. CASE Stat(v) \/ Serve(v) \/ Fallback(v)
  <2>1. UNCHANGED <<cache, flight, slots>>
    BY <1>3 DEF Stat, Serve, Fallback
  <2>2. SlotsOK' /\ FlightsOK'
    BY <1>2, <2>1 DEF PicturesInv, SlotsOK, FlightsOK, Holders, Converting, Has, Made
  <2>3. CASE Stat(v)
    <3>1. PICK to \in {"serve", "join"} :
            /\ viewer' = [viewer EXCEPT ![v] = [viewer[v] EXCEPT !.at = to]]
            /\ to = "serve" => Has(viewer[v].picture)
      BY <2>3 DEF Stat
    <3>2. [viewer[v] EXCEPT !.at = to] \in Viewing
      BY <1>1 DEF Viewing
    <3>. QED
      BY <1>1, <1>2, <2>1, <2>2, <3>1, <3>2, ViewerMoves DEF PicturesInv, ViewersOK, Viewing, Whole
  <2>4. CASE Serve(v)
    <3>. DEFINE u == [viewer[v] EXCEPT !.at = "answered", !.answer = "full",
                                       !.shown = cache[viewer[v].picture]]
    <3>1. viewer' = [viewer EXCEPT ![v] = u]
      BY <2>4 DEF Serve
    <3>2. Has(viewer[v].picture)
      BY <2>4 DEF Serve, PicturesInv, ViewersOK
    <3>3. /\ cache[viewer[v].picture] \in Version \cup {Broken}
          /\ cache[viewer[v].picture] = Broken => viewer[v].picture \in damaged
      BY <1>1, <3>2 DEF PicturesInv, DataOK, DamageOK, Has
    <3>4. u \in Viewing /\ u.at = "answered" /\ Whole(u)
      BY <1>1, <3>3 DEF Viewing, Whole
    <3>. QED
      BY <1>2, <2>1, <2>2, <3>1, <3>4, ViewerMoves DEF PicturesInv
  <2>5. CASE Fallback(v)
    <3>1. PICK answer \in {"preview", "error"} :
            viewer' = [viewer EXCEPT ![v] = [viewer[v] EXCEPT !.at = "answered", !.answer = answer]]
      BY <2>5 DEF Fallback
    <3>2. [viewer[v] EXCEPT !.at = "answered", !.answer = answer] \in Viewing
      BY <1>1 DEF Viewing
    <3>. QED
      BY <1>1, <1>2, <2>1, <2>2, <3>1, <3>2, ViewerMoves DEF PicturesInv, Viewing, Whole
  <2>. QED
    BY <1>3, <2>3, <2>4, <2>5
<1>4. CASE Join(v)
  <2>. DEFINE p == viewer[v].picture
  <2>1. UNCHANGED <<cache, slots>>
    BY <1>4 DEF Join
  <2>2. ViewersOK'
    <3>1. viewer' = [viewer EXCEPT ![v] = [viewer[v] EXCEPT !.at = "wait"]]
      BY <1>4 DEF Join
    <3>2. [viewer[v] EXCEPT !.at = "wait"] \in Viewing
      BY <1>1 DEF Viewing
    <3>. QED
      BY <1>1, <1>2, <2>1, <3>1, <3>2, ViewerMoves DEF PicturesInv, ViewersOK, Viewing, Whole
  <2>3. CASE flight' = flight
    BY <1>2, <2>1, <2>2, <2>3 DEF PicturesInv, SlotsOK, FlightsOK, Holders, Converting, Has, Made
  <2>4. CASE flight[p] = NoFlight /\ flight' = [flight EXCEPT ![p] = [NoFlight EXCEPT !.at = "recheck"]]
    <3>. DEFINE g == [NoFlight EXCEPT !.at = "recheck"]
    <3>1. g \in Flight /\ g.at = "recheck" /\ NoFlight.at = "none"
      BY PicturesAssumption DEF NoFlight, Flight
    <3>2. FlightsOK'
      BY <1>1, <1>2, <2>1, <2>4, <3>1 DEF PicturesInv, FlightsOK, Has, NoFlight, Made
    <3>3. SlotsOK'
      <4>. HIDE DEF g
      <4>1. flight' = [flight EXCEPT ![p] = g] /\ p \in Picture
        BY <1>1, <2>4 DEF g
      <4>2. flight[p].at \in {"convert", "rename", "size"} <=> g.at \in {"convert", "rename", "size"}
        BY <2>4, <3>1
      <4>. QED
        BY <2>1, <4>1, <4>2, SameHolders DEF PicturesInv, FlightsOK
    <3>. QED
      BY <1>2, <2>2, <3>2, <3>3 DEF PicturesInv
  <2>. QED
    BY <1>4, <2>3, <2>4 DEF Join
<1>. QED
  BY <1>3, <1>4 DEF Handling

\* A flight moves on and no request does; it may put the picture into the cache.
LEMMA FlightMoves ==
  ASSUME FlightsOK, ViewersOK, NEW p \in Picture, NEW g \in Flight, UNCHANGED viewer,
         flight' = [flight EXCEPT ![p] = g],
         \A q \in Picture \ {p} : cache'[q] = cache[q],
         Has(p) => Has(p)', damaged \subseteq damaged',
         g.at = "sem" => ~ Has(p)', g.at = "size" => Has(p)',
         g.at = "rename" => g.made \in Version \/ (g.made = Broken /\ p \in damaged')
  PROVE  FlightsOK' /\ ViewersOK'
<1>1. FlightsOK'
  BY DEF FlightsOK, Has, Made
<1>2. \A q \in Picture : Has(q) => Has(q)'
  BY DEF Has
<1>3. ViewersOK'
  BY <1>2 DEF ViewersOK, Viewing, Whole
<1>. QED
  BY <1>1, <1>3

\* A flight is over; those who wait for it go where its result sends them.
LEMMA FlightLands ==
  ASSUME FlightsOK, ViewersOK, NEW p \in Picture, NEW where \in {"serve", "fallback"},
         Land(p, where), where = "serve" => Has(p), UNCHANGED <<cache, damaged>>
  PROVE  FlightsOK' /\ ViewersOK' /\ flight' = [flight EXCEPT ![p] = NoFlight]
<1>1. NoFlight \in Flight /\ NoFlight.at = "none"
  BY PicturesAssumption DEF NoFlight, Flight
<1>2. FlightsOK'
  BY <1>1 DEF Land, FlightsOK, Has, Made
<1>3. ASSUME NEW v \in Viewer
      PROVE  /\ viewer'[v] \in Viewing
             /\ viewer'[v].at = "serve" => Has(viewer[v].picture)'
             /\ viewer'[v].answer = "full" => Whole(viewer'[v])
  <2>1. viewer[v] \in Viewing
    BY DEF ViewersOK
  <2>2. CASE viewer'[v] = viewer[v]
    BY <2>1, <2>2 DEF ViewersOK, Has, Whole
  <2>3. CASE viewer[v].picture = p /\ viewer'[v] = [viewer[v] EXCEPT !.at = where]
    <3>1. [viewer[v] EXCEPT !.at = where] \in Viewing
      BY <2>1 DEF Viewing
    <3>. QED
      BY <2>1, <2>3, <3>1 DEF ViewersOK, Has, Viewing, Whole
  <2>. QED
    BY <2>2, <2>3 DEF Land
<1>4. viewer' \in [Viewer -> Viewing]
  BY <1>3 DEF Land
<1>. QED
  BY <1>2, <1>3, <1>4 DEF ViewersOK, Land, Whole

LEMMA FlyingKeepsInv ==
  ASSUME PicturesInv, NEW p \in Picture, Flying(p)
  PROVE  PicturesInv'
<1>. DEFINE f == flight[p]
<1>1. f \in Flight /\ flight \in [Picture -> Flight] /\ FlightsOK /\ ViewersOK /\ SlotsOK
  BY DEF PicturesInv, FlightsOK
<1>2. NoFlight.at = "none"
  BY DEF NoFlight
<1>3. CASE Recheck(p)
  <2>1. DataOK' /\ DamageOK' /\ UNCHANGED <<cache, damaged, slots>>
    BY <1>3 DEF Recheck, PicturesInv, DataOK, DamageOK
  <2>2. CASE Has(p) /\ Land(p, "serve")
    <3>1. FlightsOK' /\ ViewersOK' /\ flight' = [flight EXCEPT ![p] = NoFlight]
      BY <1>1, <2>1, <2>2, FlightLands
    <3>. QED
      BY <1>1, <1>2, <1>3, <2>1, <3>1, SameHolders DEF Recheck, PicturesInv
  <2>3. CASE ~ Has(p) /\ flight' = [flight EXCEPT ![p].at = "sem"] /\ UNCHANGED viewer
    <3>. DEFINE g == [f EXCEPT !.at = "sem"]
    <3>1. g \in Flight /\ g.at = "sem" /\ flight' = [flight EXCEPT ![p] = g]
      BY <1>1, <2>3 DEF Flight
    <3>. HIDE DEF g
    <3>2. FlightsOK' /\ ViewersOK'
      BY <1>1, <2>1, <2>3, <3>1, FlightMoves DEF Has
    <3>. QED
      BY <1>1, <1>3, <2>1, <3>1, <3>2, SameHolders DEF Recheck, PicturesInv
  <2>. QED
    BY <1>3, <2>2, <2>3 DEF Recheck
<1>4. CASE Acquire(p)
  <2>1. DataOK' /\ DamageOK' /\ UNCHANGED <<cache, damaged, viewer>> /\ slots < Slots /\ slots' = slots + 1 /\ f.at = "sem"
    BY <1>4 DEF Acquire, PicturesInv, DataOK, DamageOK
  <2>. DEFINE g == [at |-> "convert", tool |-> 1, made |-> Missing]
  <2>2. g \in Flight /\ g.at = "convert" /\ flight' = [flight EXCEPT ![p] = g]
    BY <1>4, PicturesAssumption DEF Acquire, Flight
  <2>. HIDE DEF g
  <2>3. FlightsOK' /\ ViewersOK'
    BY <1>1, <2>1, <2>2, FlightMoves DEF Has
  <2>4. SlotsOK'
    BY <1>1, <2>1, <2>2, MoreHolders DEF Converting
  <2>. QED
    BY <2>1, <2>3, <2>4 DEF PicturesInv
<1>5. CASE GiveUp(p)
  <2>1. DataOK' /\ DamageOK' /\ UNCHANGED <<cache, damaged, slots>> /\ Land(p, "fallback") /\ f.at = "sem"
    BY <1>5 DEF GiveUp, PicturesInv, DataOK, DamageOK
  <2>2. FlightsOK' /\ ViewersOK' /\ flight' = [flight EXCEPT ![p] = NoFlight]
    BY <1>1, <2>1, FlightLands
  <2>. QED
    BY <1>1, <1>2, <2>1, <2>2, SameHolders DEF PicturesInv
<1>6. CASE Convert(p)
  <2>1. DataOK' /\ UNCHANGED <<cache, slots, viewer>> /\ f.at = "convert" /\ photo[p] \in Version
    BY <1>6 DEF Convert, PicturesInv, DataOK
  <2>5. PICK made \in {photo[p], Broken} :
          /\ flight' = [flight EXCEPT ![p] = [f EXCEPT !.at = "rename", !.made = made]]
          /\ damaged' = IF made = Broken THEN damaged \cup {p} ELSE damaged
    BY <1>6 DEF Convert
  <2>6. DamageOK' /\ damaged \subseteq damaged'
    BY <2>1, <2>5 DEF PicturesInv, DamageOK
  <2>. DEFINE g == [f EXCEPT !.at = "rename", !.made = made]
  <2>2. flight' = [flight EXCEPT ![p] = g]
    BY <2>5
  <2>3. /\ g \in Flight /\ g.at = "rename"
        /\ g.made \in Version \/ (g.made = Broken /\ p \in damaged')
    BY <1>1, <2>1, <2>5 DEF Flight
  <2>. HIDE DEF g
  <2>4. FlightsOK' /\ ViewersOK'
    BY <1>1, <2>1, <2>2, <2>3, <2>6, FlightMoves DEF Has
  <2>. QED
    BY <1>1, <2>1, <2>2, <2>3, <2>4, <2>6, SameHolders DEF PicturesInv
<1>7. CASE RenameJPEG(p)
  <2>1. /\ UNCHANGED <<damaged, slots, viewer>> /\ f.at = "rename"
        /\ f.made \in Version \/ (f.made = Broken /\ p \in damaged)
        /\ cache' = [cache EXCEPT ![p] = f.made]
    BY <1>1, <1>7 DEF RenameJPEG, FlightsOK, Made
  <2>. DEFINE g == [f EXCEPT !.at = "size"]
  <2>2. g \in Flight /\ g.at = "size" /\ flight' = [flight EXCEPT ![p] = g]
    BY <1>1, <1>7 DEF RenameJPEG, Flight
  <2>. HIDE DEF g
  <2>5. DamageOK'
    BY <2>1 DEF PicturesInv, DamageOK, DataOK
  <2>3. DataOK' /\ Has(p)' /\ \A q \in Picture \ {p} : cache'[q] = cache[q]
    BY <1>7, <2>1, PicturesAssumption DEF RenameJPEG, PicturesInv, DataOK, Has
  <2>4. FlightsOK' /\ ViewersOK'
    BY <1>1, <2>1, <2>2, <2>3, FlightMoves
  <2>. QED
    BY <1>1, <2>1, <2>2, <2>3, <2>4, <2>5, SameHolders DEF PicturesInv
<1>8. CASE Size(p)
  <2>1. DataOK' /\ DamageOK' /\ UNCHANGED <<cache, damaged>> /\ Land(p, "serve") /\ f.at = "size" /\ slots' = slots - 1
    BY <1>8 DEF Size, PicturesInv, DataOK, DamageOK
  <2>2. Has(p)
    BY <1>1, <2>1 DEF FlightsOK
  <2>3. FlightsOK' /\ ViewersOK' /\ flight' = [flight EXCEPT ![p] = NoFlight]
    BY <1>1, <2>1, <2>2, FlightLands
  <2>. QED
    BY <1>1, <1>2, <2>1, <2>3, FewerHolders DEF PicturesInv, Converting
<1>9. CASE Failed(p)
  <2>1. DataOK' /\ DamageOK' /\ UNCHANGED <<cache, damaged>> /\ Converting(p)
    BY <1>9 DEF Failed, PicturesInv, DataOK, DamageOK
  <2>2. CASE f.tool < Tools
    <3>. DEFINE g == [f EXCEPT !.at = "convert", !.tool = f.tool + 1]
    <3>1. flight' = [flight EXCEPT ![p] = g] /\ UNCHANGED <<viewer, slots>>
      BY <1>9, <2>2 DEF Failed
    <3>2. g \in Flight /\ g.at = "convert"
      <4>1. f.tool + 1 \in 0 .. Tools
        BY <1>1, <2>2, PicturesAssumption DEF Flight
      <4>. QED
        BY <1>1, <4>1 DEF Flight
    <3>. HIDE DEF g
    <3>3. FlightsOK' /\ ViewersOK'
      BY <1>1, <2>1, <3>1, <3>2, FlightMoves DEF Has
    <3>. QED
      BY <1>1, <2>1, <3>1, <3>2, <3>3, SameHolders DEF PicturesInv, Converting
  <2>3. CASE ~ f.tool < Tools
    <3>1. Land(p, "fallback") /\ slots' = slots - 1
      BY <1>9, <2>3 DEF Failed
    <3>2. FlightsOK' /\ ViewersOK' /\ flight' = [flight EXCEPT ![p] = NoFlight]
      BY <1>1, <2>1, <3>1, FlightLands
    <3>. QED
      BY <1>1, <1>2, <2>1, <3>1, <3>2, FewerHolders DEF PicturesInv
  <2>. QED
    BY <2>2, <2>3
<1>. QED
  BY <1>3, <1>4, <1>5, <1>6, <1>7, <1>8, <1>9 DEF Flying

LEMMA ViewKeepsInv ==
  ASSUME PicturesInv, NEW v \in Viewer, NEW p \in Picture, View(v, p)
  PROVE  PicturesInv'
<1>1. left \in Nat /\ left > 0 /\ left' = left - 1 /\ row[p] \in Version
  BY DEF View, PicturesInv, DataOK
<1>2. DataOK' /\ DamageOK'
  BY <1>1 DEF View, PicturesInv, DataOK, DamageOK
<1>. DEFINE u == [NoRequest(p) EXCEPT !.at = "stat", !.version = row[p]]
<1>3. viewer' = [viewer EXCEPT ![v] = u]
  BY DEF View
<1>4. u \in Viewing /\ u.at = "stat" /\ u.answer = "none"
  <2>1. NoRequest(p) \in Viewing /\ NoRequest(p).answer = "none"
    BY PicturesAssumption DEF NoRequest, Viewing
  <2>2. row[p] \in 0 .. MaxVersion
    BY <1>1, PicturesAssumption
  <2>. QED
    BY <2>1, <2>2 DEF Viewing
<1>. HIDE DEF u
<1>5. ViewersOK'
  BY <1>3, <1>4, ViewerMoves DEF View, PicturesInv
<1>. QED
  BY <1>2, <1>5 DEF View, PicturesInv, SlotsOK, FlightsOK, Holders, Converting, Has, Made

LEMMA RestartKeepsInv ==
  ASSUME PicturesInv, RestartServer
  PROVE  PicturesInv'
<1>1. /\ cache' \in [Picture -> Version \cup {Missing, Empty, Broken}]
      /\ DamageOK'
  <2>1. PICK lost \in SUBSET unsynced : \E torn \in SUBSET lost :
          /\ cache' = [p \in Picture |-> IF p \in torn THEN Broken
                                        ELSE IF p \in lost THEN Empty ELSE cache[p]]
          /\ damaged' = damaged \cup torn
    BY DEF RestartServer
  <2>2. PICK torn \in SUBSET lost :
          /\ cache' = [p \in Picture |-> IF p \in torn THEN Broken
                                        ELSE IF p \in lost THEN Empty ELSE cache[p]]
          /\ damaged' = damaged \cup torn
    BY <2>1
  <2>3. torn \subseteq Picture /\ cache \in [Picture -> Version \cup {Missing, Empty, Broken}]
    BY DEF PicturesInv, DataOK
  <2>. QED
    BY <2>2, <2>3 DEF PicturesInv, DamageOK
<1>2. left' \in Nat
  BY DEF RestartServer, PicturesInv, DataOK
<1>3. DataOK'
  <2>1. UNCHANGED <<photo, row>> /\ unsynced' = {} /\ stopping' = FALSE
    BY DEF RestartServer
  <2>. QED
    BY <1>1, <1>2, <2>1, Zenon DEF PicturesInv, DataOK
<1>4. flight' = [p \in Picture |-> NoFlight] /\ slots' = 0
  BY DEF RestartServer
<1>5. NoFlight \in Flight /\ NoFlight.at = "none"
  BY PicturesAssumption DEF NoFlight, Flight
<1>6. FlightsOK'
  BY <1>4, <1>5 DEF FlightsOK
<1>7. SlotsOK'
  <2>1. Holders' = {}
    BY <1>4, <1>5 DEF Holders, Converting
  <2>. QED
    BY <1>4, <2>1, FS_EmptySet, PicturesAssumption DEF SlotsOK
<1>8. ViewersOK'
  <2>1. ASSUME NEW v \in Viewer
        PROVE  NoRequest(viewer[v].picture) \in Viewing
    BY PicturesAssumption DEF PicturesInv, ViewersOK, Viewing, NoRequest
  <2>2. viewer' = [v \in Viewer |-> NoRequest(viewer[v].picture)]
    BY DEF RestartServer
  <2>. QED
    BY <2>1, <2>2 DEF ViewersOK, NoRequest, Whole
<1>. QED
  BY <1>1, <1>3, <1>6, <1>7, <1>8 DEF PicturesInv

LEMMA NextKeepsInv ==
  ASSUME PicturesInv, [PicturesNext]_pictures
  PROVE  PicturesInv'
<1>1. CASE UNCHANGED <<cache, damaged, flight, slots, viewer>> /\ DataOK'
  BY <1>1
     DEF PicturesInv, DamageOK, SlotsOK, FlightsOK, ViewersOK, Holders, Converting, Has, Made, Whole
<1>2. CASE UNCHANGED pictures
  BY <1>1, <1>2 DEF PicturesInv, DataOK
<1>3. CASE StopBackground
  BY <1>1, <1>3 DEF StopBackground, PicturesInv, DataOK
<1>4. ASSUME NEW p \in Picture, Change(p) \/ Rescan(p)
      PROVE  PicturesInv'
  <2>1. DataOK'
    BY <1>4, PicturesAssumption DEF Change, Rescan, PicturesInv, DataOK
  <2>. QED
    BY <1>1, <1>4, <2>1 DEF Change, Rescan
<1>. QED
  BY <1>2, <1>3, <1>4, RestartKeepsInv, ViewKeepsInv, HandlingKeepsInv, FlyingKeepsInv
     DEF PicturesNext

LEMMA PicturesInvHolds == PicturesSpec => []PicturesInv
<1>1. (\E n \in Nat : PicturesInit(n)) => PicturesInv
  BY InitInv
<1>2. PicturesInv /\ [PicturesNext]_pictures => PicturesInv'
  BY NextKeepsInv
<1>. QED
  BY <1>1, <1>2, PTL DEF PicturesSpec

-----------------------------------------------------------------------------
(* The theorems                                                            *)

\* Types, and the books of the semaphore: however conversions fail, land, are given
\* up or are cut off, as many slots are taken as conversions are under way.
THEOREM PicturesTypeCorrect == PicturesSpec => []PicturesTypeOK
<1>1. PicturesInv => PicturesTypeOK
  BY DEF PicturesInv, DataOK, DamageOK, SlotsOK, FlightsOK, ViewersOK, Holders, PicturesTypeOK
<1>. QED
  BY <1>1, PicturesInvHolds, PTL

\* A request is never served an empty file as the full picture, nor one that a
\* conversion is still writing, whatever fails, restarts or is lost; it is served what
\* is no JPEG only of a photo of which a tool has made that, or which was not on the
\* disk when power was lost.
THEOREM ServedWholeHolds == PicturesSpec => []ServedWhole
<1>1. PicturesInv => ServedWhole
  BY DEF PicturesInv, ViewersOK, Whole, ServedWhole
<1>. QED
  BY <1>1, PicturesInvHolds, PTL

\* A conversion begins only for a picture that is not in the cache: between the
\* second look and the slot nobody else can have put it there.
THEOREM ConvertedOnceHolds == PicturesSpec => ConvertedOnce
<1>1. PicturesInv => \A p \in Picture : Acquire(p) => ~ Has(p)
  BY DEF PicturesInv, FlightsOK, Acquire
<1>2. PicturesInv /\ [PicturesNext]_pictures => [\A p \in Picture : Acquire(p) => ~ Has(p)]_pictures
  BY <1>1
<1>. QED
  BY <1>2, PicturesInvHolds, PTL DEF PicturesSpec, ConvertedOnce
=============================================================================
