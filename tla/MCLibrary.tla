------------------------------ MODULE MCLibrary ------------------------------
(***************************************************************************)
(* Instances of Library, LibraryPage and Settings: four photos of two      *)
(* cameras, the second of which has the key "Unknown", and two tabs.  A    *)
(* behavior is that of one part, and starts with one of its scenarios:     *)
(*   users     Library, over                                               *)
(*     bursts    one camera, one moment, all likenesses, lost embeddings   *)
(*     clocks    every short timeline, cameras and lost times, all alike   *)
(*     anchors   two cameras, every timeline and every set of anchors      *)
(*     party     one album; requests, restarts, changed files              *)
(*   page      the same with the library page being read                   *)
(*   settings  Settings alone                                              *)
(* PhotosBelow: picks_dir "my_photos" has the fourth photo below it; as a  *)
(* pattern it also matches the third, in my-photos.                        *)
(***************************************************************************)
EXTENDS LibraryPage

VARIABLE part

Cfg(bucket, threshold, cross, dir, hide) ==
  [bucket |-> bucket, threshold |-> threshold, cross |-> cross, dir |-> dir, hide |-> hide]

AllConfigs == {Cfg(b, t, x, d, h) : b \in 1 .. 2, t \in 1 .. 2, x \in BOOLEAN,
                                    d \in {"picks", "my_photos"}, h \in BOOLEAN}
Fresh == Cfg(1, 1, FALSE, "picks", FALSE)
BucketFromEnv == [bucket |-> 2]
DirFromEnv == [dir |-> "picks"]
NotFromEnv == <<>>
FormSet == {[bucket |-> 2, cross |-> TRUE], [dir |-> "my_photos", hide |-> TRUE]}
Tables == {<<>>, [dir |-> "my_photos", hide |-> TRUE]}
PhotosBelow == [picks |-> {}, my_photos |-> {4}]
PhotosMatched == [picks |-> {}, my_photos |-> {3, 4}]

Pairs == {p \in Photo \X Photo : p[1] < p[2]}
Album(device, taken, like) == [device |-> device, taken |-> taken, like |-> like]
Across == {<<1, 3>>, <<1, 4>>, <<2, 3>>, <<2, 4>>}
TwoEach == <<1, 1, 2, 2>>

Bursts == {Album(<<1, 1, 1, 1>>, <<0, 0, 0, 0>>, like) : like \in [Pairs -> {1, 2}]}

Clocks == {Album(device, taken, [p \in Pairs |-> 3]) :
             device \in {<<1, 1, 1, 1>>, <<1, 1, 2, 2>>, <<2, None, 1, 2>>},
             taken \in [Photo -> {None, 0, 1, 3}]}

Anchored == {Album(TwoEach, taken, [p \in Pairs |-> IF p \in anchors THEN 3 ELSE 1]) :
               taken \in {t \in [Photo -> 0 .. 3] : t[1] <= t[2]}, anchors \in SUBSET Across}

\* A burst on two cameras, the second one second ahead, and a stray photo.
Party == Album(TwoEach, <<0, 1, 2, None>>, [p \in Pairs |-> IF p = <<2, 3>> THEN 1 ELSE 3])

Scenario(albums, done, embeds, configs, legacies, n) ==
  [albums |-> albums, analyzed |-> done, embedded |-> embeds, rejected |-> {{1}},
   configs |-> configs, kv |-> legacies, moves |-> n]

\* bound: the moves of the users tell the parts apart.
PageMoves == 1
PartyMoves == 2
SettingsMoves == 4

InputScenarios ==
  {Scenario(Bursts, {Photo}, SUBSET Photo, {Fresh}, {<<>>}, 0),
   Scenario(Clocks, {Photo}, {{}, {1, 2}, {1, 3, 4}, Photo},
            {Fresh, [Fresh EXCEPT !.cross = TRUE]}, {<<>>}, 0),
   Scenario(Anchored, {Photo}, {Photo}, {[Fresh EXCEPT !.cross = TRUE]}, {<<>>}, 0)}
PartyOf(n) == {Scenario({Party}, {{2, 3, 4}}, {{1, 3}}, {Fresh}, {<<>>}, n)}
PageScenarios ==
  {Scenario({Party}, {{2, 3, 4}}, {{1, 3}}, {Fresh, [Fresh EXCEPT !.hide = TRUE]}, {<<>>},
            PageMoves)}
SettingsScenarios ==
  {Scenario({Party}, {{}}, {{}}, {NoFile, [Fresh EXCEPT !.hide = TRUE]}, Tables, SettingsMoves)}

ScenarioSet == InputScenarios \cup PartyOf(PartyMoves) \cup PageScenarios \cup SettingsScenarios
\* What two tabs need to leave the server with an older configuration.
PartyOfThree == PartyOf(3)

Start ==
  /\ PageInit
  /\ part = IF moves = SettingsMoves THEN "settings" ELSE IF moves = PageMoves THEN "page" ELSE "users"

LibraryOnly == <<album, tables, scan, task, renewed>>

Step ==
  /\ UNCHANGED part
  /\ \/ part = "users" /\ LibraryNext /\ UNCHANGED page
     \/ part = "page" /\ PageNext
     \/ part = "settings" /\ SettingsNext /\ UNCHANGED <<LibraryOnly, page>>

MCSpec == Start /\ [][Step]_<<pageVars, part>>
=============================================================================
