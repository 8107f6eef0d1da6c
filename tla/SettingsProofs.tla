--------------------------- MODULE SettingsProofs ---------------------------
(***************************************************************************)
(* Theorems about Settings for any configurations, forms, legacy rows,     *)
(* failures and number of clients.  What goes wrong when settings requests *)
(* meet is wrong until one goes through alone, and no longer.              *)
(***************************************************************************)
EXTENDS Settings, TLAPS

USE DEF settings

-----------------------------------------------------------------------------
(* The inductive invariant                                                 *)

\* What is left of the rows of the earlier version.
KvOK == \E rows \in Legacies :
          DOMAIN kv \subseteq DOMAIN rows /\ \A k \in DOMAIN kv : kv[k] = rows[k]

\* No handler runs before the server is up, and nothing is migrated after.
Quiet ==
  /\ \A c \in Client : post[c].at # "idle" => proc = "up"
  /\ post[Server].at # "idle" <=> proc = "migrate"
  /\ post[Server].at \notin {"reloaded", "regroup"}

\* A settings request that is not alone has met another one.
Apart ==
  /\ \A c \in alone : post[c].at # "idle" /\ \A o \in Client \ {c} : ~ Saving(o)
  /\ \A c \in Client : Saving(c) => c \in alone \/ spoiled = {"file", "live"}

\* Nobody else has a hand in what a lone saver opens, writes and renames.
OwnFile ==
  \A s \in alone \cup {Server} :
    /\ post[s].at = "opened" => open[s] = "tmp" /\ tmp = NoBytes
    /\ post[s].at = "written" => tmp = post[s].cfg
    /\ s # Server /\ post[s].at \in {"renamed", "reloaded"} => file = post[s].cfg

\* The live configuration is the one in the file, or a lone request is about to see to it.
Served ==
  proc = "up" /\ "live" \notin spoiled =>
    live = Loaded \/ \E c \in alone : post[c].at \in {"renamed", "reloaded"}

\* What is about to be saved is the file with the rows over it, and what is about to
\* be deleted is in the file or was not worth saving.
Kept(cfg) == \A k \in DOMAIN kv : cfg[k] # Defaults[k] \/ kv[k] = Defaults[k]

Migrates ==
  /\ post[Server].at \in {"loaded", "opened", "written"} => Kept(post[Server].cfg)
  /\ post[Server].at = "renamed" => Kept(Loaded)

TypeInv == SettingsTypeOK /\ KvOK /\ Quiet
FileInv == Apart /\ OwnFile /\ WholeFile
SettingsInv == TypeInv /\ FileInv /\ Served /\ Migrates

-----------------------------------------------------------------------------
(* Types                                                                   *)

LEMMA IdleType == Idle \in Handling /\ Idle.at = "idle"
BY SettingsAssumption DEF Idle, Handling

LEMMA LoadedType == Loaded \in Configs
BY SettingsAssumption DEF Loaded

LEMMA OverlaidType ==
  ASSUME TypeInv
  PROVE  Overlay([k \in Wanted |-> kv[k]], Loaded) \in Configs
<1>1. PICK old \in Legacies : DOMAIN kv \subseteq DOMAIN old /\ \A k \in DOMAIN kv : kv[k] = old[k]
  BY DEF TypeInv, KvOK
<1>2. Wanted \subseteq DOMAIN kv /\ Wanted \in SUBSET Keys /\ Wanted \subseteq DOMAIN old
  BY <1>1 DEF Wanted, TypeInv, SettingsTypeOK
<1>3. [k \in Wanted |-> kv[k]] = [k \in Wanted |-> old[k]]
  BY <1>1, <1>2
<1>4. Overlay([k \in Wanted |-> old[k]], Loaded) \in Configs
  BY <1>2, LoadedType, SettingsAssumption
<1>. QED
  BY <1>3, <1>4

\* One saver moves on.
LEMMA PostMoves ==
  ASSUME TypeInv, NEW s \in Saver, NEW h \in Handling, post' = [post EXCEPT ![s] = h]
  PROVE  /\ post' \in [Saver -> Handling] /\ post'[s] = h
         /\ \A t \in Saver : t # s => post'[t] = post[t]
BY DEF TypeInv, SettingsTypeOK

\* The steps of one saver.
OneMoves(s) ==
  \/ OpenTmp(s) \/ WriteTmp(s) \/ RenameConfig(s) \/ SaveFails(s)
  \/ s \in Client /\ \/ \E form \in Forms : Post(s, form)
                     \/ ReloadLoad(s) \/ ReloadStore(s) \/ ReloadFails(s) \/ Ask(s) \/ Answer(s)

LEMMA OneMovesType ==
  ASSUME TypeInv, NEW s \in Saver, OneMoves(s)
  PROVE  \E h \in Handling : post' = [post EXCEPT ![s] = h]
<1>1. post[s] \in Handling /\ post \in [Saver -> Handling]
  BY DEF TypeInv, SettingsTypeOK
<1>2. \A at \in {"idle", "loaded", "opened", "written", "renamed", "reloaded", "regroup"} :
        [post[s] EXCEPT !.at = at] \in Handling
  BY <1>1 DEF Handling
<1>3. CASE OpenTmp(s) \/ WriteTmp(s) \/ RenameConfig(s) \/ Ask(s)
  BY <1>1, <1>2, <1>3 DEF OpenTmp, WriteTmp, RenameConfig, Ask
<1>4. CASE SaveFails(s) \/ Answer(s)
  BY <1>4, IdleType DEF SaveFails, Answer, Answered
<1>5. ASSUME NEW form \in Forms, Post(s, form)
      PROVE  \E h \in Handling : post' = [post EXCEPT ![s] = h]
  <2>1. Overlay(form, Loaded) \in Configs
    BY LoadedType, SettingsAssumption
  <2>2. PICK regroup \in BOOLEAN :
          post' = [post EXCEPT ![s] = [at |-> "loaded", cfg |-> Overlay(form, Loaded),
                                       regroup |-> regroup]]
    BY <1>5 DEF Post
  <2>3. [at |-> "loaded", cfg |-> Overlay(form, Loaded), regroup |-> regroup] \in Handling
    BY <2>1 DEF Handling
  <2>. QED
    BY <2>2, <2>3
<1>6. CASE ReloadLoad(s)
  <2>1. post' = [post EXCEPT ![s] = [post[s] EXCEPT !.at = "reloaded", !.cfg = Loaded]]
    BY <1>1, <1>6 DEF ReloadLoad
  <2>2. [post[s] EXCEPT !.at = "reloaded", !.cfg = Loaded] \in Handling
    BY <1>1, LoadedType DEF Handling
  <2>. QED
    BY <2>1, <2>2
<1>7. CASE ReloadStore(s) \/ ReloadFails(s)
  <2>1. post' = [post EXCEPT ![s] = [post[s] EXCEPT !.at = "regroup"]] \/ post' = [post EXCEPT ![s] = Idle]
    BY <1>1, <1>7 DEF ReloadStore, ReloadFails, Regroups, Answered
  <2>. QED
    BY <1>2, <2>1, IdleType
<1>. QED
  BY <1>3, <1>4, <1>5, <1>6, <1>7 DEF OneMoves

\* A step of one saver leaves the others where they are.
LEMMA OneMovesAt ==
  ASSUME TypeInv, NEW s \in Saver, OneMoves(s)
  PROVE  post' \in [Saver -> Handling] /\ \A t \in Saver : t # s => post'[t] = post[t]
<1>1. PICK h \in Handling : post' = [post EXCEPT ![s] = h]
  BY OneMovesType
<1>. QED
  BY <1>1, PostMoves

LEMMA AllIdle ==
  ASSUME Exit
  PROVE  post' \in [Saver -> Handling] /\ \A t \in Saver : post'[t].at = "idle" /\ open'[t] = "none"
BY IdleType DEF Exit

LEMMA MigratingType ==
  ASSUME TypeInv, MigrateLoad
  PROVE  /\ post' \in [Saver -> Handling] /\ \A c \in Client : post'[c] = post[c]
         /\ post[Server].at = "idle"
         /\ post'[Server].at = IF Wanted = {} THEN "renamed" ELSE "loaded"
         /\ post'[Server].cfg = Overlay([k \in Wanted |-> kv[k]], Loaded)
<1>. DEFINE at == IF Wanted = {} THEN "renamed" ELSE "loaded"
            cfg == Overlay([k \in Wanted |-> kv[k]], Loaded)
            h == [post[Server] EXCEPT !.at = at, !.cfg = cfg]
<1>1. post[Server] \in Handling /\ post[Server].at = "idle" /\ post \in [Saver -> Handling]
      /\ Server \in Saver
  BY DEF TypeInv, SettingsTypeOK, Quiet, MigrateLoad, Saver
<1>2. cfg \in Configs /\ at \in {"renamed", "loaded"}
  BY OverlaidType
<1>3. post' = [post EXCEPT ![Server] = h]
  BY <1>1 DEF MigrateLoad, Migrating
<1>. HIDE DEF at, cfg
<1>4. h \in Handling /\ h.at = at /\ h.cfg = cfg
  BY <1>1, <1>2 DEF Handling
<1>. HIDE DEF h
<1>5. /\ post' \in [Saver -> Handling] /\ post'[Server] = h
      /\ \A t \in Saver : t # Server => post'[t] = post[t]
  BY <1>1, <1>3, <1>4, PostMoves
<1>6. \A c \in Client : c \in Saver /\ c # Server
  BY SettingsAssumption DEF Saver
<1>. QED
  BY <1>1, <1>4, <1>5, <1>6 DEF at, cfg

LEMMA EndsType ==
  ASSUME TypeInv, MigrateEnds
  PROVE  /\ post' \in [Saver -> Handling]
         /\ post'[Server] = Idle /\ \A c \in Client : post'[c] = post[c]
<1>1. post' = [post EXCEPT ![Server] = Idle] /\ Server \in Saver
  BY DEF MigrateEnds, Saver
<1>2. \A c \in Client : c \in Saver /\ c # Server
  BY SettingsAssumption DEF Saver
<1>. QED
  BY <1>1, <1>2, IdleType, PostMoves

LEMMA WrittenType ==
  ASSUME NEW old \in Contents, NEW cfg \in Configs
  PROVE  Written(old, cfg) \subseteq Contents
BY DEF Written, Contents

FilesOK ==
  /\ file \in Contents /\ tmp \in Contents /\ live \in Configs /\ started \in Configs
  /\ alone \subseteq Client /\ spoiled \subseteq {"file", "live"}

LEMMA FilesType ==
  ASSUME TypeInv, SettingsNext
  PROVE  FilesOK'
<1>1. FilesOK /\ \A s \in Saver : post[s].cfg \in Configs
  BY DEF TypeInv, SettingsTypeOK, Handling, FilesOK
<1>2. NoBytes \in Contents /\ NoFile \in Contents
  BY DEF Contents
<1>3. CASE Launch \/ LoadLive
  BY <1>1, <1>3, LoadedType, SettingsAssumption DEF Launch, LoadLive, Effective, FilesOK
<1>4. CASE MigrateLoad \/ MigrateDelete \/ MigrateEnds \/ Exit
  BY <1>1, <1>4 DEF MigrateLoad, MigrateDelete, MigrateEnds, Exit, FilesOK
<1>5. ASSUME NEW s \in Saver, OpenTmp(s) \/ RenameConfig(s) \/ SaveFails(s)
      PROVE  FilesOK'
  BY <1>1, <1>2, <1>5 DEF OpenTmp, RenameConfig, SaveFails, Answered, FilesOK
<1>6. ASSUME NEW s \in Saver, WriteTmp(s)
      PROVE  FilesOK'
  <2>1. Written(tmp, post[s].cfg) \subseteq Contents /\ Written(file, post[s].cfg) \subseteq Contents
    BY <1>1, WrittenType DEF FilesOK
  <2>2. file' \in Contents /\ tmp' \in Contents
    BY <1>1, <1>6, <2>1 DEF WriteTmp, FilesOK
  <2>. QED
    BY <1>1, <1>6, <2>2 DEF WriteTmp, FilesOK
<1>7. ASSUME NEW c \in Client, NEW form \in Forms, Post(c, form)
      PROVE  FilesOK'
  BY <1>1, <1>7 DEF Post, FilesOK
<1>8. ASSUME NEW c \in Client, ReloadLoad(c) \/ ReloadFails(c) \/ Ask(c) \/ Answer(c)
      PROVE  FilesOK'
  BY <1>1, <1>8 DEF ReloadLoad, ReloadFails, Regroups, Ask, Answer, Answered, FilesOK
<1>9. ASSUME NEW c \in Client, ReloadStore(c)
      PROVE  FilesOK'
  <2>1. live' \in Configs
    BY <1>1, <1>9 DEF ReloadStore, Saver
  <2>. QED
    BY <1>1, <1>9, <2>1 DEF ReloadStore, Regroups, Answered, FilesOK
<1>. QED
  BY <1>3, <1>4, <1>5, <1>6, <1>7, <1>8, <1>9 DEF SettingsNext, SettingsStep

OpenOK ==
  /\ open \in [Saver -> {"none", "tmp", "file", "gone"}]
  /\ \A s \in Saver : open[s] # "none" <=> post[s].at = "opened"

\* Which steps there are.
LEMMA StepKinds ==
  ASSUME SettingsNext
  PROVE  \/ Launch \/ MigrateLoad \/ MigrateDelete \/ MigrateEnds \/ LoadLive \/ Exit
         \/ \E s \in Saver : OneMoves(s)
BY DEF SettingsNext, SettingsStep, OneMoves, Saver

\* Where the saver that moves is, before the step and after it.
LEMMA Where ==
  ASSUME TypeInv, NEW s \in Saver
  PROVE  /\ OpenTmp(s) => /\ post[s].at = "loaded" /\ post'[s].at = "opened"
                          /\ open'[s] = "tmp" /\ post'[s].cfg = post[s].cfg
         /\ RenameConfig(s) => /\ post[s].at = "written" /\ post'[s].at = "renamed"
                               /\ post'[s].cfg = post[s].cfg
         /\ WriteTmp(s) => /\ post[s].at = "opened" /\ post'[s].at = "written"
                           /\ post'[s].cfg = post[s].cfg
         /\ SaveFails(s) => /\ post[s].at \in {"loaded", "opened", "written"}
                            /\ post'[s].at = "idle"
         /\ \A form : Post(s, form) => post[s].at = "idle" /\ post'[s].at = "loaded"
         /\ ReloadLoad(s) => /\ post[s].at = "renamed" /\ post'[s].at = "reloaded"
                             /\ post'[s].cfg = Loaded
         /\ ReloadStore(s) => /\ post[s].at = "reloaded" /\ post'[s].at \in {"idle", "regroup"}
                              /\ post'[s].at = "idle" => alone' = alone \ {s}
                              /\ post'[s].at = "regroup" => alone' = alone
         /\ ReloadFails(s) => /\ post[s].at = "renamed" /\ post'[s].at \in {"idle", "regroup"}
                              /\ post'[s].at = "idle" => alone' = alone \ {s}
                              /\ post'[s].at = "regroup" => alone' = alone
         /\ Ask(s) => post[s].at = "idle" /\ post'[s].at = "regroup"
         /\ Answer(s) => post[s].at = "regroup" /\ post'[s].at = "idle"
<1>1. post[s] \in Handling /\ post \in [Saver -> Handling]
  BY DEF TypeInv, SettingsTypeOK
<1>2. OpenTmp(s) => /\ post[s].at = "loaded" /\ post'[s].at = "opened"
                    /\ open'[s] = "tmp" /\ post'[s].cfg = post[s].cfg
  BY <1>1 DEF OpenTmp, Handling, TypeInv, SettingsTypeOK
<1>10. RenameConfig(s) => /\ post[s].at = "written" /\ post'[s].at = "renamed"
                          /\ post'[s].cfg = post[s].cfg
  BY <1>1 DEF RenameConfig, Handling
<1>3. WriteTmp(s) => /\ post[s].at = "opened" /\ post'[s].at = "written"
                     /\ post'[s].cfg = post[s].cfg
  BY <1>1 DEF WriteTmp, Handling
<1>4. SaveFails(s) => post[s].at \in {"loaded", "opened", "written"} /\ post'[s].at = "idle"
  BY <1>1, IdleType DEF SaveFails, Answered
<1>5. \A form : Post(s, form) => post[s].at = "idle" /\ post'[s].at = "loaded"
  BY <1>1 DEF Post, Handles
<1>6. ReloadLoad(s) => /\ post[s].at = "renamed" /\ post'[s].at = "reloaded"
                       /\ post'[s].cfg = Loaded
  BY <1>1 DEF ReloadLoad, Handles, Handling
<1>7. Regroups(s) => /\ post'[s].at \in {"idle", "regroup"}
                     /\ post'[s].at = "idle" => alone' = alone \ {s}
                     /\ post'[s].at = "regroup" => alone' = alone
  BY <1>1, IdleType DEF Regroups, Answered, Handling
<1>8. Ask(s) => post[s].at = "idle" /\ post'[s].at = "regroup"
  BY <1>1 DEF Ask, Handles, Handling
<1>9. Answer(s) => post[s].at = "regroup" /\ post'[s].at = "idle"
  BY <1>1, IdleType DEF Answer, Answered, Handles
<1>. QED
  BY <1>2, <1>3, <1>4, <1>5, <1>6, <1>7, <1>8, <1>9, <1>10 DEF ReloadStore, ReloadFails, Handles

\* A file is open between the first two steps of a save.
LEMMA StepOpen ==
  ASSUME TypeInv, SettingsNext
  PROVE  OpenOK'
<1>1. OpenOK /\ Server \in Saver
  BY DEF TypeInv, SettingsTypeOK, OpenOK, Saver
<1>2. CASE Launch \/ MigrateDelete \/ LoadLive
  BY <1>1, <1>2 DEF Launch, MigrateDelete, LoadLive, OpenOK
<1>3. CASE MigrateLoad
  <2>1. \A t \in Saver : post'[t].at = "opened" <=> post[t].at = "opened"
    BY <1>3, MigratingType DEF Saver
  <2>. QED
    BY <1>1, <1>3, <2>1 DEF MigrateLoad, OpenOK
<1>4. CASE MigrateEnds
  <2>1. post[Server].at # "opened"
    BY <1>4 DEF MigrateEnds, TypeInv, Quiet
  <2>2. \A t \in Saver : post'[t].at = "opened" <=> post[t].at = "opened"
    BY <1>4, <2>1, EndsType, IdleType DEF Saver
  <2>. QED
    BY <1>1, <1>4, <2>2 DEF MigrateEnds, OpenOK
<1>5. CASE Exit
  BY <1>5, AllIdle DEF Exit, OpenOK
<1>6. ASSUME NEW s \in Saver, OpenTmp(s) \/ WriteTmp(s) \/ SaveFails(s)
      PROVE  OpenOK'
  <2>1. \A t \in Saver : t # s => post'[t] = post[t]
    BY <1>6, OneMovesAt DEF OneMoves
  <2>2. \/ open' = [open EXCEPT ![s] = "tmp"] /\ post'[s].at = "opened"
        \/ open' = [open EXCEPT ![s] = "none"] /\ post'[s].at # "opened"
    <3>1. CASE OpenTmp(s)
      BY <3>1, Where DEF OpenTmp
    <3>2. CASE WriteTmp(s)
      <4>1. post'[s].at = "written"
        BY <3>2, Where
      <4>. QED
        BY <3>2, <4>1 DEF WriteTmp
    <3>3. CASE SaveFails(s)
      <4>1. post'[s].at = "idle"
        BY <3>3, Where
      <4>. QED
        BY <3>3, <4>1 DEF SaveFails
    <3>. QED
      BY <1>6, <3>1, <3>2, <3>3
  <2>3. ASSUME NEW name \in {"none", "tmp"}, open' = [open EXCEPT ![s] = name],
               name # "none" <=> post'[s].at = "opened"
        PROVE  OpenOK'
    BY <1>1, <2>1, <2>3 DEF OpenOK
  <2>. QED
    BY <2>2, <2>3
<1>7. ASSUME NEW s \in Saver, RenameConfig(s)
      PROVE  OpenOK'
  <2>1. \A t \in Saver : post'[t].at = "opened" <=> post[t].at = "opened"
    BY <1>7, OneMovesAt, Where DEF OneMoves
  <2>2. \A name \in {"none", "tmp", "file", "gone"} :
          Moved(name) \in {"none", "tmp", "file", "gone"} /\ (Moved(name) # "none" <=> name # "none")
    BY DEF Moved
  <2>. QED
    BY <1>1, <1>7, <2>1, <2>2 DEF RenameConfig, OpenOK
<1>8. ASSUME NEW c \in Client, \/ \E form \in Forms : Post(c, form)
                              \/ ReloadLoad(c) \/ ReloadStore(c) \/ ReloadFails(c) \/ Ask(c) \/ Answer(c)
      PROVE  OpenOK'
  <2>1. c \in Saver /\ OneMoves(c)
    BY <1>8 DEF OneMoves, Saver
  <2>2. \A t \in Saver : post'[t].at = "opened" <=> post[t].at = "opened"
    BY <1>8, <2>1, OneMovesAt, Where
  <2>3. open' = open
    BY <1>8 DEF Post, ReloadLoad, ReloadStore, ReloadFails, Ask, Answer
  <2>. QED
    BY <1>1, <2>2, <2>3 DEF OpenOK
<1>. QED
  BY <1>2, <1>3, <1>4, <1>5, <1>6, <1>7, <1>8 DEF SettingsNext, SettingsStep

LEMMA StepType ==
  ASSUME TypeInv, SettingsNext
  PROVE  TypeInv'
<1>1. post' \in [Saver -> Handling]
  <2>1. CASE Launch \/ MigrateDelete \/ LoadLive
    BY <2>1 DEF Launch, MigrateDelete, LoadLive, TypeInv, SettingsTypeOK
  <2>. QED
    BY <2>1, StepKinds, OneMovesAt, AllIdle, MigratingType, EndsType
<1>5. OpenOK'
  BY StepOpen
<1>2. KvOK' /\ DOMAIN kv' \subseteq Keys
  <2>1. kv' = kv \/ \E gone : kv' = [k \in DOMAIN kv \ {gone} |-> kv[k]]
    BY DEF SettingsNext, SettingsStep, Launch, MigrateLoad, MigrateDelete, MigrateEnds, LoadLive,
           OpenTmp, WriteTmp, RenameConfig, SaveFails, Post, ReloadLoad, ReloadStore, ReloadFails,
           Exit, Ask, Answer
  <2>2. DOMAIN kv' \subseteq DOMAIN kv /\ \A k \in DOMAIN kv' : kv'[k] = kv[k]
    BY <2>1
  <2>. QED
    BY <2>2 DEF TypeInv, SettingsTypeOK, KvOK
<1>3. proc' \in {"down", "load", "migrate", "read", "up"}
  BY DEF TypeInv, SettingsTypeOK, SettingsNext, SettingsStep, Launch, MigrateLoad, MigrateDelete,
         MigrateEnds, LoadLive, OpenTmp, WriteTmp, RenameConfig, SaveFails, Post, ReloadLoad,
         ReloadStore, ReloadFails, Exit, Ask, Answer
<1>4. Quiet'
  <2>. USE SettingsAssumption
  <2>1. Server \in Saver /\ Server \notin Client /\ Client \subseteq Saver
    BY DEF Saver
  <2>2. CASE Launch \/ MigrateDelete \/ LoadLive
    BY <2>2 DEF Launch, MigrateDelete, LoadLive, TypeInv, Quiet
  <2>3. CASE MigrateLoad
    BY <2>1, <2>3, MigratingType DEF MigrateLoad, TypeInv, Quiet
  <2>4. CASE MigrateEnds
    BY <2>1, <2>4, EndsType, IdleType DEF MigrateEnds, TypeInv, Quiet
  <2>5. CASE Exit
    BY <2>1, <2>5, AllIdle DEF Exit, TypeInv, Quiet
  <2>7. ASSUME NEW s \in Saver, OneMoves(s)
        PROVE  Quiet'
    <3>1. \A t \in Saver : t # s => post'[t] = post[t]
      BY <2>7, OneMovesAt
    <3>2. s \in Client => (post[s].at # "idle" \/ proc = "up") /\ proc' = proc
      BY <2>1, <2>7 DEF OneMoves, OpenTmp, WriteTmp, RenameConfig, SaveFails, Post, ReloadLoad,
                        ReloadStore, ReloadFails, Ask, Answer, Handles
    <3>3. s = Server => \/ /\ post[s].at # "idle" /\ proc' = proc
                           /\ post'[s].at \in {"opened", "written", "renamed"}
                        \/ post'[s].at = "idle" /\ proc' = "read"
      BY <2>1, <2>7, IdleType DEF OneMoves, OpenTmp, WriteTmp, RenameConfig, SaveFails, Answered,
                                  TypeInv, SettingsTypeOK, Handling
    <3>4. s = Server => proc = "migrate"
      BY <2>1, <2>7 DEF OneMoves, OpenTmp, WriteTmp, RenameConfig, SaveFails, TypeInv, Quiet
    <3>. QED
      BY <2>1, <3>1, <3>2, <3>3, <3>4 DEF TypeInv, Quiet, Saver
  <2>. QED
    BY <2>2, <2>3, <2>4, <2>5, <2>7, StepKinds
<1>. QED
  BY <1>1, <1>2, <1>3, <1>4, <1>5, FilesType DEF TypeInv, SettingsTypeOK, FilesOK, OpenOK

-----------------------------------------------------------------------------
(* Who has met whom, and what that does to the file                        *)

\* Only a settings request that begins can end that another one is alone.
LEMMA StepApart ==
  ASSUME TypeInv, FileInv, SettingsNext
  PROVE  Apart'
<1>1. Server \in Saver /\ Server \notin Client /\ Client \subseteq Saver /\ alone \subseteq Client
  BY SettingsAssumption DEF Saver, TypeInv, SettingsTypeOK
<1>2. CASE Launch \/ MigrateDelete
  BY <1>2 DEF Launch, MigrateDelete, FileInv, Apart, Saving
<1>3. CASE LoadLive
  <2>1. \A c \in Client : post[c].at = "idle"
    BY <1>3 DEF LoadLive, TypeInv, Quiet
  <2>. QED
    BY <1>3, <2>1 DEF LoadLive, FileInv, Apart, Saving
<1>4. CASE MigrateLoad \/ MigrateEnds
  <2>1. \A c \in Client : post'[c] = post[c]
    BY <1>4, MigratingType, EndsType
  <2>. QED
    BY <1>1, <1>4, <2>1 DEF MigrateLoad, MigrateEnds, FileInv, Apart, Saving
<1>5. CASE Exit
  BY <1>1, <1>5, AllIdle DEF Exit, Apart, Saving
<1>6. ASSUME NEW s \in Saver, RenameConfig(s)
      PROVE  Apart'
  <2>1. \A t \in Saver : Saving(t)' = Saving(t) /\ (post'[t].at = "idle" <=> post[t].at = "idle")
    <3>1. post[s].at = "written"
      BY <1>6 DEF RenameConfig
    <3>. QED
      BY <1>6, <3>1, Where, OneMovesAt DEF OneMoves, Saving
  <2>2. alone' = alone
    BY <1>6 DEF RenameConfig
  <2>3. ASSUME s \in alone \/ s = Server, NEW c \in Client, Saving(c)
        PROVE  c \in alone
    <3>1. CASE s \in alone
      BY <1>1, <1>6, <2>3, <3>1 DEF FileInv, Apart
    <3>2. CASE s = Server
      <4>1. proc = "migrate"
        BY <1>6, <3>2 DEF RenameConfig, TypeInv, Quiet
      <4>. QED
        BY <2>3, <4>1 DEF TypeInv, Quiet, Saving
    <3>. QED
      BY <2>3, <3>1, <3>2
  <2>4. s \notin alone /\ s # Server => spoiled' = spoiled
    BY <1>6 DEF RenameConfig
  <2>. QED
    BY <1>1, <2>1, <2>2, <2>3, <2>4 DEF FileInv, Apart
<1>7. ASSUME NEW c \in Client, NEW form \in Forms, Post(c, form)
      PROVE  Apart'
  <2>1. post[c].at = "idle" /\ post'[c].at = "loaded" /\ \A t \in Saver : t # c => post'[t] = post[t]
    BY <1>1, <1>7, Where, OneMovesAt DEF OneMoves
  <2>2. CASE \E o \in Client : Saving(o)
    <3>1. alone' = {} /\ spoiled' = {"file", "live"}
      BY <1>7, <2>2 DEF Post
    <3>. QED
      BY <3>1 DEF Apart
  <2>3. CASE ~ \E o \in Client : Saving(o)
    <3>1. alone' = {c}
      BY <1>7, <2>3 DEF Post
    <3>. QED
      BY <1>1, <2>1, <2>3, <3>1 DEF Apart, Saving
  <2>. QED
    BY <2>2, <2>3
<1>8. ASSUME NEW s \in Saver, OpenTmp(s) \/ WriteTmp(s)
      PROVE  Apart'
  <2>1. \A t \in Saver : Saving(t)' = Saving(t) /\ (post'[t].at = "idle" <=> post[t].at = "idle")
    BY <1>8, Where, OneMovesAt DEF OneMoves, Saving
  <2>2. alone' = alone /\ spoiled' = spoiled
    BY <1>8 DEF OpenTmp, WriteTmp
  <2>. QED
    BY <1>1, <2>1, <2>2 DEF FileInv, Apart
<1>9. ASSUME NEW s \in Saver, SaveFails(s) \/ ReloadFails(s) \/ Answer(s),
             SaveFails(s) \/ s \in Client
      PROVE  Apart'
  <2>1. /\ \A t \in Saver : t # s => post'[t] = post[t]
        /\ post'[s].at \in {"idle", "regroup"} /\ post[s].at # "idle"
        /\ post'[s].at = "idle" => alone' = alone \ {s}
        /\ post'[s].at = "regroup" => alone' = alone
        /\ spoiled' = spoiled
    BY <1>9, Where, OneMovesAt DEF OneMoves, SaveFails, ReloadFails, Answer, Answered
  <2>. QED
    BY <1>1, <2>1 DEF FileInv, Apart, Saving
<1>10. ASSUME NEW c \in Client, ReloadLoad(c)
       PROVE  Apart'
  <2>1. \A t \in Saver : Saving(t)' = Saving(t) /\ (post'[t].at = "idle" <=> post[t].at = "idle")
    BY <1>1, <1>10, Where, OneMovesAt DEF OneMoves, Saving
  <2>2. alone' = alone /\ spoiled' = spoiled
    BY <1>10 DEF ReloadLoad
  <2>. QED
    BY <1>1, <2>1, <2>2 DEF FileInv, Apart
<1>11. ASSUME NEW c \in Client, ReloadStore(c)
       PROVE  Apart'
  <2>1. /\ \A t \in Saver : t # c => post'[t] = post[t]
        /\ post'[c].at \in {"idle", "regroup"} /\ post[c].at = "reloaded"
        /\ post'[c].at = "idle" => alone' = alone \ {c}
        /\ post'[c].at = "regroup" => alone' = alone
    BY <1>1, <1>11, Where, OneMovesAt DEF OneMoves
  <2>2. c \notin alone => spoiled' = spoiled
    BY <1>11 DEF ReloadStore
  <2>3. c \in alone => \A o \in Client \ {c} : ~ Saving(o)
    BY DEF FileInv, Apart
  <2>. QED
    BY <1>1, <2>1, <2>2, <2>3 DEF FileInv, Apart, Saving
<1>12. ASSUME NEW c \in Client, Ask(c)
       PROVE  Apart'
  <2>1. post[c].at = "idle" /\ post'[c].at = "regroup" /\ \A t \in Saver : t # c => post'[t] = post[t]
    BY <1>1, <1>12, Where, OneMovesAt DEF OneMoves
  <2>2. spoiled' = spoiled /\ alone' = IF \E o \in Client : Saving(o) THEN alone ELSE alone \cup {c}
    BY <1>12 DEF Ask
  <2>. QED
    BY <1>1, <2>1, <2>2 DEF FileInv, Apart, Saving
<1>13. ASSUME NEW c \in Client, ReloadFails(c) \/ Answer(c)
       PROVE  Apart'
  BY <1>1, <1>9, <1>13
<1>14. ASSUME NEW s \in Saver, OpenTmp(s) \/ WriteTmp(s) \/ RenameConfig(s) \/ SaveFails(s)
       PROVE  Apart'
  BY <1>6, <1>8, <1>9, <1>14
<1>. QED
  BY <1>2, <1>3, <1>4, <1>5, <1>7, <1>10, <1>11, <1>12, <1>13, <1>14 DEF SettingsNext, SettingsStep

\* While a lone saver is at work nobody else is.
LEMMA Sole ==
  ASSUME TypeInv, Apart, NEW s \in alone \cup {Server}, post[s].at # "idle",
         NEW t \in Saver, t # s
  PROVE  post[t].at \in {"idle", "regroup"}
<1>1. Server \in Saver /\ Server \notin Client /\ alone \subseteq Client /\ Client \subseteq Saver
  BY SettingsAssumption DEF Saver, TypeInv, SettingsTypeOK
<1>2. CASE s = Server
  BY <1>1, <1>2 DEF TypeInv, Quiet, Saver
<1>3. CASE s # Server
  <2>1. s \in alone /\ proc = "up" /\ post[Server].at = "idle"
    BY <1>1, <1>3 DEF TypeInv, Quiet
  <2>. QED
    BY <1>1, <2>1 DEF Apart, Saving, Saver
<1>. QED
  BY <1>2, <1>3

\* A saver that is not alone has met another one.
LEMMA Crowd ==
  ASSUME TypeInv, Apart, NEW s \in Saver, s \notin alone \cup {Server},
         post[s].at \notin {"idle", "regroup"}
  PROVE  spoiled = {"file", "live"}
BY DEF Apart, Saving, Saver

OwnFileOf(s) ==
  /\ post[s].at = "opened" => open[s] = "tmp" /\ tmp = NoBytes
  /\ post[s].at = "written" => tmp = post[s].cfg
  /\ s # Server /\ post[s].at \in {"renamed", "reloaded"} => file = post[s].cfg

\* Whoever is alone was so before the step, or has just begun.
LEMMA AloneGrows ==
  ASSUME TypeInv, SettingsNext
  PROVE  \A s \in alone' : \/ s \in alone
                           \/ post[s].at = "idle" /\ post'[s].at \in {"loaded", "regroup"}
<1>1. Client \subseteq Saver
  BY DEF Saver
<1>2. ASSUME NEW c \in Client, \/ \E form \in Forms : Post(c, form)
                              \/ Ask(c)
      PROVE  /\ alone' \subseteq alone \cup {c}
             /\ post[c].at = "idle" /\ post'[c].at \in {"loaded", "regroup"}
  <2>1. post[c].at = "idle" /\ post'[c].at \in {"loaded", "regroup"}
    BY <1>1, <1>2, Where
  <2>2. alone' \subseteq alone \cup {c}
    BY <1>2 DEF Post, Ask
  <2>. QED
    BY <2>1, <2>2
<1>3. CASE ~ \E c \in Client : (\E form \in Forms : Post(c, form)) \/ Ask(c)
  <2>1. alone' \subseteq alone
    BY <1>3 DEF SettingsNext, SettingsStep, Launch, MigrateLoad, MigrateDelete, MigrateEnds,
         LoadLive, Exit, OpenTmp, WriteTmp, RenameConfig, SaveFails, ReloadLoad, ReloadStore,
         ReloadFails, Regroups, Answer, Answered
  <2>. QED
    BY <2>1
<1>. QED
  BY <1>2, <1>3

LEMMA StepOwnFile ==
  ASSUME TypeInv, FileInv, SettingsNext
  PROVE  OwnFile'
<1>. SUFFICES ASSUME NEW s \in alone' \cup {Server}
              PROVE  OwnFileOf(s)'
  BY DEF OwnFile, OwnFileOf
<1>1. Server \in Saver /\ Server \notin Client /\ alone \subseteq Client /\ Client \subseteq Saver
  BY SettingsAssumption DEF Saver, TypeInv, SettingsTypeOK
<1>2. CASE s \notin alone \cup {Server}
  BY <1>2, AloneGrows DEF OwnFileOf
<1>3. CASE s \in alone \cup {Server}
  <2>1. s \in Saver /\ OwnFileOf(s) /\ Apart
    BY <1>1, <1>3 DEF FileInv, OwnFile, OwnFileOf
  <2>2. CASE Launch \/ MigrateDelete \/ LoadLive
    BY <2>1, <2>2 DEF Launch, MigrateDelete, LoadLive, OwnFileOf
  <2>3. CASE MigrateLoad
    <3>1. s = Server => post'[s].at \in {"loaded", "renamed"}
      BY <2>3, MigratingType
    <3>2. s # Server => post'[s] = post[s]
      BY <1>1, <1>3, <2>3, MigratingType
    <3>. QED
      BY <2>1, <2>3, <3>1, <3>2 DEF MigrateLoad, OwnFileOf
  <2>4. CASE MigrateEnds
    <3>1. s = Server => post'[s].at = "idle"
      BY <2>4, EndsType, IdleType
    <3>2. s # Server => post'[s] = post[s]
      BY <1>1, <1>3, <2>4, EndsType
    <3>. QED
      BY <2>1, <2>4, <3>1, <3>2 DEF MigrateEnds, OwnFileOf
  <2>5. CASE Exit
    BY <2>1, <2>5, AllIdle DEF OwnFileOf
  <2>6. ASSUME NEW t \in Saver, OneMoves(t), t # s
        PROVE  OwnFileOf(s)'
    <3>1. post'[s] = post[s]
      BY <2>1, <2>6, OneMovesAt
    <3>2. CASE post[s].at = "idle"
      BY <3>1, <3>2 DEF OwnFileOf
    <3>3. CASE post[s].at # "idle"
      <4>1. post[t].at \in {"idle", "regroup"}
        BY <1>3, <2>1, <2>6, <3>3, Sole
      <4>2. (\E form \in Forms : Post(t, form)) \/ Ask(t) \/ Answer(t)
        BY <2>6, <4>1, Where DEF OneMoves
      <4>3. file' = file /\ tmp' = tmp /\ open' = open
        BY <4>2 DEF Post, Ask, Answer
      <4>. QED
        BY <2>1, <3>1, <4>3 DEF OwnFileOf
    <3>. QED
      BY <3>2, <3>3
  <2>7. ASSUME OneMoves(s)
        PROVE  OwnFileOf(s)'
    <3>1. CASE OpenTmp(s)
      <4>1. tmp' = NoBytes
        BY <3>1 DEF OpenTmp
      <4>. QED
        BY <2>1, <3>1, <4>1, Where DEF OwnFileOf
    <3>2. CASE WriteTmp(s)
      <4>1. post[s].at = "opened" /\ post'[s].at = "written" /\ post'[s].cfg = post[s].cfg
        BY <2>1, <3>2, Where
      <4>2. tmp' \in Written(NoBytes, post[s].cfg)
        BY <2>1, <3>2, <4>1 DEF WriteTmp, OwnFileOf
      <4>. QED
        BY <4>1, <4>2 DEF Written, OwnFileOf
    <3>3. CASE RenameConfig(s)
      <4>1. /\ post[s].at = "written" /\ post'[s].at = "renamed" /\ post'[s].cfg = post[s].cfg
            /\ file' = tmp
        BY <2>1, <3>3, Where DEF RenameConfig
      <4>. QED
        BY <2>1, <4>1 DEF OwnFileOf
    <3>4. CASE ReloadLoad(s)
      <4>1. /\ post[s].at = "renamed" /\ post'[s].at = "reloaded" /\ post'[s].cfg = Loaded
            /\ file' = file
        BY <2>1, <3>4, Where DEF ReloadLoad
      <4>2. s \in Client
        BY <1>1, <2>1, <3>4, <4>1 DEF ReloadLoad, Handles, TypeInv, Quiet, Saver
      <4>3. file = post[s].cfg /\ post[s].cfg \in Configs
        BY <1>1, <2>1, <4>1, <4>2 DEF OwnFileOf, TypeInv, SettingsTypeOK, Handling
      <4>. QED
        BY <4>1, <4>3 DEF OwnFileOf, Loaded
    <3>5. CASE SaveFails(s) \/ (\E form \in Forms : Post(s, form)) \/ ReloadStore(s) \/ ReloadFails(s)
               \/ Ask(s) \/ Answer(s)
      <4>1. post'[s].at \in {"idle", "loaded", "regroup"}
        BY <2>1, <3>5, Where
      <4>. QED
        BY <4>1 DEF OwnFileOf
    <3>. QED
      BY <2>7, <3>1, <3>2, <3>3, <3>4, <3>5 DEF OneMoves
  <2>. QED
    BY <2>2, <2>3, <2>4, <2>5, <2>6, <2>7, StepKinds
<1>. QED
  BY <1>2, <1>3

LEMMA StepWhole ==
  ASSUME TypeInv, FileInv, SettingsNext
  PROVE  WholeFile'
<1>1. WholeFile /\ Apart /\ \A s \in Saver : post[s].cfg \in Configs
  BY DEF FileInv, TypeInv, SettingsTypeOK, Handling
<1>2. ASSUME NEW s \in Saver, RenameConfig(s)
      PROVE  WholeFile'
  <2>1. post[s].at = "written" /\ file' = tmp
    BY <1>2 DEF RenameConfig
  <2>2. CASE s \in alone \cup {Server}
    <3>1. tmp = post[s].cfg
      BY <2>1, <2>2 DEF FileInv, OwnFile
    <3>. QED
      BY <1>1, <2>1, <3>1 DEF WholeFile
  <2>3. CASE s \notin alone \cup {Server}
    BY <1>1, <1>2, <2>1, <2>3, Crowd DEF RenameConfig, WholeFile
  <2>. QED
    BY <2>2, <2>3
<1>3. ASSUME NEW s \in Saver, WriteTmp(s)
      PROVE  WholeFile'
  <2>1. post[s].at = "opened" /\ spoiled' = spoiled
    BY <1>3 DEF WriteTmp
  <2>2. CASE s \in alone \cup {Server}
    <3>1. open[s] = "tmp"
      BY <2>1, <2>2 DEF FileInv, OwnFile
    <3>2. file' = file
      BY <1>3, <3>1 DEF WriteTmp
    <3>. QED
      BY <1>1, <2>1, <3>2 DEF WholeFile
  <2>3. CASE s \notin alone \cup {Server}
    BY <1>1, <2>1, <2>3, Crowd DEF WholeFile
  <2>. QED
    BY <2>2, <2>3
<1>4. CASE ~ \E s \in Saver : RenameConfig(s) \/ WriteTmp(s)
  <2>1. file' = file
    BY <1>4 DEF SettingsNext, SettingsStep, Launch, MigrateLoad, MigrateDelete, MigrateEnds,
         LoadLive, Exit, OpenTmp, SaveFails, Post, ReloadLoad, ReloadStore, ReloadFails, Ask, Answer
  <2>2. "file" \in spoiled => "file" \in spoiled'
    BY <1>4 DEF SettingsNext, SettingsStep, Launch, MigrateLoad, MigrateDelete, MigrateEnds,
         LoadLive, Exit, OpenTmp, SaveFails, Post, ReloadLoad, ReloadStore, ReloadFails, Ask, Answer
  <2>. QED
    BY <1>1, <2>1, <2>2 DEF WholeFile
<1>. QED
  BY <1>2, <1>3, <1>4

-----------------------------------------------------------------------------
(* What the server answers from, and the migration                         *)

LEMMA StepServed ==
  ASSUME TypeInv, FileInv, Served, SettingsNext
  PROVE  Served'
<1>1. Server \in Saver /\ Server \notin Client /\ alone \subseteq Client /\ Client \subseteq Saver
  BY SettingsAssumption DEF Saver, TypeInv, SettingsTypeOK
<1>2. Apart /\ OwnFile
  BY DEF FileInv
<1>3. CASE Launch \/ MigrateLoad \/ MigrateEnds \/ Exit
  BY <1>3 DEF Launch, MigrateLoad, MigrateEnds, Exit, Served
<1>4. CASE LoadLive
  BY <1>4 DEF LoadLive, Served, Loaded
<1>5. CASE MigrateDelete
  BY <1>5 DEF MigrateDelete, Served, Loaded
<1>6. ASSUME NEW s \in Saver, RenameConfig(s)
      PROVE  Served'
  <2>1. post[s].at = "written" /\ post'[s].at = "renamed" /\ proc' = proc /\ alone' = alone
    BY <1>6, Where DEF RenameConfig
  <2>2. CASE s \in alone
    BY <2>1, <2>2 DEF Served
  <2>3. CASE s = Server
    BY <2>1, <2>3 DEF Served, TypeInv, Quiet
  <2>4. CASE s \notin alone \cup {Server}
    BY <1>2, <1>6, <2>1, <2>4, Crowd DEF RenameConfig, Served
  <2>. QED
    BY <2>2, <2>3, <2>4
<1>7. ASSUME NEW s \in Saver, WriteTmp(s)
      PROVE  Served'
  <2>1. /\ post[s].at = "opened" /\ post'[s].at = "written" /\ proc' = proc /\ alone' = alone
        /\ spoiled' = spoiled /\ live' = live /\ \A t \in Saver : t # s => post'[t] = post[t]
    BY <1>7, Where, OneMovesAt DEF WriteTmp, OneMoves
  <2>2. CASE s \in alone \cup {Server}
    <3>1. open[s] = "tmp"
      BY <1>2, <2>1, <2>2 DEF OwnFile
    <3>2. file' = file
      BY <1>7, <3>1 DEF WriteTmp
    <3>. QED
      BY <1>1, <2>1, <3>2 DEF Served, Loaded
  <2>3. CASE s \notin alone \cup {Server}
    BY <1>2, <2>1, <2>3, Crowd DEF Served
  <2>. QED
    BY <2>2, <2>3
<1>8. ASSUME NEW s \in Saver, OpenTmp(s) \/ SaveFails(s)
      PROVE  Served'
  <2>1. /\ post[s].at \in {"loaded", "opened", "written"}
        /\ \A t \in Saver : t # s => post'[t] = post[t]
    BY <1>8, Where, OneMovesAt DEF OneMoves
  <2>2. /\ file' = file /\ live' = live /\ spoiled' = spoiled /\ alone \ {s} \subseteq alone'
        /\ proc' \in {proc, "read"}
    BY <1>8 DEF OpenTmp, SaveFails, Answered
  <2>. QED
    BY <1>1, <2>1, <2>2 DEF Served, Loaded
<1>9. ASSUME NEW c \in Client, NEW form \in Forms, Post(c, form)
      PROVE  Served'
  <2>1. CASE \E o \in Client : Saving(o)
    BY <1>9, <2>1 DEF Post, Served
  <2>2. CASE ~ \E o \in Client : Saving(o)
    <3>1. \A a \in alone : post[a].at \notin {"renamed", "reloaded"}
      BY <1>1, <2>2 DEF Saving
    <3>2. file' = file /\ live' = live /\ spoiled' = spoiled /\ proc' = proc
      BY <1>9, <2>2 DEF Post
    <3>. QED
      BY <3>1, <3>2 DEF Served, Loaded
  <2>. QED
    BY <2>1, <2>2
<1>10. ASSUME NEW c \in Client, ReloadLoad(c)
       PROVE  Served'
  <2>1. /\ post'[c].at = "reloaded" /\ \A t \in Saver : t # c => post'[t] = post[t]
        /\ file' = file /\ live' = live /\ spoiled' = spoiled /\ proc' = proc /\ alone' = alone
    BY <1>1, <1>10, Where, OneMovesAt DEF OneMoves, ReloadLoad
  <2>. QED
    BY <1>1, <2>1 DEF Served, Loaded
<1>11. ASSUME NEW c \in Client, ReloadStore(c) \/ ReloadFails(c)
       PROVE  Served'
  <2>1. post[c].at \in {"renamed", "reloaded"} /\ file' = file /\ post[c].cfg \in Configs
    BY <1>1, <1>11, Where DEF ReloadStore, ReloadFails, TypeInv, SettingsTypeOK, Handling
  <2>2. CASE c \in alone
    <3>1. file = post[c].cfg
      BY <1>1, <1>2, <2>1, <2>2 DEF OwnFile
    <3>2. Loaded = post[c].cfg /\ Loaded' = post[c].cfg /\ Loads
      BY <2>1, <3>1, SettingsAssumption DEF Loaded, Loads
    <3>3. live' = post[c].cfg
      BY <1>11, <3>2 DEF ReloadStore, ReloadFails
    <3>. QED
      BY <3>2, <3>3 DEF Served
  <2>3. CASE c \notin alone
    <3>1. spoiled = {"file", "live"}
      BY <1>1, <1>2, <2>1, <2>3, Crowd
    <3>. QED
      BY <1>11, <2>3, <3>1 DEF ReloadStore, ReloadFails, Served
  <2>. QED
    BY <2>2, <2>3
<1>12. ASSUME NEW c \in Client, Ask(c) \/ Answer(c)
       PROVE  Served'
  <2>1. /\ post[c].at \in {"idle", "regroup"} /\ \A t \in Saver : t # c => post'[t] = post[t]
        /\ file' = file /\ live' = live /\ spoiled' = spoiled /\ proc' = proc
        /\ alone \ {c} \subseteq alone'
    <3>1. alone \ {c} \subseteq alone'
      BY <1>12 DEF Ask, Answer, Answered
    <3>. QED
      BY <1>1, <1>12, <3>1, Where, OneMovesAt DEF OneMoves, Ask, Answer
  <2>. QED
    BY <1>1, <2>1 DEF Served, Loaded
<1>. QED
  BY <1>3, <1>4, <1>5, <1>6, <1>7, <1>8, <1>9, <1>10, <1>11, <1>12 DEF SettingsNext, SettingsStep

\* What MigrateLoad is about to save or to delete.
LEMMA OverlaidKeeps ==
  ASSUME TypeInv
  PROVE  /\ Kept(Overlay([k \in Wanted |-> kv[k]], Loaded))
         /\ Wanted = {} => Kept(Loaded)
<1>1. \A k \in DOMAIN kv : k \in DOMAIN Loaded
  BY LoadedType, SettingsAssumption DEF TypeInv, SettingsTypeOK
<1>. QED
  BY <1>1 DEF Overlay, Wanted, Kept

LEMMA StepMigrates ==
  ASSUME TypeInv, FileInv, Migrates, SettingsNext
  PROVE  Migrates'
<1>1. Server \in Saver /\ Server \notin Client /\ Client \subseteq Saver
  BY SettingsAssumption DEF Saver
<1>2. CASE Launch \/ LoadLive
  BY <1>2 DEF Launch, LoadLive, TypeInv, Quiet, Migrates
<1>3. CASE MigrateLoad
  <2>1. kv' = kv /\ Loaded' = Loaded
    BY <1>3 DEF MigrateLoad, Loaded
  <2>. QED
    BY <1>3, <2>1, MigratingType, OverlaidKeeps DEF Migrates, Kept
<1>4. CASE MigrateDelete
  <2>1. \E gone : kv' = [k \in DOMAIN kv \ {gone} |-> kv[k]]
    BY <1>4 DEF MigrateDelete
  <2>2. DOMAIN kv' \subseteq DOMAIN kv /\ \A k \in DOMAIN kv' : kv'[k] = kv[k]
    BY <2>1
  <2>3. post' = post /\ Loaded' = Loaded
    BY <1>4 DEF MigrateDelete, Loaded
  <2>. QED
    BY <2>2, <2>3 DEF Migrates, Kept
<1>5. CASE MigrateEnds \/ Exit
  BY <1>1, <1>5, EndsType, AllIdle, IdleType DEF Migrates
<1>6. ASSUME NEW c \in Client, OneMoves(c)
      PROVE  Migrates'
  <2>1. proc = "up"
    BY <1>1, <1>6 DEF OneMoves, OpenTmp, WriteTmp, RenameConfig, SaveFails, Post, ReloadLoad,
       ReloadStore, ReloadFails, Ask, Answer, Handles, TypeInv, Quiet
  <2>2. post'[Server] = post[Server] /\ post[Server].at = "idle"
    BY <1>1, <1>6, <2>1, OneMovesAt DEF TypeInv, Quiet
  <2>. QED
    BY <2>2 DEF Migrates
<1>7. CASE OpenTmp(Server) \/ WriteTmp(Server)
  <2>1. /\ post[Server].at \in {"loaded", "opened"} /\ post'[Server].at \in {"opened", "written"}
        /\ post'[Server].cfg = post[Server].cfg /\ kv' = kv
    BY <1>1, <1>7, Where DEF OpenTmp, WriteTmp
  <2>. QED
    BY <2>1 DEF Migrates, Kept
<1>8. CASE RenameConfig(Server)
  <2>1. /\ post[Server].at = "written" /\ post'[Server].at = "renamed" /\ kv' = kv /\ file' = tmp
        /\ tmp = post[Server].cfg /\ post[Server].cfg \in Configs
    BY <1>1, <1>8, Where DEF RenameConfig, FileInv, OwnFile, TypeInv, SettingsTypeOK, Handling
  <2>. QED
    BY <2>1 DEF Migrates, Kept, Loaded
<1>9. CASE SaveFails(Server)
  BY <1>1, <1>9, Where DEF Migrates
<1>. QED
  BY <1>2, <1>3, <1>4, <1>5, <1>6, <1>7, <1>8, <1>9, StepKinds DEF OneMoves, Saver

-----------------------------------------------------------------------------
(* The theorems                                                            *)

LEMMA InitSettings == SettingsInit => SettingsInv
<1>. SUFFICES ASSUME SettingsInit
              PROVE  SettingsInv
  OBVIOUS
<1>1. /\ post \in [Saver -> Handling] /\ \A s \in Saver : post[s].at = "idle"
      /\ open \in [Saver -> {"none", "tmp", "file", "gone"}] /\ \A s \in Saver : open[s] = "none"
      /\ Server \in Saver /\ Client \subseteq Saver
  BY IdleType DEF SettingsInit, Saver
<1>2. TypeInv
  <2>1. KvOK /\ DOMAIN kv \subseteq Keys
    BY SettingsAssumption DEF SettingsInit, KvOK
  <2>. QED
    BY <1>1, <2>1, SettingsAssumption DEF SettingsInit, TypeInv, SettingsTypeOK, Contents, Quiet
<1>3. FileInv /\ Served /\ Migrates
  BY <1>1 DEF SettingsInit, FileInv, Apart, OwnFile, WholeFile, Served, Migrates, Saving
<1>. QED
  BY <1>2, <1>3 DEF SettingsInv

LEMMA StepSettings == SettingsInv /\ [SettingsNext]_settings => SettingsInv'
<1>1. ASSUME SettingsInv, SettingsNext
      PROVE  SettingsInv'
  BY <1>1, StepType, StepApart, StepOwnFile, StepWhole, StepServed, StepMigrates
     DEF SettingsInv, FileInv
<1>2. ASSUME SettingsInv, UNCHANGED settings
      PROVE  SettingsInv'
  BY <1>2 DEF SettingsInv, TypeInv, SettingsTypeOK, KvOK, Quiet, FileInv, Apart, Saving, OwnFile,
     WholeFile, Served, Loaded, Migrates, Kept
<1>. QED
  BY <1>1, <1>2

LEMMA SettingsInvHolds == SettingsSpec => []SettingsInv
BY InitSettings, StepSettings, PTL DEF SettingsSpec

\* The types, and that a saver has a file open exactly from opening to writing it.
THEOREM SettingsTypeCorrect == SettingsSpec => []SettingsTypeOK
<1>1. SettingsInv => SettingsTypeOK
  BY DEF SettingsInv, TypeInv
<1>. QED
  BY <1>1, SettingsInvHolds, PTL

\* The file of the configuration is whole, whoever saves, except from when two
\* settings requests meet to the next save of one that is alone.
THEOREM WholeFileHolds == SettingsSpec => []WholeFile
<1>1. SettingsInv => WholeFile
  BY DEF SettingsInv, FileInv
<1>. QED
  BY <1>1, SettingsInvHolds, PTL

\* What the server answers from is what is in the file, except from when two settings
\* requests meet to the next reload of one that is alone, or the next start.
THEOREM LiveIsSavedHolds == SettingsSpec => []LiveIsSaved
<1>1. SettingsInv => LiveIsSaved
  BY DEF SettingsInv, TypeInv, SettingsTypeOK, Served, LiveIsSaved
<1>. QED
  BY <1>1, SettingsInvHolds, PTL

\* No legacy setting is deleted before it is in the file, however often the migration
\* is interrupted.
THEOREM LegacyKeptHolds == SettingsSpec => LegacyKept
<1>. DEFINE Safe == \A k \in DOMAIN kv \ DOMAIN kv' : Loaded[k] # Defaults[k] \/ kv[k] = Defaults[k]
<1>1. ASSUME SettingsInv, SettingsNext
      PROVE  Safe
  <2>1. CASE MigrateDelete
    BY <1>1, <2>1 DEF MigrateDelete, SettingsInv, Migrates, Kept
  <2>2. CASE ~ MigrateDelete
    <3>1. kv' = kv
      BY <1>1, <2>2 DEF SettingsNext, SettingsStep, Launch, MigrateLoad, MigrateEnds, LoadLive, Exit,
         OpenTmp, WriteTmp, RenameConfig, SaveFails, Post, ReloadLoad, ReloadStore, ReloadFails,
         Ask, Answer
    <3>. QED
      BY <3>1
  <2>. QED
    BY <2>1, <2>2
<1>2. SettingsInv /\ [SettingsNext]_settings => [Safe]_<<kv, file>>
  BY <1>1
<1>. QED
  BY <1>2, SettingsInvHolds, PTL DEF SettingsSpec, LegacyKept
=============================================================================
