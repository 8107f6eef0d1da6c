------------------------------ MODULE Settings ------------------------------
(***************************************************************************)
(* The configuration: the machine-wide file and the calls that save it     *)
(* (internal/config), the copy the server answers from, the copy the scan  *)
(* was built with, the one-shot migration of the settings an earlier       *)
(* version kept in the folder's database, and POST /api/settings up to the *)
(* point where it regroups the library, which module Library adds.         *)
(*                                                                         *)
(* A configuration is a record; cfg.dir is picks_dir, cfg.bucket the width *)
(* that is used (600 for a value that is not positive), and cfg.hide       *)
(* stands for the two flags of the user interface.  A form sets some of    *)
(* the fields.  All savers write to the one temporary file, and who has a  *)
(* file open goes on with it whatever it is renamed to.  One process: the  *)
(* handlers of others, for other folders, are left out.                    *)
(***************************************************************************)
EXTENDS Naturals

CONSTANTS
  Client,      \* browser tabs
  Server,      \* the saver that the migration is
  Configs,     \* every configuration
  Defaults,    \* config.Defaults
  Forms,       \* what a settings page may post
  Overrides,   \* fields that the folder's config.toml or the environment set
  Legacies,    \* rows of kv from before the upgrade, one of these at first
  Failures,    \* which of "save" and "kv" may fail
  NoFile, NoBytes, Garbled  \* no file, an empty one, and one that is not TOML

Saver == Client \cup {Server}

\* The fields of f, and those of g that f leaves alone.
Overlay(f, g) == [x \in DOMAIN f \cup DOMAIN g |-> IF x \in DOMAIN f THEN f[x] ELSE g[x]]

Keys == {"dir", "hide"}
Clustering == {"bucket", "threshold", "cross"}

ASSUME SettingsAssumption ==
  /\ Server \notin Client
  /\ NoFile \notin Configs /\ NoBytes \notin Configs /\ Garbled \notin Configs
  /\ Garbled \notin {NoFile, NoBytes} /\ NoFile # NoBytes
  /\ Defaults \in Configs
  /\ \A cfg \in Configs, form \in Forms : Overlay(form, cfg) \in Configs
  /\ \A cfg \in Configs : Overlay(Overrides, cfg) \in Configs
  /\ \A rows \in Legacies : DOMAIN rows \subseteq Keys
  /\ \A rows \in Legacies, cfg \in Configs, S \in SUBSET Keys :
       S \subseteq DOMAIN rows => Overlay([k \in S |-> rows[k]], cfg) \in Configs
  /\ \A cfg \in Configs : Keys \cup Clustering \subseteq DOMAIN cfg /\ cfg.bucket \in Nat

VARIABLES
  file,      \* ~/.choix/config.toml
  tmp,       \* ~/.choix/config.toml.tmp
  kv,        \* legacy rows of the kv table
  live,      \* Server.liveCfg
  started,   \* the configuration buildPipelineCore was given
  proc,      \* "down", "load", "migrate", "read", "up": server.New, then serving
  post,      \* for each saver: where it is, and its cfg
  open,      \* for each saver: what the file it has open is called by now
  alone,     \* history: clients whose request has met no settings request of another
  spoiled,   \* history: what settings requests that met have had a hand in last
  moves      \* moves the users have left

settings == <<file, tmp, kv, live, started, proc, post, open, alone, spoiled>>

Idle == [at |-> "idle", cfg |-> Defaults, regroup |-> FALSE]
Handling ==
  [at : {"idle", "loaded", "opened", "written", "renamed", "reloaded", "regroup"},
   cfg : Configs, regroup : BOOLEAN]

\* config.Load.  A file without bytes sets no field; one that is no TOML is an error.
Loads == file # Garbled
Loaded == IF file \in Configs THEN file ELSE Defaults

\* loadEffectiveConfig
Effective(cfg) == Overlay(Overrides, cfg)

\* The settings requests under way that have yet to answer or to regroup.
Saving(c) == post[c].at \notin {"idle", "regroup"}

SettingsInit ==
  /\ file \in Configs \cup {NoFile} /\ tmp = NoFile /\ kv \in Legacies
  /\ live = Defaults /\ started = Defaults
  /\ proc = "down"
  /\ post = [s \in Saver |-> Idle] /\ open = [s \in Saver |-> "none"]
  /\ alone = {} /\ spoiled = {}

-----------------------------------------------------------------------------
(* Launch: buildServePipeline, then server.New with the migration          *)

\* A file that is no TOML keeps the server from starting.
Launch ==
  /\ proc = "down" /\ Loads
  /\ proc' = "load" /\ started' = Effective(Loaded)
  /\ UNCHANGED <<file, tmp, kv, live, post, open, alone, spoiled, moves>>

\* Rows whose field the file still has at its default.
Wanted == {k \in DOMAIN kv : Loaded[k] = Defaults[k] /\ kv[k] # Defaults[k]}

Migrating(at) ==
  post' = [post EXCEPT ![Server].at = at,
                       ![Server].cfg = Overlay([k \in Wanted |-> kv[k]], Loaded)]

\* Mutant of MigrateLoad: the rows are deleted before their values are saved.
MigrateDropsFirst ==
  /\ proc = "load" /\ proc' = "migrate"
  /\ Migrating("loaded") /\ kv' = <<>>
  /\ UNCHANGED <<file, tmp, live, started, open, alone, spoiled, moves>>

\* With nothing to overlay nothing is saved.
MigrateLoad ==
  /\ proc = "load" /\ proc' = "migrate"
  /\ Migrating(IF Wanted = {} THEN "renamed" ELSE "loaded")
  /\ UNCHANGED <<file, tmp, kv, live, started, open, alone, spoiled, moves>>

\* One row at a time, in the order of the list.
MigrateDelete ==
  /\ post[Server].at = "renamed" /\ DOMAIN kv # {}
  /\ LET gone == IF "dir" \in DOMAIN kv THEN "dir" ELSE "hide"
     IN  kv' = [k \in DOMAIN kv \ {gone} |-> kv[k]]
  /\ UNCHANGED <<file, tmp, live, started, proc, post, open, alone, spoiled, moves>>

\* The migration is over, or has failed: that is only logged.
MigrateEnds ==
  /\ \/ post[Server].at = "renamed" /\ (DOMAIN kv = {} \/ "kv" \in Failures)
     \/ proc = "load" /\ "kv" \in Failures
  /\ proc' = "read" /\ post' = [post EXCEPT ![Server] = Idle]
  /\ UNCHANGED <<file, tmp, kv, live, started, open, alone, spoiled, moves>>

LoadLive ==
  /\ proc = "read" /\ proc' = "up"
  /\ live' = Loaded /\ spoiled' = spoiled \ {"live"}
  /\ UNCHANGED <<file, tmp, kv, started, post, open, alone, moves>>

\* The process ends, by itself or not; its handlers end with it.
Exit ==
  /\ proc # "down" /\ proc' = "down"
  /\ moves > 0 /\ moves' = moves - 1
  /\ post' = [s \in Saver |-> Idle] /\ open' = [s \in Saver |-> "none"] /\ alone' = {}
  /\ UNCHANGED <<file, tmp, kv, live, started, spoiled>>

-----------------------------------------------------------------------------
(* config.Save                                                             *)

\* Mutant of OpenTmp: the file is written in place.
OpenInPlace(s) ==
  /\ post[s].at = "loaded"
  /\ file' = NoBytes
  /\ post' = [post EXCEPT ![s].at = "opened"]
  /\ open' = [open EXCEPT ![s] = "file"]
  /\ UNCHANGED <<tmp, kv, live, started, proc, alone, spoiled, moves>>

\* os.WriteFile opens the file with O_CREATE and O_TRUNC, ...
OpenTmp(s) ==
  /\ post[s].at = "loaded"
  /\ tmp' = NoBytes
  /\ post' = [post EXCEPT ![s].at = "opened"]
  /\ open' = [open EXCEPT ![s] = "tmp"]
  /\ UNCHANGED <<file, kv, live, started, proc, alone, spoiled, moves>>

\* What a write at offset 0 may leave of two texts of different length.
Written(old, cfg) == IF old \in {NoBytes, cfg} THEN {cfg} ELSE {cfg, Garbled}

\* ... writes it with one call, and closes it.
WriteTmp(s) ==
  /\ post[s].at = "opened"
  /\ IF open[s] = "tmp" THEN tmp' \in Written(tmp, post[s].cfg) ELSE tmp' = tmp
  /\ IF open[s] = "file" THEN file' \in Written(file, post[s].cfg) ELSE file' = file
  /\ post' = [post EXCEPT ![s].at = "written"]
  /\ open' = [open EXCEPT ![s] = "none"]
  /\ UNCHANGED <<kv, live, started, proc, alone, spoiled, moves>>

\* Files that are open stay so under the new name, or without one.
Moved(name) == IF name = "tmp" THEN "file" ELSE IF name = "file" THEN "gone" ELSE name

RenameConfig(s) ==
  /\ post[s].at = "written" /\ tmp # NoFile
  /\ file' = tmp /\ tmp' = NoFile
  /\ post' = [post EXCEPT ![s].at = "renamed"]
  /\ open' = [t \in Saver |-> Moved(open[t])]
  /\ spoiled' = IF s \in alone \cup {Server} THEN spoiled \ {"file"} ELSE spoiled
  /\ UNCHANGED <<kv, live, started, proc, alone, moves>>

\* The request answers.
Answered(c) ==
  /\ post' = [post EXCEPT ![c] = Idle]
  /\ alone' = alone \ {c}

\* A call fails, as the rename does when another saver has taken the file away;
\* what is there stays.
SaveFails(s) ==
  /\ \/ post[s].at \in {"loaded", "opened", "written"} /\ "save" \in Failures
     \/ post[s].at = "written" /\ tmp = NoFile
  /\ Answered(s)
  /\ proc' = IF s = Server THEN "read" ELSE proc
  /\ open' = [open EXCEPT ![s] = "none"]
  /\ UNCHANGED <<file, tmp, kv, live, started, spoiled, moves>>

-----------------------------------------------------------------------------
(* handleSettingsPost                                                      *)

Handles(c, at) == proc = "up" /\ post[c].at = at

\* config.Load, and the fields of the form over it.
Post(c, form) ==
  /\ Handles(c, "idle") /\ Loads /\ moves > 0 /\ moves' = moves - 1
  /\ LET cfg == Overlay(form, Loaded)
     IN  post' = [post EXCEPT ![c] =
           [at |-> "loaded", cfg |-> cfg,
            regroup |-> \E field \in Clustering : cfg[field] # Loaded[field]]]
  /\ LET met == \E o \in Client : Saving(o)
     IN  /\ alone' = IF met THEN {} ELSE {c}
         /\ spoiled' = IF met THEN {"file", "live"} ELSE spoiled
  /\ UNCHANGED <<file, tmp, kv, live, started, proc, open>>

\* Without a change of the clustering fields this is the answer.
Regroups(c) ==
  IF post[c].regroup THEN post' = [post EXCEPT ![c].at = "regroup"] /\ UNCHANGED alone
  ELSE Answered(c)

\* Mutant of ReloadLoad: ReloadConfig is not called.
ReloadSkipped(c) ==
  /\ Handles(c, "renamed")
  /\ Regroups(c)
  /\ UNCHANGED <<file, tmp, kv, live, started, proc, open, spoiled, moves>>

\* ReloadConfig loads the file ...
ReloadLoad(c) ==
  /\ Handles(c, "renamed") /\ Loads
  /\ post' = [post EXCEPT ![c].at = "reloaded", ![c].cfg = Loaded]
  /\ UNCHANGED <<file, tmp, kv, live, started, proc, open, alone, spoiled, moves>>

\* ... and then stores what it has loaded.
ReloadStore(c) ==
  /\ Handles(c, "reloaded")
  /\ live' = post[c].cfg
  /\ spoiled' = IF c \in alone THEN spoiled \ {"live"} ELSE spoiled
  /\ Regroups(c)
  /\ UNCHANGED <<file, tmp, kv, started, proc, open, moves>>

\* The error is only logged, and the handler goes on.
ReloadFails(c) ==
  /\ Handles(c, "renamed") /\ ~ Loads
  /\ Regroups(c)
  /\ UNCHANGED <<file, tmp, kv, live, started, proc, open, spoiled, moves>>

\* POST /api/recluster
Ask(c) ==
  /\ Handles(c, "idle") /\ moves > 0 /\ moves' = moves - 1
  /\ post' = [post EXCEPT ![c].at = "regroup"]
  /\ alone' = IF \E o \in Client : Saving(o) THEN alone ELSE alone \cup {c}
  /\ UNCHANGED <<file, tmp, kv, live, started, proc, open, spoiled>>

\* Whatever became of the rebuild, module Library.
Answer(c) ==
  /\ Handles(c, "regroup")
  /\ Answered(c)
  /\ UNCHANGED <<file, tmp, kv, live, started, proc, open, spoiled>>

SettingsStep ==
  \/ Launch \/ MigrateLoad \/ MigrateDelete \/ MigrateEnds \/ LoadLive
  \/ \E s \in Saver : OpenTmp(s) \/ WriteTmp(s) \/ RenameConfig(s) \/ SaveFails(s)
  \/ \E c \in Client : \/ \E form \in Forms : Post(c, form)
                       \/ ReloadLoad(c) \/ ReloadStore(c) \/ ReloadFails(c)

SettingsNext ==
  SettingsStep \/ Exit \/ \E c \in Client : Ask(c) \/ (Answer(c) /\ UNCHANGED moves)

SettingsSpec == SettingsInit /\ [][SettingsNext]_settings

-----------------------------------------------------------------------------
(* Properties                                                              *)

Contents == Configs \cup {NoFile, NoBytes, Garbled}

SettingsTypeOK ==
  /\ file \in Contents /\ tmp \in Contents
  /\ live \in Configs /\ started \in Configs
  /\ proc \in {"down", "load", "migrate", "read", "up"}
  /\ DOMAIN kv \subseteq Keys
  /\ post \in [Saver -> Handling] /\ open \in [Saver -> {"none", "tmp", "file", "gone"}]
  /\ alone \subseteq Client /\ spoiled \subseteq {"file", "live"}
  /\ \A s \in Saver : open[s] # "none" <=> post[s].at = "opened"

\* Whatever fails and whenever the process is killed, what is under the name of
\* the configuration is a complete file, unless two settings requests have met
\* and none has saved alone since (web.go:38, "Save writes cfg to the global
\* config file atomically (tmp + rename)").
WholeFile == "file" \notin spoiled => file \in Configs \cup {NoFile}

\* What the server answers from is what is in the file, once no request is between
\* its rename and the end of its reload: unless two settings requests have met, and
\* even then again as soon as one goes through alone, or the server starts again
\* (server.go:338, "reloads config from disk into the live atomic pointer").
LiveIsSaved ==
  proc = "up" /\ "live" \notin spoiled
    /\ (\A c \in Client : post[c].at \notin {"renamed", "reloaded"}) => live = Loaded

\* A legacy setting survives the upgrade, whenever the process is killed and
\* started again: its row goes only when the file says something for it that is
\* not the default, or when it said nothing new (settings_migration.go:26-27,
\* "After successful overlay (or if there was nothing to migrate), delete the KV
\* rows").
LegacyKept ==
  [][\A k \in DOMAIN kv \ DOMAIN kv' :
        Loaded[k] # Defaults[k] \/ kv[k] = Defaults[k]]_<<kv, file>>

\* What config.Save's comment says without the exception: the file is replaced
\* whole, whoever saves at the same time.
SavesAreAtomic == file \in Configs \cup {NoFile}
=============================================================================
