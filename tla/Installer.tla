----------------------------- MODULE Installer ------------------------------
(***************************************************************************)
(* The download of a CLIP model by the first-run wizard: Installer.Install *)
(* and ModelStore.Has (internal/ai/local), behind POST                     *)
(* /api/setup/install-model (internal/firstrun), which nothing keeps from  *)
(* running twice at a time.                                                *)
(*                                                                         *)
(* A file is an inode, for a download goes on writing to the one it opened *)
(* whatever is renamed meanwhile.  Its content is one value for each chunk *)
(* of the model: "good", "bad", or "hole" where nothing was written.       *)
(***************************************************************************)
EXTENDS Naturals, FiniteSets

CONSTANTS
  Tab,        \* clients of the wizard
  Chunks,     \* length of the model
  Inode,      \* bound: files that are created
  NoInode

ASSUME InstallerAssumption == Chunks \in Nat \ {0} /\ NoInode \notin Inode

VARIABLES
  dest,      \* the inode under the name of the model
  tmp,       \* the inode under that name with ".tmp"
  content,   \* what the bytes of an inode are
  length,    \* its length in chunks
  synced,    \* inodes that are on the disk
  install,   \* for each tab: where its request is, its open file, how far it has
             \* written, and whether what it received is what the hash is of
  chances,   \* bound: requests and restarts that may still come
  overlap    \* two installs have been under way at a time

installer == <<dest, tmp, content, length, synced, install, chances, overlap>>

Holes == [i \in 1 .. Chunks |-> "hole"]
NoInstall == [at |-> "idle", file |-> NoInode, written |-> 0, pure |-> TRUE]
Busy(t) == install[t].at \notin {"idle", "ok", "failed"}

InstallerInit(n) ==
  /\ dest = NoInode /\ tmp = NoInode
  /\ content = [i \in Inode |-> Holes] /\ length = [i \in Inode |-> 0]
  /\ synced = {}
  /\ install = [t \in Tab |-> NoInstall]
  /\ chances = n /\ overlap = FALSE

\* Inodes that no name and no open file holds.
Free == {i \in Inode \ {dest, tmp} : \A t \in Tab : install[t].file # i}

\* ModelStore.Has: the file is there and not empty.
Installed == dest # NoInode /\ length[dest] > 0

Whole(i) == length[i] = Chunks /\ \A c \in 1 .. Chunks : content[i][c] = "good"

-----------------------------------------------------------------------------
(* Install                                                                 *)

Proceeds(t, where) == install' = [install EXCEPT ![t].at = where]
Files == <<dest, tmp, content, length, synced>>

Begin(t) ==
  /\ ~ Busy(t) /\ chances > 0 /\ chances' = chances - 1
  /\ install' = [install EXCEPT ![t] = [NoInstall EXCEPT !.at = IF Installed THEN "ok" ELSE "get"]]
  /\ overlap' = (overlap \/ \E o \in Tab \ {t} : Busy(o))
  /\ UNCHANGED Files

\* O_CREATE and O_TRUNC: the file under the name, if there is one, loses its bytes.
Open(t) ==
  /\ install[t].at = "get"
  /\ tmp # NoInode \/ Free # {}
  /\ tmp' = IF tmp = NoInode THEN CHOOSE i \in Free : TRUE ELSE tmp
  /\ content' = [content EXCEPT ![tmp'] = Holes] /\ length' = [length EXCEPT ![tmp'] = 0]
  /\ synced' = synced \ {tmp'}
  /\ install' = [install EXCEPT ![t].at = "copy", ![t].file = tmp']
  /\ UNCHANGED <<dest, chances, overlap>>

\* io.Copy to the file and the hasher.
Copy(t) ==
  /\ install[t].at = "copy" /\ install[t].written < Chunks
  /\ LET i == install[t].file
         c == install[t].written + 1
     IN  \E byte \in {"good", "bad"} :
           /\ content' = [content EXCEPT ![i][c] = byte]
           /\ length' = [length EXCEPT ![i] = IF @ < c THEN c ELSE @]
           /\ synced' = synced \ {i}
           /\ install' = [install EXCEPT ![t].written = c, ![t].pure = @ /\ byte = "good"]
  /\ UNCHANGED <<dest, tmp, chances, overlap>>

\* Mutant of Sync: the file is closed and left to the system.
SyncNothing(t) ==
  /\ install[t].at = "copy" /\ Proceeds(t, "verify")
  /\ UNCHANGED <<Files, chances, overlap>>

\* The body has ended, early perhaps.
Sync(t) ==
  /\ install[t].at = "copy" /\ Proceeds(t, "verify")
  /\ synced' = synced \cup {install[t].file}
  /\ UNCHANGED <<dest, tmp, content, length, chances, overlap>>

\* The hash is that of the bytes received.
Verify(t) ==
  /\ install[t].at = "verify"
  /\ Proceeds(t, IF install[t].pure /\ install[t].written = Chunks THEN "rename" ELSE "remove")
  /\ UNCHANGED <<Files, chances, overlap>>

RenameModel(t) ==
  /\ install[t].at = "rename"
  /\ \/ tmp # NoInode /\ dest' = tmp /\ tmp' = NoInode /\ Proceeds(t, "renamed")
     \/ tmp = NoInode /\ UNCHANGED <<dest, tmp>> /\ Proceeds(t, "remove")
  /\ UNCHANGED <<content, length, synced, chances, overlap>>

\* The request is cancelled, or the download or a call of the system fails.
Fail(t) ==
  /\ install[t].at \in {"get", "copy", "rename"}
  /\ Proceeds(t, "remove")
  /\ UNCHANGED <<Files, chances, overlap>>

\* Mutant of Remove: the file is not closed.
RemoveOpen(t) ==
  /\ install[t].at \in {"remove", "renamed"}
  /\ tmp' = NoInode
  /\ Proceeds(t, IF install[t].at = "renamed" THEN "ok" ELSE "failed")
  /\ UNCHANGED <<dest, content, length, synced, chances, overlap>>

\* The deferred Remove takes away whatever has the name by now.
Remove(t) ==
  /\ install[t].at \in {"remove", "renamed"}
  /\ tmp' = NoInode
  /\ install' = [install EXCEPT ![t] =
       [NoInstall EXCEPT !.at = IF install[t].at = "renamed" THEN "ok" ELSE "failed"]]
  /\ UNCHANGED <<dest, content, length, synced, chances, overlap>>

\* The process is killed, or the power goes: then files that were not synced may
\* have lost their bytes, or only some of them.
RestartDuringInstall ==
  /\ chances > 0 /\ chances' = chances - 1
  /\ install' = [t \in Tab |-> NoInstall]
  /\ \E lost \in SUBSET (Inode \ synced) :
       /\ content' = [i \in Inode |-> IF i \in lost THEN Holes ELSE content[i]]
       /\ \/ length' = [i \in Inode |-> IF i \in lost THEN 0 ELSE length[i]]
          \/ UNCHANGED length
  /\ UNCHANGED <<dest, tmp, synced, overlap>>

InstallStep(t) ==
  Begin(t) \/ Open(t) \/ Copy(t) \/ Sync(t) \/ Verify(t) \/ RenameModel(t) \/ Fail(t) \/ Remove(t)

InstallerNext == RestartDuringInstall \/ \E t \in Tab : InstallStep(t)

InstallerSpec == (\E n \in Nat : InstallerInit(n)) /\ [][InstallerNext]_installer

-----------------------------------------------------------------------------
(* Properties                                                              *)

Installing ==
  [at : {"idle", "get", "copy", "verify", "rename", "renamed", "remove", "ok", "failed"},
   file : Inode \cup {NoInode}, written : 0 .. Chunks, pure : BOOLEAN]

InstallerTypeOK ==
  /\ dest \in Inode \cup {NoInode} /\ tmp \in Inode \cup {NoInode}
  /\ content \in [Inode -> [1 .. Chunks -> {"good", "bad", "hole"}]]
  /\ length \in [Inode -> 0 .. Chunks] /\ synced \subseteq Inode
  /\ install \in [Tab -> Installing]
  /\ chances \in Nat /\ overlap \in BOOLEAN
  /\ tmp # dest \/ tmp = NoInode
  /\ \A t \in Tab : /\ install[t].file # NoInode => Busy(t)
                    /\ install[t].at = "copy" => install[t].file # NoInode

\* As long as installs do not overlap, whatever is under the name of the model is
\* the pinned file, through failed downloads, wrong bytes, kills and loss of power,
\* and who is told that the model is there has it (install.go:107-109).
ModelWhole ==
  ~ overlap =>
    /\ Installed => Whole(dest)
    /\ \A t \in Tab : install[t].at = "ok" => Installed
=============================================================================
