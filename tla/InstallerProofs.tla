-------------------------- MODULE InstallerProofs ---------------------------
(***************************************************************************)
(* Theorems about Installer for any number of clients, files and chunks.   *)
(***************************************************************************)
EXTENDS Installer, TLAPS

USE DEF installer, Files, Proceeds

-----------------------------------------------------------------------------
(* The type invariant                                                      *)

LEMMA NoInstallType ==
  NoInstall \in Installing /\ NoInstall.at = "idle" /\ NoInstall.file = NoInode
BY InstallerAssumption DEF NoInstall, Installing

LEMMA HolesType == Holes \in [1 .. Chunks -> {"good", "bad", "hole"}]
BY DEF Holes

\* A request has a file open only while it is under way, and one that copies has one.
FilesOpen ==
  \A t \in Tab : /\ install[t].file # NoInode => install[t].at \notin {"idle", "ok", "failed"}
                 /\ install[t].at = "copy" => install[t].file # NoInode

\* One request moves on.
LEMMA InstallMoves ==
  ASSUME InstallerTypeOK, NEW t \in Tab, NEW u \in Installing, install' = [install EXCEPT ![t] = u],
         u.file # NoInode => u.at \notin {"idle", "ok", "failed"},
         u.at = "copy" => u.file # NoInode
  PROVE  install' \in [Tab -> Installing] /\ FilesOpen'
BY DEF InstallerTypeOK, FilesOpen, Busy

LEMMA BeginType ==
  ASSUME InstallerTypeOK, NEW t \in Tab, Begin(t)
  PROVE  InstallerTypeOK'
<1>1. PICK at \in {"ok", "get"} : install' = [install EXCEPT ![t] = [NoInstall EXCEPT !.at = at]]
  BY DEF Begin
<1>2. [NoInstall EXCEPT !.at = at] \in Installing /\ [NoInstall EXCEPT !.at = at].file = NoInode
  BY NoInstallType DEF Installing
<1>3. chances' \in Nat /\ overlap' \in BOOLEAN
  <2>1. chances' \in Nat
    BY DEF Begin, InstallerTypeOK
  <2>2. overlap' \in BOOLEAN
    BY DEF Begin, InstallerTypeOK
  <2>. QED
    BY <2>1, <2>2
<1>. QED
  BY <1>1, <1>2, <1>3, InstallMoves DEF Begin, InstallerTypeOK, FilesOpen, Busy

LEMMA OpenType ==
  ASSUME InstallerTypeOK, NEW t \in Tab, Open(t)
  PROVE  /\ InstallerTypeOK' /\ tmp' \in Inode \ {dest}
         /\ install' = [install EXCEPT ![t] = [install[t] EXCEPT !.at = "copy", !.file = tmp']]
<1>1. tmp' \in Inode \ {dest}
  BY DEF Open, Free, InstallerTypeOK
<1>2. install' = [install EXCEPT ![t] = [install[t] EXCEPT !.at = "copy", !.file = tmp']]
  BY DEF Open
<1>3. [install[t] EXCEPT !.at = "copy", !.file = tmp'] \in Installing
  BY <1>1 DEF InstallerTypeOK, Installing
<1>4. /\ [install[t] EXCEPT !.at = "copy", !.file = tmp'].at = "copy"
      /\ [install[t] EXCEPT !.at = "copy", !.file = tmp'].file = tmp' /\ tmp' # NoInode
  BY <1>1, InstallerAssumption DEF InstallerTypeOK, Installing
<1>5. content' \in [Inode -> [1 .. Chunks -> {"good", "bad", "hole"}]]
      /\ length' \in [Inode -> 0 .. Chunks] /\ synced' \subseteq Inode
  BY <1>1, HolesType, InstallerAssumption DEF Open, InstallerTypeOK
<1>6. install' \in [Tab -> Installing] /\ FilesOpen'
  BY <1>2, <1>3, <1>4, InstallMoves
<1>. QED
  BY <1>1, <1>2, <1>5, <1>6, InstallerAssumption DEF Open, InstallerTypeOK, FilesOpen, Busy

\* What Copy does, for the byte it receives.
LEMMA CopyFacts ==
  ASSUME InstallerTypeOK, NEW t \in Tab, Copy(t)
  PROVE  \E byte \in {"good", "bad"} :
           LET i == install[t].file
               c == install[t].written + 1
           IN  /\ c \in 1 .. Chunks
               /\ content' = [content EXCEPT ![i] = [@ EXCEPT ![c] = byte]]
               /\ length' = [length EXCEPT ![i] = IF @ < c THEN c ELSE @]
               /\ synced' = synced \ {i}
               /\ install' = [install EXCEPT ![t] = [install[t] EXCEPT !.written = c,
                                                       !.pure = install[t].pure /\ byte = "good"]]
<1>. DEFINE i == install[t].file
            c == install[t].written + 1
<1>1. install[t].written \in 0 .. Chunks /\ install[t].written < Chunks
  BY DEF Copy, InstallerTypeOK, Installing
<1>2. c \in 1 .. Chunks
  BY <1>1, InstallerAssumption
<1>3. PICK byte \in {"good", "bad"} :
        /\ content' = [content EXCEPT ![i][c] = byte]
        /\ length' = [length EXCEPT ![i] = IF @ < c THEN c ELSE @]
        /\ synced' = synced \ {i}
        /\ install' = [install EXCEPT ![t].written = c, ![t].pure = @ /\ byte = "good"]
  BY DEF Copy
<1>4. install' = [install EXCEPT ![t] = [install[t] EXCEPT !.written = c,
                                           !.pure = install[t].pure /\ byte = "good"]]
  BY <1>3 DEF InstallerTypeOK
<1>. QED
  BY <1>2, <1>3, <1>4

LEMMA CopyType ==
  ASSUME InstallerTypeOK, NEW t \in Tab, Copy(t)
  PROVE  InstallerTypeOK'
<1>. DEFINE i == install[t].file
            c == install[t].written + 1
<1>1. PICK byte \in {"good", "bad"} :
        /\ c \in 1 .. Chunks
        /\ content' = [content EXCEPT ![i] = [@ EXCEPT ![c] = byte]]
        /\ length' = [length EXCEPT ![i] = IF @ < c THEN c ELSE @]
        /\ synced' = synced \ {i}
        /\ install' = [install EXCEPT ![t] = [install[t] EXCEPT !.written = c,
                                                !.pure = install[t].pure /\ byte = "good"]]
  BY CopyFacts
<1>2. install[t] \in Installing /\ install[t].at = "copy"
  BY DEF Copy, InstallerTypeOK
<1>3. PICK pure \in BOOLEAN : pure = (install[t].pure /\ byte = "good")
  OBVIOUS
<1>. DEFINE u == [install[t] EXCEPT !.written = c, !.pure = pure]
<1>4. u \in Installing /\ u.at = "copy" /\ u.file = i
  <2>1. c \in 0 .. Chunks
    BY <1>1, InstallerAssumption
  <2>. QED
    BY <1>2, <1>3, <2>1, Zenon DEF Installing
<1>5. install' = [install EXCEPT ![t] = u]
  BY <1>1, <1>3
<1>. HIDE DEF u
<1>6. install' \in [Tab -> Installing] /\ FilesOpen'
  BY <1>2, <1>4, <1>5, InstallMoves DEF InstallerTypeOK
<1>7. content' \in [Inode -> [1 .. Chunks -> {"good", "bad", "hole"}]]
  BY <1>1 DEF InstallerTypeOK
<1>8. length' \in [Inode -> 0 .. Chunks] /\ synced' \subseteq Inode
  <2>1. (IF length[i] < c THEN c ELSE length[i]) \in 0 .. Chunks \/ i \notin Inode
    BY <1>1, InstallerAssumption DEF InstallerTypeOK
  <2>. QED
    BY <1>1, <2>1 DEF InstallerTypeOK
<1>9. UNCHANGED <<dest, tmp, chances, overlap>>
  BY DEF Copy
<1>. QED
  BY <1>6, <1>7, <1>8, <1>9 DEF InstallerTypeOK, FilesOpen, Busy

\* A step from one place of the handler to another, its file still open.
LEMMA ProceedsType ==
  ASSUME InstallerTypeOK, NEW t \in Tab, NEW where, Proceeds(t, where),
         where \in {"verify", "rename", "renamed", "remove"},
         dest' \in Inode \cup {NoInode}, tmp' \in Inode \cup {NoInode},
         tmp' # dest' \/ tmp' = NoInode, synced' \subseteq Inode,
         UNCHANGED <<content, length, chances, overlap>>
  PROVE  InstallerTypeOK'
<1>1. [install[t] EXCEPT !.at = where] \in Installing
      /\ [install[t] EXCEPT !.at = where].at = where
  BY DEF InstallerTypeOK, Installing
<1>2. install' \in [Tab -> Installing] /\ FilesOpen'
  BY <1>1, InstallMoves
<1>. QED
  BY <1>2 DEF InstallerTypeOK, FilesOpen, Busy

LEMMA RemoveType ==
  ASSUME InstallerTypeOK, NEW t \in Tab, Remove(t)
  PROVE  InstallerTypeOK'
<1>1. PICK at \in {"ok", "failed"} : install' = [install EXCEPT ![t] = [NoInstall EXCEPT !.at = at]]
  BY DEF Remove
<1>2. /\ [NoInstall EXCEPT !.at = at] \in Installing
      /\ [NoInstall EXCEPT !.at = at].file = NoInode /\ [NoInstall EXCEPT !.at = at].at = at
  BY NoInstallType DEF Installing
<1>3. install' \in [Tab -> Installing] /\ FilesOpen'
  BY <1>1, <1>2, InstallMoves
<1>. QED
  BY <1>3 DEF Remove, InstallerTypeOK, FilesOpen, Busy

LEMMA RestartType ==
  ASSUME InstallerTypeOK, RestartDuringInstall
  PROVE  InstallerTypeOK'
<1>1. PICK lost \in SUBSET (Inode \ synced) :
        /\ content' = [i \in Inode |-> IF i \in lost THEN Holes ELSE content[i]]
        /\ \/ length' = [i \in Inode |-> IF i \in lost THEN 0 ELSE length[i]]
           \/ UNCHANGED length
  BY DEF RestartDuringInstall
<1>2. content' \in [Inode -> [1 .. Chunks -> {"good", "bad", "hole"}]]
  BY <1>1, HolesType DEF InstallerTypeOK
<1>3. length' \in [Inode -> 0 .. Chunks]
  <2>1. 0 \in 0 .. Chunks /\ length \in [Inode -> 0 .. Chunks]
    BY InstallerAssumption DEF InstallerTypeOK
  <2>. QED
    BY <1>1, <2>1
<1>4. install' \in [Tab -> Installing] /\ FilesOpen'
  BY NoInstallType DEF RestartDuringInstall, FilesOpen
<1>5. chances' \in Nat
  BY DEF RestartDuringInstall, InstallerTypeOK
<1>. QED
  BY <1>2, <1>3, <1>4, <1>5 DEF RestartDuringInstall, InstallerTypeOK, FilesOpen, Busy

LEMMA StepType ==
  ASSUME InstallerTypeOK, [InstallerNext]_installer
  PROVE  InstallerTypeOK'
<1>1. CASE UNCHANGED installer
  BY <1>1 DEF InstallerTypeOK, FilesOpen, Busy
<1>2. ASSUME NEW t \in Tab, Sync(t)
      PROVE  InstallerTypeOK'
  <2>1. synced' \subseteq Inode
    BY <1>2, NoInstallType DEF Sync, InstallerTypeOK, Installing
  <2>. QED
    BY <1>2, <2>1, ProceedsType DEF Sync, InstallerTypeOK
<1>3. ASSUME NEW t \in Tab, Verify(t)
      PROVE  InstallerTypeOK'
  BY <1>3, ProceedsType DEF Verify, InstallerTypeOK
<1>4. ASSUME NEW t \in Tab, RenameModel(t)
      PROVE  InstallerTypeOK'
  BY <1>4, ProceedsType DEF RenameModel, InstallerTypeOK
<1>5. ASSUME NEW t \in Tab, Fail(t)
      PROVE  InstallerTypeOK'
  BY <1>5, ProceedsType DEF Fail, InstallerTypeOK
<1>. QED
  BY <1>1, <1>2, <1>3, <1>4, <1>5, BeginType, OpenType, CopyType, RemoveType, RestartType
     DEF InstallerNext, InstallStep

\* Types: among them that the file with the name of the model and the temporary one
\* are never the same, however installs overlap.
THEOREM InstallerTypeCorrect == InstallerSpec => []InstallerTypeOK
<1>1. (\E n \in Nat : InstallerInit(n)) => InstallerTypeOK
  <2>. SUFFICES ASSUME NEW n \in Nat, InstallerInit(n)
                PROVE  InstallerTypeOK
    OBVIOUS
  <2>1. content \in [Inode -> [1 .. Chunks -> {"good", "bad", "hole"}]]
    BY HolesType DEF InstallerInit
  <2>2. length \in [Inode -> 0 .. Chunks]
    BY InstallerAssumption DEF InstallerInit
  <2>3. install \in [Tab -> Installing] /\ FilesOpen
    BY NoInstallType DEF InstallerInit, FilesOpen
  <2>4. dest = NoInode /\ tmp = NoInode /\ synced = {} /\ chances \in Nat /\ overlap = FALSE
    BY DEF InstallerInit
  <2>. QED
    BY <2>1, <2>2, <2>3, <2>4, Zenon DEF InstallerTypeOK, FilesOpen, Busy
<1>2. InstallerTypeOK /\ [InstallerNext]_installer => InstallerTypeOK'
  BY StepType
<1>. QED
  BY <1>1, <1>2, PTL DEF InstallerSpec

-----------------------------------------------------------------------------
(* The model                                                               *)

\* What a request without company knows of its file: it is the temporary one, as
\* long as what was written, and what came in is in it.
CopyKnows(t) ==
  /\ install[t].file = tmp /\ tmp # NoInode
  /\ length[tmp] = install[t].written
  /\ install[t].pure => \A c \in 1 .. install[t].written : content[tmp][c] = "good"

InstallKnows(t) ==
  /\ install[t].at = "copy" => CopyKnows(t)
  /\ install[t].at = "get" => install[t].written = 0 /\ install[t].pure
  /\ install[t].at = "verify" => CopyKnows(t) /\ tmp \in synced
  /\ install[t].at = "rename" => tmp # NoInode /\ Whole(tmp) /\ tmp \in synced
  /\ install[t].at \in {"renamed", "ok"} => Installed

\* Without overlap one request is under way at most, and the file with the name of
\* the model is whole and on the disk.
Alone ==
  ~ overlap =>
    /\ \A t, o \in Tab : Busy(t) /\ Busy(o) => t = o
    /\ dest # NoInode => Whole(dest) /\ dest \in synced
    /\ \A t \in Tab : InstallKnows(t)

LEMMA BeginAlone ==
  ASSUME InstallerTypeOK, Alone, InstallerTypeOK', NEW t \in Tab, Begin(t)
  PROVE  Alone'
<1>. SUFFICES ASSUME ~ overlap' PROVE Alone'
  BY DEF Alone
<1>1. ~ overlap /\ \A o \in Tab \ {t} : ~ Busy(o)
  BY DEF Begin
<1>2. PICK at \in {"ok", "get"} :
        install' = [install EXCEPT ![t] = [NoInstall EXCEPT !.at = at]] /\ (at = "ok" => Installed)
  BY DEF Begin
<1>3. /\ \A o \in Tab : o # t => install'[o] = install[o]
      /\ install'[t].at = at /\ install'[t].written = 0 /\ install'[t].pure
  BY <1>2 DEF InstallerTypeOK, NoInstall
<1>4. UNCHANGED <<dest, tmp, content, length, synced>>
  BY DEF Begin
<1>5. \A o \in Tab : o # t => ~ Busy(o)'
  BY <1>1, <1>3 DEF Busy
<1>6. \A o \in Tab : InstallKnows(o)'
  BY <1>1, <1>2, <1>3, <1>4
     DEF Alone, InstallKnows, CopyKnows, Whole, Installed
<1>. QED
  BY <1>1, <1>4, <1>5, <1>6 DEF Alone, Whole

\* A step of the one request that is under way: the file under the name of the model
\* stays as it is, or is replaced by one that is whole and on the disk.
LEMMA OthersIdle ==
  ASSUME InstallerTypeOK, Alone, ~ overlap, UNCHANGED overlap, NEW t \in Tab, Busy(t),
         \A o \in Tab : o # t => install'[o] = install[o],
         dest # NoInode => dest' # NoInode,
         dest' # NoInode => Whole(dest)' /\ dest' \in synced',
         InstallKnows(t)'
  PROVE  Alone'
<1>1. \A o \in Tab : o # t => ~ Busy(o) /\ ~ Busy(o)'
  BY DEF Alone, Busy
<1>2. Installed => Installed'
  BY InstallerAssumption DEF Installed, Whole
<1>3. \A o \in Tab : o # t => InstallKnows(o)'
  BY <1>1, <1>2 DEF Alone, InstallKnows, Busy
<1>. QED
  BY <1>1, <1>3 DEF Alone

LEMMA OpenAlone ==
  ASSUME InstallerTypeOK, Alone, InstallerTypeOK', NEW t \in Tab, Open(t), ~ overlap
  PROVE  Alone'
<1>1. tmp' \in Inode \ {dest}
      /\ install' = [install EXCEPT ![t] = [install[t] EXCEPT !.at = "copy", !.file = tmp']]
  BY OpenType
<1>2. /\ Busy(t) /\ install[t].written = 0 /\ UNCHANGED <<dest, overlap>>
      /\ content' = [content EXCEPT ![tmp'] = Holes] /\ length' = [length EXCEPT ![tmp'] = 0]
      /\ synced' = synced \ {tmp'}
  BY DEF Open, Busy, Alone, InstallKnows
<1>3. /\ \A o \in Tab : o # t => install'[o] = install[o]
      /\ install'[t].at = "copy" /\ install'[t].file = tmp' /\ install'[t].written = 0
  BY <1>1, <1>2 DEF InstallerTypeOK, Installing
<1>4. InstallKnows(t)'
  <2>1. length'[tmp'] = 0
    BY <1>1, <1>2 DEF InstallerTypeOK
  <2>2. tmp' # NoInode
    BY <1>1, InstallerAssumption
  <2>3. \A c \in 1 .. 0 : FALSE
    OBVIOUS
  <2>. QED
    BY <1>3, <2>1, <2>2, <2>3 DEF InstallKnows, CopyKnows
<1>5. dest' # NoInode => Whole(dest)' /\ dest' \in synced'
  BY <1>1, <1>2 DEF Alone, Whole, InstallerTypeOK
<1>. QED
  BY <1>2, <1>3, <1>4, <1>5, OthersIdle

LEMMA CopyAlone ==
  ASSUME InstallerTypeOK, Alone, InstallerTypeOK', NEW t \in Tab, Copy(t), ~ overlap
  PROVE  Alone'
<1>. DEFINE i == install[t].file
            c == install[t].written + 1
<1>1. PICK byte \in {"good", "bad"} :
        /\ c \in 1 .. Chunks
        /\ content' = [content EXCEPT ![i] = [@ EXCEPT ![c] = byte]]
        /\ length' = [length EXCEPT ![i] = IF @ < c THEN c ELSE @]
        /\ synced' = synced \ {i}
        /\ install' = [install EXCEPT ![t] = [install[t] EXCEPT !.written = c,
                                                !.pure = install[t].pure /\ byte = "good"]]
  BY CopyFacts
<1>2. /\ Busy(t) /\ install[t].at = "copy" /\ CopyKnows(t) /\ UNCHANGED <<dest, tmp, overlap>>
      /\ i = tmp /\ i # dest /\ i \in Inode /\ install[t].written \in Nat
  BY InstallerAssumption DEF Copy, Busy, Alone, InstallKnows, CopyKnows, InstallerTypeOK, Installing
<1>3. /\ \A o \in Tab : o # t => install'[o] = install[o]
      /\ install'[t].at = "copy" /\ install'[t].file = tmp' /\ install'[t].written = c
      /\ install'[t].pure => install[t].pure /\ byte = "good"
  BY <1>1, <1>2 DEF InstallerTypeOK, Installing
<1>4. InstallKnows(t)'
  <2>1. length'[tmp'] = c
    BY <1>1, <1>2 DEF InstallerTypeOK, CopyKnows
  <2>2. content'[tmp'] = [content[tmp] EXCEPT ![c] = byte]
        /\ content[tmp] \in [1 .. Chunks -> {"good", "bad", "hole"}]
    BY <1>1, <1>2 DEF InstallerTypeOK
  <2>3. ASSUME install'[t].pure, NEW d \in 1 .. c
        PROVE  content'[tmp'][d] = "good"
    <3>1. CASE d = c
      <4>1. byte = "good"
        BY <1>3, <2>3
      <4>. QED
        BY <1>1, <2>2, <3>1, <4>1
    <3>2. CASE d # c
      <4>1. d \in 1 .. install[t].written /\ d \in 1 .. Chunks
        BY <1>1, <1>2, <3>2, InstallerAssumption
      <4>2. content[tmp][d] = "good"
        BY <1>2, <1>3, <2>3, <4>1 DEF CopyKnows
      <4>. QED
        BY <2>2, <3>2, <4>1, <4>2
    <3>. QED
      BY <3>1, <3>2
  <2>. QED
    BY <1>2, <1>3, <2>1, <2>3 DEF InstallKnows, CopyKnows
<1>5. dest' # NoInode => Whole(dest)' /\ dest' \in synced'
  BY <1>1, <1>2 DEF Alone, Whole, InstallerTypeOK
<1>. QED
  BY <1>2, <1>3, <1>4, <1>5, OthersIdle

\* The handler moves on; its file keeps its bytes.
LEMMA StepAlone ==
  ASSUME InstallerTypeOK, Alone, InstallerTypeOK', NEW t \in Tab, ~ overlap,
         Sync(t) \/ Verify(t) \/ RenameModel(t) \/ Fail(t)
  PROVE  Alone'
<1>1. Busy(t) /\ UNCHANGED <<content, length, overlap>> /\ InstallKnows(t)
  BY DEF Sync, Verify, RenameModel, Fail, Busy, Alone
<1>2. PICK where \in {"verify", "rename", "renamed", "remove"} :
        install' = [install EXCEPT ![t].at = where]
  BY DEF Sync, Verify, RenameModel, Fail
<1>3. /\ \A o \in Tab : o # t => install'[o] = install[o]
      /\ install'[t].at = where /\ install'[t].file = install[t].file
      /\ install'[t].written = install[t].written /\ install'[t].pure = install[t].pure
  BY <1>2 DEF InstallerTypeOK, Installing
<1>4. dest # NoInode => Whole(dest) /\ dest \in synced
  BY DEF Alone
<1>5. CASE Sync(t)
  <2>1. where = "verify" /\ UNCHANGED <<dest, tmp>> /\ synced' = synced \cup {install[t].file}
        /\ CopyKnows(t)
    BY <1>1, <1>3, <1>5 DEF Sync, InstallKnows, InstallerTypeOK
  <2>2. InstallKnows(t)'
    BY <1>1, <1>3, <2>1 DEF InstallKnows, CopyKnows
  <2>. QED
    BY <1>1, <1>3, <1>4, <2>1, <2>2, OthersIdle DEF Whole
<1>6. CASE Verify(t)
  <2>1. UNCHANGED <<dest, tmp, synced>> /\ CopyKnows(t) /\ tmp \in synced
        /\ where \in {"rename", "remove"}
        /\ (where = "rename" => install[t].pure /\ install[t].written = Chunks)
    BY <1>1, <1>3, <1>6 DEF Verify, InstallKnows, InstallerTypeOK
  <2>2. where = "rename" => Whole(tmp)
    BY <2>1 DEF CopyKnows, Whole
  <2>3. InstallKnows(t)'
    BY <1>1, <1>3, <2>1, <2>2 DEF InstallKnows, CopyKnows, Whole
  <2>. QED
    BY <1>1, <1>3, <1>4, <2>1, <2>3, OthersIdle DEF Whole
<1>7. CASE RenameModel(t)
  <2>1. tmp # NoInode /\ Whole(tmp) /\ tmp \in synced
    BY <1>1, <1>7 DEF RenameModel, InstallKnows
  <2>2. dest' = tmp /\ synced' = synced /\ install'[t].at = "renamed"
    BY <1>7, <2>1 DEF RenameModel, InstallerTypeOK, Installing
  <2>3. Installed'
    BY <1>1, <2>1, <2>2, InstallerAssumption DEF Installed, Whole
  <2>4. InstallKnows(t)'
    BY <2>2, <2>3 DEF InstallKnows
  <2>. QED
    BY <1>1, <1>3, <2>1, <2>2, <2>4, OthersIdle DEF Whole
<1>8. CASE Fail(t)
  <2>1. UNCHANGED <<dest, tmp, synced>> /\ where = "remove"
    BY <1>3, <1>8 DEF Fail, InstallerTypeOK
  <2>2. InstallKnows(t)'
    BY <1>3, <2>1 DEF InstallKnows
  <2>. QED
    BY <1>1, <1>3, <1>4, <2>1, <2>2, OthersIdle DEF Whole
<1>. QED
  BY <1>5, <1>6, <1>7, <1>8

LEMMA RemoveAlone ==
  ASSUME InstallerTypeOK, Alone, InstallerTypeOK', NEW t \in Tab, Remove(t), ~ overlap
  PROVE  Alone'
<1>1. /\ Busy(t) /\ UNCHANGED <<dest, content, length, synced, overlap>>
      /\ (install[t].at = "renamed" => Installed)
  BY DEF Remove, Busy, Alone, InstallKnows
<1>2. PICK at \in {"ok", "failed"} :
        /\ install' = [install EXCEPT ![t] = [NoInstall EXCEPT !.at = at]]
        /\ at = "ok" => install[t].at = "renamed"
  BY DEF Remove
<1>3. (\A o \in Tab : o # t => install'[o] = install[o]) /\ install'[t].at = at
  BY <1>2, NoInstallType DEF InstallerTypeOK, NoInstall
<1>4. InstallKnows(t)'
  BY <1>1, <1>2, <1>3 DEF InstallKnows, Installed
<1>. QED
  BY <1>1, <1>3, <1>4, OthersIdle DEF Alone, Whole

LEMMA RestartAlone ==
  ASSUME InstallerTypeOK, Alone, RestartDuringInstall, ~ overlap
  PROVE  Alone'
<1>1. \A t \in Tab : install'[t].at = "idle"
  BY NoInstallType DEF RestartDuringInstall
<1>2. UNCHANGED <<dest, synced>>
      /\ \E lost \in SUBSET (Inode \ synced) :
           /\ content' = [i \in Inode |-> IF i \in lost THEN Holes ELSE content[i]]
           /\ \/ length' = [i \in Inode |-> IF i \in lost THEN 0 ELSE length[i]]
              \/ UNCHANGED length
  BY DEF RestartDuringInstall
<1>3. dest # NoInode => Whole(dest)' /\ dest' \in synced'
  BY <1>2 DEF Alone, Whole, InstallerTypeOK
<1>. QED
  BY <1>1, <1>2, <1>3 DEF Alone, InstallKnows, Busy

\* Until two installs meet, what has the name of the model is the pinned file and
\* is on the disk: nothing is renamed before it was synced and verified.
THEOREM ModelWholeHolds == InstallerSpec => []ModelWhole
<1>1. (\E n \in Nat : InstallerInit(n)) => Alone
  BY NoInstallType DEF InstallerInit, Alone, InstallKnows, Busy
<1>2. InstallerTypeOK /\ Alone /\ InstallerTypeOK' /\ [InstallerNext]_installer => Alone'
  <2>. SUFFICES ASSUME InstallerTypeOK, Alone, InstallerTypeOK', [InstallerNext]_installer, ~ overlap
                PROVE  Alone'
    <3>1. [InstallerNext]_installer /\ overlap => overlap'
      BY DEF InstallerNext, InstallStep, Begin, Open, Copy, Sync, Verify, RenameModel, Fail,
         Remove, RestartDuringInstall
    <3>2. overlap' => Alone'
      BY DEF Alone
    <3>. QED
      BY <3>1, <3>2
  <2>1. CASE UNCHANGED installer
    BY <2>1 DEF Alone, InstallKnows, CopyKnows, Whole, Installed, Busy
  <2>2. CASE InstallerNext
    BY <2>2, BeginAlone, OpenAlone, CopyAlone, StepAlone, RemoveAlone, RestartAlone
       DEF InstallerNext, InstallStep
  <2>. QED
    BY <2>1, <2>2
<1>3. InstallerTypeOK /\ Alone => ModelWhole
  BY DEF Alone, InstallKnows, Installed, ModelWhole
<1>. QED
  BY <1>1, <1>2, <1>3, InstallerTypeCorrect, PTL DEF InstallerSpec
=============================================================================
