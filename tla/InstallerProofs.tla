--------------------------- MODULE InstallerProofs ---------------------------
(***************************************************************************)
(* The installer keeps the promise of the undo log, for every number of    *)
(* releases and on every disk.  The refinement needs to know, at each      *)
(* stage, how much of the record is on disk and how much of it is back in  *)
(* the bundle: Safe says so, and is inductive together with the types.     *)
(***************************************************************************)
EXTENDS Installer, TLAPS

(* The N.orig files of the entries already dealt with. *)
SavedSoFar ==
  \A n \in 1 .. 3 :
    n <= 3 - todo /\ backup.saved[Entries[n]] # Absent
      => origDir[Entries[n]] = backup.saved[Entries[n]]

(* The files of the entries already written back or removed. *)
RestoredSoFar ==
  \A n \in 1 .. 3 :
    n <= backup.listed - todo /\ Entries[n] \in GameFile
      /\ IsOwn(Entries[n], backup.saved[Entries[n]])
      => Entries[n] \in Own \cup missed

Working == {"copying", "patching", "signing"}

FullRecord == stage \in Working \cup {"saving"} => backup.listed = 3

Turning == stage \in {"saving", "restoring"} => todo <= backup.listed

Recording == stage = "saving" => manifest.state = "absent" /\ SavedSoFar

Holding ==
  stage \in Working \cup {"restoring"} => manifest = Readable(backup) /\ OrigsMatch

Restoring == stage = "restoring" => RestoredSoFar

Clearing == stage = "clearing" => Logged \subseteq Own \cup forsaken

Safe ==
  /\ EveryFileIsOwnOrRecorded
  /\ RecordsTheGameOnly
  /\ Recording
  /\ Holding
  /\ Restoring
  /\ Clearing

(* The types, and the number of the entry whose turn it is. *)
Typed == InstallerTypeOK /\ FullRecord /\ Turning

IInv == Typed /\ Safe
-----------------------------------------------------------------------------
(* Bytes *)

(* The bytes a definition names are bytes. *)
LEMMA BytesOfTheGame ==
  /\ Pulse \in Bytes /\ Torn \in Bytes /\ Absent \in Bytes
  /\ \A n \in 1 .. MaxRelease : Game(n) \in Bytes
BY InstallerAssumption DEF Pulse, Torn, Absent, Game, Bytes

(* A write leaves the old bytes, the new ones or a part, and ends well only *)
(* with the new ones; a replacement leaves the old or the new.              *)
LEMMA WriteOutcomes ==
  ASSUME NEW old \in Bytes, NEW new \in Bytes
  PROVE  /\ \A w \in Writes(old, new) : /\ w.bytes \in Bytes /\ w.ok \in BOOLEAN
                                        /\ w.ok => w.bytes = new
         /\ \A w \in Replaces(old, new) : /\ w.bytes \in {old, new} /\ w.ok \in BOOLEAN
                                          /\ w.ok => w.bytes = new
<1>1. ASSUME NEW w \in Writes(old, new)
      PROVE  w.bytes \in Bytes /\ w.ok \in BOOLEAN /\ (w.ok => w.bytes = new)
  <2>1. CASE w = [ok |-> TRUE, bytes |-> new]
    BY <2>1
  <2>2. CASE w = [ok |-> FALSE, bytes |-> old]
    BY <2>2
  <2>3. CASE w = [ok |-> FALSE, bytes |-> Torn]
    BY <2>3, BytesOfTheGame
  <2>. QED  BY <1>1, <2>1, <2>2, <2>3 DEF Writes
<1>2. ASSUME NEW w \in Replaces(old, new)
      PROVE  w.bytes \in {old, new} /\ w.ok \in BOOLEAN /\ (w.ok => w.bytes = new)
  <2>1. CASE w = [ok |-> TRUE, bytes |-> new]
    BY <2>1
  <2>2. CASE w = [ok |-> FALSE, bytes |-> old]
    BY <2>2
  <2>. QED  BY <1>2, <2>1, <2>2 DEF Replaces
<1>. QED  BY <1>1, <1>2

LEMMA NothingSaved == NoBackup \in BackupManifest
BY BytesOfTheGame DEF NoBackup, BackupManifest, NoBytes

(* The three entries, and what it is to be listed. *)
LEMMA TheEntries ==
  /\ Entry = {"executable", "signature", "dylib"}
  /\ Entries[1] = "executable" /\ Entries[2] = "signature" /\ Entries[3] = "dylib"
  /\ \A n \in 1 .. 3 : Entries[n] \in Entry
BY DEF Entry, GameFile, Entries
-----------------------------------------------------------------------------
(* Types *)

LEMMA TurnType ==
  ASSUME InstallerTypeOK, todo > 0, todo <= backup.listed
  PROVE  /\ backup.listed - todo + 1 \in 1 .. 3
         /\ Turn \in Entry
         /\ IsListed(backup, Turn)
<1>1. backup.listed \in 0 .. 3 /\ todo \in 0 .. 3
  BY DEF InstallerTypeOK, BackupManifest
<1>2. backup.listed - todo + 1 \in 1 .. 3 /\ backup.listed - todo + 1 \in 1 .. backup.listed
  BY <1>1
<1>. QED  BY <1>2, TheEntries DEF Turn, IsListed

LEMMA InitTypes == Init => InstallerTypeOK
<1>. SUFFICES ASSUME Init PROVE InstallerTypeOK
  OBVIOUS
<1>1. bundle \in [Entry -> Bytes]
  <2>1. Game(1) \in Bytes /\ Absent \in Bytes
    BY BytesOfTheGame, InstallerAssumption
  <2>. QED  BY <2>1 DEF Init
<1>2. origDir \in [Entry -> Bytes] /\ manifest \in ManifestFile /\ backup \in BackupManifest
  BY BytesOfTheGame, NothingSaved DEF Init, ManifestFile, NoManifest, NoBytes
<1>3. shipped \subseteq GameFile
  <2>1. {"executable"} \subseteq GameFile
    BY DEF GameFile
  <2>. QED  BY <2>1 DEF Init
<1>4. resealed \in BOOLEAN
  BY DEF Init
<1>5. /\ stage = "idle" /\ injector = "host" /\ todo = 0 /\ outcome = "none"
      /\ touched = {} /\ missed = {} /\ forsaken = {}
  BY DEF Init
<1>. QED  BY <1>1, <1>2, <1>3, <1>4, <1>5 DEF InstallerTypeOK

LEMMA InitTyped == Init => Typed
BY InitTypes DEF Init, Typed, FullRecord, Turning, Working

(* A command that ends leaves nothing in memory. *)
LEMMA FinishTyped ==
  ASSUME InstallerTypeOK, NEW result \in {"none", "installed", "uninstalled", "refused", "failed"},
         Finish(result)
  PROVE  /\ stage' = "idle" /\ outcome' = result
         /\ backup' \in BackupManifest /\ todo' \in 0 .. 3
BY NothingSaved DEF Finish

LEMMA TypedStep == Typed /\ [Next]_vars => Typed'
<1>. SUFFICES ASSUME Typed, [Next]_vars PROVE Typed'
  OBVIOUS
<1>. USE DEF Typed, FullRecord, Turning, Working
<1>1. CASE RefuseInstall
  BY <1>1, FinishTyped DEF RefuseInstall, InstallerTypeOK, disk, history
<1>2. ASSUME NEW i \in {"host", "native"}, BeginInstall(i) PROVE Typed'
  <2>1. BytesBefore \in [Entry -> Bytes]
    BY BytesOfTheGame DEF BytesBefore, InstallerTypeOK
  <2>2. backup' \in BackupManifest /\ backup'.listed = 3
    BY <1>2, <2>1 DEF BeginInstall, BackupManifest
  <2>. QED  BY <1>2, <2>2 DEF BeginInstall, InstallerTypeOK, disk, history
<1>3. CASE SaveOriginal
  <2>1. backup \in BackupManifest /\ origDir \in [Entry -> Bytes] /\ todo \in 0 .. 3
    BY DEF InstallerTypeOK
  <2>2. Turn \in Entry
    BY <1>3, TurnType DEF SaveOriginal
  <2>3. PICK w \in IF backup.saved[Turn] = Absent THEN {[ok |-> TRUE, bytes |-> origDir[Turn]]}
                   ELSE Writes(origDir[Turn], backup.saved[Turn]) :
           /\ origDir' = [origDir EXCEPT ![Turn] = w.bytes]
           /\ IF w.ok THEN Advance ELSE Finish("failed")
    BY <1>3 DEF SaveOriginal
  <2>4. w.bytes \in Bytes
    BY <2>1, <2>2, WriteOutcomes DEF BackupManifest
  <2>5. origDir' \in [Entry -> Bytes]
    BY <2>1, <2>3, <2>4
  <2>6. CASE Advance
    BY <1>3, <2>1, <2>5, <2>6 DEF SaveOriginal, Advance, InstallerTypeOK, history
  <2>7. CASE Finish("failed")
    BY <1>3, <2>5, <2>7, FinishTyped DEF SaveOriginal, InstallerTypeOK, history
  <2>. QED  BY <2>3, <2>6, <2>7
<1>4. CASE WriteManifest
  <2>1. backup \in BackupManifest
    BY DEF InstallerTypeOK
  <2>2. manifest' \in ManifestFile
    <3>1. \A n \in 0 .. 3 : [backup EXCEPT !.listed = n] \in BackupManifest
      BY <2>1 DEF BackupManifest
    <3>2. Unreadable \in ManifestFile /\ \A b \in BackupManifest : Readable(b) \in ManifestFile
      BY NothingSaved DEF Unreadable, Readable, ManifestFile
    <3>. QED  BY <1>4, <2>1, <3>1, <3>2 DEF WriteManifest, InstallerTypeOK
  <2>3. CASE stage' = "copying" /\ UNCHANGED <<backup, todo, outcome>>
    BY <1>4, <2>2, <2>3 DEF WriteManifest, InstallerTypeOK, history
  <2>4. CASE Finish("failed")
    BY <1>4, <2>2, <2>4, FinishTyped DEF WriteManifest, InstallerTypeOK, history
  <2>. QED  BY <1>4, <2>3, <2>4 DEF WriteManifest
<1>5. CASE CopyDylib
  <2>1. PICK w \in Writes(bundle["dylib"], Pulse) :
           /\ bundle' = [bundle EXCEPT !["dylib"] = w.bytes]
           /\ Continue(w.ok, "patching")
    BY <1>5 DEF CopyDylib
  <2>2. w.bytes \in Bytes
    BY WriteOutcomes, BytesOfTheGame, TheEntries DEF InstallerTypeOK
  <2>3. bundle' \in [Entry -> Bytes]
    BY <2>1, <2>2 DEF InstallerTypeOK
  <2>. QED  BY <1>5, <2>1, <2>3 DEF CopyDylib, Continue, InstallerTypeOK, history
<1>6. CASE PatchExecutable
  <2>1. bundle' \in [Entry -> Bytes]
    <3>1. \A w \in Writes(bundle["executable"], Pulse)
              \cup Replaces(bundle["executable"], Pulse) : w.bytes \in Bytes
      BY WriteOutcomes, BytesOfTheGame, TheEntries DEF InstallerTypeOK
    <3>. QED  BY <1>6, <3>1 DEF PatchExecutable, InstallerTypeOK
  <2>2. \E ok : Continue(ok, "signing")
    BY <1>6 DEF PatchExecutable
  <2>. QED  BY <1>6, <2>1, <2>2 DEF PatchExecutable, Continue, InstallerTypeOK, history
<1>7. CASE ResignHost
  <2>1. bundle' \in [Entry -> Bytes]
    <3>1. \A w \in Writes(bundle["signature"], Pulse) : w.bytes \in Bytes
      BY WriteOutcomes, BytesOfTheGame, TheEntries DEF InstallerTypeOK
    <3>. QED  BY <1>7, <3>1 DEF ResignHost, InstallerTypeOK
  <2>2. CASE EndInstall
    BY <1>7, <2>1, <2>2, FinishTyped DEF ResignHost, EndInstall, InstallerTypeOK, history
  <2>3. CASE Continue(FALSE, "idle")
    BY <1>7, <2>1, <2>3 DEF ResignHost, Continue, InstallerTypeOK, history
  <2>. QED  BY <1>7, <2>2, <2>3 DEF ResignHost
<1>8. CASE ResignNative
  <2>1. bundle' \in [Entry -> Bytes] /\ resealed' \in BOOLEAN
    BY <1>8, BytesOfTheGame DEF ResignNative, InstallerTypeOK
  <2>2. CASE EndInstall
    BY <1>8, <2>1, <2>2, FinishTyped DEF EndInstall, InstallerTypeOK, history
  <2>3. CASE Continue(FALSE, "idle")
    BY <1>8, <2>1, <2>3 DEF ResignNative, Continue, InstallerTypeOK, history
  <2>. QED  BY <1>8, <2>2, <2>3 DEF ResignNative
<1>9. CASE RefuseUninstall
  BY <1>9, FinishTyped DEF RefuseUninstall, InstallerTypeOK, disk, history
<1>10. CASE BeginUninstall
  <2>1. manifest.record \in BackupManifest
    BY DEF InstallerTypeOK, ManifestFile
  <2>2. backup' \in BackupManifest /\ todo' \in 0 .. 3 /\ todo' <= backup'.listed
    BY <1>10, <2>1 DEF BeginUninstall, BackupManifest
  <2>. QED  BY <1>10, <2>2 DEF BeginUninstall, InstallerTypeOK, disk, history
<1>11. CASE RestoreEntry
  <2>1. Turn \in Entry
    BY <1>11, TurnType DEF RestoreEntry
  <2>2. bundle' \in [Entry -> Bytes]
    <3>1. backup.saved[Turn] \in Bytes /\ bundle[Turn] \in Bytes
      BY <2>1 DEF InstallerTypeOK, BackupManifest
    <3>2. \A w \in Restores(Turn) : w.bytes \in Bytes
      BY <3>1, WriteOutcomes, BytesOfTheGame DEF Restores
    <3>. QED  BY <1>11, <3>2 DEF RestoreEntry, InstallerTypeOK
  <2>3. touched' \subseteq Entry /\ missed' \subseteq Entry
    BY <1>11, <2>1 DEF RestoreEntry, InstallerTypeOK
  <2>4. todo' \in 0 .. 3 /\ todo' < todo /\ UNCHANGED <<stage, backup, outcome>>
    BY <1>11 DEF RestoreEntry, Advance, InstallerTypeOK
  <2>. QED
    BY <1>11, <2>2, <2>3, <2>4
    DEF RestoreEntry, InstallerTypeOK, BackupManifest
<1>12. CASE EndRestore
  BY <1>12 DEF EndRestore, InstallerTypeOK, GameFile, disk
<1>13. CASE RemoveBackup
  <2>1. origDir' \in [Entry -> Bytes] /\ manifest' \in ManifestFile
    BY <1>13, BytesOfTheGame, NothingSaved
    DEF RemoveBackup, InstallerTypeOK, NoManifest, ManifestFile
  <2>. QED  BY <1>13, <2>1 DEF RemoveBackup, InstallerTypeOK, command, history
<1>14. CASE EndCommand
  BY <1>14, FinishTyped DEF EndCommand, InstallerTypeOK, disk, history
<1>15. CASE Crash
  BY <1>15, FinishTyped DEF Crash, InstallerTypeOK, disk, history
<1>16. ASSUME NEW n \in 1 .. MaxRelease, SteamDelivers(n) PROVE Typed'
  <2>1. bundle' \in [Entry -> Bytes]
    BY <1>16, BytesOfTheGame DEF SteamDelivers, InstallerTypeOK
  <2>. QED  BY <1>16, <2>1 DEF SteamDelivers, InstallerTypeOK, command, history
<1>17. CASE UNCHANGED vars
  BY <1>17 DEF vars, disk, command, history, InstallerTypeOK
<1>. QED
  BY <1>1, <1>2, <1>3, <1>4, <1>5, <1>6, <1>7, <1>8, <1>9, <1>10, <1>11, <1>12,
     <1>13, <1>14, <1>15, <1>16, <1>17
  DEF Next

(* Every variable of the installer holds what its type says, whatever fails *)
(* and wherever the process dies.                                           *)
THEOREM InstallerTyped == Spec => []InstallerTypeOK
<1>1. Spec => []Typed
  BY InitTyped, TypedStep, PTL DEF Spec
<1>2. Typed => InstallerTypeOK
  BY DEF Typed
<1>. QED  BY <1>1, <1>2, PTL
-----------------------------------------------------------------------------
(* What the undo log sees *)

LEMMA LoggedUnchanged == UNCHANGED <<origDir, manifest, shipped>> => Logged' = Logged
BY DEF Logged, Loadable, OrigsMatch, IsOwn

LEMMA OwnUnchanged == UNCHANGED <<bundle, shipped>> => Own' = Own
BY DEF Own, IsOwn

(* A rewrite of one file leaves the others their own. *)
LEMMA OwnOfTheOthers ==
  ASSUME UNCHANGED shipped, NEW f \in Entry, NEW b,
         bundle \in [Entry -> Bytes], bundle' = [bundle EXCEPT ![f] = b]
  PROVE  /\ Own \ {f} = Own' \ {f}
         /\ f \in GameFile => (f \in Own' <=> IsOwn(f, b))
<1>1. GameFile \subseteq Entry
  BY DEF Entry
<1>. QED  BY <1>1 DEF Own, IsOwn

LEMMA NothingReadable == manifest.state = "absent" => Logged = {}
BY DEF Logged, Loadable

LEMMA AllListed ==
  ASSUME NEW b, b.listed = 3
  PROVE  \A f \in Entry : IsListed(b, f)
BY TheEntries DEF IsListed

(* While the installation or the restoration works, what the record lists  *)
(* can be read back, or was given up.                                      *)
LEMMA Held ==
  ASSUME Typed, Safe, stage \in Working \cup {"restoring"},
         NEW f \in GameFile, IsListed(backup, f)
  PROVE  f \in Logged \cup forsaken
<1>1. manifest = Readable(backup) /\ OrigsMatch
  BY DEF Safe, Holding
<1>2. manifest.state = "readable" /\ manifest.record = backup
  BY <1>1 DEF Readable
<1>3. IsOwn(f, backup.saved[f]) \/ f \in forsaken
  BY DEF Safe, RecordsTheGameOnly
<1>. QED  BY <1>1, <1>2, <1>3 DEF Logged, Loadable

LEMMA AllHeld ==
  ASSUME Typed, Safe, stage \in Working
  PROVE  GameFile \subseteq Logged \cup forsaken
<1>1. backup.listed = 3
  BY DEF Typed, FullRecord
<1>2. GameFile \subseteq Entry
  BY DEF Entry
<1>. QED  BY <1>1, <1>2, AllListed, Held

(* Removing a file of the backup directory makes nothing readable. *)
LEMMA RemovalLogsNothing ==
  ASSUME Typed, RemoveBackup
  PROVE  Logged' \subseteq Logged
<1>1. CASE manifest' = NoManifest
  BY <1>1 DEF NoManifest, Logged, Loadable
<1>2. ASSUME NEW f \in GameFile, origDir' = [origDir EXCEPT ![f] = Absent],
             UNCHANGED <<manifest, shipped>>
      PROVE  Logged' \subseteq Logged
  <2>1. origDir \in [Entry -> Bytes]
    BY DEF Typed, InstallerTypeOK
  <2>2. OrigsMatch' => OrigsMatch
    BY <1>2, <2>1 DEF OrigsMatch
  <2>. QED  BY <1>2, <2>2 DEF Logged, Loadable, IsOwn
<1>. QED  BY <1>1, <1>2 DEF RemoveBackup, history

-----------------------------------------------------------------------------
(* Every step is a step of the undo log *)

Quiet == UNCHANGED <<Own, Logged, forsaken>>

LEMMA QuietStep == UNCHANGED <<disk, history>> => Quiet
BY OwnUnchanged, LoggedUnchanged DEF Quiet, disk, history

LEMMA Rewrites ==
  ASSUME Own' \in SUBSET GameFile, Own \ Own' \subseteq Logged \cup forsaken,
         Logged' = Logged, forsaken' = forsaken
  PROVE  Undo!UndoNext
BY DEF Undo!UndoNext, Undo!Rewrite

LEMMA OwnFiles == Own \subseteq GameFile /\ Own' \subseteq GameFile
BY DEF Own

LEMMA LoggedFiles == Logged \subseteq GameFile /\ Logged' \subseteq GameFile
BY DEF Logged

LEMMA StepRefines == IInv /\ [Next]_vars => Undo!UndoNext \/ Quiet
<1>. SUFFICES ASSUME Typed, Safe, [Next]_vars PROVE Undo!UndoNext \/ Quiet
  BY DEF IInv
<1>1. CASE RefuseInstall
  BY <1>1, QuietStep DEF RefuseInstall
<1>2. ASSUME NEW i \in {"host", "native"}, BeginInstall(i) PROVE Quiet
  BY <1>2, QuietStep DEF BeginInstall
<1>3. CASE SaveOriginal
  <2>1. manifest.state = "absent" /\ manifest'.state = "absent"
    BY <1>3 DEF SaveOriginal, Safe, Recording
  <2>2. Logged = {} /\ Logged' = {}
    BY <2>1, NothingReadable DEF Logged, Loadable
  <2>. QED  BY <1>3, <2>2, OwnUnchanged DEF SaveOriginal, Quiet, history
<1>4. CASE WriteManifest
  <2>1. Logged = {}
    BY <1>4, NothingReadable DEF WriteManifest, Safe, Recording
  <2>2. Own' = Own /\ forsaken' = forsaken
    BY <1>4, OwnUnchanged DEF WriteManifest, history
  <2>3. GameFile = Own \cup forsaken
    BY <2>1 DEF Safe, EveryFileIsOwnOrRecorded, Undo!NothingIsLost
  <2>. QED  BY <2>1, <2>2, <2>3, LoggedFiles DEF Undo!UndoNext, Undo!Record
<1>5. CASE CopyDylib \/ PatchExecutable \/ ResignHost \/ ResignNative
  <2>1. stage \in Working
    BY <1>5 DEF CopyDylib, PatchExecutable, ResignHost, ResignNative, Working
  <2>2. UNCHANGED <<origDir, manifest, shipped, forsaken>>
    BY <1>5 DEF CopyDylib, PatchExecutable, ResignHost, ResignNative, Continue, EndInstall,
                history
  <2>3. Own \ Own' \subseteq Logged \cup forsaken
    BY <2>1, AllHeld, OwnFiles
  <2>. QED  BY <2>2, <2>3, Rewrites, LoggedUnchanged, OwnFiles
<1>6. CASE RefuseUninstall
  BY <1>6, QuietStep DEF RefuseUninstall
<1>7. CASE BeginUninstall
  BY <1>7, QuietStep DEF BeginUninstall
<1>8. CASE RestoreEntry
  <2>1. Turn \in Entry /\ IsListed(backup, Turn)
    BY <1>8, TurnType DEF RestoreEntry, Typed, Turning
  <2>2. PICK b : bundle' = [bundle EXCEPT ![Turn] = b]
    BY <1>8 DEF RestoreEntry
  <2>3. UNCHANGED <<origDir, manifest, shipped, forsaken>>
    BY <1>8 DEF RestoreEntry
  <2>4. Own \ {Turn} = Own' \ {Turn}
    BY <2>1, <2>2, <2>3, OwnOfTheOthers DEF Typed, InstallerTypeOK
  <2>5. Turn \in GameFile => Turn \in Logged \cup forsaken
    BY <1>8, <2>1, Held DEF RestoreEntry
  <2>6. Own \ Own' \subseteq Logged \cup forsaken
    BY <2>4, <2>5, OwnFiles
  <2>. QED  BY <2>3, <2>6, Rewrites, LoggedUnchanged, OwnFiles
<1>9. CASE EndRestore
  <2>1. Own' = Own /\ Logged' = Logged
    BY <1>9, OwnUnchanged, LoggedUnchanged DEF EndRestore, disk
  <2>2. \A f \in forsaken' \ forsaken : f \in Logged
    BY <1>9, Held DEF EndRestore, RestoredFirst
  <2>3. forsaken \subseteq forsaken' /\ forsaken' \subseteq GameFile
    BY <1>9 DEF EndRestore, Typed, InstallerTypeOK
  <2>. QED  BY <2>1, <2>2, <2>3 DEF Undo!UndoNext, Undo!GiveUp
<1>10. CASE RemoveBackup
  <2>1. Own' = Own /\ forsaken' = forsaken
    BY <1>10, OwnUnchanged DEF RemoveBackup, history
  <2>2. Logged \subseteq Own \cup forsaken
    BY <1>10 DEF RemoveBackup, Safe, Clearing
  <2>. QED  BY <1>10, <2>1, <2>2, RemovalLogsNothing DEF Undo!UndoNext, Undo!Drop
<1>11. CASE EndCommand
  BY <1>11, QuietStep DEF EndCommand
<1>12. CASE Crash
  BY <1>12, QuietStep DEF Crash
<1>13. ASSUME NEW n \in 1 .. MaxRelease, SteamDelivers(n) PROVE Undo!UndoNext
  <2>1. Own \subseteq Own'
    BY <1>13 DEF SteamDelivers, Own, IsOwn, Game, Entry, history
  <2>2. UNCHANGED <<origDir, manifest, shipped, forsaken>>
    BY <1>13 DEF SteamDelivers, history
  <2>. QED  BY <2>1, <2>2, Rewrites, LoggedUnchanged, OwnFiles
<1>14. CASE UNCHANGED vars
  BY <1>14, QuietStep DEF vars
<1>. QED
  BY <1>1, <1>2, <1>3, <1>4, <1>5, <1>6, <1>7, <1>8, <1>9, <1>10, <1>11, <1>12, <1>13, <1>14
  DEF Next
-----------------------------------------------------------------------------
(* The undo log's promise is an invariant of it. *)
LEMMA PromiseStep ==
  ASSUME EveryFileIsOwnOrRecorded, Undo!UndoNext \/ Quiet
  PROVE  EveryFileIsOwnOrRecorded'
BY OwnFiles, LoggedFiles
DEF EveryFileIsOwnOrRecorded, Undo!NothingIsLost, Undo!UndoNext, Undo!Record, Undo!Drop,
    Undo!Rewrite, Undo!GiveUp, Quiet

LEMMA SafeInit == Init => Safe
<1>. SUFFICES ASSUME Init PROVE Safe
  OBVIOUS
<1>1. Own = GameFile
  BY DEF Init, Own, IsOwn, Game, GameFile, Entry
<1>2. EveryFileIsOwnOrRecorded
  BY <1>1, LoggedFiles DEF EveryFileIsOwnOrRecorded, Undo!NothingIsLost, Init
<1>3. RecordsTheGameOnly
  BY DEF Init, RecordsTheGameOnly, NoBackup, NoManifest, IsListed
<1>. QED
  BY <1>2, <1>3 DEF Init, Safe, Recording, Holding, Restoring, Clearing, Working

(* A command that is over has nothing left to hold. *)
LEMMA IdleSafe ==
  ASSUME Safe, EveryFileIsOwnOrRecorded', stage' = "idle", backup' = NoBackup,
         UNCHANGED history,
         \A f \in GameFile : IsListed(manifest.record, f)' =>
            IsOwn(f, manifest.record.saved[f])' \/ f \in forsaken'
  PROVE  Safe'
<1>1. RecordsTheGameOnly'
  BY DEF RecordsTheGameOnly, NoBackup, IsListed
<1>. QED  BY <1>1 DEF Safe, Recording, Holding, Restoring, Clearing, Working

LEMMA RecordKept ==
  ASSUME Safe, UNCHANGED <<manifest, shipped, forsaken>>
  PROVE  \A f \in GameFile : IsListed(manifest.record, f)' =>
            IsOwn(f, manifest.record.saved[f])' \/ f \in forsaken'
BY DEF Safe, RecordsTheGameOnly, IsListed, IsOwn

(* A step of the installation that works on, or turns to the rollback. *)
LEMMA ContinueSafe ==
  ASSUME Typed, Safe, EveryFileIsOwnOrRecorded', stage \in Working,
         NEW ok \in BOOLEAN, NEW next \in Working \cup {"idle"}, Continue(ok, next),
         ok => next # "idle"
  PROVE  Safe'
<1>1. manifest = Readable(backup) /\ OrigsMatch /\ backup.listed = 3
  BY DEF Safe, Holding, Typed, FullRecord
<1>2. UNCHANGED <<origDir, manifest, backup, shipped, forsaken>>
  BY DEF Continue, history
<1>3. RecordsTheGameOnly' /\ OrigsMatch'
  BY <1>1, <1>2 DEF Safe, RecordsTheGameOnly, OrigsMatch, IsListed, IsOwn
<1>4. stage' \in Working \cup {"restoring"}
  BY DEF Continue
<1>5. stage' = "restoring" => RestoredSoFar'
  BY <1>1, <1>2 DEF Continue, RestoredSoFar, Working
<1>. QED
  BY <1>1, <1>2, <1>3, <1>4, <1>5
  DEF Safe, Recording, Holding, Restoring, Clearing, Working, Readable

LEMMA EndInstallSafe ==
  ASSUME Safe, EveryFileIsOwnOrRecorded', EndInstall
  PROVE  Safe'
<1>1. stage' = "idle" /\ backup' = NoBackup /\ UNCHANGED <<manifest, history>>
  BY DEF EndInstall, Finish
<1>. QED  BY <1>1, IdleSafe, RecordKept DEF history
-----------------------------------------------------------------------------
(* Safe is inductive *)

LEMMA SafeStep == IInv /\ [Next]_vars => Safe'
<1>. SUFFICES ASSUME Typed, Safe, [Next]_vars PROVE Safe'
  BY DEF IInv
<1>0. EveryFileIsOwnOrRecorded'
  BY StepRefines, PromiseStep DEF IInv, Safe
<1>1. CASE RefuseInstall \/ RefuseUninstall \/ EndCommand \/ Crash
  <2>1. stage' = "idle" /\ backup' = NoBackup /\ UNCHANGED <<manifest, history>>
    BY <1>1 DEF RefuseInstall, RefuseUninstall, EndCommand, Crash, Finish, disk
  <2>. QED  BY <1>0, <2>1, IdleSafe, RecordKept DEF history
<1>2. ASSUME NEW i \in {"host", "native"}, BeginInstall(i) PROVE Safe'
  <2>1. manifest'.state = "absent" /\ Logged = {}
    BY <1>2, NothingReadable DEF BeginInstall, AlreadyInstalled, disk
  <2>2. GameFile = Own \cup forsaken
    BY <2>1 DEF Safe, EveryFileIsOwnOrRecorded, Undo!NothingIsLost
  <2>3. \A f \in GameFile : IsOwn(f, backup'.saved[f]) \/ f \in forsaken
    <3>1. \A f \in GameFile : backup'.saved[f] = bundle[f]
      BY <1>2 DEF BeginInstall, BytesBefore, GameFile, Typed, InstallerTypeOK, Entry
    <3>. QED  BY <2>2, <3>1 DEF Own
  <2>4. RecordsTheGameOnly'
    BY <1>2, <2>3 DEF BeginInstall, Safe, RecordsTheGameOnly, IsOwn, IsListed, disk, history
  <2>5. SavedSoFar'
    BY <1>2 DEF BeginInstall, SavedSoFar
  <2>. QED
    BY <1>0, <1>2, <2>1, <2>4, <2>5
    DEF BeginInstall, Safe, Recording, Holding, Restoring, Clearing, Working
<1>3. CASE SaveOriginal
  <2>1. /\ manifest.state = "absent" /\ SavedSoFar /\ backup.listed = 3 /\ todo \in 1 .. 3
        /\ origDir \in [Entry -> Bytes]
    BY <1>3 DEF SaveOriginal, Safe, Recording, Typed, FullRecord, InstallerTypeOK
  <2>2. UNCHANGED <<manifest, shipped, forsaken>>
    BY <1>3 DEF SaveOriginal, history
  <2>3. PICK w \in IF backup.saved[Turn] = Absent THEN {[ok |-> TRUE, bytes |-> origDir[Turn]]}
                   ELSE Writes(origDir[Turn], backup.saved[Turn]) :
           /\ origDir' = [origDir EXCEPT ![Turn] = w.bytes]
           /\ IF w.ok THEN Advance ELSE Finish("failed")
    BY <1>3 DEF SaveOriginal
  <2>4. CASE w.ok
    <3>1. Turn \in Entry /\ Turn = Entries[4 - todo]
      BY <2>1, TheEntries DEF Turn
    <3>2. backup.saved[Turn] # Absent => w.bytes = backup.saved[Turn]
      <4>1. backup.saved[Turn] \in Bytes /\ origDir[Turn] \in Bytes
        BY <3>1 DEF Typed, InstallerTypeOK, BackupManifest
      <4>. QED  BY <2>3, <2>4, <4>1, WriteOutcomes
    <3>3. /\ UNCHANGED <<stage, backup>> /\ todo' = todo - 1
          /\ origDir' = [origDir EXCEPT ![Turn] = w.bytes]
      BY <2>3, <2>4 DEF Advance
    <3>4. SavedSoFar'
      <4>. SUFFICES ASSUME NEW n \in 1 .. 3, n <= 3 - todo', backup.saved[Entries[n]] # Absent
                    PROVE  origDir'[Entries[n]] = backup.saved[Entries[n]]
        BY <3>3 DEF SavedSoFar
      <4>1. CASE n = 4 - todo
        BY <2>1, <3>1, <3>2, <3>3, <4>1
      <4>2. CASE n # 4 - todo
        <5>1. n <= 3 - todo
          BY <2>1, <3>3, <4>2
        <5>2. Entries[n] \in Entry /\ Entries[n] # Turn
          BY <2>1, <3>1, <4>2, TheEntries
        <5>. QED  BY <2>1, <3>3, <5>1, <5>2 DEF SavedSoFar
      <4>. QED  BY <4>1, <4>2
    <3>5. RecordsTheGameOnly'
      BY <2>2, <3>3 DEF Safe, RecordsTheGameOnly, IsListed, IsOwn
    <3>. QED
      BY <1>0, <1>3, <2>1, <2>2, <3>3, <3>4, <3>5
      DEF SaveOriginal, Safe, Recording, Holding, Restoring, Clearing, Working
  <2>5. CASE ~w.ok
    <3>1. Finish("failed") /\ UNCHANGED history
      BY <1>3, <2>3, <2>5 DEF SaveOriginal
    <3>. QED  BY <1>0, <2>2, <3>1, IdleSafe, RecordKept DEF Finish
  <2>. QED  BY <2>4, <2>5
<1>4. CASE WriteManifest
  <2>1. SavedSoFar /\ backup.listed = 3 /\ todo = 0 /\ UNCHANGED <<origDir, shipped, forsaken>>
    BY <1>4 DEF WriteManifest, Safe, Recording, Typed, FullRecord, history, Working
  <2>2. CASE manifest' = Readable(backup) /\ stage' = "copying"
             /\ UNCHANGED <<backup, todo, outcome>>
    <3>1. manifest'.record = backup /\ manifest'.state = "readable"
      BY <2>2 DEF Readable
    <3>2. OrigsMatch'
      <4>1. \A f \in Entry : \E n \in 1 .. 3 : f = Entries[n]
        BY TheEntries
      <4>. QED  BY <2>1, <3>1, <4>1 DEF OrigsMatch, SavedSoFar
    <3>3. RecordsTheGameOnly'
      BY <2>1, <2>2, <3>1 DEF Safe, RecordsTheGameOnly, IsListed, IsOwn
    <3>. QED
      BY <1>0, <2>2, <3>2, <3>3
      DEF Safe, Recording, Holding, Restoring, Clearing, Working, Readable
  <2>3. CASE Finish("failed")
    <3>1. \A f \in GameFile : IsListed(manifest.record, f)' =>
            IsOwn(f, manifest.record.saved[f])' \/ f \in forsaken'
      <4>1. CASE manifest' = manifest
        BY <2>1, <4>1, RecordKept
      <4>2. CASE manifest' = Unreadable
        BY <4>2 DEF Unreadable, NoBackup, IsListed
      <4>3. ASSUME NEW n \in 0 .. 3, manifest' = Readable([backup EXCEPT !.listed = n])
            PROVE  \A f \in GameFile : IsListed(manifest.record, f)' =>
                     IsOwn(f, manifest.record.saved[f])' \/ f \in forsaken'
        <5>1. manifest'.record.saved = backup.saved
          BY <4>3 DEF Readable, Typed, InstallerTypeOK, BackupManifest
        <5>2. \A f \in GameFile : IsListed(backup, f)
          BY <2>1, AllListed DEF Entry
        <5>. QED  BY <2>1, <5>1, <5>2 DEF Safe, RecordsTheGameOnly, IsOwn
      <4>4. CASE manifest' = Readable(backup)
        BY <2>1, <4>4 DEF Safe, RecordsTheGameOnly, IsListed, IsOwn, Readable
      <4>. QED  BY <1>4, <4>1, <4>2, <4>3, <4>4 DEF WriteManifest
    <3>. QED  BY <1>0, <1>4, <2>3, <3>1, IdleSafe DEF WriteManifest, Finish
  <2>. QED  BY <1>4, <2>2, <2>3 DEF WriteManifest
<1>5. CASE CopyDylib \/ PatchExecutable \/ ResignHost \/ ResignNative
  <2>1. stage \in Working
    BY <1>5 DEF CopyDylib, PatchExecutable, ResignHost, ResignNative, Working
  <2>2. CASE EndInstall
    BY <1>0, <2>2, EndInstallSafe
  <2>3. ASSUME NEW ok \in BOOLEAN, NEW next \in Working, Continue(ok, next) PROVE Safe'
    BY <1>0, <2>1, <2>3, ContinueSafe DEF Working
  <2>4. CASE Continue(FALSE, "idle")
    BY <1>0, <2>1, <2>4, ContinueSafe
  <2>5. CASE CopyDylib
    <3>1. \A w \in Writes(bundle["dylib"], Pulse) : w.ok \in BOOLEAN
      BY WriteOutcomes, BytesOfTheGame, TheEntries DEF Typed, InstallerTypeOK
    <3>. QED  BY <2>3, <2>5, <3>1 DEF CopyDylib, Working
  <2>6. CASE PatchExecutable
    <3>1. \A w \in Writes(bundle["executable"], Pulse)
              \cup Replaces(bundle["executable"], Pulse) : w.ok \in BOOLEAN
      BY WriteOutcomes, BytesOfTheGame, TheEntries DEF Typed, InstallerTypeOK
    <3>2. ASSUME NEW w \in Writes(bundle["executable"], Pulse)
                   \cup Replaces(bundle["executable"], Pulse), Continue(w.ok, "signing")
          PROVE  Safe'
      BY <2>3, <3>1, <3>2 DEF Working
    <3>3. CASE Continue(FALSE, "signing")
      BY <2>3, <3>3 DEF Working
    <3>. QED  BY <2>6, <3>2, <3>3 DEF PatchExecutable
  <2>7. CASE ResignHost \/ ResignNative
    BY <2>2, <2>4, <2>7 DEF ResignHost, ResignNative
  <2>. QED  BY <1>5, <2>5, <2>6, <2>7
<1>7. CASE BeginUninstall
  <2>1. /\ manifest = Readable(manifest.record) /\ backup' = manifest.record
        /\ UNCHANGED <<manifest, origDir, shipped, forsaken>> /\ stage' = "restoring"
        /\ todo' = manifest.record.listed /\ OrigsMatch
    BY <1>7 DEF BeginUninstall, Loadable, disk, history, Typed, InstallerTypeOK, ManifestFile,
                Readable
  <2>2. OrigsMatch'
    BY <2>1 DEF OrigsMatch
  <2>3. RecordsTheGameOnly'
    BY <2>1 DEF Safe, RecordsTheGameOnly, IsListed, IsOwn
  <2>4. RestoredSoFar'
    BY <2>1 DEF RestoredSoFar, Typed, InstallerTypeOK, ManifestFile, BackupManifest
  <2>. QED
    BY <1>0, <2>1, <2>2, <2>3, <2>4 DEF Safe, Recording, Holding, Restoring, Clearing, Working
<1>8. CASE RestoreEntry
  <2>1. /\ Turn \in Entry /\ Turn = Entries[backup.listed - todo + 1]
        /\ backup.listed - todo + 1 \in 1 .. 3
    BY <1>8, TurnType DEF RestoreEntry, Typed, Turning, Turn
  <2>2. PICK w \in Restores(Turn) :
           /\ bundle' = [bundle EXCEPT ![Turn] = w.bytes]
           /\ missed' = IF w.ok THEN missed \ {Turn} ELSE missed \cup {Turn}
    BY <1>8 DEF RestoreEntry
  <2>3. UNCHANGED <<origDir, manifest, shipped, forsaken, stage, backup>> /\ todo' = todo - 1
    BY <1>8 DEF RestoreEntry, Advance
  <2>4. manifest = Readable(backup) /\ OrigsMatch /\ RestoredSoFar /\ stage = "restoring"
    BY <1>8 DEF RestoreEntry, Safe, Holding, Restoring
  <2>5. w.ok => w.bytes = backup.saved[Turn]
    <3>1. backup.saved[Turn] \in Bytes /\ bundle[Turn] \in Bytes
      BY <2>1 DEF Typed, InstallerTypeOK, BackupManifest
    <3>. QED  BY <2>2, <3>1, WriteOutcomes, BytesOfTheGame DEF Restores
  <2>6. RestoredSoFar'
    <3>. SUFFICES ASSUME NEW n \in 1 .. 3, n <= backup.listed - todo',
                         Entries[n] \in GameFile, IsOwn(Entries[n], backup.saved[Entries[n]])
                  PROVE  Entries[n] \in Own' \cup missed'
      BY <2>3 DEF RestoredSoFar, IsOwn
    <3>1. /\ Own \ {Turn} = Own' \ {Turn}
          /\ Turn \in GameFile => (Turn \in Own' <=> IsOwn(Turn, w.bytes))
      BY <2>1, <2>2, <2>3, OwnOfTheOthers DEF Typed, InstallerTypeOK
    <3>2. CASE Entries[n] = Turn
      BY <2>2, <2>5, <3>1, <3>2
    <3>3. CASE Entries[n] # Turn
      <4>1. n <= backup.listed - todo
        <5>1. n # backup.listed - todo + 1
          BY <2>1, <3>3
        <5>2. backup.listed \in 0 .. 3 /\ todo \in 0 .. 3
          BY DEF Typed, InstallerTypeOK, BackupManifest
        <5>3. todo' = todo - 1 /\ n <= backup.listed - todo'
          BY <2>3
        <5>. QED  BY <5>1, <5>2, <5>3
      <4>2. Entries[n] \in Own \cup missed
        BY <2>4, <4>1 DEF RestoredSoFar
      <4>. QED  BY <2>2, <3>1, <3>3, <4>2
    <3>. QED  BY <3>2, <3>3
  <2>7. OrigsMatch' /\ RecordsTheGameOnly'
    BY <2>3, <2>4 DEF OrigsMatch, Safe, RecordsTheGameOnly, IsListed, IsOwn
  <2>. QED
    BY <1>0, <2>3, <2>4, <2>6, <2>7
    DEF Safe, Recording, Holding, Restoring, Clearing, Working, Readable
<1>9. CASE EndRestore
  <2>1. /\ stage = "restoring" /\ todo = 0 /\ UNCHANGED <<disk, backup, shipped, missed>>
        /\ stage' = "clearing"
        /\ forsaken' = forsaken \cup {f \in GameFile : IsListed(backup, f) /\ f \in missed}
    BY <1>9 DEF EndRestore, RestoredFirst
  <2>2. RestoredSoFar /\ manifest.record = backup
    BY <2>1 DEF Safe, Holding, Restoring, Readable
  <2>3. Logged' = Logged /\ Own' = Own
    BY <2>1, LoggedUnchanged, OwnUnchanged DEF disk
  <2>4. \A f \in Logged : f \in Own \cup forsaken'
    <3>. SUFFICES ASSUME NEW f \in Logged PROVE f \in Own \cup forsaken'
      OBVIOUS
    <3>1. f \in GameFile /\ IsListed(backup, f) /\ IsOwn(f, backup.saved[f])
      BY <2>2 DEF Logged
    <3>2. PICK n \in 1 .. backup.listed : Entries[n] = f
      BY <3>1 DEF IsListed
    <3>3. n \in 1 .. 3 /\ n <= backup.listed - todo
      BY <2>1 DEF Typed, InstallerTypeOK, BackupManifest
    <3>4. f \in Own \cup missed
      BY <2>2, <3>1, <3>2, <3>3 DEF RestoredSoFar
    <3>. QED  BY <2>1, <3>1, <3>4
  <2>5. RecordsTheGameOnly'
    BY <2>1 DEF Safe, RecordsTheGameOnly, IsListed, IsOwn, disk
  <2>. QED
    BY <1>0, <2>1, <2>3, <2>4, <2>5
    DEF Safe, Recording, Holding, Restoring, Clearing, Working
<1>10. CASE RemoveBackup
  <2>1. stage' = "clearing" /\ UNCHANGED <<bundle, backup, shipped, forsaken>> /\ stage = "clearing"
    BY <1>10 DEF RemoveBackup, command, history
  <2>2. Logged' \subseteq Own' \cup forsaken'
    BY <1>10, <2>1, RemovalLogsNothing, OwnUnchanged DEF Safe, Clearing
  <2>3. RecordsTheGameOnly'
    <3>1. \A f \in GameFile : ~IsListed(NoManifest.record, f)
      BY DEF NoManifest, NoBackup, IsListed
    <3>2. manifest' = NoManifest \/ manifest' = manifest
      BY <1>10 DEF RemoveBackup
    <3>. QED  BY <2>1, <3>1, <3>2 DEF Safe, RecordsTheGameOnly, IsListed, IsOwn
  <2>. QED  BY <1>0, <2>1, <2>2, <2>3 DEF Safe, Recording, Holding, Restoring, Clearing, Working
<1>11. ASSUME NEW n \in 1 .. MaxRelease, SteamDelivers(n) PROVE Safe'
  <2>1. Own \subseteq Own'
    BY <1>11 DEF SteamDelivers, Own, IsOwn, Game, Entry, history
  <2>2. UNCHANGED <<origDir, manifest, stage, backup, todo, shipped, missed, forsaken>>
    BY <1>11 DEF SteamDelivers, history, command
  <2>3. Logged' = Logged
    BY <2>2, LoggedUnchanged
  <2>4. RecordsTheGameOnly' /\ (OrigsMatch => OrigsMatch') /\ (SavedSoFar => SavedSoFar')
    BY <2>2 DEF Safe, RecordsTheGameOnly, IsListed, IsOwn, OrigsMatch, SavedSoFar
  <2>5. RestoredSoFar => RestoredSoFar'
    BY <2>1, <2>2 DEF RestoredSoFar, IsOwn
  <2>. QED
    BY <1>0, <2>1, <2>2, <2>3, <2>4, <2>5
    DEF Safe, Recording, Holding, Restoring, Clearing
<1>12. CASE UNCHANGED vars
  <2>1. UNCHANGED <<bundle, origDir, manifest, stage, backup, todo, shipped, missed, forsaken>>
    BY <1>12 DEF vars, disk, command, history
  <2>2. Logged' = Logged /\ Own' = Own
    BY <2>1, LoggedUnchanged, OwnUnchanged
  <2>3. RecordsTheGameOnly' /\ (OrigsMatch => OrigsMatch') /\ (SavedSoFar => SavedSoFar')
    BY <2>1 DEF Safe, RecordsTheGameOnly, IsListed, IsOwn, OrigsMatch, SavedSoFar
  <2>4. RestoredSoFar => RestoredSoFar'
    BY <2>1, <2>2 DEF RestoredSoFar, IsOwn
  <2>. QED
    BY <1>0, <2>1, <2>2, <2>3, <2>4
    DEF Safe, Recording, Holding, Restoring, Clearing
<1>. QED
  BY <1>1, <1>2, <1>3, <1>4, <1>5, <1>7, <1>8, <1>9, <1>10, <1>11, <1>12 DEF Next
-----------------------------------------------------------------------------
(* Theorems *)

LEMMA Inductive == Spec => []IInv
<1>1. Init => IInv
  BY InitTyped, SafeInit DEF IInv
<1>2. IInv /\ [Next]_vars => IInv'
  BY TypedStep, SafeStep DEF IInv
<1>. QED  BY <1>1, <1>2, PTL DEF Spec

(* A file of the game has the game's bytes, or the record on disk can give *)
(* them back, or a restore failed to write it: on every disk and wherever  *)
(* the process dies (installer.rs, Req 7.2 to 7.4).                        *)
THEOREM NothingOfTheGameIsLost == Spec => []EveryFileIsOwnOrRecorded
<1>1. IInv => EveryFileIsOwnOrRecorded
  BY DEF IInv, Safe
<1>. QED  BY <1>1, Inductive, PTL

(* No record takes what the installer wrote for the game's (Req 7.9). *)
THEOREM RecordsAreTheGames == Spec => []RecordsTheGameOnly
<1>1. IInv => RecordsTheGameOnly
  BY DEF IInv, Safe
<1>. QED  BY <1>1, Inductive, PTL

(* The installer implements the undo log, step by step: what it writes to  *)
(* the bundle and to its backup directory maps to a step of the log.       *)
THEOREM ImplementsTheUndoLog == Spec => KeepsAnUndoLog
<1>1. Init => Undo!UndoInit
  <2>. SUFFICES ASSUME Init PROVE Undo!UndoInit
    OBVIOUS
  <2>1. Own = GameFile
    BY DEF Init, Own, IsOwn, Game, GameFile, Entry
  <2>2. Logged = {}
    BY NothingReadable DEF Init, NoManifest
  <2>. QED  BY <2>1, <2>2 DEF Undo!UndoInit, Init
<1>2. IInv /\ [Next]_vars => [Undo!UndoNext]_<<Own, Logged, forsaken>>
  BY StepRefines DEF Quiet
<1>. QED  BY <1>1, <1>2, Inductive, PTL DEF Spec, KeepsAnUndoLog, Undo!UndoSpec
-----------------------------------------------------------------------------
(* The dylib *)

(* From the copy to the end of an install the dylib is whole; before the   *)
(* copy it is absent, so that a failed copy disturbs no patched executable. *)
DylibInPlace ==
  /\ "executable" \in shipped
  /\ stage \in {"saving", "copying"} => bundle["dylib"] = Absent
  /\ stage \in {"patching", "signing"} => bundle["dylib"] = Pulse
  /\ PatchedFindsItsDylib

(* Once a restore is past the executable, the executable is the game's, or *)
(* could not be written, or had been given up before.                      *)
LEMMA ExecutableIsBack ==
  ASSUME Typed, Safe, DylibInPlace, stage = "restoring", backup.listed - todo >= 1
  PROVE  bundle["executable"] # Pulse \/ "executable" \in missed \cup forsaken
<1>1. Entries[1] = "executable" /\ "executable" \in GameFile
  BY DEF Entries, GameFile
<1>2. RestoredSoFar /\ backup.listed \in 0 .. 3 /\ todo \in 0 .. 3
  BY DEF Safe, Restoring, Typed, InstallerTypeOK, BackupManifest
<1>3. IsListed(backup, "executable")
  BY <1>1, <1>2 DEF IsListed
<1>4. CASE IsOwn("executable", backup.saved["executable"])
  <2>1. "executable" \in Own \cup missed
    BY <1>1, <1>2, <1>4 DEF RestoredSoFar
  <2>. QED  BY <2>1 DEF Own, IsOwn, DylibInPlace, Pulse
<1>5. CASE ~IsOwn("executable", backup.saved["executable"])
  BY <1>1, <1>3, <1>5 DEF Safe, RecordsTheGameOnly
<1>. QED  BY <1>4, <1>5

LEMMA DylibStep == IInv /\ DylibInPlace /\ [Next]_vars => DylibInPlace'
<1>. SUFFICES ASSUME Typed, Safe, DylibInPlace, [Next]_vars PROVE DylibInPlace'
  BY DEF IInv
<1>0. bundle \in [Entry -> Bytes] /\ "dylib" \in Entry /\ "executable" \in Entry
      /\ "signature" \in Entry
  BY TheEntries DEF Typed, InstallerTypeOK
<1>. USE DEF DylibInPlace
<1>1. CASE RefuseInstall \/ RefuseUninstall \/ EndCommand \/ Crash
  BY <1>1 DEF RefuseInstall, RefuseUninstall, EndCommand, Crash, Finish, disk, history,
              PatchedFindsItsDylib
<1>2. ASSUME NEW i \in {"host", "native"}, BeginInstall(i) PROVE DylibInPlace'
  BY <1>2 DEF BeginInstall, AlreadyInstalled, disk, history, PatchedFindsItsDylib
<1>3. CASE SaveOriginal \/ WriteManifest
  BY <1>3 DEF SaveOriginal, WriteManifest, Advance, Finish, history, PatchedFindsItsDylib
<1>4. CASE CopyDylib
  <2>1. PICK w \in Writes(bundle["dylib"], Pulse) :
           /\ bundle' = [bundle EXCEPT !["dylib"] = w.bytes]
           /\ Continue(w.ok, "patching")
    BY <1>4 DEF CopyDylib
  <2>2. w.ok => w.bytes = Pulse
    BY <1>0, WriteOutcomes, BytesOfTheGame
  <2>3. bundle'["executable"] = bundle["executable"] /\ bundle'["dylib"] = w.bytes
    BY <1>0, <2>1
  <2>4. bundle["executable"] = Pulse => "executable" \in missed \cup forsaken
    BY <1>4 DEF CopyDylib, PatchedFindsItsDylib, Absent, Pulse
  <2>. QED  BY <2>1, <2>2, <2>3, <2>4 DEF Continue, history, PatchedFindsItsDylib
<1>5. CASE PatchExecutable
  <2>1. bundle'["dylib"] = Pulse
    BY <1>0, <1>5 DEF PatchExecutable
  <2>2. \E ok : Continue(ok, "signing")
    BY <1>5 DEF PatchExecutable
  <2>. QED  BY <2>1, <2>2 DEF Continue, history, PatchedFindsItsDylib
<1>6. CASE ResignHost \/ ResignNative
  <2>1. bundle'["dylib"] = Pulse
    <3>1. CASE ResignHost
      BY <1>0, <3>1 DEF ResignHost
    <3>2. CASE ResignNative
      BY <1>0, <3>2 DEF ResignNative
    <3>. QED  BY <1>6, <3>1, <3>2
  <2>2. CASE EndInstall
    BY <2>1, <2>2 DEF EndInstall, Finish, history, PatchedFindsItsDylib
  <2>3. CASE Continue(FALSE, "idle")
    BY <2>1, <2>3 DEF Continue, history, PatchedFindsItsDylib
  <2>. QED  BY <1>6, <2>2, <2>3 DEF ResignHost, ResignNative
<1>7. CASE BeginUninstall
  BY <1>7 DEF BeginUninstall, disk, history, PatchedFindsItsDylib
<1>8. CASE RestoreEntry
  <2>1. /\ Turn \in Entry /\ Turn = Entries[backup.listed - todo + 1]
        /\ backup.listed - todo + 1 \in 1 .. 3 /\ IsListed(backup, Turn)
    BY <1>8, TurnType DEF RestoreEntry, Typed, Turning, Turn
  <2>2. PICK w \in Restores(Turn) :
           /\ bundle' = [bundle EXCEPT ![Turn] = w.bytes]
           /\ missed' = IF w.ok THEN missed \ {Turn} ELSE missed \cup {Turn}
    BY <1>8 DEF RestoreEntry
  <2>3. stage = "restoring" /\ UNCHANGED <<stage, backup, shipped, forsaken>>
    BY <1>8 DEF RestoreEntry, Advance
  <2>4. CASE Turn = "executable"
    <3>1. backup.saved[Turn] \in Bytes /\ bundle[Turn] \in Bytes
      BY <1>0, <2>1 DEF Typed, InstallerTypeOK, BackupManifest
    <3>2. w.ok => w.bytes = backup.saved[Turn]
      BY <2>2, <3>1, WriteOutcomes, BytesOfTheGame DEF Restores
    <3>3. IsOwn("executable", backup.saved["executable"]) \/ "executable" \in forsaken
      BY <2>1, <2>4 DEF Safe, RecordsTheGameOnly, GameFile
    <3>4. bundle'["executable"] = w.bytes
      BY <1>0, <2>2, <2>4
    <3>. QED  BY <2>2, <2>3, <2>4, <3>2, <3>3, <3>4 DEF IsOwn, Pulse, PatchedFindsItsDylib
  <2>5. CASE Turn # "executable"
    <3>1. bundle'["executable"] = bundle["executable"]
          /\ ("executable" \in missed' <=> "executable" \in missed)
      BY <1>0, <2>1, <2>2, <2>5
    <3>2. backup.listed - todo >= 1
      BY <2>1, <2>5, TheEntries DEF Typed, InstallerTypeOK, BackupManifest
    <3>. QED  BY <2>3, <3>1, <3>2, ExecutableIsBack DEF PatchedFindsItsDylib
  <2>. QED  BY <2>4, <2>5
<1>9. CASE EndRestore
  BY <1>9 DEF EndRestore, disk, PatchedFindsItsDylib
<1>10. CASE RemoveBackup
  BY <1>10 DEF RemoveBackup, command, history, PatchedFindsItsDylib
<1>11. ASSUME NEW n \in 1 .. MaxRelease, SteamDelivers(n) PROVE DylibInPlace'
  <2>1. bundle'["dylib"] = bundle["dylib"] /\ bundle'["executable"] = Game(n)
    BY <1>0, <1>11 DEF SteamDelivers, Typed, InstallerTypeOK, GameFile
  <2>. QED  BY <1>11, <2>1 DEF SteamDelivers, command, history, PatchedFindsItsDylib, Game, Pulse
<1>12. CASE UNCHANGED vars
  BY <1>12 DEF vars, disk, command, history, PatchedFindsItsDylib
<1>. QED
  BY <1>1, <1>2, <1>3, <1>4, <1>5, <1>6, <1>7, <1>8, <1>9, <1>10, <1>11, <1>12 DEF Next

(* A patched executable finds the dylib it loads, wherever the process     *)
(* dies: the dylib is copied before the patch and goes after the           *)
(* executable is back.                                                     *)
THEOREM GameStarts == Spec => []PatchedFindsItsDylib
<1>1. Init => DylibInPlace
  BY DEF Init, DylibInPlace, PatchedFindsItsDylib, Entry, GameFile, Game, Pulse
<1>2. IInv /\ DylibInPlace /\ [Next]_vars => DylibInPlace'
  BY DylibStep
<1>3. DylibInPlace => PatchedFindsItsDylib
  BY DEF DylibInPlace
<1>. QED  BY <1>1, <1>2, <1>3, Inductive, PTL DEF Spec
=============================================================================
