------------------------------ MODULE Installer ------------------------------
(***************************************************************************)
(* The installer of the loader (cli/src/installer.rs): it copies the dylib *)
(* into the bundle of the game, patches the executable and signs it again; *)
(* an uninstall puts the bytes back.  Before anything is rewritten the     *)
(* original bytes and a manifest go to a directory beside the bundle.      *)
(*                                                                         *)
(* The process may die between any two changes of the disk.  A file is     *)
(* written in place: a write that fails, or that the process does not      *)
(* survive, leaves the old bytes or a part of the new ones.  Steam may     *)
(* replace the game's files at any time.                                   *)
(*                                                                         *)
(* Bytes are abstracted to where they come from: a release of the game,    *)
(* the installer, or a write that was cut off.  A hash is the bytes it was *)
(* computed from.                                                          *)
(***************************************************************************)
EXTENDS Naturals, Sequences

CONSTANTS
  MaxRelease,   \* bound: the last release of the game Steam may deliver
  DiskMayFail   \* may reading, writing or removing a file fail?

ASSUME InstallerAssumption ==
  /\ MaxRelease \in Nat \ {0}
  /\ DiskMayFail \in BOOLEAN

VARIABLES
  bundle,     \* the files of the bundle the installer touches
  resealed,   \* has nested code of the game been signed again?
  origDir,    \* the N.orig files of the backup directory
  manifest,   \* manifest.txt of the backup directory
  stage,      \* how far the command is
  injector,   \* the Injector of the install: the host's seam or the native one
  backup,     \* the BackupManifest in memory
  todo,       \* how many of its entries are still to be written
  touched,    \* the ModifiedFiles of the last command
  outcome     \* what the last command returned

(* History.  shipped: the files the game comes with; missed: the files the  *)
(* last attempt to write back or remove failed for; forsaken: those of them *)
(* whose record was dropped all the same.                                   *)
VARIABLES shipped, missed, forsaken

disk == <<bundle, resealed, origDir, manifest>>
command == <<stage, injector, backup, todo, touched, outcome>>
history == <<shipped, missed, forsaken>>
vars == <<disk, command, history>>

(* The files recorded, in the order of the entries. *)
GameFile == {"executable", "signature"}
Entry == GameFile \cup {"dylib"}
DylibFirst == <<"dylib", "executable", "signature">>   \* slip: the dylib is removed first
Entries == <<"executable", "signature", "dylib">>

Bytes == [from : {"game", "pulse", "torn", "absent"}, release : 0 .. MaxRelease]

Game(n) == [from |-> "game", release |-> n]
Pulse == [from |-> "pulse", release |-> 0]
Torn == [from |-> "torn", release |-> 0]
Absent == [from |-> "absent", release |-> 0]

NoBytes == [f \in Entry |-> Absent]

(* A manifest that was cut off is read as far as its lines are whole, or   *)
(* not at all; listed: how many entries it has.  An entry whose bytes are  *)
(* absent is a CreatedAbsent.                                              *)
BackupManifest == [listed : 0 .. 3, saved : [Entry -> Bytes]]
ManifestFile == [state : {"absent", "unreadable", "readable"}, record : BackupManifest]

NoBackup == [listed |-> 0, saved |-> NoBytes]
NoManifest == [state |-> "absent", record |-> NoBackup]
Unreadable == [state |-> "unreadable", record |-> NoBackup]
Readable(b) == [state |-> "readable", record |-> b]

InstallerTypeOK ==
  /\ bundle \in [Entry -> Bytes]
  /\ resealed \in BOOLEAN
  /\ origDir \in [Entry -> Bytes]
  /\ manifest \in ManifestFile
  /\ stage \in {"idle", "saving", "copying", "patching", "signing",
                "restoring", "clearing"}
  /\ injector \in {"host", "native"}
  /\ backup \in BackupManifest
  /\ todo \in 0 .. 3
  /\ touched \subseteq Entry
  /\ outcome \in {"none", "installed", "uninstalled", "refused", "failed"}
  /\ shipped \subseteq GameFile
  /\ missed \subseteq Entry
  /\ forsaken \subseteq GameFile

Init ==
  /\ shipped \in {GameFile, {"executable"}}
  /\ bundle = [f \in Entry |-> IF f \in shipped THEN Game(1) ELSE Absent]
  /\ resealed = FALSE
  /\ origDir = NoBytes
  /\ manifest = NoManifest
  /\ stage = "idle"
  /\ injector = "host"
  /\ backup = NoBackup
  /\ todo = 0
  /\ touched = {}
  /\ outcome = "none"
  /\ missed = {}
  /\ forsaken = {}
-----------------------------------------------------------------------------
(* What writing new over old may leave, in place or by renaming. *)
Writes(old, new) ==
  {[ok |-> TRUE, bytes |-> new]}
    \cup IF DiskMayFail THEN {[ok |-> FALSE, bytes |-> old], [ok |-> FALSE, bytes |-> Torn]}
                        ELSE {}

Replaces(old, new) ==
  {[ok |-> TRUE, bytes |-> new]} \cup IF DiskMayFail THEN {[ok |-> FALSE, bytes |-> old]} ELSE {}

Finish(result) ==
  /\ stage' = "idle"
  /\ outcome' = result
  /\ backup' = NoBackup
  /\ todo' = 0

-----------------------------------------------------------------------------
(* Install *)

(* A part of an executable may still begin with the magic of a Mach-O. *)
RecognizesGd == bundle["executable"] # Absent

DylibInstalled == bundle["dylib"] # Absent   \* slip: the manifest is not looked at

AlreadyInstalled == manifest.state # "absent" \/ bundle["dylib"] # Absent

Unrecognized == bundle["executable"].from = "torn" \/ DiskMayFail

RefuseInstall ==
  /\ stage = "idle"
  /\ AlreadyInstalled \/ Unrecognized
  /\ Finish("refused")
  /\ touched' = {}
  /\ UNCHANGED <<disk, injector, history>>

OnlyTheExecutable ==   \* slip: the signature is taken to be created
  [NoBytes EXCEPT !["executable"] = bundle["executable"]]

(* The bytes of every file to be touched; the dylib is recorded as absent. *)
BytesBefore == [bundle EXCEPT !["dylib"] = Absent]

BeginInstall(i) ==
  /\ stage = "idle"
  /\ RecognizesGd
  /\ ~AlreadyInstalled
  /\ stage' = "saving"
  /\ injector' = i
  /\ backup' = [listed |-> 3, saved |-> BytesBefore]
  /\ todo' = 3
  /\ touched' = {}
  /\ outcome' = "none"
  /\ UNCHANGED <<disk, history>>

(* The entry whose turn it is. *)
Turn == Entries[backup.listed - todo + 1]

AdvancePastAbsent ==   \* slip: an absent file is skipped with the one behind it
  /\ todo' = todo - (IF backup.saved[Turn] = Absent THEN 2 ELSE 1)
  /\ UNCHANGED <<stage, backup, outcome>>

Advance ==
  /\ todo' = todo - 1
  /\ UNCHANGED <<stage, backup, outcome>>

(* One N.orig for every file that was there. *)
SaveOriginal ==
  /\ stage = "saving"
  /\ todo > 0
  /\ \E w \in IF backup.saved[Turn] = Absent THEN {[ok |-> TRUE, bytes |-> origDir[Turn]]}
              ELSE Writes(origDir[Turn], backup.saved[Turn]) :
       /\ origDir' = [origDir EXCEPT ![Turn] = w.bytes]
       /\ IF w.ok THEN Advance ELSE Finish("failed")
  /\ UNCHANGED <<bundle, resealed, manifest, injector, touched, history>>

(* The manifest comes last: with it the record is complete.  An install    *)
(* that cannot write it ends without a rollback.                           *)
WriteManifest ==
  /\ stage = "saving"
  /\ todo = 0
  /\ \/ /\ manifest' = Readable(backup)
        /\ stage' = "copying"
        /\ UNCHANGED <<backup, todo, outcome>>
     \/ /\ DiskMayFail
        /\ \/ manifest' \in {manifest, Unreadable}
           \/ \E n \in 0 .. 3 : manifest' = Readable([backup EXCEPT !.listed = n])
        /\ Finish("failed")
  /\ UNCHANGED <<bundle, resealed, origDir, injector, touched, history>>

(* A step of the installation goes on to the next, or the rollback begins. *)
Continue(ok, next) ==
  /\ stage' = IF ok THEN next ELSE "restoring"
  /\ todo' = IF ok THEN 0 ELSE 3
  /\ outcome' = IF ok THEN "none" ELSE "failed"
  /\ UNCHANGED <<origDir, manifest, injector, backup, touched, history>>

CopyDylib ==
  /\ stage = "copying"
  /\ \E w \in Writes(bundle["dylib"], Pulse) :
       /\ bundle' = [bundle EXCEPT !["dylib"] = w.bytes]
       /\ Continue(w.ok, "patching")
  /\ UNCHANGED resealed

(* The host's seam appends to the executable in place; the native injector *)
(* replaces it by a patched copy, and may find no room for the command.    *)
PatchExecutable ==
  /\ stage = "patching"
  /\ \/ \E w \in IF injector = "host" THEN Writes(bundle["executable"], Pulse)
                 ELSE Replaces(bundle["executable"], Pulse) :
          /\ bundle' = [bundle EXCEPT !["executable"] = w.bytes]
          /\ Continue(w.ok, "signing")
     \/ /\ injector = "native"
        /\ Continue(FALSE, "signing")
        /\ UNCHANGED bundle
  /\ UNCHANGED resealed

EndInstall ==
  /\ Finish("installed")
  /\ touched' = Entry
  /\ UNCHANGED <<origDir, manifest, injector, history>>

ResignHost ==
  /\ stage = "signing"
  /\ injector = "host"
  /\ \E w \in Writes(bundle["signature"], Pulse) :
       /\ bundle' = [bundle EXCEPT !["signature"] = w.bytes]
       /\ IF w.ok THEN EndInstall ELSE Continue(FALSE, "idle")
  /\ UNCHANGED resealed

(* codesign --deep signs the dylib, then the whole bundle with all nested  *)
(* code; it may give up at any point of that.                              *)
ResignNative ==
  /\ stage = "signing"
  /\ injector = "native"
  /\ \/ /\ bundle' = [f \in Entry |-> Pulse]
        /\ resealed' = TRUE
        /\ EndInstall
     \/ /\ \E signed \in SUBSET Entry :
             bundle' = [f \in Entry |-> IF f \in signed THEN Pulse ELSE bundle[f]]
        /\ resealed' \in {resealed, TRUE}
        /\ Continue(FALSE, "idle")
-----------------------------------------------------------------------------
(* Uninstall, and the rollback of an install *)

IsListed(b, f) == \E n \in 1 .. b.listed : Entries[n] = f

(* Every entry that has bytes has a file with just these. *)
OrigsMatch ==
  \A f \in Entry :
    IsListed(manifest.record, f) /\ manifest.record.saved[f] # Absent
      => origDir[f] = manifest.record.saved[f]

Loadable == manifest.state = "readable" /\ OrigsMatch

RefuseUninstall ==
  /\ stage = "idle"
  /\ ~Loadable \/ DiskMayFail
  /\ Finish("refused")
  /\ touched' = {}
  /\ UNCHANGED <<disk, injector, history>>

BeginUninstall ==
  /\ stage = "idle"
  /\ Loadable
  /\ stage' = "restoring"
  /\ backup' = manifest.record
  /\ todo' = manifest.record.listed
  /\ touched' = {}
  /\ outcome' = "uninstalled"
  /\ UNCHANGED <<disk, injector, history>>

(* Writing a file back, or removing one that was absent.  Errors are       *)
(* ignored, and a file to be removed is listed whether it is gone or not.  *)
Restores(f) ==
  IF backup.saved[f] # Absent THEN Writes(bundle[f], backup.saved[f])
  ELSE IF bundle[f] = Absent THEN {[ok |-> TRUE, bytes |-> Absent]}
  ELSE Replaces(bundle[f], Absent)

RestoreEntry ==
  /\ stage = "restoring"
  /\ todo > 0
  /\ \E w \in Restores(Turn) :
       /\ bundle' = [bundle EXCEPT ![Turn] = w.bytes]
       /\ missed' = IF w.ok THEN missed \ {Turn} ELSE missed \cup {Turn}
       /\ touched' = IF w.ok \/ backup.saved[Turn] = Absent THEN touched \cup {Turn}
                     ELSE touched
  /\ Advance
  /\ UNCHANGED <<resealed, origDir, manifest, injector, shipped, forsaken>>

ClearAtOnce == stage = "restoring" /\ todo <= 2   \* slip: once the executable is back

RestoredFirst == stage = "restoring" /\ todo = 0

(* The record is dropped, also after a write that failed. *)
EndRestore ==
  /\ RestoredFirst
  /\ stage' = "clearing"
  /\ forsaken' = forsaken \cup {f \in GameFile : IsListed(backup, f) /\ f \in missed}
  /\ UNCHANGED <<disk, injector, backup, todo, touched, outcome, shipped, missed>>

(* The files of the backup directory go in the order the system lists them. *)
RemoveBackup ==
  /\ stage = "clearing"
  /\ \/ /\ manifest' = NoManifest
        /\ UNCHANGED origDir
     \/ /\ \E f \in GameFile : origDir' = [origDir EXCEPT ![f] = Absent]
        /\ UNCHANGED manifest
  /\ UNCHANGED <<bundle, resealed, command, history>>

EndCommand ==
  /\ stage = "clearing"
  /\ DiskMayFail \/ (manifest = NoManifest /\ origDir = NoBytes)
  /\ Finish(outcome)
  /\ UNCHANGED <<disk, injector, touched, history>>
-----------------------------------------------------------------------------
(* The process dies; Steam updates or repairs the game. *)
Crash ==
  /\ stage # "idle"
  /\ Finish("none")
  /\ touched' = {}
  /\ UNCHANGED <<disk, injector, history>>

SteamDelivers(n) ==
  /\ bundle' = [f \in Entry |-> IF f \in shipped THEN Game(n) ELSE bundle[f]]
  /\ resealed' = FALSE
  /\ UNCHANGED <<origDir, manifest, command, history>>

Next ==
  \/ RefuseInstall \/ \E i \in {"host", "native"} : BeginInstall(i)
  \/ SaveOriginal \/ WriteManifest
  \/ CopyDylib \/ PatchExecutable \/ ResignHost \/ ResignNative
  \/ RefuseUninstall \/ BeginUninstall \/ RestoreEntry \/ EndRestore
  \/ RemoveBackup \/ EndCommand \/ Crash
  \/ \E n \in 1 .. MaxRelease : SteamDelivers(n)

Spec == Init /\ [][Next]_vars
-----------------------------------------------------------------------------
(* Properties *)

(* Bytes that the game came with, for a file it has or has not. *)
IsOwn(f, b) == IF f \in shipped THEN b.from = "game" ELSE b = Absent

Own == {f \in GameFile : IsOwn(f, bundle[f])}

Logged ==
  {f \in GameFile : /\ Loadable
                    /\ IsListed(manifest.record, f)
                    /\ IsOwn(f, manifest.record.saved[f])}

Undo == INSTANCE UndoLog WITH File <- GameFile, own <- Own, logged <- Logged

(* The installer keeps the undo log's promise (Req 7.2 to 7.4): whenever   *)
(* it dies, whatever fails, a file is rewritten only while its own bytes   *)
(* can be read back, and they are dropped only when the file has them or   *)
(* writing them failed.                                                    *)
KeepsAnUndoLog == Undo!UndoSpec

(* A file of the game has the game's bytes, or the next uninstall has them, *)
(* or a restore could not write it: also where install and uninstall both  *)
(* refuse (a manifest that was cut off, an N.orig that is gone).           *)
EveryFileIsOwnOrRecorded == Undo!NothingIsLost

(* No record ever takes the installer's bytes, or part of a file, for the  *)
(* game's: a second install over a first, a crashed or a half undone one   *)
(* is refused (Req 7.9), unless a restore gave the file up.                *)
RecordsTheGameOnly ==
  \A b \in {backup, manifest.record} : \A f \in GameFile :
    IsListed(b, f) => IsOwn(f, b.saved[f]) \/ f \in forsaken

(* A patched executable finds the dylib it loads, or the game would not    *)
(* start: copied before the patch, removed after the executable is back,   *)
(* in every crash in between; unless the executable could not be restored. *)
PatchedFindsItsDylib ==
  bundle["executable"] = Pulse =>
    bundle["dylib"] = Pulse \/ "executable" \in missed \cup forsaken
=============================================================================
