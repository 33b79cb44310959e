---------------------------- MODULE CrashSentinel ----------------------------
(***************************************************************************)
(* The crash sentinel (loader/hooking/crash_sentinel): a marker on disk    *)
(* tells the next process how this one ended, and a mod that was active in *)
(* a crash of the first 60 seconds is disabled until the user enables it.  *)
(* The sentinel keeps the list; that no disabled mod is loaded (Req 18.2)  *)
(* is left to a caller of isModDisabled, and the loader has none, so here  *)
(* the runtime may record any mod as the active one.                       *)
(*                                                                         *)
(* The process may die between any two changes of the disk.  A file is     *)
(* written to a temporary name and renamed; where the rename fails the old *)
(* file is removed and the rename is tried again, so that a failed write   *)
(* leaves the old file or none.                                            *)
(*                                                                         *)
(* A list that cannot be read leaves the process with an empty one, which  *)
(* the next change of the list writes over the old.                        *)
(* A corrupt marker is removed and counts as none; here it is absent.      *)
(* The heartbeat's clock is the fact that the 60 seconds have passed.      *)
(***************************************************************************)
EXTENDS Naturals, Sequences

CONSTANTS
  Mod,          \* the mods of the game
  None,         \* no mod, no marker, no report
  Records,      \* the owners of the records of the Rollback_Store, in order
  DiskMayFail   \* may writing, removing or reading a file fail?

SessionMarker ==
  [graceSurvived : BOOLEAN, cleanShutdown : BOOLEAN, activeMod : Mod \cup {None}]

SentinelOutcome == {"NoPreviousSession", "CleanShutdown", "CrashOutsideWindow",
                    "NoActiveModToBlame", "AutoDisabled", "RestoreFailed"}

ASSUME SentinelAssumption ==
  /\ None \notin Mod \cup SessionMarker \cup SentinelOutcome
  /\ Records \in Seq(Mod)
  /\ DiskMayFail \in BOOLEAN

VARIABLES
  markerFile,     \* the Session_Marker on disk
  disabledFile,   \* the disabled mods on disk
  stage,          \* how far the process is
  marker,         \* marker_
  disabled,       \* disabled_
  report,         \* the RecoveryReport
  todo,           \* records of the blamed mod that are still to be restored
  elapsed         \* have 60 seconds passed since the startupTime?

(* History, which no action reads.  session: what the runtime told the     *)
(* sentinel since it began; due: the mod to which the end of the last      *)
(* process is to be charged; doubt: the last write, removal or read of the *)
(* marker failed; owed: mods charged, with the marker safely on disk, that *)
(* the user has not enabled since; excused: those of them the sentinel may *)
(* have lost to a failing disk or to a crash of the recovery; blind: this  *)
(* process could not read the list.                                        *)
VARIABLES session, due, doubt, owed, excused, blind

files == <<markerFile, disabledFile>>
memory == <<stage, marker, disabled, report, todo, elapsed>>
history == <<session, due, doubt, owed, excused, blind>>
vars == <<files, memory, history>>

FreshMarker == [graceSurvived |-> FALSE, cleanShutdown |-> FALSE, activeMod |-> None]

RecoveryReport ==
  [outcome : SentinelOutcome \cup {None}, blamedMod : Mod \cup {None},
   restored : SUBSET (DOMAIN Records)]

NoReport == [outcome |-> None, blamedMod |-> None, restored |-> {}]

SentinelTypeOK ==
  /\ markerFile \in SessionMarker \cup {None}
  /\ disabledFile \subseteq Mod
  /\ stage \in {"down", "new", "blaming", "restoring", "ready"}
  /\ marker \in SessionMarker \cup {None}
  /\ disabled \subseteq Mod
  /\ report \in RecoveryReport
  /\ todo \subseteq DOMAIN Records
  /\ elapsed \in BOOLEAN
  /\ session \in SessionMarker
  /\ due \in Mod \cup {None}
  /\ doubt \in BOOLEAN
  /\ owed \subseteq Mod
  /\ excused \subseteq owed
  /\ blind \in BOOLEAN

Init ==
  /\ markerFile = None
  /\ disabledFile = {}
  /\ stage = "down"
  /\ marker = None
  /\ disabled = {}
  /\ report = NoReport
  /\ todo = {}
  /\ elapsed = FALSE
  /\ session = FreshMarker
  /\ due = None
  /\ doubt = FALSE
  /\ owed = {}
  /\ excused = {}
  /\ blind = FALSE
-----------------------------------------------------------------------------
(* Files *)

(* What becomes of a file that holds old when new is written over it. *)
Writes(old, new, absent) ==
  {[ok |-> TRUE, file |-> new]}
    \cup IF DiskMayFail THEN {[ok |-> FALSE, file |-> old], [ok |-> FALSE, file |-> absent]}
                        ELSE {}

PersistMarker(m) ==
  \E w \in Writes(markerFile, m, None) : markerFile' = w.file /\ doubt' = ~w.ok

(* Whom the list does not hold afterwards was lost to a failed write, or   *)
(* to a failed read before it.                                             *)
PersistDisabled(mods) ==
  \E w \in Writes(disabledFile, mods, {}) :
    /\ disabledFile' = w.file
    /\ excused' = (excused \cup {m \in owed' : (~w.ok \/ blind) /\ m \notin w.file}) \cap owed'

-----------------------------------------------------------------------------
(* The process starts *)

(* The constructor does not look at what became of reading the list. *)
Start ==
  /\ stage = "down"
  /\ stage' = "new"
  /\ \/ disabled' = disabledFile /\ blind' = FALSE
     \/ DiskMayFail /\ disabledFile # {} /\ disabled' = {} /\ blind' = TRUE
  /\ UNCHANGED <<files, marker, report, todo, elapsed, session, due, doubt, owed, excused>>

(* No marker, or one that cannot be read and stays. *)
RecoverNothing ==
  /\ stage = "new"
  /\ markerFile = None \/ DiskMayFail
  /\ stage' = "ready"
  /\ report' = [NoReport EXCEPT !.outcome = "NoPreviousSession"]
  /\ doubt' = (doubt \/ markerFile # None)
  /\ due' = None
  /\ excused' = IF markerFile # None THEN excused \cup ({due} \cap owed) ELSE excused
  /\ UNCHANGED <<files, marker, disabled, todo, elapsed, session, owed, blind>>

Absolution(m) ==
  IF m.cleanShutdown THEN "CleanShutdown"
  ELSE IF m.graceSurvived THEN "CrashOutsideWindow"
  ELSE IF m.activeMod = None THEN "NoActiveModToBlame" ELSE None

(* The marker is removed first, whether or not that succeeds, and judged.  *)
ConsumeMarker ==
  /\ stage = "new"
  /\ markerFile # None
  /\ \E w \in {[ok |-> TRUE, file |-> None], [ok |-> FALSE, file |-> markerFile]} :
       /\ w.ok \/ DiskMayFail
       /\ markerFile' = w.file
       /\ doubt' = ~w.ok
  /\ LET outcome == Absolution(markerFile)
     IN  IF outcome = None
         THEN /\ stage' = "blaming"
              /\ report' = [NoReport EXCEPT !.blamedMod = markerFile.activeMod]
         ELSE /\ stage' = "ready"
              /\ report' = [NoReport EXCEPT !.outcome = outcome]
  /\ due' = None
  /\ UNCHANGED <<disabledFile, marker, disabled, todo, elapsed, session, owed, excused, blind>>

RecordsOf(m) == {i \in DOMAIN Records : Records[i] = m}

DisableAfterPersist ==   \* slip: the list is written before the mod is on it
  /\ stage = "blaming"
  /\ disabled' = disabled \cup {report.blamedMod}
  /\ UNCHANGED owed
  /\ PersistDisabled(disabled)
  /\ todo' = RecordsOf(report.blamedMod)
  /\ stage' = "restoring"
  /\ UNCHANGED <<markerFile, marker, report, elapsed, session, due, doubt, blind>>

(* Before anything is restored; that the list was persisted is not checked. *)
DisableBlamed ==
  /\ stage = "blaming"
  /\ disabled' = disabled \cup {report.blamedMod}
  /\ UNCHANGED owed
  /\ PersistDisabled(disabled')
  /\ todo' = RecordsOf(report.blamedMod)
  /\ stage' = "restoring"
  /\ UNCHANGED <<markerFile, marker, report, elapsed, session, due, doubt, blind>>

(* The records are restored in the order of the store. *)
NextRecord == CHOOSE i \in todo : \A j \in todo : i <= j

RestoreRecord ==
  /\ stage = "restoring"
  /\ todo # {}
  /\ report' = [report EXCEPT !.restored = @ \cup {NextRecord}]
  /\ todo' = todo \ {NextRecord}
  /\ UNCHANGED <<files, stage, marker, disabled, elapsed, history>>

(* The first record that cannot be written back ends the restoration. *)
RestoreFails ==
  /\ stage = "restoring"
  /\ todo # {}
  /\ report' = [report EXCEPT !.outcome = "RestoreFailed"]
  /\ todo' = {}
  /\ stage' = "ready"
  /\ UNCHANGED <<files, marker, disabled, elapsed, history>>

RestoreEnds ==
  /\ stage = "restoring"
  /\ todo = {}
  /\ report' = [report EXCEPT !.outcome = "AutoDisabled"]
  /\ stage' = "ready"
  /\ UNCHANGED <<files, marker, disabled, todo, elapsed, history>>

-----------------------------------------------------------------------------
(* The session *)

Tell(m, s) ==
  /\ stage = "ready"
  /\ marker' = m
  /\ session' = s
  /\ UNCHANGED <<disabledFile, stage, disabled, report, todo, due, owed, excused, blind>>

BeginSession ==
  /\ Tell(FreshMarker, FreshMarker)
  /\ PersistMarker(marker')
  /\ elapsed' = FALSE

Current == IF marker = None THEN FreshMarker ELSE marker

RecordInMemory(m) ==   \* slip: the marker is not persisted
  /\ Tell([Current EXCEPT !.activeMod = m], [session EXCEPT !.activeMod = m])
  /\ elapsed' = IF marker = None THEN FALSE ELSE elapsed
  /\ UNCHANGED <<markerFile, doubt>>

(* A mod becomes active, a disabled one too; without a session one begins. *)
RecordActiveMod(m) ==
  /\ Tell([Current EXCEPT !.activeMod = m], [session EXCEPT !.activeMod = m])
  /\ PersistMarker(marker')
  /\ elapsed' = IF marker = None THEN FALSE ELSE elapsed

(* Without a session the rest does nothing. *)
Heartbeat ==
  /\ marker # None
  /\ Tell([marker EXCEPT !.graceSurvived = @ \/ elapsed],
          [session EXCEPT !.graceSurvived = @ \/ elapsed])
  /\ PersistMarker(marker')
  /\ UNCHANGED elapsed

MarkGraceSurvived ==
  /\ marker # None
  /\ Tell([marker EXCEPT !.graceSurvived = TRUE], [session EXCEPT !.graceSurvived = TRUE])
  /\ PersistMarker(marker')
  /\ UNCHANGED elapsed

MarkCleanShutdown ==
  /\ marker # None
  /\ Tell([marker EXCEPT !.cleanShutdown = TRUE], [session EXCEPT !.cleanShutdown = TRUE])
  /\ PersistMarker(marker')
  /\ UNCHANGED elapsed

EnableMod(m) ==
  /\ stage = "ready"
  /\ m \in disabled
  /\ disabled' = disabled \ {m}
  /\ owed' = owed \ {m}
  /\ PersistDisabled(disabled')
  /\ UNCHANGED <<markerFile, stage, marker, report, todo, elapsed, session, due, doubt, blind>>

(* 60 seconds after the startup. *)
PassGraceWindow ==
  /\ marker # None
  /\ ~elapsed
  /\ elapsed' = TRUE
  /\ UNCHANGED <<files, stage, marker, disabled, report, todo, history>>

(* The process ends, in order or not, at any point.  It is charged to the  *)
(* mod that was active in a session neither closed nor past its 60 s; one  *)
(* that dies before it looked at the marker leaves things as they were.    *)
Charged ==
  IF Absolution(session) = None THEN session.activeMod ELSE None

End ==
  /\ stage # "down"
  /\ stage' = "down"
  /\ marker' = None
  /\ disabled' = {}
  /\ report' = NoReport
  /\ todo' = {}
  /\ elapsed' = FALSE
  /\ session' = FreshMarker
  /\ due' = IF stage = "new" THEN due ELSE Charged
  /\ owed' = IF Charged # None /\ ~doubt THEN owed \cup {Charged} ELSE owed
  /\ excused' = (IF Charged # None /\ ~doubt THEN excused \ {Charged} ELSE excused)
                   \cup (IF stage = "blaming" THEN {report.blamedMod} \cap owed ELSE {})
  /\ blind' = FALSE
  /\ UNCHANGED <<files, doubt>>

Next ==
  \/ Start \/ RecoverNothing \/ ConsumeMarker
  \/ DisableBlamed \/ RestoreRecord \/ RestoreFails \/ RestoreEnds
  \/ BeginSession \/ Heartbeat \/ MarkGraceSurvived \/ MarkCleanShutdown
  \/ \E m \in Mod : RecordActiveMod(m) \/ EnableMod(m)
  \/ PassGraceWindow \/ End

Spec == Init /\ [][Next]_vars
-----------------------------------------------------------------------------
(* Properties *)

(* A mod that was active when a process died in its first 60 seconds is on *)
(* the list of disabled mods, on disk and in every later process, until    *)
(* the user enables it, however many crashes, recoveries of other mods and *)
(* changes of the list come in between; unless a write failed, the list    *)
(* could not be read or the recovery itself was cut off.                   *)
RemembersTheCharged ==
  stage = "ready" =>
    /\ owed \subseteq disabledFile \cup excused
    /\ ~blind => owed \subseteq disabled \cup excused

(* The mod a recovery blames is the one that was active when the last      *)
(* process died, and one crash is charged once: after a clean end, after   *)
(* the 60 seconds, or for a crash already dealt with, nobody is blamed;    *)
(* unless the last write or removal of the marker failed.                  *)
ChargesTheLastActive ==
  [][stage = "new" /\ stage' = "blaming" => doubt \/ report'.blamedMod = due]_vars

(* A recovery writes back records of the blamed mod only, all of them when *)
(* it reports AutoDisabled, not all when it reports RestoreFailed, and the *)
(* mod is disabled in either case before the first byte is written (18.5). *)
RestoresTheBlamed ==
  LET own == {i \in DOMAIN Records : Records[i] = report.blamedMod}
  IN  /\ report.restored \subseteq own
      /\ report.outcome = "AutoDisabled" => report.restored = own
      /\ report.outcome = "RestoreFailed" => report.restored # own
      /\ stage = "restoring" => report.blamedMod \in disabled

(* A recovery deals with the culprit and with nobody else. *)
RecoversFromTheCulprit == SentinelTypeOK /\ RemembersTheCharged /\ RestoresTheBlamed
=============================================================================
