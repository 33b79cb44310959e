---------------------------- MODULE GameRunProofs ----------------------------
(***************************************************************************)
(* What is known when a run of the game is over, however it ended.         *)
(*                                                                         *)
(* The sentinel, in the game, blames the mod that was active, and keeps a  *)
(* charged mod on its list, for every set of mods and every store, on     *)
(* every disk.  Each part of its invariant says, stage by stage, what   *)
(* one of its stores is worth: the memory, the marker on disk, the list of *)
(* disabled mods and the report.                                           *)
(*                                                                         *)
(* pulse logs, beside the game, tidies up and has printed what was         *)
(* written, however many lines that is.  The main thread goes through its  *)
(* stages one by one, and each stage keeps what the ones before it waited  *)
(* for; and what is printed and what is in the channel, one after the      *)
(* other, are the lines the readers have taken.                            *)
(***************************************************************************)
EXTENDS CrashSentinel, LogStream, SequenceLemmas

------------------------------------------------------------------------------
(* The sentinel *)

(* What the runtime told the sentinel is what its marker holds. *)
MemoryIsTheSession == session = Current /\ (stage # "ready" => marker = None)

(* Whom a marker accuses. *)
Accused(m) == IF Absolution(m) = None THEN m.activeMod ELSE None

(* A marker that was written safely is the one in memory, and between two  *)
(* processes it accuses the mod that is to be charged.                     *)
MarkerIsOnDisk ==
  ~doubt => IF stage \in {"down", "new"}
            THEN due = IF markerFile = None THEN None ELSE Accused(markerFile)
            ELSE markerFile = marker

(* A charged mod is on the list, on disk and in memory, or is about to be. *)
ChargedIsListed ==
  LET toBeListed == CASE stage \in {"down", "new"} -> IF doubt THEN {} ELSE {due}
                      [] stage = "blaming" -> {report.blamedMod}
                      [] OTHER -> {}
  IN  /\ owed \subseteq disabledFile \cup excused \cup toBeListed
      /\ stage # "down" /\ ~blind => owed \subseteq disabled \cup excused \cup toBeListed

(* The report tells of the records restored so far. *)
ReportIsTrue ==
  /\ stage \in {"down", "new"} => report = NoReport
  /\ stage \in {"blaming", "restoring"} => report.outcome = None /\ report.blamedMod \in Mod
  /\ stage = "blaming" => report.restored = {}
  /\ stage = "restoring" => /\ report.restored \cup todo = RecordsOf(report.blamedMod)
                            /\ report.restored \cap todo = {}

IInv ==
  /\ RecoversFromTheCulprit
  /\ MemoryIsTheSession
  /\ MarkerIsOnDisk
  /\ ChargedIsListed
  /\ ReportIsTrue
------------------------------------------------------------------------------
(* Values *)

LEMMA Values ==
  /\ FreshMarker \in SessionMarker /\ NoReport \in RecoveryReport
  /\ None \notin Mod /\ None \notin SessionMarker /\ None \notin SentinelOutcome
  /\ DOMAIN Records \subseteq Nat
BY SentinelAssumption
DEF FreshMarker, SessionMarker, NoReport, RecoveryReport

(* A marker accuses a mod, unless it absolves: for one reason of three. *)
LEMMA Accusation ==
  ASSUME NEW m \in SessionMarker
  PROVE  /\ Absolution(m) = None <=> ~m.cleanShutdown /\ ~m.graceSurvived /\ m.activeMod # None
         /\ Absolution(m) \in {"CleanShutdown", "CrashOutsideWindow", "NoActiveModToBlame", None}
         /\ Accused(m) \in Mod \cup {None}
         /\ Absolution(m) = None => m.activeMod \in Mod
<1>1. m.cleanShutdown \in BOOLEAN /\ m.graceSurvived \in BOOLEAN /\ m.activeMod \in Mod \cup {None}
  BY DEF SessionMarker
<1>2. None \notin {"CleanShutdown", "CrashOutsideWindow", "NoActiveModToBlame"}
  BY Values DEF SentinelOutcome
<1>3. Absolution(m) = None <=> ~m.cleanShutdown /\ ~m.graceSurvived /\ m.activeMod # None
  BY <1>1, <1>2 DEF Absolution
<1>4. Absolution(m) \in {"CleanShutdown", "CrashOutsideWindow", "NoActiveModToBlame", None}
  BY <1>1 DEF Absolution
<1> QED
  BY <1>1, <1>3, <1>4 DEF Accused

LEMMA FreshAccusesNobody == Accused(FreshMarker) = None
BY Accusation, Values DEF Accused, FreshMarker

(* What a write may leave. *)
LEMMA WriteOutcomes ==
  ASSUME NEW old, NEW new, NEW absent, NEW w \in Writes(old, new, absent)
  PROVE  /\ w.ok \in BOOLEAN /\ w.file \in {new, old, absent}
         /\ w.ok => w.file = new
<1>1. CASE w = [ok |-> TRUE, file |-> new]
  BY <1>1
<1>2. CASE w = [ok |-> FALSE, file |-> old]
  BY <1>2
<1>3. CASE w = [ok |-> FALSE, file |-> absent]
  BY <1>3
<1> QED
  BY <1>1, <1>2, <1>3 DEF Writes

(* What persisting the marker, or the list, leaves on disk. *)
LEMMA MarkerWritten ==
  ASSUME NEW m, PersistMarker(m)
  PROVE  /\ markerFile' \in {m, markerFile, None} /\ doubt' \in BOOLEAN
         /\ ~doubt' => markerFile' = m
<1>1. PICK w \in Writes(markerFile, m, None) : markerFile' = w.file /\ doubt' = ~w.ok
  BY DEF PersistMarker
<1>2. w.ok \in BOOLEAN /\ w.file \in {m, markerFile, None} /\ (w.ok => w.file = m)
  BY WriteOutcomes
<1> QED
  BY <1>1, <1>2

LEMMA ListWritten ==
  ASSUME NEW mods, PersistDisabled(mods)
  PROVE  /\ disabledFile' \in {mods, disabledFile, {}}
         /\ excused' \subseteq owed' /\ excused \cap owed' \subseteq excused'
         /\ \A m \in owed' : m \in mods \cup excused \/ blind => m \in disabledFile' \cup excused'
BY DEF PersistDisabled, Writes

LEMMA NextIsARecord ==
  ASSUME SentinelTypeOK, todo # {}
  PROVE  NextRecord \in todo
<1>1. todo \subseteq Nat
  BY Values DEF SentinelTypeOK
<1> QED
  BY <1>1, LeastNatural DEF NextRecord

------------------------------------------------------------------------------
(* Types *)

LEMMA TypeInit == Init => SentinelTypeOK
BY Values DEF Init, SentinelTypeOK, files, memory, history

LEMMA TypeStep == IInv /\ [Next]_vars => SentinelTypeOK'
<1> SUFFICES ASSUME IInv, [Next]_vars PROVE SentinelTypeOK'
  OBVIOUS
<1>0. SentinelTypeOK /\ ReportIsTrue
  BY DEF IInv, RecoversFromTheCulprit
<1> USE DEF SentinelTypeOK
<1>1. CASE Start
  BY <1>0, <1>1 DEF Start, files, history
<1>2. CASE RecoverNothing
  <2>1. report' \in RecoveryReport
    BY <1>2, Values DEF RecoverNothing, NoReport, RecoveryReport, SentinelOutcome
  <2> QED
    BY <1>0, <1>2, <2>1 DEF RecoverNothing, files
<1>3. CASE ConsumeMarker
  <2>1. markerFile \in SessionMarker
    BY <1>0, <1>3 DEF ConsumeMarker
  <2>2. /\ Absolution(markerFile) \in SentinelOutcome \cup {None}
        /\ Absolution(markerFile) = None => markerFile.activeMod \in Mod
    BY <2>1, Accusation DEF SentinelOutcome
  <2>3. report' \in RecoveryReport /\ stage' \in {"blaming", "ready"}
    BY <1>3, <2>2 DEF ConsumeMarker, NoReport, RecoveryReport
  <2>4. markerFile' \in {markerFile, None} /\ doubt' \in BOOLEAN
    BY <1>3 DEF ConsumeMarker
  <2> QED
    BY <1>0, <1>3, <2>3, <2>4 DEF ConsumeMarker
<1>4. CASE DisableBlamed
  <2>1. disabled' \subseteq Mod /\ todo' \subseteq DOMAIN Records
    BY <1>0, <1>4 DEF DisableBlamed, ReportIsTrue, RecordsOf
  <2>2. disabledFile' \subseteq Mod /\ excused' \subseteq owed'
    BY <1>0, <1>4, <2>1, ListWritten DEF DisableBlamed
  <2> QED
    BY <1>0, <1>4, <2>1, <2>2 DEF DisableBlamed
<1>5. CASE RestoreRecord
  <2>1. report' \in RecoveryReport
    BY <1>0, <1>5, NextIsARecord DEF RestoreRecord, RecoveryReport
  <2> QED
    BY <1>0, <1>5, <2>1 DEF RestoreRecord, files, history
<1>6. CASE RestoreFails \/ RestoreEnds
  <2>1. report' \in RecoveryReport
    BY <1>0, <1>6 DEF RestoreFails, RestoreEnds, RecoveryReport, SentinelOutcome
  <2> QED
    BY <1>0, <1>6, <2>1 DEF RestoreFails, RestoreEnds, files, history
<1>7. ASSUME NEW m \in SessionMarker, NEW s \in SessionMarker, Tell(m, s),
             PersistMarker(m), elapsed' \in BOOLEAN
      PROVE  SentinelTypeOK'
  BY <1>0, <1>7, MarkerWritten DEF Tell
<1>8. CASE BeginSession
  BY <1>7, <1>8, Values DEF BeginSession, Tell
<1>9. CASE Heartbeat \/ MarkGraceSurvived \/ MarkCleanShutdown
  <2>1. marker \in SessionMarker /\ session \in SessionMarker
    BY <1>0, <1>9 DEF Heartbeat, MarkGraceSurvived, MarkCleanShutdown
  <2>2. marker' \in SessionMarker /\ session' \in SessionMarker
    BY <1>0, <1>9, <2>1
    DEF Heartbeat, MarkGraceSurvived, MarkCleanShutdown, Tell, SessionMarker
  <2> QED
    BY <1>0, <1>7, <1>9, <2>2 DEF Heartbeat, MarkGraceSurvived, MarkCleanShutdown, Tell
<1>10. ASSUME NEW m \in Mod, RecordActiveMod(m) PROVE SentinelTypeOK'
  <2>1. marker' \in SessionMarker /\ session' \in SessionMarker
    BY <1>0, <1>10, Values DEF RecordActiveMod, Tell, Current, SessionMarker
  <2> QED
    BY <1>0, <1>7, <1>10, <2>1 DEF RecordActiveMod, Tell
<1>11. ASSUME NEW m \in Mod, EnableMod(m) PROVE SentinelTypeOK'
  <2>1. disabledFile' \subseteq Mod /\ excused' \subseteq owed'
    BY <1>0, <1>11, ListWritten DEF EnableMod
  <2> QED
    BY <1>0, <1>11, <2>1 DEF EnableMod
<1>12. CASE PassGraceWindow
  BY <1>0, <1>12 DEF PassGraceWindow, files, history
<1>13. CASE End
  <2>1. Charged \in Mod \cup {None}
    BY <1>0, Accusation DEF Charged, Accused
  <2> QED
    BY <1>0, <1>13, <2>1, Values DEF End, files
<1>14. CASE UNCHANGED vars
  BY <1>0, <1>14 DEF vars, files, memory, history
<1> QED
  BY <1>1, <1>2, <1>3, <1>4, <1>5, <1>6, <1>8, <1>9, <1>10, <1>11, <1>12, <1>13, <1>14
  DEF Next

------------------------------------------------------------------------------
(* The marker *)

(* The operations of a session that write the marker. *)
Telling ==
  BeginSession \/ Heartbeat \/ MarkGraceSurvived \/ MarkCleanShutdown
    \/ \E m \in Mod : RecordActiveMod(m)

LEMMA TellingWrites ==
  ASSUME SentinelTypeOK, MemoryIsTheSession, Telling
  PROVE  /\ stage = "ready" /\ stage' = "ready" /\ marker' \in SessionMarker /\ session' = marker'
         /\ PersistMarker(marker')
         /\ UNCHANGED <<disabledFile, disabled, report, todo, due, owed, excused, blind>>
<1> USE DEF Tell
<1>1. CASE BeginSession
  BY <1>1, Values DEF BeginSession
<1>2. CASE Heartbeat \/ MarkGraceSurvived \/ MarkCleanShutdown
  <2>1. marker \in SessionMarker /\ session = marker /\ elapsed \in BOOLEAN
    BY <1>2, Values
    DEF Heartbeat, MarkGraceSurvived, MarkCleanShutdown, SentinelTypeOK, MemoryIsTheSession, Current
  <2> QED
    BY <1>2, <2>1 DEF Heartbeat, MarkGraceSurvived, MarkCleanShutdown, SessionMarker
<1>3. ASSUME NEW m \in Mod, RecordActiveMod(m)
      PROVE  marker' \in SessionMarker /\ session' = marker'
  <2>1. Current \in SessionMarker /\ session = Current
    BY Values DEF SentinelTypeOK, MemoryIsTheSession, Current
  <2> QED
    BY <1>3, <2>1 DEF RecordActiveMod, SessionMarker
<1>4. CASE \E m \in Mod : RecordActiveMod(m)
  BY <1>3, <1>4 DEF RecordActiveMod
<1> QED
  BY <1>1, <1>2, <1>4 DEF Telling

LEMMA MarkerStep ==
  ASSUME IInv, [Next]_vars
  PROVE  MemoryIsTheSession' /\ MarkerIsOnDisk'
<1>0. /\ SentinelTypeOK /\ MemoryIsTheSession /\ MarkerIsOnDisk
      /\ stage \in {"down", "new", "blaming", "restoring", "ready"}
  BY DEF IInv, RecoversFromTheCulprit, SentinelTypeOK
<1> USE DEF MemoryIsTheSession, MarkerIsOnDisk
<1>1. CASE Start
  BY <1>0, <1>1 DEF Start, files, history, Current
<1>2. CASE RecoverNothing
  <2>1. UNCHANGED <<marker, session, markerFile>> /\ stage = "new" /\ stage' = "ready"
        /\ doubt' = (doubt \/ markerFile # None)
    BY <1>2 DEF RecoverNothing, files
  <2> QED
    BY <1>0, <2>1 DEF Current
<1>3. CASE ConsumeMarker
  <2>1. UNCHANGED <<marker, session>> /\ stage = "new" /\ stage' \in {"blaming", "ready"}
        /\ (~doubt' => markerFile' = None)
    <3>1. PICK w \in {[ok |-> TRUE, file |-> None], [ok |-> FALSE, file |-> markerFile]} :
            markerFile' = w.file /\ doubt' = ~w.ok
      BY <1>3 DEF ConsumeMarker
    <3>2. w.ok => w.file = None
      OBVIOUS
    <3> QED
      BY <1>3, <3>1, <3>2 DEF ConsumeMarker
  <2> QED
    BY <1>0, <2>1 DEF Current
<1>4. CASE DisableBlamed
  BY <1>0, <1>4 DEF DisableBlamed, Current
<1>5. CASE RestoreRecord \/ RestoreFails \/ RestoreEnds
  BY <1>0, <1>5 DEF RestoreRecord, RestoreFails, RestoreEnds, files, history, Current
<1>6. CASE Telling
  <2>1. /\ stage' = "ready" /\ marker' \in SessionMarker /\ session' = marker'
        /\ ~doubt' => markerFile' = marker'
    BY <1>0, <1>6, TellingWrites, MarkerWritten
  <2> QED
    BY <2>1, Values DEF Current
<1>7. ASSUME NEW m \in Mod, EnableMod(m) PROVE MemoryIsTheSession' /\ MarkerIsOnDisk'
  BY <1>0, <1>7 DEF EnableMod, Current
<1>8. CASE PassGraceWindow
  BY <1>0, <1>8 DEF PassGraceWindow, files, history, Current
<1>9. CASE End
  <2>1. MemoryIsTheSession'
    BY <1>9 DEF End, Current
  <2>2. stage # "down" /\ stage' = "down" /\ UNCHANGED <<markerFile, doubt>>
    BY <1>9 DEF End, files
  <2>3. CASE stage = "new"
    BY <1>0, <1>9, <2>1, <2>2, <2>3 DEF End
  <2>4. CASE stage # "new"
    <3>1. due' = Accused(session)
      BY <1>9, <2>4 DEF End, Charged, Accused
    <3>2. ~doubt => markerFile = marker
      BY <1>0, <2>2, <2>4
    <3>3. CASE marker = None
      BY <1>0, <2>1, <2>2, <3>1, <3>2, <3>3, FreshAccusesNobody DEF Current
    <3>4. CASE marker # None
      BY <1>0, <2>1, <2>2, <3>1, <3>2, <3>4 DEF Current
    <3> QED
      BY <3>3, <3>4
  <2> QED
    BY <2>3, <2>4
<1>10. CASE UNCHANGED vars
  BY <1>0, <1>10 DEF vars, files, memory, history, Current
<1> QED
  BY <1>1, <1>2, <1>3, <1>4, <1>5, <1>6, <1>7, <1>8, <1>9, <1>10 DEF Next, Telling

------------------------------------------------------------------------------
(* The list of disabled mods *)

(* Nobody is charged before the session begins. *)
LEMMA OnlySessionsAreCharged ==
  ASSUME IInv
  PROVE  stage \in {"new", "blaming", "restoring"} => Charged = None
<1>1. stage # "ready" => session = FreshMarker
  BY DEF IInv, MemoryIsTheSession, Current
<1> QED
  BY <1>1, FreshAccusesNobody DEF Charged, Accused

LEMMA ListStep ==
  ASSUME IInv, [Next]_vars
  PROVE  ChargedIsListed' /\ RemembersTheCharged'
<1>0. /\ SentinelTypeOK /\ RemembersTheCharged /\ MemoryIsTheSession /\ MarkerIsOnDisk
      /\ ChargedIsListed /\ ReportIsTrue
      /\ owed \subseteq Mod /\ excused \subseteq owed
      /\ stage \in {"down", "new", "blaming", "restoring", "ready"}
  BY DEF IInv, RecoversFromTheCulprit, SentinelTypeOK
<1> USE DEF ChargedIsListed, RemembersTheCharged
<1>1. CASE Start
  BY <1>0, <1>1 DEF Start, files, history
<1>2. CASE RecoverNothing
  <2>1. CASE markerFile = None
    <3>1. ~doubt => due = None
      BY <1>0, <1>2, <2>1 DEF MarkerIsOnDisk, RecoverNothing
    <3> QED
      BY <1>0, <1>2, <2>1, <3>1, Values DEF RecoverNothing, files
  <2>2. CASE markerFile # None
    BY <1>0, <1>2, <2>2 DEF RecoverNothing, files
  <2> QED
    BY <2>1, <2>2
<1>3. CASE ConsumeMarker
  <2>1. stage = "new" /\ markerFile \in SessionMarker
        /\ UNCHANGED <<disabledFile, disabled, session, owed, excused, blind>>
    BY <1>0, <1>3 DEF ConsumeMarker, SentinelTypeOK
  <2>2. ~doubt => due = Accused(markerFile)
    BY <1>0, <2>1, Values DEF MarkerIsOnDisk
  <2>3. CASE Absolution(markerFile) = None
    <3>1. stage' = "blaming" /\ report'.blamedMod = Accused(markerFile)
      BY <1>3, <2>3 DEF ConsumeMarker, NoReport, Accused
    <3> QED
      BY <1>0, <2>1, <2>2, <3>1
  <2>4. CASE Absolution(markerFile) # None
    <3>1. stage' = "ready" /\ (~doubt => due = None)
      BY <1>3, <2>2, <2>4 DEF ConsumeMarker, Accused
    <3> QED
      BY <1>0, <2>1, <3>1, Values
  <2> QED
    BY <2>3, <2>4
<1>4. CASE DisableBlamed
  <2>1. /\ stage = "blaming" /\ stage' = "restoring" /\ UNCHANGED <<owed, blind>>
        /\ disabled' = disabled \cup {report.blamedMod} /\ PersistDisabled(disabled')
    BY <1>4 DEF DisableBlamed
  <2>2. /\ \A m \in owed : m \in disabled' \cup excused \/ blind
                             => m \in disabledFile' \cup excused'
        /\ excused \subseteq excused'
    BY <1>0, <2>1, ListWritten
  <2>3. ~blind => owed \subseteq disabled' \cup excused
    BY <1>0, <2>1
  <2> QED
    BY <1>0, <2>1, <2>2, <2>3
<1>5. CASE RestoreRecord \/ RestoreFails \/ RestoreEnds
  BY <1>0, <1>5 DEF RestoreRecord, RestoreFails, RestoreEnds, files, history
<1>6. CASE Telling
  <2>1. /\ stage = "ready" /\ stage' = "ready"
        /\ UNCHANGED <<disabledFile, disabled, owed, excused, blind>>
    BY <1>0, <1>6, TellingWrites
  <2> QED
    BY <1>0, <2>1
<1>7. ASSUME NEW m \in Mod, EnableMod(m) PROVE ChargedIsListed' /\ RemembersTheCharged'
  <2>1. /\ stage = "ready" /\ stage' = "ready" /\ UNCHANGED blind
        /\ disabled' = disabled \ {m} /\ owed' = owed \ {m} /\ PersistDisabled(disabled')
    BY <1>7 DEF EnableMod
  <2>2. /\ \A x \in owed' : x \in disabled' \cup excused \/ blind
                              => x \in disabledFile' \cup excused'
        /\ excused \cap owed' \subseteq excused'
    BY <2>1, ListWritten
  <2>3. ~blind => owed' \subseteq disabled' \cup excused
    BY <1>0, <2>1
  <2> QED
    BY <1>0, <2>1, <2>2, <2>3
<1>8. CASE PassGraceWindow
  BY <1>0, <1>8 DEF PassGraceWindow, files, history
<1>9. CASE End
  <2>1. /\ stage # "down" /\ stage' = "down" /\ UNCHANGED <<disabledFile, doubt>>
        /\ due' = IF stage = "new" THEN due ELSE Charged
        /\ owed' = IF Charged # None /\ ~doubt THEN owed \cup {Charged} ELSE owed
        /\ excused' = (IF Charged # None /\ ~doubt THEN excused \ {Charged} ELSE excused)
                         \cup (IF stage = "blaming" THEN {report.blamedMod} \cap owed ELSE {})
    BY <1>9 DEF End, files
  <2>2. Charged \in Mod \cup {None}
    BY <1>0, Accusation DEF Charged, Accused, SentinelTypeOK
  <2>3. stage \in {"new", "blaming", "restoring"} => Charged = None
    BY OnlySessionsAreCharged
  <2>4. ChargedIsListed'
    <3>1. CASE stage \in {"new", "blaming", "restoring"}
      BY <1>0, <2>1, <2>3, <3>1
    <3>2. CASE stage = "ready"
      BY <1>0, <2>1, <3>2
    <3> QED
      BY <1>0, <2>1, <3>1, <3>2
  <2> QED
    BY <2>1, <2>4
<1>10. CASE UNCHANGED vars
  BY <1>0, <1>10 DEF vars, files, memory, history
<1> QED
  BY <1>1, <1>2, <1>3, <1>4, <1>5, <1>6, <1>7, <1>8, <1>9, <1>10 DEF Next, Telling

------------------------------------------------------------------------------
(* The report *)

LEMMA ReportStep ==
  ASSUME IInv, [Next]_vars
  PROVE  ReportIsTrue' /\ RestoresTheBlamed'
<1>0. /\ SentinelTypeOK /\ ReportIsTrue /\ RestoresTheBlamed /\ report \in RecoveryReport
      /\ stage \in {"down", "new", "blaming", "restoring", "ready"}
  BY DEF IInv, RecoversFromTheCulprit, SentinelTypeOK
<1>a. None # "AutoDisabled" /\ None # "RestoreFailed"
  BY Values DEF SentinelOutcome
<1> USE DEF ReportIsTrue, RestoresTheBlamed
<1>1. CASE Start
  BY <1>0, <1>1 DEF Start, files, history
<1>2. CASE RecoverNothing
  BY <1>0, <1>2, <1>a DEF RecoverNothing, NoReport
<1>3. CASE ConsumeMarker
  <2>1. markerFile \in SessionMarker
    BY <1>0, <1>3 DEF ConsumeMarker, SentinelTypeOK
  <2>2. /\ Absolution(markerFile) \notin {"AutoDisabled", "RestoreFailed"}
        /\ Absolution(markerFile) = None => markerFile.activeMod \in Mod
    BY <2>1, <1>a, Accusation
  <2> QED
    BY <1>3, <1>a, <2>2 DEF ConsumeMarker, NoReport
<1>4. CASE DisableBlamed
  BY <1>0, <1>4, <1>a DEF DisableBlamed, RecordsOf
<1>5. CASE RestoreRecord
  <2>1. /\ stage = "restoring" /\ stage' = "restoring" /\ UNCHANGED disabled
        /\ report'.restored = report.restored \cup {NextRecord} /\ todo' = todo \ {NextRecord}
        /\ report'.outcome = report.outcome /\ report'.blamedMod = report.blamedMod
    BY <1>0, <1>5 DEF RestoreRecord, RecoveryReport
  <2>2. NextRecord \in todo
    BY <1>0, <1>5, NextIsARecord DEF RestoreRecord
  <2> QED
    BY <1>0, <1>a, <2>1, <2>2 DEF RecordsOf
<1>6. CASE RestoreFails \/ RestoreEnds
  <2>1. /\ stage = "restoring" /\ stage' = "ready"
        /\ report'.restored = report.restored /\ report'.blamedMod = report.blamedMod
        /\ \/ todo # {} /\ report'.outcome = "RestoreFailed"
           \/ todo = {} /\ report'.outcome = "AutoDisabled"
    BY <1>0, <1>6 DEF RestoreFails, RestoreEnds, RecoveryReport
  <2> QED
    BY <1>0, <2>1 DEF RecordsOf
<1>7. CASE Telling
  <2>1. stage' = "ready" /\ UNCHANGED <<disabled, report, todo>>
    BY <1>7, TellingWrites DEF IInv, RecoversFromTheCulprit
  <2> QED
    BY <1>0, <2>1
<1>8. ASSUME NEW m \in Mod, EnableMod(m) PROVE ReportIsTrue' /\ RestoresTheBlamed'
  BY <1>0, <1>8 DEF EnableMod
<1>9. CASE PassGraceWindow
  BY <1>0, <1>9 DEF PassGraceWindow, files, history
<1>10. CASE End
  BY <1>10, <1>a DEF End, NoReport
<1>11. CASE UNCHANGED vars
  BY <1>0, <1>11 DEF vars, files, memory, history
<1> QED
  BY <1>1, <1>2, <1>3, <1>4, <1>5, <1>6, <1>7, <1>8, <1>9, <1>10, <1>11 DEF Next, Telling

------------------------------------------------------------------------------
(* Theorems *)

LEMMA Inductive == Spec => []IInv
<1>1. Init => IInv
  <2> SUFFICES ASSUME Init PROVE IInv
    OBVIOUS
  <2>1. SentinelTypeOK
    BY TypeInit
  <2>2. RemembersTheCharged /\ RestoresTheBlamed
    BY Values DEF Init, RemembersTheCharged, RestoresTheBlamed, NoReport, SentinelOutcome
  <2>3. MemoryIsTheSession /\ MarkerIsOnDisk /\ ChargedIsListed /\ ReportIsTrue
    BY DEF Init, MemoryIsTheSession, MarkerIsOnDisk, ChargedIsListed, ReportIsTrue, Current
  <2> QED
    BY <2>1, <2>2, <2>3 DEF IInv, RecoversFromTheCulprit
<1>2. IInv /\ [Next]_vars => IInv'
  BY TypeStep, MarkerStep, ListStep, ReportStep DEF IInv, RecoversFromTheCulprit
<1> QED
  BY <1>1, <1>2, PTL DEF Spec

(* A recovery deals with the culprit of the crash and with nobody else, and *)
(* a charged mod stays on the list of disabled mods, wherever the processes *)
(* die; unless a write failed, the list could not be read or a recovery was *)
(* cut off before its list.                                                 *)
THEOREM RecoveryIsJust == Spec => []RecoversFromTheCulprit
<1>1. IInv => RecoversFromTheCulprit
  BY DEF IInv
<1> QED
  BY <1>1, Inductive, PTL

(* A recovery blames the mod that was active when the last process died,   *)
(* and each crash is charged once, unless the last write or removal of the *)
(* marker failed.                                                          *)
THEOREM TheLastActiveIsCharged == Spec => ChargesTheLastActive
<1>1. ASSUME IInv, [Next]_vars, stage = "new", stage' = "blaming", ~doubt
      PROVE  report'.blamedMod = due
  <2>1. ConsumeMarker
    BY <1>1
    DEF Next, Start, RecoverNothing, DisableBlamed, RestoreRecord, RestoreFails, RestoreEnds,
        BeginSession, Heartbeat, MarkGraceSurvived, MarkCleanShutdown, RecordActiveMod, Tell,
        EnableMod, PassGraceWindow, End, vars, memory
  <2>2. Absolution(markerFile) = None /\ markerFile # None
    BY <1>1, <2>1 DEF ConsumeMarker
  <2>3. report'.blamedMod = Accused(markerFile)
    BY <2>1, <2>2 DEF ConsumeMarker, NoReport, Accused
  <2> QED
    BY <1>1, <2>2, <2>3 DEF IInv, MarkerIsOnDisk
<1>2. IInv /\ [Next]_vars =>
        [stage = "new" /\ stage' = "blaming" => doubt \/ report'.blamedMod = due]_vars
  BY <1>1
<1> QED
  BY <1>2, Inductive, PTL DEF Spec, ChargesTheLastActive
------------------------------------------------------------------------------
(* pulse logs *)

StagesAreKnown ==
  /\ child \in {"running", "exited", "crashed"}
  /\ reader \in [Stream -> {"reading", "sending", "ended"}]
  /\ main \in {"printing", "stopping", "killing", "joining", "waiting", "returned", "killed"}
  /\ raw \in BOOLEAN

(* The terminal is raw only until the watcher has ended. *)
RawWhileWatching == raw => watcher \in {"polling", "leaving"}

(* Past the stage that joins it, the watcher is no more. *)
WatcherIsJoined == main \in {"killing", "joining", "waiting", "returned"} => watcher = "ended"

(* An interrupted command kills the game before it joins the readers, and  *)
(* never waits for it; the others wait for it before they return.          *)
ChildIsStopped ==
  /\ main = "killing" => outcome = "Interrupted"
  /\ main = "joining" /\ outcome = "Interrupted" => child # "running"
  /\ main = "waiting" => outcome # "Interrupted"
  /\ main = "returned" => child # "running"

ReadersAreJoined ==
  main \in {"waiting", "returned"} => \A s \in Stream : reader[s] = "ended"

(* The result is that of the stream, or else of the game. *)
ResultIsEarned ==
  main = "returned" =>
    /\ result = "Interrupted" <=> outcome = "Interrupted"
    /\ result = "Normal" => child = "exited"

Stages ==
  /\ StagesAreKnown /\ RawWhileWatching /\ WatcherIsJoined
  /\ ChildIsStopped /\ ReadersAreJoined /\ ResultIsEarned
------------------------------------------------------------------------------
(* The game, the readers and the watcher never bring back what has ended. *)
LEMMA GameStep ==
  ASSUME Stages, NEW s \in Stream,
         WriteLine(s) \/ CloseStream(s) \/ ReleasePipe(s) \/ EndGame
  PROVE  Stages'
BY DEF Stages, StagesAreKnown, RawWhileWatching, WatcherIsJoined, ChildIsStopped, ReadersAreJoined,
       ResultIsEarned, WriteLine, CloseStream, ReleasePipe, EndGame, Dies, readers, keys, mainThread

LEMMA ReaderStepKeeps ==
  ASSUME Stages, NEW s \in Stream, ReaderStep(s)
  PROVE  Stages'
<1>1. UNCHANGED <<game, keys, mainThread>> /\ reader[s] # "ended"
  BY DEF ReaderStep, ReadLine, SendLine, EndReader
<1>2. reader' \in [Stream -> {"reading", "sending", "ended"}]
  BY DEF ReaderStep, ReadLine, SendLine, EndReader, Stages, StagesAreKnown
<1> QED
  BY <1>1, <1>2
  DEF game, keys, mainThread, Stages, StagesAreKnown, RawWhileWatching, WatcherIsJoined,
      ChildIsStopped, ReadersAreJoined, ResultIsEarned

LEMMA KeysStep ==
  ASSUME Stages, WatcherStep \/ PollFails \/ PressCtrlC
  PROVE  Stages'
<1>1. CASE WatcherStep \/ PollFails
  BY <1>1
  DEF Stages, StagesAreKnown, RawWhileWatching, WatcherIsJoined, ChildIsStopped, ReadersAreJoined,
      ResultIsEarned, WatcherStep, StartWatcher, StopWatcher, PollFails, LeaveRawMode, game,
      readers, mainThread
<1>2. CASE PressCtrlC
  BY <1>2
  DEF Stages, StagesAreKnown, RawWhileWatching, WatcherIsJoined, ChildIsStopped, ReadersAreJoined,
      ResultIsEarned, PressCtrlC, Dies, readers
<1> QED
  BY <1>1, <1>2

(* The main thread moves on when what it waits for has ended. *)
LEMMA MainStepKeeps ==
  ASSUME Stages, MainStep
  PROVE  Stages'
<1>1. CASE SeeInterrupt \/ PrintLine \/ PrintFails \/ SeeDisconnect
  BY <1>1
  DEF Stages, StagesAreKnown, RawWhileWatching, WatcherIsJoined, ChildIsStopped, ReadersAreJoined,
      ResultIsEarned, SeeInterrupt, PrintLine, PrintFails, SeeDisconnect, Break, game, readers,
      keys, mainThread
<1>2. CASE JoinWatcher
  BY <1>2
  DEF Stages, StagesAreKnown, RawWhileWatching, WatcherIsJoined, ChildIsStopped, ReadersAreJoined,
      ResultIsEarned, JoinWatcher, game, readers, keys
<1>3. CASE KillChild
  BY <1>3
  DEF Stages, StagesAreKnown, RawWhileWatching, WatcherIsJoined, ChildIsStopped, ReadersAreJoined,
      ResultIsEarned, KillChild, Dies, readers, keys
<1>4. CASE JoinReaders
  BY <1>4
  DEF Stages, StagesAreKnown, RawWhileWatching, WatcherIsJoined, ChildIsStopped, ReadersAreJoined,
      ResultIsEarned, JoinReaders, game, readers, keys
<1>5. CASE WaitChild
  BY <1>5
  DEF Stages, StagesAreKnown, RawWhileWatching, WatcherIsJoined, ChildIsStopped, ReadersAreJoined,
      ResultIsEarned, WaitChild, ClassifyExit, game, readers, keys
<1> QED
  BY <1>1, <1>2, <1>3, <1>4, <1>5 DEF MainStep
------------------------------------------------------------------------------
(* The command never returns with the game running, a reader or the        *)
(* watcher alive or the terminal in raw mode, whichever thread is first;   *)
(* and it blames the game only for an end of its own.                      *)
THEOREM CommandTidiesUp == LogsSpec => []LeavesNothingBehind
<1>1. LogsInit => Stages
  BY DEF LogsInit, Stages, StagesAreKnown, RawWhileWatching, WatcherIsJoined, ChildIsStopped,
         ReadersAreJoined, ResultIsEarned
<1>2. Stages /\ [LogsNext]_logsVars => Stages'
  <2> SUFFICES ASSUME Stages, [LogsNext]_logsVars
               PROVE  Stages'
    OBVIOUS
  <2>1. CASE UNCHANGED logsVars
    BY <2>1
    DEF logsVars, game, readers, keys, mainThread, Stages, StagesAreKnown, RawWhileWatching,
        WatcherIsJoined, ChildIsStopped, ReadersAreJoined, ResultIsEarned
  <2>2. CASE EndGame
    <3>1. "stdout" \in Stream
      BY DEF Stream
    <3> QED
      BY <2>2, <3>1, GameStep
  <2> QED
    BY <2>1, <2>2, GameStep, ReaderStepKeeps, KeysStep, MainStepKeeps DEF LogsNext, Over
<1>3. Stages => LeavesNothingBehind
  BY DEF Stages, StagesAreKnown, RawWhileWatching, WatcherIsJoined, ChildIsStopped,
         ReadersAreJoined, ResultIsEarned, LeavesNothingBehind
<1> QED
  BY <1>1, <1>2, <1>3, PTL DEF LogsSpec
------------------------------------------------------------------------------
(* multiplex *)

Increasing(lines) == \A i, j \in DOMAIN lines : i < j => lines[i].seq < lines[j].seq

MuxState == [i : Nat, j : Nat, merged : Seq(Line)]

MuxStep(a, b, m) ==
  IF m.j > Len(b) \/ (m.i <= Len(a) /\ a[m.i].seq <= b[m.j].seq)
  THEN [i |-> m.i + 1, j |-> m.j, merged |-> Append(m.merged, a[m.i])]
  ELSE [i |-> m.i, j |-> m.j + 1, merged |-> Append(m.merged, b[m.j])]

(* What two streams have given: the first lines of each, in the order of   *)
(* their numbers, and all of them before what is still to come.            *)
Behind(lines, rest, i) == i <= Len(rest) => \A x \in DOMAIN lines : lines[x].seq < rest[i].seq

Merged(a, b, S, T, k, m) ==
  /\ m \in MuxState
  /\ m.i \in 1 .. Len(a) + 1 /\ m.j \in 1 .. Len(b) + 1 /\ m.i + m.j = k + 2
  /\ Kept(m.merged, S) = SubSeq(a, 1, m.i - 1) /\ Kept(m.merged, T) = SubSeq(b, 1, m.j - 1)
  /\ Increasing(m.merged)
  /\ Behind(m.merged, a, m.i) /\ Behind(m.merged, b, m.j)

(* Two streams that multiplex may be given. *)
AreStreams(a, b, S, T) ==
  /\ a \in Seq(Line) /\ b \in Seq(Line)
  /\ Increasing(a) /\ Increasing(b)
  /\ \A i \in 1 .. Len(a), j \in 1 .. Len(b) : a[i].seq # b[j].seq
  /\ \A i \in 1 .. Len(a) : a[i] \in S /\ a[i] \notin T
  /\ \A j \in 1 .. Len(b) : b[j] \in T /\ b[j] \notin S

(* The next line: the first of one stream, smaller than what is left. *)
LEMMA TakesTheNext ==
  ASSUME NEW a \in Seq(Line), NEW b \in Seq(Line), NEW S, NEW T,
         NEW lines \in Seq(Line), NEW i \in 1 .. Len(a), NEW j \in 1 .. Len(b) + 1,
         Increasing(a), Increasing(lines), a[i] \in S, a[i] \notin T,
         Kept(lines, S) = SubSeq(a, 1, i - 1), Kept(lines, T) = SubSeq(b, 1, j - 1),
         Behind(lines, a, i), Behind(lines, b, j),
         j <= Len(b) => a[i].seq < b[j].seq
  PROVE  LET new == Append(lines, a[i])
         IN  /\ new \in Seq(Line) /\ Increasing(new)
             /\ Kept(new, S) = SubSeq(a, 1, i) /\ Kept(new, T) = SubSeq(b, 1, j - 1)
             /\ Behind(new, a, i + 1) /\ Behind(new, b, j)
<1> DEFINE new == Append(lines, a[i])
           n == Len(lines)
<1>1. /\ a[i] \in Line /\ i \in Nat /\ j \in Nat /\ n \in Nat /\ Len(a) \in Nat /\ Len(b) \in Nat
      /\ DOMAIN a = 1 .. Len(a) /\ DOMAIN lines = 1 .. n
  OBVIOUS
<1>2. \A l \in Line : l.seq \in Nat
  BY DEF Line
<1>3. /\ new \in Seq(Line) /\ DOMAIN new = 1 .. n + 1
      /\ \A x \in 1 .. n : new[x] = lines[x]
      /\ new[n + 1] = a[i]
  BY <1>1, AppendPlaces
<1>4. \A x \in 1 .. n : lines[x] \in Line /\ lines[x].seq < a[i].seq
  BY <1>1 DEF Behind
<1>5. Kept(new, S) = SubSeq(a, 1, i)
  <2>1. Kept(new, S) = Append(Kept(lines, S), a[i])
    <3> DEFINE x == a[i]
    <3>1. x \in Line
      BY <1>1
    <3> HIDE DEF x
    <3>2. Kept(Append(lines, x), S) = IF x \in S THEN Append(Kept(lines, S), x) ELSE Kept(lines, S)
      BY <3>1, KeptAppend
    <3>3. Kept(new, S) = IF a[i] \in S THEN Append(Kept(lines, S), a[i]) ELSE Kept(lines, S)
      BY <3>2 DEF x
    <3> QED
      BY <3>3
  <2>2. i - 1 \in 0 .. Len(a) - 1 /\ (i - 1) + 1 = i
    BY <1>1
  <2>3. SubSeq(a, 1, i) = Append(SubSeq(a, 1, i - 1), a[i])
    BY <2>2, FrontAppend
  <2> QED
    BY <2>1, <2>3, SMTT(20)
<1>6. Kept(new, T) = SubSeq(b, 1, j - 1)
  BY <1>1, KeptAppend, SMTT(20)
<1> HIDE DEF new, n
<1>7. \A x \in 1 .. n + 1 : x \in 1 .. n \/ x = n + 1
  BY <1>1
<1>8. Increasing(new)
  <2>1. ASSUME NEW x \in 1 .. n + 1, NEW y \in 1 .. n + 1, x < y PROVE new[x].seq < new[y].seq
    <3>1. x \in 1 .. n
      BY <1>1, <2>1
    <3>2. CASE y \in 1 .. n
      BY <1>1, <1>3, <2>1, <3>1, <3>2 DEF Increasing
    <3>3. CASE y = n + 1
      BY <1>3, <1>4, <3>1, <3>3
    <3> QED
      BY <1>7, <3>2, <3>3
  <2> QED
    BY <1>3, <2>1 DEF Increasing
<1>9. Behind(new, a, i + 1)
  <2>1. ASSUME i + 1 <= Len(a), NEW x \in 1 .. n + 1 PROVE new[x].seq < a[i + 1].seq
    <3> DEFINE p == i + 1
    <3>1. p \in 1 .. Len(a) /\ i < p
      BY <1>1, <2>1
    <3> HIDE DEF p
    <3>2. a[i].seq < a[p].seq
      BY <1>1, <3>1 DEF Increasing
    <3>3. a[p] \in Line
      BY <3>1
    <3>4. a[i].seq \in Nat /\ a[p].seq \in Nat
      BY <1>1, <1>2, <3>3
    <3>5. CASE x \in 1 .. n
      <4>1. lines[x].seq \in Nat /\ lines[x].seq < a[i].seq
        BY <1>2, <1>4, <3>5
      <4>2. lines[x].seq < a[p].seq
        BY <3>2, <3>4, <4>1, SMTT(20)
      <4>3. new[x] = lines[x]
        BY <1>3, <3>5
      <4> QED
        BY <4>2, <4>3 DEF p
    <3>6. CASE x = n + 1
      BY <1>3, <3>2, <3>6 DEF p
    <3> QED
      BY <1>7, <3>5, <3>6
  <2> QED
    BY <1>3, <2>1 DEF Behind
<1>10. Behind(new, b, j)
  <2>1. ASSUME j <= Len(b), NEW x \in 1 .. n + 1 PROVE new[x].seq < b[j].seq
    BY <1>1, <1>3, <1>7, <2>1 DEF Behind
  <2> QED
    BY <1>3, <2>1 DEF Behind
<1> QED
  BY <1>3, <1>5, <1>6, <1>8, <1>9, <1>10 DEF new

LEMMA MuxKeepsMerged ==
  ASSUME NEW a, NEW b, NEW S, NEW T, AreStreams(a, b, S, T),
         NEW k \in 0 .. Len(a) + Len(b) - 1, NEW m, Merged(a, b, S, T, k, m)
  PROVE  Merged(a, b, S, T, k + 1, MuxStep(a, b, m))
<1>1. /\ a \in Seq(Line) /\ b \in Seq(Line) /\ Len(a) \in Nat /\ Len(b) \in Nat
      /\ \A x \in 1 .. Len(a) : a[x] \in Line
      /\ \A x \in 1 .. Len(b) : b[x] \in Line
  BY DEF AreStreams
<1>2. /\ m.i \in 1 .. Len(a) + 1 /\ m.j \in 1 .. Len(b) + 1 /\ m.i + m.j = k + 2
      /\ m.merged \in Seq(Line) /\ Increasing(m.merged)
  BY DEF Merged, MuxState
<1>3. Kept(m.merged, S) = SubSeq(a, 1, m.i - 1) /\ Kept(m.merged, T) = SubSeq(b, 1, m.j - 1)
  BY DEF Merged
<1>4. Behind(m.merged, a, m.i) /\ Behind(m.merged, b, m.j)
  BY DEF Merged
<1>5. \A l \in Line : l.seq \in Nat
  BY DEF Line
<1>6. ~ (m.i = Len(a) + 1 /\ m.j = Len(b) + 1)
  BY <1>1, <1>2
<1>7. CASE m.j > Len(b) \/ (m.i <= Len(a) /\ a[m.i].seq <= b[m.j].seq)
  <2> DEFINE i == m.i
             j == m.j
             new == Append(m.merged, a[m.i])
  <2>1. MuxStep(a, b, m) = [i |-> i + 1, j |-> j, merged |-> new]
    BY <1>7 DEF MuxStep
  <2>2. i \in 1 .. Len(a) /\ j \in 1 .. Len(b) + 1
    BY <1>1, <1>2, <1>6, <1>7
  <2>3. j <= Len(b) => a[i].seq < b[j].seq
    <3> SUFFICES ASSUME j <= Len(b) PROVE a[i].seq < b[j].seq
      OBVIOUS
    <3>1. j \in 1 .. Len(b) /\ a[i].seq <= b[j].seq
      BY <1>1, <1>7, <2>2
    <3>2. a[i].seq # b[j].seq
      BY <2>2, <3>1 DEF AreStreams
    <3>3. a[i].seq \in Nat /\ b[j].seq \in Nat
      BY <1>1, <1>5, <2>2, <3>1
    <3> QED
      BY <3>1, <3>2, <3>3
  <2>4. Increasing(a) /\ a[i] \in S /\ a[i] \notin T
    BY <2>2 DEF AreStreams
  <2>5. /\ new \in Seq(Line) /\ Increasing(new)
        /\ Kept(new, S) = SubSeq(a, 1, i) /\ Kept(new, T) = SubSeq(b, 1, j - 1)
        /\ Behind(new, a, i + 1) /\ Behind(new, b, j)
    BY <1>1, <1>2, <1>3, <1>4, <2>2, <2>3, <2>4, TakesTheNext
  <2>6. i \in Nat /\ j \in Nat /\ i + j = k + 2 /\ k \in Nat
    BY <1>1, <1>2
  <2>7. /\ i + 1 \in 1 .. Len(a) + 1 /\ i + 1 \in Nat
        /\ (i + 1) + j = (k + 1) + 2 /\ (i + 1) - 1 = i
    <3> HIDE DEF i, j
    <3> QED
      BY <1>1, <2>2, <2>6
  <2> HIDE DEF i, j, new
  <2> QED
    BY <2>1, <2>2, <2>5, <2>6, <2>7, SMTT(20) DEF Merged, MuxState
<1>8. CASE ~ (m.j > Len(b) \/ (m.i <= Len(a) /\ a[m.i].seq <= b[m.j].seq))
  <2> DEFINE i == m.i
             j == m.j
             new == Append(m.merged, b[m.j])
  <2>1. MuxStep(a, b, m) = [i |-> i, j |-> j + 1, merged |-> new]
    BY <1>8 DEF MuxStep
  <2>2. j \in 1 .. Len(b) /\ i \in 1 .. Len(a) + 1
    BY <1>1, <1>2, <1>8
  <2>3. i <= Len(a) => b[j].seq < a[i].seq
    <3> SUFFICES ASSUME i <= Len(a) PROVE b[j].seq < a[i].seq
      OBVIOUS
    <3>1. i \in 1 .. Len(a) /\ ~ (a[i].seq <= b[j].seq)
      BY <1>1, <1>8, <2>2
    <3>2. a[i].seq \in Nat /\ b[j].seq \in Nat
      BY <1>1, <1>5, <2>2, <3>1
    <3> QED
      BY <3>1, <3>2
  <2>4. Increasing(b) /\ b[j] \in T /\ b[j] \notin S
    BY <2>2 DEF AreStreams
  <2>5. /\ new \in Seq(Line) /\ Increasing(new)
        /\ Kept(new, T) = SubSeq(b, 1, j) /\ Kept(new, S) = SubSeq(a, 1, i - 1)
        /\ Behind(new, b, j + 1) /\ Behind(new, a, i)
    BY <1>1, <1>2, <1>3, <1>4, <2>2, <2>3, <2>4, TakesTheNext
  <2>6. i \in Nat /\ j \in Nat /\ i + j = k + 2 /\ k \in Nat
    BY <1>1, <1>2
  <2>7. /\ j + 1 \in 1 .. Len(b) + 1 /\ j + 1 \in Nat
        /\ i + (j + 1) = (k + 1) + 2 /\ (j + 1) - 1 = j
    <3> HIDE DEF i, j
    <3> QED
      BY <1>1, <2>2, <2>6
  <2> HIDE DEF i, j, new
  <2> QED
    BY <2>1, <2>2, <2>5, <2>6, <2>7, SMTT(20) DEF Merged, MuxState
<1> QED
  BY <1>7, <1>8

(* The recursion is one that goes on from each state that it reaches. *)
LEMMA MuxIsIterated ==
  ASSUME NEW a, NEW b, NEW S, NEW T, AreStreams(a, b, S, T)
  PROVE  \E m : Merged(a, b, S, T, Len(a) + Len(b), m) /\ Multiplex(a, b) = m.merged
<1> DEFINE N == Len(a) + Len(b)
           start == [i |-> 1, j |-> 1, merged |-> <<>>]
           Good(k, m) == Merged(a, b, S, T, k, m)
           g == [q \in (1 .. N) \X MuxState |->
                   IF Good(q[1] - 1, q[2]) THEN MuxStep(a, b, q[2]) ELSE q[2]]
           Steps(f) == [k \in 0 .. N |-> IF k = 0 THEN start ELSE MuxStep(a, b, f[k - 1])]
<1>1. a \in Seq(Line) /\ b \in Seq(Line) /\ Len(a) \in Nat /\ Len(b) \in Nat /\ N \in Nat
  BY DEF AreStreams
<1>2. Multiplex(a, b) = (CHOOSE f : f = Steps(f))[N].merged
  BY DEF Multiplex, MuxStep
<1>3. start \in MuxState /\ Good(0, start)
  <2>1. start \in MuxState
    BY DEF MuxState
  <2>2. Kept(<<>>, S) = SubSeq(a, 1, 0) /\ Kept(<<>>, T) = SubSeq(b, 1, 0)
    <3>1. SubSeq(a, 1, 0) = <<>> /\ SubSeq(b, 1, 0) = <<>>
      BY <1>1, FrontOfNone
    <3> QED
      BY <3>1, KeptEmpty
  <2>3. Increasing(<<>>) /\ Behind(<<>>, a, 1) /\ Behind(<<>>, b, 1)
    BY DEF Increasing, Behind
  <2>4. 1 \in 1 .. Len(a) + 1 /\ 1 \in 1 .. Len(b) + 1
    BY <1>1
  <2> QED
    BY <2>1, <2>2, <2>3, <2>4 DEF Merged
<1>4. \A k \in 0 .. N - 1 : \A m : Good(k, m) => Good(k + 1, MuxStep(a, b, m))
  BY MuxKeepsMerged
<1>5. \A k, m : Good(k, m) => m \in MuxState
  BY DEF Merged
<1>6. g \in [(1 .. N) \X MuxState -> MuxState]
  <2>1. ASSUME NEW k \in 1 .. N, NEW m \in MuxState, Good(k - 1, m)
        PROVE  MuxStep(a, b, m) \in MuxState
    <3>1. k - 1 \in 0 .. N - 1
      BY <1>1
    <3> QED
      BY <1>4, <1>5, <2>1, <3>1
  <2> HIDE DEF Good, N
  <2> QED
    BY <2>1
<1>7. \A k \in 1 .. N : \A m \in MuxState :
        g[<<k, m>>] = IF Good(k - 1, m) THEN MuxStep(a, b, m) ELSE m
  <2> HIDE DEF Good, N
  <2> QED
    OBVIOUS
<1> HIDE DEF N, start, Good, g, Steps
<1>8. PICK f : IsIteration(f, start, g, MuxState, N)
  BY <1>1, <1>3, <1>6, IterationExists
<1>9. f[0] = start /\ f \in [0 .. N -> MuxState] /\ \A k \in 1 .. N : f[k] = g[<<k, f[k - 1]>>]
  BY <1>8 DEF IsIteration
<1>10. ASSUME NEW k \in 0 .. N - 1, Good(k, f[k])
       PROVE  f[k + 1] = MuxStep(a, b, f[k]) /\ Good(k + 1, f[k + 1])
  <2>1. k + 1 \in 1 .. N /\ (k + 1) - 1 = k /\ k \in 0 .. N
    BY <1>1
  <2>2. f[k] \in MuxState /\ f[k + 1] = g[<<k + 1, f[k]>>]
    BY <1>9, <2>1
  <2>3. f[k + 1] = MuxStep(a, b, f[k])
    BY <1>7, <1>10, <2>1, <2>2
  <2> QED
    BY <1>4, <1>10, <2>3
<1>11. \A k \in 0 .. N : Good(k, f[k])
  <2> DEFINE G == {k \in 0 .. N : Good(k, f[k])}
  <2>1. 0 \in G
    BY <1>1, <1>3, <1>9
  <2>2. ASSUME NEW k \in 0 .. N - 1, k \in G PROVE k + 1 \in G
    <3>1. k + 1 \in 0 .. N
      BY <1>1
    <3> QED
      BY <1>10, <2>2, <3>1
  <2>3. 0 .. N \subseteq G
    <3> HIDE DEF G
    <3> QED
      BY <1>1, <2>1, <2>2, InductionUpTo
  <2> QED
    BY <2>3
<1>12. f = Steps(f)
  <2>1. ASSUME NEW k \in 0 .. N PROVE f[k] = IF k = 0 THEN start ELSE MuxStep(a, b, f[k - 1])
    <3>1. CASE k = 0
      BY <1>9, <3>1
    <3>2. CASE k # 0
      <4>1. k - 1 \in 0 .. N - 1 /\ (k - 1) + 1 = k /\ k - 1 \in 0 .. N
        BY <1>1, <3>2
      <4>2. f[(k - 1) + 1] = MuxStep(a, b, f[k - 1])
        BY <1>10, <1>11, <4>1
      <4> QED
        BY <3>2, <4>1, <4>2
    <3> QED
      BY <3>1, <3>2
  <2> QED
    BY <1>9, <2>1 DEF Steps
<1> DEFINE h == CHOOSE k : k = Steps(k)
<1>13. h = Steps(h)
  BY <1>12
<1> HIDE DEF h
<1>14. /\ h[0] = start
       /\ \A k \in 0 .. N - 1 : h[k + 1] = MuxStep(a, b, h[k])
  <2>1. h = [k \in 0 .. N |-> IF k = 0 THEN start ELSE MuxStep(a, b, h[k - 1])]
    BY <1>13 DEF Steps
  <2>2. 0 \in 0 .. N
    BY <1>1
  <2>3. ASSUME NEW k \in 0 .. N - 1 PROVE h[k + 1] = MuxStep(a, b, h[k])
    <3>1. k + 1 \in 0 .. N /\ k + 1 # 0 /\ (k + 1) - 1 = k
      BY <1>1
    <3> QED
      BY <2>1, <3>1
  <2> QED
    BY <2>1, <2>2, <2>3
<1>15. h[N] = f[N]
  <2> DEFINE G == {k \in 0 .. N : h[k] = f[k]}
  <2>1. 0 \in G
    BY <1>1, <1>9, <1>14
  <2>2. ASSUME NEW k \in 0 .. N - 1, k \in G PROVE k + 1 \in G
    <3>1. k + 1 \in 0 .. N /\ k \in 0 .. N
      BY <1>1
    <3>2. h[k] = f[k] /\ Good(k, f[k])
      BY <1>11, <2>2, <3>1
    <3> QED
      BY <1>10, <1>14, <3>1, <3>2
  <2>3. 0 .. N \subseteq G
    <3> HIDE DEF G
    <3> QED
      BY <1>1, <2>1, <2>2, InductionUpTo
  <2>4. N \in G
    BY <1>1, <2>3
  <2> QED
    BY <2>4
<1>16. Good(N, f[N]) /\ Multiplex(a, b) = f[N].merged
  <2>1. N \in 0 .. N
    BY <1>1
  <2> QED
    BY <1>2, <1>11, <1>15, <2>1 DEF h
<1> QED
  BY <1>16 DEF Good, N

(* multiplex loses no line of either stream and sorts them by number. *)
LEMMA MultiplexSorts ==
  ASSUME NEW a, NEW b, NEW S, NEW T, AreStreams(a, b, S, T)
  PROVE  LET m == Multiplex(a, b)
         IN  m \in Seq(Line) /\ Increasing(m) /\ Kept(m, S) = a /\ Kept(m, T) = b
<1>1. PICK m : Merged(a, b, S, T, Len(a) + Len(b), m) /\ Multiplex(a, b) = m.merged
  BY MuxIsIterated
<1>2. a \in Seq(Line) /\ b \in Seq(Line) /\ Len(a) \in Nat /\ Len(b) \in Nat
  BY DEF AreStreams
<1>3. m.i - 1 = Len(a) /\ m.j - 1 = Len(b)
  BY <1>1, <1>2 DEF Merged
<1>4. SubSeq(a, 1, Len(a)) = a /\ SubSeq(b, 1, Len(b)) = b
  BY <1>2, FrontOfNone
<1> QED
  BY <1>1, <1>3, <1>4 DEF Merged, MuxState
------------------------------------------------------------------------------
(* What is printed *)

(* Each reader has taken text only, and one that has ended has come to the *)
(* end of its stream, to which nothing is added any more.                  *)
TextIsTaken ==
  /\ seq = taken["stdout"] + taken["stderr"]
  /\ \A s \in Stream : Len(written[s]) <= MaxLines
  /\ \A s \in Stream : taken[s] <= Len(written[s]) /\ \A i \in 1 .. taken[s] : written[s][i] = "text"
  /\ \A s \in Stream : reader[s] = "ended" => AtEnd(s)

(* A number is given once, and later lines of a stream have greater ones.  *)
Numbered(lines) ==
  \A i, j \in DOMAIN lines : i < j =>
    /\ lines[i].seq # lines[j].seq
    /\ lines[i].stream = lines[j].stream => lines[i].seq < lines[j].seq

(* A line that is numbered and not yet sent. *)
Held(s) == IF reader[s] = "sending" THEN 1 ELSE 0

HeldAreNumbered ==
  /\ \A s \in Stream : reader[s] = "sending" => taken[s] > 0 /\ number[s] < seq
  /\ \A s, t \in Stream : s # t /\ reader[s] = "sending" /\ reader[t] = "sending" =>
       number[s] # number[t]

Counted(s, lines) == \A i \in DOMAIN LinesOf(s, lines) : LinesOf(s, lines)[i].n = i

(* What was printed and what is in the channel, one after the other: the   *)
(* lines the readers have taken but for those they hold.                   *)
Sent == printed \o channel

SentAreTaken ==
  main = "printing" =>
    /\ outcome = "none"
    /\ Numbered(Sent)
    /\ \A s \in Stream : Counted(s, Sent) /\ Len(LinesOf(s, Sent)) = taken[s] - Held(s)
    /\ \A i \in DOMAIN Sent :
         /\ Sent[i].seq < seq
         /\ \A s \in Stream : reader[s] = "sending" =>
              /\ Sent[i].seq # number[s]
              /\ Sent[i].stream = s => Sent[i].seq < number[s]

(* What was printed stays as it is when the loop has ended. *)
PrintedForGood ==
  /\ Numbered(printed) /\ PrintsEachStreamInOrder
  /\ outcome = "Drained" => \A s \in Stream :
       reader[s] = "ended" /\ Len(LinesOf(s, printed)) = taken[s]

Printing == LogStreamTypeOK /\ TextIsTaken /\ HeldAreNumbered /\ SentAreTaken /\ PrintedForGood

(* Lines of one stream, in a sequence that goes on. *)
LEMMA LinesOfType ==
  ASSUME NEW s \in Stream, NEW lines \in Seq(Line)
  PROVE  LinesOf(s, lines) \in Seq(Line)
BY KeptHasPlaces DEF LinesOf

LEMMA LinesOfAppend ==
  ASSUME NEW s \in Stream, NEW lines \in Seq(Line), NEW l \in Line
  PROVE  LinesOf(s, Append(lines, l)) =
           IF l.stream = s THEN Append(LinesOf(s, lines), l) ELSE LinesOf(s, lines)
<1>1. l \in OfStream(s) <=> l.stream = s
  BY DEF OfStream
<1>2. Kept(Append(lines, l), OfStream(s)) =
        IF l \in OfStream(s) THEN Append(Kept(lines, OfStream(s)), l) ELSE Kept(lines, OfStream(s))
  BY KeptAppend
<1> QED
  BY <1>1, <1>2 DEF LinesOf

LEMMA CountedAppend ==
  ASSUME NEW s \in Stream, NEW lines \in Seq(Line), NEW l \in Line, Counted(s, lines),
         l.stream = s => l.n = Len(LinesOf(s, lines)) + 1
  PROVE  Counted(s, Append(lines, l))
<1> DEFINE own == LinesOf(s, lines)
<1>1. own \in Seq(Line)
  BY LinesOfType
<1>2. CASE l.stream = s
  <2>1. LinesOf(s, Append(lines, l)) = Append(own, l)
    BY <1>2, LinesOfAppend
  <2>2. /\ DOMAIN Append(own, l) = 1 .. Len(own) + 1 /\ Len(own) \in Nat /\ DOMAIN own = 1 .. Len(own)
        /\ Append(own, l)[Len(own) + 1] = l
        /\ \A i \in 1 .. Len(own) : Append(own, l)[i] = own[i]
    BY <1>1, AppendPlaces
  <2>3. \A i \in 1 .. Len(own) : own[i].n = i
    BY <2>2 DEF Counted
  <2> HIDE DEF own
  <2>4. \A i \in 1 .. Len(own) + 1 : Append(own, l)[i].n = i
    <3>1. \A i \in 1 .. Len(own) + 1 : i \in 1 .. Len(own) \/ i = Len(own) + 1
      BY <2>2
    <3> QED
      BY <1>2, <2>2, <2>3, <3>1 DEF own
  <2> QED
    BY <2>1, <2>2, <2>4 DEF Counted
<1>3. CASE l.stream # s
  BY <1>3, LinesOfAppend DEF Counted
<1> QED
  BY <1>2, <1>3

LEMMA NumberedAppend ==
  ASSUME NEW lines \in Seq(Line), NEW l \in Line, Numbered(lines),
         \A i \in DOMAIN lines : /\ lines[i].seq # l.seq
                                 /\ lines[i].stream = l.stream => lines[i].seq < l.seq
  PROVE  Numbered(Append(lines, l))
<1> DEFINE new == Append(lines, l)
           n == Len(lines)
<1>1. /\ DOMAIN new = 1 .. n + 1 /\ n \in Nat /\ DOMAIN lines = 1 .. n
      /\ new[n + 1] = l /\ \A i \in 1 .. n : new[i] = lines[i]
  BY AppendPlaces
<1> HIDE DEF new, n
<1>2. ASSUME NEW i \in 1 .. n + 1, NEW j \in 1 .. n + 1, i < j
      PROVE  /\ new[i].seq # new[j].seq
             /\ new[i].stream = new[j].stream => new[i].seq < new[j].seq
  <2>1. i \in 1 .. n
    BY <1>1, <1>2
  <2>2. CASE j \in 1 .. n
    BY <1>1, <1>2, <2>1, <2>2 DEF Numbered
  <2>3. CASE j = n + 1
    BY <1>1, <2>1, <2>3
  <2> QED
    BY <1>1, <2>2, <2>3
<1> QED
  BY <1>1, <1>2 DEF Numbered, new

(* What was printed is the first part of what was sent. *)
LEMMA FirstPart ==
  ASSUME NEW a \in Seq(Line), NEW b \in Seq(Line)
  PROVE  /\ Numbered(a \o b) => Numbered(a)
         /\ \A s \in Stream : Counted(s, a \o b) => Counted(s, a)
<1>1. /\ Len(a) \in Nat /\ Len(b) \in Nat /\ DOMAIN a = 1 .. Len(a)
      /\ DOMAIN (a \o b) = 1 .. Len(a) + Len(b)
      /\ \A i \in 1 .. Len(a) : (a \o b)[i] = a[i]
  <2>1. a \o b \in Seq(Line) /\ Len(a \o b) = Len(a) + Len(b)
    BY ConcatPlaces
  <2>2. \A i \in 1 .. Len(a) : (a \o b)[i] = a[i]
    BY ConcatPlaces
  <2> QED
    BY <2>1, <2>2
<1>2. Numbered(a \o b) => Numbered(a)
  <2>1. \A i \in 1 .. Len(a) : i \in 1 .. Len(a) + Len(b)
    BY <1>1
  <2> QED
    BY <1>1, <2>1 DEF Numbered
<1>3. ASSUME NEW s \in Stream, Counted(s, a \o b) PROVE Counted(s, a)
  <2> DEFINE p == LinesOf(s, a)
             q == LinesOf(s, b)
  <2>1. p \in Seq(Line) /\ q \in Seq(Line)
    BY LinesOfType
  <2>2. LinesOf(s, a \o b) = p \o q
    BY KeptConcat DEF LinesOf
  <2> HIDE DEF p, q
  <2>3. /\ p \o q \in Seq(Line) /\ Len(p \o q) = Len(p) + Len(q)
        /\ \A i \in 1 .. Len(p) : (p \o q)[i] = p[i]
    BY <2>1, ConcatPlaces
  <2>4. Len(p) \in Nat /\ Len(q) \in Nat /\ DOMAIN p = 1 .. Len(p)
        /\ DOMAIN (p \o q) = 1 .. Len(p) + Len(q)
    BY <2>1, <2>3
  <2>5. \A i \in 1 .. Len(p) : i \in 1 .. Len(p) + Len(q)
    BY <2>4
  <2>6. \A i \in 1 .. Len(p) : p[i].n = i
    BY <1>3, <2>2, <2>3, <2>4, <2>5 DEF Counted
  <2> QED
    BY <2>4, <2>6 DEF Counted, p
<1> QED
  BY <1>2, <1>3
------------------------------------------------------------------------------
(* One lemma for each part of the invariant. *)

LEMMA LineTaken ==
  ASSUME Printing, NEW s \in Stream, reader[s] = "sending"
  PROVE  [stream |-> s, n |-> taken[s], seq |-> number[s]] \in Line
<1>1. taken[s] \in 1 .. MaxLines
  <2>1. taken[s] \in 0 .. MaxLines /\ taken[s] > 0
    BY DEF Printing, LogStreamTypeOK, HeldAreNumbered
  <2> QED
    BY <2>1, LogStreamAssumption
<1>2. number[s] \in 0 .. 2 * MaxLines
  BY DEF Printing, LogStreamTypeOK
<1> QED
  BY <1>1, <1>2 DEF Line

LEMMA ReadLineTypes ==
  ASSUME Printing, NEW s \in Stream, ReadLine(s)
  PROVE  /\ taken[s] \in Nat /\ taken[s] < Len(written[s]) /\ taken[s] < MaxLines
         /\ \A t \in Stream \ {s} : taken'[t] = taken[t]
         /\ taken'[s] = taken[s] + 1
         /\ taken' \in [Stream -> 0 .. MaxLines]
         /\ seq' = taken'["stdout"] + taken'["stderr"]
         /\ seq' \in 0 .. 2 * MaxLines
<1>1. /\ taken \in [Stream -> 0 .. MaxLines] /\ written[s] \in Seq({"text", "bytes"})
      /\ taken[s] < Len(written[s]) /\ Len(written[s]) <= MaxLines
      /\ seq = taken["stdout"] + taken["stderr"]
      /\ taken' = [taken EXCEPT ![s] = @ + 1] /\ seq' = seq + 1
  BY DEF Printing, LogStreamTypeOK, TextIsTaken, ReadLine, Unread
<1>2. taken[s] \in 0 .. MaxLines /\ Len(written[s]) \in Nat /\ MaxLines \in Nat
  BY <1>1, LogStreamAssumption
<1>3. taken[s] < MaxLines /\ taken[s] + 1 \in 0 .. MaxLines
  BY <1>1, <1>2
<1>4. /\ taken' \in [Stream -> 0 .. MaxLines] /\ taken'[s] = taken[s] + 1
      /\ \A t \in Stream \ {s} : taken'[t] = taken[t]
  BY <1>1, <1>3
<1>5. /\ taken["stdout"] \in 0 .. MaxLines /\ taken["stderr"] \in 0 .. MaxLines
      /\ taken'["stdout"] \in 0 .. MaxLines /\ taken'["stderr"] \in 0 .. MaxLines
  BY <1>1, <1>4 DEF Stream
<1>6. seq' = taken'["stdout"] + taken'["stderr"]
  BY <1>1, <1>4, <1>5 DEF Stream
<1> QED
  BY <1>1, <1>2, <1>3, <1>4, <1>5, <1>6, SMTT(20)

LEMMA LogsTypeStep ==
  ASSUME Printing, LogsNext
  PROVE  LogStreamTypeOK'
<1>1. ASSUME NEW s \in Stream, WriteLine(s) PROVE LogStreamTypeOK'
  <2>1. /\ holds' \subseteq Stream /\ child' \in {"running", "exited", "crashed"}
        /\ written' \in [Stream -> Seq({"text", "bytes"})]
    <3>1. /\ holds \subseteq Stream /\ child \in {"running", "exited", "crashed"}
          /\ written \in [Stream -> Seq({"text", "bytes"})]
      BY DEF Printing, LogStreamTypeOK
    <3>2. \/ child' = "crashed" /\ holds' = {} /\ written' = written
          \/ /\ \E l \in {"text", "bytes"} : written' = [written EXCEPT ![s] = Append(@, l)]
             /\ child' = child /\ holds' = holds
      BY <1>1 DEF WriteLine, Dies
    <3>3. ASSUME NEW l \in {"text", "bytes"}, written' = [written EXCEPT ![s] = Append(@, l)]
          PROVE  written' \in [Stream -> Seq({"text", "bytes"})]
      <4>1. Append(written[s], l) \in Seq({"text", "bytes"})
        BY <3>1, <3>3
      <4> QED
        BY <3>1, <3>3, <4>1
    <3> QED
      BY <3>1, <3>2, <3>3
  <2>2. UNCHANGED <<inherited, readers, channel, printed, keys, mainThread>>
    BY <1>1 DEF WriteLine
  <2> QED
    BY <2>1, <2>2 DEF Printing, LogStreamTypeOK, readers, keys, mainThread
<1>2. ASSUME NEW s \in Stream, CloseStream(s) \/ ReleasePipe(s) PROVE LogStreamTypeOK'
  BY <1>2 DEF CloseStream, ReleasePipe, Printing, LogStreamTypeOK, readers, keys, mainThread
<1>3. ASSUME NEW s \in Stream, ReadLine(s) PROVE LogStreamTypeOK'
  <2>1. taken' \in [Stream -> 0 .. MaxLines] /\ seq' \in 0 .. 2 * MaxLines
    BY <1>3, ReadLineTypes
  <2>2. /\ number' \in [Stream -> 0 .. 2 * MaxLines]
        /\ reader' \in [Stream -> {"reading", "sending", "ended"}]
    BY <1>3 DEF ReadLine, Printing, LogStreamTypeOK
  <2>3. UNCHANGED <<game, channel, printed, keys, mainThread>>
    BY <1>3 DEF ReadLine
  <2> QED
    BY <2>1, <2>2, <2>3 DEF Printing, LogStreamTypeOK, game, keys, mainThread
<1>4. ASSUME NEW s \in Stream, SendLine(s) PROVE LogStreamTypeOK'
  <2> DEFINE l == [stream |-> s, n |-> taken[s], seq |-> number[s]]
  <2>1. l \in Line
    BY <1>4, LineTaken DEF SendLine
  <2>2. channel' = Append(channel, l) /\ channel \in Seq(Line)
    BY <1>4 DEF SendLine, Printing, LogStreamTypeOK
  <2> HIDE DEF l
  <2>3. channel' \in Seq(Line)
    BY <2>1, <2>2
  <2>4. reader' \in [Stream -> {"reading", "sending", "ended"}]
    BY <1>4 DEF SendLine, Printing, LogStreamTypeOK
  <2>5. UNCHANGED <<game, taken, number, seq, printed, keys, mainThread>>
    BY <1>4 DEF SendLine
  <2> QED
    BY <2>3, <2>4, <2>5 DEF Printing, LogStreamTypeOK, game, keys, mainThread
<1>5. ASSUME NEW s \in Stream, EndReader(s) PROVE LogStreamTypeOK'
  BY <1>5 DEF EndReader, Printing, LogStreamTypeOK, game, keys, mainThread
<1>6. CASE EndGame
  BY <1>6 DEF EndGame, Dies, Printing, LogStreamTypeOK, readers, keys, mainThread
<1>7. CASE PressCtrlC
  BY <1>7 DEF PressCtrlC, Dies, Printing, LogStreamTypeOK, readers
<1>8. CASE WatcherStep \/ PollFails
  BY <1>8, ZenonT(30) DEF WatcherStep, StartWatcher, StopWatcher, PollFails, LeaveRawMode,
              Printing, LogStreamTypeOK, game, readers, mainThread
<1>9. CASE PrintLine \/ PrintFails
  <2>1. channel # <<>> /\ channel \in Seq(Line) /\ printed \in Seq(Line)
    BY <1>9 DEF PrintLine, PrintFails, Printing, LogStreamTypeOK
  <2>2. Head(channel) = channel[1] /\ channel[1] \in Line /\ Tail(channel) \in Seq(Line)
    BY <2>1, PopElements
  <2>3. Append(printed, Head(channel)) \in Seq(Line)
    BY <2>1, <2>2
  <2>4. channel' \in Seq(Line) /\ printed' \in Seq(Line)
    BY <1>9, <2>1, <2>2, <2>3 DEF PrintLine, PrintFails
  <2> QED
    BY <1>9, <2>4, ZenonT(30) DEF PrintLine, PrintFails, Break, Printing, LogStreamTypeOK, game, readers,
                      keys, mainThread
<1>10. CASE SeeInterrupt \/ SeeDisconnect \/ JoinWatcher \/ JoinReaders
  BY <1>10, ZenonT(30) DEF SeeInterrupt, SeeDisconnect, JoinWatcher, JoinReaders, Break, Printing,
               LogStreamTypeOK, game, readers, keys
<1>11. CASE KillChild \/ WaitChild
  BY <1>11 DEF KillChild, WaitChild, ClassifyExit, Dies, Printing, LogStreamTypeOK, game, readers,
               keys
<1>12. CASE Over
  BY <1>12 DEF Over, logsVars, Printing, LogStreamTypeOK, game, readers, keys, mainThread
<1> QED
  BY <1>1, <1>2, <1>3, <1>4, <1>5, <1>6, <1>7, <1>8, <1>9, <1>10, <1>11, <1>12
  DEF LogsNext, ReaderStep, MainStep
------------------------------------------------------------------------------
(* Pipes are closed and never opened again, so an end stays an end. *)
LEMMA TextStays ==
  ASSUME TextIsTaken, UNCHANGED <<written, readers>>,
         holds' \subseteq holds, inherited' \subseteq inherited
  PROVE  TextIsTaken'
<1>1. \A s \in Stream : AtEnd(s) => AtEnd(s)'
  BY DEF AtEnd, Unread, IsClosed, readers
<1> QED
  BY <1>1 DEF TextIsTaken, readers

LEMMA TextStep ==
  ASSUME Printing, LogsNext
  PROVE  TextIsTaken'
<1>1. /\ TextIsTaken /\ taken \in [Stream -> 0 .. MaxLines] /\ MaxLines \in Nat
      /\ written \in [Stream -> Seq({"text", "bytes"})]
      /\ reader \in [Stream -> {"reading", "sending", "ended"}]
  BY LogStreamAssumption DEF Printing, LogStreamTypeOK
<1>2. ASSUME NEW s \in Stream, WriteLine(s), reader[s] # "ended" PROVE TextIsTaken'
  <2>1. PICK l \in {"text", "bytes"} : written' = [written EXCEPT ![s] = Append(@, l)]
    BY <1>2 DEF WriteLine
  <2>2. UNCHANGED <<holds, inherited, taken, reader, number, seq>> /\ Len(written[s]) < MaxLines
    BY <1>2 DEF WriteLine, readers
  <2>3. /\ Len(written'[s]) = Len(written[s]) + 1 /\ Len(written[s]) \in Nat
        /\ \A i \in 1 .. Len(written[s]) : written'[s][i] = written[s][i]
    BY <1>1, <2>1
  <2>4. \A t \in Stream \ {s} : written'[t] = written[t]
    BY <1>1, <2>1
  <2>5. ASSUME NEW t \in Stream
        PROVE  /\ Len(written'[t]) <= MaxLines /\ taken'[t] <= Len(written'[t])
               /\ \A i \in 1 .. taken'[t] : written'[t][i] = "text"
    <3>1. /\ taken[t] \in Nat /\ taken[t] <= Len(written[t]) /\ Len(written[t]) <= MaxLines
          /\ \A i \in 1 .. taken[t] : written[t][i] = "text"
      BY <1>1 DEF TextIsTaken
    <3>2. taken'[t] = taken[t]
      BY <2>2
    <3>3. CASE t = s
      <4>1. Len(written'[t]) <= MaxLines /\ taken[t] <= Len(written'[t])
        BY <1>1, <2>2, <2>3, <3>1, <3>3
      <4>2. \A i \in 1 .. taken[t] : written'[t][i] = "text"
        BY <2>3, <3>1, <3>3
      <4> QED
        BY <3>2, <4>1, <4>2
    <3>4. CASE t # s
      BY <2>4, <3>1, <3>2, <3>4
    <3> QED
      BY <3>3, <3>4
  <2>8. \A t \in Stream : reader'[t] = "ended" => AtEnd(t)'
    BY <1>1, <1>2, <2>2, <2>4 DEF TextIsTaken, AtEnd, Unread, IsClosed
  <2> QED
    BY <1>1, <2>2, <2>5, <2>8 DEF TextIsTaken
<1>3. ASSUME NEW s \in Stream, ReadLine(s) PROVE TextIsTaken'
  <2>1. /\ taken[s] \in Nat /\ taken[s] < Len(written[s]) /\ taken'[s] = taken[s] + 1
        /\ \A t \in Stream \ {s} : taken'[t] = taken[t]
        /\ seq' = taken'["stdout"] + taken'["stderr"]
    BY <1>3, ReadLineTypes
  <2>2. /\ UNCHANGED <<holds, inherited, written>> /\ written[s][taken[s] + 1] = "text"
        /\ reader' = [reader EXCEPT ![s] = "sending"]
    BY <1>3 DEF ReadLine, game
  <2>3. Len(written[s]) \in Nat
    BY <1>1
  <2>4. taken'[s] <= Len(written[s]) /\ \A i \in 1 .. taken'[s] : written[s][i] = "text"
    <3>1. \A i \in 1 .. taken[s] + 1 : i \in 1 .. taken[s] \/ i = taken[s] + 1
      BY <2>1
    <3> QED
      BY <1>1, <2>1, <2>2, <2>3, <3>1 DEF TextIsTaken
  <2>5. \A t \in Stream : reader'[t] = "ended" => t # s /\ AtEnd(t)
    BY <1>1, <2>2 DEF TextIsTaken
  <2>6. \A t \in Stream : reader'[t] = "ended" => AtEnd(t)'
    BY <2>1, <2>2, <2>5 DEF AtEnd, Unread, IsClosed
  <2> QED
    BY <1>1, <2>1, <2>2, <2>4, <2>6 DEF TextIsTaken
<1>4. ASSUME NEW s \in Stream, SendLine(s) \/ EndReader(s) PROVE TextIsTaken'
  <2>1. UNCHANGED <<holds, inherited, written, taken, seq>>
    BY <1>4 DEF SendLine, EndReader, game
  <2>2. \A t \in Stream : reader'[t] = "ended" => AtEnd(t)
    BY <1>1, <1>4 DEF SendLine, EndReader, TextIsTaken
  <2>3. \A t \in Stream : AtEnd(t) => AtEnd(t)'
    BY <2>1 DEF AtEnd, Unread, IsClosed
  <2> QED
    BY <1>1, <2>1, <2>2, <2>3 DEF TextIsTaken
<1>5. ASSUME UNCHANGED <<written, readers>>, holds' \subseteq holds, inherited' \subseteq inherited
      PROVE  TextIsTaken'
  BY <1>1, <1>5, TextStays
<1>6. ASSUME NEW s \in Stream,
             (WriteLine(s) /\ reader[s] = "ended") \/ CloseStream(s) \/ ReleasePipe(s)
      PROVE  TextIsTaken'
  BY <1>5, <1>6 DEF WriteLine, CloseStream, ReleasePipe, Dies
<1>7. CASE EndGame \/ PressCtrlC
  BY <1>5, <1>7 DEF EndGame, PressCtrlC, Dies
<1>8. CASE WatcherStep \/ PollFails \/ MainStep \/ Over
  BY <1>5, <1>8 DEF WatcherStep, StartWatcher, StopWatcher, PollFails, LeaveRawMode, MainStep,
          SeeInterrupt, PrintLine,
     PrintFails, SeeDisconnect, JoinWatcher, KillChild, JoinReaders, WaitChild, Dies, Over,
     logsVars, game
<1> QED
  BY <1>2, <1>3, <1>4, <1>6, <1>7, <1>8 DEF LogsNext, ReaderStep

LEMMA HeldStep ==
  ASSUME Printing, LogsNext
  PROVE  HeldAreNumbered'
<1>1. /\ HeldAreNumbered /\ taken \in [Stream -> 0 .. MaxLines] /\ seq \in 0 .. 2 * MaxLines
      /\ number \in [Stream -> 0 .. 2 * MaxLines]
      /\ reader \in [Stream -> {"reading", "sending", "ended"}]
  BY DEF Printing, LogStreamTypeOK
<1>2. ASSUME NEW s \in Stream, ReadLine(s) PROVE HeldAreNumbered'
  <2>1. /\ taken[s] \in Nat /\ taken'[s] = taken[s] + 1
        /\ \A t \in Stream \ {s} : taken'[t] = taken[t]
    BY <1>2, ReadLineTypes
  <2>2. /\ number' = [number EXCEPT ![s] = seq] /\ seq' = seq + 1
        /\ reader' = [reader EXCEPT ![s] = "sending"]
    BY <1>2 DEF ReadLine
  <2>3. number'[s] = seq /\ seq \in Nat /\ \A t \in Stream \ {s} :
          number'[t] = number[t] /\ number[t] \in Nat /\ reader'[t] = reader[t]
    BY <1>1, <2>2
  <2> QED
    BY <1>1, <2>1, <2>2, <2>3 DEF HeldAreNumbered
<1>3. ASSUME NEW s \in Stream, SendLine(s) \/ EndReader(s) PROVE HeldAreNumbered'
  BY <1>1, <1>3 DEF SendLine, EndReader, HeldAreNumbered
<1>4. ASSUME NEW s \in Stream, WriteLine(s) \/ CloseStream(s) \/ ReleasePipe(s)
      PROVE  UNCHANGED readers
  BY <1>4 DEF WriteLine, CloseStream, ReleasePipe
<1>5. CASE EndGame \/ PressCtrlC
  BY <1>1, <1>5 DEF EndGame, PressCtrlC, HeldAreNumbered, readers
<1>6. CASE WatcherStep \/ PollFails \/ MainStep \/ Over
  BY <1>1, <1>6 DEF WatcherStep, StartWatcher, StopWatcher, PollFails, LeaveRawMode, MainStep,
          SeeInterrupt, PrintLine,
     PrintFails, SeeDisconnect, JoinWatcher, KillChild, JoinReaders, WaitChild, Over,
     logsVars, HeldAreNumbered, readers
<1>7. ASSUME UNCHANGED readers PROVE HeldAreNumbered'
  BY <1>1, <1>7 DEF HeldAreNumbered, readers
<1> QED
  BY <1>2, <1>3, <1>4, <1>5, <1>6, <1>7 DEF LogsNext, ReaderStep
------------------------------------------------------------------------------
LEMMA SentType ==
  ASSUME LogStreamTypeOK
  PROVE  Sent \in Seq(Line) /\ DOMAIN Sent = 1 .. Len(Sent) /\ Len(Sent) \in Nat
<1>1. Sent \in Seq(Line)
  <2>1. printed \in Seq(Line) /\ channel \in Seq(Line)
    BY DEF LogStreamTypeOK
  <2> QED
    BY <2>1, ConcatPlaces DEF Sent
<1> QED
  BY <1>1

LEMMA SentStays ==
  ASSUME SentAreTaken, UNCHANGED <<readers, outcome>>, Sent' = Sent,
         main' = main \/ main' # "printing"
  PROVE  SentAreTaken'
<1>1. /\ UNCHANGED <<taken, reader, number, seq>> /\ \A s \in Stream : Held(s)' = Held(s)
  BY DEF readers, Held
<1>2. SUFFICES ASSUME main = "printing"
               PROVE  SentAreTaken'
  BY DEF SentAreTaken
<1>3. Numbered(Sent)' /\ \A s \in Stream : Counted(s, Sent)'
  BY <1>2 DEF SentAreTaken, Numbered, Counted, LinesOf
<1>4. \A s \in Stream : (Len(LinesOf(s, Sent)) = taken[s] - Held(s))'
  BY <1>1, <1>2 DEF SentAreTaken
<1> QED
  BY <1>1, <1>2, <1>3, <1>4 DEF SentAreTaken

LEMMA ReadLineKeepsSent ==
  ASSUME Printing, NEW s \in Stream, ReadLine(s)
  PROVE  SentAreTaken'
<1>1. SUFFICES ASSUME main = "printing"
               PROVE  SentAreTaken'
  BY DEF ReadLine, mainThread, SentAreTaken
<1>2. /\ taken[s] \in Nat /\ taken'[s] = taken[s] + 1
      /\ \A t \in Stream \ {s} : taken'[t] = taken[t]
  BY ReadLineTypes
<1>3. /\ UNCHANGED <<printed, channel, outcome>> /\ Sent' = Sent
      /\ number' = [number EXCEPT ![s] = seq] /\ seq' = seq + 1
      /\ reader' = [reader EXCEPT ![s] = "sending"] /\ reader[s] = "reading"
  BY DEF ReadLine, mainThread, Sent
<1>4. /\ seq \in Nat /\ number \in [Stream -> Nat]
      /\ reader \in [Stream -> {"reading", "sending", "ended"}]
      /\ SentAreTaken /\ Sent \in Seq(Line)
  BY SentType, LogStreamAssumption DEF Printing, LogStreamTypeOK
<1>5. /\ number'[s] = seq /\ reader'[s] = "sending"
      /\ \A t \in Stream \ {s} : number'[t] = number[t] /\ reader'[t] = reader[t]
  BY <1>3, <1>4
<1>6. Numbered(Sent)' /\ \A t \in Stream : Counted(t, Sent)'
  BY <1>1, <1>3, <1>4 DEF SentAreTaken, Numbered, Counted, LinesOf
<1>7. \A t \in Stream : (Len(LinesOf(t, Sent)) = taken[t] - Held(t))'
  <2>1. \A t \in Stream : LinesOf(t, Sent)' = LinesOf(t, Sent)
    BY <1>3
  <2>2. \A t \in Stream : Len(LinesOf(t, Sent)) = taken[t] - Held(t)
    BY <1>1, <1>4 DEF SentAreTaken
  <2>3. \A t \in Stream : taken'[t] - Held(t)' = taken[t] - Held(t)
    BY <1>2, <1>3, <1>5 DEF Held
  <2> QED
    BY <2>1, <2>2, <2>3
<1>8. ASSUME NEW i \in DOMAIN Sent
      PROVE  /\ Sent[i].seq < seq'
             /\ \A t \in Stream : reader'[t] = "sending" =>
                  /\ Sent[i].seq # number'[t]
                  /\ Sent[i].stream = t => Sent[i].seq < number'[t]
  <2>1. /\ Sent[i].seq < seq
        /\ \A t \in Stream : reader[t] = "sending" =>
                  /\ Sent[i].seq # number[t]
                  /\ Sent[i].stream = t => Sent[i].seq < number[t]
    BY <1>1, <1>4 DEF SentAreTaken
  <2>2. Sent[i].seq \in Nat
    <3>1. Sent[i] \in Line
      BY <1>4
    <3>2. \A l \in Line : l.seq \in 0 .. 2 * MaxLines
      BY DEF Line
    <3> QED
      BY <3>1, <3>2, LogStreamAssumption
  <2> QED
    BY <1>3, <1>4, <1>5, <2>1, <2>2
<1>9. outcome' = "none"
  BY <1>1, <1>3, <1>4 DEF SentAreTaken
<1> QED
  BY <1>3, <1>6, <1>7, <1>8, <1>9 DEF SentAreTaken

LEMMA SendLineKeepsSent ==
  ASSUME Printing, NEW s \in Stream, SendLine(s)
  PROVE  SentAreTaken'
<1> DEFINE l == [stream |-> s, n |-> taken[s], seq |-> number[s]]
<1>1. SUFFICES ASSUME main = "printing"
               PROVE  SentAreTaken'
  BY DEF SendLine, mainThread, SentAreTaken
<1>2. /\ UNCHANGED <<taken, number, seq, printed, outcome>>
      /\ channel' = Append(channel, l)
      /\ reader' = [reader EXCEPT ![s] = "reading"] /\ reader[s] = "sending"
  BY DEF SendLine, mainThread
<1>3. l \in Line
  BY <1>2, LineTaken
<1>4. l.stream = s /\ l.n = taken[s] /\ l.seq = number[s]
  OBVIOUS
<1> HIDE DEF l
<1>5. /\ seq \in Nat /\ number \in [Stream -> Nat] /\ taken \in [Stream -> Nat]
      /\ reader \in [Stream -> {"reading", "sending", "ended"}]
      /\ SentAreTaken /\ HeldAreNumbered /\ channel \in Seq(Line) /\ printed \in Seq(Line)
  BY LogStreamAssumption DEF Printing, LogStreamTypeOK
<1>6. Sent \in Seq(Line) /\ Len(Sent) \in Nat /\ DOMAIN Sent = 1 .. Len(Sent)
  BY SentType DEF Printing
<1>7. Sent' = Append(Sent, l)
  BY <1>2, <1>3, <1>5, ConcatAppend DEF Sent
<1>8. \A t \in Stream : LinesOf(t, Sent) \in Seq(Line) /\ Len(LinesOf(t, Sent)) \in Nat
  BY <1>6, LinesOfType
<1>9. /\ Numbered(Sent) /\ \A t \in Stream : Counted(t, Sent)
      /\ \A t \in Stream : Len(LinesOf(t, Sent)) = taken[t] - Held(t)
      /\ outcome = "none"
      /\ \A i \in DOMAIN Sent :
           /\ Sent[i].seq < seq
           /\ \A t \in Stream : reader[t] = "sending" =>
                /\ Sent[i].seq # number[t]
                /\ Sent[i].stream = t => Sent[i].seq < number[t]
  BY <1>1, <1>5 DEF SentAreTaken
<1>10. reader'[s] = "reading" /\ \A t \in Stream \ {s} : reader'[t] = reader[t]
  BY <1>2, <1>5
<1>11. Numbered(Append(Sent, l))
  BY <1>2, <1>3, <1>4, <1>6, <1>9, NumberedAppend
<1>12. \A t \in Stream : Counted(t, Append(Sent, l))
  <2>1. ASSUME NEW t \in Stream PROVE l.stream = t => l.n = Len(LinesOf(t, Sent)) + 1
    <3>1. taken[s] = Len(LinesOf(s, Sent)) + 1
      BY <1>2, <1>5, <1>8, <1>9 DEF Held
    <3> QED
      BY <1>4, <3>1
  <2> QED
    BY <1>3, <1>6, <1>9, <2>1, CountedAppend
<1>13. ASSUME NEW t \in Stream
       PROVE  Len(LinesOf(t, Append(Sent, l))) = taken[t] - (IF reader'[t] = "sending" THEN 1 ELSE 0)
  <2>1. CASE t = s
    <3>1. LinesOf(t, Append(Sent, l)) = Append(LinesOf(t, Sent), l)
      BY <1>3, <1>4, <1>6, <2>1, LinesOfAppend
    <3>2. Len(Append(LinesOf(t, Sent), l)) = Len(LinesOf(t, Sent)) + 1
      BY <1>3, <1>8, AppendPlaces
    <3>3. Len(LinesOf(t, Sent)) = taken[t] - 1 /\ taken[t] \in Nat
      BY <1>2, <1>5, <1>9, <2>1 DEF Held
    <3> QED
      BY <1>8, <1>10, <2>1, <3>1, <3>2, <3>3
  <2>2. CASE t # s
    <3>1. LinesOf(t, Append(Sent, l)) = LinesOf(t, Sent)
      BY <1>3, <1>4, <1>6, <2>2, LinesOfAppend
    <3> QED
      BY <1>9, <1>10, <2>2, <3>1 DEF Held
  <2> QED
    BY <2>1, <2>2
<1>14. ASSUME NEW i \in DOMAIN Append(Sent, l)
       PROVE  /\ Append(Sent, l)[i].seq < seq
              /\ \A t \in Stream : reader'[t] = "sending" =>
                   /\ Append(Sent, l)[i].seq # number[t]
                   /\ Append(Sent, l)[i].stream = t => Append(Sent, l)[i].seq < number[t]
  <2>1. i \in 1 .. Len(Sent) + 1 /\ \A j \in 1 .. Len(Sent) : Append(Sent, l)[j] = Sent[j]
    BY <1>3, <1>6, AppendPlaces
  <2>2. Append(Sent, l)[Len(Sent) + 1] = l
    BY <1>3, <1>6, AppendPlaces
  <2>3. CASE i \in 1 .. Len(Sent)
    BY <1>6, <1>9, <1>10, <2>1, <2>3
  <2>4. CASE i = Len(Sent) + 1
    BY <1>2, <1>4, <1>5, <1>10, <2>2, <2>4 DEF HeldAreNumbered
  <2> QED
    BY <1>6, <2>1, <2>3, <2>4
<1> QED
  BY <1>2, <1>7, <1>9, <1>11, <1>12, <1>13, <1>14 DEF SentAreTaken, Held

LEMMA SentStep ==
  ASSUME Printing, LogsNext
  PROVE  SentAreTaken'
<1>1. SentAreTaken /\ LogStreamTypeOK
  BY DEF Printing
<1>2. ASSUME UNCHANGED <<readers, printed, channel, outcome>>, main' = main \/ main' # "printing"
      PROVE  SentAreTaken'
  BY <1>1, <1>2, SentStays DEF Sent
<1>3. ASSUME NEW s \in Stream, WriteLine(s) \/ CloseStream(s) \/ ReleasePipe(s)
      PROVE  SentAreTaken'
  BY <1>2, <1>3 DEF WriteLine, CloseStream, ReleasePipe, mainThread
<1>4. ASSUME NEW s \in Stream, EndReader(s) PROVE SentAreTaken'
  <2>1. UNCHANGED <<taken, number, seq, channel, printed, main, outcome>> /\ Sent' = Sent
    BY <1>4 DEF EndReader, mainThread, Sent
  <2>2. \A t \in Stream : /\ reader'[t] = "sending" <=> reader[t] = "sending"
                          /\ Held(t)' = Held(t)
    BY <1>1, <1>4 DEF EndReader, LogStreamTypeOK, Held
  <2>3. main = "printing" => Numbered(Sent)' /\ \A t \in Stream : Counted(t, Sent)'
    BY <1>1, <2>1 DEF SentAreTaken, Numbered, Counted, LinesOf
  <2> QED
    BY <1>1, <2>1, <2>2, <2>3 DEF SentAreTaken
<1>5. CASE EndGame \/ PressCtrlC
  BY <1>2, <1>5 DEF EndGame, PressCtrlC, mainThread
<1>6. CASE WatcherStep \/ PollFails \/ Over
  BY <1>2, <1>6 DEF WatcherStep, StartWatcher, StopWatcher, PollFails, LeaveRawMode, Over,
          logsVars, mainThread
<1>7. CASE SeeInterrupt \/ PrintFails \/ SeeDisconnect
  BY <1>7 DEF SeeInterrupt, PrintFails, SeeDisconnect, Break, SentAreTaken
<1>8. CASE JoinWatcher \/ KillChild \/ JoinReaders \/ WaitChild
  BY <1>2, <1>8 DEF JoinWatcher, KillChild, JoinReaders, WaitChild
<1>9. CASE PrintLine
  <2>1. channel # <<>> /\ channel \in Seq(Line) /\ printed \in Seq(Line)
    BY <1>1, <1>9 DEF PrintLine, LogStreamTypeOK
  <2>2. Append(printed, Head(channel)) \o Tail(channel) = printed \o channel
    BY <2>1, MoveHead
  <2>3. Sent' = Sent /\ UNCHANGED <<readers, outcome, main>>
    BY <1>9, <2>2 DEF PrintLine, mainThread, Sent
  <2> QED
    BY <1>1, <2>3, SentStays
<1> QED
  BY <1>3, <1>4, <1>5, <1>6, <1>7, <1>8, <1>9, ReadLineKeepsSent, SendLineKeepsSent
  DEF LogsNext, ReaderStep, MainStep

LEMMA GoodStep ==
  ASSUME Printing, LogsNext
  PROVE  PrintedForGood'
<1>1. PrintedForGood /\ SentAreTaken /\ LogStreamTypeOK
  BY DEF Printing
<1>2. ASSUME UNCHANGED printed, outcome' # "Drained" \/ outcome' = outcome,
             outcome = "Drained" => \A s \in Stream :
               reader[s] = "ended" => UNCHANGED <<reader[s], taken[s]>>
      PROVE  PrintedForGood'
  BY <1>1, <1>2 DEF PrintedForGood, PrintsEachStreamInOrder, Numbered, LinesOf
<1>3. ASSUME NEW s \in Stream, WriteLine(s) \/ CloseStream(s) \/ ReleasePipe(s)
      PROVE  PrintedForGood'
  BY <1>2, <1>3 DEF WriteLine, CloseStream, ReleasePipe, mainThread, readers
<1>4. ASSUME NEW s \in Stream, ReaderStep(s) PROVE PrintedForGood'
  <2>1. UNCHANGED <<printed, outcome>>
    BY <1>4 DEF ReaderStep, ReadLine, SendLine, EndReader, mainThread
  <2>2. \A t \in Stream : reader[t] = "ended" => UNCHANGED <<reader[t], taken[t]>>
    BY <1>1, <1>4 DEF ReaderStep, ReadLine, SendLine, EndReader, LogStreamTypeOK
  <2> QED
    BY <1>2, <2>1, <2>2
<1>5. CASE EndGame \/ PressCtrlC
  BY <1>2, <1>5 DEF EndGame, PressCtrlC, mainThread, readers
<1>6. CASE WatcherStep \/ PollFails \/ Over
  BY <1>2, <1>6 DEF WatcherStep, StartWatcher, StopWatcher, PollFails, LeaveRawMode, Over,
          logsVars, mainThread, readers
<1>7. CASE SeeInterrupt \/ PrintFails
  BY <1>2, <1>7 DEF SeeInterrupt, PrintFails, Break, readers
<1>8. CASE SeeDisconnect
  <2>1. /\ main = "printing" /\ channel = <<>> /\ \A s \in Stream : reader[s] = "ended"
        /\ UNCHANGED <<taken, reader, printed>>
    BY <1>8 DEF SeeDisconnect, Disconnected, readers
  <2>2. Sent = printed
    BY <1>1, <2>1, ConcatEmpty DEF Sent, LogStreamTypeOK
  <2>3. ASSUME NEW s \in Stream PROVE Len(LinesOf(s, printed)) = taken[s]
    <3>1. Len(LinesOf(s, Sent)) = taken[s] - Held(s)
      BY <1>1, <2>1 DEF SentAreTaken
    <3>2. Held(s) = 0
      BY <2>1 DEF Held
    <3>3. taken[s] \in Nat
      BY <1>1 DEF LogStreamTypeOK
    <3> QED
      BY <2>2, <3>1, <3>2, <3>3
  <2> QED
    BY <1>1, <2>1, <2>3 DEF PrintedForGood, PrintsEachStreamInOrder, Numbered, LinesOf
<1>9. CASE JoinWatcher \/ KillChild \/ JoinReaders \/ WaitChild
  BY <1>2, <1>9 DEF JoinWatcher, KillChild, JoinReaders, WaitChild, readers
<1>10. CASE PrintLine
  <2>1. channel # <<>> /\ channel \in Seq(Line) /\ printed \in Seq(Line) /\ main = "printing"
    BY <1>1, <1>10 DEF PrintLine, LogStreamTypeOK
  <2>2. /\ Append(printed, Head(channel)) \o Tail(channel) = printed \o channel
        /\ Head(channel) \in Line /\ Tail(channel) \in Seq(Line)
    BY <2>1, MoveHead, PopElements
  <2> DEFINE p == Append(printed, Head(channel))
             c == Tail(channel)
  <2>3. p \in Seq(Line) /\ c \in Seq(Line) /\ p \o c = Sent /\ printed' = p
    BY <1>10, <2>1, <2>2 DEF PrintLine, Sent
  <2> HIDE DEF p, c
  <2>4. Numbered(p) /\ \A s \in Stream : Counted(s, p)
    <3>1. Numbered(p \o c) /\ \A s \in Stream : Counted(s, p \o c)
      BY <1>1, <2>1, <2>3 DEF SentAreTaken
    <3> QED
      BY <2>3, <3>1, FirstPart
  <2>5. outcome' # "Drained"
    BY <1>1, <1>10, <2>1 DEF PrintLine, SentAreTaken, mainThread
  <2> QED
    BY <2>3, <2>4, <2>5 DEF PrintedForGood, PrintsEachStreamInOrder, Counted
<1> QED
  BY <1>3, <1>4, <1>5, <1>6, <1>7, <1>8, <1>9, <1>10 DEF LogsNext, MainStep
------------------------------------------------------------------------------
LEMMA InitIsPrinting == LogsInit => Printing
<1> SUFFICES ASSUME LogsInit
             PROVE  Printing
  OBVIOUS
<1>1. LogStreamTypeOK
  <2>1. <<>> \in Seq({"text", "bytes"}) /\ <<>> \in Seq(Line) /\ 0 \in 0 .. MaxLines
        /\ 0 \in 0 .. 2 * MaxLines
    BY LogStreamAssumption
  <2> QED
    BY <2>1 DEF LogsInit, LogStreamTypeOK
<1>2. TextIsTaken
  <2>1. \A s \in Stream : written[s] = <<>> /\ taken[s] = 0 /\ reader[s] = "reading" /\ seq = 0
    BY DEF LogsInit
  <2>2. seq = taken["stdout"] + taken["stderr"]
    BY DEF LogsInit, Stream
  <2>3. Len(<<>>) = 0 /\ MaxLines \in Nat
    BY LogStreamAssumption
  <2> QED
    BY <2>1, <2>2, <2>3 DEF TextIsTaken
<1>3. HeldAreNumbered
  BY DEF LogsInit, HeldAreNumbered
<1>4. Sent = <<>> /\ printed = <<>> /\ \A s \in Stream : LinesOf(s, <<>>) = <<>>
  <2>1. <<>> \in Seq(Line)
    OBVIOUS
  <2>2. <<>> \o <<>> = <<>>
    BY <2>1, ConcatEmpty
  <2> QED
    BY <2>2, KeptEmpty DEF LogsInit, Sent, LinesOf
<1>5. Len(<<>>) = 0 /\ DOMAIN <<>> = {}
  OBVIOUS
<1>6. SentAreTaken
  BY <1>4, <1>5 DEF LogsInit, SentAreTaken, Numbered, Counted, Held
<1>7. PrintedForGood
  BY <1>4, <1>5 DEF LogsInit, PrintedForGood, Numbered, PrintsEachStreamInOrder
<1> QED
  BY <1>1, <1>2, <1>3, <1>6, <1>7 DEF Printing

LEMMA StepKeepsPrinting == Printing /\ [LogsNext]_logsVars => Printing'
<1> SUFFICES ASSUME Printing, [LogsNext]_logsVars
             PROVE  Printing'
  OBVIOUS
<1>1. CASE LogsNext
  BY <1>1, LogsTypeStep, TextStep, HeldStep, SentStep, GoodStep DEF Printing
<1>2. CASE UNCHANGED logsVars
  <2>1. LogStreamTypeOK'
    BY <1>2 DEF Printing, LogStreamTypeOK, logsVars, game, readers, keys, mainThread
  <2>2. TextIsTaken'
    BY <1>2, TextStays DEF Printing, logsVars, game
  <2>3. HeldAreNumbered'
    BY <1>2 DEF Printing, HeldAreNumbered, logsVars, readers
  <2>4. SentAreTaken'
    BY <1>2, SentStays DEF Printing, logsVars, mainThread, Sent
  <2>5. PrintedForGood'
    BY <1>2 DEF Printing, PrintedForGood, PrintsEachStreamInOrder, Numbered, LinesOf, logsVars,
                readers, mainThread
  <2> QED
    BY <2>1, <2>2, <2>3, <2>4, <2>5 DEF Printing
<1> QED
  BY <1>1, <1>2

(* A reader that came to the end of its stream has taken its text. *)
LEMMA TextIsAllTaken ==
  ASSUME Printing, NEW s \in Stream, reader[s] = "ended"
  PROVE  TextBeforeBytes(s) = taken[s]
<1> DEFINE w == written[s]
           k == taken[s]
           n == Len(w)
<1>1. /\ w \in Seq({"text", "bytes"}) /\ k \in Nat /\ k <= n /\ n \in Nat
      /\ DOMAIN w = 1 .. n /\ \A i \in 1 .. k : w[i] = "text"
  BY LogStreamAssumption DEF Printing, LogStreamTypeOK, TextIsTaken
<1>2. k < n => w[k + 1] = "bytes"
  BY DEF Printing, TextIsTaken, AtEnd, Unread
<1>3. Contains(w, "bytes") <=> \E i \in 1 .. n : w[i] = "bytes"
  BY DEF Contains
<1>4. TextBeforeBytes(s) =
        IF Contains(w, "bytes")
        THEN (CHOOSE x \in DOMAIN w : w[x] = "bytes" /\ \A m \in 1 .. x - 1 : w[m] = "text") - 1
        ELSE n
  BY DEF TextBeforeBytes
<1> HIDE DEF w, k, n
<1>5. CASE k < n
  <2> DEFINE First(x) == w[x] = "bytes" /\ \A m \in 1 .. x - 1 : w[m] = "text"
  <2>1. k + 1 \in DOMAIN w /\ First(k + 1)
    BY <1>1, <1>2, <1>5
  <2>2. ASSUME NEW x \in DOMAIN w, First(x) PROVE x = k + 1
    <3>1. x \in 1 .. n /\ ~(x \in 1 .. k)
      BY <1>1, <2>2
    <3>2. ~(k + 1 \in 1 .. x - 1)
      BY <2>1, <2>2
    <3> QED
      BY <1>1, <1>5, <3>1, <3>2
  <2> HIDE DEF First
  <2>3. (CHOOSE x \in DOMAIN w : First(x)) = k + 1
    BY <2>1, <2>2
  <2>4. Contains(w, "bytes")
    BY <1>1, <1>2, <1>3, <1>5
  <2> QED
    <3>1. TextBeforeBytes(s) = (CHOOSE x \in DOMAIN w : First(x)) - 1
      BY <1>4, <2>4 DEF First
    <3>2. k \in Nat /\ (k + 1) - 1 = k
      BY <1>1
    <3> QED
      BY <2>3, <3>1, <3>2 DEF k
<1>6. CASE ~(k < n)
  <2>1. k = n
    <3>1. k \in Nat /\ n \in Nat /\ k <= n
      BY <1>1
    <3> QED
      BY <1>6, <3>1
  <2>2. ~Contains(w, "bytes")
    BY <1>1, <1>3, <2>1
  <2> QED
    BY <1>4, <2>1, <2>2 DEF k
<1> QED
  BY <1>5, <1>6

(* The lines of the two streams, as they were printed. *)
LEMMA PrintedAreStreams ==
  ASSUME NEW lines \in Seq(Line), Numbered(lines)
  PROVE  AreStreams(LinesOf("stdout", lines), LinesOf("stderr", lines),
                    OfStream("stdout"), OfStream("stderr"))
<1>1. ASSUME NEW s \in Stream
      PROVE  /\ LinesOf(s, lines) \in Seq(Line)
             /\ \E h : ArePlaces(h, LinesOf(s, lines), lines, OfStream(s), Len(lines))
  BY KeptHasPlaces DEF LinesOf
<1>2. PICK g : ArePlaces(g, LinesOf("stdout", lines), lines, OfStream("stdout"), Len(lines))
  BY <1>1 DEF Stream
<1>3. PICK h : ArePlaces(h, LinesOf("stderr", lines), lines, OfStream("stderr"), Len(lines))
  BY <1>1 DEF Stream
<1> DEFINE a == LinesOf("stdout", lines)
           b == LinesOf("stderr", lines)
<1>4. a \in Seq(Line) /\ b \in Seq(Line)
  BY <1>1 DEF Stream
<1>5. /\ g \in [1 .. Len(a) -> 1 .. Len(lines)] /\ h \in [1 .. Len(b) -> 1 .. Len(lines)]
      /\ \A i \in 1 .. Len(a) : a[i] = lines[g[i]] /\ a[i] \in OfStream("stdout")
      /\ \A i \in 1 .. Len(b) : b[i] = lines[h[i]] /\ b[i] \in OfStream("stderr")
      /\ \A i, j \in 1 .. Len(a) : i < j => g[i] < g[j]
      /\ \A i, j \in 1 .. Len(b) : i < j => h[i] < h[j]
  BY <1>2, <1>3 DEF ArePlaces
<1> HIDE DEF a, b
<1>6. DOMAIN a = 1 .. Len(a) /\ DOMAIN b = 1 .. Len(b) /\ DOMAIN lines = 1 .. Len(lines)
  BY <1>4
<1>7. /\ \A i \in 1 .. Len(a) : a[i].stream = "stdout" /\ a[i] \notin OfStream("stderr")
      /\ \A i \in 1 .. Len(b) : b[i].stream = "stderr" /\ b[i] \notin OfStream("stdout")
  BY <1>5 DEF OfStream
<1>8. Increasing(a)
  <2>1. ASSUME NEW i \in 1 .. Len(a), NEW j \in 1 .. Len(a), i < j PROVE a[i].seq < a[j].seq
    <3>1. g[i] \in DOMAIN lines /\ g[j] \in DOMAIN lines /\ g[i] < g[j]
      BY <1>5, <1>6, <2>1
    <3>2. lines[g[i]].stream = lines[g[j]].stream
      BY <1>5, <1>7
    <3>3. lines[g[i]].seq < lines[g[j]].seq
      BY <3>1, <3>2 DEF Numbered
    <3> QED
      BY <1>5, <3>3
  <2> QED
    BY <1>6, <2>1 DEF Increasing
<1>9. Increasing(b)
  <2>1. ASSUME NEW i \in 1 .. Len(b), NEW j \in 1 .. Len(b), i < j PROVE b[i].seq < b[j].seq
    <3>1. h[i] \in DOMAIN lines /\ h[j] \in DOMAIN lines /\ h[i] < h[j]
      BY <1>5, <1>6, <2>1
    <3>2. lines[h[i]].stream = lines[h[j]].stream
      BY <1>5, <1>7
    <3>3. lines[h[i]].seq < lines[h[j]].seq
      BY <3>1, <3>2 DEF Numbered
    <3> QED
      BY <1>5, <3>3
  <2> QED
    BY <1>6, <2>1 DEF Increasing
<1>10. ASSUME NEW i \in 1 .. Len(a), NEW j \in 1 .. Len(b) PROVE a[i].seq # b[j].seq
  <2>1. g[i] \in 1 .. Len(lines) /\ h[j] \in 1 .. Len(lines)
    BY <1>5
  <2>2. g[i] # h[j]
    BY <1>5, <1>7
  <2>3. g[i] < h[j] \/ h[j] < g[i]
    BY <2>1, <2>2
  <2>4. lines[g[i]].seq # lines[h[j]].seq
    BY <1>6, <2>1, <2>3 DEF Numbered
  <2> QED
    BY <1>5, <2>4
<1>11. AreStreams(a, b, OfStream("stdout"), OfStream("stderr"))
  BY <1>4, <1>5, <1>7, <1>8, <1>9, <1>10 DEF AreStreams
<1> QED
  BY <1>11 DEF a, b

LEMMA PrintingIsEnough == Printing => PrintsWhatWasWritten
<1> SUFFICES ASSUME Printing
             PROVE  PrintsWhatWasWritten
  OBVIOUS
<1>1. LogStreamTypeOK /\ PrintsEachStreamInOrder /\ Numbered(printed) /\ printed \in Seq(Line)
  BY DEF Printing, PrintedForGood, LogStreamTypeOK
<1>2. DrainedIsComplete
  BY TextIsAllTaken DEF DrainedIsComplete, Printing, PrintedForGood
<1>3. MultiplexMerges
  <2> DEFINE a == LinesOf("stdout", printed)
             b == LinesOf("stderr", printed)
             m == Multiplex(a, b)
  <2>1. AreStreams(a, b, OfStream("stdout"), OfStream("stderr"))
    BY <1>1, PrintedAreStreams
  <2> HIDE DEF a, b
  <2>2. /\ m \in Seq(Line) /\ Increasing(m)
        /\ Kept(m, OfStream("stdout")) = a /\ Kept(m, OfStream("stderr")) = b
    BY <2>1, MultiplexSorts
  <2> HIDE DEF m
  <2>3. \A s \in Stream : LinesOf(s, m) = LinesOf(s, printed)
    BY <2>2 DEF LinesOf, Stream, a, b
  <2>4. ASSUME NEW i \in 1 .. Len(m) - 1 PROVE m[i].seq < m[i + 1].seq
    <3> DEFINE j == i + 1
    <3>1. i \in DOMAIN m /\ j \in DOMAIN m /\ i < j
      BY <2>2
    <3> HIDE DEF j
    <3>2. m[i].seq < m[j].seq
      BY <2>2, <3>1 DEF Increasing
    <3> QED
      BY <3>2 DEF j
  <2> QED
    BY <2>3, <2>4 DEF MultiplexMerges, m, a, b
<1> QED
  BY <1>1, <1>2, <1>3 DEF PrintsWhatWasWritten

(* Whatever the readers, the game and Ctrl-C do in between: each stream is *)
(* printed in its order with nothing left out, to the last line that could *)
(* be read when it has drained, and multiplex sorts the same lines by      *)
(* number and loses none.                                                  *)
THEOREM PrintsAllThatWasWritten == LogsSpec => []PrintsWhatWasWritten
BY InitIsPrinting, StepKeepsPrinting, PrintingIsEnough, PTL DEF LogsSpec
==============================================================================
