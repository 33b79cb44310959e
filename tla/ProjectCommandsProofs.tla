------------------------- MODULE ProjectCommandsProofs -------------------------
(***************************************************************************)
(* The commands of a project, for every set of manifests and executables.  *)
(*                                                                         *)
(* Publishing: the packages a project holds and the submissions it sends   *)
(* are sound however often the author edits the project and wherever a     *)
(* command is killed; what a command carries from one step to the next is  *)
(* the heart of the invariant.  Then the menu, the doctor and the patch of *)
(* an executable.                                                          *)
(***************************************************************************)
EXTENDS ProjectCommands, SequenceLemmas
------------------------------------------------------------------------------
(* Publishing *)

CommandName == {"none", "build", "publish", "submit", "upload"}
Stage == {"idle", "building", "compiling", "writing", "sending", "dialogue",
          "saving", "renaming", "reaching", "posting", "answering"}
Report == {"nothing", "refused", "failed", "built", "published", "cancelled",
           "submitted", "dry run", "uploaded"}

(* The records that the type invariant describes by their fields. *)
Command == [name : CommandName, stage : Stage, manifest : Manifests,
            package : Package, sent : Resource]
Told == [said : Report, package : Package, id : 0 .. MaxUploads]
Prefills == {Prefill(m) : m \in Manifests}

Wizard == WizardState(Prefills, MaxSummary)

Types ==
  /\ toml \in TomlFile /\ sources \in 0 .. MaxEdits + 1 /\ packages \in [Stems -> Package]
  /\ submission \in SubmissionFile /\ wizard \in Wizard /\ edits \in 0 .. MaxEdits
  /\ index \in Seq(Resource) /\ Len(index) <= MaxUploads
  /\ command \in Command /\ told \in Told

Valid(p) == Violations(p.manifest) = {} /\ p.code # 0

(* A build goes on with a manifest it has checked, and publish sends what  *)
(* the build has written.                                                  *)
BuildIsChecked ==
  LET p == command.package IN
  /\ command.stage \in {"compiling", "writing"} => Violations(p.manifest) = {}
  /\ command.stage = "writing" => p.state = "whole" /\ p.code # 0
  /\ command.stage = "sending" => packages[PackageFileStem(p.manifest.id)].state = "whole"

(* The dialogue goes on until it is confirmed, and it is confirmed complete. *)
DialogueIsGated ==
  /\ command.stage = "dialogue" => wizard.outcome = "continue"
  /\ command.stage \in {"saving", "renaming"} => MissingRequired(BuildDescriptor(wizard)) = {}

Carries(r) == \A s \in Stems : s \in r.descriptor.artifacts <=> r.files[s].state # "absent"

(* An upload carries what its descriptor lists until the index has it. *)
UploadIsChecked ==
  /\ command.stage \in {"reaching", "posting"} => Carries(command.sent)
  /\ command.stage = "answering" => index # <<>>

IInv ==
  /\ Types
  /\ PackagesAreValid /\ SubmissionsAreComplete
  /\ BuildIsChecked /\ DialogueIsGated /\ UploadIsChecked
-----------------------------------------------------------------------------
(* Values *)

LEMMA Values ==
  /\ SomeManifest \in Manifests
  /\ \A m \in Manifests : PackageFileStem(m.id) \in Stems
  /\ NoToml \in TomlFile /\ Unparsable \in TomlFile
  /\ NoPackage \in Package /\ NoFiles \in [Stems -> Package]
  /\ NoDescriptor \in Descriptor
  /\ Idle \in Command
  /\ Silent \in Told
<1>1. SomeManifest \in Manifests
  BY ModPublishAssumption DEF SomeManifest
<1>2. NoPackage \in Package
  BY <1>1, ModPublishAssumption DEF NoPackage, Package
<1>3. NoFiles \in [Stems -> Package]
  BY <1>2 DEF NoFiles
<1>4. NoDescriptor \in Descriptor
  BY DEF NoDescriptor, Descriptor
<1>5. [descriptor |-> NoDescriptor, files |-> NoFiles] \in Resource
  BY <1>3, <1>4 DEF Resource
<1>6. Idle \in Command
  BY <1>1, <1>2, <1>5 DEF Idle, Command, CommandName, Stage
<1>7. Silent \in Told
  BY <1>2, ModPublishAssumption DEF Silent, Told, Report
<1>8. NoToml \in TomlFile /\ Unparsable \in TomlFile
  BY DEF TomlFile
<1>9. \A m \in Manifests : PackageFileStem(m.id) \in Stems
  BY DEF Stems
<1> QED
  BY <1>1, <1>2, <1>3, <1>4, <1>6, <1>7, <1>8, <1>9

(* The commands and the reports the actions make of typed parts. *)
LEMMA Commands ==
  /\ \A n \in CommandName, s \in Stage :
       /\ Start(n, s) \in Command
       /\ Start(n, s).name = n /\ Start(n, s).stage = s
       /\ \A m \in Manifests : [Start(n, s) EXCEPT !.manifest = m] \in Command
       /\ \A r \in Resource : [Start(n, s) EXCEPT !.sent = r] \in Command
  /\ \A w \in Report :
       /\ Says(w) \in Told /\ Says(w).said = w
       /\ \A p \in Package : [Says(w) EXCEPT !.package = p] \in Told
       /\ \A i \in 0 .. MaxUploads : [Says(w) EXCEPT !.id = i] \in Told
BY Values DEF Start, Command, Says, Told
-----------------------------------------------------------------------------
(* The wizard *)

Summary == UNION {[1 .. k -> Characters] : k \in 0 .. MaxSummary}

LEMMA SummaryType ==
  ASSUME NEW s \in Summary
  PROVE  /\ s \in Seq(Characters) /\ Len(s) <= MaxSummary
         /\ \A c \in Characters : Len(s) < MaxSummary => Append(s, c) \in Summary
         /\ s # <<>> => Front(s) \in Summary
<1>1. PICK k \in 0 .. MaxSummary : s \in [1 .. k -> Characters]
  BY DEF Summary
<1>2. MaxSummary \in Nat
  BY ModPublishAssumption
<1>3. s \in Seq(Characters) /\ Len(s) = k
  BY <1>1, <1>2
<1>4. ASSUME NEW n \in 0 .. MaxSummary, NEW r \in Seq(Characters), Len(r) = n
      PROVE  r \in Summary
  <2>1. DOMAIN r = 1 .. Len(r) /\ \A i \in 1 .. Len(r) : r[i] \in Characters
    BY <1>4
  <2>2. r \in [1 .. n -> Characters]
    BY <1>4, <2>1
  <2> QED
    BY <2>2 DEF Summary
<1>5. ASSUME NEW c \in Characters, Len(s) < MaxSummary
      PROVE  Append(s, c) \in Summary
  <2>1. Append(s, c) \in Seq(Characters) /\ Len(Append(s, c)) = k + 1
    BY <1>3
  <2>2. k + 1 \in 0 .. MaxSummary
    BY <1>2, <1>3, <1>5
  <2> QED
    BY <1>4, <2>1, <2>2
<1>6. ASSUME s # <<>>
      PROVE  Front(s) \in Summary
  <2>1. Front(s) \in Seq(Characters) /\ Len(Front(s)) = k - 1 /\ k > 0
    BY <1>3, <1>6 DEF Front
  <2> QED
    BY <1>2, <1>4, <2>1
<1> QED
  BY <1>2, <1>3, <1>5, <1>6

LEMMA WizardShape ==
  Wizard = [prefill : Prefills,
            summary : Summary, tags : SUBSET (1 .. TagCount), cursor : 1 .. TagCount,
            step : {"summary", "tags", "confirm"},
            outcome : {"continue", "confirm", "cancel"}]
BY DEF Wizard, WizardState, Summary

LEMMA NewWizardType ==
  ASSUME NEW m \in Manifests
  PROVE  NewWizard(Prefill(m)) \in Wizard /\ NewWizard(Prefill(m)).outcome = "continue"
<1>1. Prefill(m) \in Prefills
  BY DEF Prefills
<1>2. <<>> \in Summary
  <2>1. <<>> \in [1 .. 0 -> Characters]
    OBVIOUS
  <2> QED
    BY <2>1, ModPublishAssumption DEF Summary
<1>3. 1 \in 1 .. TagCount
  BY SubmitWizardAssumption
<1> QED
  BY <1>1, <1>2, <1>3, WizardShape DEF NewWizard

(* A key keeps the types, and nothing but enter on a complete form confirms. *)
LEMMA HandleKeyType ==
  ASSUME NEW w \in Wizard, NEW key \in WizardKeys,
         key \in Characters => Len(w.summary) < MaxSummary
  PROVE  HandleKey(w, key) \in Wizard
<1>1. w.summary \in Summary /\ w.tags \in SUBSET (1 .. TagCount) /\ w.cursor \in 1 .. TagCount
  BY WizardShape
<1>2. ASSUME key # "cancel" PROVE InSummary(w, key) \in Wizard
  <2>1. CASE key \in Characters
    BY <1>1, <2>1, SummaryType, WizardShape DEF InSummary
  <2>2. CASE key = "backspace"
    BY <1>1, <2>2, SummaryType, WizardShape DEF InSummary, Characters
  <2>3. CASE key \in {"enter", "tab", "down"}
    BY <2>3, WizardShape DEF InSummary, Characters
  <2> QED
    BY <1>2, <2>1, <2>2, <2>3 DEF InSummary, WizardKeys
<1>3. ASSUME key # "cancel" PROVE InTags(w, key) \in Wizard
  BY <1>1, WizardShape, SubmitWizardAssumption DEF InTags
<1>4. ASSUME key # "cancel" PROVE InConfirm(w, key) \in Wizard
  BY WizardShape DEF InConfirm
<1>5. w.step \in {"summary", "tags", "confirm"}
  BY WizardShape
<1>6. CASE key = "cancel"
  BY <1>6, WizardShape DEF HandleKey
<1> QED
  BY <1>2, <1>3, <1>4, <1>5, <1>6 DEF HandleKey

LEMMA ConfirmsComplete ==
  ASSUME NEW w \in Wizard, NEW key \in WizardKeys, w.outcome = "continue",
         HandleKey(w, key).outcome = "confirm"
  PROVE  MissingRequired(BuildDescriptor(HandleKey(w, key))) = {}
<1>1. w.step = "confirm" /\ key = "enter" /\ MissingRequired(BuildDescriptor(w)) = {}
  BY WizardShape DEF HandleKey, InSummary, InTags, InConfirm
<1>2. HandleKey(w, key) = [w EXCEPT !.outcome = "confirm"]
  BY <1>1 DEF HandleKey, InConfirm
<1>3. BuildDescriptor(HandleKey(w, key)) = BuildDescriptor(w)
  BY <1>2, WizardShape DEF BuildDescriptor
<1> QED
  BY <1>1, <1>3

LEMMA BuiltDescriptorType ==
  ASSUME NEW w \in Wizard
  PROVE  BuildDescriptor(w) \in Descriptor
<1>1. PICK m \in Manifests : w.prefill = Prefill(m)
  BY WizardShape DEF Prefills
<1>2. w.tags \in SUBSET (1 .. TagCount)
  BY WizardShape
<1>3. Id(m) \in {"", "blank", "text"}
  BY DEF Id
<1>4. /\ m.name \in {x.name : x \in Manifests} \cup {""}
      /\ m.version \in {x.version : x \in Manifests} \cup {""}
  OBVIOUS
<1>5. w.prefill.id = Id(m) /\ w.prefill.name = m.name /\ w.prefill.version = m.version
  BY <1>1 DEF Prefill
<1> QED
  BY <1>2, <1>3, <1>4, <1>5 DEF BuildDescriptor, Descriptor
-----------------------------------------------------------------------------
(* Types *)

LEMMA TypesMean == Types => PublishTypeOK
BY DEF Types, PublishTypeOK, Command, CommandName, Stage, Told, Report, Wizard, Prefills

LEMMA TypeInit == Init => Types
<1> SUFFICES ASSUME Init PROVE Types
  OBVIOUS
<1>1. NoWizard \in Wizard
  BY Values, NewWizardType DEF NoWizard
<1>2. command \in Command /\ told \in Told
  BY Values DEF Init
<1>3. MaxEdits \in Nat /\ MaxUploads \in Nat
  BY ModPublishAssumption
<1>4. submission \in SubmissionFile
  BY Values DEF Init, SubmissionFile
<1> QED
  BY <1>1, <1>2, <1>3, <1>4, Values DEF Init, Types

(* The fields of a command in progress, and the commands it turns into. *)
LEMMA CommandFields ==
  ASSUME command \in Command
  PROVE  /\ command.name \in CommandName /\ command.stage \in Stage
         /\ command.manifest \in Manifests
         /\ command.package \in Package /\ command.package.manifest \in Manifests
         /\ PackageFileStem(command.package.manifest.id) \in Stems
         /\ command.sent \in Resource
         /\ \A s \in Stage : [command EXCEPT !.stage = s] \in Command
BY Values DEF Command, Package

LEMMA TypeStep ==
  ASSUME Types, [Next]_vars
  PROVE  Types'
<1>a. /\ MaxEdits \in Nat /\ MaxUploads \in Nat
      /\ \A n \in CommandName, s \in Stage : Start(n, s) \in Command
      /\ Silent \in Told /\ Idle \in Command /\ NoWizard \in Wizard
  BY ModPublishAssumption, Values, Commands, NewWizardType DEF NoWizard
<1>b. /\ "build" \in CommandName /\ "publish" \in CommandName
      /\ "submit" \in CommandName /\ "upload" \in CommandName
      /\ "building" \in Stage /\ "compiling" \in Stage /\ "writing" \in Stage
      /\ "sending" \in Stage /\ "dialogue" \in Stage /\ "saving" \in Stage
      /\ "renaming" \in Stage /\ "reaching" \in Stage /\ "posting" \in Stage
      /\ "answering" \in Stage
      /\ "nothing" \in Report /\ "refused" \in Report /\ "failed" \in Report
      /\ "built" \in Report /\ "published" \in Report /\ "cancelled" \in Report
      /\ "submitted" \in Report /\ "dry run" \in Report /\ "uploaded" \in Report
  BY DEF CommandName, Stage, Report
<1>c. ASSUME NEW w \in Report, End(Says(w))
      PROVE  command' \in Command /\ told' \in Told
  BY <1>a, <1>c, Commands DEF End
<1>1. CASE EditToml
  BY <1>a, <1>1 DEF Types, EditToml
<1>2. CASE EditSources
  BY <1>a, <1>2 DEF Types, EditSources
<1>3. CASE ListArtifact
  <2>1. PICK s \in Stems : submission' = [submission EXCEPT !.descriptor.artifacts = @ \cup {s}]
    BY <1>3 DEF ListArtifact
  <2>2. submission.descriptor \in Descriptor
    BY DEF Types, SubmissionFile
  <2>3. [submission.descriptor EXCEPT !.artifacts = @ \cup {s}] \in Descriptor
    BY <2>2 DEF Descriptor
  <2>4. submission' = [submission EXCEPT !.descriptor =
                         [submission.descriptor EXCEPT !.artifacts = @ \cup {s}]]
    BY <2>1, <2>2 DEF Types, SubmissionFile, Descriptor
  <2>5. submission' \in SubmissionFile
    BY <2>3, <2>4 DEF Types, SubmissionFile
  <2> QED
    BY <1>3, <2>5 DEF Types, ListArtifact, project
<1>4. CASE Build
  BY <1>a, <1>b, <1>4 DEF Types, Build, project
<1>5. CASE Publish
  <2>1. CASE Accepted(toml)
    <3>1. toml.manifest \in Manifests
      BY <2>1 DEF Types, Accepted, TomlFile, NoToml, Unparsable
    <3> QED
      <4>1. [Start("publish", "building") EXCEPT !.manifest = toml.manifest] \in Command
        BY <1>b, <3>1, Commands
      <4> QED
        BY <1>a, <1>5, <2>1, <4>1 DEF Types, Publish, project
  <2>2. CASE ~Accepted(toml)
    BY <1>b, <1>c, <1>5, <2>2 DEF Types, Publish, project
  <2> QED
    BY <2>1, <2>2
<1>6. CASE ReadForBuild
  <2>1. CASE Accepted(toml)
    <3>1. toml.manifest \in Manifests
      BY <2>1 DEF Types, Accepted, TomlFile, NoToml, Unparsable
    <3>2. command' = [command EXCEPT !.stage = "compiling", !.package.manifest = toml.manifest]
      BY <1>6, <2>1 DEF ReadForBuild, AcceptedByTheBuild
    <3>3. [command.package EXCEPT !.manifest = toml.manifest] \in Package
      BY <3>1, CommandFields DEF Types, Package
    <3>4. command' \in Command
      BY <1>b, <3>2, <3>3 DEF Types, Command
    <3> QED
      BY <1>6, <2>1, <3>4 DEF Types, ReadForBuild, AcceptedByTheBuild, project
  <2>2. CASE ~Accepted(toml)
    BY <1>b, <1>c, <1>6, <2>2 DEF Types, ReadForBuild, AcceptedByTheBuild, project
  <2> QED
    BY <2>1, <2>2
<1>7. CASE CompileSources
  <2>1. CASE End(Says("failed")) /\ UNCHANGED packages
    BY <1>b, <1>c, <1>7, <2>1 DEF Types, CompileSources, project
  <2>2. CASE ~(End(Says("failed")) /\ UNCHANGED packages)
    <3> DEFINE p == PackageFileStem(command.package.manifest.id)
    <3>1. /\ command' = [command EXCEPT !.stage = "writing", !.package.code = sources,
                                        !.package.state = "whole"]
          /\ packages' = [packages EXCEPT ![p].state = "torn"]
          /\ told' = told
      BY <1>7, <2>2 DEF CompileSources
    <3>2. p \in Stems /\ packages[p] \in Package
      BY CommandFields DEF Types
    <3>3. [packages[p] EXCEPT !.state = "torn"] \in Package
      BY <3>2 DEF Package
    <3>4. [command.package EXCEPT !.code = sources, !.state = "whole"] \in Package
      BY CommandFields DEF Types, Package
    <3>5. command' \in Command
      BY <1>b, <3>1, <3>4 DEF Types, Command
    <3>6. packages' \in [Stems -> Package]
      BY <3>1, <3>2, <3>3 DEF Types
    <3> QED
      BY <1>7, <3>1, <3>5, <3>6 DEF Types, CompileSources, project
  <2> QED
    BY <2>1, <2>2
<1>8. CASE WritePackage
  <2>1. packages' \in [Stems -> Package]
    BY <1>8, CommandFields DEF Types, WritePackage
  <2>2. [command EXCEPT !.stage = "sending"] \in Command
    BY <1>b, CommandFields DEF Types
  <2>3. [Says("built") EXCEPT !.package = command.package] \in Told
    BY <1>b, CommandFields, Commands DEF Types
  <2>4. command' \in Command /\ told' \in Told
    BY <1>a, <1>8, <2>2, <2>3 DEF Types, WritePackage, Goto, End
  <2> QED
    BY <1>8, <2>1, <2>4 DEF Types, WritePackage, project
<1>9. CASE SendToMarketplace
  <2> DEFINE p == packages[PackageFileStem(command.package.manifest.id)]
  <2>1. p \in Package
    BY CommandFields DEF Types
  <2> HIDE DEF p
  <2>2. [Says("published") EXCEPT !.package = p] \in Told /\ Says("failed") \in Told
    BY <1>b, <2>1, Commands
  <2>3. command' \in Command /\ told' \in Told
    BY <1>a, <1>9, <2>2 DEF SendToMarketplace, End, p
  <2> QED
    BY <1>9, <2>3 DEF Types, SendToMarketplace, project
<1>10. CASE Submit
  <2>1. CASE Accepted(toml)
    <3>1. toml.manifest \in Manifests
      BY <2>1 DEF Types, Accepted, TomlFile, NoToml, Unparsable
    <3> QED
      BY <1>a, <1>b, <1>10, <2>1, <3>1, NewWizardType DEF Types, Submit, project
  <2>2. CASE ~Accepted(toml)
    BY <1>b, <1>c, <1>10, <2>2 DEF Types, Submit, project
  <2> QED
    BY <2>1, <2>2
<1>11. ASSUME NEW key \in WizardKeys, PressKey(key)
       PROVE  Types'
  <2>1. HandleKey(wizard, key) \in Wizard
    BY <1>11, HandleKeyType DEF Types, PressKey
  <2>2. HandleKey(wizard, key).outcome \in {"continue", "confirm", "cancel"}
    BY <2>1, WizardShape
  <2>3. wizard' \in Wizard /\ command' \in Command /\ told' \in Told
    BY <1>a, <1>b, <1>c, <1>11, <2>1, <2>2, CommandFields DEF Types, PressKey, Goto
  <2> QED
    BY <1>11, <2>3 DEF Types, PressKey, project
<1>12. CASE WriteTemporary
  <2>1. wizard' \in Wizard /\ command' \in Command /\ told' \in Told
    BY <1>a, <1>b, <1>c, <1>12, CommandFields DEF Types, WriteTemporary, Goto
  <2> QED
    BY <1>12, <2>1 DEF Types, WriteTemporary, project
<1>13. CASE RenameTemporary
  <2>1. command' \in Command /\ told' \in Told
    BY <1>b, <1>c, <1>13 DEF RenameTemporary
  <2>2. submission' \in SubmissionFile
    BY <1>13, BuiltDescriptorType DEF Types, RenameTemporary, SubmissionFile
  <2> QED
    BY <1>a, <1>13, <2>1, <2>2 DEF Types, RenameTemporary, project
<1>14. ASSUME NEW configured \in BOOLEAN, Upload(configured)
       PROVE  Types'
  <2> DEFINE r == [descriptor |-> submission.descriptor,
                   files |-> [s \in Stems |-> IF s \in submission.descriptor.artifacts
                                              THEN packages[s] ELSE NoPackage]]
  <2>1. submission.descriptor \in Descriptor
    BY DEF Types, SubmissionFile
  <2>2. r \in Resource
    BY <2>1, Values DEF Types, Resource
  <2>3. [Start("upload", "reaching") EXCEPT !.sent = r] \in Command
    BY <1>b, <2>2, Commands
  <2>4. \/ command' = [Start("upload", "reaching") EXCEPT !.sent = r] /\ told' = Silent
        \/ End(Says("dry run")) \/ End(Says("refused"))
    BY <1>14 DEF Upload
  <2>5. command' \in Command /\ told' \in Told
    BY <1>a, <1>b, <1>c, <2>3, <2>4
  <2> QED
    BY <1>14, <2>5 DEF Types, Upload, project
<1>15. CASE Reach
  <2>1. command' \in Command /\ told' \in Told
    BY <1>a, <1>b, <1>c, <1>15, CommandFields DEF Types, Reach, Goto
  <2> QED
    BY <1>15, <2>1 DEF Types, Reach, project
<1>16. CASE Post
  <2>1. command' \in Command /\ told' \in Told
    BY <1>a, <1>b, <1>c, <1>16, CommandFields DEF Types, Post, Goto
  <2>2. index' \in Seq(Resource) /\ Len(index') <= MaxUploads
    <3>1. /\ index \in Seq(Resource) /\ Len(index) <= MaxUploads
          /\ command.sent \in Resource
      BY CommandFields DEF Types
    <3>2. CASE Len(index) < MaxUploads /\ index' = Append(index, command.sent)
      <4>1. Len(index') = Len(index) + 1 /\ index' \in Seq(Resource)
        BY <3>1, <3>2
      <4> QED
        BY <1>a, <3>1, <3>2, <4>1
    <3>3. CASE index' = index
      BY <3>1, <3>3
    <3> QED
      BY <1>16, <3>2, <3>3 DEF Post
  <2> QED
    BY <1>16, <2>1, <2>2 DEF Types, Post, project
<1>17. CASE ReadAnswer
  <2>1. Len(index) \in 0 .. MaxUploads
    BY <1>a DEF Types
  <2>2. [Says("uploaded") EXCEPT !.id = Len(index)] \in Told /\ Says("failed") \in Told
    BY <1>b, <2>1, Commands
  <2>3. command' \in Command /\ told' \in Told
    BY <1>a, <1>17, <2>2 DEF ReadAnswer, End
  <2> QED
    BY <1>17, <2>3 DEF Types, ReadAnswer, project
<1>18. CASE Kill
  <2>1. command' \in Command /\ told' \in Told
    BY <1>b, <1>c, <1>18 DEF Kill
  <2> QED
    BY <1>a, <1>18, <2>1 DEF Types, Kill, project
<1>19. CASE FailToWritePackage
  BY <1>b, <1>c, <1>19 DEF Types, FailToWritePackage, project
<1>20. CASE UNCHANGED vars
  BY <1>20 DEF Types, vars, project
<1> QED
  BY <1>1, <1>2, <1>3, <1>4, <1>5, <1>6, <1>7, <1>8, <1>9, <1>10, <1>11, <1>12, <1>13, <1>14,
     <1>15, <1>16, <1>17, <1>18, <1>19, <1>20 DEF Next
-----------------------------------------------------------------------------
(* What the commands leave behind *)

(* How a command ends. *)
LEMMA EndsIdle ==
  ASSUME NEW w \in Report, End(Says(w))
  PROVE  /\ command'.stage = "idle"
         /\ told'.said = w /\ (told'.said = "nothing" \/ told'.package = NoPackage)
BY DEF End, Idle, Says, Silent

LEMMA Starts ==
  \A n, s : /\ Start(n, s).stage = s
            /\ \A m : [Start(n, s) EXCEPT !.manifest = m].stage = s
BY DEF Start, Idle

LEMMA PublishGoesOn ==
  ASSUME Publish, Accepted(toml)
  PROVE  command'.stage = "building" /\ told'.said = "nothing"
<1>1. command' = [Start("publish", "building") EXCEPT !.manifest = toml.manifest]
  BY DEF Publish
<1>2. command'.stage = "building"
  BY <1>1, Starts
<1>3. told'.said = "nothing"
  BY DEF Publish, Silent
<1> QED
  BY <1>2, <1>3

LEMMA SaidWhat ==
  \A w, p : [Says(w) EXCEPT !.package = p].said = w
BY DEF Says, Silent

(* The builds: only a checked manifest is compiled, and the package is whole *)
(* only when it was written.                                                 *)
LEMMA PackageStep ==
  ASSUME IInv, [Next]_vars
  PROVE  PackagesAreValid' /\ BuildIsChecked'
<1> DEFINE stem(p) == PackageFileStem(p.manifest.id)
           Sound == \A s \in Stems : packages[s].state = "whole" =>
                      Valid(packages[s]) /\ stem(packages[s]) = s
           Reported == told.said \in {"built", "published"} =>
                         told.package.state = "whole" /\ Valid(told.package)
<1>0. Types /\ Sound /\ Reported /\ BuildIsChecked
  BY DEF IInv, PackagesAreValid, Valid
<1> SUFFICES Sound' /\ Reported' /\ BuildIsChecked'
  BY DEF PackagesAreValid, Valid
<1>b. "nothing" \in Report /\ "refused" \in Report /\ "failed" \in Report /\ "cancelled" \in Report
      /\ "submitted" \in Report /\ "dry run" \in Report
  BY DEF Report
<1>c. ASSUME NEW w \in Report \ {"built", "published"}, End(Says(w)), UNCHANGED packages
      PROVE  Sound' /\ Reported' /\ BuildIsChecked'
  BY <1>0, <1>c, EndsIdle DEF BuildIsChecked
<1>1. CASE EditToml \/ EditSources \/ ListArtifact
  BY <1>0, <1>1 DEF EditToml, EditSources, ListArtifact, project, BuildIsChecked
<1>2. CASE Build
  BY <1>0, <1>2, Starts DEF Build, BuildIsChecked, Silent
<1>3. CASE Publish
  <2>1. CASE Accepted(toml)
    BY <1>0, <1>3, <2>1, PublishGoesOn DEF Publish, BuildIsChecked
  <2>2. CASE ~Accepted(toml)
    BY <1>b, <1>c, <1>3, <2>2 DEF Publish
  <2> QED
    BY <2>1, <2>2
<1>4. CASE ReadForBuild
  <2>1. CASE Accepted(toml)
    <3>1. /\ command' = [command EXCEPT !.stage = "compiling", !.package.manifest = toml.manifest]
          /\ Violations(toml.manifest) = {} /\ UNCHANGED <<packages, told>>
      BY <1>4, <2>1 DEF ReadForBuild, AcceptedByTheBuild, Accepted
    <3>2. command \in Command /\ command.package \in Package
      BY <1>0, CommandFields DEF Types
    <3>3. command'.stage = "compiling" /\ command'.package.manifest = toml.manifest
      BY <3>1, <3>2 DEF Command, Package
    <3> QED
      BY <1>0, <3>1, <3>3 DEF BuildIsChecked
  <2>2. CASE ~Accepted(toml)
    BY <1>b, <1>c, <1>4, <2>2 DEF ReadForBuild, AcceptedByTheBuild
  <2> QED
    BY <2>1, <2>2
<1>5. CASE CompileSources
  <2>1. CASE End(Says("failed")) /\ UNCHANGED packages
    BY <1>b, <1>c, <2>1
  <2>2. CASE ~(End(Says("failed")) /\ UNCHANGED packages)
    <3>1. /\ command.stage = "compiling" /\ sources # 0
          /\ command' = [command EXCEPT !.stage = "writing", !.package.code = sources,
                                        !.package.state = "whole"]
          /\ packages' = [packages EXCEPT ![stem(command.package)].state = "torn"]
          /\ told' = told
      BY <1>5, <2>2 DEF CompileSources
    <3>2. \A s \in Stems : packages'[s].state = "whole" => packages'[s] = packages[s]
      BY <1>0, <3>1 DEF Types, Package
    <3>3. BuildIsChecked'
      BY <1>0, <3>1, CommandFields DEF BuildIsChecked, Types, Command, Package
    <3> QED
      BY <1>0, <3>1, <3>2, <3>3
  <2> QED
    BY <2>1, <2>2
<1>6. CASE WritePackage
  <2>1. /\ Valid(command.package) /\ command.package.state = "whole"
        /\ stem(command.package) \in Stems /\ command.package \in Package
    BY <1>0, <1>6, CommandFields DEF WritePackage, BuildIsChecked, Valid, Types
  <2>2. packages' = [packages EXCEPT ![stem(command.package)] = command.package]
    BY <1>6 DEF WritePackage
  <2>3. Sound'
    BY <1>0, <2>1, <2>2 DEF Types
  <2>4. CASE command.name = "publish"
    BY <1>0, <1>6, <2>1, <2>2, <2>3, <2>4 DEF WritePackage, Goto, BuildIsChecked, Types, Command
  <2>5. CASE command.name # "publish"
    <3>1. command' = Idle /\ told' = [Says("built") EXCEPT !.package = command.package]
      BY <1>6, <2>5 DEF WritePackage, End
    <3> QED
      BY <2>1, <2>3, <3>1 DEF Says, Silent, Idle, BuildIsChecked
  <2> QED
    BY <2>4, <2>5
<1>7. CASE SendToMarketplace
  <2> DEFINE p == packages[stem(command.package)]
  <2>1. stem(command.package) \in Stems /\ p.state = "whole"
    BY <1>0, <1>7, CommandFields DEF SendToMarketplace, BuildIsChecked, Types
  <2>2. Valid(p)
    BY <1>0, <2>1
  <2>3. CASE End([Says("published") EXCEPT !.package = p])
    BY <1>0, <1>7, <2>1, <2>2, <2>3
    DEF SendToMarketplace, End, Says, Silent, Idle, BuildIsChecked
  <2>4. CASE End(Says("failed"))
    BY <1>b, <1>c, <1>7, <2>4 DEF SendToMarketplace
  <2> QED
    BY <1>7, <2>3, <2>4 DEF SendToMarketplace
<1>8. CASE Submit
  <2>1. CASE Accepted(toml)
    BY <1>0, <1>8, <2>1, Starts DEF Submit, BuildIsChecked, Silent
  <2>2. CASE ~Accepted(toml)
    BY <1>b, <1>c, <1>8, <2>2 DEF Submit
  <2> QED
    BY <2>1, <2>2
<1>9. ASSUME NEW key \in WizardKeys, PressKey(key)
      PROVE  Sound' /\ Reported' /\ BuildIsChecked'
  <2>1. HandleKey(wizard, key).outcome \in {"continue", "confirm", "cancel"}
    BY <1>0, <1>9, HandleKeyType, WizardShape DEF PressKey, Types
  <2>2. CASE End(Says("cancelled"))
    BY <1>b, <1>c, <1>9, <2>2 DEF PressKey
  <2>3. CASE ~End(Says("cancelled"))
    <3>1. UNCHANGED <<packages, told>> /\ (Goto("saving") \/ UNCHANGED command)
      BY <1>9, <2>1, <2>3 DEF PressKey
    <3>2. BuildIsChecked'
      BY <1>0, <3>1 DEF Goto, BuildIsChecked, Types, Command
    <3> QED
      BY <1>0, <3>1, <3>2
  <2> QED
    BY <2>2, <2>3
<1>10. CASE WriteTemporary \/ RenameTemporary
  <2>1. UNCHANGED packages
    BY <1>10 DEF WriteTemporary, RenameTemporary
  <2>2. CASE Goto("renaming") /\ UNCHANGED told
    BY <1>0, <2>1, <2>2 DEF Goto, BuildIsChecked, Types, Command
  <2> QED
    BY <1>b, <1>c, <1>10, <2>1, <2>2 DEF WriteTemporary, RenameTemporary
<1>11. ASSUME NEW configured \in BOOLEAN, Upload(configured)
       PROVE  Sound' /\ Reported' /\ BuildIsChecked'
  <2>1. UNCHANGED packages
    BY <1>11 DEF Upload
  <2>2. CASE command'.stage = "reaching" /\ told' = Silent
    BY <1>0, <2>1, <2>2 DEF BuildIsChecked, Silent
  <2>3. CASE End(Says("dry run")) \/ End(Says("refused"))
    BY <1>b, <1>c, <2>1, <2>3
  <2> QED
    BY <1>11, <2>2, <2>3 DEF Upload, Start, Idle
<1>12. CASE Reach \/ Post
  <2>1. UNCHANGED packages
    BY <1>12 DEF Reach, Post
  <2>2. CASE End(Says("failed"))
    BY <1>b, <1>c, <2>1, <2>2
  <2>3. CASE (Goto("posting") \/ Goto("answering")) /\ UNCHANGED told
    BY <1>0, <2>1, <2>3 DEF Goto, BuildIsChecked, Types, Command
  <2> QED
    BY <1>12, <2>2, <2>3 DEF Reach, Post
<1>13. CASE ReadAnswer
  <2>1. UNCHANGED packages
    BY <1>13 DEF ReadAnswer
  <2>2. CASE End(Says("failed"))
    BY <1>b, <1>c, <2>1, <2>2
  <2>3. CASE End([Says("uploaded") EXCEPT !.id = Len(index)])
    BY <1>0, <2>1, <2>3 DEF End, Idle, Says, Silent, BuildIsChecked
  <2> QED
    BY <1>13, <2>2, <2>3 DEF ReadAnswer
<1>14. CASE Kill
  BY <1>b, <1>c, <1>14 DEF Kill
<1>15. CASE FailToWritePackage
  BY <1>b, <1>c, <1>15 DEF FailToWritePackage
<1>16. CASE UNCHANGED vars
  BY <1>0, <1>16 DEF vars, BuildIsChecked
<1> QED
  BY <1>1, <1>2, <1>3, <1>4, <1>5, <1>6, <1>7, <1>8, <1>9, <1>10, <1>11, <1>12, <1>13, <1>14,
     <1>15, <1>16 DEF Next
-----------------------------------------------------------------------------
(* The submissions: what is saved is complete, what is sent is what is     *)
(* listed, and what is stored was sent.                                    *)
LEMMA SubmissionStep ==
  ASSUME IInv, [Next]_vars
  PROVE  SubmissionsAreComplete' /\ DialogueIsGated' /\ UploadIsChecked'
<1> DEFINE Goal == SubmissionsAreComplete /\ DialogueIsGated /\ UploadIsChecked
           Stored == \A i \in DOMAIN index : Carries(index[i])
           Answered == told.said = "uploaded" => told.id \in DOMAIN index
<1>0. /\ Types /\ SubmissionIsComplete /\ DialogueIsGated /\ UploadIsChecked
      /\ Stored /\ Answered
  BY DEF IInv, SubmissionsAreComplete, ResourcesCarryWhatTheyList, Carries
<1>s. Goal' <=> /\ SubmissionIsComplete' /\ DialogueIsGated' /\ UploadIsChecked'
                /\ Stored' /\ Answered'
  BY DEF SubmissionsAreComplete, ResourcesCarryWhatTheyList, Carries
<1> HIDE DEF Goal
<1> SUFFICES Goal'
  BY DEF Goal
<1>b. /\ "nothing" \in Report /\ "refused" \in Report /\ "failed" \in Report /\ "cancelled" \in Report
      /\ "submitted" \in Report /\ "dry run" \in Report
  BY DEF Report
<1>c. ASSUME NEW w \in Report \ {"uploaded"}, End(Says(w)), UNCHANGED <<submission, index>>
      PROVE  Goal'
  BY <1>0, <1>s, <1>c, EndsIdle
  DEF SubmissionIsComplete, DialogueIsGated, UploadIsChecked
<1>1. CASE EditToml \/ EditSources
  BY <1>0, <1>s, <1>1
  DEF EditToml, EditSources, project, SubmissionIsComplete, DialogueIsGated, UploadIsChecked, Carries
<1>2. CASE ListArtifact
  <2>1. PICK s \in Stems : submission' = [submission EXCEPT !.descriptor.artifacts = @ \cup {s}]
    BY <1>2 DEF ListArtifact
  <2>2. \A f \in RequiredFields : submission'.descriptor[f] = submission.descriptor[f]
    BY <1>0, <2>1 DEF RequiredFields, Types, SubmissionFile, Descriptor
  <2>3. SubmissionIsComplete'
    BY <1>0, <1>2, <2>1, <2>2
    DEF ListArtifact, SubmissionIsComplete, MissingRequired, Types, SubmissionFile
  <2> QED
    BY <1>0, <1>s, <1>2, <2>3 DEF ListArtifact, project, DialogueIsGated, UploadIsChecked, Carries
<1>3. CASE Build
  BY <1>0, <1>s, <1>3, Starts
  DEF Build, SubmissionIsComplete, DialogueIsGated, UploadIsChecked, Silent
<1>4. CASE Publish
  <2>1. CASE Accepted(toml)
    BY <1>0, <1>s, <1>4, <2>1, PublishGoesOn
    DEF Publish, SubmissionIsComplete, DialogueIsGated, UploadIsChecked
  <2>2. CASE ~Accepted(toml)
    BY <1>b, <1>c, <1>4, <2>2 DEF Publish
  <2> QED
    BY <2>1, <2>2
<1>5. CASE ReadForBuild \/ CompileSources
  <2>1. UNCHANGED <<submission, index>>
    BY <1>5 DEF ReadForBuild, CompileSources
  <2>2. CASE command'.stage \in {"compiling", "writing"} /\ UNCHANGED told
    BY <1>0, <1>s, <2>1, <2>2 DEF SubmissionIsComplete, DialogueIsGated, UploadIsChecked
  <2>3. CASE End(Says("refused")) \/ End(Says("failed"))
    BY <1>b, <1>c, <2>1, <2>3
  <2> QED
    BY <1>0, <1>5, <2>2, <2>3 DEF ReadForBuild, CompileSources, Types, Command
<1>6. CASE WritePackage
  <2>1. UNCHANGED <<submission, index>>
    BY <1>6 DEF WritePackage
  <2>2. CASE command.name = "publish"
    <3>1. command'.stage = "sending" /\ told' = told
      BY <1>0, <1>6, <2>2 DEF WritePackage, Goto, Types, Command
    <3> QED
      BY <1>0, <1>s, <2>1, <3>1 DEF SubmissionIsComplete, DialogueIsGated, UploadIsChecked
  <2>3. CASE command.name # "publish"
    <3>1. command'.stage = "idle" /\ told'.said = "built"
      <4>1. command' = Idle /\ told' = [Says("built") EXCEPT !.package = command.package]
        BY <1>6, <2>3 DEF WritePackage, End
      <4> QED
        BY <4>1, SaidWhat DEF Idle
    <3> QED
      BY <1>0, <1>s, <2>1, <3>1 DEF SubmissionIsComplete, DialogueIsGated, UploadIsChecked
  <2> QED
    BY <2>2, <2>3
<1>7. CASE SendToMarketplace
  <2>1. /\ UNCHANGED <<submission, index>> /\ command' = Idle
        /\ told'.said \in {"published", "failed"}
    BY <1>7 DEF SendToMarketplace, End, Says, Silent
  <2> QED
    BY <1>0, <1>s, <2>1 DEF Idle, SubmissionIsComplete, DialogueIsGated, UploadIsChecked
<1>8. CASE Submit
  <2>1. CASE Accepted(toml)
    <3>1. toml.manifest \in Manifests
      BY <1>0, <2>1 DEF Types, Accepted, TomlFile, NoToml, Unparsable
    <3>2. wizard'.outcome = "continue"
      BY <1>8, <2>1, <3>1, NewWizardType DEF Submit
    <3> QED
      BY <1>0, <1>s, <1>8, <2>1, <3>2, Starts
      DEF Submit, SubmissionIsComplete, DialogueIsGated, UploadIsChecked, Silent
  <2>2. CASE ~Accepted(toml)
    BY <1>b, <1>c, <1>8, <2>2 DEF Submit
  <2> QED
    BY <2>1, <2>2
<1>9. ASSUME NEW key \in WizardKeys, PressKey(key)
      PROVE  Goal'
  <2> DEFINE w == HandleKey(wizard, key)
  <2>0. /\ UNCHANGED <<submission, index>> /\ command.stage = "dialogue"
        /\ key \in Characters => Len(wizard.summary) < MaxSummary
    BY <1>9 DEF PressKey
  <2>1. w \in Wizard /\ w.outcome \in {"continue", "confirm", "cancel"}
    BY <1>0, <2>0, HandleKeyType, WizardShape DEF Types
  <2>2. wizard.outcome = "continue" /\ wizard \in Wizard
    BY <1>0, <2>0 DEF DialogueIsGated, Types
  <2>3. w.outcome = "confirm" => MissingRequired(BuildDescriptor(w)) = {}
    BY <2>2, ConfirmsComplete
  <2> HIDE DEF w
  <2>4. CASE w.outcome = "continue"
    <3>1. wizard' = w /\ UNCHANGED <<command, told>>
      BY <1>9, <2>4 DEF PressKey, w
    <3> QED
      BY <1>0, <1>s, <2>0, <2>4, <3>1
      DEF SubmissionIsComplete, DialogueIsGated, UploadIsChecked
  <2>5. CASE w.outcome = "confirm"
    <3>1. wizard' = w /\ Goto("saving") /\ UNCHANGED told
      BY <1>9, <2>5 DEF PressKey, w
    <3>2. command'.stage = "saving"
      BY <1>0, <3>1 DEF Goto, Types, Command
    <3> QED
      BY <1>0, <1>s, <2>0, <2>3, <2>5, <3>1, <3>2
      DEF SubmissionIsComplete, DialogueIsGated, UploadIsChecked
  <2>6. CASE w.outcome = "cancel"
    BY <1>9, <1>b, <1>c, <2>0, <2>6 DEF PressKey, w
  <2> QED
    BY <2>1, <2>4, <2>5, <2>6
<1>10. CASE WriteTemporary
  <2>1. CASE Goto("renaming") /\ UNCHANGED <<wizard, told>>
    BY <1>0, <1>s, <1>10, <2>1
    DEF WriteTemporary, Goto, SubmissionIsComplete, DialogueIsGated, UploadIsChecked, Types, Command
  <2>2. CASE End(Says("failed"))
    BY <1>b, <1>c, <1>10, <2>2 DEF WriteTemporary
  <2> QED
    BY <1>10, <2>1, <2>2 DEF WriteTemporary
<1>11. CASE RenameTemporary
  <2>1. CASE /\ submission' = [state |-> "whole", descriptor |-> BuildDescriptor(wizard)]
             /\ End(Says("submitted"))
    <3>1. MissingRequired(BuildDescriptor(wizard)) = {}
      BY <1>0, <1>11 DEF RenameTemporary, DialogueIsGated
    <3>2. SubmissionIsComplete'
      BY <2>1, <3>1 DEF SubmissionIsComplete
    <3> QED
      BY <1>0, <1>b, <1>s, <1>11, <2>1, <3>2, EndsIdle
      DEF RenameTemporary, DialogueIsGated, UploadIsChecked
  <2>2. CASE End(Says("failed")) /\ UNCHANGED submission
    BY <1>b, <1>c, <1>11, <2>2 DEF RenameTemporary
  <2> QED
    BY <1>11, <2>1, <2>2 DEF RenameTemporary
<1>12. ASSUME NEW configured \in BOOLEAN, Upload(configured)
       PROVE  Goal'
  <2> DEFINE r == [descriptor |-> submission.descriptor,
                   files |-> [s \in Stems |-> IF s \in submission.descriptor.artifacts
                                              THEN packages[s] ELSE NoPackage]]
  <2>1. UNCHANGED <<submission, index>>
    BY <1>12 DEF Upload
  <2>2. CASE /\ AllAreThere(submission.descriptor)
             /\ command' = [Start("upload", "reaching") EXCEPT !.sent = r] /\ told' = Silent
    <3>1. Carries(r)
      BY <2>2 DEF AllAreThere, Carries, NoPackage
    <3>2. command'.sent = r /\ command'.stage = "reaching"
      BY <2>2 DEF Start, Idle
    <3> HIDE DEF r
    <3>3. told'.said = "nothing" /\ wizard' = wizard
      BY <1>12, <2>2 DEF Silent, Upload
    <3>4. DialogueIsGated' /\ UploadIsChecked'
      BY <3>1, <3>2 DEF DialogueIsGated, UploadIsChecked, Carries
    <3> QED
      BY <1>0, <1>s, <2>1, <3>3, <3>4
      DEF SubmissionIsComplete, DialogueIsGated, UploadIsChecked
  <2>3. CASE End(Says("dry run")) \/ End(Says("refused"))
    BY <1>b, <1>c, <2>1, <2>3
  <2> QED
    BY <1>12, <2>2, <2>3 DEF Upload
<1>13. CASE Reach
  <2>1. CASE Goto("posting") /\ UNCHANGED told
    <3>1. command'.stage = "posting" /\ command'.sent = command.sent
      BY <1>0, <2>1 DEF Goto, Types, Command
    <3> QED
      BY <1>0, <1>s, <1>13, <2>1, <3>1
      DEF Reach, SubmissionIsComplete, DialogueIsGated, UploadIsChecked
  <2>2. CASE End(Says("failed"))
    BY <1>b, <1>c, <1>13, <2>2 DEF Reach
  <2> QED
    BY <1>13, <2>1, <2>2 DEF Reach
<1>14. CASE Post
  <2>1. CASE index' = Append(index, command.sent) /\ Goto("answering") /\ UNCHANGED told
    <3>1. command'.stage = "answering" /\ Carries(command.sent)
      BY <1>0, <1>14, <2>1 DEF Post, Goto, UploadIsChecked, Types, Command
    <3>2. index \in Seq(Resource) /\ command.sent \in Resource
      BY <1>0, CommandFields DEF Types
    <3>3. /\ index' # <<>> /\ DOMAIN index \subseteq DOMAIN index'
          /\ \A i \in DOMAIN index' : \/ i \in DOMAIN index /\ index'[i] = index[i]
                                      \/ index'[i] = command.sent
      BY <2>1, <3>2
    <3>4. Stored' /\ Answered'
      BY <1>0, <2>1, <3>1, <3>3
    <3> QED
      BY <1>0, <1>s, <1>14, <3>1, <3>3, <3>4
      DEF Post, SubmissionIsComplete, DialogueIsGated, UploadIsChecked
  <2>2. CASE End(Says("failed")) /\ UNCHANGED index
    BY <1>b, <1>c, <1>14, <2>2 DEF Post
  <2> QED
    BY <1>14, <2>1, <2>2 DEF Post
<1>15. CASE ReadAnswer
  <2>1. CASE End([Says("uploaded") EXCEPT !.id = Len(index)])
    <3>1. index # <<>> /\ index \in Seq(Resource)
      BY <1>0, <1>15 DEF ReadAnswer, UploadIsChecked, Types
    <3>2. Len(index) \in DOMAIN index
      BY <3>1
    <3>3. command' = Idle /\ told'.id = Len(index)
      BY <2>1 DEF End, Says, Silent
    <3> QED
      BY <1>0, <1>s, <1>15, <3>2, <3>3
      DEF ReadAnswer, Idle, SubmissionIsComplete, DialogueIsGated, UploadIsChecked
  <2>2. CASE End(Says("failed"))
    BY <1>b, <1>c, <1>15, <2>2 DEF ReadAnswer
  <2> QED
    BY <1>15, <2>1, <2>2 DEF ReadAnswer
<1>16. CASE Kill
  BY <1>b, <1>c, <1>16 DEF Kill
<1>17. CASE FailToWritePackage
  BY <1>b, <1>c, <1>17 DEF FailToWritePackage
<1>18. CASE UNCHANGED vars
  BY <1>0, <1>s, <1>18
  DEF vars, SubmissionIsComplete, DialogueIsGated, UploadIsChecked
<1> QED
  BY <1>1, <1>2, <1>3, <1>4, <1>5, <1>6, <1>7, <1>8, <1>9, <1>10, <1>11, <1>12, <1>13, <1>14,
     <1>15, <1>16, <1>17, <1>18 DEF Next
-----------------------------------------------------------------------------
(* What publishing keeps *)

LEMMA Inductive == Spec => []IInv
<1>1. Init => IInv
  <2> SUFFICES ASSUME Init PROVE IInv
    OBVIOUS
  <2>1. \A s \in Stems : packages[s].state = "absent"
    BY DEF Init, NoFiles, NoPackage
  <2>2. PackagesAreValid /\ SubmissionsAreComplete
    BY <2>1
    DEF Init, PackagesAreValid, SubmissionsAreComplete, SubmissionIsComplete,
        ResourcesCarryWhatTheyList, Silent
  <2>3. BuildIsChecked /\ DialogueIsGated /\ UploadIsChecked
    BY DEF Init, Idle, BuildIsChecked, DialogueIsGated, UploadIsChecked
  <2> QED
    BY <2>2, <2>3, TypeInit DEF IInv
<1>2. IInv /\ [Next]_vars => IInv'
  BY TypeStep, PackageStep, SubmissionStep DEF IInv
<1> QED
  BY <1>1, <1>2, PTL DEF Spec

(* The files, the commands and the index keep their types. *)
THEOREM TypeCorrect == Spec => []PublishTypeOK
<1>1. IInv => PublishTypeOK
  BY TypesMean DEF IInv
<1> QED
  BY <1>1, Inductive, PTL

(* A package that is whole was built from a manifest without violations, under *)
(* the name of its id, whatever the author does to pulse.toml meanwhile.       *)
THEOREM PackagesStayValid == Spec => []PackagesAreValid
<1>1. IInv => PackagesAreValid
  BY DEF IInv
<1> QED
  BY <1>1, Inductive, PTL

(* Nothing incomplete is saved, and the index holds what was listed. *)
THEOREM SubmissionsStayComplete == Spec => []SubmissionsAreComplete
<1>1. IInv => SubmissionsAreComplete
  BY DEF IInv
<1> QED
  BY <1>1, Inductive, PTL
------------------------------------------------------------------------------
(* The menu *)

MenuAction == {Menu!Rows[i] : i \in Menu!Items}
Field == [toggle : BOOLEAN, required : BOOLEAN, text : Seq(Menu!FormKinds), on : BOOLEAN]
Form == [action : MenuAction, fields : Seq(Field), active : Nat]

(* The form that is open, if one is, has the fields of its command. *)
MenuTypes ==
  /\ {raw, alternate, guard, help} \subseteq BOOLEAN
  /\ stage \in {"shell", "entering", "menu", "suspending", "running", "waiting", "resuming",
                "leaving", "ended", "unavailable"}
  /\ row \in Menu!Items
  /\ toast \in {"none", "required"}
  /\ prompt # Menu!NoPrompt => prompt \in Form /\ prompt.active \in DOMAIN prompt.fields
  /\ ran.action \in {"none"} \cup MenuAction

(* Between its two calls the guard has the terminal raw; from then on it   *)
(* exists until it is dropped, so that a menu that resumes has it still.   *)
TerminalIsGuarded ==
  /\ stage = "entering" => raw
  /\ stage \in {"menu", "suspending", "running", "waiting", "resuming"} => guard

MenuInv ==
  MenuTypes /\ TerminalIsGuarded /\ Menu!TerminalIsHandedOver /\ Menu!RunsOnlyFilledForms

LEMMA RowsShape ==
  /\ Len(Menu!Rows) = 14 /\ DOMAIN Menu!Rows = 1 .. 14
  /\ Menu!Items = {2, 3, 4, 5, 7, 8, 10, 11, 13, 14}
  /\ "none" \notin MenuAction
<1>1. Len(Menu!Rows) = 14 /\ DOMAIN Menu!Rows = 1 .. 14
  BY DEF Menu!Rows
<1>2. Menu!Items = {2, 3, 4, 5, 7, 8, 10, 11, 13, 14}
  BY <1>1 DEF Menu!Items, Menu!Rows, Menu!Header
<1> QED
  BY <1>1, <1>2 DEF MenuAction, Menu!Rows, Menu!Header

(* The selection goes round the list and always comes to an item, if only  *)
(* to the one it left.                                                     *)
LEMMA SelectionIsAnItem ==
  ASSUME row \in Menu!Items, NEW delta \in {1, -1}, Menu!MoveSelection(delta)
  PROVE  row' \in Menu!Items
<1> DEFINE At(k) == 1 + ((row - 1 + k * delta) % 14)
           T == {k \in 1 .. 14 : At(k) \in Menu!Items}
<1>1. row \in 1 .. 14
  BY RowsShape
<1>2. At(14) = row
  <2>1. CASE delta = 1
    BY <1>1, <2>1
  <2>2. CASE delta = -1
    BY <1>1, <2>2
  <2> QED
    BY <2>1, <2>2
<1>3. T \subseteq Nat /\ 14 \in T
  BY <1>2
<1>4. PICK k \in T : \A j \in T : k <= j
  BY <1>3, LeastNatural
<1>5. k \in 1 .. 14 /\ At(k) \in Menu!Items /\ \A j \in 1 .. k - 1 : At(j) \notin Menu!Items
  <2> HIDE DEF At
  <2>1. k \in 1 .. 14 /\ At(k) \in Menu!Items
    OBVIOUS
  <2>2. ASSUME NEW j \in 1 .. k - 1, At(j) \in Menu!Items PROVE FALSE
    <3>1. j \in T /\ ~ (k <= j)
      BY <2>1, <2>2
    <3> QED
      BY <1>4, <3>1
  <2> QED
    BY <2>1, <2>2
<1> DEFINE steps == CHOOSE n \in 1 .. 14 :
                      At(n) \in Menu!Items /\ \A j \in 1 .. n - 1 : At(j) \notin Menu!Items
<1>6. At(steps) \in Menu!Items
  <2> HIDE DEF At
  <2> QED
    BY <1>5
<1>7. row' = At(steps)
  BY RowsShape DEF Menu!MoveSelection
<1> QED
  BY <1>6, <1>7

(* What is typed leaves a field a field. *)
LEMMA EditedField ==
  ASSUME NEW f \in Field, NEW key \in Menu!MenuKeys
  PROVE  Menu!EditField(f, key) \in Field
<1>1. key \in Menu!FormKinds => Append(f.text, key) \in Seq(Menu!FormKinds)
  BY DEF Field
<1>2. f.text # <<>> => Menu!Front(f.text) \in Seq(Menu!FormKinds)
  BY DEF Field, Menu!Front
<1> QED
  BY <1>1, <1>2 DEF Menu!EditField, Field

(* The forms that are opened are empty. *)
LEMMA OpenedForm ==
  ASSUME row \in Menu!Items, Menu!Rows[row] \in DOMAIN Menu!ForAction
  PROVE  LET p == [action |-> Menu!Rows[row], fields |-> Menu!ForAction[Menu!Rows[row]],
                   active |-> 1]
         IN  p \in Form /\ p.active \in DOMAIN p.fields
<1> DEFINE a == Menu!Rows[row]
<1>1. a \in MenuAction
  BY DEF MenuAction
<1>2. /\ \A b \in BOOLEAN : Menu!TextField(b) \in Field
      /\ Menu!ToggleField \in Field
  BY DEF Menu!TextField, Menu!ToggleField, Field
<1>3. a \in {"new", "install", "uninstall", "logs", "siggen"}
  BY DEF Menu!ForAction
<1>4. Menu!ForAction[a] \in Seq(Field) /\ 1 \in DOMAIN Menu!ForAction[a]
  <2> HIDE DEF a
  <2> DEFINE required == Menu!TextField(TRUE)
             optional == Menu!TextField(FALSE)
             toggle == Menu!ToggleField
  <2>1. required \in Field /\ optional \in Field /\ toggle \in Field
    BY <1>2
  <2>2. Menu!ForAction = [new |-> <<required, optional>>, install |-> <<required, required, toggle>>,
                          uninstall |-> <<required>>, logs |-> <<optional>>, siggen |-> <<required>>]
    BY DEF Menu!ForAction
  <2> HIDE DEF required, optional, toggle
  <2>3. Menu!ForAction[a] \in {<<required, optional>>, <<required, required, toggle>>, <<required>>,
                               <<optional>>}
    BY <1>3, <2>2
  <2>4. \A x, y, z \in Field : <<x>> \in Seq(Field) /\ <<x, y>> \in Seq(Field)
                              /\ <<x, y, z>> \in Seq(Field)
    OBVIOUS
  <2>5. /\ <<required, optional>> \in Seq(Field)
        /\ <<required, required, toggle>> \in Seq(Field)
        /\ <<required>> \in Seq(Field) /\ <<optional>> \in Seq(Field)
    BY <2>1, <2>4
  <2>6. Menu!ForAction[a] \in Seq(Field)
    BY <2>3, <2>5
  <2>7. 1 \in DOMAIN Menu!ForAction[a]
    BY <2>3
  <2> QED
    BY <2>6, <2>7
<1> QED
  BY <1>1, <1>4 DEF Form

LEMMA Wraps == \A x \in Int, n \in Nat \ {0} : 1 + (x % n) \in 1 .. n
  OBVIOUS

(* A key in a form leaves a form, or none and a command that runs with all *)
(* it requires.                                                            *)
LEMMA FormKey ==
  ASSUME MenuTypes, prompt # Menu!NoPrompt, NEW key \in Menu!MenuKeys, Menu!HandlePromptKey(key)
  PROVE  /\ prompt' # Menu!NoPrompt => prompt' \in Form /\ prompt'.active \in DOMAIN prompt'.fields
         /\ toast' \in {toast, "required"}
         /\ \/ stage' = stage /\ ran' = ran
            \/ stage' = "suspending" /\ ran'.action \in MenuAction /\ Menu!Missing(ran') = {}
<1>1. /\ prompt \in Form /\ prompt.active \in 1 .. Len(prompt.fields)
      /\ Len(prompt.fields) \in Nat \ {0}
  BY DEF MenuTypes, Form
<1> DEFINE Same == stage' = stage /\ ran' = ran
           Sound(p) == p \in Form /\ p.active \in DOMAIN p.fields
<1>2. \A n \in 1 .. Len(prompt.fields) : Sound([prompt EXCEPT !.active = n])
  BY <1>1 DEF Form
<1>3. CASE key = "esc"
  BY <1>3 DEF Menu!HandlePromptKey
<1>4. CASE key \in {"up", "down"}
  <2>1. Menu!MoveField(key) /\ toast' = toast /\ Same
    BY <1>4 DEF Menu!HandlePromptKey
  <2>2. PICK n \in 1 .. Len(prompt.fields) : prompt' = [prompt EXCEPT !.active = n]
    <3>1. 1 + ((prompt.active - 2) % Len(prompt.fields)) \in 1 .. Len(prompt.fields)
      <4>1. prompt.active - 2 \in Int
        BY <1>1
      <4> QED
        BY <1>1, <4>1, Wraps
    <3>2. 1 + (prompt.active % Len(prompt.fields)) \in 1 .. Len(prompt.fields)
      BY <1>1, Wraps
    <3> QED
      BY <2>1, <3>1, <3>2 DEF Menu!MoveField
  <2>3. Sound(prompt')
    BY <1>2, <2>2
  <2> QED
    BY <2>1, <2>3
<1>5. CASE key = "enter"
  <2>1. CASE prompt.active < Len(prompt.fields)
    <3>1. prompt' = [prompt EXCEPT !.active = prompt.active + 1] /\ toast' = toast /\ Same
      BY <1>5, <2>1 DEF Menu!HandlePromptKey
    <3>2. prompt.active + 1 \in 1 .. Len(prompt.fields)
      BY <1>1, <2>1
    <3>3. Sound(prompt')
      BY <1>2, <3>1, <3>2
    <3> QED
      BY <3>1, <3>3
  <2>2. CASE ~ (prompt.active < Len(prompt.fields))
    <3>1. Menu!SubmitPrompt
      BY <1>5, <2>2 DEF Menu!HandlePromptKey
    <3>2. CASE Menu!MissingFields(prompt) # {}
      BY <1>1, <3>1, <3>2 DEF Menu!SubmitPrompt, MenuTypes
    <3>3. CASE Menu!MissingFields(prompt) = {}
      <4>1. stage' = "suspending" /\ ran' = prompt /\ prompt' = Menu!NoPrompt /\ toast' = toast
        BY <3>1, <3>3 DEF Menu!SubmitPrompt, Menu!RunAction
      <4>2. Menu!Missing(ran') = {} /\ ran'.action \in MenuAction
        BY <1>1, <3>3, <4>1 DEF Menu!MissingFields, Form
      <4> QED
        BY <4>1, <4>2
    <3> QED
      BY <3>2, <3>3
  <2> QED
    BY <2>1, <2>2
<1>6. CASE key \notin {"esc", "up", "down", "enter"}
  <2> DEFINE old == prompt.fields[prompt.active]
             new == Menu!EditField(old, key)
  <2>1. /\ prompt' = [prompt EXCEPT !.fields = [prompt.fields EXCEPT ![prompt.active] = new]]
        /\ toast' = toast /\ Same
    BY <1>6 DEF Menu!HandlePromptKey
  <2>2. old \in Field
    BY <1>1 DEF Form
  <2>3. new \in Field
    BY <2>2, EditedField
  <2> HIDE DEF new
  <2> DEFINE s == [prompt.fields EXCEPT ![prompt.active] = new]
  <2>4. s \in Seq(Field) /\ DOMAIN s = 1 .. Len(prompt.fields)
    BY <1>1, <2>3 DEF Form
  <2> HIDE DEF s
  <2>5. Sound(prompt')
    <3>1. prompt' = [prompt EXCEPT !.fields = s]
      BY <2>1 DEF s
    <3> QED
      BY <1>1, <2>4, <3>1 DEF Form
  <2> QED
    BY <2>1, <2>5
<1> QED
  BY <1>3, <1>4, <1>5, <1>6

(* So does a key in the list, and in any case the menu stays or is left.   *)
LEMMA ListKey ==
  ASSUME MenuTypes, prompt = Menu!NoPrompt, NEW key \in Menu!MenuKeys, Menu!HandleMenuKey(key)
  PROVE  /\ prompt' # Menu!NoPrompt => prompt' \in Form /\ prompt'.active \in DOMAIN prompt'.fields
         /\ row' \in Menu!Items /\ help' \in BOOLEAN /\ toast' = toast
         /\ \/ stage' \in {stage, "leaving"} /\ ran' = ran
            \/ stage' = "suspending" /\ ran'.action \in MenuAction /\ Menu!Missing(ran') = {}
<1>1. toast' = toast
  BY DEF Menu!HandleMenuKey
<1>2. CASE key \in {"q", "esc"}
  BY <1>1, <1>2 DEF Menu!HandleMenuKey, Menu!app, MenuTypes
<1>3. CASE key \in {"up", "down"}
  <2>1. PICK delta \in {1, -1} : Menu!MoveSelection(delta)
    BY <1>3 DEF Menu!HandleMenuKey
  <2>2. row' \in Menu!Items
    BY <2>1, SelectionIsAnItem DEF MenuTypes
  <2> QED
    BY <1>1, <1>3, <2>2 DEF Menu!HandleMenuKey, MenuTypes
<1>4. CASE key = "help"
  BY <1>1, <1>4 DEF Menu!HandleMenuKey, MenuTypes
<1>5. CASE key = "enter"
  <2>1. Menu!ActivateSelected /\ row' = row /\ help' = help
    BY <1>5 DEF Menu!HandleMenuKey
  <2>2. row' \in Menu!Items /\ help' \in BOOLEAN
    BY <2>1 DEF MenuTypes
  <2>3. CASE Menu!Rows[row] \in DOMAIN Menu!ForAction
    <3>1. prompt' \in Form /\ prompt'.active \in DOMAIN prompt'.fields
      BY <2>1, <2>3, OpenedForm DEF Menu!ActivateSelected, MenuTypes
    <3>2. stage' = stage /\ ran' = ran
      BY <2>1, <2>3 DEF Menu!ActivateSelected
    <3> QED
      BY <1>1, <2>2, <3>1, <3>2
  <2>4. CASE Menu!Rows[row] \notin DOMAIN Menu!ForAction
    <3>1. /\ prompt' = prompt /\ stage' = "suspending"
          /\ ran' = [action |-> Menu!Rows[row], fields |-> <<>>, active |-> 0]
      BY <2>1, <2>4 DEF Menu!ActivateSelected, Menu!RunAction, Menu!NoPrompt
    <3>2. ran'.action \in MenuAction /\ Menu!Missing(ran') = {}
      BY <3>1 DEF MenuTypes, MenuAction, Menu!Missing
    <3> QED
      BY <1>1, <2>2, <3>1, <3>2
  <2> QED
    BY <2>3, <2>4
<1>6. CASE key \notin {"q", "esc", "up", "down", "help", "enter"}
  BY <1>1, <1>6 DEF Menu!HandleMenuKey, Menu!app, MenuTypes
<1> QED
  BY <1>2, <1>3, <1>4, <1>5, <1>6

LEMMA MenuStep ==
  ASSUME MenuInv, [Menu!MenuNext]_menuVars
  PROVE  MenuInv'
<1> USE DEF MenuInv
<1>k. ASSUME NEW key \in Menu!MenuKeys, Menu!HandleKey(key) PROVE MenuInv'
  <2>1. stage = "menu" /\ raw' = raw /\ alternate' = alternate /\ guard' = guard
    BY <1>k DEF Menu!HandleKey, Menu!screen
  <2> DEFINE Ends == \/ stage' \in {"menu", "leaving"} /\ ran' = ran
                     \/ stage' = "suspending" /\ ran'.action \in MenuAction
                          /\ Menu!Missing(ran') = {}
             Sound(p) == p # Menu!NoPrompt => p \in Form /\ p.active \in DOMAIN p.fields
  <2>2. row' \in Menu!Items /\ help' \in BOOLEAN /\ toast' \in {"none", "required"}
        /\ Sound(prompt') /\ Ends
    <3>1. CASE key = "ctrl-c"
      BY <1>k, <2>1, <3>1 DEF Menu!HandleKey, Menu!app, MenuTypes
    <3>2. CASE key # "ctrl-c" /\ toast # "none"
      BY <1>k, <2>1, <3>2 DEF Menu!HandleKey, MenuTypes
    <3>3. CASE key # "ctrl-c" /\ toast = "none" /\ prompt # Menu!NoPrompt
      <4>1. Menu!HandlePromptKey(Menu!AsTyped(key)) /\ row' = row /\ help' = help
        BY <1>k, <3>3 DEF Menu!HandleKey
      <4>2. Menu!AsTyped(key) \in Menu!MenuKeys
        BY DEF Menu!AsTyped, Menu!MenuKeys, Menu!FormKinds
      <4>3. Sound(prompt') /\ toast' \in {toast, "required"}
        BY <3>3, <4>1, <4>2, FormKey
      <4>4. Ends
        BY <2>1, <3>3, <4>1, <4>2, FormKey
      <4> QED
        BY <3>3, <4>1, <4>3, <4>4 DEF MenuTypes
    <3>4. CASE key # "ctrl-c" /\ toast = "none" /\ prompt = Menu!NoPrompt
      <4>1. Menu!HandleMenuKey(key)
        BY <1>k, <3>4 DEF Menu!HandleKey
      <4>2. Sound(prompt') /\ row' \in Menu!Items /\ help' \in BOOLEAN /\ toast' = toast
        BY <3>4, <4>1, ListKey
      <4>3. Ends
        BY <2>1, <3>4, <4>1, ListKey
      <4> QED
        BY <3>4, <4>2, <4>3
    <3> QED
      BY <3>1, <3>2, <3>3, <3>4
  <2>3. MenuTypes'
    BY <2>1, <2>2 DEF MenuTypes
  <2>4. TerminalIsGuarded' /\ Menu!TerminalIsHandedOver'
    BY <2>1, <2>2 DEF TerminalIsGuarded, Menu!TerminalIsHandedOver
  <2>5. Menu!RunsOnlyFilledForms'
    <3>1. CASE ran' = ran
      BY <3>1 DEF Menu!RunsOnlyFilledForms
    <3>2. CASE Menu!Missing(ran') = {}
      BY <3>2 DEF Menu!RunsOnlyFilledForms
    <3> QED
      BY <2>2, <3>1, <3>2
  <2> QED
    BY <2>3, <2>4, <2>5
<1> DEFINE Terminal == \/ Menu!EnterRaw \/ Menu!EnterAlternate \/ Menu!DropGuard \/ Menu!TerminalFails
                       \/ Menu!SuspendTui \/ Menu!CommandReturns \/ Menu!Interrupt
                       \/ Menu!CommandPanics \/ Menu!WaitForKeypress \/ Menu!ResumeTui
<1>t. CASE Terminal
  <2>1. UNCHANGED <<row, help, toast, prompt, ran>>
    BY <1>t DEF Menu!EnterRaw, Menu!EnterAlternate, Menu!DropGuard, Menu!TerminalFails,
         Menu!SuspendTui, Menu!CommandReturns, Menu!Interrupt, Menu!CommandPanics,
         Menu!WaitForKeypress, Menu!ResumeTui, Menu!app
  <2>2. MenuTypes'
    BY <1>t, <2>1
    DEF MenuTypes, Menu!EnterRaw, Menu!EnterAlternate, Menu!DropGuard, Menu!TerminalFails,
        Menu!SuspendTui, Menu!CommandReturns, Menu!Interrupt, Menu!CommandPanics,
        Menu!WaitForKeypress, Menu!ResumeTui, Menu!BackToTheShell, Menu!screen
  <2>3. TerminalIsGuarded' /\ Menu!TerminalIsHandedOver'
    BY <1>t
    DEF TerminalIsGuarded, Menu!TerminalIsHandedOver, Menu!EnterRaw, Menu!EnterAlternate,
        Menu!DropGuard, Menu!TerminalFails, Menu!SuspendTui, Menu!CommandReturns,
        Menu!Interrupt, Menu!CommandPanics, Menu!WaitForKeypress, Menu!ResumeTui,
        Menu!BackToTheShell, Menu!screen
  <2>4. Menu!RunsOnlyFilledForms'
    BY <2>1 DEF Menu!RunsOnlyFilledForms
  <2> QED
    BY <2>2, <2>3, <2>4
<1>u. CASE UNCHANGED menuVars
  BY <1>u DEF menuVars, MenuTypes, TerminalIsGuarded, Menu!TerminalIsHandedOver,
       Menu!RunsOnlyFilledForms
<1> QED
  BY <1>k, <1>t, <1>u DEF Menu!MenuNext
------------------------------------------------------------------------------
(* The doctor *)

Item == [outcome : Doctor!Outcomes, late : BOOLEAN]

DoctorTypes ==
  /\ environment \in Doctor!Environment
  /\ asked \in 0 .. 3
  /\ threads \in [Doctor!Checks -> {"none", "working", "ended"}]
  /\ channel \in [Doctor!Checks -> {"empty"} \cup Doctor!Outcomes]
  /\ items \in Seq(Item) /\ Len(items) <= asked /\ asked <= Len(items) + 1

(* Each answer is that of its own check, and only a check that is late is  *)
(* reported without one.                                                   *)
AnswersAreTrue ==
  /\ \A c \in Doctor!Checks : channel[c] # "empty" => channel[c] = Doctor!RunCheck(c)
  /\ \A i \in 1 .. Len(items) :
       items[i].outcome = IF items[i].late THEN "problema" ELSE Doctor!RunCheck(i)

DoctorInv == DoctorTypes /\ AnswersAreTrue

LEMMA ItemsType ==
  ASSUME DoctorTypes
  PROVE  items \in UNION {[1 .. n -> Item] : n \in 0 .. 3}
<1>1. items \in Seq(Item) /\ Len(items) <= 3
  BY DEF DoctorTypes
<1>2. Len(items) \in 0 .. 3
  <2>1. Len(items) \in Nat
    BY <1>1
  <2> DEFINE n == Len(items)
  <2>2. n \in Nat /\ n <= 3
    BY <1>1, <2>1
  <2> HIDE DEF n
  <2>3. n \in 0 .. 3
    BY <2>2
  <2> QED
    BY <2>3 DEF n
<1>3. items \in [1 .. Len(items) -> Item]
  BY <1>1
<1> QED
  BY <1>2, <1>3

LEMMA ChecksAnswer ==
  ASSUME DoctorTypes, NEW c \in Doctor!Checks
  PROVE  Doctor!RunCheck(c) \in Doctor!Outcomes
BY DEF DoctorTypes, Doctor!Checks, Doctor!RunCheck, Doctor!GdVersion, Doctor!CppToolchain,
   Doctor!ToolchainConfig, Doctor!Outcomes

LEMMA DoctorInit ==
  ASSUME environment \in Doctor!Environment, asked = 0, items = <<>>,
         threads = [c \in Doctor!Checks |-> "none"],
         channel = [c \in Doctor!Checks |-> "empty"]
  PROVE  DoctorInv
<1>1. DoctorTypes
  BY DEF DoctorTypes
<1>2. AnswersAreTrue
  BY DEF AnswersAreTrue
<1> QED
  BY <1>1, <1>2 DEF DoctorInv

(* The answer of a check depends on the environment alone. *)
LEMMA AnswersStay ==
  ASSUME environment' = environment
  PROVE  \A c : Doctor!RunCheck(c)' = Doctor!RunCheck(c)
BY DEF Doctor!RunCheck

(* A report goes on by one item. *)
LEMMA Reported ==
  ASSUME DoctorInv, asked = Len(items) + 1, NEW item \in Item,
         items' = Append(items, item), UNCHANGED <<environment, asked, threads, channel>>,
         item.outcome = IF item.late THEN "problema" ELSE Doctor!RunCheck(asked)
  PROVE  DoctorInv'
<1>1. /\ items' \in Seq(Item) /\ Len(items') = asked /\ items'[asked] = item
      /\ \A i \in 1 .. Len(items) : items'[i] = items[i]
  BY DEF DoctorInv, DoctorTypes
<1>2. DoctorTypes'
  BY <1>1 DEF DoctorInv, DoctorTypes
<1>3. AnswersAreTrue'
  <2>1. \A c : Doctor!RunCheck(c)' = Doctor!RunCheck(c)
    BY AnswersStay
  <2>2. ASSUME NEW i \in 1 .. Len(items')
        PROVE  items'[i].outcome = IF items'[i].late THEN "problema" ELSE Doctor!RunCheck(i)
    <3>1. CASE i = asked
      BY <1>1, <3>1
    <3>2. CASE i # asked
      <4>1. i \in 1 .. Len(items)
        BY <1>1, <2>2, <3>2 DEF DoctorInv, DoctorTypes
      <4> QED
        BY <1>1, <4>1 DEF DoctorInv, AnswersAreTrue
    <3> QED
      BY <3>1, <3>2
  <2> QED
    BY <2>1, <2>2 DEF DoctorInv, AnswersAreTrue
<1> QED
  BY <1>2, <1>3 DEF DoctorInv

LEMMA DoctorStep ==
  ASSUME DoctorInv, [Doctor!DoctorNext]_doctorVars
  PROVE  DoctorInv'
<1> USE DEF DoctorInv
<1>1. CASE Doctor!Ask
  <2>1. asked + 1 \in Doctor!Checks /\ asked + 1 <= 3
    BY <1>1 DEF Doctor!Ask, DoctorTypes, Doctor!Checks
  <2>2. DoctorTypes'
    BY <1>1, <2>1 DEF Doctor!Ask, DoctorTypes
  <2>3. AnswersAreTrue'
    BY <1>1, AnswersStay DEF Doctor!Ask, AnswersAreTrue
  <2> QED
    BY <2>2, <2>3
<1>2. ASSUME NEW c \in Doctor!Checks, Doctor!Answer(c) PROVE DoctorInv'
  <2>1. Doctor!RunCheck(c) \in Doctor!Outcomes
    BY ChecksAnswer
  <2>2. DoctorTypes'
    BY <1>2, <2>1 DEF Doctor!Answer, DoctorTypes
  <2>3. AnswersAreTrue'
    BY <1>2, AnswersStay DEF Doctor!Answer, AnswersAreTrue, DoctorTypes
  <2> QED
    BY <2>2, <2>3
<1>3. CASE Doctor!Receive
  <2> DEFINE item == [outcome |-> channel[asked], late |-> FALSE]
  <2>1. asked \in Doctor!Checks /\ asked = Len(items) + 1 /\ channel[asked] # "empty"
    BY <1>3 DEF Doctor!Receive, DoctorTypes, Doctor!Checks
  <2>2. item \in Item /\ channel[asked] = Doctor!RunCheck(asked)
    BY <2>1 DEF DoctorTypes, AnswersAreTrue, Item
  <2> QED
    BY <1>3, <2>1, <2>2, Reported DEF Doctor!Receive
<1>4. CASE Doctor!TimeOut
  <2> DEFINE item == [outcome |-> "problema", late |-> TRUE]
  <2>1. item \in Item
    BY DEF Item, Doctor!Outcomes
  <2> QED
    BY <1>4, <2>1, Reported DEF Doctor!TimeOut, Doctor!WhenLate
<1>5. CASE UNCHANGED doctorVars
  BY <1>5, AnswersStay DEF doctorVars, DoctorTypes, AnswersAreTrue
<1> QED
  BY <1>1, <1>2, <1>3, <1>4, <1>5 DEF Doctor!DoctorNext

(* What the report says follows from the answers, one check at a time. *)
LEMMA ReportIsHonest ==
  ASSUME DoctorInv
  PROVE  DoctorIsHonest
<1> SUFFICES ASSUME Len(items) = 3 PROVE DoctorIsHonest
  BY DEF DoctorIsHonest, Doctor!DoctorIsHonest
<1>1. DOMAIN items = {1, 2, 3} /\ environment \in Doctor!Environment
  BY DEF DoctorInv, DoctorTypes
<1>2. \A i \in {1, 2, 3} :
        items[i].outcome = IF items[i].late THEN "problema" ELSE Doctor!RunCheck(i)
  BY DEF DoctorInv, AnswersAreTrue
<1>3. /\ Doctor!RunCheck(1) = Doctor!GdVersion(environment)
      /\ Doctor!RunCheck(2) = Doctor!CppToolchain(environment)
      /\ Doctor!RunCheck(3) = Doctor!ToolchainConfig(environment)
  BY DEF Doctor!RunCheck
<1>4. Doctor!Ready(items) => /\ environment.game = "found" /\ environment.compiler = "ideal"
                             /\ environment.cxx # "unresolved" /\ environment.toolchainFiles
  BY <1>1, <1>2, <1>3 DEF Doctor!Ready, Doctor!GdVersion, Doctor!CppToolchain,
     Doctor!ToolchainConfig, Doctor!Environment
<1>5. Doctor!ExitCode(items) = 0 => environment.game # "absent" /\ environment.compiler # "absent"
  BY <1>1, <1>2, <1>3 DEF Doctor!ExitCode, Doctor!GdVersion, Doctor!CppToolchain
<1>6. Doctor!ExitCode(items) = 1 <=> \/ environment.game = "absent"
                                     \/ environment.compiler = "absent"
                                     \/ \E i \in DOMAIN items : items[i].late
  BY <1>1, <1>2, <1>3 DEF Doctor!ExitCode, Doctor!GdVersion, Doctor!CppToolchain,
     Doctor!ToolchainConfig, Doctor!Environment
<1> QED
  BY <1>4, <1>5, <1>6 DEF DoctorIsHonest, Doctor!DoctorIsHonest
------------------------------------------------------------------------------
(* The patch *)

(* What PatchIsSafe asks of one image. *)
KeepsImage(old, new) ==
  /\ \A k \in DOMAIN old.bytes :
       old.bytes[k] # new.bytes[k] =>
         /\ k > Macho!CommandsEnd(old)
         /\ \A s \in old.sections : k \notin s.offset + 1 .. s.offset + s.size
  /\ new.loads - old.loads \in {0, 1}
  /\ new.loads = old.loads <=> new = old

(* A section of which something is in the file begins where the commands   *)
(* may not reach.                                                          *)
LEMMA SectionsAreBehind ==
  ASSUME NEW image \in Macho!Image, NEW s \in image.sections, s.size > 0, s.offset > 0
  PROVE  /\ Macho!MinSectionFileOffset(image) <= s.offset
         /\ Macho!MinSectionFileOffset(image) \in Nat
<1> DEFINE filled == {r.offset : r \in {q \in image.sections : q.size > 0 /\ q.offset > 0}}
<1>1. \A r \in image.sections : r \in [offset : Nat, size : Nat]
  BY DEF Macho!Image
<1>2. s.offset \in filled /\ filled \subseteq Nat
  BY <1>1
<1>3. \E x \in filled : \A y \in filled : x <= y
  BY <1>2, LeastNatural
<1>4. Macho!MinSectionFileOffset(image) = CHOOSE x \in filled : \A y \in filled : x <= y
  BY <1>2 DEF Macho!MinSectionFileOffset, Macho!Min
<1> HIDE DEF filled
<1> QED
  BY <1>2, <1>3, <1>4

LEMMA UnchangedImageIsKept ==
  ASSUME NEW image \in Macho!Image
  PROVE  KeepsImage(image, image)
BY DEF KeepsImage, Macho!Image

LEMMA PatchedImageIsKept ==
  ASSUME CommandSize \in Nat, NEW image \in Macho!Image, Macho!HasPadding(image),
         \A s \in image.sections : s.size > 0 => s.offset > 0
  PROVE  /\ KeepsImage(image, Macho!WithDylibCommand(image))
         /\ Macho!WithDylibCommand(image).loads = image.loads + 1
<1> DEFINE new == Macho!WithDylibCommand(image)
           end == Macho!CommandsEnd(image)
           bytes == [k \in DOMAIN image.bytes |->
                       IF k - end \in 1 .. CommandSize THEN 1 ELSE image.bytes[k]]
<1>1. /\ image.header \in Nat /\ image.commands \in Nat /\ image.loads \in Nat
      /\ image.bytes \in Seq({0, 1}) /\ end \in Nat
      /\ \A s \in image.sections : s \in [offset : Nat, size : Nat]
  BY DEF Macho!Image, Macho!CommandsEnd
<1>2. new = [image EXCEPT !.commands = @ + CommandSize, !.bytes = bytes, !.loads = @ + 1]
  BY DEF Macho!WithDylibCommand
<1> HIDE DEF new, bytes
<1>3. new.loads = image.loads + 1 /\ new.bytes = bytes
  BY <1>2 DEF Macho!Image
<1>4. ASSUME NEW k \in DOMAIN image.bytes, image.bytes[k] # new.bytes[k]
      PROVE  /\ k > end
             /\ \A s \in image.sections : k \notin s.offset + 1 .. s.offset + s.size
  <2>1. k \in Nat
    BY <1>1
  <2>2. k - end \in 1 .. CommandSize
    BY <1>3, <1>4 DEF bytes
  <2>3. k > end /\ k <= end + CommandSize
    BY <1>1, <2>1, <2>2
  <2>4. ASSUME NEW s \in image.sections, k \in s.offset + 1 .. s.offset + s.size PROVE FALSE
    <3>1. s.offset \in Nat /\ s.size \in Nat
      BY <1>1
    <3>2. s.size > 0 /\ k > s.offset
      BY <2>1, <2>4, <3>1
    <3>3. Macho!MinSectionFileOffset(image) <= s.offset /\ Macho!MinSectionFileOffset(image) \in Nat
      BY <3>2, SectionsAreBehind
    <3>4. end + CommandSize <= Macho!MinSectionFileOffset(image)
      BY DEF Macho!HasPadding
    <3> QED
      BY <1>1, <2>1, <2>3, <3>1, <3>2, <3>3, <3>4
  <2> QED
    BY <2>3, <2>4
<1>5. new.loads - image.loads \in {0, 1} /\ (new.loads = image.loads <=> new = image)
  BY <1>1, <1>3
<1> QED
  BY <1>3, <1>4, <1>5 DEF KeepsImage, new

(* What is written is written into an image that has room for it. *)
LEMMA ThinPatch ==
  ASSUME CommandSize \in Nat, NEW image \in Macho!Image,
         \A s \in image.sections : s.size > 0 => s.offset > 0
  PROVE  LET result == Macho!PatchThin64(image)
         IN  /\ KeepsImage(image, result.image)
             /\ result.ok => result.image.loads = image.loads + 1
             /\ ~result.ok => result.image = image
<1>1. CASE Macho!HasPadding(image)
  <2>1. Macho!PatchThin64(image) = [ok |-> TRUE, image |-> Macho!WithDylibCommand(image)]
    BY <1>1 DEF Macho!PatchThin64
  <2> QED
    BY <1>1, <2>1, PatchedImageIsKept
<1>2. CASE ~ Macho!HasPadding(image)
  <2>1. Macho!PatchThin64(image) = [ok |-> FALSE, image |-> image]
    BY <1>2 DEF Macho!PatchThin64
  <2> QED
    BY <2>1, UnchangedImageIsKept
<1> QED
  BY <1>1, <1>2

(* Whatever an executable is made of, a patch writes into no section and   *)
(* over no command, gives each image the library once or leaves it, and    *)
(* has changed nothing when it fails.                                      *)
LEMMA PatchesAreSafe ==
  ASSUME CommandSize \in Nat, NEW file, Macho!IsExecutable(file)
  PROVE  Macho!PatchIsSafe(file)
<1> DEFINE images == file.images
           result == Macho!AddLoadDylibCommand(file)
           Thin(i) == Macho!PatchThin64(images[i])
<1>1. /\ images \in Seq(Macho!Image) /\ (file.word = "thin" => Len(images) = 1)
      /\ \A i \in DOMAIN images : \A s \in images[i].sections : s.size > 0 => s.offset > 0
  BY DEF Macho!IsExecutable
<1>2. ASSUME NEW i \in DOMAIN images
      PROVE  /\ images[i] \in Macho!Image /\ images[i].loads \in Nat
             /\ KeepsImage(images[i], images[i])
  <2>1. images[i] \in Macho!Image
    BY <1>1
  <2> QED
    BY <2>1, UnchangedImageIsKept DEF Macho!Image
<1>3. \A i \in DOMAIN images : /\ KeepsImage(images[i], Thin(i).image)
                               /\ Thin(i).ok => Thin(i).image.loads = images[i].loads + 1
                               /\ ~Thin(i).ok => Thin(i).image = images[i]
  BY <1>1, <1>2, ThinPatch
<1> HIDE DEF Thin
<1>4. CASE file.word = "thin" /\ Macho!Patchable(images[1])
  <2>1. result = [ok |-> Thin(1).ok, images |-> <<Thin(1).image>>]
    BY <1>4 DEF Macho!AddLoadDylibCommand, Thin
  <2>2. DOMAIN images = {1} /\ images = <<images[1]>>
    BY <1>1, <1>4
  <2> HIDE DEF result
  <2>3. \A i \in DOMAIN images : KeepsImage(images[i], result.images[i])
    BY <1>3, <2>1, <2>2
  <2>4. ~result.ok => result.images = images
    BY <1>3, <2>1, <2>2
  <2>5. result.ok => \E i \in DOMAIN images : result.images[i].loads > images[i].loads
    BY <1>2, <1>3, <2>1, <2>2
  <2> QED
    BY <2>3, <2>4, <2>5 DEF Macho!PatchIsSafe, KeepsImage, result
<1>5. CASE file.word = "fat"
  <2> DEFINE Patched(i) == Macho!Patchable(images[i]) /\ Thin(i).ok
  <2>1. result = [ok |-> \E i \in DOMAIN images : Patched(i),
                  images |-> [i \in DOMAIN images |->
                                IF Patched(i) THEN Thin(i).image ELSE images[i]]]
    BY <1>5 DEF Macho!AddLoadDylibCommand, Macho!PatchFat, Thin
  <2> HIDE DEF result, Patched
  <2>2. \A i \in DOMAIN images : KeepsImage(images[i], result.images[i])
    BY <1>2, <1>3, <2>1
  <2>3. ~result.ok => result.images = images
    BY <1>1, <2>1
  <2>4. result.ok => \E i \in DOMAIN images : result.images[i].loads > images[i].loads
    BY <1>2, <1>3, <2>1 DEF Patched
  <2> QED
    BY <2>2, <2>3, <2>4 DEF Macho!PatchIsSafe, KeepsImage, result
<1>6. CASE file.word # "fat" /\ ~ (file.word = "thin" /\ Macho!Patchable(images[1]))
  <2>1. result = [ok |-> FALSE, images |-> images]
    BY <1>6 DEF Macho!AddLoadDylibCommand
  <2> HIDE DEF result
  <2> QED
    BY <1>2, <2>1 DEF Macho!PatchIsSafe, KeepsImage, result
<1> QED
  BY <1>4, <1>5, <1>6
------------------------------------------------------------------------------
(* The commands together *)

(* Every executable that was patched was found sound. *)
PatchIsChecked ==
  /\ part = "patch" => job \in PatchJobs
  /\ part = "patch" => checked # "unsound"

LEMMA ProjectInitSound == ProjectInit => Init /\ MenuInv /\ DoctorInv /\ PatchIsChecked
<1> SUFFICES ASSUME ProjectInit PROVE Init /\ MenuInv /\ DoctorInv /\ PatchIsChecked
  OBVIOUS
<1>1. Init /\ Menu!Init
  BY DEF ProjectInit
<1>2. MenuTypes
  <2>1. 2 \in Menu!Items
    BY RowsShape
  <2> QED
    BY <1>1, <2>1 DEF Menu!Init, MenuTypes, Menu!NoPrompt
<1>3. TerminalIsGuarded /\ Menu!TerminalIsHandedOver /\ Menu!RunsOnlyFilledForms
  BY <1>1 DEF Menu!Init, TerminalIsGuarded, Menu!TerminalIsHandedOver, Menu!RunsOnlyFilledForms
<1>4. DoctorInv
  <2>1. environment \in Doctor!Environment
    <3>1. [game |-> "found", compiler |-> "ideal", cxx |-> "unset", toolchainFiles |-> TRUE]
            \in Doctor!Environment
      BY DEF Doctor!Environment
    <3> QED
      BY <3>1 DEF ProjectInit, Doctor!DoctorInit
  <2> QED
    BY <2>1, DoctorInit DEF ProjectInit, Doctor!DoctorInit
<1>5. PatchIsChecked
  BY DEF ProjectInit, PatchIsChecked
<1> QED
  BY <1>1, <1>2, <1>3, <1>4, <1>5 DEF MenuInv

(* A step of the project is one of its part, and a stutter of the others. *)
LEMMA ProjectIsItsParts ==
  ASSUME [ProjectNext]_projectVars
  PROVE  [Next]_vars /\ [Menu!MenuNext]_menuVars /\ [Doctor!DoctorNext]_doctorVars
BY DEF ProjectNext, RunJob, projectVars

LEMMA PatchStep ==
  ASSUME PatchIsChecked, [ProjectNext]_projectVars
  PROVE  PatchIsChecked'
<1>1. part' = part /\ job' = job
  BY DEF ProjectNext, RunJob, projectVars
<1>2. CASE checked' = checked
  BY <1>1, <1>2 DEF PatchIsChecked
<1>3. CASE RunJob
  <2>1. CASE part = "patch"
    <3>1. Macho!PatchIsSafe(job)
      <4>1. CommandSize \in Nat /\ Macho!IsExecutable(job)
        BY <2>1, ProjectCommandsAssumption DEF PatchIsChecked
      <4> QED
        BY <4>1, PatchesAreSafe
    <3>2. checked' = "sound"
      BY <1>3, <2>1, <3>1 DEF RunJob, Verdict
    <3> QED
      BY <1>1, <3>2 DEF PatchIsChecked
  <2>2. CASE part # "patch"
    BY <1>1, <2>2 DEF PatchIsChecked
  <2> QED
    BY <2>1, <2>2
<1> QED
  BY <1>2, <1>3 DEF ProjectNext, projectVars

LEMMA PartsInductive == ProjectSpec => [](MenuInv /\ DoctorInv /\ PatchIsChecked)
<1>1. MenuInv /\ DoctorInv /\ PatchIsChecked /\ [ProjectNext]_projectVars =>
        (MenuInv /\ DoctorInv /\ PatchIsChecked)'
  BY ProjectIsItsParts, MenuStep, DoctorStep, PatchStep
<1> QED
  BY <1>1, ProjectInitSound, PTL DEF ProjectSpec

(* The composition leaves publishing as it is: what is proved of it holds  *)
(* next to the other commands.                                             *)
THEOREM ProjectPublishes == ProjectSpec => Spec
<1>1. [ProjectNext]_projectVars => [Next]_vars
  BY ProjectIsItsParts
<1> QED
  BY <1>1, ProjectInitSound, PTL DEF ProjectSpec, Spec

(* Whatever is typed, edited, killed or late, every command keeps its      *)
(* types.                                                                  *)
THEOREM ProjectTyped == ProjectSpec => []ProjectTypeOK
<1>1. MenuInv => Menu!MenuTypeOK
  BY DEF MenuInv, MenuTypes, Menu!MenuTypeOK, MenuAction
<1>2. DoctorInv => Doctor!DoctorTypeOK
  BY ItemsType DEF DoctorInv, DoctorTypes, Doctor!DoctorTypeOK, Item
<1> QED
  BY <1>1, <1>2, ProjectPublishes, TypeCorrect, PartsInductive, PTL DEF ProjectTypeOK

(* Whoever reads keys has the terminal he needs, however the menu ends the *)
(* shell gets it back, and no command runs on a form that lacks what it    *)
(* requires.                                                               *)
THEOREM MenuBehaves == ProjectSpec => []MenuIsWellBehaved
<1>1. MenuInv => MenuIsWellBehaved
  BY DEF MenuInv, MenuIsWellBehaved
<1> QED
  BY <1>1, PartsInductive, PTL

(* However late its checks are, the doctor's report says no more than is   *)
(* true.                                                                   *)
THEOREM DoctorStaysHonest == ProjectSpec => []DoctorIsHonest
<1>1. DoctorInv => DoctorIsHonest
  BY ReportIsHonest
<1> QED
  BY <1>1, PartsInductive, PTL

(* Every executable that is patched is sound: PatchesAndPackagesAreSound   *)
(* in the behaviours that patch one.                                       *)
THEOREM PatchesStaySound == ProjectSpec => [](part = "patch" => PatchesAndPackagesAreSound)
<1>1. PatchIsChecked => (part = "patch" => PatchesAndPackagesAreSound)
  BY DEF PatchIsChecked, PatchesAndPackagesAreSound
<1> QED
  BY <1>1, PartsInductive, PTL
==============================================================================
