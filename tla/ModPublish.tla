------------------------------ MODULE ModPublish ------------------------------
(***************************************************************************)
(* From a project to the servers: pulse build, publish, submit and upload  *)
(* (cli/src/builder.rs, publisher.rs, submit.rs, upload.rs), run one after *)
(* the other in one project directory, each of which may be killed.  The   *)
(* author edits pulse.toml and the sources at any time, and by hand adds   *)
(* packages to the artifacts of the submission between two commands.       *)
(*                                                                         *)
(* A package is what it was made of: the manifest and the version of the   *)
(* sources.  The index is the server behind the Index_Endpoint: it stores  *)
(* what it receives or refuses it, and its answer may get lost.            *)
(***************************************************************************)
EXTENDS ModManifest, SubmitWizard

CONSTANTS
  Manifests,   \* the manifests the author writes, valid or not
  MaxEdits,    \* bound: how often the author edits the project
  MaxSummary,  \* bound: how long a summary is typed
  MaxUploads   \* bound: how many uploads reach the index

ASSUME ModPublishAssumption ==
  /\ Manifests # {}
  /\ \A m \in Manifests : IsManifest(m)
  /\ {MaxEdits, MaxSummary, MaxUploads} \subseteq Nat

VARIABLES
  toml,        \* pulse.toml
  sources,     \* the version of the sources; 0: there are none
  packages,    \* the .pulse files, by the stem of their name
  submission,  \* submission.toml
  command,     \* the command that runs, and how far it is
  wizard,      \* the dialogue of submit
  index,       \* the resources the index has created
  told,        \* what the last command reported
  edits        \* how often the author has edited the project

project == <<toml, sources>>
vars == <<project, packages, submission, command, wizard, index, told, edits>>

Stems == {PackageFileStem(m.id) : m \in Manifests}

SomeManifest == CHOOSE m \in Manifests : TRUE

NoToml == [state |-> "absent", manifest |-> SomeManifest]
Unparsable == [state |-> "unparsable", manifest |-> SomeManifest]
TomlFile == [state : {"parsed"}, manifest : Manifests] \cup {NoToml, Unparsable}

Package == [state : {"absent", "torn", "whole"}, manifest : Manifests, code : 0 .. MaxEdits + 1]
NoPackage == [state |-> "absent", manifest |-> SomeManifest, code |-> 0]

Descriptor == [id : {"", "blank", "text"}, name : {m.name : m \in Manifests} \cup {""},
               version : {m.version : m \in Manifests} \cup {""}, summary : {"", "text"},
               tags : SUBSET (1 .. TagCount), artifacts : SUBSET Stems]
NoDescriptor == [id |-> "", name |-> "", version |-> "", summary |-> "",
                 tags |-> {}, artifacts |-> {}]
SubmissionFile == [state : {"absent", "torn", "whole"}, descriptor : Descriptor]

Resource == [descriptor : Descriptor, files : [Stems -> Package]]
NoFiles == [s \in Stems |-> NoPackage]

Idle == [name |-> "none", stage |-> "idle", manifest |-> SomeManifest,
         package |-> NoPackage, sent |-> [descriptor |-> NoDescriptor, files |-> NoFiles]]
Silent == [said |-> "nothing", package |-> NoPackage, id |-> 0]

Id(m) == IF m.id = <<>> THEN "" ELSE IF m.id = <<" ">> THEN "blank" ELSE "text"
Prefill(m) == [id |-> Id(m), name |-> m.name, version |-> m.version]
NoWizard == NewWizard(Prefill(SomeManifest))

PublishTypeOK ==
  /\ toml \in TomlFile
  /\ sources \in 0 .. MaxEdits + 1
  /\ packages \in [Stems -> Package]
  /\ submission \in SubmissionFile
  /\ command.name \in {"none", "build", "publish", "submit", "upload"}
  /\ command.stage \in {"idle", "building", "compiling", "writing", "sending", "dialogue",
                        "saving", "renaming", "reaching", "posting", "answering"}
  /\ command.manifest \in Manifests
  /\ command.package \in Package
  /\ command.sent \in Resource
  /\ wizard \in WizardState({Prefill(m) : m \in Manifests}, MaxSummary)
  /\ index \in Seq(Resource)
  /\ Len(index) <= MaxUploads
  /\ told.said \in {"nothing", "refused", "failed", "built", "published", "cancelled",
                    "submitted", "dry run", "uploaded"}
  /\ told.package \in Package
  /\ told.id \in 0 .. MaxUploads
  /\ edits \in 0 .. MaxEdits

Init ==
  /\ toml = NoToml
  /\ sources = 1
  /\ packages = NoFiles
  /\ submission = [state |-> "absent", descriptor |-> NoDescriptor]
  /\ command = Idle
  /\ wizard = NoWizard
  /\ index = <<>>
  /\ told = Silent
  /\ edits = 0

------------------------------------------------------------------------------

(* The author. *)
EditToml ==
  /\ edits < MaxEdits
  /\ \E t \in TomlFile : t # toml /\ toml' = t
  /\ edits' = edits + 1
  /\ UNCHANGED <<sources, packages, submission, command, wizard, index, told>>

EditSources ==
  /\ edits < MaxEdits
  /\ edits' = edits + 1
  /\ sources' \in {0, edits + 2}
  /\ UNCHANGED <<toml, packages, submission, command, wizard, index, told>>

ListArtifact ==
  /\ command.name = "none" /\ submission.state = "whole"
  /\ \E s \in Stems \ submission.descriptor.artifacts :
       submission' = [submission EXCEPT !.descriptor.artifacts = @ \cup {s}]
  /\ UNCHANGED <<project, packages, command, wizard, index, told, edits>>

------------------------------------------------------------------------------

Goto(stage) == command' = [command EXCEPT !.stage = stage]

End(report) == command' = Idle /\ told' = report

Start(name, stage) == [Idle EXCEPT !.name = name, !.stage = stage]

Says(what) == [Silent EXCEPT !.said = what]

Accepted(t) == t.state = "parsed" /\ Violations(t.manifest) = {}

(* build_with starts with the manifest. *)
Build ==
  /\ command.name = "none"
  /\ command' = Start("build", "building")
  /\ told' = Silent
  /\ UNCHANGED <<project, packages, submission, wizard, index, edits>>

(* publish_with reads and checks the manifest, then builds, which reads it *)
(* a second time.                                                          *)
Publish ==
  /\ command.name = "none"
  /\ IF Accepted(toml)
     THEN /\ command' = [Start("publish", "building") EXCEPT !.manifest = toml.manifest]
          /\ told' = Silent
     ELSE End(Says("refused"))
  /\ UNCHANGED <<project, packages, submission, wizard, index, edits>>

(* Slip: publish trusts its own check and the build takes what it finds. *)
AcceptedByThePublisher(t) == t.state = "parsed" /\ command.name = "publish"

AcceptedByTheBuild(t) == Accepted(t)

ReadForBuild ==
  /\ command.stage = "building"
  /\ IF AcceptedByTheBuild(toml)
     THEN /\ command' = [command EXCEPT !.stage = "compiling",
                                        !.package.manifest = toml.manifest]
          /\ UNCHANGED told
     ELSE End(Says("refused"))
  /\ UNCHANGED <<project, packages, submission, wizard, index, edits>>

(* The compiler may fail, or not be there; the file cannot be made, or it  *)
(* is emptied.                                                             *)
CompileSources ==
  /\ command.stage = "compiling"
  /\ \/ /\ sources # 0
        /\ command' = [command EXCEPT !.stage = "writing", !.package.code = sources,
                                      !.package.state = "whole"]
        /\ packages' = [packages EXCEPT
                          ![PackageFileStem(command.package.manifest.id)].state = "torn"]
        /\ UNCHANGED told
     \/ End(Says("failed")) /\ UNCHANGED packages
  /\ UNCHANGED <<project, submission, wizard, index, edits>>

WritePackage ==
  /\ command.stage = "writing"
  /\ packages' = [packages EXCEPT
                    ![PackageFileStem(command.package.manifest.id)] = command.package]
  /\ IF command.name = "publish" THEN Goto("sending") /\ UNCHANGED told
     ELSE End([Says("built") EXCEPT !.package = command.package])
  /\ UNCHANGED <<project, submission, wizard, index, edits>>

(* What was written so far stays. *)
FailToWritePackage ==
  /\ command.stage = "writing"
  /\ End(Says("failed"))
  /\ UNCHANGED <<project, packages, submission, wizard, index, edits>>

(* The client of the marketplace connects and sends nothing: the receipt   *)
(* names the id and the version that publish read.                         *)
SendToMarketplace ==
  /\ command.stage = "sending"
  /\ \/ End([Says("published") EXCEPT
               !.package = packages[PackageFileStem(command.package.manifest.id)]])
     \/ End(Says("failed"))
  /\ UNCHANGED <<project, packages, submission, wizard, index, edits>>

------------------------------------------------------------------------------

Submit ==
  /\ command.name = "none"
  /\ IF Accepted(toml)
     THEN /\ command' = Start("submit", "dialogue")
          /\ wizard' = NewWizard(Prefill(toml.manifest))
          /\ told' = Silent
     ELSE End(Says("refused")) /\ UNCHANGED wizard
  /\ UNCHANGED <<project, packages, submission, index, edits>>

PressKey(key) ==
  /\ command.stage = "dialogue"
  /\ key \in Characters => Len(wizard.summary) < MaxSummary
  /\ LET w == HandleKey(wizard, key)
     IN  CASE w.outcome = "continue" -> wizard' = w /\ UNCHANGED <<command, told>>
           [] w.outcome = "confirm" -> wizard' = w /\ Goto("saving") /\ UNCHANGED told
           [] w.outcome = "cancel" -> wizard' = NoWizard /\ End(Says("cancelled"))
  /\ UNCHANGED <<project, packages, submission, index, edits>>

(* write_submission_atomic: a temporary file, and its rename. *)
WriteTemporary ==
  /\ command.stage = "saving"
  /\ \/ Goto("renaming") /\ UNCHANGED <<wizard, told>>
     \/ End(Says("failed")) /\ wizard' = NoWizard
  /\ UNCHANGED <<project, packages, submission, index, edits>>

RenameTemporary ==
  /\ command.stage = "renaming"
  /\ \/ /\ submission' = [state |-> "whole", descriptor |-> BuildDescriptor(wizard)]
        /\ End(Says("submitted"))
     \/ End(Says("failed")) /\ UNCHANGED submission
  /\ wizard' = NoWizard
  /\ UNCHANGED <<project, packages, index, edits>>

------------------------------------------------------------------------------

(* collect_artifacts: every file the descriptor lists must be there. *)
AllAreThere(d) == \A s \in d.artifacts : packages[s].state # "absent"

Upload(configured) ==
  /\ command.name = "none"
  /\ IF submission.state = "whole" /\ AllAreThere(submission.descriptor)
     THEN IF configured
          THEN /\ command' =
                    [Start("upload", "reaching") EXCEPT
                       !.sent = [descriptor |-> submission.descriptor,
                                 files |-> [s \in Stems |->
                                              IF s \in submission.descriptor.artifacts
                                              THEN packages[s] ELSE NoPackage]]]
               /\ told' = Silent
          ELSE End(Says("dry run"))
     ELSE End(Says("refused"))
  /\ UNCHANGED <<project, packages, submission, wizard, index, edits>>

(* Any answer, an error as well, says that the index can be reached. *)
Reach ==
  /\ command.stage = "reaching"
  /\ \/ Goto("posting") /\ UNCHANGED told
     \/ End(Says("failed"))
  /\ UNCHANGED <<project, packages, submission, wizard, index, edits>>

(* The index stores what it receives, or answers with an error, or the     *)
(* request is lost.                                                        *)
Post ==
  /\ command.stage = "posting"
  /\ \/ /\ Len(index) < MaxUploads
        /\ index' = Append(index, command.sent)
        /\ Goto("answering")
        /\ UNCHANGED told
     \/ End(Says("failed")) /\ UNCHANGED index
  /\ UNCHANGED <<project, packages, submission, wizard, edits>>

(* The answer is read, or the 300 seconds are over, or it names nothing. *)
ReadAnswer ==
  /\ command.stage = "answering"
  /\ \/ End([Says("uploaded") EXCEPT !.id = Len(index)])
     \/ End(Says("failed"))
  /\ UNCHANGED <<project, packages, submission, wizard, index, edits>>

(* The process is killed.  What it was writing stays as it is; a temporary *)
(* submission file stays under a name that nobody reads.                   *)
Kill ==
  /\ command.name # "none"
  /\ wizard' = NoWizard
  /\ End(Says("nothing"))
  /\ UNCHANGED <<project, packages, submission, index, edits>>

------------------------------------------------------------------------------

Next ==
  \/ EditToml \/ EditSources \/ ListArtifact
  \/ Build \/ Publish \/ ReadForBuild \/ CompileSources \/ WritePackage
  \/ FailToWritePackage \/ SendToMarketplace
  \/ Submit \/ (\E key \in WizardKeys : PressKey(key))
  \/ WriteTemporary \/ RenameTemporary
  \/ (\E configured \in BOOLEAN : Upload(configured))
  \/ Reach \/ Post \/ ReadAnswer \/ Kill

Spec == Init /\ [][Next]_vars

(* Whatever is edited while publish runs, a whole package holds a manifest *)
(* without violations, under the name its id gives it, and code; and what  *)
(* a command reports as built or published is such a package.              *)
PackagesAreValid ==
  LET Valid(p) == Violations(p.manifest) = {} /\ p.code # 0
  IN  /\ \A s \in Stems : packages[s].state = "whole" =>
           Valid(packages[s]) /\ PackageFileStem(packages[s].manifest.id) = s
      /\ told.said \in {"built", "published"} =>
           told.package.state = "whole" /\ Valid(told.package)

(* submission.toml is never cut off, whenever the wizard is killed, and    *)
(* never lacks a field the index requires.                                 *)
SubmissionIsComplete ==
  /\ submission.state # "torn"
  /\ submission.state = "whole" => MissingRequired(submission.descriptor) = {}

(* A resource of the index carries every file its descriptor lists and no  *)
(* other, and an id that was reported is that of the resource last stored. *)
ResourcesCarryWhatTheyList ==
  /\ \A i \in DOMAIN index : \A s \in Stems :
       s \in index[i].descriptor.artifacts <=> index[i].files[s].state # "absent"
  /\ told.said = "uploaded" => told.id \in DOMAIN index

(* From the dialogue to the index: nothing incomplete is saved, and        *)
(* nothing is stored that was not.                                         *)
SubmissionsAreComplete == SubmissionIsComplete /\ ResourcesCarryWhatTheyList
==============================================================================
