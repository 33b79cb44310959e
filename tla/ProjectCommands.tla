---------------------------- MODULE ProjectCommands ----------------------------
(***************************************************************************)
(* The commands of a project and of the machine, each on its own: a        *)
(* behaviour is one of "publish" (ModPublish), "menu" (CommandMenu),       *)
(* "doctor" (DoctorRun), or one evaluation, "patch" (MachO) or "package"   *)
(* (ModBuild).  The variables of the others stay as they were.             *)
(***************************************************************************)
EXTENDS ModPublish

CONSTANTS
  MaxText,      \* bound: how long a text is typed into a form
  CommandSize,  \* the units of the load command that is added
  PatchJobs,    \* the executables that are patched
  PackageJobs   \* the projects that are built

VARIABLES
  part,                                                          \* which of them
  raw, alternate, stage, guard, row, help, toast, prompt, ran,   \* CommandMenu
  environment, asked, threads, channel, items,                   \* DoctorRun
  job, checked                                                   \* the input, and its verdict

Menu == INSTANCE CommandMenu
Doctor == INSTANCE DoctorRun
Macho == INSTANCE MachO
Packager == INSTANCE ModBuild

menuVars == <<raw, alternate, stage, guard, row, help, toast, prompt, ran>>
doctorVars == <<environment, asked, threads, channel, items>>
projectVars == <<vars, part, menuVars, doctorVars, job, checked>>

ASSUME ProjectCommandsAssumption ==
  /\ CommandSize \in Nat \ {0}
  /\ \A file \in PatchJobs : Macho!IsExecutable(file)

NoJob == [word |-> "none", images |-> <<>>]

------------------------------------------------------------------------------

ProjectInit ==
  /\ part \in {"publish", "menu", "doctor", "patch", "package"}
  /\ Init
  /\ Menu!Init
  /\ IF part = "doctor" THEN Doctor!DoctorInit
     ELSE /\ environment = CHOOSE e \in Doctor!Environment : TRUE
          /\ asked = 0 /\ items = <<>>
          /\ threads = [c \in Doctor!Checks |-> "none"]
          /\ channel = [c \in Doctor!Checks |-> "empty"]
  /\ job \in CASE part = "patch" -> PatchJobs [] part = "package" -> PackageJobs
               [] OTHER -> {NoJob}
  /\ checked = "not yet"

Verdict(ok) == checked' = IF ok THEN "sound" ELSE "unsound"

RunJob ==
  /\ checked = "not yet"
  /\ \/ part = "patch" /\ Verdict(Macho!PatchIsSafe(job))
     \/ part = "package" /\ Verdict(Packager!PackageIsSealed(job))
  /\ UNCHANGED <<vars, part, menuVars, doctorVars, job>>

ProjectNext ==
  \/ part = "publish" /\ Next
       /\ UNCHANGED <<part, menuVars, doctorVars, job, checked>>
  \/ part = "menu" /\ Menu!MenuNext
       /\ UNCHANGED <<vars, part, doctorVars, job, checked>>
  \/ part = "doctor" /\ Doctor!DoctorNext
       /\ UNCHANGED <<vars, part, menuVars, job, checked>>
  \/ RunJob

ProjectSpec == ProjectInit /\ [][ProjectNext]_projectVars

------------------------------------------------------------------------------

(* Every command keeps its types. *)
ProjectTypeOK == PublishTypeOK /\ Menu!MenuTypeOK /\ Doctor!DoctorTypeOK

(* The terminal and the forms of the menu (TerminalIsHandedOver and        *)
(* RunsOnlyFilledForms of CommandMenu).                                    *)
MenuIsWellBehaved == Menu!TerminalIsHandedOver /\ Menu!RunsOnlyFilledForms

(* The report of pulse doctor (DoctorIsHonest of DoctorRun). *)
DoctorIsHonest == Doctor!DoctorIsHonest

(* Every executable that is patched and every package that is built is     *)
(* sound (PatchIsSafe of MachO, PackageIsSealed of ModBuild).              *)
PatchesAndPackagesAreSound == checked # "unsound"
==============================================================================
