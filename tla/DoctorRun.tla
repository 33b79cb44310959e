------------------------------- MODULE DoctorRun -------------------------------
(***************************************************************************)
(* pulse doctor (cli/src/doctor): three checks, one after the other, each  *)
(* on a thread of its own that the report waits for up to CHECK_TIMEOUT.   *)
(* A thread that is late is not stopped: its answer goes nowhere.          *)
(*                                                                         *)
(* The environment is what the checks look at: the game, the compiler that *)
(* discover_toolchain finds, the variable CXX, the toolchain files.        *)
(***************************************************************************)
EXTENDS Naturals, Sequences, FiniteSets

VARIABLES
  environment, \* what there is to be found
  asked,       \* how many checks were started
  threads,     \* per check: its thread
  channel,     \* per check: the answer that was sent
  items        \* the report so far

doctorVars == <<environment, asked, threads, channel, items>>

Checks == 1 .. 3   \* default_registry: gd-version, cpp-toolchain, toolchain-config

Environment ==
  [game : {"absent", "unknown", "found"},
   compiler : {"absent", "unknown", "old", "ideal"},
   cxx : {"unset", "resolved", "unresolved"},
   toolchainFiles : BOOLEAN]

(* The answers of the three checks.  discover_toolchain passes over a CXX  *)
(* that names nothing, so the second check may be content with another     *)
(* compiler; the third tells.                                              *)
GdVersion(e) ==
  CASE e.game = "absent" -> "problema" [] e.game = "unknown" -> "warning" [] OTHER -> "ok"

CppToolchain(e) ==
  CASE e.compiler = "absent" -> "problema" [] e.compiler = "ideal" -> "ok" [] OTHER -> "warning"

ToolchainConfig(e) ==
  IF e.cxx = "unresolved" \/ ~e.toolchainFiles THEN "warning" ELSE "ok"

RunCheck(c) ==
  CASE c = 1 -> GdVersion(environment) [] c = 2 -> CppToolchain(environment)
    [] OTHER -> ToolchainConfig(environment)

Outcomes == {"ok", "warning", "problema"}

DoctorTypeOK ==
  /\ environment \in Environment
  /\ asked \in 0 .. 3
  /\ threads \in [Checks -> {"none", "working", "ended"}]
  /\ channel \in [Checks -> {"empty"} \cup Outcomes]
  /\ items \in UNION {[1 .. n -> [outcome : Outcomes, late : BOOLEAN]] : n \in 0 .. 3}

DoctorInit ==
  /\ environment \in Environment
  /\ asked = 0 /\ items = <<>>
  /\ threads = [c \in Checks |-> "none"]
  /\ channel = [c \in Checks |-> "empty"]

(* run_all starts the next check when the one before has an item. *)
Ask ==
  /\ asked = Len(items) /\ asked < 3
  /\ asked' = asked + 1
  /\ threads' = [threads EXCEPT ![asked + 1] = "working"]
  /\ UNCHANGED <<environment, channel, items>>

(* The work of a thread ends, in time or not.  It may also hang for ever:  *)
(* a compiler that does not return from --version.                         *)
Answer(c) ==
  /\ threads[c] = "working"
  /\ threads' = [threads EXCEPT ![c] = "ended"]
  /\ channel' = [channel EXCEPT ![c] = RunCheck(c)]
  /\ UNCHANGED <<environment, asked, items>>

(* recv_timeout. *)
Receive ==
  /\ asked = Len(items) + 1
  /\ channel[asked] # "empty"
  /\ items' = Append(items, [outcome |-> channel[asked], late |-> FALSE])
  /\ UNCHANGED <<environment, asked, threads, channel>>

(* Slip: a check that does not answer is passed over as if it were         *)
(* content.                                                                *)
Forgiving == "ok"

WhenLate == "problema"

TimeOut ==
  /\ asked = Len(items) + 1
  /\ channel[asked] = "empty"
  /\ items' = Append(items, [outcome |-> WhenLate, late |-> TRUE])
  /\ UNCHANGED <<environment, asked, threads, channel>>

DoctorNext == Ask \/ (\E c \in Checks : Answer(c)) \/ Receive \/ TimeOut

(* The report, once it is whole. *)
Ready(report) == \A i \in DOMAIN report : report[i].outcome = "ok"
ExitCode(report) == IF \E i \in DOMAIN report : report[i].outcome = "problema" THEN 1 ELSE 0

(* Whichever check hangs or answers late, the report that is printed has   *)
(* an item for each of them, and never says more than is true: an          *)
(* environment that is called ready has the game and an ideal compiler;    *)
(* one with exit code 0 has a compiler and the game; and exit code 1 means *)
(* that something is missing, or that a check was late.                    *)
DoctorIsHonest ==
  Len(items) = 3 =>
    /\ Ready(items) => /\ environment.game = "found" /\ environment.compiler = "ideal"
                       /\ environment.cxx # "unresolved" /\ environment.toolchainFiles
    /\ ExitCode(items) = 0 => environment.game # "absent" /\ environment.compiler # "absent"
    /\ ExitCode(items) = 1 <=> \/ environment.game = "absent" \/ environment.compiler = "absent"
                               \/ \E i \in DOMAIN items : items[i].late
==============================================================================
