------------------------------- MODULE ModBuild -------------------------------
(***************************************************************************)
(* What pulse build computes (cli/src/native_compiler.rs and builder.rs):  *)
(* the compiler it runs and how, the files it takes from the project, the  *)
(* entries of the package and the digests it lists.                        *)
(*                                                                         *)
(* A file is a record [path, extension, bytes]; a directory is the set of  *)
(* the files below it, whose paths are compared by <.  A digest is the     *)
(* bytes it was computed from.                                             *)
(***************************************************************************)
EXTENDS Naturals, Sequences, SequencesExt, FiniteSets, FiniteSetsExt

(* The platforms, and the name of the one module a native mod is built to. *)
Host(os, arch) ==
  CASE os = "macos" /\ arch = "aarch64" -> "MacosArm64"
    [] os = "macos" /\ arch # "aarch64" -> "MacosX64"
    [] os = "windows" -> "WindowsX64"
    [] os = "android" /\ arch = "aarch64" -> "AndroidArm64"
    [] os = "android" /\ arch # "aarch64" -> "AndroidArmv7"
    [] os = "linux" /\ arch = "aarch64" -> "LinuxArm64"
    [] OTHER -> "LinuxX64"

NoProgram == [dir |-> 0, file |-> "none"]

(* The machine: path is the directories of PATH, each a set of programs;   *)
(* files the programs a path with a slash names; cxx the variable CXX, ""  *)
(* when it is unset or blank.                                              *)
Spellings(machine, name) ==
  IF machine.os = "windows" THEN <<name, name \o ".exe", name \o ".bat", name \o ".cmd">>
  ELSE <<name>>

FindInPath(machine, name) ==
  LET s == Spellings(machine, name)
      hits == {d \in DOMAIN machine.path : machine.path[d] \cap ToSet(s) # {}}
  IN  IF hits = {} THEN NoProgram
      ELSE LET d == Min(hits)
           IN  [dir |-> d, file |-> SelectSeq(s, LAMBDA f : f \in machine.path[d])[1]]

Slashed == {"/opt/g++", "/opt/cl.exe"}

ResolveProgram(machine, value) ==
  IF value \notin Slashed THEN FindInPath(machine, value)
  ELSE IF value \in machine.files THEN [dir |-> 0, file |-> value] ELSE NoProgram

KindForName(name) ==
  IF name \in {"cl", "cl.exe", "/opt/cl.exe", "clang-cl", "clang-cl.exe"} THEN "Msvc" ELSE "Clang"

Candidates(target) ==
  CASE target = "WindowsX64" -> <<"clang++", "clang-cl", "cl">>
    [] target \in {"AndroidArm64", "AndroidArmv7"} -> <<"clang++">>
    [] OTHER -> <<"clang++", "c++", "g++">>

(* CXX when it names a program that is there, else the first candidate     *)
(* that is: a CXX that names nothing is passed over in silence.            *)
DiscoverToolchain(machine, target) ==
  LET asked == IF machine.cxx = "" THEN NoProgram ELSE ResolveProgram(machine, machine.cxx)
      found == SelectSeq(Candidates(target), LAMBDA c : FindInPath(machine, c) # NoProgram)
  IN  CASE asked # NoProgram ->
             [program |-> asked, kind |-> KindForName(machine.cxx)]
        [] asked = NoProgram /\ found # <<>> ->
             [program |-> FindInPath(machine, found[1]), kind |-> KindForName(found[1])]
        [] OTHER -> [program |-> NoProgram, kind |-> "none"]

SdkIncludeDir(variable) == IF variable = "" THEN "../sdk/include" ELSE variable

(* The words the compiler is run with. *)
CommandLine(kind, sources, include, out) ==
  IF kind = "Clang"
  THEN <<"-shared", "-fPIC", "-I", include>> \o sources \o <<"-o", out>>
  ELSE <<"/LD", "/I", include>> \o sources \o <<"/Fe:", out>>

NativeSourceExts == {"cpp", "cc", "cxx", "c", "mm", "m"}

Ordered(files) == SetToSortSeq(files, LAMBDA f, g : f.path < g.path)

CollectFiles(dir) == Ordered(dir)
CollectNativeSources(dir) == Ordered({f \in dir : f.extension \in NativeSourceExts})

(* The modules of a mod, or none: a script is packaged as it is, a native  *)
(* mod is what the compiler makes of its sources, if it makes anything.    *)
Compile(type, dir, toolchain, succeeds) ==
  CASE type = "script" -> CollectFiles(dir)
    [] type = "native" /\ toolchain.kind # "none" /\ CollectNativeSources(dir) # <<>>
         /\ succeeds -> LET sources == CollectNativeSources(dir)
                        IN  <<[path |-> 0, extension |-> "module",
                               bytes |-> FlattenSeq([i \in DOMAIN sources |-> sources[i].bytes])]>>
    [] OTHER -> <<>>

(* Both streams of the compiler, without blank lines; never nothing. *)
ParseDiagnostics(stderr, stdout) ==
  LET lines == SelectSeq(stderr \o stdout, LAMBDA l : l # "")
  IN  IF lines = <<>> THEN <<"failed without diagnostics">> ELSE lines

PackageEntry(dir, f) == [name |-> <<dir, f.path>>, bytes |-> f.bytes]

Contents(toml, modules, resources) ==
  <<[name |-> <<"pulse.toml">>, bytes |-> toml]>>
    \o [i \in DOMAIN modules |-> PackageEntry("code", modules[i])]
    \o [i \in DOMAIN resources |-> PackageEntry("resources", resources[i])]

ComputeIntegrity(entries) ==
  [n \in {e.name : e \in ToSet(entries)} |->
     (CHOOSE e \in ToSet(entries) : e.name = n).bytes]

PackageEntries(toml, modules, resources) ==
  LET entries == Contents(toml, modules, resources)
  IN  entries \o <<[name |-> <<"MANIFEST.sha256">>, bytes |-> ComputeIntegrity(entries)]>>

------------------------------------------------------------------------------

(* A build of a project: its type, its sources and resources, the machine  *)
(* it is built on, and whether the compiler is content.                    *)
Cl == {"cl", "cl.exe", "/opt/cl.exe", "clang-cl", "clang-cl.exe"}

(* Whatever is on the machine and in the project, a package holds every    *)
(* file under a name of its own, its last entry gives the digest of all    *)
(* the others and of nothing else, a native module is made of all native   *)
(* sources and of no other file, and the compiler that is run exists and   *)
(* is given the words of its own kind.                                     *)
PackageIsSealed(b) ==
  LET toolchain == DiscoverToolchain(b.machine, Host(b.machine.os, b.machine.arch))
      modules == Compile(b.type, b.sources, toolchain, b.succeeds)
      entries == PackageEntries(<<"toml">>, modules, CollectFiles(b.resources))
      files == Front(entries)
      native == {f \in b.sources : f.extension \in NativeSourceExts}
  IN  /\ Last(entries).name = <<"MANIFEST.sha256">>
      /\ \A i, j \in DOMAIN files : files[i].name = files[j].name => i = j
      /\ DOMAIN Last(entries).bytes = {files[i].name : i \in DOMAIN files}
      /\ \A i \in DOMAIN files : Last(entries).bytes[files[i].name] = files[i].bytes
      /\ Len(files) = 1 + Cardinality(b.resources) + Len(modules)
      /\ b.type = "native" /\ modules # <<>> =>
           ToSet(modules[1].bytes) = UNION {ToSet(f.bytes) : f \in native}
      /\ toolchain.kind # "none" =>
           /\ toolchain.program.dir # 0 =>
                toolchain.program.file \in b.machine.path[toolchain.program.dir]
           /\ CommandLine(toolchain.kind, <<"source">>, SdkIncludeDir(""), "out")[1] = "/LD"
                <=> toolchain.program.file \in Cl
==============================================================================
