----------------------------- MODULE ModManifest -----------------------------
(***************************************************************************)
(* pulse.toml as the command line reads it (cli/src/manifest.rs): versions *)
(* and version constraints, and the validation that collects every field   *)
(* that breaks the schema.  TOML itself, and the wording of a message, are *)
(* left out: a violation is the path of its field.                         *)
(***************************************************************************)
EXTENDS Integers, Sequences, SequencesExt

CONSTANT MaxIdLength   \* the longest id that is accepted, 256 in the code

ASSUME ModManifestAssumption == MaxIdLength \in Nat \ {0}

(* A version is the list of its dotted fields; NaN is a field that is not  *)
(* a number of 32 bits.                                                    *)
NaN == -1

Version == [major : Nat, minor : Nat, patch : Nat]
NoVersion == [major |-> NaN, minor |-> NaN, patch |-> NaN]

SemVerOf(fields) ==
  IF Len(fields) = 3 /\ \A i \in 1 .. 3 : fields[i] # NaN
  THEN [major |-> fields[1], minor |-> fields[2], patch |-> fields[3]]
  ELSE NoVersion

(* A constraint is written as words: an operator (bare when there is none) *)
(* and a version.  A later word overrides an earlier one, and > reads as   *)
(* >=.                                                                     *)
NoConstraint == [min |-> NoVersion, maxExclusive |-> NoVersion]

LastVersion(words, ops) ==
  LET w == SelectSeq(words, LAMBDA x : x.op \in ops)
  IN  IF w = <<>> THEN NoVersion ELSE SemVerOf(Last(w).version)

ConstraintOf(words) ==
  LET c == [min |-> LastVersion(words, {">=", ">", "bare"}),
            maxExclusive |-> LastVersion(words, {"<"})]
  IN  IF \/ c.min = NoVersion
         \/ \E w \in ToSet(words) : SemVerOf(w.version) = NoVersion
      THEN NoConstraint
      ELSE c

FieldsOf(v) == <<v.major, v.minor, v.patch>>

ShowConstraint(c) ==
  <<[op |-> ">=", version |-> FieldsOf(c.min)]>>
    \o IF c.maxExclusive = NoVersion THEN <<>>
       ELSE <<[op |-> "<", version |-> FieldsOf(c.maxExclusive)]>>

(* A manifest: its id as a list of characters, the rest as the code's own  *)
(* structures with words for what is only compared.                        *)
IsManifest(m) ==
  /\ m.schemaVersion \in Int
  /\ m.id \in Seq(STRING)
  /\ m.name \in STRING
  /\ m.version \in STRING
  /\ m.type \in {"native", "script"}
  /\ \A e \in ToSet(m.entryPoints) : DOMAIN e = {"kind", "symbol"}
  /\ m.dependencies \in Seq(STRING)
  /\ m.permissions \in Seq(STRING)
  /\ \A s \in ToSet(m.settings) : DOMAIN s = {"name", "type", "default"}

RecognizedPermissions == {"network", "filesystem", "hooking", "ui", "events"}
RecognizedSettingTypes == {"int", "float", "bool", "string"}

(* A default is known by the kind of its value. *)
SettingDefaultMatches(s) == s.default = s.type

SettingViolations(i, s) ==
     {f \in {<<"settings", i, "name">>} : s.name = ""}
     \cup IF s.type \notin RecognizedSettingTypes THEN {<<"settings", i, "type">>}
          ELSE {f \in {<<"settings", i, "default">>} : ~SettingDefaultMatches(s)}

EntryViolations(m) ==
  IF m.entryPoints = <<>> THEN {<<"entry_points">>}
  ELSE {<<"entry_points", p[1], p[2]>> :
          p \in {q \in (DOMAIN m.entryPoints) \X {"kind", "symbol"} :
                   m.entryPoints[q[1]][q[2]] = ""}}

Violations(m) ==
  {f \in {<<"schema_version">>} : m.schemaVersion < 1}
  \cup {f \in {<<"mod.id">>} : Len(m.id) \notin 1 .. MaxIdLength}
  \cup EntryViolations(m)
  \cup {<<"dependencies", i>> : i \in {j \in DOMAIN m.dependencies : m.dependencies[j] = ""}}
  \cup {<<"permissions", i>> :
          i \in {j \in DOMAIN m.permissions : m.permissions[j] \notin RecognizedPermissions}}
  \cup UNION {SettingViolations(i, m.settings[i]) : i \in DOMAIN m.settings}

(* The name of a package: every character that is not a letter, a digit,   *)
(* ".", "-" or "_" becomes "_" (builder.rs).                               *)
SafeCharacters == {"a", "b", ".", "-", "_"}

PackageFileStem(id) ==
  IF id = <<>> THEN <<"mod">>
  ELSE [i \in DOMAIN id |-> IF id[i] \in SafeCharacters THEN id[i] ELSE "_"]
==============================================================================
