---------------------------- MODULE ByteSignatures ----------------------------
(***************************************************************************)
(* pulse siggen and pulse check-offsets (cli/src/siggen, checkoffsets.rs): *)
(* a pattern of bytes is made of the code at an offset of the game, kept   *)
(* in pulse.toml, and looked for in later builds of the game.              *)
(*                                                                         *)
(* An arm64 instruction is two units here, its three low bytes and its top *)
(* byte; an x86-64 instruction is one unit or two.  A build is the units   *)
(* of its instructions, each written by Encode; what siggen sees is only   *)
(* the units.  An instruction is [kind, field, top]: a "plain" one, or one *)
(* with a field that the linker fills in.  A "branch" holds how far its    *)
(* target is, an "address" how far the thing is it names (adr, adrp; an    *)
(* operand relative to rip), and a "page" where a thing is in its page     *)
(* (the low 12 bits that an add or an ldr adds to an adrp).  The top byte  *)
(* of an arm64 instruction is its opcode and some bits of the field: the   *)
(* sign of a branch, the lowest bits of an address.  A branch with all of  *)
(* its field in the low bytes (b.cond, cbz), and a load of a literal, are  *)
(* branches whose top never changes.                                       *)
(***************************************************************************)
EXTENDS Integers, Sequences, FiniteSets, FiniteSetsExt

CONSTANTS
  LastField,       \* bound: the values of a field are 0 .. LastField
  FirstBuilds,     \* the code of the game before any update
  Insertions,      \* what an update may put before it
  MaxUpdates,      \* bound: how many updates of the game there are
  MaxWindowUnits   \* MAX_WINDOW_BYTES

VARIABLES
  arch,       \* the architecture of the game
  program,    \* the instructions of the installed build
  function,   \* which instruction the function starts with
  declared,   \* the declaration in pulse.toml: [offset, signature]
  built,      \* history: the build that the declaration was made of
  verdict,    \* what check-offsets said last
  updates     \* how many updates there were

siggenVars == <<arch, program, function, declared, built, verdict, updates>>

Fields == 0 .. LastField
Kinds == {"data", "plain", "branch", "address", "page"}
Linked == {"branch", "address", "page"}
Instruction == [kind : Kinds, field : Fields, top : 0 .. 1]

ASSUME ByteSignaturesAssumption ==
  /\ LastField \in Nat /\ MaxUpdates \in Nat /\ MaxWindowUnits \in Nat
  /\ FirstBuilds \subseteq Seq(Instruction) /\ Insertions \subseteq Seq(Instruction)

(* The codes of the opcodes: data is no instruction at all. *)
Opcode(kind) ==
  CASE kind = "data" -> 0 [] kind = "plain" -> 1 [] kind = "branch" -> 2
    [] kind = "address" -> 3 [] kind = "page" -> 4

Encode(a, i) ==
  IF a = "arm64" THEN <<i.field, 2 * Opcode(i.kind) + i.top>>
  ELSE IF i.kind \in Linked THEN <<10 + Opcode(i.kind), i.field>> ELSE <<10 + Opcode(i.kind)>>

(* The units of the first k instructions, for every k. *)
CodeUpTo(a, p) ==
  LET code[k \in 0 .. Len(p)] == IF k = 0 THEN <<>> ELSE code[k - 1] \o Encode(a, p[k])
  IN  code

Units(a, p) == CodeUpTo(a, p)[Len(p)]

OffsetOf(a, p, k) == Len(CodeUpTo(a, p)[k - 1])

------------------------------------------------------------------------------

Wildcard == -1
Unmaskable == <<>>

(* mask_window_arm64: the low bytes of an instruction with an operand      *)
(* relative to its place are wild, those of a branch or an address.        *)
MaskWindowArm64(window) ==
  IF Len(window) % 2 # 0 \/ \E k \in DOMAIN window : k % 2 = 0 /\ window[k] \div 2 \notin 1 .. 4
  THEN Unmaskable
  ELSE [k \in DOMAIN window |->
          IF k % 2 = 1 /\ window[k + 1] \div 2 \in {2, 3} THEN Wildcard ELSE window[k]]

(* A unit of x86-64 code is a tail when the one before it opens a longer   *)
(* instruction.                                                            *)
Tails(window) ==
  LET tail[k \in 0 .. Len(window)] == k > 1 /\ window[k - 1] \in 12 .. 14 /\ ~tail[k - 1]
  IN  tail

(* mask_window_x86_64: a whole number of instructions, or nothing.  Only   *)
(* the tail of a branch is wild (x86_is_relative_branch).                  *)
MaskWindowX86(window) ==
  LET tail == Tails(window)
  IN  IF /\ \A k \in DOMAIN window : tail[k] \/ window[k] \in 11 .. 14
         /\ window # <<>> => tail[Len(window)] \/ window[Len(window)] \notin 12 .. 14
      THEN [k \in DOMAIN window |->
              IF tail[k] /\ window[k - 1] = 12 THEN Wildcard ELSE window[k]]
      ELSE Unmaskable

(* Slip: nothing is wild. *)
MaskNothing(window, a) == window

MaskWindow(window, a) ==
  IF a = "arm64" THEN MaskWindowArm64(window) ELSE MaskWindowX86(window)

WindowMatches(window, pattern) ==
  \A k \in DOMAIN pattern : pattern[k] \in {Wildcard, window[k]}

ScanAll(binary, pattern) ==
  IF pattern = <<>> THEN {}
  ELSE {o \in 0 .. Len(binary) - Len(pattern) :
          WindowMatches(SubSeq(binary, o + 1, o + Len(pattern)), pattern)}

NoSignature == <<>>

(* generate: the shortest window whose pattern is found at the offset and  *)
(* nowhere else; arm64 windows grow by an instruction, others by a unit.   *)
GenerateSignature(binary, a, offset) ==
  LET Pattern(n) == MaskWindow(SubSeq(binary, offset + 1, offset + n), a)
      lengths == {n \in 1 .. Min({Len(binary) - offset, MaxWindowUnits}) :
                    /\ a = "arm64" => n % 2 = 0
                    /\ ScanAll(binary, Pattern(n)) = {offset}}
  IN  IF lengths = {} THEN NoSignature ELSE Pattern(Min(lengths))

(* classify, of an offset that can be read as a number. *)
Classify(binary, d) ==
  LET matches == ScanAll(binary, d.signature)
  IN  CASE d.signature = NoSignature -> [is |-> "undeterminable", at |-> d.offset]
        [] d.signature # NoSignature /\ d.offset \in matches -> [is |-> "valid", at |-> d.offset]
        [] d.signature # NoSignature /\ matches = {} -> [is |-> "invalid", at |-> d.offset]
        [] d.signature # NoSignature /\ d.offset \notin matches /\ Cardinality(matches) = 1 ->
             [is |-> "shifted", at |-> CHOOSE o \in matches : TRUE]
        [] OTHER -> [is |-> "undeterminable", at |-> d.offset]

------------------------------------------------------------------------------

NotDeclared == [offset |-> 0, signature |-> NoSignature]
Unchecked == [is |-> "unchecked", at |-> 0]

SiggenTypeOK ==
  /\ arch \in {"arm64", "x86-64"}
  /\ program \in Seq(Instruction) /\ built \in Seq(Instruction)
  /\ function \in DOMAIN program
  /\ declared.offset \in 0 .. Len(Units(arch, built))
  /\ \A k \in DOMAIN declared.signature : declared.signature[k] \in {Wildcard} \cup Nat
  /\ verdict.is \in {"unchecked", "valid", "shifted", "invalid", "undeterminable"}
  /\ updates \in 0 .. MaxUpdates

SiggenInit ==
  /\ arch \in {"arm64", "x86-64"}
  /\ program \in FirstBuilds /\ built = program
  /\ function \in {k \in DOMAIN program : \A j \in k .. Len(program) : program[j].kind # "data"}
  /\ declared = NotDeclared /\ verdict = Unchecked /\ updates = 0

(* run_siggen prints a signature, or fails; the author copies it. *)
RunSiggen ==
  LET offset == OffsetOf(arch, program, function)
      signature == GenerateSignature(Units(arch, program), arch, offset)
  IN  /\ signature # NoSignature
      /\ declared' = [offset |-> offset, signature |-> signature]
      /\ built' = program
      /\ verdict' = Unchecked
      /\ UNCHANGED <<arch, program, function, updates>>

(* What the linker may make of an instruction: its field is another one.   *)
(* The field of a page has no bits in the top byte.                        *)
LinkedAnew(i) ==
  IF i.kind \notin Linked THEN {i}
  ELSE [kind : {i.kind}, field : Fields, top : IF i.kind = "page" THEN {i.top} ELSE 0 .. 1]

(* A new build of the game: something may have been put before the code,   *)
(* and every field that the linker fills in may be another one.            *)
Relink ==
  /\ declared # NotDeclared /\ updates < MaxUpdates
  /\ \E before \in Insertions \cup {<<>>} :
     \E code \in [DOMAIN program -> Instruction] :
        /\ \A k \in DOMAIN program : code[k] \in LinkedAnew(program[k])
        /\ program' = before \o code
        /\ function' = function + Len(before)
  /\ updates' = updates + 1
  /\ verdict' = Unchecked
  /\ UNCHANGED <<arch, declared, built>>

RunCheckOffsets ==
  /\ verdict = Unchecked
  /\ verdict' = Classify(Units(arch, program), declared)
  /\ UNCHANGED <<arch, program, function, declared, built, updates>>

SiggenNext == RunSiggen \/ Relink \/ RunCheckOffsets

SiggenSpec == SiggenInit /\ [][SiggenNext]_siggenVars

------------------------------------------------------------------------------

(* How far the code has moved since the declaration, in instructions. *)
Shift == Len(program) - Len(built)

(* i was linked anew as j without a change to a bit that must stay: a      *)
(* branch has not turned round, an address on arm64 has its lowest bits,   *)
(* and an address on x86-64 and a page are what they were.                 *)
Steady(a, i, j) ==
  CASE i.kind = "branch" -> a = "arm64" => j.top = i.top
    [] i.kind = "address" -> IF a = "arm64" THEN j.top = i.top ELSE j.field = i.field
    [] OTHER -> j = i

(* The instructions of the declared signature, in the build it is of. *)
SignedCode ==
  LET first == OffsetOf(arch, built, function - Shift)
  IN  {k \in DOMAIN built : /\ k >= function - Shift
                            /\ OffsetOf(arch, built, k) < first + Len(declared.signature)}

(* A signature that siggen printed is valid in the build it is from.  It   *)
(* finds its function after any number of updates, whatever they put       *)
(* before the code and however they link the rest of it, as long as the    *)
(* instructions it covers are steady: the verdict is never invalid, and a  *)
(* shift that is reported is the one there was.                            *)
SteadyCodeIsFound ==
  declared # NotDeclared /\ verdict # Unchecked =>
    /\ program = built => verdict.is = "valid"
    /\ (\A k \in SignedCode : Steady(arch, built[k], program[k + Shift])) =>
         /\ verdict.is # "invalid"
         /\ verdict.is = "shifted" => verdict.at = OffsetOf(arch, program, function)

(* The documentation of mask.rs says that the three low bytes of an arm64  *)
(* instruction carry the bits of its offset, so that the fields that       *)
(* change when code is relocated are wild (mask.rs:5-9 and 25-28): where   *)
(* only such offsets change, the function is found in every later build.   *)
RelinkedCodeIsFound ==
  /\ arch = "arm64" /\ declared # NotDeclared
  /\ \A k \in DOMAIN built : built[k].kind = "page" => program[k + Shift] = built[k]
  => verdict.is # "invalid"
==============================================================================
