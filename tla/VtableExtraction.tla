--------------------------- MODULE VtableExtraction ---------------------------
(***************************************************************************)
(* How `pulse bindings extract` finds the address of a method in a build   *)
(* that has no names (cli/src/extract): the vtables of the Android library *)
(* give every named method its place, and the method at the same place of  *)
(* the vtable of the same class, in the Mach-O or PE file, is taken to be  *)
(* the method.                                                             *)
(*                                                                         *)
(* A binary is a record:                                                   *)
(*   sections  a set of [base, end, code]                                  *)
(*   words     the pointers of its data, by address (a pointer is one unit *)
(*             wide); 0 is the null pointer                                *)
(*   symbols   a sequence of [kind, class, address, size]: what the symbol *)
(*             table still names                                           *)
(*   names     the class whose type name is stored at an address           *)
(*   relocs    the pointers the loader fills in, by address                *)
(*   locators  the MSVC object locators: [address, self, class]            *)
(*   heads     what the instructions at an address are: "plausible",       *)
(*             "return", "trap", "illegal"                                 *)
(* Reading the file and its names is the work of the crates object and     *)
(* cpp_demangle.                                                           *)
(***************************************************************************)
EXTENDS Integers, Sequences, FiniteSets, FiniteSetsExt

CONSTANTS Sentinel,      \* SENTINEL_VALUE
          Unbounded,     \* u64::MAX
          MaxSlots,      \* MAX_VTABLE_SLOTS
          PrologueWindow \* PROLOGUE_WINDOW_LEN, in units

Readable(b, a) == a \in DOMAIN b.words

InCode(b, a) == \E s \in b.sections : s.code /\ s.base <= a /\ a < s.end

SectionEnd(b, a) ==
  LET at == {s \in b.sections : s.base <= a /\ a < s.end}
  IN  IF at = {} THEN Unbounded ELSE (CHOOSE s \in at : TRUE).end

(* Where the table at start must end: its section, or the next symbol. *)
VtableUpperBound(b, start) ==
  Min({SectionEnd(b, start), Unbounded}
        \cup {b.symbols[i].address : i \in {j \in DOMAIN b.symbols : b.symbols[j].address > start}})

(* The pointers from start on, up to the first that is not a function: a   *)
(* null, the end, and, where the caller asks, an address out of the code.  *)
SlotsUpTo(b, start, bound, onlyCode) ==
  LET Stops(k) == \/ start + k + 1 > bound \/ k >= MaxSlots
                  \/ ~Readable(b, start + k)
                  \/ b.words[start + k] = 0
                  \/ onlyCode /\ ~InCode(b, b.words[start + k])
      length == CHOOSE k \in 0 .. Cardinality(DOMAIN b.words) :
                  Stops(k) /\ \A j \in 0 .. k - 1 : ~Stops(j)
  IN  [i \in 1 .. length |-> b.words[start + i - 1]]

ReadSlots(b, start, bound) == SlotsUpTo(b, start, bound, FALSE)
ReadSlotsInCode(b, start, bound) == SlotsUpTo(b, start, bound, TRUE)

(* The first symbol of every class that has one of the kind. *)
FirstSymbols(b, kind) ==
  {i \in DOMAIN b.symbols :
     /\ b.symbols[i].kind = kind
     /\ \A j \in 1 .. i - 1 : b.symbols[j].kind = kind => b.symbols[j].class # b.symbols[i].class}

ParseMachORtti(b) == {b.symbols[i].class : i \in FirstSymbols(b, "typeinfo")}

(* Tables of named classes: after the offset to the top and the type info. *)
VtablesBySymbol(b) ==
  {[class |-> b.symbols[i].class,
    slots |-> ReadSlots(b, b.symbols[i].address + 2, VtableUpperBound(b, b.symbols[i].address))] :
     i \in {j \in FirstSymbols(b, "vtable") : b.symbols[j].class \in ParseMachORtti(b)}}

PointersTo(b, value) == {a \in DOMAIN b.words : b.words[a] = value /\ value # 0}

(* Where the functions of a primary table of the class start, by structure:*)
(* a pointer to a type info that points to the name, after a null offset   *)
(* and before an address of code.                                          *)
PrimaryStarts(b, class) ==
  LET nameFields == UNION {PointersTo(b, n) : n \in {m \in DOMAIN b.names : b.names[m] = class}}
      headers == UNION {PointersTo(b, f - 1) : f \in nameFields}
  IN  {h + 1 : h \in {g \in headers : /\ Readable(b, g - 1) /\ b.words[g - 1] = 0
                                      /\ Readable(b, g + 1) /\ InCode(b, b.words[g + 1])}}

MachOStructural(b, seen) ==
  {[class |-> c, slots |-> ReadSlotsInCode(b, CHOOSE s \in PrimaryStarts(b, c) : TRUE,
                             SectionEnd(b, CHOOSE s \in PrimaryStarts(b, c) : TRUE))] :
     c \in {d \in {b.names[n] : n \in DOMAIN b.names} \ seen : Cardinality(PrimaryStarts(b, d)) = 1}}

ReconstructMachO(b) ==
  VtablesBySymbol(b)
    \cup MachOStructural(b, {b.symbols[i].class : i \in FirstSymbols(b, "vtable")})

(* A locator counts when it points at itself; the first of a class is the  *)
(* one taken, and the first pointer to it precedes the table.              *)
LocateCols(b) == {l \in b.locators : l.self = l.address}

ReconstructPe(b) ==
  LET first == {l \in LocateCols(b) :
                  \A k \in LocateCols(b) : k.class = l.class => l.address <= k.address}
  IN  {[class |-> l.class,
        slots |-> ReadSlotsInCode(b, Min(PointersTo(b, l.address)) + 1,
                                  SectionEnd(b, Min(PointersTo(b, l.address)) + 1))] :
         l \in {k \in first : PointersTo(b, k.address) # {}}}

------------------------------------------------------------------------------

(* The Android library: a symbol is a record [class, method, rva], and the *)
(* first of those at an address names it.  Hole is a slot nobody names.    *)
Hole == [class |-> "", method |-> "hole", rva |-> 0]

SymbolAt(symbols, rva) ==
  LET at == {i \in DOMAIN symbols : symbols[i].rva = rva}
  IN  IF at = {} THEN Hole ELSE symbols[Min(at)]

BuildRelocMap(elf, a) == IF a \in DOMAIN elf.relocs THEN elf.relocs[a]
                         ELSE IF Readable(elf, a) THEN elf.words[a] ELSE 0

(* The table ends where its symbol says, or else at the next symbol. *)
AndroidUpperBound(elf, i) ==
  IF elf.symbols[i].size > 0
  THEN Min({elf.symbols[i].address + elf.symbols[i].size, SectionEnd(elf, elf.symbols[i].address)})
  ELSE VtableUpperBound(elf, elf.symbols[i].address)

ReadMethodSlots(elf, symbols, start, bound) ==
  [k \in 1 .. Min({bound - start, MaxSlots}) |-> SymbolAt(symbols, BuildRelocMap(elf, start + k - 1))]

(* A set of [class, entries], an entry for every slot, holes included. *)
ReconstructAndroidVtables(elf, symbols) ==
  {[class |-> elf.symbols[i].class,
    entries |-> ReadMethodSlots(elf, symbols, elf.symbols[i].address + 2, AndroidUpperBound(elf, i))] :
     i \in {j \in FirstSymbols(elf, "vtable") :
              elf.symbols[j].address + 2 < AndroidUpperBound(elf, j)}}

NoOrdinal == -1

(* The places of the methods with the name of the symbol, in all tables:   *)
(* what an overload has for a signature is not part of the name.           *)
Places(order, symbol) ==
  UNION {{k - 1 : k \in {j \in DOMAIN t.entries : /\ t.entries[j].class = symbol.class
                                                  /\ t.entries[j].method = symbol.method}} :
           t \in order}

(* Slip: the last place found wins. *)
LastOrdinal(order, symbol) ==
  IF Places(order, symbol) = {} THEN NoOrdinal ELSE Max(Places(order, symbol))

(* The place of the name, when it is one. *)
SymbolOrdinal(order, symbol) ==
  IF Cardinality(Places(order, symbol)) = 1
  THEN CHOOSE k \in Places(order, symbol) : TRUE ELSE NoOrdinal

------------------------------------------------------------------------------

(* The address of the one slot of the class at the place, or Sentinel. *)
MatchMethodAt(class, ordinal, vtables) ==
  LET candidates == {t \in vtables : t.class = class /\ ordinal < Len(t.slots)}
  IN  IF class # "" /\ ordinal # NoOrdinal /\ Cardinality(candidates) = 1
      THEN (CHOOSE t \in candidates : TRUE).slots[ordinal + 1]
      ELSE Sentinel

(* check_prologue: the instructions must lie in one section whole. *)
CheckPrologue(b, offset) ==
  CASE offset = 0 -> "ZeroOffset"
    [] offset = Sentinel -> "SentinelOffset"
    [] offset \notin {0, Sentinel}
         /\ ~\E s \in b.sections : s.base <= offset /\ offset + PrologueWindow <= s.end ->
         "UnreadablePrologue"
    [] OTHER -> IF offset \in DOMAIN b.heads THEN b.heads[offset] ELSE "illegal"

VerifiedFlag(offset, outcome) == outcome = "plausible" /\ offset \notin {0, Sentinel}

AssignTier(origin, offset, outcome) ==
  IF offset = Sentinel \/ outcome = "SentinelOffset" THEN "none" ELSE origin

(* emit_offset: an outcome of the check is needed to be verified.  An      *)
(* unresolved address is written without one.                              *)
EmitOffset(offset, tier, outcome) ==
  IF tier = "none"
  THEN [rva |-> Sentinel, verified |-> FALSE, tier |-> "none"]
  ELSE [rva |-> offset, verified |-> VerifiedFlag(offset, outcome), tier |-> tier]

(* What run_bindings_extract writes for a symbol: of the Android library   *)
(* itself, or of the other build.                                          *)
ExtractAndroid(elf, symbol) ==
  LET outcome == CheckPrologue(elf, symbol.rva)
  IN  EmitOffset(symbol.rva, AssignTier("symbol-table", symbol.rva, outcome), outcome)

ExtractCross(elf, symbols, target, vtables, symbol) ==
  LET order == ReconstructAndroidVtables(elf, symbols)
      rva == MatchMethodAt(symbol.class, SymbolOrdinal(order, symbol), vtables)
      outcome == CheckPrologue(target, rva)
  IN  EmitOffset(rva, AssignTier("cross-derived", rva, outcome), outcome)
==============================================================================
