---------------------------- MODULE BindingCatalog ----------------------------
(***************************************************************************)
(* The binding catalog in use (cli/src/bindings/contribution.rs and        *)
(* generator.rs, and run_bindings_extract of cli.rs): contributors add     *)
(* symbols, set offsets and signatures, each command reading a file of the *)
(* catalog and writing it back in place; the generator writes one .pbind   *)
(* file per pair, each by a temporary file and a rename.  Commands run     *)
(* side by side and may die.                                               *)
(*                                                                         *)
(* Two hands set the flag of a verified offset: a reviewer, by hand, where *)
(* the prologue agrees (verify-prologue tells), and pulse bindings extract *)
(* for an address it derives itself, where the bytes look like the start   *)
(* of a function.  The extraction is followed here for one of its symbols, *)
(* one extraction at a time; CatalogExtraction has it for several.         *)
(***************************************************************************)
EXTENDS BindingRecords

CONSTANTS
  Stems, StemOf(_),   \* the files, and the one symbol_file_stem gives a symbol
  MaxChanges          \* bound: how many commands, extractions and reviews there are

ASSUME BindingCatalogAssumption ==
  /\ Symbols # {} /\ Signatures # {} /\ Pairs # {}
  /\ IsFiniteSet(Stems) /\ \A s \in Symbols : StemOf(s) \in Stems
  /\ MaxChanges \in Nat

VARIABLES
  files,      \* the files of the catalog, by their stem
  work,       \* per contributor, the command that runs
  generator,  \* the catalog that is being generated, and the pairs still to do
  pbinds,     \* per pair, the functions of its .pbind file
  extraction, \* the extraction that runs: its derivation, and the text it planned
  checks,     \* history: what a reviewer or an extraction has seen agree with the binary
  crossed,    \* history: what an extraction put behind another signature than it looked at
  changes     \* how many commands, extractions and reviews there were

vars == <<files, work, generator, pbinds, extraction, checks, crossed, changes>>

SomeEntry ==
  BuildSentinelEntry(CHOOSE s \in Symbols : TRUE, CHOOSE g \in Signatures : TRUE, {})

NoFile == [state |-> "absent", entry |-> SomeEntry]
TornFile == [state |-> "torn", entry |-> SomeEntry]
File(e) == [state |-> "whole", entry |-> e]

(* A file that lists a pair twice is "doubled": each command that reads it *)
(* alone takes it, and leaves it so; no catalog can be loaded with it.     *)
Files == [state : {"absent", "torn", "doubled", "whole"}, entry : CatalogEntry]
IsReadable(f) == f.state \in {"doubled", "whole"}

(* A function of a .pbind file; those that are not verified are left out.  *)
Function == [symbol : Symbols, signature : Signatures, rva : Rvas]

Idle == [stage |-> "idle", stem |-> CHOOSE s \in Stems : TRUE, file |-> NoFile]

Checks == [pair : Pairs, symbol : Symbols, signature : Signatures, rva : Rvas]

NoExtraction ==
  [stage |-> "idle", symbol |-> CHOOSE s \in Symbols : TRUE,
   signature |-> CHOOSE g \in Signatures : TRUE, pair |-> CHOOSE p \in Pairs : TRUE,
   offset |-> NoOffset, text |-> NoFile]

BindingTypeOK ==
  /\ files \in [Stems -> Files]
  /\ work \in [Contributors -> [stage : {"idle", "ready", "writing"}, stem : Stems, file : Files]]
  /\ generator \in [todo : SUBSET Pairs, entries : Seq(CatalogEntry)]
  /\ pbinds \in [Pairs -> SUBSET Function]
  /\ extraction \in [stage : {"idle", "reading", "renaming"}, symbol : Symbols,
                     signature : Signatures, pair : Pairs, offset : Offset, text : Files]
  /\ checks \cup crossed \subseteq Checks
  /\ changes \in 0 .. MaxChanges

Init ==
  /\ files = [s \in Stems |-> NoFile]
  /\ work = [c \in Contributors |-> Idle]
  /\ generator = [todo |-> {}, entries |-> <<>>]
  /\ pbinds = [p \in Pairs |-> {}]
  /\ extraction = NoExtraction
  /\ checks = {} /\ crossed = {}
  /\ changes = 0

------------------------------------------------------------------------------

Begin(c, symbol, file) ==
  /\ work[c].stage = "idle"
  /\ changes < MaxChanges
  /\ changes' = changes + 1
  /\ work' = [work EXCEPT ![c] = [stage |-> "ready", stem |-> StemOf(symbol), file |-> file]]
  /\ UNCHANGED <<files, generator, pbinds, extraction, checks, crossed>>

(* add refuses a file that exists, when it looks. *)
Add(c, symbol, signature, pairs) ==
  /\ files[StemOf(symbol)].state = "absent"
  /\ Begin(c, symbol, File(BuildSentinelEntry(symbol, signature, pairs)))

Loaded(symbol) == EntryFromRaw(files[StemOf(symbol)].entry)

Changed(symbol, entry) == [files[StemOf(symbol)] EXCEPT !.entry = entry]

(* Slip: an offset that is replaced keeps its flag. *)
KeepFlag(e, pair, rva, c) ==
  [e EXCEPT !.offsets[pair].registered = TRUE, !.offsets[pair].rva = rva]

WithOffset(e, pair, rva, c) ==
  [e EXCEPT !.offsets[pair] =
     [registered |-> TRUE, rva |-> rva, verified |-> FALSE,
      provenance |-> [NoProvenance EXCEPT !.source = c]]]

SetOffset(c, symbol, pair, rva) ==
  /\ IsReadable(files[StemOf(symbol)])
  /\ Begin(c, symbol, Changed(symbol, WithOffset(Loaded(symbol), pair, rva, c)))

(* Slip: only the pairs that have an offset are kept. *)
WithSignatureOfSome(e, signature) ==
  [e EXCEPT !.signature = signature, !.offsets = [p \in RegisteredPairs(e) |-> @[p]]]

WithSignature(e, signature) ==
  [symbol |-> e.symbol, signature |-> signature,
   offsets |-> [p \in Pairs |->
     [e.offsets[p] EXCEPT !.verified = FALSE, !.provenance.crossCheck = FALSE,
                          !.provenance.prologue = FALSE]]]

SetSignature(c, symbol, signature) ==
  /\ IsReadable(files[StemOf(symbol)])
  /\ Begin(c, symbol, Changed(symbol, WithSignature(Loaded(symbol), signature)))

(* The file is truncated, then it has its bytes. *)
Truncate(c) ==
  /\ work[c].stage = "ready"
  /\ files' = [files EXCEPT ![work[c].stem] = TornFile]
  /\ work' = [work EXCEPT ![c].stage = "writing"]
  /\ UNCHANGED <<generator, pbinds, extraction, checks, crossed, changes>>

Write(c) ==
  /\ work[c].stage = "writing"
  /\ files' = [files EXCEPT ![work[c].stem] = work[c].file]
  /\ work' = [work EXCEPT ![c] = Idle]
  /\ UNCHANGED <<generator, pbinds, extraction, checks, crossed, changes>>

Die(c) ==
  /\ work[c].stage # "idle"
  /\ work' = [work EXCEPT ![c] = Idle]
  /\ UNCHANGED <<files, generator, pbinds, extraction, checks, crossed, changes>>

------------------------------------------------------------------------------

(* A reviewer marks an offset whose prologue agrees with the signature the *)
(* entry has, with or without a cross-check against the reference.         *)
Reviewed(o, crossChecked) ==
  [o EXCEPT !.verified = TRUE, !.provenance.prologue = TRUE,
            !.provenance.crossCheck = crossChecked]

Review(stem, pair, crossChecked) ==
  /\ files[stem].state = "whole"
  /\ changes < MaxChanges
  /\ LET e == files[stem].entry
     IN  /\ e.offsets[pair].registered /\ ~e.offsets[pair].verified
         /\ EvaluatePrologue(EffectiveRva(e.offsets[pair]), TRUE, TRUE) = "match"
         /\ files' = [files EXCEPT
              ![stem].entry.offsets[pair] = Reviewed(e.offsets[pair], crossChecked)]
         /\ checks' = checks \cup
              {[pair |-> pair, symbol |-> e.symbol, signature |-> e.signature,
                rva |-> e.offsets[pair].rva]}
  /\ changes' = changes + 1
  /\ UNCHANGED <<work, generator, pbinds, extraction, crossed>>

------------------------------------------------------------------------------

(* pulse bindings extract.  The address of a symbol is not found, or it is *)
(* emitted with the outcome of the sanity check of its prologue.           *)
DerivedOffset(rva, plausible, crossChecked) ==
  IF rva = Sentinel THEN SentinelOffset
  ELSE [registered |-> TRUE, rva |-> rva, verified |-> plausible /\ rva # 0,
        provenance |-> [source |-> "nobody", crossCheck |-> crossChecked, prologue |-> TRUE]]

NewFile(symbol, signature, pair, o) ==
  File([BuildSentinelEntry(symbol, signature, {}) EXCEPT !.offsets[pair] = o])

(* The first look at the file: a new one is planned, an old one is loaded; *)
(* a text that cannot be read, another signature, or the pair in the list, *)
(* and nothing happens.  The symbol of the old entry is not compared.      *)
StartExtraction(symbol, signature, pair, o) ==
  /\ extraction.stage = "idle"
  /\ changes < MaxChanges
  /\ LET f == files[StemOf(symbol)]
         begin(stage, text) ==
           extraction' = [stage |-> stage, symbol |-> symbol, signature |-> signature,
                          pair |-> pair, offset |-> o, text |-> text]
     IN  \/ f.state = "absent" /\ begin("renaming", NewFile(symbol, signature, pair, o))
         \/ /\ IsReadable(f)
            /\ f.entry.signature = signature /\ ~f.entry.offsets[pair].registered
            /\ begin("reading", NoFile)
  /\ checks' = checks \cup
       IF o.verified
       THEN {[pair |-> pair, symbol |-> symbol, signature |-> signature, rva |-> o.rva]} ELSE {}
  /\ changes' = changes + 1
  /\ UNCHANGED <<files, work, generator, pbinds, crossed>>

Appended(f, pair, o) ==
  IF ~IsReadable(f) THEN f
  ELSE IF f.entry.offsets[pair].registered THEN [f EXCEPT !.state = "doubled"]
  ELSE [f EXCEPT !.entry.offsets[pair] = o]

(* The text is read once more, and the block put behind what it is by now. *)
ReadAgain ==
  /\ extraction.stage = "reading"
  /\ LET f == files[StemOf(extraction.symbol)]
         text == Appended(f, extraction.pair, extraction.offset)
         e == f.entry
     IN  IF f.state = "absent"
         THEN extraction' = NoExtraction /\ UNCHANGED crossed
         ELSE /\ extraction' = [extraction EXCEPT !.stage = "renaming", !.text = text]
              /\ crossed' = crossed \cup
                   IF /\ extraction.offset.verified
                      /\ e.signature # extraction.signature \/ e.symbol # extraction.symbol
                   THEN {[pair |-> extraction.pair, symbol |-> e.symbol,
                          signature |-> e.signature, rva |-> extraction.offset.rva]}
                   ELSE {}
  /\ UNCHANGED <<files, work, generator, pbinds, checks, changes>>

RenameExtracted ==
  /\ extraction.stage = "renaming"
  /\ files' = [files EXCEPT ![StemOf(extraction.symbol)] = extraction.text]
  /\ extraction' = NoExtraction
  /\ UNCHANGED <<work, generator, pbinds, checks, crossed, changes>>

DieExtracting ==
  /\ extraction.stage # "idle"
  /\ extraction' = NoExtraction
  /\ UNCHANGED <<files, work, generator, pbinds, checks, crossed, changes>>

------------------------------------------------------------------------------

(* The files in the order of their names. *)
CatalogFiles ==
  LET stems == SetToSeq({s \in Stems : files[s].state # "absent"})
  IN  [i \in 1 .. Len(stems) |-> files[stems[i]]]

Generate ==
  /\ generator.todo = {}
  /\ LET catalog == LoadCatalog(CatalogFiles)
     IN  /\ catalog.ok
         /\ generator' =
              [entries |-> catalog.entries,
               todo |-> UNION {RegisteredPairs(e) : e \in ToSet(catalog.entries)}]
  /\ UNCHANGED <<files, work, pbinds, extraction, checks, crossed, changes>>

VerifiedFunctions(entries, pair) ==
  {[symbol |-> e.symbol, signature |-> e.signature, rva |-> e.offsets[pair].rva] :
     e \in {x \in ToSet(entries) : EmitVerified(x.offsets[pair])}}

(* The pairs are written in their order; a failure ends the generation and *)
(* leaves the files that were not reached.                                 *)
WritePbind ==
  /\ generator.todo # {}
  /\ LET pair == CHOOSE p \in generator.todo : \A q \in generator.todo : p <= q
     IN  \/ /\ pbinds' = [pbinds EXCEPT ![pair] = VerifiedFunctions(generator.entries, pair)]
            /\ generator' = IF generator.todo = {pair}
                            THEN [todo |-> {}, entries |-> <<>>]
                            ELSE [generator EXCEPT !.todo = @ \ {pair}]
         \/ generator' = [todo |-> {}, entries |-> <<>>] /\ UNCHANGED pbinds
  /\ UNCHANGED <<files, work, extraction, checks, crossed, changes>>

------------------------------------------------------------------------------

Contribute(c) ==
  \/ \E s \in Symbols, g \in Signatures, ps \in SUBSET Pairs : Add(c, s, g, ps)
  \/ \E s \in Symbols, p \in Pairs, a \in Rvas \ {NoRva} : SetOffset(c, s, p, a)
  \/ \E s \in Symbols, g \in Signatures : SetSignature(c, s, g)
  \/ Truncate(c) \/ Write(c) \/ Die(c)

Extraction ==
  \/ \E s \in Symbols, g \in Signatures, p \in Pairs, a \in Rvas \ {NoRva}, ok, x \in BOOLEAN :
       StartExtraction(s, g, p, DerivedOffset(a, ok, x))
  \/ ReadAgain \/ RenameExtracted \/ DieExtracting

Next ==
  \/ \E c \in Contributors : Contribute(c)
  \/ \E s \in Stems, p \in Pairs, x \in BOOLEAN : Review(s, p, x)
  \/ Extraction
  \/ Generate \/ WritePbind

Spec == Init /\ [][Next]_vars
------------------------------------------------------------------------------

Claim(e, p) ==
  [pair |-> p, symbol |-> e.symbol, signature |-> e.signature, rva |-> e.offsets[p].rva]

FunctionClaim(f, p) ==
  [pair |-> p, symbol |-> f.symbol, signature |-> f.signature, rva |-> f.rva]

SeenOrCrossed == checks \cup crossed

(* Whatever commands cross, and wherever they die, an offset that the      *)
(* catalog calls verified was once seen to agree with the binary, by a     *)
(* reviewer or by the extraction that derived it, for that very pair,      *)
(* signature and address; but for an offset that an extraction put behind  *)
(* a signature that was changed under it.                                  *)
VerifiedWasChecked ==
  \A s \in Stems, p \in Pairs :
    LET e == files[s].entry
    IN  files[s].state = "whole" /\ e.offsets[p].verified => Claim(e, p) \in SeenOrCrossed

(* So was every function that a .pbind file calls verified: no offset of   *)
(* another pair gets there, and none without an address.                   *)
PbindsHoldWhatWasChecked ==
  \A p \in Pairs : \A f \in pbinds[p] :
    f.rva \in Addresses /\ FunctionClaim(f, p) \in SeenOrCrossed

(* An offset of that kind was at least seen at its address, for its pair.  *)
CrossedWasSeen ==
  \A x \in crossed : \E y \in checks : y.pair = x.pair /\ y.rva = x.rva

(* From a contributor or the extractor to the game: nothing is called      *)
(* verified on the way that nobody saw agree with the binary.              *)
VerifiedMeansChecked == VerifiedWasChecked /\ PbindsHoldWhatWasChecked /\ CrossedWasSeen
==============================================================================
