---------------------------- MODULE BindingRecords ----------------------------
(***************************************************************************)
(* The records of the binding catalog (cli/src/bindings/catalog.rs,        *)
(* provenance.rs, validation.rs, prologue.rs): an entry per symbol, with   *)
(* one signature and, per pair of game version and platform, an offset, a  *)
(* flag that says it was verified, and where both come from.               *)
(*                                                                         *)
(* An rva is 0, an address of Addresses, or the sentinel.                  *)
(***************************************************************************)
EXTENDS Naturals, Sequences, SequencesExt, FiniteSets

CONSTANTS
  Symbols, Signatures, Contributors,
  Pairs,       \* pairs of a game version and a platform, as numbers
  LastAddress  \* bound: the addresses are 1 .. LastAddress

ASSUME BindingRecordsAssumption == Pairs \subseteq Nat /\ LastAddress \in Nat \ {0}

Addresses == 1 .. LastAddress
Sentinel == LastAddress + 1
NoRva == LastAddress + 2
Rvas == 0 .. NoRva

(* The outcomes of the cross-check and of the prologue verification are    *)
(* there or not; nobody is the source of an address nobody gave.           *)
Provenance == [source : Contributors \cup {"nobody"}, crossCheck : BOOLEAN, prologue : BOOLEAN]
NoProvenance == [source |-> "nobody", crossCheck |-> FALSE, prologue |-> FALSE]

Offset == [registered : BOOLEAN, rva : Rvas, verified : BOOLEAN, provenance : Provenance]
NoOffset == [registered |-> FALSE, rva |-> NoRva, verified |-> FALSE, provenance |-> NoProvenance]
SentinelOffset == [NoOffset EXCEPT !.registered = TRUE]

EffectiveRva(o) == IF o.rva = NoRva THEN Sentinel ELSE o.rva
IsSentinel(o) == EffectiveRva(o) = Sentinel

CatalogEntry == [symbol : Symbols, signature : Signatures, offsets : [Pairs -> Offset]]

(* entry_from_raw: an offset without rva is never verified. *)
EntryFromRaw(e) ==
  [e EXCEPT !.offsets = [p \in Pairs |->
     [e.offsets[p] EXCEPT !.verified = e.offsets[p].verified /\ e.offsets[p].rva # NoRva]]]

BuildSentinelEntry(symbol, signature, pairs) ==
  [symbol |-> symbol, signature |-> signature,
   offsets |-> [p \in Pairs |-> IF p \in pairs THEN SentinelOffset ELSE NoOffset]]

(* Outcomes of a check of an offset against the bytes of the binary. *)
EvaluatePrologue(rva, readable, agrees) ==
  CASE rva = 0 -> "offset zero"
    [] rva = Sentinel -> "offset sentinel"
    [] rva \in Addresses /\ ~readable -> "unreadable"
    [] rva \in Addresses /\ readable /\ ~agrees -> "mismatch"
    [] OTHER -> "match"

(* What is missing for an offset to be shown as verified, or to be given   *)
(* away.                                                                   *)
GateVerified(provenance) ==
  {f \in {"crossCheck", "prologue"} : ~provenance[f]}

GateDistributable(verified, provenance) ==
  IF verified THEN GateVerified(provenance) \cap {"prologue"} ELSE {}

EmitVerified(o) == o.verified /\ o.rva \in Addresses

(* validate_set: one entry that is verified and has no address rejects the *)
(* set of its pair.                                                        *)
IsResolvable(o) == o.verified /\ EffectiveRva(o) \notin {0, Sentinel}

ValidateSet(offsets) ==
  IF \E i \in DOMAIN offsets : offsets[i].verified /\ EffectiveRva(offsets[i]) \in {0, Sentinel}
  THEN [ok |-> FALSE, resolvable |-> {}]
  ELSE [ok |-> TRUE, resolvable |-> {i \in DOMAIN offsets : IsResolvable(offsets[i])}]

(* load_catalog over files in the order of their names: an unreadable one, *)
(* or two that disagree on a symbol, and there is no catalog at all.  The  *)
(* files of a symbol are merged where it appeared first.                   *)
RegisteredPairs(e) == {p \in Pairs : e.offsets[p].registered}

Conflict(e, f) ==
  /\ e.symbol = f.symbol
  /\ \/ e.signature # f.signature
     \/ RegisteredPairs(e) \cap RegisteredPairs(f) # {}

NoCatalog == [ok |-> FALSE, entries |-> <<>>]

Merge(entries, e) ==
  IF \E i \in DOMAIN entries : entries[i].symbol = e.symbol
  THEN [i \in DOMAIN entries |->
          IF entries[i].symbol # e.symbol THEN entries[i]
          ELSE [entries[i] EXCEPT !.offsets = [p \in Pairs |->
                  IF e.offsets[p].registered THEN e.offsets[p] ELSE @[p]]]]
  ELSE Append(entries, e)

MergedEntries(files) ==
  LET merged[k \in 0 .. Len(files)] ==
        IF k = 0 THEN <<>> ELSE Merge(merged[k - 1], EntryFromRaw(files[k].entry))
  IN  merged[Len(files)]

LoadCatalog(files) ==
  IF \/ files = <<>>
     \/ \E i \in DOMAIN files : files[i].state # "whole"
     \/ \E i, j \in DOMAIN files : i # j /\ Conflict(files[i].entry, files[j].entry)
  THEN NoCatalog
  ELSE [ok |-> TRUE, entries |-> MergedEntries(files)]
==============================================================================
