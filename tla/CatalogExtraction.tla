--------------------------- MODULE CatalogExtraction ---------------------------
(***************************************************************************)
(* How the offsets that were extracted get into the catalog                *)
(* (cli/src/extract/writer.rs): first every file is looked at and its new  *)
(* text planned, then the texts are written one by one, each by a          *)
(* temporary file and a rename.  Contributors edit the files meanwhile, in *)
(* place, and the extraction may be killed and run again.                  *)
(*                                                                         *)
(* An extraction is for one pair and has a symbol at most once.  Two of    *)
(* the symbols may have one file.                                          *)
(***************************************************************************)
EXTENDS Naturals, Sequences, SequencesExt, FiniteSets

CONSTANTS
  LastSymbol, FileOf(_),  \* symbols 1 .. LastSymbol in their order; the file of each
  TargetPairs,
  MaxEditions,            \* bound: how often contributors edit a file
  MaxExtractions          \* bound: how often an extraction is started

SymbolIds == 1 .. LastSymbol
SymbolFiles == {FileOf(s) : s \in SymbolIds}

ASSUME CatalogExtractionAssumption ==
  /\ LastSymbol \in Nat /\ MaxEditions \in Nat /\ MaxExtractions \in Nat
  /\ TargetPairs # {} /\ "none" \notin SymbolFiles

VARIABLES
  texts,      \* the files
  edit,       \* the text a contributor is writing, and where
  run,        \* the extraction: its stage, its input, its plans, its report
  loaded,     \* history: the files as this run found them
  touched,    \* history: the files a contributor edited during or after this run
  done,       \* history: the files this run has written
  editions, extractions

extractionVars == <<texts, edit, run, loaded, touched, done, editions, extractions>>

Blocks == [pair : TargetPairs, resolved : BOOLEAN]
NoText == [state |-> "absent", signature |-> "declared", offsets |-> <<>>]
TornText == [NoText EXCEPT !.state = "torn"]

(* load_catalog_entry takes a text that lists a pair twice; load_catalog,  *)
(* which the generator uses, does not.                                     *)
Parses(t) == t.state = "whole"

HoldsPairsOnce(t) ==
  \A i, j \in DOMAIN t.offsets : t.offsets[i].pair = t.offsets[j].pair => i = j

PairsOf(t) == {t.offsets[i].pair : i \in DOMAIN t.offsets}

NoRun == [stage |-> "idle", pair |-> CHOOSE p \in TargetPairs : TRUE, resolved |-> {},
          todo |-> {}, seen |-> {}, plans |-> <<>>, committed |-> 0, counted |-> 0]
NoEdit == [at |-> "none", text |-> NoText]

Texts == [state : {"absent", "torn", "whole"}, signature : {"declared", "changed"},
          offsets : Seq(Blocks)]

Runs ==
  [stage : {"idle", "planning", "reading", "committing", "renaming", "done", "refused"},
   pair : TargetPairs, resolved : SUBSET SymbolIds, todo : SUBSET SymbolIds,
   seen : SUBSET SymbolIds, plans : Seq([at : SymbolFiles, text : Texts]),
   committed : Nat, counted : Nat]

ExtractionTypeOK ==
  /\ texts \in [SymbolFiles -> Texts] /\ loaded \in [SymbolFiles -> Texts]
  /\ edit \in [at : SymbolFiles \cup {"none"}, text : Texts]
  /\ run \in Runs
  /\ run.committed <= Len(run.plans) /\ Len(run.plans) <= LastSymbol
  /\ touched \cup done \subseteq SymbolFiles
  /\ editions \in 0 .. MaxEditions /\ extractions \in 0 .. MaxExtractions

ExtractionInit ==
  /\ texts = [f \in SymbolFiles |-> NoText]
  /\ edit = NoEdit
  /\ run = NoRun
  /\ loaded = texts
  /\ touched = {} /\ done = {}
  /\ editions = 0 /\ extractions = 0

------------------------------------------------------------------------------

(* A contributor adds a symbol or a pair, or changes a signature: the file *)
(* is empty until the new text is there.                                   *)
Edited(t, pair) ==
  IF t.state = "absent"
  THEN {[state |-> "whole", signature |-> "declared", offsets |-> <<>>]}
  ELSE {[t EXCEPT !.signature = "changed"]}
         \cup IF pair \in PairsOf(t) THEN {}
              ELSE {[t EXCEPT !.offsets = Append(@, [pair |-> pair, resolved |-> TRUE])]}

StartEdit(f, pair) ==
  /\ edit = NoEdit
  /\ editions < MaxEditions
  /\ texts[f].state # "torn"
  /\ \E t \in Edited(texts[f], pair) : edit' = [at |-> f, text |-> t]
  /\ texts' = [texts EXCEPT ![f] = TornText]
  /\ touched' = touched \cup {f}
  /\ editions' = editions + 1
  /\ UNCHANGED <<run, loaded, done, extractions>>

EndEdit ==
  /\ edit # NoEdit
  /\ texts' = [texts EXCEPT ![edit.at] = edit.text]
  /\ touched' = touched \cup {edit.at}
  /\ edit' = NoEdit
  /\ UNCHANGED <<run, loaded, done, editions, extractions>>

------------------------------------------------------------------------------

(* run_bindings_extract has the offsets of some symbols: those in resolved *)
(* have an address, the others are sentinels.                              *)
Extract(pair, symbols, resolved) ==
  /\ run.stage \in {"idle", "done", "refused"}
  /\ extractions < MaxExtractions
  /\ run' = [NoRun EXCEPT !.stage = "planning", !.pair = pair,
                          !.todo = symbols, !.resolved = resolved]
  /\ loaded' = texts
  /\ touched' = {edit.at} \ {"none"} /\ done' = {}
  /\ extractions' = extractions + 1
  /\ UNCHANGED <<texts, edit, editions>>

Block(s) == [pair |-> run.pair, resolved |-> s \in run.resolved]

RecordOffset(s) == IF s \in run.resolved THEN 1 ELSE 0

(* The symbols are taken in their order. *)
NextSymbol == CHOOSE s \in run.todo : \A r \in run.todo : s <= r

Seen(s) == [run EXCEPT !.todo = @ \ {s}, !.seen = @ \cup {s}, !.stage = "planning"]

Plan(f, text, s) ==
  [Seen(s) EXCEPT !.plans = Append(@, [at |-> f, text |-> text]),
                  !.counted = @ + RecordOffset(s)]

Refuse == run' = [run EXCEPT !.stage = "refused"]

(* Another symbol of this run has the file. *)
Collides(s) == \E r \in run.seen : FileOf(r) = FileOf(s)

Disagrees(t, s) ==
  \/ t.signature # "declared"
  \/ run.pair \in PairsOf(t) /\ s \in run.resolved

(* Slip: a sentinel is put behind the block of its pair. *)
NeverListed(t) == FALSE

AlreadyListed(t) == run.pair \in PairsOf(t)

(* The next symbol: a new file is planned, an old one is loaded. *)
PlanEntry ==
  /\ run.stage = "planning" /\ run.todo # {}
  /\ LET s == NextSymbol
         f == FileOf(s)
         t == texts[f]
     IN  \/ Collides(s) /\ Refuse
         \/ /\ ~Collides(s) /\ t.state = "absent"
            /\ run' = Plan(f, [state |-> "whole", signature |-> "declared",
                               offsets |-> <<Block(s)>>], s)
         \/ /\ ~Collides(s) /\ t.state # "absent"
            /\ ~Parses(t) \/ Disagrees(t, s)
            /\ Refuse
         \/ /\ ~Collides(s) /\ Parses(t) /\ ~Disagrees(t, s)
            /\ run' = IF AlreadyListed(t) THEN Seen(s)
                      ELSE [run EXCEPT !.stage = "reading"]
  /\ UNCHANGED <<texts, edit, loaded, touched, done, editions, extractions>>

(* The text is read once more, and the block is put behind it. *)
ReadText ==
  /\ run.stage = "reading"
  /\ LET s == NextSymbol
         t == texts[FileOf(s)]
     IN  IF t.state = "absent" THEN Refuse
         ELSE run' = Plan(FileOf(s), [t EXCEPT !.offsets = Append(@, Block(s))], s)
  /\ UNCHANGED <<texts, edit, loaded, touched, done, editions, extractions>>

(* Nothing conflicts: the files are written, each of them in two steps.    *)
(* The process may be killed, or the disk refuse, before any of them.      *)
WriteTemporaryFile ==
  /\ run.stage \in {"committing", "planning"}
  /\ run.todo = {}
  /\ IF run.committed = Len(run.plans)
     THEN run' = [run EXCEPT !.stage = "done"]
     ELSE run' = [run EXCEPT !.stage = "renaming"]
  /\ UNCHANGED <<texts, edit, loaded, touched, done, editions, extractions>>

RenameFile ==
  /\ run.stage = "renaming"
  /\ LET p == run.plans[run.committed + 1]
     IN  /\ texts' = [texts EXCEPT ![p.at] = p.text]
         /\ done' = done \cup {p.at}
  /\ run' = [run EXCEPT !.stage = "committing", !.committed = @ + 1]
  /\ UNCHANGED <<edit, loaded, touched, editions, extractions>>

Stop ==
  /\ run.stage \in {"planning", "reading", "committing", "renaming"}
  /\ run' = [run EXCEPT !.stage = "idle"]
  /\ UNCHANGED <<texts, edit, loaded, touched, done, editions, extractions>>

ExtractionNext ==
  \/ (\E f \in SymbolFiles, p \in TargetPairs : StartEdit(f, p)) \/ EndEdit
  \/ (\E p \in TargetPairs, s \in SUBSET SymbolIds : \E r \in SUBSET s : Extract(p, s, r))
  \/ PlanEntry \/ ReadText \/ WriteTemporaryFile \/ RenameFile \/ Stop

ExtractionSpec == ExtractionInit /\ [][ExtractionNext]_extractionVars

------------------------------------------------------------------------------

(* A file that no contributor edits from the moment the run starts only    *)
(* grows: what it held is its beginning, its signature stays, it can be    *)
(* read if it could before, and it holds a pair twice only if it did       *)
(* before, however often extractions were killed and run again.            *)
QuietFilesOnlyGrow ==
  \A f \in SymbolFiles \ touched :
    /\ IsPrefix(loaded[f].offsets, texts[f].offsets)
    /\ loaded[f].state # "absent" => texts[f].signature = loaded[f].signature
    /\ loaded[f].state = "absent" \/ Parses(loaded[f]) => texts[f].state = "absent" \/ Parses(texts[f])
    /\ HoldsPairsOnce(loaded[f]) => HoldsPairsOnce(texts[f])

(* A run that is refused has written nothing, and the report of one that   *)
(* ends counts the addresses that it wrote, sentinels and pairs that were  *)
(* there already left out.                                                 *)
ReportsWhatItWrote ==
  /\ run.stage = "refused" => done = {}
  /\ run.stage = "done" =>
       run.counted = Cardinality({s \in run.resolved : FileOf(s) \in done})

(* Extraction into a catalog that people edit, killed and run again. *)
ExtractionIsFaithful == QuietFilesOnlyGrow /\ ReportsWhatItWrote
==============================================================================
