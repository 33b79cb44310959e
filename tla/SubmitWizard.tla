----------------------------- MODULE SubmitWizard -----------------------------
(***************************************************************************)
(* The dialogue of pulse submit (cli/src/submit.rs): a summary, the        *)
(* support tags, a confirmation.  A wizard is a record; HandleKey is the   *)
(* record after a key.  A character is the kind it has: a letter, or a     *)
(* blank that trim removes (the space bar is a key of its own).            *)
(***************************************************************************)
EXTENDS Naturals, Sequences, SequencesExt

CONSTANT TagCount   \* how many support tags there are, 8 in the code

ASSUME SubmitWizardAssumption == TagCount \in Nat \ {0}

Characters == {"letter", "blank"}
WizardKeys == Characters \cup {"backspace", "up", "down", "space", "enter", "tab", "cancel"}

WizardState(prefills, n) ==
  [prefill : prefills,
   summary : UNION {[1 .. k -> Characters] : k \in 0 .. n},
   tags : SUBSET (1 .. TagCount), cursor : 1 .. TagCount,
   step : {"summary", "tags", "confirm"},
   outcome : {"continue", "confirm", "cancel"}]

NewWizard(prefill) ==
  [prefill |-> prefill, summary |-> <<>>, tags |-> {}, cursor |-> 1,
   step |-> "summary", outcome |-> "continue"]

IsBlank(s) == \A i \in DOMAIN s : s[i] = "blank"

(* build_descriptor: no artifact is ever listed. *)
BuildDescriptor(w) ==
  [id |-> w.prefill.id, name |-> w.prefill.name, version |-> w.prefill.version,
   summary |-> IF IsBlank(w.summary) THEN "" ELSE "text",
   tags |-> w.tags, artifacts |-> {}]

RequiredFields == {"id", "name", "version", "summary"}

(* A field that holds only blanks is missing. *)
MissingRequired(d) == {f \in RequiredFields : d[f] \in {"", "blank"}}

InSummary(w, key) ==
  CASE key \in Characters -> [w EXCEPT !.summary = Append(@, key)]
    [] key = "backspace" -> [w EXCEPT !.summary = IF @ = <<>> THEN @ ELSE Front(@)]
    [] key \in {"enter", "tab", "down"} -> [w EXCEPT !.step = "tags"]
    [] OTHER -> w

(* Slip: no last tag. *)
InTagsUnbounded(w, key) ==
  CASE key = "down" -> [w EXCEPT !.cursor = @ + 1]
    [] key \in {"enter", "tab"} -> [w EXCEPT !.step = "confirm"]
    [] OTHER -> w

InTags(w, key) ==
  CASE key = "up" /\ w.cursor = 1 -> [w EXCEPT !.step = "summary"]
    [] key = "up" /\ w.cursor > 1 -> [w EXCEPT !.cursor = @ - 1]
    [] key = "down" /\ w.cursor < TagCount -> [w EXCEPT !.cursor = @ + 1]
    [] key = "space" ->
         [w EXCEPT !.tags = IF w.cursor \in @ THEN @ \ {w.cursor} ELSE @ \cup {w.cursor}]
    [] key \in {"enter", "tab"} -> [w EXCEPT !.step = "confirm"]
    [] OTHER -> w

(* Slip: confirm without the gate. *)
InConfirmUngated(w, key) ==
  IF key = "enter" THEN [w EXCEPT !.outcome = "confirm"] ELSE w

InConfirm(w, key) ==
  CASE key \in {"up", "tab"} -> [w EXCEPT !.step = "tags"]
    [] key = "enter" ->
         IF MissingRequired(BuildDescriptor(w)) = {}
         THEN [w EXCEPT !.outcome = "confirm"]
         ELSE [w EXCEPT !.step = "summary"]
    [] OTHER -> w

HandleKey(w, key) ==
  CASE key = "cancel" -> [w EXCEPT !.outcome = "cancel"]
    [] key # "cancel" /\ w.step = "summary" -> InSummary(w, key)
    [] key # "cancel" /\ w.step = "tags" -> InTags(w, key)
    [] key # "cancel" /\ w.step = "confirm" -> InConfirm(w, key)
==============================================================================
