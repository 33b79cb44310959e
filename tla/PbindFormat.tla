----------------------------- MODULE PbindFormat -----------------------------
(***************************************************************************)
(* The text of a .pbind file, as the generator writes it and the linter    *)
(* reads it (cli/src/bindings/generator.rs and linter.rs), and the table   *)
(* of reference addresses behind its firewall (crosscheck.rs).             *)
(*                                                                         *)
(* A line is a record: its kind (blank, section, pair, empty key, other),  *)
(* its key and its value.  A value is what it is as a word: its text and   *)
(* the shapes it has, among decimal, hexadecimal, version, boolean, list.  *)
(***************************************************************************)
EXTENDS Naturals, Sequences, SequencesExt, FiniteSets

Value(text, shapes) == [text |-> text, shapes |-> shapes]
NoValue == Value("", {"list"})

Line(key, value) == [kind |-> "pair", key |-> key, value |-> value]
Blank == [kind |-> "blank", key |-> "", value |-> NoValue]
Section == [kind |-> "section", key |-> "", value |-> NoValue]

HeaderKeys == {"pbind_version", "gd_version", "platform"}
FunctionKeys == {"symbol", "offset", "return", "params", "verified"}

(* serialize_set: the header, then a block per function, in the order of   *)
(* their symbols.  A function is a record of the values of its keys.       *)
Boolean(b) == Value(IF b THEN "true" ELSE "false", {"boolean"})

(* Slip: the flag is written only where it is set. *)
BlockWithFlagIfSet(f) ==
  <<Blank, Section, Line("symbol", f.symbol), Line("offset", Value("0xA0", {"hexadecimal"})),
    Line("return", f.return), Line("params", f.params)>>
    \o (IF f.verified THEN <<Line("verified", Boolean(TRUE))>> ELSE <<>>)

FunctionBlock(f) ==
  <<Blank, Section, Line("symbol", f.symbol), Line("offset", Value("0xA0", {"hexadecimal"})),
    Line("return", f.return), Line("params", f.params),
    Line("verified", Boolean(f.verified))>>

SerializeSet(gd, platform, functions) ==
  <<Line("pbind_version", Value("1", {"decimal"})), Line("gd_version", gd),
    Line("platform", platform)>>
    \o FlattenSeq([i \in DOMAIN functions |-> FunctionBlock(functions[i])])

(* Which values a key takes. *)
WellFormed(key, value) ==
  CASE key = "pbind_version" -> "decimal" \in value.shapes
    [] key = "gd_version" -> "version" \in value.shapes
    [] key = "offset" -> value.shapes \cap {"decimal", "hexadecimal"} # {}
    [] key = "verified" -> "boolean" \in value.shapes
    [] key = "params" -> "list" \in value.shapes
    [] OTHER -> value.text # ""

(* The section the line i is in: 0 is the header. *)
SectionOf(lines, i) ==
  LET starts == {j \in 1 .. i : lines[j].kind = "section"}
  IN  IF starts = {} THEN 0 ELSE CHOOSE j \in starts : \A k \in starts : k <= j

KeysOf(lines, section) ==
  {lines[i].key : i \in {j \in DOMAIN lines :
                           lines[j].kind = "pair" /\ SectionOf(lines, j) = section}}

LineFindings(lines, i) ==
  LET l == lines[i]
      known == IF SectionOf(lines, i) = 0 THEN HeaderKeys ELSE FunctionKeys
  IN  CASE l.kind \in {"blank", "section"} -> {}
        [] l.kind \in {"empty key", "other"} -> {<<i, "MalformedLine">>}
        [] l.kind = "pair" /\ l.key \notin known -> {<<i, "UnknownKey">>}
        [] l.kind = "pair" /\ l.key \in known /\ ~WellFormed(l.key, l.value) ->
             {<<i, "MalformedValue">>}
        [] OTHER -> {}

(* The first occurrence of a key of the header. *)
HeaderLines(lines, key) ==
  LET at == {i \in DOMAIN lines : lines[i].kind = "pair" /\ lines[i].key = key
                                   /\ SectionOf(lines, i) = 0}
  IN  {i \in at : \A j \in at : i <= j}

MissingFields(lines) ==
  UNION {{<<s, "MissingFunctionField", k>> : k \in FunctionKeys \ KeysOf(lines, s)} :
           s \in {i \in DOMAIN lines : lines[i].kind = "section"}}

PathMismatch(lines, gd, platform) ==
  {<<i, "PathHeaderMismatch">> :
     i \in {j \in HeaderLines(lines, "gd_version") : lines[j].value.text # gd}
           \cup {j \in HeaderLines(lines, "platform") : lines[j].value.text # platform}}

LintPbind(lines, gd, platform) ==
  UNION {LineFindings(lines, i) : i \in DOMAIN lines}
    \cup MissingFields(lines)
    \cup {<<0, "MissingHeaderKey", k>> : k \in HeaderKeys \ KeysOf(lines, 0)}
    \cup {<<i, "UnsupportedFormatVersion">> :
            i \in {j \in HeaderLines(lines, "pbind_version") :
                     "decimal" \in lines[j].value.shapes /\ lines[j].value.text # "1"}}
    \cup PathMismatch(lines, gd, platform)

IsDistributable(lines, gd, platform) == LintPbind(lines, gd, platform) = {}

------------------------------------------------------------------------------

(* A file of reference addresses is a sequence of lines [source, key,      *)
(* numeric, number]: does the line hold a token of source code, its key    *)
(* ("" when there is none), is its value a number, and which one: 0 is one *)
(* as well.  Comments are scanned for tokens too.  pair is that of the     *)
(* path, or no pair.                                                       *)
NoPair == "no pair"

RejectedReference == [ok |-> FALSE, pair |-> NoPair, entries |-> {}]

ScanForSourceTokens(lines) == \A i \in DOMAIN lines : ~lines[i].source

ParseGeodeReference(lines, pair) ==
  IF /\ ScanForSourceTokens(lines)
     /\ \A i \in DOMAIN lines : lines[i].key # "" /\ lines[i].numeric
     /\ \A i, j \in DOMAIN lines : i # j => lines[i].key # lines[j].key
  THEN [ok |-> TRUE, pair |-> pair,
        entries |-> {<<lines[i].key, lines[i].number>> : i \in DOMAIN lines}]
  ELSE RejectedReference

(* The command that finds the reference rejected compares nothing. *)
CrossCheck(candidate, reference, pair, symbol) ==
  CASE ~reference.ok -> "Rejected"
    [] reference.ok /\ reference.pair \in {NoPair, pair}
         /\ <<symbol, candidate>> \in reference.entries -> "Concordant"
    [] OTHER -> "Discordant"

ForcesVerifiedFalse(outcome) == outcome \in {"Discordant", "Rejected"}

------------------------------------------------------------------------------

(* A section that is not the first. *)
OpensLater(lines, i) ==
  lines[i].kind = "section" /\ \E j \in 1 .. i - 1 : lines[j].kind = "section"

(* What the generator writes is fit for distribution exactly when every    *)
(* return type is a word and every list of parameters has no empty one;    *)
(* at another path it is not; and it is not when any line is lost but a    *)
(* blank one or a later section (two blocks that run into each other are   *)
(* one with its keys twice, which the linter accepts).                     *)
WrittenPbindsAreChecked(gd, platform, functions) ==
  LET lines == SerializeSet(gd, platform, functions)
  IN  /\ IsDistributable(lines, gd.text, platform.text)
           <=> \A i \in DOMAIN functions : functions[i].return.text # ""
                                          /\ "list" \in functions[i].params.shapes
      /\ ~IsDistributable(lines, gd.text, "another platform")
      /\ \A i \in DOMAIN lines :
           lines[i].kind = "blank" \/ OpensLater(lines, i)
             \/ ~IsDistributable(RemoveAt(lines, i), gd.text, platform.text)

(* One line of source anywhere, in a comment even, and the reference       *)
(* confirms no address; one that is clean confirms just what it says, and  *)
(* nothing that it says of another pair.                                   *)
ReferencesConfirmWhatTheySay(lines, of, pair, symbol, candidate) ==
  LET outcome == CrossCheck(candidate, ParseGeodeReference(lines, of), pair, symbol)
  IN  /\ (\E i \in DOMAIN lines : lines[i].source) => ForcesVerifiedFalse(outcome)
      /\ ~ForcesVerifiedFalse(outcome) =>
           /\ of \in {NoPair, pair}
           /\ \A i \in DOMAIN lines : lines[i].key = symbol => lines[i].number = candidate
           /\ \E i \in DOMAIN lines : lines[i].key = symbol
==============================================================================
