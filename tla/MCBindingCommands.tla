-------------------------- MODULE MCBindingCommands --------------------------
(***************************************************************************)
(* The commands about bindings, each checked on its own: a behaviour is    *)
(* one of "catalog" (BindingCatalog), "extract" (CatalogExtraction),       *)
(* "surface" (Surface), "siggen" (ByteSignatures), or one evaluation,      *)
(* "vtables" (GameBuilds) or "text" (PbindFormat).  The variables of the   *)
(* others stay as they were.                                               *)
(***************************************************************************)
EXTENDS BindingCatalog, CatalogExtraction, Surface, MCByteSignatures, TLC

VARIABLES
  part,         \* which of them
  job, checked  \* the input, and its verdict

OneFile(symbol) == "A__B"

(* Symbols 2 and 3 have one file. *)
FileOfSymbol(s) == IF s = 1 THEN "A" ELSE "B"

------------------------------------------------------------------------------

Plain(leaf, stars) == [const |-> FALSE, scope |-> <<>>, leaf |-> leaf, stars |-> stars]
IntType == Plain("int", 0)
Layer == Plain("GJLayer", 1)
Node == [const |-> FALSE, scope |-> <<"cocos2d">>, leaf |-> "CCNode", stars |-> 2]
ConstNode == [const |-> TRUE, scope |-> <<"cocos2d">>, leaf |-> "CCNode", stars |-> 1]
ConstText == [const |-> TRUE, scope |-> <<>>, leaf |-> "char", stars |-> 1]

Abc == [class |-> <<"A">>, method |-> <<"b", "c">>]
Bc == [class |-> <<"B">>, method |-> <<"c">>]
Destructor == [class |-> <<"A">>, method |-> <<"~">>]
Method(s, hook) == [symbol |-> s, priority |-> 500, hook |-> hook]

MCSurfaceManifests ==
  {[methods |-> <<Method(Abc, TRUE)>>, typeMap |-> <<>>],
   [methods |-> <<Method(Abc, TRUE), Method(Bc, FALSE)>>, typeMap |-> (Node :> IntType)],
   [methods |-> <<Method(Abc, TRUE), Method(Abc, FALSE)>>, typeMap |-> <<>>],
   [methods |-> <<Method(Bc, TRUE), Method(Destructor, FALSE)>>, typeMap |-> <<>>],
   [methods |-> <<>>, typeMap |-> <<>>]}

MCSurfaceCatalogs ==
  {(Abc :> <<IntType, Layer>>) @@ (Bc :> <<Node, Layer>>), (Abc :> <<Node, Layer, IntType>>),
   (Abc :> <<ConstText, Layer, ConstNode>>),
   (Bc :> <<Layer>>) @@ (Destructor :> <<IntType>>)}

Game == INSTANCE GameBuilds
          WITH Sentinel <- 999, Unbounded <- 1000, MaxSlots <- 9, PrologueWindow <- 1
Text == INSTANCE PbindFormat

(* Up to two functions, whose signatures have empty parts or not; up to    *)
(* two lines of reference.                                                 *)
TextFunctions ==
  [symbol : {Text!Value("A::b", {})}, verified : BOOLEAN,
   return : {Text!Value("int", {}), Text!Value("", {})},
   params : {Text!Value("", {"list"}), Text!Value("A*, int", {"list"}), Text!Value("A*, ", {})}]

TextJobs ==
  [gd : {Text!Value("2.2081", {"version"})}, platform : {Text!Value("macos-arm64", {})},
   functions : UNION {[1 .. n -> TextFunctions] : n \in 0 .. 2},
   lines : {<<>>}, of : {Text!NoPair}]
    \cup [gd : {Text!Value("2.2081", {"version"})}, platform : {Text!Value("macos-arm64", {})},
          functions : {<<>>},
          lines : UNION {[1 .. n -> [source : BOOLEAN, key : {"", "A::b", "B::c"},
                                     numeric : BOOLEAN, number : {0, 10}]] : n \in 0 .. 2},
          of : {Text!NoPair, "here", "there"}]

NoJob == [gd |-> "none"]

------------------------------------------------------------------------------

MCInit ==
  /\ part \in {"catalog", "extract", "surface", "siggen", "vtables", "text"}
  /\ Init
  /\ ExtractionInit
  /\ IF part = "surface" THEN SurfaceInit
     ELSE /\ inputs = [manifest |-> CHOOSE m \in SurfaceManifests : TRUE,
                       catalog |-> CHOOSE c \in SurfaceCatalogs : TRUE]
          /\ headers = [f \in ToSet(SurfaceFiles) |-> [there |-> FALSE, content |-> {}]]
          /\ surface = NoSurface
          /\ outcome = [said |-> "nothing"] /\ surfaceChanges = 0
  /\ IF part = "siggen" THEN SiggenInit
     ELSE /\ arch = "arm64" /\ function = 1 /\ updates = 0
          /\ program = <<Simple("plain")>> /\ built = program
          /\ declared = NotDeclared /\ verdict = Unchecked
  /\ job \in CASE part = "vtables" -> Game!Builds [] part = "text" -> TextJobs [] OTHER -> {NoJob}
  /\ checked = "not yet"

Verdict(ok) == checked' = IF ok THEN "sound" ELSE "unsound"

TextIsSound ==
  /\ Text!WrittenPbindsAreChecked(job.gd, job.platform, job.functions)
  /\ \A s \in {"A::b", "B::c"}, candidate \in {0, 10} :
       Text!ReferencesConfirmWhatTheySay(job.lines, job.of, "here", s, candidate)

RunJob ==
  /\ checked = "not yet"
  /\ \/ part = "vtables" /\ Verdict(Game!CrossDerivedIsTheMethod(job))
     \/ part = "text" /\ Verdict(TextIsSound)
  /\ UNCHANGED <<vars, part, extractionVars, surfaceVars, siggenVars, job>>

MCNext ==
  \/ part = "catalog" /\ Next
       /\ UNCHANGED <<part, extractionVars, surfaceVars, siggenVars, job, checked>>
  \/ part = "extract" /\ ExtractionNext
       /\ UNCHANGED <<vars, part, surfaceVars, siggenVars, job, checked>>
  \/ part = "surface" /\ SurfaceNext
       /\ UNCHANGED <<vars, part, extractionVars, siggenVars, job, checked>>
  \/ part = "siggen" /\ SiggenNext
       /\ UNCHANGED <<vars, part, extractionVars, surfaceVars, job, checked>>
  \/ RunJob

------------------------------------------------------------------------------

(* Every command keeps its types. *)
BindingsTypeOK ==
  /\ BindingTypeOK /\ ExtractionTypeOK /\ SiggenTypeOK
  /\ part = "surface" => SurfaceTypeOK

(* The addresses that are derived across builds (CrossDerivedIsTheMethod   *)
(* of GameBuilds).                                                         *)
DerivedAddressesAreTrue == part = "vtables" => checked # "unsound"

(* The text of .pbind files, and the reference behind its firewall         *)
(* (WrittenPbindsAreChecked, ReferencesConfirmWhatTheySay of PbindFormat). *)
TextsAreChecked == part = "text" => checked # "unsound"
==============================================================================
