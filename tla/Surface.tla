-------------------------------- MODULE Surface --------------------------------
(***************************************************************************)
(* pulse surface (cli/src/surface): a manifest selects methods of the game *)
(* for the SDK, the catalog gives their signatures, and the join of both   *)
(* becomes an intermediate file and three C++ headers, each written by a   *)
(* temporary file and a rename.  Manifest and catalog change at any time,  *)
(* and a command may be killed or a write refused.                         *)
(*                                                                         *)
(* An identifier is the sequence of its parts, which "_" joins; a symbol   *)
(* is [class, method].  A type of the game is [const, scope, leaf, stars]: *)
(* with or without a qualifier, the name after its scopes, its pointers.   *)
(***************************************************************************)
EXTENDS Naturals, Sequences, SequencesExt, FiniteSets

CONSTANTS
  SurfaceManifests,  \* each [methods, typeMap]: a sequence of [symbol, priority, hook],
                     \* and a function from types to types
  SurfaceCatalogs,   \* each a function from symbols to sequences of types, the
                     \* first the one that is returned
  MaxSurfaceChanges  \* bound: how often the manifest or the catalog changes

VARIABLES
  inputs,   \* the manifest and the catalog
  headers,  \* the files of the surface
  surface,  \* the command that runs, and what it has read and compiled
  outcome,  \* what the last command reported
  surfaceChanges

CppTypes == [const : BOOLEAN, scope : Seq(STRING), leaf : STRING, stars : Nat]

ASSUME SurfaceAssumption ==
  /\ MaxSurfaceChanges \in Nat
  /\ \A c \in SurfaceCatalogs : \A s \in DOMAIN c : c[s] \in Seq(CppTypes)

surfaceVars == <<inputs, headers, surface, outcome, surfaceChanges>>

Names(methods) == {methods[i].symbol : i \in DOMAIN methods}

(* parse_manifest: a symbol is selected once in the whole manifest. *)
ParsesManifest(m) ==
  \A i, j \in DOMAIN m.methods : m.methods[i].symbol = m.methods[j].symbol => i = j

(* cpp_token_of: every scope becomes a "_".  A part with a character that  *)
(* no identifier has stays what it is.                                     *)
CppTokenOf(s) == s.class \o s.method

IsToken(s) == "~" \notin ToSet(CppTokenOf(s))

Primitives == {"int", "void"}

(* leaf_name: what follows the last scope.  Without a scope the qualifier  *)
(* stays in the name, "const X", and is declared with it.                  *)
LeafName(t) == [const |-> t.const /\ t.scope = <<>>, leaf |-> t.leaf]

(* map_type: the override first, then what is known, then an opaque type.  *)
(* How many pointers there are, and the scopes, are gone.                  *)
MapType(t, typeMap) ==
  LET base == IF t \in DOMAIN typeMap THEN typeMap[t] ELSE t
  IN  IF ~base.const /\ base.scope = <<>> /\ base.leaf \in Primitives
      THEN [opaque |-> FALSE, pointee |-> LeafName(base), stars |-> base.stars]
      ELSE [opaque |-> TRUE, pointee |-> LeafName(base),
            stars |-> IF base.stars > 0 THEN 1 ELSE 0]

(* compile_surface: a method without an entry is left out and reported; a  *)
(* symbol that gives no token fails the whole surface.                     *)
Element(m, method, catalog) ==
  [symbol |-> method.symbol, token |-> CppTokenOf(method.symbol),
   types |-> [i \in DOMAIN catalog[method.symbol] |->
                MapType(catalog[method.symbol][i], m.typeMap)],
   hook |-> method.hook]

Selected(m, catalog) == {x \in ToSet(m.methods) : x.symbol \in DOMAIN catalog}

CompileSurface(m, catalog) ==
  [ok |-> \A x \in Selected(m, catalog) : IsToken(x.symbol),
   missing |-> Names(m.methods) \ DOMAIN catalog,
   elements |-> {Element(m, x, catalog) : x \in Selected(m, catalog)}]

(* Slip: what is only returned is not declared. *)
ParameterPointees(elements) ==
  UNION {{e.types[i].pointee : i \in {j \in 2 .. Len(e.types) : e.types[j].opaque}} : e \in elements}

CollectOpaquePointees(elements) ==
  UNION {{e.types[i].pointee : i \in {j \in DOMAIN e.types : e.types[j].opaque}} : e \in elements}

(* The four files of an intermediate representation, in the order they are *)
(* written.                                                                *)
RenderIr(elements) == elements
RenderTypesHeader(elements) == CollectOpaquePointees(elements)
RenderBindingsHeader(elements) == {[token |-> e.token, fn |-> e.types] : e \in elements}
RenderHooksHeader(elements) == {[symbol |-> e.symbol, fn |-> e.types] : e \in {x \in elements : x.hook}}

SurfaceFiles == <<"surface.ir.json", "types.gen.hpp", "bindings.gen.hpp", "hooks.gen.hpp">>

Artifact(file, elements) ==
  CASE file = "surface.ir.json" -> RenderIr(elements)
    [] file = "types.gen.hpp" -> RenderTypesHeader(elements)
    [] file = "bindings.gen.hpp" -> RenderBindingsHeader(elements)
    [] OTHER -> RenderHooksHeader(elements)

------------------------------------------------------------------------------

NoSurface == [stage |-> "idle", manifest |-> inputs.manifest, catalog |-> inputs.catalog,
              elements |-> {}, next |-> 1, last |-> 0]

SurfaceTypeOK ==
  /\ inputs.manifest \in SurfaceManifests /\ inputs.catalog \in SurfaceCatalogs
  /\ DOMAIN headers = ToSet(SurfaceFiles)
  /\ \A f \in DOMAIN headers : DOMAIN headers[f] = {"there", "content"}
  /\ surface.stage \in {"idle", "compiling", "writing"}
  /\ surface.next \in 1 .. surface.last + 1
  /\ surface.last \in {0, 1, 4}
  /\ outcome.said \in {"nothing", "failed", "strict", "done"}

SurfaceInit ==
  /\ inputs \in [manifest : SurfaceManifests, catalog : SurfaceCatalogs]
  /\ headers = [f \in ToSet(SurfaceFiles) |-> [there |-> FALSE, content |-> {}]]
  /\ surface = NoSurface
  /\ outcome = [said |-> "nothing", last |-> 0, elements |-> {}, manifest |-> inputs.manifest,
                catalog |-> inputs.catalog]
  /\ surfaceChanges = 0

ChangeInputs ==
  /\ surfaceChanges < MaxSurfaceChanges
  /\ surfaceChanges' = surfaceChanges + 1
  /\ \/ \E m \in SurfaceManifests : inputs' = [inputs EXCEPT !.manifest = m]
     \/ \E c \in SurfaceCatalogs : inputs' = [inputs EXCEPT !.catalog = c]
  /\ UNCHANGED <<headers, surface, outcome>>

EndSurface(said) ==
  /\ surface' = [surface EXCEPT !.stage = "idle"]
  /\ outcome' = [said |-> said, last |-> surface.last, elements |-> surface.elements,
                 manifest |-> surface.manifest, catalog |-> surface.catalog]

(* load_surface_inputs: the manifest first, the catalog after it. *)
StartSurface(last) ==
  /\ surface.stage = "idle"
  /\ surface' = [NoSurface EXCEPT !.stage = "compiling", !.last = last]
  /\ outcome' = [outcome EXCEPT !.said = "nothing"]
  /\ UNCHANGED <<inputs, headers, surfaceChanges>>

(* run_surface_compile and run_surface_generate: with --strict, a method   *)
(* that is left out means that nothing is written.                         *)
Compile(strict) ==
  /\ surface.stage = "compiling"
  /\ LET c == CompileSurface(surface.manifest, inputs.catalog)
         read == [surface EXCEPT !.catalog = inputs.catalog, !.elements = c.elements,
                                 !.stage = "writing"]
     IN  IF ~ParsesManifest(surface.manifest) \/ ~c.ok THEN EndSurface("failed")
         ELSE IF strict /\ c.missing # {} THEN EndSurface("strict")
         ELSE surface' = read /\ UNCHANGED outcome
  /\ UNCHANGED <<inputs, headers, surfaceChanges>>

(* The next file, or the end; a write may be refused or the process killed.*)
WriteArtifact ==
  /\ surface.stage = "writing" /\ surface.next <= surface.last
  /\ headers' = [headers EXCEPT
       ![SurfaceFiles[surface.next]] =
          [there |-> TRUE, content |-> Artifact(SurfaceFiles[surface.next], surface.elements)]]
  /\ surface' = [surface EXCEPT !.next = @ + 1]
  /\ UNCHANGED <<inputs, outcome, surfaceChanges>>

ReportSurface ==
  /\ surface.stage = "writing" /\ surface.next > surface.last
  /\ EndSurface("done")
  /\ UNCHANGED <<inputs, headers, surfaceChanges>>

StopSurface ==
  /\ surface.stage # "idle"
  /\ EndSurface("failed")
  /\ UNCHANGED <<inputs, headers, surfaceChanges>>

SurfaceNext ==
  \/ ChangeInputs \/ (\E last \in {1, 4} : StartSurface(last))
  \/ (\E strict \in BOOLEAN : Compile(strict))
  \/ WriteArtifact \/ ReportSurface \/ StopSurface

SurfaceSpec == SurfaceInit /\ [][SurfaceNext]_surfaceVars

------------------------------------------------------------------------------

(* The lint of a manifest is what a compilation would report. *)
LintSurface(m, catalog) ==
  IF ~ParsesManifest(m) THEN {"duplicate"}
  ELSE IF ~CompileSurface(m, catalog).ok THEN {"token"}
  ELSE IF CompileSurface(m, catalog).missing # {} THEN {"missing"} ELSE {}

(* After a generation that ends well, whatever was generated or cut off    *)
(* before it, the headers fit together and the catalog: the bindings have  *)
(* a function type for every method that is selected and known and no      *)
(* other, as long as its signature; every opaque type is declared by the   *)
(* name it is used by, "const X" with its qualifier; every hook that is    *)
(* listed has its binding; and a lint would have found nothing, or just    *)
(* methods that are missing.                                               *)
HeadersFitTogether ==
  outcome.said = "done" /\ outcome.last = 4 /\ surface.stage = "idle" =>
    LET known == Names(outcome.manifest.methods) \cap DOMAIN outcome.catalog
        bindings == headers["bindings.gen.hpp"].content
    IN  /\ {b.token : b \in bindings} = {CppTokenOf(s) : s \in known}
        /\ \A b \in bindings : \E s \in known :
             CppTokenOf(s) = b.token /\ Len(b.fn) = Len(outcome.catalog[s])
        /\ \A b \in bindings : \A i \in DOMAIN b.fn :
             b.fn[i].opaque => b.fn[i].pointee \in headers["types.gen.hpp"].content
        /\ \A h \in headers["hooks.gen.hpp"].content :
             [token |-> CppTokenOf(h.symbol), fn |-> h.fn] \in bindings
        /\ LintSurface(outcome.manifest, outcome.catalog) \subseteq {"missing"}
==============================================================================
