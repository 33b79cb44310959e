------------------------------ MODULE GameBuilds ------------------------------
(***************************************************************************)
(* Two builds of the same classes, as compilers lay them out, for the      *)
(* extraction of VtableExtraction: the library with names, and the one     *)
(* without.  A has methods 1 .. base, the last of them maybe pure; I has   *)
(* four; B is an A, and maybe an I after it, whose first method it keeps   *)
(* or overrides; B overrides some methods of A and may add one.            *)
(*                                                                         *)
(* A job is a record [base, second, overridden, adds, pure, target,        *)
(* unnamed, missing, sized, folded].                                       *)
(***************************************************************************)
EXTENDS VtableExtraction, SequencesExt

Of(class, method) == [class |-> class, method |-> method]

(* 11 is the method of I that B overrides, 12 the one that B adds; a call  *)
(* through the I of a B gets to the former by a thunk.                     *)
Thunk == Of("", 11)
Functions == <<Of("A", 1), Of("A", 2), Of("I", 1), Of("I", 2), Of("I", 3), Of("I", 4),
               Of("B", 1), Of("B", 2), Of("B", 11), Of("B", 12), Thunk>>

Classes(j) == IF j.second = "none" THEN <<"A", "B">> ELSE <<"A", "I", "B">>

PrimarySlots(j, class) ==
  CASE class = "A" -> [i \in 1 .. j.base |-> Of("A", i)]
    [] class = "I" -> [i \in 1 .. 4 |-> Of("I", i)]
    [] class = "B" ->
         [i \in 1 .. j.base |-> Of(IF i \in j.overridden THEN "B" ELSE "A", i)]
           \o (IF j.second = "overridden" THEN <<Of("B", 11)>> ELSE <<>>)
           \o (IF j.adds THEN <<Of("B", 12)>> ELSE <<>>)

SecondarySlots(j, class) ==
  IF class # "B" \/ j.second = "none" THEN <<>>
  ELSE <<IF j.second = "kept" THEN Of("I", 1) ELSE Thunk>> \o [i \in 1 .. 3 |-> Of("I", i + 1)]

Position(f) == CHOOSE k \in DOMAIN Functions : Functions[k] = f

IsPure(j, f) == j.pure # "no" /\ f = Of("A", j.base)

(* The linker may fold the method that B adds into the first of A. *)
AndroidAddress(j, f) ==
  IF IsPure(j, f) THEN 0
  ELSE 100 + Position(IF j.folded /\ f = Of("B", 12) THEN Of("A", 1) ELSE f)

(* The place of a pure method has a null, or a word that is no address. *)
TargetAddress(j, f) ==
  IF ~IsPure(j, f) THEN 200 - Position(f) ELSE IF j.pure = "null" THEN 0 ELSE 99

(* Addresses 1 .. 3 hold the names; a type info is two words. *)
NameAt(j, class) == CHOOSE k \in 1 .. 3 : k <= Len(Classes(j)) /\ Classes(j)[k] = class
TypeInfoAt(j, class) == 3 + 2 * NameAt(j, class)
TypeInfos(j) == FlattenSeq([k \in DOMAIN Classes(j) |-> <<98, k>>])
FirstTable(j) == 5 + Len(TypeInfos(j))

(* The tables of a class in one, as the Itanium ABI says. *)
TableGroup(j, class, Address(_, _)) ==
  LET Table(slots) == [i \in DOMAIN slots |-> Address(j, slots[i])]
  IN  <<0, TypeInfoAt(j, class)>> \o Table(PrimarySlots(j, class))
        \o (IF SecondarySlots(j, class) = <<>> THEN <<>>
            ELSE <<97, TypeInfoAt(j, class)>> \o Table(SecondarySlots(j, class)))

Groups(j, Address(_, _)) ==
  [k \in DOMAIN Classes(j) |-> TableGroup(j, Classes(j)[k], Address)]

GroupAt(j, k) ==
  FirstTable(j) + Len(FlattenSeq(SubSeq(Groups(j, AndroidAddress), 1, k - 1)))

Words(first, sequence) == [a \in first .. first + Len(sequence) - 1 |-> sequence[a - first + 1]]

Code == [base |-> 100, end |-> 201, code |-> TRUE]
Data(words) == [base |-> 1, end |-> Max(DOMAIN words) + 1, code |-> FALSE]

VtableSymbols(j, classes, sized) ==
  [k \in DOMAIN classes |->
     LET c == CHOOSE i \in DOMAIN Classes(j) : Classes(j)[i] = classes[k]
     IN  [kind |-> "vtable", class |-> classes[k], address |-> GroupAt(j, c),
          size |-> IF sized THEN Len(Groups(j, AndroidAddress)[c]) ELSE 0]]

(* The library: the words of its tables are relocations. *)
Android(j) ==
  LET words == Words(5, TypeInfos(j) \o FlattenSeq(Groups(j, AndroidAddress)))
  IN  [sections |-> {Code, Data(words)}, words |-> [a \in DOMAIN words |-> 0], relocs |-> words,
       symbols |-> VtableSymbols(j, SelectSeq(Classes(j), LAMBDA c : c # j.missing), j.sized)]

Named(j) == SelectSeq(Functions, LAMBDA f : f \notin {j.unnamed} /\ ~IsPure(j, f)
                                             /\ f.class \in ToSet(Classes(j)) \cup {""})
AndroidSymbols(j) ==
  [k \in DOMAIN Named(j) |->
     [class |-> Named(j)[k].class, method |-> Named(j)[k].method,
      rva |-> AndroidAddress(j, Named(j)[k])]]

Heads(j) == [a \in 180 .. 200 |-> IF a % 2 = 0 THEN "plausible" ELSE "return"]

MachO(j) ==
  LET words == Words(5, TypeInfos(j) \o FlattenSeq(Groups(j, TargetAddress)))
      vtables == VtableSymbols(j, Classes(j), FALSE)
      typeinfos == [k \in DOMAIN Classes(j) |->
                      [kind |-> "typeinfo", class |-> Classes(j)[k],
                       address |-> TypeInfoAt(j, Classes(j)[k]), size |-> 0]]
  IN  [sections |-> {Code, Data(words)}, words |-> words, heads |-> Heads(j),
       names |-> [k \in DOMAIN Classes(j) |-> Classes(j)[k]],
       symbols |-> CASE j.target = "full" -> vtables \o typeinfos
                     [] j.target = "vtables only" -> vtables
                     [] OTHER -> <<>>]

(* In a PE a pointer to the object locator precedes a table; the third     *)
(* locator only looks like one.  The classes have one base at most.        *)
Pe(j) ==
  LET tables == [k \in DOMAIN Classes(j) |->
                   <<k>> \o [i \in DOMAIN PrimarySlots(j, Classes(j)[k]) |->
                               TargetAddress(j, PrimarySlots(j, Classes(j)[k])[i])]]
      words == Words(5, FlattenSeq(tables))
  IN  [sections |-> {Code, Data(words)}, words |-> words, heads |-> Heads(j), symbols |-> <<>>,
       locators |-> {[address |-> k, self |-> k, class |-> Classes(j)[k]] : k \in DOMAIN Classes(j)}
                      \cup {[address |-> 98, self |-> 0, class |-> "A"]}]

Builds ==
  {j \in [base : 1 .. 2, second : {"none", "kept", "overridden"}, overridden : SUBSET (1 .. 2),
          adds : BOOLEAN, pure : {"no", "null", "bind"},
          target : {"full", "vtables only", "stripped", "pe"},
          unnamed : {Of("A", 1), Of("B", 12), Of("I", 1), Of("", 0)},
          missing : {"no class", "A", "B"}, sized : BOOLEAN, folded : BOOLEAN] :
     /\ j.overridden \subseteq 1 .. j.base
     /\ j.target = "pe" => j.second = "none"
     /\ j.folded => j.adds}

(* Every named method whose own class has a table in the library that      *)
(* names it gets either its very address in the other build or none, with  *)
(* or without pure methods, folded functions and methods without a name;   *)
(* and it is verified only if the code at it begins like a function.       *)
CrossDerivedIsTheMethod(j) ==
  LET elf == Android(j)
      target == IF j.target = "pe" THEN Pe(j) ELSE MachO(j)
      vtables == IF j.target = "pe" THEN ReconstructPe(target) ELSE ReconstructMachO(target)
      symbols == AndroidSymbols(j)
      order == ReconstructAndroidVtables(elf, symbols)
      OwnTable(s) == \E t \in order : t.class = s.class
                       /\ \E k \in DOMAIN t.entries : t.entries[k] = s
  IN  \A i \in DOMAIN symbols :
        OwnTable(symbols[i]) =>
          LET written == ExtractCross(elf, symbols, target, vtables, symbols[i])
              truth == TargetAddress(j, Of(symbols[i].class, symbols[i].method))
          IN  /\ written.rva \in {Sentinel, truth}
              /\ written.verified => target.heads[truth] = "plausible"
==============================================================================
