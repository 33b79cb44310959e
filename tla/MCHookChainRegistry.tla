------------------------ MODULE MCHookChainRegistry -------------------------
(* Small instances of the registry.  Two functions of the game; the loader's *)
(* demo and two mods hook them, one of the mods twice.                       *)
EXTENDS HookChainRegistry

CONSTANTS Demo, ModA, ModB, Init1, Update1

MCMod == {Demo, ModA, ModB}
MCTarget == {Init1, Update1}
MCPlanned == {ModA, ModB}
MCLink == 0..5
MCFewerLinks == {0, 1, 3, 4}

MCOwnerOf == [l \in Link |-> CASE l = 0 -> Demo [] l \in {1, 2} -> ModA [] OTHER -> ModB]

MCTargetOf == [l \in Link |-> IF l = 4 THEN Update1 ELSE Init1]

(* Links 0 and 3 tie at the default priority; 1 and 2, both beyond the     *)
(* maximum, tie once they are clamped; 4 is below the minimum.             *)
MCPriority ==
  [l \in Link |-> CASE l \in {0, 3} -> 500 [] l = 1 -> 1001 [] l = 2 -> 5000 [] OTHER -> -7]

(* Link 3 has no slot, and the binding of link 5 is not resolved. *)
MCSomeSlotted == MCLink \ {3}
MCSomeResolved == MCLink \ {5}
=============================================================================
