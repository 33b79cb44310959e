-------------------------- MODULE MCModLifecycle ---------------------------
(* The loader's demo and two mods; both mods hook the function the demo    *)
(* hooks, and ModA another one with a second link and one unresolved.      *)
EXTENDS ModLifecycle

CONSTANTS Demo, ModA, ModB, Init1, Update1

MCMod == {Demo, ModA, ModB}
MCPlanned == {ModA, ModB}
MCOrder == <<ModA, ModB>>
MCTarget == {Init1, Update1}
MCLink == 0..4
MCOwnerOf == [l \in Link |-> CASE l = 0 -> Demo [] l = 4 -> ModB [] OTHER -> ModA]
MCTargetOf == [l \in Link |-> IF l = 2 THEN Update1 ELSE Init1]
MCPriority == [l \in Link |-> IF l = 4 THEN 900 ELSE 500]
MCResolved == MCLink \ {3}
=============================================================================
