-------------------------- MODULE MCHookDispatch ---------------------------
(* One function of the game and three links; in the order of the chain the *)
(* links of ModA stand on either side of the one of ModB.                  *)
EXTENDS HookDispatch

CONSTANTS ModA, ModB, Update1

MCMod == {ModA, ModB}
MCTarget == {Update1}
MCLink == 0..2
MCOwnerOf == [l \in Link |-> IF l = 1 THEN ModB ELSE ModA]
MCTargetOf == [l \in Link |-> Update1]
MCPriority == [l \in Link |-> CASE l = 2 -> 900 [] l = 1 -> 500 [] OTHER -> 100]
MCPlanned == {ModA}
=============================================================================
