---------------------------- MODULE MCHookChain -----------------------------
(* Four hooks of two mods on one function.  Nodes 0 and 3 have the same    *)
(* priority and load order, 2 is out of the range of priorities and 1 has  *)
(* no handler.                                                             *)
EXTENDS HookChain

CONSTANTS ModA, ModB, Update1

MCMod == {ModA, ModB}
MCTarget == {Update1}
MCLink == 0..3
MCOwnerOf == [l \in Link |-> IF l \in {0, 2} THEN ModA ELSE ModB]
MCTargetOf == [l \in Link |-> Update1]
MCPriority == [l \in Link |-> CASE l = 2 -> 1200 [] l = 1 -> 1000 [] OTHER -> 500]
MCLoadOrder == [l \in Link |-> IF l = 3 THEN 0 ELSE l]
MCHandled == {0, 2, 3}
=============================================================================
