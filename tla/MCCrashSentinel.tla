-------------------------- MODULE MCCrashSentinel --------------------------
(* Two mods; the store holds two records of ModA and one of ModB. *)
EXTENDS CrashSentinel

CONSTANTS ModA, ModB

MCMod == {ModA, ModB}
MCRecords == <<ModA, ModB, ModA>>
=============================================================================
