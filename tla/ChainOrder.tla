----------------------------- MODULE ChainOrder -----------------------------
(***************************************************************************)
(* The order of the links of a Hook_Chain.                                 *)
(*                                                                         *)
(* A link is one registration of the SDK's hook registry, named by its     *)
(* index there: that index is the loadOrder which both callers of          *)
(* insertLink pass (ModManagerWiring::installWindow and                    *)
(* group_registry_by_target), so two links never tie and a sorted vector   *)
(* of links is determined by the set of its elements.  Chains are          *)
(* therefore sets here; HookChain.tla keeps the vector and is checked to   *)
(* agree.                                                                  *)
(***************************************************************************)
EXTENDS Integers

CONSTANTS
  Link,           \* indices of the registrations that can become links
  Mod,            \* Mod_Ids
  Target,         \* Target_Addresses
  OwnerOf,        \* [Link -> Mod]
  TargetOf,       \* [Link -> Target]
  Priority,       \* [Link -> Int], the raw priority, before the clamp
  NoPtr,          \* nullptr
  RealTrampoline  \* what the tail forwards to: the trampoline of the backend

ASSUME LinkAssumption ==
  /\ Link \subseteq Nat
  /\ OwnerOf \in [Link -> Mod]
  /\ TargetOf \in [Link -> Target]
  /\ Priority \in [Link -> Int]

ASSUME PointerAssumption ==
  /\ NoPtr \notin Link
  /\ RealTrampoline \notin Link
  /\ NoPtr # RealTrampoline

kHookPriorityMin == 0
kHookPriorityMax == 1000

ClampHookPriority(p) ==
  IF p < kHookPriorityMin THEN kHookPriorityMin
  ELSE IF p > kHookPriorityMax THEN kHookPriorityMax ELSE p

(* Higher priority first, then lower load order. *)
Precedes(a, b) ==
  LET pa == ClampHookPriority(Priority[a])
      pb == ClampHookPriority(Priority[b])
  IN  pa > pb \/ (pa = pb /\ a < b)

(* The Chain_Head of a chain. *)
HeadOf(chain) == CHOOSE a \in chain : \A b \in chain \ {a} : Precedes(a, b)

LinksAfter(chain, l) == {m \in chain : Precedes(l, m)}

(* Where link l forwards: the next link of the chain, or the trampoline.   *)
SuccessorIn(chain, l) ==
  IF LinksAfter(chain, l) = {} THEN RealTrampoline
                               ELSE HeadOf(LinksAfter(chain, l))

LinksOf(owner) == {l \in Link : OwnerOf[l] = owner}

LinksOn(target) == {l \in Link : TargetOf[l] = target}
=============================================================================
