------------------------- MODULE HookChainRegistry --------------------------
(***************************************************************************)
(* The orchestrator of hook chains (loader/hooking/hook_chain_registry):   *)
(* any number of mods hook one function of the game through ONE hook of    *)
(* the backend, whose detour is a stable thunk that jumps to the head of   *)
(* the chain.  Every link forwards through a pointer of its own, its       *)
(* Trampoline_Slot, to the next link, and the last one to the original.    *)
(*                                                                         *)
(* Every public operation runs under the registry's mutex, so here each is *)
(* one step; HookDispatch.tla takes the operations apart into pointer      *)
(* stores and runs the game's calls between them.                          *)
(*                                                                         *)
(* Between operations chains_ holds an address exactly when its ChainSlot  *)
(* is installed, so one set stands for the keys and for that flag.         *)
(***************************************************************************)
EXTENDS ChainOrder, Sequences, FiniteSets

CONSTANTS
  Slotted,        \* links that have a Trampoline_Slot
  Resolved,       \* links whose binding is resolved
  Available,      \* does the backend work on this platform?
  RemoveCanFail,  \* may the backend fail to remove a hook it installed?
  Planned         \* mods of the load plan: those a teardown removes

ASSUME RegistryAssumption ==
  /\ Slotted \subseteq Link
  /\ Resolved \subseteq Link
  /\ Available \in BOOLEAN
  /\ RemoveCanFail \in BOOLEAN
  /\ Planned \subseteq Mod
  /\ IsFiniteSet(Planned)

VARIABLES
  installed,   \* targets that own a ChainSlot marked installed
  chain,       \* [Target -> SUBSET Link]
  head,        \* [Target -> currentHead of the ChainSlot's HeadCell]
  slot,        \* [Link -> content of the link's Trampoline_Slot]
  patch,       \* [Target -> what the game's code at the target jumps to]
  records,     \* the Rollback_Store
  attributed,  \* links the ownership ledger lists as installed
  outcome,     \* the ChainOpOutcomes the last operation returned
  tearing      \* owners a running teardown has still to remove

vars == <<installed, chain, head, slot, patch, records, attributed, outcome, tearing>>

Pointer == Link \cup {NoPtr, RealTrampoline}

(* "thunk": a hook that jumps through the HeadCell of the target's         *)
(* ChainSlot; "dangling": one whose HeadCell was destroyed with its slot.  *)
Patch == {"none", "thunk", "dangling"}

(* What readOriginal copied: the game's code, or the jump of a hook.       *)
RollbackRecord == [owner : Mod, address : Target, bytes : {"original", "hooked"}]

Outcome == {"CreatedInstall", "InsertedHead", "InsertedMiddle", "InsertedTail",
            "RemovedKeepInstall", "RemovedLastInstall", "Rejected"}

TypeOK ==
  /\ installed \subseteq Target
  /\ chain \in [Target -> SUBSET Link]
  /\ head \in [Target -> Pointer]
  /\ slot \in [Link -> Pointer]
  /\ patch \in [Target -> Patch]
  /\ records \subseteq RollbackRecord
  /\ attributed \subseteq Link
  /\ outcome \subseteq Outcome
  /\ tearing \in Seq(Mod)

Init ==
  /\ installed = {}
  /\ chain = [t \in Target |-> {}]
  /\ head = [t \in Target |-> NoPtr]
  /\ slot = [l \in Link |-> NoPtr]
  /\ patch = [t \in Target |-> "none"]
  /\ records = {}
  /\ attributed = {}
  /\ outcome = {}
  /\ tearing = <<>>

-----------------------------------------------------------------------------
(* insertLink *)

(* The caller inserts a registration it has not inserted before, and no    *)
(* other operation holds the mutex.                                        *)
MayInsert(l) ==
  /\ tearing = <<>>
  /\ l \notin chain[TargetOf[l]]

(* A gate predicate fails before anything is touched.                      *)
RejectInsert(l) ==
  /\ MayInsert(l)
  /\ l \notin Resolved \/ (chain[TargetOf[l]] = {} /\ ~Available)
  /\ outcome' = {"Rejected"}
  /\ UNCHANGED <<installed, chain, head, slot, patch, records, attributed, tearing>>

(* Slip: record.owner is left unset. *)
RecordOriginalUnowned(l) ==
  LET r == [owner |-> NoPtr, address |-> TargetOf[l],
            bytes |-> IF patch[TargetOf[l]] = "none" THEN "original" ELSE "hooked"]
  IN  records' \in {records, records \cup {r}}

(* The record of the target's first bytes, as Dobby reads them; reading or *)
(* persisting may fail, and installFirst goes on without.                  *)
RecordOriginal(l) ==
  LET t == TargetOf[l]
      r == [owner |-> OwnerOf[l], address |-> t,
            bytes |-> IF patch[t] = "none" THEN "original" ELSE "hooked"]
  IN  records' \in {records, records \cup {r}}

(* The ledger attributes the link to its owner. *)
AttributeFirstOnly(l) ==   \* slip: only the link that creates the install
  attributed' = IF chain[TargetOf[l]] = {} THEN attributed \cup {l} ELSE attributed
Attribute(l) == attributed' = attributed \cup {l}

(* The backend refuses an address that it has hooked already. *)
BackendAlwaysAccepts(t) == TRUE   \* slip: a second hook on the address
BackendAccepts(t) == patch[t] = "none"

MayInstallFirst(l) ==
  /\ MayInsert(l)
  /\ chain[TargetOf[l]] = {}
  /\ Available
  /\ l \in Resolved

(* 0 -> 1: the backend hooks the function and the link is head and tail.   *)
InstallFirst(l) ==
  LET t == TargetOf[l]
  IN  /\ MayInstallFirst(l)
      /\ BackendAccepts(t)
      /\ RecordOriginal(l)
      /\ patch' = [patch EXCEPT ![t] = "thunk"]
      /\ installed' = installed \cup {t}
      /\ chain' = [chain EXCEPT ![t] = {l}]
      /\ head' = [head EXCEPT ![t] = l]
      /\ slot' = IF l \in Slotted THEN [slot EXCEPT ![l] = RealTrampoline] ELSE slot
      /\ Attribute(l)
      /\ outcome' = {"CreatedInstall"}
      /\ UNCHANGED tearing

(* Slip: the slot created for the link is kept. *)
InstallFailsKeepsSlot(l) ==
  LET t == TargetOf[l]
  IN  /\ MayInstallFirst(l)
      /\ RecordOriginal(l)
      /\ installed' = installed \cup {t}
      /\ outcome' = {"Rejected"}
      /\ UNCHANGED <<chain, head, slot, patch, attributed, tearing>>

(* The backend refuses, as it always does on an address that is hooked     *)
(* already.  The ChainSlot is erased, even one it did not create.          *)
InstallFails(l) ==
  LET t == TargetOf[l]
  IN  /\ MayInstallFirst(l)
      /\ RecordOriginal(l)
      /\ patch' = [patch EXCEPT ![t] = IF @ = "none" THEN "none" ELSE "dangling"]
      /\ installed' = installed \ {t}
      /\ head' = [head EXCEPT ![t] = NoPtr]
      /\ outcome' = {"Rejected"}
      /\ UNCHANGED <<chain, slot, attributed, tearing>>

(* The link that has to forward to l, if l is not the head. *)
NoPredecessor(c, l) == {}   \* slip: only the new link's own slot is written
PredecessorsIn(c, l) == {m \in c : SuccessorIn(c, m) = l}

(* n -> n+1: the neighbours are rewired; the backend is not asked.         *)
InsertSubsequent(l) ==
  LET t    == TargetOf[l]
      c    == chain[t] \cup {l}
      next == SuccessorIn(c, l)
  IN  /\ MayInsert(l)
      /\ chain[t] # {}
      /\ l \in Resolved
      /\ chain' = [chain EXCEPT ![t] = c]
      /\ slot' = [m \in Link |->
                    IF m \notin Slotted THEN slot[m]
                    ELSE IF m = l THEN next
                    ELSE IF m \in PredecessorsIn(c, l) THEN l ELSE slot[m]]
      /\ head' = [head EXCEPT ![t] = IF HeadOf(c) = l THEN l ELSE @]
      /\ Attribute(l)
      /\ outcome' = IF HeadOf(c) = l THEN {"InsertedHead"}
                    ELSE IF next = RealTrampoline THEN {"InsertedTail"}
                    ELSE {"InsertedMiddle"}
      /\ UNCHANGED <<installed, patch, records, tearing>>

-----------------------------------------------------------------------------
(* removeOwner and teardown *)

Holding(owner) == {t \in Target : chain[t] \cap LinksOf(owner) # {}}

(* Targets where nothing but the owner's links is left. *)
EmptiedTooEarly(owner) == Holding(owner)   \* slip: whether others remain is not asked
Emptied(owner) == {t \in Holding(owner) : chain[t] \subseteq LinksOf(owner)}

(* The pointers after a removal: rest holds the chains without the owner,  *)
(* kept the targets it leaves to others, removed those no longer hooked.   *)
HeadsAfterRemoval(rest, kept, removed) ==
  [t \in Target |-> IF t \in kept THEN HeadOf(rest[t])
                    ELSE IF t \in removed THEN NoPtr ELSE head[t]]

SlotsButTheTail(rest, kept) ==   \* slip: the loop stops before the new tail
  [l \in Link |->
     LET t == TargetOf[l]
     IN  IF l \in Slotted /\ t \in kept /\ l \in rest[t] /\ LinksAfter(rest[t], l) # {}
         THEN SuccessorIn(rest[t], l) ELSE slot[l]]
SlotsAfterRemoval(rest, kept) ==
  [l \in Link |->
     LET t == TargetOf[l]
     IN  IF l \in Slotted /\ t \in kept /\ l \in rest[t]
         THEN SuccessorIn(rest[t], l) ELSE slot[l]]

(* The owner leaves every chain.  Where links remain, head and slots are   *)
(* rewritten and the hook stays; where none does, the backend removes the  *)
(* hook, and a slot whose hook it cannot remove (failing) keeps all but    *)
(* its links.  The ledger releases the owner in any case.                  *)
RemoveOwnerLocked(owner, failing) ==
  LET rest    == [t \in Target |-> chain[t] \ LinksOf(owner)]
      kept    == Holding(owner) \ Emptied(owner)
      removed == Emptied(owner) \ failing
  IN  /\ failing \subseteq Emptied(owner)
      /\ failing = {} \/ RemoveCanFail
      /\ chain' = rest
      /\ head' = HeadsAfterRemoval(rest, kept, removed)
      /\ slot' = SlotsAfterRemoval(rest, kept)
      /\ patch' = [t \in Target |-> IF t \in removed THEN "none" ELSE patch[t]]
      /\ installed' = installed \ removed
      /\ attributed' = attributed \ LinksOf(owner)
      /\ outcome' = {o \in Outcome : \/ o = "RemovedKeepInstall" /\ kept # {}
                                     \/ o = "RemovedLastInstall" /\ removed # {}
                                     \/ o = "Rejected" /\ failing # {}}
      /\ UNCHANGED records

RemoveOwner(owner) ==
  /\ tearing = <<>>
  /\ \E failing \in SUBSET Target : RemoveOwnerLocked(owner, failing)
  /\ UNCHANGED tearing

(* The orders in which a teardown may be told to remove the planned mods.  *)
TeardownOrdersButLast ==   \* slip: the reverse loop ends one mod too early
  LET n == Cardinality(Planned)
  IN  {o \in [1 .. n - 1 -> Planned] : \A i, j \in 1 .. n - 1 : i # j => o[i] # o[j]}

TeardownOrders ==
  LET n == Cardinality(Planned)
  IN  {o \in [1..n -> Planned] : \A i, j \in 1..n : i # j => o[i] # o[j]}

BeginTeardown ==
  /\ tearing = <<>>
  /\ tearing' \in TeardownOrders
  /\ UNCHANGED <<installed, chain, head, slot, patch, records, attributed, outcome>>

(* The mutex is held for the whole teardown; a failure does not stop it.   *)
TeardownStep ==
  /\ tearing # <<>>
  /\ \E failing \in SUBSET Target : RemoveOwnerLocked(Head(tearing), failing)
  /\ tearing' = Tail(tearing)

-----------------------------------------------------------------------------
Next ==
  \/ \E l \in Link : \/ RejectInsert(l)
                     \/ InstallFirst(l)
                     \/ InstallFails(l)
                     \/ InsertSubsequent(l)
  \/ \E owner \in Mod : RemoveOwner(owner)
  \/ BeginTeardown
  \/ TeardownStep

Spec == Init /\ [][Next]_vars
-----------------------------------------------------------------------------
(* Safety *)

(* Every target with links has its one hook in place, through the thunk of *)
(* the current slot, and all its pointers agree with the order of the      *)
(* chain: slotInvariantsHold, which the code only asserts, and only for    *)
(* the slot an operation has just changed.                                 *)
Wired ==
  \A t \in Target :
    chain[t] # {} =>
      /\ t \in installed
      /\ patch[t] = "thunk"
      /\ head[t] = HeadOf(chain[t])
      /\ \A l \in chain[t] \cap Slotted : slot[l] = SuccessorIn(chain[t], l)

(* The links a call of the game runs when nothing changes meanwhile: those *)
(* met by following currentHead and the slots.                             *)
CallPath(t) ==
  LET at[n \in 0 .. Cardinality(Link)] ==
        IF n = 0 THEN head[t]
        ELSE IF at[n - 1] \in Slotted THEN slot[at[n - 1]] ELSE at[n - 1]
  IN  at

(* A call to a hooked function runs each link of the chain exactly once,   *)
(* in the order of the chain, and then the original (Req 3.1, 3.4): no     *)
(* sequence of insertions and removals leaves a link out, repeats one or   *)
(* closes a loop.                                                          *)
CallRunsTheChain ==
  \A t \in Target :
    chain[t] # {} /\ chain[t] \subseteq Slotted =>
      LET path == CallPath(t)
          n    == Cardinality(chain[t])
      IN  /\ {path[i] : i \in 0 .. n - 1} = chain[t]
          /\ \A i \in 1 .. n - 1 : Precedes(path[i - 1], path[i])
          /\ path[n] = RealTrampoline

(* The ledger lists exactly the links that are in some chain, for all      *)
(* owners, failed removals included (Req 6.5).                             *)
LedgerIsUnionOfChains == attributed = UNION {chain[t] : t \in Target}

(* The backend holds a hook on an address exactly when the registry has an *)
(* installed slot for it: hook_chain_registry.hpp, "# DobbyHook su address *)
(* == (installed ? 1 : 0)".                                                *)
OneHookPerInstalledSlot == \A t \in Target : patch[t] # "none" <=> t \in installed

(* The thunk of a hooked function never jumps to a link that left the      *)
(* chain: removeLast says that once it has emptied the chain "nessun       *)
(* anello resta abilitato su target".                                      *)
OnlyEnabledLinksAreCalled ==
  \A t \in Target : patch[t] = "thunk" => head[t] \in chain[t]

(* What the store calls originalBytes is the game's code (Req 18.4): a     *)
(* recovery that writes the records back must not write a hook's jump.     *)
RecordsHoldTheOriginal == \A r \in records : r.bytes = "original"

(* What the backend has done to the functions of the game is what the      *)
(* registry believes, no link that left is reached through it, and a       *)
(* restore would give the game its own code back.                          *)
HooksMatchTheRegistry ==
  OneHookPerInstalledSlot /\ OnlyEnabledLinksAreCalled /\ RecordsHoldTheOriginal

-----------------------------------------------------------------------------
(* Action properties *)

(* Removing a mod, in a teardown too, takes no hook and no attribution     *)
(* away from a mod that stays (Req 6.4, 5.5): the targets of its links     *)
(* stay hooked and its links stay in their chains.                         *)
OthersKeepTheirHooks ==
  [][\A owner \in Mod :
       (\E l \in LinksOf(owner) : l \in attributed /\ l \notin attributed') =>
         \A l \in attributed \ LinksOf(owner) :
           /\ l \in attributed'
           /\ l \in chain'[TargetOf[l]]
           /\ patch'[TargetOf[l]] = patch[TargetOf[l]]]_vars

(* A hook the backend once failed to remove stays for the rest of the      *)
(* process, and the target takes no link any more: no later operation      *)
(* retries the removal, and each insertion is refused.                     *)
LostTargetStaysLost ==
  [][\A t \in Target :
       patch[t] # "none" /\ chain[t] = {} => patch'[t] # "none" /\ chain'[t] = {}]_vars

(* When a teardown ends and every removal succeeded, no link of a planned  *)
(* mod is left, nor a hook without links (Req 7.2 - 7.4).                  *)
TeardownLeavesNothingPlanned ==
  [][tearing # <<>> /\ tearing' = <<>> =>
       \A t \in Target :
         /\ \A l \in chain'[t] : OwnerOf[l] \notin Planned
         /\ chain'[t] = {} => patch'[t] = "none"]_vars
=============================================================================
