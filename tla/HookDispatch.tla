---------------------------- MODULE HookDispatch ----------------------------
(***************************************************************************)
(* Calls of the game running through a hook chain while the loader changes *)
(* it.                                                                     *)
(*                                                                         *)
(* The registry serialises its own operations with a mutex, but the game   *)
(* never takes it: a call jumps through the Head_Thunk to currentHead and  *)
(* from each detour through its Trampoline_Slot to the next, reading each  *)
(* pointer when it gets there.  Here an operation of HookChainRegistry     *)
(* begins by taking effect on the registry's own state and then performs   *)
(* the stores of the code one at a time, in the code's order, on what the  *)
(* game reads.                                                             *)
(*                                                                         *)
(* The backend removes a hook whenever it is told to (what follows when it *)
(* cannot is HookChainRegistry's subject), every detour calls the next     *)
(* one, and loads and stores are sequentially consistent.                  *)
(***************************************************************************)
EXTENDS HookChainRegistry, SequencesExt

VARIABLES
  hooked,   \* targets whose code jumps to their Head_Thunk
  cell,     \* [Target -> HeadCell.currentHead as the game reads it]
  cont,     \* [Link -> the link's Trampoline_Slot as the game reads it]
  op,       \* the operation that holds the mutex
  call,     \* the call of the Game_Thread
  freed     \* targets whose HeadCell was destroyed since that call began

memory == <<hooked, cell, cont>>
allVars == <<vars, memory, op, call, freed>>

(* todo: the stores still to do; joins, leaves: the links the operation    *)
(* adds to and takes from the chains.                                      *)
NoOp == [todo |-> <<>>, joins |-> {}, leaves |-> {}]

(* at: where the call jumps next; ran: the links it went through; steady:  *)
(* links in the chain ever since the call began; absent: links not in it   *)
(* when it began; joined: links added since; overlapped: has an install or *)
(* a removal of the hook been under way during the call?                   *)
NoCall == [phase |-> "idle", at |-> NoPtr, ran |-> <<>>, steady |-> {},
           absent |-> {}, joined |-> {}, overlapped |-> FALSE]

Hook(t)       == [cell |-> "hook",   of |-> t, to |-> t]
Unhook(t)     == [cell |-> "unhook", of |-> t, to |-> t]
SetHead(t, p) == [cell |-> "head",   of |-> t, to |-> p]

(* Links without a slot are skipped. *)
StoreSlot(l, p) ==
  IF l \in Slotted THEN <<[cell |-> "slot", of |-> l, to |-> p]>> ELSE <<>>

Store == [cell : {"hook", "unhook", "head", "slot"}, of : Target \cup Link,
          to : Target \cup Pointer]

DispatchTypeOK ==
  /\ hooked \subseteq Target
  /\ cell \in [Target -> Pointer]
  /\ cont \in [Link -> Pointer]
  /\ op \in [todo : Seq(Store), joins : SUBSET Link, leaves : SUBSET Link]
  /\ freed \subseteq Target
  /\ call \in [phase : {"idle", "thunk", "detour", "original", "crashed"},
               at : Pointer \cup Target, ran : Seq(Link), steady : SUBSET Link,
               absent : SUBSET Link, joined : SUBSET Link, overlapped : BOOLEAN]

DispatchInit ==
  /\ Init
  /\ hooked = {}
  /\ cell = [t \in Target |-> NoPtr]
  /\ cont = [l \in Link |-> NoPtr]
  /\ op = NoOp
  /\ call = NoCall /\ freed = {}

-----------------------------------------------------------------------------
(* The stores of each operation, in the order of the code. *)

(* Slip: the slot is left to the first insertion. *)
InstallHeadOnly(l) == <<Hook(TargetOf[l]), SetHead(TargetOf[l], l)>>

InstallStores(l) ==
  <<Hook(TargetOf[l]), SetHead(TargetOf[l], l)>> \o StoreSlot(l, RealTrampoline)

(* The store that makes the chain lead to the new link l. *)
LeadTo(l) ==
  LET t == TargetOf[l]
      c == chain[t] \cup {l}
  IN  IF HeadOf(c) = l THEN <<SetHead(t, l)>>
      ELSE StoreSlot(CHOOSE m \in PredecessorsIn(c, l) : TRUE, l)

(* The store that makes it lead on. *)
LeadOn(l) == StoreSlot(l, SuccessorIn(chain[TargetOf[l]] \cup {l}, l))

(* Slip: the new link starts out as the tail. *)
NewLinkAsTail(l) == StoreSlot(l, RealTrampoline) \o LeadTo(l) \o LeadOn(l)

(* The new link is pointed onwards before anything points to it. *)
InsertStores(l) == LeadOn(l) \o LeadTo(l)

(* The nodes of a chain as the ordered vector has them. *)
OrderedNodes(c) ==
  CHOOSE s \in [1 .. Cardinality(c) -> c] :
    \A i, j \in 1 .. Cardinality(c) : i < j => Precedes(s[i], s[j])

(* Every node is pointed to the next, and the last one to tail. *)
RelinkNodes(nodes, tail) ==
  LET n == Len(nodes)
  IN  FlattenSeq([i \in 1 .. n |-> StoreSlot(nodes[i], IF i < n THEN nodes[i + 1] ELSE tail)])

(* Slip: the last link forwards to the first. *)
RelinkInARing(t, rest) ==
  LET nodes == OrderedNodes(rest)
  IN  <<SetHead(t, nodes[1])>> \o RelinkNodes(nodes, nodes[1])

RelinkStores(t, rest) ==
  LET nodes == OrderedNodes(rest)
  IN  <<SetHead(t, nodes[1])>> \o RelinkNodes(nodes, RealTrampoline)

(* With the last store the ChainSlot is erased, and its HeadCell with it.  *)
RemoveLastStores(t) == <<Unhook(t), SetHead(t, NoPtr)>>

RemovalStores(owner, t) ==
  LET rest == chain[t] \ LinksOf(owner)
  IN  IF t \notin Holding(owner) THEN <<>>
      ELSE IF rest = {} THEN RemoveLastStores(t) ELSE RelinkStores(t, rest)

-----------------------------------------------------------------------------
(* The thread that holds the registry's mutex *)

(* What the call of the game has to do with an operation that begins:      *)
(* chain' is the registry's state after it.                                *)
Account(joins, leaves, todo) ==
  /\ op' = IF todo = <<>> THEN NoOp
           ELSE [todo |-> todo, joins |-> joins, leaves |-> leaves]
  /\ call' = IF call.phase = "idle" THEN call
             ELSE [call EXCEPT !.steady = @ \ leaves,
                               !.joined = @ \cup joins,
                               !.overlapped = @ \/ \E i \in DOMAIN todo :
                                                      todo[i].cell \in {"hook", "unhook"}]
  /\ UNCHANGED <<memory, freed>>

BeginInsert(l) ==
  /\ op = NoOp
  /\ \/ InstallFirst(l) /\ Account({l}, {}, InstallStores(l))
     \/ InsertSubsequent(l) /\ Account({l}, {}, InsertStores(l))

(* Nothing the game reads has changed. *)
BeginRefused(l) ==
  /\ op = NoOp
  /\ RejectInsert(l) \/ InstallFails(l)
  /\ UNCHANGED <<memory, op, call, freed>>

StoresOn(owner, targets) ==
  LET n     == Cardinality(targets)
      order == CHOOSE s \in [1 .. n -> targets] : \A i, j \in 1 .. n : i # j => s[i] # s[j]
  IN  FlattenSeq([i \in 1 .. n |-> RemovalStores(owner, order[i])])

(* removeOwner, or the removal of the next mod of a teardown. *)
BeginRemove(owner) ==
  /\ op = NoOp
  /\ RemoveOwnerLocked(owner, {})
  /\ \/ tearing = <<>> /\ UNCHANGED tearing
     \/ tearing # <<>> /\ owner = Head(tearing) /\ tearing' = Tail(tearing)
  /\ Account({}, LinksOf(owner), StoresOn(owner, Holding(owner)))

DispatchBeginTeardown ==
  /\ op = NoOp
  /\ BeginTeardown
  /\ UNCHANGED <<memory, op, call, freed>>

(* One store of the operation under way; with the last it returns.         *)
StepStore ==
  LET s == Head(op.todo)
  IN  /\ op.todo # <<>>
      /\ hooked' = CASE s.cell = "hook"   -> hooked \cup {s.of}
                     [] s.cell = "unhook" -> hooked \ {s.of}
                     [] OTHER             -> hooked
      /\ cell' = IF s.cell = "head" THEN [cell EXCEPT ![s.of] = s.to] ELSE cell
      /\ cont' = IF s.cell = "slot" THEN [cont EXCEPT ![s.of] = s.to] ELSE cont
      /\ freed' = IF s.cell = "head" /\ s.to = NoPtr THEN freed \cup {s.of} ELSE freed
      /\ op' = IF Len(op.todo) = 1 THEN NoOp ELSE [op EXCEPT !.todo = Tail(@)]
      /\ UNCHANGED <<vars, call>>

-----------------------------------------------------------------------------
(* The Game_Thread *)

(* The game calls a hooked function: the patched code jumps to the thunk.  *)
Enter(t) ==
  /\ call.phase = "idle"
  /\ t \in hooked
  /\ call' = [phase |-> "thunk", at |-> t, ran |-> <<>>,
              steady |-> chain[t] \ op.joins,
              absent |-> Link \ (chain[t] \cup op.leaves),
              joined |-> chain[t] \cap op.joins,
              overlapped |-> chain[t] \subseteq op.joins]
  /\ freed' = {}
  /\ UNCHANGED <<vars, memory, op>>

(* A jump to p, read from the HeadCell or from a slot. *)
JumpTo(p) ==
  IF p = NoPtr THEN "crashed" ELSE IF p = RealTrampoline THEN "original" ELSE "detour"

LoadHead ==
  /\ call.phase = "thunk"
  /\ call' = [call EXCEPT !.at = cell[call.at], !.phase = JumpTo(cell[call.at])]
  /\ UNCHANGED <<vars, memory, op, freed>>

(* The thunk reads the HeadCell it was made for, which is freed memory by  *)
(* now: null as it was left, the cell of a new slot that got the same      *)
(* memory (LoadHead), or anything, of which a crash is the least.          *)
LoadFreedHead ==
  /\ call.phase = "thunk" /\ call.at \in freed
  /\ call' = [call EXCEPT !.at = NoPtr, !.phase = "crashed"]
  /\ UNCHANGED <<vars, memory, op, freed>>

(* No more links than there are, and one for a link that runs twice.       *)
MaxRan == Cardinality(Link) + 1

(* The detour runs, then callOriginal loads its slot.                      *)
RunLink ==
  /\ call.phase = "detour"
  /\ call.at \in Slotted
  /\ call' = [call EXCEPT !.ran = IF Len(@) < MaxRan THEN Append(@, call.at) ELSE @,
                          !.at = cont[call.at],
                          !.phase = JumpTo(cont[call.at])]
  /\ UNCHANGED <<vars, memory, op, freed>>

(* The detour returns without calling the next one, as one without a slot  *)
(* always does, or the original has run.                                   *)
Return ==
  /\ call.phase \in {"detour", "original"}
  /\ call' = NoCall
  /\ UNCHANGED <<vars, memory, op, freed>>

Mutate ==
  \/ \E l \in Link : BeginInsert(l) \/ BeginRefused(l)
  \/ \E owner \in Mod : BeginRemove(owner)
  \/ DispatchBeginTeardown
  \/ StepStore

Dispatch == (\E t \in Target : Enter(t)) \/ LoadHead \/ LoadFreedHead \/ RunLink \/ Return

DispatchNext == Mutate \/ Dispatch

(* A call that has begun keeps running: the game's thread is scheduled.    *)
DispatchSpec ==
  DispatchInit /\ [][DispatchNext]_allVars /\ WF_allVars(LoadHead \/ LoadFreedHead \/ RunLink \/ Return)

-----------------------------------------------------------------------------
(* Properties *)

(* When an operation returns, what the game reads is what the registry's   *)
(* atomic view of the operation says: the individual stores of insertions, *)
(* relinks and removals add up to the wiring that HookChainRegistry proves *)
(* things about.                                                           *)
StoresAddUp ==
  op = NoOp =>
    /\ hooked = {t \in Target : patch[t] # "none"}
    /\ cell = head
    /\ \A t \in Target : \A l \in chain[t] \cap Slotted : cont[l] = slot[l]

(* Whatever the loader does meanwhile, a call runs links in Chain_Order,   *)
(* hence none twice (Req 3.5, 4.4): it may go through links that have left *)
(* the chain, whose slots nobody updates any more, and still never turns   *)
(* back.                                                                   *)
RunsInChainOrder ==
  \A i, j \in DOMAIN call.ran : i < j => Precedes(call.ran[i], call.ran[j])

(* A link that is in the chain from before a call to its end is not        *)
(* skipped by a call that reaches the original, whatever joins or leaves   *)
(* around it (Req 3.6, 5.6).                                               *)
SkipsNoSteadyLink ==
  call.phase = "original" => call.steady \subseteq {call.ran[i] : i \in DOMAIN call.ran}

(* A call that begins after a removal has returned does not run the        *)
(* removed link any more, unless the hook itself was installed or removed  *)
(* meanwhile: the condition under which a mod's code may be unloaded.      *)
RunsNoAbsentLink ==
  ~call.overlapped =>
    \A i \in DOMAIN call.ran : call.ran[i] \notin call.absent \ call.joined

(* Insertions and removals that keep the hook never lead a call to a null  *)
(* pointer.                                                                *)
NullOnlyAroundInstall == call.phase = "crashed" => call.overlapped

(* Rewiring the chain under a call cannot keep it going forever.           *)
CallsEnd == (call.phase # "idle") ~> (call.phase \in {"idle", "crashed"})

(* What the single stores of the loader come to, and that a null pointer   *)
(* is met only while the hook itself is installed or removed.              *)
StoresAreInOrder == DispatchTypeOK /\ StoresAddUp /\ NullOnlyAroundInstall

(* A call runs the links that are there throughout, in order, and none     *)
(* that was not there.                                                     *)
RunsTheSteadyChain == RunsInChainOrder /\ SkipsNoSteadyLink /\ RunsNoAbsentLink
=============================================================================
