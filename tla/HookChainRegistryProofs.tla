---------------------- MODULE HookChainRegistryProofs -----------------------
(***************************************************************************)
(* What holds of the registry for every set of mods, links and targets.    *)
(***************************************************************************)
EXTENDS HookChainRegistry, SequenceLemmas

-----------------------------------------------------------------------------
(* The order of a chain *)

(* The rank of a clamped priority: a lower rank runs earlier. *)
Rank == [l \in Link |-> kHookPriorityMax - ClampHookPriority(Priority[l])]

LEMMA RankType == Rank \in [Link -> Nat]
<1> SUFFICES ASSUME NEW l \in Link
             PROVE  kHookPriorityMax - ClampHookPriority(Priority[l]) \in Nat
  BY DEF Rank
<1>1. Priority[l] \in Int
  BY LinkAssumption
<1> QED
  BY <1>1 DEF ClampHookPriority, kHookPriorityMin, kHookPriorityMax

LEMMA PrecedesByRank ==
  ASSUME NEW a \in Link, NEW b \in Link
  PROVE  Precedes(a, b) <=> Rank[a] < Rank[b] \/ (Rank[a] = Rank[b] /\ a < b)
<1>1. Priority[a] \in Int /\ Priority[b] \in Int
  BY LinkAssumption
<1>2. /\ Rank[a] = kHookPriorityMax - ClampHookPriority(Priority[a])
      /\ Rank[b] = kHookPriorityMax - ClampHookPriority(Priority[b])
  BY DEF Rank
<1> QED
  BY <1>1, <1>2
  DEF Precedes, ClampHookPriority, kHookPriorityMin, kHookPriorityMax

(* The order of a chain is a strict total order: upper_bound with precedes *)
(* always has exactly one place for a link.                                *)
LEMMA PrecedesIsStrictTotalOrder ==
  /\ \A a \in Link : ~Precedes(a, a)
  /\ \A a, b \in Link : a # b => Precedes(a, b) \/ Precedes(b, a)
  /\ \A a, b \in Link : ~(Precedes(a, b) /\ Precedes(b, a))
  /\ \A a, b, c \in Link : Precedes(a, b) /\ Precedes(b, c) => Precedes(a, c)
<1>1. Rank \in [Link -> Nat] /\ Link \subseteq Nat
  BY RankType, LinkAssumption
<1>2. \A a, b \in Link :
        Precedes(a, b) <=> Rank[a] < Rank[b] \/ (Rank[a] = Rank[b] /\ a < b)
  BY PrecedesByRank
<1> QED
  BY <1>1, <1>2

(* A non-empty chain has a head, which precedes all its other links. *)
LEMMA HeadExists ==
  ASSUME NEW S, S \subseteq Link, S # {}
  PROVE  HeadOf(S) \in S /\ \A b \in S \ {HeadOf(S)} : Precedes(HeadOf(S), b)
<1> DEFINE D == {Rank[l] : l \in S}
<1>1. Rank \in [Link -> Nat] /\ Link \subseteq Nat
  BY RankType, LinkAssumption
<1>2. D \subseteq Nat /\ D # {}
  BY <1>1
<1>3. PICK d \in D : \A e \in D : d <= e
  BY <1>2, LeastNatural
<1> DEFINE T == {l \in S : Rank[l] = d}
<1>4. T \subseteq Nat /\ T # {}
  BY <1>1, <1>3
<1>5. PICK a \in T : \A b \in T : a <= b
  BY <1>4, LeastNatural
<1>6. ASSUME NEW b \in S \ {a} PROVE Precedes(a, b)
  <2>1. a \in Link /\ b \in Link /\ Rank[a] = d
    BY <1>5
  <2>2. d <= Rank[b]
    BY <1>3
  <2>3. Rank[b] = d => a <= b
    BY <1>5
  <2>4. Rank[a] < Rank[b] \/ (Rank[a] = Rank[b] /\ a < b)
    BY <1>1, <2>1, <2>2, <2>3
  <2> QED
    BY <2>1, <2>4, PrecedesByRank
<1> QED
  BY <1>5, <1>6 DEF HeadOf

(* Only one link of a chain precedes all the others. *)
LEMMA HeadIsUnique ==
  ASSUME NEW S, S \subseteq Link, NEW a \in S,
         \A b \in S \ {a} : Precedes(a, b)
  PROVE  a = HeadOf(S)
<1>1. HeadOf(S) \in S /\ \A b \in S \ {HeadOf(S)} : Precedes(HeadOf(S), b)
  BY HeadExists
<1> QED
  BY <1>1, PrecedesIsStrictTotalOrder

(* A link forwards to a link of the chain behind it, or to the trampoline. *)
LEMMA SuccessorIsBehind ==
  ASSUME NEW S, S \subseteq Link, NEW l \in Link
  PROVE  \/ SuccessorIn(S, l) = RealTrampoline
         \/ SuccessorIn(S, l) \in S /\ Precedes(l, SuccessorIn(S, l))
<1>1. LinksAfter(S, l) \subseteq Link
  BY DEF LinksAfter
<1>2. CASE LinksAfter(S, l) = {}
  BY <1>2 DEF SuccessorIn
<1>3. CASE LinksAfter(S, l) # {}
  <2>1. HeadOf(LinksAfter(S, l)) \in LinksAfter(S, l)
    BY <1>1, <1>3, HeadExists
  <2> QED
    BY <2>1, <1>3 DEF SuccessorIn, LinksAfter
<1> QED
  BY <1>2, <1>3

-----------------------------------------------------------------------------
(* The inductive invariant, and types *)

USE DEF LinksOf

(* Links are chained at their own targets, and a slot that is installed    *)
(* has its hook: what Wired needs to be inductive.                         *)
ChainsAreOnTheirTargets == \A t \in Target : chain[t] \subseteq LinksOn(t)

InstalledIsHooked == \A t \in installed : patch[t] = "thunk"

IInv == TypeOK /\ Wired /\ ChainsAreOnTheirTargets /\ InstalledIsHooked

(* Head and successors are pointers whenever they are looked up. *)
LEMMA HeadType ==
  ASSUME NEW S \in SUBSET Link, S # {}
  PROVE  HeadOf(S) \in Link
BY HeadExists

LEMMA SuccessorType ==
  ASSUME NEW S \in SUBSET Link, NEW l \in Link
  PROVE  SuccessorIn(S, l) \in Pointer
BY SuccessorIsBehind DEF Pointer

LEMMA LinkTypes ==
  ASSUME NEW l \in Link
  PROVE  TargetOf[l] \in Target /\ OwnerOf[l] \in Mod
BY LinkAssumption

(* The pointers that a removal writes. *)
LEMMA RemovalPointers ==
  ASSUME TypeOK, NEW owner \in Mod, NEW failing \in SUBSET Target
  PROVE  LET rest    == [t \in Target |-> chain[t] \ LinksOf(owner)]
             kept    == Holding(owner) \ Emptied(owner)
             removed == Emptied(owner) \ failing
         IN  /\ rest \in [Target -> SUBSET Link]
             /\ \A t \in kept : t \in Target /\ rest[t] # {}
             /\ HeadsAfterRemoval(rest, kept, removed) \in [Target -> Pointer]
             /\ SlotsAfterRemoval(rest, kept) \in [Link -> Pointer]
<1> DEFINE rest    == [t \in Target |-> chain[t] \ LinksOf(owner)]
           kept    == Holding(owner) \ Emptied(owner)
           removed == Emptied(owner) \ failing
<1>1. rest \in [Target -> SUBSET Link]
  BY DEF TypeOK
<1>2. \A t \in kept : t \in Target /\ rest[t] # {}
  BY DEF TypeOK, Holding, Emptied
<1> HIDE DEF rest, kept, removed
<1>3. HeadsAfterRemoval(rest, kept, removed) \in [Target -> Pointer]
  <2>1. \A t \in Target : t \in kept => HeadOf(rest[t]) \in Link
    BY <1>1, <1>2, HeadType
  <2>2. head \in [Target -> Pointer]
    BY DEF TypeOK
  <2> QED
    BY <2>1, <2>2 DEF HeadsAfterRemoval, Pointer
<1>4. SlotsAfterRemoval(rest, kept) \in [Link -> Pointer]
  <2>1. \A l \in Link : SuccessorIn(rest[TargetOf[l]], l) \in Pointer
    BY <1>1, LinkTypes, SuccessorType
  <2>2. slot \in [Link -> Pointer]
    BY DEF TypeOK
  <2> QED
    BY <2>1, <2>2 DEF SlotsAfterRemoval
<1> QED
  BY <1>1, <1>2, <1>3, <1>4 DEF rest, kept, removed

LEMMA TypeInit == Init => TypeOK
BY DEF Init, TypeOK, Pointer, Patch, Outcome, RollbackRecord

LEMMA RecordType ==
  ASSUME TypeOK, NEW l \in Link, RecordOriginal(l)
  PROVE  records' \subseteq RollbackRecord
BY LinkTypes DEF TypeOK, RecordOriginal, RollbackRecord

LEMMA RemoveType ==
  ASSUME TypeOK, NEW owner \in Mod, NEW failing \in SUBSET Target,
         RemoveOwnerLocked(owner, failing), tearing' \in Seq(Mod)
  PROVE  TypeOK'
<1> DEFINE rest    == [t \in Target |-> chain[t] \ LinksOf(owner)]
           kept    == Holding(owner) \ Emptied(owner)
           removed == Emptied(owner) \ failing
<1>1. /\ rest \in [Target -> SUBSET Link]
      /\ HeadsAfterRemoval(rest, kept, removed) \in [Target -> Pointer]
      /\ SlotsAfterRemoval(rest, kept) \in [Link -> Pointer]
  BY RemovalPointers
<1>2. chain' \in [Target -> SUBSET Link] /\ head' \in [Target -> Pointer]
      /\ slot' \in [Link -> Pointer]
  BY <1>1 DEF RemoveOwnerLocked
<1>3. patch' \in [Target -> Patch] /\ installed' \subseteq Target
      /\ records' \subseteq RollbackRecord
  BY DEF RemoveOwnerLocked, TypeOK, Patch
<1>4. attributed' \subseteq Link /\ outcome' \subseteq Outcome
  BY DEF RemoveOwnerLocked, TypeOK
<1> QED
  BY <1>2, <1>3, <1>4 DEF TypeOK

LEMMA TypeStep == TypeOK /\ [Next]_vars => TypeOK'
<1> SUFFICES ASSUME TypeOK, [Next]_vars PROVE TypeOK'
  OBVIOUS
<1> USE DEF TypeOK
<1>1. ASSUME NEW l \in Link, RejectInsert(l) PROVE TypeOK'
  BY <1>1 DEF RejectInsert, Outcome
<1>2. ASSUME NEW l \in Link, InstallFirst(l) PROVE TypeOK'
  <2>1. records' \subseteq RollbackRecord
    BY <1>2, RecordType DEF InstallFirst
  <2>2. TargetOf[l] \in Target
    BY LinkTypes
  <2> QED
    BY <1>2, <2>1, <2>2 DEF InstallFirst, Attribute, Outcome, Pointer, Patch
<1>3. ASSUME NEW l \in Link, InstallFails(l) PROVE TypeOK'
  <2>1. records' \subseteq RollbackRecord
    BY <1>3, RecordType DEF InstallFails
  <2>2. TargetOf[l] \in Target
    BY LinkTypes
  <2> QED
    BY <1>3, <2>1, <2>2 DEF InstallFails, Outcome, Pointer, Patch
<1>4. ASSUME NEW l \in Link, InsertSubsequent(l) PROVE TypeOK'
  <2>1. TargetOf[l] \in Target
    BY LinkTypes
  <2>2. SuccessorIn(chain[TargetOf[l]] \cup {l}, l) \in Pointer
    BY <2>1, SuccessorType
  <2>3. slot' \in [Link -> Pointer]
    BY <1>4, <2>2 DEF InsertSubsequent, Pointer
  <2>4. head' \in [Target -> Pointer] /\ chain' \in [Target -> SUBSET Link]
    BY <1>4, <2>1 DEF InsertSubsequent, Pointer
  <2>5. outcome' \subseteq Outcome
    BY <1>4 DEF InsertSubsequent, Outcome
  <2> QED
    BY <1>4, <2>3, <2>4, <2>5 DEF InsertSubsequent, Attribute
<1>5. ASSUME NEW owner \in Mod, RemoveOwner(owner) PROVE TypeOK'
  <2>1. PICK failing \in SUBSET Target : RemoveOwnerLocked(owner, failing)
    BY <1>5 DEF RemoveOwner
  <2>2. tearing' \in Seq(Mod)
    BY <1>5 DEF RemoveOwner
  <2> QED
    BY <2>1, <2>2, RemoveType
<1>6. CASE BeginTeardown
  <2>1. Cardinality(Planned) \in Nat
    BY RegistryAssumption, FS_CardinalityType
  <2>2. PICK n \in Nat : tearing' \in [1 .. n -> Planned]
    BY <1>6, <2>1 DEF BeginTeardown, TeardownOrders
  <2>3. tearing' \in Seq(Mod)
    BY <2>2, RegistryAssumption
  <2> QED
    BY <1>6, <2>3 DEF BeginTeardown
<1>7. CASE TeardownStep
  <2>1. PICK failing \in SUBSET Target : RemoveOwnerLocked(Head(tearing), failing)
    BY <1>7 DEF TeardownStep
  <2>2. Head(tearing) \in Mod /\ tearing' \in Seq(Mod)
    BY <1>7 DEF TeardownStep
  <2> QED
    BY <2>1, <2>2, RemoveType
<1>8. CASE UNCHANGED vars
  BY <1>8 DEF vars
<1> QED
  BY <1>1, <1>2, <1>3, <1>4, <1>5, <1>6, <1>7, <1>8 DEF Next

(* Every state of the registry has its type. *)
THEOREM TypeCorrect == Spec => []TypeOK
BY TypeInit, TypeStep, PTL DEF Spec

-----------------------------------------------------------------------------
(* Adding a link to a chain moves the head only to the new link. *)
LEMMA InsertKeepsHead ==
  ASSUME NEW S \in SUBSET Link, S # {}, NEW l \in Link, HeadOf(S \cup {l}) # l
  PROVE  HeadOf(S \cup {l}) = HeadOf(S)
<1> DEFINE h == HeadOf(S \cup {l})
<1>1. h \in S \cup {l} /\ \A b \in (S \cup {l}) \ {h} : Precedes(h, b)
  BY HeadExists
<1>2. h \in S /\ \A b \in S \ {h} : Precedes(h, b)
  BY <1>1
<1> HIDE DEF h
<1>3. h = HeadOf(S)
  BY <1>2, HeadIsUnique
<1> QED
  BY <1>3 DEF h

(* Adding a link to a chain changes the successor of a link only to it. *)
LEMMA InsertKeepsSuccessors ==
  ASSUME NEW S \in SUBSET Link, NEW l \in Link, NEW m \in Link,
         SuccessorIn(S \cup {l}, m) # l
  PROVE  SuccessorIn(S \cup {l}, m) = SuccessorIn(S, m)
<1>1. CASE ~Precedes(m, l)
  <2>1. LinksAfter(S \cup {l}, m) = LinksAfter(S, m)
    BY <1>1 DEF LinksAfter
  <2> QED
    BY <2>1 DEF SuccessorIn
<1>2. CASE Precedes(m, l)
  <2> DEFINE A == LinksAfter(S, m)
  <2>1. LinksAfter(S \cup {l}, m) = A \cup {l}
    BY <1>2 DEF LinksAfter
  <2>2. A \in SUBSET Link
    BY DEF LinksAfter
  <2> HIDE DEF A
  <2>3. SuccessorIn(S \cup {l}, m) = HeadOf(A \cup {l})
    BY <2>1 DEF SuccessorIn
  <2>4. A # {}
    <3>1. SUFFICES ASSUME A = {} PROVE FALSE
      OBVIOUS
    <3>2. HeadOf({l}) \in {l}
      BY HeadExists
    <3>3. A \cup {l} = {l}
      BY <3>1
    <3> QED
      BY <2>3, <3>2, <3>3
  <2>5. HeadOf(A \cup {l}) = HeadOf(A)
    BY <2>2, <2>3, <2>4, InsertKeepsHead
  <2> QED
    BY <2>3, <2>4, <2>5 DEF SuccessorIn, A
<1> QED
  BY <1>1, <1>2

LEMMA WiredInit == Init => Wired /\ ChainsAreOnTheirTargets /\ InstalledIsHooked
BY DEF Init, Wired, ChainsAreOnTheirTargets, InstalledIsHooked

(* A removal leaves every chain it does not empty wired. *)
LEMMA RemoveKeepsWired ==
  ASSUME IInv, NEW owner \in Mod, NEW failing \in SUBSET Target,
         RemoveOwnerLocked(owner, failing)
  PROVE  Wired' /\ ChainsAreOnTheirTargets' /\ InstalledIsHooked'
<1> DEFINE rest    == [t \in Target |-> chain[t] \ LinksOf(owner)]
           kept    == Holding(owner) \ Emptied(owner)
           removed == Emptied(owner) \ failing
<1>1. /\ chain' = rest
      /\ head' = HeadsAfterRemoval(rest, kept, removed)
      /\ slot' = SlotsAfterRemoval(rest, kept)
      /\ patch' = [t \in Target |-> IF t \in removed THEN "none" ELSE patch[t]]
      /\ installed' = installed \ removed
  BY DEF RemoveOwnerLocked
<1>2. ChainsAreOnTheirTargets' /\ InstalledIsHooked'
  BY <1>1 DEF IInv, ChainsAreOnTheirTargets, InstalledIsHooked, TypeOK
<1>3. ASSUME NEW t \in Target, chain'[t] # {}
      PROVE  /\ t \in installed'
             /\ patch'[t] = "thunk"
             /\ head'[t] = HeadOf(chain'[t])
             /\ \A l \in chain'[t] \cap Slotted : slot'[l] = SuccessorIn(chain'[t], l)
  <2>1. chain'[t] = chain[t] \ LinksOf(owner) /\ chain'[t] = rest[t] /\ chain[t] # {}
    BY <1>1, <1>3
  <2>2. t \notin Emptied(owner)
    BY <2>1, <1>3 DEF Emptied
  <2>3. t \in installed /\ patch[t] = "thunk" /\ head[t] = HeadOf(chain[t])
        /\ \A l \in chain[t] \cap Slotted : slot[l] = SuccessorIn(chain[t], l)
    BY <2>1 DEF IInv, Wired
  <2>4. chain[t] \subseteq LinksOn(t)
    BY DEF IInv, ChainsAreOnTheirTargets
  <2>5. t \in installed' /\ patch'[t] = "thunk"
    BY <1>1, <2>2, <2>3
  <2>6. CASE t \in Holding(owner)
    <3>1. t \in kept
      BY <2>2, <2>6
    <3>2. head'[t] = HeadOf(chain'[t])
      BY <1>1, <2>1, <3>1 DEF HeadsAfterRemoval
    <3>3. ASSUME NEW l \in chain'[t] \cap Slotted
          PROVE  slot'[l] = SuccessorIn(chain'[t], l)
      <4>1. l \in Link /\ TargetOf[l] = t /\ l \in rest[t]
        BY <2>1, <2>4 DEF LinksOn
      <4> HIDE DEF rest, kept, removed
      <4> QED
        BY <1>1, <2>1, <3>1, <4>1 DEF SlotsAfterRemoval
    <3> QED
      BY <2>5, <3>2, <3>3
  <2>7. CASE t \notin Holding(owner)
    <3>1. chain'[t] = chain[t]
      BY <2>1, <2>7 DEF Holding
    <3>2. t \notin kept /\ t \notin removed
      BY <2>7 DEF Emptied
    <3>3. head'[t] = head[t]
      <4> HIDE DEF rest, kept, removed
      <4> QED
        BY <1>1, <3>2 DEF HeadsAfterRemoval
    <3>4. ASSUME NEW l \in chain'[t] \cap Slotted
          PROVE  slot'[l] = slot[l]
      <4>1. l \in Link /\ TargetOf[l] = t
        BY <3>1, <2>4 DEF LinksOn
      <4> HIDE DEF rest, kept, removed
      <4> QED
        BY <1>1, <3>2, <4>1 DEF SlotsAfterRemoval
    <3> QED
      BY <2>3, <2>5, <3>1, <3>3, <3>4
  <2> QED
    BY <2>6, <2>7
<1> QED
  BY <1>2, <1>3 DEF Wired

LEMMA WiredStep == IInv /\ [Next]_vars => Wired' /\ ChainsAreOnTheirTargets' /\ InstalledIsHooked'
<1> SUFFICES ASSUME IInv, [Next]_vars
             PROVE  Wired' /\ ChainsAreOnTheirTargets' /\ InstalledIsHooked'
  OBVIOUS
<1> USE DEF IInv
<1>1. ASSUME NEW l \in Link, RejectInsert(l)
      PROVE  Wired' /\ ChainsAreOnTheirTargets' /\ InstalledIsHooked'
  BY <1>1 DEF RejectInsert, Wired, ChainsAreOnTheirTargets, InstalledIsHooked
<1>2. ASSUME NEW l \in Link, InstallFirst(l)
      PROVE  Wired' /\ ChainsAreOnTheirTargets' /\ InstalledIsHooked'
  <2> DEFINE t == TargetOf[l]
  <2>1. t \in Target
    BY LinkTypes
  <2>2. HeadOf({l}) = l /\ SuccessorIn({l}, l) = RealTrampoline
    <3>1. HeadOf({l}) \in {l}
      BY HeadExists
    <3>2. LinksAfter({l}, l) = {}
      BY PrecedesIsStrictTotalOrder DEF LinksAfter
    <3> QED
      BY <3>1, <3>2 DEF SuccessorIn
  <2>3. InstalledIsHooked' /\ ChainsAreOnTheirTargets'
    BY <1>2, <2>1 DEF InstallFirst, InstalledIsHooked, ChainsAreOnTheirTargets, LinksOn, TypeOK
  <2>4. ASSUME NEW u \in Target, chain'[u] # {}
        PROVE  /\ u \in installed'
               /\ patch'[u] = "thunk"
               /\ head'[u] = HeadOf(chain'[u])
               /\ \A m \in chain'[u] \cap Slotted : slot'[m] = SuccessorIn(chain'[u], m)
    <3>1. CASE u = t
      <4>1. chain'[u] = {l} /\ u \in installed' /\ patch'[u] = "thunk" /\ head'[u] = l
        BY <1>2, <3>1 DEF InstallFirst, TypeOK
      <4>2. l \in Slotted => slot'[l] = RealTrampoline
        BY <1>2 DEF InstallFirst, TypeOK
      <4> QED
        BY <4>1, <4>2, <2>2
    <3>2. CASE u # t
      <4>1. chain'[u] = chain[u] /\ patch'[u] = patch[u] /\ head'[u] = head[u]
            /\ installed \subseteq installed'
        BY <1>2, <3>2 DEF InstallFirst, TypeOK
      <4>2. \A m \in chain[u] : slot'[m] = slot[m]
        <5>1. l \notin chain[u]
          BY <3>2 DEF ChainsAreOnTheirTargets, LinksOn
        <5>2. \A m \in Link : m # l => slot'[m] = slot[m]
          BY <1>2 DEF InstallFirst, TypeOK
        <5> QED
          BY <5>1, <5>2 DEF TypeOK
      <4> QED
        BY <2>4, <4>1, <4>2 DEF Wired
    <3> QED
      BY <3>1, <3>2
  <2> QED
    BY <2>3, <2>4 DEF Wired
<1>3. ASSUME NEW l \in Link, InstallFails(l)
      PROVE  Wired' /\ ChainsAreOnTheirTargets' /\ InstalledIsHooked'
  <2> DEFINE t == TargetOf[l]
  <2>1. t \in Target /\ chain[t] = {}
    BY <1>3, LinkTypes DEF InstallFails, MayInstallFirst
  <2>2. \A u \in Target : u # t => /\ patch'[u] = patch[u] /\ head'[u] = head[u]
                                   /\ (u \in installed' <=> u \in installed)
    BY <1>3, <2>1 DEF InstallFails, TypeOK
  <2>3. t \notin installed' /\ chain' = chain /\ slot' = slot
        /\ installed' \subseteq installed
    BY <1>3 DEF InstallFails
  <2> HIDE DEF t
  <2> QED
    BY <2>1, <2>2, <2>3 DEF Wired, ChainsAreOnTheirTargets, InstalledIsHooked, TypeOK
<1>4. ASSUME NEW l \in Link, InsertSubsequent(l)
      PROVE  Wired' /\ ChainsAreOnTheirTargets' /\ InstalledIsHooked'
  <2> DEFINE t == TargetOf[l]
             c == chain[t] \cup {l}
  <2>1. t \in Target /\ chain[t] # {} /\ chain[t] \in SUBSET Link
    BY <1>4, LinkTypes DEF InsertSubsequent, TypeOK
  <2>2. t \in installed /\ patch[t] = "thunk" /\ head[t] = HeadOf(chain[t])
        /\ \A m \in chain[t] \cap Slotted : slot[m] = SuccessorIn(chain[t], m)
    BY <2>1 DEF Wired
  <2>3. installed' = installed /\ patch' = patch
    BY <1>4 DEF InsertSubsequent
  <2>4. InstalledIsHooked' /\ ChainsAreOnTheirTargets'
    BY <1>4, <2>1, <2>3
    DEF InsertSubsequent, InstalledIsHooked, ChainsAreOnTheirTargets, LinksOn, TypeOK
  <2>5. ASSUME NEW u \in Target, chain'[u] # {}
        PROVE  /\ u \in installed'
               /\ patch'[u] = "thunk"
               /\ head'[u] = HeadOf(chain'[u])
               /\ \A m \in chain'[u] \cap Slotted : slot'[m] = SuccessorIn(chain'[u], m)
    <3>1. CASE u = t
      <4>1. chain'[u] = c
        BY <1>4, <2>1, <3>1 DEF InsertSubsequent, TypeOK
      <4>2. head'[u] = HeadOf(c)
        <5>1. head'[u] = IF HeadOf(c) = l THEN l ELSE head[u]
          BY <1>4, <2>1, <3>1 DEF InsertSubsequent, TypeOK
        <5>2. HeadOf(c) # l => HeadOf(c) = HeadOf(chain[t])
          BY <2>1, InsertKeepsHead
        <5> QED
          BY <5>1, <5>2, <2>2, <3>1
      <4>3. ASSUME NEW m \in c \cap Slotted
            PROVE  slot'[m] = SuccessorIn(c, m)
        <5>1. m \in Link
          BY <2>1
        <5>2. slot'[m] = IF m = l THEN SuccessorIn(c, l)
                         ELSE IF m \in PredecessorsIn(c, l) THEN l ELSE slot[m]
          BY <1>4, <5>1, <4>3 DEF InsertSubsequent
        <5>3. CASE m = l
          BY <5>2, <5>3
        <5>4. CASE m # l /\ SuccessorIn(c, m) = l
          BY <5>2, <5>4, <4>3 DEF PredecessorsIn
        <5>5. CASE m # l /\ SuccessorIn(c, m) # l
          <6>1. slot'[m] = slot[m]
            BY <5>2, <5>5 DEF PredecessorsIn
          <6>2. SuccessorIn(c, m) = SuccessorIn(chain[t], m)
            BY <5>1, <5>5, <2>1, InsertKeepsSuccessors
          <6>3. m \in chain[t] \cap Slotted
            BY <4>3, <5>5
          <6> QED
            BY <6>1, <6>2, <6>3, <2>2
        <5> QED
          BY <5>3, <5>4, <5>5
      <4> QED
        BY <2>2, <2>3, <3>1, <4>1, <4>2, <4>3
    <3>2. CASE u # t
      <4>1. chain'[u] = chain[u] /\ head'[u] = head[u]
        BY <1>4, <3>2 DEF InsertSubsequent, TypeOK
      <4>2. ASSUME NEW m \in chain[u] PROVE slot'[m] = slot[m]
        <5>1. m \in Link /\ TargetOf[m] = u
          BY DEF ChainsAreOnTheirTargets, LinksOn
        <5>2. m # l /\ m \notin c
          BY <3>2, <5>1, <2>1 DEF ChainsAreOnTheirTargets, LinksOn
        <5>3. m \notin PredecessorsIn(c, l)
          BY <5>2 DEF PredecessorsIn
        <5> HIDE DEF c
        <5>4. slot'[m] = IF m \notin Slotted THEN slot[m]
                         ELSE IF m = l THEN SuccessorIn(c, l)
                         ELSE IF m \in PredecessorsIn(c, l) THEN l ELSE slot[m]
          BY <1>4, <5>1 DEF InsertSubsequent, c
        <5> QED
          BY <5>2, <5>3, <5>4
      <4>3. /\ u \in installed
            /\ patch[u] = "thunk"
            /\ head[u] = HeadOf(chain[u])
            /\ \A m \in chain[u] \cap Slotted : slot[m] = SuccessorIn(chain[u], m)
        BY <2>5, <4>1 DEF Wired
      <4> QED
        BY <2>3, <4>1, <4>2, <4>3
    <3> QED
      BY <3>1, <3>2
  <2> QED
    BY <2>4, <2>5 DEF Wired
<1>5. ASSUME NEW owner \in Mod, RemoveOwner(owner)
      PROVE  Wired' /\ ChainsAreOnTheirTargets' /\ InstalledIsHooked'
  BY <1>5, RemoveKeepsWired DEF RemoveOwner
<1>6. CASE BeginTeardown
  BY <1>6 DEF BeginTeardown, Wired, ChainsAreOnTheirTargets, InstalledIsHooked
<1>7. CASE TeardownStep
  <2>1. Head(tearing) \in Mod
    BY <1>7 DEF TeardownStep, TypeOK
  <2> QED
    BY <1>7, <2>1, RemoveKeepsWired DEF TeardownStep
<1>8. CASE UNCHANGED vars
  BY <1>8 DEF vars, Wired, ChainsAreOnTheirTargets, InstalledIsHooked
<1> QED
  BY <1>1, <1>2, <1>3, <1>4, <1>5, <1>6, <1>7, <1>8 DEF Next

LEMMA Inductive == Spec => []IInv
<1>1. Init => IInv
  BY TypeInit, WiredInit DEF IInv
<1>2. IInv /\ [Next]_vars => IInv'
  BY TypeStep, WiredStep DEF IInv
<1> QED
  BY <1>1, <1>2, PTL DEF Spec

(* In every state every chain is wired: the head is the first link, each   *)
(* link forwards to the next, the last one to the original, and the one    *)
(* hook of the target leads there.                                         *)
THEOREM ChainsAreWired == Spec => []Wired
<1>1. IInv => Wired
  BY DEF IInv
<1> QED
  BY <1>1, Inductive, PTL

-----------------------------------------------------------------------------
(* The ledger *)

(* What a step does to the ledger it does to the one chain the link is on. *)
LedgerFollowsChains == \A l \in Link : l \in attributed <=> l \in chain[TargetOf[l]]

LEMMA LedgerIsTheUnion ==
  ASSUME IInv
  PROVE  LedgerFollowsChains <=> LedgerIsUnionOfChains
<1>1. \A t \in Target : chain[t] \subseteq Link /\ \A l \in chain[t] : TargetOf[l] = t
  BY DEF IInv, ChainsAreOnTheirTargets, LinksOn
<1>2. \A l \in Link : TargetOf[l] \in Target
  BY LinkTypes
<1>3. \A l \in Link :
        l \in chain[TargetOf[l]] <=> l \in UNION {chain[t] : t \in Target}
  BY <1>1, <1>2
<1>4. attributed \subseteq Link /\ UNION {chain[t] : t \in Target} \subseteq Link
  BY <1>1 DEF IInv, TypeOK
<1> QED
  BY <1>3, <1>4 DEF LedgerFollowsChains, LedgerIsUnionOfChains

(* An inserted link enters the ledger and its chain, no other link moves.  *)
LEMMA InsertKeepsLedger ==
  ASSUME TypeOK, LedgerFollowsChains, NEW l \in Link,
         chain' = [chain EXCEPT ![TargetOf[l]] = chain[TargetOf[l]] \cup {l}],
         Attribute(l)
  PROVE  LedgerFollowsChains'
<1>1. ASSUME NEW m \in Link
      PROVE  m \in attributed' <=> m \in chain'[TargetOf[m]]
  <2>1. TargetOf[m] \in Target /\ TargetOf[l] \in Target
    BY LinkTypes
  <2> QED
    BY <2>1 DEF Attribute, TypeOK, LedgerFollowsChains
<1> QED
  BY <1>1 DEF LedgerFollowsChains

LEMMA RemoveKeepsLedger ==
  ASSUME TypeOK, LedgerFollowsChains, NEW owner \in Mod, NEW failing \in SUBSET Target,
         RemoveOwnerLocked(owner, failing)
  PROVE  LedgerFollowsChains'
<1>1. ASSUME NEW m \in Link
      PROVE  m \in attributed' <=> m \in chain'[TargetOf[m]]
  <2>1. TargetOf[m] \in Target
    BY LinkTypes
  <2> QED
    BY <2>1 DEF RemoveOwnerLocked, LedgerFollowsChains
<1> QED
  BY <1>1 DEF LedgerFollowsChains

LEMMA LedgerStep == IInv /\ LedgerFollowsChains /\ [Next]_vars => LedgerFollowsChains'
<1> SUFFICES ASSUME IInv, LedgerFollowsChains, [Next]_vars
             PROVE  LedgerFollowsChains'
  OBVIOUS
<1> USE DEF IInv
<1>1. ASSUME NEW l \in Link, RejectInsert(l) PROVE LedgerFollowsChains'
  BY <1>1 DEF RejectInsert, LedgerFollowsChains
<1>2. ASSUME NEW l \in Link, InstallFirst(l) PROVE LedgerFollowsChains'
  <2>1. chain' = [chain EXCEPT ![TargetOf[l]] = chain[TargetOf[l]] \cup {l}]
    BY <1>2 DEF InstallFirst, MayInstallFirst
  <2> QED
    BY <1>2, <2>1, InsertKeepsLedger DEF InstallFirst
<1>3. ASSUME NEW l \in Link, InstallFails(l) PROVE LedgerFollowsChains'
  BY <1>3 DEF InstallFails, LedgerFollowsChains
<1>4. ASSUME NEW l \in Link, InsertSubsequent(l) PROVE LedgerFollowsChains'
  BY <1>4, InsertKeepsLedger DEF InsertSubsequent
<1>5. ASSUME NEW owner \in Mod, RemoveOwner(owner) PROVE LedgerFollowsChains'
  BY <1>5, RemoveKeepsLedger DEF RemoveOwner
<1>6. CASE BeginTeardown
  BY <1>6 DEF BeginTeardown, LedgerFollowsChains
<1>7. CASE TeardownStep
  <2>1. Head(tearing) \in Mod
    BY <1>7 DEF TeardownStep, TypeOK
  <2> QED
    BY <1>7, <2>1, RemoveKeepsLedger DEF TeardownStep
<1>8. CASE UNCHANGED vars
  BY <1>8 DEF vars, LedgerFollowsChains
<1> QED
  BY <1>1, <1>2, <1>3, <1>4, <1>5, <1>6, <1>7, <1>8 DEF Next

LEMMA LedgerInductive == Spec => [](IInv /\ LedgerFollowsChains)
<1>1. Init => LedgerFollowsChains
  BY LinkTypes DEF Init, LedgerFollowsChains
<1> QED
  BY <1>1, LedgerStep, Inductive, PTL DEF Spec

(* The ledger lists exactly the links that are in some chain, whichever    *)
(* removals the backend fails.                                             *)
THEOREM LedgerCorrect == Spec => []LedgerIsUnionOfChains
<1>1. IInv /\ LedgerFollowsChains => LedgerIsUnionOfChains
  BY LedgerIsTheUnion
<1> QED
  BY <1>1, LedgerInductive, PTL

-----------------------------------------------------------------------------
(* What a removal may never do *)

(* Only a removal takes a link out of the ledger. *)
LEMMA OnlyRemovalsRelease ==
  ASSUME [Next]_vars, NEW l \in attributed, l \notin attributed', TypeOK
  PROVE  \E owner \in Mod, failing \in SUBSET Target : RemoveOwnerLocked(owner, failing)
<1>1. ASSUME NEW m \in Link, RejectInsert(m) PROVE FALSE
  BY <1>1 DEF RejectInsert
<1>2. ASSUME NEW m \in Link, InstallFirst(m) PROVE FALSE
  BY <1>2 DEF InstallFirst, Attribute
<1>3. ASSUME NEW m \in Link, InstallFails(m) PROVE FALSE
  BY <1>3 DEF InstallFails
<1>4. ASSUME NEW m \in Link, InsertSubsequent(m) PROVE FALSE
  BY <1>4 DEF InsertSubsequent, Attribute
<1>5. ~BeginTeardown /\ ~UNCHANGED vars
  BY DEF BeginTeardown, vars
<1>6. CASE \E owner \in Mod : RemoveOwner(owner)
  BY <1>6 DEF RemoveOwner
<1>7. CASE TeardownStep
  <2>1. Head(tearing) \in Mod
    BY <1>7 DEF TeardownStep, TypeOK
  <2> QED
    BY <1>7, <2>1 DEF TeardownStep
<1> QED
  BY <1>1, <1>2, <1>3, <1>4, <1>5, <1>6, <1>7 DEF Next

(* Removing a mod takes no hook and no attribution from a mod that stays.  *)
THEOREM RemovalSparesOthers == Spec => OthersKeepTheirHooks
<1> DEFINE Spares(owner) ==
      (\E l \in LinksOf(owner) : l \in attributed /\ l \notin attributed') =>
        \A l \in attributed \ LinksOf(owner) :
          /\ l \in attributed'
          /\ l \in chain'[TargetOf[l]]
          /\ patch'[TargetOf[l]] = patch[TargetOf[l]]
<1>1. ASSUME IInv, LedgerFollowsChains, [Next]_vars, NEW owner \in Mod PROVE Spares(owner)
  <2> SUFFICES ASSUME NEW m \in LinksOf(owner), m \in attributed, m \notin attributed',
                      NEW l \in attributed \ LinksOf(owner)
               PROVE  /\ l \in attributed'
                      /\ l \in chain'[TargetOf[l]]
                      /\ patch'[TargetOf[l]] = patch[TargetOf[l]]
    OBVIOUS
  <2>1. PICK gone \in Mod, failing \in SUBSET Target : RemoveOwnerLocked(gone, failing)
    BY <1>1, OnlyRemovalsRelease DEF IInv
  <2>2. gone = owner
    BY <2>1 DEF RemoveOwnerLocked
  <2>3. l \in Link /\ TargetOf[l] \in Target /\ l \in chain[TargetOf[l]]
    BY <1>1, LinkTypes DEF IInv, TypeOK, LedgerFollowsChains
  <2>4. l \in attributed' /\ l \in chain'[TargetOf[l]]
    BY <2>1, <2>2, <2>3 DEF RemoveOwnerLocked
  <2>5. TargetOf[l] \notin Emptied(owner)
    BY <2>3 DEF Emptied
  <2>6. patch'[TargetOf[l]] = patch[TargetOf[l]]
    BY <2>1, <2>2, <2>3, <2>5 DEF RemoveOwnerLocked
  <2> QED
    BY <2>4, <2>6
<1>2. IInv /\ LedgerFollowsChains /\ [Next]_vars => \A owner \in Mod : Spares(owner)
  BY <1>1
<1>3. IInv /\ LedgerFollowsChains /\ [Next]_vars => [\A owner \in Mod : Spares(owner)]_vars
  BY <1>2
<1> QED
  BY <1>3, LedgerInductive, PTL DEF Spec, OthersKeepTheirHooks

(* A hook that the backend failed to remove stays, and its target takes no *)
(* link any more: the backend refuses the address.                         *)
THEOREM LostHooksStay == Spec => LostTargetStaysLost
<1> DEFINE Lost(t) == patch[t] # "none" /\ chain[t] = {}
           StaysLost(t) == patch'[t] # "none" /\ chain'[t] = {}
<1>1. ASSUME TypeOK, [Next]_vars, NEW t \in Target, Lost(t) PROVE StaysLost(t)
  <2>1. ASSUME NEW l \in Link, RejectInsert(l) PROVE StaysLost(t)
    BY <1>1, <2>1 DEF RejectInsert
  <2>2. ASSUME NEW l \in Link, InstallFirst(l) PROVE StaysLost(t)
    <3>1. TargetOf[l] # t
      BY <1>1, <2>2 DEF InstallFirst, BackendAccepts
    <3> QED
      BY <1>1, <2>2, <3>1 DEF InstallFirst, TypeOK
  <2>3. ASSUME NEW l \in Link, InstallFails(l) PROVE StaysLost(t)
    BY <1>1, <2>3 DEF InstallFails, TypeOK
  <2>4. ASSUME NEW l \in Link, InsertSubsequent(l) PROVE StaysLost(t)
    <3>1. TargetOf[l] # t
      BY <1>1, <2>4 DEF InsertSubsequent
    <3> QED
      BY <1>1, <2>4, <3>1 DEF InsertSubsequent, TypeOK
  <2>5. ASSUME NEW owner, NEW failing, RemoveOwnerLocked(owner, failing)
        PROVE  StaysLost(t)
    <3>1. t \notin Emptied(owner)
      BY <1>1 DEF Emptied, Holding
    <3> QED
      BY <1>1, <2>5, <3>1 DEF RemoveOwnerLocked
  <2>6. CASE BeginTeardown
    BY <1>1, <2>6 DEF BeginTeardown
  <2>7. CASE UNCHANGED vars
    BY <1>1, <2>7 DEF vars
  <2> QED
    BY <1>1, <2>1, <2>2, <2>3, <2>4, <2>5, <2>6, <2>7 DEF Next, RemoveOwner, TeardownStep
<1>2. TypeOK /\ [Next]_vars => [\A t \in Target : Lost(t) => StaysLost(t)]_vars
  BY <1>1
<1> QED
  BY <1>2, TypeCorrect, PTL DEF Spec, LostTargetStaysLost

-----------------------------------------------------------------------------
(* A backend that removes what it installed *)

(* Without links there is neither a hook nor a slot. *)
NoStrayHooks == \A t \in Target : chain[t] = {} => patch[t] = "none" /\ t \notin installed

TrueToTheBackend == IInv /\ NoStrayHooks /\ RecordsHoldTheOriginal

LEMMA RemovalLeavesNoStrayHook ==
  ASSUME ~RemoveCanFail, IInv, NoStrayHooks,
         NEW owner \in Mod, NEW failing \in SUBSET Target, RemoveOwnerLocked(owner, failing)
  PROVE  NoStrayHooks'
<1>1. ASSUME NEW t \in Target, chain'[t] = {}
      PROVE  patch'[t] = "none" /\ t \notin installed'
  <2>1. chain[t] \subseteq LinksOf(owner) /\ failing = {}
    BY <1>1 DEF RemoveOwnerLocked, IInv, TypeOK
  <2>2. CASE chain[t] = {}
    BY <2>2 DEF NoStrayHooks, RemoveOwnerLocked
  <2>3. CASE chain[t] # {}
    <3>1. t \in Emptied(owner) \ failing
      BY <2>1, <2>3 DEF Emptied, Holding
    <3> QED
      BY <3>1 DEF RemoveOwnerLocked
  <2> QED
    BY <2>2, <2>3
<1> QED
  BY <1>1 DEF NoStrayHooks

(* A record is made where the target has no link yet, hence no hook. *)
LEMMA RecordHoldsTheOriginal ==
  ASSUME NoStrayHooks, RecordsHoldTheOriginal, NEW l \in Link,
         MayInstallFirst(l), RecordOriginal(l)
  PROVE  RecordsHoldTheOriginal'
BY LinkTypes DEF NoStrayHooks, RecordsHoldTheOriginal, MayInstallFirst, RecordOriginal

LEMMA TrueToTheBackendStep ==
  ASSUME ~RemoveCanFail, TrueToTheBackend, [Next]_vars
  PROVE  TrueToTheBackend'
<1> USE DEF TrueToTheBackend
<1> SUFFICES NoStrayHooks' /\ RecordsHoldTheOriginal'
  BY TypeStep, WiredStep DEF IInv
<1>1. ASSUME NEW l \in Link, RejectInsert(l) PROVE NoStrayHooks' /\ RecordsHoldTheOriginal'
  BY <1>1 DEF RejectInsert, NoStrayHooks, RecordsHoldTheOriginal
<1>2. ASSUME NEW l \in Link, InstallFirst(l) PROVE NoStrayHooks' /\ RecordsHoldTheOriginal'
  <2>1. NoStrayHooks'
    BY <1>2, LinkTypes DEF InstallFirst, NoStrayHooks, IInv, TypeOK
  <2> QED
    BY <1>2, <2>1, RecordHoldsTheOriginal DEF InstallFirst
<1>3. ASSUME NEW l \in Link, InstallFails(l) PROVE NoStrayHooks' /\ RecordsHoldTheOriginal'
  <2>1. NoStrayHooks'
    BY <1>3, LinkTypes DEF InstallFails, MayInstallFirst, NoStrayHooks, IInv, TypeOK
  <2> QED
    BY <1>3, <2>1, RecordHoldsTheOriginal DEF InstallFails
<1>4. ASSUME NEW l \in Link, InsertSubsequent(l) PROVE NoStrayHooks' /\ RecordsHoldTheOriginal'
  BY <1>4, LinkTypes DEF InsertSubsequent, NoStrayHooks, RecordsHoldTheOriginal, IInv, TypeOK
<1>5. ASSUME NEW owner \in Mod, RemoveOwner(owner) PROVE NoStrayHooks' /\ RecordsHoldTheOriginal'
  BY <1>5, RemovalLeavesNoStrayHook DEF RemoveOwner, RemoveOwnerLocked, RecordsHoldTheOriginal
<1>6. CASE BeginTeardown
  BY <1>6 DEF BeginTeardown, NoStrayHooks, RecordsHoldTheOriginal
<1>7. CASE TeardownStep
  <2>1. Head(tearing) \in Mod
    BY <1>7 DEF TeardownStep, IInv, TypeOK
  <2> QED
    BY <1>7, <2>1, RemovalLeavesNoStrayHook
    DEF TeardownStep, RemoveOwnerLocked, RecordsHoldTheOriginal
<1>8. CASE UNCHANGED vars
  BY <1>8 DEF vars, NoStrayHooks, RecordsHoldTheOriginal
<1> QED
  BY <1>1, <1>2, <1>3, <1>4, <1>5, <1>6, <1>7, <1>8 DEF Next

LEMMA TrueToTheBackendInductive ==
  ASSUME ~RemoveCanFail
  PROVE  Spec => []TrueToTheBackend
<1>1. Init => TrueToTheBackend
  BY TypeInit, WiredInit
  DEF Init, TrueToTheBackend, IInv, NoStrayHooks, RecordsHoldTheOriginal
<1>2. TrueToTheBackend /\ [Next]_vars => TrueToTheBackend'
  BY TrueToTheBackendStep
<1> QED
  BY <1>1, <1>2, PTL DEF Spec

(* With a backend that removes what it installed, a function is hooked     *)
(* exactly when the registry has an installed slot for it, the thunk leads *)
(* to a link of the chain, and every rollback record holds the game's own  *)
(* bytes.                                                                  *)
THEOREM HooksMatch ==
  ASSUME ~RemoveCanFail
  PROVE  Spec => []HooksMatchTheRegistry
<1>1. ASSUME TrueToTheBackend, NEW t \in Target
      PROVE  /\ patch[t] # "none" <=> t \in installed
             /\ patch[t] = "thunk" => head[t] \in chain[t]
  <2>1. CASE chain[t] = {}
    BY <1>1, <2>1 DEF TrueToTheBackend, NoStrayHooks
  <2>2. CASE chain[t] # {}
    <3>1. chain[t] \subseteq Link
      BY <1>1 DEF TrueToTheBackend, IInv, TypeOK
    <3>2. HeadOf(chain[t]) \in chain[t]
      BY <2>2, <3>1, HeadExists
    <3> QED
      BY <1>1, <2>2, <3>2 DEF TrueToTheBackend, IInv, Wired
  <2> QED
    BY <2>1, <2>2
<1>2. TrueToTheBackend => HooksMatchTheRegistry
  BY <1>1 DEF TrueToTheBackend, HooksMatchTheRegistry, OneHookPerInstalledSlot,
              OnlyEnabledLinksAreCalled
<1> QED
  BY <1>2, TrueToTheBackendInductive, PTL

-----------------------------------------------------------------------------
(* Teardown *)

StillToRemove == {tearing[i] : i \in 1 .. Len(tearing)}

(* While a teardown runs, a planned mod that has links is still to come.   *)
PlannedAreStillToRemove ==
  tearing # <<>> =>
    \A t \in Target, l \in Link : l \in chain[t] /\ OwnerOf[l] \in Planned =>
      OwnerOf[l] \in StillToRemove

(* An order of the teardown lists every planned mod: it lists as many as   *)
(* there are, none twice.                                                  *)
LEMMA OrdersListEveryPlannedMod ==
  ASSUME NEW order \in TeardownOrders
  PROVE  /\ order \in Seq(Mod)
         /\ \A mod \in Planned : \E i \in 1 .. Len(order) : order[i] = mod
<1> DEFINE n == Cardinality(Planned)
<1>1. n \in Nat /\ IsFiniteSet(Planned) /\ Planned \subseteq Mod
  BY RegistryAssumption, FS_CardinalityType
<1>2. IsFiniteSet(1 .. n) /\ Cardinality(1 .. n) = n
  BY <1>1, FS_Interval
<1>3. order \in [1 .. n -> Planned] /\ \A i, j \in 1 .. n : i # j => order[i] # order[j]
  BY DEF TeardownOrders
<1> HIDE DEF n
<1>4. order \in Injection(1 .. n, Planned)
  BY <1>3 DEF Injection, IsInjective
<1>5. order \in Surjection(1 .. n, Planned)
  BY <1>1, <1>2, <1>4, FS_Injection DEF n
<1>6. Len(order) = n /\ order \in Seq(Mod)
  BY <1>1, <1>3
<1> QED
  BY <1>5, <1>6 DEF Surjection

(* One removal of a teardown takes away the links of the first mod in      *)
(* line, and only those.                                                   *)
LEMMA TeardownStepRemovesTheFirst ==
  ASSUME TypeOK, PlannedAreStillToRemove, TeardownStep,
         NEW t \in Target, NEW l \in chain'[t], OwnerOf[l] \in Planned
  PROVE  \E i \in 1 .. Len(tearing') : tearing'[i] = OwnerOf[l]
<1>1. tearing \in Seq(Mod) /\ tearing # <<>> /\ tearing' = Tail(tearing)
  BY DEF TypeOK, TeardownStep
<1>2. l \in chain[t] /\ l \in Link /\ OwnerOf[l] # Head(tearing)
  BY DEF TeardownStep, RemoveOwnerLocked, TypeOK
<1>3. PICK i \in 1 .. Len(tearing) : tearing[i] = OwnerOf[l]
  BY <1>1, <1>2 DEF PlannedAreStillToRemove, StillToRemove
<1>4. i # 1
  BY <1>1, <1>2, <1>3
<1>5. i - 1 \in 1 .. Len(tearing') /\ tearing'[i - 1] = tearing[i]
  BY <1>1, <1>3, <1>4
<1> QED
  BY <1>3, <1>5

LEMMA PlannedStep ==
  ASSUME TypeOK, PlannedAreStillToRemove, [Next]_vars
  PROVE  PlannedAreStillToRemove'
<1>1. ASSUME NEW l \in Link,
             RejectInsert(l) \/ InstallFirst(l) \/ InstallFails(l) \/ InsertSubsequent(l)
      PROVE  tearing' = <<>>
  BY <1>1 DEF RejectInsert, InstallFirst, InstallFails, InsertSubsequent, MayInstallFirst,
              MayInsert
<1>2. ASSUME NEW owner \in Mod, RemoveOwner(owner) PROVE tearing' = <<>>
  BY <1>2 DEF RemoveOwner
<1>3. CASE BeginTeardown
  <2>1. \A mod \in Planned : \E i \in 1 .. Len(tearing') : tearing'[i] = mod
    BY <1>3, OrdersListEveryPlannedMod DEF BeginTeardown
  <2> QED
    BY <2>1 DEF PlannedAreStillToRemove, StillToRemove
<1>4. CASE TeardownStep
  BY <1>4, TeardownStepRemovesTheFirst DEF PlannedAreStillToRemove, StillToRemove
<1>5. CASE UNCHANGED vars
  BY <1>5 DEF vars, PlannedAreStillToRemove, StillToRemove
<1> QED
  BY <1>1, <1>2, <1>3, <1>4, <1>5 DEF Next, PlannedAreStillToRemove

LEMMA PlannedInductive == Spec => [](TypeOK /\ PlannedAreStillToRemove)
<1>1. Init => PlannedAreStillToRemove
  BY DEF Init, PlannedAreStillToRemove
<1>2. TypeOK /\ PlannedAreStillToRemove /\ [Next]_vars => PlannedAreStillToRemove'
  BY PlannedStep
<1> QED
  BY <1>1, <1>2, TypeCorrect, PTL DEF Spec

(* When a teardown ends, no planned mod has a link left and, with a        *)
(* backend that removes what it installed, no hook is left without links.  *)
THEOREM TeardownEmptiesThePlan ==
  ASSUME ~RemoveCanFail
  PROVE  Spec => TeardownLeavesNothingPlanned
<1> DEFINE Clean(t) == /\ \A l \in chain'[t] : OwnerOf[l] \notin Planned
                       /\ chain'[t] = {} => patch'[t] = "none"
<1>1. ASSUME TypeOK, PlannedAreStillToRemove, [Next]_vars, TrueToTheBackend',
             tearing # <<>>, tearing' = <<>>, NEW t \in Target
      PROVE  Clean(t)
  <2>1. TeardownStep
    BY <1>1 DEF Next, RejectInsert, InstallFirst, InstallFails, InsertSubsequent,
                MayInstallFirst, MayInsert, RemoveOwner, BeginTeardown, vars
  <2>2. ASSUME NEW l \in chain'[t], OwnerOf[l] \in Planned PROVE FALSE
    <3>1. \E i \in 1 .. Len(tearing') : tearing'[i] = OwnerOf[l]
      BY <1>1, <2>1, <2>2, TeardownStepRemovesTheFirst
    <3> QED
      BY <1>1, <3>1
  <2>3. chain'[t] = {} => patch'[t] = "none"
    BY <1>1 DEF TrueToTheBackend, NoStrayHooks
  <2> QED
    BY <2>2, <2>3
<1>2. TypeOK /\ PlannedAreStillToRemove /\ [Next]_vars /\ TrueToTheBackend' =>
        [tearing # <<>> /\ tearing' = <<>> => \A t \in Target : Clean(t)]_vars
  BY <1>1
<1> QED
  BY <1>2, PlannedInductive, TrueToTheBackendInductive, PTL
  DEF Spec, TeardownLeavesNothingPlanned

-----------------------------------------------------------------------------
(* What a call of the game meets *)

(* The call path starts at the head and goes where the slots point. *)
LEMMA CallPathFollowsTheSlots ==
  ASSUME TypeOK, IsFiniteSet(Link), NEW t \in Target
  PROVE  /\ CallPath(t)[0] = head[t]
         /\ \A n \in 0 .. Cardinality(Link) - 1 :
              CallPath(t)[n + 1] = IF CallPath(t)[n] \in Slotted
                                   THEN slot[CallPath(t)[n]] ELSE CallPath(t)[n]
<1> DEFINE N == Cardinality(Link)
           Path(f) == [n \in 0 .. N |-> IF n = 0 THEN head[t]
                                        ELSE IF f[n - 1] \in Slotted THEN slot[f[n - 1]]
                                        ELSE f[n - 1]]
           g == [q \in (1 .. N) \X Pointer |-> IF q[2] \in Slotted THEN slot[q[2]] ELSE q[2]]
<1>1. N \in Nat
  BY FS_CardinalityType
<1> HIDE DEF N
<1>2. head[t] \in Pointer /\ g \in [(1 .. N) \X Pointer -> Pointer]
  BY RegistryAssumption DEF TypeOK, Pointer
<1> HIDE DEF g, Path
<1>3. PICK f : IsIteration(f, head[t], g, Pointer, N)
  BY <1>1, <1>2, IterationExists
<1>4. ASSUME NEW n \in 0 .. N
      PROVE  f[n] = IF n = 0 THEN head[t]
                    ELSE IF f[n - 1] \in Slotted THEN slot[f[n - 1]] ELSE f[n - 1]
  <2>1. n # 0 => f[n - 1] \in Pointer /\ f[n] = g[<<n, f[n - 1]>>]
    BY <1>1, <1>3 DEF IsIteration
  <2> QED
    BY <1>3, <2>1 DEF g, IsIteration
<1>5. f = Path(f)
  BY <1>3, <1>4 DEF Path, IsIteration
<1>6. CallPath(t) = CHOOSE h : h = Path(h)
  BY DEF CallPath, N, Path
<1>7. CallPath(t) = Path(CallPath(t))
  BY <1>5, <1>6
<1> DEFINE p == CallPath(t)
<1>8. p = [n \in 0 .. N |-> IF n = 0 THEN head[t]
                             ELSE IF p[n - 1] \in Slotted THEN slot[p[n - 1]]
                             ELSE p[n - 1]]
  BY <1>7 DEF Path
<1> HIDE DEF p
<1>9. p[0] = head[t]
  BY <1>1, <1>8
<1>10. ASSUME NEW n \in 0 .. N - 1
       PROVE  p[n + 1] = IF p[n] \in Slotted THEN slot[p[n]] ELSE p[n]
  <2>1. n + 1 \in 0 .. N /\ n + 1 # 0 /\ (n + 1) - 1 = n
    BY <1>1
  <2> QED
    BY <1>8, <2>1
<1> QED
  BY <1>9, <1>10 DEF N, p

LinksBefore(S, l) == {m \in S : Precedes(m, l)}

(* A link of a chain stands between those before and those after it. *)
LEMMA RankInAChain ==
  ASSUME NEW S \in SUBSET Link, IsFiniteSet(S), NEW l \in S
  PROVE  /\ IsFiniteSet(LinksBefore(S, l)) /\ IsFiniteSet(LinksAfter(S, l))
         /\ Cardinality(S) = Cardinality(LinksBefore(S, l)) + 1 + Cardinality(LinksAfter(S, l))
<1> DEFINE B == LinksBefore(S, l)
           A == LinksAfter(S, l)
<1>1. B \in SUBSET S /\ A \in SUBSET S
  BY DEF LinksBefore, LinksAfter
<1>2. S = (B \cup {l}) \cup A /\ l \notin B /\ (B \cup {l}) \cap A = {}
  BY PrecedesIsStrictTotalOrder DEF LinksBefore, LinksAfter
<1> HIDE DEF A, B
<1>3. IsFiniteSet(B) /\ IsFiniteSet(A)
  BY <1>1, FS_Subset
<1>4. IsFiniteSet(B \cup {l}) /\ Cardinality(B \cup {l}) = Cardinality(B) + 1
  BY <1>2, <1>3, FS_AddElement
<1>5. Cardinality(S) = Cardinality(B \cup {l}) + Cardinality(A) - Cardinality({})
  BY <1>2, <1>3, <1>4, FS_Union
<1>6. Cardinality({}) = 0 /\ Cardinality(A) \in Nat /\ Cardinality(B) \in Nat
  BY <1>3, FS_EmptySet, FS_CardinalityType
<1> QED
  BY <1>3, <1>4, <1>5, <1>6 DEF A, B

(* The successor stands one place behind; the last link has none. *)
LEMMA SuccessorIsNext ==
  ASSUME NEW S \in SUBSET Link, IsFiniteSet(S), NEW l \in S
  PROVE  LET before == Cardinality(LinksBefore(S, l))
             next   == SuccessorIn(S, l)
         IN  IF before + 1 = Cardinality(S) THEN next = RealTrampoline
             ELSE /\ next \in S
                  /\ Precedes(l, next)
                  /\ Cardinality(LinksBefore(S, next)) = before + 1
<1> DEFINE B == LinksBefore(S, l)
           A == LinksAfter(S, l)
           next == SuccessorIn(S, l)
<1>1. /\ IsFiniteSet(B) /\ IsFiniteSet(A)
      /\ Cardinality(S) = Cardinality(B) + 1 + Cardinality(A)
      /\ Cardinality(A) \in Nat /\ Cardinality(B) \in Nat
  BY RankInAChain, FS_CardinalityType
<1>2. CASE Cardinality(B) + 1 = Cardinality(S)
  <2>1. A = {}
    BY <1>1, <1>2, FS_EmptySet
  <2> QED
    BY <1>2, <2>1 DEF SuccessorIn
<1>3. CASE Cardinality(B) + 1 # Cardinality(S)
  <2>1. A # {}
    <3>1. Cardinality(A) # 0
      BY <1>1, <1>3
    <3> QED
      BY <3>1, FS_EmptySet
  <2>2. A \subseteq Link /\ next = HeadOf(A)
    BY <2>1 DEF LinksAfter, SuccessorIn
  <2>3. next \in A /\ \A b \in A \ {next} : Precedes(next, b)
    BY <2>1, <2>2, HeadExists
  <2>4. next \in S /\ Precedes(l, next)
    BY <2>3 DEF LinksAfter
  <2>5. LinksBefore(S, next) = B \cup {l} /\ l \notin B
    BY <2>3, <2>4, PrecedesIsStrictTotalOrder DEF LinksBefore, LinksAfter
  <2>6. Cardinality(LinksBefore(S, next)) = Cardinality(B) + 1
    BY <1>1, <2>5, FS_AddElement
  <2> QED
    BY <1>3, <2>4, <2>6
<1> QED
  BY <1>2, <1>3

(* On a wired chain every step of a call goes one place further down. *)
LEMMA CallPathDescends ==
  ASSUME IInv, IsFiniteSet(Link), NEW t \in Target, chain[t] # {}, chain[t] \subseteq Slotted
  PROVE  LET path == CallPath(t)
             n    == Cardinality(chain[t])
         IN  /\ n \in Nat /\ n # 0 /\ IsFiniteSet(chain[t])
             /\ \A i \in 0 .. n - 1 :
                  path[i] \in chain[t] /\ Cardinality(LinksBefore(chain[t], path[i])) = i
             /\ \A i \in 1 .. n - 1 : Precedes(path[i - 1], path[i])
             /\ path[n] = RealTrampoline
<1> DEFINE path == CallPath(t)
           C == chain[t]
           n == Cardinality(C)
           At(i) == path[i] \in C /\ Cardinality(LinksBefore(C, path[i])) = i
<1>1. C \in SUBSET Link /\ IsFiniteSet(C)
  BY FS_Subset DEF IInv, TypeOK
<1>2. n \in Nat /\ n # 0 /\ n <= Cardinality(Link) /\ Cardinality(Link) \in Nat
  BY <1>1, FS_CardinalityType, FS_EmptySet, FS_Subset
<1>3. At(0)
  <2>1. path[0] = HeadOf(C)
    BY CallPathFollowsTheSlots DEF IInv, Wired
  <2>2. path[0] \in C /\ \A b \in C \ {path[0]} : Precedes(path[0], b)
    BY <1>1, <2>1, HeadExists
  <2>3. LinksBefore(C, path[0]) = {}
    BY <1>1, <2>2, PrecedesIsStrictTotalOrder DEF LinksBefore
  <2> QED
    BY <2>2, <2>3, FS_EmptySet
<1>4. ASSUME NEW i \in 0 .. n - 1, At(i)
      PROVE  IF i = n - 1 THEN path[i + 1] = RealTrampoline
             ELSE At(i + 1) /\ Precedes(path[i], path[i + 1])
  <2>1. path[i + 1] = slot[path[i]]
    <3>1. i \in 0 .. Cardinality(Link) - 1 /\ path[i] \in Slotted
      BY <1>2, <1>4
    <3> QED
      BY <3>1, CallPathFollowsTheSlots DEF IInv
  <2>2. slot[path[i]] = SuccessorIn(C, path[i])
    BY <1>4 DEF IInv, Wired
  <2> DEFINE l == path[i]
  <2>3. IF i + 1 = n THEN SuccessorIn(C, l) = RealTrampoline
        ELSE /\ SuccessorIn(C, l) \in C
             /\ Precedes(l, SuccessorIn(C, l))
             /\ Cardinality(LinksBefore(C, SuccessorIn(C, l))) = i + 1
    BY <1>1, <1>4, SuccessorIsNext
  <2> HIDE DEF path, C, n
  <2> QED
    BY <1>2, <2>1, <2>2, <2>3
<1>5. \A i \in 0 .. n - 1 : At(i)
  <2> DEFINE S == {i \in 0 .. n - 1 : At(i)}
  <2>1. 0 \in S
    BY <1>2, <1>3
  <2>2. \A i \in 0 .. (n - 1) - 1 : i \in S => i + 1 \in S
    <3> HIDE DEF At, n
    <3> QED
      BY <1>2, <1>4
  <2>3. n - 1 \in Nat
    BY <1>2
  <2>4. 0 .. n - 1 \subseteq S
    <3> HIDE DEF S
    <3> QED
      BY <2>1, <2>2, <2>3, InductionUpTo
  <2> QED
    BY <2>4
<1>6. \A i \in 1 .. n - 1 : Precedes(path[i - 1], path[i])
  <2> SUFFICES ASSUME NEW i \in 1 .. n - 1 PROVE Precedes(path[i - 1], path[i])
    OBVIOUS
  <2> HIDE DEF At, n, path
  <2>1. i - 1 \in 0 .. n - 1 /\ i - 1 # n - 1 /\ (i - 1) + 1 = i
    BY <1>2
  <2> QED
    BY <1>4, <1>5, <2>1
<1>7. path[n] = RealTrampoline
  <2> HIDE DEF At, n, path
  <2>1. n - 1 \in 0 .. n - 1 /\ (n - 1) + 1 = n
    BY <1>2
  <2> QED
    BY <1>4, <1>5, <2>1
<1> QED
  BY <1>1, <1>2, <1>5, <1>6, <1>7

(* A call to a hooked function runs each link of the chain exactly once,   *)
(* in the order of the chain, and then the original: no sequence of        *)
(* operations leaves a link out, repeats one or closes a loop.             *)
THEOREM CallsRunTheChain ==
  ASSUME IsFiniteSet(Link)
  PROVE  Spec => []CallRunsTheChain
<1>1. ASSUME IInv, NEW t \in Target, chain[t] # {}, chain[t] \subseteq Slotted
      PROVE  {CallPath(t)[i] : i \in 0 .. Cardinality(chain[t]) - 1} = chain[t]
  <2> DEFINE path == CallPath(t)
             C == chain[t]
             n == Cardinality(C)
             f == [i \in 0 .. n - 1 |-> path[i]]
  <2>1. /\ n \in Nat /\ n # 0 /\ IsFiniteSet(C)
        /\ \A i \in 0 .. n - 1 : path[i] \in C /\ Cardinality(LinksBefore(C, path[i])) = i
    BY <1>1, CallPathDescends
  <2> HIDE DEF path, C, n
  <2>2. f \in Injection(0 .. n - 1, C)
    BY <2>1 DEF Injection, IsInjective
  <2>3. IsFiniteSet(0 .. n - 1) /\ Cardinality(0 .. n - 1) = n
    BY <2>1, FS_Interval
  <2>4. f \in Surjection(0 .. n - 1, C)
    <3> HIDE DEF f
    <3> QED
      BY <2>1, <2>2, <2>3, FS_Injection DEF n
  <2>5. {path[i] : i \in 0 .. n - 1} = C
    BY <2>1, <2>4 DEF Surjection
  <2> QED
    BY <2>5 DEF path, C, n
<1>2. IInv => CallRunsTheChain
  BY <1>1, CallPathDescends DEF CallRunsTheChain
<1> QED
  BY <1>2, Inductive, PTL
=============================================================================
