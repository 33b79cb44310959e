-------------------------- MODULE RegistryInUseProofs --------------------------
(***************************************************************************)
(* The registry in use: first by the calls of the game, which read what    *)
(* the loader stores cell by cell (HookDispatch), then by the manager of   *)
(* the mods (ModLifecycle).  Both implement the registry, so that both     *)
(* proofs start from the registry's own invariants.                        *)
(***************************************************************************)
EXTENDS HookDispatch, ModLifecycle, HookChainRegistryProofs
-----------------------------------------------------------------------------
(***************************************************************************)
(* Calls of the game and the stores of the loader, for every set of mods,  *)
(* links and targets.                                                      *)
(*                                                                         *)
(* Two facts carry the proof.  First, the stores that an operation has     *)
(* still to do are those where the game reads something else than what the *)
(* registry has.  Second, there is always a set of links that a call may   *)
(* yet run: it holds the chain, but for a link that is just joining, it is *)
(* never left by following a slot, and no slot of it jumps over a link     *)
(* that is in the chain.  A joining link enters the set with the store     *)
(* that leads it on, which the code does before the one that leads to it.  *)
(***************************************************************************)

(* A target without links has no hook, and its cell leads nowhere. *)
EmptyIsUnhooked == \A t \in Target : chain[t] = {} => patch[t] = "none" /\ head[t] = NoPtr

Registry == IInv /\ EmptyIsUnhooked
-----------------------------------------------------------------------------
(* Stores and what they bring about *)

Operation == [todo : Seq(Store), joins : SUBSET Link, leaves : SUBSET Link]

(* Is a store to the cell x still to come? *)
Waiting(kinds, x) == \E i \in DOMAIN op.todo : op.todo[i].cell \in kinds /\ op.todo[i].of = x

(* A store that gives the game what the registry has. *)
Settles(s) ==
  /\ s \in Store
  /\ s.cell = "hook" => s.of \in Target /\ patch[s.of] # "none"
  /\ s.cell = "unhook" => s.of \in Target /\ patch[s.of] = "none"
  /\ s.cell = "head" => s.of \in Target /\ s.to = head[s.of]
  /\ s.cell = "slot" =>
       s.of \in Slotted /\ s.of \in chain[TargetOf[s.of]] /\ s.to = slot[s.of]

MemoryType == hooked \subseteq Target /\ cell \in [Target -> Pointer] /\ cont \in [Link -> Pointer]

OperationType == op \in Operation /\ (op.todo = <<>> => op = NoOp)

StoresSettle == \A i \in DOMAIN op.todo : Settles(op.todo[i])

(* Where no store is to come the game reads what the registry has. *)
OthersAreSettled ==
  /\ \A t \in Target : (t \in hooked <=> patch[t] # "none") \/ Waiting({"hook", "unhook"}, t)
  /\ \A t \in Target : cell[t] = head[t] \/ Waiting({"head"}, t)
  /\ \A l \in Slotted : l \in chain[TargetOf[l]] => cont[l] = slot[l] \/ Waiting({"slot"}, l)

(* In a chain that has other links nothing leads to a joining link before  *)
(* the link itself leads on.                                               *)
LeadsOnBefore(todo, joins) ==
  \A i, j \in DOMAIN todo :
    /\ i <= j
    /\ todo[j].cell = "slot" /\ todo[j].of \in joins
    /\ ~(chain[TargetOf[todo[j].of]] \subseteq joins)
    /\ todo[i].cell \in {"head", "slot"}
    => todo[i].to # todo[j].of

LeadsOnFirst == LeadsOnBefore(op.todo, op.joins)

(* No slot leads back. *)
SlotsLeadOn == \A m \in Link : cont[m] \in Link => Precedes(m, cont[m])

Memory ==
  /\ MemoryType /\ OperationType
  /\ StoresSettle /\ OthersAreSettled /\ LeadsOnFirst /\ SlotsLeadOn
-----------------------------------------------------------------------------
(* The links that a call may yet run *)

(* From m a call goes on to p, which is one of them, and passes over no    *)
(* link of S.                                                              *)
Onward(m, p, C, S) ==
  \/ p = RealTrampoline /\ \A s \in S : ~Precedes(m, s)
  \/ p \in C /\ \A s \in S : Precedes(m, s) => s = p \/ Precedes(p, s)

(* C is closed: it holds the links of t's chain, those of S among them,    *)
(* but for a joining one that does not yet lead on, and none outside K.    *)
Leads(t, C, S, K) ==
  /\ C \subseteq K \cap LinksOn(t)
  /\ chain[t] \ op.joins # {}
  /\ chain[t] \ op.joins \subseteq C
  /\ chain[t] \subseteq K
  /\ S \subseteq chain[t] \ op.joins
  /\ \A l \in chain[t] \ C : l \in Slotted /\ Waiting({"slot"}, l)
  /\ \A m \in C \cap Slotted : Onward(m, cont[m], C, S)

Starts(t, C, S) == cell[t] \in C /\ \A s \in S : s = cell[t] \/ Precedes(cell[t], s)

(* A call that begins now. *)
Enterable ==
  \A t \in Target :
    chain[t] \ op.joins # {} =>
      \E C \in SUBSET Link :
        /\ Leads(t, C, chain[t] \ op.joins, chain[t] \cup op.leaves)
        /\ Starts(t, C, chain[t] \ op.joins)

Ran == {call.ran[i] : i \in DOMAIN call.ran}

CallType ==
  call \in [phase : {"idle", "thunk", "detour", "original", "crashed"},
            at : Pointer \cup Target, ran : Seq(Link), steady : SUBSET Link,
            absent : SUBSET Link, joined : SUBSET Link, overlapped : BOOLEAN]

(* The links the call may run without having begun too late or too early.  *)
Known == Link \ (call.absent \ call.joined)

InOrder ==
  /\ RunsInChainOrder
  /\ call.phase = "thunk" => call.at \in Target /\ call.ran = <<>>
  /\ call.phase = "detour" => call.at \in Link /\ \A l \in Ran : Precedes(l, call.at)

(* The call is where the links of C may be met, with no steady link left   *)
(* behind.                                                                 *)
IsAt(t, C) ==
  /\ Leads(t, C, call.steady, Known)
  /\ Ran \subseteq Known
  /\ call.phase # "crashed"
  /\ call.phase = "thunk" => call.at = t /\ Starts(t, C, call.steady)
  /\ call.phase = "detour" =>
       call.at \in C /\ \A s \in call.steady : Precedes(s, call.at) => s \in Ran
  /\ call.phase = "original" => call.steady \subseteq Ran

(* That is so of every call but one that met an install or a removal of    *)
(* its own hook.                                                           *)
Guided == call.phase # "idle" /\ (~call.overlapped \/ call.steady # {})

CallIsGuided == Guided => \E t \in Target, C \in SUBSET Link : IsAt(t, C)

Call ==
  /\ CallType
  /\ call.phase = "idle" => call = NoCall
  /\ InOrder
  /\ CallIsGuided

(* No such call is about to load from a cell that is gone. *)
CellsGoUnread ==
  /\ freed \subseteq Target
  /\ call.phase = "thunk" /\ call.at \in freed => ~Guided

DInv == Registry /\ Memory /\ Enterable /\ Call /\ CellsGoUnread
-----------------------------------------------------------------------------
(* Sequences put end to end hold the elements of all of them. *)
LEMMA ConcatElements ==
  ASSUME NEW X, NEW a \in Seq(X), NEW b \in Seq(X)
  PROVE  /\ a \o b \in Seq(X)
         /\ \A x : Contains(a \o b, x) <=> Contains(a, x) \/ Contains(b, x)
<1>0. a \o b \in Seq(X) /\ Len(a) \in Nat /\ Len(b) \in Nat /\ Len(a \o b) = Len(a) + Len(b)
  OBVIOUS
<1>1. ASSUME NEW j \in 1 .. Len(a) PROVE j \in DOMAIN (a \o b) /\ (a \o b)[j] = a[j]
  BY <1>1
<1>2. ASSUME NEW j \in 1 .. Len(b)
      PROVE  Len(a) + j \in DOMAIN (a \o b) /\ (a \o b)[Len(a) + j] = b[j]
  BY <1>2
<1>3. ASSUME NEW j \in DOMAIN (a \o b)
      PROVE  \/ j \in DOMAIN a /\ (a \o b)[j] = a[j]
             \/ j - Len(a) \in DOMAIN b /\ (a \o b)[j] = b[j - Len(a)]
  BY <1>3
<1>4. DOMAIN a = 1 .. Len(a) /\ DOMAIN b = 1 .. Len(b)
  OBVIOUS
<1>5. ASSUME NEW x, Contains(a \o b, x) PROVE Contains(a, x) \/ Contains(b, x)
  <2>1. PICK j \in DOMAIN (a \o b) : (a \o b)[j] = x
    BY <1>5 DEF Contains
  <2> QED
    BY <2>1, <1>3 DEF Contains
<1>6. ASSUME NEW x, Contains(a, x) PROVE Contains(a \o b, x)
  <2>1. PICK j \in DOMAIN a : a[j] = x
    BY <1>6 DEF Contains
  <2> QED
    BY <2>1, <1>1, <1>4 DEF Contains
<1>7. ASSUME NEW x, Contains(b, x) PROVE Contains(a \o b, x)
  <2>1. PICK j \in DOMAIN b : b[j] = x
    BY <1>7 DEF Contains
  <2> QED
    BY <2>1, <1>2, <1>4 DEF Contains
<1> QED
  BY <1>0, <1>5, <1>6, <1>7

(* However many they are. *)
LEMMA FlattenSeqElements ==
  ASSUME NEW X, NEW n \in Nat, NEW A \in [1 .. n -> Seq(X)]
  PROVE  /\ FlattenSeq(A) \in Seq(X)
         /\ \A x : Contains(FlattenSeq(A), x) <=> \E i \in 1 .. n : Contains(A[i], x)
<1>1. Len(A) = n
  OBVIOUS
<1>2. CASE n = 0
  <2>1. FlattenSeq(A) = A /\ A = <<>>
    BY <1>1, <1>2 DEF FlattenSeq
  <2> QED
    BY <1>2, <2>1 DEF Contains
<1>3. CASE n # 0
  <2> DEFINE To(f) == [i \in 1 .. n |-> IF i = 1 THEN A[i] ELSE f[i - 1] \o A[i]]
             g == [q \in (1 .. n) \X Seq(X) |-> q[2] \o A[q[1]]]
             L == CHOOSE h : h = To(h)
  <2>1. FlattenSeq(A) = L[n]
    BY <1>1, <1>3 DEF FlattenSeq
  <2>2. <<>> \in Seq(X) /\ g \in [(1 .. n) \X Seq(X) -> Seq(X)]
    OBVIOUS
  <2> HIDE DEF g
  <2>3. PICK f : IsIteration(f, <<>>, g, Seq(X), n)
    BY <2>2, IterationExists
  <2>4. ASSUME NEW i \in 1 .. n
        PROVE  f[i - 1] \in Seq(X) /\ f[i] = f[i - 1] \o A[i]
    <3>1. i - 1 \in 0 .. n /\ f \in [0 .. n -> Seq(X)] /\ f[i] = g[<<i, f[i - 1]>>]
      BY <2>3 DEF IsIteration
    <3>2. f[i - 1] \in Seq(X)
      BY <3>1
    <3> QED
      BY <3>1, <3>2 DEF g
  <2> DEFINE h == [i \in 1 .. n |-> f[i]]
  <2>5. h = To(h)
    <3>1. ASSUME NEW i \in 1 .. n
          PROVE  f[i] = IF i = 1 THEN A[i] ELSE h[i - 1] \o A[i]
      <4>1. CASE i = 1
        <5>1. f[0] = <<>> /\ A[1] \in Seq(X)
          BY <1>3, <2>3 DEF IsIteration
        <5>2. f[1] = <<>> \o A[1]
          <6>1. 1 \in 1 .. n /\ 1 - 1 = 0
            BY <4>1
          <6> QED
            BY <2>4, <5>1, <6>1
        <5>3. <<>> \o A[1] = A[1]
          BY <5>1
        <5> QED
          BY <4>1, <5>2, <5>3
      <4>2. CASE i # 1
        BY <2>4, <4>2, SMTT(20)
      <4> QED
        BY <4>1, <4>2
    <3> QED
      BY <3>1
  <2> HIDE DEF To, h
  <2>6. L = To(L)
    BY <2>5
  <2> HIDE DEF L
  <2>7. ASSUME NEW i \in 1 .. n
        PROVE  L[i] = IF i = 1 THEN A[i] ELSE L[i - 1] \o A[i]
    <3>1. L[i] = To(L)[i]
      BY <2>6
    <3> QED
      BY <3>1 DEF To
  <2> DEFINE Holds(k) == /\ L[k] \in Seq(X)
                         /\ \A x : Contains(L[k], x) <=> \E i \in 1 .. k : Contains(A[i], x)
             S == {k \in 0 .. n - 1 : Holds(k + 1)}
  <2>8. 0 \in S
    BY <1>3, <2>7
  <2>9. ASSUME NEW k \in 0 .. (n - 1) - 1, k \in S
        PROVE  k + 1 \in S
    <3> DEFINE i == k + 1
    <3>1. i \in 1 .. n /\ i + 1 \in 1 .. n /\ i + 1 # 1 /\ (i + 1) - 1 = i /\ Holds(i)
      BY <2>9
    <3> HIDE DEF i
    <3>2. L[i + 1] = L[i] \o A[i + 1] /\ L[i] \in Seq(X) /\ A[i + 1] \in Seq(X)
      BY <2>7, <3>1
    <3>3. L[i + 1] \in Seq(X)
      BY <3>2
    <3>4. \A x : Contains(L[i + 1], x) <=> Contains(L[i], x) \/ Contains(A[i + 1], x)
      BY <3>2, ConcatElements
    <3>5. \A j \in 1 .. i + 1 : j = i + 1 \/ j \in 1 .. i
      BY <3>1
    <3>6. 1 .. i \subseteq 1 .. i + 1
      BY <3>1
    <3>7. ASSUME NEW x
          PROVE  Contains(L[i + 1], x) <=> \E m \in 1 .. i + 1 : Contains(A[m], x)
      <4>1. Contains(L[i], x) <=> \E m \in 1 .. i : Contains(A[m], x)
        BY <3>1
      <4>2. i + 1 \in 1 .. i + 1
        BY <3>1
      <4> QED
        BY <3>4, <3>5, <3>6, <4>1, <4>2
    <3> QED
      <4>0. i \in 0 .. n - 1
        BY <1>3, <3>1
      <4>1. Holds(i + 1)
        BY <3>3, <3>7, Zenon
      <4> HIDE DEF Holds
      <4> QED
        BY <4>0, <4>1 DEF i
  <2>10. n - 1 \in S
    <3> HIDE DEF S
    <3>1. n - 1 \in Nat
      BY <1>3
    <3>2. 0 .. n - 1 \subseteq S
      BY <2>8, <2>9, <3>1, InductionUpTo
    <3> QED
      BY <3>1, <3>2
  <2> QED
    BY <2>1, <2>10
<1> QED
  BY <1>2, <1>3

(* The successor is the closest of the links behind. *)
LEMMA SuccessorIsClosest ==
  ASSUME NEW c \in SUBSET Link, NEW m \in Link
  PROVE  \/ SuccessorIn(c, m) = RealTrampoline /\ \A s \in c : ~Precedes(m, s)
         \/ /\ SuccessorIn(c, m) \in c /\ Precedes(m, SuccessorIn(c, m))
            /\ \A s \in c : Precedes(m, s) => \/ s = SuccessorIn(c, m)
                                              \/ Precedes(SuccessorIn(c, m), s)
<1>1. CASE LinksAfter(c, m) = {}
  BY <1>1 DEF SuccessorIn, LinksAfter
<1>2. CASE LinksAfter(c, m) # {}
  <2>1. LinksAfter(c, m) \subseteq Link
    BY DEF LinksAfter
  <2> QED
    BY <1>2, <2>1, HeadExists DEF SuccessorIn, LinksAfter
<1> QED
  BY <1>1, <1>2

(* Every link of a chain but the head has exactly one predecessor. *)
LEMMA PredecessorExists ==
  ASSUME NEW c \in SUBSET Link, IsFiniteSet(c), NEW l \in c, HeadOf(c) # l
  PROVE  \E m \in c : m # l /\ PredecessorsIn(c, l) = {m}
<1> DEFINE B == LinksBefore(c, l)
           after(m) == Cardinality(LinksAfter(c, m))
           D == {after(m) : m \in B}
<1>1. \A m \in c : IsFiniteSet(LinksAfter(c, m)) /\ after(m) \in Nat
  BY RankInAChain, FS_CardinalityType
<1>2. HeadOf(c) \in B
  BY HeadExists DEF LinksBefore
<1>3. PICK d \in D : \A e \in D : d <= e
  <2>1. D \subseteq Nat /\ D # {}
    BY <1>1, <1>2 DEF LinksBefore
  <2> HIDE DEF D
  <2> QED
    BY <2>1, LeastNatural
<1>4. PICK m \in B : after(m) = d
  BY <1>3
<1>5. m \in c /\ Precedes(m, l) /\ m \in Link /\ l \in Link
  BY <1>4 DEF LinksBefore
<1> DEFINE s == SuccessorIn(c, m)
<1>6. s \in c /\ Precedes(m, s) /\ (s = l \/ Precedes(s, l))
  BY <1>5, SuccessorIsClosest
<1> HIDE DEF s
<1>7. s = l
  <2>1. SUFFICES ASSUME Precedes(s, l) PROVE FALSE
    BY <1>6
  <2>2. after(s) \in D
    BY <1>6, <2>1 DEF LinksBefore
  <2>3. LinksAfter(c, s) \subseteq LinksAfter(c, m) /\ s \in LinksAfter(c, m)
        /\ s \notin LinksAfter(c, s)
    BY <1>5, <1>6, PrecedesIsStrictTotalOrder DEF LinksAfter
  <2>4. LinksAfter(c, s) \subseteq LinksAfter(c, m) /\ LinksAfter(c, s) # LinksAfter(c, m)
    BY <2>3
  <2>5. after(s) < after(m)
    BY <1>1, <1>5, <1>6, <2>4, FS_Subset
  <2>6. d <= after(s)
    BY <1>3, <2>2
  <2> HIDE DEF after
  <2> QED
    BY <1>1, <1>4, <1>5, <1>6, <2>5, <2>6
<1>8. ASSUME NEW k \in c, SuccessorIn(c, k) = l
      PROVE  k = m
  <2>1. k \in Link /\ Precedes(k, l) /\ \A x \in c : Precedes(k, x) => x = l \/ Precedes(l, x)
    BY <1>5, <1>8, SuccessorIsClosest, PointerAssumption
  <2>2. \A x \in c : Precedes(m, x) => x = l \/ Precedes(l, x)
    BY <1>5, <1>7, SuccessorIsClosest, PointerAssumption DEF s
  <2> QED
    BY <1>5, <2>1, <2>2, PrecedesIsStrictTotalOrder
<1> QED
  BY <1>5, <1>7, <1>8, PrecedesIsStrictTotalOrder DEF PredecessorsIn, s

(* A finite set can be counted through. *)
LEMMA Enumeration ==
  ASSUME NEW S, IsFiniteSet(S)
  PROVE  /\ Cardinality(S) \in Nat
         /\ \E f \in [1 .. Cardinality(S) -> S] :
              \A i, j \in 1 .. Cardinality(S) : i # j => f[i] # f[j]
         /\ \A f \in [1 .. Cardinality(S) -> S] :
              (\A i, j \in 1 .. Cardinality(S) : i # j => f[i] # f[j])
                => \A x \in S : \E i \in 1 .. Cardinality(S) : f[i] = x
<1> DEFINE n == Cardinality(S)
<1>1. n \in Nat /\ \E f : f \in Bijection(1 .. n, S)
  BY FS_CardinalityType DEF ExistsBijection
<1>2. IsFiniteSet(1 .. n) /\ Cardinality(1 .. n) = n
  BY <1>1, FS_Interval
<1> HIDE DEF n
<1>3. \E f \in [1 .. n -> S] : \A i, j \in 1 .. n : i # j => f[i] # f[j]
  BY <1>1 DEF Bijection, Injection, IsInjective
<1>4. ASSUME NEW f \in [1 .. n -> S], \A i, j \in 1 .. n : i # j => f[i] # f[j]
      PROVE  \A x \in S : \E i \in 1 .. n : f[i] = x
  <2>1. f \in Injection(1 .. n, S)
    BY <1>4 DEF Injection, IsInjective
  <2>2. f \in Surjection(1 .. n, S)
    BY <1>2, <2>1, FS_Injection DEF n
  <2> QED
    BY <2>2 DEF Surjection
<1> QED
  BY <1>1, <1>3, <1>4 DEF n
-----------------------------------------------------------------------------
(* The nodes of a chain in their order *)

LEMMA SortedExists ==
  ASSUME NEW N \in Nat
  PROVE  \A c \in SUBSET Link :
           IsFiniteSet(c) /\ Cardinality(c) = N =>
             \E s \in [1 .. N -> c] : \A i, j \in 1 .. N : i < j => Precedes(s[i], s[j])
<1> DEFINE Sorted(c, n) ==
             \E s \in [1 .. n -> c] : \A i, j \in 1 .. n : i < j => Precedes(s[i], s[j])
           S == {n \in 0 .. N : \A c \in SUBSET Link :
                                  IsFiniteSet(c) /\ Cardinality(c) = n => Sorted(c, n)}
<1>1. 0 \in S
  <2>1. \A c : Sorted(c, 0)
    <3> SUFFICES ASSUME NEW c PROVE Sorted(c, 0)
      OBVIOUS
    <3>1. [i \in 1 .. 0 |-> i] \in [1 .. 0 -> c]
      OBVIOUS
    <3>2. \A i \in 1 .. 0 : FALSE
      OBVIOUS
    <3> QED
      BY <3>1, <3>2
  <2> HIDE DEF Sorted
  <2> QED
    BY <2>1
<1>2. ASSUME NEW n \in 0 .. N - 1, n \in S
      PROVE  n + 1 \in S
  <2>1. ASSUME NEW c \in SUBSET Link, IsFiniteSet(c), Cardinality(c) = n + 1
        PROVE  Sorted(c, n + 1)
    <3> DEFINE h == HeadOf(c)
               d == c \ {h}
    <3>1. c # {}
      BY <2>1, FS_EmptySet
    <3>2. h \in c /\ \A b \in d : Precedes(h, b)
      BY <3>1, HeadExists
    <3>3. d \in SUBSET Link /\ IsFiniteSet(d) /\ Cardinality(d) = n
      BY <2>1, <3>2, FS_RemoveElement
    <3> HIDE DEF h
    <3>4. PICK s \in [1 .. n -> d] : \A i, j \in 1 .. n : i < j => Precedes(s[i], s[j])
      <4> HIDE DEF d
      <4> QED
        BY <1>2, <3>3
    <3> DEFINE r == [i \in 1 .. n + 1 |-> IF i = 1 THEN h ELSE s[i - 1]]
    <3>5. ASSUME NEW i \in 1 .. n + 1, i # 1
          PROVE  i - 1 \in 1 .. n /\ r[i] = s[i - 1] /\ r[i] \in d
      BY <3>4, <3>5
    <3>6. r[1] = h /\ r \in [1 .. n + 1 -> c]
      BY <3>2, <3>5
    <3> HIDE DEF r
    <3>7. ASSUME NEW i \in 1 .. n + 1, NEW j \in 1 .. n + 1, i < j
          PROVE  Precedes(r[i], r[j])
      <4>1. j # 1
        BY <3>7
      <4>2. CASE i = 1
        BY <3>2, <3>5, <3>6, <4>1, <4>2
      <4>3. CASE i # 1
        <5>1. i - 1 < j - 1
          BY <3>7
        <5> QED
          BY <3>4, <3>5, <4>1, <4>3, <5>1
      <4> QED
        BY <4>2, <4>3
    <3> QED
      BY <3>6, <3>7
  <2> HIDE DEF Sorted
  <2> QED
    BY <2>1
<1>3. N \in S
  <2> HIDE DEF S
  <2>1. 0 .. N \subseteq S
    BY <1>1, <1>2, InductionUpTo
  <2> QED
    BY <2>1
<1> QED
  BY <1>3

LEMMA NodesAreTheChain ==
  ASSUME NEW c \in SUBSET Link, IsFiniteSet(c), c # {}
  PROVE  LET n == Cardinality(c)
             s == OrderedNodes(c)
         IN  /\ n \in Nat /\ n # 0 /\ s \in [1 .. n -> c]
             /\ \A x \in c : \E i \in 1 .. n : s[i] = x
             /\ s[1] = HeadOf(c)
             /\ \A i \in 1 .. n :
                  SuccessorIn(c, s[i]) = IF i < n THEN s[i + 1] ELSE RealTrampoline
<1> DEFINE n == Cardinality(c)
           s == OrderedNodes(c)
<1>1. n \in Nat /\ n # 0
  BY FS_CardinalityType, FS_EmptySet
<1>2. \E r \in [1 .. n -> c] : \A i, j \in 1 .. n : i < j => Precedes(r[i], r[j])
  BY <1>1, SortedExists
<1>3. s \in [1 .. n -> c] /\ \A i, j \in 1 .. n : i < j => Precedes(s[i], s[j])
  BY <1>2 DEF OrderedNodes
<1> HIDE DEF s
<1>4. \A i, j \in 1 .. n : i # j => s[i] # s[j]
  <2> SUFFICES ASSUME NEW i \in 1 .. n, NEW j \in 1 .. n, i < j PROVE s[i] # s[j]
    BY <1>1
  <2> QED
    BY <1>3, PrecedesIsStrictTotalOrder
<1>5. \A x \in c : \E i \in 1 .. n : s[i] = x
  BY <1>3, <1>4, Enumeration
<1> HIDE DEF n
<1>6. s[1] = HeadOf(c)
  <2>1. s[1] \in c /\ \A b \in c \ {s[1]} : Precedes(s[1], b)
    <3>1. 1 \in 1 .. n /\ \A i \in 1 .. n : i = 1 \/ 1 < i
      BY <1>1
    <3> QED
      BY <1>3, <1>5, <3>1
  <2> QED
    BY <2>1, HeadIsUnique
<1>7. ASSUME NEW i \in 1 .. n
      PROVE  SuccessorIn(c, s[i]) = IF i < n THEN s[i + 1] ELSE RealTrampoline
  <2> DEFINE q == SuccessorIn(c, s[i])
  <2>1. s[i] \in c /\ s[i] \in Link
    BY <1>3
  <2>2. \/ q = RealTrampoline /\ \A x \in c : ~Precedes(s[i], x)
        \/ q \in c /\ Precedes(s[i], q) /\ \A x \in c : Precedes(s[i], x) => x = q \/ Precedes(q, x)
    BY <2>1, SuccessorIsClosest
  <2> HIDE DEF q
  <2>3. ASSUME NEW k \in 1 .. n, Precedes(s[i], s[k])
        PROVE  i < k
    <3>1. CASE k = i
      BY <2>1, <2>3, <3>1, PrecedesIsStrictTotalOrder
    <3>2. CASE k < i
      BY <1>3, <2>3, <3>2, PrecedesIsStrictTotalOrder
    <3> QED
      BY <3>1, <3>2
  <2>4. CASE i < n
    <3>1. i + 1 \in 1 .. n /\ Precedes(s[i], s[i + 1]) /\ s[i + 1] \in c
      BY <1>1, <1>3, <2>4
    <3>2. q \in c /\ Precedes(s[i], q) /\ (s[i + 1] = q \/ Precedes(q, s[i + 1]))
      BY <2>2, <3>1
    <3>3. PICK k \in 1 .. n : s[k] = q
      BY <1>5, <3>2
    <3>4. k = i + 1 \/ i + 1 < k
      BY <2>3, <3>2, <3>3
    <3>5. ~(i + 1 < k /\ Precedes(q, s[i + 1]))
      BY <1>3, <3>1, <3>2, <3>3, PrecedesIsStrictTotalOrder
    <3> QED
      BY <2>4, <3>2, <3>3, <3>4, <3>5 DEF q
  <2>5. CASE ~(i < n)
    <3>1. ASSUME q \in c PROVE FALSE
      <4>1. PICK k \in 1 .. n : s[k] = q
        BY <1>5, <3>1
      <4>2. Precedes(s[i], s[k])
        BY <2>2, <3>1, <4>1, PointerAssumption
      <4>3. i < k
        BY <2>3, <4>2
      <4> QED
        BY <1>1, <2>5, <4>3
    <3> QED
      BY <2>2, <2>5, <3>1 DEF q
  <2> QED
    BY <2>4, <2>5
<1> QED
  BY <1>1, <1>3, <1>5, <1>6, <1>7 DEF n, s
-----------------------------------------------------------------------------
(* The stores of an operation *)

SetSlot(m, p) == [cell |-> "slot", of |-> m, to |-> p]

LEMMA StoreTypes ==
  /\ \A t \in Target : Hook(t) \in Store /\ Unhook(t) \in Store
  /\ \A t \in Target, p \in Pointer : SetHead(t, p) \in Store
  /\ \A m \in Link, p \in Pointer :
       /\ SetSlot(m, p) \in Store /\ StoreSlot(m, p) \in Seq(Store)
       /\ \A x : Contains(StoreSlot(m, p), x) <=> m \in Slotted /\ x = SetSlot(m, p)
  /\ \A x, y : Contains(<<y>>, x) <=> x = y
<1>1. \A x, y : Contains(<<y>>, x) <=> x = y
  BY DEF Contains
<1>2. \A x : ~Contains(<<>>, x)
  BY DEF Contains
<1>3. \A m \in Link, p \in Pointer : SetSlot(m, p) \in Store
  BY DEF SetSlot, Store
<1>4. ASSUME NEW m \in Link, NEW p \in Pointer
      PROVE  /\ StoreSlot(m, p) \in Seq(Store)
             /\ \A x : Contains(StoreSlot(m, p), x) <=> m \in Slotted /\ x = SetSlot(m, p)
  <2>1. StoreSlot(m, p) = IF m \in Slotted THEN <<SetSlot(m, p)>> ELSE <<>>
    BY DEF StoreSlot, SetSlot
  <2> QED
    BY <1>1, <1>2, <1>3, <2>1
<1>5. \A t \in Target : Hook(t) \in Store /\ Unhook(t) \in Store
  BY DEF Hook, Unhook, Store
<1>6. \A t \in Target, p \in Pointer : SetHead(t, p) \in Store
  BY DEF SetHead, Store
<1> QED
  BY <1>1, <1>3, <1>4, <1>5, <1>6

(* A relink sets the head and every slot to what the rest of the chain says. *)
LEMMA RelinkElements ==
  ASSUME NEW t \in Target, NEW rest \in SUBSET Link, IsFiniteSet(rest), rest # {}
  PROVE  /\ RelinkStores(t, rest) \in Seq(Store)
         /\ \A x : Contains(RelinkStores(t, rest), x) <=>
              \/ x = SetHead(t, HeadOf(rest))
              \/ \E m \in rest \cap Slotted : x = SetSlot(m, SuccessorIn(rest, m))
<1> DEFINE n == Cardinality(rest)
           s == OrderedNodes(rest)
           A == [i \in 1 .. n |-> StoreSlot(s[i], IF i < n THEN s[i + 1] ELSE RealTrampoline)]
<1>1. /\ n \in Nat /\ n # 0 /\ s \in [1 .. n -> rest]
      /\ \A x \in rest : \E i \in 1 .. n : s[i] = x
      /\ s[1] = HeadOf(rest)
      /\ \A i \in 1 .. n : SuccessorIn(rest, s[i]) = IF i < n THEN s[i + 1] ELSE RealTrampoline
  BY NodesAreTheChain
<1> HIDE DEF n, s
<1>2. Len(s) = n
  BY <1>1
<1>3. RelinkStores(t, rest) = <<SetHead(t, HeadOf(rest))>> \o FlattenSeq(A)
  BY <1>1, <1>2 DEF RelinkStores, RelinkNodes, s
<1>4. ASSUME NEW i \in 1 .. n
      PROVE  /\ s[i] \in rest /\ A[i] = StoreSlot(s[i], SuccessorIn(rest, s[i]))
             /\ SuccessorIn(rest, s[i]) \in Pointer
  BY <1>1, SuccessorType
<1> HIDE DEF A
<1>5. A \in [1 .. n -> Seq(Store)]
  <2>1. A = [i \in 1 .. n |-> A[i]]
    BY DEF A
  <2> QED
    BY <1>4, <2>1, StoreTypes
<1>6. /\ FlattenSeq(A) \in Seq(Store)
      /\ \A x : Contains(FlattenSeq(A), x) <=> \E i \in 1 .. n : Contains(A[i], x)
  BY <1>1, <1>5, FlattenSeqElements
<1>7. ASSUME NEW x
      PROVE  Contains(FlattenSeq(A), x) <=>
               \E m \in rest \cap Slotted : x = SetSlot(m, SuccessorIn(rest, m))
  <2>1. \A i \in 1 .. n : Contains(A[i], x) <=>
          s[i] \in Slotted /\ x = SetSlot(s[i], SuccessorIn(rest, s[i]))
    BY <1>4, StoreTypes
  <2> QED
    BY <1>1, <1>4, <1>6, <2>1
<1>8. SetHead(t, HeadOf(rest)) \in Store
  BY HeadType, StoreTypes DEF Pointer
<1> DEFINE a == <<SetHead(t, HeadOf(rest))>>
           b == FlattenSeq(A)
<1>9. a \in Seq(Store) /\ b \in Seq(Store) /\ RelinkStores(t, rest) = a \o b
  BY <1>3, <1>6, <1>8
<1>10. \A x : Contains(a, x) <=> x = SetHead(t, HeadOf(rest))
  BY StoreTypes, Zenon
<1> HIDE DEF a, b
<1>11. /\ RelinkStores(t, rest) \in Seq(Store)
       /\ \A x : Contains(RelinkStores(t, rest), x) <=> Contains(a, x) \/ Contains(b, x)
  BY <1>9, ConcatElements
<1> QED
  BY <1>7, <1>10, <1>11, Zenon DEF b

(* The stores of a removal on one target. *)
LEMMA RemovalElements ==
  ASSUME TypeOK, IsFiniteSet(Link), NEW owner, NEW t \in Holding(owner)
  PROVE  LET rest == chain[t] \ LinksOf(owner)
         IN  /\ RemovalStores(owner, t) \in Seq(Store)
             /\ \A x : Contains(RemovalStores(owner, t), x) <=>
                  IF rest = {} THEN x = Unhook(t) \/ x = SetHead(t, NoPtr)
                  ELSE \/ x = SetHead(t, HeadOf(rest))
                       \/ \E m \in rest \cap Slotted : x = SetSlot(m, SuccessorIn(rest, m))
<1> DEFINE rest == chain[t] \ LinksOf(owner)
<1>1. t \in Target /\ rest \in SUBSET Link
  BY DEF Holding, TypeOK
<1>2. IsFiniteSet(rest)
  BY <1>1, FS_Subset
<1>3. RemovalStores(owner, t) = IF rest = {} THEN RemoveLastStores(t) ELSE RelinkStores(t, rest)
  BY DEF RemovalStores
<1> HIDE DEF rest
<1>4. CASE rest = {}
  <2> DEFINE u == Unhook(t)
             h == SetHead(t, NoPtr)
  <2>1. u \in Store /\ h \in Store
    BY <1>1, StoreTypes DEF Pointer
  <2>2. RemovalStores(owner, t) = <<u, h>>
    BY <1>3, <1>4 DEF RemoveLastStores
  <2> HIDE DEF u, h
  <2>3. <<u, h>> \in Seq(Store) /\ \A x : Contains(<<u, h>>, x) <=> x = u \/ x = h
    BY <2>1 DEF Contains
  <2> QED
    BY <1>4, <2>2, <2>3 DEF rest, u, h
<1>5. CASE rest # {}
  <2>1. /\ RelinkStores(t, rest) \in Seq(Store)
        /\ \A x : Contains(RelinkStores(t, rest), x) <=>
             \/ x = SetHead(t, HeadOf(rest))
             \/ \E m \in rest \cap Slotted : x = SetSlot(m, SuccessorIn(rest, m))
    BY <1>1, <1>2, <1>5, RelinkElements
  <2>2. RemovalStores(owner, t) = RelinkStores(t, rest)
    BY <1>3, <1>5
  <2> QED
    BY <1>5, <2>1, <2>2, Zenon DEF rest
<1> QED
  BY <1>4, <1>5

(* Those of a removal are those on all targets where the owner has links. *)
LEMMA RemovalStoresOnAll ==
  ASSUME TypeOK, ChainsAreOnTheirTargets, IsFiniteSet(Link), NEW owner
  PROVE  /\ StoresOn(owner, Holding(owner)) \in Seq(Store)
         /\ \A x : Contains(StoresOn(owner, Holding(owner)), x) <=>
              \E t \in Holding(owner) : Contains(RemovalStores(owner, t), x)
<1> DEFINE H == Holding(owner)
           n == Cardinality(H)
           order == CHOOSE s \in [1 .. n -> H] : \A i, j \in 1 .. n : i # j => s[i] # s[j]
           A == [i \in 1 .. n |-> RemovalStores(owner, order[i])]
<1>1. IsFiniteSet(H)
  <2> DEFINE D == {TargetOf[l] : l \in Link}
             f == [l \in Link |-> TargetOf[l]]
  <2>0. f \in Surjection(Link, D)
    BY DEF Surjection
  <2>1. IsFiniteSet(D)
    <3> HIDE DEF f, D
    <3> QED
      BY <2>0, FS_Surjection
  <2>2. H \in SUBSET D
    BY DEF Holding, ChainsAreOnTheirTargets, LinksOn, TypeOK
  <2> QED
    BY <2>1, <2>2, FS_Subset
<1>2. \A t \in H : RemovalStores(owner, t) \in Seq(Store)
  BY RemovalElements
<1>3. StoresOn(owner, H) = FlattenSeq(A)
  BY DEF StoresOn
<1> HIDE DEF H
<1>4. /\ n \in Nat /\ order \in [1 .. n -> H]
      /\ \A x \in H : \E i \in 1 .. n : order[i] = x
  <2>1. \E f \in [1 .. n -> H] : \A i, j \in 1 .. n : i # j => f[i] # f[j]
    BY <1>1, Enumeration
  <2>2. order \in [1 .. n -> H] /\ \A i, j \in 1 .. n : i # j => order[i] # order[j]
    BY <2>1
  <2> HIDE DEF order
  <2> QED
    BY <1>1, <2>2, Enumeration
<1> HIDE DEF n, order
<1>5. A \in [1 .. n -> Seq(Store)]
  BY <1>2, <1>4
<1>6. \A i \in 1 .. n : A[i] = RemovalStores(owner, order[i])
  OBVIOUS
<1> HIDE DEF A
<1>7. /\ FlattenSeq(A) \in Seq(Store)
      /\ \A x : Contains(FlattenSeq(A), x) <=> \E i \in 1 .. n : Contains(A[i], x)
  BY <1>4, <1>5, FlattenSeqElements
<1> QED
  BY <1>3, <1>4, <1>6, <1>7 DEF H
-----------------------------------------------------------------------------
(* What an operation prepares when it begins: stores that give the game    *)
(* what the registry has now, one for everything that has changed, in an   *)
(* order that leads a joining link on before anything leads to it.         *)
Prepared(todo, joins) ==
  /\ todo \in Seq(Store)
  /\ \A x : Contains(todo, x) => Settles(x)'
  /\ \A t \in Target :
       /\ \/ patch'[t] = "none" <=> patch[t] = "none"
          \/ Contains(todo, Hook(t)) \/ Contains(todo, Unhook(t))
       /\ head'[t] = head[t] \/ \E p : Contains(todo, SetHead(t, p))
  /\ \A l \in Slotted : l \in chain'[TargetOf[l]] =>
       \/ l \in chain[TargetOf[l]] /\ slot'[l] = slot[l]
       \/ \E p : Contains(todo, SetSlot(l, p))
  /\ LeadsOnBefore(todo, joins)'

LEMMA InstallPrepares ==
  ASSUME TypeOK, TypeOK', NEW l \in Link, InstallFirst(l), NEW todo, todo = InstallStores(l)
  PROVE  Prepared(todo, {l})
<1> DEFINE t == TargetOf[l]
           h == Hook(t)
           c == SetHead(t, l)
           s == SetSlot(l, RealTrampoline)
<1>1. t \in Target /\ h \in Store /\ c \in Store /\ s \in Store
  BY LinkTypes, StoreTypes DEF Pointer
<1>2. /\ patch' = [patch EXCEPT ![t] = "thunk"]
      /\ chain' = [chain EXCEPT ![t] = {l}]
      /\ head' = [head EXCEPT ![t] = l]
      /\ slot' = IF l \in Slotted THEN [slot EXCEPT ![l] = RealTrampoline] ELSE slot
  BY DEF InstallFirst
<1>3. todo = IF l \in Slotted THEN <<h, c, s>> ELSE <<h, c>>
  BY DEF InstallStores, StoreSlot, SetSlot
<1>4. Settles(h)' /\ Settles(c)' /\ (l \in Slotted => Settles(s)')
  BY <1>1, <1>2 DEF Settles, TypeOK, Hook, SetHead, SetSlot
<1>5. s.of = l /\ h.cell = "hook" /\ c.cell = "head"
  BY DEF SetSlot, Hook, SetHead
<1> HIDE DEF t, h, c, s
<1>6. todo \in Seq(Store)
  BY <1>1, <1>3
<1>7. \A x : Contains(todo, x) <=> x = h \/ x = c \/ (l \in Slotted /\ x = s)
  <2>1. CASE l \in Slotted
    <3>1. todo = <<h, c, s>>
      BY <1>3, <2>1
    <3> QED
      BY <2>1, <3>1 DEF Contains
  <2>2. CASE l \notin Slotted
    <3>1. todo = <<h, c>>
      BY <1>3, <2>2
    <3> QED
      BY <2>2, <3>1 DEF Contains
  <2> QED
    BY <2>1, <2>2
<1>8. LeadsOnBefore(todo, {l})'
  <2>1. ASSUME NEW j \in DOMAIN todo, todo[j].cell = "slot", todo[j].of = l
        PROVE  chain'[TargetOf[todo[j].of]] \subseteq {l}
    BY <1>1, <1>2, <2>1 DEF t, TypeOK
  <2> QED
    BY <2>1 DEF LeadsOnBefore
<1>9. ASSUME NEW u \in Target
      PROVE  /\ \/ patch'[u] = "none" <=> patch[u] = "none"
                \/ Contains(todo, Hook(u)) \/ Contains(todo, Unhook(u))
             /\ head'[u] = head[u] \/ \E p : Contains(todo, SetHead(u, p))
  BY <1>2, <1>7 DEF TypeOK, h, c
<1>10. ASSUME NEW k \in Slotted, k \in chain'[TargetOf[k]]
       PROVE  \/ k \in chain[TargetOf[k]] /\ slot'[k] = slot[k]
              \/ \E p : Contains(todo, SetSlot(k, p))
  <2>1. CASE k = l
    BY <1>7, <1>10, <2>1 DEF s
  <2>2. CASE k # l
    <3>1. TargetOf[k] # t /\ TargetOf[k] \in Target /\ k \in Link
      BY <1>1, <1>2, <1>10, <2>2, LinkTypes, RegistryAssumption DEF TypeOK
    <3> QED
      BY <1>2, <1>10, <2>2, <3>1 DEF TypeOK
  <2> QED
    BY <2>1, <2>2
<1> QED
  BY <1>4, <1>6, <1>7, <1>8, <1>9, <1>10 DEF Prepared

LEMMA InsertPrepares ==
  ASSUME IInv, IInv', IsFiniteSet(Link), NEW l \in Link, InsertSubsequent(l),
         NEW todo, todo = InsertStores(l)
  PROVE  Prepared(todo, {l})
<1> DEFINE t == TargetOf[l]
<1>0. PICK c, next : c = chain[t] \cup {l} /\ next = SuccessorIn(c, l)
  OBVIOUS
<1> DEFINE a == SetSlot(l, next)
<1>1. t \in Target /\ c \in SUBSET Link /\ l \in c /\ next \in Pointer /\ next # l
      /\ IsFiniteSet(c) /\ l \notin chain[t] /\ chain[t] \subseteq LinksOn(t)
  <2>1. t \in Target /\ c \in SUBSET Link /\ chain[t] \subseteq LinksOn(t)
    BY <1>0, LinkTypes DEF IInv, TypeOK, ChainsAreOnTheirTargets
  <2>2. next \in Pointer /\ next # l
    BY <1>0, <2>1, SuccessorType, SuccessorIsBehind, PrecedesIsStrictTotalOrder, PointerAssumption
  <2> QED
    BY <1>0, <2>1, <2>2, FS_Subset DEF InsertSubsequent, MayInsert
<1>2. /\ patch' = patch
      /\ chain' = [chain EXCEPT ![t] = c]
      /\ slot' = [m \in Link |-> IF m \notin Slotted THEN slot[m]
                                 ELSE IF m = l THEN next
                                 ELSE IF m \in PredecessorsIn(c, l) THEN l ELSE slot[m]]
      /\ head' = [head EXCEPT ![t] = IF HeadOf(c) = l THEN l ELSE @]
  BY <1>0 DEF InsertSubsequent
<1>20. chain \in [Target -> SUBSET Link] /\ head \in [Target -> Pointer] /\ Slotted \subseteq Link
  BY RegistryAssumption DEF IInv, TypeOK
<1>3. a \in Store /\ (l \in Slotted => Settles(a)')
  <2>1. a \in Store
    BY <1>1, StoreTypes
  <2>2. l \in Slotted => slot'[l] = next /\ l \in chain'[TargetOf[l]]
    BY <1>1, <1>2, <1>20
  <2> QED
    BY <2>1, <2>2 DEF Settles, SetSlot
<1>4. LeadOn(l) = IF l \in Slotted THEN <<a>> ELSE <<>>
  BY <1>0 DEF LeadOn, StoreSlot, SetSlot
<1>5. a.cell = "slot" /\ a.of = l /\ a.to = next
  BY DEF SetSlot
<1> HIDE DEF a
<1>6. ASSUME NEW b, b \in Store, Settles(b)', b.cell = "head" \/ (b.cell = "slot" /\ b.of # l),
             todo = (IF l \in Slotted THEN <<a, b>> ELSE <<b>>)
      PROVE  /\ todo \in Seq(Store)
             /\ \A x : Contains(todo, x) <=> (l \in Slotted /\ x = a) \/ x = b
             /\ \A x : Contains(todo, x) => Settles(x)'
             /\ LeadsOnBefore(todo, {l})'
  <2>1. /\ todo \in Seq(Store)
        /\ \A x : Contains(todo, x) <=> (l \in Slotted /\ x = a) \/ x = b
    <3>1. CASE l \in Slotted
      <4>1. todo = <<a, b>>
        BY <1>6, <3>1
      <4> QED
        BY <1>3, <1>6, <3>1, <4>1 DEF Contains
    <3>2. CASE l \notin Slotted
      <4>1. todo = <<b>>
        BY <1>6, <3>2
      <4> QED
        BY <1>6, <3>2, <4>1 DEF Contains
    <3> QED
      BY <3>1, <3>2
  <2>2. \A x : Contains(todo, x) => Settles(x)'
    <3> SUFFICES ASSUME NEW x, Contains(todo, x) PROVE Settles(x)'
      OBVIOUS
    <3>1. (x = a /\ l \in Slotted) \/ x = b
      BY <2>1
    <3> QED
      BY <1>3, <1>6, <3>1
  <2>3. LeadsOnBefore(todo, {l})'
    <3> SUFFICES ASSUME NEW i \in DOMAIN todo, NEW j \in DOMAIN todo, i <= j,
                        todo[j].cell = "slot", todo[j].of \in {l}
                 PROVE  todo[i].to # todo[j].of
      BY DEF LeadsOnBefore
    <3>1. l \in Slotted /\ j = 1 /\ i = 1 /\ todo[1] = a
      <4>1. CASE l \in Slotted
        <5>1. todo = <<a, b>>
          BY <1>6, <4>1
        <5> QED
          BY <1>6, <4>1, <5>1
      <4>2. CASE l \notin Slotted
        <5>1. todo = <<b>>
          BY <1>6, <4>2
        <5> QED
          BY <1>6, <5>1
      <4> QED
        BY <4>1, <4>2
    <3> QED
      BY <1>1, <1>5, <3>1
  <2> QED
    BY <2>1, <2>2, <2>3
<1>7. InsertStores(l) = LeadOn(l) \o LeadTo(l)
  BY DEF InsertStores
<1>8. LeadTo(l) = IF HeadOf(c) = l THEN <<SetHead(t, l)>>
                  ELSE StoreSlot(CHOOSE m \in PredecessorsIn(c, l) : TRUE, l)
  BY <1>0 DEF LeadTo
<1>9. ASSUME NEW b, b \in Store, LeadTo(l) = <<b>>
      PROVE  todo = IF l \in Slotted THEN <<a, b>> ELSE <<b>>
  BY <1>3, <1>4, <1>7, <1>9
<1>10. ASSUME HeadOf(c) = l \/ \A m \in PredecessorsIn(c, l) \cap Slotted :
                                  Contains(todo, SetSlot(m, l)),
              HeadOf(c) = l => Contains(todo, SetHead(t, l)),
              HeadOf(c) = l => PredecessorsIn(c, l) = {},
              l \in Slotted => Contains(todo, a)
       PROVE  /\ \A u \in Target :
                   /\ \/ patch'[u] = "none" <=> patch[u] = "none"
                      \/ Contains(todo, Hook(u)) \/ Contains(todo, Unhook(u))
                   /\ head'[u] = head[u] \/ \E p : Contains(todo, SetHead(u, p))
              /\ \A k \in Slotted : k \in chain'[TargetOf[k]] =>
                   \/ k \in chain[TargetOf[k]] /\ slot'[k] = slot[k]
                   \/ \E p : Contains(todo, SetSlot(k, p))
  <2>1. ASSUME NEW u \in Target
        PROVE  head'[u] = head[u] \/ \E p : Contains(todo, SetHead(u, p))
    BY <1>1, <1>2, <1>10, <1>20
  <2>2. ASSUME NEW k \in Slotted, k \in chain'[TargetOf[k]]
        PROVE  \/ k \in chain[TargetOf[k]] /\ slot'[k] = slot[k]
               \/ \E p : Contains(todo, SetSlot(k, p))
    <3>1. k \in Link /\ TargetOf[k] \in Target
      BY <1>20, LinkTypes
    <3>2. CASE k = l
      BY <1>10, <3>2 DEF a
    <3>3. CASE k # l /\ k \in PredecessorsIn(c, l)
      BY <1>10, <3>3
    <3>4. CASE k # l /\ k \notin PredecessorsIn(c, l)
      <4>1. slot'[k] = slot[k]
        BY <1>2, <3>1, <3>4
      <4>2. k \in chain[TargetOf[k]]
        BY <1>0, <1>2, <1>20, <2>2, <3>1, <3>4
      <4> QED
        BY <4>1, <4>2
    <3> QED
      BY <3>2, <3>3, <3>4
  <2> QED
    BY <1>2, <2>1, <2>2
<1>11. CASE HeadOf(c) = l
  <2> DEFINE b == SetHead(t, l)
  <2>1. b \in Store /\ b.cell = "head" /\ LeadTo(l) = <<b>>
    BY <1>1, <1>8, <1>11, StoreTypes DEF Pointer, SetHead
  <2>2. Settles(b)'
    <3>1. head'[t] = l
      BY <1>1, <1>2, <1>11, <1>20
    <3> QED
      BY <1>1, <2>1, <3>1 DEF Settles, SetHead
  <2>3. PredecessorsIn(c, l) = {}
    <3> SUFFICES ASSUME NEW m \in c, SuccessorIn(c, m) = l PROVE FALSE
      BY DEF PredecessorsIn
    <3>1. m \in Link /\ Precedes(m, l)
      BY <1>1, SuccessorIsBehind, PointerAssumption
    <3>2. m # l => Precedes(l, m)
      BY <1>1, <1>11, HeadExists
    <3> QED
      BY <1>1, <3>1, <3>2, PrecedesIsStrictTotalOrder
  <2>4. /\ todo \in Seq(Store)
        /\ \A x : Contains(todo, x) <=> (l \in Slotted /\ x = a) \/ x = b
        /\ \A x : Contains(todo, x) => Settles(x)'
        /\ LeadsOnBefore(todo, {l})'
    <3> HIDE DEF b
    <3> QED
      BY <1>6, <1>9, <2>1, <2>2
  <2> QED
    BY <1>10, <1>11, <2>3, <2>4 DEF Prepared
<1>12. CASE HeadOf(c) # l
  <2>1. PICK p \in c : p # l /\ PredecessorsIn(c, l) = {p}
    BY <1>1, <1>12, PredecessorExists
  <2>2. p \in Link /\ TargetOf[p] = t
    BY <1>0, <1>1, <2>1 DEF LinksOn
  <2>3. LeadTo(l) = StoreSlot(p, l)
    BY <1>8, <1>12, <2>1
  <2>4. CASE p \in Slotted
    <3> DEFINE b == SetSlot(p, l)
    <3>1. b \in Store /\ b.cell = "slot" /\ b.of # l /\ LeadTo(l) = <<b>>
      BY <2>1, <2>2, <2>3, <2>4, StoreTypes DEF Pointer, SetSlot, StoreSlot
    <3>2. Settles(b)'
      <4>1. slot'[p] = l /\ p \in chain'[TargetOf[p]]
        BY <1>1, <1>2, <1>20, <2>1, <2>2, <2>4
      <4> QED
        BY <2>4, <3>1, <4>1 DEF Settles, SetSlot
    <3>3. /\ todo \in Seq(Store)
          /\ \A x : Contains(todo, x) <=> (l \in Slotted /\ x = a) \/ x = b
          /\ \A x : Contains(todo, x) => Settles(x)'
          /\ LeadsOnBefore(todo, {l})'
      <4> HIDE DEF b
      <4> QED
        BY <1>6, <1>9, <3>1, <3>2
    <3> QED
      BY <1>10, <1>12, <2>1, <3>3 DEF Prepared
  <2>5. CASE p \notin Slotted
    <3>1. LeadTo(l) = <<>>
      BY <2>3, <2>5 DEF StoreSlot
    <3>2. todo = LeadOn(l)
      BY <1>3, <1>4, <1>7, <3>1
    <3>3. todo \in Seq(Store) /\ \A x : Contains(todo, x) <=> l \in Slotted /\ x = a
      <4>1. CASE l \in Slotted
        <5>1. todo = <<a>>
          BY <1>4, <3>2, <4>1
        <5> QED
          BY <1>3, <4>1, <5>1 DEF Contains
      <4>2. CASE l \notin Slotted
        <5>1. todo = <<>>
          BY <1>4, <3>2, <4>2
        <5> QED
          BY <4>2, <5>1 DEF Contains
      <4> QED
        BY <4>1, <4>2
    <3>4. \A x : Contains(todo, x) => Settles(x)'
      <4> SUFFICES ASSUME NEW x, Contains(todo, x) PROVE Settles(x)'
        OBVIOUS
      <4>1. x = a /\ l \in Slotted
        BY <3>3
      <4> QED
        BY <1>3, <4>1
    <3>5. LeadsOnBefore(todo, {l})'
      <4> SUFFICES ASSUME NEW i \in DOMAIN todo, NEW j \in DOMAIN todo
                   PROVE  todo[i].to # l
        BY DEF LeadsOnBefore
      <4>1. Contains(todo, todo[i])
        BY DEF Contains
      <4> QED
        BY <1>1, <1>5, <3>3, <4>1
    <3> QED
      BY <1>10, <1>12, <2>1, <2>5, <3>3, <3>4, <3>5 DEF Prepared
  <2> QED
    BY <2>4, <2>5
<1> QED
  BY <1>11, <1>12

(* What a removal leaves of each target. *)
LEMMA RemovalLeaves ==
  ASSUME IInv, NEW owner \in Mod, RemoveOwnerLocked(owner, {}), NEW t \in Target
  PROVE  /\ chain'[t] = chain[t] \ LinksOf(owner)
         /\ t \notin Holding(owner) =>
              /\ chain'[t] = chain[t] /\ patch'[t] = patch[t] /\ head'[t] = head[t]
              /\ \A m \in chain[t] : slot'[m] = slot[m]
         /\ t \in Holding(owner) /\ chain'[t] = {} => patch'[t] = "none" /\ head'[t] = NoPtr
         /\ t \in Holding(owner) /\ chain'[t] # {} =>
              /\ patch'[t] = patch[t] /\ head'[t] = HeadOf(chain'[t])
              /\ \A m \in chain'[t] \cap Slotted : slot'[m] = SuccessorIn(chain'[t], m)
<1> DEFINE rest    == [u \in Target |-> chain[u] \ LinksOf(owner)]
           kept    == Holding(owner) \ Emptied(owner)
           removed == Emptied(owner) \ {}
<1>1. /\ chain' = rest
      /\ head' = HeadsAfterRemoval(rest, kept, removed)
      /\ slot' = SlotsAfterRemoval(rest, kept)
      /\ patch' = [u \in Target |-> IF u \in removed THEN "none" ELSE patch[u]]
  BY DEF RemoveOwnerLocked
<1>2. chain'[t] = chain[t] \ LinksOf(owner) /\ chain'[t] = rest[t]
  BY <1>1
<1>3. chain[t] \subseteq LinksOn(t) /\ chain[t] \subseteq Link
  BY DEF IInv, ChainsAreOnTheirTargets, TypeOK
<1>4. /\ t \in kept <=> t \in Holding(owner) /\ chain'[t] # {}
      /\ t \in removed <=> t \in Holding(owner) /\ chain'[t] = {}
  BY <1>2 DEF Emptied
<1>5. t \notin Holding(owner) => chain'[t] = chain[t]
  BY <1>2 DEF Holding
<1> HIDE DEF rest, kept, removed
<1>6. /\ t \in kept => head'[t] = HeadOf(chain'[t]) /\ t \notin removed
      /\ t \in removed => head'[t] = NoPtr
      /\ t \notin kept /\ t \notin removed => head'[t] = head[t]
  BY <1>1, <1>2, <1>4 DEF HeadsAfterRemoval
<1>7. ASSUME NEW m \in chain[t]
      PROVE  /\ t \notin kept => slot'[m] = slot[m]
             /\ t \in kept /\ m \in chain'[t] \cap Slotted => slot'[m] = SuccessorIn(chain'[t], m)
  <2>1. m \in Link /\ TargetOf[m] = t
    BY <1>3 DEF LinksOn
  <2> QED
    BY <1>1, <1>2, <2>1 DEF SlotsAfterRemoval
<1>8. patch'[t] = IF t \in removed THEN "none" ELSE patch[t]
  BY <1>1
<1> QED
  BY <1>2, <1>4, <1>5, <1>6, <1>7, <1>8

LEMMA RemovePrepares ==
  ASSUME IInv, IInv', IsFiniteSet(Link), NEW owner \in Mod, RemoveOwnerLocked(owner, {}),
         NEW todo, todo = StoresOn(owner, Holding(owner))
  PROVE  Prepared(todo, {})
<1> DEFINE Leaves(t, x) ==
             IF chain'[t] = {} THEN x = Unhook(t) \/ x = SetHead(t, NoPtr)
             ELSE \/ x = SetHead(t, HeadOf(chain'[t]))
                  \/ \E m \in chain'[t] \cap Slotted : x = SetSlot(m, SuccessorIn(chain'[t], m))
<1>0. PICK H : H = Holding(owner)
  OBVIOUS
<1>1. /\ todo \in Seq(Store)
      /\ \A x : Contains(todo, x) <=> \E t \in H : Contains(RemovalStores(owner, t), x)
  BY <1>0, RemovalStoresOnAll DEF IInv
<1>2. ASSUME NEW t \in H
      PROVE  /\ t \in Target
             /\ \A x : Contains(RemovalStores(owner, t), x) <=> Leaves(t, x)
  <2>1. t \in Target
    BY <1>0 DEF Holding
  <2>2. chain'[t] = chain[t] \ LinksOf(owner)
    BY <2>1, RemovalLeaves
  <2>3. LET rest == chain[t] \ LinksOf(owner)
        IN  \A x : Contains(RemovalStores(owner, t), x) <=>
                  IF rest = {} THEN x = Unhook(t) \/ x = SetHead(t, NoPtr)
                  ELSE \/ x = SetHead(t, HeadOf(rest))
                       \/ \E m \in rest \cap Slotted : x = SetSlot(m, SuccessorIn(rest, m))
    BY <1>0, RemovalElements DEF IInv
  <2> QED
    BY <2>1, <2>2, <2>3
<1>3. \A x : Contains(todo, x) <=> \E t \in H : Leaves(t, x)
  BY <1>1, <1>2
<1>4. ASSUME NEW t \in H, NEW x, Leaves(t, x)
      PROVE  Settles(x)'
  <2>1. t \in Target /\ chain'[t] \subseteq Link
    BY <1>2 DEF IInv, TypeOK
  <2>2. chain'[t] = {} => patch'[t] = "none" /\ head'[t] = NoPtr
    BY <1>0, <2>1, RemovalLeaves
  <2>3. CASE x = Unhook(t)
    BY <1>4, <2>1, <2>2, <2>3, StoreTypes DEF Settles, Unhook, SetHead, SetSlot
  <2>4. CASE x = SetHead(t, NoPtr) /\ chain'[t] = {}
    <3>1. x \in Store
      BY <2>1, <2>4, StoreTypes DEF Pointer
    <3> QED
      BY <2>1, <2>2, <2>4, <3>1 DEF Settles, SetHead
  <2>5. CASE chain'[t] # {} /\ x = SetHead(t, HeadOf(chain'[t]))
    <3>1. x \in Store
      BY <2>1, <2>5, StoreTypes, HeadType DEF Pointer
    <3>2. head'[t] = HeadOf(chain'[t])
      BY <1>0, <2>1, <2>5, RemovalLeaves
    <3> QED
      BY <2>1, <2>5, <3>1, <3>2 DEF Settles, SetHead
  <2>6. ASSUME NEW m \in chain'[t] \cap Slotted, x = SetSlot(m, SuccessorIn(chain'[t], m)),
               chain'[t] # {}
        PROVE  Settles(x)'
    <3>1. x \in Store
      BY <2>1, <2>6, StoreTypes, SuccessorType
    <3>2. slot'[m] = SuccessorIn(chain'[t], m)
      BY <1>0, <2>1, <2>6, RemovalLeaves
    <3>3. TargetOf[m] = t
      BY <2>1, <2>6 DEF IInv, ChainsAreOnTheirTargets, LinksOn
    <3> QED
      BY <2>6, <3>1, <3>2, <3>3 DEF Settles, SetSlot
  <2> QED
    BY <1>4, <2>3, <2>4, <2>5, <2>6
<1>5. ASSUME NEW t \in Target
      PROVE  /\ \/ patch'[t] = "none" <=> patch[t] = "none"
                \/ Contains(todo, Hook(t)) \/ Contains(todo, Unhook(t))
             /\ head'[t] = head[t] \/ \E p : Contains(todo, SetHead(t, p))
  <2>1. CASE t \notin H
    BY <1>0, <2>1, RemovalLeaves
  <2>2. CASE t \in H /\ chain'[t] = {}
    BY <1>3, <2>2
  <2>3. CASE t \in H /\ chain'[t] # {}
    <3>1. patch'[t] = patch[t]
      BY <1>0, <2>3, RemovalLeaves
    <3>2. Contains(todo, SetHead(t, HeadOf(chain'[t])))
      BY <1>3, <2>3
    <3> QED
      BY <3>1, <3>2
  <2> QED
    BY <2>1, <2>2, <2>3
<1>6. ASSUME NEW l \in Slotted, l \in chain'[TargetOf[l]]
      PROVE  \/ l \in chain[TargetOf[l]] /\ slot'[l] = slot[l]
             \/ \E p : Contains(todo, SetSlot(l, p))
  <2>1. TargetOf[l] \in Target
    BY LinkTypes, RegistryAssumption
  <2>2. CASE TargetOf[l] \notin H
    BY <1>0, <1>6, <2>1, <2>2, RemovalLeaves
  <2>3. CASE TargetOf[l] \in H
    <3>1. Contains(todo, SetSlot(l, SuccessorIn(chain'[TargetOf[l]], l)))
      BY <1>3, <1>6, <2>3
    <3> QED
      BY <3>1
  <2> QED
    BY <2>2, <2>3
<1>7. LeadsOnBefore(todo, {})'
  BY DEF LeadsOnBefore
<1>8. \A x : Contains(todo, x) => Settles(x)'
  <2> HIDE DEF Leaves
  <2> SUFFICES ASSUME NEW x, Contains(todo, x) PROVE Settles(x)'
    OBVIOUS
  <2> QED
    BY <1>3, <1>4
<1> QED
  BY <1>1, <1>5, <1>6, <1>7, <1>8 DEF Prepared
-----------------------------------------------------------------------------
(* The steps of the loader *)

(* How an operation that begins changes the chains: links join or leave,   *)
(* and a chain gets its first link or loses its last one together with a   *)
(* hook.                                                                   *)
Changes(todo, joins, leaves) ==
  /\ joins \in SUBSET Link /\ leaves \in SUBSET Link
  /\ joins = {} \/ leaves = {}
  /\ \A t \in Target :
       /\ chain[t] \cap joins = {}
       /\ chain'[t] = (chain[t] \cup (joins \cap LinksOn(t))) \ leaves
       /\ ~(chain[t] = {} <=> chain'[t] = {}) =>
            Contains(todo, Hook(t)) \/ Contains(todo, Unhook(t))

Begins(todo, joins, leaves) ==
  /\ op = NoOp
  /\ Prepared(todo, joins)
  /\ Changes(todo, joins, leaves)
  /\ Account(joins, leaves, todo)

(* Nothing that the game or the wiring depends on. *)
Quiet == UNCHANGED <<chain, head, slot, patch, memory, op, call, freed>>

(* Every step of the loader or the game leaves the registry as one of its  *)
(* own operations does, or as it is.                                       *)
LEMMA DispatchIsARegistryStep ==
  ASSUME [DispatchNext]_allVars
  PROVE  [Next]_vars
<1>1. ASSUME NEW l \in Link, BeginInsert(l) PROVE [Next]_vars
  BY <1>1 DEF BeginInsert, Next
<1>2. ASSUME NEW l \in Link, BeginRefused(l) PROVE [Next]_vars
  BY <1>2 DEF BeginRefused, Next
<1>3. ASSUME NEW owner \in Mod, BeginRemove(owner) PROVE [Next]_vars
  <2>1. {} \in SUBSET Target
    OBVIOUS
  <2>2. CASE tearing = <<>>
    <3>1. RemoveOwner(owner)
      BY <1>3, <2>1, <2>2 DEF BeginRemove, RemoveOwner
    <3> QED
      BY <3>1 DEF Next
  <2>3. CASE tearing # <<>>
    <3>1. TeardownStep
      BY <1>3, <2>1, <2>3 DEF BeginRemove, TeardownStep
    <3> QED
      BY <3>1 DEF Next
  <2> QED
    BY <2>2, <2>3
<1>4. CASE DispatchBeginTeardown
  BY <1>4 DEF DispatchBeginTeardown, Next
<1>5. CASE StepStore
  BY <1>5 DEF StepStore
<1>6. CASE Dispatch
  BY <1>6 DEF Dispatch, Enter, LoadHead, LoadFreedHead, RunLink, Return
<1>7. CASE UNCHANGED allVars
  BY <1>7 DEF allVars
<1> QED
  BY <1>1, <1>2, <1>3, <1>4, <1>5, <1>6, <1>7 DEF DispatchNext, Mutate

LEMMA InstallBegins ==
  ASSUME Registry, IInv', NEW l \in Link, op = NoOp, InstallFirst(l),
         Account({l}, {}, InstallStores(l))
  PROVE  \E todo, joins, leaves : Begins(todo, joins, leaves)
<1>0. PICK todo : todo = InstallStores(l)
  OBVIOUS
<1>1. Prepared(todo, {l})
  BY <1>0, InstallPrepares DEF Registry, IInv
<1>2. Contains(todo, Hook(TargetOf[l]))
  <2>1. PICK h, c : h = Hook(TargetOf[l]) /\ c = SetHead(TargetOf[l], l)
    OBVIOUS
  <2>2. todo = <<h, c>> \o StoreSlot(l, RealTrampoline)
    BY <1>0, <2>1 DEF InstallStores
  <2>3. StoreSlot(l, RealTrampoline) \in Seq(Store)
    BY StoreTypes DEF Pointer
  <2>4. 1 \in DOMAIN todo /\ todo[1] = h
    BY <2>2, <2>3
  <2> QED
    BY <2>1, <2>4 DEF Contains
<1>3. Changes(todo, {l}, {})
  <2>1. /\ chain' = [chain EXCEPT ![TargetOf[l]] = {l}] /\ chain[TargetOf[l]] = {}
        /\ chain \in [Target -> SUBSET Link] /\ ChainsAreOnTheirTargets
    BY DEF InstallFirst, MayInstallFirst, Registry, IInv, TypeOK
  <2> QED
    BY <1>2, <2>1 DEF Changes, ChainsAreOnTheirTargets, LinksOn
<1> QED
  BY <1>0, <1>1, <1>3 DEF Begins

LEMMA InsertBegins ==
  ASSUME Registry, IInv', IsFiniteSet(Link), NEW l \in Link, op = NoOp, InsertSubsequent(l),
         Account({l}, {}, InsertStores(l))
  PROVE  \E todo, joins, leaves : Begins(todo, joins, leaves)
<1>0. PICK todo : todo = InsertStores(l)
  OBVIOUS
<1>1. Prepared(todo, {l})
  BY <1>0, InsertPrepares DEF Registry
<1>2. Changes(todo, {l}, {})
  <2>1. /\ chain' = [chain EXCEPT ![TargetOf[l]] = chain[TargetOf[l]] \cup {l}]
        /\ chain[TargetOf[l]] # {} /\ l \notin chain[TargetOf[l]]
        /\ chain \in [Target -> SUBSET Link] /\ ChainsAreOnTheirTargets
    BY DEF InsertSubsequent, MayInsert, Registry, IInv, TypeOK
  <2> QED
    BY <2>1 DEF Changes, ChainsAreOnTheirTargets, LinksOn
<1> QED
  BY <1>0, <1>1, <1>2 DEF Begins

LEMMA RemoveBegins ==
  ASSUME Registry, IInv', IsFiniteSet(Link), NEW owner \in Mod, BeginRemove(owner)
  PROVE  \E todo, joins, leaves : Begins(todo, joins, leaves)
<1>0. PICK todo : todo = StoresOn(owner, Holding(owner))
  OBVIOUS
<1>1. /\ op = NoOp /\ RemoveOwnerLocked(owner, {})
      /\ Account({}, LinksOf(owner), todo)
  BY <1>0 DEF BeginRemove
<1>2. Prepared(todo, {})
  BY <1>0, <1>1, RemovePrepares DEF Registry
<1>3. ASSUME NEW t \in Target, ~(chain[t] = {} <=> chain'[t] = {})
      PROVE  Contains(todo, Unhook(t))
  <2>1. t \in Holding(owner) /\ chain'[t] = chain[t] \ LinksOf(owner) /\ chain'[t] = {}
    BY <1>1, <1>3, RemovalLeaves DEF Registry, Holding
  <2>2. chain[t] \ LinksOf(owner) = {}
    BY <2>1
  <2>3. Contains(RemovalStores(owner, t), Unhook(t))
    BY <2>1, <2>2, RemovalElements DEF Registry, IInv
  <2> QED
    BY <1>0, <2>1, <2>3, RemovalStoresOnAll DEF Registry, IInv
<1>4. Changes(todo, {}, LinksOf(owner))
  <2>1. \A t \in Target : chain'[t] = chain[t] \ LinksOf(owner)
    BY <1>1, RemovalLeaves DEF Registry
  <2>2. LinksOf(owner) \in SUBSET Link
    BY DEF LinksOf
  <2> QED
    BY <1>3, <2>1, <2>2 DEF Changes
<1> QED
  BY <1>1, <1>2, <1>4 DEF Begins

(* The steps fall into four kinds. *)
LEMMA StepKinds ==
  ASSUME Registry, IInv', IsFiniteSet(Link), [DispatchNext]_allVars
  PROVE  \/ Quiet
         \/ \E todo, joins, leaves : Begins(todo, joins, leaves)
         \/ StepStore
         \/ Dispatch
<1>1. ASSUME NEW l \in Link, BeginInsert(l)
      PROVE  \E todo, joins, leaves : Begins(todo, joins, leaves)
  <2>1. CASE InstallFirst(l) /\ Account({l}, {}, InstallStores(l))
    BY <1>1, <2>1, InstallBegins DEF BeginInsert
  <2>2. CASE InsertSubsequent(l) /\ Account({l}, {}, InsertStores(l))
    BY <1>1, <2>2, InsertBegins DEF BeginInsert
  <2> QED
    BY <1>1, <2>1, <2>2 DEF BeginInsert
<1>2. ASSUME NEW l \in Link, BeginRefused(l)
      PROVE  Quiet
  <2>1. CASE RejectInsert(l)
    BY <1>2, <2>1 DEF BeginRefused, RejectInsert, Quiet, memory
  <2>2. CASE InstallFails(l)
    <3> DEFINE t == TargetOf[l]
    <3>1. t \in Target /\ chain[t] = {}
      BY <2>2, LinkTypes DEF InstallFails, MayInstallFirst
    <3>2. patch[t] = "none" /\ head[t] = NoPtr
      BY <3>1 DEF Registry, EmptyIsUnhooked
    <3>3. patch' = patch /\ head' = head
      BY <2>2, <3>2 DEF InstallFails, Registry, IInv, TypeOK
    <3> QED
      BY <1>2, <2>2, <3>3 DEF BeginRefused, InstallFails, Quiet, memory
  <2> QED
    BY <1>2, <2>1, <2>2 DEF BeginRefused
<1>3. CASE DispatchBeginTeardown
  BY <1>3 DEF DispatchBeginTeardown, BeginTeardown, Quiet, memory
<1>4. CASE UNCHANGED allVars
  BY <1>4 DEF allVars, vars, memory, Quiet
<1> QED
  BY <1>1, <1>2, <1>3, <1>4, RemoveBegins DEF DispatchNext, Mutate

LEMMA RegistryStep ==
  ASSUME Registry, [DispatchNext]_allVars
  PROVE  Registry'
<1>1. [Next]_vars
  BY DispatchIsARegistryStep
<1>2. IInv'
  BY <1>1, TypeStep, WiredStep DEF Registry, IInv
<1>3. ASSUME NEW t \in Target, chain'[t] = {}
      PROVE  patch'[t] = "none" /\ head'[t] = NoPtr
  <2>0. chain[t] = {} => patch[t] = "none" /\ head[t] = NoPtr
    BY DEF Registry, EmptyIsUnhooked
  <2>1. ASSUME NEW l \in Link, InstallFirst(l) PROVE patch'[t] = "none" /\ head'[t] = NoPtr
    BY <1>3, <2>0, <2>1, LinkTypes DEF InstallFirst, Registry, IInv, TypeOK
  <2>2. ASSUME NEW l \in Link, InsertSubsequent(l)
        PROVE  patch'[t] = "none" /\ head'[t] = NoPtr
    <3>1. t # TargetOf[l] /\ chain[t] = {}
      BY <1>3, <2>2, LinkTypes DEF InsertSubsequent, Registry, IInv, TypeOK
    <3> QED
      BY <2>0, <2>2, <3>1 DEF InsertSubsequent, Registry, IInv, TypeOK
  <2>3. ASSUME NEW l \in Link, RejectInsert(l) \/ InstallFails(l)
        PROVE  patch'[t] = "none" /\ head'[t] = NoPtr
    BY <1>3, <2>0, <2>3, LinkTypes DEF RejectInsert, InstallFails, Registry, IInv, TypeOK
  <2>4. ASSUME NEW owner \in Mod, RemoveOwnerLocked(owner, {})
        PROVE  patch'[t] = "none" /\ head'[t] = NoPtr
    BY <1>3, <2>0, <2>4, RemovalLeaves DEF Registry
  <2>5. CASE UNCHANGED <<chain, head, patch>>
    BY <1>3, <2>0, <2>5
  <2>6. CASE DispatchBeginTeardown \/ StepStore \/ Dispatch \/ UNCHANGED allVars
    BY <2>5, <2>6 DEF DispatchBeginTeardown, BeginTeardown, StepStore, Dispatch, Enter, LoadHead,
       LoadFreedHead, RunLink, Return, allVars, vars
  <2> QED
    BY <2>1, <2>2, <2>3, <2>4, <2>6
    DEF DispatchNext, Mutate, BeginInsert, BeginRefused, BeginRemove
<1> QED
  BY <1>2, <1>3 DEF Registry, EmptyIsUnhooked
-----------------------------------------------------------------------------
(* What the game reads *)

(* The memory of a state where no operation is under way. *)
LEMMA IdleMemory ==
  ASSUME Memory, op = NoOp
  PROVE  /\ \A t \in Target : (t \in hooked <=> patch[t] # "none") /\ cell[t] = head[t]
         /\ \A l \in Slotted : l \in chain[TargetOf[l]] => cont[l] = slot[l]
<1>1. \A kinds, x : ~Waiting(kinds, x)
  BY DEF Waiting, NoOp
<1> QED
  BY <1>1 DEF Memory, OthersAreSettled

LEMMA MemoryBegin ==
  ASSUME Registry, Registry', Memory, NEW todo, NEW joins, NEW leaves, Begins(todo, joins, leaves)
  PROVE  Memory' /\ op'.todo = todo /\ (todo # <<>> => op'.joins = joins /\ op'.leaves = leaves)
<1>1. /\ op = NoOp /\ todo \in Seq(Store) /\ joins \in SUBSET Link /\ leaves \in SUBSET Link
      /\ op' = IF todo = <<>> THEN NoOp ELSE [todo |-> todo, joins |-> joins, leaves |-> leaves]
      /\ hooked' = hooked /\ cell' = cell /\ cont' = cont
  BY DEF Begins, Prepared, Changes, Account, memory
<1>2. op'.todo = todo /\ (todo # <<>> => op'.joins = joins /\ op'.leaves = leaves)
  BY <1>1 DEF NoOp
<1>3. MemoryType' /\ OperationType' /\ SlotsLeadOn'
  <2>1. MemoryType' /\ SlotsLeadOn'
    BY <1>1 DEF Memory, MemoryType, SlotsLeadOn
  <2>2. OperationType'
    BY <1>1 DEF OperationType, Operation, NoOp
  <2> QED
    BY <2>1, <2>2
<1>4. StoresSettle'
  <2>1. ASSUME NEW i \in DOMAIN todo PROVE Settles(todo[i])'
    <3>1. PICK x : x = todo[i]
      OBVIOUS
    <3>2. Contains(todo, x)
      BY <3>1 DEF Contains
    <3>3. Settles(x)'
      BY <3>2 DEF Begins, Prepared
    <3> QED
      BY <3>1, <3>3
  <2> QED
    BY <1>2, <2>1 DEF StoresSettle
<1>5. LeadsOnFirst'
  <2>1. CASE todo = <<>>
    BY <1>2, <2>1 DEF LeadsOnFirst, LeadsOnBefore
  <2>2. CASE todo # <<>>
    BY <1>2, <2>2 DEF LeadsOnFirst, Begins, Prepared
  <2> QED
    BY <2>1, <2>2
<1>6. OthersAreSettled'
  <2>1. ASSUME NEW x, Contains(todo, x), NEW kinds, x.cell \in kinds
        PROVE  Waiting(kinds, x.of)'
    BY <1>2, <2>1 DEF Waiting, Contains
  <2>2. ASSUME NEW t \in Target
        PROVE  (t \in hooked' <=> patch'[t] # "none") \/ Waiting({"hook", "unhook"}, t)'
    <3>1. ASSUME Contains(todo, Hook(t)) PROVE Waiting({"hook", "unhook"}, t)'
      <4>1. Hook(t).cell \in {"hook", "unhook"} /\ Hook(t).of = t
        BY DEF Hook
      <4> QED
        BY <2>1, <3>1, <4>1
    <3>2. ASSUME Contains(todo, Unhook(t)) PROVE Waiting({"hook", "unhook"}, t)'
      <4>1. Unhook(t).cell \in {"hook", "unhook"} /\ Unhook(t).of = t
        BY DEF Unhook
      <4> QED
        BY <2>1, <3>2, <4>1
    <3>3. \/ patch'[t] = "none" <=> patch[t] = "none"
          \/ Contains(todo, Hook(t)) \/ Contains(todo, Unhook(t))
      BY DEF Begins, Prepared
    <3>4. t \in hooked <=> patch[t] # "none"
      BY <1>1, IdleMemory
    <3> QED
      BY <1>1, <3>1, <3>2, <3>3, <3>4
  <2>3. ASSUME NEW t \in Target
        PROVE  cell'[t] = head'[t] \/ Waiting({"head"}, t)'
    <3>1. ASSUME NEW p, Contains(todo, SetHead(t, p)) PROVE Waiting({"head"}, t)'
      <4>1. SetHead(t, p).cell \in {"head"} /\ SetHead(t, p).of = t
        BY DEF SetHead
      <4> QED
        BY <2>1, <3>1, <4>1
    <3>2. head'[t] = head[t] \/ \E p : Contains(todo, SetHead(t, p))
      BY DEF Begins, Prepared
    <3>3. cell[t] = head[t]
      BY <1>1, IdleMemory
    <3> QED
      BY <1>1, <3>1, <3>2, <3>3
  <2>4. ASSUME NEW l \in Slotted, l \in chain'[TargetOf[l]]
        PROVE  cont'[l] = slot'[l] \/ Waiting({"slot"}, l)'
    <3>1. ASSUME NEW p, Contains(todo, SetSlot(l, p)) PROVE Waiting({"slot"}, l)'
      <4>1. SetSlot(l, p).cell \in {"slot"} /\ SetSlot(l, p).of = l
        BY DEF SetSlot
      <4> QED
        BY <2>1, <3>1, <4>1
    <3>2. \/ l \in chain[TargetOf[l]] /\ slot'[l] = slot[l]
          \/ \E p : Contains(todo, SetSlot(l, p))
      BY <2>4 DEF Begins, Prepared
    <3>3. l \in chain[TargetOf[l]] => cont[l] = slot[l]
      BY <1>1, IdleMemory
    <3> QED
      BY <1>1, <3>1, <3>2, <3>3
  <2> QED
    BY <2>2, <2>3, <2>4 DEF OthersAreSettled
<1> QED
  BY <1>2, <1>3, <1>4, <1>5, <1>6 DEF Memory

(* What the store at the head of the list does, and what waits after it.   *)
LEMMA StoreDone ==
  ASSUME Registry, Memory, StepStore
  PROVE  \E s :
           /\ op.todo # <<>> /\ s = op.todo[1] /\ 1 \in DOMAIN op.todo
           /\ Settles(s) /\ vars' = vars /\ call' = call
           /\ op'.todo = Tail(op.todo)
           /\ \A i \in DOMAIN op'.todo : i + 1 \in DOMAIN op.todo /\ op'.todo[i] = op.todo[i + 1]
           /\ op' = NoOp \/ (op'.joins = op.joins /\ op'.leaves = op.leaves)
           /\ op' \in Operation /\ (op'.todo = <<>> => op' = NoOp)
           /\ s.cell = "hook" => hooked' = hooked \cup {s.of} /\ cell' = cell /\ cont' = cont
           /\ s.cell = "unhook" => hooked' = hooked \ {s.of} /\ cell' = cell /\ cont' = cont
           /\ s.cell = "head" =>
                hooked' = hooked /\ cell' = [cell EXCEPT ![s.of] = head[s.of]] /\ cont' = cont
           /\ s.cell = "slot" =>
                hooked' = hooked /\ cell' = cell /\ cont' = [cont EXCEPT ![s.of] = slot[s.of]]
           /\ \A kinds, x : Waiting(kinds, x) =>
                Waiting(kinds, x)' \/ (s.cell \in kinds /\ s.of = x)
           /\ \A kinds, x : Waiting(kinds, x)' => Waiting(kinds, x)
<1>0. PICK todo, s : todo = op.todo /\ s = todo[1]
  OBVIOUS
<1>1. /\ todo \in Seq(Store) /\ todo # <<>> /\ op \in Operation
  BY <1>0 DEF Memory, OperationType, Operation, StepStore
<1>2. /\ 1 \in DOMAIN todo /\ Head(todo) = s /\ Tail(todo) \in Seq(Store)
      /\ (Len(todo) = 1 <=> Tail(todo) = <<>>)
      /\ \A i \in DOMAIN todo : \/ i = 1
                                \/ i - 1 \in DOMAIN Tail(todo) /\ Tail(todo)[i - 1] = todo[i]
      /\ \A i \in DOMAIN Tail(todo) : i + 1 \in DOMAIN todo /\ Tail(todo)[i] = todo[i + 1]
  <2>1. /\ Len(todo) \in Nat \ {0} /\ DOMAIN todo = 1 .. Len(todo) /\ Head(todo) = todo[1]
        /\ Tail(todo) \in Seq(Store) /\ Len(Tail(todo)) = Len(todo) - 1
        /\ DOMAIN Tail(todo) = 1 .. Len(todo) - 1
    BY <1>1
  <2>2. \A i \in 1 .. Len(todo) - 1 : Tail(todo)[i] = todo[i + 1]
    BY <1>1
  <2>3. Len(todo) = 1 <=> Tail(todo) = <<>>
    BY <2>1
  <2>4. ASSUME NEW i \in DOMAIN todo
        PROVE  i = 1 \/ (i - 1 \in DOMAIN Tail(todo) /\ Tail(todo)[i - 1] = todo[i])
    <3> DEFINE j == i - 1
    <3>1. i # 1 => j \in 1 .. Len(todo) - 1 /\ j + 1 = i
      BY <2>1
    <3> QED
      BY <2>1, <2>2, <3>1
  <2> QED
    BY <1>0, <2>1, <2>2, <2>3, <2>4
<1>3. Settles(s) /\ s \in Store
  BY <1>0, <1>2 DEF Memory, StoresSettle, Settles
<1>4. op' = IF Len(todo) = 1 THEN NoOp ELSE [op EXCEPT !.todo = Tail(todo)]
  BY <1>0 DEF StepStore
<1>5. /\ op'.todo = Tail(todo)
      /\ \A i \in DOMAIN op'.todo : i + 1 \in DOMAIN todo /\ op'.todo[i] = todo[i + 1]
      /\ op' = NoOp \/ (op'.joins = op.joins /\ op'.leaves = op.leaves)
      /\ op' \in Operation /\ (op'.todo = <<>> => op' = NoOp)
  <2>1. CASE Len(todo) = 1
    BY <1>2, <1>4, <2>1 DEF NoOp, Operation
  <2>2. CASE Len(todo) # 1
    BY <1>1, <1>2, <1>4, <2>2 DEF Operation
  <2> QED
    BY <2>1, <2>2
<1>6. ASSUME NEW kinds, NEW x, Waiting(kinds, x)
      PROVE  Waiting(kinds, x)' \/ (s.cell \in kinds /\ s.of = x)
  <2>1. PICK i \in DOMAIN todo : todo[i].cell \in kinds /\ todo[i].of = x
    BY <1>0, <1>6 DEF Waiting
  <2>2. CASE i = 1
    BY <1>0, <2>1, <2>2
  <2>3. CASE i # 1
    <3>1. /\ i - 1 \in DOMAIN Tail(todo)
          /\ Tail(todo)[i - 1].cell \in kinds /\ Tail(todo)[i - 1].of = x
      BY <1>2, <2>1, <2>3
    <3>2. op'.todo = Tail(todo)
      BY <1>5
    <3> QED
      BY <3>1, <3>2 DEF Waiting
  <2> QED
    BY <2>2, <2>3
<1>7. ASSUME NEW kinds, NEW x, Waiting(kinds, x)'
      PROVE  Waiting(kinds, x)
  <2>1. PICK i \in DOMAIN Tail(todo) : Tail(todo)[i].cell \in kinds /\ Tail(todo)[i].of = x
    BY <1>5, <1>7 DEF Waiting
  <2>2. i + 1 \in DOMAIN todo /\ todo[i + 1].cell \in kinds /\ todo[i + 1].of = x
    BY <1>2, <2>1
  <2> QED
    BY <1>0, <2>2 DEF Waiting
<1>8. /\ s.cell = "hook" => hooked' = hooked \cup {s.of} /\ cell' = cell /\ cont' = cont
      /\ s.cell = "unhook" => hooked' = hooked \ {s.of} /\ cell' = cell /\ cont' = cont
      /\ s.cell = "head" =>
           hooked' = hooked /\ cell' = [cell EXCEPT ![s.of] = s.to] /\ cont' = cont
      /\ s.cell = "slot" =>
           hooked' = hooked /\ cell' = cell /\ cont' = [cont EXCEPT ![s.of] = s.to]
  BY <1>0, <1>2 DEF StepStore
<1>9. (s.cell = "head" => s.to = head[s.of]) /\ (s.cell = "slot" => s.to = slot[s.of])
  BY <1>3 DEF Settles
<1>10. vars' = vars /\ call' = call
  BY DEF StepStore
<1> QED
  BY <1>0, <1>1, <1>2, <1>3, <1>5, <1>6, <1>7, <1>8, <1>9, <1>10

LEMMA MemoryStore ==
  ASSUME Registry, Memory, StepStore
  PROVE  Memory'
<1>1. PICK s :
         /\ op.todo # <<>> /\ s = op.todo[1] /\ 1 \in DOMAIN op.todo
         /\ Settles(s) /\ vars' = vars /\ call' = call
         /\ op'.todo = Tail(op.todo)
         /\ \A i \in DOMAIN op'.todo : i + 1 \in DOMAIN op.todo /\ op'.todo[i] = op.todo[i + 1]
         /\ op' = NoOp \/ (op'.joins = op.joins /\ op'.leaves = op.leaves)
         /\ op' \in Operation /\ (op'.todo = <<>> => op' = NoOp)
         /\ s.cell = "hook" => hooked' = hooked \cup {s.of} /\ cell' = cell /\ cont' = cont
         /\ s.cell = "unhook" => hooked' = hooked \ {s.of} /\ cell' = cell /\ cont' = cont
         /\ s.cell = "head" =>
              hooked' = hooked /\ cell' = [cell EXCEPT ![s.of] = head[s.of]] /\ cont' = cont
         /\ s.cell = "slot" =>
              hooked' = hooked /\ cell' = cell /\ cont' = [cont EXCEPT ![s.of] = slot[s.of]]
         /\ \A kinds, x : Waiting(kinds, x) =>
              Waiting(kinds, x)' \/ (s.cell \in kinds /\ s.of = x)
         /\ \A kinds, x : Waiting(kinds, x)' => Waiting(kinds, x)
  BY StoreDone
<1>2. s.cell \in {"hook", "unhook", "head", "slot"}
  BY <1>1 DEF Settles, Store
<1>3. UNCHANGED <<chain, head, slot, patch>>
  BY <1>1 DEF vars
<1>4. /\ s.cell \in {"hook", "unhook", "head"} => s.of \in Target
      /\ s.cell = "hook" => patch[s.of] # "none"
      /\ s.cell = "unhook" => patch[s.of] = "none"
      /\ s.cell = "slot" => s.of \in Link /\ s.of \in Slotted /\ s.of \in chain[TargetOf[s.of]]
  BY <1>1, RegistryAssumption DEF Settles
<1>5. head \in [Target -> Pointer] /\ slot \in [Link -> Pointer]
  BY DEF Registry, IInv, TypeOK
<1>6. MemoryType'
  BY <1>1, <1>2, <1>4, <1>5 DEF Memory, MemoryType
<1>7. OperationType'
  BY <1>1 DEF OperationType
<1>8. StoresSettle'
  <2>1. ASSUME NEW i \in DOMAIN op'.todo, NEW x, x = op'.todo[i] PROVE Settles(x)'
    <3>1. Settles(x)
      BY <1>1, <2>1 DEF Memory, StoresSettle
    <3> QED
      BY <1>3, <3>1 DEF Settles
  <2> QED
    BY <2>1 DEF StoresSettle
<1>9. LeadsOnFirst'
  <2> SUFFICES ASSUME NEW i \in DOMAIN op'.todo, NEW j \in DOMAIN op'.todo, i <= j,
                      op'.todo[j].cell = "slot", op'.todo[j].of \in op'.joins,
                      ~(chain[TargetOf[op'.todo[j].of]] \subseteq op'.joins),
                      op'.todo[i].cell \in {"head", "slot"}
               PROVE  op'.todo[i].to # op'.todo[j].of
    BY <1>3 DEF LeadsOnFirst, LeadsOnBefore
  <2>1. op'.joins = op.joins
    BY <1>1 DEF NoOp
  <2>2. /\ i + 1 \in DOMAIN op.todo /\ op'.todo[i] = op.todo[i + 1]
        /\ j + 1 \in DOMAIN op.todo /\ op'.todo[j] = op.todo[j + 1]
    BY <1>1
  <2>3. i \in Int /\ j \in Int
    BY <1>1 DEF Operation
  <2>4. i + 1 <= j + 1
    BY <2>3
  <2> QED
    BY <2>1, <2>2, <2>4 DEF Memory, LeadsOnFirst, LeadsOnBefore
<1>10. SlotsLeadOn'
  <2> SUFFICES ASSUME NEW m \in Link, cont'[m] \in Link PROVE Precedes(m, cont'[m])
    BY DEF SlotsLeadOn
  <2>1. CASE cont'[m] = cont[m]
    BY <2>1 DEF Memory, SlotsLeadOn
  <2>2. CASE cont'[m] # cont[m]
    <3>1. m = s.of /\ s.cell = "slot" /\ cont'[m] = slot[m]
      BY <1>1, <1>2, <2>2 DEF Memory, MemoryType
    <3>2. TargetOf[m] \in Target /\ m \in chain[TargetOf[m]] \cap Slotted
      BY <1>4, <3>1, LinkTypes
    <3>3. chain[TargetOf[m]] \in SUBSET Link /\ slot[m] = SuccessorIn(chain[TargetOf[m]], m)
      BY <3>2 DEF Registry, IInv, Wired, TypeOK
    <3> QED
      BY <3>1, <3>3, SuccessorIsClosest, PointerAssumption
  <2> QED
    BY <2>1, <2>2
<1>11. OthersAreSettled'
  <2>1. ASSUME NEW t \in Target
        PROVE  (t \in hooked' <=> patch'[t] # "none") \/ Waiting({"hook", "unhook"}, t)'
    <3>1. (t \in hooked <=> patch[t] # "none") \/ Waiting({"hook", "unhook"}, t)
      BY DEF Memory, OthersAreSettled
    <3>2. Waiting({"hook", "unhook"}, t) =>
            Waiting({"hook", "unhook"}, t)' \/ (s.cell \in {"hook", "unhook"} /\ s.of = t)
      BY <1>1
    <3>3. s.cell \in {"hook", "unhook"} /\ s.of = t => (t \in hooked' <=> patch'[t] # "none")
      BY <1>1, <1>3, <1>4
    <3>4. ~(s.cell \in {"hook", "unhook"} /\ s.of = t) => (t \in hooked' <=> t \in hooked)
      BY <1>1, <1>2
    <3> QED
      BY <1>3, <3>1, <3>2, <3>3, <3>4
  <2>2. ASSUME NEW t \in Target
        PROVE  cell'[t] = head'[t] \/ Waiting({"head"}, t)'
    <3>1. cell[t] = head[t] \/ Waiting({"head"}, t)
      BY DEF Memory, OthersAreSettled
    <3>2. Waiting({"head"}, t) => Waiting({"head"}, t)' \/ (s.cell \in {"head"} /\ s.of = t)
      BY <1>1
    <3>3. cell \in [Target -> Pointer]
      BY DEF Memory, MemoryType
    <3>4. s.cell \in {"head"} /\ s.of = t => cell'[t] = head[t]
      BY <1>1, <3>3
    <3>5. ~(s.cell \in {"head"} /\ s.of = t) => cell'[t] = cell[t]
      BY <1>1, <1>2, <3>3
    <3> QED
      BY <1>3, <3>1, <3>2, <3>4, <3>5
  <2>3. ASSUME NEW l \in Slotted, l \in chain'[TargetOf[l]]
        PROVE  cont'[l] = slot'[l] \/ Waiting({"slot"}, l)'
    <3>1. cont[l] = slot[l] \/ Waiting({"slot"}, l)
      BY <1>3, <2>3 DEF Memory, OthersAreSettled
    <3>2. Waiting({"slot"}, l) => Waiting({"slot"}, l)' \/ (s.cell \in {"slot"} /\ s.of = l)
      BY <1>1
    <3>3. cont \in [Link -> Pointer] /\ l \in Link
      BY RegistryAssumption DEF Memory, MemoryType
    <3>4. s.cell \in {"slot"} /\ s.of = l => cont'[l] = slot[l]
      BY <1>1, <3>3
    <3>5. ~(s.cell \in {"slot"} /\ s.of = l) => cont'[l] = cont[l]
      BY <1>1, <1>2, <3>3
    <3> QED
      BY <1>3, <3>1, <3>2, <3>4, <3>5
  <2> QED
    BY <2>1, <2>2, <2>3 DEF OthersAreSettled
<1> QED
  BY <1>6, <1>7, <1>8, <1>9, <1>10, <1>11 DEF Memory
-----------------------------------------------------------------------------
(* The links that a call may yet run, from step to step *)

(* With no operation under way they are the chain. *)
LEMMA IdleLeads ==
  ASSUME Registry, Memory, op = NoOp, NEW t \in Target, chain[t] # {}, NEW C, C = chain[t]
  PROVE  Leads(t, C, C, C) /\ Starts(t, C, C)
<1>1. /\ C \in SUBSET Link /\ C \subseteq LinksOn(t) /\ op.joins = {}
      /\ head[t] = HeadOf(C) /\ \A l \in C \cap Slotted : slot[l] = SuccessorIn(C, l)
  BY DEF Registry, IInv, TypeOK, ChainsAreOnTheirTargets, Wired, NoOp
<1>2. cell[t] = HeadOf(C)
  BY <1>1, IdleMemory
<1>3. ASSUME NEW m \in C \cap Slotted PROVE Onward(m, cont[m], C, C)
  <2>1. TargetOf[m] = t /\ m \in Link
    BY <1>1 DEF LinksOn
  <2>2. cont[m] = SuccessorIn(C, m)
    BY <1>1, <2>1, IdleMemory
  <2> DEFINE p == SuccessorIn(C, m)
  <2>3. \/ p = RealTrampoline /\ \A s \in C : ~Precedes(m, s)
        \/ p \in C /\ \A s \in C : Precedes(m, s) => s = p \/ Precedes(p, s)
    BY <1>1, <2>1, SuccessorIsClosest
  <2> HIDE DEF p
  <2> QED
    BY <2>2, <2>3 DEF Onward, p
<1>4. Starts(t, C, C)
  <2>1. HeadOf(C) \in C /\ \A s \in C \ {HeadOf(C)} : Precedes(HeadOf(C), s)
    BY <1>1, HeadExists
  <2> QED
    BY <1>2, <2>1 DEF Starts
<1>5. Leads(t, C, C, C)
  BY <1>1, <1>3 DEF Leads
<1> QED
  BY <1>4, <1>5

(* What is steady, and what is known, when links join and leave. *)
Adjusted(t, S, K, joins, leaves, T, L) ==
  T = S \ leaves /\ K \cup (joins \cap LinksOn(t)) \subseteq L

(* When an operation begins a joining link without a slot joins them, and  *)
(* the leaving ones stay.                                                  *)
LEMMA LeadsBegin ==
  ASSUME Registry, Registry', Memory,
         NEW todo, NEW joins, NEW leaves, Begins(todo, joins, leaves),
         NEW t \in Target, NEW C \in SUBSET Link, NEW S, NEW K, NEW T, NEW L,
         Leads(t, C, S, K), chain'[t] \ joins # {},
         Adjusted(t, S, K, joins, leaves, T, L)
  PROVE  \E D \in SUBSET Link :
           C \subseteq D /\ Leads(t, D, T, L)' /\ (Starts(t, C, S) => Starts(t, D, T)')
<1>0. PICK c, n : c = chain[t] /\ n = chain'[t]
  OBVIOUS
<1> DEFINE D == C \cup (n \ Slotted)
<1> USE DEF Adjusted
<1>1. /\ op = NoOp /\ op.joins = {} /\ c \cap joins = {}
      /\ n = (c \cup (joins \cap LinksOn(t))) \ leaves /\ (joins = {} \/ leaves = {})
      /\ cell' = cell /\ cont' = cont
  BY <1>0 DEF Begins, Changes, NoOp, Account, memory
<1>2. /\ Memory' /\ op'.todo = todo /\ (todo # <<>> => op'.joins = joins)
      /\ (todo = <<>> => op' = NoOp /\ op'.joins = {})
  BY MemoryBegin DEF NoOp, Memory, OperationType
<1>3. c \in SUBSET Link /\ n \in SUBSET Link /\ n \subseteq LinksOn(t)
  BY <1>0 DEF Registry, IInv, TypeOK, ChainsAreOnTheirTargets
<1>4. /\ C \subseteq K \cap LinksOn(t) /\ c # {} /\ c \subseteq C /\ c \subseteq K /\ S \subseteq c
      /\ \A m \in C \cap Slotted : Onward(m, cont[m], C, S)
  BY <1>0, <1>1 DEF Leads
<1>5. ASSUME NEW l \in n \ D
      PROVE  l \in Slotted /\ l \in joins /\ \E p : Contains(todo, SetSlot(l, p))
  <2>1. l \in Slotted /\ l \notin c /\ l \in joins
    BY <1>1, <1>4, <1>5
  <2>2. TargetOf[l] = t
    BY <1>3, <1>5 DEF LinksOn
  <2>3. l \in chain'[TargetOf[l]] /\ l \notin chain[TargetOf[l]]
    BY <1>0, <1>5, <2>1, <2>2
  <2> QED
    BY <2>1, <2>3 DEF Begins, Prepared
<1>6. \A l \in n \ D : l \in Slotted /\ Waiting({"slot"}, l)'
  <2> SUFFICES ASSUME NEW l \in n \ D PROVE l \in Slotted /\ Waiting({"slot"}, l)'
    OBVIOUS
  <2>1. PICK p : Contains(todo, SetSlot(l, p))
    BY <1>5
  <2>2. SetSlot(l, p).cell \in {"slot"} /\ SetSlot(l, p).of = l
    BY DEF SetSlot
  <2> QED
    BY <1>2, <1>5, <2>1, <2>2 DEF Waiting, Contains
<1>7. todo = <<>> => n \subseteq D
  BY <1>5 DEF Contains
<1>8. n \ op'.joins # {} /\ n \ op'.joins \subseteq D /\ T \subseteq n \ op'.joins
  <2>1. CASE todo = <<>>
    <3>1. T \subseteq n
      BY <1>1, <1>4
    <3> QED
      BY <1>0, <1>2, <1>7, <2>1, <3>1
  <2>2. CASE todo # <<>>
    BY <1>0, <1>1, <1>2, <1>4, <2>2
  <2> QED
    BY <2>1, <2>2
<1>9. D \subseteq L \cap LinksOn(t) /\ n \subseteq L
  BY <1>1, <1>3, <1>4
<1>10. ASSUME NEW m \in D \cap Slotted PROVE Onward(m, cont'[m], D, T)
  <2>1. m \in C \cap Slotted /\ cont'[m] = cont[m]
    BY <1>1, <1>10
  <2>2. T \subseteq S /\ C \subseteq D /\ Onward(m, cont[m], C, S)
    BY <1>4, <2>1
  <2> HIDE DEF D
  <2> QED
    BY <2>1, <2>2 DEF Onward
<1>11. Starts(t, C, S) => Starts(t, D, T)'
  BY <1>1 DEF Starts
<1>12. D \in SUBSET Link /\ C \subseteq D
  BY <1>3
<1> HIDE DEF D
<1>13. Leads(t, D, T, L)'
  BY <1>0, <1>6, <1>8, <1>9, <1>10 DEF Leads
<1> QED
  BY <1>11, <1>12, <1>13

(* A store may make one more of them: the joining link that now leads on.  *)
LEMMA LeadsStore ==
  ASSUME Registry, Memory, StepStore,
         NEW t \in Target, NEW C \in SUBSET Link, NEW S, NEW K, Leads(t, C, S, K)
  PROVE  \E D \in SUBSET Link :
           C \subseteq D /\ Leads(t, D, S, K)' /\ (Starts(t, C, S) => Starts(t, D, S)')
<1>1. PICK s :
         /\ op.todo # <<>> /\ s = op.todo[1] /\ 1 \in DOMAIN op.todo
         /\ Settles(s) /\ vars' = vars /\ call' = call
         /\ op'.todo = Tail(op.todo)
         /\ \A i \in DOMAIN op'.todo : i + 1 \in DOMAIN op.todo /\ op'.todo[i] = op.todo[i + 1]
         /\ op' = NoOp \/ (op'.joins = op.joins /\ op'.leaves = op.leaves)
         /\ op' \in Operation /\ (op'.todo = <<>> => op' = NoOp)
         /\ s.cell = "hook" => hooked' = hooked \cup {s.of} /\ cell' = cell /\ cont' = cont
         /\ s.cell = "unhook" => hooked' = hooked \ {s.of} /\ cell' = cell /\ cont' = cont
         /\ s.cell = "head" =>
              hooked' = hooked /\ cell' = [cell EXCEPT ![s.of] = head[s.of]] /\ cont' = cont
         /\ s.cell = "slot" =>
              hooked' = hooked /\ cell' = cell /\ cont' = [cont EXCEPT ![s.of] = slot[s.of]]
         /\ \A kinds, x : Waiting(kinds, x) =>
              Waiting(kinds, x)' \/ (s.cell \in kinds /\ s.of = x)
         /\ \A kinds, x : Waiting(kinds, x)' => Waiting(kinds, x)
  BY StoreDone
<1>0. PICK c, joins : c = chain[t] /\ joins = op.joins
  OBVIOUS
<1> DEFINE D == C \cup {m \in c : s.cell = "slot" /\ s.of = m}
<1>2. s.cell \in {"hook", "unhook", "head", "slot"}
  BY <1>1 DEF Settles, Store
<1>3. /\ chain' = chain /\ c \in SUBSET Link /\ c \subseteq LinksOn(t)
      /\ head[t] = HeadOf(c) /\ \A l \in c \cap Slotted : slot[l] = SuccessorIn(c, l)
  BY <1>0, <1>1 DEF Registry, IInv, TypeOK, ChainsAreOnTheirTargets, Wired, vars, Leads
<1>4. /\ C \subseteq K \cap LinksOn(t) /\ c # {} /\ c \ joins # {} /\ c \ joins \subseteq C
      /\ c \subseteq K /\ S \subseteq c \ joins
      /\ \A l \in c \ C : l \in Slotted /\ Waiting({"slot"}, l)
      /\ \A m \in C \cap Slotted : Onward(m, cont[m], C, S)
  BY <1>0 DEF Leads
<1>5. C \subseteq D /\ D \in SUBSET Link /\ D \subseteq C \cup c
  BY <1>3
(* The store at hand leads to no joining link that does not lead on. *)
<1>6. ASSUME s.cell \in {"head", "slot"}, s.to \in c
      PROVE  s.to \in D
  <2> SUFFICES ASSUME s.to \notin C PROVE FALSE
    BY <1>5
  <2>1. s.to \in joins /\ Waiting({"slot"}, s.to)
    BY <1>4, <1>6
  <2>2. PICK j \in DOMAIN op.todo : op.todo[j].cell \in {"slot"} /\ op.todo[j].of = s.to
    BY <2>1 DEF Waiting
  <2>3. 1 <= j
    BY DEF Memory, OperationType, Operation
  <2>4. ~(chain[TargetOf[op.todo[j].of]] \subseteq op.joins)
    BY <1>0, <1>3, <1>4, <1>6, <2>2 DEF LinksOn
  <2> QED
    BY <1>0, <1>1, <1>6, <2>1, <2>2, <2>3, <2>4 DEF Memory, LeadsOnFirst, LeadsOnBefore
<1>7. \A l \in c \ D : l \in Slotted /\ Waiting({"slot"}, l)'
  <2> SUFFICES ASSUME NEW l \in c \ D PROVE l \in Slotted /\ Waiting({"slot"}, l)'
    OBVIOUS
  <2>1. l \in c \ C /\ ~(s.cell = "slot" /\ s.of = l)
    BY <1>5
  <2>2. l \in Slotted /\ Waiting({"slot"}, l)
    BY <1>4, <2>1
  <2>3. Waiting({"slot"}, l)' \/ (s.cell \in {"slot"} /\ s.of = l)
    BY <1>1, <2>2
  <2> QED
    BY <2>1, <2>2, <2>3
<1>8. c \ op'.joins # {} /\ c \ op'.joins \subseteq D /\ S \subseteq c \ op'.joins
  <2>1. CASE op' = NoOp
    <3>1. op'.joins = {} /\ \A l : ~Waiting({"slot"}, l)'
      BY <2>1 DEF NoOp, Waiting
    <3>2. c \subseteq D
      BY <1>7, <3>1
    <3> HIDE DEF D
    <3> QED
      BY <1>4, <3>1, <3>2
  <2>2. CASE op'.joins = op.joins
    BY <1>0, <1>4, <1>5, <2>2
  <2> QED
    BY <1>1, <2>1, <2>2
<1>9. ASSUME NEW m \in D \cap Slotted PROVE Onward(m, cont'[m], D, S)
  <2>1. m \in Link /\ TargetOf[m] = t /\ cont \in [Link -> Pointer]
    BY <1>3, <1>4, <1>5, <1>9 DEF LinksOn, Memory, MemoryType
  <2>2. CASE s.cell = "slot" /\ s.of = m
    <3>1. m \in c /\ s.to = slot[m] /\ cont'[m] = slot[m]
      BY <1>0, <1>1, <2>1, <2>2 DEF Settles
    <3> DEFINE p == SuccessorIn(c, m)
    <3>2. slot[m] = p
      BY <1>3, <1>9, <3>1
    <3>3. \/ p = RealTrampoline /\ \A x \in c : ~Precedes(m, x)
          \/ p \in c /\ \A x \in c : Precedes(m, x) => x = p \/ Precedes(p, x)
      BY <1>3, <2>1, SuccessorIsClosest
    <3> HIDE DEF p, D
    <3>4. p \in c => p \in D
      BY <1>6, <2>2, <3>1, <3>2
    <3> QED
      BY <1>4, <3>1, <3>2, <3>3, <3>4 DEF Onward
  <2>3. CASE ~(s.cell = "slot" /\ s.of = m)
    <3>1. m \in C
      BY <1>9, <2>3
    <3>2. cont'[m] = cont[m]
      BY <1>1, <1>2, <2>1, <2>3
    <3>3. Onward(m, cont[m], C, S)
      BY <1>4, <1>9, <3>1
    <3> HIDE DEF D
    <3> QED
      BY <1>5, <3>2, <3>3 DEF Onward
  <2> QED
    BY <2>2, <2>3
<1>10. ASSUME Starts(t, C, S) PROVE Starts(t, D, S)'
  <2>0. cell \in [Target -> Pointer]
    BY DEF Memory, MemoryType
  <2>1. CASE s.cell = "head" /\ s.of = t
    <3>1. cell'[t] = HeadOf(c) /\ s.to = HeadOf(c)
      BY <1>1, <1>3, <2>0, <2>1 DEF Settles
    <3>2. HeadOf(c) \in c /\ \A x \in c \ {HeadOf(c)} : Precedes(HeadOf(c), x)
      BY <1>3, <1>4, HeadExists
    <3>3. HeadOf(c) \in D
      BY <1>6, <2>1, <3>1, <3>2
    <3> HIDE DEF D
    <3> QED
      BY <1>4, <3>1, <3>2, <3>3 DEF Starts
  <2>2. CASE ~(s.cell = "head" /\ s.of = t)
    <3>1. cell'[t] = cell[t]
      BY <1>1, <1>2, <2>0, <2>2
    <3> HIDE DEF D
    <3> QED
      BY <1>5, <1>10, <3>1 DEF Starts
  <2> QED
    BY <2>1, <2>2
<1> HIDE DEF D
<1>11. D \subseteq K \cap LinksOn(t)
  BY <1>3, <1>4, <1>5
<1>12. Leads(t, D, S, K)'
  BY <1>0, <1>3, <1>4, <1>7, <1>8, <1>9, <1>11 DEF Leads
<1> QED
  BY <1>5, <1>10, <1>12

(* They stay where nothing of what the game reads, or waits for, changes.  *)
LEMMA LeadsStay ==
  ASSUME UNCHANGED <<chain, cell, cont, op>>,
         NEW t, NEW C, NEW S, NEW K, NEW L, K \subseteq L, Leads(t, C, S, K)
  PROVE  Leads(t, C, S, L)' /\ (Starts(t, C, S) => Starts(t, C, S)')
BY DEF Leads, Starts, Onward, Waiting

LEMMA IdleEnterable == Registry /\ Memory /\ op = NoOp => Enterable
<1> SUFFICES ASSUME Registry, Memory, op = NoOp, NEW t \in Target, chain[t] \ op.joins # {}
             PROVE  \E C \in SUBSET Link :
                      /\ Leads(t, C, chain[t] \ op.joins, chain[t] \cup op.leaves)
                      /\ Starts(t, C, chain[t] \ op.joins)
  BY DEF Enterable
<1>1. op.joins = {} /\ op.leaves = {}
  BY DEF NoOp
<1>2. PICK C : C = chain[t] \ op.joins
  OBVIOUS
<1>3. C = chain[t] /\ C # {} /\ C = chain[t] \cup op.leaves
  BY <1>1, <1>2
<1>4. Leads(t, C, C, C) /\ Starts(t, C, C) /\ C \in SUBSET Link
  BY <1>3, IdleLeads DEF Registry, IInv, TypeOK
<1> QED
  BY <1>2, <1>3, <1>4

LEMMA EnterableStep ==
  ASSUME Registry, Registry', Memory, Memory', Enterable, IsFiniteSet(Link), [DispatchNext]_allVars
  PROVE  Enterable'
<1>1. CASE op' = NoOp
  <2>1. (Registry /\ Memory /\ op = NoOp => Enterable)'
    BY IdleEnterable, PTL
  <2> QED
    BY <1>1, <2>1
<1>2. CASE op' # NoOp
  <2> SUFFICES ASSUME NEW t \in Target, chain'[t] \ op'.joins # {}
               PROVE  \E C \in SUBSET Link :
                        /\ Leads(t, C, chain[t] \ op.joins, chain[t] \cup op.leaves)'
                        /\ Starts(t, C, chain[t] \ op.joins)'
    BY DEF Enterable
  <2>1. CASE UNCHANGED <<chain, cell, cont, op>>
    <3>0. PICK S, K : S = chain[t] \ op.joins /\ K = chain[t] \cup op.leaves
      OBVIOUS
    <3>1. PICK C \in SUBSET Link : Leads(t, C, S, K) /\ Starts(t, C, S)
      <4>1. chain[t] \ op.joins # {}
        BY <2>1
      <4> QED
        BY <3>0, <4>1 DEF Enterable
    <3>2. Leads(t, C, S, K)' /\ Starts(t, C, S)'
      BY <2>1, <3>1, LeadsStay
    <3>3. S = chain'[t] \ op'.joins /\ K = chain'[t] \cup op'.leaves
      BY <2>1, <3>0
    <3> QED
      BY <3>2, <3>3 DEF Leads, Starts
  <2>2. ASSUME NEW todo, NEW joins, NEW leaves, Begins(todo, joins, leaves)
        PROVE  \E C \in SUBSET Link :
                 /\ Leads(t, C, chain[t] \ op.joins, chain[t] \cup op.leaves)'
                 /\ Starts(t, C, chain[t] \ op.joins)'
    <3>1. todo # <<>> /\ op'.joins = joins /\ op'.leaves = leaves /\ op = NoOp
      BY <1>2, <2>2, MemoryBegin DEF Memory, OperationType, Begins
    <3>2. PICK c, n : c = chain[t] /\ n = chain'[t] /\ c \in SUBSET Link
      BY DEF Registry, IInv, TypeOK
    <3>3. /\ c \cap joins = {} /\ n = (c \cup (joins \cap LinksOn(t))) \ leaves
          /\ joins = {} \/ leaves = {}
      BY <2>2, <3>2 DEF Begins, Changes
    <3>4. c # {} /\ c \ leaves = n \ joins /\ c \cup (joins \cap LinksOn(t)) \subseteq n \cup leaves
      BY <3>1, <3>2, <3>3
    <3>5. Leads(t, c, c, c) /\ Starts(t, c, c)
      BY <3>1, <3>2, <3>4, IdleLeads
    <3>6. PICK T, L : T = n \ joins /\ L = n \cup leaves
      OBVIOUS
    <3>7. PICK D \in SUBSET Link : Leads(t, D, T, L)' /\ Starts(t, D, T)'
      <4>1. Adjusted(t, c, c, joins, leaves, T, L) /\ chain'[t] \ joins # {}
        BY <3>1, <3>4, <3>6 DEF Adjusted
      <4>2. \E D \in SUBSET Link :
              c \subseteq D /\ Leads(t, D, T, L)' /\ (Starts(t, c, c) => Starts(t, D, T)')
        BY <2>2, <3>2, <3>5, <4>1, LeadsBegin
      <4> QED
        BY <3>5, <4>2
    <3> QED
      BY <3>1, <3>2, <3>6, <3>7 DEF Leads, Starts
  <2>3. CASE StepStore
    <3>1. op'.joins = op.joins /\ op'.leaves = op.leaves /\ chain' = chain
      <4>1. op' = IF Len(op.todo) = 1 THEN NoOp ELSE [op EXCEPT !.todo = Tail(@)]
        BY <2>3 DEF StepStore
      <4> QED
        BY <1>2, <2>3, <4>1 DEF Memory, OperationType, Operation, StepStore, vars
    <3>0. PICK S, K : S = chain[t] \ op.joins /\ K = chain[t] \cup op.leaves
      OBVIOUS
    <3>2. PICK C \in SUBSET Link : Leads(t, C, S, K) /\ Starts(t, C, S)
      <4>1. chain[t] \ op.joins # {}
        BY <3>1
      <4> QED
        BY <3>0, <4>1 DEF Enterable
    <3>3. PICK D \in SUBSET Link : Leads(t, D, S, K)' /\ Starts(t, D, S)'
      BY <2>3, <3>2, LeadsStore
    <3> QED
      BY <3>0, <3>1, <3>3 DEF Leads, Starts
  <2>4. CASE Quiet
    BY <2>1, <2>4 DEF Quiet, memory
  <2>5. CASE Dispatch
    BY <2>1, <2>5 DEF Dispatch, Enter, LoadHead, LoadFreedHead, RunLink, Return, vars, memory
  <2> QED
    BY <2>2, <2>3, <2>4, <2>5, StepKinds DEF Registry
<1> QED
  BY <1>1, <1>2
-----------------------------------------------------------------------------
(* The call of the game *)

(* No call runs more links than there are. *)
LEMMA RanIsShort ==
  ASSUME IsFiniteSet(Link), CallType, RunsInChainOrder
  PROVE  Cardinality(Link) \in Nat /\ Len(call.ran) \in Nat /\ Len(call.ran) < MaxRan
<1>0. PICK ran : ran = call.ran
  OBVIOUS
<1>1. ran \in Seq(Link) /\ Cardinality(Link) \in Nat
  BY <1>0, FS_CardinalityType DEF CallType
<1> DEFINE n == Len(ran)
<1>2. n \in Nat /\ DOMAIN ran = 1 .. n /\ ran \in [1 .. n -> Link]
  BY <1>1
<1>3. ASSUME NEW i \in 1 .. n, NEW j \in 1 .. n, i # j
      PROVE  ran[i] # ran[j]
  <2>1. i < j \/ j < i
    BY <1>2, <1>3
  <2>2. ran[i] \in Link /\ ran[j] \in Link
    BY <1>2
  <2>3. i < j => Precedes(ran[i], ran[j])
    BY <1>0, <1>2 DEF RunsInChainOrder
  <2>4. j < i => Precedes(ran[j], ran[i])
    BY <1>0, <1>2 DEF RunsInChainOrder
  <2> QED
    BY <2>1, <2>2, <2>3, <2>4, PrecedesIsStrictTotalOrder
<1>4. Cardinality(1 .. n) = n /\ IsFiniteSet(1 .. n)
  BY <1>2, FS_Interval
<1> HIDE DEF n
<1>5. ran \in Injection(1 .. n, Link)
  BY <1>2, <1>3 DEF Injection, IsInjective
<1>6. n <= Cardinality(Link)
  BY <1>4, <1>5, FS_Injection
<1> QED
  BY <1>0, <1>1, <1>2, <1>6 DEF MaxRan, n

LEMMA CallBegin ==
  ASSUME Registry, Registry', Memory, Call,
         NEW todo, NEW joins, NEW leaves, Begins(todo, joins, leaves)
  PROVE  Call'
<1>1. CASE call.phase = "idle"
  <2>1. call' = call
    BY <1>1 DEF Begins, Account
  <2> QED
    BY <1>1, <2>1 DEF Call, CallType, InOrder, RunsInChainOrder, Ran, CallIsGuided, Guided
<1>2. CASE call.phase # "idle"
  <2>1. /\ call' = [call EXCEPT !.steady = call.steady \ leaves,
                                !.joined = call.joined \cup joins,
                                !.overlapped = call.overlapped \/ \E i \in DOMAIN todo :
                                                   todo[i].cell \in {"hook", "unhook"}]
        /\ joins \in SUBSET Link /\ leaves \in SUBSET Link /\ op = NoOp
    BY <1>2 DEF Begins, Account, Changes
  <2>2. CallType
    BY DEF Call
  <2>3. /\ call'.phase = call.phase /\ call'.at = call.at /\ call'.ran = call.ran
        /\ call'.absent = call.absent
        /\ call'.steady = call.steady \ leaves /\ call'.joined = call.joined \cup joins
    BY <2>1, <2>2 DEF CallType
  <2>4. /\ call'.overlapped \in BOOLEAN
        /\ ~call'.overlapped => ~call.overlapped
        /\ ~call'.overlapped => \A i \in DOMAIN todo : ~(todo[i].cell \in {"hook", "unhook"})
    BY <2>1, <2>2 DEF CallType
  <2>5. CallType'
    BY <2>1, <2>2, <2>4 DEF CallType
  <2>6. InOrder'
    BY <2>3 DEF Call, InOrder, RunsInChainOrder, Ran
  <2>7. ASSUME Guided' PROVE \E t \in Target, C \in SUBSET Link : IsAt(t, C)'
    <3>1. Guided
      BY <2>3, <2>4, <2>7 DEF Guided
    <3>2. PICK t \in Target, C \in SUBSET Link : IsAt(t, C)
      BY <3>1 DEF Call, CallIsGuided
    <3>3. PICK S, K, T, L : S = call.steady /\ K = Known /\ T = call'.steady /\ L = Known'
      OBVIOUS
    <3>4. K \cup (joins \cap LinksOn(t)) \subseteq L
      BY <2>1, <2>3, <3>3 DEF Known
    <3>5. Adjusted(t, S, K, joins, leaves, T, L)
      BY <2>3, <3>3, <3>4 DEF Adjusted
    <3>6. Leads(t, C, S, K)
      BY <3>2, <3>3 DEF IsAt
    <3>7. PICK c, n : c = chain[t] /\ n = chain'[t]
      OBVIOUS
    <3>8. /\ c \cap joins = {} /\ n = (c \cup (joins \cap LinksOn(t))) \ leaves
          /\ joins = {} \/ leaves = {}
          /\ ~(c = {} <=> n = {}) => Contains(todo, Hook(t)) \/ Contains(todo, Unhook(t))
      BY <3>7 DEF Begins, Changes
    <3>9. c # {} /\ S \subseteq c
      BY <2>1, <3>6, <3>7 DEF Leads, NoOp
    <3>10. n \ joins # {}
      <4>1. CASE T # {}
        <5>1. T \subseteq c \ leaves
          BY <2>3, <3>3, <3>9
        <5> QED
          BY <3>8, <4>1, <5>1
      <4>2. CASE ~call'.overlapped
        <5>1. ~Contains(todo, Hook(t)) /\ ~Contains(todo, Unhook(t))
          <6>1. Hook(t).cell = "hook" /\ Unhook(t).cell = "unhook"
            BY DEF Hook, Unhook
          <6> QED
            BY <2>4, <4>2, <6>1 DEF Contains
        <5>2. n # {}
          BY <3>8, <3>9, <5>1
        <5> QED
          BY <3>8, <3>9, <5>2
      <4> QED
        BY <2>7, <3>3, <4>1, <4>2 DEF Guided
    <3>11. PICK D \in SUBSET Link :
             C \subseteq D /\ Leads(t, D, T, L)' /\ (Starts(t, C, S) => Starts(t, D, T)')
      <4>1. chain'[t] \ joins # {}
        BY <3>7, <3>10
      <4> QED
        BY <3>5, <3>6, <4>1, LeadsBegin
    <3>12. Leads(t, D, call.steady, Known)'
      BY <3>3, <3>11 DEF Leads
    <3>13. Ran' = Ran /\ Known \subseteq Known' /\ T \subseteq S
      BY <2>3, <3>3, <3>4 DEF Ran
    <3>14. call'.phase = "thunk" => call'.at = t /\ Starts(t, D, call.steady)'
      BY <2>3, <3>2, <3>3, <3>11 DEF IsAt, Starts
    <3>15. call'.phase = "detour" =>
             call'.at \in D /\ \A s \in call'.steady : Precedes(s, call'.at) => s \in Ran'
      BY <2>3, <3>2, <3>3, <3>11, <3>13 DEF IsAt
    <3>16. Ran' \subseteq Known' /\ call'.phase # "crashed"
           /\ (call'.phase = "original" => call'.steady \subseteq Ran')
      BY <2>3, <3>2, <3>3, <3>13 DEF IsAt
    <3> QED
      BY <3>12, <3>14, <3>15, <3>16 DEF IsAt
  <2> QED
    BY <1>2, <2>3, <2>5, <2>6, <2>7 DEF Call, CallIsGuided
<1> QED
  BY <1>1, <1>2

(* While the call itself does not move. *)
LEMMA CallWaits ==
  ASSUME Call, call' = call,
         \A t \in Target, C \in SUBSET Link : \A S, K :
           Leads(t, C, S, K) =>
             \E D \in SUBSET Link :
               C \subseteq D /\ Leads(t, D, S, K)' /\ (Starts(t, C, S) => Starts(t, D, S)')
  PROVE  Call'
<1>1. CallType' /\ InOrder' /\ (call'.phase = "idle" => call' = NoCall)
  BY DEF Call, CallType, InOrder, RunsInChainOrder, Ran
<1>2. ASSUME Guided' PROVE \E t \in Target, C \in SUBSET Link : IsAt(t, C)'
  <2>1. PICK t \in Target, C \in SUBSET Link : IsAt(t, C)
    BY <1>2 DEF Call, CallIsGuided, Guided
  <2>2. PICK S, K : S = call.steady /\ K = Known
    OBVIOUS
  <2>3. PICK D \in SUBSET Link :
          C \subseteq D /\ Leads(t, D, S, K)' /\ (Starts(t, C, S) => Starts(t, D, S)')
    BY <2>1, <2>2 DEF IsAt
  <2>4. Ran' = Ran /\ K = Known' /\ S = call'.steady
    BY <2>2 DEF Ran, Known
  <2>5. Leads(t, D, call.steady, Known)' /\ (Starts(t, C, S) => Starts(t, D, call.steady)')
    BY <2>3, <2>4 DEF Leads, Starts
  <2> QED
    BY <2>1, <2>2, <2>3, <2>4, <2>5 DEF IsAt
<1> QED
  BY <1>1, <1>2 DEF Call, CallIsGuided

(* The game enters a hooked function. *)
LEMMA CallEnters ==
  ASSUME Registry, Memory, Enterable, Call, NEW t \in Target, Enter(t)
  PROVE  Call'
<1>1. /\ call' = [phase |-> "thunk", at |-> t, ran |-> <<>>,
                  steady |-> chain[t] \ op.joins,
                  absent |-> Link \ (chain[t] \cup op.leaves),
                  joined |-> chain[t] \cap op.joins,
                  overlapped |-> chain[t] \subseteq op.joins]
      /\ UNCHANGED <<chain, cell, cont, op>>
  BY DEF Enter, vars, memory
<1>2. chain[t] \in SUBSET Link
  BY DEF Registry, IInv, TypeOK
<1>3. /\ call'.phase = "thunk" /\ call'.at = t /\ call'.ran = <<>>
      /\ call'.steady = chain[t] \ op.joins
      /\ call'.absent = Link \ (chain[t] \cup op.leaves)
      /\ (~call'.overlapped => ~(chain[t] \subseteq op.joins))
  BY <1>1
<1>4. CallType'
  BY <1>1, <1>2 DEF CallType
<1>5. InOrder' /\ Ran' = {}
  BY <1>3 DEF InOrder, RunsInChainOrder, Ran
<1>6. ASSUME Guided' PROVE \E C \in SUBSET Link : IsAt(t, C)'
  <2>1. PICK S, K, L : S = chain[t] \ op.joins /\ K = chain[t] \cup op.leaves /\ L = Known'
    OBVIOUS
  <2>2. S # {}
    BY <1>3, <1>6, <2>1 DEF Guided
  <2>3. PICK C \in SUBSET Link : Leads(t, C, S, K) /\ Starts(t, C, S)
    BY <2>1, <2>2 DEF Enterable
  <2>4. K \cap Link \subseteq L /\ C \subseteq Link
    BY <1>3, <2>1 DEF Known
  <2>5. PICK M : M = K \cap Link
    OBVIOUS
  <2>6. Leads(t, C, S, M)
    BY <1>2, <2>3, <2>5 DEF Leads
  <2>7. Leads(t, C, S, L)' /\ Starts(t, C, S)'
    BY <1>1, <2>3, <2>4, <2>5, <2>6, LeadsStay
  <2>8. Leads(t, C, call.steady, Known)' /\ Starts(t, C, call.steady)'
    BY <1>3, <2>1, <2>7 DEF Leads, Starts
  <2> QED
    BY <1>3, <1>5, <2>8 DEF IsAt
<1> QED
  BY <1>3, <1>4, <1>5, <1>6 DEF Call, CallIsGuided

(* The thunk loads the head. *)
LEMMA CallLoadsHead ==
  ASSUME Registry, Memory, Call, LoadHead
  PROVE  Call'
<1>0. PICK u, p : u = call.at /\ p = cell[call.at]
  OBVIOUS
<1>1. /\ call.phase = "thunk" /\ call' = [call EXCEPT !.at = p, !.phase = JumpTo(p)]
      /\ UNCHANGED <<chain, cell, cont, op>>
  BY <1>0 DEF LoadHead, vars, memory
<1>2. CallType /\ u \in Target /\ call.ran = <<>>
  BY <1>0, <1>1 DEF Call, InOrder
<1>3. p \in Pointer
  BY <1>0, <1>2 DEF Memory, MemoryType
<1>4. /\ JumpTo(p) \in {"crashed", "original", "detour"}
      /\ (JumpTo(p) = "detour" <=> p \in Link) /\ (JumpTo(p) = "original" => p = RealTrampoline)
  BY <1>3, PointerAssumption DEF JumpTo, Pointer
<1>5. /\ call'.phase = JumpTo(p) /\ call'.at = p /\ call'.ran = <<>> /\ call'.steady = call.steady
      /\ call'.absent = call.absent /\ call'.joined = call.joined
      /\ call'.overlapped = call.overlapped
  BY <1>1, <1>2 DEF CallType
<1>6. CallType'
  BY <1>1, <1>2, <1>3, <1>4 DEF CallType
<1>7. InOrder' /\ Ran' = {} /\ Ran = {}
  BY <1>2, <1>4, <1>5 DEF InOrder, RunsInChainOrder, Ran
<1>8. ASSUME Guided' PROVE \E t \in Target, C \in SUBSET Link : IsAt(t, C)'
  <2>1. Guided
    BY <1>1, <1>5, <1>8 DEF Guided
  <2>2. PICK t \in Target, C \in SUBSET Link : IsAt(t, C)
    BY <2>1 DEF Call, CallIsGuided
  <2>3. PICK S, K : S = call.steady /\ K = Known
    OBVIOUS
  <2>4. t = u /\ Leads(t, C, S, K) /\ Starts(t, C, S)
    BY <1>0, <1>1, <2>2, <2>3 DEF IsAt
  <2>5. p \in C /\ \A s \in S : s = p \/ Precedes(p, s)
    BY <1>0, <2>4 DEF Starts
  <2>6. K = Known' /\ S = call'.steady
    BY <1>5, <2>3 DEF Known
  <2>7. Leads(t, C, call.steady, Known)'
    <3>1. Leads(t, C, S, K)'
      BY <1>1, <2>4, LeadsStay
    <3> QED
      BY <2>6, <3>1 DEF Leads
  <2>8. call'.phase = "detour" /\ p \in Link
    BY <1>4, <1>5, <2>5
  <2>9. S \subseteq Link
    BY <1>2, <2>3 DEF CallType
  <2>10. \A s \in call'.steady : ~Precedes(s, call'.at)
    BY <1>5, <2>5, <2>6, <2>8, <2>9, PrecedesIsStrictTotalOrder
  <2> QED
    BY <1>5, <1>7, <2>5, <2>7, <2>8, <2>10 DEF IsAt
<1> QED
  BY <1>4, <1>5, <1>6, <1>7, <1>8 DEF Call, CallIsGuided

(* The thunk's cell is gone. *)
LEMMA CallLoadsFreedHead ==
  ASSUME Call, CellsGoUnread, LoadFreedHead
  PROVE  Call'
<1>1. CallType /\ call.phase = "thunk" /\ call.ran = <<>> /\ ~Guided
  BY DEF Call, InOrder, CellsGoUnread, LoadFreedHead
<1>2. call' = [call EXCEPT !.at = NoPtr, !.phase = "crashed"]
  BY DEF LoadFreedHead
<1>3. /\ call'.phase = "crashed" /\ call'.ran = <<>>
      /\ call'.steady = call.steady /\ call'.overlapped = call.overlapped
  BY <1>1, <1>2 DEF CallType
<1>4. CallType'
  BY <1>1, <1>2 DEF CallType, Pointer
<1>5. InOrder' /\ ~Guided'
  BY <1>1, <1>3 DEF InOrder, RunsInChainOrder, Guided
<1> QED
  BY <1>3, <1>4, <1>5 DEF Call, CallIsGuided

(* A detour runs and its slot is loaded. *)
LEMMA CallRunsLink ==
  ASSUME Registry, Memory, Call, IsFiniteSet(Link), RunLink
  PROVE  Call'
<1>0. PICK l, p, ran : l = call.at /\ p = cont[call.at] /\ ran = call.ran
  OBVIOUS
<1>1. /\ call.phase = "detour" /\ l \in Slotted
      /\ UNCHANGED <<chain, cell, cont, op>>
  BY <1>0 DEF RunLink, vars, memory
<1>2. CallType /\ RunsInChainOrder /\ l \in Link /\ \A k \in Ran : Precedes(k, l)
  BY <1>0, <1>1 DEF Call, InOrder
<1>3. ran \in Seq(Link) /\ Len(ran) < MaxRan
  BY <1>0, <1>2, RanIsShort DEF CallType
<1>4. call' = [call EXCEPT !.ran = Append(ran, l), !.at = p, !.phase = JumpTo(p)]
  BY <1>0, <1>3 DEF RunLink
<1>5. p \in Pointer
  BY <1>0, <1>2 DEF Memory, MemoryType
<1>6. /\ JumpTo(p) \in {"crashed", "original", "detour"}
      /\ (JumpTo(p) = "detour" <=> p \in Link) /\ (JumpTo(p) = "original" <=> p = RealTrampoline)
  BY <1>5, PointerAssumption DEF JumpTo, Pointer
<1>7. /\ call'.phase = JumpTo(p) /\ call'.at = p /\ call'.ran = Append(ran, l)
      /\ call'.steady = call.steady /\ call'.absent = call.absent /\ call'.joined = call.joined
      /\ call'.overlapped = call.overlapped
  BY <1>2, <1>4 DEF CallType
<1>8. Append(ran, l) \in Seq(Link)
  BY <1>2, <1>3
<1>9. CallType'
  BY <1>2, <1>4, <1>5, <1>6, <1>8 DEF CallType
<1>10. Ran' = Ran \cup {l} /\ Ran \subseteq Link
  <2>1. /\ DOMAIN Append(ran, l) = 1 .. Len(ran) + 1 /\ DOMAIN ran = 1 .. Len(ran)
        /\ Len(ran) \in Nat
        /\ Append(ran, l)[Len(ran) + 1] = l
        /\ \A i \in 1 .. Len(ran) : Append(ran, l)[i] = ran[i] /\ ran[i] \in Link
    BY <1>2, <1>3
  <2>2. Ran' = {Append(ran, l)[i] : i \in 1 .. Len(ran) + 1} /\ Ran = {ran[i] : i \in 1 .. Len(ran)}
    BY <1>0, <1>7, <2>1 DEF Ran
  <2> QED
    BY <2>1, <2>2
<1>11. RunsInChainOrder'
  <2> SUFFICES ASSUME NEW i \in DOMAIN Append(ran, l), NEW j \in DOMAIN Append(ran, l), i < j
               PROVE  Precedes(Append(ran, l)[i], Append(ran, l)[j])
    BY <1>7 DEF RunsInChainOrder
  <2>1. i \in DOMAIN ran /\ Append(ran, l)[i] = ran[i] /\ ran[i] \in Ran
    BY <1>0, <1>2, <1>3 DEF Ran
  <2>2. CASE j \in DOMAIN ran
    <3>1. Append(ran, l)[j] = ran[j]
      BY <1>2, <1>3, <2>2
    <3> QED
      BY <1>0, <1>2, <2>1, <2>2, <3>1 DEF RunsInChainOrder
  <2>3. CASE j \notin DOMAIN ran
    <3>1. Append(ran, l)[j] = l
      BY <1>2, <1>3, <2>3
    <3> QED
      BY <1>2, <2>1, <3>1
  <2> QED
    BY <2>2, <2>3
<1>12. p \in Link => Precedes(l, p) /\ \A k \in Ran' : Precedes(k, p)
  <2> SUFFICES ASSUME p \in Link PROVE Precedes(l, p) /\ \A k \in Ran' : Precedes(k, p)
    OBVIOUS
  <2>1. Precedes(l, p)
    BY <1>0, <1>2 DEF Memory, SlotsLeadOn
  <2> QED
    BY <1>2, <1>10, <2>1, PrecedesIsStrictTotalOrder
<1>13. InOrder'
  BY <1>6, <1>7, <1>11, <1>12 DEF InOrder
<1>14. ASSUME Guided' PROVE \E t \in Target, C \in SUBSET Link : IsAt(t, C)'
  <2>1. Guided
    BY <1>1, <1>7, <1>14 DEF Guided
  <2>2. PICK t \in Target, C \in SUBSET Link : IsAt(t, C)
    BY <2>1 DEF Call, CallIsGuided
  <2>3. PICK S, K : S = call.steady /\ K = Known
    OBVIOUS
  <2>4. /\ l \in C /\ \A s \in S : Precedes(s, l) => s \in Ran
        /\ Leads(t, C, S, K) /\ Ran \subseteq K
    BY <1>0, <1>1, <2>2, <2>3 DEF IsAt
  <2>5. Onward(l, p, C, S) /\ C \subseteq K
    BY <1>0, <1>1, <2>4 DEF Leads
  <2>6. K = Known' /\ S = call'.steady
    BY <1>7, <2>3 DEF Known
  <2>7. Leads(t, C, call.steady, Known)'
    <3>1. Leads(t, C, S, K)'
      BY <1>1, <2>4, LeadsStay
    <3> QED
      BY <2>6, <3>1 DEF Leads
  <2>8. S \subseteq Link
    BY <1>2, <2>3 DEF CallType
  <2>9. Ran' \subseteq Known'
    BY <1>10, <2>4, <2>5, <2>6
  <2>10. \A s \in S : s = l \/ Precedes(s, l) \/ Precedes(l, s)
    BY <1>2, <2>8, PrecedesIsStrictTotalOrder
  <2>11. CASE p = RealTrampoline /\ \A s \in S : ~Precedes(l, s)
    <3>1. S \subseteq Ran'
      BY <1>10, <2>4, <2>10, <2>11
    <3> QED
      BY <1>6, <1>7, <2>6, <2>7, <2>9, <2>11, <3>1, PointerAssumption DEF IsAt
  <2>12. CASE p \in C /\ \A s \in S : Precedes(l, s) => s = p \/ Precedes(p, s)
    <3>1. p \in Link /\ call'.phase = "detour"
      BY <1>6, <1>7, <2>12
    <3>2. \A s \in S : Precedes(s, p) => ~(s = p \/ Precedes(p, s))
      BY <2>8, <3>1, PrecedesIsStrictTotalOrder
    <3>3. \A s \in S : Precedes(s, p) => s \in Ran'
      BY <1>10, <2>4, <2>10, <2>12, <3>2
    <3> QED
      BY <1>7, <2>6, <2>7, <2>9, <2>12, <3>1, <3>3 DEF IsAt
  <2> QED
    BY <2>5, <2>11, <2>12 DEF Onward
<1> QED
  BY <1>6, <1>7, <1>9, <1>13, <1>14 DEF Call, CallIsGuided

LEMMA CallReturns ==
  ASSUME Return
  PROVE  Call'
<1>1. call' = NoCall
  BY DEF Return
<1> QED
  BY <1>1 DEF Call, CallType, InOrder, RunsInChainOrder, CallIsGuided, Guided, NoCall, Pointer, Ran

(* A cell is freed with the last link of its chain, and a call that is     *)
(* guided there has a link to find in it.                                  *)
LEMMA CellsStoreUnread ==
  ASSUME Registry, Memory, Call', CellsGoUnread, StepStore
  PROVE  CellsGoUnread'
<1>0. PICK s : s = Head(op.todo)
  OBVIOUS
<1>1. /\ call' = call
      /\ freed' = IF s.cell = "head" /\ s.to = NoPtr THEN freed \cup {s.of} ELSE freed
      /\ s.cell = "head" => cell' = [cell EXCEPT ![s.of] = s.to]
  BY <1>0 DEF StepStore
<1>2. Settles(s)
  <2>1. op.todo \in Seq(Store) /\ op.todo # <<>>
    BY DEF Memory, OperationType, Operation, StepStore
  <2>2. 1 \in DOMAIN op.todo /\ s = op.todo[1]
    BY <1>0, <2>1
  <2> QED
    BY <2>2 DEF Memory, StoresSettle
<1>3. freed' \subseteq Target
  BY <1>1, <1>2 DEF Settles, CellsGoUnread
<1>4. ASSUME call'.phase = "thunk", call'.at \in freed', Guided'
      PROVE  FALSE
  <2>1. call.at \notin freed
    BY <1>1, <1>4 DEF CellsGoUnread, Guided
  <2>2. s.cell = "head" /\ s.to = NoPtr /\ s.of = call'.at /\ s.of \in Target
    BY <1>1, <1>2, <1>4, <2>1 DEF Settles
  <2>3. cell'[call'.at] = NoPtr
    BY <1>1, <2>2 DEF Memory, MemoryType
  <2>4. PICK t \in Target, C \in SUBSET Link : IsAt(t, C)'
    BY <1>4 DEF Call, CallIsGuided
  <2>5. cell'[call'.at] \in C
    BY <1>4, <2>4 DEF IsAt, Starts
  <2> QED
    BY <2>3, <2>5, PointerAssumption
<1> QED
  BY <1>3, <1>4 DEF CellsGoUnread

LEMMA CellsBeginUnread ==
  ASSUME CallType, CellsGoUnread, NEW todo, NEW joins, NEW leaves, Begins(todo, joins, leaves)
  PROVE  CellsGoUnread'
<1>1. freed' = freed
  BY DEF Begins, Account
<1>2. CASE call.phase = "idle"
  BY <1>1, <1>2 DEF Begins, Account, CellsGoUnread
<1>3. CASE call.phase # "idle"
  <2>1. call' = [call EXCEPT !.steady = call.steady \ leaves,
                             !.joined = call.joined \cup joins,
                             !.overlapped = call.overlapped \/ \E i \in DOMAIN todo :
                                                todo[i].cell \in {"hook", "unhook"}]
    BY <1>3 DEF Begins, Account
  <2>2. /\ call'.phase = call.phase /\ call'.at = call.at /\ call'.steady \subseteq call.steady
        /\ call.overlapped => call'.overlapped
    BY <2>1 DEF CallType
  <2> QED
    BY <1>1, <2>2 DEF CellsGoUnread, Guided
<1> QED
  BY <1>2, <1>3

(* The cell is there when a call enters, and read or not, it is behind the *)
(* call after that.                                                        *)
LEMMA CellsDispatchUnread ==
  ASSUME Memory, Call, CellsGoUnread, Dispatch
  PROVE  CellsGoUnread'
<1>1. ASSUME NEW t \in Target, Enter(t)
      PROVE  CellsGoUnread'
  BY <1>1 DEF Enter, CellsGoUnread
<1>2. CASE ~\E t \in Target : Enter(t)
  <2>1. freed' = freed /\ CallType
    BY <1>2 DEF Dispatch, LoadHead, LoadFreedHead, RunLink, Return, Call
  <2>2. JumpTo(cell[call.at]) # "thunk" /\ JumpTo(cont[call.at]) # "thunk"
    BY DEF JumpTo
  <2>3. call'.phase # "thunk"
    <3>1. CASE LoadHead
      BY <2>1, <2>2, <3>1 DEF LoadHead, CallType
    <3>2. CASE LoadFreedHead
      BY <2>1, <3>2 DEF LoadFreedHead, CallType
    <3>3. CASE RunLink
      <4>1. PICK q, went : call' = [call EXCEPT !.ran = went, !.at = q, !.phase = JumpTo(q)]
                           /\ q = cont[call.at]
        BY <3>3 DEF RunLink
      <4> QED
        BY <2>1, <2>2, <4>1 DEF CallType
    <3>4. CASE Return
      BY <3>4 DEF Return, NoCall
    <3> QED
      BY <1>2, <3>1, <3>2, <3>3, <3>4 DEF Dispatch
  <2> QED
    BY <2>1, <2>3 DEF CellsGoUnread
<1> QED
  BY <1>1, <1>2
-----------------------------------------------------------------------------
(* The whole *)

LEMMA DispatchInvariantInit == DispatchInit => DInv
<1> SUFFICES ASSUME DispatchInit PROVE DInv
  OBVIOUS
<1> USE DEF DispatchInit
<1>1. Registry
  <2>1. IInv
    BY TypeInit, WiredInit DEF IInv
  <2> QED
    BY <2>1 DEF Registry, EmptyIsUnhooked, Init
<1>2. Memory
  <2>1. MemoryType /\ SlotsLeadOn
    BY PointerAssumption DEF MemoryType, SlotsLeadOn, Pointer
  <2>2. OperationType /\ StoresSettle /\ LeadsOnFirst
    BY DEF OperationType, Operation, NoOp, StoresSettle, LeadsOnFirst, LeadsOnBefore
  <2>3. OthersAreSettled
    BY LinkTypes, RegistryAssumption DEF OthersAreSettled, Init
  <2> QED
    BY <2>1, <2>2, <2>3 DEF Memory
<1>3. Enterable
  BY <1>1, <1>2, IdleEnterable
<1>4. Call
  BY DEF Call, CallType, InOrder, RunsInChainOrder, CallIsGuided, Guided, NoCall, Pointer, Ran
<1>5. CellsGoUnread
  BY DEF CellsGoUnread, NoCall
<1> QED
  BY <1>1, <1>2, <1>3, <1>4, <1>5 DEF DInv

LEMMA DispatchInvariantStep ==
  ASSUME IsFiniteSet(Link), DInv, [DispatchNext]_allVars
  PROVE  DInv'
<1> USE DEF DInv
<1>1. Registry'
  BY RegistryStep
<1>2. Memory'
  <2>1. CASE UNCHANGED <<chain, head, slot, patch, memory, op>>
    BY <2>1 DEF Memory, MemoryType, OperationType, StoresSettle, Settles, OthersAreSettled, Waiting,
       LeadsOnFirst, LeadsOnBefore, SlotsLeadOn, memory
  <2>2. CASE Quiet
    BY <2>1, <2>2 DEF Quiet, memory
  <2>3. CASE Dispatch
    BY <2>1, <2>3 DEF Dispatch, Enter, LoadHead, LoadFreedHead, RunLink, Return, vars
  <2> QED
    BY <1>1, <2>2, <2>3, MemoryBegin, MemoryStore, StepKinds DEF Registry
<1>3. Enterable'
  BY <1>1, <1>2, EnterableStep
<1>4. Call'
  <2>1. CASE Quiet
    <3>1. UNCHANGED <<chain, cell, cont, op>> /\ call' = call
      BY <2>1 DEF Quiet, memory
    <3>2. ASSUME NEW t \in Target, NEW C \in SUBSET Link, NEW S, NEW K, Leads(t, C, S, K)
          PROVE  Leads(t, C, S, K)' /\ (Starts(t, C, S) => Starts(t, C, S)')
      BY <3>1, <3>2, LeadsStay
    <3> QED
      BY <3>1, <3>2, CallWaits
  <2>2. CASE StepStore
    <3>1. call' = call
      BY <2>2 DEF StepStore
    <3> QED
      BY <2>2, <3>1, LeadsStore, CallWaits
  <2>3. ASSUME NEW todo, NEW joins, NEW leaves, Begins(todo, joins, leaves)
        PROVE  Call'
    BY <1>1, <2>3, CallBegin
  <2>4. CASE Dispatch
    BY <2>4, CallEnters, CallLoadsHead, CallLoadsFreedHead, CallRunsLink, CallReturns DEF Dispatch
  <2> QED
    BY <1>1, <2>1, <2>2, <2>3, <2>4, StepKinds DEF Registry
<1>5. CellsGoUnread'
  <2>1. CASE Quiet
    BY <2>1 DEF Quiet, CellsGoUnread, Guided
  <2>2. CASE StepStore
    BY <1>4, <2>2, CellsStoreUnread
  <2>3. ASSUME NEW todo, NEW joins, NEW leaves, Begins(todo, joins, leaves)
        PROVE  CellsGoUnread'
    BY <2>3, CellsBeginUnread DEF Call
  <2>4. CASE Dispatch
    BY <2>4, CellsDispatchUnread
  <2> QED
    BY <1>1, <2>1, <2>2, <2>3, <2>4, StepKinds DEF Registry
<1> QED
  BY <1>1, <1>2, <1>3, <1>4, <1>5

LEMMA DispatchInductive ==
  ASSUME IsFiniteSet(Link)
  PROVE  DispatchSpec => []DInv
<1>1. DInv /\ [DispatchNext]_allVars => DInv'
  BY DispatchInvariantStep
<1> QED
  BY <1>1, DispatchInvariantInit, PTL DEF DispatchSpec

(* Whenever no operation is under way the game reads exactly what the      *)
(* registry's own, atomic account of its operations says, and a call meets *)
(* a null pointer only if its hook was installed or removed meanwhile.     *)
THEOREM StoresAddUpToTheRegistry ==
  ASSUME IsFiniteSet(Link)
  PROVE  DispatchSpec => []StoresAreInOrder
<1>1. ASSUME DInv PROVE StoresAreInOrder
  <2> USE DEF DInv
  <2>1. DispatchTypeOK
    BY <1>1 DEF DispatchTypeOK, Memory, MemoryType, OperationType, Operation, Call, CallType,
       CellsGoUnread
  <2>2. StoresAddUp
    <3> SUFFICES ASSUME op = NoOp
                 PROVE  /\ hooked = {t \in Target : patch[t] # "none"}
                        /\ cell = head
                        /\ \A t \in Target : \A l \in chain[t] \cap Slotted : cont[l] = slot[l]
      BY DEF StoresAddUp
    <3>1. /\ \A t \in Target : (t \in hooked <=> patch[t] # "none") /\ cell[t] = head[t]
          /\ \A l \in Slotted : l \in chain[TargetOf[l]] => cont[l] = slot[l]
      BY <1>1, IdleMemory
    <3>2. hooked \subseteq Target /\ cell \in [Target -> Pointer] /\ head \in [Target -> Pointer]
      BY <1>1 DEF Memory, MemoryType, Registry, IInv, TypeOK
    <3>3. \A t \in Target : \A l \in chain[t] : TargetOf[l] = t
      BY <1>1 DEF Registry, IInv, ChainsAreOnTheirTargets, LinksOn
    <3> QED
      BY <3>1, <3>2, <3>3
  <2>3. NullOnlyAroundInstall
    <3> SUFFICES ASSUME call.phase = "crashed", ~call.overlapped PROVE FALSE
      BY <1>1 DEF NullOnlyAroundInstall, Call, CallType
    <3>1. \E t \in Target, C \in SUBSET Link : IsAt(t, C)
      BY <1>1 DEF Guided, Call, CallIsGuided
    <3> QED
      BY <3>1 DEF IsAt
  <2> QED
    BY <2>1, <2>2, <2>3 DEF StoresAreInOrder
<1> QED
  BY <1>1, DispatchInductive, PTL

(* Whatever links join and leave around a call, one store at a time, it    *)
(* runs links in Chain_Order, does not miss one that is in the chain       *)
(* throughout, and, unless the hook itself came or went, runs none that    *)
(* was never in it meanwhile.                                              *)
THEOREM CallsRunTheSteadyChain ==
  ASSUME IsFiniteSet(Link)
  PROVE  DispatchSpec => []RunsTheSteadyChain
<1>1. ASSUME DInv PROVE RunsTheSteadyChain
  <2> USE DEF DInv
  <2>1. RunsInChainOrder
    BY <1>1 DEF Call, InOrder
  <2>2. SkipsNoSteadyLink
    <3> SUFFICES ASSUME call.phase = "original", call.steady # {} PROVE call.steady \subseteq Ran
      BY DEF SkipsNoSteadyLink, Ran
    <3>1. \E t \in Target, C \in SUBSET Link : IsAt(t, C)
      BY <1>1 DEF Guided, Call, CallIsGuided
    <3> QED
      BY <3>1 DEF IsAt
  <2>3. RunsNoAbsentLink
    <3> SUFFICES ASSUME ~call.overlapped, NEW i \in DOMAIN call.ran
                 PROVE  call.ran[i] \notin call.absent \ call.joined
      BY DEF RunsNoAbsentLink
    <3>1. CASE call.phase = "idle"
      <4>1. call.ran = <<>>
        BY <1>1, <3>1 DEF Call, NoCall
      <4> QED
        BY <4>1
    <3>2. CASE call.phase # "idle"
      <4>1. \E t \in Target, C \in SUBSET Link : IsAt(t, C)
        BY <1>1, <3>2 DEF Guided, Call, CallIsGuided
      <4>2. Ran \subseteq Known
        BY <4>1 DEF IsAt
      <4> QED
        BY <4>2 DEF Known, Ran
    <3> QED
      BY <3>1, <3>2
  <2> QED
    BY <2>1, <2>2, <2>3 DEF RunsTheSteadyChain
<1> QED
  BY <1>1, DispatchInductive, PTL

(* Seen through the registry's own variables, the loader and a call do     *)
(* what the registry says, one atomic operation at a time: what is proved  *)
(* of the registry holds under single stores and a call in flight.         *)
THEOREM DispatchImplementsTheRegistry == DispatchSpec => Spec
<1>1. DispatchInit => Init
  BY DEF DispatchInit
<1>2. [DispatchNext]_allVars => [Next]_vars
  BY DispatchIsARegistryStep
<1> QED
  BY <1>1, <1>2, PTL DEF DispatchSpec, Spec
-----------------------------------------------------------------------------
(***************************************************************************)
(* The hooks follow the states of the mods, for every plan, every set of   *)
(* links and wherever an operation fails.  Of the registry only the ledger *)
(* matters here: it lists what is in the chains, and each step of a job    *)
(* adds one link to it, takes a mod out of it or leaves it alone.          *)
(***************************************************************************)

(* The registry keeps its own invariants. *)
RegistryIsSound == IInv /\ LedgerFollowsChains

LifeTypes ==
  /\ state \in [Planned -> ModState] /\ window \in [Planned -> SUBSET Link]
  /\ loaded \subseteq Planned /\ mapped \subseteq Planned /\ recorded \subseteq Planned
  /\ registered \subseteq Link /\ job \in Job

Hooked(m) == LinksOf(m) \cap attributed

(* What is to be installed once a mod is enabled. *)
ToInstall(m) == window[m] \cap Resolved

(* An operation on a mod that is not enabled: nothing of it is hooked but   *)
(* what installWindow has done so far.                                      *)
WorkedOn == IF job.kind \in {"load", "entry", "install", "rollback"} THEN {job.mod} ELSE {}
Installing == IF job.kind \in {"install", "rollback"} THEN {job.mod} ELSE {}

OnlyEnabledAreHooked ==
  /\ \A m \in WorkedOn : state[m] # "Enabled"
  /\ \A m \in Planned \ Installing : state[m] # "Enabled" => Hooked(m) = {}

(* The window of an entry in progress is that of its own mod. *)
WindowsAreOwn ==
  /\ \A m \in Planned : window[m] \subseteq LinksOf(m)
  /\ job.kind = "entry" => registered \ job.start \subseteq LinksOf(job.mod)

(* installWindow has inserted what it has left behind, and nothing else. *)
InstallIsHalfDone ==
  job.kind = "install" =>
    /\ job.todo \subseteq ToInstall(job.mod)
    /\ Hooked(job.mod) \subseteq ToInstall(job.mod) \ job.todo
    /\ Available => Hooked(job.mod) = ToInstall(job.mod) \ job.todo

(* A teardown has still to unload every mod that is enabled; at all other  *)
(* times an enabled mod has its window installed.                          *)
EnabledAreComplete ==
  \A m \in Planned : state[m] = "Enabled" =>
    IF job.kind = "teardown" THEN \E i \in DOMAIN job.unload : job.unload[i] = m
    ELSE Available => Hooked(m) = ToInstall(m)

(* No mod is hooked or has its window installed but one in memory. *)
HookedAreMapped ==
  /\ loaded \subseteq mapped
  /\ job.kind \in {"entry", "install"} => job.mod \in loaded
  /\ \A m \in Planned : Hooked(m) # {} => m \in mapped

Life ==
  /\ LifeTypes
  /\ OnlyEnabledAreHooked /\ WindowsAreOwn /\ InstallIsHalfDone
  /\ EnabledAreComplete /\ HookedAreMapped

LInv == RegistryIsSound /\ Life
-----------------------------------------------------------------------------
(* What a job carries. *)
LEMMA JobFields ==
  ASSUME job \in Job
  PROVE  /\ job.kind \in {"none", "load", "entry", "install", "rollback", "teardown"}
         /\ job.kind \in {"load", "entry", "install", "rollback"} => job.mod \in Planned
         /\ job.kind = "entry" => job.start \subseteq Link
         /\ job.kind = "install" =>
              /\ job.todo \subseteq Link
              /\ \A T \in SUBSET Link :
                   /\ [job EXCEPT !.todo = T] \in Job /\ [job EXCEPT !.todo = T].todo = T
                   /\ [job EXCEPT !.todo = T].kind = "install"
                   /\ [job EXCEPT !.todo = T].mod = job.mod
         /\ job.kind = "teardown" =>
              /\ job.terminate \in Seq(Planned) /\ job.unload \in Seq(Planned)
              /\ \A q \in Seq(Planned) :
                   /\ [job EXCEPT !.terminate = q] \in Job
                   /\ [job EXCEPT !.terminate = q].kind = "teardown"
                   /\ [job EXCEPT !.terminate = q].unload = job.unload
                   /\ [job EXCEPT !.unload = q] \in Job
                   /\ [job EXCEPT !.unload = q].kind = "teardown"
                   /\ [job EXCEPT !.unload = q].unload = q
<1>1. CASE job = NoJob
  BY <1>1 DEF NoJob
<1>2. CASE job \in [kind : {"load"}, mod : Planned] \cup [kind : {"rollback"}, mod : Planned]
  BY <1>2
<1>3. CASE job \in [kind : {"entry"}, mod : Planned, start : SUBSET Link]
  BY <1>3
<1>4. CASE job \in [kind : {"install"}, mod : Planned, todo : SUBSET Link]
  BY <1>4 DEF Job
<1>5. CASE job \in [kind : {"teardown"}, terminate : Seq(Planned), unload : Seq(Planned)]
  BY <1>5 DEF Job
<1> QED
  BY <1>1, <1>2, <1>3, <1>4, <1>5 DEF Job

LEMMA JobValues ==
  /\ NoJob \in Job /\ NoJob.kind = "none"
  /\ \A m \in Planned :
       /\ [kind |-> "load", mod |-> m] \in Job
       /\ [kind |-> "rollback", mod |-> m] \in Job
       /\ \A S \in SUBSET Link :
            /\ [kind |-> "entry", mod |-> m, start |-> S] \in Job
            /\ [kind |-> "install", mod |-> m, todo |-> S] \in Job
  /\ \A q \in Seq(Planned) : [kind |-> "teardown", terminate |-> q, unload |-> q] \in Job
BY DEF Job, NoJob

LEMMA NoJobIsNone ==
  ASSUME job \in Job
  PROVE  job = NoJob <=> job.kind = "none"
BY DEF Job, NoJob

(* The steps as the ledger sees them. *)
LEMMA LedgerEffects ==
  /\ \A l \in Link :
       /\ InstallFirst(l) \/ InsertSubsequent(l) => attributed' = attributed \cup {l}
       /\ InstallFails(l) \/ RejectInsert(l) => attributed' = attributed
       /\ RejectInsert(l) /\ Available => l \notin Resolved
  /\ \A m : RemoveOwner(m) => attributed' = attributed \ LinksOf(m)
  /\ UNCHANGED vars => attributed' = attributed
BY DEF InstallFirst, InsertSubsequent, InstallFails, RejectInsert, Attribute, RemoveOwner,
       RemoveOwnerLocked, vars

(* Every step of the life of the mods is a step of the registry or none. *)
LEMMA LifecycleIsARegistryStep ==
  ASSUME LifeTypes, [LifecycleNext]_lifecycleVars
  PROVE  [Next]_vars
<1>1. Planned \subseteq Mod
  BY RegistryAssumption
<1>2. ASSUME NEW l \in Link,
             InstallFirst(l) \/ InsertSubsequent(l) \/ InstallFails(l) \/ RejectInsert(l)
      PROVE  Next
  BY <1>2 DEF Next
<1>3. ASSUME NEW m \in Mod, RemoveOwner(m)
      PROVE  Next
  BY <1>3 DEF Next
<1>4. CASE UNCHANGED lifecycleVars
  BY <1>4 DEF lifecycleVars
<1>5. ASSUME NEW l \in Link, InsertBuiltin(l)
      PROVE  Next
  BY <1>2, <1>5 DEF InsertBuiltin
<1>6. ASSUME NEW m \in Planned, RegisterMod(m) \/ BeginEnable(m) \/ Disable(m) \/ RemoveMod(m)
      PROVE  Next \/ UNCHANGED vars
  BY <1>1, <1>3, <1>6 DEF RegisterMod, BeginEnable, Disable, RemoveMod
<1>7. CASE StartTeardown
  BY <1>7 DEF StartTeardown
<1>8. ASSUME NEW l \in Link, InstallLink(l) \/ AbortInstall(l)
      PROVE  Next
  BY <1>2, <1>8 DEF InstallLink, AbortInstall
<1>9. CASE Rollback
  BY <1>1, <1>3, <1>9, JobFields DEF LifeTypes, Rollback
<1>10. CASE Terminate
  <2>1. Head(job.terminate) \in Planned
    BY <1>10, JobFields DEF LifeTypes, Terminate
  <2> QED
    BY <1>1, <1>3, <1>10, <2>1 DEF Terminate
<1>11. CASE Unload
  <2>1. Head(job.unload) \in Planned
    BY <1>11, JobFields DEF LifeTypes, Unload
  <2> QED
    BY <1>1, <1>3, <1>11, <2>1 DEF Unload
<1>12. CASE UseLoaded \/ LoadModule \/ LoadFails \/ EntryUnresolved \/ EntryFails
            \/ EntrySucceeds \/ EnableSucceeds \/ EndTeardown
  BY <1>12
  DEF UseLoaded, LoadModule, LoadFails, EntryUnresolved, EntryFails, EntrySucceeds,
      EnableSucceeds, EndTeardown
<1> QED
  BY <1>4, <1>5, <1>6, <1>7, <1>8, <1>9, <1>10, <1>11, <1>12 DEF LifecycleNext, JobStep

LEMMA LifecycleStep ==
  ASSUME RegistryIsSound, LifeTypes, [LifecycleNext]_lifecycleVars
  PROVE  RegistryIsSound'
BY LifecycleIsARegistryStep, TypeStep, WiredStep, LedgerStep DEF RegistryIsSound, IInv
-----------------------------------------------------------------------------
(* A teardown goes through all mods that are enabled. *)
LEMMA TeardownListsTheEnabled ==
  ASSUME LifeTypes
  PROVE  /\ EnabledInReverse \in Seq(Planned)
         /\ \A m \in Planned : state[m] = "Enabled" =>
              \E i \in DOMAIN EnabledInReverse : EnabledInReverse[i] = m
<1> DEFINE N == Len(Order)
           X == Seq(Planned)
           Step(n, s) == IF state[Order[n]] = "Enabled" THEN <<Order[n]>> \o s ELSE s
           From(f) == [n \in 0 .. N |-> IF n = 0 THEN <<>>
                                        ELSE IF state[Order[n]] = "Enabled"
                                        THEN <<Order[n]>> \o f[n - 1] ELSE f[n - 1]]
           g == [q \in (1 .. N) \X X |-> Step(q[1], q[2])]
           L == CHOOSE h : h = From(h)
<1>1. N \in Nat /\ \A n \in 1 .. N : Order[n] \in Planned
  BY OrderAssumption
<1>2. EnabledInReverse = L[N]
  BY DEF EnabledInReverse
<1>3. \A m \in Planned : \E i \in 1 .. N : Order[i] = m
  BY OrderAssumption DEF ToSet
<1> HIDE DEF N
<1>4. \A n \in 1 .. N, s \in X : Step(n, s) \in X
  BY <1>1
<1> HIDE DEF X
<1>5. <<>> \in X /\ g \in [(1 .. N) \X X -> X]
  BY <1>4 DEF X
<1> HIDE DEF g
<1>6. PICK f : IsIteration(f, <<>>, g, X, N)
  BY <1>1, <1>5, IterationExists
<1>7. f = From(f)
  <2>1. f = [n \in 0 .. N |-> f[n]]
    BY <1>6 DEF IsIteration
  <2>2. ASSUME NEW n \in 0 .. N
        PROVE  f[n] = From(f)[n]
    <3>1. CASE n = 0
      BY <1>6, <3>1 DEF IsIteration
    <3>2. CASE n # 0
      <4>1. n \in 1 .. N /\ f[n - 1] \in X /\ f[n] = g[<<n, f[n - 1]>>]
        BY <1>1, <1>6, <3>2 DEF IsIteration
      <4> QED
        BY <3>2, <4>1 DEF g
    <3> QED
      BY <3>1, <3>2
  <2> QED
    BY <2>1, <2>2
<1> HIDE DEF From
<1>8. L = From(L)
  BY <1>7
<1> HIDE DEF L
<1>9. L[0] = <<>>
  BY <1>1, <1>8 DEF From
<1>10. ASSUME NEW n \in 1 .. N
       PROVE  L[n] = Step(n, L[n - 1])
  <2>1. n \in 0 .. N /\ n # 0
    BY <1>1
  <2>2. L[n] = From(L)[n]
    BY <1>8
  <2>3. From(L)[n] = Step(n, L[n - 1])
    BY <2>1 DEF From
  <2> QED
    BY <2>2, <2>3
<1> HIDE DEF Step
<1> DEFINE Lists(n, s) == \A i \in 1 .. n : state[Order[i]] = "Enabled" =>
                            \E j \in DOMAIN s : s[j] = Order[i]
           S == {n \in 0 .. N : L[n] \in X /\ Lists(n, L[n])}
<1>11. 0 \in S
  BY <1>1, <1>5, <1>9
<1>12. ASSUME NEW n \in 0 .. N - 1, n \in S
       PROVE  n + 1 \in S
  <2> DEFINE s == L[n]
             r == L[n + 1]
  <2>1. s \in X /\ Lists(n, s)
    BY <1>12
  <2>2. n + 1 \in 1 .. N /\ (n + 1) - 1 = n
    BY <1>1
  <2>3. r = Step(n + 1, s)
    BY <1>10, <2>2
  <2> HIDE DEF s, r
  <2>4. r \in X
    BY <1>4, <2>1, <2>2, <2>3
  <2>5. ASSUME NEW i \in 1 .. n + 1, state[Order[i]] = "Enabled"
        PROVE  \E j \in DOMAIN r : r[j] = Order[i]
    <3>1. CASE state[Order[n + 1]] = "Enabled"
      <4>1. r = <<Order[n + 1]>> \o s /\ s \in Seq(Planned) /\ Order[n + 1] \in Planned
        BY <1>1, <2>1, <2>2, <2>3, <3>1 DEF Step, X
      <4>2. r[1] = Order[n + 1] /\ 1 \in DOMAIN r
        BY <4>1
      <4>3. \A j \in DOMAIN s : j + 1 \in DOMAIN r /\ r[j + 1] = s[j]
        BY <4>1
      <4>4. i = n + 1 \/ i \in 1 .. n
        BY <1>12, <2>5
      <4> QED
        BY <2>1, <2>5, <4>2, <4>3, <4>4
    <3>2. CASE state[Order[n + 1]] # "Enabled"
      <4>1. r = s /\ i \in 1 .. n
        BY <2>3, <2>5, <3>2 DEF Step
      <4> QED
        BY <2>1, <2>5, <4>1
    <3> QED
      BY <3>1, <3>2
  <2> QED
    BY <2>2, <2>4, <2>5 DEF r
<1>13. N \in S
  <2> HIDE DEF S
  <2>1. 0 .. N \subseteq S
    BY <1>1, <1>11, <1>12, InductionUpTo
  <2> QED
    BY <1>1, <2>1
<1> QED
  BY <1>2, <1>3, <1>13 DEF X
-----------------------------------------------------------------------------
(* The steps *)

LEMMA Owners ==
  /\ \A m : LinksOf(m) \subseteq Link
  /\ \A m, k : m # k => LinksOf(m) \cap LinksOf(k) = {}
  /\ \A m : \A l \in Link : l \in LinksOf(m) <=> OwnerOf[l] = m
BY DEF LinksOf

(* What a removal of a mod, and a step without the registry, do to Hooked. *)
LEMMA HookedAfter ==
  /\ \A m : RemoveOwner(m) =>
       /\ Hooked(m)' = {}
       /\ \A k : k # m => Hooked(k)' = Hooked(k)
  /\ UNCHANGED vars => \A k : Hooked(k)' = Hooked(k)
  /\ \A l \in Link : InstallFirst(l) \/ InsertSubsequent(l) =>
       /\ Hooked(OwnerOf[l])' = Hooked(OwnerOf[l]) \cup {l}
       /\ \A k : k # OwnerOf[l] => Hooked(k)' = Hooked(k)
  /\ \A l \in Link : InstallFails(l) \/ RejectInsert(l) => \A k : Hooked(k)' = Hooked(k)
<1>1. \A m : RemoveOwner(m) =>
        Hooked(m)' = {} /\ \A k : k # m => Hooked(k)' = Hooked(k)
  BY LedgerEffects, Owners DEF Hooked
<1>2. UNCHANGED vars => \A k : Hooked(k)' = Hooked(k)
  BY LedgerEffects DEF Hooked
<1>3. \A l \in Link : InstallFirst(l) \/ InsertSubsequent(l) =>
        /\ Hooked(OwnerOf[l])' = Hooked(OwnerOf[l]) \cup {l}
        /\ \A k : k # OwnerOf[l] => Hooked(k)' = Hooked(k)
  BY LedgerEffects, Owners DEF Hooked
<1>4. \A l \in Link : InstallFails(l) \/ RejectInsert(l) => \A k : Hooked(k)' = Hooked(k)
  BY LedgerEffects DEF Hooked
<1> QED
  BY <1>1, <1>2, <1>3, <1>4

(* Before the pipeline only links of the loader's own mods are inserted. *)
LEMMA BuiltinStep ==
  ASSUME Life, NEW l \in Link, InsertBuiltin(l)
  PROVE  Life'
<1>1. UNCHANGED lifeVars /\ \A m \in Planned : Hooked(m)' = Hooked(m)
  BY HookedAfter, Owners DEF InsertBuiltin
<1>2. WorkedOn' = WorkedOn /\ Installing' = Installing /\ \A m : ToInstall(m)' = ToInstall(m)
  BY <1>1 DEF lifeVars, WorkedOn, Installing, ToInstall
<1>3. LifeTypes' /\ WindowsAreOwn'
  BY <1>1 DEF Life, LifeTypes, WindowsAreOwn, lifeVars
<1>4. OnlyEnabledAreHooked' /\ EnabledAreComplete' /\ HookedAreMapped'
  BY <1>1, <1>2 DEF Life, OnlyEnabledAreHooked, EnabledAreComplete, HookedAreMapped, lifeVars
<1>5. InstallIsHalfDone'
  BY <1>1, <1>2, JobFields DEF Life, LifeTypes, InstallIsHalfDone, lifeVars
<1> QED
  BY <1>3, <1>4, <1>5 DEF Life

(* An operation begins or ends at once. *)
LEMMA RegisterStep ==
  ASSUME Life, NEW m \in Planned, RegisterMod(m) \/ RemoveMod(m)
  PROVE  Life'
<1>1. /\ job = NoJob /\ state[m] # "Enabled"
      /\ \E s \in {"Installed", "Removed"} : state' = [state EXCEPT ![m] = s]
      /\ UNCHANGED <<vars, loaded, mapped, registered, window, recorded, job>>
  BY DEF RegisterMod, RemoveMod, IsAllowed
<1>2. \A k : Hooked(k)' = Hooked(k) /\ ToInstall(k)' = ToInstall(k)
  BY <1>1, HookedAfter DEF ToInstall
<1>3. job.kind = "none" /\ job' = job
  BY <1>1 DEF NoJob
<1> QED
  BY <1>1, <1>2, <1>3
  DEF Life, LifeTypes, ModState, OnlyEnabledAreHooked, WindowsAreOwn, InstallIsHalfDone,
      EnabledAreComplete, HookedAreMapped, WorkedOn, Installing

LEMMA BeginEnableStep ==
  ASSUME Life, NEW m \in Planned, BeginEnable(m)
  PROVE  Life'
<1>1. /\ job = NoJob /\ state[m] # "Enabled" /\ job' = [kind |-> "load", mod |-> m]
      /\ UNCHANGED <<vars, state, loaded, mapped, registered, window, recorded>>
  BY DEF BeginEnable, IsAllowed
<1>2. \A k : Hooked(k)' = Hooked(k) /\ ToInstall(k)' = ToInstall(k)
  BY <1>1, HookedAfter DEF ToInstall
<1>3. job' \in Job /\ job'.kind = "load" /\ job'.mod = m /\ job.kind = "none"
  BY <1>1, JobValues
<1> QED
  BY <1>1, <1>2, <1>3
  DEF Life, LifeTypes, OnlyEnabledAreHooked, WindowsAreOwn, InstallIsHalfDone,
      EnabledAreComplete, HookedAreMapped, WorkedOn, Installing

LEMMA DisableStep ==
  ASSUME Life, NEW m \in Planned, Disable(m)
  PROVE  Life'
<1>1. /\ job = NoJob /\ state' = [state EXCEPT ![m] = "Disabled"] /\ RemoveOwner(m)
      /\ UNCHANGED <<loaded, mapped, registered, window, recorded, job>>
  BY DEF Disable
<1>2. /\ Hooked(m)' = {} /\ \A k : k # m => Hooked(k)' = Hooked(k)
      /\ \A k : ToInstall(k)' = ToInstall(k)
  BY <1>1, HookedAfter DEF ToInstall
<1>3. job.kind = "none" /\ job' = job
  BY <1>1 DEF NoJob
<1> QED
  BY <1>1, <1>2, <1>3
  DEF Life, LifeTypes, ModState, OnlyEnabledAreHooked, WindowsAreOwn, InstallIsHalfDone,
      EnabledAreComplete, HookedAreMapped, WorkedOn, Installing

(* The parts of an enable, up to the window that is to be installed. *)
LEMMA EnableStep ==
  ASSUME Life, UseLoaded \/ LoadModule \/ LoadFails \/ EntryUnresolved \/ EntryFails
  PROVE  Life'
<1> DEFINE m == job.mod
<1>0. job.kind \in {"load", "entry"} /\ m \in Planned /\ state[m] # "Enabled" /\ Hooked(m) = {}
  BY JobFields
  DEF Life, LifeTypes, OnlyEnabledAreHooked, WorkedOn, Installing, UseLoaded, LoadModule,
      LoadFails, EntryUnresolved, EntryFails
<1>1. /\ UNCHANGED <<vars, window, recorded>>
      /\ loaded \subseteq loaded' /\ mapped \subseteq mapped'
  BY DEF UseLoaded, LoadModule, LoadFails, EntryUnresolved, EntryFails
<1>2. \A k : Hooked(k)' = Hooked(k) /\ ToInstall(k)' = ToInstall(k)
  BY <1>1, HookedAfter DEF ToInstall
<1>3. CASE LoadFails \/ EntryUnresolved
  <2>1. /\ state' = [state EXCEPT ![m] = "Disabled"] /\ job' = NoJob
        /\ UNCHANGED <<loaded, mapped, registered>>
    BY <1>3 DEF LoadFails, EntryUnresolved, FailTo
  <2>2. job' \in Job /\ job'.kind = "none"
    BY <2>1, JobValues
  <2> QED
    BY <1>0, <1>1, <1>2, <2>1, <2>2
    DEF Life, LifeTypes, ModState, OnlyEnabledAreHooked, WindowsAreOwn, InstallIsHalfDone,
        EnabledAreComplete, HookedAreMapped, WorkedOn, Installing
<1>4. CASE EntryFails
  <2>1. job' = [kind |-> "rollback", mod |-> m] /\ UNCHANGED <<state, loaded, mapped, registered>>
    BY <1>4 DEF EntryFails
  <2>2. job' \in Job /\ job'.kind = "rollback" /\ job'.mod = m
    BY <1>0, <2>1, JobValues
  <2> QED
    BY <1>0, <1>1, <1>2, <2>1, <2>2
    DEF Life, LifeTypes, OnlyEnabledAreHooked, WindowsAreOwn, InstallIsHalfDone,
        EnabledAreComplete, HookedAreMapped, WorkedOn, Installing
<1>5. CASE UseLoaded \/ LoadModule
  <2>1. /\ job' = [kind |-> "entry", mod |-> m, start |-> registered] /\ state' = state
        /\ m \in loaded'
        /\ loaded' \subseteq mapped' /\ mapped' \subseteq Planned
        /\ registered' \in {registered, registered \cup LinksOf(m)}
    BY <1>0, <1>5 DEF UseLoaded, LoadModule, Life, LifeTypes, HookedAreMapped
  <2>2. registered \in SUBSET Link /\ registered' \in SUBSET Link
    BY <2>1, Owners DEF Life, LifeTypes
  <2>3. job' \in Job /\ job'.kind = "entry" /\ job'.mod = m /\ job'.start = registered
    BY <1>0, <2>1, <2>2, JobValues
  <2>4. registered' \ job'.start \subseteq LinksOf(m)
    BY <2>1, <2>3
  <2>5. LifeTypes' /\ WindowsAreOwn'
    BY <1>1, <2>1, <2>2, <2>3, <2>4 DEF Life, LifeTypes, WindowsAreOwn
  <2>6. OnlyEnabledAreHooked' /\ InstallIsHalfDone' /\ EnabledAreComplete' /\ HookedAreMapped'
    BY <1>0, <1>1, <1>2, <2>1, <2>3
    DEF Life, OnlyEnabledAreHooked, InstallIsHalfDone, EnabledAreComplete, HookedAreMapped,
        WorkedOn, Installing
  <2> QED
    BY <2>5, <2>6 DEF Life
<1> QED
  BY <1>3, <1>4, <1>5

LEMMA EntrySucceedsStep ==
  ASSUME Life, EntrySucceeds
  PROVE  Life'
<1> DEFINE m == job.mod
           w == WindowOf(m, job.start)
<1>0. /\ job.kind = "entry" /\ m \in Planned /\ state[m] # "Enabled" /\ Hooked(m) = {}
      /\ m \in loaded
  BY JobFields
  DEF Life, LifeTypes, OnlyEnabledAreHooked, HookedAreMapped, WorkedOn, Installing, EntrySucceeds
<1>1. w \subseteq LinksOf(m) /\ w \subseteq Link
  BY <1>0, Owners DEF Life, WindowsAreOwn, WindowOf
<1> HIDE DEF w
<1>2. /\ window' = [window EXCEPT ![m] = w] /\ recorded' = recorded \cup {m}
      /\ job' = [kind |-> "install", mod |-> m, todo |-> w \cap Resolved]
      /\ UNCHANGED <<vars, state, loaded, mapped, registered>>
  BY DEF EntrySucceeds, w
<1>3. \A k : Hooked(k)' = Hooked(k)
  BY <1>2, HookedAfter
<1>4. /\ ToInstall(m)' = w \cap Resolved
      /\ \A k \in Planned : k # m => ToInstall(k)' = ToInstall(k)
  BY <1>0, <1>2 DEF ToInstall, Life, LifeTypes
<1>5. job' \in Job /\ job'.kind = "install" /\ job'.mod = m /\ job'.todo = w \cap Resolved
  BY <1>0, <1>1, <1>2, JobValues
<1>6. LifeTypes' /\ WindowsAreOwn'
  BY <1>0, <1>1, <1>2, <1>5 DEF Life, LifeTypes, WindowsAreOwn
<1>7. OnlyEnabledAreHooked' /\ InstallIsHalfDone' /\ EnabledAreComplete' /\ HookedAreMapped'
  BY <1>0, <1>2, <1>3, <1>4, <1>5
  DEF Life, OnlyEnabledAreHooked, InstallIsHalfDone, EnabledAreComplete, HookedAreMapped,
      WorkedOn, Installing
<1> QED
  BY <1>6, <1>7 DEF Life

(* One link of the window, which the registry may pass over; or the end of *)
(* the transaction.                                                        *)
LEMMA InstallStep ==
  ASSUME Life, NEW l \in Link, InstallLink(l) \/ AbortInstall(l)
  PROVE  Life'
<1> DEFINE m == job.mod
           T == job.todo \ {l}
<1>0. /\ job.kind = "install" /\ m \in Planned /\ state[m] # "Enabled" /\ l \in job.todo
      /\ job.todo \subseteq Link /\ m \in loaded /\ m \in mapped
      /\ l \in ToInstall(m) /\ OwnerOf[l] = m
  BY JobFields, Owners
  DEF Life, LifeTypes, OnlyEnabledAreHooked, InstallIsHalfDone, WindowsAreOwn, HookedAreMapped,
      WorkedOn, Installing, InstallLink, AbortInstall, NextToInstall, ToInstall
<1>1. /\ UNCHANGED <<state, loaded, mapped, registered, window, recorded>>
      /\ \A k : ToInstall(k)' = ToInstall(k)
  BY DEF InstallLink, AbortInstall, ToInstall
<1>2. \A k \in Planned : k # m => Hooked(k)' = Hooked(k)
  BY <1>0, HookedAfter DEF InstallLink, AbortInstall
<1>3. CASE AbortInstall(l)
  <2>1. job' = [kind |-> "rollback", mod |-> m] /\ \A k : Hooked(k)' = Hooked(k)
    BY <1>3, HookedAfter DEF AbortInstall
  <2>2. job' \in Job /\ job'.kind = "rollback" /\ job'.mod = m
    BY <1>0, <2>1, JobValues
  <2> QED
    BY <1>0, <1>1, <2>1, <2>2
    DEF Life, LifeTypes, OnlyEnabledAreHooked, WindowsAreOwn, InstallIsHalfDone,
        EnabledAreComplete, HookedAreMapped, WorkedOn, Installing
<1>4. CASE InstallLink(l)
  <2>1. job' = [job EXCEPT !.todo = T]
    BY <1>4 DEF InstallLink
  <2>2. job' \in Job /\ job'.kind = "install" /\ job'.mod = m /\ job'.todo = T
    <3>1. T \in SUBSET Link
      BY <1>0
    <3> HIDE DEF T
    <3> QED
      BY <1>0, <2>1, <3>1, JobFields DEF Life, LifeTypes
  <2>3. \/ Hooked(m)' = Hooked(m) \cup {l}
        \/ Hooked(m)' = Hooked(m) /\ ~Available
    BY <1>0, <1>4, HookedAfter, LedgerEffects DEF InstallLink, ToInstall
  <2>4. InstallIsHalfDone'
    BY <1>0, <1>1, <2>2, <2>3 DEF Life, InstallIsHalfDone
  <2>5. LifeTypes' /\ WindowsAreOwn'
    BY <1>0, <1>1, <2>2 DEF Life, LifeTypes, WindowsAreOwn
  <2>6. OnlyEnabledAreHooked' /\ EnabledAreComplete' /\ HookedAreMapped'
    BY <1>0, <1>1, <1>2, <2>2
    DEF Life, OnlyEnabledAreHooked, EnabledAreComplete, HookedAreMapped, WorkedOn, Installing
  <2> QED
    BY <2>4, <2>5, <2>6 DEF Life
<1> QED
  BY <1>3, <1>4

LEMMA EndEnableStep ==
  ASSUME Life, EnableSucceeds \/ Rollback
  PROVE  Life'
<1>0. PICK m \in Planned : m = job.mod /\ job.kind \in {"install", "rollback"}
  BY JobFields DEF Life, LifeTypes, EnableSucceeds, Rollback
<1>1. /\ job' = NoJob /\ UNCHANGED <<loaded, mapped, registered, window, recorded>>
      /\ \A k : ToInstall(k)' = ToInstall(k)
  BY DEF EnableSucceeds, Rollback, FailTo, ToInstall
<1>2. job' \in Job /\ job'.kind = "none"
  BY <1>1, JobValues
<1>3. CASE EnableSucceeds
  <2>1. /\ job.kind = "install" /\ job.todo = {} /\ state' = [state EXCEPT ![m] = "Enabled"]
        /\ \A k : Hooked(k)' = Hooked(k)
    BY <1>0, <1>3, HookedAfter DEF EnableSucceeds
  <2>2. Available => Hooked(m) = ToInstall(m)
    BY <1>0, <2>1 DEF Life, InstallIsHalfDone
  <2> QED
    BY <1>0, <1>1, <1>2, <2>1, <2>2
    DEF Life, LifeTypes, ModState, OnlyEnabledAreHooked, WindowsAreOwn, InstallIsHalfDone,
        EnabledAreComplete, HookedAreMapped, WorkedOn, Installing
<1>4. CASE Rollback
  <2>1. /\ state' = [state EXCEPT ![m] = "Disabled"]
        /\ Hooked(m)' = {} /\ \A k : k # m => Hooked(k)' = Hooked(k)
    BY <1>0, <1>4, HookedAfter DEF Rollback, FailTo
  <2> QED
    BY <1>0, <1>1, <1>2, <2>1
    DEF Life, LifeTypes, ModState, OnlyEnabledAreHooked, WindowsAreOwn, InstallIsHalfDone,
        EnabledAreComplete, HookedAreMapped, WorkedOn, Installing
<1> QED
  BY <1>3, <1>4

LEMMA TeardownStepKeeps ==
  ASSUME Life, StartTeardown \/ Terminate \/ Unload \/ EndTeardown
  PROVE  Life'
<1>1. CASE StartTeardown
  <2>1. /\ job = NoJob
        /\ job' = [kind |-> "teardown", terminate |-> EnabledInReverse, unload |-> EnabledInReverse]
        /\ UNCHANGED <<vars, state, loaded, mapped, registered, window, recorded>>
    BY <1>1 DEF StartTeardown
  <2>2. /\ EnabledInReverse \in Seq(Planned)
        /\ \A m \in Planned : state[m] = "Enabled" =>
             \E i \in DOMAIN EnabledInReverse : EnabledInReverse[i] = m
    BY TeardownListsTheEnabled DEF Life
  <2>3. job' \in Job /\ job'.kind = "teardown" /\ job'.unload = EnabledInReverse
    BY <2>1, <2>2, JobValues
  <2>4. job.kind = "none" /\ \A k : Hooked(k)' = Hooked(k)
    BY <2>1, HookedAfter DEF NoJob
  <2> QED
    BY <2>1, <2>2, <2>3, <2>4
    DEF Life, LifeTypes, OnlyEnabledAreHooked, WindowsAreOwn, InstallIsHalfDone,
        EnabledAreComplete, HookedAreMapped, WorkedOn, Installing
<1>2. CASE Terminate
  <2>1. /\ job.kind = "teardown" /\ job.terminate \in Seq(Planned) /\ job.terminate # <<>>
        /\ job' = [job EXCEPT !.terminate = Tail(job.terminate)]
        /\ UNCHANGED <<state, loaded, mapped, registered, window, recorded>>
    BY <1>2, JobFields DEF Terminate, Life, LifeTypes
  <2>2. Tail(job.terminate) \in Seq(Planned)
    BY <2>1
  <2>3. job' \in Job /\ job'.kind = "teardown" /\ job'.unload = job.unload
    BY <2>1, <2>2, JobFields DEF Life, LifeTypes
  <2>4. \A k : Hooked(k)' \subseteq Hooked(k)
    BY <1>2, HookedAfter DEF Terminate
  <2> QED
    BY <2>1, <2>3, <2>4
    DEF Life, LifeTypes, OnlyEnabledAreHooked, WindowsAreOwn, InstallIsHalfDone,
        EnabledAreComplete, HookedAreMapped, WorkedOn, Installing
<1>3. CASE Unload
  <2>0. PICK m \in Planned : m = Head(job.unload)
    BY <1>3, JobFields DEF Unload, Life, LifeTypes
  <2>1. /\ job.kind = "teardown" /\ job.unload \in Seq(Planned) /\ job.unload # <<>>
        /\ job' = [job EXCEPT !.unload = Tail(job.unload)]
        /\ state' = [state EXCEPT ![m] = "Removed"] /\ RemoveOwner(m)
        /\ loaded' = loaded \ {m} /\ mapped' \in {mapped, mapped \ {m}}
        /\ recorded' = recorded \ {m} /\ UNCHANGED <<registered, window>>
    BY <1>3, <2>0, JobFields DEF Unload, Life, LifeTypes
  <2>2. Tail(job.unload) \in Seq(Planned)
    BY <2>1
  <2>3. job' \in Job /\ job'.kind = "teardown" /\ job'.unload = Tail(job.unload)
    BY <2>1, <2>2, JobFields DEF Life, LifeTypes
  <2>4. Hooked(m)' = {} /\ \A k : k # m => Hooked(k)' = Hooked(k)
    BY <2>1, HookedAfter
  <2>5. ASSUME NEW k \in Planned, state'[k] = "Enabled"
        PROVE  \E i \in DOMAIN job'.unload : job'.unload[i] = k
    <3>1. k # m /\ state[k] = "Enabled"
      BY <2>1, <2>5 DEF Life, LifeTypes
    <3>2. PICK i \in DOMAIN job.unload : job.unload[i] = k
      BY <2>1, <3>1 DEF Life, EnabledAreComplete
    <3>3. i # 1 /\ i - 1 \in DOMAIN Tail(job.unload) /\ Tail(job.unload)[i - 1] = k
      BY <2>0, <2>1, <3>1, <3>2
    <3> QED
      BY <2>3, <3>3
  <2> QED
    BY <2>1, <2>3, <2>4, <2>5
    DEF Life, LifeTypes, ModState, OnlyEnabledAreHooked, WindowsAreOwn, InstallIsHalfDone,
        EnabledAreComplete, HookedAreMapped, WorkedOn, Installing
<1>4. CASE EndTeardown
  <2>1. /\ job.kind = "teardown" /\ job.unload = <<>> /\ job' = NoJob
        /\ UNCHANGED <<vars, state, loaded, mapped, registered, window, recorded>>
    BY <1>4 DEF EndTeardown
  <2>2. job' \in Job /\ job'.kind = "none" /\ \A k : Hooked(k)' = Hooked(k)
    BY <2>1, HookedAfter, JobValues
  <2>3. \A m \in Planned : state[m] # "Enabled"
    BY <2>1 DEF Life, EnabledAreComplete
  <2> QED
    BY <2>1, <2>2, <2>3
    DEF Life, LifeTypes, OnlyEnabledAreHooked, WindowsAreOwn, InstallIsHalfDone,
        EnabledAreComplete, HookedAreMapped, WorkedOn, Installing
<1> QED
  BY <1>1, <1>2, <1>3, <1>4

LEMMA LifeStep ==
  ASSUME Life, [LifecycleNext]_lifecycleVars
  PROVE  Life'
<1>1. CASE UNCHANGED lifecycleVars
  <2>1. UNCHANGED lifeVars /\ \A k : Hooked(k)' = Hooked(k)
    BY <1>1, HookedAfter DEF lifecycleVars
  <2> QED
    BY <2>1
    DEF lifeVars, Life, LifeTypes, OnlyEnabledAreHooked, WindowsAreOwn, InstallIsHalfDone,
        EnabledAreComplete, HookedAreMapped, WorkedOn, Installing, ToInstall
<1> QED
  BY <1>1, BuiltinStep, RegisterStep, BeginEnableStep, DisableStep, EnableStep, EntrySucceedsStep,
     InstallStep, EndEnableStep, TeardownStepKeeps DEF LifecycleNext, JobStep

LEMMA LifecycleInductive == LifecycleSpec => []LInv
<1>1. LifecycleInit => LInv
  <2> SUFFICES ASSUME LifecycleInit PROVE LInv
    OBVIOUS
  <2>1. Init
    BY DEF LifecycleInit
  <2>2. RegistryIsSound
    BY <2>1, TypeInit, WiredInit, LinkTypes DEF RegistryIsSound, IInv, Init, LedgerFollowsChains
  <2>3. \A k : Hooked(k) = {}
    BY <2>1 DEF Init, Hooked
  <2>4. job \in Job /\ job.kind = "none"
    BY JobValues DEF LifecycleInit
  <2> QED
    BY <2>2, <2>3, <2>4
    DEF LifecycleInit, LInv, Life, LifeTypes, ModState, OnlyEnabledAreHooked, WindowsAreOwn,
        InstallIsHalfDone, EnabledAreComplete, HookedAreMapped, WorkedOn, Installing
<1>2. LInv /\ [LifecycleNext]_lifecycleVars => LInv'
  BY LifecycleStep, LifeStep DEF LInv, Life
<1> QED
  BY <1>1, <1>2, PTL DEF LifecycleSpec
-----------------------------------------------------------------------------
(* Theorems *)

(* What is hooked is what is in the chains. *)
LEMMA HookedIsInChains ==
  ASSUME LInv, NEW m
  PROVE  LinksInChains(m) = Hooked(m)
BY LedgerIsTheUnion DEF LInv, RegistryIsSound, LinksInChains, Hooked, LedgerIsUnionOfChains

LEMMA StatesAreHooked == LInv => OnlyEnabledModsAreHooked
<1> SUFFICES ASSUME LInv PROVE OnlyEnabledModsAreHooked
  OBVIOUS
<1>1. job = NoJob => job.kind = "none"
  BY DEF NoJob
<1> QED
  BY <1>1, HookedIsInChains
  DEF LInv, Life, OnlyEnabledAreHooked, Installing, OnlyEnabledModsAreHooked, Hooked

(* Between two operations only enabled mods are hooked, each with the        *)
(* resolved links of its window and no other, whatever failed in between.    *)
THEOREM HooksAreTheStates == LifecycleSpec => []HooksFollowTheStates
<1>1. LInv => HooksFollowTheStates
  <2> SUFFICES ASSUME LInv PROVE HooksFollowTheStates
    OBVIOUS
  <2>1. LifecycleTypeOK
    BY DEF LInv, RegistryIsSound, IInv, Life, LifeTypes, LifecycleTypeOK
  <2>2. job = NoJob => job.kind = "none"
    BY DEF NoJob
  <2>3. OnlyEnabledModsAreHooked
    BY StatesAreHooked
  <2>4. WindowIsInstalled
    BY <2>2, HookedIsInChains
    DEF LInv, Life, WindowsAreOwn, EnabledAreComplete, ToInstall, WindowIsInstalled
  <2> QED
    BY <2>1, <2>3, <2>4 DEF HooksFollowTheStates
<1> QED
  BY <1>1, LifecycleInductive, PTL

(* No link is inserted twice, and no chain leads out of memory. *)
THEOREM ChainsStaySafe == LifecycleSpec => []ChainsAreSafe
<1>1. LInv => ChainsAreSafe
  <2> SUFFICES ASSUME LInv PROVE ChainsAreSafe
    OBVIOUS
  <2>1. ASSUME job.kind = "install", NEW l \in job.todo
        PROVE  l \notin chain[TargetOf[l]]
    <3>1. l \in ToInstall(job.mod) /\ l \notin Hooked(job.mod) /\ job.mod \in Planned
      BY <2>1, JobFields DEF LInv, Life, LifeTypes, InstallIsHalfDone
    <3>2. l \in LinksOf(job.mod) /\ l \in Link
      BY <3>1, Owners DEF LInv, Life, WindowsAreOwn, ToInstall
    <3> QED
      BY <3>1, <3>2 DEF LInv, RegistryIsSound, LedgerFollowsChains, Hooked
  <2>2. ASSUME NEW t \in Target, chain[t] # {}, NEW l \in Reached(t), OwnerOf[l] \in Planned
        PROVE  OwnerOf[l] \in mapped
    <3>1. chain[t] \in SUBSET Link /\ chain[t] \subseteq LinksOn(t) /\ head[t] = HeadOf(chain[t])
      BY <2>2 DEF LInv, RegistryIsSound, IInv, TypeOK, Wired, ChainsAreOnTheirTargets
    <3>2. l \in chain[t]
      BY <2>2, <3>1, HeadExists DEF Reached
    <3>3. l \in Link /\ TargetOf[l] = t
      BY <3>1, <3>2 DEF LinksOn
    <3>4. l \in Hooked(OwnerOf[l])
      BY <3>2, <3>3, Owners DEF LInv, RegistryIsSound, LedgerFollowsChains, Hooked
    <3> QED
      BY <2>2, <3>4 DEF LInv, Life, HookedAreMapped
  <2> QED
    BY <2>1, <2>2 DEF ChainsAreSafe, InsertsNoLinkTwice, ChainsAreMapped
<1> QED
  BY <1>1, LifecycleInductive, PTL

(* A recorded window stays until its module is unloaded, and a teardown    *)
(* leaves no mod enabled, in a chain or in the ledger.                     *)
THEOREM OperationsAreComplete == LifecycleSpec => OperationsKeepWindows
<1> DEFINE Keeps == \A m \in recorded : m \in recorded' => window'[m] = window[m]
           Clean == \A m \in Planned : /\ state'[m] # "Enabled"
                                       /\ LinksInChains(m)' = {}
                                       /\ attributed' \cap LinksOf(m) = {}
<1>1. ASSUME LInv, [LifecycleNext]_lifecycleVars
      PROVE  Keeps
  <2>1. CASE EntrySucceeds
    BY <1>1, <2>1, JobFields DEF EntrySucceeds, WindowOf, LInv, Life, LifeTypes
  <2>2. CASE ~EntrySucceeds
    <3>1. window' = window
      BY <1>1, <2>2
      DEF LifecycleNext, JobStep, InsertBuiltin, RegisterMod, BeginEnable, Disable, RemoveMod,
          StartTeardown, UseLoaded, LoadModule, LoadFails, EntryUnresolved, EntryFails, InstallLink,
          AbortInstall, EnableSucceeds, Rollback, Terminate, Unload, EndTeardown,
          lifecycleVars, lifeVars
    <3> QED
      BY <3>1
  <2> QED
    BY <2>1, <2>2
<1>2. ASSUME LInv, OnlyEnabledModsAreHooked', [LifecycleNext]_lifecycleVars,
             job.kind = "teardown", job' = NoJob
      PROVE  Clean
  <2>1. EndTeardown
    <3>1. job.kind # "none" /\ job'.kind = "none"
      BY <1>2 DEF NoJob
    <3>2. ~Terminate /\ ~Unload
      <4>1. \A q \in Seq(Planned) : [job EXCEPT !.terminate = q].kind = "teardown"
                                  /\ [job EXCEPT !.unload = q].kind = "teardown"
        BY <1>2, JobFields DEF LInv, Life, LifeTypes
      <4>2. CASE Terminate
        <5>1. Tail(job.terminate) \in Seq(Planned)
          BY <1>2, <4>2, JobFields DEF Terminate, LInv, Life, LifeTypes
        <5> QED
          BY <3>1, <4>1, <4>2, <5>1 DEF Terminate
      <4>3. CASE Unload
        <5>1. Tail(job.unload) \in Seq(Planned)
          BY <1>2, <4>3, JobFields DEF Unload, LInv, Life, LifeTypes
        <5> QED
          BY <3>1, <4>1, <4>3, <5>1 DEF Unload
      <4> QED
        BY <4>2, <4>3
    <3> QED
      BY <1>2, <3>1, <3>2
      DEF LifecycleNext, JobStep, InsertBuiltin, RegisterMod, BeginEnable, Disable, RemoveMod,
          StartTeardown, UseLoaded, LoadModule, LoadFails, EntryUnresolved, EntryFails,
          EntrySucceeds, InstallLink, AbortInstall, NextToInstall, EnableSucceeds, Rollback,
          lifecycleVars, lifeVars
  <2>2. \A m \in Planned : state'[m] # "Enabled"
    BY <1>2, <2>1 DEF EndTeardown, LInv, Life, EnabledAreComplete
  <2> QED
    BY <1>2, <2>2 DEF OnlyEnabledModsAreHooked
<1>3. LInv /\ OnlyEnabledModsAreHooked' /\ [LifecycleNext]_lifecycleVars =>
        [Keeps]_lifecycleVars /\ [job.kind = "teardown" /\ job' = NoJob => Clean]_lifecycleVars
  BY <1>1, <1>2
<1> QED
  BY <1>3, LifecycleInductive, StatesAreHooked, PTL
  DEF LifecycleSpec, OperationsKeepWindows, WindowIsKept, TeardownIsComplete

(* The manager and its wiring drive the registry by its own operations     *)
(* only, in no other granularity: what is proved of the registry holds of  *)
(* the mods' lives.                                                        *)
THEOREM LifecycleImplementsTheRegistry == LifecycleSpec => Spec
<1>1. LifecycleInit => Init
  BY DEF LifecycleInit
<1>2. LInv /\ [LifecycleNext]_lifecycleVars => [Next]_vars
  BY LifecycleIsARegistryStep DEF LInv, Life
<1> QED
  BY <1>1, <1>2, LifecycleInductive, PTL DEF LifecycleSpec, Spec
=============================================================================
