-------------------------- MODULE HookChainProofs ---------------------------
(***************************************************************************)
(* The vector of a chain and its dispatch, for every set of nodes, every   *)
(* owner, priority and load order, and however the handlers behave.        *)
(*                                                                         *)
(* A dispatch is going on up to the moment when a handler stops it or the  *)
(* original runs, and winds down from then: all that is left of it is      *)
(* handlers that have called the next one.  The invariant says what has    *)
(* run in either phase.                                                    *)
(***************************************************************************)
EXTENDS HookChain, SequenceLemmas

(* The vector is sorted, and no node is in it twice. *)
Sorted ==
  \A i, j \in DOMAIN nodes : i < j =>
    nodes[i] # nodes[j] /\ ~NodePrecedes(nodes[j], nodes[i])

(* A handler with another one inside has called it. *)
FramesAreNested ==
  /\ \A k \in DOMAIN stack : stack[k].pos \in DOMAIN nodes
  /\ \A k \in DOMAIN stack : k > 1 => stack[k].nextCalled
  /\ control.at = "idle" => stack = <<>>
  /\ control.at = "handler" => stack # <<>>
  /\ control.at \in {"invoke", "raised"} /\ stack # <<>> => stack[1].nextCalled

HandlersBelow(p) == {nodes[i] : i \in {j \in DOMAIN nodes : j < p}} \cap Handled

(* Handlers that ran and did not fail are still under way. *)
FailedOrOnTheStack ==
  ToSet(trace.ran) \subseteq trace.failed \cup {nodes[stack[k].pos] : k \in DOMAIN stack}

(* The dispatch has come to the node at p. *)
GoingOn(p) ==
  /\ trace.originals = 0 /\ trace.stoppedBy = {} /\ ~trace.escaped
  /\ ToSet(trace.ran) = HandlersBelow(p)
  /\ FailedOrOnTheStack

(* It was stopped, or the original has run. *)
WindingDown ==
  /\ ~trace.escaped
  /\ \/ /\ trace.originals = 1 /\ trace.stoppedBy = {}
        /\ ToSet(trace.ran) = HandlersBelow(Len(nodes) + 1)
     \/ /\ trace.originals = 0
        /\ trace.ran # <<>> /\ trace.stoppedBy = {Last(trace.ran)}

DispatchIsInAPhase ==
  /\ control.at = "invoke" => control.pos <= Len(nodes) + 1 /\ GoingOn(control.pos)
  /\ control.at = "handler" /\ ~stack[1].nextCalled =>
       /\ GoingOn(stack[1].pos + 1)
       /\ trace.ran # <<>> /\ Last(trace.ran) = nodes[stack[1].pos]
  /\ control.at = "handler" /\ stack[1].nextCalled => WindingDown
  /\ control.at = "raised" => WindingDown /\ trace.originals = 1 /\ FailedOrOnTheStack

IInv == ChainTypeOK /\ Sorted /\ FramesAreNested /\ RunsOnceInOrder /\ DispatchIsInAPhase
-----------------------------------------------------------------------------
(* The order of the nodes *)

(* A node that ties with another is neither before nor behind it; what is  *)
(* before one of the two is before the other as well.                      *)
LEMMA NodeOrder ==
  /\ \A a, b \in Link : NodePrecedes(a, b) => ~NodePrecedes(b, a)
  /\ \A a, b, c \in Link : NodePrecedes(a, b) /\ ~NodePrecedes(c, b) => NodePrecedes(a, c)
<1>1. \A a \in Link : ClampHookPriority(Priority[a]) \in Int
  BY LinkAssumption DEF ClampHookPriority, kHookPriorityMin, kHookPriorityMax
<1>2. \A a \in Link : LoadOrder[a] \in Int
  BY HookChainAssumption
<1> QED
  BY <1>1, <1>2 DEF NodePrecedes

(* Nodes whose load order is their index are in the order of ChainOrder,   *)
(* which is strict and total.                                              *)
LEMMA IndexOrder ==
  /\ \A a, b \in Link : LoadOrder[a] = a /\ LoadOrder[b] = b =>
       (NodePrecedes(a, b) <=> Precedes(a, b))
  /\ \A a, b \in Link : Precedes(a, b) => ~Precedes(b, a) /\ a # b
  /\ \A a, b \in Link : a # b => Precedes(a, b) \/ Precedes(b, a)
<1>1. \A a \in Link : ClampHookPriority(Priority[a]) \in Int /\ a \in Int
  BY LinkAssumption DEF ClampHookPriority, kHookPriorityMin, kHookPriorityMax
<1> QED
  BY <1>1 DEF NodePrecedes, Precedes

LEMMA OnlyOneHead ==
  ASSUME NEW S \in SUBSET Link, NEW a \in S, \A b \in S \ {a} : Precedes(a, b)
  PROVE  a = HeadOf(S)
<1>1. \A b \in S : (\A c \in S \ {b} : Precedes(b, c)) => b = a
  BY IndexOrder
<1> QED
  BY <1>1 DEF HeadOf

(* A vector that is sorted holds no more nodes than there are. *)
LEMMA VectorIsShort ==
  ASSUME nodes \in Seq(Link), Sorted
  PROVE  Len(nodes) \in Nat /\ Cardinality(Link) \in Nat /\ Len(nodes) <= Cardinality(Link)
<1>1. IsFiniteSet(Link) /\ Cardinality(Link) \in Nat
  BY HookChainAssumption, FS_CardinalityType
<1>2. Len(nodes) \in Nat /\ nodes \in [1 .. Len(nodes) -> Link]
  OBVIOUS
<1>3. IsFiniteSet(1 .. Len(nodes)) /\ Cardinality(1 .. Len(nodes)) = Len(nodes)
  BY <1>2, FS_Interval
<1>4. \A i, j \in 1 .. Len(nodes) : i # j => nodes[i] # nodes[j]
  <2>1. \A i, j \in 1 .. Len(nodes) : i # j => i < j \/ j < i
    BY <1>2
  <2> QED
    BY <1>2, <2>1 DEF Sorted
<1>5. ASSUME ~(Len(nodes) <= Cardinality(Link)) PROVE FALSE
  <2>1. Cardinality(Link) < Cardinality(1 .. Len(nodes))
    BY <1>1, <1>2, <1>3, <1>5
  <2>2. \E i, j \in 1 .. Len(nodes) : i # j /\ nodes[i] = nodes[j]
    BY <1>1, <1>2, <1>3, <2>1, FS_PigeonHole
  <2> QED
    BY <1>4, <2>2
<1> QED
  BY <1>1, <1>2, <1>5

(* A sorted vector is its set read in order. *)
LEMMA SortedIsOrdered ==
  ASSUME nodes \in Seq(Link), Sorted
  PROVE  VectorIsTheOrderedSet
<1> DEFINE c == ToSet(nodes)
           n == Len(nodes)
<1>1. n \in Nat /\ DOMAIN nodes = 1 .. n /\ \A i \in 1 .. n : nodes[i] \in Link
  OBVIOUS
<1>2. c = {nodes[i] : i \in 1 .. n}
  BY DEF ToSet
<1> HIDE DEF n, c
<1> SUFFICES ASSUME \A i \in 1 .. n : LoadOrder[nodes[i]] = nodes[i]
             PROVE  /\ nodes # <<>> => nodes[1] = HeadOf(c)
                    /\ \A i \in 1 .. n :
                         SuccessorIn(c, nodes[i]) = IF i = n THEN RealTrampoline ELSE nodes[i + 1]
  BY <1>1 DEF VectorIsTheOrderedSet, n, c
<1>3. ASSUME NEW i \in 1 .. n, NEW j \in 1 .. n, i < j
      PROVE  Precedes(nodes[i], nodes[j])
  <2>1. nodes[i] # nodes[j] /\ ~NodePrecedes(nodes[j], nodes[i])
    BY <1>1, <1>3 DEF Sorted
  <2>2. nodes[i] \in Link /\ nodes[j] \in Link
    BY <1>1
  <2> QED
    BY <2>1, <2>2, IndexOrder
<1> DEFINE From(k) == {nodes[i] : i \in k .. n}
<1>4. ASSUME NEW k \in 1 .. n PROVE nodes[k] = HeadOf(From(k))
  <2>1. From(k) \in SUBSET Link /\ nodes[k] \in From(k)
    BY <1>1
  <2>2. \A i \in k .. n : i \in 1 .. n /\ (i = k \/ k < i)
    BY <1>1
  <2>3. \A b \in From(k) \ {nodes[k]} : Precedes(nodes[k], b)
    BY <1>3, <2>2
  <2> HIDE DEF From
  <2> QED
    BY <2>1, <2>3, OnlyOneHead
<1>5. nodes # <<>> => nodes[1] = HeadOf(c)
  <2>1. nodes # <<>> => 1 \in 1 .. n
    BY DEF n
  <2>2. c = From(1)
    BY <1>2
  <2> HIDE DEF From
  <2> QED
    BY <1>4, <2>1, <2>2
<1>6. ASSUME NEW i \in 1 .. n
      PROVE  SuccessorIn(c, nodes[i]) = IF i = n THEN RealTrampoline ELSE nodes[i + 1]
  <2>1. \A j \in 1 .. n : Precedes(nodes[i], nodes[j]) <=> i < j
    <3>1. \A j \in 1 .. n : j < i \/ j = i \/ i < j
      BY <1>1
    <3> QED
      BY <1>1, <1>3, <3>1, IndexOrder
  <2>2. LinksAfter(c, nodes[i]) = From(i + 1)
    <3>1. \A j : j \in i + 1 .. n <=> j \in 1 .. n /\ i < j
      BY <1>1
    <3> QED
      BY <1>2, <2>1, <3>1 DEF LinksAfter
  <2>3. CASE i = n
    <3>1. i + 1 .. n = {}
      BY <1>1, <2>3
    <3>2. From(i + 1) = {}
      BY <3>1
    <3> QED
      BY <2>2, <2>3, <3>2 DEF SuccessorIn
  <2>4. CASE i # n
    <3>1. i + 1 \in 1 .. n /\ i + 1 \in i + 1 .. n
      BY <1>1, <2>4
    <3>2. From(i + 1) # {}
      BY <3>1
    <3>3. nodes[i + 1] = HeadOf(From(i + 1))
      BY <1>4, <3>1
    <3> HIDE DEF From
    <3> QED
      BY <2>2, <2>4, <3>2, <3>3 DEF SuccessorIn
  <2> QED
    BY <2>3, <2>4
<1> QED
  BY <1>5, <1>6
-----------------------------------------------------------------------------
(* The steps of the vector *)

(* A node goes behind those that it does not precede, which are the first. *)
LEMMA PlaceOfANode ==
  ASSUME nodes \in Seq(Link), Sorted, NEW l \in Link
  PROVE  /\ UpperBound(l) \in 1 .. Len(nodes) + 1
         /\ \A i \in DOMAIN nodes : ~NodePrecedes(l, nodes[i]) <=> i < UpperBound(l)
<1> DEFINE n == Len(nodes)
           B == {i \in DOMAIN nodes : ~NodePrecedes(l, nodes[i])}
           Not == {i \in 1 .. n + 1 : i \notin B}
<1>1. n \in Nat /\ DOMAIN nodes = 1 .. n /\ \A i \in 1 .. n : nodes[i] \in Link
  OBVIOUS
<1>2. PICK k \in Not : \A i \in Not : k <= i
  <2>1. Not \subseteq Nat /\ n + 1 \in Not
    BY <1>1
  <2> HIDE DEF Not
  <2> QED
    BY <2>1, LeastNatural
<1>3. k \in 1 .. n + 1 /\ k \in Int
  BY <1>1, <1>2
<1>4. ASSUME NEW i \in 1 .. n PROVE i \in B <=> i < k
  <2>1. i < k => i \in B
    BY <1>1, <1>2, <1>3
  <2>2. ASSUME ~(i < k) PROVE NodePrecedes(l, nodes[i])
    <3>1. k \in 1 .. n /\ (k = i \/ k < i)
      BY <1>1, <1>3, <2>2
    <3>2. NodePrecedes(l, nodes[k])
      BY <1>1, <1>2, <3>1
    <3>3. k # i => ~NodePrecedes(nodes[i], nodes[k])
      BY <1>1, <3>1 DEF Sorted
    <3> QED
      BY <1>1, <3>1, <3>2, <3>3, NodeOrder
  <2> QED
    BY <1>1, <2>1, <2>2
<1>5. B = 1 .. k - 1
  <2>1. \A i \in 1 .. n : i < k <=> i \in 1 .. k - 1
    BY <1>1, <1>3
  <2>2. B \subseteq 1 .. n /\ 1 .. k - 1 \subseteq 1 .. n
    BY <1>1, <1>3
  <2> HIDE DEF B
  <2> QED
    BY <1>4, <2>1, <2>2
<1>6. Cardinality(1 .. k - 1) = k - 1
  <2>1. 1 \in Int /\ k - 1 \in Int
    BY <1>3
  <2>2. Cardinality(1 .. k - 1) = IF 1 > k - 1 THEN 0 ELSE (k - 1) - 1 + 1
    BY <2>1, FS_Interval
  <2> QED
    BY <1>3, <2>2
<1>7. UpperBound(l) = k
  <2>1. UpperBound(l) = Cardinality(B) + 1
    BY DEF UpperBound
  <2> HIDE DEF B, Not
  <2> QED
    BY <1>3, <1>5, <1>6, <2>1
<1> QED
  BY <1>1, <1>3, <1>4, <1>7

LEMMA AddKeepsTheOrder ==
  ASSUME nodes \in Seq(Link), Sorted, NEW l \in Link, Add(l)
  PROVE  nodes' \in Seq(Link) /\ Sorted' /\ OrderIsStable
<1> DEFINE n == Len(nodes)
           k == UpperBound(l)
           old(i) == IF i < k THEN i ELSE i - 1
<1>1. n \in Nat /\ DOMAIN nodes = 1 .. n /\ \A i \in 1 .. n : nodes[i] \in Link
  OBVIOUS
<1>2. k \in 1 .. n + 1 /\ \A i \in 1 .. n : ~NodePrecedes(l, nodes[i]) <=> i < k
  BY <1>1, PlaceOfANode
<1>3. nodes' = InsertAt(nodes, k, l) /\ \A i \in 1 .. n : nodes[i] # l
  BY DEF Add, Contains
<1> HIDE DEF n, k
<1>4. /\ nodes' \in Seq(Link) /\ Len(nodes') = n + 1 /\ nodes'[k] = l
      /\ \A i \in 1 .. k - 1 : nodes'[i] = nodes[i]
      /\ \A i \in k + 1 .. n + 1 : nodes'[i] = nodes[i - 1]
  <2>1. k \in 1 .. Len(nodes) + 1
    BY <1>2 DEF n
  <2>2. nodes' \in Seq(Link)
    BY <1>3, <2>1, InsertAtElements
  <2>3. Len(nodes') = n + 1
    BY <1>3, <2>1, InsertAtElements DEF n
  <2>4. nodes'[k] = l
    BY <1>3, <2>1, InsertAtElements
  <2>5. \A i \in 1 .. k - 1 : nodes'[i] = nodes[i]
    BY <1>3, <2>1, InsertAtElements
  <2>6. ASSUME NEW i \in k + 1 .. Len(nodes) + 1 PROVE nodes'[i] = nodes[i - 1]
    <3>1. InsertAt(nodes, k, l)[i] = nodes[i - 1]
      BY <2>1, InsertAtElements
    <3> QED
      BY <1>3, <3>1
  <2> QED
    BY <2>2, <2>3, <2>4, <2>5, <2>6 DEF n
<1>5. DOMAIN nodes' = 1 .. n + 1
  BY <1>4
<1>6. ASSUME NEW i \in 1 .. n + 1, i # k
      PROVE  old(i) \in 1 .. n /\ nodes'[i] = nodes[old(i)] /\ (old(i) < k <=> i < k)
  <2>1. CASE i < k
    <3>1. i \in 1 .. k - 1 /\ i \in 1 .. n
      BY <1>1, <1>2, <2>1
    <3> QED
      BY <1>4, <2>1, <3>1
  <2>2. CASE ~(i < k)
    <3>1. i \in k + 1 .. n + 1 /\ i - 1 \in 1 .. n /\ ~(i - 1 < k)
      BY <1>1, <1>2, <1>6, <2>2
    <3> QED
      BY <1>4, <2>2, <3>1
  <2> QED
    BY <2>1, <2>2
<1>7. \A i, j \in 1 .. n + 1 : i # k /\ j # k /\ i < j => old(i) < old(j)
  BY <1>1, <1>2
<1> HIDE DEF old
<1>8. ASSUME NEW i \in 1 .. n + 1, NEW j \in 1 .. n + 1, i < j
      PROVE  /\ nodes'[i] # nodes'[j] /\ ~NodePrecedes(nodes'[j], nodes'[i])
             /\ \/ NodePrecedes(nodes'[i], nodes'[j])
                \/ /\ nodes'[i] \in ToSet(nodes)
                   /\ \A x, y \in DOMAIN nodes :
                        nodes[x] = nodes'[i] /\ nodes[y] = nodes'[j] => x < y
  <2>1. CASE i = k
    <3>1. j # k /\ ~(j < k)
      BY <1>2, <1>8, <2>1
    <3>2. old(j) \in 1 .. n /\ nodes'[j] = nodes[old(j)] /\ NodePrecedes(l, nodes'[j])
      BY <1>2, <1>6, <3>1
    <3> QED
      BY <1>1, <1>3, <1>4, <2>1, <3>2, NodeOrder
  <2>2. CASE j = k
    <3>1. i # k /\ i < k
      BY <1>2, <1>8, <2>2
    <3>2. old(i) \in 1 .. n /\ nodes'[i] = nodes[old(i)] /\ ~NodePrecedes(l, nodes'[i])
      BY <1>2, <1>6, <3>1
    <3>3. nodes'[i] \in ToSet(nodes) /\ \A y \in DOMAIN nodes : nodes[y] # nodes'[j]
      BY <1>1, <1>3, <1>4, <2>2, <3>2 DEF ToSet
    <3> QED
      BY <1>1, <1>3, <1>4, <2>2, <3>2, <3>3
  <2>3. CASE i # k /\ j # k
    <3> DEFINE a == old(i)
               b == old(j)
    <3>1. a \in 1 .. n /\ b \in 1 .. n /\ a < b /\ nodes'[i] = nodes[a] /\ nodes'[j] = nodes[b]
      BY <1>6, <1>7, <1>8, <2>3
    <3> HIDE DEF a, b
    <3>2. nodes[a] # nodes[b] /\ ~NodePrecedes(nodes[b], nodes[a]) /\ nodes[a] \in ToSet(nodes)
      BY <1>1, <3>1 DEF Sorted, ToSet
    <3>3. \A x, y \in 1 .. n : nodes[x] = nodes[a] /\ nodes[y] = nodes[b] => x < y
      <4>1. \A x, y \in 1 .. n : nodes[x] = nodes[y] => x = y
        <5>1. \A x, y \in 1 .. n : x < y \/ y < x \/ x = y
          BY <1>1
        <5> QED
          BY <1>1, <5>1 DEF Sorted
      <4> QED
        BY <3>1, <4>1
    <3> QED
      BY <1>1, <3>1, <3>2, <3>3
  <2> QED
    BY <2>1, <2>2, <2>3
<1>9. Sorted'
  BY <1>5, <1>8 DEF Sorted, NodePrecedes
<1>10. OrderIsStable
  BY <1>5, <1>8 DEF OrderIsStable
<1> QED
  BY <1>4, <1>9, <1>10

LEMMA RemoveKeepsTheOrder ==
  ASSUME nodes \in Seq(Link), Sorted, NEW owner, RemoveOwnersNodes(owner)
  PROVE  nodes' \in Seq(Link) /\ Sorted' /\ OrderIsStable
<1> DEFINE n == Len(nodes)
           T == {l \in Link : OwnerOf[l] # owner}
<1>1. n \in Nat /\ DOMAIN nodes = 1 .. n /\ \A i \in 1 .. n : nodes[i] \in Link
  OBVIOUS
<1>2. nodes' = Kept(nodes, T)
  BY DEF RemoveOwnersNodes
<1> HIDE DEF n, T
<1>3. nodes' \in Seq(Link)
  BY <1>2, KeptHasPlaces
<1>4. PICK h : ArePlaces(h, nodes', nodes, T, n)
  BY <1>2, KeptHasPlaces DEF n
<1>5. DOMAIN nodes' = 1 .. Len(nodes')
  BY <1>3
<1>6. \A i \in DOMAIN nodes' : h[i] \in 1 .. n /\ nodes'[i] = nodes[h[i]]
  BY <1>4, <1>5 DEF ArePlaces
<1>7. \A i, j \in DOMAIN nodes' : i < j => h[i] < h[j]
  BY <1>4, <1>5 DEF ArePlaces
<1>8. \A x, y \in 1 .. n : nodes[x] = nodes[y] => x = y
  <2>1. \A x, y \in 1 .. n : x < y \/ y < x \/ x = y
    BY <1>1
  <2> QED
    BY <1>1, <2>1 DEF Sorted
<1>9. ASSUME NEW i \in DOMAIN nodes', NEW j \in DOMAIN nodes', i < j
      PROVE  /\ nodes'[i] # nodes'[j] /\ ~NodePrecedes(nodes'[j], nodes'[i])
             /\ nodes'[i] \in ToSet(nodes)
             /\ \A x, y \in DOMAIN nodes :
                  nodes[x] = nodes'[i] /\ nodes[y] = nodes'[j] => x < y
  <2>1. h[i] \in 1 .. n /\ h[j] \in 1 .. n /\ h[i] < h[j]
        /\ nodes'[i] = nodes[h[i]] /\ nodes'[j] = nodes[h[j]]
    BY <1>6, <1>7, <1>9
  <2>2. nodes'[i] # nodes'[j] /\ ~NodePrecedes(nodes'[j], nodes'[i]) /\ nodes'[i] \in ToSet(nodes)
    BY <1>1, <2>1 DEF Sorted, ToSet
  <2>3. \A x, y \in DOMAIN nodes : nodes[x] = nodes'[i] /\ nodes[y] = nodes'[j] => x < y
    BY <1>1, <1>8, <2>1
  <2> QED
    BY <2>2, <2>3
<1>10. Sorted'
  BY <1>9 DEF Sorted, NodePrecedes
<1>11. OrderIsStable
  BY <1>9 DEF OrderIsStable
<1> QED
  BY <1>3, <1>10, <1>11
-----------------------------------------------------------------------------
(* The steps of a dispatch *)

LEMMA ControlValues ==
  ASSUME control \in Control
  PROVE  /\ control = Idle <=> control.at = "idle"
         /\ control = InHandler <=> control.at = "handler"
         /\ control.at = "invoke" =>
              control = Invoke(control.pos) /\ control.pos \in 1 .. Cardinality(Link) + 1
         /\ control.at \in {"idle", "handler", "raised", "invoke"}
BY DEF Control, Idle, InHandler, Invoke

LEMMA ControlTypes ==
  /\ Idle \in Control /\ InHandler \in Control /\ [at |-> "raised"] \in Control
  /\ Idle.at = "idle" /\ InHandler.at = "handler" /\ [at |-> "raised"].at = "raised"
  /\ \A p \in 1 .. Cardinality(Link) + 1 :
       Invoke(p) \in Control /\ Invoke(p).at = "invoke" /\ Invoke(p).pos = p
BY DEF Control, Idle, InHandler, Invoke

LEMMA HandlersUpTo ==
  ASSUME nodes \in Seq(Link), NEW p \in DOMAIN nodes
  PROVE  HandlersBelow(p + 1) = HandlersBelow(p) \cup ({nodes[p]} \cap Handled)
<1>1. p \in Nat /\ \A j \in DOMAIN nodes : j \in Nat
  OBVIOUS
<1>2. \A j \in DOMAIN nodes : j < p + 1 <=> j < p \/ j = p
  BY <1>1
<1> QED
  BY <1>2 DEF HandlersBelow

(* The handlers of the whole vector, as the game sees them. *)
LEMMA HandlersOfAll ==
  ASSUME nodes \in Seq(Link)
  PROVE  HandlersBelow(Len(nodes) + 1) = ToSet(nodes) \cap Handled
<1>1. \A j \in DOMAIN nodes : j < Len(nodes) + 1
  OBVIOUS
<1> QED
  BY <1>1 DEF HandlersBelow, ToSet

LEMMA PoppedFrames ==
  ASSUME IInv, stack # <<>>, stack' = Tail(stack), nodes' = nodes
  PROVE  /\ stack[1] \in LinkState /\ stack[1].pos \in DOMAIN nodes
         /\ stack' \in Seq(LinkState)
         /\ \A k \in DOMAIN stack' : stack'[k].pos \in DOMAIN nodes' /\ stack'[k].nextCalled
         /\ {nodes[stack[k].pos] : k \in DOMAIN stack}
              \subseteq {nodes'[stack'[k].pos] : k \in DOMAIN stack'} \cup {Running}
<1>1. stack \in Seq(LinkState)
  BY DEF IInv, ChainTypeOK
<1>2. Len(stack) \in Nat /\ Len(stack) # 0 /\ DOMAIN stack = 1 .. Len(stack)
  BY <1>1
<1>3. /\ stack[1] \in LinkState
      /\ stack' \in Seq(LinkState) /\ Len(stack') = Len(stack) - 1
      /\ \A i \in 1 .. Len(stack) - 1 : stack'[i] = stack[i + 1]
  BY <1>1, PopElements
<1>4. DOMAIN stack' = 1 .. Len(stack) - 1
  BY <1>3
<1>5. \A k \in DOMAIN stack : stack[k].pos \in DOMAIN nodes /\ (k > 1 => stack[k].nextCalled)
  BY DEF IInv, FramesAreNested
<1>6. ASSUME NEW k \in DOMAIN stack'
      PROVE  stack'[k].pos \in DOMAIN nodes' /\ stack'[k].nextCalled
  <2>1. k + 1 \in DOMAIN stack /\ k + 1 > 1 /\ stack'[k] = stack[k + 1]
    BY <1>2, <1>3, <1>4
  <2> QED
    BY <1>5, <2>1
<1>7. ASSUME NEW k \in DOMAIN stack
      PROVE  nodes[stack[k].pos] \in {nodes'[stack'[m].pos] : m \in DOMAIN stack'} \cup {Running}
  <2>1. CASE k = 1
    BY <2>1 DEF Running
  <2>2. CASE k # 1
    <3>1. k - 1 \in 1 .. Len(stack) - 1 /\ (k - 1) + 1 = k
      BY <1>2, <2>2
    <3>2. stack'[k - 1] = stack[k]
      BY <1>3, <3>1
    <3> QED
      BY <1>4, <3>1, <3>2
  <2> QED
    BY <2>1, <2>2
<1> QED
  BY <1>2, <1>3, <1>5, <1>6, <1>7

(* After a handler the one that called it goes on, or the game does. *)
LEMMA BackToWhoCalled ==
  ASSUME NEW frames
  PROVE  /\ BackTo(frames) \in Control /\ BackTo(frames).at \in {"idle", "handler"}
         /\ BackTo(frames).at = "idle" <=> frames = <<>>
BY ControlTypes DEF BackTo

LEMMA BeginStep ==
  ASSUME IInv, BeginDispatch
  PROVE  IInv'
<1>1. control' = Invoke(1) /\ trace' = NoTrace /\ nodes' = nodes /\ stack' = stack
  BY DEF BeginDispatch
<1>2. stack = <<>> /\ nodes \in Seq(Link) /\ Cardinality(Link) \in Nat
  <2>1. control.at = "idle"
    BY ControlTypes DEF BeginDispatch
  <2> QED
    BY <2>1, VectorIsShort DEF IInv, FramesAreNested, ChainTypeOK
<1>3. 1 \in 1 .. Cardinality(Link) + 1 /\ 1 <= Len(nodes) + 1
  BY <1>2
<1>4. control' \in Control /\ control'.at = "invoke" /\ control'.pos = 1
  BY <1>1, <1>3, ControlTypes
<1>5. trace' \in [ran : Seq(Link), originals : Nat, stoppedBy : SUBSET Link,
                  failed : SUBSET Link, escaped : BOOLEAN]
  BY <1>1 DEF NoTrace
<1>6. ChainTypeOK'
  BY <1>1, <1>4, <1>5 DEF ChainTypeOK, IInv, Control, LinkState
<1>7. Sorted'
  BY <1>1 DEF IInv, Sorted, NodePrecedes
<1>8. FramesAreNested'
  BY <1>1, <1>2, <1>4 DEF IInv, FramesAreNested
<1>9. RunsOnceInOrder'
  BY <1>1 DEF RunsOnceInOrder, NoTrace
<1>10. GoingOn(1)'
  <2>1. \A j \in DOMAIN nodes : ~(j < 1)
    BY <1>2
  <2>2. HandlersBelow(1)' = {} /\ ToSet(trace'.ran) = {}
    BY <1>1, <2>1 DEF HandlersBelow, NoTrace, ToSet
  <2> QED
    BY <1>1, <2>2 DEF GoingOn, FailedOrOnTheStack, NoTrace
<1>11. DispatchIsInAPhase'
  BY <1>1, <1>3, <1>4, <1>10 DEF DispatchIsInAPhase
<1> QED
  BY <1>6, <1>7, <1>8, <1>9, <1>11 DEF IInv

(* What a step of a dispatch leaves alone. *)
LEMMA VectorStays ==
  ASSUME IInv, nodes' = nodes
  PROVE  /\ nodes' \in Seq(Link) /\ Sorted'
         /\ \A p : HandlersBelow(p)' = HandlersBelow(p)
         /\ control.at # "idle" /\ trace'.ran = trace.ran /\ trace'.originals <= 1
              => RunsOnceInOrder'
<1>1. nodes' \in Seq(Link) /\ Sorted'
  BY DEF IInv, ChainTypeOK, Sorted, NodePrecedes
<1>2. \A p : HandlersBelow(p)' = HandlersBelow(p)
  BY DEF HandlersBelow
<1>3. control.at # "idle" => control # Idle
  BY ControlTypes
<1> QED
  BY <1>1, <1>2, <1>3 DEF IInv, RunsOnceInOrder

LEMMA SkipStep ==
  ASSUME IInv, SkipNode
  PROVE  IInv'
<1>0. PICK p : p = control.pos
  OBVIOUS
<1>1. /\ nodes' = nodes /\ stack' = stack /\ trace' = trace
      /\ control.at = "invoke" /\ p <= Len(nodes) /\ nodes[p] \notin Handled
      /\ control' = Invoke(p + 1)
  BY <1>0 DEF SkipNode
<1>2. nodes \in Seq(Link) /\ Len(nodes) \in Nat /\ p \in Nat /\ p \in DOMAIN nodes
      /\ p + 1 \in 1 .. Cardinality(Link) + 1 /\ p + 1 <= Len(nodes) + 1
  BY <1>0, <1>1, ControlValues, VectorIsShort DEF IInv, ChainTypeOK
<1>3. control' \in Control /\ control'.at = "invoke" /\ control'.pos = p + 1
  BY <1>1, <1>2, ControlTypes
<1>4. ChainTypeOK'
  BY <1>1, <1>3 DEF ChainTypeOK, IInv, Control, LinkState
<1>5. GoingOn(p)
  BY <1>0, <1>1 DEF IInv, DispatchIsInAPhase
<1>6. HandlersBelow(p + 1) = HandlersBelow(p)
  BY <1>1, <1>2, HandlersUpTo
<1>7. GoingOn(p + 1)'
  BY <1>1, <1>5, <1>6 DEF GoingOn, FailedOrOnTheStack, HandlersBelow
<1>8. FramesAreNested'
  BY <1>1, <1>3 DEF IInv, FramesAreNested
<1>9. Sorted' /\ RunsOnceInOrder'
  <2>1. trace.originals <= 1 /\ control.at # "idle"
    BY <1>1 DEF IInv, RunsOnceInOrder
  <2> QED
    BY <1>1, <2>1, VectorStays
<1>10. DispatchIsInAPhase'
  BY <1>1, <1>2, <1>3, <1>7 DEF DispatchIsInAPhase
<1> QED
  BY <1>4, <1>8, <1>9, <1>10 DEF IInv

LEMMA EnterStep ==
  ASSUME IInv, EnterHandler
  PROVE  IInv'
<1>0. PICK p : p = control.pos
  OBVIOUS
<1> DEFINE l == nodes[p]
           frame == [pos |-> p, nextCalled |-> FALSE]
           ran == trace.ran
<1>1. /\ nodes' = nodes /\ control.at = "invoke" /\ p <= Len(nodes) /\ l \in Handled
      /\ control' = InHandler /\ stack' = <<frame>> \o stack
      /\ trace' = [trace EXCEPT !.ran = Append(@, l)]
  BY <1>0 DEF EnterHandler
<1>2. /\ nodes \in Seq(Link) /\ Len(nodes) \in Nat /\ p \in Nat /\ p \in DOMAIN nodes
      /\ p \in 1 .. Cardinality(Link) /\ l \in Link
  BY <1>0, <1>1, ControlValues, VectorIsShort DEF IInv, ChainTypeOK
<1>3. frame \in LinkState /\ frame.pos = p /\ ~frame.nextCalled
  BY <1>2 DEF LinkState
<1>4. GoingOn(p) /\ (stack # <<>> => stack[1].nextCalled)
  BY <1>0, <1>1 DEF IInv, DispatchIsInAPhase, FramesAreNested
<1>5. /\ stack \in Seq(LinkState) /\ ran \in Seq(Link)
      /\ trace \in [ran : Seq(Link), originals : Nat, stoppedBy : SUBSET Link,
                    failed : SUBSET Link, escaped : BOOLEAN]
  BY DEF IInv, ChainTypeOK
<1> HIDE DEF frame, l
<1>6. /\ stack' \in Seq(LinkState) /\ Len(stack') = Len(stack) + 1 /\ stack'[1] = frame
      /\ \A i \in 1 .. Len(stack) : stack'[i + 1] = stack[i]
  BY <1>1, <1>3, <1>5, PushElements
<1>7. /\ Len(stack) \in Nat /\ DOMAIN stack = 1 .. Len(stack)
      /\ DOMAIN stack' = 1 .. Len(stack) + 1 /\ stack' # <<>>
  BY <1>5, <1>6
<1> HIDE DEF ran
<1>9. /\ Append(ran, l) \in Seq(Link) /\ Append(ran, l) # <<>>
      /\ Len(ran) \in Nat /\ Len(Append(ran, l)) = Len(ran) + 1
      /\ DOMAIN ran = 1 .. Len(ran) /\ DOMAIN Append(ran, l) = 1 .. Len(ran) + 1
      /\ \A i \in 1 .. Len(ran) : Append(ran, l)[i] = ran[i]
      /\ Append(ran, l)[Len(ran) + 1] = l
  BY <1>2, <1>5, AppendPlaces
<1>10. /\ trace'.ran = Append(ran, l) /\ trace'.originals = trace.originals
       /\ trace'.stoppedBy = trace.stoppedBy /\ trace'.failed = trace.failed
       /\ trace'.escaped = trace.escaped
  BY <1>1, <1>5 DEF ran
<1>8. trace' \in [ran : Seq(Link), originals : Nat, stoppedBy : SUBSET Link,
                  failed : SUBSET Link, escaped : BOOLEAN]
  BY <1>1, <1>5, <1>9 DEF ran
<1>11. ToSet(Append(ran, l)) = ToSet(ran) \cup {l}
  BY <1>2, <1>5, AppendPlaces
<1>12. ChainTypeOK'
  BY <1>1, <1>2, <1>6, <1>8, ControlTypes DEF ChainTypeOK
<1>13. FramesAreNested'
  <2>1. ASSUME NEW k \in DOMAIN stack'
        PROVE  stack'[k].pos \in DOMAIN nodes' /\ (k > 1 => stack'[k].nextCalled)
    <3>1. CASE k = 1
      BY <1>1, <1>2, <1>3, <1>6, <3>1
    <3>2. CASE k # 1
      <4>1. k - 1 \in 1 .. Len(stack) /\ (k - 1) + 1 = k /\ (k - 1 = 1 \/ k - 1 > 1) /\ k - 1 \in Nat
        BY <1>7, <3>2
      <4>2. stack'[k] = stack[k - 1]
        BY <1>6, <4>1
      <4>3. stack[k - 1].pos \in DOMAIN nodes /\ (k - 1 > 1 => stack[k - 1].nextCalled)
        BY <1>7, <4>1 DEF IInv, FramesAreNested
      <4>4. k - 1 = 1 => stack[k - 1].nextCalled
        BY <1>4, <1>7, <4>1
      <4> QED
        BY <1>1, <4>1, <4>2, <4>3, <4>4
    <3> QED
      BY <3>1, <3>2
  <2> QED
    BY <1>1, <1>7, <2>1, ControlTypes DEF FramesAreNested
<1>14. RunsOnceInOrder'
  <2>1. ASSUME NEW i \in DOMAIN trace'.ran, NEW j \in DOMAIN trace'.ran, i < j
        PROVE  \E m, n \in DOMAIN nodes : m < n /\ nodes[m] = trace'.ran[i] /\ nodes[n] = trace'.ran[j]
    <3>1. i \in 1 .. Len(ran) /\ (j \in 1 .. Len(ran) \/ j = Len(ran) + 1)
      BY <1>10, <1>9, <2>1
    <3>2. CASE j \in 1 .. Len(ran)
      <4>1. control # Idle
        BY <1>1, ControlTypes
      <4> QED
        BY <1>10, <1>9, <2>1, <3>1, <3>2, <4>1 DEF IInv, RunsOnceInOrder, ran
    <3>3. CASE j = Len(ran) + 1
      <4>1. ran[i] \in HandlersBelow(p)
        BY <1>4, <1>9, <3>1 DEF GoingOn, ToSet, ran
      <4>2. PICK m \in DOMAIN nodes : m < p /\ nodes[m] = ran[i]
        BY <4>1 DEF HandlersBelow
      <4> QED
        BY <1>2, <1>10, <1>9, <3>1, <3>3, <4>2 DEF l
    <3> QED
      BY <3>1, <3>2, <3>3
  <2>2. trace'.originals <= 1
    BY <1>10 DEF IInv, RunsOnceInOrder
  <2>3. nodes' = nodes
    BY <1>1
  <2> QED
    <3>1. \A i, j \in DOMAIN trace'.ran : i < j =>
            \E m, n \in DOMAIN nodes' :
              m < n /\ nodes'[m] = trace'.ran[i] /\ nodes'[n] = trace'.ran[j]
      BY <2>1, <2>3
    <3> QED
      BY <2>2, <3>1 DEF RunsOnceInOrder
<1>15. GoingOn(p + 1)'
  <2>1. HandlersBelow(p + 1)' = HandlersBelow(p) \cup {l}
    <3>1. HandlersBelow(p + 1)' = HandlersBelow(p + 1)
      BY <1>1 DEF HandlersBelow
    <3> QED
      BY <1>1, <1>2, <3>1, HandlersUpTo DEF l
  <2>2. ToSet(trace'.ran) = HandlersBelow(p + 1)'
    BY <1>4, <1>10, <1>11, <2>1 DEF GoingOn, ran
  <2>3. FailedOrOnTheStack'
    <3>1. l \in {nodes[stack'[k].pos] : k \in DOMAIN stack'}
      <4>1. 1 \in DOMAIN stack'
        BY <1>7
      <4> QED
        BY <1>3, <1>6, <4>1 DEF l
    <3>2. ASSUME NEW k \in DOMAIN stack
          PROVE  nodes[stack[k].pos] \in {nodes[stack'[m].pos] : m \in DOMAIN stack'}
      <4>1. k + 1 \in DOMAIN stack' /\ stack'[k + 1] = stack[k]
        BY <1>6, <1>7
      <4> QED
        BY <4>1
    <3>3. ToSet(ran) \subseteq trace.failed \cup {nodes[stack[k].pos] : k \in DOMAIN stack}
      BY <1>4 DEF GoingOn, FailedOrOnTheStack, ran
    <3>4. ToSet(trace'.ran) \subseteq
            trace'.failed \cup {nodes[stack'[k].pos] : k \in DOMAIN stack'}
      BY <1>10, <1>11, <3>1, <3>2, <3>3
    <3> QED
      BY <1>1, <3>4 DEF FailedOrOnTheStack
  <2> QED
    BY <1>4, <1>10, <2>2, <2>3 DEF GoingOn
<1>16. DispatchIsInAPhase'
  <2>1. control'.at = "handler" /\ stack'[1].pos = p /\ ~stack'[1].nextCalled
    BY <1>1, <1>3, <1>6, ControlTypes
  <2>2. trace'.ran # <<>> /\ Last(trace'.ran) = nodes'[p]
    BY <1>1, <1>10, <1>9 DEF Last, l
  <2> QED
    BY <1>15, <2>1, <2>2 DEF DispatchIsInAPhase
<1>17. Sorted'
  BY <1>1, VectorStays
<1> QED
  BY <1>12, <1>13, <1>14, <1>16, <1>17 DEF IInv

LEMMA OriginalStep ==
  ASSUME IInv, RunOriginal
  PROVE  IInv' /\ WindingDown'
<1>0. PICK p : p = control.pos
  OBVIOUS
<1>1. /\ nodes' = nodes /\ stack' = stack /\ control.at = "invoke" /\ p > Len(nodes)
      /\ trace' = [trace EXCEPT !.originals = @ + 1]
      /\ control' \in {BackTo(stack), [at |-> "raised"]}
  BY <1>0 DEF RunOriginal
<1>2. nodes \in Seq(Link) /\ Len(nodes) \in Nat /\ p = Len(nodes) + 1
  BY <1>0, <1>1, ControlValues, VectorIsShort DEF IInv, ChainTypeOK, DispatchIsInAPhase
<1>3. GoingOn(p) /\ (stack # <<>> => stack[1].nextCalled)
  BY <1>0, <1>1 DEF IInv, DispatchIsInAPhase, FramesAreNested
<1>4. /\ control' \in Control /\ control'.at \in {"idle", "handler", "raised"}
      /\ control'.at = "idle" => stack = <<>>
      /\ control'.at = "handler" => stack # <<>>
  BY <1>1, BackToWhoCalled, ControlTypes
<1>5. trace \in [ran : Seq(Link), originals : Nat, stoppedBy : SUBSET Link,
                 failed : SUBSET Link, escaped : BOOLEAN]
  BY DEF IInv, ChainTypeOK
<1>6. /\ trace'.ran = trace.ran /\ trace'.originals = trace.originals + 1
      /\ trace'.stoppedBy = trace.stoppedBy /\ trace'.failed = trace.failed
      /\ trace'.escaped = trace.escaped
      /\ trace' \in [ran : Seq(Link), originals : Nat, stoppedBy : SUBSET Link,
                     failed : SUBSET Link, escaped : BOOLEAN]
  BY <1>1, <1>5
<1>7. ChainTypeOK'
  BY <1>1, <1>4, <1>6 DEF ChainTypeOK, IInv, Control, LinkState
<1>8. FramesAreNested'
  BY <1>1, <1>3, <1>4 DEF IInv, FramesAreNested
<1>9. trace'.originals = 1
  BY <1>3, <1>6 DEF GoingOn
<1>10. Sorted' /\ RunsOnceInOrder'
  BY <1>1, <1>6, <1>9, VectorStays
<1>11. WindingDown'
  BY <1>1, <1>2, <1>3, <1>6, <1>9 DEF WindingDown, GoingOn, HandlersBelow
<1>12. FailedOrOnTheStack'
  BY <1>1, <1>3, <1>6 DEF GoingOn, FailedOrOnTheStack
<1>13. DispatchIsInAPhase'
  BY <1>1, <1>3, <1>4, <1>9, <1>11, <1>12 DEF DispatchIsInAPhase
<1> QED
  BY <1>7, <1>8, <1>10, <1>11, <1>13 DEF IInv

LEMMA CallNextStep ==
  ASSUME IInv, CallNext
  PROVE  IInv'
<1>0. PICK p : p = stack[1].pos
  OBVIOUS
<1>1. /\ nodes' = nodes /\ trace' = trace /\ control.at = "handler" /\ ~stack[1].nextCalled
      /\ stack' = [stack EXCEPT ![1].nextCalled = TRUE]
      /\ control' = Invoke(p + 1)
  BY <1>0, ControlTypes DEF CallNext
<1>2. stack \in Seq(LinkState) /\ stack # <<>> /\ nodes \in Seq(Link)
  BY <1>1 DEF IInv, ChainTypeOK, FramesAreNested
<1>3. Len(stack) \in Nat /\ DOMAIN stack = 1 .. Len(stack) /\ 1 \in DOMAIN stack
  BY <1>2
<1>4. /\ stack' \in Seq(LinkState) /\ DOMAIN stack' = DOMAIN stack /\ stack' # <<>>
      /\ stack'[1].nextCalled
      /\ \A k \in DOMAIN stack :
           stack'[k].pos = stack[k].pos /\ (k # 1 => stack'[k] = stack[k])
  <2>1. \A k \in DOMAIN stack : stack[k] \in LinkState
    BY <1>2
  <2>2. \A k \in DOMAIN stack : stack'[k] = IF k = 1 THEN [stack[1] EXCEPT !.nextCalled = TRUE]
                                            ELSE stack[k]
    BY <1>1, <1>3
  <2>3. \A f \in LinkState : /\ [f EXCEPT !.nextCalled = TRUE] \in LinkState
                             /\ [f EXCEPT !.nextCalled = TRUE].pos = f.pos
                             /\ [f EXCEPT !.nextCalled = TRUE].nextCalled
    BY DEF LinkState
  <2>4. \A k \in DOMAIN stack : stack'[k] \in LinkState
    BY <1>3, <2>1, <2>2, <2>3
  <2>5. stack' = [k \in 1 .. Len(stack) |-> stack'[k]]
    BY <1>1, <1>2, <1>3
  <2>6. stack' \in [1 .. Len(stack) -> LinkState]
    BY <1>3, <2>4, <2>5
  <2>7. stack' \in Seq(LinkState) /\ DOMAIN stack' = DOMAIN stack /\ stack' # <<>>
    BY <1>3, <2>6
  <2>8. stack'[1].nextCalled
    BY <1>3, <2>1, <2>2, <2>3
  <2>9. \A k \in DOMAIN stack :
           stack'[k].pos = stack[k].pos /\ (k # 1 => stack'[k] = stack[k])
    BY <1>3, <2>1, <2>2, <2>3
  <2> QED
    BY <2>7, <2>8, <2>9
<1>5. /\ p \in DOMAIN nodes /\ p \in Nat /\ Len(nodes) \in Nat
      /\ p + 1 \in 1 .. Cardinality(Link) + 1 /\ p + 1 <= Len(nodes) + 1
  <2>1. p \in DOMAIN nodes
    BY <1>0, <1>3 DEF IInv, FramesAreNested
  <2> QED
    BY <1>2, <2>1, VectorIsShort DEF IInv
<1>6. control' \in Control /\ control'.at = "invoke" /\ control'.pos = p + 1
  BY <1>1, <1>5, ControlTypes
<1>7. GoingOn(p + 1)
  BY <1>0, <1>1 DEF IInv, DispatchIsInAPhase
<1>8. ChainTypeOK'
  BY <1>1, <1>4, <1>6 DEF ChainTypeOK, IInv, Control, LinkState
<1>9. FramesAreNested'
  <2>1. ASSUME NEW k \in DOMAIN stack'
        PROVE  stack'[k].pos \in DOMAIN nodes' /\ (k > 1 => stack'[k].nextCalled)
    <3>1. stack[k].pos \in DOMAIN nodes /\ (k > 1 => stack[k].nextCalled) /\ k \in Nat
      BY <1>3, <1>4 DEF IInv, FramesAreNested
    <3>2. stack'[k].pos = stack[k].pos /\ (k # 1 => stack'[k] = stack[k])
      BY <1>4
    <3> QED
      BY <1>1, <1>4, <3>1, <3>2
  <2> QED
    BY <1>4, <1>6, <2>1 DEF FramesAreNested
<1>10. Sorted' /\ RunsOnceInOrder'
  <2>1. trace.originals <= 1
    BY DEF IInv, RunsOnceInOrder
  <2> QED
    BY <1>1, <2>1, VectorStays
<1>11. GoingOn(p + 1)'
  <2>1. {nodes'[stack'[k].pos] : k \in DOMAIN stack'} = {nodes[stack[k].pos] : k \in DOMAIN stack}
    BY <1>1, <1>4
  <2>2. FailedOrOnTheStack'
    BY <1>1, <1>7, <2>1 DEF GoingOn, FailedOrOnTheStack
  <2> QED
    BY <1>1, <1>7, <2>2 DEF GoingOn, HandlersBelow
<1>12. DispatchIsInAPhase'
  BY <1>1, <1>5, <1>6, <1>11 DEF DispatchIsInAPhase
<1> QED
  BY <1>8, <1>9, <1>10, <1>12 DEF IInv

LEMMA ReturnStep ==
  ASSUME IInv, HandlerReturns
  PROVE  IInv' /\ WindingDown'
<1>1. /\ nodes' = nodes /\ control.at = "handler" /\ stack' = Tail(stack)
      /\ control' = BackTo(stack')
      /\ trace' = IF stack[1].nextCalled THEN trace
                  ELSE [trace EXCEPT !.stoppedBy = @ \cup {Running}]
  BY ControlTypes DEF HandlerReturns
<1>2. stack # <<>> /\ nodes \in Seq(Link)
  BY <1>1 DEF IInv, ChainTypeOK, FramesAreNested
<1>3. /\ stack[1] \in LinkState /\ stack[1].pos \in DOMAIN nodes
      /\ stack' \in Seq(LinkState)
      /\ \A k \in DOMAIN stack' : stack'[k].pos \in DOMAIN nodes' /\ stack'[k].nextCalled
  BY <1>1, <1>2, PoppedFrames
<1>4. Running \in Link
  BY <1>2, <1>3 DEF Running
<1>5. trace \in [ran : Seq(Link), originals : Nat, stoppedBy : SUBSET Link,
                 failed : SUBSET Link, escaped : BOOLEAN]
  BY DEF IInv, ChainTypeOK
<1>6. /\ trace'.ran = trace.ran /\ trace'.originals = trace.originals
      /\ trace'.failed = trace.failed /\ trace'.escaped = trace.escaped
      /\ trace'.stoppedBy = IF stack[1].nextCalled THEN trace.stoppedBy
                            ELSE trace.stoppedBy \cup {Running}
      /\ trace' \in [ran : Seq(Link), originals : Nat, stoppedBy : SUBSET Link,
                     failed : SUBSET Link, escaped : BOOLEAN]
  BY <1>1, <1>4, <1>5
<1>7. /\ control' \in Control /\ control'.at \in {"idle", "handler"}
      /\ control'.at = "idle" <=> stack' = <<>>
  BY <1>1, BackToWhoCalled
<1>8. ChainTypeOK'
  BY <1>1, <1>2, <1>3, <1>6, <1>7 DEF ChainTypeOK
<1>9. FramesAreNested'
  BY <1>3, <1>7 DEF FramesAreNested
<1>10. Sorted' /\ RunsOnceInOrder'
  <2>1. trace.originals <= 1
    BY DEF IInv, RunsOnceInOrder
  <2> QED
    BY <1>1, <1>6, <2>1, VectorStays
<1>11. WindingDown'
  <2>1. CASE stack[1].nextCalled
    <3>1. WindingDown
      BY <1>1, <2>1 DEF IInv, DispatchIsInAPhase
    <3> QED
      BY <1>1, <1>6, <2>1, <3>1 DEF WindingDown, HandlersBelow
  <2>2. CASE ~stack[1].nextCalled
    <3>1. /\ trace.originals = 0 /\ trace.stoppedBy = {} /\ ~trace.escaped
          /\ trace.ran # <<>> /\ Last(trace.ran) = Running
      BY <1>1, <2>2 DEF IInv, DispatchIsInAPhase, GoingOn, Running
    <3> QED
      BY <1>6, <2>2, <3>1 DEF WindingDown
  <2> QED
    BY <2>1, <2>2
<1>12. DispatchIsInAPhase'
  <2>1. control'.at = "handler" => stack'[1].nextCalled
    <3>1. stack' # <<>> => 1 \in DOMAIN stack'
      BY <1>3
    <3> QED
      BY <1>3, <1>7, <3>1
  <2> QED
    BY <1>7, <1>11, <2>1 DEF DispatchIsInAPhase
<1> QED
  BY <1>8, <1>9, <1>10, <1>11, <1>12 DEF IInv

(* A handler that failed before it called the next one is passed over: the *)
(* dispatch goes on behind it.                                             *)
LEMMA CatchStep ==
  ASSUME IInv, HandlerThrows \/ OriginalCaught
  PROVE  IInv' /\ (control'.at = "idle" => WindingDown')
<1>0. PICK p : p = stack[1].pos
  OBVIOUS
<1>1. /\ nodes' = nodes /\ control.at \in {"handler", "raised"} /\ stack' = Tail(stack)
      /\ control' = IF stack[1].nextCalled THEN BackTo(stack') ELSE Invoke(p + 1)
      /\ trace' = [trace EXCEPT !.failed = @ \cup {Running}]
      /\ control.at = "raised" => stack # <<>>
  BY <1>0, ControlTypes DEF HandlerThrows, OriginalCaught, Catch, AfterThrow
<1>2. stack # <<>> /\ nodes \in Seq(Link) /\ (control.at = "raised" => stack[1].nextCalled)
  BY <1>1 DEF IInv, ChainTypeOK, FramesAreNested
<1>3. /\ stack[1] \in LinkState /\ p \in DOMAIN nodes
      /\ stack' \in Seq(LinkState)
      /\ \A k \in DOMAIN stack' : stack'[k].pos \in DOMAIN nodes' /\ stack'[k].nextCalled
      /\ {nodes[stack[k].pos] : k \in DOMAIN stack}
           \subseteq {nodes'[stack'[k].pos] : k \in DOMAIN stack'} \cup {Running}
  BY <1>0, <1>1, <1>2, PoppedFrames
<1>4. Running \in Link
  BY <1>0, <1>2, <1>3 DEF Running
<1>5. trace \in [ran : Seq(Link), originals : Nat, stoppedBy : SUBSET Link,
                 failed : SUBSET Link, escaped : BOOLEAN]
  BY DEF IInv, ChainTypeOK
<1>6. /\ trace'.ran = trace.ran /\ trace'.originals = trace.originals
      /\ trace'.stoppedBy = trace.stoppedBy /\ trace'.escaped = trace.escaped
      /\ trace'.failed = trace.failed \cup {Running}
      /\ trace' \in [ran : Seq(Link), originals : Nat, stoppedBy : SUBSET Link,
                     failed : SUBSET Link, escaped : BOOLEAN]
  BY <1>1, <1>4, <1>5
<1>7. stack' # <<>> => stack'[1].nextCalled
  <2>1. stack' # <<>> => 1 \in DOMAIN stack'
    BY <1>3
  <2> QED
    BY <1>3, <2>1
<1>8. Sorted' /\ RunsOnceInOrder'
  <2>1. trace.originals <= 1 /\ control.at # "idle"
    BY <1>1 DEF IInv, RunsOnceInOrder
  <2> QED
    BY <1>1, <1>6, <2>1, VectorStays
<1>9. CASE stack[1].nextCalled
  <2>1. /\ control' \in Control /\ control'.at \in {"idle", "handler"}
        /\ control'.at = "idle" <=> stack' = <<>>
    BY <1>1, <1>9, BackToWhoCalled
  <2>2. WindingDown
    BY <1>1, <1>9 DEF IInv, DispatchIsInAPhase
  <2>3. WindingDown'
    BY <1>1, <1>6, <2>2 DEF WindingDown, HandlersBelow
  <2>4. ChainTypeOK'
    BY <1>1, <1>2, <1>3, <1>6, <2>1 DEF ChainTypeOK
  <2>5. FramesAreNested'
    BY <1>3, <2>1 DEF FramesAreNested
  <2>6. DispatchIsInAPhase'
    BY <1>7, <2>1, <2>3 DEF DispatchIsInAPhase
  <2> QED
    BY <1>8, <2>3, <2>4, <2>5, <2>6 DEF IInv
<1>10. CASE ~stack[1].nextCalled
  <2>1. /\ p \in Nat /\ Len(nodes) \in Nat
        /\ p + 1 \in 1 .. Cardinality(Link) + 1 /\ p + 1 <= Len(nodes) + 1
    BY <1>2, <1>3, VectorIsShort DEF IInv
  <2>2. control' \in Control /\ control'.at = "invoke" /\ control'.pos = p + 1
    BY <1>1, <1>10, <2>1, ControlTypes
  <2>3. GoingOn(p + 1)
    BY <1>0, <1>1, <1>2, <1>10 DEF IInv, DispatchIsInAPhase
  <2>4. GoingOn(p + 1)'
    <3>1. ToSet(trace.ran) \subseteq trace.failed \cup {nodes[stack[k].pos] : k \in DOMAIN stack}
      BY <2>3 DEF GoingOn, FailedOrOnTheStack
    <3>2. FailedOrOnTheStack'
      BY <1>3, <1>6, <3>1 DEF FailedOrOnTheStack
    <3> QED
      BY <1>1, <1>6, <2>3, <3>2 DEF GoingOn, HandlersBelow
  <2>5. ChainTypeOK'
    BY <1>1, <1>2, <1>3, <1>6, <2>2 DEF ChainTypeOK
  <2>6. FramesAreNested'
    BY <1>3, <1>7, <2>2 DEF FramesAreNested
  <2>7. DispatchIsInAPhase'
    BY <1>1, <2>1, <2>2, <2>4 DEF DispatchIsInAPhase
  <2> QED
    BY <1>8, <2>2, <2>5, <2>6, <2>7 DEF IInv
<1> QED
  BY <1>9, <1>10

LEMMA RecoverStep ==
  ASSUME IInv, HandlerRecovers
  PROVE  IInv'
<1>1. /\ nodes' = nodes /\ stack' = stack /\ trace' = trace /\ stack # <<>>
      /\ control.at = "raised" /\ control' \in Control /\ control'.at = "handler"
  BY ControlTypes DEF HandlerRecovers
<1>2. stack[1].nextCalled /\ WindingDown
  BY <1>1 DEF IInv, FramesAreNested, DispatchIsInAPhase
<1>3. ChainTypeOK'
  BY <1>1 DEF ChainTypeOK, IInv, LinkState
<1>4. FramesAreNested'
  BY <1>1 DEF IInv, FramesAreNested
<1>5. Sorted' /\ RunsOnceInOrder'
  <2>1. trace.originals <= 1
    BY DEF IInv, RunsOnceInOrder
  <2> QED
    BY <1>1, <2>1, VectorStays
<1>6. DispatchIsInAPhase'
  BY <1>1, <1>2 DEF DispatchIsInAPhase, WindingDown, HandlersBelow
<1> QED
  BY <1>3, <1>4, <1>5, <1>6 DEF IInv

LEMMA EscapeStep ==
  ASSUME IInv, OriginalEscapes
  PROVE  IInv'
<1>1. /\ nodes' = nodes /\ stack' = stack /\ stack = <<>> /\ control.at = "raised"
      /\ control' \in Control /\ control'.at = "idle"
      /\ trace' = [trace EXCEPT !.escaped = TRUE]
  BY ControlTypes DEF OriginalEscapes
<1>2. trace \in [ran : Seq(Link), originals : Nat, stoppedBy : SUBSET Link,
                 failed : SUBSET Link, escaped : BOOLEAN]
  BY DEF IInv, ChainTypeOK
<1>3. ChainTypeOK'
  BY <1>1, <1>2 DEF ChainTypeOK, IInv, LinkState
<1>4. FramesAreNested'
  BY <1>1 DEF IInv, FramesAreNested
<1>5. Sorted' /\ RunsOnceInOrder'
  <2>1. trace'.ran = trace.ran /\ trace'.originals = trace.originals /\ trace.originals <= 1
    BY <1>1, <1>2 DEF IInv, RunsOnceInOrder
  <2> QED
    BY <1>1, <2>1, VectorStays
<1>6. DispatchIsInAPhase'
  BY <1>1 DEF DispatchIsInAPhase
<1> QED
  BY <1>3, <1>4, <1>5, <1>6 DEF IInv

LEMMA VectorStep ==
  ASSUME IInv, (\E l \in Link : Add(l)) \/ (\E owner \in Mod : RemoveOwnersNodes(owner))
  PROVE  IInv' /\ OrderIsStable
<1>1. nodes \in Seq(Link) /\ Sorted
  BY DEF IInv, ChainTypeOK
<1>2. /\ control = Idle /\ control' = control /\ stack' = stack /\ trace' = trace
      /\ control.at = "idle"
  BY ControlTypes DEF Add, RemoveOwnersNodes
<1>3. nodes' \in Seq(Link) /\ Sorted' /\ OrderIsStable
  BY <1>1, AddKeepsTheOrder, RemoveKeepsTheOrder
<1>4. ChainTypeOK'
  BY <1>2, <1>3 DEF ChainTypeOK, IInv, Control, LinkState
<1>5. FramesAreNested'
  BY <1>2 DEF IInv, FramesAreNested
<1>6. RunsOnceInOrder'
  BY <1>2 DEF IInv, RunsOnceInOrder
<1>7. DispatchIsInAPhase'
  BY <1>2 DEF DispatchIsInAPhase
<1> QED
  BY <1>3, <1>4, <1>5, <1>6, <1>7 DEF IInv

LEMMA IInvInit == Init => IInv
<1> SUFFICES ASSUME Init PROVE IInv
  OBVIOUS
<1>1. nodes = <<>> /\ stack = <<>> /\ control.at = "idle" /\ control = Idle /\ trace = NoTrace
  BY ControlTypes DEF Init
<1>2. ChainTypeOK
  BY <1>1, ControlTypes DEF ChainTypeOK, NoTrace
<1>3. Sorted /\ FramesAreNested /\ RunsOnceInOrder /\ DispatchIsInAPhase
  BY <1>1 DEF Sorted, FramesAreNested, RunsOnceInOrder, DispatchIsInAPhase, NoTrace
<1> QED
  BY <1>2, <1>3 DEF IInv

DispatchStep ==
  \/ BeginDispatch \/ SkipNode \/ EnterHandler \/ RunOriginal
  \/ CallNext \/ HandlerReturns \/ HandlerThrows
  \/ HandlerRecovers \/ OriginalCaught \/ OriginalEscapes

LEMMA IInvStep == IInv /\ [Next]_vars => IInv'
<1> SUFFICES ASSUME IInv, [Next]_vars PROVE IInv'
  OBVIOUS
<1>1. CASE UNCHANGED vars
  BY <1>1 DEF vars, IInv, ChainTypeOK, Control, LinkState, Sorted, NodePrecedes, FramesAreNested,
              RunsOnceInOrder, DispatchIsInAPhase, GoingOn, WindingDown, HandlersBelow,
              FailedOrOnTheStack
<1>2. CASE DispatchStep
  BY <1>2, BeginStep, SkipStep, EnterStep, OriginalStep, CallNextStep, ReturnStep, CatchStep,
     RecoverStep, EscapeStep DEF DispatchStep
<1>3. CASE (\E l \in Link : Add(l)) \/ (\E owner \in Mod : RemoveOwnersNodes(owner))
  BY <1>3, VectorStep
<1> QED
  BY <1>1, <1>2, <1>3 DEF Next, DispatchStep

LEMMA IInvIsInvariant == Spec => []IInv
BY IInvInit, IInvStep, PTL DEF Spec
-----------------------------------------------------------------------------
(* The vector stays sorted, so it is its set read in the order of the      *)
(* chain, and what is kept of it has the types of the code.                *)
THEOREM VectorStaysAChain == Spec => []VectorIsAChain
<1>1. IInv => VectorIsAChain
  BY SortedIsOrdered DEF IInv, ChainTypeOK, VectorIsAChain
<1> QED
  BY <1>1, IInvIsInvariant, PTL

(* However handlers nest, throw or call callNext twice, a dispatch runs    *)
(* each handler at most once, in the order of the chain, and the original  *)
(* at most once.                                                           *)
THEOREM HandlersRunOnce == Spec => []RunsOnceInOrder
<1>1. IInv => RunsOnceInOrder
  BY DEF IInv
<1> QED
  BY <1>1, IInvIsInvariant, PTL

(* A dispatch that has wound down was stopped by one handler, or ran all.  *)
LEMMA EndingIsWhole ==
  ASSUME nodes' \in Seq(Link), nodes' = nodes, WindingDown'
  PROVE  StopsOrReachesOriginal
<1>1. HandlersBelow(Len(nodes) + 1)' = ToSet(nodes) \cap Handled
  BY HandlersOfAll DEF HandlersBelow
<1>2. ~trace'.escaped
  BY DEF WindingDown
<1>3. CASE /\ trace'.originals = 1 /\ trace'.stoppedBy = {}
           /\ ToSet(trace'.ran) = HandlersBelow(Len(nodes) + 1)'
  BY <1>1, <1>2, <1>3, FS_EmptySet DEF StopsOrReachesOriginal
<1>4. CASE trace'.originals = 0 /\ trace'.stoppedBy = {Last(trace'.ran)}
  <2>1. Cardinality(trace'.stoppedBy) = 1
    BY <1>4, FS_Singleton
  <2> QED
    BY <1>2, <1>4, <2>1 DEF StopsOrReachesOriginal
<1> QED
  BY <1>3, <1>4 DEF WindingDown, HandlersBelow

LEMMA EndsWhole ==
  ASSUME IInv, [Next]_vars
  PROVE  StopsOrReachesOriginal
<1> SUFFICES ASSUME control # Idle, control' = Idle PROVE StopsOrReachesOriginal
  BY DEF StopsOrReachesOriginal
<1>0. control'.at = "idle" /\ nodes \in Seq(Link)
  BY ControlTypes DEF IInv, ChainTypeOK
<1>1. CASE RunOriginal \/ HandlerReturns
  BY <1>0, <1>1, OriginalStep, ReturnStep, EndingIsWhole DEF RunOriginal, HandlerReturns
<1>2. CASE HandlerThrows \/ OriginalCaught
  BY <1>0, <1>2, CatchStep, EndingIsWhole DEF HandlerThrows, OriginalCaught, Catch
<1>3. CASE OriginalEscapes
  <2>1. /\ stack = <<>> /\ nodes' = nodes /\ control.at = "raised"
        /\ trace' = [trace EXCEPT !.escaped = TRUE]
    BY <1>3 DEF OriginalEscapes
  <2>2. trace \in [ran : Seq(Link), originals : Nat, stoppedBy : SUBSET Link,
                   failed : SUBSET Link, escaped : BOOLEAN]
    BY DEF IInv, ChainTypeOK
  <2>3. /\ trace'.ran = trace.ran /\ trace'.originals = trace.originals
        /\ trace'.stoppedBy = trace.stoppedBy /\ trace'.failed = trace.failed
    BY <2>1, <2>2
  <2>4. /\ trace.originals = 1 /\ trace.stoppedBy = {}
        /\ ToSet(trace.ran) = HandlersBelow(Len(nodes) + 1)
        /\ ToSet(trace.ran) \subseteq trace.failed \cup {nodes[stack[k].pos] : k \in DOMAIN stack}
    BY <2>1 DEF IInv, DispatchIsInAPhase, WindingDown, FailedOrOnTheStack
  <2>5. ToSet(trace.ran) = ToSet(nodes) \cap Handled /\ ToSet(trace.ran) \subseteq trace.failed
    BY <1>0, <2>1, <2>4, HandlersOfAll
  <2> QED
    BY <2>3, <2>4, <2>5, FS_EmptySet DEF StopsOrReachesOriginal
<1>4. CASE \/ BeginDispatch \/ SkipNode \/ EnterHandler \/ CallNext \/ HandlerRecovers
           \/ UNCHANGED vars \/ (\E l \in Link : Add(l))
           \/ (\E owner \in Mod : RemoveOwnersNodes(owner))
  <2>1. Idle.at # "invoke" /\ Idle.at # "handler" /\ \A p : Invoke(p).at = "invoke"
    BY ControlTypes DEF Invoke
  <2> QED
    BY <1>4, <2>1, ControlTypes
    DEF BeginDispatch, SkipNode, EnterHandler, CallNext, HandlerRecovers, vars, Add,
        RemoveOwnersNodes
<1> QED
  BY <1>1, <1>2, <1>3, <1>4 DEF Next

LEMMA OrderStays ==
  ASSUME IInv, [Next]_vars
  PROVE  OrderIsStable
<1>1. CASE nodes' = nodes
  <2>1. \A m, n \in DOMAIN nodes : nodes[m] = nodes[n] => m = n
    <3>1. \A m, n \in DOMAIN nodes : m < n \/ n < m \/ m = n
      BY DEF IInv, ChainTypeOK
    <3> QED
      BY <3>1 DEF IInv, Sorted
  <2>2. \A i, j \in DOMAIN nodes : i < j => ~NodePrecedes(nodes[j], nodes[i])
    BY DEF IInv, Sorted
  <2>3. \A i \in DOMAIN nodes : nodes[i] \in ToSet(nodes)
    BY DEF ToSet
  <2> QED
    BY <1>1, <2>1, <2>2, <2>3 DEF OrderIsStable
<1>2. CASE (\E l \in Link : Add(l)) \/ (\E owner \in Mod : RemoveOwnersNodes(owner))
  BY <1>2, VectorStep
<1> QED
  BY <1>1, <1>2
  DEF Next, vars, BeginDispatch, SkipNode, EnterHandler, RunOriginal, CallNext, HandlerReturns,
      HandlerThrows, HandlerRecovers, OriginalCaught, OriginalEscapes, Catch

(* Insertions are stable and removals keep the order of what stays; and a  *)
(* dispatch ends stopped by exactly one handler, or after all of them and  *)
(* the original, whatever they throw.                                      *)
THEOREM StepsAreStable == Spec => StepsKeepTheChain
<1>1. IInv /\ [Next]_vars => [OrderIsStable /\ StopsOrReachesOriginal]_vars
  BY EndsWhole, OrderStays
<1> QED
  BY <1>1, IInvIsInvariant, PTL DEF Spec, StepsKeepTheChain
=============================================================================
