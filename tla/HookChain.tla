------------------------------ MODULE HookChain ------------------------------
(***************************************************************************)
(* HookChain (loader/hooking/hook_chain): the ordered vector of the hooks  *)
(* on one function, and its dispatch, which runs the handlers one inside   *)
(* the other: a handler goes on to the next through callNext.              *)
(*                                                                         *)
(* A handler may call callNext any number of times, return without, or     *)
(* throw at any point; the original function may throw too.  The vector is *)
(* not changed while it is dispatched: it belongs to one thread.           *)
(***************************************************************************)
EXTENDS ChainOrder, FiniteSets, SequencesExt, SequenceFilter

CONSTANTS
  LoadOrder,   \* [Link -> loadOrder of the node]; two nodes may have the same
  Handled      \* nodes with a handler

ASSUME HookChainAssumption ==
  /\ IsFiniteSet(Link)
  /\ LoadOrder \in [Link -> Nat]
  /\ Handled \subseteq Link

VARIABLES
  nodes,      \* nodes_
  stack,      \* the handlers under way, innermost first
  control,    \* where the dispatch is
  trace       \* what the dispatch did; reset when the next one begins

vars == <<nodes, stack, control, trace>>

LinkState == [pos : 1 .. Cardinality(Link), nextCalled : BOOLEAN]

(* invoke: invokeLink(pos) begins; handler: the code of the innermost      *)
(* handler runs; raised: an exception of the original passes through it.   *)
Control ==
  [at : {"idle", "handler", "raised"}]
    \cup [at : {"invoke"}, pos : 1 .. Cardinality(Link) + 1]

Idle == [at |-> "idle"]
InHandler == [at |-> "handler"]
Invoke(p) == [at |-> "invoke", pos |-> p]

NoTrace == [ran |-> <<>>, originals |-> 0, stoppedBy |-> {}, failed |-> {}, escaped |-> FALSE]

ChainTypeOK ==
  /\ nodes \in Seq(Link)
  /\ stack \in Seq(LinkState)
  /\ control \in Control
  /\ trace \in [ran : Seq(Link), originals : Nat, stoppedBy : SUBSET Link,
                failed : SUBSET Link, escaped : BOOLEAN]

Init ==
  /\ nodes = <<>>
  /\ stack = <<>>
  /\ control = Idle
  /\ trace = NoTrace

-----------------------------------------------------------------------------
(* The vector *)

(* Slip: the priorities are not clamped. *)
RawPrecedes(a, b) ==
  \/ Priority[a] > Priority[b]
  \/ Priority[a] = Priority[b] /\ LoadOrder[a] < LoadOrder[b]

NodePrecedes(a, b) ==
  LET pa == ClampHookPriority(Priority[a])
      pb == ClampHookPriority(Priority[b])
  IN  pa > pb \/ (pa = pb /\ LoadOrder[a] < LoadOrder[b])

(* Slip: lower_bound in place of upper_bound. *)
LowerBound(l) == Cardinality({i \in DOMAIN nodes : NodePrecedes(nodes[i], l)}) + 1

(* The place of the first node that l precedes. *)
UpperBound(l) == Cardinality({i \in DOMAIN nodes : ~NodePrecedes(l, nodes[i])}) + 1

Add(l) ==
  /\ control = Idle
  /\ ~Contains(nodes, l)
  /\ nodes' = InsertAt(nodes, UpperBound(l), l)
  /\ UNCHANGED <<stack, control, trace>>

RemoveOwnersNodes(owner) ==
  /\ control = Idle
  /\ nodes' = Kept(nodes, {l \in Link : OwnerOf[l] # owner})
  /\ UNCHANGED <<stack, control, trace>>

-----------------------------------------------------------------------------
(* dispatch *)

BeginDispatch ==
  /\ control = Idle
  /\ control' = Invoke(1)
  /\ trace' = NoTrace
  /\ UNCHANGED <<nodes, stack>>

(* invokeLink returns to the handler that called callNext, or to the game. *)
BackTo(frames) == IF frames = <<>> THEN Idle ELSE InHandler

(* A node without a handler is passed over. *)
SkipNode ==
  /\ control.at = "invoke"
  /\ control.pos <= Len(nodes)
  /\ nodes[control.pos] \notin Handled
  /\ control' = Invoke(control.pos + 1)
  /\ UNCHANGED <<nodes, stack, trace>>

EnterHandler ==
  /\ control.at = "invoke"
  /\ control.pos <= Len(nodes)
  /\ nodes[control.pos] \in Handled
  /\ stack' = <<[pos |-> control.pos, nextCalled |-> FALSE]>> \o stack
  /\ control' = InHandler
  /\ trace' = [trace EXCEPT !.ran = Append(@, nodes[control.pos])]
  /\ UNCHANGED nodes

(* Behind the last node the original runs, and returns or throws. *)
RunOriginal ==
  /\ control.at = "invoke"
  /\ control.pos > Len(nodes)
  /\ trace' = [trace EXCEPT !.originals = @ + 1]
  /\ control' \in {BackTo(stack), [at |-> "raised"]}
  /\ UNCHANGED <<nodes, stack>>

(* Slip: a second callNext is not ignored.  (Bounded so that   *)
(* a handler cannot call it for ever.)                                     *)
CallNextAgain ==
  /\ control = InHandler
  /\ Len(trace.ran) <= Cardinality(Link) /\ trace.originals <= 1
  /\ stack' = [stack EXCEPT ![1].nextCalled = TRUE]
  /\ control' = Invoke(stack[1].pos + 1)
  /\ UNCHANGED <<nodes, trace>>

CallNext ==
  /\ control = InHandler
  /\ ~stack[1].nextCalled
  /\ stack' = [stack EXCEPT ![1].nextCalled = TRUE]
  /\ control' = Invoke(stack[1].pos + 1)
  /\ UNCHANGED <<nodes, trace>>

Running == nodes[stack[1].pos]

(* One that has not called the next one stops the chain, which is logged.  *)
HandlerReturns ==
  /\ control = InHandler
  /\ stack' = Tail(stack)
  /\ control' = BackTo(Tail(stack))
  /\ trace' = IF stack[1].nextCalled THEN trace
              ELSE [trace EXCEPT !.stoppedBy = @ \cup {Running}]
  /\ UNCHANGED nodes

(* A handler that throws is logged; if it has not called the next one, the *)
(* chain goes on behind it.                                                *)
AfterThrow(frame, rest) ==
  IF frame.nextCalled THEN BackTo(rest) ELSE Invoke(frame.pos + 1)

Catch ==
  /\ stack' = Tail(stack)
  /\ control' = AfterThrow(stack[1], Tail(stack))
  /\ trace' = [trace EXCEPT !.failed = @ \cup {Running}]
  /\ UNCHANGED nodes

HandlerThrows == control = InHandler /\ Catch

(* What the original threw arrives in the handler that called callNext:    *)
(* the handler deals with it, or it is caught like one of the handler's.   *)
HandlerRecovers ==
  /\ control.at = "raised"
  /\ stack # <<>>
  /\ control' = InHandler
  /\ UNCHANGED <<nodes, stack, trace>>

OriginalCaught == control.at = "raised" /\ stack # <<>> /\ Catch

(* Without a handler around it, it reaches the game. *)
OriginalEscapes ==
  /\ control.at = "raised"
  /\ stack = <<>>
  /\ control' = Idle
  /\ trace' = [trace EXCEPT !.escaped = TRUE]
  /\ UNCHANGED <<nodes, stack>>

Next ==
  \/ \E l \in Link : Add(l)
  \/ \E owner \in Mod : RemoveOwnersNodes(owner)
  \/ BeginDispatch \/ SkipNode \/ EnterHandler \/ RunOriginal
  \/ CallNext \/ HandlerReturns \/ HandlerThrows
  \/ HandlerRecovers \/ OriginalCaught \/ OriginalEscapes

Spec == Init /\ [][Next]_vars
-----------------------------------------------------------------------------
(* Properties *)

(* A sequence of insertions and removals keeps the nodes in order (Req     *)
(* 3.2, 3.3), and where no two tie the vector is the set of its nodes read *)
(* in the order of ChainOrder: its first node is HeadOf, each node is      *)
(* followed by its SuccessorIn.  On this the registry's model rests.       *)
VectorIsTheOrderedSet ==
  (\A i \in DOMAIN nodes : LoadOrder[nodes[i]] = nodes[i]) =>
    LET c == ToSet(nodes)
    IN  /\ nodes # <<>> => nodes[1] = HeadOf(c)
        /\ \A i \in DOMAIN nodes :
             SuccessorIn(c, nodes[i]) =
               IF i = Len(nodes) THEN RealTrampoline ELSE nodes[i + 1]

(* A node is added behind those it ties with, and nothing that follows     *)
(* changes the order of two nodes that stay (hook_chain.hpp, at add).      *)
OrderIsStable ==
  \A i, j \in DOMAIN nodes' :
    i < j =>
      \/ NodePrecedes(nodes'[i], nodes'[j])
      \/ /\ ~NodePrecedes(nodes'[j], nodes'[i])
         /\ nodes'[i] \in ToSet(nodes)
         /\ \A m, n \in DOMAIN nodes :
              nodes[m] = nodes'[i] /\ nodes[n] = nodes'[j] => m < n

(* However handlers nest, throw or call callNext twice, a dispatch runs    *)
(* each handler at most once, in the order of the chain, and the original  *)
(* at most once (Req 3.1).                                                 *)
RunsOnceInOrder ==
  /\ trace.originals <= 1
  /\ control # Idle =>
       \A i, j \in DOMAIN trace.ran : i < j =>
         \E m, n \in DOMAIN nodes :
           m < n /\ nodes[m] = trace.ran[i] /\ nodes[n] = trace.ran[j]

(* When a dispatch is over, either exactly one handler stopped the chain,  *)
(* and that is logged, or the original ran, after all the handlers (Req    *)
(* 3.4, 3.5): no handler's exception leaves the rest out or reaches the    *)
(* game.                                                                   *)
StopsOrReachesOriginal ==
  control # Idle /\ control' = Idle =>
    /\ Cardinality(trace'.stoppedBy) + trace'.originals = 1
    /\ trace'.originals = 1 => ToSet(trace'.ran) = ToSet(nodes) \cap Handled
    /\ trace'.stoppedBy # {} => Last(trace'.ran) \in trace'.stoppedBy
    /\ trace'.escaped => \A l \in Handled \cap ToSet(nodes) : l \in trace'.failed

(* The vector is a chain. *)
VectorIsAChain == ChainTypeOK /\ VectorIsTheOrderedSet

(* What a step may do to the vector, and how a dispatch may end. *)
StepsKeepTheChain == [][OrderIsStable /\ StopsOrReachesOriginal]_vars
=============================================================================
