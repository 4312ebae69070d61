---------------------------- MODULE CanonicalDepth ----------------------------
(***************************************************************************)
(* exceeds_depth (src/ario_proof/canonicalize.py): the iterative guard     *)
(* that decides, before anything recursive runs, whether a parsed JSON     *)
(* value nests its containers deeper than max_depth.  Every kernel has to  *)
(* draw this line at the same place.                                       *)
(*                                                                         *)
(* A document is a tree of nodes: [root, containers, children, level,      *)
(* below], children[n] being the sequence of values in container n (the    *)
(* empty one for a scalar).  level and below are what the walk never sees: *)
(* the depth of a node and the set of nodes at or under it.                *)
(***************************************************************************)
EXTENDS Integers, Sequences

CONSTANTS
  Documents,    \* the values the guard is called with
  MaxDepths     \* the bounds it is called with (MAX_CANONICAL_DEPTH is 128)

VARIABLES
  doc, max_depth,   \* the arguments; never assigned
  stack,            \* sequence of <<node, depth>>; the last one is the top
  pc,               \* "walk" or "done"
  exceeds           \* the returned boolean

vars == <<doc, max_depth, stack, pc, exceeds>>

Nodes(d) == d.below[d.root]
ChildrenOf(d, n) == {d.children[n][i] : i \in 1 .. Len(d.children[n])}

IsDocument(d) ==
  /\ d.root \in Nodes(d)
  /\ d.level[d.root] = 1
  /\ \A n \in Nodes(d) :
       /\ d.children[n] \in Seq(Nodes(d))
       /\ d.level[n] \in Nat \ {0}
       /\ n \notin d.containers => d.children[n] = <<>>
       /\ \A c \in ChildrenOf(d, n) : d.level[c] = d.level[n] + 1
       /\ d.below[n] = {n} \cup UNION {d.below[c] : c \in ChildrenOf(d, n)}
       /\ \A m \in d.below[n] : m \in Nodes(d) /\ d.level[m] >= d.level[n]

ASSUME DocumentsAssumption == \A d \in Documents : IsDocument(d)
ASSUME MaxDepthsAssumption == MaxDepths \subseteq Nat

-----------------------------------------------------------------------------
Init ==
  /\ doc \in Documents
  /\ max_depth \in MaxDepths
  /\ stack = << <<doc.root, 1>> >>
  /\ pc = "walk"
  /\ exceeds = FALSE

Top == stack[Len(stack)]
Popped == SubSeq(stack, 1, Len(stack) - 1)

\* Mutant: depth is counted down.
Pushed_CountsDown(node, depth) ==
  [i \in 1 .. Len(doc.children[node]) |-> <<doc.children[node][i], depth - 1>>]

\* The children of a node, each one deeper, in order.
Pushed(node, depth) ==
  [i \in 1 .. Len(doc.children[node]) |-> <<doc.children[node][i], depth + 1>>]

\* Mutant: a scalar is looked at but not taken off the stack.
SkipScalar_Peek ==
  /\ pc = "walk" /\ stack # <<>>
  /\ Top[1] \notin doc.containers
  /\ UNCHANGED vars

SkipScalar ==
  /\ pc = "walk" /\ stack # <<>>
  /\ Top[1] \notin doc.containers
  /\ stack' = Popped
  /\ UNCHANGED <<doc, max_depth, pc, exceeds>>

\* Mutant: the bound itself is refused.
FindTooDeep_AtBound ==
  /\ pc = "walk" /\ stack # <<>>
  /\ Top[1] \in doc.containers
  /\ Top[2] >= max_depth
  /\ stack' = Popped
  /\ pc' = "done"
  /\ exceeds' = TRUE
  /\ UNCHANGED <<doc, max_depth>>

FindTooDeep ==
  /\ pc = "walk" /\ stack # <<>>
  /\ Top[1] \in doc.containers
  /\ Top[2] > max_depth
  /\ stack' = Popped
  /\ pc' = "done"
  /\ exceeds' = TRUE
  /\ UNCHANGED <<doc, max_depth>>

OpenContainer ==
  /\ pc = "walk" /\ stack # <<>>
  /\ Top[1] \in doc.containers
  /\ Top[2] <= max_depth
  /\ stack' = Popped \o Pushed(Top[1], Top[2])
  /\ UNCHANGED <<doc, max_depth, pc, exceeds>>

Exhausted ==
  /\ pc = "walk" /\ stack = <<>>
  /\ pc' = "done"
  /\ UNCHANGED <<doc, max_depth, stack, exceeds>>

Next == SkipScalar \/ FindTooDeep \/ OpenContainer \/ Exhausted

Spec == Init /\ [][Next]_vars /\ WF_vars(Next)

-----------------------------------------------------------------------------
\* A value waits on the stack with the depth it has in the document.
TypeOK ==
  /\ stack \in Seq(Nodes(doc) \X Nat)
  /\ \A i \in 1 .. Len(stack) : stack[i][2] = doc.level[stack[i][1]]
  /\ pc \in {"walk", "done"}
  /\ exceeds \in BOOLEAN

(***************************************************************************)
(* The guard is exact: it reports a document iff some container of it is   *)
(* deeper than max_depth, whatever the order of the walk; a container AT   *)
(* the bound, and a scalar past it, are fine.                              *)
(***************************************************************************)
TooDeep == {n \in Nodes(doc) \cap doc.containers : doc.level[n] > max_depth}

GuardExact == pc = "done" => (exceeds <=> TooDeep # {})

\* exceeds_depth returns on every document.
Returns == <>(pc = "done")
=============================================================================
