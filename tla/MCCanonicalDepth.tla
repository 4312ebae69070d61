--------------------------- MODULE MCCanonicalDepth ---------------------------
(***************************************************************************)
(* Every tree of up to MaxNodes nodes, each leaf a scalar or an empty      *)
(* container, against every bound up to one more than the deepest.         *)
(***************************************************************************)
EXTENDS CanonicalDepth, FiniteSets

CONSTANT MaxNodes

\* parent[i] < i, so node 1 is the root and levels are computed in order.
Shapes(n) == {parent \in [2 .. n -> 1 .. n - 1] : \A i \in 2 .. n : parent[i] < i}

InOrder(S, n) == SelectSeq([i \in 1 .. n |-> i], LAMBDA i : i \in S)

DocumentOf(n, parent, containers) ==
  LET kids == [i \in 1 .. n |-> {c \in 2 .. n : parent[c] = i}]
      level[i \in 1 .. n] == IF i = 1 THEN 1 ELSE level[parent[i]] + 1
      under[i \in 1 .. n] == {i} \cup UNION {under[c] : c \in kids[i]}
  IN [root |-> 1, containers |-> containers,
      children |-> [i \in 1 .. n |-> InOrder(kids[i], n)],
      level |-> [i \in 1 .. n |-> level[i]],
      below |-> [i \in 1 .. n |-> under[i]]]

Inner(n, parent) == {parent[i] : i \in 2 .. n}

MCDocuments ==
  UNION {UNION {{DocumentOf(n, parent, Inner(n, parent) \cup extra) :
                   extra \in SUBSET (1 .. n \ Inner(n, parent))}
                : parent \in Shapes(n)}
         : n \in 1 .. MaxNodes}

MCMaxDepths == 0 .. MaxNodes
=============================================================================
