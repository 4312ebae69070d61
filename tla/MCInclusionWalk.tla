--------------------------- MODULE MCInclusionWalk ---------------------------
(***************************************************************************)
(* Instances of InclusionWalk over the trees merkle_root builds.           *)
(***************************************************************************)
EXTENDS InclusionWalkProofs, FiniteSets

CONSTANTS
  Sizes,           \* numbers of leaves of the trees
  ArbitrarySizes,  \* ... of those arbitrary claims are made about
  MaxPath          \* longest arbitrary audit path

ASSUME SizesAssumption == Sizes \subseteq Nat \ {0}

Leaves(n) == [i \in 1 .. n |-> leaf_hash(i)]

SmallerOf(a, b) == IF a < b THEN a ELSE b

HeightOf(n) == CHOOSE h \in 0 .. n : 2 ^ h >= n /\ (h = 0 \/ 2 ^ (h - 1) < n)

\* Node i of level k is merkle_root of the 2^k leaves under it (fewer at the
\* right edge); TreesAssumption then says merkle_root obeys the level rule.
TreeOf(n) ==
  LET h == HeightOf(n)
      w == [k \in 0 .. h |-> (n + 2 ^ k - 1) \div 2 ^ k]
      node == [k \in 0 .. h |->
                [i \in 0 .. w[k] - 1 |->
                  merkle_root(SubSeq(Leaves(n), i * 2 ^ k + 1,
                                     SmallerOf((i + 1) * 2 ^ k, n)))]]
  IN [size |-> n, height |-> h, width |-> w, node |-> node,
      terms |-> UNION {{node[k][i] : i \in 0 .. w[k] - 1} : k \in 0 .. h}]

\* One checkpoint per size.
MCCheckpoints == Sizes \cup VectorSizes
MCTree == [n \in MCCheckpoints |-> TreeOf(n)]

Foreign == leaf_hash(0)

\* Any node of the tree, or a foreign hash, presented as leaf and as sibling.
ArbitraryClaims ==
  UNION {
    LET H == Tree[n].terms \cup {Foreign} IN
    [checkpoint : {n}, leaf : H, leaf_index : -1 .. n, total_leaves : 0 .. n + 1,
     path : UNION {[1 .. d -> H] : d \in 0 .. MaxPath}]
    : n \in ArbitrarySizes}

\* Genuine audit paths, presented for any index and any size.
GenuinePathClaims ==
  UNION {
    [checkpoint : {n}, leaf : LeavesOf(Tree[n]), leaf_index : 0 .. n,
     total_leaves : 0 .. n + 1,
     path : {audit_path(m, Leaves(n)) : m \in 0 .. n - 1}]
    : n \in Sizes}

\* The claims the published proofs make.
PublishedClaim(n, i) ==
  [checkpoint |-> n, leaf |-> MERKLE_VECTORS[n].leaf_hashes[i + 1], leaf_index |-> i,
   total_leaves |-> n, path |-> MERKLE_VECTORS[n].inclusion_proofs[i]]

PublishedClaims ==
  UNION {{PublishedClaim(n, i) : i \in DOMAIN MERKLE_VECTORS[n].inclusion_proofs} : n \in VectorSizes}

MCClaims == ArbitraryClaims \cup GenuinePathClaims \cup PublishedClaims
=============================================================================
