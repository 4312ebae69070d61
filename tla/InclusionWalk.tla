---------------------------- MODULE InclusionWalk ----------------------------
(***************************************************************************)
(* verify_inclusion (src/ario_proof/merkle.py): the RFC 9162 section       *)
(* 2.1.3 walk from a claimed leaf up to the root a checkpoint commits to.  *)
(*                                                                         *)
(* The walk's three loop variables fn, sn and r are state variables; every *)
(* action is one branch of the loop, one turn of the inner while, or one   *)
(* of the returns.  SHA-256 is a free constructor: an interior hash is the *)
(* pair of its operands and a leaf hash the one-tuple of the leaf's bytes, *)
(* so the 0x01 and 0x00 prefixes are what keeps the two kinds apart.       *)
(*                                                                         *)
(* Tree[c] is the tree checkpoint c was built from, level by level         *)
(* (MCInclusionWalk derives it from merkle_root); Claims are the argument  *)
(* lists verify_inclusion is called with, the root being that of Tree[c].  *)
(***************************************************************************)
EXTENDS Merkle

CONSTANTS
  Checkpoints,  \* the checkpoints whose roots are proved against
  Tree,         \* Tree[c]: the record [size, height, width, node, terms] behind c
  Claims        \* records [checkpoint, leaf, leaf_index, total_leaves, path]

VARIABLES
  claim,        \* the arguments of this call; never assigned
  fn,           \* index of the current node in its level
  sn,           \* index of the last node in that level
  r,            \* the hash accumulated so far
  pos,          \* number of audit-path entries consumed
  level,        \* history: number of halvings of fn and sn so far
  pc,           \* "call", "loop", "shift" or "done"
  verdict       \* the returned boolean, once pc = "done"

vars == <<claim, fn, sn, r, pos, level, pc, verdict>>

(***************************************************************************)
(* The tree level by level: node[0] are the leaf hashes, a parent hashes   *)
(* its two children, and the last node of a level of odd width is promoted *)
(* as it is.  merkle_root gives the same tree by splitting at the largest  *)
(* power of two.                                                           *)
(***************************************************************************)
Combined(node, width, k, i) ==
  IF 2 * i + 1 < width[k]
  THEN node_hash(node[k][2 * i], node[k][2 * i + 1])
  ELSE node[k][2 * i]

IsLevelTree(t) ==
  /\ t.size \in Nat \ {0}
  /\ t.height \in Nat
  /\ t.width \in [0 .. t.height -> Nat \ {0}]
  /\ t.width[0] = t.size
  /\ t.width[t.height] = 1
  /\ \A k \in 0 .. t.height - 1 :
       /\ t.width[k] > 1
       /\ t.width[k + 1] = (t.width[k] + 1) \div 2
       /\ \A i \in 0 .. t.width[k + 1] - 1 :
            t.node[k + 1][i] = Combined(t.node, t.width, k, i)

Root(t) == t.node[t.height][0]

\* The list of leaf hashes merkle_root and audit_path are given.
LeafList(t) == [i \in 1 .. t.size |-> t.node[0][i - 1]]

\* The leaves of a tree are hashes of leaf bytes; t.terms are all the hashes
\* its root is built from.
LeavesOf(t) == {t.node[0][i] : i \in 0 .. t.size - 1}
IsLeafHash(h) == Len(h) = 1
IsNodeHash(h) == Len(h) = 2

AreTerms(t) ==
  /\ Root(t) \in t.terms
  /\ \A h \in t.terms : IsNodeHash(h) => h[1] \in t.terms /\ h[2] \in t.terms
  /\ \A h \in t.terms : IsLeafHash(h) => h \in LeavesOf(t)

IsClaim(c) ==
  /\ c.checkpoint \in Checkpoints
  /\ c.leaf_index \in Int
  /\ c.total_leaves \in Nat
  /\ c.path \in Seq({c.path[i] : i \in DOMAIN c.path})

ASSUME TreesAssumption == \A c \in Checkpoints : IsLevelTree(Tree[c]) /\ AreTerms(Tree[c])
ASSUME ClaimsAssumption == \A c \in Claims : IsClaim(c)

-----------------------------------------------------------------------------
Committed == Tree[claim.checkpoint]

Init ==
  /\ claim \in Claims
  /\ fn = 0 /\ sn = 0 /\ pos = 0 /\ level = 0
  /\ r = claim.leaf
  /\ pc = "call"
  /\ verdict = FALSE

Return(v) ==
  /\ pc' = "done"
  /\ verdict' = v
  /\ UNCHANGED <<claim, fn, sn, r, pos, level>>

\* Mutant: a negative index is not rejected.
OutOfRange_NegativeIndex == claim.leaf_index >= claim.total_leaves \/ claim.total_leaves = 0

\* Mutant: the last index is rejected too.
OutOfRange_LastIndex ==
  claim.leaf_index < 0 \/ claim.leaf_index >= claim.total_leaves - 1

OutOfRange ==
  \/ claim.leaf_index < 0
  \/ claim.leaf_index >= claim.total_leaves
  \/ claim.total_leaves = 0

\* The index guard at the top.
RejectIndex ==
  /\ pc = "call"
  /\ OutOfRange
  /\ Return(FALSE)

\* Mutant: the leaf hash is not compared with the root.
SingleLeaf_NoComparison ==
  /\ pc = "call"
  /\ ~OutOfRange
  /\ claim.total_leaves = 1
  /\ Return(Len(claim.path) = 0)

\* A single-leaf tree has no path: the leaf hash is the root.
SingleLeaf ==
  /\ pc = "call"
  /\ ~OutOfRange
  /\ claim.total_leaves = 1
  /\ Return(Len(claim.path) = 0 /\ claim.leaf = Root(Committed))

Start ==
  /\ pc = "call"
  /\ ~OutOfRange
  /\ claim.total_leaves # 1
  /\ fn' = claim.leaf_index
  /\ sn' = claim.total_leaves - 1
  /\ pc' = "loop"
  /\ UNCHANGED <<claim, r, pos, level, verdict>>

More == pos < Len(claim.path)

\* The path is longer than the claimed tree is deep.
RejectLongPath ==
  /\ pc = "loop"
  /\ More
  /\ sn = 0
  /\ Return(FALSE)

Halve ==
  /\ fn' = fn \div 2
  /\ sn' = sn \div 2
  /\ level' = level + 1

\* fn is a right child, or the last node of its level: the sibling is left.
FoldLeftSibling ==
  /\ pc = "loop"
  /\ More
  /\ sn # 0
  /\ fn % 2 = 1 \/ fn = sn
  /\ r' = node_hash(claim.path[pos + 1], r)
  /\ pos' = pos + 1
  /\ pc' = "shift"
  /\ UNCHANGED <<claim, fn, sn, level, verdict>>

\* Mutant: the operands are swapped.
FoldRightSibling_Swapped ==
  /\ pc = "loop"
  /\ More
  /\ sn # 0
  /\ fn % 2 = 0 /\ fn # sn
  /\ r' = node_hash(claim.path[pos + 1], r)
  /\ pos' = pos + 1
  /\ Halve
  /\ UNCHANGED <<claim, pc, verdict>>

\* fn is a left child: the sibling is right, and the walk goes up at once.
FoldRightSibling ==
  /\ pc = "loop"
  /\ More
  /\ sn # 0
  /\ fn % 2 = 0 /\ fn # sn
  /\ r' = node_hash(r, claim.path[pos + 1])
  /\ pos' = pos + 1
  /\ Halve
  /\ UNCHANGED <<claim, pc, verdict>>

\* Mutant: the inner while forgets its shifts.
SkipPromotion_NoShift ==
  /\ pc = "shift"
  /\ fn % 2 = 0 /\ fn # 0
  /\ UNCHANGED vars

\* One turn of the inner while: a promoted node stands for itself one level up.
SkipPromotion ==
  /\ pc = "shift"
  /\ fn % 2 = 0 /\ fn # 0
  /\ Halve
  /\ UNCHANGED <<claim, r, pos, pc, verdict>>

\* The inner while is over (or was not entered): go up past the fold.
Ascend ==
  /\ pc = "shift"
  /\ fn % 2 = 1 \/ fn = 0
  /\ Halve
  /\ pc' = "loop"
  /\ UNCHANGED <<claim, r, pos, verdict>>

\* Mutant: a path shorter than the tree is deep is not rejected.
Conclude_ShortPath ==
  /\ pc = "loop"
  /\ ~More
  /\ Return(r = Root(Committed))

\* The path is used up: accept iff the claimed tree is too, at the right root.
Conclude ==
  /\ pc = "loop"
  /\ ~More
  /\ Return(sn = 0 /\ r = Root(Committed))

Next ==
  \/ RejectIndex \/ SingleLeaf \/ Start
  \/ RejectLongPath \/ FoldLeftSibling \/ FoldRightSibling
  \/ SkipPromotion \/ Ascend \/ Conclude

Spec == Init /\ [][Next]_vars /\ WF_vars(Next)

-----------------------------------------------------------------------------
TypeOK ==
  /\ IsClaim(claim)
  /\ fn \in Nat /\ sn \in Nat /\ level \in Nat
  /\ pos \in 0 .. Len(claim.path)
  /\ pc \in {"call", "loop", "shift", "done"}
  /\ verdict \in BOOLEAN

Accepted == pc = "done" /\ verdict

(***************************************************************************)
(* Position soundness of verify_inclusion: when the caller passes the size *)
(* the tree really has, an accepted proof is a proof for the leaf at that  *)
(* very index, whatever leaf, index and path were presented.               *)
(***************************************************************************)
PositionSound ==
  (Accepted /\ claim.total_leaves = Committed.size)
    => claim.leaf = Committed.node[0][claim.leaf_index]

(***************************************************************************)
(* Membership soundness of verify_inclusion: for ANY claimed index, tree   *)
(* size and path, an accepted leaf hash is one of the committed tree's     *)
(* leaves.  What is accepted may be an interior node of the tree when the  *)
(* caller presents one: verify_evidence_bundle and verify_proof_bundle     *)
(* therefore recompute the leaf hash from the envelope.                    *)
(***************************************************************************)
LeafSound ==
  (Accepted /\ IsLeafHash(claim.leaf)) => claim.leaf \in LeavesOf(Committed)

(***************************************************************************)
(* Completeness: the audit_path of the tree for an index convinces         *)
(* verify_inclusion of the leaf at that index.                             *)
(***************************************************************************)
GenuineProofAccepted ==
  (/\ pc = "done"
   /\ claim.total_leaves = Committed.size
   /\ claim.leaf_index \in 0 .. Committed.size - 1
   /\ claim.leaf = Committed.node[0][claim.leaf_index]
   /\ claim.path = audit_path(claim.leaf_index, LeafList(Committed)))
  => verdict

(***************************************************************************)
(* A proof is not malleable: with the real tree size, the only path        *)
(* verify_inclusion accepts for an index is audit_path's.                  *)
(***************************************************************************)
OnlyAuditPathAccepted ==
  (Accepted /\ claim.total_leaves = Committed.size)
    => claim.path = audit_path(claim.leaf_index, LeafList(Committed))

(***************************************************************************)
(* The call returns for every argument list: neither the for loop nor the  *)
(* inner while of verify_inclusion can run forever.                        *)
(***************************************************************************)
Returns == <>(pc = "done")
=============================================================================
