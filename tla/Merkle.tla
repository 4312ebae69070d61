------------------------------- MODULE Merkle -------------------------------
(***************************************************************************)
(* The producer side of src/ario_proof/merkle.py: merkle_root, audit_path  *)
(* and _largest_pow2_less_than, with the recursion they have in the code.  *)
(* Leaves are a sequence of leaf hashes (index m is leaves[m + 1]).  A     *)
(* slice is given by its length and its first index: [len][lo] stands for  *)
(* leaf_hashes[lo : lo + len].                                             *)
(***************************************************************************)
EXTENDS Integers, Sequences

\* leaf_hash and node_hash: free constructors told apart by their length,
\* as the 0x00 and 0x01 prefixes tell the two digests apart.
leaf_hash(bytes) == <<bytes>>
node_hash(left, right) == <<left, right>>
EmptyTreeRoot == <<>>

\* What the loop has in k when it ends, started with any k from 1 to n.
Doubled(n) ==
  LET doubled[k \in 1 .. n] == IF k * 2 < n THEN doubled[k * 2] ELSE k
  IN doubled

LargestPow2LessThan(n) == IF n < 2 THEN 0 ELSE Doubled(n)[1]

\* merkle_root of every slice.
Roots(leaves) ==
  LET n == Len(leaves)
      root[len \in 1 .. n] ==
        [lo \in 0 .. n - len |->
           LET k == LargestPow2LessThan(len)
           IN IF len = 1 THEN leaves[lo + 1]
              ELSE node_hash(root[k][lo], root[len - k][lo + k])]
  IN root

merkle_root(leaves) ==
  IF Len(leaves) = 0 THEN EmptyTreeRoot ELSE Roots(leaves)[Len(leaves)][0]

\* _audit_path of every slice, for the leaf that is leaves[m + 1] in the whole.
Paths(m, leaves) ==
  LET n == Len(leaves)
      path[len \in 1 .. n] ==
        [lo \in 0 .. n - len |->
           LET k == LargestPow2LessThan(len)
           IN IF len = 1 THEN <<>>
              ELSE IF m < lo + k
              THEN Append(path[k][lo], Roots(leaves)[len - k][lo + k])
              ELSE Append(path[len - k][lo + k], Roots(leaves)[k][lo])]
  IN path

audit_path(m, leaves) == Paths(m, leaves)[Len(leaves)][0]
=============================================================================
