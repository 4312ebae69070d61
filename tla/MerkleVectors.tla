---------------------------- MODULE MerkleVectors ----------------------------
(***************************************************************************)
(* The trees of tools/gen-vectors/gen_vectors.py, which has its own copy   *)
(* of the RFC 9162 algorithms: what it publishes is to be verified by      *)
(* kernels it shares no code with.  [len][lo] stands for the slice         *)
(* leaf_hashes[lo : lo + len].                                             *)
(***************************************************************************)
EXTENDS Integers, Sequences

leaf_hash(leaf_object) == <<leaf_object>>
node_hash(left, right) == <<left, right>>

\* Mutant: trees are split in the middle.
largest_pow2_less_than_Half(n) == n \div 2

\* The while loop from k = 1, as what it has in k when it ends.
largest_pow2_less_than(n) ==
  LET ends[k \in 1 .. n] == IF k * 2 < n THEN ends[k * 2] ELSE k
  IN IF n < 2 THEN 0 ELSE ends[1]

\* mth of every slice of the leaves.
Subtrees(leaf_hashes) ==
  LET n == Len(leaf_hashes)
      hash[len \in 1 .. n] ==
        [lo \in 0 .. n - len |->
           LET k == largest_pow2_less_than(len)
           IN IF len = 1 THEN leaf_hashes[lo + 1]
              ELSE node_hash(hash[k][lo], hash[len - k][lo + k])]
  IN hash

mth(leaf_hashes) ==
  IF Len(leaf_hashes) = 0 THEN <<>> ELSE Subtrees(leaf_hashes)[Len(leaf_hashes)][0]

audit_path(m, leaf_hashes) ==
  LET n == Len(leaf_hashes)
      path[len \in 1 .. n] ==
        [lo \in 0 .. n - len |->
           LET k == largest_pow2_less_than(len)
           IN IF len = 1 THEN <<>>
              ELSE IF m < lo + k
              THEN Append(path[k][lo], Subtrees(leaf_hashes)[len - k][lo + k])
              ELSE Append(path[len - k][lo + k], Subtrees(leaf_hashes)[k][lo])]
  IN path[n][0]

\* make_leaves: n objects that differ.
make_leaves(n) == [i \in 1 .. n |-> i]

merkle_tree_vector(leaf_objects) ==
  LET hashes == [i \in 1 .. Len(leaf_objects) |-> leaf_hash(leaf_objects[i])]
      n == Len(leaf_objects)
      proof_indices == {0, n \div 2, n - 1}
  IN [leaf_count       |-> n,
      leaf_hashes      |-> hashes,
      expected_root    |-> mth(hashes),
      inclusion_proofs |-> [i \in proof_indices |-> audit_path(i, hashes)]]
=============================================================================
