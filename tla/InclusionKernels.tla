-------------------------- MODULE InclusionKernels --------------------------
(***************************************************************************)
(* verify_inclusion beside what else has to agree with it: verifyInclusion *)
(* of the TypeScript kernel on the same arguments, and the Merkle vectors  *)
(* gen_vectors.py publishes for every kernel to verify.                    *)
(***************************************************************************)
EXTENDS InclusionWalk, TsInclusion

CONSTANT VectorSizes  \* the numbers of leaves in MERKLE_VECTORS

ASSUME VectorsAssumption == VectorSizes \subseteq Nat \ {0}

Vectors == INSTANCE MerkleVectors

MERKLE_VECTORS ==
  [n \in VectorSizes |-> Vectors!merkle_tree_vector(Vectors!make_leaves(n))]

(***************************************************************************)
(* The two kernels give the same verdict as long as the last index is a    *)
(* number JavaScript's bit operators leave alone: up to 2^31 leaves.       *)
(***************************************************************************)
KernelsAgreeInRange ==
  (pc = "done" /\ claim.total_leaves <= Half) =>
    verdict = verifyInclusion(claim.leaf, claim.leaf_index, claim.total_leaves,
                              claim.path, Root(Committed))

\* The call makes a claim the vector publishes, of the tree it publishes.
ClaimOf(vector) ==
  /\ claim.total_leaves = vector.leaf_count
  /\ claim.leaf_index \in DOMAIN vector.inclusion_proofs
  /\ claim.leaf = vector.leaf_hashes[claim.leaf_index + 1]
  /\ claim.path = vector.inclusion_proofs[claim.leaf_index]
  /\ LeafList(Committed) = vector.leaf_hashes

(***************************************************************************)
(* The published tree vectors hold: merkle_root gives the root that the    *)
(* generator's own mth does, and verify_inclusion accepts each of its      *)
(* proofs.                                                                 *)
(***************************************************************************)
PublishedVectorsHold ==
  \A n \in VectorSizes :
    (pc = "done" /\ ClaimOf(MERKLE_VECTORS[n])) =>
      verdict /\ MERKLE_VECTORS[n].expected_root = Root(Committed)
=============================================================================
