------------------------- MODULE InclusionWalkProofs -------------------------
(***************************************************************************)
(* Proofs about InclusionWalk for every set of checkpoints, every tree     *)
(* that obeys the level rule and every argument list.  In this order: what *)
(* is accepted is committed; merkle_root's recursion builds the same trees *)
(* as the level rule; audit paths are accepted, and nothing else; the      *)
(* TypeScript walk agrees; the published vectors verify; and what the      *)
(* TypeScript walk accepts, with any numbers, is committed as well; and,   *)
(* right after the types, that the walk ends.                              *)
(***************************************************************************)
EXTENDS InclusionKernels, TLAPS, WellFoundedInduction

Walking == pc \in {"loop", "shift"}
TrueSize == claim.total_leaves = Committed.size

\* What has to hold of the leaf for the two soundness properties.
LeafInPlace == claim.leaf = Committed.node[0][claim.leaf_index]
LeafIsMember == IsLeafHash(claim.leaf) => claim.leaf \in LeavesOf(Committed)

\* Until the walk starts it stands at the claimed leaf.
CallInv == pc = "call" => level = 0 /\ pos = 0 /\ r = claim.leaf

\* fn is inside its level, and the inner while starts from a fold.
IndexInv ==
  /\ Walking => fn <= sn
  /\ pc = "shift" => /\ sn # 0
                     /\ fn % 2 = 1 \/ fn = sn
                     /\ IsNodeHash(r)

\* With the real size, sn + 1 is the width of the level the walk is on.
LevelInv ==
  (Walking /\ TrueSize) => /\ level \in 0 .. Committed.height
                           /\ sn = Committed.width[level] - 1

\* The walk, read backwards: reaching the tree's node means having started
\* at its leaf.  Inside "shift" the node in question is the right operand.
PositionInv ==
  /\ (pc = "loop" /\ TrueSize)
       => (r = Committed.node[level][fn] => LeafInPlace)
  /\ (pc = "shift" /\ TrueSize)
       => (r[2] = Committed.node[level][fn] => LeafInPlace)
  /\ (Accepted /\ TrueSize) => LeafInPlace

MemberInv ==
  /\ pc # "done" => (r \in Committed.terms => LeafIsMember)
  /\ Accepted => LeafIsMember

IInv == TypeOK /\ CallInv /\ IndexInv /\ LevelInv /\ PositionInv /\ MemberInv

-----------------------------------------------------------------------------
\* The facts about the committed tree the walk's steps use.
LEMMA CommittedTree ==
  ASSUME IsClaim(claim)
  PROVE  IsLevelTree(Committed) /\ AreTerms(Committed)
BY TreesAssumption DEF IsClaim, Committed

\* The last level is the only one of width 1.
LEMMA TopLevel ==
  ASSUME NEW t, IsLevelTree(t), NEW k \in 0 .. t.height, t.width[k] = 1
  PROVE  k = t.height
BY DEF IsLevelTree

\* Going up from a level k of width w > 1: its width is halved rounding up.
LEMMA UpOneLevel ==
  ASSUME NEW t, IsLevelTree(t), NEW k \in 0 .. t.height,
         NEW w, w = t.width[k], w # 1
  PROVE  /\ w \in Nat \ {0}
         /\ k \in 0 .. t.height - 1 /\ k + 1 \in 0 .. t.height
         /\ t.width[k + 1] = (w + 1) \div 2
         /\ (w - 1) \div 2 = t.width[k + 1] - 1
<1>1. t.height \in Nat /\ w \in Nat \ {0} /\ k # t.height
  BY DEF IsLevelTree
<1>2. k \in 0 .. t.height - 1 /\ k + 1 \in 0 .. t.height
  BY <1>1
<1>3. t.width[k + 1] = (w + 1) \div 2
  BY <1>2 DEF IsLevelTree
<1> QED BY <1>1, <1>2, <1>3

\* The parent of node i is node i \div 2: the fold of its pair, or, at the
\* right edge of a level of odd width, node i itself.
LEMMA Parent ==
  ASSUME NEW t, IsLevelTree(t), NEW k \in 0 .. t.height,
         NEW w, w = t.width[k], w # 1, NEW i \in 0 .. w - 1
  PROVE  t.node[k + 1][i \div 2] =
           IF i % 2 = 1 THEN node_hash(t.node[k][i - 1], t.node[k][i])
           ELSE IF i # w - 1 THEN node_hash(t.node[k][i], t.node[k][i + 1])
           ELSE t.node[k][i]
<1>1. w \in Nat \ {0} /\ k \in 0 .. t.height - 1 /\ t.width[k + 1] = (w + 1) \div 2
  BY UpOneLevel
<1>2. i \div 2 \in 0 .. t.width[k + 1] - 1
  BY <1>1
<1>3. t.node[k + 1][i \div 2] = Combined(t.node, t.width, k, i \div 2)
  BY <1>1, <1>2 DEF IsLevelTree
<1>4. CASE i % 2 = 1
  <2>1. 2 * (i \div 2) = i - 1 /\ 2 * (i \div 2) + 1 = i /\ i < w
    BY <1>1, <1>4
  <2> QED BY <2>1, <1>3, <1>4 DEF Combined
<1>5. CASE i % 2 = 0
  <2>1. 2 * (i \div 2) = i /\ (i + 1 < w <=> i # w - 1) /\ i % 2 # 1
    BY <1>1, <1>5
  <2> QED BY <2>1, <1>3 DEF Combined
<1> QED BY <1>1, <1>4, <1>5

\* node_hash is injective in its right operand and recognisable.
LEMMA NodeHashFacts ==
  ASSUME NEW a, NEW b
  PROVE  /\ IsNodeHash(node_hash(a, b)) /\ ~IsLeafHash(node_hash(a, b))
         /\ node_hash(a, b)[1] = a /\ node_hash(a, b)[2] = b
BY DEF node_hash, IsNodeHash, IsLeafHash

\* Halving keeps naturals natural and keeps their order.
LEMMA HalveFacts ==
  ASSUME NEW a \in Nat, NEW b \in Nat, a <= b
  PROVE  a \div 2 \in Nat /\ b \div 2 \in Nat /\ a \div 2 <= b \div 2
OBVIOUS

-----------------------------------------------------------------------------
\* Before the call the walk stands at no node.
LEMMA InitInv == Init => IInv
<1> SUFFICES ASSUME Init PROVE IInv
  OBVIOUS
<1>1. IsClaim(claim)
  BY ClaimsAssumption DEF Init
<1>2. TypeOK
  <2>1. pos \in 0 .. Len(claim.path) /\ fn \in Nat /\ sn \in Nat /\ level \in Nat
    BY <1>1 DEF Init, IsClaim
  <2>2. verdict \in BOOLEAN /\ pc \in {"call", "loop", "shift", "done"}
    BY DEF Init
  <2> QED BY <1>1, <2>1, <2>2 DEF TypeOK
<1>3. CallInv /\ IndexInv /\ LevelInv /\ PositionInv
  BY DEF Init, CallInv, IndexInv, LevelInv, PositionInv, Walking, Accepted
<1>4. MemberInv
  BY <1>1, CommittedTree DEF Init, MemberInv, Accepted, AreTerms, LeafIsMember
<1> QED BY <1>2, <1>3, <1>4 DEF IInv

\* The level above the walk, for the steps that halve fn and sn.
LEMMA UpTheTree ==
  ASSUME IInv, Walking, TrueSize, sn # 0
  PROVE  /\ level + 1 \in 0 .. Committed.height
         /\ sn \div 2 = Committed.width[level + 1] - 1
         /\ Committed.node[level + 1][fn \div 2] =
              IF fn % 2 = 1
              THEN node_hash(Committed.node[level][fn - 1], Committed.node[level][fn])
              ELSE IF fn # sn
              THEN node_hash(Committed.node[level][fn], Committed.node[level][fn + 1])
              ELSE Committed.node[level][fn]
<1> DEFINE w == Committed.width[level]
<1>0. IsLevelTree(Committed)
  BY CommittedTree DEF IInv, TypeOK
<1>1. level \in 0 .. Committed.height /\ w - 1 = sn /\ w # 1 /\ fn \in 0 .. w - 1
  BY DEF IInv, TypeOK, LevelInv, IndexInv, Walking
<1>2. level + 1 \in 0 .. Committed.height /\ sn \div 2 = Committed.width[level + 1] - 1
  BY <1>0, <1>1, UpOneLevel
<1> HIDE DEF w
<1>3. Committed.node[level + 1][fn \div 2] =
        IF fn % 2 = 1
        THEN node_hash(Committed.node[level][fn - 1], Committed.node[level][fn])
        ELSE IF fn # w - 1
        THEN node_hash(Committed.node[level][fn], Committed.node[level][fn + 1])
        ELSE Committed.node[level][fn]
  BY <1>0, <1>1, Parent DEF w
<1> QED BY <1>1, <1>2, <1>3

\* The tree, the claim and what is said of them do not change in any step.
LEMMA NextInv == IInv /\ [Next]_vars => IInv'
<1> SUFFICES ASSUME IInv, [Next]_vars PROVE IInv'
  OBVIOUS
<1> USE DEF IInv
<1>0. IsLevelTree(Committed) /\ AreTerms(Committed)
  BY CommittedTree DEF TypeOK
<1>types. /\ fn \in Nat /\ sn \in Nat /\ level \in Nat /\ pos \in Nat
          /\ claim.leaf_index \in Int /\ claim.total_leaves \in Nat
          /\ Len(claim.path) \in Nat
  BY DEF TypeOK, IsClaim
<1>1. CASE RejectIndex
  BY <1>1 DEF RejectIndex, Return, TypeOK, IsClaim, CallInv, IndexInv, LevelInv, PositionInv,
              MemberInv, Walking, TrueSize, Accepted, Committed, LeafInPlace, LeafIsMember
<1>2. CASE SingleLeaf
  <2>1. TypeOK' /\ CallInv' /\ IndexInv' /\ LevelInv'
    BY <1>2 DEF SingleLeaf, Return, TypeOK, IsClaim, CallInv, IndexInv, LevelInv, Walking
  <2>2. ASSUME TrueSize PROVE Root(Committed) = Committed.node[0][claim.leaf_index]
    <3>1. 0 \in 0 .. Committed.height /\ Committed.width[0] = 1
      BY <1>0, <1>2, <2>2 DEF IsLevelTree, SingleLeaf, TrueSize
    <3>2. Committed.height = 0
      BY <1>0, <3>1, TopLevel
    <3>3. claim.leaf_index = 0
      BY <1>2, <1>types DEF SingleLeaf, OutOfRange
    <3> QED BY <3>2, <3>3 DEF Root
  <2>3. PositionInv'
    BY <1>2, <2>2 DEF SingleLeaf, Return, PositionInv, Accepted, TrueSize, LeafInPlace,
                      Committed
  <2>4. (claim.leaf = Root(Committed)) => LeafIsMember
    BY <1>0 DEF AreTerms, LeafIsMember
  <2>5. MemberInv'
    BY <1>2, <2>4 DEF SingleLeaf, Return, MemberInv, Accepted, LeafIsMember, Committed
  <2> QED BY <2>1, <2>3, <2>5
<1>3. CASE Start
  <2>1. claim.leaf_index \in Nat /\ claim.leaf_index <= claim.total_leaves - 1
        /\ claim.total_leaves - 1 \in Nat
    BY <1>3, <1>types DEF Start, OutOfRange
  <2>2. TypeOK' /\ CallInv' /\ IndexInv'
    BY <1>3, <2>1 DEF Start, TypeOK, IsClaim, CallInv, IndexInv, Walking
  <2>3. LevelInv'
    BY <1>0, <1>3 DEF Start, LevelInv, CallInv, IsLevelTree, TrueSize, Committed
  <2>4. PositionInv'
    BY <1>3 DEF Start, PositionInv, CallInv, Accepted, TrueSize, LeafInPlace, Committed
  <2>5. MemberInv'
    BY <1>3 DEF Start, MemberInv, Accepted, LeafIsMember, Committed
  <2> QED BY <2>2, <2>3, <2>4, <2>5
<1>4. CASE RejectLongPath
  BY <1>4 DEF RejectLongPath, Return, TypeOK, IsClaim, CallInv, IndexInv, LevelInv,
              PositionInv, MemberInv, Walking, TrueSize, Accepted, Committed, LeafInPlace,
              LeafIsMember
<1>5. CASE FoldLeftSibling
  <2> DEFINE p == claim.path[pos + 1]
  <2>1. IsNodeHash(r') /\ r'[2] = r
    BY <1>5, NodeHashFacts DEF FoldLeftSibling
  <2>2. TypeOK' /\ CallInv' /\ IndexInv'
    BY <1>5, <1>types, <2>1 DEF FoldLeftSibling, More, TypeOK, IsClaim, CallInv, IndexInv,
                                Walking
  <2>3. LevelInv'
    BY <1>5 DEF FoldLeftSibling, LevelInv, Walking, TrueSize, Committed
  <2>4. PositionInv'
    BY <1>5, <2>1 DEF FoldLeftSibling, PositionInv, Accepted, TrueSize, LeafInPlace, Committed
  <2>5. r' \in Committed.terms => r \in Committed.terms
    BY <1>0, <2>1 DEF AreTerms
  <2>6. MemberInv'
    BY <1>5, <2>5 DEF FoldLeftSibling, MemberInv, Accepted, LeafIsMember, Committed
  <2> QED BY <2>2, <2>3, <2>4, <2>6
<1>6. CASE FoldRightSibling
  <2>1. fn \in 0 .. sn /\ sn # 0 /\ fn % 2 = 0 /\ fn # sn /\ pc = "loop"
    BY <1>6, <1>types DEF FoldRightSibling, IndexInv, Walking
  <2>2. IsNodeHash(r') /\ r'[1] = r
    BY <1>6, NodeHashFacts DEF FoldRightSibling
  <2>3. TypeOK' /\ CallInv' /\ IndexInv'
    BY <1>6, <1>types, <2>1, HalveFacts
       DEF FoldRightSibling, Halve, More, TypeOK, IsClaim, CallInv, IndexInv, Walking
  <2>4. ASSUME TrueSize
        PROVE  /\ level + 1 \in 0 .. Committed.height
               /\ sn \div 2 = Committed.width[level + 1] - 1
               /\ Committed.node[level + 1][fn \div 2]
                    = node_hash(Committed.node[level][fn], Committed.node[level][fn + 1])
    BY <2>1, <2>4, UpTheTree DEF Walking
  <2>5. LevelInv'
    BY <1>6, <2>4 DEF FoldRightSibling, Halve, LevelInv, TrueSize, Committed
  <2>6. ASSUME TrueSize, r' = Committed.node[level + 1][fn \div 2]
        PROVE  LeafInPlace
    <3>1. r'[1] = Committed.node[level][fn]
      BY <2>4, <2>6, NodeHashFacts
    <3> QED BY <2>1, <2>2, <2>6, <3>1 DEF PositionInv
  <2>7. PositionInv'
    BY <1>6, <2>1, <2>6
       DEF FoldRightSibling, Halve, PositionInv, Accepted, TrueSize, LeafInPlace, Committed
  <2>8. r' \in Committed.terms => r \in Committed.terms
    BY <1>0, <2>2 DEF AreTerms
  <2>9. MemberInv'
    BY <1>6, <2>8 DEF FoldRightSibling, MemberInv, Accepted, LeafIsMember, Committed
  <2> QED BY <2>3, <2>5, <2>7, <2>9
<1>7. CASE SkipPromotion
  <2>1. fn \in 0 .. sn /\ sn # 0 /\ fn % 2 = 0 /\ fn = sn /\ pc = "shift"
    BY <1>7, <1>types DEF SkipPromotion, IndexInv, Walking
  <2>2. TypeOK' /\ CallInv' /\ IndexInv'
    <3>1. sn \div 2 # 0
      BY <1>types, <2>1
    <3> QED BY <1>7, <1>types, <2>1, <3>1, HalveFacts
            DEF SkipPromotion, Halve, TypeOK, IsClaim, CallInv, IndexInv, Walking
  <2>3. ASSUME TrueSize
        PROVE  /\ level + 1 \in 0 .. Committed.height
               /\ sn \div 2 = Committed.width[level + 1] - 1
               /\ Committed.node[level + 1][fn \div 2] = Committed.node[level][fn]
    BY <2>1, <2>3, UpTheTree DEF Walking
  <2>4. LevelInv'
    BY <1>7, <2>3 DEF SkipPromotion, Halve, LevelInv, TrueSize, Committed
  <2>5. PositionInv'
    BY <1>7, <2>1, <2>3
       DEF SkipPromotion, Halve, PositionInv, Accepted, TrueSize, LeafInPlace, Committed
  <2>6. MemberInv'
    BY <1>7 DEF SkipPromotion, Halve, MemberInv, Accepted, LeafIsMember, Committed
  <2> QED BY <2>2, <2>4, <2>5, <2>6
<1>8. CASE Ascend
  <2>1. fn \in 0 .. sn /\ sn # 0 /\ fn % 2 = 1 /\ pc = "shift"
    BY <1>8, <1>types DEF Ascend, IndexInv, Walking
  <2>2. TypeOK' /\ CallInv' /\ IndexInv'
    BY <1>8, <1>types, <2>1, HalveFacts
       DEF Ascend, Halve, TypeOK, IsClaim, CallInv, IndexInv, Walking
  <2>3. ASSUME TrueSize
        PROVE  /\ level + 1 \in 0 .. Committed.height
               /\ sn \div 2 = Committed.width[level + 1] - 1
               /\ Committed.node[level + 1][fn \div 2]
                    = node_hash(Committed.node[level][fn - 1], Committed.node[level][fn])
    BY <2>1, <2>3, UpTheTree DEF Walking
  <2>4. LevelInv'
    BY <1>8, <2>3 DEF Ascend, Halve, LevelInv, TrueSize, Committed
  <2>5. ASSUME TrueSize, r = Committed.node[level + 1][fn \div 2]
        PROVE  LeafInPlace
    <3>1. r[2] = Committed.node[level][fn]
      BY <2>3, <2>5, NodeHashFacts
    <3> QED BY <2>1, <2>5, <3>1 DEF PositionInv
  <2>6. PositionInv'
    BY <1>8, <2>1, <2>5
       DEF Ascend, Halve, PositionInv, Accepted, TrueSize, LeafInPlace, Committed
  <2>7. MemberInv'
    BY <1>8 DEF Ascend, Halve, MemberInv, Accepted, LeafIsMember, Committed
  <2> QED BY <2>2, <2>4, <2>6, <2>7
<1>9. CASE Conclude
  <2>1. TypeOK' /\ CallInv' /\ IndexInv' /\ LevelInv'
    BY <1>9 DEF Conclude, Return, TypeOK, IsClaim, CallInv, IndexInv, LevelInv, Walking
  <2>2. ASSUME TrueSize, sn = 0, r = Root(Committed)
        PROVE  LeafInPlace
    <3>1. pc = "loop" /\ level \in 0 .. Committed.height /\ Committed.width[level] = 1
      BY <1>0, <1>9, <2>2 DEF Conclude, LevelInv, Walking, IsLevelTree
    <3>2. level = Committed.height /\ fn = 0
      BY <1>0, <1>types, <2>2, <3>1, TopLevel DEF IndexInv, Walking
    <3> QED BY <2>2, <3>1, <3>2 DEF PositionInv, Root
  <2>3. PositionInv'
    BY <1>9, <2>2 DEF Conclude, Return, PositionInv, Accepted, TrueSize, LeafInPlace, Committed
  <2>4. r = Root(Committed) => LeafIsMember
    BY <1>0, <1>9 DEF Conclude, MemberInv, AreTerms
  <2>5. MemberInv'
    BY <1>9, <2>4 DEF Conclude, Return, MemberInv, Accepted, LeafIsMember, Committed
  <2> QED BY <2>1, <2>3, <2>5
<1>10. CASE UNCHANGED vars
  BY <1>10 DEF vars, TypeOK, IsClaim, CallInv, IndexInv, LevelInv, PositionInv, MemberInv,
               Walking, TrueSize, Accepted, Committed, LeafInPlace, LeafIsMember
<1> QED
  BY <1>1, <1>2, <1>3, <1>4, <1>5, <1>6, <1>7, <1>8, <1>9, <1>10 DEF Next

\* IInv is an invariant of every behaviour of the walk.
LEMMA Invariance == Spec => []IInv
BY InitInv, NextInv, PTL DEF Spec

-----------------------------------------------------------------------------
(***************************************************************************)
(* verify_inclusion's variables keep their types: fn and sn never go       *)
(* negative and pos never runs past the audit path.                        *)
(***************************************************************************)
THEOREM TypeCorrect == Spec => []TypeOK
<1>1. IInv => TypeOK
  BY DEF IInv
<1> QED BY <1>1, Invariance, PTL

-----------------------------------------------------------------------------
\* No more steps than this are left of a call: it depends on the size stated,
\* never on the path presented.
StepsLeft ==
  CASE pc = "call" -> 2 * claim.total_leaves + 1
    [] pc = "loop" -> 2 * sn + 2
    [] pc = "shift" -> 2 * sn + 1
    [] pc = "done" -> 0

(***************************************************************************)
(* verify_inclusion cannot run forever, whatever leaf, index, size and     *)
(* path it is called with: every turn of the for loop and of its inner     *)
(* while uses up one of the steps left, of which there are at most         *)
(* 2 * total_leaves + 1, so that a path of any length costs no more.       *)
(***************************************************************************)
THEOREM StepsRunOut ==
  Spec => [](StepsLeft \in Nat) /\ [][StepsLeft' < StepsLeft]_vars
<1>1. IInv => StepsLeft \in Nat
  <2> SUFFICES ASSUME IInv PROVE StepsLeft \in Nat
    OBVIOUS
  <2>1. claim.total_leaves \in Nat /\ sn \in Nat /\ pc \in {"call", "loop", "shift", "done"}
    BY DEF IInv, TypeOK, IsClaim
  <2> QED BY <2>1 DEF StepsLeft
<1>2. IInv /\ [Next]_vars => [StepsLeft' < StepsLeft]_vars
  <2> SUFFICES ASSUME IInv, Next PROVE StepsLeft' < StepsLeft
    OBVIOUS
  <2>1. claim.total_leaves \in Nat /\ sn \in Nat /\ fn \in Nat
    BY DEF IInv, TypeOK, IsClaim
  <2>2. sn # 0 => sn \div 2 \in Nat /\ sn \div 2 < sn
    BY <2>1
  <2>3. pc = "shift" => sn # 0
    BY DEF IInv, IndexInv
  <2>4. CASE RejectIndex \/ SingleLeaf \/ RejectLongPath \/ Conclude
    BY <2>1, <2>4 DEF RejectIndex, SingleLeaf, RejectLongPath, Conclude, Return, StepsLeft
  <2>5. CASE Start
    BY <2>1, <2>5 DEF Start, StepsLeft
  <2>6. CASE FoldLeftSibling
    BY <2>1, <2>6 DEF FoldLeftSibling, StepsLeft
  <2>7. CASE FoldRightSibling
    BY <2>1, <2>2, <2>7 DEF FoldRightSibling, Halve, StepsLeft
  <2>8. CASE SkipPromotion
    BY <2>1, <2>2, <2>3, <2>8 DEF SkipPromotion, Halve, StepsLeft
  <2>9. CASE Ascend
    BY <2>1, <2>2, <2>3, <2>9 DEF Ascend, Halve, StepsLeft
  <2> QED BY <2>4, <2>5, <2>6, <2>7, <2>8, <2>9 DEF Next
<1> QED BY <1>1, <1>2, Invariance, PTL DEF Spec

(***************************************************************************)
(* For every tree and every argument list that states the tree's real      *)
(* size, verify_inclusion returns True only for the leaf at leaf_index.    *)
(***************************************************************************)
THEOREM PositionSoundness == Spec => []PositionSound
<1>1. IInv => PositionSound
  BY DEF IInv, PositionInv, PositionSound, TrueSize, LeafInPlace
<1> QED BY <1>1, Invariance, PTL

(***************************************************************************)
(* For every tree and every argument list whatever, a leaf hash that       *)
(* verify_inclusion accepts is one of the leaves the root commits to.      *)
(***************************************************************************)
THEOREM LeafSoundness == Spec => []LeafSound
<1>1. IInv => LeafSound
  BY DEF IInv, MemberInv, LeafSound, LeafIsMember
<1> QED BY <1>1, Invariance, PTL

-----------------------------------------------------------------------------
(* merkle_root and audit_path.                                             *)

\* A set of naturals that has an element has a least one.
LEMMA LeastElement ==
  ASSUME NEW T \in SUBSET Nat, T # {}
  PROVE  \E m \in T : \A k \in T : m <= k
<1>1. PICK m \in T : \A k \in T : <<k, m>> \notin OpToRel(<, Nat)
  BY WFMin, NatLessThanWellFounded, Zenon
<1>2. \A k \in T : ~(k < m)
  BY <1>1, Zenon DEF OpToRel
<1> QED BY <1>2

\* Induction up to n, for what holds of the members of a set.
LEMMA Induction ==
  ASSUME NEW n \in Nat, NEW T, 0 \in T, \A k \in 0 .. n - 1 : k \in T => k + 1 \in T
  PROVE  \A k \in 0 .. n : k \in T
<1> DEFINE Bad == {k \in 0 .. n : k \notin T}
<1>1. Bad \in SUBSET Nat
  OBVIOUS
<1>2. ASSUME NEW m \in Bad PROVE m - 1 \in Bad /\ m - 1 < m
  <2>1. m # 0 /\ m - 1 \in 0 .. n - 1
    OBVIOUS
  <2> QED BY <2>1
<1>3. Bad = {}
  <2> HIDE DEF Bad
  <2> SUFFICES ASSUME Bad # {} PROVE FALSE
    OBVIOUS
  <2>1. PICK m \in Bad : \A k \in Bad : m <= k
    BY <1>1, LeastElement
  <2> QED BY <1>1, <1>2, <2>1
<1> QED BY <1>3

\* Below n, the loop of _largest_pow2_less_than doubles; it stops beyond half.
LEMMA DoubledIs ==
  ASSUME NEW n \in Nat
  PROVE  \A k \in 1 .. n : Doubled(n)[k] = IF k * 2 < n THEN Doubled(n)[k * 2] ELSE k
<1> DEFINE turn(f, k) == IF k * 2 < n THEN f[k * 2] ELSE k
           Loop(m, f) == f = [k \in m .. n |-> turn(f, k)]
           Found == {d \in 0 .. n : \E f : Loop(n + 1 - d, f)}
<1>1. 0 \in Found
  <2> DEFINE f == [k \in n + 1 .. n |-> k]
  <2>1. n + 1 .. n = {}
    OBVIOUS
  <2>2. Loop(n + 1, f)
    BY <2>1
  <2> HIDE DEF f, Loop
  <2> QED BY <2>2
<1>2. ASSUME NEW d \in 0 .. n - 1, d \in Found PROVE d + 1 \in Found
  <2> DEFINE m == n - d
  <2>1. PICK g : Loop(m + 1, g)
    BY <1>2
  <2>2. m \in 1 .. n /\ n + 1 - (d + 1) = m
    OBVIOUS
  <2> HIDE DEF m
  <2> DEFINE f == [k \in m .. n |-> IF k = m THEN turn(g, m) ELSE g[k]]
  <2>3. ASSUME NEW k \in m .. n PROVE f[k] = turn(f, k)
    <3>1. k * 2 < n => k * 2 \in m + 1 .. n /\ f[k * 2] = g[k * 2]
      BY <2>2
    <3>2. turn(f, k) = turn(g, k)
      BY <3>1
    <3>3. k # m => g[k] = turn(g, k)
      <4>1. k # m => k \in m + 1 .. n
        BY <2>2
      <4> HIDE DEF turn
      <4> QED BY <2>1, <4>1
    <3> HIDE DEF turn
    <3> QED BY <3>2, <3>3
  <2>4. f = [k \in m .. n |-> f[k]]
    OBVIOUS
  <2>5. Loop(m, f)
    <3> HIDE DEF turn
    <3> QED BY <2>3, <2>4
  <2> HIDE DEF f, Loop
  <2> QED BY <2>2, <2>5
<1>3. n \in Found
  <2> HIDE DEF Found
  <2> QED BY <1>1, <1>2, Induction
<1>4. \E f : Loop(1, f)
  <2> HIDE DEF Loop
  <2> QED BY <1>3
<1> DEFINE e == CHOOSE e : Loop(1, e)
<1>5. Loop(1, e)
  <2> HIDE DEF Loop
  <2> QED BY <1>4
<1>6. Doubled(n) = e
  BY DEF Doubled
<1>7. \A k \in 1 .. n : e[k] = turn(e, k)
  <2> HIDE DEF turn, e
  <2> QED BY <1>5
<1> HIDE DEF e
<1> QED BY <1>6, <1>7


\* What it returns splits a slice of two leaves or more properly.
LEMMA ProperSplit ==
  ASSUME NEW n \in Nat, n >= 2
  PROVE  LargestPow2LessThan(n) \in 1 .. n - 1
<1> DEFINE T == {d \in 0 .. n - 1 : \A k \in n - d .. n - 1 : Doubled(n)[k] \in 1 .. n - 1}
<1>1. 0 \in T
  <2>1. n - 0 .. n - 1 = {}
    OBVIOUS
  <2> QED BY <2>1
<1>2. ASSUME NEW d \in 0 .. (n - 1) - 1, d \in T PROVE d + 1 \in T
  <2> DEFINE m == n - (d + 1)
  <2>1. m \in 1 .. n - 1 /\ n - d = m + 1
    OBVIOUS
  <2>2. m * 2 < n => m * 2 \in n - d .. n - 1
    BY <2>1
  <2>3. Doubled(n)[m] = IF m * 2 < n THEN Doubled(n)[m * 2] ELSE m
    BY <2>1, DoubledIs
  <2>4. Doubled(n)[m] \in 1 .. n - 1
    BY <1>2, <2>1, <2>2, <2>3
  <2>5. n - (d + 1) .. n - 1 = {m} \cup (n - d .. n - 1)
    BY <2>1
  <2> HIDE DEF m
  <2> QED BY <1>2, <2>4, <2>5
<1>3. n - 1 \in T
  <2>1. n - 1 \in Nat
    OBVIOUS
  <2> HIDE DEF T
  <2> QED BY <1>1, <1>2, <2>1, Induction
<1>4. Doubled(n)[1] \in 1 .. n - 1
  BY <1>3
<1> QED BY <1>4 DEF LargestPow2LessThan

\* The powers of two, as far as they are needed.
ArePowers(span, h) ==
  /\ DOMAIN span = 0 .. h
  /\ span[0] = 1
  /\ \A k \in 0 .. h : span[k] \in Nat \ {0}
  /\ \A k \in 0 .. h - 1 : span[k + 1] = 2 * span[k]

LEMMA PowersExist ==
  ASSUME NEW h \in Nat
  PROVE  \E span : ArePowers(span, h)
<1> DEFINE T == {m \in 0 .. h : \E span : ArePowers(span, m)}
<1>1. 0 \in T
  <2> DEFINE s == [k \in 0 .. 0 |-> 1]
  <2>1. ArePowers(s, 0)
    BY DEF ArePowers
  <2> HIDE DEF s
  <2> QED BY <2>1
<1>2. ASSUME NEW m \in 0 .. h - 1, m \in T PROVE m + 1 \in T
  <2>1. PICK r0 : ArePowers(r0, m)
    BY <1>2
  <2> DEFINE s == [k \in 0 .. m + 1 |-> IF k = m + 1 THEN 2 * r0[m] ELSE r0[k]]
  <2>2. r0[m] \in Nat \ {0}
    BY <2>1 DEF ArePowers
  <2>3. DOMAIN s = 0 .. m + 1 /\ s[m + 1] = 2 * r0[m] /\ \A k \in 0 .. m : s[k] = r0[k]
    OBVIOUS
  <2> HIDE DEF s
  <2>4. s[0] = 1
    BY <2>1, <2>3 DEF ArePowers
  <2>5. ASSUME NEW k \in 0 .. m + 1 PROVE s[k] \in Nat \ {0}
    <3>1. CASE k = m + 1
      BY <2>2, <2>3, <3>1
    <3>2. CASE k \in 0 .. m
      BY <2>1, <2>3, <3>2 DEF ArePowers
    <3> QED BY <3>1, <3>2
  <2>6. ASSUME NEW k \in 0 .. (m + 1) - 1 PROVE s[k + 1] = 2 * s[k]
    <3>1. CASE k = m
      BY <2>3, <3>1
    <3>2. CASE k \in 0 .. m - 1
      BY <2>1, <2>3, <3>2 DEF ArePowers
    <3> QED BY <3>1, <3>2
  <2>7. ArePowers(s, m + 1)
    BY <2>3, <2>4, <2>5, <2>6 DEF ArePowers
  <2> QED BY <2>7
<1>3. h \in T
  <2> HIDE DEF T
  <2> QED BY <1>1, <1>2, Induction
<1> QED BY <1>3

\* They grow.
LEMMA PowersGrow ==
  ASSUME NEW h \in Nat, NEW span, ArePowers(span, h), NEW k \in 0 .. h
  PROVE  \A j \in 0 .. k : span[j] <= span[k]
<1> DEFINE T == {d \in 0 .. k : span[k - d] <= span[k]}
<1>1. 0 \in T
  BY DEF ArePowers
<1>2. ASSUME NEW d \in 0 .. k - 1, d \in T PROVE d + 1 \in T
  <2>1. k - (d + 1) \in 0 .. h - 1 /\ (k - (d + 1)) + 1 = k - d
    OBVIOUS
  <2> DEFINE i == k - (d + 1)
  <2>2. span[i + 1] = 2 * span[i] /\ span[i] \in Nat /\ span[k] \in Nat /\ i + 1 = k - d
    BY <2>1 DEF ArePowers
  <2>3. span[i + 1] <= span[k]
    BY <1>2, <2>2
  <2>4. span[i] <= span[k]
    <3> HIDE DEF i
    <3> QED BY <2>2, <2>3
  <2> QED BY <2>4
<1>3. \A d \in 0 .. k : d \in T
  <2> HIDE DEF T
  <2> QED BY <1>1, <1>2, Induction
<1> SUFFICES ASSUME NEW j \in 0 .. k PROVE span[j] <= span[k]
  OBVIOUS
<1>4. k - j \in 0 .. k /\ k - (k - j) = j
  OBVIOUS
<1> QED BY <1>3, <1>4

\* _largest_pow2_less_than returns the power of two it is named for.
LEMMA LargestPowerIs ==
  ASSUME NEW h \in Nat, NEW span, ArePowers(span, h), NEW k \in 0 .. h,
         NEW n \in Nat, span[k] < n, n <= 2 * span[k]
  PROVE  LargestPow2LessThan(n) = span[k]
<1> DEFINE T == {j \in 0 .. k : Doubled(n)[1] = Doubled(n)[span[j]]}
<1>1. 0 \in T
  BY DEF ArePowers
<1>2. ASSUME NEW j \in 0 .. k - 1, j \in T PROVE j + 1 \in T
  <2>1. span[j + 1] = 2 * span[j] /\ span[j] \in Nat \ {0}
    BY DEF ArePowers
  <2>2. span[j + 1] <= span[k]
    BY PowersGrow
  <2>3. span[k] \in Nat
    BY DEF ArePowers
  <2>4. span[j] \in 1 .. n /\ span[j] * 2 < n /\ span[j] * 2 = span[j + 1]
    BY <2>1, <2>2, <2>3
  <2>5. Doubled(n)[span[j]] = Doubled(n)[span[j + 1]]
    BY <2>4, DoubledIs
  <2> QED BY <1>2, <2>5
<1>3. k \in T
  <2> HIDE DEF T
  <2> QED BY <1>1, <1>2, Induction
<1>4. span[k] \in 1 .. n /\ ~(span[k] * 2 < n) /\ n >= 2
  BY DEF ArePowers
<1>5. Doubled(n)[span[k]] = span[k]
  BY <1>4, DoubledIs
<1> QED BY <1>3, <1>4, <1>5 DEF LargestPow2LessThan

\* merkle_root of a slice, from those of its two halves.
LEMMA RootsAre ==
  ASSUME NEW leaves, Len(leaves) \in Nat,
         NEW size \in 1 .. Len(leaves), NEW from \in 0 .. Len(leaves) - size,
         NEW split, split = LargestPow2LessThan(size)
  PROVE  Roots(leaves)[size][from] =
           IF size = 1 THEN leaves[from + 1]
           ELSE node_hash(Roots(leaves)[split][from],
                          Roots(leaves)[size - split][from + split])
<1>0. PICK n \in Nat : n = Len(leaves)
  OBVIOUS
<1> DEFINE root(f, len) ==
             [lo \in 0 .. n - len |->
                LET k == LargestPow2LessThan(len)
                IN IF len = 1 THEN leaves[lo + 1]
                   ELSE node_hash(f[k][lo], f[len - k][lo + k])]
           Loop(m, f) == f = [len \in 1 .. m |-> root(f, len)]
           Found == {m \in 0 .. n : \E f : Loop(m, f)}
<1>1. 0 \in Found
  <2> DEFINE f == [len \in 1 .. 0 |-> len]
  <2>1. Loop(0, f)
    OBVIOUS
  <2> HIDE DEF f, Loop
  <2> QED BY <2>1
<1>2. ASSUME NEW m \in 0 .. n - 1, m \in Found PROVE m + 1 \in Found
  <2>1. PICK g : Loop(m, g)
    BY <1>2
  <2> DEFINE f == [len \in 1 .. m + 1 |-> IF len = m + 1 THEN root(g, m + 1) ELSE g[len]]
  <2>2. \A len \in 1 .. m : f[len] = g[len]
    OBVIOUS
  <2>3. ASSUME NEW len \in 1 .. m + 1 PROVE f[len] = root(f, len)
    <3>1. root(f, len) = root(g, len)
      <4>1. CASE len = 1
        BY <4>1
      <4>2. CASE len # 1
        <5>1. LargestPow2LessThan(len) \in 1 .. len - 1
          BY <4>2, ProperSplit
        <5>2. /\ LargestPow2LessThan(len) \in 1 .. m
              /\ len - LargestPow2LessThan(len) \in 1 .. m
          BY <5>1
        <5> HIDE DEF f
        <5> QED BY <2>2, <5>2
      <4> QED BY <4>1, <4>2
    <3>2. len # m + 1 => g[len] = root(g, len)
      <4>1. len # m + 1 => len \in 1 .. m
        OBVIOUS
      <4> HIDE DEF root
      <4> QED BY <2>1, <4>1
    <3> HIDE DEF root
    <3> QED BY <3>1, <3>2
  <2>4. f = [len \in 1 .. m + 1 |-> f[len]]
    OBVIOUS
  <2>5. Loop(m + 1, f)
    <3> HIDE DEF root
    <3> QED BY <2>3, <2>4
  <2> HIDE DEF f, Loop
  <2> QED BY <2>5
<1>3. n \in Found
  <2> HIDE DEF Found
  <2> QED BY <1>0, <1>1, <1>2, Induction
<1> DEFINE e == CHOOSE e : Loop(n, e)
<1>4. Loop(n, e)
  <2> HIDE DEF Loop
  <2> QED BY <1>3
<1>5. Roots(leaves) = e
  BY <1>0 DEF Roots
<1>6. \A len \in 1 .. n : e[len] = root(e, len)
  <2> HIDE DEF root, e
  <2> QED BY <1>4
<1> HIDE DEF e
<1>7. ASSUME NEW len \in 1 .. n, NEW lo \in 0 .. n - len
      PROVE  e[len][lo] = root(e, len)[lo]
  <2> HIDE DEF root
  <2> QED BY <1>6
<1>8. e[size][from] = root(e, size)[from] /\ size \in 1 .. n /\ from \in 0 .. n - size
  <2> HIDE DEF root
  <2> QED BY <1>0, <1>7
<1> QED BY <1>0, <1>5, <1>8

\* ... and its audit path.
LEMMA PathsAre ==
  ASSUME NEW leaves, Len(leaves) \in Nat, NEW m0,
         NEW size \in 1 .. Len(leaves), NEW from \in 0 .. Len(leaves) - size,
         NEW split, split = LargestPow2LessThan(size)
  PROVE  Paths(m0, leaves)[size][from] =
           IF size = 1 THEN <<>>
           ELSE IF m0 < from + split
           THEN Append(Paths(m0, leaves)[split][from],
                       Roots(leaves)[size - split][from + split])
           ELSE Append(Paths(m0, leaves)[size - split][from + split],
                       Roots(leaves)[split][from])
<1>0. PICK n \in Nat : n = Len(leaves)
  OBVIOUS
<1> DEFINE path(f, len) ==
             [lo \in 0 .. n - len |->
                LET k == LargestPow2LessThan(len)
                IN IF len = 1 THEN <<>>
                   ELSE IF m0 < lo + k
                   THEN Append(f[k][lo], Roots(leaves)[len - k][lo + k])
                   ELSE Append(f[len - k][lo + k], Roots(leaves)[k][lo])]
           Loop(m, f) == f = [len \in 1 .. m |-> path(f, len)]
           Found == {m \in 0 .. n : \E f : Loop(m, f)}
<1>1. 0 \in Found
  <2> DEFINE f == [len \in 1 .. 0 |-> len]
  <2>1. Loop(0, f)
    OBVIOUS
  <2> HIDE DEF f, Loop
  <2> QED BY <2>1
<1>2. ASSUME NEW m \in 0 .. n - 1, m \in Found PROVE m + 1 \in Found
  <2>1. PICK g : Loop(m, g)
    BY <1>2
  <2> DEFINE f == [len \in 1 .. m + 1 |-> IF len = m + 1 THEN path(g, m + 1) ELSE g[len]]
  <2>2. \A len \in 1 .. m : f[len] = g[len]
    OBVIOUS
  <2>3. ASSUME NEW len \in 1 .. m + 1 PROVE f[len] = path(f, len)
    <3>1. path(f, len) = path(g, len)
      <4>1. CASE len = 1
        BY <4>1
      <4>2. CASE len # 1
        <5>1. LargestPow2LessThan(len) \in 1 .. len - 1
          BY <4>2, ProperSplit
        <5>2. /\ LargestPow2LessThan(len) \in 1 .. m
              /\ len - LargestPow2LessThan(len) \in 1 .. m
          BY <5>1
        <5> HIDE DEF f
        <5> QED BY <2>2, <5>2
      <4> QED BY <4>1, <4>2
    <3>2. len # m + 1 => g[len] = path(g, len)
      <4>1. len # m + 1 => len \in 1 .. m
        OBVIOUS
      <4> HIDE DEF path
      <4> QED BY <2>1, <4>1
    <3> HIDE DEF path
    <3> QED BY <3>1, <3>2
  <2>4. f = [len \in 1 .. m + 1 |-> f[len]]
    OBVIOUS
  <2>5. Loop(m + 1, f)
    <3> HIDE DEF path
    <3> QED BY <2>3, <2>4
  <2> HIDE DEF f, Loop
  <2> QED BY <2>5
<1>3. n \in Found
  <2> HIDE DEF Found
  <2> QED BY <1>0, <1>1, <1>2, Induction
<1> DEFINE e == CHOOSE e : Loop(n, e)
<1>4. Loop(n, e)
  <2> HIDE DEF Loop
  <2> QED BY <1>3
<1>5. Paths(m0, leaves) = e
  BY <1>0 DEF Paths
<1>6. \A len \in 1 .. n : e[len] = path(e, len)
  <2> HIDE DEF path, e
  <2> QED BY <1>4
<1> HIDE DEF e
<1>7. ASSUME NEW len \in 1 .. n, NEW lo \in 0 .. n - len
      PROVE  e[len][lo] = path(e, len)[lo]
  <2> HIDE DEF path
  <2> QED BY <1>6
<1>8. e[size][from] = path(e, size)[from] /\ size \in 1 .. n /\ from \in 0 .. n - size
  <2> HIDE DEF path
  <2> QED BY <1>0, <1>7
<1> QED BY <1>0, <1>5, <1>8

-----------------------------------------------------------------------------
(* Levels and slices.  Node i of level k stands for the slice of span[k]   *)
(* leaves that begins at i * span[k], cut off at the end of the list.      *)

Span(t) == CHOOSE span : ArePowers(span, t.height)
First(t, k, i) == i * Span(t)[k]
Length(t, k, i) ==
  IF First(t, k, i) + Span(t)[k] <= t.size THEN Span(t)[k] ELSE t.size - First(t, k, i)

\* The span doubles from level to level.
LEMMA SpanIs ==
  ASSUME NEW t, IsLevelTree(t)
  PROVE  ArePowers(Span(t), t.height)
<1>1. \E span : ArePowers(span, t.height)
  BY PowersExist DEF IsLevelTree
<1> QED BY <1>1 DEF Span

\* Products keep the order of their factors.
LEMMA Multiples ==
  ASSUME NEW a \in Int, NEW b \in Int, NEW s \in Nat, a <= b
  PROVE  a * s <= b * s
OBVIOUS

\* The nodes of a level cover the leaves, and the last one is not empty.
LEMMA LevelCovers ==
  ASSUME NEW t, IsLevelTree(t)
  PROVE  \A k \in 0 .. t.height :
           (t.width[k] - 1) * Span(t)[k] < t.size /\ t.size <= t.width[k] * Span(t)[k]
<1> DEFINE n == t.size
           s == Span(t)
           w == t.width
           T == {k \in 0 .. t.height : (w[k] - 1) * s[k] < n /\ n <= w[k] * s[k]}
<1>1. /\ t.height \in Nat /\ n \in Nat \ {0} /\ ArePowers(s, t.height)
      /\ w[0] = n /\ \A k \in 0 .. t.height : w[k] \in Nat \ {0}
      /\ \A k \in 0 .. t.height - 1 : w[k + 1] = (w[k] + 1) \div 2
  BY SpanIs DEF IsLevelTree
<1> HIDE DEF n, s, w
<1>2. 0 \in T
  <2>1. s[0] = 1
    BY <1>1 DEF ArePowers
  <2> QED BY <1>1, <2>1
<1>3. ASSUME NEW k \in 0 .. t.height - 1, k \in T PROVE k + 1 \in T
  <2>1. /\ k \in 0 .. t.height /\ k + 1 \in 0 .. t.height
        /\ w[k] \in Nat \ {0} /\ w[k + 1] = (w[k] + 1) \div 2
        /\ s[k] \in Nat \ {0} /\ s[k + 1] = 2 * s[k]
    BY <1>1 DEF ArePowers
  <2>2. PICK a \in Nat \ {0} : a = w[k]
    BY <2>1
  <2>3. PICK b \in Nat \ {0} : b = s[k]
    BY <2>1
  <2>4. PICK c \in Nat \ {0} : c = w[k + 1]
    BY <1>1, <2>1
  <2>5. (a - 1) * b < n /\ n <= a * b
    BY <1>3, <2>2, <2>3
  <2>6. 2 * (c - 1) <= a - 1 /\ a <= 2 * c
    BY <2>1, <2>2, <2>4
  <2>7. (2 * (c - 1)) * b <= (a - 1) * b /\ a * b <= (2 * c) * b
    BY <2>6, Multiples
  <2>8. (2 * (c - 1)) * b = (c - 1) * (2 * b) /\ (2 * c) * b = c * (2 * b)
    OBVIOUS
  <2>9. (c - 1) * (2 * b) < n /\ n <= c * (2 * b)
    <3>1. /\ (a - 1) * b \in Int /\ a * b \in Int
          /\ (c - 1) * (2 * b) \in Int /\ c * (2 * b) \in Int
      OBVIOUS
    <3> QED BY <1>1, <2>5, <2>7, <2>8, <3>1
  <2> QED BY <2>1, <2>3, <2>4, <2>9
<1>4. \A k \in 0 .. t.height : k \in T
  <2> HIDE DEF T
  <2> QED BY <1>1, <1>2, <1>3, Induction
<1> QED BY <1>4 DEF n, s, w

\* A slice lies within the list.
LEMMA SliceInList ==
  ASSUME NEW t, IsLevelTree(t), NEW k \in 0 .. t.height, NEW i \in 0 .. t.width[k] - 1
  PROVE  /\ Span(t)[k] \in Nat \ {0} /\ First(t, k, i) \in Nat
         /\ Length(t, k, i) \in 1 .. t.size
         /\ First(t, k, i) \in 0 .. t.size - Length(t, k, i)
<1>1. PICK s \in Nat \ {0} : s = Span(t)[k]
  BY SpanIs DEF ArePowers
<1>2. PICK n \in Nat : n = t.size
  BY DEF IsLevelTree
<1>3. PICK w \in Nat \ {0} : w = t.width[k]
  BY DEF IsLevelTree
<1>4. i \in Nat /\ i <= w - 1
  BY <1>3
<1>5. i * s <= (w - 1) * s
  BY <1>1, <1>3, <1>4, Multiples
<1>6. (w - 1) * s < n
  BY <1>1, <1>2, <1>3, LevelCovers
<1>7. i * s \in Nat /\ (w - 1) * s \in Int
  BY <1>4
<1>8. i * s < n
  BY <1>5, <1>6, <1>7
<1>9. First(t, k, i) = i * s
  BY <1>1 DEF First
<1>10. PICK f \in Nat : f = i * s
  BY <1>7
<1> QED BY <1>1, <1>2, <1>8, <1>9, <1>10 DEF Length

\* The slice of a node is that of its left child and, if it has one, that of
\* its right child; and it is split where merkle_root splits it.
LEMMA SliceOfParent ==
  ASSUME NEW t, IsLevelTree(t), NEW k \in 0 .. t.height - 1, NEW i \in 0 .. t.width[k + 1] - 1
  PROVE  /\ 2 * i \in 0 .. t.width[k] - 1
         /\ First(t, k, 2 * i) = First(t, k + 1, i)
         /\ 2 * i + 1 < t.width[k] =>
              /\ 2 * i + 1 \in 0 .. t.width[k] - 1
              /\ Length(t, k + 1, i) # 1
              /\ LargestPow2LessThan(Length(t, k + 1, i)) = Span(t)[k]
              /\ Length(t, k, 2 * i) = Span(t)[k]
              /\ First(t, k, 2 * i + 1) = First(t, k + 1, i) + Span(t)[k]
              /\ Length(t, k, 2 * i + 1) = Length(t, k + 1, i) - Span(t)[k]
         /\ ~(2 * i + 1 < t.width[k]) => Length(t, k, 2 * i) = Length(t, k + 1, i)
<1>0. k \in 0 .. t.height /\ k + 1 \in 0 .. t.height /\ t.height \in Nat
  BY DEF IsLevelTree
<1>1. PICK s \in Nat \ {0} : s = Span(t)[k] /\ 2 * s = Span(t)[k + 1]
  BY <1>0, SpanIs DEF ArePowers
<1>2. PICK n \in Nat : n = t.size
  BY DEF IsLevelTree
<1>3. PICK w \in Nat \ {0} : w = t.width[k] /\ t.width[k + 1] = (w + 1) \div 2
  BY <1>0 DEF IsLevelTree
<1>4. i \in Nat /\ 2 * i <= w - 1 /\ 2 * i \in 0 .. w - 1
  BY <1>3
<1>5. PICK lo \in Nat : lo = i * (2 * s)
  BY <1>4
<1>6. /\ First(t, k + 1, i) = lo /\ First(t, k, 2 * i) = lo
      /\ First(t, k, 2 * i + 1) = lo + s
  BY <1>1, <1>4, <1>5 DEF First
<1>7. (w - 1) * s < n /\ n <= w * s /\ (w - 1) * s \in Int /\ w * s \in Int
  BY <1>0, <1>1, <1>2, <1>3, LevelCovers
<1>8. ASSUME 2 * i + 1 < w
      PROVE  /\ lo + s < n
             /\ Length(t, k + 1, i) # 1
             /\ LargestPow2LessThan(Length(t, k + 1, i)) = s
             /\ Length(t, k, 2 * i) = s
             /\ Length(t, k, 2 * i + 1) = Length(t, k + 1, i) - s
  <2>1. (2 * i + 1) * s <= (w - 1) * s
    BY <1>4, <1>8, Multiples
  <2>2. (2 * i + 1) * s = lo + s
    BY <1>4, <1>5
  <2>3. lo + s < n
    BY <1>7, <2>1, <2>2
  <2>4. Length(t, k, 2 * i) = s
    BY <1>1, <1>2, <1>6, <2>3 DEF Length
  <2>5. PICK len \in Nat : len = Length(t, k + 1, i)
    BY <1>0, SliceInList
  <2>6. len = IF lo + 2 * s <= n THEN 2 * s ELSE n - lo
    BY <1>1, <1>2, <1>6, <2>5 DEF Length
  <2>7. s < len /\ len <= 2 * s
    BY <2>3, <2>6
  <2>8. LargestPow2LessThan(len) = s
    BY <1>0, <1>1, <2>7, SpanIs, LargestPowerIs
  <2>9. Length(t, k, 2 * i + 1) = len - s
    BY <1>1, <1>2, <1>6, <2>6 DEF Length
  <2> QED BY <2>3, <2>4, <2>5, <2>7, <2>8, <2>9
<1>9. ASSUME ~(2 * i + 1 < w) PROVE Length(t, k, 2 * i) = Length(t, k + 1, i)
  <2>1. w = 2 * i + 1
    BY <1>4, <1>9
  <2>2. w * s = lo + s
    BY <1>4, <1>5, <2>1
  <2>3. n <= lo + s
    BY <1>7, <2>2
  <2> QED BY <1>1, <1>2, <1>6, <2>3 DEF Length
<1> QED BY <1>1, <1>3, <1>4, <1>6, <1>8, <1>9

\* The list the tree was built from.
LEMMA ListOfLeaves ==
  ASSUME NEW t, IsLevelTree(t)
  PROVE  /\ Len(LeafList(t)) = t.size /\ Len(LeafList(t)) \in Nat \ {0}
         /\ \A i \in 0 .. t.size - 1 : LeafList(t)[i + 1] = t.node[0][i]
BY DEF IsLevelTree, LeafList

\* merkle_root of the slice of a node is the node.
LEMMA NodesAreRoots ==
  ASSUME NEW t, IsLevelTree(t)
  PROVE  \A k \in 0 .. t.height : \A i \in 0 .. t.width[k] - 1 :
           Roots(LeafList(t))[Length(t, k, i)][First(t, k, i)] = t.node[k][i]
<1> DEFINE root == Roots(LeafList(t))
           Agree(k) == \A i \in 0 .. t.width[k] - 1 :
                         root[Length(t, k, i)][First(t, k, i)] = t.node[k][i]
           T == {k \in 0 .. t.height : Agree(k)}
<1>1. /\ t.height \in Nat /\ t.size \in Nat \ {0} /\ t.width[0] = t.size
      /\ Len(LeafList(t)) = t.size
  BY ListOfLeaves DEF IsLevelTree
<1>rec. ASSUME NEW len \in 1 .. t.size, NEW lo \in 0 .. t.size - len
        PROVE  LET k == LargestPow2LessThan(len)
               IN root[len][lo] = IF len = 1 THEN LeafList(t)[lo + 1]
                                  ELSE node_hash(root[k][lo], root[len - k][lo + k])
  <2>1. /\ Len(LeafList(t)) \in Nat /\ len \in 1 .. Len(LeafList(t))
        /\ lo \in 0 .. Len(LeafList(t)) - len
    BY <1>1
  <2> QED BY <2>1, RootsAre
<1>2. 0 \in T
  <2> SUFFICES ASSUME NEW i \in 0 .. t.size - 1
               PROVE  root[Length(t, 0, i)][First(t, 0, i)] = t.node[0][i]
    BY <1>1
  <2>1. Span(t)[0] = 1
    BY SpanIs DEF ArePowers
  <2>2. First(t, 0, i) = i /\ Length(t, 0, i) = 1
    BY <1>1, <2>1 DEF First, Length
  <2>3. root[1][i] = LeafList(t)[i + 1]
    <3>1. 1 \in 1 .. t.size /\ i \in 0 .. t.size - 1
      BY <1>1
    <3> HIDE DEF root
    <3> QED BY <1>rec, <3>1
  <2> QED BY <2>2, <2>3, ListOfLeaves
<1>3. ASSUME NEW k \in 0 .. t.height - 1, k \in T PROVE k + 1 \in T
  <2>0. k \in 0 .. t.height /\ k + 1 \in 0 .. t.height
    BY <1>1
  <2> SUFFICES ASSUME NEW i \in 0 .. t.width[k + 1] - 1
               PROVE  root[Length(t, k + 1, i)][First(t, k + 1, i)] = t.node[k + 1][i]
    BY <2>0
  <2> DEFINE len == Length(t, k + 1, i)
             lo == First(t, k + 1, i)
             s == Span(t)[k]
  <2>1. len \in 1 .. t.size /\ lo \in 0 .. t.size - len
    BY <2>0, SliceInList
  <2>2. t.node[k + 1][i] = Combined(t.node, t.width, k, i)
    BY DEF IsLevelTree
  <2>3. CASE 2 * i + 1 < t.width[k]
    <3>1. /\ len # 1 /\ LargestPow2LessThan(len) = s
          /\ Length(t, k, 2 * i) = s /\ First(t, k, 2 * i) = lo
          /\ First(t, k, 2 * i + 1) = lo + s /\ Length(t, k, 2 * i + 1) = len - s
          /\ 2 * i \in 0 .. t.width[k] - 1 /\ 2 * i + 1 \in 0 .. t.width[k] - 1
      BY <2>3, SliceOfParent
    <3>2. root[len][lo] = node_hash(root[s][lo], root[len - s][lo + s])
      <4> HIDE DEF root, len, lo, s
      <4> QED BY <1>rec, <2>1, <3>1
    <3>3. root[s][lo] = t.node[k][2 * i] /\ root[len - s][lo + s] = t.node[k][2 * i + 1]
      BY <1>3, <3>1
    <3> QED BY <2>2, <2>3, <3>2, <3>3 DEF Combined
  <2>4. CASE ~(2 * i + 1 < t.width[k])
    <3>1. /\ Length(t, k, 2 * i) = len /\ First(t, k, 2 * i) = lo
          /\ 2 * i \in 0 .. t.width[k] - 1
      BY <2>4, SliceOfParent
    <3>2. root[len][lo] = t.node[k][2 * i]
      BY <1>3, <3>1
    <3> QED BY <2>2, <2>4, <3>2 DEF Combined
  <2> QED BY <2>3, <2>4
<1>4. \A k \in 0 .. t.height : k \in T
  <2> HIDE DEF T
  <2> QED BY <1>1, <1>2, <1>3, Induction
<1> QED BY <1>4

\* The root is the node of the whole list.
LEMMA WholeList ==
  ASSUME NEW t, IsLevelTree(t)
  PROVE  /\ t.height \in 0 .. t.height /\ 0 \in 0 .. t.width[t.height] - 1
         /\ First(t, t.height, 0) = 0 /\ Length(t, t.height, 0) = t.size
<1>1. /\ t.height \in Nat /\ t.size \in Nat \ {0} /\ t.width[t.height] = 1
  BY DEF IsLevelTree
<1>2. Span(t)[t.height] \in Nat /\ t.size <= 1 * Span(t)[t.height]
  BY <1>1, LevelCovers, SpanIs DEF ArePowers
<1>3. First(t, t.height, 0) = 0
  BY <1>2 DEF First
<1> QED BY <1>1, <1>2, <1>3 DEF Length

(***************************************************************************)
(* The level rule and the split at the largest power of two build the same *)
(* tree: for every number of leaves, merkle_root of the leaves is the root *)
(* that folding neighbours level by level arrives at, which is the order   *)
(* verify_inclusion walks in.                                              *)
(***************************************************************************)
THEOREM LevelsAreTheRecursion ==
  ASSUME NEW t, IsLevelTree(t)
  PROVE  merkle_root(LeafList(t)) = Root(t)
BY NodesAreRoots, WholeList, ListOfLeaves DEF merkle_root, Root

-----------------------------------------------------------------------------
(* Audit paths, level by level.                                            *)

IsSeq(s) == s \in Seq({s[i] : i \in DOMAIN s})

\* Node i of level k is above leaf m, and the audit path of m within it.
Above(t, m, k, i) ==
  /\ i \in 0 .. t.width[k] - 1
  /\ First(t, k, i) <= m /\ m < First(t, k, i) + Span(t)[k]

PathTo(t, m, k, i) == Paths(m, LeafList(t))[Length(t, k, i)][First(t, k, i)]

\* What is appended comes last; what was there stays.
LEMMA Appended ==
  ASSUME NEW s, IsSeq(s), NEW x
  PROVE  /\ IsSeq(Append(s, x))
         /\ Len(s) \in Nat /\ Len(Append(s, x)) = Len(s) + 1
         /\ Append(s, x)[Len(s) + 1] = x
         /\ \A i \in 1 .. Len(s) : Append(s, x)[i] = s[i]
<1> DEFINE S == {s[i] : i \in DOMAIN s} \cup {x}
<1>1. s \in Seq(S) /\ x \in S
  BY DEF IsSeq
<1> HIDE DEF S
<1>2. Append(s, x) \in Seq(S) /\ Len(s) \in Nat /\ Len(Append(s, x)) = Len(s) + 1
  BY <1>1
<1>3. /\ Append(s, x)[Len(s) + 1] = x
      /\ \A i \in 1 .. Len(s) : Append(s, x)[i] = s[i]
  BY <1>1
<1> QED BY <1>2, <1>3 DEF IsSeq

\* An audit path is a finite sequence.
LEMMA PathsAreLists ==
  ASSUME NEW leaves, Len(leaves) \in Nat, NEW m0
  PROVE  \A len \in 1 .. Len(leaves) : \A lo \in 0 .. Len(leaves) - len :
           IsSeq(Paths(m0, leaves)[len][lo])
<1>0. PICK n \in Nat : n = Len(leaves)
  OBVIOUS
<1> DEFINE path == Paths(m0, leaves)
           T == {l \in 0 .. n : \A len \in 1 .. l : \A lo \in 0 .. n - len : IsSeq(path[len][lo])}
<1>1. 0 \in T
  <2>1. 1 .. 0 = {}
    OBVIOUS
  <2> QED BY <1>0, <2>1
<1>2. ASSUME NEW l \in 0 .. n - 1, l \in T PROVE l + 1 \in T
  <2>1. ASSUME NEW lo \in 0 .. n - (l + 1) PROVE IsSeq(path[l + 1][lo])
    <3>1. PICK b \in 1 .. n : b = l + 1 /\ lo \in 0 .. n - b
      BY <1>0
    <3> DEFINE k == LargestPow2LessThan(b)
    <3>2. path[b][lo] =
            IF b = 1 THEN <<>>
            ELSE IF m0 < lo + k
            THEN Append(path[k][lo], Roots(leaves)[b - k][lo + k])
            ELSE Append(path[b - k][lo + k], Roots(leaves)[k][lo])
      BY <1>0, <3>1, PathsAre
    <3>3. CASE b = 1
      BY <3>1, <3>2, <3>3 DEF IsSeq
    <3>4. CASE b # 1
      <4>1. k \in 1 .. l
        BY <1>0, <3>1, <3>4, ProperSplit
      <4> HIDE DEF k
      <4>2. b - k \in 1 .. l /\ lo + k \in 0 .. n - (b - k) /\ lo \in 0 .. n - k
        BY <1>0, <3>1, <4>1
      <4>3. IsSeq(path[k][lo]) /\ IsSeq(path[b - k][lo + k])
        BY <1>2, <4>1, <4>2
      <4> HIDE DEF path
      <4>4. IsSeq(path[b][lo])
        BY <3>2, <3>4, <4>3, Appended
      <4> QED BY <3>1, <4>4
    <3> QED BY <3>3, <3>4
  <2>2. 1 .. l + 1 = 1 .. l \cup {l + 1} /\ l + 1 \in 0 .. n
    BY <1>0
  <2> HIDE DEF path
  <2> QED BY <1>2, <2>1, <2>2
<1>3. n \in T
  <2> HIDE DEF T
  <2> QED BY <1>0, <1>1, <1>2, Induction
<1> QED BY <1>0, <1>3

\* At its own leaf the path is empty; at the root it is audit_path's.
LEMMA PathEnds ==
  ASSUME NEW t, IsLevelTree(t), NEW m \in 0 .. t.size - 1
  PROVE  /\ Above(t, m, 0, m) /\ PathTo(t, m, 0, m) = <<>>
         /\ PathTo(t, m, t.height, 0) = audit_path(m, LeafList(t))
<1>1. t.size \in Nat \ {0} /\ t.width[0] = t.size /\ 0 \in 0 .. t.height
  BY DEF IsLevelTree
<1>2. Span(t)[0] = 1
  BY SpanIs DEF ArePowers
<1>3. First(t, 0, m) = m /\ Length(t, 0, m) = 1
  BY <1>1, <1>2 DEF First, Length
<1>4. Paths(m, LeafList(t))[1][m] = <<>>
  <2>1. /\ Len(LeafList(t)) \in Nat /\ 1 \in 1 .. Len(LeafList(t))
        /\ m \in 0 .. Len(LeafList(t)) - 1
    BY <1>1, ListOfLeaves
  <2> QED BY <2>1, PathsAre
<1> QED BY <1>1, <1>2, <1>3, <1>4, WholeList, ListOfLeaves DEF Above, PathTo, audit_path

\* From a node to its parent, the path grows by the sibling if there is one.
LEMMA PathGrows ==
  ASSUME NEW t, IsLevelTree(t), NEW m \in 0 .. t.size - 1,
         NEW k \in 0 .. t.height - 1, NEW i, Above(t, m, k, i)
  PROVE  /\ Above(t, m, k + 1, i \div 2)
         /\ PathTo(t, m, k + 1, i \div 2) =
              IF i % 2 = 1 THEN Append(PathTo(t, m, k, i), t.node[k][i - 1])
              ELSE IF i # t.width[k] - 1 THEN Append(PathTo(t, m, k, i), t.node[k][i + 1])
              ELSE PathTo(t, m, k, i)
<1>1. /\ t.height \in Nat /\ k \in 0 .. t.height /\ k + 1 \in 0 .. t.height
      /\ t.width[k] \in Nat \ {0} /\ t.width[k + 1] = (t.width[k] + 1) \div 2
      /\ t.size \in Nat \ {0}
  BY DEF IsLevelTree
<1>2. PICK s \in Nat \ {0} : s = Span(t)[k] /\ Span(t)[k + 1] = 2 * s
  BY <1>1, SpanIs DEF ArePowers
<1>3. PICK j \in Nat : j = i \div 2
  BY <1>1 DEF Above
<1>4. i \in Nat /\ i < t.width[k] /\ j \in 0 .. t.width[k + 1] - 1 /\ (i = 2 * j \/ i = 2 * j + 1)
  BY <1>1, <1>3 DEF Above
<1> DEFINE path == Paths(m, LeafList(t))
           root == Roots(LeafList(t))
           len == Length(t, k + 1, j)
           lo == First(t, k + 1, j)
<1>5. len \in 1 .. t.size /\ lo \in 0 .. t.size - len
  BY <1>1, <1>4, SliceInList
<1>6. LET h == LargestPow2LessThan(len)
      IN path[len][lo] = IF len = 1 THEN <<>>
                         ELSE IF m < lo + h
                         THEN Append(path[h][lo], root[len - h][lo + h])
                         ELSE Append(path[len - h][lo + h], root[h][lo])
  <2>1. /\ Len(LeafList(t)) \in Nat /\ len \in 1 .. Len(LeafList(t))
        /\ lo \in 0 .. Len(LeafList(t)) - len
    BY <1>5, ListOfLeaves
  <2> HIDE DEF len, lo
  <2> QED BY <2>1, PathsAre
<1>7. /\ 2 * j \in 0 .. t.width[k] - 1 /\ First(t, k, 2 * j) = lo
      /\ 2 * j + 1 < t.width[k] =>
           /\ 2 * j + 1 \in 0 .. t.width[k] - 1
           /\ len # 1 /\ LargestPow2LessThan(len) = s
           /\ Length(t, k, 2 * j) = s /\ First(t, k, 2 * j + 1) = lo + s
           /\ Length(t, k, 2 * j + 1) = len - s
           /\ root[s][lo] = t.node[k][2 * j]
           /\ root[len - s][lo + s] = t.node[k][2 * j + 1]
      /\ ~(2 * j + 1 < t.width[k]) => Length(t, k, 2 * j) = len
  <2>1. /\ 2 * j \in 0 .. t.width[k] - 1 /\ First(t, k, 2 * j) = lo
        /\ 2 * j + 1 < t.width[k] =>
             /\ 2 * j + 1 \in 0 .. t.width[k] - 1
             /\ len # 1 /\ LargestPow2LessThan(len) = s
             /\ Length(t, k, 2 * j) = s /\ First(t, k, 2 * j + 1) = lo + s
             /\ Length(t, k, 2 * j + 1) = len - s
        /\ ~(2 * j + 1 < t.width[k]) => Length(t, k, 2 * j) = len
    BY <1>2, <1>4, SliceOfParent
  <2>2. \A x \in 0 .. t.width[k] - 1 : root[Length(t, k, x)][First(t, k, x)] = t.node[k][x]
    BY <1>1, NodesAreRoots
  <2>3. root[Length(t, k, 2 * j)][First(t, k, 2 * j)] = t.node[k][2 * j]
    BY <2>1, <2>2
  <2>4. 2 * j + 1 < t.width[k] =>
          root[Length(t, k, 2 * j + 1)][First(t, k, 2 * j + 1)] = t.node[k][2 * j + 1]
    BY <2>1, <2>2
  <2> HIDE DEF root, len, lo
  <2> QED BY <2>1, <2>3, <2>4
<1>8. First(t, k, i) <= m /\ m < First(t, k, i) + s /\ lo \in Nat /\ m \in Nat
  BY <1>2, <1>5 DEF Above
<1> HIDE DEF path, root, len, lo
<1>9. Above(t, m, k + 1, j)
  <2>1. First(t, k, i) = lo \/ First(t, k, i) = lo + s
    BY <1>4, <1>7
  <2>2. lo <= m /\ m < lo + 2 * s
    BY <1>8, <2>1
  <2> QED BY <1>2, <1>4, <2>2 DEF Above, lo
<1>10. PathTo(t, m, k + 1, j) = path[len][lo] /\ PathTo(t, m, k, i) = path[Length(t, k, i)][First(t, k, i)]
  BY DEF PathTo, path, len, lo
<1>11. CASE i = 2 * j + 1
  <2>1. i % 2 = 1 /\ i - 1 = 2 * j /\ First(t, k, i) = lo + s /\ ~(m < lo + s)
    BY <1>4, <1>7, <1>8, <1>11
  <2>2. path[len][lo] = Append(path[len - s][lo + s], root[s][lo])
    BY <1>4, <1>6, <1>7, <1>11, <2>1
  <2>3. path[len][lo] = Append(PathTo(t, m, k, i), t.node[k][i - 1])
    BY <1>4, <1>7, <1>10, <1>11, <2>1, <2>2
  <2> QED BY <1>3, <1>9, <1>10, <2>1, <2>3
<1>12. CASE i = 2 * j /\ 2 * j + 1 < t.width[k]
  <2>1. i % 2 # 1 /\ i # t.width[k] - 1 /\ First(t, k, i) = lo /\ m < lo + s
    BY <1>1, <1>3, <1>7, <1>8, <1>12
  <2>2. path[len][lo] = Append(path[s][lo], root[len - s][lo + s])
    BY <1>6, <1>7, <1>12, <2>1
  <2>3. path[len][lo] = Append(PathTo(t, m, k, i), t.node[k][i + 1])
    BY <1>7, <1>10, <1>12, <2>2
  <2> QED BY <1>3, <1>9, <1>10, <2>1, <2>3
<1>13. CASE i = 2 * j /\ ~(2 * j + 1 < t.width[k])
  <2>1. i % 2 # 1 /\ i = t.width[k] - 1
    BY <1>1, <1>4, <1>13
  <2>2. path[len][lo] = PathTo(t, m, k, i)
    BY <1>7, <1>10, <1>13
  <2> QED BY <1>3, <1>9, <1>10, <2>1, <2>2
<1> QED BY <1>4, <1>11, <1>12, <1>13

\* Below the root, the path to a node is a proper prefix of the whole.
LEMMA ProperPrefix ==
  ASSUME NEW t, IsLevelTree(t), NEW m \in 0 .. t.size - 1
  PROVE  \A k \in 0 .. t.height : \A i :
           LET whole == audit_path(m, LeafList(t))
           IN Above(t, m, k, i) =>
                /\ IsSeq(PathTo(t, m, k, i)) /\ IsSeq(whole)
                /\ Len(PathTo(t, m, k, i)) <= Len(whole)
                /\ k # t.height => Len(PathTo(t, m, k, i)) < Len(whole)
                /\ \A j \in 1 .. Len(PathTo(t, m, k, i)) : whole[j] = PathTo(t, m, k, i)[j]
<1> DEFINE whole == audit_path(m, LeafList(t))
           Prefix(k, i) ==
             /\ Len(PathTo(t, m, k, i)) <= Len(whole)
             /\ k # t.height => Len(PathTo(t, m, k, i)) < Len(whole)
             /\ \A j \in 1 .. Len(PathTo(t, m, k, i)) : whole[j] = PathTo(t, m, k, i)[j]
           T == {d \in 0 .. t.height : \A i : Above(t, m, t.height - d, i) => Prefix(t.height - d, i)}
<1>1. /\ t.height \in Nat /\ t.width[t.height] = 1
      /\ \A k \in 0 .. t.height : t.width[k] \in Nat \ {0}
      /\ \A k \in 0 .. t.height - 1 : t.width[k] > 1 /\ t.width[k + 1] = (t.width[k] + 1) \div 2
  BY DEF IsLevelTree
<1>2. ASSUME NEW k \in 0 .. t.height, NEW i, Above(t, m, k, i)
      PROVE  IsSeq(PathTo(t, m, k, i)) /\ Len(PathTo(t, m, k, i)) \in Nat
  <2>1. Length(t, k, i) \in 1 .. t.size /\ First(t, k, i) \in 0 .. t.size - Length(t, k, i)
    BY <1>2, SliceInList DEF Above
  <2>2. IsSeq(PathTo(t, m, k, i))
    BY <2>1, PathsAreLists, ListOfLeaves DEF PathTo
  <2> QED BY <2>2 DEF IsSeq
<1>3. \A i : Above(t, m, t.height, i) => PathTo(t, m, t.height, i) = whole
  <2>1. \A i : Above(t, m, t.height, i) => i = 0
    BY <1>1 DEF Above
  <2> QED BY <2>1, PathEnds
<1>8. IsSeq(whole)
  <2>1. t.size \in 1 .. t.size /\ 0 \in 0 .. t.size - t.size
    BY DEF IsLevelTree
  <2> QED BY <2>1, PathsAreLists, ListOfLeaves DEF whole, audit_path
<1> HIDE DEF whole
<1>4. 0 \in T
  <2>1. t.height \in 0 .. t.height /\ t.height - 0 = t.height
    BY <1>1
  <2> QED BY <1>1, <1>2, <1>3, <2>1
<1>5. ASSUME NEW d \in 0 .. t.height - 1, d \in T PROVE d + 1 \in T
  <2>1. PICK k \in 0 .. t.height - 1 : k = t.height - (d + 1) /\ k + 1 = t.height - d
    BY <1>1
  <2>2. k \in 0 .. t.height /\ k + 1 \in 0 .. t.height /\ k # t.height
    BY <1>1
  <2>3. ASSUME NEW i, Above(t, m, k, i) PROVE Prefix(k, i)
    <3> DEFINE p == PathTo(t, m, k, i)
               q == PathTo(t, m, k + 1, i \div 2)
    <3>1. IsSeq(p) /\ Len(p) \in Nat
      BY <1>2, <2>2, <2>3
    <3>2. Above(t, m, k + 1, i \div 2) /\ (q = p \/ \E x : q = Append(p, x))
      <4>1. /\ Above(t, m, k + 1, i \div 2)
            /\ q = IF i % 2 = 1 THEN Append(p, t.node[k][i - 1])
                   ELSE IF i # t.width[k] - 1 THEN Append(p, t.node[k][i + 1])
                   ELSE p
        BY <2>3, PathGrows
      <4> HIDE DEF p, q
      <4> QED BY <4>1
    <3>3. Prefix(k + 1, i \div 2)
      BY <1>5, <2>1, <3>2
    <3>4. IsSeq(q) /\ Len(q) \in Nat
      BY <1>2, <2>2, <3>2
    <3>5. k + 1 = t.height => \E x : q = Append(p, x)
      <4> SUFFICES ASSUME k + 1 = t.height PROVE \E x : q = Append(p, x)
        OBVIOUS
      <4>0. t.width[k] \in Nat \ {0} /\ t.width[k] > 1 /\ t.width[k + 1] = (t.width[k] + 1) \div 2
        BY <1>1, <2>2
      <4>1. PICK w \in Nat \ {0} : w = t.width[k] /\ w > 1 /\ (w + 1) \div 2 = 1
        BY <1>1, <4>0
      <4>2. w = 2
        <5>1. w < 3
          BY <4>1
        <5> QED BY <4>1, <5>1
      <4>3. i \in 0 .. 1
        BY <2>3, <4>1, <4>2 DEF Above
      <4>4. i % 2 = 1 \/ i # t.width[k] - 1
        BY <4>1, <4>2, <4>3
      <4>5. q = IF i % 2 = 1 THEN Append(p, t.node[k][i - 1])
                ELSE IF i # t.width[k] - 1 THEN Append(p, t.node[k][i + 1])
                ELSE p
        BY <2>3, PathGrows
      <4> HIDE DEF p, q
      <4> QED BY <4>4, <4>5
    <3>6. Len(whole) \in Nat
      BY <1>8 DEF IsSeq
    <3> HIDE DEF p, q
    <3>7. CASE q = p
      <4>1. k + 1 # t.height
        <5> SUFFICES ASSUME k + 1 = t.height PROVE FALSE
          OBVIOUS
        <5>1. PICK x : q = Append(p, x)
          BY <3>5
        <5>2. Len(q) = Len(p) + 1
          BY <3>1, <5>1, Appended
        <5> QED BY <3>1, <3>7, <5>2
      <4> QED BY <3>3, <3>7, <4>1 DEF p, q
    <3>8. CASE \E x : q = Append(p, x)
      <4>1. PICK x : q = Append(p, x)
        BY <3>8
      <4>2. Len(q) = Len(p) + 1 /\ \A j \in 1 .. Len(p) : q[j] = p[j]
        BY <3>1, <4>1, Appended
      <4>3. Len(q) <= Len(whole) /\ \A j \in 1 .. Len(q) : whole[j] = q[j]
        BY <3>3 DEF q
      <4>4. Len(p) < Len(whole) /\ \A j \in 1 .. Len(p) : whole[j] = p[j]
        BY <3>1, <3>6, <4>2, <4>3
      <4> QED BY <3>1, <3>6, <4>4 DEF p
    <3> QED BY <3>2, <3>7, <3>8
  <2> HIDE DEF Prefix
  <2> QED BY <1>1, <2>1, <2>3
<1>6. \A d \in 0 .. t.height : d \in T
  <2> HIDE DEF T
  <2> QED BY <1>1, <1>4, <1>5, Induction
<1>7. ASSUME NEW k \in 0 .. t.height, NEW i, Above(t, m, k, i) PROVE Prefix(k, i)
  <2>1. t.height - k \in 0 .. t.height /\ t.height - (t.height - k) = k
    BY <1>1
  <2> HIDE DEF Prefix
  <2> QED BY <1>6, <1>7, <2>1
<1> QED BY <1>2, <1>7, <1>8 DEF whole

-----------------------------------------------------------------------------
(* The walk follows the audit path.                                        *)

Whole == audit_path(claim.leaf_index, LeafList(Committed))
Here == Committed.node[level][fn]
PathHere == PathTo(Committed, claim.leaf_index, level, fn)

\* The call GenuineProofAccepted speaks of.
Genuine ==
  /\ TrueSize
  /\ claim.leaf_index \in 0 .. Committed.size - 1
  /\ LeafInPlace
  /\ claim.path = Whole

\* The walk stands above the leaf it started from.
PlaceInv ==
  (Walking /\ TrueSize) => /\ claim.leaf_index \in 0 .. Committed.size - 1
                           /\ Above(Committed, claim.leaf_index, level, fn)

\* Given the audit path, the walk has the hash of the node it stands at.
\* Inside "shift" one fold is ahead of the level.
GenuineInv ==
  /\ (pc = "loop" /\ Genuine) => r = Here /\ pos = Len(PathHere)
  /\ (pc = "shift" /\ Genuine) => /\ r = node_hash(claim.path[pos], Here)
                                  /\ pos = Len(PathHere) + 1
  /\ (pc = "done" /\ Genuine) => verdict

\* Only the audit path gives the walk the hash of the node it stands at.
OnlyInv ==
  /\ (pc = "loop" /\ TrueSize /\ r = Here)
       => /\ pos = Len(PathHere)
          /\ \A j \in 1 .. pos : claim.path[j] = PathHere[j]
  /\ (pc = "shift" /\ TrueSize /\ r[2] = Here)
       => /\ pos = Len(PathHere) + 1
          /\ r[1] = claim.path[pos]
          /\ \A j \in 1 .. pos - 1 : claim.path[j] = PathHere[j]
  /\ (Accepted /\ TrueSize) => claim.path = Whole

PathInv == PlaceInv /\ GenuineInv /\ OnlyInv

\* What is known of the audit path wherever the walk stands.
LEMMA Standing ==
  ASSUME IInv, PlaceInv, Walking, TrueSize
  PROVE  /\ IsLevelTree(Committed) /\ claim.leaf_index \in 0 .. Committed.size - 1
         /\ level \in 0 .. Committed.height
         /\ Above(Committed, claim.leaf_index, level, fn)
         /\ Len(PathHere) \in Nat /\ IsSeq(PathHere) /\ Len(Whole) \in Nat /\ IsSeq(Whole)
         /\ \A j \in 1 .. Len(PathHere) : Whole[j] = PathHere[j]
         /\ sn # 0 => Len(PathHere) < Len(Whole)
         /\ sn = 0 => fn = 0 /\ PathHere = Whole /\ Here = Root(Committed)
<1>1. IsLevelTree(Committed)
  BY CommittedTree DEF IInv, TypeOK
<1>2. /\ claim.leaf_index \in 0 .. Committed.size - 1 /\ level \in 0 .. Committed.height
      /\ sn = Committed.width[level] - 1
      /\ fn \in Nat /\ sn \in Nat /\ fn <= sn
      /\ Above(Committed, claim.leaf_index, level, fn)
  BY DEF PlaceInv, IInv, LevelInv, IndexInv, TypeOK
<1>3. /\ IsSeq(PathHere) /\ IsSeq(Whole)
      /\ level # Committed.height => Len(PathHere) < Len(Whole)
      /\ \A j \in 1 .. Len(PathHere) : Whole[j] = PathHere[j]
  BY <1>1, <1>2, ProperPrefix DEF PathHere, Whole
<1>4. Len(PathHere) \in Nat /\ Len(Whole) \in Nat
  BY <1>3 DEF IsSeq
<1>5. ASSUME sn # 0 PROVE level # Committed.height
  BY <1>1, <1>2, <1>5 DEF IsLevelTree
<1>6. ASSUME sn = 0 PROVE fn = 0 /\ PathHere = Whole /\ Here = Root(Committed)
  <2>1. Committed.width[level] = 1 /\ fn = 0
    BY <1>1, <1>2, <1>6 DEF IsLevelTree
  <2>2. level = Committed.height
    BY <1>1, <1>2, <2>1, TopLevel
  <2> QED BY <1>1, <1>2, <2>1, <2>2, PathEnds DEF PathHere, Whole, Here, Root
<1> QED BY <1>1, <1>2, <1>3, <1>4, <1>5, <1>6

\* One level up the audit path goes on with the sibling, if there is one.
LEMMA PathUp ==
  ASSUME IInv, PlaceInv, Walking, TrueSize, sn # 0
  PROVE  /\ Above(Committed, claim.leaf_index, level + 1, fn \div 2)
         /\ PathTo(Committed, claim.leaf_index, level + 1, fn \div 2) =
              IF fn % 2 = 1 THEN Append(PathHere, Committed.node[level][fn - 1])
              ELSE IF fn # sn THEN Append(PathHere, Committed.node[level][fn + 1])
              ELSE PathHere
<1>1. /\ IsLevelTree(Committed) /\ claim.leaf_index \in 0 .. Committed.size - 1
      /\ Above(Committed, claim.leaf_index, level, fn)
  BY Standing
<1>2. level \in 0 .. Committed.height - 1
  BY <1>1, Standing, UpTheTree DEF IsLevelTree
<1>3. sn = Committed.width[level] - 1
  BY DEF IInv, LevelInv
<1>4. /\ Above(Committed, claim.leaf_index, level + 1, fn \div 2)
      /\ PathTo(Committed, claim.leaf_index, level + 1, fn \div 2) =
           IF fn % 2 = 1 THEN Append(PathHere, Committed.node[level][fn - 1])
           ELSE IF fn # Committed.width[level] - 1
           THEN Append(PathHere, Committed.node[level][fn + 1])
           ELSE PathHere
  BY <1>1, <1>2, PathGrows DEF PathHere
<1> QED BY <1>3, <1>4

\* A sibling on the way up is the next entry of the audit path.
LEMMA NextEntry ==
  ASSUME IInv, PlaceInv, Walking, TrueSize, sn # 0, NEW x, NEW up,
         up = PathTo(Committed, claim.leaf_index, level + 1, fn \div 2),
         up = Append(PathHere, x)
  PROVE  /\ Whole[Len(PathHere) + 1] = x
         /\ Len(up) = Len(PathHere) + 1 /\ up[Len(PathHere) + 1] = x
         /\ \A j \in 1 .. Len(PathHere) : up[j] = PathHere[j]
<1>1. /\ Len(up) = Len(PathHere) + 1 /\ up[Len(PathHere) + 1] = x
      /\ \A j \in 1 .. Len(PathHere) : up[j] = PathHere[j]
  BY Standing, Appended
<1>2. /\ IsLevelTree(Committed) /\ claim.leaf_index \in 0 .. Committed.size - 1
      /\ level + 1 \in 0 .. Committed.height
      /\ Above(Committed, claim.leaf_index, level + 1, fn \div 2)
  BY Standing, UpTheTree, PathUp
<1>3. \A j \in 1 .. Len(up) : Whole[j] = up[j]
  <2>1. PICK k, i : k \in 0 .. Committed.height /\ k = level + 1 /\ i = fn \div 2
    BY <1>2
  <2>2. /\ Above(Committed, claim.leaf_index, k, i)
        /\ up = PathTo(Committed, claim.leaf_index, k, i)
    BY <1>2, <2>1
  <2>3. Above(Committed, claim.leaf_index, k, i) =>
          \A j \in 1 .. Len(PathTo(Committed, claim.leaf_index, k, i)) :
            Whole[j] = PathTo(Committed, claim.leaf_index, k, i)[j]
    BY <1>2, <2>1, ProperPrefix DEF Whole
  <2> QED BY <2>2, <2>3, Zenon
<1>4. Len(PathHere) + 1 \in 1 .. Len(up)
  BY <1>1, Standing
<1> QED BY <1>1, <1>3, <1>4

\* A call that states the real size of the tree starts at its own leaf.
LEMMA AtTheLeaf ==
  ASSUME IInv, pc = "call", TrueSize, ~OutOfRange
  PROVE  /\ IsLevelTree(Committed) /\ claim.leaf_index \in 0 .. Committed.size - 1
         /\ Above(Committed, claim.leaf_index, 0, claim.leaf_index)
         /\ PathTo(Committed, claim.leaf_index, 0, claim.leaf_index) = <<>>
         /\ pos = 0 /\ level = 0 /\ r = claim.leaf
<1>1. IsLevelTree(Committed)
  BY CommittedTree DEF IInv, TypeOK
<1>2. claim.leaf_index \in 0 .. Committed.size - 1
  BY DEF IInv, TypeOK, IsClaim, OutOfRange, TrueSize
<1> QED BY <1>1, <1>2, PathEnds DEF IInv, CallInv

\* Sequences of the same length with the same entries are equal.
LEMMA SameEntries ==
  ASSUME NEW s, NEW u, IsSeq(s), IsSeq(u), Len(s) = Len(u),
         \A j \in 1 .. Len(s) : s[j] = u[j]
  PROVE  s = u
<1> DEFINE S == {s[i] : i \in DOMAIN s} \cup {u[i] : i \in DOMAIN u}
<1>1. s \in Seq(S) /\ u \in Seq(S)
  BY DEF IsSeq
<1> HIDE DEF S
<1> QED BY <1>1

\* Each step of the walk keeps to the audit path.
LEMMA NextPath == IInv /\ PathInv /\ [Next]_vars => PathInv'
<1> SUFFICES ASSUME IInv, PathInv, [Next]_vars PROVE PathInv'
  OBVIOUS
<1> USE DEF PathInv
<1>0. /\ claim' = claim
      /\ Committed' = Committed /\ TrueSize' = TrueSize /\ Whole' = Whole
      /\ Genuine' = Genuine
  <2>1. claim' = claim
    BY DEF Next, vars, RejectIndex, SingleLeaf, Start, RejectLongPath, FoldLeftSibling,
           FoldRightSibling, SkipPromotion, Ascend, Conclude, Return
  <2> QED BY <2>1 DEF Committed, TrueSize, Whole, Genuine, LeafInPlace
<1>types. /\ fn \in Nat /\ sn \in Nat /\ level \in Nat /\ pos \in 0 .. Len(claim.path)
          /\ IsSeq(claim.path) /\ Len(claim.path) \in Nat /\ claim.total_leaves \in Nat
  BY DEF IInv, TypeOK, IsClaim, IsSeq
<1>1. CASE RejectIndex
  <2>1. ~Genuine
    BY <1>1, <1>types DEF RejectIndex, OutOfRange, Genuine, TrueSize
  <2> QED BY <1>0, <1>1, <2>1
          DEF RejectIndex, Return, PlaceInv, GenuineInv, OnlyInv, Walking, Accepted
<1>2. CASE SingleLeaf
  <2>1. ASSUME TrueSize
        PROVE  Whole = <<>> /\ (Genuine => claim.leaf = Root(Committed))
    <3>1. /\ IsLevelTree(Committed) /\ claim.leaf_index = 0 /\ Committed.size = 1
          /\ PathTo(Committed, 0, 0, 0) = <<>>
      BY <1>2, <2>1, AtTheLeaf DEF SingleLeaf, TrueSize
    <3>2. Committed.height = 0
      <4>1. 0 \in 0 .. Committed.height /\ Committed.width[0] = 1
        BY <3>1 DEF IsLevelTree
      <4> QED BY <3>1, <4>1, TopLevel
    <3>3. Whole = <<>>
      BY <3>1, <3>2, PathEnds DEF Whole
    <3> QED BY <3>1, <3>2, <3>3 DEF Genuine, LeafInPlace, Root
  <2>2. Len(claim.path) = 0 => claim.path = <<>>
    BY <1>types DEF IsSeq
  <2>3. PlaceInv'
    BY <1>2 DEF SingleLeaf, Return, PlaceInv, Walking
  <2>4. GenuineInv'
    <3>1. pc' = "done" /\ verdict' = (Len(claim.path) = 0 /\ claim.leaf = Root(Committed))
      BY <1>2 DEF SingleLeaf, Return
    <3>2. Genuine => Len(claim.path) = 0 /\ claim.leaf = Root(Committed)
      BY <2>1 DEF Genuine
    <3> QED BY <1>0, <3>1, <3>2 DEF GenuineInv
  <2>5. OnlyInv'
    BY <1>0, <1>2, <2>1, <2>2 DEF SingleLeaf, Return, OnlyInv, Accepted
  <2> QED BY <2>3, <2>4, <2>5
<1>3. CASE Start
  <2>1. pc = "call" /\ ~OutOfRange /\ pc' = "loop" /\ fn' = claim.leaf_index
        /\ r' = r /\ pos' = pos /\ level' = level
    BY <1>3 DEF Start
  <2>2. ASSUME TrueSize
        PROVE  /\ claim.leaf_index \in 0 .. Committed.size - 1
               /\ Above(Committed', claim'.leaf_index, level', fn')
               /\ PathHere' = <<>> /\ pos' = 0
               /\ r' = claim.leaf /\ Here' = Committed.node[0][claim.leaf_index]
    BY <1>0, <2>1, <2>2, AtTheLeaf DEF PathHere, Here
  <2>3. PlaceInv'
    BY <1>0, <2>2 DEF PlaceInv
  <2>4. GenuineInv'
    BY <1>0, <2>1, <2>2 DEF GenuineInv, Genuine, LeafInPlace
  <2>5. OnlyInv'
    BY <1>0, <2>1, <2>2 DEF OnlyInv, Accepted
  <2> QED BY <2>3, <2>4, <2>5
<1>4. CASE RejectLongPath
  <2>1. ~Genuine
    <3> SUFFICES ASSUME Genuine PROVE FALSE
      OBVIOUS
    <3>1. TrueSize /\ Walking /\ sn = 0 /\ pos < Len(claim.path) /\ pos = Len(PathHere)
      BY <1>4 DEF RejectLongPath, More, Genuine, GenuineInv, Walking
    <3>2. PathHere = claim.path
      BY <3>1, Standing DEF Genuine
    <3> QED BY <3>1, <3>2, <1>types
  <2> QED BY <1>0, <1>4, <2>1
          DEF RejectLongPath, Return, PlaceInv, GenuineInv, OnlyInv, Walking, Accepted
<1>5. CASE FoldLeftSibling
  <2>1. /\ pc = "loop" /\ pc' = "shift" /\ r' = node_hash(claim.path[pos + 1], r)
        /\ pos' = pos + 1 /\ fn' = fn /\ level' = level
    BY <1>5 DEF FoldLeftSibling
  <2>2. Here' = Here /\ PathHere' = PathHere
    BY <1>0, <2>1 DEF Here, PathHere
  <2>3. PlaceInv'
    BY <1>0, <2>1 DEF PlaceInv, Walking
  <2>4. GenuineInv'
    BY <1>0, <2>1, <2>2 DEF GenuineInv
  <2>5. r'[1] = claim.path[pos'] /\ r'[2] = r
    BY <2>1, NodeHashFacts
  <2>6. pos' - 1 = pos
    BY <1>types, <2>1
  <2>7. OnlyInv'
    BY <1>0, <2>1, <2>2, <2>5, <2>6 DEF OnlyInv, Accepted
  <2> QED BY <2>3, <2>4, <2>7
<1>6. CASE FoldRightSibling
  <2> DEFINE x == Committed.node[level][fn + 1]
  <2>1. /\ pc = "loop" /\ sn # 0 /\ fn % 2 = 0 /\ fn % 2 # 1 /\ fn # sn /\ pc' = "loop"
        /\ r' = node_hash(r, claim.path[pos + 1]) /\ pos' = pos + 1
        /\ fn' = fn \div 2 /\ level' = level + 1 /\ Walking
    BY <1>6 DEF FoldRightSibling, Halve, Walking
  <2>2. ASSUME TrueSize
        PROVE  /\ Above(Committed', claim'.leaf_index, level', fn')
               /\ Here' = node_hash(Here, x) /\ PathHere' = Append(PathHere, x)
    BY <1>0, <2>1, <2>2, UpTheTree, PathUp DEF Here, PathHere
  <2>3. ASSUME TrueSize
        PROVE  /\ Whole[Len(PathHere) + 1] = x
               /\ Len(PathHere') = Len(PathHere) + 1 /\ PathHere'[Len(PathHere) + 1] = x
               /\ \A j \in 1 .. Len(PathHere) : PathHere'[j] = PathHere[j]
    <3>1. PathHere' = PathTo(Committed, claim.leaf_index, level + 1, fn \div 2)
      BY <1>0, <2>1 DEF PathHere
    <3> HIDE DEF x
    <3> QED BY <2>1, <2>2, <2>3, <3>1, NextEntry
  <2> HIDE DEF x
  <2>4. PlaceInv'
    BY <1>0, <2>1, <2>2 DEF PlaceInv
  <2>5. GenuineInv'
    <3>1. ASSUME Genuine PROVE r' = Here' /\ pos' = Len(PathHere')
      <4>1. TrueSize /\ r = Here /\ pos = Len(PathHere) /\ claim.path = Whole
        BY <2>1, <3>1 DEF GenuineInv, Genuine
      <4> QED BY <2>1, <2>2, <2>3, <4>1
    <3> QED BY <1>0, <2>1, <3>1 DEF GenuineInv
  <2>6. OnlyInv'
    <3>1. ASSUME TrueSize, r' = Here'
          PROVE  /\ pos' = Len(PathHere')
                 /\ \A j \in 1 .. pos' : claim.path[j] = PathHere'[j]
      <4>1. r = Here /\ claim.path[pos + 1] = x
        <5>1. PICK p : p = claim.path[pos + 1] /\ r' = node_hash(r, p)
          BY <2>1
        <5>2. node_hash(r, p) = node_hash(Here, x)
          BY <2>2, <3>1, <5>1
        <5> QED BY <5>1, <5>2, NodeHashFacts
      <4>2. pos = Len(PathHere) /\ \A j \in 1 .. pos : claim.path[j] = PathHere[j]
        BY <2>1, <3>1, <4>1 DEF OnlyInv
      <4>3. 1 .. pos + 1 = 1 .. pos \cup {pos + 1}
        BY <1>types
      <4> QED BY <2>1, <2>3, <3>1, <4>1, <4>2, <4>3
    <3> QED BY <1>0, <2>1, <3>1 DEF OnlyInv, Accepted
  <2> QED BY <2>4, <2>5, <2>6
<1>7. CASE SkipPromotion
  <2>1. /\ pc = "shift" /\ sn # 0 /\ fn % 2 # 1 /\ fn = sn /\ pc' = "shift" /\ Walking
        /\ r' = r /\ pos' = pos /\ fn' = fn \div 2 /\ level' = level + 1
    BY <1>7, <1>types DEF SkipPromotion, Halve, Walking, IInv, IndexInv
  <2>2. ASSUME TrueSize
        PROVE  /\ Above(Committed', claim'.leaf_index, level', fn')
               /\ Here' = Here /\ PathHere' = PathHere
    BY <1>0, <2>1, <2>2, UpTheTree, PathUp DEF Here, PathHere
  <2>3. PlaceInv'
    BY <1>0, <2>1, <2>2 DEF PlaceInv
  <2>4. GenuineInv'
    BY <1>0, <2>1, <2>2 DEF GenuineInv, Genuine
  <2>5. OnlyInv'
    BY <1>0, <2>1, <2>2 DEF OnlyInv, Accepted
  <2> QED BY <2>3, <2>4, <2>5
<1>8. CASE Ascend
  <2> DEFINE x == Committed.node[level][fn - 1]
  <2>1. /\ pc = "shift" /\ sn # 0 /\ fn % 2 = 1 /\ pc' = "loop" /\ Walking
        /\ r' = r /\ pos' = pos /\ fn' = fn \div 2 /\ level' = level + 1
    BY <1>8, <1>types DEF Ascend, Halve, Walking, IInv, IndexInv
  <2>2. ASSUME TrueSize
        PROVE  /\ Above(Committed', claim'.leaf_index, level', fn')
               /\ Here' = node_hash(x, Here) /\ PathHere' = Append(PathHere, x)
    BY <1>0, <2>1, <2>2, UpTheTree, PathUp DEF Here, PathHere
  <2>3. ASSUME TrueSize
        PROVE  /\ Whole[Len(PathHere) + 1] = x /\ Len(PathHere) \in Nat
               /\ Len(PathHere') = Len(PathHere) + 1 /\ PathHere'[Len(PathHere) + 1] = x
               /\ \A j \in 1 .. Len(PathHere) : PathHere'[j] = PathHere[j]
    <3>1. PathHere' = PathTo(Committed, claim.leaf_index, level + 1, fn \div 2)
      BY <1>0, <2>1 DEF PathHere
    <3> HIDE DEF x
    <3> QED BY <2>1, <2>2, <2>3, <3>1, NextEntry, Standing
  <2> HIDE DEF x
  <2>4. PlaceInv'
    BY <1>0, <2>1, <2>2 DEF PlaceInv
  <2>5. GenuineInv'
    <3>1. ASSUME Genuine PROVE r' = Here' /\ pos' = Len(PathHere')
      <4>1. /\ TrueSize /\ r = node_hash(claim.path[pos], Here)
            /\ pos = Len(PathHere) + 1 /\ claim.path = Whole
        BY <2>1, <3>1 DEF GenuineInv, Genuine
      <4> QED BY <2>1, <2>2, <2>3, <4>1
    <3> QED BY <1>0, <2>1, <3>1 DEF GenuineInv
  <2>6. OnlyInv'
    <3>1. ASSUME TrueSize, r' = Here'
          PROVE  /\ pos' = Len(PathHere')
                 /\ \A j \in 1 .. pos' : claim.path[j] = PathHere'[j]
      <4>1. r[1] = x /\ r[2] = Here
        BY <2>1, <2>2, <3>1, NodeHashFacts
      <4>2. /\ pos = Len(PathHere) + 1 /\ claim.path[pos] = x
            /\ \A j \in 1 .. pos - 1 : claim.path[j] = PathHere[j]
        BY <2>1, <3>1, <4>1 DEF OnlyInv
      <4>3. 1 .. pos = 1 .. Len(PathHere) \cup {pos} /\ pos - 1 = Len(PathHere)
        BY <2>3, <3>1, <4>2
      <4> QED BY <2>1, <2>3, <3>1, <4>2, <4>3
    <3> QED BY <1>0, <2>1, <3>1 DEF OnlyInv, Accepted
  <2> QED BY <2>4, <2>5, <2>6
<1>9. CASE Conclude
  <2>1. /\ pc = "loop" /\ pc' = "done" /\ pos = Len(claim.path) /\ Walking
        /\ verdict' = (sn = 0 /\ r = Root(Committed))
    BY <1>9, <1>types DEF Conclude, More, Return, Walking
  <2>2. PlaceInv'
    BY <2>1 DEF PlaceInv, Walking
  <2>3. GenuineInv'
    <3>1. ASSUME Genuine PROVE sn = 0 /\ r = Root(Committed)
      <4>1. TrueSize /\ r = Here /\ Len(PathHere) = Len(Whole)
        BY <2>1, <3>1 DEF GenuineInv, Genuine
      <4> QED BY <2>1, <4>1, Standing
    <3> QED BY <1>0, <2>1, <3>1 DEF GenuineInv
  <2>4. OnlyInv'
    <3>1. ASSUME TrueSize, sn = 0, r = Root(Committed) PROVE claim.path = Whole
      <4>1. PathHere = Whole /\ r = Here /\ IsSeq(Whole)
        BY <2>1, <3>1, Standing
      <4>2. pos = Len(Whole) /\ \A j \in 1 .. pos : claim.path[j] = Whole[j]
        BY <2>1, <3>1, <4>1 DEF OnlyInv
      <4> QED BY <1>types, <2>1, <4>1, <4>2, SameEntries
    <3> QED BY <1>0, <2>1, <3>1 DEF OnlyInv, Accepted
  <2> QED BY <2>2, <2>3, <2>4
<1>10. CASE UNCHANGED vars
  <2>1. Here' = Here /\ PathHere' = PathHere
    BY <1>0, <1>10 DEF vars, Here, PathHere
  <2> QED BY <1>0, <1>10, <2>1
          DEF vars, PlaceInv, GenuineInv, OnlyInv, Walking, Accepted
<1> QED
  BY <1>1, <1>2, <1>3, <1>4, <1>5, <1>6, <1>7, <1>8, <1>9, <1>10 DEF Next

\* PathInv holds throughout.
LEMMA PathInvariance == Spec => []PathInv
<1>1. Init => PathInv
  BY DEF Init, PathInv, PlaceInv, GenuineInv, OnlyInv, Walking, Accepted
<1> QED BY <1>1, NextPath, Invariance, PTL DEF Spec

(***************************************************************************)
(* For every tree and every one of its leaves, verify_inclusion accepts    *)
(* the path audit_path gives for it.                                       *)
(***************************************************************************)
THEOREM Completeness == Spec => []GenuineProofAccepted
<1>1. PathInv => GenuineProofAccepted
  BY DEF PathInv, GenuineInv, GenuineProofAccepted, Genuine, TrueSize, LeafInPlace, Whole
<1> QED BY <1>1, PathInvariance, PTL

(***************************************************************************)
(* For every tree and every index, the path audit_path gives is the only   *)
(* one verify_inclusion accepts.                                           *)
(***************************************************************************)
THEOREM ProofsAreUnique == Spec => []OnlyAuditPathAccepted
<1>1. PathInv => OnlyAuditPathAccepted
  BY DEF PathInv, OnlyInv, OnlyAuditPathAccepted, TrueSize, Whole
<1> QED BY <1>1, PathInvariance, PTL

-----------------------------------------------------------------------------
(* The walk on JavaScript numbers.                                         *)

\* Remainders by b on either side of 0.
LEMMA Remainder ==
  ASSUME NEW a \in Int, NEW b \in Nat \ {0}
  PROVE  /\ a % b \in 0 .. b - 1
         /\ 0 <= a /\ a < b => a % b = a
         /\ a < 0 /\ 0 <= a + b => a % b = a + b
OBVIOUS

\* Bit operators leave the integers of their width alone.
LEMMA ToIntIs ==
  ASSUME NEW x \in Int
  PROVE  /\ ToInt(x) \in -Half .. Half - 1
         /\ x \in -Half .. Half - 1 => ToInt(x) = x
<1>1. PICK h \in Nat \ {0} : h = Half
  BY HalfAssumption
<1>2. PICK b \in Nat \ {0} : b = 2 * h
  BY <1>1
<1>3. /\ x % b \in 0 .. b - 1
      /\ 0 <= x /\ x < b => x % b = x
      /\ x < 0 /\ 0 <= x + b => x % b = x + b
  BY Remainder
<1>4. ToInt(x) = IF x % b >= h THEN (x % b) - b ELSE x % b
  BY <1>1, <1>2 DEF ToInt
<1> QED BY <1>1, <1>2, <1>3, <1>4

\* On the indexes of a tree of up to Half leaves they do what Python's do.
LEMMA InRange ==
  ASSUME NEW x \in 0 .. Half - 1
  PROVE  /\ Shift(x) = x \div 2 /\ Shift(x) \in 0 .. Half - 1
         /\ Odd(x) <=> x % 2 = 1
<1>1. x \in Int /\ x \in -Half .. Half - 1 /\ Half \in Nat
  BY HalfAssumption
<1>2. ToInt(x) = x
  BY <1>1, ToIntIs
<1> QED BY <1>1, <1>2 DEF Shift, Odd

\* Shifting an even number other than 0 brings it nearer to 0; shifting one
\* that is too wide makes it narrow.
LEMMA ShiftShrinks ==
  ASSUME NEW x \in Int, ~Odd(x), x # 0
  PROVE  /\ Shift(x) \in -Half .. Half - 1
         /\ \A b \in Nat : x \in -(b + 1) .. b + 1 /\ b + 1 <= Half /\ x # Half
              => Shift(x) \in -b .. b
<1>1. PICK h \in Nat \ {0} : h = Half
  BY HalfAssumption
<1>2. PICK y \in -h .. h - 1 : y = ToInt(x) /\ (x \in -h .. h - 1 => y = x)
  BY <1>1, ToIntIs
<1>3. Shift(x) = y \div 2 /\ y % 2 # 1
  BY <1>2 DEF Shift, Odd
<1>4. y \div 2 \in -h .. h - 1
  BY <1>1, <1>2
<1>5. ASSUME NEW b \in Nat, x \in -(b + 1) .. b + 1, b + 1 <= h, x # h
      PROVE  y \div 2 \in -b .. b
  <2>1. y = x /\ y # 0 /\ y \in -(b + 1) .. b + 1
    BY <1>1, <1>2, <1>5
  <2>2. PICK q \in Int : q = y \div 2 /\ y = 2 * q
    BY <1>2, <1>3
  <2> QED BY <2>1, <2>2
<1> QED BY <1>1, <1>3, <1>4, <1>5

\* The inner while, one turn at a time.
LEMMA SkipIs ==
  \A fn_0, sn_0 \in Int :
    SkipPromotions[fn_0][sn_0] =
      IF ~Odd(fn_0) /\ fn_0 # 0 THEN SkipPromotions[Shift(fn_0)][Shift(sn_0)]
      ELSE [fn |-> fn_0, sn |-> sn_0]
<1> DEFINE turn(f, x) == [y \in Int |-> IF ~Odd(x) /\ x # 0
                                        THEN f[Shift(x)][Shift(y)]
                                        ELSE [fn |-> x, sn |-> y]]
           Near(b) == IF b <= Half THEN {x \in Int : x \in -b .. b /\ x # Half} ELSE Int
           Loop(b, f) == f = [x \in Near(b) |-> turn(f, x)]
           Found == {b \in 0 .. Half + 1 : \E f : Loop(b, f)}
<1>h. Half \in Nat \ {0}
  BY HalfAssumption
<1>1. 0 \in Found
  <2> DEFINE f == [x \in Near(0) |-> turn([z \in {} |-> z], x)]
  <2>1. \A x \in Near(0) : x = 0
    BY <1>h
  <2>2. \A x \in Near(0) : turn([z \in {} |-> z], x) = turn(f, x)
    BY <2>1
  <2>3. Loop(0, f)
    BY <2>2
  <2> HIDE DEF f, Loop
  <2> QED BY <1>h, <2>3
<1>2. ASSUME NEW b \in 0 .. (Half + 1) - 1, b \in Found PROVE b + 1 \in Found
  <2>1. PICK g : Loop(b, g)
    BY <1>2
  <2> DEFINE f == [x \in Near(b + 1) |-> turn(g, x)]
  <2>2. ASSUME NEW x \in Near(b + 1), ~Odd(x), x # 0 PROVE Shift(x) \in Near(b)
    <3>1. x \in Int
      BY <1>h, <2>2
    <3>2. /\ Shift(x) \in -Half .. Half - 1
          /\ x \in -(b + 1) .. b + 1 /\ b + 1 <= Half /\ x # Half => Shift(x) \in -b .. b
      BY <2>2, <3>1, ShiftShrinks
    <3> QED BY <1>h, <2>2, <3>2
  <2>3. \A x \in Near(b) : x \in Near(b + 1)
    BY <1>h
  <2>4. \A x \in Near(b) : f[x] = g[x]
    <3> HIDE DEF turn, Near
    <3>1. \A x \in Near(b) : g[x] = turn(g, x)
      BY <2>1
    <3> QED BY <2>3, <3>1
  <2>5. \A x \in Near(b + 1) : turn(g, x) = turn(f, x)
    <3> SUFFICES ASSUME NEW x \in Near(b + 1) PROVE turn(g, x) = turn(f, x)
      OBVIOUS
    <3>1. ~Odd(x) /\ x # 0 => f[Shift(x)] = g[Shift(x)]
      BY <2>2, <2>4
    <3> HIDE DEF f, Near
    <3> QED BY <3>1
  <2>6. Loop(b + 1, f)
    <3> HIDE DEF turn, Near
    <3> QED BY <2>5
  <2> HIDE DEF f, Loop
  <2> QED BY <1>h, <2>6
<1>3. PICK f : Loop(Half + 1, f)
  <2>1. Half + 1 \in Found
    <3> HIDE DEF Found
    <3> QED BY <1>h, <1>1, <1>2, Induction
  <2> QED BY <2>1
<1>4. Near(Half + 1) = Int
  BY <1>h
<1>5. f = [x \in Int |-> turn(f, x)]
  <2> HIDE DEF turn, Near
  <2> QED BY <1>3, <1>4
<1>6. SkipPromotions = [x \in Int |-> turn(SkipPromotions, x)]
  <2>1. SkipPromotions = CHOOSE s : s = [x \in Int |-> turn(s, x)]
    BY DEF SkipPromotions
  <2> HIDE DEF turn
  <2> QED BY <1>5, <2>1
<1> SUFFICES ASSUME NEW fn_0 \in Int, NEW sn_0 \in Int
             PROVE  SkipPromotions[fn_0][sn_0] =
                      IF ~Odd(fn_0) /\ fn_0 # 0 THEN SkipPromotions[Shift(fn_0)][Shift(sn_0)]
                      ELSE [fn |-> fn_0, sn |-> sn_0]
  OBVIOUS
<1>7. SkipPromotions[fn_0] = turn(SkipPromotions, fn_0)
  <2> HIDE DEF turn
  <2> QED BY <1>6
<1>8. turn(SkipPromotions, fn_0)[sn_0] =
        IF ~Odd(fn_0) /\ fn_0 # 0 THEN SkipPromotions[Shift(fn_0)][Shift(sn_0)]
        ELSE [fn |-> fn_0, sn |-> sn_0]
  OBVIOUS
<1> QED BY <1>7, <1>8

\* The for loop, one turn at a time.
LEMMA TurnsAre ==
  ASSUME NEW leaf, NEW index, NEW size, NEW path, Len(path) \in Nat
  PROVE  LET after == Turns(leaf, index, size, path)
         IN /\ after[0] = [fn |-> index, sn |-> size - 1, r |-> leaf, overlong |-> FALSE]
            /\ \A n \in 1 .. Len(path) : after[n] = Turn(after[n - 1], path[n])
<1> DEFINE start == [fn |-> index, sn |-> size - 1, r |-> leaf, overlong |-> FALSE]
           turn(f, n) == IF n = 0 THEN start ELSE Turn(f[n - 1], path[n])
           Loop(m, f) == f = [n \in 0 .. m |-> turn(f, n)]
           Found == {m \in 0 .. Len(path) : \E f : Loop(m, f)}
<1>1. 0 \in Found
  <2> DEFINE f == [n \in 0 .. 0 |-> start]
  <2>1. \A n \in 0 .. 0 : start = turn(f, n)
    OBVIOUS
  <2>2. Loop(0, f)
    <3> HIDE DEF start, turn
    <3> QED BY <2>1
  <2> HIDE DEF f, Loop
  <2> QED BY <2>2
<1>2. ASSUME NEW m \in 0 .. Len(path) - 1, m \in Found PROVE m + 1 \in Found
  <2>1. PICK g : Loop(m, g)
    BY <1>2
  <2> DEFINE f == [n \in 0 .. m + 1 |-> turn(g, n)]
  <2> HIDE DEF start
  <2>2. \A n \in 0 .. m : f[n] = g[n]
    <3> HIDE DEF turn
    <3>1. \A n \in 0 .. m : g[n] = turn(g, n)
      BY <2>1
    <3> QED BY <3>1
  <2>3. \A n \in 0 .. m + 1 : turn(g, n) = turn(f, n)
    <3> SUFFICES ASSUME NEW n \in 0 .. m + 1 PROVE turn(g, n) = turn(f, n)
      OBVIOUS
    <3>1. n # 0 => n - 1 \in 0 .. m
      OBVIOUS
    <3>2. n # 0 => f[n - 1] = g[n - 1]
      <4> HIDE DEF f
      <4> QED BY <2>2, <3>1
    <3> HIDE DEF f
    <3> QED BY <3>2
  <2>4. Loop(m + 1, f)
    <3> HIDE DEF turn
    <3> QED BY <2>3
  <2> HIDE DEF f, Loop
  <2> QED BY <2>4
<1>3. PICK f : Loop(Len(path), f)
  <2>1. Len(path) \in Found
    <3> HIDE DEF Found
    <3>1. PICK m \in Nat : m = Len(path)
      OBVIOUS
    <3>2. 0 \in Found /\ \A k \in 0 .. m - 1 : k \in Found => k + 1 \in Found
      BY <1>1, <1>2, <3>1
    <3>3. \A k \in 0 .. m : k \in Found
      BY <3>2, Induction
    <3> QED BY <3>1, <3>3
  <2> QED BY <2>1
<1> DEFINE after == Turns(leaf, index, size, path)
<1>4. after = [n \in 0 .. Len(path) |-> turn(after, n)]
  <2>1. after = CHOOSE s : s = [n \in 0 .. Len(path) |-> turn(s, n)]
    BY DEF Turns
  <2> HIDE DEF turn, after
  <2> QED BY <1>3, <2>1
<1>5. \A n \in 0 .. Len(path) : after[n] = turn(after, n)
  <2> HIDE DEF turn, after
  <2> QED BY <1>4
<1> HIDE DEF after, start
<1>6. after[0] = start /\ \A n \in 1 .. Len(path) : after[n] = Turn(after[n - 1], path[n])
  <2>1. 0 \in 0 .. Len(path) /\ \A n \in 1 .. Len(path) : n \in 0 .. Len(path) /\ n # 0
    OBVIOUS
  <2> QED BY <1>5, <2>1
<1> QED BY <1>6 DEF after, start

\* The call as the TypeScript kernel makes it: what its loop's variables are
\* after each entry of the path.
Narrow == claim.total_leaves <= Half
Twin == Turns(claim.leaf, claim.leaf_index, claim.total_leaves, claim.path)
TwinVerdict == verifyInclusion(claim.leaf, claim.leaf_index, claim.total_leaves,
                               claim.path, Root(Committed))

\* The two walks go together.  Inside "shift" the TypeScript turn has still to
\* skip the promotions that are left.
TwinInv ==
  /\ Walking => ~OutOfRange /\ claim.total_leaves # 1
  /\ (Walking /\ Narrow) => sn < Half
  /\ (pc = "loop" /\ Narrow)
       => Twin[pos] = [fn |-> fn, sn |-> sn, r |-> r, overlong |-> FALSE]
  /\ (pc = "shift" /\ Narrow)
       => LET at == SkipPromotions[fn][sn]
          IN Twin[pos] = [fn |-> Shift(at.fn), sn |-> Shift(at.sn), r |-> r,
                          overlong |-> FALSE]
  /\ (pc = "done" /\ Narrow) => verdict = TwinVerdict

\* What the TypeScript kernel returns, given the end of its loop.
LEMMA TwinReturns ==
  ASSUME IInv, NEW last, last = Twin[Len(claim.path)]
  PROVE  TwinVerdict <=>
           /\ ~OutOfRange
           /\ claim.total_leaves = 1 => Len(claim.path) = 0 /\ claim.leaf = Root(Committed)
           /\ claim.total_leaves # 1
                => ~last.overlong /\ last.sn = 0 /\ last.r = Root(Committed)
<1>1. /\ claim.leaf_index \in Int /\ claim.total_leaves \in Nat
      /\ claim.path = <<>> <=> Len(claim.path) = 0
  BY DEF IInv, TypeOK, IsClaim
<1>2. TwinVerdict <=>
        /\ claim.leaf_index >= 0 /\ claim.total_leaves > 0
        /\ claim.leaf_index < claim.total_leaves
        /\ IF claim.total_leaves = 1
           THEN claim.path = <<>> /\ claim.leaf = Root(Committed)
           ELSE ~last.overlong /\ last.sn = 0 /\ last.r = Root(Committed)
  BY DEF TwinVerdict, verifyInclusion, Twin
<1>3. ~OutOfRange <=> /\ claim.leaf_index >= 0 /\ claim.total_leaves > 0
                      /\ claim.leaf_index < claim.total_leaves
  BY <1>1 DEF OutOfRange
<1> QED BY <1>1, <1>2, <1>3

\* Once the path is longer than the tree is deep, the loop stays there.
LEMMA Overlong ==
  ASSUME NEW leaf, NEW index, NEW size, NEW path, Len(path) \in Nat,
         NEW n \in 0 .. Len(path), NEW after, after = Turns(leaf, index, size, path),
         after[n].sn = 0, n < Len(path), DOMAIN after[n] = {"fn", "sn", "r", "overlong"}
  PROVE  after[Len(path)].overlong
<1>0. \A m \in 1 .. Len(path) : after[m] = Turn(after[m - 1], path[m])
  <2>1. /\ Turns(leaf, index, size, path)[0]
               = [fn |-> index, sn |-> size - 1, r |-> leaf, overlong |-> FALSE]
        /\ \A m \in 1 .. Len(path) :
             Turns(leaf, index, size, path)[m]
               = Turn(Turns(leaf, index, size, path)[m - 1], path[m])
    BY TurnsAre
  <2> QED BY <2>1
<1>2. PICK last \in Nat : last = Len(path) - (n + 1)
  <2>1. Len(path) - (n + 1) \in Nat
    OBVIOUS
  <2> QED BY <2>1
<1> DEFINE Stuck(d) == /\ DOMAIN after[d] = {"fn", "sn", "r", "overlong"}
                       /\ after[d].sn = 0 /\ after[d].overlong
           T == {d \in 0 .. Len(path) - (n + 1) : Stuck(n + 1 + d)}
<1>1. ASSUME NEW m \in 1 .. Len(path), after[m - 1].sn = 0,
             DOMAIN after[m - 1] = {"fn", "sn", "r", "overlong"}
      PROVE  Stuck(m)
  <2>1. after[m] = Turn(after[m - 1], path[m])
    BY <1>0
  <2>2. after[m] = [after[m - 1] EXCEPT !.overlong = TRUE]
    BY <1>1, <2>1 DEF Turn
  <2> QED BY <1>1, <2>2
<1>3. 0 \in T
  <2>1. n + 1 \in 1 .. Len(path) /\ (n + 1) - 1 = n /\ 0 \in 0 .. last /\ n + 1 + 0 = n + 1
    BY <1>2
  <2>2. Stuck(n + 1)
    BY <1>1, <2>1
  <2> HIDE DEF Stuck
  <2> QED BY <1>2, <2>1, <2>2
<1>4. ASSUME NEW d \in 0 .. last - 1, d \in T PROVE d + 1 \in T
  <2>1. PICK m \in 1 .. Len(path) : m = n + 1 + (d + 1) /\ m - 1 = n + 1 + d
    BY <1>2
  <2>2. Stuck(m - 1)
    BY <1>4, <2>1
  <2>3. Stuck(m)
    BY <1>1, <2>2
  <2>4. d + 1 \in 0 .. last
    BY <1>2
  <2> HIDE DEF Stuck
  <2> QED BY <1>2, <2>1, <2>3, <2>4
<1>5. last \in T
  <2>1. \A d \in 0 .. last : d \in T
    <3> HIDE DEF T
    <3> QED BY <1>3, <1>4, Induction
  <2> QED BY <2>1
<1>6. Stuck(Len(path))
  <2>1. n + 1 + last = Len(path)
    BY <1>2
  <2> HIDE DEF Stuck
  <2> QED BY <1>5, <2>1
<1> QED BY <1>6

\* Each step of the Python walk keeps to the TypeScript one.
LEMMA NextTwin == IInv /\ TwinInv /\ [Next]_vars => TwinInv'
<1> SUFFICES ASSUME IInv, TwinInv, [Next]_vars PROVE TwinInv'
  OBVIOUS
<1>0. /\ claim' = claim
      /\ Committed' = Committed /\ Narrow' = Narrow /\ OutOfRange' = OutOfRange
      /\ Twin' = Twin /\ TwinVerdict' = TwinVerdict
  <2>1. claim' = claim
    BY DEF Next, vars, RejectIndex, SingleLeaf, Start, RejectLongPath, FoldLeftSibling,
           FoldRightSibling, SkipPromotion, Ascend, Conclude, Return
  <2> QED BY <2>1 DEF Committed, Narrow, OutOfRange, Twin, TwinVerdict
<1>types. /\ fn \in Nat /\ sn \in Nat /\ pos \in 0 .. Len(claim.path)
          /\ Len(claim.path) \in Nat /\ claim.leaf_index \in Int /\ claim.total_leaves \in Nat
          /\ Half \in Nat
  BY HalfAssumption DEF IInv, TypeOK, IsClaim
<1>turns. /\ Twin[0] = [fn |-> claim.leaf_index, sn |-> claim.total_leaves - 1,
                        r |-> claim.leaf, overlong |-> FALSE]
          /\ \A n \in 1 .. Len(claim.path) : Twin[n] = Turn(Twin[n - 1], claim.path[n])
  BY <1>types, TurnsAre DEF Twin
<1>range. ASSUME Walking, Narrow
          PROVE  /\ fn \in Int /\ sn \in Int /\ fn \in 0 .. Half - 1 /\ sn \in 0 .. Half - 1
                 /\ Shift(fn) = fn \div 2 /\ Shift(sn) = sn \div 2
                 /\ Odd(fn) <=> fn % 2 = 1
                 /\ sn \div 2 < Half
  <2>1. fn \in 0 .. Half - 1 /\ sn \in 0 .. Half - 1
    BY <1>types, <1>range DEF TwinInv, IInv, IndexInv
  <2>2. \A x \in 0 .. Half - 1 : Shift(x) = x \div 2 /\ (Odd(x) <=> x % 2 = 1)
    BY InRange
  <2>3. /\ Shift(fn) = fn \div 2 /\ Shift(sn) = sn \div 2
        /\ Odd(fn) <=> fn % 2 = 1
    BY <2>1, <2>2
  <2> QED BY <1>types, <2>1, <2>3
<1>next. ASSUME pc = "loop", Narrow, More, sn # 0
         PROVE  LET at == IF fn % 2 = 1 \/ fn = sn THEN SkipPromotions[fn][sn]
                          ELSE [fn |-> fn, sn |-> sn]
                IN Twin[pos + 1] =
                     [fn |-> Shift(at.fn), sn |-> Shift(at.sn),
                      r |-> IF fn % 2 = 1 \/ fn = sn THEN node_hash(claim.path[pos + 1], r)
                            ELSE node_hash(r, claim.path[pos + 1]),
                      overlong |-> FALSE]
  <2>1. Twin[pos] = [fn |-> fn, sn |-> sn, r |-> r, overlong |-> FALSE]
    BY <1>next DEF TwinInv
  <2>2. pos + 1 \in 1 .. Len(claim.path) /\ (pos + 1) - 1 = pos
    BY <1>types, <1>next DEF More
  <2>3. Twin[pos + 1] = Turn(Twin[pos], claim.path[pos + 1])
    BY <1>turns, <2>2
  <2>4. HasLeftSibling(fn, sn) <=> (fn % 2 = 1 \/ fn = sn)
    BY <1>next, <1>range DEF HasLeftSibling, Walking
  <2>5. Turn([fn |-> fn, sn |-> sn, r |-> r, overlong |-> FALSE], claim.path[pos + 1]) =
          LET at == IF HasLeftSibling(fn, sn) THEN SkipPromotions[fn][sn]
                    ELSE [fn |-> fn, sn |-> sn]
          IN [fn |-> Shift(at.fn), sn |-> Shift(at.sn),
              r |-> IF HasLeftSibling(fn, sn) THEN node_hash(claim.path[pos + 1], r)
                    ELSE node_hash(r, claim.path[pos + 1]),
              overlong |-> FALSE]
    BY <1>next DEF Turn, nodeHash, node_hash
  <2> QED BY <2>1, <2>3, <2>4, <2>5
<1>1. CASE RejectIndex
  <2>1. TwinVerdict = FALSE
    BY <1>1, TwinReturns DEF RejectIndex, TwinVerdict, verifyInclusion
  <2> QED BY <1>0, <1>1, <2>1 DEF RejectIndex, Return, TwinInv, Walking
<1>2. CASE SingleLeaf
  <2>1. TwinVerdict = (Len(claim.path) = 0 /\ claim.leaf = Root(Committed))
    BY <1>2, TwinReturns DEF SingleLeaf, TwinVerdict, verifyInclusion
  <2> QED BY <1>0, <1>2, <2>1 DEF SingleLeaf, Return, TwinInv, Walking
<1>3. CASE Start
  <2>1. /\ pc = "call" /\ ~OutOfRange /\ claim.total_leaves # 1 /\ pc' = "loop"
        /\ fn' = claim.leaf_index /\ sn' = claim.total_leaves - 1 /\ r' = r /\ pos' = pos
    BY <1>3 DEF Start
  <2>2. pos = 0 /\ r = claim.leaf
    BY <2>1 DEF IInv, CallInv
  <2>3. Narrow => sn' < Half
    BY <1>types, <2>1 DEF Narrow
  <2> QED BY <1>0, <1>turns, <2>1, <2>2, <2>3 DEF TwinInv, Walking
<1>4. CASE RejectLongPath
  <2>1. pc = "loop" /\ More /\ sn = 0 /\ pc' = "done" /\ verdict' = FALSE
    BY <1>4 DEF RejectLongPath, Return
  <2>2. ASSUME Narrow PROVE TwinVerdict = FALSE
    <3>1. Twin[pos] = [fn |-> fn, sn |-> sn, r |-> r, overlong |-> FALSE]
      BY <2>1, <2>2 DEF TwinInv
    <3>2. Twin[pos].sn = 0 /\ DOMAIN Twin[pos] = {"fn", "sn", "r", "overlong"}
      BY <2>1, <3>1
    <3>3. Twin[Len(claim.path)].overlong
      BY <1>types, <2>1, <3>2, Overlong DEF Twin, More
    <3>4. claim.total_leaves # 1
      BY <2>1 DEF TwinInv, Walking
    <3>5. ~TwinVerdict
      BY <3>3, <3>4, TwinReturns
    <3> QED BY <3>5 DEF TwinVerdict, verifyInclusion
  <2> QED BY <1>0, <2>1, <2>2 DEF TwinInv, Walking
<1>5. CASE FoldLeftSibling
  <2>1. /\ pc = "loop" /\ More /\ sn # 0 /\ (fn % 2 = 1 \/ fn = sn) /\ pc' = "shift"
        /\ r' = node_hash(claim.path[pos + 1], r) /\ pos' = pos + 1
        /\ fn' = fn /\ sn' = sn
    BY <1>5 DEF FoldLeftSibling
  <2>2. Narrow => LET at == SkipPromotions[fn'][sn']
                  IN Twin[pos'] = [fn |-> Shift(at.fn), sn |-> Shift(at.sn), r |-> r',
                                   overlong |-> FALSE]
    BY <1>next, <2>1
  <2>3. ~OutOfRange /\ claim.total_leaves # 1 /\ (Narrow => sn' < Half)
    BY <2>1 DEF TwinInv, Walking
  <2> QED BY <1>0, <2>1, <2>2, <2>3 DEF TwinInv, Walking
<1>6. CASE FoldRightSibling
  <2>1. /\ pc = "loop" /\ More /\ sn # 0 /\ ~(fn % 2 = 1 \/ fn = sn) /\ pc' = "loop"
        /\ r' = node_hash(r, claim.path[pos + 1]) /\ pos' = pos + 1
        /\ fn' = fn \div 2 /\ sn' = sn \div 2 /\ Walking
    BY <1>6 DEF FoldRightSibling, Halve, Walking
  <2>2. Narrow => Twin[pos'] = [fn |-> fn', sn |-> sn', r |-> r', overlong |-> FALSE]
    BY <1>next, <1>range, <2>1
  <2>3. ~OutOfRange /\ claim.total_leaves # 1 /\ (Narrow => sn' < Half)
    BY <1>range, <2>1 DEF TwinInv
  <2> QED BY <1>0, <2>1, <2>2, <2>3 DEF TwinInv, Walking
<1>7. CASE SkipPromotion
  <2>1. /\ pc = "shift" /\ fn % 2 # 1 /\ fn # 0 /\ pc' = "shift" /\ Walking
        /\ r' = r /\ pos' = pos /\ fn' = fn \div 2 /\ sn' = sn \div 2
    BY <1>7, <1>types DEF SkipPromotion, Halve, Walking
  <2>2. Narrow => SkipPromotions[fn][sn] = SkipPromotions[fn'][sn']
    <3> SUFFICES ASSUME Narrow PROVE SkipPromotions[fn][sn] = SkipPromotions[fn'][sn']
      OBVIOUS
    <3>1. /\ fn \in Int /\ sn \in Int /\ ~Odd(fn) /\ fn # 0
          /\ Shift(fn) = fn' /\ Shift(sn) = sn'
      BY <1>range, <2>1
    <3> QED BY <3>1, SkipIs
  <2>3. Narrow => LET at == SkipPromotions[fn'][sn']
                  IN Twin[pos'] = [fn |-> Shift(at.fn), sn |-> Shift(at.sn), r |-> r',
                                   overlong |-> FALSE]
    BY <2>1, <2>2 DEF TwinInv
  <2>4. ~OutOfRange /\ claim.total_leaves # 1 /\ (Narrow => sn' < Half)
    BY <1>range, <2>1 DEF TwinInv
  <2> QED BY <1>0, <2>1, <2>3, <2>4 DEF TwinInv, Walking
<1>8. CASE Ascend
  <2>1. /\ pc = "shift" /\ (fn % 2 = 1 \/ fn = 0) /\ pc' = "loop" /\ Walking
        /\ r' = r /\ pos' = pos /\ fn' = fn \div 2 /\ sn' = sn \div 2
    BY <1>8 DEF Ascend, Halve, Walking
  <2>2. Narrow => SkipPromotions[fn][sn] = [fn |-> fn, sn |-> sn]
    <3> SUFFICES ASSUME Narrow PROVE SkipPromotions[fn][sn] = [fn |-> fn, sn |-> sn]
      OBVIOUS
    <3>1. fn \in Int /\ sn \in Int /\ ~(~Odd(fn) /\ fn # 0)
      BY <1>range, <2>1
    <3> QED BY <3>1, SkipIs
  <2>3. Narrow => Twin[pos'] = [fn |-> fn', sn |-> sn', r |-> r', overlong |-> FALSE]
    <3> SUFFICES ASSUME Narrow
                 PROVE  Twin[pos'] = [fn |-> fn', sn |-> sn', r |-> r', overlong |-> FALSE]
      OBVIOUS
    <3>1. PICK at : at = SkipPromotions[fn][sn] /\ at.fn = fn /\ at.sn = sn
      BY <2>2
    <3>2. Shift(at.fn) = fn' /\ Shift(at.sn) = sn'
      BY <1>range, <2>1, <3>1
    <3>3. Twin[pos] = [fn |-> Shift(at.fn), sn |-> Shift(at.sn), r |-> r, overlong |-> FALSE]
      BY <2>1, <3>1 DEF TwinInv
    <3> QED BY <2>1, <3>2, <3>3
  <2>4. ~OutOfRange /\ claim.total_leaves # 1 /\ (Narrow => sn' < Half)
    BY <1>range, <2>1 DEF TwinInv
  <2> QED BY <1>0, <2>1, <2>3, <2>4 DEF TwinInv, Walking
<1>9. CASE Conclude
  <2>1. /\ pc = "loop" /\ pos = Len(claim.path) /\ pc' = "done"
        /\ verdict' = (sn = 0 /\ r = Root(Committed))
    BY <1>9, <1>types DEF Conclude, More, Return
  <2>2. ASSUME Narrow PROVE TwinVerdict = (sn = 0 /\ r = Root(Committed))
    <3>1. PICK last : /\ last = Twin[Len(claim.path)]
                      /\ last = [fn |-> fn, sn |-> sn, r |-> r, overlong |-> FALSE]
      BY <2>1, <2>2 DEF TwinInv
    <3>2. ~last.overlong /\ last.sn = sn /\ last.r = r
      BY <3>1
    <3>3. ~OutOfRange /\ claim.total_leaves # 1
      BY <2>1 DEF TwinInv, Walking
    <3>4. TwinVerdict <=> sn = 0 /\ r = Root(Committed)
      BY <3>1, <3>2, <3>3, TwinReturns
    <3> QED BY <3>4 DEF TwinVerdict, verifyInclusion
  <2> QED BY <1>0, <2>1, <2>2 DEF TwinInv, Walking
<1>10. CASE UNCHANGED vars
  BY <1>0, <1>10 DEF vars, TwinInv, Walking
<1> QED
  BY <1>1, <1>2, <1>3, <1>4, <1>5, <1>6, <1>7, <1>8, <1>9, <1>10 DEF Next

(***************************************************************************)
(* The TypeScript kernel's verifyInclusion returns what the Python one     *)
(* does, for every call that states no more leaves than its bit operators  *)
(* can index.                                                              *)
(***************************************************************************)
THEOREM KernelsAgree == Spec => []KernelsAgreeInRange
<1>1. Init => TwinInv
  BY DEF Init, TwinInv, Walking
<1>2. TwinInv => KernelsAgreeInRange
  BY DEF TwinInv, KernelsAgreeInRange, Narrow, TwinVerdict
<1> QED BY <1>1, <1>2, NextTwin, Invariance, PTL DEF Spec

-----------------------------------------------------------------------------
(* What gen_vectors.py publishes.                                          *)

\* The generator's own copy of the algorithms computes what merkle.py does.
LEMMA SameAlgorithms ==
  ASSUME NEW leaves, NEW m
  PROVE  Vectors!mth(leaves) = merkle_root(leaves)
         /\ Vectors!audit_path(m, leaves) = audit_path(m, leaves)
<1>1. \A n : Vectors!largest_pow2_less_than(n) = LargestPow2LessThan(n)
  BY Zenon DEF Vectors!largest_pow2_less_than, LargestPow2LessThan, Doubled
<1>2. Vectors!Subtrees(leaves) = Roots(leaves)
  BY <1>1 DEF Vectors!Subtrees, Roots, Vectors!node_hash, node_hash
<1> QED BY <1>1, <1>2 DEF Vectors!mth, merkle_root, EmptyTreeRoot, Vectors!audit_path, audit_path, Paths

(***************************************************************************)
(* Every kernel that does as merkle.py does verifies the Merkle vectors,   *)
(* of whatever sizes: the root gen_vectors.py publishes is merkle_root's,  *)
(* and verify_inclusion accepts every proof published with it.  The vector *)
(* of 1024 leaves is one of them.                                          *)
(***************************************************************************)
THEOREM PublishedVectorsVerify == Spec => []PublishedVectorsHold
<1>1. ASSUME IInv, PathInv, NEW n \in VectorSizes, pc = "done", ClaimOf(MERKLE_VECTORS[n])
      PROVE  verdict /\ MERKLE_VECTORS[n].expected_root = Root(Committed)
  <2> DEFINE objects == Vectors!make_leaves(n)
             hashes == [i \in 1 .. Len(objects) |-> Vectors!leaf_hash(objects[i])]
             v == MERKLE_VECTORS[n]
             m == claim.leaf_index
  <2>1. n \in Nat \ {0} /\ Len(objects) = n /\ Len(hashes) = n
    BY VectorsAssumption DEF Vectors!make_leaves
  <2>2. v = Vectors!merkle_tree_vector(objects)
    BY DEF MERKLE_VECTORS
  <2>3. /\ v.leaf_count = n /\ v.leaf_hashes = hashes
        /\ v.expected_root = Vectors!mth(hashes)
        /\ v.inclusion_proofs = [i \in {0, n \div 2, n - 1} |-> Vectors!audit_path(i, hashes)]
    <3> HIDE DEF objects, v
    <3> QED BY <2>1, <2>2 DEF Vectors!merkle_tree_vector
  <2> HIDE DEF hashes, v
  <2>4. /\ claim.total_leaves = n /\ m \in {0, n \div 2, n - 1}
        /\ claim.leaf = hashes[m + 1] /\ claim.path = Vectors!audit_path(m, hashes)
        /\ hashes = LeafList(Committed)
    BY <1>1, <2>3 DEF ClaimOf, v
  <2>5. IsLevelTree(Committed)
    BY <1>1, CommittedTree DEF IInv, TypeOK
  <2>6. Committed.size = n /\ \A i \in 0 .. n - 1 : hashes[i + 1] = Committed.node[0][i]
    BY <2>1, <2>4, <2>5, ListOfLeaves
  <2>7. m \in 0 .. n - 1
    BY <2>1, <2>4
  <2>8. Genuine
    BY <2>4, <2>6, <2>7, SameAlgorithms DEF Genuine, TrueSize, LeafInPlace, Whole
  <2>9. v.expected_root = Root(Committed)
    BY <2>3, <2>4, <2>5, SameAlgorithms, LevelsAreTheRecursion
  <2> QED BY <1>1, <2>8, <2>9 DEF PathInv, GenuineInv, v
<1>2. IInv /\ PathInv => PublishedVectorsHold
  BY <1>1 DEF PublishedVectorsHold
<1> QED BY <1>2, Invariance, PathInvariance, PTL

-----------------------------------------------------------------------------
\* Whatever the numbers do, each hash of the loop is built from the one before.
LEMMA TurnsBuild ==
  ASSUME NEW leaf, NEW index, NEW size, NEW path, Len(path) \in Nat,
         NEW T, \A h \in T : IsNodeHash(h) => h[1] \in T /\ h[2] \in T,
         Turns(leaf, index, size, path)[Len(path)].r \in T
  PROVE  leaf \in T
<1> DEFINE after == Turns(leaf, index, size, path)
           Fields(n) == DOMAIN after[n] = {"fn", "sn", "r", "overlong"}
           Back(n) == Fields(n) /\ (after[n].r \in T => leaf \in T)
           B == {n \in 0 .. Len(path) : Back(n)}
<1>0. /\ after[0] = [fn |-> index, sn |-> size - 1, r |-> leaf, overlong |-> FALSE]
      /\ \A n \in 1 .. Len(path) : after[n] = Turn(after[n - 1], path[n])
  BY TurnsAre
<1> HIDE DEF after
<1>1. 0 \in B
  BY <1>0
<1>2. ASSUME NEW n \in 0 .. Len(path) - 1, n \in B PROVE n + 1 \in B
  <2>1. n + 1 \in 1 .. Len(path) /\ (n + 1) - 1 = n /\ n + 1 \in 0 .. Len(path)
    OBVIOUS
  <2>2. PICK p : p = path[n + 1]
    OBVIOUS
  <2>3. after[n + 1] = Turn(after[n], p)
    BY <1>0, <2>1, <2>2
  <2>4. Fields(n) /\ (after[n].r \in T => leaf \in T)
    BY <1>2
  <2>5. CASE after[n].sn = 0
    <3>1. after[n + 1] = [after[n] EXCEPT !.overlong = TRUE]
      BY <2>3, <2>5 DEF Turn
    <3> QED BY <2>1, <2>4, <3>1
  <2>6. CASE after[n].sn # 0
    <3>1. /\ Fields(n + 1)
          /\ \/ after[n + 1].r = node_hash(p, after[n].r)
             \/ after[n + 1].r = node_hash(after[n].r, p)
      BY <2>3, <2>6 DEF Turn, nodeHash, node_hash
    <3>2. after[n + 1].r \in T => after[n].r \in T
      BY <3>1, NodeHashFacts
    <3> QED BY <2>1, <2>4, <3>1, <3>2
  <2> QED BY <2>5, <2>6
<1>3. Len(path) \in B
  <2>1. PICK m \in Nat : m = Len(path)
    OBVIOUS
  <2>2. 0 \in B /\ \A k \in 0 .. m - 1 : k \in B => k + 1 \in B
    BY <1>1, <1>2, <2>1
  <2> HIDE DEF B
  <2>3. \A k \in 0 .. m : k \in B
    BY <2>2, Induction
  <2> QED BY <2>1, <2>3
<1> QED BY <1>3 DEF after

(***************************************************************************)
(* Membership soundness of the TypeScript kernel: whatever index, size and *)
(* path are presented, beyond the range of its bit operators too, a leaf   *)
(* hash verifyInclusion accepts is one of the leaves the root commits to.  *)
(***************************************************************************)
THEOREM TsLeafSoundness ==
  ASSUME NEW t, AreTerms(t),
         NEW leaf, IsLeafHash(leaf), NEW index, NEW size, NEW path, Len(path) \in Nat,
         verifyInclusion(leaf, index, size, path, Root(t))
  PROVE  leaf \in LeavesOf(t)
<1>1. Root(t) \in t.terms
  BY DEF AreTerms
<1>2. CASE size = 1
  BY <1>1, <1>2 DEF verifyInclusion, AreTerms
<1>3. CASE size # 1
  <2>1. Turns(leaf, index, size, path)[Len(path)].r = Root(t)
    BY <1>3 DEF verifyInclusion
  <2>2. leaf \in t.terms
    BY <1>1, <2>1, TurnsBuild DEF AreTerms
  <2> QED BY <2>2 DEF AreTerms
<1> QED BY <1>2, <1>3
=============================================================================
