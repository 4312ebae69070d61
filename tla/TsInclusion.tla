---------------------------- MODULE TsInclusion ----------------------------
(***************************************************************************)
(* verifyInclusion of ts/src/merkle.ts, as one operator: the walk of       *)
(* InclusionWalk on JavaScript numbers.  Its bit operators convert to      *)
(* signed integers of a fixed width, its comparisons do not; in Python     *)
(* neither does.                                                           *)
(***************************************************************************)
EXTENDS Integers, Sequences

CONSTANT Half  \* bit operators see -Half .. Half - 1: Half is 2^31

ASSUME HalfAssumption == Half \in Nat \ {0}

nodeHash(left, right) == <<left, right>>

ToInt(x) ==
  LET low == x % (2 * Half)
  IN IF low >= Half THEN low - 2 * Half ELSE low

\* x >>= 1 keeps the sign; x & 1 is the lowest bit, of negative numbers too.
Shift(x) == ToInt(x) \div 2
Odd(x) == ToInt(x) % 2 = 1

\* Mutant: a node without a sibling on its level is taken for a left child.
HasLeftSibling_OddOnly(fn, sn) == Odd(fn)

HasLeftSibling(fn, sn) == Odd(fn) \/ fn = sn

\* The inner while: what it leaves in fn and sn.
SkipPromotions ==
  LET skip[fn \in Int] ==
        [sn \in Int |-> IF ~Odd(fn) /\ fn # 0
                        THEN skip[Shift(fn)][Shift(sn)]
                        ELSE [fn |-> fn, sn |-> sn]]
  IN skip

\* One turn of the for loop; its early return leaves `overlong' behind, and
\* sn at 0, so that every later turn does the same.
Turn(s, p) ==
  LET at == IF HasLeftSibling(s.fn, s.sn)
            THEN SkipPromotions[s.fn][s.sn]
            ELSE [fn |-> s.fn, sn |-> s.sn]
  IN IF s.sn = 0
     THEN [s EXCEPT !.overlong = TRUE]
     ELSE [fn |-> Shift(at.fn), sn |-> Shift(at.sn),
           r |-> IF HasLeftSibling(s.fn, s.sn) THEN nodeHash(p, s.r) ELSE nodeHash(s.r, p),
           overlong |-> FALSE]

\* The loop's variables after each turn.
Turns(leaf, leafIndex, totalLeaves, auditPath) ==
  LET after[n \in 0 .. Len(auditPath)] ==
        IF n = 0
        THEN [fn |-> leafIndex, sn |-> totalLeaves - 1, r |-> leaf, overlong |-> FALSE]
        ELSE Turn(after[n - 1], auditPath[n])
  IN after

verifyInclusion(leaf, leafIndex, totalLeaves, auditPath, expectedRoot) ==
  LET last == Turns(leaf, leafIndex, totalLeaves, auditPath)[Len(auditPath)]
  IN /\ leafIndex >= 0 /\ totalLeaves > 0 /\ leafIndex < totalLeaves
     /\ IF totalLeaves = 1
        THEN auditPath = <<>> /\ leaf = expectedRoot
        ELSE ~last.overlong /\ last.sn = 0 /\ last.r = expectedRoot
=============================================================================
