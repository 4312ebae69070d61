------------------------- MODULE CanonicalDepthProofs -------------------------
(***************************************************************************)
(* exceeds_depth draws the line exactly at max_depth, for every document   *)
(* and every bound, and its walk ends.                                     *)
(***************************************************************************)
EXTENDS CanonicalDepth, SequenceTheorems, FiniteSetTheorems, TLAPS

TypeInv ==
  /\ stack \in Seq(Nodes(doc) \X Nat)
  /\ pc \in {"walk", "done"}
  /\ exceeds \in BOOLEAN

\* The arguments are the ones the call started with.
ArgumentsInv == doc \in Documents /\ max_depth \in Nat

\* A node is examined at its own depth.
DepthInv == \A i \in 1 .. Len(stack) : stack[i][2] = doc.level[stack[i][1]]

\* A container past the bound that has not been found is still under a node
\* on the stack.
PendingInv ==
  pc = "walk" => /\ exceeds = FALSE
                 /\ \A m \in TooDeep :
                      \E i \in 1 .. Len(stack) : m \in doc.below[stack[i][1]]

IInv == TypeInv /\ ArgumentsInv /\ DepthInv /\ PendingInv /\ GuardExact

-----------------------------------------------------------------------------
\* What a well-formed document says about one of its nodes.
LEMMA NodeFacts ==
  ASSUME ArgumentsInv, NEW n \in Nodes(doc)
  PROVE  /\ doc.children[n] \in Seq(Nodes(doc))
         /\ doc.level[n] \in Nat \ {0}
         /\ n \notin doc.containers => doc.children[n] = <<>>
         /\ \A i \in 1 .. Len(doc.children[n]) :
              doc.level[doc.children[n][i]] = doc.level[n] + 1
         /\ \A m \in doc.below[n] :
              \/ m = n
              \/ \E i \in 1 .. Len(doc.children[n]) : m \in doc.below[doc.children[n][i]]
<1>1. IsDocument(doc)
  BY DocumentsAssumption DEF ArgumentsInv
<1> QED BY <1>1 DEF IsDocument, ChildrenOf

\* A node that is not a container has nothing but itself under it.
LEMMA ScalarFacts ==
  ASSUME ArgumentsInv, NEW n \in Nodes(doc), n \notin doc.containers
  PROVE  doc.below[n] \cap doc.containers = {}
BY NodeFacts

\* The top of a stack that is not empty, and what is left without it.
LEMMA StackFacts ==
  ASSUME TypeInv, stack # <<>>
  PROVE  /\ Len(stack) \in Nat \ {0}
         /\ Top = stack[Len(stack)]
         /\ Top[1] \in Nodes(doc) /\ Top[2] \in Nat
         /\ Top = <<Top[1], Top[2]>>
         /\ Popped \in Seq(Nodes(doc) \X Nat)
         /\ Len(Popped) = Len(stack) - 1
         /\ \A i \in 1 .. Len(Popped) : Popped[i] = stack[i]
<1> DEFINE Items == Nodes(doc) \X Nat
           n == Len(stack)
<1>1. stack \in Seq(Items)
  BY DEF TypeInv
<1>2. n \in Nat \ {0}
  BY <1>1, EmptySeq, Z3
<1>3. \A i \in 1 .. n : stack[i] \in Items
  BY <1>1, ElementOfSeq
<1>4. Top = stack[n] /\ Top \in Items
  BY <1>2, <1>3 DEF Top
<1>5. Top[1] \in Nodes(doc) /\ Top[2] \in Nat /\ Top = <<Top[1], Top[2]>>
  BY <1>4
<1>6. /\ Popped \in Seq(Items)
      /\ Len(Popped) = n - 1
      /\ \A i \in 1 .. n - 1 : Popped[i] = stack[i]
  <2>1. 1 \in Int /\ n - 1 \in Int /\ \A i \in 1 .. n - 1 : stack[i] \in Items
    BY <1>2, <1>3
  <2> HIDE DEF Items, n
  <2>2. /\ SubSeq(stack, 1, n - 1) \in Seq(Items)
        /\ Len(SubSeq(stack, 1, n - 1)) = IF 1 <= n - 1 THEN n - 1 - 1 + 1 ELSE 0
        /\ \A i \in 1 .. n - 1 - 1 + 1 : SubSeq(stack, 1, n - 1)[i] = stack[1 + i - 1]
    BY <2>1, SubSeqProperties
  <2>3. Popped = SubSeq(stack, 1, n - 1)
    BY DEF Popped, n
  <2> QED BY <2>2, <2>3, <1>2
<1> QED BY <1>2, <1>4, <1>5, <1>6

\* Opening the container on top puts its children, one deeper, in its place.
LEMMA OpenFacts ==
  ASSUME TypeInv, ArgumentsInv, stack # <<>>
  PROVE  LET pushed == Pushed(Top[1], Top[2])
             opened == Popped \o pushed
         IN /\ pushed \in Seq(Nodes(doc) \X Nat)
            /\ Len(pushed) = Len(doc.children[Top[1]]) /\ Len(pushed) \in Nat
            /\ \A i \in 1 .. Len(pushed) : /\ pushed[i][1] = doc.children[Top[1]][i]
                                           /\ pushed[i][2] = Top[2] + 1
            /\ opened \in Seq(Nodes(doc) \X Nat)
            /\ Len(opened) = Len(Popped) + Len(pushed)
            /\ \A i \in 1 .. Len(Popped) : opened[i] = Popped[i]
            /\ \A i \in 1 .. Len(pushed) : opened[Len(Popped) + i] = pushed[i]
<1> DEFINE pushed == Pushed(Top[1], Top[2])
           Items == Nodes(doc) \X Nat
<1>1. Top[1] \in Nodes(doc) /\ Top[2] \in Nat /\ Popped \in Seq(Items)
  BY StackFacts
<1>2. /\ pushed \in Seq(Items)
      /\ Len(pushed) = Len(doc.children[Top[1]])
      /\ \A i \in 1 .. Len(pushed) : /\ pushed[i][1] = doc.children[Top[1]][i]
                                     /\ pushed[i][2] = Top[2] + 1
  BY <1>1, NodeFacts DEF Pushed
<1>3. Len(Popped) \in Nat /\ Len(pushed) \in Nat
  BY <1>1, <1>2, LenProperties
<1>a. Popped \in Seq(Items) /\ pushed \in Seq(Items)
  BY <1>1, <1>2
<1> HIDE DEF Items, pushed
<1>4. /\ Popped \o pushed \in Seq(Items)
      /\ Len(Popped \o pushed) = Len(Popped) + Len(pushed)
      /\ \A i \in 1 .. Len(Popped) + Len(pushed) : (Popped \o pushed)[i] =
            IF i <= Len(Popped) THEN Popped[i] ELSE pushed[i - Len(Popped)]
  BY <1>a, ConcatProperties
<1>5. \A i \in 1 .. Len(Popped) :
        i \in 1 .. Len(Popped) + Len(pushed) /\ i <= Len(Popped)
  BY <1>3
<1>6. \A i \in 1 .. Len(pushed) :
        /\ Len(Popped) + i \in 1 .. Len(Popped) + Len(pushed)
        /\ ~(Len(Popped) + i <= Len(Popped))
        /\ Len(Popped) + i - Len(Popped) = i
  BY <1>3
<1> QED BY <1>2, <1>3, <1>4, <1>5, <1>6 DEF Items, pushed

\* A pending container is under the top or under what is left.
LEMMA TopOrRest ==
  ASSUME TypeInv, PendingInv, pc = "walk", stack # <<>>, NEW m \in TooDeep
  PROVE  \/ m \in doc.below[Top[1]]
         \/ \E i \in 1 .. Len(Popped) : m \in doc.below[Popped[i][1]]
<1>1. PICK i \in 1 .. Len(stack) : m \in doc.below[stack[i][1]]
  BY DEF PendingInv
<1>2. CASE i = Len(stack)
  BY <1>1, <1>2, StackFacts
<1>3. CASE i # Len(stack)
  <2>1. i \in 1 .. Len(Popped) /\ Popped[i] = stack[i]
    BY <1>3, StackFacts
  <2> QED BY <1>1, <2>1
<1> QED BY <1>2, <1>3

-----------------------------------------------------------------------------
\* The walk starts with the whole document on the stack.
LEMMA InitInv == Init => IInv
<1> SUFFICES ASSUME Init PROVE IInv
  OBVIOUS
<1>1. ArgumentsInv /\ IsDocument(doc)
  BY DocumentsAssumption, MaxDepthsAssumption DEF Init, ArgumentsInv
<1>2. /\ doc.root \in Nodes(doc) /\ doc.level[doc.root] = 1
      /\ Len(stack) = 1 /\ stack[1] = <<doc.root, 1>>
  BY <1>1 DEF Init, IsDocument
<1>3. TypeInv
  <2>1. <<doc.root, 1>> \in Nodes(doc) \X Nat
    BY <1>2
  <2>2. \A S : \A x \in S : <<x>> \in Seq(S)
    OBVIOUS
  <2>3. << <<doc.root, 1>> >> \in Seq(Nodes(doc) \X Nat)
    BY <2>1, <2>2
  <2>4. stack = << <<doc.root, 1>> >> /\ pc = "walk" /\ exceeds = FALSE
    BY DEF Init
  <2> QED BY <2>3, <2>4 DEF TypeInv
<1>4. DepthInv
  BY <1>2 DEF DepthInv
<1>5. PendingInv
  <2> SUFFICES ASSUME NEW m \in TooDeep PROVE m \in doc.below[stack[1][1]]
    BY <1>2 DEF PendingInv, Init
  <2> QED BY <1>2 DEF TooDeep, Nodes
<1>6. GuardExact
  BY DEF Init, GuardExact
<1> QED BY <1>1, <1>3, <1>4, <1>5, <1>6 DEF IInv

\* Popping a scalar or opening a container leaves every pending container
\* under the stack, at the right depths.
LEMMA NextInv == IInv /\ [Next]_vars => IInv'
<1> SUFFICES ASSUME IInv, [Next]_vars PROVE IInv'
  OBVIOUS
<1> USE DEF IInv
<1>1. CASE SkipScalar
  <2>1. /\ stack # <<>> /\ pc = "walk" /\ Top[1] \notin doc.containers
        /\ stack' = Popped /\ UNCHANGED <<doc, max_depth, pc, exceeds>>
    BY <1>1 DEF SkipScalar
  <2>2. ArgumentsInv' /\ GuardExact' /\ TooDeep' = TooDeep
    BY <2>1 DEF ArgumentsInv, GuardExact, TooDeep, Nodes
  <2>3. TypeInv'
    BY <2>1, StackFacts DEF TypeInv, Nodes
  <2>4. DepthInv'
    BY <2>1, StackFacts DEF DepthInv
  <2>5. PendingInv'
    <3> SUFFICES ASSUME NEW m \in TooDeep
                 PROVE  \E i \in 1 .. Len(Popped) : m \in doc.below[Popped[i][1]]
      BY <2>1, <2>2 DEF PendingInv
    <3>1. m \notin doc.below[Top[1]]
      BY <2>1, StackFacts, ScalarFacts DEF TooDeep
    <3> QED BY <2>1, <3>1, TopOrRest
  <2> QED BY <2>2, <2>3, <2>4, <2>5
<1>2. CASE FindTooDeep
  <2>1. /\ stack # <<>> /\ pc = "walk" /\ Top[1] \in doc.containers
        /\ Top[2] > max_depth /\ pc' = "done" /\ exceeds' = TRUE
        /\ stack' = Popped /\ UNCHANGED <<doc, max_depth>>
    BY <1>2 DEF FindTooDeep
  <2>2. ArgumentsInv' /\ TooDeep' = TooDeep
    BY <2>1 DEF ArgumentsInv, TooDeep, Nodes
  <2>3. TypeInv'
    BY <2>1, StackFacts DEF TypeInv, Nodes
  <2>4. DepthInv' /\ PendingInv'
    BY <2>1, StackFacts DEF DepthInv, PendingInv
  <2>5. Top[1] \in TooDeep
    BY <2>1, StackFacts DEF DepthInv, TooDeep
  <2> QED BY <2>1, <2>2, <2>3, <2>4, <2>5 DEF GuardExact
<1>3. CASE OpenContainer
  <2> DEFINE n == Top[1]
             d == Top[2]
             pushed == Pushed(n, d)
  <2>1. /\ stack # <<>> /\ pc = "walk" /\ n \in doc.containers
        /\ d <= max_depth
        /\ stack' = Popped \o pushed /\ UNCHANGED <<doc, max_depth, pc, exceeds>>
    BY <1>3 DEF OpenContainer
  <2>2. ArgumentsInv' /\ GuardExact' /\ TooDeep' = TooDeep
    BY <2>1 DEF ArgumentsInv, GuardExact, TooDeep, Nodes
  <2>3. n \in Nodes(doc) /\ d \in Nat /\ d = doc.level[n]
    <3>1. Len(stack) \in 1 .. Len(stack) /\ Top = stack[Len(stack)]
      BY <2>1, StackFacts
    <3>2. Top[2] = doc.level[Top[1]]
      BY <3>1 DEF DepthInv
    <3> QED BY <2>1, <3>2, StackFacts
  <2>4. /\ pushed \in Seq(Nodes(doc) \X Nat)
        /\ Len(pushed) = Len(doc.children[n])
        /\ \A i \in 1 .. Len(pushed) : /\ pushed[i][1] = doc.children[n][i]
                                       /\ pushed[i][2] = d + 1
    BY <2>3, NodeFacts DEF Pushed
  <2>5. /\ Popped \in Seq(Nodes(doc) \X Nat)
        /\ \A i \in 1 .. Len(Popped) : Popped[i] = stack[i] /\ i \in 1 .. Len(stack)
    BY <2>1, StackFacts
  <2> HIDE DEF n, d, pushed
  <2>6. /\ stack' \in Seq(Nodes(doc) \X Nat)
        /\ Len(stack') = Len(Popped) + Len(pushed)
        /\ \A i \in 1 .. Len(Popped) : stack'[i] = Popped[i]
        /\ \A i \in 1 .. Len(pushed) : stack'[Len(Popped) + i] = pushed[i]
    BY <2>1, <2>3, OpenFacts DEF n, d, pushed
  <2>7. TypeInv'
    BY <2>1, <2>6 DEF TypeInv, Nodes
  <2>8. DepthInv'
    <3> SUFFICES ASSUME NEW i \in 1 .. Len(stack')
                 PROVE  stack'[i][2] = doc.level[stack'[i][1]]
      BY <2>1 DEF DepthInv
    <3>1. CASE i <= Len(Popped)
      BY <3>1, <2>5, <2>6 DEF DepthInv
    <3>2. CASE i > Len(Popped)
      <4>1. PICK j \in 1 .. Len(pushed) : i = Len(Popped) + j
        <5> i - Len(Popped) \in 1 .. Len(pushed)
          BY <3>2, <2>4, <2>5, <2>6
        <5> QED BY <2>5
      <4>2. stack'[i] = pushed[j]
        BY <4>1, <2>6
      <4> QED BY <4>2, <2>3, <2>4, NodeFacts
    <3> QED BY <3>1, <3>2, <2>4, <2>5, <2>6
  <2>9. PendingInv'
    <3> SUFFICES ASSUME NEW m \in TooDeep
                 PROVE  \E i \in 1 .. Len(stack') : m \in doc.below[stack'[i][1]]
      BY <2>1, <2>2 DEF PendingInv
    <3>1. CASE \E i \in 1 .. Len(Popped) : m \in doc.below[Popped[i][1]]
      <4>1. PICK i \in 1 .. Len(Popped) : m \in doc.below[Popped[i][1]]
        BY <3>1
      <4>2. i \in 1 .. Len(stack') /\ stack'[i] = Popped[i]
        BY <2>4, <2>5, <2>6
      <4> QED BY <4>1, <4>2
    <3>2. CASE m \in doc.below[n]
      <4>1. m # n
        BY <2>1, <2>3 DEF TooDeep, ArgumentsInv
      <4>2. PICK i \in 1 .. Len(doc.children[n]) : m \in doc.below[doc.children[n][i]]
        BY <3>2, <4>1, <2>3, NodeFacts
      <4>3. i \in 1 .. Len(pushed) /\ pushed[i][1] = doc.children[n][i]
        BY <4>2, <2>4
      <4>4. Len(Popped) + i \in 1 .. Len(stack') /\ stack'[Len(Popped) + i] = pushed[i]
        BY <4>3, <2>4, <2>5, <2>6
      <4> QED BY <4>2, <4>3, <4>4
    <3> QED BY <2>1, <3>1, <3>2, TopOrRest DEF n
  <2> QED BY <2>2, <2>7, <2>8, <2>9
<1>4. CASE Exhausted
  <2>1. /\ pc = "walk" /\ stack = <<>> /\ pc' = "done"
        /\ UNCHANGED <<doc, max_depth, stack, exceeds>>
    BY <1>4 DEF Exhausted
  <2>2. TooDeep = {} /\ exceeds = FALSE
    BY <2>1 DEF PendingInv
  <2>3. TooDeep' = TooDeep
    BY <2>1 DEF TooDeep, Nodes
  <2>4. TypeInv' /\ ArgumentsInv' /\ DepthInv' /\ PendingInv'
    BY <2>1 DEF TypeInv, ArgumentsInv, DepthInv, PendingInv, Nodes
  <2> QED BY <2>1, <2>2, <2>3, <2>4 DEF GuardExact
<1>5. CASE UNCHANGED vars
  BY <1>5 DEF vars, TypeInv, ArgumentsInv, DepthInv, PendingInv, GuardExact, TooDeep, Nodes
<1> QED BY <1>1, <1>2, <1>3, <1>4, <1>5 DEF Next

\* IInv holds throughout the walk.
LEMMA Invariance == Spec => []IInv
BY InitInv, NextInv, PTL DEF Spec

(***************************************************************************)
(* The stack of exceeds_depth holds values of the document, each with the  *)
(* depth it has in it.                                                     *)
(***************************************************************************)
THEOREM TypeCorrect == Spec => []TypeOK
<1>1. IInv => TypeOK
  BY DEF IInv, TypeInv, DepthInv, TypeOK
<1> QED BY <1>1, Invariance, PTL

(***************************************************************************)
(* exceeds_depth returns True for a document iff it has a container deeper *)
(* than max_depth: for every document, every bound and the order of the    *)
(* walk the code has.                                                      *)
(***************************************************************************)
THEOREM GuardIsExact == Spec => []GuardExact
<1>1. IInv => GuardExact
  BY DEF IInv
<1> QED BY <1>1, Invariance, PTL

-----------------------------------------------------------------------------
(* The walk ends.                                                          *)

\* Nodes are looked at down to one level past the bound and no deeper.
BoundInv == \A i \in 1 .. Len(stack) : stack[i][2] \in 1 .. max_depth + 1

\* The number of nodes of depth d that wait on the stack.
Positions(d) == {i \in 1 .. Len(stack) : stack[i][2] = d}
Waiting(d) == Cardinality(Positions(d))

\* One node less waits at some depth, as many as before at the depths above:
\* down in the lexicographic order of the max_depth + 1 numbers.
Nearer ==
  \E d \in 1 .. max_depth + 1 :
    /\ Waiting(d)' < Waiting(d)
    /\ \A e \in 1 .. d - 1 : Waiting(e)' = Waiting(e)

\* Finitely many wait.
LEMMA WaitingFacts ==
  ASSUME TypeInv, NEW d
  PROVE  IsFiniteSet(Positions(d)) /\ Waiting(d) \in Nat
<1>1. Len(stack) \in Nat
  BY DEF TypeInv
<1>2. IsFiniteSet(1 .. Len(stack))
  BY <1>1, FS_Interval
<1>3. IsFiniteSet(Positions(d))
  BY <1>2, FS_Subset DEF Positions
<1> QED BY <1>3, FS_CardinalityType DEF Waiting

\* What takes the top off and puts deeper nodes on is a step nearer.
LEMMA DeeperIsNearer ==
  ASSUME TypeInv, BoundInv, stack # <<>>, max_depth \in Nat, max_depth' = max_depth,
         NEW k \in Nat, Len(stack') = Len(Popped) + k,
         \A i \in 1 .. Len(Popped) : stack'[i] = stack[i],
         \A i \in 1 .. k : stack'[Len(Popped) + i][2] = Top[2] + 1
  PROVE  Nearer
<1>0. PICK n, d : n = Len(stack) /\ d = Top[2]
  OBVIOUS
<1>1. n \in Nat \ {0} /\ Len(Popped) = n - 1 /\ d = stack[n][2] /\ d \in 1 .. max_depth + 1
  BY <1>0, StackFacts DEF BoundInv
<1>2. Len(stack') = n - 1 + k
  BY <1>1
<1>3. \A i \in 1 .. n - 1 : stack'[i] = stack[i] /\ i \in 1 .. Len(stack') /\ i \in 1 .. n
  BY <1>1, <1>2
<1>4. \A i \in 1 .. Len(stack') : i \in 1 .. n - 1 \/ stack'[i][2] = d + 1
  <2> TAKE i \in 1 .. Len(stack')
  <2>1. CASE i <= n - 1
    BY <1>1, <1>2, <2>1
  <2>2. CASE i > n - 1
    <3>1. i - (n - 1) \in 1 .. k /\ i = (n - 1) + (i - (n - 1))
      BY <1>1, <1>2, <2>2
    <3> QED BY <1>0, <1>1, <3>1
  <2> QED BY <1>1, <1>2, <2>1, <2>2
<1>5. \A e \in 1 .. d : Positions(e)' = {i \in 1 .. n - 1 : stack[i][2] = e}
  <2> TAKE e \in 1 .. d
  <2>1. e # d + 1
    BY <1>1
  <2> QED BY <1>3, <1>4, <2>1 DEF Positions
<1>6. \A e \in 1 .. d - 1 : Positions(e) = {i \in 1 .. n - 1 : stack[i][2] = e}
  <2> TAKE e \in 1 .. d - 1
  <2>1. e # d
    BY <1>1
  <2>2. \A i \in 1 .. n : i \in 1 .. n - 1 \/ i = n
    BY <1>1
  <2> QED BY <1>0, <1>1, <1>3, <2>1, <2>2 DEF Positions
<1>7. n \in Positions(d) /\ Positions(d) \ {n} = {i \in 1 .. n - 1 : stack[i][2] = d}
  <2>1. \A i \in 1 .. n : i \in 1 .. n - 1 <=> i # n
    BY <1>1
  <2>2. n \in 1 .. n
    BY <1>1
  <2> QED BY <1>0, <1>1, <1>3, <2>1, <2>2 DEF Positions
<1>8. Positions(d)' = Positions(d) \ {n}
  <2>1. d \in 1 .. d
    BY <1>1
  <2> QED BY <1>5, <1>7, <2>1
<1>9. Waiting(d)' = Waiting(d) - 1 /\ Waiting(d) \in Nat
  BY <1>7, <1>8, WaitingFacts, FS_RemoveElement DEF Waiting
<1>10. Waiting(d)' < Waiting(d)
  BY <1>9
<1>11. \A e \in 1 .. d - 1 : Waiting(e)' = Waiting(e)
  <2> TAKE e \in 1 .. d - 1
  <2>1. e \in 1 .. d
    BY <1>1
  <2> QED BY <1>5, <1>6, <2>1 DEF Waiting
<1> QED BY <1>1, <1>10, <1>11 DEF Nearer

\* Every turn of the loop is one, and keeps to the bound.
LEMMA TurnsDescend ==
  IInv /\ BoundInv /\ [Next]_vars => BoundInv' /\ [pc = "walk" /\ (pc' = "done" \/ Nearer)]_vars
<1> SUFFICES ASSUME IInv, BoundInv, [Next]_vars
             PROVE  BoundInv' /\ [pc = "walk" /\ (pc' = "done" \/ Nearer)]_vars
  OBVIOUS
<1>0. max_depth \in Nat /\ TypeInv /\ ArgumentsInv
  BY DEF IInv, ArgumentsInv
<1>1. CASE SkipScalar \/ FindTooDeep
  <2>1. /\ pc = "walk" /\ stack # <<>> /\ stack' = Popped /\ max_depth' = max_depth
    BY <1>1 DEF SkipScalar, FindTooDeep
  <2>2. /\ Len(stack') = Len(Popped) /\ Len(Popped) \in Nat
        /\ \A i \in 1 .. Len(Popped) : stack'[i] = stack[i] /\ i \in 1 .. Len(stack)
    BY <1>0, <2>1, StackFacts
  <2>3. BoundInv'
    BY <2>1, <2>2 DEF BoundInv
  <2>4. Nearer
    <3>1. Len(stack') = Len(Popped) + 0 /\ 1 .. 0 = {}
      BY <2>2
    <3> QED BY <1>0, <2>1, <2>2, <3>1, DeeperIsNearer
  <2> QED BY <2>1, <2>3, <2>4
<1>2. CASE OpenContainer
  <2>1. /\ pc = "walk" /\ stack # <<>> /\ Top[2] <= max_depth
        /\ stack' = Popped \o Pushed(Top[1], Top[2]) /\ max_depth' = max_depth
    BY <1>2 DEF OpenContainer
  <2>2. PICK k \in Nat :
          /\ Len(stack') = Len(Popped) + k
          /\ \A i \in 1 .. Len(Popped) : stack'[i] = Popped[i]
          /\ \A i \in 1 .. k : stack'[Len(Popped) + i][2] = Top[2] + 1
    <3> DEFINE pushed == Pushed(Top[1], Top[2])
    <3>1. /\ Len(pushed) \in Nat /\ Len(stack') = Len(Popped) + Len(pushed)
          /\ \A i \in 1 .. Len(Popped) : stack'[i] = Popped[i]
          /\ \A i \in 1 .. Len(pushed) :
               stack'[Len(Popped) + i] = pushed[i] /\ pushed[i][2] = Top[2] + 1
      BY <1>0, <2>1, OpenFacts
    <3> HIDE DEF pushed
    <3>2. \A i \in 1 .. Len(pushed) : stack'[Len(Popped) + i][2] = Top[2] + 1
      BY <3>1
    <3> QED BY <3>1, <3>2
  <2>3. /\ Len(Popped) \in Nat
        /\ \A i \in 1 .. Len(Popped) : Popped[i] = stack[i] /\ i \in 1 .. Len(stack)
    BY <1>0, <2>1, StackFacts
  <2>4. Top[2] + 1 \in 1 .. max_depth + 1
    BY <1>0, <2>1, StackFacts
  <2>5. BoundInv'
    <3> SUFFICES ASSUME NEW i \in 1 .. Len(stack') PROVE stack'[i][2] \in 1 .. max_depth + 1
      BY <2>1 DEF BoundInv
    <3>1. CASE i <= Len(Popped)
      <4>1. i \in 1 .. Len(Popped)
        BY <2>2, <2>3, <3>1
      <4> QED BY <2>2, <2>3, <4>1 DEF BoundInv
    <3>2. CASE i > Len(Popped)
      <4>1. i - Len(Popped) \in 1 .. k /\ i = Len(Popped) + (i - Len(Popped))
        BY <2>2, <2>3, <3>2
      <4> QED BY <2>2, <2>4, <4>1
    <3> QED BY <2>2, <2>3, <3>1, <3>2
  <2>6. Nearer
    BY <1>0, <2>1, <2>2, <2>3, DeeperIsNearer
  <2> QED BY <2>1, <2>5, <2>6
<1>3. CASE Exhausted
  BY <1>3 DEF Exhausted, BoundInv
<1>4. CASE UNCHANGED vars
  BY <1>4 DEF vars, BoundInv
<1> QED BY <1>1, <1>2, <1>3, <1>4 DEF Next

(***************************************************************************)
(* exceeds_depth cannot run forever, and nothing is assumed of the size of *)
(* the document: every turn of its loop ends the call, after which there   *)
(* is none, or is one down in the order of the numbers of nodes waiting at *)
(* each depth, of which there are max_depth + 1.  Without the bound there  *)
(* would be no such order.                                                 *)
(***************************************************************************)
THEOREM WalkEnds ==
  Spec => /\ [](\A d \in 1 .. max_depth + 1 : Waiting(d) \in Nat)
          /\ [][pc = "walk" /\ (pc' = "done" \/ Nearer)]_vars
<1>1. Init => BoundInv
  <2> SUFFICES ASSUME Init PROVE BoundInv
    OBVIOUS
  <2>1. Len(stack) = 1 /\ stack[1][2] = 1 /\ max_depth \in Nat
    BY MaxDepthsAssumption DEF Init
  <2> QED BY <2>1 DEF BoundInv
<1>2. IInv => \A d \in 1 .. max_depth + 1 : Waiting(d) \in Nat
  BY WaitingFacts DEF IInv
<1> QED BY <1>1, <1>2, Invariance, TurnsDescend, PTL DEF Spec

=============================================================================
