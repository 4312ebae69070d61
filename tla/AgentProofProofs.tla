--------------------------- MODULE AgentProofProofs ---------------------------
(***************************************************************************)
(* Proofs about AgentProof for every set of bundles, any number of         *)
(* gateways and whatever they answer.                                      *)
(***************************************************************************)
EXTENDS AgentProof, TLAPS

Stages == {"gates", "walk", "refetch", "rollup", "done"}
Statuses == {"verified", "partial", "failed", "malformed"}

TypeInv ==
  /\ bundle \in Bundles /\ gateways \in GatewayLists
  /\ pc \in Stages
  /\ checkpointOk \in BOOLEAN /\ inclusionOk \in BOOLEAN
  /\ onChainOk \in {"true", "false", "null"}
  /\ gatewayUnavailable \in BOOLEAN /\ anyReachable \in BOOLEAN
  /\ asked \in 0 .. Len(gateways)
  /\ status \in Statuses \cup {Absent}
  /\ status # Absent <=> pc = "done"

\* What the first two checks found, in terms of the bundle.
CheckpointBound ==
  /\ EnvelopeRead
  /\ VerifyEnvelopeOk(bundle.checkpoint_envelope)
  /\ payload_hash_ok(bundle.checkpoint_envelope, Absent) = "true"

ChecksInv ==
  /\ checkpointOk => CheckpointBound
  /\ inclusionOk => HasRoot /\ Included

\* A gateway that delivered the checkpoint.
Confirmed == \E i \in DOMAIN gateways : answers[gateways[i]] = bundle.checkpoint_envelope

\* Only a delivery makes onChainOk true, and once the re-fetch is behind it is
\* true or the gateways are noted as unavailable.
ChainInv ==
  /\ onChainOk = "true" => Confirmed
  /\ pc \in {"gates", "walk", "refetch"} => ~gatewayUnavailable
  /\ pc = "rollup" /\ gateways # <<>> =>
       onChainOk \in {"true", "false"} \/ gatewayUnavailable

VerdictInv ==
  status = "verified" =>
    /\ checkpointOk /\ inclusionOk
    /\ gateways # <<>> => onChainOk = "true"

IInv == TypeInv /\ ChecksInv /\ ChainInv /\ VerdictInv

-----------------------------------------------------------------------------
\* The list of gateways is finite.
LEMMA ListOfGateways ==
  ASSUME TypeInv
  PROVE  Len(gateways) \in Nat /\ DOMAIN gateways = 1 .. Len(gateways)
BY GatewaysAssumption DEF TypeInv

\* The call starts with nothing checked and nobody asked.
LEMMA InitInv == Init => IInv
<1> SUFFICES ASSUME Init PROVE IInv
  OBVIOUS
<1>1. TypeInv
  <2>1. asked = 0 /\ Len(gateways) \in Nat
    BY GatewaysAssumption DEF Init
  <2>2. asked \in 0 .. Len(gateways)
    BY <2>1
  <2>3. /\ bundle \in Bundles /\ gateways \in GatewayLists
        /\ pc = "gates" /\ status = Absent
        /\ checkpointOk = FALSE /\ inclusionOk = FALSE /\ onChainOk = "null"
        /\ gatewayUnavailable = FALSE /\ anyReachable = FALSE
    BY DEF Init
  <2> QED BY <2>2, <2>3 DEF TypeInv, Stages
<1>2. ChecksInv /\ ChainInv
  BY DEF Init, ChecksInv, ChainInv
<1>3. VerdictInv
  BY StatusAssumption DEF Init, VerdictInv
<1> QED BY <1>1, <1>2, <1>3 DEF IInv

\* Arguments do not change, and so neither does what they imply.
LEMMA Facts ==
  ASSUME UNCHANGED args
  PROVE  /\ CheckpointBound' <=> CheckpointBound
         /\ (HasRoot /\ Included)' <=> HasRoot /\ Included
         /\ Confirmed' <=> Confirmed
<1>1. bundle' = bundle /\ gateways' = gateways /\ answers' = answers
  BY DEF args
<1>2. CheckpointBound' <=> CheckpointBound
  BY <1>1, Zenon DEF CheckpointBound, EnvelopeRead
<1>3. (HasRoot /\ Included)' <=> HasRoot /\ Included
  BY <1>1, Zenon DEF HasRoot, Included, payload
<1>4. Confirmed' <=> Confirmed
  BY <1>1 DEF Confirmed
<1> QED BY <1>2, <1>3, <1>4

\* Every step of the call keeps what it found.
LEMMA NextInv == IInv /\ [Next]_vars => IInv'
<1> SUFFICES ASSUME IInv, [Next]_vars PROVE IInv'
  OBVIOUS
<1> USE StatusAssumption DEF Stages, Statuses
<1>a. /\ TypeInv /\ ChecksInv /\ ChainInv /\ VerdictInv
      /\ Len(gateways) \in Nat /\ DOMAIN gateways = 1 .. Len(gateways)
  BY ListOfGateways DEF IInv
<1>1. CASE RejectMalformed
  <2>1. /\ UNCHANGED args /\ UNCHANGED checks /\ UNCHANGED chainState
        /\ pc = "gates" /\ pc' = "done" /\ status' = "malformed"
    BY <1>1 DEF RejectMalformed
  <2>2. TypeInv' /\ VerdictInv'
    BY <1>a, <2>1 DEF TypeInv, VerdictInv, args, checks, chainState
  <2>3. ChecksInv' /\ ChainInv'
    BY <1>a, <2>1, Facts DEF ChecksInv, ChainInv, checks, chainState
  <2> QED BY <2>2, <2>3 DEF IInv
<1>2. CASE VerifyCheckpoint
  <2>1. /\ UNCHANGED args /\ inclusionOk' = inclusionOk /\ UNCHANGED chainState
        /\ pc = "gates" /\ pc' = "walk" /\ status' = status
        /\ checkpointOk' \in BOOLEAN /\ (checkpointOk' <=> CheckpointBound)
    BY <1>2, Zenon DEF VerifyCheckpoint, CheckpointBound
  <2>2. TypeInv' /\ VerdictInv'
    BY <1>a, <2>1 DEF TypeInv, VerdictInv, args, chainState
  <2>3. ChecksInv' /\ ChainInv'
    BY <1>a, <2>1, Facts DEF ChecksInv, ChainInv, chainState
  <2> QED BY <2>2, <2>3 DEF IInv
<1>3. CASE WalkPath
  <2>1. /\ UNCHANGED args /\ checkpointOk' = checkpointOk /\ UNCHANGED chainState
        /\ pc = "walk" /\ status' = status
        /\ pc' \in {"rollup", "refetch"} /\ (pc' = "rollup" => gateways = <<>>)
        /\ inclusionOk' \in BOOLEAN /\ (inclusionOk' => HasRoot /\ Included)
    BY <1>3 DEF WalkPath
  <2>2. TypeInv' /\ VerdictInv'
    BY <1>a, <2>1 DEF TypeInv, VerdictInv, args, chainState
  <2>3. ChecksInv'
    BY <1>a, <2>1, Facts DEF ChecksInv
  <2>4. ChainInv'
    BY <1>a, <2>1, Facts DEF ChainInv, args, chainState
  <2> QED BY <2>2, <2>3, <2>4 DEF IInv
<1>4. CASE NoFetchImplementation
  <2>1. /\ UNCHANGED args /\ UNCHANGED checks /\ onChainOk' = onChainOk /\ asked' = asked
        /\ anyReachable' = anyReachable /\ status' = status
        /\ pc = "refetch" /\ pc' = "rollup" /\ gatewayUnavailable' = TRUE
    BY <1>4 DEF NoFetchImplementation
  <2>2. TypeInv' /\ VerdictInv'
    BY <1>a, <2>1 DEF TypeInv, VerdictInv, args, checks
  <2>3. ChecksInv' /\ ChainInv'
    BY <1>a, <2>1, Facts DEF ChecksInv, ChainInv, checks
  <2> QED BY <2>2, <2>3 DEF IInv
<1>5. CASE NothingToCompare
  <2>1. /\ UNCHANGED args /\ UNCHANGED checks /\ asked' = asked /\ status' = status
        /\ anyReachable' = anyReachable /\ gatewayUnavailable' = gatewayUnavailable
        /\ pc = "refetch" /\ pc' = "rollup" /\ onChainOk' = "false"
    BY <1>5 DEF NothingToCompare
  <2>2. TypeInv' /\ VerdictInv'
    BY <1>a, <2>1 DEF TypeInv, VerdictInv, args, checks
  <2>3. ChecksInv' /\ ChainInv'
    BY <1>a, <2>1, Facts DEF ChecksInv, ChainInv, checks
  <2> QED BY <2>2, <2>3 DEF IInv
<1>6. CASE TryNext
  <2>1. /\ UNCHANGED args /\ UNCHANGED checks /\ status' = status /\ onChainOk' = onChainOk
        /\ gatewayUnavailable' = gatewayUnavailable
        /\ pc = "refetch" /\ pc' = pc
        /\ asked < Len(gateways) /\ asked' = asked + 1
    BY <1>6 DEF TryNext, Asking
  <2>2. anyReachable' \in BOOLEAN
    BY <1>6 DEF TryNext
  <2>3. asked' \in 0 .. Len(gateways')
    BY <1>a, <2>1 DEF TypeInv, args
  <2>4. TypeInv' /\ VerdictInv'
    BY <1>a, <2>1, <2>2, <2>3 DEF TypeInv, VerdictInv, args, checks
  <2>5. ChecksInv' /\ ChainInv'
    BY <1>a, <2>1, Facts DEF ChecksInv, ChainInv, checks
  <2> QED BY <2>4, <2>5 DEF IInv
<1>7. CASE Compare
  <2>1. /\ UNCHANGED args /\ UNCHANGED checks /\ status' = status
        /\ gatewayUnavailable' = gatewayUnavailable /\ anyReachable' = TRUE
        /\ pc = "refetch" /\ pc' = "rollup"
        /\ asked < Len(gateways) /\ asked' = asked + 1
        /\ onChainOk' = IF Answer = bundle.checkpoint_envelope THEN "true" ELSE "false"
    BY <1>7 DEF Compare, Asking
  <2>2. asked' \in 0 .. Len(gateways')
    BY <1>a, <2>1 DEF TypeInv, args
  <2>3. TypeInv' /\ VerdictInv'
    BY <1>a, <2>1, <2>2 DEF TypeInv, VerdictInv, args, checks
  <2>4. Answer = bundle.checkpoint_envelope => Confirmed
    <3>1. asked + 1 \in DOMAIN gateways
      BY <1>a, <2>1 DEF TypeInv
    <3> QED BY <3>1 DEF Answer, Confirmed
  <2>5. ChecksInv' /\ ChainInv'
    BY <1>a, <2>1, <2>4, Facts DEF ChecksInv, ChainInv, checks
  <2> QED BY <2>3, <2>5 DEF IInv
<1>8. CASE GatewaysExhausted
  <2>1. /\ UNCHANGED args /\ UNCHANGED checks /\ status' = status /\ asked' = asked
        /\ anyReachable' = anyReachable
        /\ pc = "refetch" /\ pc' = "rollup"
        /\ onChainOk' = IF anyReachable THEN "false" ELSE "null"
        /\ gatewayUnavailable' = ~anyReachable
    BY <1>8 DEF GatewaysExhausted, Asking
  <2>2. TypeInv' /\ VerdictInv'
    BY <1>a, <2>1 DEF TypeInv, VerdictInv, args, checks
  <2>3. ChecksInv' /\ ChainInv'
    BY <1>a, <2>1, Facts DEF ChecksInv, ChainInv, checks
  <2> QED BY <2>2, <2>3 DEF IInv
<1>9. CASE Rollup
  <2>1. /\ UNCHANGED args /\ UNCHANGED checks /\ UNCHANGED chainState
        /\ pc = "rollup" /\ pc' = "done"
        /\ status' = IF ~checkpointOk \/ ~inclusionOk \/ onChainOk = "false" THEN "failed"
                     ELSE IF gatewayUnavailable THEN "partial" ELSE "verified"
    BY <1>9 DEF Rollup
  <2>2. TypeInv'
    BY <1>a, <2>1 DEF TypeInv, args, checks, chainState
  <2>3. VerdictInv'
    BY <1>a, <2>1 DEF VerdictInv, ChainInv, args, checks, chainState
  <2>4. ChecksInv' /\ ChainInv'
    BY <1>a, <2>1, Facts DEF ChecksInv, ChainInv, checks, chainState
  <2> QED BY <2>2, <2>3, <2>4 DEF IInv
<1>10. CASE UNCHANGED vars
  <2>1. UNCHANGED args /\ UNCHANGED checks /\ UNCHANGED chainState /\ pc' = pc /\ status' = status
    BY <1>10 DEF vars
  <2>2. TypeInv' /\ VerdictInv'
    BY <1>a, <2>1 DEF TypeInv, VerdictInv, args, checks, chainState
  <2>3. ChecksInv' /\ ChainInv'
    BY <1>a, <2>1, Facts DEF ChecksInv, ChainInv, args, checks, chainState
  <2> QED BY <2>2, <2>3 DEF IInv
<1> QED
  BY <1>1, <1>2, <1>3, <1>4, <1>5, <1>6, <1>7, <1>8, <1>9, <1>10 DEF Next

\* IInv holds throughout the call.
LEMMA Invariance == Spec => []IInv
BY InitInv, NextInv, PTL DEF Spec

-----------------------------------------------------------------------------
(***************************************************************************)
(* verifyAgentProofBundle asks each gateway at most once, in order, and    *)
(* has a status exactly when it has returned.                              *)
(***************************************************************************)
THEOREM TypeCorrect == Spec => []TypeOK
<1>1. IInv => TypeOK
  BY DEF IInv, TypeInv, TypeOK, Stages, Statuses
<1> QED BY <1>1, Invariance, PTL

-----------------------------------------------------------------------------
\* No more steps than this are left of a call: those of the stages and a
\* request to each gateway not asked yet.
Stage ==
  CASE pc = "gates" -> 4 [] pc = "walk" -> 3 [] pc = "refetch" -> 2
    [] pc = "rollup" -> 1 [] pc = "done" -> 0
GatewaysLeft == Len(gateways) - asked
StepsLeft == Stage + GatewaysLeft

(***************************************************************************)
(* verifyAgentProofBundle cannot run forever, whatever the bundle and      *)
(* however the gateways answer or fail to: with G gateways a call takes    *)
(* G + 4 steps at most, and none is asked more often than it is listed.    *)
(***************************************************************************)
THEOREM StepsRunOut ==
  Spec => [](StepsLeft \in Nat) /\ [][StepsLeft' < StepsLeft]_vars
<1>1. ASSUME IInv PROVE Stage \in Nat /\ GatewaysLeft \in Nat /\ asked \in Nat
  <2>1. pc \in Stages /\ asked \in 0 .. Len(gateways) /\ Len(gateways) \in Nat
    BY <1>1, ListOfGateways DEF IInv, TypeInv
  <2>2. Stage \in Nat
    BY <2>1 DEF Stage, Stages
  <2> QED BY <2>1, <2>2 DEF GatewaysLeft
<1>2. \A a, b, x \in Nat : /\ a + b \in Nat
                           /\ x < a => x + b < a + b
                           /\ x < b => a + x < a + b
                           /\ \A y \in Nat : x < a /\ y < b => x + y < a + b
  OBVIOUS
<1>3. IInv => StepsLeft \in Nat
  BY <1>1, <1>2, Zenon DEF StepsLeft
<1>4. IInv /\ [Next]_vars => [StepsLeft' < StepsLeft]_vars
  <2> SUFFICES ASSUME IInv, Next PROVE StepsLeft' < StepsLeft
    OBVIOUS
  <2>1. /\ pc = "gates" => Stage = 4
        /\ pc = "walk" => Stage = 3
        /\ pc = "refetch" => Stage = 2
        /\ pc = "rollup" => Stage = 1
        /\ pc' = "walk" => Stage' = 3
        /\ pc' = "refetch" => Stage' = 2
        /\ pc' = "rollup" => Stage' = 1
        /\ pc' = "done" => Stage' = 0
    BY DEF Stage
  <2>2. CASE TryNext \/ Compare
    <3>1. /\ asked < Len(gateways) /\ asked' = asked + 1 /\ gateways' = gateways
          /\ pc = "refetch" /\ (pc' = pc \/ pc' = "rollup")
      BY <2>2 DEF TryNext, Compare, Asking, args
    <3>2. Len(gateways) \in Nat /\ asked \in Nat
      BY <1>1, ListOfGateways DEF IInv
    <3>3. GatewaysLeft = Len(gateways) - asked /\ GatewaysLeft' = Len(gateways) - (asked + 1)
      BY <3>1 DEF GatewaysLeft
    <3>4. /\ Len(gateways) - (asked + 1) \in Nat
          /\ Len(gateways) - (asked + 1) < Len(gateways) - asked
      BY <3>1, <3>2
    <3>5. GatewaysLeft' \in Nat /\ GatewaysLeft' < GatewaysLeft
      BY <3>3, <3>4, Zenon
    <3>6. Stage' = Stage \/ (Stage' \in Nat /\ Stage' < Stage)
      BY <2>1, <3>1
    <3> QED BY <1>1, <1>2, <3>5, <3>6, Zenon DEF StepsLeft
  <2>3. CASE ~TryNext /\ ~Compare
    <3>1. /\ asked' = asked /\ gateways' = gateways
          /\ \/ pc = "gates" /\ pc' \in {"walk", "done"}
             \/ pc = "walk" /\ pc' \in {"refetch", "rollup"}
             \/ pc = "refetch" /\ pc' = "rollup"
             \/ pc = "rollup" /\ pc' = "done"
      BY <2>3 DEF Next, RejectMalformed, VerifyCheckpoint, WalkPath, NoFetchImplementation,
                  NothingToCompare, GatewaysExhausted, Asking, Rollup, args, chainState
    <3>2. GatewaysLeft' = GatewaysLeft
      BY <3>1 DEF GatewaysLeft
    <3>3. Stage' \in Nat /\ Stage' < Stage
      BY <2>1, <3>1
    <3> QED BY <1>1, <1>2, <3>2, <3>3, Zenon DEF StepsLeft
  <2> QED BY <2>2, <2>3
<1> QED BY <1>3, <1>4, Invariance, PTL DEF Spec

(***************************************************************************)
(* A verified inclusion-proof bundle: a signed checkpoint over the payload *)
(* it carries, whose root commits to the leaf, delivered by a gateway if   *)
(* any were given.  The Merkle part is ProofAssumption, which LeafSoundness*)
(* of InclusionWalkProofs establishes for verify_inclusion.                *)
(***************************************************************************)
THEOREM VerifiedIsCommitted == Spec => []VerifiedMeansCommitted
<1>1. IInv => VerifiedMeansCommitted
  <2> SUFFICES ASSUME IInv, status = "verified"
               PROVE  /\ signature_ok(bundle.checkpoint_envelope)
                      /\ bundle.checkpoint_envelope.payload_hash = Sha256(payload)
                      /\ leaf_hash(bundle.leaf) \in Commits(payload.merkle_root)
                      /\ gateways # <<>> => Confirmed
    BY DEF VerifiedMeansCommitted, Confirmed
  <2>1. /\ CheckpointBound /\ HasRoot /\ Included
        /\ gateways # <<>> => onChainOk = "true"
        /\ bundle \in Bundles
    BY DEF IInv, VerdictInv, ChecksInv, TypeInv
  <2>2. signature_ok(bundle.checkpoint_envelope)
    BY <2>1 DEF CheckpointBound, VerifyEnvelopeOk, VerifyOk
  <2>3. bundle.checkpoint_envelope.payload_hash = Sha256(payload)
    BY <2>1 DEF CheckpointBound, payload_hash_ok, InlineBinds, HasRoot, payload
  <2>4. leaf_hash(bundle.leaf) \in Commits(payload.merkle_root)
    BY <2>1, ProofAssumption DEF Included, HasRoot
  <2>5. gateways # <<>> => Confirmed
    BY <2>1 DEF IInv, ChainInv
  <2> QED BY <2>2, <2>3, <2>4, <2>5
<1> QED BY <1>1, Invariance, PTL

-----------------------------------------------------------------------------
(* What each check and the re-fetch decided, exactly: both directions are  *)
(* needed to say when a bundle is verified, and not only what it means.    *)

Bound == HasRoot /\ HasCount /\ PathRead /\ Included

ExactInv ==
  /\ pc = "gates" => ~checkpointOk /\ ~inclusionOk
  /\ pc = "walk" => ~inclusionOk
  /\ pc \in {"walk", "refetch", "rollup"} => GatesPass
  /\ ~GatesPass => ~checkpointOk
  /\ GatesPass /\ pc # "gates" => (checkpointOk <=> CheckpointBound)
  /\ GatesPass /\ pc \notin {"gates", "walk"} => (inclusionOk <=> Bound)

\* Nothing is decided while gateways are still asked.
AskedInv ==
  /\ pc \in {"gates", "walk", "refetch"} => onChainOk = "null" /\ ~gatewayUnavailable
  /\ pc \in {"gates", "walk"} => asked = 0 /\ ~anyReachable
  /\ pc = "refetch" =>
       /\ gateways # <<>>
       /\ \A j \in 1 .. asked : ~Delivered(j)
       /\ anyReachable => \E j \in 1 .. asked : answers[gateways[j]] = BodyLost

NoneAnswered == \A i \in DOMAIN gateways : answers[gateways[i]] = NotOk

\* The four ways the re-fetch ends.
Outcome ==
  \/ ~fetchable /\ onChainOk = "null" /\ gatewayUnavailable
  \/ fetchable /\ ~CanonicalEnvelope(bundle.checkpoint_envelope)
  \/ /\ fetchable /\ ~gatewayUnavailable
     /\ \E i \in DOMAIN gateways :
          /\ FirstDelivery(i)
          /\ onChainOk =
               IF answers[gateways[i]] = bundle.checkpoint_envelope THEN "true" ELSE "false"
  \/ /\ fetchable
     /\ \A i \in DOMAIN gateways : ~Delivered(i)
     /\ onChainOk = IF gatewayUnavailable THEN "null" ELSE "false"
     /\ NoneAnswered => gatewayUnavailable /\ "unreachable" \in notes

EndInv ==
  pc = "rollup" \/ (pc = "done" /\ GatesPass) =>
    IF gateways = <<>> THEN onChainOk = "null" /\ ~gatewayUnavailable ELSE Outcome

RolledUp ==
  IF ~checkpointOk \/ ~inclusionOk \/ onChainOk = "false" THEN "failed"
  ELSE IF gatewayUnavailable THEN "partial" ELSE "verified"

DoneInv == pc = "done" => status = IF GatesPass THEN RolledUp ELSE "malformed"

JInv == IInv /\ ExactInv /\ AskedInv /\ EndInv /\ DoneInv

\* What the arguments say does not change with the step.
Frozen ==
  /\ bundle' = bundle /\ gateways' = gateways /\ answers' = answers /\ fetchable' = fetchable
  /\ GatesPass' <=> GatesPass
  /\ CheckpointBound' <=> CheckpointBound
  /\ Bound' <=> Bound
  /\ \A i : Delivered(i)' <=> Delivered(i)
  /\ \A i : FirstDelivery(i)' <=> FirstDelivery(i)
  /\ NoneAnswered' <=> NoneAnswered

\* A step that leaves the arguments leaves what is said of them.
LEMMA ArgumentsFrozen ==
  ASSUME UNCHANGED args
  PROVE  Frozen
<1>1. bundle' = bundle /\ gateways' = gateways /\ answers' = answers /\ fetchable' = fetchable
  BY DEF args
<1>2. GatesPass' <=> GatesPass
  BY <1>1, Zenon DEF GatesPass
<1>3. CheckpointBound' <=> CheckpointBound
  BY <1>1, Zenon DEF CheckpointBound, EnvelopeRead
<1>4. Bound' <=> Bound
  BY <1>1, Zenon DEF Bound, HasRoot, HasCount, PathRead, Included, payload
<1>5. \A i : Delivered(i)' <=> Delivered(i)
  BY <1>1 DEF Delivered
<1>6. \A i : FirstDelivery(i)' <=> FirstDelivery(i)
  BY <1>5 DEF FirstDelivery
<1>7. NoneAnswered' <=> NoneAnswered
  BY <1>1 DEF NoneAnswered
<1> QED BY <1>1, <1>2, <1>3, <1>4, <1>5, <1>6, <1>7 DEF Frozen

\* As long as the findings of the re-fetch stay, so does what is said of them.
LEMMA OutcomeFrozen ==
  ASSUME Frozen, onChainOk' = onChainOk, gatewayUnavailable' = gatewayUnavailable,
         notes' = notes
  PROVE  Outcome' <=> Outcome
BY DEF Frozen, Outcome

\* The call starts with no check made.
LEMMA InitExact == Init => JInv
<1> SUFFICES ASSUME Init PROVE JInv
  OBVIOUS
<1>1. IInv
  BY InitInv
<1>2. /\ pc = "gates" /\ onChainOk = "null" /\ asked = 0
      /\ ~checkpointOk /\ ~inclusionOk /\ ~gatewayUnavailable /\ ~anyReachable
  BY Zenon DEF Init
<1>3. ExactInv /\ AskedInv /\ EndInv /\ DoneInv
  BY <1>2 DEF ExactInv, AskedInv, EndInv, DoneInv
<1> QED BY <1>1, <1>3 DEF JInv

\* The re-fetch ends with what the first delivery, or none, amounts to.
LEMMA StepExact == JInv /\ [Next]_vars => JInv'
<1> SUFFICES ASSUME JInv, [Next]_vars PROVE JInv'
  OBVIOUS
<1>i. IInv'
  BY NextInv DEF JInv
<1>a. /\ TypeInv /\ ExactInv /\ AskedInv /\ EndInv /\ DoneInv
      /\ Len(gateways) \in Nat /\ DOMAIN gateways = 1 .. Len(gateways)
  BY ListOfGateways DEF JInv, IInv
<1>1. CASE RejectMalformed
  <2>1. /\ UNCHANGED args /\ UNCHANGED checks /\ UNCHANGED chainState
        /\ pc = "gates" /\ ~GatesPass /\ pc' = "done" /\ status' = "malformed"
    BY <1>1 DEF RejectMalformed
  <2>2. Frozen
    BY <2>1, ArgumentsFrozen
  <2>3. ExactInv'
    BY <1>a, <2>1, <2>2 DEF Frozen, ExactInv, checks
  <2>4. AskedInv'
    BY <1>a, <2>1, <2>2 DEF Frozen, AskedInv, chainState
  <2>5. EndInv'
    BY <1>a, <2>1, <2>2 DEF Frozen, EndInv
  <2>6. DoneInv'
    BY <1>a, <2>1, <2>2 DEF Frozen, DoneInv
  <2> QED BY <1>i, <2>3, <2>4, <2>5, <2>6 DEF JInv
<1>2. CASE VerifyCheckpoint
  <2>1. /\ UNCHANGED args /\ inclusionOk' = inclusionOk /\ UNCHANGED chainState
        /\ pc = "gates" /\ pc' = "walk" /\ GatesPass
        /\ checkpointOk' <=> CheckpointBound
    BY <1>2 DEF VerifyCheckpoint, CheckpointBound
  <2>2. Frozen
    BY <2>1, ArgumentsFrozen
  <2>3. ExactInv'
    BY <1>a, <2>1, <2>2 DEF Frozen, ExactInv, checks
  <2>4. AskedInv'
    BY <1>a, <2>1, <2>2 DEF Frozen, AskedInv, chainState
  <2>5. EndInv'
    BY <1>a, <2>1, <2>2 DEF Frozen, EndInv
  <2>6. DoneInv'
    BY <1>a, <2>1, <2>2 DEF Frozen, DoneInv
  <2> QED BY <1>i, <2>3, <2>4, <2>5, <2>6 DEF JInv
<1>3. CASE WalkPath
  <2>1. /\ UNCHANGED args /\ checkpointOk' = checkpointOk /\ UNCHANGED chainState
        /\ pc = "walk" /\ pc' = IF gateways = <<>> THEN "rollup" ELSE "refetch"
        /\ inclusionOk' <=> Bound
    BY <1>3 DEF WalkPath, Bound
  <2>2. Frozen
    BY <2>1, ArgumentsFrozen
  <2>3. ExactInv'
    BY <1>a, <2>1, <2>2 DEF Frozen, ExactInv, checks
  <2>4. AskedInv'
    BY <1>a, <2>1, <2>2 DEF Frozen, AskedInv, chainState
  <2>5. EndInv'
    BY <1>a, <2>1, <2>2 DEF Frozen, EndInv, AskedInv, chainState
  <2>6. DoneInv'
    BY <1>a, <2>1, <2>2 DEF Frozen, DoneInv
  <2> QED BY <1>i, <2>3, <2>4, <2>5, <2>6 DEF JInv
<1>4. CASE NoFetchImplementation
  <2>1. /\ UNCHANGED args /\ UNCHANGED checks /\ onChainOk' = onChainOk /\ ~fetchable
        /\ pc = "refetch" /\ pc' = "rollup" /\ gatewayUnavailable'
    BY <1>4 DEF NoFetchImplementation
  <2>2. Frozen
    BY <2>1, ArgumentsFrozen
  <2>3. ExactInv'
    BY <1>a, <2>1, <2>2 DEF Frozen, ExactInv, checks
  <2>4. AskedInv'
    BY <1>a, <2>1, <2>2 DEF Frozen, AskedInv, chainState
  <2>5. EndInv'
    BY <1>a, <2>1, <2>2 DEF Frozen, EndInv, AskedInv, Outcome
  <2>6. DoneInv'
    BY <1>a, <2>1, <2>2 DEF Frozen, DoneInv
  <2> QED BY <1>i, <2>3, <2>4, <2>5, <2>6 DEF JInv
<1>5. CASE NothingToCompare
  <2>1. /\ UNCHANGED args /\ UNCHANGED checks
        /\ fetchable /\ ~CanonicalEnvelope(bundle.checkpoint_envelope)
        /\ pc = "refetch" /\ pc' = "rollup"
    BY <1>5 DEF NothingToCompare
  <2>2. Frozen
    BY <2>1, ArgumentsFrozen
  <2>3. ExactInv'
    BY <1>a, <2>1, <2>2 DEF Frozen, ExactInv, checks
  <2>4. AskedInv'
    BY <1>a, <2>1, <2>2 DEF Frozen, AskedInv, chainState
  <2>5. EndInv'
    BY <1>a, <2>1, <2>2 DEF Frozen, EndInv, AskedInv, Outcome
  <2>6. DoneInv'
    BY <1>a, <2>1, <2>2 DEF Frozen, DoneInv
  <2> QED BY <1>i, <2>3, <2>4, <2>5, <2>6 DEF JInv
<1>6. CASE TryNext
  <2>1. /\ UNCHANGED args /\ UNCHANGED checks /\ onChainOk' = onChainOk
        /\ gatewayUnavailable' = gatewayUnavailable
        /\ pc = "refetch" /\ pc' = pc
        /\ asked < Len(gateways) /\ asked' = asked + 1
        /\ Answer \in {NotOk, BodyLost}
        /\ anyReachable' <=> (anyReachable \/ Answer = BodyLost)
    BY <1>6 DEF TryNext, Asking
  <2>2. Frozen
    BY <2>1, ArgumentsFrozen
  <2>3. ExactInv'
    BY <1>a, <2>1, <2>2 DEF Frozen, ExactInv, checks
  <2>4. AskedInv'
    <3>1. asked \in Nat /\ \A j \in 1 .. asked + 1 : j \in 1 .. asked \/ j = asked + 1
      BY <1>a DEF TypeInv
    <3>2. ~Delivered(asked + 1)
      BY <2>1 DEF Delivered, Answer
    <3>3. \A j \in 1 .. asked' : ~Delivered(j)'
      BY <1>a, <2>1, <2>2, <3>1, <3>2 DEF Frozen, AskedInv
    <3>4. anyReachable' => \E j \in 1 .. asked' : answers'[gateways'[j]] = BodyLost
      <4>1. CASE Answer = BodyLost
        BY <4>1, <2>1, <2>2, <3>1 DEF Answer, Frozen
      <4>2. CASE anyReachable
        <5>1. PICK j \in 1 .. asked : answers[gateways[j]] = BodyLost
          BY <4>2, <1>a, <2>1 DEF AskedInv
        <5>2. j \in 1 .. asked'
          BY <2>1, <3>1
        <5> QED BY <5>1, <5>2, <2>2 DEF Frozen
      <4> QED BY <4>1, <4>2, <2>1
    <3> QED BY <1>a, <2>1, <2>2, <3>3, <3>4 DEF Frozen, AskedInv
  <2>5. EndInv' /\ DoneInv'
    BY <2>1 DEF EndInv, DoneInv
  <2> QED BY <1>i, <2>3, <2>4, <2>5 DEF JInv
<1>7. CASE Compare
  <2>1. /\ UNCHANGED args /\ UNCHANGED checks /\ gatewayUnavailable' = gatewayUnavailable
        /\ fetchable /\ pc = "refetch" /\ pc' = "rollup"
        /\ asked < Len(gateways) /\ Answer \notin {NotOk, BodyLost}
        /\ onChainOk' = IF Answer = bundle.checkpoint_envelope THEN "true" ELSE "false"
    BY <1>7 DEF Compare, Asking
  <2>2. Frozen
    BY <2>1, ArgumentsFrozen
  <2>3. ExactInv' /\ AskedInv' /\ DoneInv'
    BY <1>a, <2>1, <2>2 DEF Frozen, ExactInv, AskedInv, DoneInv, checks
  <2>4. EndInv'
    <3>1. asked + 1 \in DOMAIN gateways /\ asked + 1 - 1 = asked
      BY <1>a, <2>1 DEF TypeInv
    <3>2. FirstDelivery(asked + 1)
      <4>1. Delivered(asked + 1)
        BY <2>1 DEF Delivered, Answer
      <4>2. \A j \in 1 .. asked : ~Delivered(j)
        BY <1>a, <2>1 DEF AskedInv
      <4>3. asked \in Nat
        BY <1>a DEF TypeInv
      <4>4. ASSUME NEW j \in 1 .. (asked + 1) - 1
            PROVE  j \in 1 .. asked
        BY <4>3
      <4> QED BY <4>1, <4>2, <4>4, Zenon DEF FirstDelivery
    <3>3. onChainOk' = IF answers[gateways[asked + 1]] = bundle.checkpoint_envelope
                       THEN "true" ELSE "false"
      BY <2>1 DEF Answer
    <3>4. ~gatewayUnavailable' /\ gateways # <<>>
      BY <1>a, <2>1 DEF AskedInv
    <3>5. Outcome'
      BY <2>1, <2>2, <3>1, <3>2, <3>3, <3>4 DEF Frozen, Outcome
    <3> QED BY <2>2, <3>4, <3>5 DEF Frozen, EndInv
  <2> QED BY <1>i, <2>3, <2>4 DEF JInv
<1>8. CASE GatewaysExhausted
  <2>1. /\ UNCHANGED args /\ UNCHANGED checks
        /\ fetchable /\ pc = "refetch" /\ pc' = "rollup" /\ asked = Len(gateways)
        /\ onChainOk' = IF anyReachable THEN "false" ELSE "null"
        /\ gatewayUnavailable' <=> ~anyReachable
        /\ ~anyReachable => "unreachable" \in notes'
    BY <1>8 DEF GatewaysExhausted, Asking
  <2>2. Frozen
    BY <2>1, ArgumentsFrozen
  <2>3. ExactInv' /\ AskedInv' /\ DoneInv'
    BY <1>a, <2>1, <2>2 DEF Frozen, ExactInv, AskedInv, DoneInv, checks
  <2>4. EndInv'
    <3>1. gateways # <<>> /\ \A i \in DOMAIN gateways : ~Delivered(i)
      BY <1>a, <2>1 DEF AskedInv
    <3>2. NoneAnswered => ~anyReachable
      BY <1>a, <2>1, OutcomesAssumption DEF AskedInv, NoneAnswered
    <3>3. onChainOk' = IF gatewayUnavailable' THEN "null" ELSE "false"
      BY <2>1
    <3>4. Outcome'
      BY <2>1, <2>2, <3>1, <3>2, <3>3 DEF Frozen, Outcome
    <3> QED BY <2>2, <3>1, <3>4 DEF Frozen, EndInv
  <2> QED BY <1>i, <2>3, <2>4 DEF JInv
<1>9. CASE Rollup
  <2>1. /\ UNCHANGED args /\ UNCHANGED checks /\ UNCHANGED chainState /\ notes' = notes
        /\ pc = "rollup" /\ pc' = "done" /\ status' = RolledUp
    BY <1>9 DEF Rollup, RolledUp
  <2>2. Frozen
    BY <2>1, ArgumentsFrozen
  <2>3. ExactInv' /\ AskedInv'
    BY <1>a, <2>1, <2>2 DEF Frozen, ExactInv, AskedInv, checks
  <2>4. EndInv'
    BY <1>a, <2>1, <2>2, OutcomeFrozen DEF Frozen, EndInv, chainState
  <2>5. RolledUp' = RolledUp
    BY <2>1 DEF RolledUp, checks, chainState
  <2>6. DoneInv'
    BY <1>a, <2>1, <2>2, <2>5 DEF Frozen, DoneInv, ExactInv
  <2> QED BY <1>i, <2>3, <2>4, <2>6 DEF JInv
<1>10. CASE UNCHANGED vars
  <2>1. /\ UNCHANGED args /\ UNCHANGED checks /\ UNCHANGED chainState
        /\ pc' = pc /\ notes' = notes /\ status' = status
    BY <1>10 DEF vars
  <2>2. Frozen
    BY <2>1, ArgumentsFrozen
  <2>3. ExactInv'
    BY <1>a, <2>1, <2>2 DEF Frozen, ExactInv, checks
  <2>4. AskedInv'
    BY <1>a, <2>1, <2>2 DEF Frozen, AskedInv, chainState
  <2>5. EndInv'
    BY <1>a, <2>1, <2>2, OutcomeFrozen DEF Frozen, EndInv, chainState
  <2>6. RolledUp' = RolledUp
    BY <2>1 DEF RolledUp, checks, chainState
  <2>7. DoneInv'
    BY <1>a, <2>1, <2>2, <2>6 DEF Frozen, DoneInv
  <2> QED BY <1>i, <2>3, <2>4, <2>5, <2>7 DEF JInv
<1> QED
  BY <1>1, <1>2, <1>3, <1>4, <1>5, <1>6, <1>7, <1>8, <1>9, <1>10 DEF Next

\* JInv holds throughout the call.
LEMMA ExactInvariance == Spec => []JInv
BY InitExact, StepExact, PTL DEF Spec

\* How the defects a kernel minds divide into those nobody reads and its own.
LEMMA DefectsDivide ==
  ASSUME NEW D
  PROVE  /\ /\ D \cap {"not an object", "too deep", "no envelope", "no leaf", "no path",
                       "path object"} = {}
            /\ D \cap {"array envelope", "spaced signature"} = {}
            /\ "spaced hex" \notin D
            <=> (D \cap Unreadable = {} /\ "array envelope" \notin D /\ D \cap PythonOnly = {})
         /\ /\ D \cap {"not an object", "too deep", "no envelope", "array envelope",
                       "no leaf", "array leaf", "no tx"} = {}
            /\ D \cap {"no path", "odd length", "float number"} = {}
            <=> (D \cap Unreadable = {} /\ "array envelope" \notin D
                 /\ D \cap TypeScriptOnly = {})
BY Zenon DEF Unreadable, PythonOnly, TypeScriptOnly

\* What both kernels ask of a bundle they verify.
BothAsk ==
  /\ bundle.defects \cap Unreadable = {} /\ "array envelope" \notin bundle.defects
  /\ bundle.spec_version \in {"exact", "minor"}
  /\ VerifyOk(bundle.checkpoint_envelope, Absent, FALSE)
  /\ HasRoot /\ HasCount /\ Included

(***************************************************************************)
(* Offline, of a bundle either kernel verifies, the other refuses only     *)
(* what is written in one of the named ways, of a minor version, or with   *)
(* an envelope of the annotated profile, and it refuses each of these.     *)
(***************************************************************************)
THEOREM OfflineKernelsAgree == Spec => []KernelsAgree
<1>1. JInv => KernelsAgree
  <2> SUFFICES ASSUME JInv, pc = "done", gateways = <<>>
               PROVE  (status = "verified" \/ verify_proof_bundle) =>
                        /\ status = "verified" <=>
                             /\ bundle.defects \cap PythonOnly = {}
                             /\ ~Annotated(bundle.checkpoint_envelope)
                        /\ verify_proof_bundle <=>
                             /\ bundle.defects \cap TypeScriptOnly = {}
                             /\ bundle.spec_version = "exact"
    BY Zenon DEF KernelsAgree
  <2> DEFINE env == bundle.checkpoint_envelope
  <2>1. verify_proof_bundle <=>
          BothAsk /\ bundle.defects \cap TypeScriptOnly = {} /\ bundle.spec_version = "exact"
    BY DefectsDivide, Zenon DEF verify_proof_bundle, BundleParsed, ProofParsed, BothAsk
  <2>2. GatesPass /\ EnvelopeRead /\ PathRead <=>
          /\ bundle.defects \cap Unreadable = {} /\ "array envelope" \notin bundle.defects
          /\ bundle.defects \cap PythonOnly = {}
          /\ bundle.spec_version \in {"exact", "minor"}
    BY DefectsDivide, Zenon DEF GatesPass, EnvelopeRead, PathRead
  <2>3. HasRoot /\ EnvelopeRead => env.payload # Absent
    BY Zenon DEF HasRoot, EnvelopeRead, payload
  <2>4. env.payload # Absent =>
          (payload_hash_ok(env, Absent) # "false" <=> payload_hash_ok(env, Absent) = "true")
    BY DEF payload_hash_ok
  <2>5. status = "verified" <=> GatesPass /\ CheckpointBound /\ Bound
    <3>1. CASE ~GatesPass
      BY <3>1, Zenon DEF JInv, DoneInv
    <3>2. CASE GatesPass
      <4>1. /\ checkpointOk <=> CheckpointBound
            /\ inclusionOk <=> Bound
            /\ onChainOk = "null" /\ ~gatewayUnavailable /\ status = RolledUp
        BY <3>2 DEF JInv, ExactInv, EndInv, DoneInv
      <4> QED BY <3>2, <4>1 DEF RolledUp
    <3> QED BY <3>1, <3>2
  <2>6. status = "verified" <=>
          BothAsk /\ bundle.defects \cap PythonOnly = {} /\ ~Annotated(env)
    BY <2>2, <2>3, <2>4, <2>5, Zenon
       DEF CheckpointBound, Bound, VerifyEnvelopeOk, VerifyOk, BothAsk
  <2> QED BY <2>1, <2>6, Zenon
<1> QED BY <1>1, ExactInvariance, PTL

(***************************************************************************)
(* Of a bundle sound offline, the first gateway that delivers decides; if  *)
(* none does, it is not verified, and exits with 3 if all failed.          *)
(***************************************************************************)
THEOREM FirstDeliveryIsFinal == Spec => []FirstDeliveryDecides
<1>1. JInv => FirstDeliveryDecides
  <2> SUFFICES ASSUME JInv, pc = "done", checkpointOk, inclusionOk, gateways # <<>>
               PROVE  IF fetchable /\ \E i \in DOMAIN gateways : Delivered(i)
                      THEN \A i \in DOMAIN gateways :
                             FirstDelivery(i) =>
                               (status = "verified" <=>
                                  answers[gateways[i]] = bundle.checkpoint_envelope)
                      ELSE /\ status # "verified"
                           /\ fetchable /\ NoneAnswered => exitCode = 3
    BY DEF FirstDeliveryDecides, NoneAnswered
  <2>1. GatesPass /\ CheckpointBound /\ Outcome /\ status = RolledUp
    BY DEF JInv, ExactInv, EndInv, DoneInv
  <2>2. CanonicalEnvelope(bundle.checkpoint_envelope)
    BY <2>1 DEF CheckpointBound, VerifyEnvelopeOk, VerifyOk, signature_ok
  <2>3. status = IF onChainOk = "false" THEN "failed"
                 ELSE IF gatewayUnavailable THEN "partial" ELSE "verified"
    BY <2>1 DEF RolledUp
  <2>4. DOMAIN gateways = 1 .. Len(gateways) /\ Len(gateways) \in Nat
    BY ListOfGateways DEF JInv, IInv
  <2>5. CASE ~fetchable
    BY <2>1, <2>3, <2>5 DEF Outcome
  <2>6. CASE fetchable /\ \A i \in DOMAIN gateways : ~Delivered(i)
    <3>1. /\ onChainOk = IF gatewayUnavailable THEN "null" ELSE "false"
          /\ NoneAnswered => gatewayUnavailable /\ "unreachable" \in notes
      BY <2>1, <2>2, <2>6 DEF Outcome, FirstDelivery
    <3>2. status = IF gatewayUnavailable THEN "partial" ELSE "failed"
      BY <2>3, <3>1
    <3> QED BY <2>6, <3>1, <3>2 DEF exitCode
  <2>7. CASE fetchable /\ \E i \in DOMAIN gateways : Delivered(i)
    <3>1. PICK i \in DOMAIN gateways :
            /\ FirstDelivery(i)
            /\ onChainOk =
                 IF answers[gateways[i]] = bundle.checkpoint_envelope THEN "true" ELSE "false"
            /\ ~gatewayUnavailable
      BY <2>1, <2>2, <2>7 DEF Outcome
    <3>2. status = "verified" <=> answers[gateways[i]] = bundle.checkpoint_envelope
      BY <2>3, <3>1
    <3>3. ASSUME NEW j \in DOMAIN gateways, FirstDelivery(j)
          PROVE  j = i
      <4>1. i \in Nat /\ j \in Nat /\ i >= 1 /\ j >= 1
        BY <2>4
      <4>2. ~(i < j) /\ ~(j < i)
        BY <3>1, <3>3, <4>1 DEF FirstDelivery
      <4> QED BY <4>1, <4>2
    <3> QED BY <2>7, <3>2, <3>3
  <2> QED BY <2>5, <2>6, <2>7
<1> QED BY <1>1, ExactInvariance, PTL
=============================================================================
