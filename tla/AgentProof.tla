------------------------------ MODULE AgentProof ------------------------------
(***************************************************************************)
(* Inclusion-proof bundles (ario.agent.proof/v1): the TypeScript kernel's  *)
(* verifyAgentProofBundle with its gateway loop (ts/src/agent-proof.ts)    *)
(* step by step, beside the Python kernel's verify_proof_bundle            *)
(* (src/ario_proof/bundle.py) as an operator on the same bundle.           *)
(*                                                                         *)
(* A bundle is a record                                                    *)
(*   defects              the ways it is not written as `ariod proof'      *)
(*                        writes one, among Defects                        *)
(*   spec_version         "exact", "minor" (v1.<anything>) or "other"      *)
(*   checkpoint_envelope  an Envelope record; its payload document has a   *)
(*                        leaf_count beside the merkle_root, either Absent *)
(*   leaf                 the leaf object, Uncanonical if JCS refuses it   *)
(*   proof                Absent when audit_path or leaf_index does not    *)
(*                        parse, else [leaf, leaf_count, reaches]: the one *)
(*                        root that index and path reach from that leaf    *)
(*                        hash in a tree of that size (InclusionWalk)      *)
(* A hash is named by the bytes a kernel reads, a number by its value, in  *)
(* the range where the two walks agree (InclusionKernels); how they are    *)
(* written is among the defects, since the kernels read them differently.  *)
(* checkpoint_tx_id is whatever the gateways were asked for.               *)
(***************************************************************************)
EXTENDS Envelope, Naturals, Sequences

CONSTANTS
  Bundles,       \* the bundles presented
  GatewayLists,  \* lists of gateways; <<>> is offline
  Replies,       \* envelopes a gateway may deliver the bytes of
  NotOk,         \* the request raised, or the response was not ok
  BodyLost,      \* an ok response whose body cannot be read to its end
  Commits(_)     \* the hashes a Merkle root is built from

ASSUME ProofAssumption ==
  \A b \in Bundles :
    b.proof # Absent => b.proof.reaches = Absent \/ b.proof.leaf \in Commits(b.proof.reaches)

\* Lists of gateways are finite, and the four statuses are no missing keys.
ASSUME GatewaysAssumption ==
  \A gws \in GatewayLists : Len(gws) \in Nat /\ DOMAIN gws = 1 .. Len(gws)
ASSUME StatusAssumption == Absent \notin {"verified", "partial", "failed", "malformed"}
ASSUME OutcomesAssumption == NotOk # BodyLost

\* What no kernel reads: a null or a scalar in the place of a container.
Unreadable == {"not an object", "too deep", "no envelope", "no leaf", "no path"}

\* What bundle.py alone reads: an audit_path that is an object (its keys) or the
\* empty string (no hashes), and hex with white space, which bytes.fromhex
\* skips, in merkle_root or audit_path, or in signature or public_key.
PythonOnly == {"path object", "spaced hex", "spaced signature"}

\* What agent-proof.ts alone reads: no or an empty checkpoint_tx_id, an array as
\* leaf, 2.0 for 2, a hash in audit_path that is not 32 bytes long.
TypeScriptOnly == {"no tx", "array leaf", "float number", "odd length"}

Defects == Unreadable \cup PythonOnly \cup TypeScriptOnly \cup {"array envelope"}
Names(gws) == {gws[i] : i \in DOMAIN gws}

VARIABLES
  bundle, gateways, fetchable,  \* the arguments; never assigned
  answers,        \* what each gateway answers when asked; never assigned
  pc,
  checkpointOk, inclusionOk,
  onChainOk,      \* "true", "false" or "null"
  gatewayUnavailable,
  asked,          \* number of gateways asked
  anyReachable,
  notes,          \* kinds of error notes
  status          \* Absent until the call returns

args == <<bundle, gateways, fetchable, answers>>
checks == <<checkpointOk, inclusionOk>>
chainState == <<onChainOk, gatewayUnavailable, asked, anyReachable>>
vars == <<args, pc, checks, chainState, notes, status>>

Init ==
  /\ bundle \in Bundles
  /\ gateways \in GatewayLists
  /\ fetchable \in BOOLEAN
  /\ answers \in [Names(gateways) -> Replies \cup {NotOk, BodyLost}]
  /\ pc = "gates"
  /\ checkpointOk = FALSE /\ inclusionOk = FALSE
  /\ onChainOk = "null" /\ gatewayUnavailable = FALSE
  /\ asked = 0 /\ anyReachable = FALSE
  /\ notes = {}
  /\ status = Absent

-----------------------------------------------------------------------------
(* Gates and steps 1 to 4.                                                 *)

\* The gates see that a leaf or an envelope is there, and that audit_path is an
\* array: typeof makes no difference between an array and an object.
GatesPass ==
  /\ bundle.defects \cap {"not an object", "too deep", "no envelope", "no leaf",
                          "no path", "path object"} = {}
  /\ bundle.spec_version \in {"exact", "minor"}

\* Mutant: nothing is returned.
RejectMalformed_NoStatus ==
  /\ pc = "gates"
  /\ ~GatesPass
  /\ pc' = "done"
  /\ UNCHANGED <<args, checks, chainState, notes, status>>

RejectMalformed ==
  /\ pc = "gates"
  /\ ~GatesPass
  /\ pc' = "done"
  /\ status' = "malformed"
  /\ UNCHANGED <<args, checks, chainState, notes>>

\* An array has no member of that name.
payload ==
  IF "array envelope" \in bundle.defects THEN Absent ELSE bundle.checkpoint_envelope.payload

HasRoot == payload \notin {Absent, Uncanonical} /\ payload.merkle_root # Absent
HasCount == payload \notin {Absent, Uncanonical} /\ payload.leaf_count # Absent

\* Mutant: the profile is not checked.
VerifyEnvelopeOk_AnyProfile(env) ==
  signature_ok(env) /\ payload_hash_ok(env, Absent) # "false"

\* verifyEnvelope of this kernel: no mlflow profile, no legacy envelopes, and
\* so no unsigned annotations.
VerifyEnvelopeOk(env) == VerifyOk(env, Absent, FALSE) /\ ~Annotated(env)

\* verifyEnvelope refuses an array; hexToBytes throws at white space.
EnvelopeRead == bundle.defects \cap {"array envelope", "spaced signature"} = {}
PathRead == "spaced hex" \notin bundle.defects

\* Step 1; a withheld payload is not enough.
VerifyCheckpoint ==
  /\ pc = "gates"
  /\ GatesPass
  /\ checkpointOk' = /\ EnvelopeRead
                     /\ VerifyEnvelopeOk(bundle.checkpoint_envelope)
                     /\ payload_hash_ok(bundle.checkpoint_envelope, Absent) = "true"
  /\ pc' = "walk"
  /\ UNCHANGED <<args, inclusionOk, chainState, notes, status>>

leaf_hash(leaf) == [leaf |-> leaf]

\* Mutant: the leaf hash is not recomputed.
Included_ClaimedLeaf ==
  /\ bundle.proof # Absent
  /\ bundle.proof.leaf_count = payload.leaf_count
  /\ bundle.proof.reaches = payload.merkle_root

\* verify_inclusion of the recomputed leaf hash, with the payload's leaf_count
\* and merkle_root.
Included ==
  /\ bundle.leaf # Uncanonical
  /\ bundle.proof # Absent
  /\ bundle.proof.leaf = leaf_hash(bundle.leaf)
  /\ bundle.proof.leaf_count = payload.leaf_count
  /\ bundle.proof.reaches = payload.merkle_root

\* Steps 2 to 4.
WalkPath ==
  /\ pc = "walk"
  /\ inclusionOk' = (HasRoot /\ HasCount /\ PathRead /\ Included)
  /\ pc' = IF gateways = <<>> THEN "rollup" ELSE "refetch"
  /\ UNCHANGED <<args, checkpointOk, chainState, notes, status>>

-----------------------------------------------------------------------------
(* Step 5: the first gateway that delivers anything decides.               *)

NoFetchImplementation ==
  /\ pc = "refetch"
  /\ ~fetchable
  /\ gatewayUnavailable' = TRUE
  /\ notes' = notes \cup {"no fetch"}
  /\ pc' = "rollup"
  /\ UNCHANGED <<args, checks, onChainOk, asked, anyReachable, status>>

\* The envelope cannot be canonicalized: nothing to compare with.
NothingToCompare ==
  /\ pc = "refetch"
  /\ fetchable
  /\ ~CanonicalEnvelope(bundle.checkpoint_envelope)
  /\ onChainOk' = "false"
  /\ pc' = "rollup"
  /\ UNCHANGED <<args, checks, gatewayUnavailable, asked, anyReachable, notes, status>>

Asking ==
  /\ pc = "refetch"
  /\ fetchable
  /\ CanonicalEnvelope(bundle.checkpoint_envelope)

Answer == answers[gateways[asked + 1]]

\* Mutant: the gateway is asked again.
TryNext_Same ==
  /\ Asking
  /\ asked < Len(gateways)
  /\ Answer \in {NotOk, BodyLost}
  /\ anyReachable' = (anyReachable \/ Answer = BodyLost)
  /\ UNCHANGED <<args, pc, checks, onChainOk, gatewayUnavailable, asked, notes, status>>

\* The request fails, or the body of an ok response does.
TryNext ==
  /\ Asking
  /\ asked < Len(gateways)
  /\ Answer \in {NotOk, BodyLost}
  /\ asked' = asked + 1
  /\ anyReachable' = (anyReachable \/ Answer = BodyLost)
  /\ UNCHANGED <<args, pc, checks, onChainOk, gatewayUnavailable, notes, status>>

\* Bytes are compared as they are and, when they are JSON, canonicalized: they
\* are named by the envelope they canonicalize to.
Compare ==
  /\ Asking
  /\ asked < Len(gateways)
  /\ Answer \notin {NotOk, BodyLost}
  /\ asked' = asked + 1
  /\ anyReachable' = TRUE
  /\ onChainOk' = IF Answer = bundle.checkpoint_envelope THEN "true" ELSE "false"
  /\ pc' = "rollup"
  /\ UNCHANGED <<args, checks, gatewayUnavailable, notes, status>>

GatewaysExhausted ==
  /\ Asking
  /\ asked = Len(gateways)
  /\ onChainOk' = IF anyReachable THEN "false" ELSE "null"
  /\ gatewayUnavailable' = ~anyReachable
  /\ notes' = notes \cup IF anyReachable THEN {} ELSE {"unreachable"}
  /\ pc' = "rollup"
  /\ UNCHANGED <<args, checks, asked, anyReachable, status>>

\* Mutant: an unreachable gateway does not matter.
Rollup_IgnoresUnavailable ==
  /\ pc = "rollup"
  /\ status' = IF ~checkpointOk \/ ~inclusionOk \/ onChainOk = "false"
               THEN "failed" ELSE "verified"
  /\ pc' = "done"
  /\ UNCHANGED <<args, checks, chainState, notes>>

Rollup ==
  /\ pc = "rollup"
  /\ status' = IF ~checkpointOk \/ ~inclusionOk \/ onChainOk = "false" THEN "failed"
               ELSE IF gatewayUnavailable THEN "partial" ELSE "verified"
  /\ pc' = "done"
  /\ UNCHANGED <<args, checks, chainState, notes>>

Next ==
  \/ RejectMalformed \/ VerifyCheckpoint \/ WalkPath
  \/ NoFetchImplementation \/ NothingToCompare
  \/ TryNext \/ Compare \/ GatewaysExhausted
  \/ Rollup

Spec == Init /\ [][Next]_vars /\ WF_vars(Next)

\* mapStatusToExit of the CLI, on the notes this kernel writes.
exitCode ==
  CASE status = "failed" -> 1
    [] status = "malformed" -> 2
    [] status = "partial" /\ "unreachable" \in notes -> 3
    [] OTHER -> 0

(***************************************************************************)
(* verify_proof_bundle of the Python kernel: offline, exact spec_version,  *)
(* dicts only, a checkpoint_tx_id required, every accepted profile; then,  *)
(* past the envelope, hashes of 32 bytes and numbers that are ints.        *)
(***************************************************************************)
BundleParsed ==
  /\ bundle.defects \cap {"not an object", "too deep", "no envelope", "array envelope",
                          "no leaf", "array leaf", "no tx"} = {}
  /\ bundle.spec_version = "exact"

ProofParsed == bundle.defects \cap {"no path", "odd length", "float number"} = {}

verify_proof_bundle ==
  /\ BundleParsed
  /\ VerifyOk(bundle.checkpoint_envelope, Absent, FALSE)
  /\ HasRoot /\ HasCount /\ ProofParsed /\ Included

-----------------------------------------------------------------------------
TypeOK ==
  /\ pc \in {"gates", "walk", "refetch", "rollup", "done"}
  /\ checkpointOk \in BOOLEAN /\ inclusionOk \in BOOLEAN
  /\ onChainOk \in {"true", "false", "null"}
  /\ gatewayUnavailable \in BOOLEAN /\ anyReachable \in BOOLEAN
  /\ asked \in 0 .. Len(gateways)
  /\ status \in {Absent, "verified", "partial", "failed", "malformed"}
  /\ status # Absent <=> pc = "done"

Delivered(i) == answers[gateways[i]] \notin {NotOk, BodyLost}

(***************************************************************************)
(* What "verified" promises: somebody signed the checkpoint over exactly   *)
(* the payload it carries, the payload's root commits to this very leaf,   *)
(* and, when gateways were given, one of them delivered this checkpoint.   *)
(***************************************************************************)
VerifiedMeansCommitted ==
  status = "verified" =>
    /\ signature_ok(bundle.checkpoint_envelope)
    /\ bundle.checkpoint_envelope.payload_hash = Sha256(payload)
    /\ leaf_hash(bundle.leaf) \in Commits(payload.merkle_root)
    /\ gateways # <<>> =>
         \E i \in DOMAIN gateways : answers[gateways[i]] = bundle.checkpoint_envelope

(***************************************************************************)
(* Where the kernels' verdicts can split, offline: of a bundle one of them *)
(* accepts, agent-proof.ts refuses only what is written as bundle.py alone *)
(* reads it, or has an envelope of a profile bundle.py alone accepts, and  *)
(* bundle.py refuses only what is written as agent-proof.ts alone reads    *)
(* it, or is of a minor version.  Nothing else separates them, and each of *)
(* these does.                                                             *)
(***************************************************************************)
KernelsAgree ==
  (pc = "done" /\ gateways = <<>> /\ (status = "verified" \/ verify_proof_bundle)) =>
    /\ status = "verified" <=>
         bundle.defects \cap PythonOnly = {} /\ ~Annotated(bundle.checkpoint_envelope)
    /\ verify_proof_bundle <=>
         bundle.defects \cap TypeScriptOnly = {} /\ bundle.spec_version = "exact"

(***************************************************************************)
(* The verdict does not depend on what lies behind the first gateway that  *)
(* delivers: it decides a bundle that is sound offline.  When none         *)
(* delivers the bundle is never called verified, and when all just failed  *)
(* to answer the exit code says so.                                        *)
(***************************************************************************)
FirstDelivery(i) == Delivered(i) /\ \A j \in 1 .. i - 1 : ~Delivered(j)

FirstDeliveryDecides ==
  (pc = "done" /\ checkpointOk /\ inclusionOk /\ gateways # <<>>) =>
    IF fetchable /\ \E i \in DOMAIN gateways : Delivered(i)
    THEN \A i \in DOMAIN gateways :
           FirstDelivery(i) =>
             (status = "verified" <=> answers[gateways[i]] = bundle.checkpoint_envelope)
    ELSE /\ status # "verified"
         /\ fetchable /\ (\A i \in DOMAIN gateways : answers[gateways[i]] = NotOk) =>
              exitCode = 3

\* Every call returns, however the gateways answer.
Returns == <>(pc = "done")

-----------------------------------------------------------------------------
(* What the documents say and the code does not do.                        *)

\* specs/evidence-export.md 4.2 and 5.1: worst finding wins, in the
\* agent-proof path too.  The loop stops at the first delivery.
WorstFindingWins ==
  (pc = "done" /\ fetchable
   /\ \E i \in DOMAIN gateways :
        Delivered(i) /\ answers[gateways[i]] # bundle.checkpoint_envelope)
  => status \in {"failed", "malformed"}

\* specs/evidence-export.md 4.2: a gateway that timed out is no mismatch, and a
\* checkpoint without other signals is undetermined, never failed.  A body lost
\* on the way leaves anyReachable behind.
FailedMeansFinding ==
  (pc = "done" /\ status = "failed" /\ checkpointOk /\ inclusionOk) =>
    \E i \in DOMAIN gateways :
      Delivered(i) /\ answers[gateways[i]] # bundle.checkpoint_envelope
=============================================================================
