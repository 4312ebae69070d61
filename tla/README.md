# ar-io-proof in TLA+

ar-io-proof verifies evidence offline: signed envelopes, Merkle inclusion
proofs, bundles of both, and exports that add operator attestations. It is two
kernels, one in Python (`src/ario_proof`) and one in TypeScript (`ts/src`), that
must give the same verdict to the same bytes; a third one, in Go, is vendored for
comparison. This directory models the verifiers, the conformance corpus and the
gate that compares the kernels on it, checks them with TLC on small instances
and proves their central promises with TLAPS.

Paths below are relative to the repository root.

## 1. Inventory

| component | source | state and operations | what makes it correct |
|---|---|---|---|
| Merkle trees | `src/ario_proof/merkle.py`, `ts/src/merkle.ts` | `merkle_root`, `audit_path` (pure); `verify_inclusion`, a loop over `fn`, `sn`, `r` | accepts only a leaf the root commits to, at its index, by its only path; accepts every genuine proof; ends |
| Envelopes | `src/ario_proof/envelope.py`, `sign.py`, `verify.py`, `hash.py`; `ts/src/verifier.ts`, `crypto.ts` | `sign_envelope` completes and signs; `verify_envelope` checks profile, signed scope, payload binding | what is accepted was signed as it stands; what was signed is accepted |
| Canonicalization | `src/ario_proof/canonicalize.py` | `exceeds_depth` over an explicit stack; `canonical_json` | refuses exactly what is deeper than the bound, before anything recurses |
| Evidence bundles | `src/ario_proof/evidence.py`, `ts/src/evidence.ts` | `verify_evidence_bundle`: wrapper gates, checkpoint loop with `by_tx_id`, event loop, re-fetch of every checkpoint from every gateway, rollup, exit code | verified only if every event is anchored; worst finding wins; undetermined is never success |
| Attested exports | `evidence.py` `_verify_export_body`, `rsa_pss.py` | recursion into the source bundle, attestation records, agreement with the cached verdict | verified only if every attestation binds; the cached verdict is never false |
| Export composer | `ts/src/compose.ts` | `composeExport`: recompute a verdict, cache it, sign | verifier and composer recompute the same |
| Inclusion-proof bundles | `ts/src/agent-proof.ts`, `src/ario_proof/bundle.py` | `verifyAgentProofBundle` with its gateway loop; `verify_proof_bundle`, offline | the leaf is committed; the kernels' verdicts split nowhere but where their gates are known to; an unreachable chain is no success |
| Command line | `ts/src/cli.ts` | dispatch on `spec_version`, `--logs`, `export`, exit codes | the exit code says what the result says |
| Vector generators | `tools/gen-vectors`, `ts/scripts` | scripts with their own Merkle and signing code, which write the published vectors | a vector says what the kernels compute, and a negative fails for the reason it is made for |
| Cross-kernel comparison | `cross-kernel` | `run.sh`: record the Python verdicts, compare TypeScript, exports, then Go; stop at the first leg that disagrees | a pass means agreement on every case; the cases tell the kernels' checks apart |
| Vendored Go verifier | `cross-kernel/vendor-agent` | `VerifyEnvelope`, `SignEnvelope` | the same verdicts as the other two |

**Interactions.** Everything is a call. `verify_evidence_bundle` calls
`verify_envelope` and `verify_inclusion` per entry, asks a `fetch` the caller
supplied for each checkpoint and gateway, and calls itself on the source of an
export. `verifyAgentProofBundle` calls the envelope verifier and `verifyInclusion`
once and then asks gateways until one delivers. The composer calls the verifier
and puts its verdict into what it signs; a verifier later recomputes it. The
generators write vectors, `generate_cases.py` turns them into cases with the Python
verdict, and the legs of `run.sh` verify the same cases again. No
state of a kernel outlives a call: what passes between calls is the artifact, and between
the calls anybody may change it.

**What is hard here.** There are no threads and nothing is persisted by the
kernels. The hard behaviour is: artifacts edited, countersigned, re-signed and
re-issued between producer and verifier; gateways that answer, fail, disagree or
deliver half an answer, in any order, over several checkpoints; findings recorded
early and overwritten or rolled up much later; the same verdict recomputed in
another call with other side inputs; recursion whose inner findings must reach
the outermost result; arithmetic on tree sizes the presenter chose; kernels that
change one by one, and a gate that sees only the cases it has.
`PROJECT.json` lists these hazards line by line with the properties aimed at
them; a hazard without a property says why.

## 2. Modules

| module | models | proofs |
|---|---|---|
| `InclusionWalk` | `verify_inclusion`, one action per branch of the loop, over trees given level by level | `InclusionWalkProofs` |
| `Merkle` | `merkle_root`, `audit_path` as recursive functions over slices; builds the trees of the runs | `InclusionWalkProofs` |
| `TsInclusion` | `verifyInclusion` of `merkle.ts` on integers of a given range | `InclusionWalkProofs` |
| `MerkleVectors` | the Merkle code of `gen_vectors.py` and the vectors it publishes | `InclusionWalkProofs` |
| `InclusionKernels` | the walk beside the TypeScript one and the published vectors: where they have to agree | `InclusionWalkProofs` |
| `Envelope` | envelopes as records, `envelope_for_signature`, `sign_envelope`, `verify_envelope` | - |
| `EnvelopeTransit` | an envelope signed, edited at will, then verified | `EnvelopeTransitProofs` |
| `CanonicalDepth` | `exceeds_depth`, one action per iteration, over documents as trees | `CanonicalDepthProofs` |
| `EvidenceTrace` | `verify_evidence_bundle` for an anchor trace; one action per gate, loop iteration and fetch | `EvidenceTraceProofs` |
| `EvidenceVerdict` | what that call promises, without its loops | - |
| `EvidenceTraceRefines` | the refinement mapping from the first to the second | `EvidenceRefinesProofs` |
| `EnvelopeKernels` | `verify_envelope` check by check as the three kernels write it, and Go's `SignEnvelope` | - |
| `ConformanceCorpus` | the envelopes, events, checkpoints and negatives of `gen_vectors.py`, and the cases of `generate_cases.py` | `AgreementGateProofs` |
| `AgreementGate` | `run.sh`, leg by leg and case by case, with kernels that may lack checks | `AgreementGateProofs` |
| `ExportCorpus` | the exports of `export_vectors.py`, one per failure class, as further inputs of `EvidenceExport` | `EvidenceExportProofs` |
| `EvidenceExport` | composing, altering, re-issuing and verifying exports around a trace, as a stack of frames over the actions of `EvidenceTrace` | `EvidenceExportProofs` |
| `AgentProof` | `verifyAgentProofBundle` step by step beside `verify_proof_bundle` as an operator | `AgentProofProofs` |

`InclusionKernels` extends `InclusionWalk` (with `Merkle`) and `TsInclusion` and takes its
vectors from `MerkleVectors`. `Envelope` is used by `EnvelopeTransit`, `EvidenceTrace`, `AgentProof` and
`EnvelopeKernels`; `EvidenceExport` extends `EvidenceTrace` and runs its steps as the
innermost call; `ExportCorpus` extends `EvidenceExport`; `AgreementGate` runs the kernels of
`EnvelopeKernels` over the cases of `ConformanceCorpus`, whose checkpoints are the
trees of `MerkleVectors`.
The `MC*` modules give the constants their values.

**How state corresponds to code.** Variables carry the names of the locals they
stand for (`fn`, `sn`, `r`; `stack`; `by_tx_id`, `checkpoint_results`,
`event_results`, `per_gateway`, `gateway_unavailable`, `status`;
`checkpointOk`, `onChainOk`, `anyReachable`). `pc` is the place in the function.
An action is a whole iteration: `CheckCheckpoint` is the body of the first loop
with the registration in `by_tx_id`, `CheckEvent` the body of the second,
`ProbeGateway` one request, `FinishCheckpoint` the rollup of one checkpoint's
outcomes with its effect on `ok` and on `gateway_unavailable`, `RollupFailed` to `RollupUndetermined` the final decision.
In `AgreementGate`, `recorded` is the `py` field of `cases.json`, `at` the case a leg has
come to, and `lacks` which checks each kernel of the working tree does not make.
Arguments are variables no action assigns, so that every property speaks of
every argument. `PROJECT.json` maps each definition to its lines.

**Abstractions.**

- *Hashes and signatures are symbolic.* A hash is a term over what it hashes
  (`Sha256(x)`, `<<"leaf", x>>`, `<<"node", l, r>>`), so equal hashes mean equal
  contents; a signature is a term over key and scope that only signing
  produces. Collision resistance and unforgeability are assumed, not shown.
- *Bytes are named by what they decode to.* A record is the document its bytes
  canonicalize to, or `Absent` when missing or not hex; `Uncanonical` is a value JCS
  refuses. Where two encodings of a document are treated differently (a withheld
  payload, inline against external bytes) the model keeps them apart.
- *Structural checks are names.* A bundle lists which checks of its wrapper it
  fails; the order in which the code tests them decides the outcome, as in the
  code. So are the ways to write an inclusion-proof bundle that its two kernels read
  differently: each kernel has its own set of those it refuses, at the place where its
  code does. Numbers there are in the range where the two inclusion walks agree.
- *Notes are kinds.* Error texts matter only through `_UNDETERMINED_MARKERS`, which
  turn partial into exit 3; the model keeps for each text whether it contains a
  marker, including a text that quotes the bundle (`body_type = "marked"`).
- *An inclusion proof is where it leads.* In `EvidenceTrace` and `AgentProof` a proof
  carries the claimed leaf and the root its index, size and path reconstruct. That
  such a root commits to the leaf is `InclusionAssumption` / `ProofAssumption`, which is
  what `LeafSoundness` proves of the walk.
- *A body may hold more than its type says.* An export's body can carry a list of
  `checkpoints`, which no check of the export looks at and the export around it reads;
  `composeExport` writes none, and who issues an export anew may put in any of `PlantedLists`.
  That constant is in no assumption: the theorems hold whatever is planted.

## 3. Runs

| run | bounds | shows |
|---|---|---|
| `inclusion` | trees of 1 to 8 leaves; on trees of up to 4, any node or a foreign hash as leaf and as sibling, paths of up to 3, any index and size from one below to one beyond; genuine paths at every index and size; the published vectors of 1, 2, 3, 7 and 16 leaves; bit operators that see -8 to 7 (`Half` = 8) for TypeScript | accepted leaves are committed (`LeafSound`), at their index (`PositionSound`), by the only path (`OnlyAuditPathAccepted`); genuine proofs pass (`GenuineProofAccepted`), published ones among them (`PublishedVectorsHold`); the TypeScript walk agrees up to a size of `Half` (`KernelsAgreeInRange`); every call returns. Also checks that the trees `merkle_root` builds satisfy the level rule the proofs assume |
| `envelope_transit` | two keys, two documents, one profile of each kind, five steps | `AcceptedAsSigned`, `AcceptedPayloadCommitted`, `BenignEditsAccepted` |
| `canonical_depth` | every tree of up to 5 nodes, every bound up to 5 | `GuardExact`, `Returns` |
| `evidence` | up to two checkpoint and two event entries out of 9 and 14, every wrapper defect, offline; up to two checkpoints and one event also online, with one honest gateway, one that answers anything, both | `VerifiedMeansAnchored`, `HonestGatewayDecides`, `ExitZeroHidesNothing`, `FindingsStand`, `Returns`, and the refinement `ImplementsVerdict` |
| `export` | one export around nine traces, up to two of ten attestation records, one alteration or a dishonest re-issue, among them one that plants a list of checkpoints in its body (`PlantedLists`: one entry, under a `tx_id` of the trace, which a replayed record binds to); exports of such exports; the fourteen exports of the corpus; verified offline or with a gateway | `VerifiedMeansAttested`, `CachedVerdictTrue`, `RoundTrip`, `FailureReachesTheTop`, `ExitThreeFromWithin`, `DeclaredExit`, `CallsReturn` |
| `cross_kernel_gate` | every case of `generate_cases.py`; the kernels lack up to three checks between them | `AgreedOnCases`, `GateSeparates`, `RealKernelsAgree` |
| `agent_proof` | every pair of defects; each way of writing a bundle that one kernel alone reads, with both versions and with a profile of each kind; 12 checkpoint envelopes x 5 proofs x 3 leaves; up to two gateways that confirm, contradict, fail or lose the body | `VerifiedMeansCommitted`, `KernelsAgree`, `FirstDeliveryDecides`, `Returns` |

**Why the bounds are enough.** Sizes 1 to 8 contain every shape a level can have:
full, odd, promoted once, promoted over several levels. Two checkpoints are what
it takes for a duplicate `tx_id`, for an event that names another checkpoint, and
for one confirmed and one unconfirmed entry under one `gateway_unavailable`; two
gateways for a disagreement and for its order. Two attestation records make one
sound and one failing; three missing checks are what it takes for one check
to be missing in all three kernels; a `Half` of 8 puts the end of the range, and the
first size beyond it where a genuine proof is refused, among the sizes tried; two
levels of nesting make an export that is neither the
outermost call nor the innermost. In the entries of the MC modules each one tries to
mislead the verifier in a single way, and TLC combines them. The published vector of
1024 leaves is too large for TLC; `PublishedVectorsVerify` covers it.

`CHECK_DEADLOCK FALSE` stands in every configuration: a call ends.

**Fairness.** `WF_vars(Next)` (in `EvidenceExport`, `WF_evars(CallStep)`: nobody
has to start a call, but a call that runs goes on). Each call is sequential code
that nothing suspends except a request to a gateway, and the callers' fetch
answers, raises or times out: all are steps. Nothing assumes that a
gateway ever answers well. `EnvelopeTransit` has no fairness and no liveness.

**Refinement.** `EvidenceVerdict` keeps a set of reports and one decision: the
worst of the bundle's own findings and of what was reported. `ImplementsVerdict`
says that the loops, the lookup through `by_tx_id`, the flags and the early returns
of `verify_evidence_bundle` come to just that. Reports are mapped from the
current checkpoint's outcomes and the finished ones; the facts about the bundle
are mapped to quantified statements that mention no loop variable.

## 4. Where code and documents disagree

Five runs check a sentence of the documents and find it violated.

1. `export_nested` (`AttestedWithinTrace`). Attestations are looked up in the `checkpoints`
   list of whatever the inline source is (`evidence.py:809-814`), and an export is verified
   as a source like a trace is (`:804`). An export issued anew with a list of its own
   lets the attestation of the export around it bind to an envelope that is no checkpoint of the
   trace, and the outer export is verified. `specs/evidence-export.md:68` says the source must be
   an anchor trace, and `:87` that with another one no attestation resolves and nothing is verified.
   What does hold is `VerifiedMeansAttested`, level by level.
2. `export_content` (`MatchingContentIsNoFailure`). The composer recomputes without
   side inputs and caches `content_ok` as null; a verifier with the matching
   content recomputes true, the projections differ, and an unaltered export fails.
   `specs/evidence-export.md:350` and `:394` let content fail by a mismatch only; step 5
   (`:385`) lists `content_ok` among what is compared, as recomputable offline, which it is
   only for a verifier with the same side inputs.
3. `agent_proof_rollup` (`WorstFindingWins`). `refetch` stops at the first gateway
   that delivers; `specs/evidence-export.md:240` and `:408` want a mismatch of any
   gateway to win, in this path too.
4. `agent_proof_body_lost` (`FailedMeansFinding`). `anyReachable` is set before the
   body is read; if reading fails everywhere the bundle is failed although
   nothing was compared. `specs/evidence-export.md:238-240` makes that undetermined.
5. `gate_depth` (`IdenticalVerdicts`). `CanonicalJSON` of the vendored Go kernel
   (`proof.go:66`) has no nesting bound: it signs and accepts an envelope deeper than
   128, which Python and TypeScript reject, and the gate passes because no case is
   that deep. `cross-kernel/README.md:5` promises identical verdicts on identical
   bytes, `canonicalize.py:24` the same bound in every kernel.

Further differences, seen while modelling and not given a run:

- `verifyInclusion` of `merkle.ts` shifts signed 32-bit integers and compares numbers:
  up to 2^31 leaves it agrees with Python (`KernelsAgreeInRange`, proved for every range), at 2^31 + 1 it
  refuses a genuine proof, and at 2^32 + 1 it accepts a path that is too short.
- Which missing checks the gate notices is stated by `GateSeparates`. It does not
  notice that a kernel accepts an unpaired surrogate, because the negative that has
  one carries a signature of zeros as well; nor a missing depth bound; nor, in Go,
  a missing comparison of the inline payload, because only the verdict is compared
  there and the signature fails in the same cases. A check missing in
  all three kernels is noticed only if a negative depends on it.
- The classes of the export corpus about an attestation or the disclosed content fail
  the agreement with the cached verdict too, so their exit code would be 1
  without the check they are named for (`DeclaredExit` says which notes each leaves).
- With a duplicate `tx_id` the re-fetch compares the first entry's envelope and
  reports the outcome as the second's (`evidence.py:597`); an export resolves the
  same duplicate to the last entry (`:809-814`), the trace to the first (`:446-449`).
- The exit code is decided by substrings of error texts, and the text for an
  unknown `body_type` quotes the bundle (`:201`): an offline call can exit 3.
- The asserted `verdict.status` is copied into the result and compared with nothing
  (`evidence.py:347`); `specs/evidence-bundle.md:110` wants a bundle failed whose recomputed verdict
  disagrees with it.
- Inclusion-proof bundles have more than one reading (`KernelsAgree` says which). Only
  TypeScript accepts a leaf that is an array (`agent-proof.ts:103`, `bundle.py:87`), `2.0` for 2 as
  `leaf_index` or `leaf_count` (`merkle.ts:76`, `bundle.py:112,123`), a root built over a sibling that
  is not 32 bytes long (`bundle.py:121`), a missing `checkpoint_tx_id` (`bundle.py:89`) and a minor
  version; only Python accepts white space in hex (`bundle.py:119-120`, `crypto.ts:31`), an
  `audit_path` that is an object or the empty string (`agent-proof.ts:106`), and envelopes of the
  `ario.mlflow/v1` profile or without a version.
- Without a fetch implementation `agent-proof.ts:157-160` makes the bundle partial
  with a note that matches no marker, so the process exits 0 (`cli.ts:567-582`),
  where Python and the evidence path exit 3.
- A list entry that is not an object makes the Python call raise; everything else
  that is malformed returns a result.
- An event's `signature_ok` in the verdict object is the whole envelope's verdict
  (`evidence.py:1074`).
- A missing `tx_id` is looked up as `""`, so an entry under `""` stands for it; the
  same holds for an attestation's missing `checkpoint_tx_id`.
- An export with neither source nor reference reads as one with a reference.
- Attestations that resolve to no checkpoint do not appear in the verdict object, and
  the first malformed record hides the failures of later ones.
- `sign_envelope` checks neither the profile nor that `payload_hash` is a string;
  and a countersignature added after anchoring changes the envelope's bytes and
  so its leaf hash.

## 5. Proofs

| theorem | says |
|---|---|
| `InclusionWalkProofs!TypeCorrect` | the loop variables keep their types |
| `InclusionWalkProofs!PositionSoundness` | with the real tree size, only the leaf at `leaf_index` is accepted |
| `InclusionWalkProofs!LeafSoundness` | whatever index, size and path, an accepted leaf is one the root commits to |
| `InclusionWalkProofs!LevelsAreTheRecursion` | `merkle_root`'s recursion builds the tree the level rule builds |
| `InclusionWalkProofs!Completeness` | `audit_path`'s proof of every leaf is accepted |
| `InclusionWalkProofs!ProofsAreUnique` | with the real tree size, no other path is |
| `InclusionWalkProofs!KernelsAgree` | the TypeScript walk gives Python's verdict on every call within its range |
| `InclusionWalkProofs!PublishedVectorsVerify` | the published roots and proofs verify, whatever their sizes |
| `InclusionWalkProofs!TsLeafSoundness` | beyond that range, too, a leaf TypeScript accepts is one the root commits to |
| `InclusionWalkProofs!StepsRunOut` | `verify_inclusion` returns within two steps per stated leaf and one, however long the path |
| `EnvelopeTransitProofs!Authenticity` | what is accepted was signed as it stands |
| `EnvelopeTransitProofs!PayloadCommitment` | its payload is the one committed to |
| `EnvelopeTransitProofs!TypeCorrect` | what is in transit and all that was ever signed are whole envelopes; what was signed names a key of its signer and a payload hash |
| `EnvelopeTransitProofs!BenignAccepted` | what was signed, and then edited only outside its signed scope, is accepted |
| `CanonicalDepthProofs!TypeCorrect` | the stack holds nodes of the document, each with the depth it has there |
| `CanonicalDepthProofs!GuardIsExact` | `exceeds_depth` draws the line exactly at the bound |
| `CanonicalDepthProofs!WalkEnds` | every turn of `exceeds_depth` returns or descends in a well-founded order, whatever the document |
| `EvidenceTraceProofs!TypeCorrect` | the loops stay within the bundle's lists; one status |
| `EvidenceTraceProofs!TraceSoundness` | a verified trace anchors each of its events |
| `EvidenceTraceProofs!FindingsAreFinal` | no step takes a finding back |
| `EvidenceTraceProofs!ExitZeroIsHonest` | exit code 0 hides no finding and no checkpoint left unconfirmed |
| `EvidenceTraceProofs!OneHonestGatewaySettles` | one honest answer decides a checkpoint, whatever the other gateways say |
| `EvidenceTraceProofs!StepsRunOut` | `P` checkpoints, `E` events and `G` gateways take at most `(P+1)*(G+1)+P+E+4` steps |
| `EvidenceRefinesProofs!StepsImplementVerdict` | the loops implement `EvidenceVerdict`, step by step |
| `EvidenceExportProofs!ExportTypesHold` | the frames of nested exports stay within the nesting; results belong to their records |
| `EvidenceExportProofs!VerifiedExportsAreAttested` | a verified export is attested at every level, by envelopes listed in the body of the immediate source, and its trace anchored |
| `EvidenceExportProofs!FailuresReachTheTop` | a failed or malformed trace fails every export around it |
| `EvidenceExportProofs!ExitThreeComesFromWithin` | undetermined is exit 3 exactly if the trace is, or a source is not there |
| `EvidenceExportProofs!CachedVerdictsAreTrue` | a cached verdict that is not rejected says nothing false: of the trace's events, and of attestations with respect to the immediate source |
| `EvidenceExportProofs!UnalteredExportsRoundTrip` | what nobody altered verifies with the status the composer cached |
| `EvidenceExportProofs!CorpusExitsAsDeclared` | each export the generator builds from a golden file exits as its class declares, and fails what its class is about |
| `EvidenceExportProofs!CallsRunOut` | every step under a call on nested exports descends; after the return there is none |
| `AgentProofProofs!TypeCorrect` | gateways are asked in order, each at most once; one status |
| `AgentProofProofs!VerifiedIsCommitted` | a verified inclusion-proof bundle is signed, committed and, if gateways were given, confirmed |
| `AgentProofProofs!OfflineKernelsAgree` | offline, the two kernels' verdicts split exactly where a bundle is written as one of them alone reads it, or its profile or version is one it alone accepts |
| `AgentProofProofs!FirstDeliveryIsFinal` | the first gateway that delivers decides; no delivery is never "verified" |
| `AgentProofProofs!StepsRunOut` | `G` gateways take at most `G + 4` steps |
| `AgreementGateProofs!TypeCorrect` | every leg starts from a complete record of verdicts |
| `AgreementGateProofs!PassMeansAgreement` | a pass means agreement on every case, and no negative accepted |
| `AgreementGateProofs!KernelsAgree` | on envelopes outside Python's own two profiles and within the depth bound the three kernels return the same record |
| `AgreementGateProofs!FailuresAreReal` | a leg that fails has a case whose verdicts differ, or a negative Python accepts |
| `AgreementGateProofs!RealKernelsPass` | the kernels as written pass, on any such cases with negatives Python rejects |
| `AgreementGateProofs!IsolatedChecksAgree` | a pass means equal checks wherever a case turns on one check alone |
| `AgreementGateProofs!GateTellsChecksApart` | with the cases of `generate_cases.py`, a pass leaves exactly the gaps `GateSeparates` names |
| `AgreementGateProofs!CorpusVerdictsAreIntended` | with these cases the kernels as written fail no leg, and every case has the verdict it was written for |
| `AgreementGateProofs!PythonKernelIsVerifyEnvelope` | the gate's Python kernel is the `verify_envelope` of the other modules, field for field |
| `AgreementGateProofs!SignedIsAcceptedByAll` | what `sign_envelope` returns for an envelope all kernels can read, all of them accept |
| `AgreementGateProofs!GoSignedIsAcceptedByAll` | so, too, what Go's `SignEnvelope` returns |

They hold for every value of the constants: trees, documents, bundles and
gateway lists of any size, any number of edits, any answers. The first five about
exports hold of `GivenSpec`, where the exports need not be the composer's: any records, any
cached verdict, any defects, nested to any depth around any trace. `ComposedAreGiven`
shows that the behaviours of `ExportSpec` are among them, `CorpusIsGiven` that those of
`CorpusSpec` are, which may start with an export of the corpus. `RoundTrip` is about
what the composer made, and is proved of `ExportSpec`; `CorpusExitsAsDeclared` is about
what the generator made, and is proved of `CorpusSpec`.

**The arguments.**

- *Inclusion.* The walk has only hashes and two counters; soundness needs to know
  where in the tree they are. `IInv` adds the history variable `level` and says: with
  the real size, `sn + 1` is the width of the current level (`LevelInv`), and *if* `r`
  equals the tree's node at `fn`, the walk began at the tree's leaf (`PositionInv`).
  The implication is read backwards, which makes it inductive: folding a sibling
  yields the parent only if both children were the tree's, because a node
  term determines its children. Without a real size only membership survives
  (`MemberInv`): `r` in the tree means the leaf is in the tree.
- *Merkle trees.* The recursion splits at the largest power of two below the length,
  the level rule hashes neighbours: `NodesAreRoots` shows by induction on the level that
  node `i` of level `k` is the root of the slice of leaves under it. The induction is
  made on sets (a set of numbers with 0 and the successor of each member has all), and that the
  recursive functions exist is proved from well-foundedness, since the library's
  theorems about either take an operator.
- *Audit paths.* `audit_path`'s recursion goes down, the walk goes up. `PlaceInv` keeps
  which node the walk stands under, whatever its siblings. `GenuineInv` says that with the
  audit path `r` is that node's hash and the part of the path used so far is its leaf's path
  inside that node's subtree; `OnlyInv` is the converse, that the hash is right only if this part
  of the path is, which is read backwards like `PositionInv`.
- *Two kernels.* `TwinInv` runs the TypeScript loop beside the Python one: as long as
  the size is within the range, its counters are the same numbers after each shift. Beyond
  the range they are not, but `TsLeafSoundness` needs no counter: at whatever turn the path is
  folded, `r` in the tree means the leaf is in the tree.
- *Envelopes.* The invariant says every signature on the envelope in transit is
  one an earlier signing made (`Traceable`), over the scope it then had. Two envelopes
  with equal signed scopes agree in every field the scope of their profile
  keeps (`ScopeFields`), which is where the profiles matter.
  `BenignAccepted` goes the other way: as long as nothing but benign edits was made the
  signature is good and the payload hash right (`BInv`), since those edits leave the
  signed scope as it is (`OutsideScope`).
- *Depth.* `PendingInv`: a container too deep that has not been found lies under a
  node on the stack. An empty stack then means there is none.
- *Evidence.* Results are tied to the entries they are about (`CheckpointInv`,
  `EventInv`), `by_tx_id` to checked entries under their own `tx_id` (`RegisteredInv`), and
  the verdict to complete lists without findings (`VerdictInv`); none is inductive
  without the progress of the loops (`ProgressInv`). `FindingsAreFinal` adds
  that what the re-fetch has not reached still says what its checks found
  (`UntouchedInv`): without it, recomputing `ok` after the re-fetch could turn it back to TRUE.
- *The chain.* What the re-fetch has left behind for a result is tied to what the
  gateways said (`Answered`): its rollup is that of one outcome per gateway, a mismatch
  has taken `ok`, an unreachable one has set the note, and an honest gateway's
  confirmation is what the chain has (`Truthful`). `RefetchInv` says it of every entry
  behind `at`, and that the rollup is not entered before `at` is past the end unless
  something is noted as missing; `SettledInv` carries that over the return.
- *Refinement.* The invariants above go one way, from a result to its grounds. The
  judgement is an equality, so `RInv` has equivalences: `by_tx_id` keeps exactly the
  first entry of each `tx_id` (`KeptInv`); `ok` is TRUE exactly if nothing was found
  (`ExactInv`); the note is set exactly if an answer is missing (`GapInv`). From them each
  return is the judgement, a probe of a gateway adds one report, finishing an
  entry moves its reports from `per_gateway` to its result without changing the set, and
  the other steps do not show.
- *Exports.* `EInv` has the frames: which call runs (`FrameInv`), that a frame is
  entered only past its own wrapper (`EnteredInv`), that its results are those of its
  records (`RecordsInv`), and what the value that was returned to it says of every
  frame below, one invariant for each status (`VerifiedInv`, `FailedInv`, `PartialInv`): this is
  what carries a finding upwards without looking at the depth. Inside, the
  trace's own invariants hold, because a call of the trace changes no frame and
  a step of a frame changes nothing of a trace that has returned. `TruthInv` adds that the
  recomputed verdict is the trace's and that every cached one it was compared with is equal
  where the projection keeps it. For the round trip `UnalteredInv` says that each unaltered export
  holds what the call on its source would return offline, and `AlikeInv` that this call, on
  any level, returns just that but for what a gateway may add.
- *The corpus of exports.* `OneInv` says what one export around a trace is found to be,
  offline: refused at its wrapper, undetermined without its source, malformed by a record, or
  rolled up, with the linkage and the agreement noted exactly if they fail (`Decided`). The golden
  source is found sound (`GoldenFound`), and the golden verdict is the one recomputed of it
  (`GoldenAgreement`). What each class alters is then followed to the one thing found
  otherwise: a record that no longer binds changes the first entry listed for its checkpoint
  (`BadRecord`), other content changes an event (`OtherFound`), and signing again hides
  neither (`SignedAgain`).
- *Inclusion-proof bundles.* Only a delivery of the checkpoint makes `onChainOk` true, and
  once the re-fetch is over it is decided or the gateways are noted as unavailable
  (`ChainInv`): the rollup's three tests then leave "verified" for a confirmed checkpoint.
  That is one direction. Agreement and decision need both, so `JInv` adds what each check
  decided exactly (`ExactInv`), that nobody asked so far delivered (`AskedInv`), and
  the four ways the re-fetch can end (`Outcome`).
- *Gate.* What is recorded is the Python verdict, case by case, with no negative accepted
  (`RecordedOk`); a leg that has counted no mismatch agreed on every case it is
  through with (`LegOk`), and the legs behind it agreed on all (`BehindOk`). Nothing
  about the kernels is used: it holds with any gaps and any cases. The other way round,
  a leg that counted a mismatch has a case for it (`Blame`).
- *What the gate tells apart.* A case on which only one check fails (`Isolates`) is
  accepted by a kernel exactly if it lacks that check, whatever else it lacks; agreement on the case is then
  agreement on the check. `FourIsolated` finds such cases in the corpus for the profile, the
  payload hash, the external bytes and the signature, by computing them from the scripts; for the
  inline payload there is none, but `payload_hash_ok` shows it where the whole record is
  compared (`InlineTold`).
- *The corpus.* Python accepts exactly the envelopes that are signed as they stand and whose
  hash fits the bytes (`AcceptedIsWellSigned`). Each family of the scripts' cases is one
  lemma for all its members: what was built and left alone is accepted (`GoodCase`), what was
  changed after signing is not, since a signature determines its scope
  (`AlteredCase`), nor is a hash that was misstated before it (`MisstatedCase`). Joining the
  families (`JoinedAsWritten`) gives all of `Cases`, and that the kernels agree on them
  is `KernelsAgree`.
- *Termination.* Each verifier has a measure its steps use up, whatever it is given and
  the gateways answer. The walk: its counter `sn`, twice, because a sibling and a shift take
  turns and every shift lowers `sn`. Evidence: the stage, the
  records and events before it, and the probes of gateways not made. Inclusion-proof bundles: the
  stage and the gateways left. Exports nest to any depth, so theirs is lexicographic: the phase,
  the levels left in it, the records left in the frame. The depth guard has no bound in
  advance, since a node may have any number of children: the numbers of nodes waiting at
  each depth (`Waiting`) descend, compared from the root downwards, as a node makes way
  for children one deeper.

**Assumptions.** `TreesAssumption` (a committed tree obeys the level rule: adjacent
nodes are hashed, a last odd one is promoted) is checked against `merkle_root` for 1
to 8 leaves, and `LevelsAreTheRecursion` says the level rule and the recursion are the same for
every size. `ClaimsAssumption`, `DraftsAssumption`, `DocumentsAssumption`,
`MaxDepthsAssumption`, `MaxEditsAssumption`, `ListsAssumption` and `GatewaysAssumption` say that arguments
have their JSON shapes and lists are finite. `ProfilesAssumption`, `AbsentAssumption` and
`StatusAssumption` say that a missing key is none of the strings the code compares
with; `OutcomeAssumption` that it is no result of a re-fetch, either; `OutcomesAssumption` that a failed request and a lost body are told apart;
`TermsPresent`, assumed by theorems about envelopes, that a signature or hash is never
the missing key and, where all kernels must accept, that no hash is the mark for what is no
string and that a missing version is not an accepted one; `TermsDiffer`, with `Cases = AllCases` the hypotheses of
`GateTellsChecksApart`, that the corpus' missing key, surrogate and undecodable payload are
none of its strings, hashes and records; `CorpusTermsDiffer`, in its place in
`CorpusVerdictsAreIntended`, that this holds of the malformed versions and the bodies, too;
`Common`, that an envelope has a profile all kernels share, with text and nesting canonical
(signing does not check that `payload_hash` is a string, which is why the two theorems that use it
ask for that); `NoContentAssumption` that no side input means no content for any event.
`AttestationsAssumption`, `ExportDefectsAssumption` and `BoundsAssumption` say that attestation
records have their shape, that defects are those the code tests, and that nesting and edits are
counted; `FixtureAssumption` that the golden file is an export that verifies offline, and that the
pieces signed beforehand and the bytes flipped differ where they are meant to, which is how
`gen-export-fixture.mjs` and `_flip` make them; `CorpusAssumption` that both sources of the corpus are among the
bundles; `VectorsAssumption` and `HalfAssumption` that vectors have leaves and integers a range.
`InclusionAssumption` and `ProofAssumption` are the contract of `verify_inclusion`; the
theorems that establish it, `LeafSoundness` for Python and `TsLeafSoundness`, speak of other
specifications, so the step between them is by reading: a proof that reaches a root is an accepting run
of the walk against that root.

**Only model-checked.** Of the liveness properties (`Returns`, `CallsReturn`) the part that
could be wrong is proved: no call can go on for ever. That a step is possible until the return, and
that a possible step is taken, is about ENABLED and fairness, beyond the prover, and stays
with TLC; of `ImplementsVerdict`, too, the steps are proved and the fairness is only checked.
Every invariant of a passing run is proved.
The runs that expect a violation have nothing to prove.

## 6. Not modelled

- The TypeScript evidence kernel as a second account beside `EvidenceTrace`; it rolls up
  the same way.
- The command line except `mapStatusToExit`.
- A list entry that is not an object; `normalizeAttestation`'s transcoding; summaries,
  `subject_ref` and the (always null) custody chain, which no verdict reads;
  `expected_content_hash`, which never affects `ok`; `normalize_floats`, which only
  producers call.
- Hash functions, Ed25519, RSA and the decoders; the scripts that make the RSA keys and
  the golden export (`ts/scripts`), the files, manifests and `--check` mode of the
  generators; the TypeScript side of the export leg, which passes or fails.

## 7. What could come next

1. `CommandLine`: dispatch, `--logs`, the export command with its unguarded write, exit
   codes over the results of the modelled verifiers.
2. Entries that are not objects, as a step that raises; the TypeScript evidence kernel
   with its differences in duplicates and numbers, which would give the export
   leg of the gate its second account.
