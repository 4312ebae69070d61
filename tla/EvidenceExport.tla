---------------------------- MODULE EvidenceExport ----------------------------
(***************************************************************************)
(* Attested exports (ario.evidence.export/v1): how one is composed from a  *)
(* source bundle and operator attestations (composeExport of               *)
(* ts/src/compose.ts with recomputeExportVerdict), what may become of it   *)
(* before it is verified, and how it is verified (_verify_export_body of   *)
(* src/ario_proof/evidence.py).  The source of an export is a bundle, so   *)
(* possibly an export itself: `chain' holds the nested exports, outermost  *)
(* first, around the trace `bundle' of EvidenceTrace, whose steps are the  *)
(* innermost call.  Composing is the same recursion, with the composer as  *)
(* the outermost caller (frame 0).                                         *)
(*                                                                         *)
(* An export is a record                                                   *)
(*   defects             the wrapper checks it fails (EvidenceTrace), and  *)
(*                       "no fields" for a body without a required field   *)
(*   inline              whether source_bundle is there (or only a ref)    *)
(*   source_bundle_hash  the hash it claims for its source                 *)
(*   attestations        sequence of attestation records                   *)
(*   kernel_verdict      the cached verdict [status, events, checkpoints]  *)
(*   checkpoints         a list of [tx_id, envelope] its body may carry    *)
(*                       beside these, which no check of the export looks  *)
(*                       at; composeExport writes none                     *)
(* An attestation record is                                                *)
(*   [shape_ok, checkpoint_tx_id, payload, public_key, signature]          *)
(* with payload [operator, data_hash], public_key [n, e], and shape_ok     *)
(* FALSE when a required field is missing or signature_alg is not          *)
(* rsa-pss-sha256.                                                         *)
(***************************************************************************)
EXTENDS EvidenceTrace

CONSTANTS
  AttestationLists,  \* the lists of attestation records composers are given
  Drafts(_, _),      \* those tried for a trace and the exports already around
                     \* it: a bound on the nesting of the exploration
  PlantedLists,      \* lists of checkpoints put into the body of an export
  ExportDefects,     \* the wrapper checks an altered export may fail
  NoContent,         \* no `content' side input
  Unimportable,      \* a modulus the RSA library refuses, though base64url
  MaxNesting,        \* bound on the exports around the trace
  MaxEdits           \* bound on the alterations of composed exports

ASSUME NoContentAssumption == \A e \in DOMAIN NoContent : NoContent[e] = Absent

\* JSON arrays are finite, and a public key is its two members.
ASSUME AttestationsAssumption ==
  \A list \in AttestationLists :
    /\ IsList(list)
    /\ \A i \in DOMAIN list :
         list[i].public_key = [n |-> list[i].public_key.n, e |-> list[i].public_key.e]

ASSUME ExportDefectsAssumption ==
  ExportDefects \subseteq Malforming \cup Tampering \cup {"no fields"}

ASSUME BoundsAssumption == MaxNesting \in Nat /\ MaxEdits \in Nat

VARIABLES
  chain,             \* the exports, outermost first
  edits,             \* number of alterations made
  call,              \* "compose" or "verify": what the outermost caller does
  epc,               \* "idle", "enter", "trace", "attest" or "done"
  level,             \* the frame that runs: chain[level], or the composer at 0
  draft,             \* the attestation records handed to the composer
  source_result,     \* what the verification of the frame's source returned
  attestation_results

exports == <<chain, edits>>
frame == <<call, level, draft>>
evars == <<exports, frame, epc, source_result, attestation_results, vars>>

NoResult == [status |-> Absent, checkpoints |-> <<>>, events |-> <<>>, notes |-> {}]

\* No call runs yet.
Idle ==
  /\ gateways = <<>> /\ fetchable = TRUE /\ content = NoContent
  /\ pc = "parse"
  /\ by_tx_id = <<>> /\ checkpoint_results = <<>> /\ event_results = <<>>
  /\ gateway_unavailable = FALSE /\ at = 1 /\ per_gateway = <<>>
  /\ notes = {} /\ status = Absent
  /\ call = "compose" /\ epc = "idle" /\ level = 0 /\ draft = <<>>
  /\ source_result = NoResult /\ attestation_results = <<>>

ExportInit ==
  /\ bundle \in Bundles
  /\ chain = <<>> /\ edits = 0
  /\ Idle

-----------------------------------------------------------------------------
(* Calls and returns.                                                      *)

\* The outermost call, on chain[1] or on the trace itself, with fresh locals.
Enter(caller, gws, fetches, side) ==
  /\ epc = "idle"
  /\ call' = caller /\ level' = 0
  /\ gateways' = gws /\ fetchable' = fetches /\ content' = side
  /\ pc' = "parse"
  /\ by_tx_id' = <<>> /\ checkpoint_results' = <<>> /\ event_results' = <<>>
  /\ gateway_unavailable' = FALSE /\ at' = 1 /\ per_gateway' = <<>>
  /\ notes' = {} /\ status' = Absent
  /\ epc' = IF chain = <<>> THEN "trace" ELSE "enter"
  /\ source_result' = NoResult /\ attestation_results' = <<>>
  /\ UNCHANGED <<bundle, exports>>

\* Mutant: results of one frame are left to the next.
Answer_KeepsResults(k, r) ==
  /\ level' = k
  /\ source_result' = r
  /\ epc' = IF k = 0 /\ call = "verify" THEN "done" ELSE "attest"
  /\ UNCHANGED <<exports, call, draft, attestation_results, vars>>

\* The verification of frame k's source returns r to frame k.
Answer(k, r) ==
  /\ level' = k
  /\ source_result' = r
  /\ attestation_results' = <<>>
  /\ epc' = IF k = 0 /\ call = "verify" THEN "done" ELSE "attest"
  /\ UNCHANGED <<exports, call, draft, vars>>

Inner == chain[level + 1]

\* What the export of frame k, or the composer, has as its source_bundle.
Source(k) == IF k < Len(chain) THEN chain[k + 1] ELSE bundle

NoVerdict(s, new) == [status |-> s, checkpoints |-> <<>>, events |-> <<>>, notes |-> new]

\* Steps 1 and 2 of verify_evidence_bundle, as for a trace.
RejectExport ==
  /\ epc = "enter"
  /\ Inner.defects \cap (Malforming \cup Tampering) # {}
  /\ Answer(level, IF Inner.defects \cap Malforming # {}
                   THEN NoVerdict("malformed", {"malformed"})
                   ELSE NoVerdict("failed", {"wrapper"}))

Entered == epc = "enter" /\ Inner.defects \cap (Malforming \cup Tampering) = {}

MalformedExport ==
  /\ Entered
  /\ "no fields" \in Inner.defects
  /\ Answer(level, NoVerdict("malformed", {"malformed"}))

SourceByReference ==
  /\ Entered
  /\ "no fields" \notin Inner.defects
  /\ ~Inner.inline
  /\ Answer(level, NoVerdict("partial", {"unavailable offline"}))

\* Mutant: the call is made on the export itself.
EnterExport_SameBundle ==
  /\ Entered
  /\ "no fields" \notin Inner.defects
  /\ Inner.inline
  /\ UNCHANGED evars

\* The call on the inline source.
EnterExport ==
  /\ Entered
  /\ "no fields" \notin Inner.defects
  /\ Inner.inline
  /\ level' = level + 1
  /\ epc' = IF level + 1 = Len(chain) THEN "trace" ELSE "enter"
  /\ UNCHANGED <<exports, call, draft, source_result, attestation_results, vars>>

TraceStep ==
  /\ epc = "trace"
  /\ Next
  /\ UNCHANGED <<exports, frame, epc, source_result, attestation_results>>

\* The fields of the verdict object that come from the source: events and
\* checkpoints without the on-chain block.  signature_ok is envelope_ok.
EventVerdict(i) ==
  [event_id      |-> bundle.events[i].envelope.body,
   signature_ok  |-> event_results[i].envelope_ok,
   payload_bound |-> event_results[i].payload_binding_ok,
   inclusion_ok  |-> event_results[i].inclusion_ok,
   content_ok    |-> event_results[i].content_ok]

CheckpointVerdict(i) ==
  [checkpoint_tx_id |-> checkpoint_results[i].tx_id,
   merkle_root_ok   |-> checkpoint_results[i].merkle_root_ok]

TraceReturns ==
  /\ epc = "trace"
  /\ pc = "done"
  /\ Answer(level,
       [status      |-> status,
        checkpoints |-> [i \in DOMAIN checkpoint_results |-> CheckpointVerdict(i)],
        events      |-> [i \in DOMAIN event_results |-> EventVerdict(i)],
        notes       |-> notes])

-----------------------------------------------------------------------------
(* Attestation records.                                                    *)

\* Signatures with another exponent than 65537 prove nothing: for e = 1
\* anybody can make them.
RSA_PUBLIC_EXPONENT == 65537
OperatorAddress(n) == [wallet |-> n]

\* What makes the whole export malformed: a missing field, a signature that is
\* not hex, a modulus that is not base64url, an e that is no number, or a key
\* the library does not import (which is tried for the right exponent only).
Unparseable(rec) ==
  \/ ~rec.shape_ok
  \/ rec.signature = Absent
  \/ rec.public_key.n = Absent
  \/ rec.public_key.e = Absent
  \/ rec.public_key.n = Unimportable /\ rec.public_key.e = RSA_PUBLIC_EXPONENT

\* Mutant: the exponent is not checked.
verify_rsa_pss_sha256_AnyExponent(rec) ==
  rec.signature = SignatureBy(rec.public_key, rec.payload)

verify_rsa_pss_sha256(rec) ==
  /\ rec.public_key.e = RSA_PUBLIC_EXPONENT
  /\ rec.signature = SignatureBy(rec.public_key, rec.payload)

\* A missing checkpoint_tx_id reads as the empty string.
NamedTx(rec) == IF rec.checkpoint_tx_id = Absent THEN "" ELSE rec.checkpoint_tx_id

\* source_checkpoints of frame k: the entries with this tx_id in the checkpoints
\* list of the source's body, whatever the body_type; the last one counts.
Listed(tx, k) ==
  IF Source(k).defects \cap {"not an object", "no body", "no lists"} # {} THEN {}
  ELSE {i \in DOMAIN Source(k).checkpoints : Source(k).checkpoints[i].tx_id = tx}

DataHashBound(rec, k) ==
  \E i \in Listed(NamedTx(rec), k) :
    /\ \A j \in Listed(NamedTx(rec), k) : j <= i
    /\ rec.payload.data_hash = Sha256(Source(k).checkpoints[i].envelope)

_verify_attestation(rec, k) ==
  LET signed == verify_rsa_pss_sha256(rec)
      owned == rec.payload.operator = OperatorAddress(rec.public_key.n)
      bound == DataHashBound(rec, k)
  IN [checkpoint_tx_id       |-> NamedTx(rec),
      operator               |-> rec.payload.operator,
      signature_ok           |-> signed,
      operator_address_bound |-> owned,
      data_hash_bound        |-> bound,
      ok                     |-> signed /\ owned /\ bound]

Records == IF level = 0 THEN draft ELSE chain[level].attestations
Remaining == epc = "attest" /\ Len(attestation_results) < Len(Records)
NextRecord == Records[Len(attestation_results) + 1]

CheckAttestation ==
  /\ Remaining
  /\ ~Unparseable(NextRecord)
  /\ attestation_results' =
       Append(attestation_results, _verify_attestation(NextRecord, level))
  /\ UNCHANGED <<exports, frame, epc, source_result, vars>>

\* One unparseable record discards the results of all, and the source's notes.
MalformedAttestation ==
  /\ Remaining
  /\ level > 0
  /\ Unparseable(NextRecord)
  /\ Answer(level - 1, NoVerdict("malformed", {"malformed"}))

-----------------------------------------------------------------------------
(* The verdict object, its comparison, and the rollup.                     *)

VerdictEntry(a) ==
  [operator               |-> a.operator,
   signature_ok           |-> a.signature_ok,
   operator_address_bound |-> a.operator_address_bound,
   data_hash_bound        |-> a.data_hash_bound]

\* att_by_checkpoint[tx], the entries appended in the order of the results.
AttestationsOf(results, tx) ==
  LET appended[n \in 0 .. Len(results)] ==
        IF n = 0 THEN <<>>
        ELSE IF results[n].checkpoint_tx_id = tx
             THEN Append(appended[n - 1], VerdictEntry(results[n]))
             ELSE appended[n - 1]
  IN appended[Len(results)]

\* Attestations that resolve to no checkpoint appear nowhere in the verdict.
VerdictCheckpoints ==
  [i \in DOMAIN source_result.checkpoints |->
     LET c == source_result.checkpoints[i]
     IN [checkpoint_tx_id |-> c.checkpoint_tx_id,
         merkle_root_ok   |-> c.merkle_root_ok,
         attestations     |-> AttestationsOf(attestation_results, c.checkpoint_tx_id)]]

BuildVerdict(s) ==
  [status |-> s, events |-> source_result.events, checkpoints |-> VerdictCheckpoints]

\* Mutant: the status is compared too.
ProjectForAgreement_WholeVerdict(verdict) == verdict

\* status, counts, summary and the on-chain block are not compared.
ProjectForAgreement(verdict) ==
  [events |-> verdict.events, checkpoints |-> verdict.checkpoints]

AnyAttestationFailed ==
  \E i \in DOMAIN attestation_results : ~attestation_results[i].ok

\* The part of the rollup composer and verifier share.
SourceRollup ==
  CASE source_result.status \in {"failed", "malformed"} \/ AnyAttestationFailed -> "failed"
    [] source_result.status = "partial" /\ ~AnyAttestationFailed -> "partial"
    [] OTHER -> "verified"

LinkageOk == chain[level].source_bundle_hash = Sha256(Source(level))

\* Mutant: only the lengths of the verdicts are compared.
AgreementOk_Lengths ==
  LET cached == chain[level].kernel_verdict
  IN /\ Len(cached.events) = Len(source_result.events)
     /\ Len(cached.checkpoints) = Len(source_result.checkpoints)

AgreementOk ==
  ProjectForAgreement(chain[level].kernel_verdict) = ProjectForAgreement(BuildVerdict(source_result.status))

\* Mutant: a malformed source or a failed attestation is only undetermined.
RollupExport_FailureIsPartial ==
  /\ epc = "attest" /\ level > 0
  /\ Len(attestation_results) = Len(Records)
  /\ Answer(level - 1,
       [status |-> IF LinkageOk /\ AgreementOk
                   THEN IF SourceRollup = "failed" THEN "partial" ELSE SourceRollup
                   ELSE "failed",
        checkpoints |-> source_result.checkpoints, events |-> source_result.events,
        notes |-> source_result.notes])

\* Mutant: the notes of the source are not passed on.
RollupExport_DropsNotes ==
  /\ epc = "attest" /\ level > 0
  /\ Len(attestation_results) = Len(Records)
  /\ Answer(level - 1,
       [status |-> IF LinkageOk /\ AgreementOk THEN SourceRollup ELSE "failed",
        checkpoints |-> source_result.checkpoints, events |-> source_result.events,
        notes |-> {}])

\* Step 9, and the return to the frame around this one.  The per-checkpoint
\* and per-event results are those of the source; its notes are passed on.
RollupExport ==
  /\ epc = "attest" /\ level > 0
  /\ Len(attestation_results) = Len(Records)
  /\ Answer(level - 1,
       [status |-> IF LinkageOk /\ AgreementOk THEN SourceRollup ELSE "failed",
        checkpoints |-> source_result.checkpoints, events |-> source_result.events,
        notes |-> source_result.notes
                    \cup (IF LinkageOk THEN {} ELSE {"linkage"})
                    \cup (IF AgreementOk THEN {} ELSE {"agreement"})])

-----------------------------------------------------------------------------
(* Composing an export.                                                    *)

\* composeExport recomputes the verdict without gateways and side inputs.
StartCompose ==
  /\ Len(chain) < MaxNesting
  /\ "not an object" \notin Source(0).defects
  /\ draft' \in AttestationLists \cap Drafts(bundle, chain)
  /\ Enter("compose", <<>>, TRUE, NoContent)

\* An unparseable record: composeExport throws, there is no artifact.
ComposeThrows ==
  /\ Remaining
  /\ level = 0
  /\ Unparseable(NextRecord)
  /\ epc' = "idle"
  /\ UNCHANGED <<exports, frame, source_result, attestation_results, vars>>

\* The artifact is written whatever its status.
FinishCompose ==
  /\ epc = "attest" /\ level = 0
  /\ Len(attestation_results) = Len(Records)
  /\ chain' = <<[defects            |-> {},
                 inline             |-> TRUE,
                 source_bundle_hash |-> Sha256(Source(0)),
                 attestations       |-> draft,
                 kernel_verdict     |-> BuildVerdict(SourceRollup),
                 checkpoints        |-> <<>>]>> \o chain
  /\ epc' = "idle"
  /\ UNCHANGED <<edits, frame, source_result, attestation_results, vars>>

-----------------------------------------------------------------------------
(* Alterations: without the exporter's key the wrapper no longer checks;   *)
(* "anyone can export", so anything can be signed anew.                    *)

Alter(new) ==
  /\ epc = "idle"
  /\ edits < MaxEdits
  /\ new # chain[1]
  /\ chain' = [chain EXCEPT ![1] = new]
  /\ edits' = edits + 1
  /\ UNCHANGED <<frame, epc, source_result, attestation_results, vars>>

Tamper ==
  /\ chain # <<>>
  /\ \E d \in ExportDefects : Alter([chain[1] EXCEPT !.defects = {d}])

\* Verdicts a dishonest exporter may cache: all is well, or nothing is there.
Whitewashed(v) ==
  [v EXCEPT !.events = [i \in DOMAIN v.events |->
     [v.events[i] EXCEPT !.signature_ok = TRUE, !.inclusion_ok = TRUE,
                         !.payload_bound = "true"]]]

ForgedVerdicts(v) == {Whitewashed(v), [v EXCEPT !.events = <<>>],
                      [v EXCEPT !.status = "verified"]}

Reissue ==
  /\ chain # <<>>
  /\ \/ \E v \in ForgedVerdicts(chain[1].kernel_verdict) :
          Alter([chain[1] EXCEPT !.kernel_verdict = v])
     \/ \E list \in AttestationLists \cap Drafts(bundle, Tail(chain)) :
          Alter([chain[1] EXCEPT !.attestations = list])
     \/ Alter([chain[1] EXCEPT !.source_bundle_hash = Sha256(Absent)])
     \/ Alter([chain[1] EXCEPT !.inline = FALSE])
     \/ \E list \in PlantedLists : Alter([chain[1] EXCEPT !.checkpoints = list])

StartVerify ==
  /\ \E gws \in GatewayLists, side \in Contents :
       \E fetches \in IF gws = <<>> THEN {TRUE} ELSE BOOLEAN :
         Enter("verify", gws, fetches, side)
  /\ draft' = <<>>

CallStep ==
  \/ RejectExport \/ MalformedExport \/ SourceByReference \/ EnterExport
  \/ TraceStep \/ TraceReturns
  \/ CheckAttestation \/ MalformedAttestation \/ RollupExport
  \/ ComposeThrows \/ FinishCompose

ExportNext == StartCompose \/ Tamper \/ Reissue \/ StartVerify \/ CallStep

ExportSpec == ExportInit /\ [][ExportNext]_evars /\ WF_evars(CallStep)

-----------------------------------------------------------------------------
Verified == epc = "done" /\ source_result.status = "verified"

\* Frames stay within the chain, the trace runs only at the bottom, and the
\* results of a frame belong to its records.
ExportTypeOK ==
  /\ level \in 0 .. Len(chain)
  /\ Len(chain) <= MaxNesting /\ edits <= MaxEdits
  /\ epc \in {"idle", "enter", "trace", "attest", "done"}
  /\ epc = "trace" => level = Len(chain)
  /\ epc = "enter" => level < Len(chain)
  /\ Len(attestation_results) <= Len(Records)
  /\ source_result.status \in Results \cup {Absent}
  /\ epc \in {"attest", "done"} => source_result.status # Absent

(***************************************************************************)
(* What a verified export promises, in terms of the artifact alone.  Every *)
(* attestation in it was signed by the operator it names, with the key the *)
(* operator's address is derived from, over the hash of an envelope which  *)
(* the immediate source, for the innermost export the trace, has under the *)
(* transaction it is listed for; no wrapper on the way was altered; and    *)
(* every event of the trace is anchored.                                   *)
(***************************************************************************)
Attested(rec, k) ==
  /\ rec.payload.operator = OperatorAddress(rec.public_key.n)
  /\ rec.signature = SignatureBy([n |-> rec.public_key.n, e |-> RSA_PUBLIC_EXPONENT],
                                 rec.payload)
  /\ \E i \in DOMAIN Source(k).checkpoints :
       /\ Source(k).checkpoints[i].tx_id = NamedTx(rec)
       /\ rec.payload.data_hash = Sha256(Source(k).checkpoints[i].envelope)

ExportAttested(k) ==
  /\ chain[k].defects = {}
  /\ chain[k].inline
  /\ chain[k].source_bundle_hash = Sha256(Source(k))
  /\ \A a \in DOMAIN chain[k].attestations : Attested(chain[k].attestations[a], k)

VerifiedMeansAttested ==
  Verified =>
    /\ \A k \in DOMAIN chain : ExportAttested(k)
    /\ \A i \in DOMAIN bundle.events : EventAnchored(bundle.events[i])

(***************************************************************************)
(* The cached verdict of an export that is not rejected says nothing false *)
(* to a reader who only renders it: it lists every event of the trace, and *)
(* the signatures, inclusions and attestations it calls good are good, the *)
(* attestations with respect to the immediate source.                      *)
(***************************************************************************)
TruthfulEvents(v) ==
  /\ Len(v.events) = Len(bundle.events)
  /\ \A i \in DOMAIN v.events :
       /\ v.events[i].event_id = bundle.events[i].envelope.body
       /\ v.events[i].signature_ok => signature_ok(bundle.events[i].envelope)
       /\ v.events[i].payload_bound = "true" =>
            \/ InlineBinds(bundle.events[i].envelope)
            \/ bundle.events[i].envelope.payload_hash = Sha256(bundle.events[i].record)
       /\ v.events[i].inclusion_ok =>
            leaf_hash(bundle.events[i].envelope) \in Commits(bundle.events[i].inclusion.reaches)

TruthfulAttestations(k) ==
  \A i \in DOMAIN chain[k].kernel_verdict.checkpoints :
    LET c == chain[k].kernel_verdict.checkpoints[i]
    IN \A j \in DOMAIN c.attestations :
         \E a \in DOMAIN chain[k].attestations :
           LET rec == chain[k].attestations[a]
           IN /\ rec.payload.operator = c.attestations[j].operator
              /\ NamedTx(rec) = c.checkpoint_tx_id
              /\ Attested(rec, k)

CachedVerdictTrue ==
  (epc = "done" /\ pc = "done" /\ source_result.status \in {"verified", "partial"}
   /\ bundle.body_type = "trace") =>
    \A k \in DOMAIN chain :
      TruthfulEvents(chain[k].kernel_verdict) /\ TruthfulAttestations(k)

(***************************************************************************)
(* The composer and the verifier recompute alike: an export nobody altered *)
(* verifies, offline and without side inputs, with the status the composer *)
(* gave it; with gateways the status can only be worse, never because of   *)
(* linkage or agreement.                                                   *)
(***************************************************************************)
RoundTrip ==
  (epc = "done" /\ edits = 0 /\ chain # <<>> /\ content = NoContent) =>
    /\ gateways = <<>> => source_result.status = chain[1].kernel_verdict.status
    /\ source_result.notes \cap {"linkage", "agreement"} = {}

(***************************************************************************)
(* A failed or malformed trace is never softened on its way out through    *)
(* the exports around it, and an undetermined one keeps its exit code: 3   *)
(* exactly when the trace gives 3 or a source is not there.                *)
(***************************************************************************)
FailureReachesTheTop ==
  (epc = "done" /\ status \in {"failed", "malformed"}) =>
    ExitCode(source_result.status, source_result.notes) \in {1, 2}

ExitThreeFromWithin ==
  (epc = "done" /\ source_result.status = "partial") =>
    (ExitCode(source_result.status, source_result.notes) = 3
     <=> exit_code = 3 \/ \E k \in DOMAIN chain : ~chain[k].inline)

\* Every compose and every verify call returns.
CallsReturn == (epc \in {"enter", "trace", "attest"}) ~> (epc \in {"idle", "done"})

-----------------------------------------------------------------------------
(* What the documents say and the code does not do.                        *)

\* specs/evidence-export.md 4.5: only disclosed content that mismatches fails
\* the gate.  The composer caches content_ok as undetermined, a verifier with
\* the disclosed bytes recomputes it as true, and the two verdicts disagree.
MatchingContentIsNoFailure ==
  (/\ epc = "done" /\ edits = 0 /\ chain # <<>> /\ gateways = <<>>
   /\ \A k \in DOMAIN chain : chain[k].kernel_verdict.status = "verified"
   /\ \A i \in DOMAIN bundle.events : ContentOk(bundle.events[i]) # "false")
  => source_result.status # "failed"

\* specs/evidence-export.md 2.2 and 2.4: the source is a trace, the only
\* body_type the kernel verifies, and with another one the attestations resolve
\* no checkpoint and the export is not verified.  The kernel verifies exports
\* as sources too, and resolves in whatever list of checkpoints they carry.
AttestedWithinTrace ==
  Verified =>
    \A k \in DOMAIN chain : \A a \in DOMAIN chain[k].attestations :
      Attested(chain[k].attestations[a], Len(chain))
=============================================================================
