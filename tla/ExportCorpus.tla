----------------------------- MODULE ExportCorpus -----------------------------
(***************************************************************************)
(* The conformance exports of tools/gen-vectors/export_vectors.py: the     *)
(* golden export, and one altered copy per failure class, each declared    *)
(* with the exit code it is made for.  gen_export_vectors.py publishes     *)
(* them with the verdict of the Python kernel, and                         *)
(* cross-kernel/generate_export_cases.py hands both to the TypeScript leg. *)
(* Here every one of them is a further chain EvidenceExport may start      *)
(* from, so the verdict is that of its steps.                              *)
(***************************************************************************)
EXTENDS EvidenceExport

CONSTANTS
  Fixture   \* the golden file: [source, attestations, kernel_verdict]; of its
            \* _tamper block [mis_salt_sig, wrong_operator, wrong_data_hash];
            \* and other_content, what flipping the disclosed content makes of it

AttestationClasses ==
  {"forged-attestation-signature", "mis-salted-attestation",
   "operator-address-binding-break", "data-hash-binding-break", "subject-ref-tamper"}

MalformedClasses == {"malformed-rsa-key", "malformed-signature-alg"}
WrapperClasses == {"wrapper-signature-break", "body-hash-mismatch"}

Classes ==
  {"positive", "source-bundle-hash-mismatch", "verdict-disagreement",
   "disclosed-content-mismatch", "source-bundle-ref-offline"}
  \cup WrapperClasses \cup AttestationClasses \cup MalformedClasses

EXPECTED_EXIT(k) ==
  CASE k = "positive"                  -> 0
    [] k \in MalformedClasses          -> 2
    [] k = "source-bundle-ref-offline" -> 3
    [] OTHER                           -> 1

-----------------------------------------------------------------------------
\* Another value in the place of this one.
_flip(x) == [flipped |-> x]

\* A body altered in place contradicts body_hash and the signature.
Altered(b) == [b EXCEPT !.defects = @ \cup {"body_hash", "signature"}]

\* Mutant: the signature is renewed, body_hash is not.
_re_sign_wrapper_KeepsBodyHash(b) == [b EXCEPT !.defects = @ \ {"signature"}]

_re_sign_wrapper(b) == [b EXCEPT !.defects = @ \ {"body_hash", "signature"}]

_re_sign_source_and_export(c) ==
  LET source == _re_sign_wrapper(c.source)
  IN [source |-> source,
      export |-> _re_sign_wrapper([c.export EXCEPT !.source_bundle_hash = Sha256(source)])]

Golden ==
  [source |-> Fixture.source,
   export |-> [defects |-> {}, inline |-> TRUE,
               source_bundle_hash |-> Sha256(Fixture.source),
               attestations |-> Fixture.attestations,
               kernel_verdict |-> Fixture.kernel_verdict,
               checkpoints |-> <<>>]]

\* The golden export with another one in its place, or another first record.
WithExport(e) == [Golden EXCEPT !.export = _re_sign_wrapper(Altered(e))]
WithRecord(rec) == WithExport([Golden.export EXCEPT !.attestations[1] = rec])

\* build_cases, one line per class.
BuildCase(k) ==
  LET e == Golden.export
      rec == e.attestations[1]
  IN CASE k = "positive" -> Golden
       [] k = "wrapper-signature-break" -> [Golden EXCEPT !.export.defects = {"signature"}]
       [] k = "body-hash-mismatch" ->
            [Golden EXCEPT !.export.defects = {"body_hash", "signature"}]
       [] k = "source-bundle-hash-mismatch" ->
            WithExport([e EXCEPT !.source_bundle_hash = _flip(@)])
       [] k = "verdict-disagreement" ->
            WithExport([e EXCEPT !.kernel_verdict.events[1].signature_ok = FALSE])
       [] k = "forged-attestation-signature" ->
            WithRecord([rec EXCEPT !.signature = _flip(@)])
       [] k = "mis-salted-attestation" ->
            WithRecord([rec EXCEPT !.signature = Fixture.mis_salt_sig])
       [] k = "operator-address-binding-break" -> WithRecord(Fixture.wrong_operator)
       [] k = "data-hash-binding-break" -> WithRecord(Fixture.wrong_data_hash)
       [] k = "disclosed-content-mismatch" ->
            _re_sign_source_and_export(
              [source |-> Altered([Golden.source EXCEPT !.events[1].content = Fixture.other_content]),
               export |-> Altered(e)])
       [] k = "subject-ref-tamper" ->
            WithRecord([rec EXCEPT !.payload.subject_ref = _flip(@)])
       [] k \in MalformedClasses -> WithRecord([rec EXCEPT !.shape_ok = FALSE])
       [] k = "source-bundle-ref-offline" -> WithExport([e EXCEPT !.inline = FALSE])

-----------------------------------------------------------------------------
(* What the golden file is taken to be: an export that verifies.           *)

\* Every entry of the source passes every check without gateways and side
\* inputs, and each checkpoint has a transaction of its own.
IntactCheckpoint(b, i) ==
  LET cp == b.checkpoints[i]
  IN /\ EnvelopeBound(cp) /\ RootBound(cp)
     /\ cp.tx_id # Absent
     /\ \A j \in DOMAIN b.checkpoints : b.checkpoints[j].tx_id = cp.tx_id => j = i

IntactEvent(b, ev) ==
  /\ ev = [envelope |-> ev.envelope, record |-> ev.record,
           inclusion |-> ev.inclusion, content |-> ev.content]
  /\ VerifyOk(ev.envelope, ev.record, FALSE)
  /\ payload_hash_ok(ev.envelope, ev.record) = "true"
  /\ _evaluate_content(ev, NoContent[ev.envelope.body]) # "false"
  /\ ev.inclusion # Absent /\ ev.inclusion.leaf = leaf_hash(ev.envelope)
  /\ \E i \in DOMAIN b.checkpoints : /\ b.checkpoints[i].tx_id = ev.inclusion.tx_id
                                     /\ b.checkpoints[i].merkle_root = ev.inclusion.reaches

IntactSource(b) ==
  /\ b = [defects |-> {}, body_type |-> "trace", asserted |-> b.asserted,
          checkpoints |-> b.checkpoints, events |-> b.events]
  /\ \A i \in DOMAIN b.checkpoints : IntactCheckpoint(b, i)
  /\ \A i \in DOMAIN b.events : IntactEvent(b, b.events[i])

\* A record that parses, and one that is good, too.
WellFormed(rec) ==
  /\ ~Unparseable(rec)
  /\ rec = [shape_ok |-> TRUE, checkpoint_tx_id |-> rec.checkpoint_tx_id,
            payload |-> rec.payload, public_key |-> rec.public_key,
            signature |-> rec.signature]
  /\ rec.public_key = [n |-> rec.public_key.n, e |-> rec.public_key.e]

IntactRecord(b, rec) ==
  /\ WellFormed(rec)
  /\ verify_rsa_pss_sha256(rec)
  /\ rec.payload.operator = OperatorAddress(rec.public_key.n)
  /\ \E i \in DOMAIN b.checkpoints :
       /\ b.checkpoints[i].tx_id = NamedTx(rec)
       /\ rec.payload.data_hash = Sha256(b.checkpoints[i].envelope)

\* The verdict such an export has.
AllGood(rec) ==
  [checkpoint_tx_id |-> NamedTx(rec), operator |-> rec.payload.operator,
   signature_ok |-> TRUE, operator_address_bound |-> TRUE, data_hash_bound |-> TRUE,
   ok |-> TRUE]

IntactVerdict(b, list) ==
  LET results == [a \in 1 .. Len(list) |-> AllGood(list[a])]
  IN [status |-> "verified",
      events |->
        [i \in 1 .. Len(b.events) |->
           LET ev == b.events[i]
           IN [event_id |-> ev.envelope.body, signature_ok |-> TRUE,
               payload_bound |-> "true", inclusion_ok |-> TRUE,
               content_ok |-> _evaluate_content(ev, NoContent[ev.envelope.body])]],
      checkpoints |->
        [i \in 1 .. Len(b.checkpoints) |->
           LET tx == b.checkpoints[i].tx_id
           IN [checkpoint_tx_id |-> tx, merkle_root_ok |-> TRUE,
               attestations |-> AttestationsOf(results, tx)]]]

\* The pre-signed pieces fail the one check they are made to fail.
TamperPieces(rec) ==
  LET owner == Fixture.wrong_operator
      bound == Fixture.wrong_data_hash
  IN /\ Fixture.mis_salt_sig \notin {Absent, rec.signature}
     /\ WellFormed(owner) /\ NamedTx(owner) = NamedTx(rec)
     /\ owner.payload.operator # OperatorAddress(owner.public_key.n)
     /\ WellFormed(bound) /\ NamedTx(bound) = NamedTx(rec)
     /\ \A i \in DOMAIN Fixture.source.checkpoints :
          Fixture.source.checkpoints[i].tx_id = NamedTx(rec) =>
            bound.payload.data_hash # Sha256(Fixture.source.checkpoints[i].envelope)

\* What is altered in place is there, and is something else once altered.
Alterable(ev, rec) ==
  /\ Committed(ev) # {}
  /\ Fixture.other_content # Absent /\ Sha256(Fixture.other_content) \notin Committed(ev)
  /\ _flip(rec.signature) \notin {Absent, rec.signature}
  /\ _flip(Sha256(Fixture.source)) # Sha256(Fixture.source)
  /\ "subject_ref" \in DOMAIN rec.payload
  /\ rec.payload = [name \in DOMAIN rec.payload |-> rec.payload[name]]
  /\ _flip(rec.payload.subject_ref) # rec.payload.subject_ref

ASSUME FixtureAssumption ==
  /\ IntactSource(Fixture.source) /\ Len(Fixture.source.events) > 0
  /\ IsList(Fixture.attestations) /\ Len(Fixture.attestations) > 0
  /\ \A a \in DOMAIN Fixture.attestations :
       IntactRecord(Fixture.source, Fixture.attestations[a])
  /\ Fixture.kernel_verdict = IntactVerdict(Fixture.source, Fixture.attestations)
  /\ TamperPieces(Fixture.attestations[1])
  /\ Alterable(Fixture.source.events[1], Fixture.attestations[1])

\* The source, as it is and with other content, is among the bundles, and an
\* export around one is allowed.
ASSUME CorpusAssumption ==
  /\ MaxNesting > 0
  /\ {Fixture.source, [Fixture.source EXCEPT !.events[1].content = Fixture.other_content]}
       \subseteq Bundles

-----------------------------------------------------------------------------
CorpusInit ==
  /\ \E klass \in Classes :
       LET case == BuildCase(klass) IN bundle = case.source /\ chain = <<case.export>>
  /\ edits = MaxEdits
  /\ Idle

CorpusSpec ==
  (ExportInit \/ CorpusInit) /\ [][ExportNext]_evars /\ WF_evars(CallStep)

-----------------------------------------------------------------------------
\* verdict_record and expected_block, as far as they are not booleans of the
\* wrapper: what failed is in the notes.
verdict_record ==
  [status |-> source_result.status,
   exit   |-> ExitCode(source_result.status, source_result.notes),
   notes  |-> source_result.notes]

\* The call is about the vector of this class.
IsCase(klass) ==
  /\ Len(chain) = 1
  /\ [source |-> bundle, export |-> chain[1]] = BuildCase(klass)

(***************************************************************************)
(* Every export of the corpus, verified offline as the generators do, gets *)
(* the exit code declared for its class; and re-signing isolates: only the *)
(* two classes about the wrapper fail there, and only the one about the    *)
(* linkage fails the linkage.  A class about an attestation, the content   *)
(* or the cached verdict is found by the comparison of the verdicts.       *)
(***************************************************************************)
DeclaredExit ==
  (epc = "done" /\ gateways = <<>> /\ content = NoContent) =>
    \A klass \in Classes :
      IsCase(klass) =>
        /\ verdict_record.exit = EXPECTED_EXIT(klass)
        /\ "wrapper" \in verdict_record.notes <=> klass \in WrapperClasses
        /\ "linkage" \in verdict_record.notes <=> klass = "source-bundle-hash-mismatch"
        /\ "agreement" \in verdict_record.notes <=>
             klass \in AttestationClasses
                       \cup {"verdict-disagreement", "disclosed-content-mismatch"}
=============================================================================
