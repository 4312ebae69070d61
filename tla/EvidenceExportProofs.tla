------------------------- MODULE EvidenceExportProofs -------------------------
(***************************************************************************)
(* Proofs about attested exports, for sources, attestations, nestings and  *)
(* alterations of any size: what a verified export promises, that failures *)
(* and undetermined sources reach the top through all the exports around   *)
(* them, and that composing and verifying agree.                           *)
(***************************************************************************)
EXTENDS ExportCorpus, EvidenceRefinesProofs, WellFoundedInduction

\* A finite sequence, of whatever it holds.
IsSeq(s) == s \in Seq({s[i] : i \in DOMAIN s})

\* Attestation records, and exports of whatever origin.
AreRecords(list) ==
  /\ IsList(list)
  /\ \A i \in DOMAIN list :
       list[i].public_key = [n |-> list[i].public_key.n, e |-> list[i].public_key.e]

IsExport(x) ==
  /\ x = [defects            |-> x.defects,
          inline             |-> x.inline,
          source_bundle_hash |-> x.source_bundle_hash,
          attestations       |-> x.attestations,
          kernel_verdict     |-> x.kernel_verdict,
          checkpoints        |-> x.checkpoints]
  /\ x.defects \subseteq Malforming \cup Tampering \cup {"no fields"}
  /\ x.inline \in BOOLEAN
  /\ AreRecords(x.attestations)

\* The artifacts.
ArtifactsInv ==
  /\ IsSeq(chain)
  /\ \A k \in 1 .. Len(chain) : IsExport(chain[k])
  /\ Len(chain) <= MaxNesting
  /\ edits \in 0 .. MaxEdits
  /\ draft \in AttestationLists \cup {<<>>}

\* The artifacts may also come from anywhere: any exports, nested in each
\* other around any trace, are there when the first call is made.
GivenInit == bundle \in Bundles /\ ArtifactsInv /\ Idle
GivenSpec == GivenInit /\ [][ExportNext]_evars

\* Where the frames stand.
FrameInv ==
  /\ call \in {"compose", "verify"}
  /\ epc \in {"idle", "enter", "trace", "attest", "done"}
  /\ level \in 0 .. Len(chain)
  /\ epc \in {"idle", "done"} => level = 0
  /\ epc = "enter" => level < Len(chain) /\ status = Absent
  /\ epc = "trace" => level = Len(chain)
  /\ epc = "attest" /\ level = 0 => call = "compose"
  /\ epc = "done" => call = "verify"
  /\ call = "compose" /\ epc # "idle" => Len(chain) < MaxNesting
  /\ source_result.status \in Results \cup {Absent}
  /\ epc \in {"attest", "done"} => source_result.status \in Results

\* The results of the running frame are those of its records.
RecordsInv ==
  /\ IsSeq(attestation_results)
  /\ Len(attestation_results) <= Len(Records)
  /\ epc \in {"enter", "trace", "done"} => attestation_results = <<>>
  /\ epc = "attest" =>
       \A i \in 1 .. Len(attestation_results) :
         /\ ~Unparseable(Records[i])
         /\ attestation_results[i] = _verify_attestation(Records[i], level)

\* A frame is entered only past its wrapper.
EnteredInv ==
  epc \in {"enter", "trace", "attest"} =>
    \A k \in 1 .. level : chain[k].defects = {} /\ chain[k].inline

Returned == epc \in {"attest", "done"}

\* What has been returned to the running frame says of the frames below.
VerifiedInv ==
  Returned /\ source_result.status = "verified" =>
    /\ status = "verified"
    /\ \A k \in level + 1 .. Len(chain) : ExportAttested(k)

FailedInv ==
  Returned /\ status \in {"failed", "malformed"} =>
    source_result.status \in {"failed", "malformed"}

PartialInv ==
  Returned /\ source_result.status = "partial" =>
    (source_result.notes \cap UndeterminedMarkers # {}
     <=> exit_code = 3 \/ \E k \in level + 1 .. Len(chain) : ~chain[k].inline)

EInv ==
  /\ IInv /\ ArtifactsInv /\ FrameInv /\ RecordsInv /\ EnteredInv
  /\ VerifiedInv /\ FailedInv /\ PartialInv

-----------------------------------------------------------------------------
(* Calls and the trace.                                                    *)

\* The empty list, and every list of attestations, is one.
LEMMA ListsOfAttestations ==
  ASSUME NEW list \in AttestationLists \cup {<<>>}
  PROVE  AreRecords(list) /\ IsList(list)
BY AttestationsAssumption DEF AreRecords, IsList

\* A step of the exports is a step of the trace, starts a call afresh, or
\* leaves the trace alone.
LEMMA TraceUnderExports ==
  ASSUME bundle \in Bundles, [ExportNext]_evars
  PROVE  [Next]_vars \/ Fresh'
<1>1. CASE StartCompose \/ StartVerify
  <2>1. PICK caller, gws, fetches, side : IsList(gws) /\ Enter(caller, gws, fetches, side)
    <3>1. CASE StartCompose
      BY <3>1, ListsOfAttestations DEF StartCompose, IsList
    <3>2. CASE StartVerify
      BY <3>2, ListsAssumption DEF StartVerify
    <3> QED BY <1>1, <3>1, <3>2
  <2>2. bundle' = bundle /\ gateways' = gws
    BY <2>1 DEF Enter
  <2>3. IsList(gateways)'
    BY <2>1, <2>2 DEF IsList
  <2> QED BY <2>1, <2>2, <2>3 DEF Enter, Fresh
<1>2. CASE TraceStep
  BY <1>2 DEF TraceStep
<1>3. CASE Tamper \/ Reissue
  BY <1>3 DEF Tamper, Reissue, Alter
<1>4. CASE RejectExport \/ MalformedExport \/ SourceByReference \/ TraceReturns
           \/ MalformedAttestation \/ RollupExport
  BY <1>4 DEF RejectExport, MalformedExport, SourceByReference, TraceReturns,
              MalformedAttestation, RollupExport, Answer
<1>5. CASE EnterExport \/ CheckAttestation \/ ComposeThrows \/ FinishCompose
  BY <1>5 DEF EnterExport, CheckAttestation, ComposeThrows, FinishCompose
<1>6. CASE UNCHANGED evars
  BY <1>6 DEF evars
<1> QED BY <1>1, <1>2, <1>3, <1>4, <1>5, <1>6 DEF ExportNext, CallStep

\* Idle is a fresh call, though none was made.
LEMMA InitExportFresh == GivenInit => Fresh
BY ListsOfAttestations DEF GivenInit, Idle, Fresh, IsList

\* What is known of a trace under way is known under exports.
LEMMA NextTrace == IInv /\ [ExportNext]_evars => IInv'
<1>1. IInv => bundle \in Bundles
  BY DEF IInv, TypeInv
<1>2. Fresh' => IInv'
  BY FreshInv, PTL
<1> QED BY <1>1, <1>2, TraceUnderExports, NextInv

\* So are the exact results, and the judgement over them.
LEMMA JudgedInvariance == GivenSpec => []JInv
<1>1. JInv => bundle \in Bundles
  BY DEF JInv, RInv, CInv, IInv, TypeInv
<1>2. Fresh' => JInv'
  BY FreshJudged, PTL
<1>3. JInv /\ [ExportNext]_evars => JInv'
  BY <1>1, <1>2, TraceUnderExports, NextJudged
<1> QED BY <1>3, InitExportFresh, FreshJudged, PTL DEF GivenSpec

-----------------------------------------------------------------------------
(* Frames.                                                                 *)

\* The chain is a finite sequence, and so are the records of every frame.
LEMMA FramesAreLists ==
  ASSUME ArtifactsInv
  PROVE  /\ Len(chain) \in Nat /\ DOMAIN chain = 1 .. Len(chain)
         /\ Len(draft) \in Nat /\ DOMAIN draft = 1 .. Len(draft)
         /\ \A k \in 1 .. Len(chain) :
              /\ Len(chain[k].attestations) \in Nat
              /\ DOMAIN chain[k].attestations = 1 .. Len(chain[k].attestations)
<1>1. Len(chain) \in Nat /\ DOMAIN chain = 1 .. Len(chain)
  BY DEF ArtifactsInv, IsSeq
<1>2. IsList(draft) /\ \A k \in 1 .. Len(chain) : IsList(chain[k].attestations)
  BY ListsOfAttestations DEF ArtifactsInv, IsExport, AreRecords
<1> QED BY <1>1, <1>2 DEF IsList

\* So the running frame is one of them, or the outermost caller.
LEMMA LevelInRange ==
  ASSUME ArtifactsInv, FrameInv
  PROVE  /\ Len(chain) \in Nat /\ level \in Nat /\ level \in 0 .. Len(chain)
         /\ level = 0 \/ level \in 1 .. Len(chain)
<1>1. Len(chain) \in Nat
  BY FramesAreLists
<1>2. level \in 0 .. Len(chain)
  BY DEF FrameInv
<1> QED BY <1>1, <1>2

\* What an export is worth depends on the chain and the trace only.
LEMMA AttestedStable ==
  ASSUME chain' = chain, bundle' = bundle
  PROVE  \A k : ExportAttested(k)' <=> ExportAttested(k)
<1>1. \A k : Source(k)' = Source(k)
  BY DEF Source
<1> QED BY <1>1 DEF ExportAttested, Attested

\* The exit code of the trace depends on its verdict and notes.
LEMMA ExitStable ==
  ASSUME status' = status, notes' = notes
  PROVE  exit_code' = exit_code
BY DEF exit_code, ExitCode, UndeterminedMarkers

\* A return to this frame or the one around it keeps the invariant when what
\* it returns is true of the frames below.
LEMMA AnswerInv ==
  ASSUME EInv, NEW k \in Nat, NEW r, Answer(k, r),
         epc \in {"enter", "trace", "attest"},
         k = level \/ k = level - 1,
         r.status \in Results,
         r.status = "verified" =>
           /\ status = "verified"
           /\ \A j \in k + 1 .. Len(chain) : ExportAttested(j),
         status \in {"failed", "malformed"} => r.status \in {"failed", "malformed"},
         r.status = "partial" =>
           (r.notes \cap UndeterminedMarkers # {}
            <=> exit_code = 3 \/ \E j \in k + 1 .. Len(chain) : ~chain[j].inline)
  PROVE  EInv'
<1>1. /\ chain' = chain /\ edits' = edits /\ call' = call /\ draft' = draft
      /\ level' = k /\ source_result' = r /\ attestation_results' = <<>>
      /\ epc' = IF k = 0 /\ call = "verify" THEN "done" ELSE "attest"
      /\ UNCHANGED vars
  BY DEF Answer, exports
<1>2. bundle' = bundle /\ status' = status /\ notes' = notes
  BY <1>1 DEF vars, args
<1>3. IInv'
  BY <1>1, NextInv DEF EInv
<1>4. ArtifactsInv'
  BY <1>1 DEF EInv, ArtifactsInv, IsSeq, IsExport
<1>5. Len(chain) \in Nat /\ level \in 0 .. Len(chain) /\ k \in 0 .. level
  <2>1. Len(chain) \in Nat /\ level \in 0 .. Len(chain)
    BY FramesAreLists DEF EInv, FrameInv
  <2> QED BY <2>1
<1>6. FrameInv'
  <2>1. epc' \in {"attest", "done"} /\ (epc' = "done" <=> k = 0 /\ call = "verify")
    BY <1>1
  <2>2. call \in {"compose", "verify"}
    BY DEF EInv, FrameInv
  <2>3. source_result'.status \in Results /\ (call = "compose" => Len(chain) < MaxNesting)
    BY <1>1 DEF EInv, FrameInv
  <2>4. level' \in 0 .. Len(chain')
    BY <1>1, <1>5
  <2> QED BY <1>1, <2>1, <2>2, <2>3, <2>4 DEF FrameInv
<1>7. RecordsInv'
  <2>1. Len(Records') \in Nat
    <3>1. Records' = IF k = 0 THEN draft ELSE chain[k].attestations
      BY <1>1 DEF Records
    <3> QED BY <1>5, <3>1, FramesAreLists DEF EInv
  <2>2. Len(attestation_results') = 0 /\ IsSeq(attestation_results)'
    BY <1>1 DEF IsSeq
  <2>3. 1 .. Len(attestation_results') = {}
    BY <2>2
  <2> QED BY <1>1, <2>1, <2>2, <2>3 DEF RecordsInv
<1>8. EnteredInv'
  BY <1>1, <1>5 DEF EInv, EnteredInv
<1>9. VerifiedInv' /\ FailedInv'
  BY <1>1, <1>2, AttestedStable DEF VerifiedInv, FailedInv
<1>10. PartialInv'
  BY <1>1, <1>2, ExitStable DEF PartialInv
<1> QED BY <1>3, <1>4, <1>6, <1>7, <1>8, <1>9, <1>10 DEF EInv
\* A verdict of the wrapper, or of unparseable records, is no softening.
LEMMA RefusalInv ==
  ASSUME EInv, RejectExport \/ MalformedExport \/ MalformedAttestation
  PROVE  EInv'
<1> DEFINE refused(s, new) == NoVerdict(s, new)
<1>1. PICK k, s, new :
        /\ Answer(k, refused(s, new)) /\ s \in {"failed", "malformed"}
        /\ epc \in {"enter", "attest"}
        /\ k = level \/ (k = level - 1 /\ level > 0)
  <2>1. CASE RejectExport
    <3>1. epc = "enter" /\ \/ Answer(level, refused("malformed", {"malformed"}))
                           \/ Answer(level, refused("failed", {"wrapper"}))
      BY <2>1 DEF RejectExport
    <3> QED BY <3>1
  <2>2. CASE MalformedExport
    <3>1. epc = "enter" /\ Answer(level, refused("malformed", {"malformed"}))
      BY <2>2 DEF MalformedExport, Entered
    <3> QED BY <3>1
  <2>3. CASE MalformedAttestation
    BY <2>3 DEF MalformedAttestation, Remaining
  <2> QED BY <2>1, <2>2, <2>3
<1>2. refused(s, new).status = s
  BY DEF NoVerdict
<1>3. k \in Nat /\ s \in Results
  <2>1. level \in Nat
    BY LevelInRange DEF EInv
  <2> QED BY <1>1, <2>1 DEF Results
<1> HIDE DEF refused
<1> QED BY <1>1, <1>2, <1>3, AnswerInv

\* A reference in place of the source is undetermined, with exit code 3.
LEMMA SourceByReferenceInv ==
  ASSUME EInv, SourceByReference
  PROVE  EInv'
<1> DEFINE r == NoVerdict("partial", {"unavailable offline"})
<1>1. /\ Answer(level, r) /\ epc = "enter" /\ ~chain[level + 1].inline
      /\ r.status = "partial" /\ r.notes = {"unavailable offline"}
  BY DEF SourceByReference, Entered, Inner, NoVerdict
<1>2. /\ level \in Nat /\ level + 1 \in level + 1 .. Len(chain)
      /\ status = Absent
  <2>1. /\ Len(chain) \in Nat /\ level \in 0 .. Len(chain)
        /\ level < Len(chain) /\ status = Absent
    BY <1>1, FramesAreLists DEF EInv, FrameInv
  <2> QED BY <2>1
<1>3. /\ r.notes \cap UndeterminedMarkers # {}
      /\ \E j \in level + 1 .. Len(chain) : ~chain[j].inline
  BY <1>1, <1>2 DEF UndeterminedMarkers
<1>4. status \notin {"failed", "malformed"} /\ r.status \in Results /\ r.status # "verified"
  BY <1>1, <1>2, AbsentAssumption DEF Results
<1> HIDE DEF r
<1> QED BY <1>1, <1>2, <1>3, <1>4, AnswerInv

\* The trace returns its own verdict.
LEMMA TraceReturnsInv ==
  ASSUME EInv, TraceReturns
  PROVE  EInv'
<1> DEFINE cps == [i \in DOMAIN checkpoint_results |-> CheckpointVerdict(i)]
           evs == [i \in DOMAIN event_results |-> EventVerdict(i)]
           r == [status |-> status, checkpoints |-> cps, events |-> evs, notes |-> notes]
<1>1. Answer(level, r) /\ epc = "trace" /\ pc = "done"
  BY DEF TraceReturns
<1>2. r.status = status /\ r.notes = notes
  OBVIOUS
<1> HIDE DEF r
<1>3. level \in Nat /\ level + 1 .. Len(chain) = {}
  <2>1. level = Len(chain) /\ Len(chain) \in Nat
    BY <1>1, FramesAreLists DEF EInv, FrameInv
  <2> QED BY <2>1
<1>4. status \in Results
  BY <1>1 DEF EInv, IInv, TypeInv
<1>5. status = "partial" => (notes \cap UndeterminedMarkers # {} <=> exit_code = 3)
  BY DEF exit_code, ExitCode
<1> QED BY <1>1, <1>2, <1>3, <1>4, <1>5, AnswerInv

\* The rollup is "verified" only for a verified source, sound attestations,
\* and a wrapper that says what was found; and it softens no failure.
LEMMA RollupCases ==
  ASSUME source_result.status \in Results
  PROVE  /\ SourceRollup \in Results
         /\ SourceRollup = "verified" =>
              source_result.status = "verified" /\ ~AnyAttestationFailed
         /\ source_result.status \in {"failed", "malformed"} => SourceRollup = "failed"
         /\ SourceRollup = "partial" =>
              source_result.status = "partial" /\ ~AnyAttestationFailed
BY DEF SourceRollup, Results
\* An attestation that passes its three checks is what Attested asks for.
LEMMA OkMeansAttested ==
  ASSUME NEW rec, NEW k,
         rec.public_key = [n |-> rec.public_key.n, e |-> rec.public_key.e],
         _verify_attestation(rec, k).ok
  PROVE  Attested(rec, k)
<1>1. /\ verify_rsa_pss_sha256(rec)
      /\ rec.payload.operator = OperatorAddress(rec.public_key.n)
      /\ DataHashBound(rec, k)
  BY DEF _verify_attestation
<1>2. rec.signature =
        SignatureBy([n |-> rec.public_key.n, e |-> RSA_PUBLIC_EXPONENT], rec.payload)
  BY <1>1 DEF verify_rsa_pss_sha256
<1>3. \E i \in DOMAIN Source(k).checkpoints :
        /\ Source(k).checkpoints[i].tx_id = NamedTx(rec)
        /\ rec.payload.data_hash = Sha256(Source(k).checkpoints[i].envelope)
  BY <1>1 DEF DataHashBound, Listed
<1> QED BY <1>1, <1>2, <1>3 DEF Attested

\* When none of a frame's attestations failed, all its records are attested.
LEMMA AllAttested ==
  ASSUME EInv, epc = "attest", level > 0,
         Len(attestation_results) = Len(Records), ~AnyAttestationFailed
  PROVE  \A a \in DOMAIN chain[level].attestations : Attested(chain[level].attestations[a], level)
<1> SUFFICES ASSUME NEW a \in DOMAIN chain[level].attestations
             PROVE  Attested(chain[level].attestations[a], level)
  OBVIOUS
<1>1. Records = chain[level].attestations
  BY DEF Records
<1>2. level \in 1 .. Len(chain)
  <2>1. Len(chain) \in Nat /\ level \in 0 .. Len(chain)
    BY FramesAreLists DEF EInv, FrameInv
  <2> QED BY <2>1
<1>3. /\ a \in 1 .. Len(attestation_results)
      /\ DOMAIN attestation_results = 1 .. Len(attestation_results)
  <2>1. DOMAIN attestation_results = 1 .. Len(attestation_results)
    BY DEF EInv, RecordsInv, IsSeq
  <2> QED BY <1>1, <1>2, <2>1, FramesAreLists DEF EInv
<1>4. _verify_attestation(Records[a], level).ok
  BY <1>3 DEF EInv, RecordsInv, AnyAttestationFailed
<1>5. Records[a].public_key = [n |-> Records[a].public_key.n, e |-> Records[a].public_key.e]
  <2>1. AreRecords(chain[level].attestations)
    BY <1>2 DEF EInv, ArtifactsInv, IsExport
  <2> QED BY <1>1, <2>1 DEF AreRecords
<1> QED BY <1>1, <1>4, <1>5, OkMeansAttested

\* The rollup of a frame.
LEMMA RollupInv ==
  ASSUME EInv, RollupExport
  PROVE  EInv'
<1> DEFINE s == IF LinkageOk /\ AgreementOk THEN SourceRollup ELSE "failed"
           new == source_result.notes
                    \cup (IF LinkageOk THEN {} ELSE {"linkage"})
                    \cup (IF AgreementOk THEN {} ELSE {"agreement"})
           r == [status |-> s, checkpoints |-> source_result.checkpoints,
                 events |-> source_result.events, notes |-> new]
<1>1. /\ Answer(level - 1, r) /\ epc = "attest" /\ level > 0
      /\ Len(attestation_results) = Len(Records)
  BY DEF RollupExport
<1>2. r.status = s /\ r.notes = new
  OBVIOUS
<1>3. /\ source_result.status \in Results
      /\ level \in 1 .. Len(chain) /\ level - 1 \in Nat /\ Len(chain) \in Nat
  <2>1. source_result.status \in Results
    BY <1>1 DEF EInv, FrameInv
  <2>2. Len(chain) \in Nat /\ level \in 0 .. Len(chain)
    BY FramesAreLists DEF EInv, FrameInv
  <2> QED BY <1>1, <2>1, <2>2
<1>4. chain[level].defects = {} /\ chain[level].inline
  BY <1>1, <1>3 DEF EInv, EnteredInv
<1>5. s \in Results
  BY <1>3, RollupCases DEF Results
<1>6. ASSUME s = "verified"
      PROVE  /\ status = "verified"
             /\ \A j \in (level - 1) + 1 .. Len(chain) : ExportAttested(j)
  <2>1. LinkageOk /\ source_result.status = "verified" /\ ~AnyAttestationFailed
    BY <1>3, <1>6, RollupCases
  <2>2. status = "verified" /\ \A j \in level + 1 .. Len(chain) : ExportAttested(j)
    BY <1>1, <2>1 DEF EInv, VerifiedInv, Returned
  <2>3. ExportAttested(level)
    BY <1>1, <1>4, <2>1, AllAttested DEF ExportAttested, LinkageOk
  <2> QED BY <1>3, <2>2, <2>3
<1>7. status \in {"failed", "malformed"} => s \in {"failed", "malformed"}
  BY <1>1, <1>3, RollupCases DEF EInv, FailedInv, Returned
<1>8. ASSUME s = "partial"
      PROVE  new \cap UndeterminedMarkers # {}
             <=> exit_code = 3 \/ \E j \in (level - 1) + 1 .. Len(chain) : ~chain[j].inline
  <2>1. LinkageOk /\ AgreementOk /\ source_result.status = "partial"
    BY <1>3, <1>8, RollupCases
  <2>2. new = source_result.notes
    BY <2>1
  <2>3. source_result.notes \cap UndeterminedMarkers # {}
        <=> exit_code = 3 \/ \E j \in level + 1 .. Len(chain) : ~chain[j].inline
    BY <1>1, <2>1 DEF EInv, PartialInv, Returned
  <2> HIDE DEF new
  <2>4. (\E j \in level + 1 .. Len(chain) : ~chain[j].inline)
        <=> \E j \in (level - 1) + 1 .. Len(chain) : ~chain[j].inline
    BY <1>3, <1>4
  <2> QED BY <2>2, <2>3, <2>4
<1> HIDE DEF s, new, r
<1> QED BY <1>1, <1>2, <1>3, <1>5, <1>6, <1>7, <1>8, AnswerInv
-----------------------------------------------------------------------------
(* The other steps.                                                        *)

\* A sequence over any set is a sequence of its own elements.
LEMMA OwnElements ==
  ASSUME NEW S, NEW s \in Seq(S)
  PROVE  IsSeq(s)
BY DEF IsSeq

\* Appending to, prepending to and replacing in a sequence.
LEMMA Appended ==
  ASSUME NEW s, IsSeq(s), NEW x
  PROVE  /\ IsSeq(Append(s, x))
         /\ Len(s) \in Nat /\ Len(Append(s, x)) = Len(s) + 1
         /\ Append(s, x)[Len(s) + 1] = x
         /\ \A i \in 1 .. Len(s) : Append(s, x)[i] = s[i]
<1> DEFINE S == {s[i] : i \in DOMAIN s} \cup {x}
<1>1. s \in Seq(S) /\ x \in S
  BY DEF IsSeq
<1> HIDE DEF S
<1>2. Append(s, x) \in Seq(S) /\ Len(s) \in Nat /\ Len(Append(s, x)) = Len(s) + 1
  BY <1>1
<1>3. /\ Append(s, x)[Len(s) + 1] = x
      /\ \A i \in 1 .. Len(s) : Append(s, x)[i] = s[i]
  BY <1>1
<1> QED BY <1>2, <1>3, OwnElements

LEMMA Prepended ==
  ASSUME NEW s, IsSeq(s), NEW x
  PROVE  /\ IsSeq(<<x>> \o s)
         /\ Len(s) \in Nat /\ Len(<<x>> \o s) = Len(s) + 1
         /\ (<<x>> \o s)[1] = x
         /\ \A i \in 1 .. Len(s) : (<<x>> \o s)[i + 1] = s[i]
<1> DEFINE S == {s[i] : i \in DOMAIN s} \cup {x}
<1>1. s \in Seq(S) /\ x \in S
  BY DEF IsSeq
<1> HIDE DEF S
<1>2. <<x>> \in Seq(S) /\ Len(<<x>>) = 1 /\ <<x>>[1] = x
  BY <1>1
<1>3. <<x>> \o s \in Seq(S)
  BY <1>1, <1>2
<1>4. Len(s) \in Nat /\ Len(<<x>> \o s) = Len(s) + 1
  BY <1>1, <1>2
<1>5. (<<x>> \o s)[1] = x /\ \A i \in 1 .. Len(s) : (<<x>> \o s)[i + 1] = s[i]
  BY <1>1, <1>2, <1>4
<1> QED BY <1>3, <1>4, <1>5, OwnElements

LEMMA Replaced ==
  ASSUME NEW s, IsSeq(s), NEW i \in DOMAIN s, NEW x
  PROVE  /\ IsSeq([s EXCEPT ![i] = x])
         /\ Len([s EXCEPT ![i] = x]) = Len(s)
         /\ DOMAIN s = 1 .. Len(s)
<1> DEFINE S == {s[j] : j \in DOMAIN s} \cup {x}
<1>1. s \in Seq(S) /\ x \in S
  BY DEF IsSeq
<1> HIDE DEF S
<1>2. [s EXCEPT ![i] = x] \in Seq(S) /\ Len([s EXCEPT ![i] = x]) = Len(s)
  BY <1>1
<1>3. IsSeq([s EXCEPT ![i] = x])
  BY <1>2, OwnElements
<1> QED BY <1>1, <1>2, <1>3

\* A call starts: nothing has been returned, no frame entered.
LEMMA EnterInv ==
  ASSUME EInv, StartCompose \/ StartVerify
  PROVE  EInv'
<1>1. PICK caller, gws, fetches, side :
        /\ caller \in {"compose", "verify"} /\ Enter(caller, gws, fetches, side)
        /\ draft' \in AttestationLists \cup {<<>>}
        /\ caller = "compose" => Len(chain) < MaxNesting
  <2>1. CASE StartCompose
    BY <2>1 DEF StartCompose
  <2>2. CASE StartVerify
    BY <2>2 DEF StartVerify
  <2> QED BY <2>1, <2>2
<1>2. /\ chain' = chain /\ edits' = edits /\ call' = caller /\ level' = 0
      /\ status' = Absent /\ source_result' = NoResult /\ attestation_results' = <<>>
      /\ epc' = IF chain = <<>> THEN "trace" ELSE "enter"
  BY <1>1 DEF Enter, exports
<1>3. IInv'
  <2>1. bundle \in Bundles
    BY DEF EInv, IInv, TypeInv
  <2>2. [ExportNext]_evars
    BY DEF ExportNext
  <2> QED BY <2>2, NextTrace DEF EInv
<1>4. ArtifactsInv'
  BY <1>1, <1>2 DEF EInv, ArtifactsInv, IsSeq, IsExport
<1>5. Len(chain) \in Nat /\ (chain = <<>> <=> Len(chain) = 0)
  BY DEF EInv, ArtifactsInv, IsSeq
<1>6. FrameInv'
  BY <1>1, <1>2, <1>5 DEF FrameInv, NoResult
<1>7. RecordsInv'
  <2>1. Records' = draft'
    BY <1>2 DEF Records
  <2>2. Len(draft') \in Nat
    BY <1>1, ListsOfAttestations DEF IsList
  <2>3. Len(attestation_results') = 0 /\ IsSeq(attestation_results)'
    BY <1>2 DEF IsSeq
  <2> QED BY <1>2, <2>1, <2>2, <2>3 DEF RecordsInv
<1>8. EnteredInv'
  <2>1. 1 .. level' = {}
    BY <1>2
  <2> QED BY <2>1 DEF EnteredInv
<1>9. VerifiedInv' /\ FailedInv' /\ PartialInv'
  BY <1>2 DEF VerifiedInv, FailedInv, PartialInv, Returned
<1> QED BY <1>3, <1>4, <1>6, <1>7, <1>8, <1>9 DEF EInv

\* The call on the inline source of an export that passed its wrapper.
LEMMA EnterExportInv ==
  ASSUME EInv, EnterExport
  PROVE  EInv'
<1>1. /\ epc = "enter" /\ chain[level + 1].inline
      /\ chain[level + 1].defects \cap (Malforming \cup Tampering) = {}
      /\ "no fields" \notin chain[level + 1].defects
      /\ level' = level + 1
      /\ epc' = IF level + 1 = Len(chain) THEN "trace" ELSE "enter"
      /\ chain' = chain /\ edits' = edits /\ call' = call /\ draft' = draft
      /\ source_result' = source_result /\ attestation_results' = attestation_results
      /\ UNCHANGED vars
  BY DEF EnterExport, Entered, Inner, exports
<1>2. bundle' = bundle /\ status' = status
  BY <1>1 DEF vars, args
<1>3. IInv'
  BY <1>1, NextInv DEF EInv
<1>4. ArtifactsInv'
  BY <1>1 DEF EInv, ArtifactsInv, IsSeq, IsExport
<1>5. /\ Len(chain) \in Nat /\ level \in 0 .. Len(chain) /\ level < Len(chain)
      /\ level + 1 \in 1 .. Len(chain)
  <2>1. Len(chain) \in Nat /\ level \in 0 .. Len(chain) /\ level < Len(chain)
    BY <1>1, FramesAreLists DEF EInv, FrameInv
  <2> QED BY <2>1
<1>6. chain[level + 1].defects = {}
  <2>1. chain[level + 1].defects \subseteq Malforming \cup Tampering \cup {"no fields"}
    BY <1>5 DEF EInv, ArtifactsInv, IsExport
  <2> QED BY <1>1, <2>1
<1>7. FrameInv'
  <2>1. epc' \in {"trace", "enter"} /\ (epc' = "trace" <=> level + 1 = Len(chain))
    BY <1>1
  <2>2. status = Absent
    BY <1>1 DEF EInv, FrameInv
  <2>3. level' \in 0 .. Len(chain') /\ (epc' = "enter" => level' < Len(chain'))
    <3>1. level + 1 \in 0 .. Len(chain) /\ (level + 1 # Len(chain) => level + 1 < Len(chain))
      BY <1>5
    <3> QED BY <1>1, <2>1, <3>1
  <2> QED BY <1>1, <1>2, <2>1, <2>2, <2>3 DEF EInv, FrameInv
<1>8. RecordsInv'
  <2>1. attestation_results' = <<>>
    BY <1>1 DEF EInv, RecordsInv
  <2>2. Len(attestation_results') = 0 /\ IsSeq(attestation_results)'
    BY <2>1 DEF IsSeq
  <2>3. Len(Records') \in Nat
    <3>1. Records' = chain[level + 1].attestations
      <4>1. level + 1 # 0
        BY <1>5
      <4> QED BY <1>1, <4>1 DEF Records
    <3> QED BY <1>5, <3>1, FramesAreLists DEF EInv
  <2>4. epc' # "attest"
    BY <1>1
  <2> QED BY <2>1, <2>2, <2>3, <2>4 DEF RecordsInv
<1>9. EnteredInv'
  <2>1. \A k \in 1 .. level + 1 : k \in 1 .. level \/ k = level + 1
    BY <1>5
  <2> QED BY <1>1, <1>6, <2>1 DEF EInv, EnteredInv
<1>10. VerifiedInv' /\ FailedInv' /\ PartialInv'
  BY <1>1 DEF VerifiedInv, FailedInv, PartialInv, Returned
<1> QED BY <1>3, <1>4, <1>7, <1>8, <1>9, <1>10 DEF EInv
\* What an attestation is found to be depends on the chain and the trace.
LEMMA VerifyStable ==
  ASSUME chain' = chain, bundle' = bundle
  PROVE  \A rec, k : _verify_attestation(rec, k)' = _verify_attestation(rec, k)
<1>1. \A k : Source(k)' = Source(k)
  BY DEF Source
<1>2. \A tx, k : Listed(tx, k)' = Listed(tx, k)
  BY <1>1 DEF Listed
<1>3. \A rec, k : DataHashBound(rec, k)' <=> DataHashBound(rec, k)
  BY <1>1, <1>2 DEF DataHashBound
<1> QED BY <1>3 DEF _verify_attestation

\* The trace runs below all exports.
LEMMA TraceStepInv ==
  ASSUME EInv, TraceStep
  PROVE  EInv'
<1>1. /\ epc = "trace" /\ epc' = epc
      /\ chain' = chain /\ edits' = edits /\ call' = call /\ level' = level /\ draft' = draft
      /\ source_result' = source_result /\ attestation_results' = attestation_results
  BY DEF TraceStep, exports, frame
<1>2. IInv'
  BY NextInv DEF EInv, TraceStep
<1>3. ArtifactsInv' /\ FrameInv'
  BY <1>1 DEF EInv, ArtifactsInv, FrameInv, IsSeq, IsExport
<1>4. RecordsInv' /\ EnteredInv'
  BY <1>1 DEF EInv, RecordsInv, EnteredInv, IsSeq, Records
<1>5. VerifiedInv' /\ FailedInv' /\ PartialInv'
  BY <1>1 DEF VerifiedInv, FailedInv, PartialInv, Returned
<1> QED BY <1>2, <1>3, <1>4, <1>5 DEF EInv

\* One attestation is checked.
LEMMA CheckAttestationInv ==
  ASSUME EInv, CheckAttestation
  PROVE  EInv'
<1> DEFINE n == Len(attestation_results)
           x == _verify_attestation(NextRecord, level)
<1>1. /\ epc = "attest" /\ n < Len(Records)
      /\ ~Unparseable(NextRecord)
      /\ attestation_results' = Append(attestation_results, x)
      /\ chain' = chain /\ edits' = edits /\ call' = call /\ level' = level /\ draft' = draft
      /\ epc' = epc /\ source_result' = source_result /\ UNCHANGED vars
  BY DEF CheckAttestation, Remaining, exports, frame
<1>2. bundle' = bundle /\ status' = status /\ notes' = notes
  BY <1>1 DEF vars, args
<1>3. IInv'
  BY <1>1, NextInv DEF EInv
<1>4. ArtifactsInv'
  BY <1>1 DEF EInv, ArtifactsInv, IsSeq, IsExport
<1>5. FrameInv' /\ EnteredInv'
  BY <1>1, <1>2 DEF EInv, FrameInv, EnteredInv
<1>6. RecordsInv'
  <2>1. x = _verify_attestation(Records[n + 1], level) /\ NextRecord = Records[n + 1]
    BY DEF NextRecord
  <2> HIDE DEF x
  <2>2. /\ IsSeq(attestation_results') /\ n \in Nat /\ Len(attestation_results') = n + 1
        /\ attestation_results'[n + 1] = x
        /\ \A i \in 1 .. n : attestation_results'[i] = attestation_results[i]
    BY <1>1, Appended DEF EInv, RecordsInv
  <2>3. Records' = Records /\ Len(Records) \in Nat
    <3>1. Records' = Records
      BY <1>1 DEF Records
    <3>2. level \in 1 .. Len(chain) \/ level = 0
      BY LevelInRange DEF EInv
    <3> QED BY <3>1, <3>2, FramesAreLists DEF EInv, Records
  <2>4. Len(attestation_results') <= Len(Records')
    BY <1>1, <2>2, <2>3
  <2>5. ASSUME NEW i \in 1 .. Len(attestation_results')
        PROVE  /\ ~Unparseable(Records[i])
               /\ attestation_results'[i] = _verify_attestation(Records[i], level)
    <3>1. CASE i = n + 1
      BY <1>1, <2>1, <2>2, <3>1
    <3>2. CASE i # n + 1
      <4>1. i \in 1 .. n
        BY <2>2, <3>2
      <4> QED BY <1>1, <2>2, <4>1 DEF EInv, RecordsInv
    <3> QED BY <3>1, <3>2
  <2>6. IsSeq(attestation_results)'
    BY <2>2 DEF IsSeq
  <2>7. \A i \in 1 .. Len(attestation_results') :
          attestation_results'[i] = _verify_attestation(Records[i], level)'
    BY <1>1, <1>2, <2>3, <2>5, VerifyStable
  <2>8. \A i \in 1 .. Len(attestation_results') : ~Unparseable(Records[i])'
    BY <2>3, <2>5 DEF Unparseable
  <2> QED BY <1>1, <2>4, <2>6, <2>7, <2>8 DEF RecordsInv
<1>7. VerifiedInv' /\ FailedInv' /\ PartialInv'
  BY <1>1, <1>2, AttestedStable, ExitStable
  DEF EInv, VerifiedInv, FailedInv, PartialInv, Returned
<1> QED BY <1>3, <1>4, <1>5, <1>6, <1>7 DEF EInv
\* An artifact is written, or none, and the composer is idle again.
LEMMA ComposedInv ==
  ASSUME EInv, ComposeThrows \/ FinishCompose
  PROVE  EInv'
<1>1. /\ epc = "attest" /\ level = 0 /\ epc' = "idle"
      /\ edits' = edits /\ call' = call /\ level' = level /\ draft' = draft
      /\ source_result' = source_result /\ attestation_results' = attestation_results
      /\ UNCHANGED vars
  BY DEF ComposeThrows, FinishCompose, Remaining, exports, frame
<1>2. IInv'
  BY <1>1, NextInv DEF EInv
<1>3. ArtifactsInv' /\ Len(chain') \in Nat
  <2>1. CASE ComposeThrows
    <3>1. chain' = chain
      BY <2>1 DEF ComposeThrows, exports
    <3> QED BY <1>1, <3>1, FramesAreLists DEF EInv, ArtifactsInv, IsSeq, IsExport
  <2>2. CASE FinishCompose
    <3> DEFINE x == [defects            |-> {},
                     inline             |-> TRUE,
                     source_bundle_hash |-> Sha256(Source(0)),
                     attestations       |-> draft,
                     kernel_verdict     |-> BuildVerdict(SourceRollup),
                     checkpoints        |-> <<>>]
    <3>1. chain' = <<x>> \o chain
      BY <2>2 DEF FinishCompose
    <3>2. IsExport(x)
      BY ListsOfAttestations DEF EInv, ArtifactsInv, IsExport
    <3> HIDE DEF x
    <3>3. /\ IsSeq(chain') /\ Len(chain) \in Nat /\ Len(chain') = Len(chain) + 1
          /\ chain'[1] = x /\ \A i \in 1 .. Len(chain) : chain'[i + 1] = chain[i]
      BY <3>1, Prepended DEF EInv, ArtifactsInv
    <3>4. Len(chain') <= MaxNesting
      <4>1. Len(chain) < MaxNesting
        BY <1>1 DEF EInv, FrameInv
      <4> QED BY <3>3, <4>1, BoundsAssumption
    <3>5. ASSUME NEW k \in 1 .. Len(chain')
          PROVE  IsExport(chain'[k])
      <4>1. CASE k = 1
        BY <3>2, <3>3, <4>1
      <4>2. CASE k # 1
        <5>1. k - 1 \in 1 .. Len(chain) /\ (k - 1) + 1 = k
          BY <3>3, <4>2
        <5>2. chain'[k] = chain[k - 1]
          BY <3>3, <5>1
        <5> QED BY <5>1, <5>2 DEF EInv, ArtifactsInv
      <4> QED BY <4>1, <4>2
    <3>6. IsSeq(chain)' /\ \A k \in 1 .. Len(chain') : IsExport(chain[k])'
      BY <3>3, <3>5 DEF IsSeq, IsExport
    <3> QED BY <1>1, <3>3, <3>4, <3>6 DEF EInv, ArtifactsInv
  <2> QED BY <2>1, <2>2
<1>4. FrameInv'
  <2>1. level' \in 0 .. Len(chain')
    BY <1>1, <1>3
  <2> QED BY <1>1, <2>1 DEF EInv, FrameInv
<1>5. RecordsInv' /\ EnteredInv'
  <2>1. Records' = Records
    BY <1>1 DEF Records
  <2> QED BY <1>1, <2>1 DEF EInv, RecordsInv, EnteredInv, IsSeq
<1>6. VerifiedInv' /\ FailedInv' /\ PartialInv'
  BY <1>1 DEF VerifiedInv, FailedInv, PartialInv, Returned
<1> QED BY <1>2, <1>3, <1>4, <1>5, <1>6 DEF EInv

\* Whatever becomes of the outermost export, it is still one.
LEMMA AlterInv ==
  ASSUME EInv, NEW x, Alter(x), IsExport(x), chain # <<>>
  PROVE  EInv'
<1>1. /\ epc = "idle" /\ epc' = epc /\ edits < MaxEdits /\ edits' = edits + 1
      /\ chain' = [chain EXCEPT ![1] = x]
      /\ call' = call /\ level' = level /\ draft' = draft
      /\ source_result' = source_result /\ attestation_results' = attestation_results
      /\ UNCHANGED vars
  BY DEF Alter, frame
<1>2. IInv'
  BY <1>1, NextInv DEF EInv
<1>3. /\ 1 \in DOMAIN chain /\ DOMAIN chain = 1 .. Len(chain) /\ level = 0
      /\ IsSeq(chain') /\ Len(chain') = Len(chain) /\ Len(chain) \in Nat
  <2>1. 1 \in DOMAIN chain /\ DOMAIN chain = 1 .. Len(chain) /\ Len(chain) \in Nat
    BY DEF EInv, ArtifactsInv, IsSeq
  <2>2. level = 0
    BY <1>1 DEF EInv, FrameInv
  <2> QED BY <1>1, <2>1, <2>2, Replaced DEF EInv, ArtifactsInv
<1>4. ArtifactsInv'
  <2>1. \A k \in 1 .. Len(chain') : IsExport(chain'[k])
    <3>1. \A k \in 1 .. Len(chain) : chain'[k] = IF k = 1 THEN x ELSE chain[k]
      BY <1>1, <1>3
    <3> QED BY <1>3, <3>1 DEF EInv, ArtifactsInv
  <2>2. IsSeq(chain)' /\ \A k \in 1 .. Len(chain') : IsExport(chain[k])'
    BY <1>3, <2>1 DEF IsSeq, IsExport
  <2>3. edits' \in 0 .. MaxEdits
    <3>1. edits \in 0 .. MaxEdits
      BY DEF EInv, ArtifactsInv
    <3> QED BY <1>1, <3>1, BoundsAssumption
  <2> QED BY <1>1, <1>3, <2>2, <2>3 DEF EInv, ArtifactsInv
<1>5. FrameInv' /\ EnteredInv'
  BY <1>1, <1>3 DEF EInv, FrameInv, EnteredInv
<1>6. RecordsInv'
  <2>1. Records' = Records
    BY <1>1, <1>3 DEF Records
  <2> QED BY <1>1, <2>1 DEF EInv, RecordsInv, IsSeq
<1>7. VerifiedInv' /\ FailedInv' /\ PartialInv'
  BY <1>1 DEF VerifiedInv, FailedInv, PartialInv, Returned
<1> QED BY <1>2, <1>4, <1>5, <1>6, <1>7 DEF EInv

\* An export with another value in one of its fields is an export.
LEMMA WithField ==
  ASSUME NEW e, IsExport(e), NEW v
  PROVE  /\ v \subseteq ExportDefects => IsExport([e EXCEPT !.defects = v])
         /\ v \in BOOLEAN => IsExport([e EXCEPT !.inline = v])
         /\ IsExport([e EXCEPT !.source_bundle_hash = v])
         /\ v \in AttestationLists => IsExport([e EXCEPT !.attestations = v])
         /\ IsExport([e EXCEPT !.kernel_verdict = v])
         /\ IsExport([e EXCEPT !.checkpoints = v])
<1>1. DOMAIN e = {"defects", "inline", "source_bundle_hash", "attestations", "kernel_verdict",
                  "checkpoints"}
  BY DEF IsExport
<1>2. v \subseteq ExportDefects => IsExport([e EXCEPT !.defects = v])
  <2> DEFINE y == [e EXCEPT !.defects = v]
  <2>1. /\ y = [defects            |-> y.defects,
                inline             |-> y.inline,
                source_bundle_hash |-> y.source_bundle_hash,
                attestations       |-> y.attestations,
                kernel_verdict     |-> y.kernel_verdict,
                checkpoints        |-> y.checkpoints]
        /\ y.defects = v
        /\ y.inline = e.inline
        /\ y.attestations = e.attestations
    BY <1>1
  <2> HIDE DEF y
  <2>2. v \subseteq ExportDefects => IsExport(y)
    BY <2>1, ExportDefectsAssumption DEF IsExport
  <2> QED BY <2>2 DEF y
<1>3. v \in BOOLEAN => IsExport([e EXCEPT !.inline = v])
  <2> DEFINE y == [e EXCEPT !.inline = v]
  <2>1. /\ y = [defects            |-> y.defects,
                inline             |-> y.inline,
                source_bundle_hash |-> y.source_bundle_hash,
                attestations       |-> y.attestations,
                kernel_verdict     |-> y.kernel_verdict,
                checkpoints        |-> y.checkpoints]
        /\ y.inline = v
        /\ y.defects = e.defects
        /\ y.attestations = e.attestations
    BY <1>1
  <2> HIDE DEF y
  <2>2. v \in BOOLEAN => IsExport(y)
    BY <2>1 DEF IsExport
  <2> QED BY <2>2 DEF y
<1>4. IsExport([e EXCEPT !.source_bundle_hash = v])
  <2> DEFINE y == [e EXCEPT !.source_bundle_hash = v]
  <2>1. /\ y = [defects            |-> y.defects,
                inline             |-> y.inline,
                source_bundle_hash |-> y.source_bundle_hash,
                attestations       |-> y.attestations,
                kernel_verdict     |-> y.kernel_verdict,
                checkpoints        |-> y.checkpoints]
        /\ y.source_bundle_hash = v
        /\ y.defects = e.defects
        /\ y.inline = e.inline
        /\ y.attestations = e.attestations
    BY <1>1
  <2> HIDE DEF y
  <2>2. IsExport(y)
    BY <2>1 DEF IsExport
  <2> QED BY <2>2 DEF y
<1>5. v \in AttestationLists => IsExport([e EXCEPT !.attestations = v])
  <2> DEFINE y == [e EXCEPT !.attestations = v]
  <2>1. /\ y = [defects            |-> y.defects,
                inline             |-> y.inline,
                source_bundle_hash |-> y.source_bundle_hash,
                attestations       |-> y.attestations,
                kernel_verdict     |-> y.kernel_verdict,
                checkpoints        |-> y.checkpoints]
        /\ y.attestations = v
        /\ y.defects = e.defects
        /\ y.inline = e.inline
    BY <1>1
  <2> HIDE DEF y
  <2>2. v \in AttestationLists => IsExport(y)
    BY <2>1, ListsOfAttestations DEF IsExport
  <2> QED BY <2>2 DEF y
<1>6. IsExport([e EXCEPT !.kernel_verdict = v])
  <2> DEFINE y == [e EXCEPT !.kernel_verdict = v]
  <2>1. /\ y = [defects            |-> y.defects,
                inline             |-> y.inline,
                source_bundle_hash |-> y.source_bundle_hash,
                attestations       |-> y.attestations,
                kernel_verdict     |-> y.kernel_verdict,
                checkpoints        |-> y.checkpoints]
        /\ y.kernel_verdict = v
        /\ y.defects = e.defects
        /\ y.inline = e.inline
        /\ y.attestations = e.attestations
    BY <1>1
  <2> HIDE DEF y
  <2>2. IsExport(y)
    BY <2>1 DEF IsExport
  <2> QED BY <2>2 DEF y
<1>7. IsExport([e EXCEPT !.checkpoints = v])
  <2> DEFINE y == [e EXCEPT !.checkpoints = v]
  <2>1. /\ y = [defects            |-> y.defects,
                inline             |-> y.inline,
                source_bundle_hash |-> y.source_bundle_hash,
                attestations       |-> y.attestations,
                kernel_verdict     |-> y.kernel_verdict,
                checkpoints        |-> y.checkpoints]
        /\ y.checkpoints = v
        /\ y.defects = e.defects
        /\ y.inline = e.inline
        /\ y.attestations = e.attestations
    BY <1>1
  <2> HIDE DEF y
  <2>2. IsExport(y)
    BY <2>1 DEF IsExport
  <2> QED BY <2>2 DEF y
<1> QED BY <1>2, <1>3, <1>4, <1>5, <1>6, <1>7

\* Tampering and reissuing are such alterations.
LEMMA AlterationInv ==
  ASSUME EInv, Tamper \/ Reissue
  PROVE  EInv'
<1> DEFINE e == chain[1]
<1>1. chain # <<>>
  BY DEF Tamper, Reissue
<1>2. IsExport(e)
  BY <1>1 DEF EInv, ArtifactsInv, IsSeq
<1> SUFFICES \E x : Alter(x) /\ IsExport(x)
  BY <1>1, AlterInv
<1>3. CASE Tamper
  <2>1. PICK d \in ExportDefects : Alter([e EXCEPT !.defects = {d}])
    BY <1>3 DEF Tamper
  <2>2. {d} \subseteq ExportDefects
    OBVIOUS
  <2> HIDE DEF e
  <2> QED BY <1>2, <2>1, <2>2, WithField
<1>4. CASE Reissue
  <2>1. \/ \E v : Alter([e EXCEPT !.kernel_verdict = v])
        \/ \E list \in AttestationLists : Alter([e EXCEPT !.attestations = list])
        \/ \E v : Alter([e EXCEPT !.source_bundle_hash = v])
        \/ \E v \in BOOLEAN : Alter([e EXCEPT !.inline = v])
        \/ \E v : Alter([e EXCEPT !.checkpoints = v])
    BY <1>4 DEF Reissue
  <2> HIDE DEF e
  <2> QED BY <1>2, <2>1, WithField
<1> QED BY <1>3, <1>4

\* Every step keeps the invariant.
LEMMA NextExportInv == EInv /\ [ExportNext]_evars => EInv'
<1> SUFFICES ASSUME EInv, [ExportNext]_evars PROVE EInv'
  OBVIOUS
<1>1. CASE UNCHANGED evars
  <2>1. /\ chain' = chain /\ edits' = edits /\ call' = call /\ level' = level /\ draft' = draft
        /\ epc' = epc /\ source_result' = source_result
        /\ attestation_results' = attestation_results /\ UNCHANGED vars
    BY <1>1 DEF evars, exports, frame
  <2>2. bundle' = bundle /\ status' = status /\ notes' = notes
    BY <2>1 DEF vars, args
  <2>3. IInv'
    BY <2>1, NextInv DEF EInv
  <2>4. ArtifactsInv' /\ FrameInv' /\ EnteredInv'
    BY <2>1, <2>2 DEF EInv, ArtifactsInv, FrameInv, EnteredInv, IsSeq, IsExport
  <2>5. RecordsInv'
    <3>1. Records' = Records
      BY <2>1 DEF Records
    <3> QED BY <2>1, <2>2, <3>1, VerifyStable DEF EInv, RecordsInv, IsSeq, Unparseable
  <2>6. VerifiedInv' /\ FailedInv' /\ PartialInv'
    BY <2>1, <2>2, AttestedStable, ExitStable
    DEF EInv, VerifiedInv, FailedInv, PartialInv, Returned
  <2> QED BY <2>3, <2>4, <2>5, <2>6 DEF EInv
<1>2. CASE ExportNext
  BY <1>2, EnterInv, AlterationInv, RefusalInv, SourceByReferenceInv, EnterExportInv,
     TraceStepInv, TraceReturnsInv, CheckAttestationInv, RollupInv, ComposedInv
  DEF ExportNext, CallStep
<1> QED BY <1>1, <1>2

\* There is no call at first.
LEMMA InitGivenInv == GivenInit => EInv
<1> SUFFICES ASSUME GivenInit PROVE EInv
  OBVIOUS
<1>1. /\ call = "compose" /\ epc = "idle" /\ level = 0
      /\ draft = <<>> /\ source_result = NoResult /\ attestation_results = <<>>
  BY DEF GivenInit, Idle
<1>2. IInv
  BY InitExportFresh, FreshInv
<1>3. ArtifactsInv
  BY DEF GivenInit
<1>4. FrameInv
  <2>1. Len(chain) \in Nat
    BY <1>3, FramesAreLists
  <2> QED BY <1>1, <2>1 DEF FrameInv, NoResult
<1>5. RecordsInv
  BY <1>1 DEF RecordsInv, Records, IsSeq
<1>6. EnteredInv /\ VerifiedInv /\ FailedInv /\ PartialInv
  BY <1>1 DEF EnteredInv, VerifiedInv, FailedInv, PartialInv, Returned
<1> QED BY <1>2, <1>3, <1>4, <1>5, <1>6 DEF EInv

LEMMA ExportInvariance == GivenSpec => []EInv
BY InitGivenInv, NextExportInv, PTL DEF GivenSpec

\* Without exports at first, only composed ones and their alterations are.
LEMMA ComposedAreGiven == ExportSpec => GivenSpec
<1>1. ExportInit => ArtifactsInv
  <2> SUFFICES ASSUME ExportInit PROVE ArtifactsInv
    OBVIOUS
  <2>1. chain = <<>> /\ edits = 0 /\ draft = <<>>
    BY DEF ExportInit, Idle
  <2> QED BY <2>1, BoundsAssumption DEF ArtifactsInv, IsSeq
<1>2. ExportInit => GivenInit
  BY <1>1 DEF ExportInit, GivenInit
<1> QED BY <1>2, PTL DEF ExportSpec, GivenSpec

-----------------------------------------------------------------------------
(* Calls end.                                                              *)

\* Down through the wrappers, through the trace at the bottom, and up again
\* through the attestation records of each export.
Phase == CASE epc = "enter" -> 3 [] epc = "trace" -> 2 [] epc = "attest" -> 1 [] OTHER -> 0
PhaseLeft ==
  CASE epc = "enter" -> Len(chain) - level
    [] epc = "trace" -> StepsLeft
    [] epc = "attest" -> level
    [] OTHER -> 0
RecordsLeft == IF epc = "attest" THEN Len(Records) - Len(attestation_results) ELSE 0

\* A step nearer to the end of the call: down in the order of the triple.
Nearer ==
  \/ Phase' < Phase
  \/ Phase' = Phase /\ PhaseLeft' < PhaseLeft
  \/ Phase' = Phase /\ PhaseLeft' = PhaseLeft /\ RecordsLeft' < RecordsLeft

\* Every step under a call is one.
LEMMA CallsDescend == EInv /\ ExportNext /\ epc # "idle" => Nearer
<1> SUFFICES ASSUME EInv, ExportNext, epc # "idle" PROVE Nearer
  OBVIOUS
<1>0. Len(chain) \in Nat /\ level \in Nat /\ level \in 0 .. Len(chain)
  BY LevelInRange DEF EInv
<1>1. /\ epc = "enter" => Phase = 3
      /\ epc = "trace" => Phase = 2
      /\ epc = "attest" => Phase = 1
      /\ epc' = "enter" => Phase' = 3
      /\ epc' = "trace" => Phase' = 2
      /\ epc' = "attest" => Phase' = 1
      /\ epc' \in {"idle", "done"} => Phase' = 0
  BY DEF Phase
<1>2. ASSUME NEW k, NEW r, Answer(k, r)
      PROVE  level' = k /\ epc' \in {"done", "attest"}
  BY <1>2 DEF Answer
<1>3. CASE RejectExport \/ MalformedExport \/ SourceByReference \/ TraceReturns
  <2>1. epc \in {"enter", "trace"} /\ \E r : Answer(level, r)
    BY <1>3 DEF RejectExport, MalformedExport, SourceByReference, Entered, TraceReturns
  <2>2. epc' \in {"done", "attest"}
    BY <1>2, <2>1
  <2> QED BY <1>1, <2>1, <2>2 DEF Nearer
<1>4. CASE MalformedAttestation \/ RollupExport
  <2>1. epc = "attest" /\ level > 0 /\ \E r : Answer(level - 1, r)
    BY <1>4 DEF MalformedAttestation, RollupExport, Remaining
  <2>2. epc' \in {"done", "attest"} /\ level' = level - 1
    BY <1>2, <2>1
  <2>3. epc' = "attest" => PhaseLeft' = level' /\ PhaseLeft = level
    BY <2>1 DEF PhaseLeft
  <2>4. level - 1 < level
    BY <1>0
  <2>5. CASE epc' = "attest"
    BY <1>1, <2>1, <2>2, <2>3, <2>4, <2>5, Zenon DEF Nearer
  <2>6. CASE epc' = "done"
    BY <1>1, <2>1, <2>6 DEF Nearer
  <2> QED BY <2>2, <2>5, <2>6
<1>5. CASE EnterExport
  <2>1. /\ epc = "enter" /\ level' = level + 1 /\ epc' \in {"trace", "enter"} /\ chain' = chain
        /\ level < Len(chain)
    BY <1>5 DEF EnterExport, Entered, exports, EInv, FrameInv
  <2>2. epc' = "enter" => PhaseLeft' = Len(chain) - (level + 1) /\ PhaseLeft = Len(chain) - level
    BY <2>1 DEF PhaseLeft
  <2>3. Len(chain) - (level + 1) < Len(chain) - level
    BY <1>0, <2>1
  <2>4. CASE epc' = "enter"
    BY <1>1, <2>1, <2>2, <2>3, <2>4, Zenon DEF Nearer
  <2>5. CASE epc' = "trace"
    BY <1>1, <2>1, <2>5 DEF Nearer
  <2> QED BY <2>1, <2>4, <2>5
<1>6. CASE TraceStep
  <2>1. epc = "trace" /\ epc' = "trace" /\ StepsLeft' < StepsLeft
    BY <1>6, StepsDescend DEF TraceStep, EInv
  <2>2. PhaseLeft = StepsLeft /\ PhaseLeft' = StepsLeft'
    BY <2>1 DEF PhaseLeft
  <2> QED BY <1>1, <2>1, <2>2, Zenon DEF Nearer
<1>7. CASE CheckAttestation
  <2>1. /\ epc = "attest" /\ Len(attestation_results) < Len(Records)
        /\ epc' = "attest" /\ level' = level /\ Records' = Records
    BY <1>7 DEF CheckAttestation, Remaining, Records, exports, frame
  <2>2. Len(attestation_results) \in Nat /\ Len(attestation_results') = Len(attestation_results) + 1
    <3>1. IsSeq(attestation_results)
      BY DEF EInv, RecordsInv
    <3>2. \E res : attestation_results' = Append(attestation_results, res)
      BY <1>7 DEF CheckAttestation
    <3> QED BY <3>1, <3>2, AppendsOne DEF IsSeq
  <2>3. Len(Records) \in Nat
    BY <1>0, FramesAreLists DEF EInv, Records
  <2>4. /\ PhaseLeft' = PhaseLeft
        /\ RecordsLeft = Len(Records) - Len(attestation_results)
        /\ RecordsLeft' = Len(Records) - (Len(attestation_results) + 1)
    BY <2>1, <2>2 DEF PhaseLeft, RecordsLeft
  <2>5. Len(Records) - (Len(attestation_results) + 1) < Len(Records) - Len(attestation_results)
    BY <2>2, <2>3
  <2> QED BY <1>1, <2>1, <2>4, <2>5, Zenon DEF Nearer
<1>8. CASE ComposeThrows \/ FinishCompose
  <2>1. epc = "attest" /\ epc' = "idle"
    BY <1>8 DEF ComposeThrows, FinishCompose, Remaining
  <2> QED BY <1>1, <2>1 DEF Nearer
<1>9. ~(StartCompose \/ Tamper \/ Reissue \/ StartVerify)
  BY DEF StartCompose, StartVerify, Enter, Tamper, Reissue, Alter
<1> QED BY <1>3, <1>4, <1>5, <1>6, <1>7, <1>8, <1>9 DEF ExportNext, CallStep

(***************************************************************************)
(* No call of composeExport, or of verify_evidence_bundle on an export,    *)
(* can run forever: however deep the exports are nested and whatever they  *)
(* hold, every step under a call is one down in a well-founded order, and  *)
(* a verification that has returned takes no further step.                 *)
(***************************************************************************)
THEOREM CallsRunOut ==
  GivenSpec => /\ [](Phase \in Nat /\ PhaseLeft \in Nat /\ RecordsLeft \in Nat)
               /\ [][epc # "idle" => Nearer]_evars
<1>1. EInv => Phase \in Nat /\ PhaseLeft \in Nat /\ RecordsLeft \in Nat
  <2> SUFFICES ASSUME EInv PROVE Phase \in Nat /\ PhaseLeft \in Nat /\ RecordsLeft \in Nat
    OBVIOUS
  <2>1. Phase \in Nat
    BY DEF Phase
  <2>2. Len(chain) \in Nat /\ level \in Nat /\ Len(chain) - level \in Nat
    BY LevelInRange DEF EInv
  <2>3. StepsLeft \in Nat
    BY StepsLeftFacts, OneTermLess, Zenon DEF StepsLeft, EInv
  <2>4. PhaseLeft \in Nat
    BY <2>2, <2>3, Zenon DEF PhaseLeft
  <2>5. RecordsLeft \in Nat
    <3>1. Len(Records) \in Nat
      BY <2>2, FramesAreLists, LevelInRange DEF EInv, Records
    <3>2. Len(attestation_results) \in Nat /\ Len(attestation_results) <= Len(Records)
      BY DEF EInv, RecordsInv, IsSeq
    <3> QED BY <3>1, <3>2 DEF RecordsLeft
  <2> QED BY <2>1, <2>4, <2>5
<1>2. EInv /\ [ExportNext]_evars => [epc # "idle" => Nearer]_evars
  BY CallsDescend
<1> QED BY <1>1, <1>2, ExportInvariance, PTL DEF GivenSpec

-----------------------------------------------------------------------------
(* What follows for every call that returns.                               *)

(***************************************************************************)
(* Frames stay within the chain and the trace runs only at its bottom, for *)
(* any exports and any number of alterations (_verify_export_body and      *)
(* recomputeExportVerdict call verify_evidence_bundle on the source).      *)
(***************************************************************************)
THEOREM ExportTypesHold == GivenSpec => []ExportTypeOK
<1>1. EInv => ExportTypeOK
  BY LevelInRange, AbsentAssumption DEF EInv, ArtifactsInv, FrameInv, RecordsInv, ExportTypeOK, Results
<1> QED BY <1>1, ExportInvariance, PTL

(***************************************************************************)
(* A verified export is attested at every level of its nesting, by         *)
(* envelopes listed in the body of the immediate source - for the          *)
(* innermost export the trace -, and its trace is anchored, wherever the   *)
(* artifact came from: no status that verify_evidence_bundle reads in it   *)
(* takes part.                                                             *)
(***************************************************************************)
THEOREM VerifiedExportsAreAttested == GivenSpec => []VerifiedMeansAttested
<1>1. EInv => VerifiedMeansAttested
  <2> SUFFICES ASSUME EInv, Verified
               PROVE  /\ \A k \in DOMAIN chain : ExportAttested(k)
                      /\ \A i \in DOMAIN bundle.events : EventAnchored(bundle.events[i])
    BY DEF VerifiedMeansAttested
  <2>1. epc = "done" /\ source_result.status = "verified" /\ level = 0
    BY DEF Verified, EInv, FrameInv
  <2>2. status = "verified" /\ \A k \in level + 1 .. Len(chain) : ExportAttested(k)
    BY <2>1 DEF EInv, VerifiedInv, Returned
  <2>3. DOMAIN chain = level + 1 .. Len(chain)
    BY <2>1, FramesAreLists DEF EInv
  <2>4. VerifiedMeansAnchored
    BY VerifiedAnchored DEF EInv
  <2> QED BY <2>2, <2>3, <2>4 DEF VerifiedMeansAnchored
<1> QED BY <1>1, ExportInvariance, PTL

(***************************************************************************)
(* A failed or malformed trace is never softened by the exports around it, *)
(* however many there are.                                                 *)
(***************************************************************************)
THEOREM FailuresReachTheTop == GivenSpec => []FailureReachesTheTop
<1>1. EInv => FailureReachesTheTop
  <2> SUFFICES ASSUME EInv, epc = "done", status \in {"failed", "malformed"}
               PROVE  ExitCode(source_result.status, source_result.notes) \in {1, 2}
    BY DEF FailureReachesTheTop
  <2>1. source_result.status \in {"failed", "malformed"}
    BY DEF EInv, FailedInv, Returned
  <2> QED BY <2>1 DEF ExitCode
<1> QED BY <1>1, ExportInvariance, PTL

(***************************************************************************)
(* An undetermined export has exit code 3 exactly when its trace has, or   *)
(* one of the exports in it carries a reference in place of its source,    *)
(* however deep.                                                           *)
(***************************************************************************)
THEOREM ExitThreeComesFromWithin == GivenSpec => []ExitThreeFromWithin
<1>1. EInv => ExitThreeFromWithin
  <2> SUFFICES ASSUME EInv, epc = "done", source_result.status = "partial"
               PROVE  ExitCode(source_result.status, source_result.notes) = 3
                      <=> exit_code = 3 \/ \E k \in DOMAIN chain : ~chain[k].inline
    BY DEF ExitThreeFromWithin
  <2>1. source_result.notes \cap UndeterminedMarkers # {}
        <=> exit_code = 3 \/ \E k \in level + 1 .. Len(chain) : ~chain[k].inline
    BY DEF EInv, PartialInv, Returned
  <2>2. DOMAIN chain = level + 1 .. Len(chain)
    BY FramesAreLists DEF EInv, FrameInv
  <2>3. ExitCode(source_result.status, source_result.notes) = 3
        <=> source_result.notes \cap UndeterminedMarkers # {}
    BY DEF ExitCode
  <2> QED BY <2>1, <2>2, <2>3
<1> QED BY <1>1, ExportInvariance, PTL

-----------------------------------------------------------------------------
(* The cached verdicts: what they say of the trace, for whoever composed   *)
(* them, and what they are in an export that nobody altered.               *)

TraceEvents == [i \in DOMAIN event_results |-> EventVerdict(i)]

\* A source that is not rejected has the trace's events, and so have the
\* verdicts of the exports that have been checked.
TruthInv ==
  Returned /\ pc = "done" /\ source_result.status \in {"verified", "partial"} =>
    /\ source_result.events = TraceEvents
    /\ \A k \in level + 1 .. Len(chain) :
         chain[k].kernel_verdict.events = TraceEvents /\ TruthfulAttestations(k)

\* What the kernel finds in the trace without gateways and side inputs.
OfflineContent(ev) == _evaluate_content(ev, NoContent[ev.envelope.body])

OfflineSound(ev) ==
  /\ VerifyOk(ev.envelope, ev.record, FALSE)
  /\ OfflineContent(ev) # "false"
  /\ Included(ev)

OfflineStatus ==
  IF WrapperVerdict # "trace" THEN WrapperVerdict
  ELSE IF \/ \E i \in DOMAIN Entries : ~EnvelopeBound(Entries[i]) \/ ~RootBound(Entries[i])
          \/ \E i \in DOMAIN bundle.events : ~OfflineSound(bundle.events[i])
  THEN "failed"
  ELSE IF ~Withheld /\ ~(Len(Entries) = 0) THEN "verified"
  ELSE "partial"

Checked(list) == IF WrapperVerdict = "trace" THEN 1 .. Len(list) ELSE {}

OfflineEvents ==
  [i \in Checked(bundle.events) |->
     LET ev == bundle.events[i]
     IN [event_id      |-> ev.envelope.body,
         signature_ok  |-> VerifyOk(ev.envelope, ev.record, FALSE),
         payload_bound |-> payload_hash_ok(ev.envelope, ev.record),
         inclusion_ok  |-> Included(ev),
         content_ok    |-> OfflineContent(ev)]]

OfflineCheckpoints ==
  [i \in Checked(Entries) |->
     [checkpoint_tx_id |-> LookedUp(i), merkle_root_ok |-> RootBound(Entries[i])]]

\* The verdict object and the rollup, of given checkpoints and results.
VerdictOver(checkpoints, results) ==
  [i \in DOMAIN checkpoints |->
     LET c == checkpoints[i]
     IN [checkpoint_tx_id |-> c.checkpoint_tx_id,
         merkle_root_ok   |-> c.merkle_root_ok,
         attestations     |-> AttestationsOf(results, c.checkpoint_tx_id)]]

RollupOver(s, results) ==
  LET bad == \E i \in DOMAIN results : ~results[i].ok
  IN CASE s \in {"failed", "malformed"} \/ bad -> "failed"
       [] s = "partial" /\ ~bad -> "partial"
       [] OTHER -> "verified"

ResultsOf(list, k) == [a \in 1 .. Len(list) |-> _verify_attestation(list[a], k)]

SourceStatus(k) ==
  IF k < Len(chain) THEN chain[k + 1].kernel_verdict.status ELSE OfflineStatus

\* The export is as FinishCompose makes it of the source.
MadeOf(x, source, s, results) ==
  /\ x.defects = {} /\ x.inline
  /\ x.source_bundle_hash = Sha256(source)
  /\ \A a \in 1 .. Len(x.attestations) : ~Unparseable(x.attestations[a])
  /\ x.kernel_verdict = [status      |-> RollupOver(s, results),
                         events      |-> OfflineEvents,
                         checkpoints |-> VerdictOver(OfflineCheckpoints, results)]

Composed(k) ==
  MadeOf(chain[k], Source(k), SourceStatus(k), ResultsOf(chain[k].attestations, k))

UnalteredInv == edits = 0 => \A k \in 1 .. Len(chain) : Composed(k)

\* A call without side inputs returns what the exports have cached.
AlikeInv ==
  /\ call = "compose" /\ epc # "idle" => gateways = <<>> /\ content = NoContent
  /\ Returned /\ edits = 0 /\ content = NoContent =>
       /\ source_result.events = OfflineEvents
       /\ source_result.checkpoints = OfflineCheckpoints
       /\ source_result.notes \cap {"linkage", "agreement"} = {}
       /\ gateways = <<>> => source_result.status = SourceStatus(level)

-----------------------------------------------------------------------------
(* The entries of the verdict object.                                      *)

\* A set of naturals that has an element has a least one.
LEMMA LeastElement ==
  ASSUME NEW T \in SUBSET Nat, T # {}
  PROVE  \E m \in T : \A k \in T : m <= k
<1>1. PICK m \in T : \A k \in T : <<k, m>> \notin OpToRel(<, Nat)
  BY WFMin, NatLessThanWellFounded, Zenon
<1>2. \A k \in T : ~(k < m)
  BY <1>1, Zenon DEF OpToRel
<1> QED BY <1>2

\* The loop over the results, up to its m-th turn.
Turn(results, tx, n, before) ==
  IF n = 0 THEN <<>>
  ELSE IF results[n].checkpoint_tx_id = tx THEN Append(before, VerdictEntry(results[n]))
  ELSE before

Turns(results, tx, m, f) == f = [n \in 0 .. m |-> Turn(results, tx, n, f[n - 1])]

\* What holds of the first number, and of each with the one before it, holds of
\* all up to the last.
LEMMA UpTo ==
  ASSUME NEW L \in Nat, NEW Good \in SUBSET Nat, 0 \in Good,
         \A m \in 1 .. L : m - 1 \in Good => m \in Good
  PROVE  \A m \in 0 .. L : m \in Good
<1> DEFINE Odd == {m \in 0 .. L : m \notin Good}
<1>1. \A m \in Odd : m # 0 /\ m - 1 \in Odd /\ m \in Nat
  OBVIOUS
<1>2. Odd \in SUBSET Nat
  OBVIOUS
<1>3. Odd = {}
  <2> HIDE DEF Odd
  <2> SUFFICES ASSUME Odd # {} PROVE FALSE
    OBVIOUS
  <2>1. PICK m \in Odd : \A k \in Odd : m <= k
    BY <1>2, LeastElement
  <2> QED BY <1>1, <2>1
<1> QED BY <1>3

\* The loop is what it says, turn by turn.
LEMMA LoopTurns ==
  ASSUME NEW results, Len(results) \in Nat, NEW tx
  PROVE  \E f : /\ f[0] = <<>>
                /\ \A n \in 1 .. Len(results) : f[n] = Turn(results, tx, n, f[n - 1])
                /\ AttestationsOf(results, tx) = f[Len(results)]
<1> DEFINE L == Len(results)
           Loop(m, f) == Turns(results, tx, m, f)
           Found(m) == \E f : Loop(m, f)
<1>1. Found(0)
  <2> DEFINE f == [n \in 0 .. 0 |-> <<>>]
  <2>1. Loop(0, f)
    BY DEF Turns, Turn
  <2> HIDE DEF f, Loop
  <2> QED BY <2>1
<1>2. ASSUME NEW m \in 1 .. L, Found(m - 1) PROVE Found(m)
  <2>1. PICK g : Loop(m - 1, g)
    BY <1>2
  <2> DEFINE f == [n \in 0 .. m |-> IF n = m THEN Turn(results, tx, m, g[m - 1]) ELSE g[n]]
  <2>2. \A n \in 0 .. m - 1 : g[n] = Turn(results, tx, n, g[n - 1])
    BY <2>1 DEF Turns
  <2>3. \A n \in 0 .. m : f[n] = Turn(results, tx, n, f[n - 1])
    <3> SUFFICES ASSUME NEW n \in 0 .. m PROVE f[n] = Turn(results, tx, n, f[n - 1])
      OBVIOUS
    <3>1. CASE n = m
      <4>1. f[m] = Turn(results, tx, m, g[m - 1]) /\ f[m - 1] = g[m - 1]
        OBVIOUS
      <4> QED BY <3>1, <4>1
    <3>2. CASE n # m /\ n # 0
      <4>1. n \in 0 .. m - 1 /\ n - 1 \in 0 .. m - 1
        BY <3>2
      <4>2. f[n] = g[n] /\ f[n - 1] = g[n - 1]
        BY <4>1
      <4> HIDE DEF f
      <4> QED BY <2>2, <4>1, <4>2
    <3>3. CASE n = 0 /\ n # m
      <4>1. f[0] = g[0] /\ g[0] = <<>>
        BY <2>2, <3>3 DEF Turn
      <4> QED BY <3>3, <4>1 DEF Turn
    <3> QED BY <3>1, <3>2, <3>3
  <2>4. Loop(m, f)
    <3>1. f = [n \in 0 .. m |-> f[n]]
      OBVIOUS
    <3> QED BY <2>3, <3>1 DEF Turns
  <2> HIDE DEF f, Loop
  <2> QED BY <2>4
<1>3. Found(L)
  <2> DEFINE Good == {m \in Nat : Found(m)}
  <2>1. 0 \in Good /\ Good \in SUBSET Nat
    BY <1>1
  <2>2. \A m \in 1 .. L : m - 1 \in Good => m \in Good
    <3> HIDE DEF Found
    <3> QED BY <1>2
  <2>3. L \in Good
    <3> HIDE DEF Good
    <3> QED BY <2>1, <2>2, UpTo
  <2> QED BY <2>3
<1> DEFINE e == CHOOSE e : Loop(L, e)
<1>4. Loop(L, e)
  <2> HIDE DEF Loop
  <2> QED BY <1>3
<1>5. AttestationsOf(results, tx) = e[L]
  BY DEF AttestationsOf, Turns, Turn
<1> HIDE DEF e
<1>6. \A n \in 0 .. L : e[n] = Turn(results, tx, n, e[n - 1])
  BY <1>4 DEF Turns
<1>7. e[0] = <<>>
  <2>1. e[0] = Turn(results, tx, 0, e[0 - 1])
    BY <1>6
  <2> QED BY ONLY <2>1, Zenon DEF Turn
<1>8. \A n \in 1 .. L : e[n] = Turn(results, tx, n, e[n - 1])
  BY <1>6
<1> QED BY <1>5, <1>7, <1>8, Zenon

\* att_by_checkpoint lists nothing but the entries of results that name the
\* checkpoint.
LEMMA EntriesAreResults ==
  ASSUME NEW results, Len(results) \in Nat, NEW tx
  PROVE  \A j \in DOMAIN AttestationsOf(results, tx) :
              \E i \in 1 .. Len(results) :
                results[i].checkpoint_tx_id = tx /\ AttestationsOf(results, tx)[j] = VerdictEntry(results[i])
<1> DEFINE L == Len(results)
           Mine == {VerdictEntry(results[i]) : i \in {i \in 1 .. L : results[i].checkpoint_tx_id = tx}}
<1>1. PICK f : /\ f[0] = <<>>
               /\ \A n \in 1 .. L : f[n] = Turn(results, tx, n, f[n - 1])
               /\ AttestationsOf(results, tx) = f[L]
  BY LoopTurns, Zenon
<1> DEFINE Good == {n \in Nat : f[n] \in Seq(Mine)}
<1>2. 0 \in Good
  <2> HIDE DEF Mine
  <2>1. f[0] = <<>>
    BY <1>1, Zenon
  <2>2. <<>> \in Seq(Mine)
    OBVIOUS
  <2>3. f[0] \in Seq(Mine)
    BY <2>1, <2>2, Zenon
  <2> QED BY <2>3
<1>3. ASSUME NEW m \in 1 .. L, m - 1 \in Good PROVE m \in Good
  <2>1. results[m].checkpoint_tx_id = tx => VerdictEntry(results[m]) \in Mine
    OBVIOUS
  <2> HIDE DEF Mine
  <2>2. /\ f[m] = Turn(results, tx, m, f[m - 1])
        /\ f[m - 1] \in Seq(Mine) /\ m \in Nat /\ m # 0
    BY <1>1, <1>3
  <2>3. f[m] \in Seq(Mine)
    BY ONLY <2>1, <2>2 DEF Turn
  <2> QED BY <2>2, <2>3
<1>4. f[L] \in Seq(Mine)
  <2>1. Good \in SUBSET Nat
    OBVIOUS
  <2>2. L \in Good
    <3> HIDE DEF Good
    <3>1. \A m \in 0 .. L : m \in Good
      BY <1>2, <1>3, <2>1, UpTo
    <3> QED BY <3>1
  <2> QED BY <2>2
<1>5. \A x \in Mine : \E i \in 1 .. L : results[i].checkpoint_tx_id = tx /\ x = VerdictEntry(results[i])
  OBVIOUS
<1> HIDE DEF Mine
<1> QED BY <1>1, <1>4, <1>5

\* The first entry is that of the first result, if it names the checkpoint.
LEMMA FirstEntry ==
  ASSUME NEW results, Len(results) \in Nat, Len(results) > 0
  PROVE  AttestationsOf(results, results[1].checkpoint_tx_id)[1] = VerdictEntry(results[1])
<1> DEFINE L == Len(results)
           tx == results[1].checkpoint_tx_id
<1>1. PICK f : /\ f[0] = <<>>
               /\ \A n \in 1 .. L : f[n] = Turn(results, tx, n, f[n - 1])
               /\ AttestationsOf(results, tx) = f[L]
  BY LoopTurns, Zenon
<1> DEFINE Any == {VerdictEntry(results[i]) : i \in 1 .. L}
           Led(s) == s \in Seq(Any) /\ Len(s) > 0 /\ s[1] = VerdictEntry(results[1])
           Good == {n \in Nat : n = 0 \/ Led(f[n])}
<1>2. 0 \in Good
  OBVIOUS
<1>3. ASSUME NEW m \in 1 .. L, m - 1 \in Good PROVE m \in Good
  <2>1. VerdictEntry(results[m]) \in Any
    OBVIOUS
  <2>2. m \in Nat /\ m # 0 /\ f[m] = Turn(results, tx, m, f[m - 1])
    BY <1>1
  <2> HIDE DEF Any
  <2>3. CASE m = 1
    <3>1. f[1] = Append(<<>>, VerdictEntry(results[1]))
      <4>1. f[1] = Turn(results, tx, 1, <<>>)
        BY <1>1, <2>2, <2>3
      <4> QED BY ONLY <4>1 DEF Turn
    <3>2. Led(f[1])
      BY <2>1, <2>3, <3>1
    <3> QED BY <2>2, <2>3, <3>2
  <2>4. CASE m # 1
    <3>1. Led(f[m - 1])
      BY <1>3, <2>4
    <3>2. Led(f[m])
      BY ONLY <2>1, <2>2, <3>1 DEF Turn
    <3> QED BY <2>2, <3>2
  <2> QED BY <2>3, <2>4
<1>4. L \in Good
  <2>1. Good \in SUBSET Nat
    OBVIOUS
  <2> HIDE DEF Good
  <2>2. \A m \in 0 .. L : m \in Good
    BY <1>2, <1>3, <2>1, UpTo
  <2> QED BY <2>2
<1> QED BY <1>1, <1>4

-----------------------------------------------------------------------------
(* No verdict that is accepted lies about the trace.                       *)

\* What agrees with the recomputed verdict lists attested records only.
LEMMA AgreedAttestations ==
  ASSUME EInv, epc = "attest", level > 0,
         Len(attestation_results) = Len(Records), ~AnyAttestationFailed, AgreementOk
  PROVE  TruthfulAttestations(level)
<1> DEFINE cached == chain[level].kernel_verdict.checkpoints
<1>1. cached = VerdictCheckpoints
  BY DEF AgreementOk, ProjectForAgreement, BuildVerdict
<1>2. Records = chain[level].attestations
  BY DEF Records
<1> SUFFICES ASSUME NEW i \in DOMAIN cached, NEW j \in DOMAIN cached[i].attestations
             PROVE  \E a \in DOMAIN chain[level].attestations :
                      LET rec == chain[level].attestations[a]
                      IN /\ rec.payload.operator = cached[i].attestations[j].operator
                         /\ NamedTx(rec) = cached[i].checkpoint_tx_id
                         /\ Attested(rec, level)
  BY DEF TruthfulAttestations
<1> DEFINE tx == cached[i].checkpoint_tx_id
<1>3. cached[i].attestations = AttestationsOf(attestation_results, tx)
  BY <1>1 DEF VerdictCheckpoints
<1>4. Len(attestation_results) \in Nat
  BY DEF EInv, RecordsInv, IsSeq
<1>5. PICK a \in 1 .. Len(attestation_results) :
        /\ attestation_results[a].checkpoint_tx_id = tx
        /\ cached[i].attestations[j] = VerdictEntry(attestation_results[a])
  BY <1>3, <1>4, EntriesAreResults
<1> HIDE DEF cached
<1>6. attestation_results[a] = _verify_attestation(Records[a], level)
  BY DEF EInv, RecordsInv
<1>7. /\ Records[a].payload.operator = cached[i].attestations[j].operator
      /\ NamedTx(Records[a]) = tx
  BY <1>5, <1>6 DEF _verify_attestation, VerdictEntry
<1>8. a \in DOMAIN chain[level].attestations
  <2>1. level \in 1 .. Len(chain)
    BY LevelInRange DEF EInv
  <2> QED BY <1>2, <2>1, FramesAreLists DEF EInv
<1> QED BY <1>2, <1>7, <1>8, AllAttested

\* The rollup hands on the events of a source that is not rejected.
LEMMA RollupTruth ==
  ASSUME EInv, TruthInv, RollupExport
  PROVE  TruthInv'
<1> SUFFICES ASSUME pc' = "done", source_result'.status \in {"verified", "partial"}
             PROVE  /\ source_result'.events = TraceEvents'
                    /\ \A k \in level' + 1 .. Len(chain') :
                         /\ chain'[k].kernel_verdict.events = TraceEvents'
                         /\ TruthfulAttestations(k)'
  BY DEF TruthInv
<1>1. /\ epc = "attest" /\ level > 0 /\ Len(attestation_results) = Len(Records)
      /\ level' = level - 1 /\ chain' = chain /\ UNCHANGED vars
      /\ source_result'.events = source_result.events
      /\ source_result'.status = IF LinkageOk /\ AgreementOk THEN SourceRollup ELSE "failed"
  BY DEF RollupExport, Answer, exports
<1>2. /\ AgreementOk /\ ~AnyAttestationFailed
      /\ source_result.status \in {"verified", "partial"}
  BY <1>1, RollupCases DEF EInv, FrameInv
<1>3. /\ source_result.events = TraceEvents
      /\ \A k \in level + 1 .. Len(chain) :
           chain[k].kernel_verdict.events = TraceEvents /\ TruthfulAttestations(k)
  BY <1>1, <1>2 DEF TruthInv, Returned, vars
<1>4. /\ chain[level].kernel_verdict.events = source_result.events
      /\ TruthfulAttestations(level)
  BY <1>1, <1>2, AgreedAttestations DEF AgreementOk, ProjectForAgreement, BuildVerdict
<1>5. \A k \in level' + 1 .. Len(chain') : k = level \/ k \in level + 1 .. Len(chain)
  BY <1>1, LevelInRange DEF EInv
<1>6. bundle' = bundle /\ event_results' = event_results
  BY <1>1 DEF vars, args, loops
<1>7. TraceEvents' = TraceEvents
  BY <1>6 DEF TraceEvents, EventVerdict
<1>8. \A k : TruthfulAttestations(k)' <=> TruthfulAttestations(k)
  BY <1>1, <1>6 DEF TruthfulAttestations, Attested, Source
<1> QED BY <1>1, <1>3, <1>4, <1>5, <1>7, <1>8

\* Every step keeps it.
LEMMA NextTruth == EInv /\ TruthInv /\ [ExportNext]_evars => TruthInv'
<1> SUFFICES ASSUME EInv, TruthInv, [ExportNext]_evars PROVE TruthInv'
  OBVIOUS
<1>1. CASE CheckAttestation \/ UNCHANGED evars
  <2>1. /\ epc' = epc /\ level' = level /\ chain' = chain /\ source_result' = source_result
        /\ UNCHANGED vars
    BY <1>1 DEF CheckAttestation, evars, exports, frame
  <2>2. bundle' = bundle /\ event_results' = event_results /\ pc' = pc
    BY <2>1 DEF vars, args, loops
  <2>3. TraceEvents' = TraceEvents
    BY <2>2 DEF TraceEvents, EventVerdict
  <2>4. \A k : TruthfulAttestations(k)' <=> TruthfulAttestations(k)
    BY <2>1, <2>2 DEF TruthfulAttestations, Attested, Source
  <2> QED BY <2>1, <2>2, <2>3, <2>4 DEF TruthInv, Returned
<1>2. CASE \/ StartCompose \/ StartVerify \/ Tamper \/ Reissue \/ EnterExport \/ TraceStep
           \/ ComposeThrows \/ FinishCompose
  <2>1. epc' \in {"idle", "enter", "trace"}
    BY <1>2 DEF StartCompose, StartVerify, Enter, Tamper, Reissue, Alter, EnterExport,
                TraceStep, ComposeThrows, FinishCompose
  <2> QED BY <2>1 DEF TruthInv, Returned
<1>3. CASE RejectExport \/ MalformedExport \/ MalformedAttestation
  <2>1. \/ source_result' = NoVerdict("malformed", {"malformed"})
        \/ source_result' = NoVerdict("failed", {"wrapper"})
    BY <1>3 DEF RejectExport, MalformedExport, MalformedAttestation, Answer
  <2>2. source_result'.status \in {"failed", "malformed"}
    BY <2>1 DEF NoVerdict
  <2> QED BY <2>2 DEF TruthInv
<1>4. CASE SourceByReference
  <2>1. epc = "enter" /\ UNCHANGED vars
    BY <1>4 DEF SourceByReference, Entered, Answer
  <2>2. pc' # "done"
    BY <2>1 DEF EInv, FrameInv, IInv, TypeInv, vars
  <2> QED BY <2>2 DEF TruthInv
<1>5. CASE TraceReturns
  <2>1. /\ epc = "trace" /\ level' = level /\ chain' = chain /\ UNCHANGED vars
        /\ source_result'.events = TraceEvents
    BY <1>5 DEF TraceReturns, Answer, TraceEvents, exports
  <2>2. TraceEvents' = TraceEvents
    BY <2>1 DEF TraceEvents, EventVerdict, vars, args, loops
  <2>3. level' + 1 .. Len(chain') = {}
    BY <2>1, LevelInRange DEF EInv, FrameInv
  <2> QED BY <2>1, <2>2, <2>3 DEF TruthInv
<1>6. CASE RollupExport
  BY <1>6, RollupTruth
<1> QED BY <1>1, <1>2, <1>3, <1>4, <1>5, <1>6 DEF ExportNext, CallStep

LEMMA TruthInvariance == GivenSpec => []TruthInv
<1>1. GivenInit => TruthInv
  BY DEF GivenInit, Idle, TruthInv, Returned
<1> QED BY <1>1, NextTruth, ExportInvariance, PTL DEF GivenSpec

\* A trace that is not rejected passed its own checks, all of them.
LEMMA AcceptedTrace ==
  ASSUME JInv, pc = "done", status \in {"verified", "partial"}, bundle.body_type = "trace"
  PROVE  /\ WrapperVerdict = "trace" /\ ~Unsound
         /\ Len(event_results) = Len(bundle.events)
<1>1. status = Judged
  BY JudgementIs DEF JInv, DoneInv
<1>2. WrapperVerdict \in {"malformed", "failed", "trace"}
  BY DEF WrapperVerdict
<1>3. WrapperVerdict = "trace" /\ ~Unsound
  BY <1>1, <1>2 DEF Judged
<1> QED BY <1>3 DEF JInv, DoneInv

\* What the events of an accepted trace are said to be, they are.
LEMMA AcceptedEventsAreTrue ==
  ASSUME JInv, pc = "done", status \in {"verified", "partial"}, bundle.body_type = "trace",
         NEW v, v.events = TraceEvents
  PROVE  TruthfulEvents(v)
<1>1. /\ WrapperVerdict = "trace" /\ ~Unsound
      /\ Len(event_results) = Len(bundle.events)
  BY AcceptedTrace
<1>2. /\ DOMAIN event_results = 1 .. Len(event_results) /\ Len(event_results) \in Nat
      /\ bundle \in Bundles /\ DOMAIN bundle.events = 1 .. Len(bundle.events)
  BY ListsOfBundle DEF JInv, RInv, CInv, IInv, TypeInv
<1>3. DOMAIN v.events = 1 .. Len(bundle.events) /\ Len(v.events) = Len(bundle.events)
  BY <1>1, <1>2 DEF TraceEvents
<1>4. ASSUME NEW i \in 1 .. Len(bundle.events)
      PROVE  /\ v.events[i].event_id = bundle.events[i].envelope.body
             /\ v.events[i].signature_ok => signature_ok(bundle.events[i].envelope)
             /\ v.events[i].payload_bound = "true" =>
                  \/ InlineBinds(bundle.events[i].envelope)
                  \/ bundle.events[i].envelope.payload_hash = Sha256(bundle.events[i].record)
             /\ v.events[i].inclusion_ok =>
                  leaf_hash(bundle.events[i].envelope) \in Commits(bundle.events[i].inclusion.reaches)
  <2> DEFINE ev == bundle.events[i]
             res == event_results[i]
  <2>1. v.events[i] = EventVerdict(i)
    BY <1>1, <1>2 DEF TraceEvents
  <2>2. /\ v.events[i].event_id = ev.envelope.body
        /\ v.events[i].signature_ok = res.envelope_ok
        /\ v.events[i].payload_bound = res.payload_binding_ok
        /\ v.events[i].inclusion_ok = res.inclusion_ok
    BY <2>1 DEF EventVerdict
  <2>3. /\ res.envelope_ok <=> VerifyOk(ev.envelope, ev.record, FALSE)
        /\ res.inclusion_ok <=> Included(ev)
        /\ res.payload_binding_ok = payload_hash_ok(ev.envelope, ev.record)
    BY <1>1 DEF JInv, RInv, ExactInv, EventResultExact, CInv, IInv, EventInv
  <2>4. ev.inclusion # Absent =>
          ev.inclusion.reaches = Absent \/ ev.inclusion.leaf \in Commits(ev.inclusion.reaches)
    BY <1>2, InclusionAssumption
  <2> HIDE DEF ev, res
  <2>5. ASSUME payload_hash_ok(ev.envelope, ev.record) = "true"
        PROVE  InlineBinds(ev.envelope) \/ ev.envelope.payload_hash = Sha256(ev.record)
    BY <2>5 DEF payload_hash_ok
  <2>6. ASSUME Included(ev)
        PROVE  leaf_hash(ev.envelope) \in Commits(ev.inclusion.reaches)
    <3>1. PICK c \in DOMAIN Entries : Entries[c].merkle_root = ev.inclusion.reaches
      BY <2>6 DEF Included
    <3>2. ev.inclusion.reaches # Absent
      BY <1>1, <3>1 DEF Unsound, RootBound
    <3> QED BY <2>4, <2>6, <3>2 DEF Included
  <2>7. VerifyOk(ev.envelope, ev.record, FALSE) => signature_ok(ev.envelope)
    BY DEF VerifyOk
  <2>8. v.events[i].signature_ok => signature_ok(ev.envelope)
    BY <2>2, <2>3, <2>7
  <2>9. v.events[i].inclusion_ok => leaf_hash(ev.envelope) \in Commits(ev.inclusion.reaches)
    BY <2>2, <2>3, <2>6
  <2> QED BY <2>2, <2>3, <2>5, <2>8, <2>9 DEF ev
<1> QED BY <1>3, <1>4 DEF TruthfulEvents

(***************************************************************************)
(* The cached verdict of an export that is not rejected says nothing false *)
(* of its trace, whoever signed it and however it was altered: it lists    *)
(* every event, and the signatures, inclusions and attestations it calls   *)
(* good are good, at every level of the nesting, the attestations with     *)
(* respect to the immediate source.                                        *)
(***************************************************************************)
THEOREM CachedVerdictsAreTrue == GivenSpec => []CachedVerdictTrue
<1>1. EInv /\ JInv /\ TruthInv => CachedVerdictTrue
  <2> SUFFICES ASSUME EInv, JInv, TruthInv, epc = "done", pc = "done",
                      source_result.status \in {"verified", "partial"},
                      bundle.body_type = "trace",
                      NEW k \in DOMAIN chain
               PROVE  TruthfulEvents(chain[k].kernel_verdict) /\ TruthfulAttestations(k)
    BY DEF CachedVerdictTrue
  <2>1. k \in level + 1 .. Len(chain)
    BY FramesAreLists DEF EInv, FrameInv
  <2>2. chain[k].kernel_verdict.events = TraceEvents /\ TruthfulAttestations(k)
    BY <2>1 DEF TruthInv, Returned
  <2>3. status \in {"verified", "partial"}
    <3>1. status \in Results
      BY DEF EInv, IInv, TypeInv
    <3>2. status \notin {"failed", "malformed"}
      BY DEF EInv, FailedInv, Returned
    <3> QED BY <3>1, <3>2 DEF Results
  <2> QED BY <2>2, <2>3, AcceptedEventsAreTrue
<1> QED BY <1>1, ExportInvariance, JudgedInvariance, TruthInvariance, PTL

-----------------------------------------------------------------------------
(* An export nobody altered verifies as it was composed.                   *)

\* What the kernel finds offline depends on the trace only.
LEMMA OfflineStays ==
  ASSUME bundle' = bundle
  PROVE  /\ OfflineEvents' = OfflineEvents /\ OfflineCheckpoints' = OfflineCheckpoints
         /\ OfflineStatus' = OfflineStatus
<1>1. WrapperVerdict' = WrapperVerdict
  BY DEF WrapperVerdict, Authentic
<1>2. /\ Entries' = Entries
      /\ \A i : LookedUp(i)' = LookedUp(i)
      /\ \A i : /\ EnvelopeBound(Entries[i])' <=> EnvelopeBound(Entries[i])
                /\ RootBound(Entries[i])' <=> RootBound(Entries[i])
      /\ \A i : RootBound(Entries[i])' = RootBound(Entries[i])
  BY DEF Entries, LookedUp, EnvelopeBound, RootBound
<1>3. \A ev : Included(ev)' = Included(ev)
  BY DEF Included, IsKept, Entries
<1>4. OfflineEvents' = OfflineEvents
  BY <1>1, <1>3 DEF OfflineEvents, Checked, OfflineContent
<1>5. OfflineCheckpoints' = OfflineCheckpoints
  BY <1>1, <1>2 DEF OfflineCheckpoints, Checked
<1>6. Withheld' = Withheld
  BY DEF Withheld
<1>7. \A ev : OfflineSound(ev)' <=> OfflineSound(ev)
  BY <1>3 DEF OfflineSound, OfflineContent
<1>8. OfflineStatus' = OfflineStatus
  BY <1>1, <1>2, <1>6, <1>7 DEF OfflineStatus
<1> QED BY <1>4, <1>5, <1>8

\* A call without side inputs on the trace finds just that.
LEMMA OfflineReturned ==
  ASSUME JInv, pc = "done", content = NoContent
  PROVE  /\ [i \in DOMAIN event_results |-> EventVerdict(i)] = OfflineEvents
         /\ [i \in DOMAIN checkpoint_results |-> CheckpointVerdict(i)] = OfflineCheckpoints
         /\ notes \cap {"linkage", "agreement"} = {}
         /\ gateways = <<>> => status = OfflineStatus
<1>1. /\ event_results \in Seq(EventResults) /\ checkpoint_results \in Seq(CheckpointResults)
      /\ DOMAIN event_results = 1 .. Len(event_results)
      /\ DOMAIN checkpoint_results = 1 .. Len(checkpoint_results)
      /\ bundle \in Bundles
  BY DEF JInv, RInv, CInv, IInv, TypeInv
<1>2. /\ DOMAIN event_results = Checked(bundle.events)
      /\ DOMAIN checkpoint_results = Checked(Entries)
  <2>1. CASE WrapperVerdict = "trace"
    BY <1>1, <2>1 DEF JInv, DoneInv, Checked
  <2>2. CASE WrapperVerdict # "trace"
    BY <2>2 DEF JInv, DoneInv, Checked
  <2> QED BY <2>1, <2>2
<1>3. \A ev : ContentOk(ev) = OfflineContent(ev)
  BY DEF ContentOk, OfflineContent
<1>4. ASSUME NEW i \in DOMAIN event_results
      PROVE  EventVerdict(i) =
               [event_id      |-> bundle.events[i].envelope.body,
                signature_ok  |-> VerifyOk(bundle.events[i].envelope, bundle.events[i].record, FALSE),
                payload_bound |-> payload_hash_ok(bundle.events[i].envelope, bundle.events[i].record),
                inclusion_ok  |-> Included(bundle.events[i]),
                content_ok    |-> OfflineContent(bundle.events[i])]
  <2> DEFINE ev == bundle.events[i]
             res == event_results[i]
  <2>1. /\ res.envelope_ok <=> VerifyOk(ev.envelope, ev.record, FALSE)
        /\ res.inclusion_ok <=> Included(ev)
        /\ res.content_ok = ContentOk(ev)
        /\ res.payload_binding_ok = payload_hash_ok(ev.envelope, ev.record)
    BY <1>1 DEF JInv, RInv, ExactInv, EventResultExact, CInv, IInv, EventInv
  <2>2. res.envelope_ok \in BOOLEAN /\ res.inclusion_ok \in BOOLEAN
    <3>1. res \in EventResults
      BY <1>1
    <3> HIDE DEF res
    <3> QED BY <3>1 DEF EventResults
  <2>3. /\ VerifyOk(ev.envelope, ev.record, FALSE) \in BOOLEAN
        /\ Included(ev) \in BOOLEAN
    BY DEF VerifyOk, Included
  <2>4. /\ res.envelope_ok = VerifyOk(ev.envelope, ev.record, FALSE)
        /\ res.inclusion_ok = Included(ev)
    BY <2>1, <2>2, <2>3
  <2> QED BY <1>3, <2>1, <2>4 DEF EventVerdict
<1>5. ASSUME NEW i \in DOMAIN checkpoint_results
      PROVE  CheckpointVerdict(i) = [checkpoint_tx_id |-> LookedUp(i),
                                     merkle_root_ok   |-> RootBound(Entries[i])]
  <2>1. checkpoint_results[i].tx_id = LookedUp(i)
    BY <1>1 DEF JInv, RInv, CInv, TxInv, LookedUp, Entries
  <2>2. checkpoint_results[i].merkle_root_ok <=> RootBound(Entries[i])
    BY <1>1 DEF JInv, RInv, ExactInv, CheckpointExact
  <2>3. checkpoint_results[i].merkle_root_ok \in BOOLEAN /\ RootBound(Entries[i]) \in BOOLEAN
    <3>1. checkpoint_results[i] \in CheckpointResults
      BY <1>1
    <3>2. checkpoint_results[i].merkle_root_ok \in BOOLEAN
      BY <3>1 DEF CheckpointResults
    <3> QED BY <3>2 DEF RootBound
  <2>4. checkpoint_results[i].merkle_root_ok = RootBound(Entries[i])
    BY <2>2, <2>3
  <2> QED BY <2>1, <2>4 DEF CheckpointVerdict
<1>6. [i \in DOMAIN event_results |-> EventVerdict(i)] = OfflineEvents
  BY <1>2, <1>4 DEF OfflineEvents
<1>7. [i \in DOMAIN checkpoint_results |-> CheckpointVerdict(i)] = OfflineCheckpoints
  BY <1>2, <1>5 DEF OfflineCheckpoints
<1>8. notes \cap {"linkage", "agreement"} = {}
  BY DEF JInv, DoneInv, TraceNotes
<1>9. ASSUME gateways = <<>> PROVE status = OfflineStatus
  <2>1. status = Judged
    BY JudgementIs DEF JInv, DoneInv
  <2>2. Queried = {}
    BY <1>9 DEF Queried, on_chain_checked
  <2>3. ~AnyMismatch /\ AllConfirmed
    BY <2>2 DEF AnyMismatch, AllConfirmed
  <2>4. \A ev : EventSound(ev) <=> OfflineSound(ev)
    BY <1>3 DEF EventSound, OfflineSound
  <2>5. Unsound <=>
          \/ \E i \in DOMAIN Entries : ~EnvelopeBound(Entries[i]) \/ ~RootBound(Entries[i])
          \/ \E i \in DOMAIN bundle.events : ~OfflineSound(bundle.events[i])
    BY <2>4 DEF Unsound
  <2> QED BY <2>1, <2>3, <2>5 DEF Judged, OfflineStatus
<1> QED BY <1>6, <1>7, <1>8, <1>9

\* What is said of a frame depends on the chain and the trace.
LEMMA FramesStay ==
  ASSUME chain' = chain, bundle' = bundle
  PROVE  \A k : /\ Source(k)' = Source(k) /\ SourceStatus(k)' = SourceStatus(k)
               /\ \A list : ResultsOf(list, k)' = ResultsOf(list, k)
               /\ Composed(k)' <=> Composed(k)
<1>1. \A k : Source(k)' = Source(k) /\ SourceStatus(k)' = SourceStatus(k)
  BY OfflineStays DEF Source, SourceStatus
<1>2. \A k, list : ResultsOf(list, k)' = ResultsOf(list, k)
  BY VerifyStable DEF ResultsOf
<1>3. \A x, src, st, results : MadeOf(x, src, st, results)' <=> MadeOf(x, src, st, results)
  BY OfflineStays DEF MadeOf, VerdictOver, RollupOver, Unparseable
<1>4. \A k : Composed(k)' <=> Composed(k)
  BY <1>1, <1>2, <1>3 DEF Composed
<1> QED BY <1>1, <1>2, <1>4

\* A new export around the others pushes them one frame in.
LEMMA Shifted ==
  ASSUME IsSeq(chain), NEW x, chain' = <<x>> \o chain, bundle' = bundle,
         NEW k \in 0 .. Len(chain)
  PROVE  /\ Source(k + 1)' = Source(k) /\ SourceStatus(k + 1)' = SourceStatus(k)
         /\ \A list : ResultsOf(list, k + 1)' = ResultsOf(list, k)
<1>1. /\ Len(chain) \in Nat /\ Len(chain') = Len(chain) + 1
      /\ \A i \in 1 .. Len(chain) : chain'[i + 1] = chain[i]
  BY Prepended
<1>2. /\ k + 1 < Len(chain') <=> k < Len(chain)
      /\ k + 1 = Len(chain') <=> k = Len(chain)
      /\ k < Len(chain) => k + 1 \in 1 .. Len(chain) /\ chain'[(k + 1) + 1] = chain[k + 1]
  BY <1>1
<1>3. Source(k + 1)' = Source(k) /\ SourceStatus(k + 1)' = SourceStatus(k)
  BY <1>2, OfflineStays DEF Source, SourceStatus
<1>s. \A tx : Listed(tx, k + 1)' = Listed(tx, k)
  BY <1>3 DEF Listed
<1>4. \A rec : DataHashBound(rec, k + 1)' = DataHashBound(rec, k)
  BY <1>3, <1>s DEF DataHashBound
<1>5. \A rec : _verify_attestation(rec, k + 1)' = _verify_attestation(rec, k)
  BY <1>4 DEF _verify_attestation
<1> QED BY <1>3, <1>5 DEF ResultsOf

\* All records of a frame checked, its results are those of its records.
LEMMA CompleteResults ==
  ASSUME EInv, epc = "attest", Len(attestation_results) = Len(Records)
  PROVE  /\ attestation_results = ResultsOf(Records, level)
         /\ \A a \in 1 .. Len(Records) : ~Unparseable(Records[a])
<1>1. /\ attestation_results = [i \in 1 .. Len(attestation_results) |-> attestation_results[i]]
      /\ \A i \in 1 .. Len(attestation_results) :
           /\ ~Unparseable(Records[i])
           /\ attestation_results[i] = _verify_attestation(Records[i], level)
  BY DEF EInv, RecordsInv, IsSeq
<1>2. [i \in 1 .. Len(attestation_results) |-> attestation_results[i]]
      = [i \in 1 .. Len(attestation_results) |-> _verify_attestation(Records[i], level)]
  BY <1>1
<1> QED BY <1>1, <1>2 DEF ResultsOf

\* The verdict object and the rollup of the running frame.
LEMMA VerdictIs ==
  /\ VerdictCheckpoints = VerdictOver(source_result.checkpoints, attestation_results)
  /\ SourceRollup = RollupOver(source_result.status, attestation_results)
<1>1. VerdictCheckpoints = VerdictOver(source_result.checkpoints, attestation_results)
  BY DEF VerdictCheckpoints, VerdictOver
<1>2. SourceRollup = RollupOver(source_result.status, attestation_results)
  BY DEF SourceRollup, RollupOver, AnyAttestationFailed
<1> QED BY <1>1, <1>2

\* The export that is written is made of its source.
LEMMA FinishMakes ==
  ASSUME EInv, AlikeInv, FinishCompose, edits = 0
  PROVE  LET x == [defects            |-> {},
                   inline             |-> TRUE,
                   source_bundle_hash |-> Sha256(Source(0)),
                   attestations       |-> draft,
                   kernel_verdict     |-> BuildVerdict(SourceRollup),
                   checkpoints        |-> <<>>]
         IN MadeOf(x, Source(0), SourceStatus(0), ResultsOf(draft, 0))
<1>1. /\ epc = "attest" /\ level = 0 /\ Records = draft
      /\ Len(attestation_results) = Len(Records)
  BY DEF FinishCompose, Records
<1>2. /\ source_result.events = OfflineEvents
      /\ source_result.checkpoints = OfflineCheckpoints
      /\ source_result.status = SourceStatus(0)
  BY <1>1 DEF AlikeInv, Returned, EInv, FrameInv
<1>3. /\ attestation_results = ResultsOf(draft, 0)
      /\ \A a \in 1 .. Len(draft) : ~Unparseable(draft[a])
  BY <1>1, CompleteResults
<1>4. BuildVerdict(SourceRollup) =
        [status      |-> RollupOver(SourceStatus(0), ResultsOf(draft, 0)),
         events      |-> OfflineEvents,
         checkpoints |-> VerdictOver(OfflineCheckpoints, ResultsOf(draft, 0))]
  BY <1>2, <1>3, VerdictIs DEF BuildVerdict
<1> QED BY <1>3, <1>4 DEF MadeOf

\* Exports stay as they were made until one is altered.
LEMMA NextUnaltered == EInv /\ UnalteredInv /\ AlikeInv /\ [ExportNext]_evars => UnalteredInv'
<1> SUFFICES ASSUME EInv, UnalteredInv, AlikeInv, [ExportNext]_evars, edits' = 0
             PROVE  \A k \in 1 .. Len(chain') : Composed(k)'
  BY DEF UnalteredInv
<1>1. CASE Tamper \/ Reissue
  <2>1. edits' = edits + 1
    <3>1. CASE Tamper
      BY <3>1 DEF Tamper, Alter
    <3>2. CASE Reissue
      BY <3>2 DEF Reissue, Alter
    <3> QED BY <1>1, <3>1, <3>2
  <2>2. edits \in Nat
    BY BoundsAssumption DEF EInv, ArtifactsInv
  <2> QED BY <2>1, <2>2
<1>2. CASE FinishCompose
  <2> DEFINE x == [defects            |-> {},
                   inline             |-> TRUE,
                   source_bundle_hash |-> Sha256(Source(0)),
                   attestations       |-> draft,
                   kernel_verdict     |-> BuildVerdict(SourceRollup),
                   checkpoints        |-> <<>>]
  <2>1. chain' = <<x>> \o chain /\ edits' = edits /\ bundle' = bundle
    BY <1>2 DEF FinishCompose, vars, args
  <2>2. MadeOf(x, Source(0), SourceStatus(0), ResultsOf(draft, 0)) /\ x.attestations = draft
    BY <1>2, <2>1, FinishMakes
  <2> HIDE DEF x
  <2>3. IsSeq(chain)
    BY DEF EInv, ArtifactsInv
  <2>4. /\ Len(chain) \in Nat /\ Len(chain') = Len(chain) + 1
        /\ chain'[1] = x /\ \A i \in 1 .. Len(chain) : chain'[i + 1] = chain[i]
    BY <2>1, <2>3, Prepended
  <2>5. \A y, src, st, results : MadeOf(y, src, st, results)' <=> MadeOf(y, src, st, results)
    BY <2>1, OfflineStays DEF MadeOf, VerdictOver, RollupOver, Unparseable
  <2>6. ASSUME NEW k \in 0 .. Len(chain),
               MadeOf(chain'[k + 1], Source(k), SourceStatus(k),
                      ResultsOf(chain'[k + 1].attestations, k))
        PROVE  Composed(k + 1)'
    BY <2>1, <2>3, <2>5, <2>6, Shifted DEF Composed
  <2>7. Composed(0 + 1)'
    <3>1. 0 \in 0 .. Len(chain) /\ chain'[0 + 1] = x
      BY <2>4
    <3> QED BY <2>2, <2>6, <3>1
  <2>8. ASSUME NEW k \in 1 .. Len(chain)
        PROVE  Composed(k + 1)'
    <3>1. k \in 0 .. Len(chain) /\ chain'[k + 1] = chain[k]
      BY <2>4
    <3>2. Composed(k)
      BY <2>1 DEF UnalteredInv
    <3> QED BY <2>6, <3>1, <3>2 DEF Composed
  <2>9. ASSUME NEW k \in 1 .. Len(chain')
        PROVE  \E j \in {0} \cup 1 .. Len(chain) : k = j + 1
    <3>1. k - 1 \in {0} \cup 1 .. Len(chain) /\ k = (k - 1) + 1
      BY <2>4
    <3> QED BY <3>1
  <2> QED BY <2>7, <2>8, <2>9
<1>3. CASE \/ StartCompose \/ StartVerify \/ RejectExport \/ MalformedExport
           \/ SourceByReference \/ EnterExport \/ TraceStep \/ TraceReturns
           \/ CheckAttestation \/ MalformedAttestation \/ RollupExport \/ ComposeThrows
           \/ UNCHANGED evars
  <2>1. chain' = chain /\ edits' = edits
    BY <1>3 DEF StartCompose, StartVerify, Enter, RejectExport, MalformedExport,
                SourceByReference, EnterExport, TraceStep, TraceReturns, CheckAttestation,
                MalformedAttestation, RollupExport, ComposeThrows, Answer, evars, exports
  <2>2. bundle' = bundle
    BY <1>3, ArgumentsStay
    DEF StartCompose, StartVerify, Enter, RejectExport, MalformedExport,
        SourceByReference, EnterExport, TraceStep, TraceReturns, CheckAttestation,
        MalformedAttestation, RollupExport, ComposeThrows, Answer, evars, vars, args
  <2> QED BY <2>1, <2>2, FramesStay DEF UnalteredInv
<1> QED BY <1>1, <1>2, <1>3 DEF ExportNext, CallStep

\* What is returned to a frame, if it is what the exports have cached.
LEMMA AnswerAlike ==
  ASSUME EInv, AlikeInv, NEW k, NEW r, Answer(k, r), epc # "idle",
         edits = 0 /\ content = NoContent =>
           /\ r.events = OfflineEvents
           /\ r.checkpoints = OfflineCheckpoints
           /\ r.notes \cap {"linkage", "agreement"} = {}
           /\ gateways = <<>> => r.status = SourceStatus(k)
  PROVE  AlikeInv'
<1>1. /\ level' = k /\ source_result' = r
      /\ edits' = edits /\ call' = call /\ chain' = chain
      /\ bundle' = bundle /\ gateways' = gateways /\ content' = content
  BY DEF Answer, exports, vars, args
<1>2. /\ OfflineEvents' = OfflineEvents /\ OfflineCheckpoints' = OfflineCheckpoints
      /\ SourceStatus(k)' = SourceStatus(k)
  BY <1>1, OfflineStays, FramesStay
<1>3. SourceStatus(level)' = SourceStatus(k)
  BY <1>1, <1>2 DEF SourceStatus
<1>4. call' = "compose" /\ epc' # "idle" => gateways' = <<>> /\ content' = NoContent
  BY <1>1 DEF AlikeInv
<1> QED BY <1>1, <1>2, <1>3, <1>4 DEF AlikeInv

\* No unaltered export is refused, and its rollup is the cached one.
LEMMA UnalteredReturns ==
  ASSUME EInv, UnalteredInv, AlikeInv, edits = 0
  PROVE  /\ ~RejectExport /\ ~MalformedExport /\ ~SourceByReference /\ ~MalformedAttestation
         /\ RollupExport /\ content = NoContent =>
              /\ LinkageOk /\ AgreementOk
              /\ gateways = <<>> => SourceRollup = SourceStatus(level - 1)
<1>1. Len(chain) \in Nat /\ level \in 0 .. Len(chain)
  BY FramesAreLists DEF EInv, FrameInv
<1>2. epc = "enter" => Inner.defects = {} /\ Inner.inline
  <2>1. epc = "enter" => level + 1 \in 1 .. Len(chain)
    <3>1. epc = "enter" => level < Len(chain)
      BY DEF EInv, FrameInv
    <3> QED BY <1>1, <3>1
  <2> QED BY <2>1 DEF UnalteredInv, Composed, MadeOf, Inner
<1>3. ~RejectExport /\ ~MalformedExport /\ ~SourceByReference
  BY <1>2 DEF RejectExport, MalformedExport, SourceByReference, Entered
<1>4. ~MalformedAttestation
  <2> SUFFICES ASSUME MalformedAttestation PROVE FALSE
    OBVIOUS
  <2>1. /\ level \in 1 .. Len(chain) /\ Records = chain[level].attestations
        /\ Len(attestation_results) < Len(Records) /\ Unparseable(NextRecord)
    BY <1>1 DEF MalformedAttestation, Remaining, Records
  <2>2. \A a \in 1 .. Len(Records) : ~Unparseable(Records[a])
    BY <2>1 DEF UnalteredInv, Composed, MadeOf
  <2>3. Len(attestation_results) \in Nat
    BY DEF EInv, RecordsInv, IsSeq
  <2>4. Len(Records) \in Nat
    BY <2>1, FramesAreLists DEF EInv
  <2>5. Len(attestation_results) + 1 \in 1 .. Len(Records)
    BY <2>1, <2>3, <2>4
  <2> QED BY <2>1, <2>2, <2>5 DEF NextRecord
<1>5. ASSUME RollupExport, content = NoContent
      PROVE  /\ LinkageOk /\ AgreementOk
             /\ gateways = <<>> => SourceRollup = SourceStatus(level - 1)
  <2>1. /\ level \in 1 .. Len(chain) /\ Records = chain[level].attestations
        /\ epc = "attest" /\ Len(attestation_results) = Len(Records)
    BY <1>1, <1>5 DEF RollupExport, Records
  <2>2. /\ source_result.events = OfflineEvents
        /\ source_result.checkpoints = OfflineCheckpoints
        /\ gateways = <<>> => source_result.status = SourceStatus(level)
    BY <1>5, <2>1 DEF AlikeInv, Returned
  <2>3. attestation_results = ResultsOf(Records, level)
    BY <2>1, CompleteResults
  <2> DEFINE cached == chain[level].kernel_verdict
  <2>4. /\ chain[level].source_bundle_hash = Sha256(Source(level))
        /\ cached = [status      |-> RollupOver(SourceStatus(level), attestation_results),
                     events      |-> OfflineEvents,
                     checkpoints |-> VerdictOver(OfflineCheckpoints, attestation_results)]
    BY <2>1, <2>3 DEF UnalteredInv, Composed, MadeOf
  <2>5. LinkageOk
    BY <2>4 DEF LinkageOk
  <2>6. AgreementOk
    <3>1. cached.events = OfflineEvents /\ cached.checkpoints = VerdictCheckpoints
      BY <2>2, <2>4, VerdictIs
    <3>2. \A s : /\ BuildVerdict(s).events = OfflineEvents
                 /\ BuildVerdict(s).checkpoints = VerdictCheckpoints
      BY <2>2 DEF BuildVerdict
    <3> HIDE DEF cached
    <3>3. ProjectForAgreement(cached) = ProjectForAgreement(BuildVerdict(source_result.status))
      BY <3>1, <3>2 DEF ProjectForAgreement
    <3> QED BY <3>3 DEF AgreementOk, cached
  <2>7. ASSUME gateways = <<>> PROVE SourceRollup = SourceStatus(level - 1)
    <3>1. SourceRollup = cached.status
      BY <2>2, <2>4, <2>7, VerdictIs
    <3>2. level - 1 < Len(chain) /\ (level - 1) + 1 = level
      BY <1>1, <2>1
    <3> QED BY <3>1, <3>2 DEF SourceStatus
  <2> QED BY <2>5, <2>6, <2>7
<1> QED BY <1>3, <1>4, <1>5

\* Calls go on returning what the exports have cached.
LEMMA NextAlike ==
  EInv /\ JInv /\ UnalteredInv /\ AlikeInv /\ [ExportNext]_evars => AlikeInv'
<1> SUFFICES ASSUME EInv, JInv, UnalteredInv, AlikeInv, [ExportNext]_evars
             PROVE  AlikeInv'
  OBVIOUS
<1>1. CASE StartCompose \/ StartVerify
  <2>1. epc' \in {"enter", "trace"}
    BY <1>1 DEF StartCompose, StartVerify, Enter
  <2>2. call' = "compose" => gateways' = <<>> /\ content' = NoContent
    BY <1>1 DEF StartCompose, StartVerify, Enter
  <2> QED BY <2>1, <2>2 DEF AlikeInv, Returned
<1>2. CASE \/ RejectExport \/ MalformedExport \/ SourceByReference \/ MalformedAttestation
  <2>1. edits # 0
    BY <1>2, UnalteredReturns
  <2>2. edits' = edits /\ call' = call /\ gateways' = gateways /\ content' = content
    BY <1>2 DEF RejectExport, MalformedExport, SourceByReference, MalformedAttestation,
                Answer, exports, vars, args
  <2>3. epc # "idle"
    BY <1>2 DEF RejectExport, MalformedExport, SourceByReference, Entered,
                MalformedAttestation, Remaining
  <2> QED BY <2>1, <2>2, <2>3 DEF AlikeInv
<1>3. CASE EnterExport \/ TraceStep
  <2>1. /\ epc' \in {"enter", "trace"} /\ epc # "idle"
        /\ call' = call /\ gateways' = gateways /\ content' = content
    <3>1. CASE EnterExport
      BY <3>1 DEF EnterExport, Entered, vars, args
    <3>2. CASE TraceStep
      BY <3>2, ArgumentsStay DEF TraceStep, frame, args
    <3> QED BY <1>3, <3>1, <3>2
  <2> QED BY <2>1 DEF AlikeInv, Returned
<1>4. CASE TraceReturns
  <2> DEFINE evs == [i \in DOMAIN event_results |-> EventVerdict(i)]
             cps == [i \in DOMAIN checkpoint_results |-> CheckpointVerdict(i)]
             r == [status |-> status, checkpoints |-> cps, events |-> evs, notes |-> notes]
  <2>1. Answer(level, r) /\ epc = "trace" /\ pc = "done"
    BY <1>4 DEF TraceReturns
  <2>2. content = NoContent =>
          /\ evs = OfflineEvents /\ cps = OfflineCheckpoints
          /\ notes \cap {"linkage", "agreement"} = {}
          /\ gateways = <<>> => status = OfflineStatus
    BY <2>1, OfflineReturned
  <2>3. r.events = evs /\ r.checkpoints = cps /\ r.notes = notes /\ r.status = status
    OBVIOUS
  <2>4. SourceStatus(level) = OfflineStatus
    <3>1. level = Len(chain) /\ Len(chain) \in Nat
      BY <2>1, FramesAreLists DEF EInv, FrameInv
    <3> QED BY <3>1 DEF SourceStatus
  <2> HIDE DEF r, evs, cps
  <2> QED BY <2>1, <2>2, <2>3, <2>4, AnswerAlike
<1>5. CASE RollupExport
  <2> DEFINE new == source_result.notes
                      \cup (IF LinkageOk THEN {} ELSE {"linkage"})
                      \cup (IF AgreementOk THEN {} ELSE {"agreement"})
             r == [status |-> IF LinkageOk /\ AgreementOk THEN SourceRollup ELSE "failed",
                   checkpoints |-> source_result.checkpoints,
                   events |-> source_result.events, notes |-> new]
  <2>1. Answer(level - 1, r) /\ epc = "attest"
    BY <1>5 DEF RollupExport
  <2>2. /\ r.events = source_result.events /\ r.checkpoints = source_result.checkpoints
        /\ r.notes = new
        /\ LinkageOk /\ AgreementOk => r.status = SourceRollup /\ new = source_result.notes
    OBVIOUS
  <2> HIDE DEF r, new
  <2>3. ASSUME edits = 0, content = NoContent
        PROVE  /\ r.events = OfflineEvents
               /\ r.checkpoints = OfflineCheckpoints
               /\ r.notes \cap {"linkage", "agreement"} = {}
               /\ gateways = <<>> => r.status = SourceStatus(level - 1)
    <3>1. /\ LinkageOk /\ AgreementOk
          /\ gateways = <<>> => SourceRollup = SourceStatus(level - 1)
      BY <1>5, <2>3, UnalteredReturns
    <3>2. /\ source_result.events = OfflineEvents
          /\ source_result.checkpoints = OfflineCheckpoints
          /\ source_result.notes \cap {"linkage", "agreement"} = {}
      BY <2>1, <2>3 DEF AlikeInv, Returned
    <3> QED BY <2>2, <3>1, <3>2
  <2> QED BY <2>1, <2>3, AnswerAlike
<1>6. CASE CheckAttestation \/ UNCHANGED evars
  <2>1. /\ epc' = epc /\ edits' = edits /\ call' = call /\ level' = level
        /\ source_result' = source_result /\ chain' = chain
        /\ bundle' = bundle /\ gateways' = gateways /\ content' = content
    BY <1>6 DEF CheckAttestation, exports, frame, evars, vars, args
  <2>2. /\ OfflineEvents' = OfflineEvents /\ OfflineCheckpoints' = OfflineCheckpoints
        /\ SourceStatus(level)' = SourceStatus(level)
    <3>1. \A k : SourceStatus(k)' = SourceStatus(k)
      BY <2>1, FramesStay
    <3> QED BY <2>1, <3>1, OfflineStays DEF SourceStatus
  <2> QED BY <2>1, <2>2 DEF AlikeInv, Returned
<1>7. CASE ComposeThrows \/ FinishCompose \/ Tamper \/ Reissue
  <2>1. epc' = "idle"
    <3>1. CASE ComposeThrows \/ FinishCompose
      BY <3>1 DEF ComposeThrows, FinishCompose
    <3>2. CASE Tamper
      BY <3>2 DEF Tamper, Alter
    <3>3. CASE Reissue
      BY <3>3 DEF Reissue, Alter
    <3> QED BY <1>7, <3>1, <3>2, <3>3
  <2> QED BY <2>1 DEF AlikeInv, Returned
<1> QED BY <1>1, <1>2, <1>3, <1>4, <1>5, <1>6, <1>7 DEF ExportNext, CallStep

\* Composing and verifying agree, all along.
LEMMA AlikeInvariance == ExportSpec => [](UnalteredInv /\ AlikeInv)
<1>1. ExportInit => UnalteredInv /\ AlikeInv
  <2>1. ExportInit => 1 .. Len(chain) = {}
    BY DEF ExportInit
  <2>2. ExportInit => AlikeInv
    BY DEF ExportInit, Idle, AlikeInv, Returned
  <2> QED BY <2>1, <2>2 DEF UnalteredInv
<1> QED BY <1>1, NextUnaltered, NextAlike, ComposedAreGiven, ExportInvariance,
           JudgedInvariance, PTL DEF ExportSpec

(***************************************************************************)
(* verify_evidence_bundle returns for an export that nobody altered, from  *)
(* composeExport to the verifier, the status the composer has cached; no   *)
(* gateway makes its linkage or its agreement fail.                        *)
(***************************************************************************)
THEOREM UnalteredExportsRoundTrip == ExportSpec => []RoundTrip
<1>1. ASSUME EInv, AlikeInv PROVE RoundTrip
  <2> SUFFICES ASSUME epc = "done", edits = 0, chain # <<>>, content = NoContent
               PROVE  /\ gateways = <<>> => source_result.status = chain[1].kernel_verdict.status
                      /\ source_result.notes \cap {"linkage", "agreement"} = {}
    BY DEF RoundTrip
  <2>1. /\ source_result.notes \cap {"linkage", "agreement"} = {}
        /\ gateways = <<>> => source_result.status = SourceStatus(level)
    BY <1>1 DEF AlikeInv, Returned
  <2>2. level = 0
    BY <1>1 DEF EInv, FrameInv
  <2>3. 0 < Len(chain)
    <3>1. IsSeq(chain)
      BY <1>1 DEF EInv, ArtifactsInv
    <3> QED BY <3>1 DEF IsSeq
  <2> QED BY <2>1, <2>2, <2>3 DEF SourceStatus
<1> QED BY <1>1, ComposedAreGiven, ExportInvariance, AlikeInvariance, PTL

-----------------------------------------------------------------------------
(* The exports of the corpus: one export around a trace, verified offline. *)

Linked(x) == x.source_bundle_hash = Sha256(bundle)
FoundIn(x) == ResultsOf(x.attestations, 1)
Agrees(x) ==
  /\ x.kernel_verdict.events = OfflineEvents
  /\ x.kernel_verdict.checkpoints = VerdictOver(OfflineCheckpoints, FoundIn(x))

\* What such an export is found to be.
Refused(x, r) ==
  (x.defects \cap Malforming = {} /\ x.defects \cap Tampering # {}) =>
    r.status = "failed" /\ r.notes = {"wrapper"}

ByReference(x, r) ==
  (x.defects = {} /\ ~x.inline) =>
    r.status = "partial" /\ r.notes = {"unavailable offline"}

Illegible(x, r) ==
  (/\ x.defects = {} /\ x.inline
   /\ \E a \in 1 .. Len(x.attestations) : Unparseable(x.attestations[a])) =>
    r.status = "malformed" /\ r.notes = {"malformed"}

RolledUp(x, r) ==
  (/\ x.defects = {} /\ x.inline
   /\ \A a \in 1 .. Len(x.attestations) : ~Unparseable(x.attestations[a])) =>
    /\ r.status = IF Linked(x) /\ Agrees(x) THEN RollupOver(OfflineStatus, FoundIn(x)) ELSE "failed"
    /\ "wrapper" \notin r.notes
    /\ "linkage" \in r.notes <=> ~Linked(x)
    /\ "agreement" \in r.notes <=> ~Agrees(x)

Decided(x, r) == Refused(x, r) /\ ByReference(x, r) /\ Illegible(x, r) /\ RolledUp(x, r)

\* What the trace in it is found to be.
FoundInside(r) ==
  /\ r.events = OfflineEvents /\ r.checkpoints = OfflineCheckpoints
  /\ r.notes \cap {"wrapper", "linkage", "agreement"} = {}
  /\ r.status = OfflineStatus

\* The call is of this kind.
OneExport ==
  /\ Len(chain) = 1 /\ WrapperVerdict = "trace"
  /\ call = "verify" /\ gateways = <<>> /\ content = NoContent

OneInv ==
  /\ WrapperVerdict = "trace" => "wrapper" \notin notes
  /\ OneExport => \A x, r : x = chain[1] /\ r = source_result =>
                    /\ epc = "attest" => FoundInside(r)
                    /\ epc = "done" => Decided(x, r)

\* None of this changes under a call.
LEMMA OneStays ==
  ASSUME chain' = chain, bundle' = bundle
  PROVE  /\ WrapperVerdict' = WrapperVerdict
         /\ \A r : FoundInside(r)' <=> FoundInside(r)
         /\ \A x, r : Decided(x, r)' <=> Decided(x, r)
<1>1. WrapperVerdict' = WrapperVerdict
  BY DEF WrapperVerdict, Authentic
<1>2. \A r : FoundInside(r)' <=> FoundInside(r)
  BY OfflineStays DEF FoundInside
<1>3. \A x : FoundIn(x)' = FoundIn(x)
  BY VerifyStable DEF FoundIn, ResultsOf
<1>4. \A x : (Linked(x)' <=> Linked(x)) /\ (Agrees(x)' <=> Agrees(x))
  BY <1>3, OfflineStays DEF Linked, Agrees, VerdictOver
<1>5. \A x, r : RolledUp(x, r)' <=> RolledUp(x, r)
  <2>1. \A st, results : RollupOver(st, results)' = RollupOver(st, results)
    BY DEF RollupOver
  <2>2. \A rec : Unparseable(rec)' <=> Unparseable(rec)
    BY DEF Unparseable
  <2> QED BY <1>3, <1>4, <2>1, <2>2, OfflineStays DEF RolledUp
<1>6. \A x, r : (Refused(x, r)' <=> Refused(x, r)) /\ (ByReference(x, r)' <=> ByReference(x, r))
  BY Zenon DEF Refused, ByReference
<1>7. \A x, r : Illegible(x, r)' <=> Illegible(x, r)
  BY DEF Illegible, Unparseable
<1>8. \A x, r : Decided(x, r)' <=> Decided(x, r)
  BY <1>5, <1>6, <1>7 DEF Decided
<1> QED BY <1>1, <1>2, <1>8

\* A return that finds what there is to be found.
LEMMA AnswerOne ==
  ASSUME OneInv, NEW k, NEW r, Answer(k, r),
         OneExport => IF k = 0 THEN Decided(chain[1], r) ELSE FoundInside(r)
  PROVE  OneInv'
<1>1. /\ source_result' = r /\ call' = call /\ chain' = chain
      /\ bundle' = bundle /\ gateways' = gateways /\ content' = content /\ notes' = notes
      /\ epc' = IF k = 0 /\ call = "verify" THEN "done" ELSE "attest"
  BY DEF Answer, exports, vars, args
<1>2. OneExport' <=> OneExport
  BY <1>1, OneStays DEF OneExport
<1>3. WrapperVerdict' = WrapperVerdict
  BY <1>1, OneStays
<1>4. OneExport => /\ epc' = "attest" => FoundInside(r)
                   /\ epc' = "done" => Decided(chain[1], r)
  BY <1>1 DEF OneExport
<1>5. (\A x : Decided(x, r)' <=> Decided(x, r)) /\ (FoundInside(r)' <=> FoundInside(r))
  BY <1>1, OneStays
<1> QED BY <1>1, <1>2, <1>3, <1>4, <1>5 DEF OneInv

\* What a wrapper that is refused, or has no source, is found to be.
LEMMA RefusedOne ==
  ASSUME EInv, OneInv, RejectExport \/ MalformedExport \/ SourceByReference
  PROVE  OneInv'
<1>1. epc = "enter"
  BY Zenon DEF RejectExport, MalformedExport, SourceByReference, Entered
<1>2. ASSUME OneExport PROVE level = 0 /\ Inner = chain[1]
  <2>1. level \in 0 .. 1 /\ level < 1
    BY <1>1, <1>2 DEF EInv, FrameInv, OneExport
  <2> QED BY <2>1 DEF Inner
<1>3. CASE RejectExport
  <2> DEFINE r == IF Inner.defects \cap Malforming # {}
                  THEN NoVerdict("malformed", {"malformed"})
                  ELSE NoVerdict("failed", {"wrapper"})
  <2>1. Answer(level, r) /\ Inner.defects \cap (Malforming \cup Tampering) # {}
    BY <1>3 DEF RejectExport
  <2>2. /\ Inner.defects # {}
        /\ Inner.defects \cap Malforming = {} => r.status = "failed" /\ r.notes = {"wrapper"}
    BY <2>1 DEF NoVerdict
  <2> HIDE DEF r
  <2>3. OneExport => Decided(chain[1], r)
    BY <1>2, <2>2, Zenon DEF Decided, Refused, ByReference, Illegible, RolledUp
  <2> QED BY <1>2, <2>1, <2>3, AnswerOne
<1>4. CASE MalformedExport
  <2> DEFINE r == NoVerdict("malformed", {"malformed"})
  <2>1. Answer(level, r) /\ Inner.defects \cap (Malforming \cup Tampering) = {}
    BY <1>4, Zenon DEF MalformedExport, Entered
  <2>2. Inner.defects # {}
    BY <1>4, Zenon DEF MalformedExport
  <2>3. Inner.defects \cap Tampering = {}
    BY ONLY <2>1
  <2> HIDE DEF r
  <2>4. OneExport => Decided(chain[1], r)
    BY <1>2, <2>2, <2>3, Zenon DEF Decided, Refused, ByReference, Illegible, RolledUp
  <2> QED BY <1>2, <2>1, <2>4, AnswerOne
<1>5. CASE SourceByReference
  <2>1. Inner.defects \cap (Malforming \cup Tampering) = {} /\ ~Inner.inline
    BY <1>5, Zenon DEF SourceByReference, Entered
  <2>2. Inner.defects \cap Tampering = {}
    BY <2>1
  <2> DEFINE r == NoVerdict("partial", {"unavailable offline"})
  <2>3. r.status = "partial" /\ r.notes = {"unavailable offline"}
    BY Zenon DEF NoVerdict
  <2>4. Answer(level, r)
    BY <1>5, Zenon DEF SourceByReference
  <2> HIDE DEF r
  <2>5. OneExport => Decided(chain[1], r)
    BY <1>2, <2>1, <2>2, <2>3, Zenon DEF Decided, Refused, ByReference, Illegible, RolledUp
  <2> QED BY <1>2, <2>4, <2>5, AnswerOne
<1> QED BY <1>3, <1>4, <1>5

\* What the trace returns to an export.
LEMMA TraceOne ==
  ASSUME EInv, JInv, OneInv, TraceReturns
  PROVE  OneInv'
<1> DEFINE evs == [i \in DOMAIN event_results |-> EventVerdict(i)]
           cps == [i \in DOMAIN checkpoint_results |-> CheckpointVerdict(i)]
           r == [status |-> status, checkpoints |-> cps, events |-> evs, notes |-> notes]
<1>1. Answer(level, r) /\ epc = "trace" /\ pc = "done"
  BY DEF TraceReturns
<1>2. r.events = evs /\ r.checkpoints = cps /\ r.notes = notes /\ r.status = status
  OBVIOUS
<1> HIDE DEF r, evs, cps
<1>3. ASSUME OneExport PROVE level = 1 /\ FoundInside(r)
  <2>1. /\ evs = OfflineEvents /\ cps = OfflineCheckpoints
        /\ notes \cap {"linkage", "agreement"} = {}
        /\ status = OfflineStatus
    BY <1>1, <1>3, OfflineReturned DEF OneExport, evs, cps
  <2>2. "wrapper" \notin notes
    BY <1>3 DEF OneInv, OneExport
  <2>3. level = 1
    BY <1>1, <1>3 DEF EInv, FrameInv, OneExport
  <2> QED BY <1>2, <2>1, <2>2, <2>3 DEF FoundInside
<1> QED BY <1>1, <1>3, AnswerOne

\* An attestation record that cannot be parsed.
LEMMA IllegibleOne ==
  ASSUME EInv, OneInv, MalformedAttestation
  PROVE  OneInv'
<1> DEFINE r == NoVerdict("malformed", {"malformed"})
<1>1. /\ Answer(level - 1, r) /\ epc = "attest" /\ level > 0
      /\ Len(attestation_results) < Len(Records) /\ Unparseable(NextRecord)
  BY DEF MalformedAttestation, Remaining
<1>2. r.status = "malformed" /\ r.notes = {"malformed"}
  BY DEF NoVerdict
<1> HIDE DEF r
<1>3. ASSUME OneExport PROVE level = 1 /\ Decided(chain[1], r)
  <2>1. level = 1
    BY <1>1, <1>3 DEF EInv, FrameInv, OneExport
  <2>2. chain[1].defects = {} /\ chain[1].inline
    BY <1>1, <2>1 DEF EInv, EnteredInv
  <2>3. Records = chain[1].attestations
    BY <2>1 DEF Records
  <2>4. Len(attestation_results) \in Nat /\ Len(Records) \in Nat
    <3>1. Len(attestation_results) \in Nat
      BY DEF EInv, RecordsInv, IsSeq
    <3>2. 1 \in 1 .. Len(chain)
      BY <1>3 DEF OneExport
    <3> QED BY <2>3, <3>1, <3>2, FramesAreLists DEF EInv
  <2>5. Len(attestation_results) + 1 \in 1 .. Len(Records)
    BY <1>1, <2>4
  <2>6. \E a \in 1 .. Len(chain[1].attestations) : Unparseable(chain[1].attestations[a])
    BY <1>1, <2>3, <2>5 DEF NextRecord
  <2> QED BY <1>2, <2>1, <2>2, <2>6, Zenon DEF Decided, Refused, ByReference, Illegible, RolledUp
<1> QED BY <1>1, <1>3, AnswerOne

\* The rollup of an export.
LEMMA RollupOne ==
  ASSUME EInv, OneInv, RollupExport
  PROVE  OneInv'
<1> DEFINE new == source_result.notes
                    \cup (IF LinkageOk THEN {} ELSE {"linkage"})
                    \cup (IF AgreementOk THEN {} ELSE {"agreement"})
           r == [status |-> IF LinkageOk /\ AgreementOk THEN SourceRollup ELSE "failed",
                 checkpoints |-> source_result.checkpoints,
                 events |-> source_result.events, notes |-> new]
<1>1. /\ Answer(level - 1, r) /\ epc = "attest" /\ level > 0
      /\ Len(attestation_results) = Len(Records)
  BY DEF RollupExport
<1>2. /\ r.status = IF LinkageOk /\ AgreementOk THEN SourceRollup ELSE "failed"
      /\ r.notes = new
  OBVIOUS
<1> HIDE DEF r
<1>3. ASSUME OneExport PROVE level = 1 /\ Decided(chain[1], r)
  <2> DEFINE x == chain[1]
  <2>1. level = 1 /\ Len(chain) = 1
    BY <1>1, <1>3 DEF EInv, FrameInv, OneExport
  <2>2. x.defects = {} /\ x.inline
    BY <1>1, <2>1 DEF EInv, EnteredInv
  <2>3. attestation_results = FoundIn(x) /\ \A a \in 1 .. Len(x.attestations) : ~Unparseable(x.attestations[a])
    BY <1>1, <2>1, CompleteResults DEF Records, FoundIn
  <2>4. FoundInside(source_result)
    BY <1>1, <1>3 DEF OneInv
  <2>5. LinkageOk <=> Linked(x)
    BY <2>1 DEF LinkageOk, Linked, Source
  <2>6. AgreementOk <=> Agrees(x)
    <3>1. \A s : /\ BuildVerdict(s).events = OfflineEvents
                 /\ BuildVerdict(s).checkpoints = VerdictOver(OfflineCheckpoints, FoundIn(x))
      BY <2>3, <2>4, VerdictIs DEF BuildVerdict, FoundInside
    <3>2. AgreementOk <=> /\ x.kernel_verdict.events = BuildVerdict(source_result.status).events
                          /\ x.kernel_verdict.checkpoints
                               = BuildVerdict(source_result.status).checkpoints
      BY <2>1 DEF AgreementOk, ProjectForAgreement
    <3> QED BY <3>1, <3>2 DEF Agrees
  <2>7. SourceRollup = RollupOver(OfflineStatus, FoundIn(x))
    BY <2>3, <2>4, VerdictIs DEF FoundInside
  <2>8. "wrapper" \notin new /\ ("linkage" \in new <=> ~Linked(x)) /\ ("agreement" \in new <=> ~Agrees(x))
    BY <2>4, <2>5, <2>6 DEF FoundInside
  <2> HIDE DEF new, x
  <2>9. RolledUp(x, r)
    BY <1>2, <2>5, <2>6, <2>7, <2>8 DEF RolledUp
  <2> QED BY <2>1, <2>2, <2>3, <2>9, Zenon DEF Decided, Refused, ByReference, Illegible, x
<1> QED BY <1>1, <1>3, AnswerOne

\* A trace whose wrapper is in order never notes that it is not.
LEMMA WrapperNote ==
  ASSUME Next, WrapperVerdict = "trace", "wrapper" \notin notes
  PROVE  "wrapper" \notin notes'
<1>1. Authentic
  <2> SUFFICES ASSUME ~Authentic PROVE FALSE
    OBVIOUS
  <2>1. WrapperVerdict = IF bundle.defects \cap Malforming # {} THEN "malformed" ELSE "failed"
    BY Zenon DEF WrapperVerdict
  <2> QED BY <2>1
<1>2. ~RejectMalformed /\ ~RejectTampered
  BY <1>1 DEF RejectMalformed, RejectTampered, Authentic
<1>3. CASE UnknownBody
  <2>1. WrapperVerdict = "partial"
    BY <1>3 DEF UnknownBody, WrapperVerdict
  <2> QED BY <2>1
<1>4. CASE RejectLists
  <2>1. WrapperVerdict = "malformed"
    BY <1>4, Zenon DEF RejectLists, WrapperVerdict
  <2> QED BY <2>1
<1>5. CASE RollupFailed \/ RollupVerified \/ RollupUndetermined
  BY <1>5 DEF RollupFailed, RollupVerified, RollupUndetermined, Return
<1>6. CASE RollupUnavailable \/ NoFetchImplementation
  <2>1. PICK new : notes' = notes \cup {new} /\ new # "wrapper"
    BY <1>6, Zenon DEF RollupUnavailable, NoFetchImplementation, Return
  <2> QED BY <2>1
<1>7. CASE EnterTrace \/ CheckCheckpoint \/ CheckpointsDone \/ CheckEvent \/ EventsDone
           \/ SkipUnresolved \/ ProbeGateway \/ FinishCheckpoint \/ RefetchDone
  <2>1. notes' = notes
    BY <1>7, Zenon DEF EnterTrace, CheckCheckpoint, CheckpointsDone, CheckEvent, EventsDone,
                SkipUnresolved, ProbeGateway, FinishCheckpoint, RefetchDone
  <2> QED BY <2>1
<1> QED BY <1>2, <1>3, <1>4, <1>5, <1>6, <1>7, Zenon DEF Next

\* Every step finds what there is to be found.
LEMMA NextOne == EInv /\ JInv /\ OneInv /\ [ExportNext]_evars => OneInv'
<1> SUFFICES ASSUME EInv, JInv, OneInv, [ExportNext]_evars PROVE OneInv'
  OBVIOUS
<1>1. CASE StartCompose \/ StartVerify
  <2>1. epc' \in {"enter", "trace"} /\ notes' = {}
    <3>1. PICK caller, gws, fetches, side : Enter(caller, gws, fetches, side)
      BY <1>1, Zenon DEF StartCompose, StartVerify
    <3> QED BY <3>1 DEF Enter
  <2> QED BY <2>1 DEF OneInv
<1>2. CASE EnterExport \/ TraceStep
  <2>1. epc' \in {"enter", "trace"} /\ chain' = chain /\ bundle' = bundle
    <3>1. CASE EnterExport
      <4>1. /\ epc' = IF level + 1 = Len(chain) THEN "trace" ELSE "enter"
            /\ UNCHANGED <<exports, vars>>
        BY <3>1, Zenon DEF EnterExport
      <4> QED BY <4>1 DEF exports, vars, args
    <3>2. CASE TraceStep
      BY <3>2, ArgumentsStay DEF TraceStep, Entered, exports, args, EInv, FrameInv
    <3> QED BY <1>2, <3>1, <3>2
  <2>2. WrapperVerdict' = WrapperVerdict
    BY <2>1, OneStays
  <2>3. WrapperVerdict = "trace" => "wrapper" \notin notes'
    <3>1. CASE EnterExport
      <4>1. UNCHANGED vars
        BY <3>1, Zenon DEF EnterExport
      <4> QED BY <4>1 DEF vars, OneInv
    <3>2. CASE TraceStep
      BY <3>2, WrapperNote DEF TraceStep, OneInv
    <3> QED BY <1>2, <3>1, <3>2
  <2> QED BY <2>1, <2>2, <2>3 DEF OneInv
<1>3. CASE CheckAttestation \/ UNCHANGED evars
  <2>1. /\ epc' = epc /\ call' = call /\ source_result' = source_result
        /\ chain' = chain /\ bundle' = bundle /\ gateways' = gateways
        /\ content' = content /\ notes' = notes
    BY <1>3 DEF CheckAttestation, exports, frame, evars, vars, args
  <2>2. /\ WrapperVerdict' = WrapperVerdict
        /\ \A r : FoundInside(r)' <=> FoundInside(r)
        /\ \A x, r : Decided(x, r)' <=> Decided(x, r)
    BY <2>1, OneStays
  <2>3. OneExport' <=> OneExport
    BY <2>1, <2>2 DEF OneExport
  <2> QED BY <2>1, <2>2, <2>3 DEF OneInv
<1>4. CASE ComposeThrows \/ FinishCompose \/ Tamper \/ Reissue
  <2>1. epc' = "idle" /\ bundle' = bundle /\ notes' = notes
    <3>1. CASE ComposeThrows \/ FinishCompose
      BY <3>1 DEF ComposeThrows, FinishCompose, vars, args
    <3>2. CASE Tamper
      BY <3>2 DEF Tamper, Alter, vars, args
    <3>3. CASE Reissue
      BY <3>3 DEF Reissue, Alter, vars, args
    <3> QED BY <1>4, <3>1, <3>2, <3>3
  <2>2. WrapperVerdict' = WrapperVerdict
    BY <2>1 DEF WrapperVerdict, Authentic
  <2> QED BY <2>1, <2>2 DEF OneInv
<1> QED BY <1>1, <1>2, <1>3, <1>4, RefusedOne, TraceOne, IllegibleOne, RollupOne
        DEF ExportNext, CallStep

LEMMA OneInvariance == GivenSpec => []OneInv
<1>1. GivenInit => OneInv
  <2>1. GivenInit => epc = "idle" /\ notes = {}
    BY DEF GivenInit, Idle
  <2> QED BY <2>1 DEF OneInv
<1> QED BY <1>1, NextOne, ExportInvariance, JudgedInvariance, PTL DEF GivenSpec

-----------------------------------------------------------------------------
(* The golden export, and what is found of it.                             *)

GoldenSource == Fixture.source
GoldenRecords == Fixture.attestations
GoldenVerdict == Fixture.kernel_verdict

\* Its checkpoints in the verdict object, before the attestations.
GoldenCheckpoints ==
  [i \in 1 .. Len(GoldenSource.checkpoints) |->
     [checkpoint_tx_id |-> GoldenSource.checkpoints[i].tx_id, merkle_root_ok |-> TRUE]]

LEMMA GoldenParts ==
  /\ GoldenSource \in Bundles
  /\ IsList(GoldenSource.checkpoints) /\ IsList(GoldenSource.events)
  /\ IntactSource(GoldenSource)
  /\ IsList(GoldenRecords)
  /\ 1 \in 1 .. Len(GoldenRecords) /\ 1 \in 1 .. Len(GoldenSource.events)
  /\ \A a \in 1 .. Len(GoldenRecords) : IntactRecord(GoldenSource, GoldenRecords[a])
  /\ GoldenVerdict = IntactVerdict(GoldenSource, GoldenRecords)
<1>1. GoldenSource \in Bundles
  BY CorpusAssumption, Zenon DEF GoldenSource
<1>2. IsList(GoldenSource.checkpoints) /\ IsList(GoldenSource.events)
  BY <1>1, ListsAssumption
<1>3. /\ IntactSource(GoldenSource) /\ Len(GoldenSource.events) > 0
      /\ IsList(GoldenRecords) /\ Len(GoldenRecords) > 0
      /\ \A a \in DOMAIN GoldenRecords : IntactRecord(GoldenSource, GoldenRecords[a])
      /\ GoldenVerdict = IntactVerdict(GoldenSource, GoldenRecords)
  BY FixtureAssumption DEF GoldenSource, GoldenRecords, GoldenVerdict
<1> QED BY <1>1, <1>2, <1>3 DEF IsList

\* Its checkpoints are sound, and each the only one of its transaction.
LEMMA IntactCheckpoints ==
  ASSUME bundle.checkpoints = GoldenSource.checkpoints
  PROVE  /\ Len(Entries) \in Nat /\ DOMAIN Entries = 1 .. Len(Entries) /\ Len(Entries) # 0
         /\ \A i \in 1 .. Len(Entries) :
              /\ EnvelopeBound(Entries[i]) /\ RootBound(Entries[i])
              /\ IsKept(i) /\ LookedUp(i) = Entries[i].tx_id
              /\ \A j \in 1 .. Len(Entries) : Entries[j].tx_id = Entries[i].tx_id => j = i
<1>1. /\ Entries = GoldenSource.checkpoints
      /\ Len(Entries) \in Nat /\ DOMAIN Entries = 1 .. Len(Entries)
  BY GoldenParts DEF Entries, IsList
<1>2. ASSUME NEW i \in 1 .. Len(Entries)
      PROVE  /\ EnvelopeBound(Entries[i]) /\ RootBound(Entries[i])
             /\ Entries[i].tx_id # Absent
             /\ \A j \in 1 .. Len(Entries) : Entries[j].tx_id = Entries[i].tx_id => j = i
  <2>1. IntactCheckpoint(GoldenSource, i)
    BY <1>1, GoldenParts DEF IntactSource
  <2> QED BY <1>1, <2>1 DEF IntactCheckpoint
<1>3. ASSUME NEW i \in 1 .. Len(Entries) PROVE IsKept(i) /\ LookedUp(i) = Entries[i].tx_id
  <2>1. \A j \in 1 .. i - 1 : j \in 1 .. Len(Entries) /\ j # i
    BY <1>1
  <2> QED BY <1>2, <2>1 DEF IsKept, LookedUp
<1>4. Len(Entries) # 0
  <2>1. IntactRecord(GoldenSource, GoldenRecords[1])
    BY GoldenParts
  <2>2. \E i \in DOMAIN Entries : TRUE
    BY <1>1, <2>1 DEF IntactRecord
  <2> QED BY <1>1, <2>2
<1> QED BY <1>1, <1>2, <1>3, <1>4

\* The events of the source are sound, wherever they are listed.
LEMMA IntactEvents ==
  ASSUME bundle.checkpoints = GoldenSource.checkpoints,
         NEW i \in 1 .. Len(GoldenSource.events)
  PROVE  LET ev == GoldenSource.events[i]
         IN /\ ev = [envelope |-> ev.envelope, record |-> ev.record,
                     inclusion |-> ev.inclusion, content |-> ev.content]
            /\ VerifyOk(ev.envelope, ev.record, FALSE) = TRUE
            /\ payload_hash_ok(ev.envelope, ev.record) = "true"
            /\ OfflineContent(ev) # "false"
            /\ Included(ev) = TRUE
<1> DEFINE ev == GoldenSource.events[i]
<1>1. IntactEvent(GoldenSource, ev)
  BY GoldenParts DEF IntactSource, IsList
<1>2. PICK c \in DOMAIN GoldenSource.checkpoints :
        /\ GoldenSource.checkpoints[c].tx_id = ev.inclusion.tx_id
        /\ GoldenSource.checkpoints[c].merkle_root = ev.inclusion.reaches
  BY <1>1 DEF IntactEvent
<1>3. c \in 1 .. Len(Entries) /\ c \in DOMAIN Entries /\ Entries = GoldenSource.checkpoints
  BY <1>2, IntactCheckpoints DEF Entries
<1> HIDE DEF ev
<1>4. Included(ev)
  <2>1. ev.inclusion # Absent /\ ev.inclusion.leaf = leaf_hash(ev.envelope)
    BY <1>1 DEF IntactEvent
  <2> QED BY <1>2, <1>3, <2>1, IntactCheckpoints DEF Included
<1>5. Included(ev) \in BOOLEAN /\ VerifyOk(ev.envelope, ev.record, FALSE) \in BOOLEAN
  BY DEF Included, VerifyOk
<1>6. /\ ev = [envelope |-> ev.envelope, record |-> ev.record,
               inclusion |-> ev.inclusion, content |-> ev.content]
      /\ VerifyOk(ev.envelope, ev.record, FALSE)
      /\ payload_hash_ok(ev.envelope, ev.record) = "true"
      /\ _evaluate_content(ev, NoContent[ev.envelope.body]) # "false"
  BY <1>1 DEF IntactEvent
<1>7. Included(ev) = TRUE /\ VerifyOk(ev.envelope, ev.record, FALSE) = TRUE
  BY <1>4, <1>5, <1>6
<1>8. OfflineContent(ev) # "false"
  BY <1>6 DEF OfflineContent
<1> QED BY <1>6, <1>7, <1>8 DEF ev

\* A trace with nothing wrong about its wrapper is read.
LEMMA WrapperRead ==
  ASSUME bundle.defects = {}, bundle.body_type = "trace"
  PROVE  WrapperVerdict = "trace" /\ Checked(bundle.events) = 1 .. Len(bundle.events)
         /\ Checked(Entries) = 1 .. Len(Entries)
<1>1. Authentic
  BY DEF Authentic
<1>2. WrapperVerdict = IF "no lists" \in bundle.defects THEN "malformed" ELSE "trace"
  BY <1>1, Zenon DEF WrapperVerdict
<1>3. "no lists" \notin bundle.defects
  BY Zenon
<1>4. WrapperVerdict = "trace"
  BY <1>2, <1>3, Zenon
<1> QED BY <1>4 DEF Checked

\* Every checkpoint of such a trace is found sound.
LEMMA CheckpointsFound ==
  ASSUME bundle.defects = {}, bundle.body_type = "trace",
         bundle.checkpoints = GoldenSource.checkpoints
  PROVE  OfflineCheckpoints = GoldenCheckpoints
<1>1. Entries = GoldenSource.checkpoints /\ Checked(Entries) = 1 .. Len(Entries)
  BY WrapperRead DEF Entries
<1>2. \A i \in 1 .. Len(Entries) : LookedUp(i) = Entries[i].tx_id /\ RootBound(Entries[i]) = TRUE
  <2>1. \A i : RootBound(Entries[i]) \in BOOLEAN
    BY DEF RootBound
  <2> QED BY <2>1, IntactCheckpoints
<1> QED BY <1>1, <1>2 DEF OfflineCheckpoints, GoldenCheckpoints

\* The golden source verifies offline, with the events of the golden verdict.
LEMMA GoldenFound ==
  ASSUME bundle = GoldenSource
  PROVE  OfflineStatus = "verified" /\ OfflineEvents = GoldenVerdict.events
<1>1. bundle.defects = {} /\ bundle.body_type = "trace"
  BY GoldenParts DEF IntactSource
<1>2. /\ WrapperVerdict = "trace" /\ Checked(bundle.events) = 1 .. Len(bundle.events)
      /\ DOMAIN bundle.events = 1 .. Len(bundle.events)
  BY <1>1, WrapperRead, GoldenParts DEF IsList
<1>3. ASSUME NEW i \in 1 .. Len(bundle.events)
      PROVE  /\ VerifyOk(bundle.events[i].envelope, bundle.events[i].record, FALSE) = TRUE
             /\ payload_hash_ok(bundle.events[i].envelope, bundle.events[i].record) = "true"
             /\ OfflineContent(bundle.events[i]) # "false"
             /\ Included(bundle.events[i]) = TRUE
  BY IntactEvents
<1>4. ~Withheld
  BY <1>2, <1>3 DEF Withheld
<1>5. \A i \in DOMAIN bundle.events : OfflineSound(bundle.events[i])
  BY <1>2, <1>3 DEF OfflineSound
<1>6. OfflineStatus = "verified"
  BY <1>2, <1>4, <1>5, IntactCheckpoints DEF OfflineStatus
<1>7. GoldenVerdict.events =
        [i \in 1 .. Len(bundle.events) |->
           [event_id |-> bundle.events[i].envelope.body, signature_ok |-> TRUE,
            payload_bound |-> "true", inclusion_ok |-> TRUE,
            content_ok |-> OfflineContent(bundle.events[i])]]
  BY GoldenParts DEF IntactVerdict, OfflineContent
<1>8. OfflineEvents =
        [i \in 1 .. Len(bundle.events) |->
           [event_id |-> bundle.events[i].envelope.body, signature_ok |-> TRUE,
            payload_bound |-> "true", inclusion_ok |-> TRUE,
            content_ok |-> OfflineContent(bundle.events[i])]]
  BY <1>2, <1>3 DEF OfflineEvents
<1> QED BY <1>6, <1>7, <1>8

\* Its first event with other content is found to have none that matches.
OtherSource == [GoldenSource EXCEPT !.events[1].content = Fixture.other_content]

LEMMA OtherParts ==
  /\ OtherSource = [defects |-> {}, body_type |-> "trace", asserted |-> GoldenSource.asserted,
                    checkpoints |-> GoldenSource.checkpoints, events |-> OtherSource.events]
  /\ OtherSource.events = [GoldenSource.events EXCEPT ![1].content = Fixture.other_content]
<1> DEFINE evs == [GoldenSource.events EXCEPT ![1].content = Fixture.other_content]
<1>1. GoldenSource = [defects |-> {}, body_type |-> "trace", asserted |-> GoldenSource.asserted,
                      checkpoints |-> GoldenSource.checkpoints, events |-> GoldenSource.events]
  BY GoldenParts DEF IntactSource
<1>2. OtherSource = [GoldenSource EXCEPT !.events = evs]
  BY DEF OtherSource
<1> HIDE DEF evs
<1>3. OtherSource = [defects |-> {}, body_type |-> "trace", asserted |-> GoldenSource.asserted,
                     checkpoints |-> GoldenSource.checkpoints, events |-> evs]
  BY <1>1, <1>2
<1>4. OtherSource.events = evs
  BY <1>3
<1> QED BY <1>3, <1>4 DEF evs

LEMMA OtherFound ==
  ASSUME bundle = OtherSource
  PROVE  OfflineStatus = "failed" /\ OfflineEvents # GoldenVerdict.events
<1> DEFINE old == GoldenSource.events[1]
           ev == bundle.events[1]
<1>1. /\ bundle.defects = {} /\ bundle.body_type = "trace"
      /\ bundle.checkpoints = GoldenSource.checkpoints
      /\ bundle.events = [GoldenSource.events EXCEPT ![1].content = Fixture.other_content]
  BY OtherParts
<1>2. /\ DOMAIN bundle.events = DOMAIN GoldenSource.events
      /\ DOMAIN GoldenSource.events = 1 .. Len(GoldenSource.events)
      /\ 1 \in DOMAIN bundle.events
  BY <1>1, GoldenParts DEF IsList
<1>3. OfflineContent(old) # "false"
  BY <1>1, IntactEvents, GoldenParts
<1>4. /\ ev = [old EXCEPT !.content = Fixture.other_content]
      /\ old = [envelope |-> old.envelope, record |-> old.record,
                inclusion |-> old.inclusion, content |-> old.content]
  BY <1>1, <1>2, IntactEvents, GoldenParts
<1>5. /\ Committed(old) # {} /\ Fixture.other_content # Absent
      /\ Sha256(Fixture.other_content) \notin Committed(old)
  BY FixtureAssumption DEF Alterable, GoldenSource
<1> HIDE DEF old, ev
<1>6. ev.envelope = old.envelope /\ ev.record = old.record /\ ev.content = Fixture.other_content
  BY <1>4
<1>7. Committed(ev) = Committed(old)
  BY <1>6 DEF Committed
<1>8. OfflineContent(ev) = "false"
  <2> DEFINE side == NoContent[ev.envelope.body]
  <2>1. CASE side # Absent /\ ev.content # side
    <3> HIDE DEF side
    <3>1. _evaluate_content(ev, side) = "false"
      BY <1>5, <1>6, <1>7, <2>1 DEF _evaluate_content
    <3> QED BY <3>1 DEF OfflineContent, side
  <2>2. CASE ~(side # Absent /\ ev.content # side)
    <3> HIDE DEF side
    <3>1. _evaluate_content(ev, side) = "false"
      BY <1>5, <1>6, <1>7, <2>2 DEF _evaluate_content
    <3> QED BY <3>1 DEF OfflineContent, side
  <2> QED BY <2>1, <2>2
<1>9. ~OfflineSound(ev)
  BY <1>8 DEF OfflineSound
<1>10. WrapperVerdict = "trace" /\ Checked(bundle.events) = 1 .. Len(bundle.events)
  BY <1>1, WrapperRead
<1>11. OfflineStatus = "failed"
  BY <1>2, <1>9, <1>10 DEF OfflineStatus, ev
<1>12. 1 \in 1 .. Len(bundle.events)
  <2>1. bundle.events = [i \in 1 .. Len(GoldenSource.events) |-> bundle.events[i]]
    BY <1>1, <1>2
  <2>2. Len(GoldenSource.events) \in Nat
    BY GoldenParts DEF IsList
  <2>3. Len(bundle.events) = Len(GoldenSource.events)
    BY <2>1, <2>2
  <2> QED BY <2>3, GoldenParts
<1>13. OfflineEvents[1].content_ok = "false"
  BY <1>8, <1>10, <1>12 DEF OfflineEvents, ev
<1>14. GoldenVerdict.events[1].content_ok = OfflineContent(old)
  BY GoldenParts DEF IntactVerdict, OfflineContent, old
<1> QED BY <1>3, <1>11, <1>13, <1>14

-----------------------------------------------------------------------------
(* What is found of its attestations.                                      *)

\* The trace is the golden one, but for the contents, in one export.
GoldenTrace ==
  /\ bundle.defects = {} /\ bundle.body_type = "trace"
  /\ bundle.checkpoints = GoldenSource.checkpoints
  /\ Len(chain) = 1

\* A good record is found good.
LEMMA GoodRecord ==
  ASSUME GoldenTrace, NEW rec, IntactRecord(GoldenSource, rec)
  PROVE  _verify_attestation(rec, 1) = AllGood(rec)
<1>1. PICK i \in DOMAIN GoldenSource.checkpoints :
        /\ GoldenSource.checkpoints[i].tx_id = NamedTx(rec)
        /\ rec.payload.data_hash = Sha256(GoldenSource.checkpoints[i].envelope)
  BY DEF IntactRecord
<1>2. /\ Entries = GoldenSource.checkpoints /\ bundle.checkpoints = Entries
      /\ DOMAIN Entries = 1 .. Len(Entries) /\ Len(Entries) \in Nat
  BY IntactCheckpoints DEF GoldenTrace, Entries
<1>s. Source(1) = bundle
  BY DEF GoldenTrace, Source
<1>3. Listed(NamedTx(rec), 1) = {i}
  <2>1. Listed(NamedTx(rec), 1) = {j \in DOMAIN Entries : Entries[j].tx_id = NamedTx(rec)}
    <3>1. bundle.defects \cap {"not an object", "no body", "no lists"} = {}
      BY Zenon DEF GoldenTrace
    <3> QED BY <1>2, <1>s, <3>1, Zenon DEF Listed
  <2>2. \A j \in DOMAIN Entries : Entries[j].tx_id = Entries[i].tx_id => j = i
    BY <1>1, <1>2, IntactCheckpoints DEF GoldenTrace
  <2> QED BY <1>1, <1>2, <2>1, <2>2
<1>4. DataHashBound(rec, 1)
  <2>1. i <= i
    BY <1>1, <1>2
  <2> QED BY <1>1, <1>2, <1>s, <1>3, <2>1 DEF DataHashBound
<1>5. verify_rsa_pss_sha256(rec) /\ rec.payload.operator = OperatorAddress(rec.public_key.n)
  BY DEF IntactRecord
<1>6. verify_rsa_pss_sha256(rec) \in BOOLEAN /\ DataHashBound(rec, 1) \in BOOLEAN
  BY DEF verify_rsa_pss_sha256, DataHashBound
<1> QED BY <1>4, <1>5, <1>6 DEF _verify_attestation, AllGood

\* The golden records are found good, and listed as the golden verdict does.
LEMMA GoldenAgreement ==
  ASSUME GoldenTrace, NEW x, x.attestations = GoldenRecords
  PROVE  /\ VerdictOver(OfflineCheckpoints, FoundIn(x)) = GoldenVerdict.checkpoints
         /\ RollupOver("verified", FoundIn(x)) = "verified"
<1> DEFINE results == [a \in 1 .. Len(GoldenRecords) |-> AllGood(GoldenRecords[a])]
<1>1. FoundIn(x) = results
  <2>1. \A a \in 1 .. Len(GoldenRecords) :
          _verify_attestation(GoldenRecords[a], 1) = AllGood(GoldenRecords[a])
    BY GoodRecord, GoldenParts
  <2> QED BY <2>1 DEF FoundIn, ResultsOf
<1>2. OfflineCheckpoints = GoldenCheckpoints
  BY CheckpointsFound DEF GoldenTrace
<1>3. GoldenVerdict.checkpoints =
        [i \in 1 .. Len(GoldenSource.checkpoints) |->
           [checkpoint_tx_id |-> GoldenSource.checkpoints[i].tx_id, merkle_root_ok |-> TRUE,
            attestations |-> AttestationsOf(results, GoldenSource.checkpoints[i].tx_id)]]
  BY GoldenParts DEF IntactVerdict
<1>4. \A a \in DOMAIN results : results[a].ok
  BY DEF AllGood
<1> HIDE DEF results
<1>5. VerdictOver(GoldenCheckpoints, results) = GoldenVerdict.checkpoints
  BY <1>3 DEF VerdictOver, GoldenCheckpoints
<1>6. RollupOver("verified", results) = "verified"
  BY <1>4, Zenon DEF RollupOver
<1> QED BY <1>1, <1>2, <1>5, <1>6

\* A first record that fails a check is listed with that check failed.
LEMMA BadRecord ==
  ASSUME GoldenTrace, NEW x, NEW rec,
         x.attestations = [GoldenRecords EXCEPT ![1] = rec],
         NamedTx(rec) = NamedTx(GoldenRecords[1]),
         \/ ~verify_rsa_pss_sha256(rec)
         \/ rec.payload.operator # OperatorAddress(rec.public_key.n)
         \/ ~DataHashBound(rec, 1)
  PROVE  VerdictOver(OfflineCheckpoints, FoundIn(x)) # GoldenVerdict.checkpoints
<1> DEFINE good == [a \in 1 .. Len(GoldenRecords) |-> AllGood(GoldenRecords[a])]
           tx == NamedTx(rec)
<1>1. /\ Len(GoldenRecords) \in Nat /\ Len(GoldenRecords) > 0
      /\ DOMAIN GoldenRecords = 1 .. Len(GoldenRecords)
      /\ IntactRecord(GoldenSource, GoldenRecords[1])
  BY GoldenParts DEF IsList
<1>2. x.attestations = [a \in 1 .. Len(GoldenRecords) |-> IF a = 1 THEN rec ELSE GoldenRecords[a]]
  BY <1>1
<1>3. Len(x.attestations) = Len(GoldenRecords) /\ x.attestations[1] = rec
  BY <1>1, <1>2
<1>4. /\ Len(FoundIn(x)) = Len(GoldenRecords)
      /\ FoundIn(x)[1] = _verify_attestation(rec, 1)
  BY <1>1, <1>2, <1>3 DEF FoundIn, ResultsOf
<1>5. Len(good) = Len(GoldenRecords) /\ good[1] = AllGood(GoldenRecords[1])
  BY <1>1
<1>6. FoundIn(x)[1].checkpoint_tx_id = tx /\ good[1].checkpoint_tx_id = tx
  BY <1>4, <1>5 DEF _verify_attestation, AllGood
<1>7. PICK i \in DOMAIN GoldenSource.checkpoints : GoldenSource.checkpoints[i].tx_id = tx
  BY <1>1 DEF IntactRecord
<1>8. i \in 1 .. Len(GoldenSource.checkpoints)
  BY <1>7, GoldenParts DEF IsList
<1>9. OfflineCheckpoints = GoldenCheckpoints
  BY CheckpointsFound DEF GoldenTrace
<1>10. VerdictOver(OfflineCheckpoints, FoundIn(x))[i].attestations = AttestationsOf(FoundIn(x), tx)
  BY <1>7, <1>8, <1>9 DEF VerdictOver, GoldenCheckpoints
<1>11. GoldenVerdict.checkpoints[i].attestations = AttestationsOf(good, tx)
  BY <1>7, <1>8, GoldenParts DEF IntactVerdict
<1> HIDE DEF good, tx
<1>12. AttestationsOf(FoundIn(x), tx)[1] = VerdictEntry(FoundIn(x)[1])
  BY <1>1, <1>4, <1>6, FirstEntry
<1>13. AttestationsOf(good, tx)[1] = VerdictEntry(good[1])
  BY <1>1, <1>5, <1>6, FirstEntry
<1>14. VerdictEntry(FoundIn(x)[1]) # VerdictEntry(good[1])
  <2>1. /\ VerdictEntry(good[1]).signature_ok = TRUE
        /\ VerdictEntry(good[1]).operator_address_bound = TRUE
        /\ VerdictEntry(good[1]).data_hash_bound = TRUE
    BY <1>5 DEF VerdictEntry, AllGood
  <2>2. /\ VerdictEntry(FoundIn(x)[1]).signature_ok = verify_rsa_pss_sha256(rec)
        /\ VerdictEntry(FoundIn(x)[1]).operator_address_bound
             = (rec.payload.operator = OperatorAddress(rec.public_key.n))
        /\ VerdictEntry(FoundIn(x)[1]).data_hash_bound = DataHashBound(rec, 1)
    BY <1>4 DEF VerdictEntry, _verify_attestation
  <2>3. verify_rsa_pss_sha256(rec) \in BOOLEAN /\ DataHashBound(rec, 1) \in BOOLEAN
    BY DEF verify_rsa_pss_sha256, DataHashBound
  <2> QED BY <2>1, <2>2, <2>3
<1> QED BY <1>10, <1>11, <1>12, <1>13, <1>14

-----------------------------------------------------------------------------
(* The cases as they are built.                                            *)

\* What composeExport puts beside the fields of an export.
NoCheckpoints == <<>>

Made(inline, hash, records, verdict) ==
  [defects |-> {}, inline |-> inline, source_bundle_hash |-> hash,
   attestations |-> records, kernel_verdict |-> verdict,
   checkpoints |-> NoCheckpoints]

\* An export that is signed again is the altered one, with its wrapper whole.
LEMMA SignedAgain ==
  ASSUME NEW inline, NEW hash, NEW records, NEW verdict
  PROVE  LET e == Made(inline, hash, records, verdict)
         IN /\ _re_sign_wrapper(Altered(e)) = e
            /\ WithExport(e) = [source |-> GoldenSource, export |-> e]
            /\ WithExport(e).source = GoldenSource /\ WithExport(e).export = e
<1> DEFINE e == Made(inline, hash, records, verdict)
<1>1. Altered(e) = [defects |-> {"body_hash", "signature"}, inline |-> inline,
                    source_bundle_hash |-> hash, attestations |-> records,
                    kernel_verdict |-> verdict,
                    checkpoints |-> NoCheckpoints]
  BY DEF Altered, Made
<1>2. _re_sign_wrapper(Altered(e)) =
        [defects |-> {}, inline |-> inline, source_bundle_hash |-> hash,
         attestations |-> records, kernel_verdict |-> verdict,
         checkpoints |-> NoCheckpoints]
  BY <1>1 DEF _re_sign_wrapper
<1>3. _re_sign_wrapper(Altered(e)) = e
  BY <1>2 DEF Made
<1>4. Golden = [source |-> GoldenSource, export |-> Golden.export]
  BY DEF Golden, GoldenSource
<1> HIDE DEF e
<1> QED BY <1>3, <1>4 DEF WithExport, e

LEMMA GoldenIs ==
  /\ Golden.source = GoldenSource
  /\ Golden.export = Made(TRUE, Sha256(GoldenSource), GoldenRecords, GoldenVerdict)
BY DEF Golden, GoldenSource, GoldenRecords, GoldenVerdict, Made, NoCheckpoints

\* So is one with another first record.
LEMMA RecordReplaced ==
  ASSUME NEW rec
  PROVE  WithRecord(rec) =
           [source |-> GoldenSource,
            export |-> Made(TRUE, Sha256(GoldenSource), [GoldenRecords EXCEPT ![1] = rec],
                            GoldenVerdict)]
<1> DEFINE golden == Golden.export
           list == [GoldenRecords EXCEPT ![1] = rec]
           made == Made(TRUE, Sha256(GoldenSource), list, GoldenVerdict)
<1>1. /\ golden = Made(TRUE, Sha256(GoldenSource), GoldenRecords, GoldenVerdict)
      /\ golden.attestations = GoldenRecords
  BY GoldenIs DEF Made
<1>2. [golden EXCEPT !.attestations[1] = rec] = [golden EXCEPT !.attestations = list]
  BY <1>1, Zenon
<1> HIDE DEF list, golden
<1>3. [golden EXCEPT !.attestations = list] = made
  <2>1. ASSUME NEW yes, NEW hash, NEW verdict,
               golden = Made(yes, hash, GoldenRecords, verdict)
        PROVE  [golden EXCEPT !.attestations = list] = Made(yes, hash, list, verdict)
    BY ONLY <2>1 DEF Made
  <2> QED BY <1>1, <2>1, Zenon
<1>4. WithRecord(rec) = WithExport(made)
  BY <1>2, <1>3, Zenon DEF WithRecord, golden
<1>5. WithExport(made) = [source |-> GoldenSource, export |-> made]
  BY SignedAgain, Zenon
<1> QED BY <1>4, <1>5, Zenon DEF list

\* The exports with one field replaced, signed again.
LEMMA HashReplaced ==
  LET case == WithExport([Golden.export EXCEPT !.source_bundle_hash = _flip(@)])
      x == Made(TRUE, _flip(Sha256(GoldenSource)), GoldenRecords, GoldenVerdict)
  IN /\ case = [source |-> GoldenSource, export |-> x]
     /\ case.source = GoldenSource /\ case.export = x
<1> DEFINE e == Golden.export
           hash == _flip(Sha256(GoldenSource))
           x == Made(TRUE, hash, GoldenRecords, GoldenVerdict)
<1>1. e = Made(TRUE, Sha256(GoldenSource), GoldenRecords, GoldenVerdict)
  BY GoldenIs, Zenon
<1> HIDE DEF e
<1>2. e.source_bundle_hash = Sha256(GoldenSource)
  BY <1>1 DEF Made
<1>3. [e EXCEPT !.source_bundle_hash = _flip(@)] = [e EXCEPT !.source_bundle_hash = hash]
  BY <1>2, Zenon
<1>4. ASSUME NEW yes, NEW claimed, NEW new,
             e = Made(yes, claimed, GoldenRecords, GoldenVerdict)
      PROVE  [e EXCEPT !.source_bundle_hash = new]
             = Made(yes, new, GoldenRecords, GoldenVerdict)
  BY <1>4 DEF Made
<1>5. [e EXCEPT !.source_bundle_hash = hash] = x
  BY <1>1, <1>4, Zenon
<1>6. /\ WithExport(x) = [source |-> GoldenSource, export |-> x]
      /\ WithExport(x).source = GoldenSource /\ WithExport(x).export = x
  BY SignedAgain, Zenon
<1> HIDE DEF x
<1> QED BY <1>3, <1>5, <1>6, Zenon DEF e, x

LEMMA VerdictReplaced ==
  LET case == WithExport([Golden.export EXCEPT !.kernel_verdict.events[1].signature_ok = FALSE])
      x == Made(TRUE, Sha256(GoldenSource), GoldenRecords,
                [GoldenVerdict EXCEPT !.events[1].signature_ok = FALSE])
  IN /\ case = [source |-> GoldenSource, export |-> x]
     /\ case.source = GoldenSource /\ case.export = x
<1> DEFINE e == Golden.export
           hash == Sha256(GoldenSource)
           verdict == [GoldenVerdict EXCEPT !.events[1].signature_ok = FALSE]
           x == Made(TRUE, hash, GoldenRecords, verdict)
<1>1. e = Made(TRUE, hash, GoldenRecords, GoldenVerdict)
  BY GoldenIs, Zenon
<1>2. e.kernel_verdict = GoldenVerdict
  BY GoldenIs DEF Made
<1>3. [e EXCEPT !.kernel_verdict.events[1].signature_ok = FALSE]
      = [e EXCEPT !.kernel_verdict = verdict]
  BY <1>2, Zenon
<1> HIDE DEF e, verdict
<1>4. ASSUME NEW yes, NEW old, e = Made(yes, hash, GoldenRecords, old)
      PROVE  [e EXCEPT !.kernel_verdict = verdict] = Made(yes, hash, GoldenRecords, verdict)
  BY <1>4 DEF Made
<1>5. [e EXCEPT !.kernel_verdict = verdict] = x
  BY <1>1, <1>4, Zenon
<1>6. /\ WithExport(x) = [source |-> GoldenSource, export |-> x]
      /\ WithExport(x).source = GoldenSource /\ WithExport(x).export = x
  BY SignedAgain, Zenon
<1> HIDE DEF x
<1> QED BY <1>3, <1>5, <1>6, Zenon DEF e, x, verdict

LEMMA SourceWithheld ==
  LET case == WithExport([Golden.export EXCEPT !.inline = FALSE])
      x == Made(FALSE, Sha256(GoldenSource), GoldenRecords, GoldenVerdict)
  IN /\ case = [source |-> GoldenSource, export |-> x]
     /\ case.source = GoldenSource /\ case.export = x
<1> DEFINE e == Golden.export
           hash == Sha256(GoldenSource)
           x == Made(FALSE, hash, GoldenRecords, GoldenVerdict)
<1>1. e = Made(TRUE, hash, GoldenRecords, GoldenVerdict)
  BY GoldenIs, Zenon
<1> HIDE DEF e
<1>2. ASSUME NEW yes, NEW no, e = Made(yes, hash, GoldenRecords, GoldenVerdict)
      PROVE  [e EXCEPT !.inline = no] = Made(no, hash, GoldenRecords, GoldenVerdict)
  BY <1>2 DEF Made
<1>3. [e EXCEPT !.inline = FALSE] = x
  BY <1>1, <1>2, Zenon
<1>4. /\ WithExport(x) = [source |-> GoldenSource, export |-> x]
      /\ WithExport(x).source = GoldenSource /\ WithExport(x).export = x
  BY SignedAgain, Zenon
<1> HIDE DEF x
<1> QED BY <1>3, <1>4, Zenon DEF e, x

-----------------------------------------------------------------------------
(* What becomes of each kind of case.                                      *)

\* The declaration of a class, of a status and notes.
Declared(klass, s, new) ==
  /\ ExitCode(s, new) = EXPECTED_EXIT(klass)
  /\ "wrapper" \in new <=> klass \in WrapperClasses
  /\ "linkage" \in new <=> klass = "source-bundle-hash-mismatch"
  /\ "agreement" \in new <=>
       klass \in AttestationClasses
                 \cup {"verdict-disagreement", "disclosed-content-mismatch"}

LEMMA ExitCodes ==
  /\ \A new : /\ ExitCode("failed", new) = 1 /\ ExitCode("malformed", new) = 2
              /\ ExitCode("verified", new) = 0
  /\ ExitCode("partial", {"unavailable offline"}) = 3
<1>1. \A new : /\ ExitCode("failed", new) = 1 /\ ExitCode("malformed", new) = 2
               /\ ExitCode("verified", new) = 0
  BY Zenon DEF ExitCode
<1>2. "unavailable offline" \in {"unavailable offline"} \cap UndeterminedMarkers
  BY Zenon DEF UndeterminedMarkers
<1>3. ExitCode("partial", {"unavailable offline"}) = 3
  BY <1>2, Zenon DEF ExitCode
<1> QED BY <1>1, <1>3, Zenon

LEMMA ExpectedExits ==
  /\ EXPECTED_EXIT("positive") = 0
  /\ \A klass \in MalformedClasses : EXPECTED_EXIT(klass) = 2
  /\ EXPECTED_EXIT("source-bundle-ref-offline") = 3
  /\ \A klass \in Classes \ ({"positive", "source-bundle-ref-offline"} \cup MalformedClasses) :
       EXPECTED_EXIT(klass) = 1
<1>1. EXPECTED_EXIT("positive") = 0 /\ EXPECTED_EXIT("source-bundle-ref-offline") = 3
  BY Zenon DEF EXPECTED_EXIT, MalformedClasses
<1>2. \A klass \in MalformedClasses : EXPECTED_EXIT(klass) = 2
  BY Zenon DEF EXPECTED_EXIT, MalformedClasses
<1>3. \A klass \in Classes \ ({"positive", "source-bundle-ref-offline"} \cup MalformedClasses) :
        EXPECTED_EXIT(klass) = 1
  BY Zenon DEF EXPECTED_EXIT
<1> QED BY <1>1, <1>2, <1>3

\* The call is on this export around this source, and returned r.
Called(source, x, r) ==
  /\ bundle = source /\ Len(chain) = 1 /\ chain[1] = x
  /\ Decided(x, r)

\* The notes of an inline export whose records all parse.
LEMMA InlineDecided ==
  ASSUME NEW source, NEW hash, NEW records, NEW verdict, NEW r,
         Called(source, Made(TRUE, hash, records, verdict), r),
         \A a \in 1 .. Len(records) : ~Unparseable(records[a])
  PROVE  LET x == Made(TRUE, hash, records, verdict)
         IN /\ r.status = IF Linked(x) /\ Agrees(x)
                          THEN RollupOver(OfflineStatus, FoundIn(x)) ELSE "failed"
            /\ "wrapper" \notin r.notes
            /\ "linkage" \in r.notes <=> hash # Sha256(source)
            /\ "agreement" \in r.notes <=> ~Agrees(x)
            /\ Linked(x) <=> hash = Sha256(source)
<1> DEFINE x == Made(TRUE, hash, records, verdict)
<1>1. x.defects = {} /\ x.inline /\ x.attestations = records /\ x.source_bundle_hash = hash
  BY DEF Made
<1> HIDE DEF x
<1>2. RolledUp(x, r) /\ bundle = source
  BY Zenon DEF Called, Decided, x
<1>3. Linked(x) <=> hash = Sha256(source)
  BY <1>1, <1>2 DEF Linked
<1>4. /\ r.status = IF Linked(x) /\ Agrees(x)
                    THEN RollupOver(OfflineStatus, FoundIn(x)) ELSE "failed"
      /\ "wrapper" \notin r.notes
      /\ "linkage" \in r.notes <=> ~Linked(x)
      /\ "agreement" \in r.notes <=> ~Agrees(x)
  BY <1>1, <1>2 DEF RolledUp
<1> QED BY <1>3, <1>4, Zenon DEF x

\* The records of the golden export parse.
LEMMA GoldenParse ==
  /\ \A a \in 1 .. Len(GoldenRecords) : ~Unparseable(GoldenRecords[a])
  /\ \A rec : ~Unparseable(rec) =>
       LET list == [GoldenRecords EXCEPT ![1] = rec]
       IN \A a \in 1 .. Len(list) : ~Unparseable(list[a])
<1>1. /\ \A a \in 1 .. Len(GoldenRecords) : ~Unparseable(GoldenRecords[a])
      /\ Len(GoldenRecords) \in Nat /\ DOMAIN GoldenRecords = 1 .. Len(GoldenRecords)
  BY GoldenParts DEF IntactRecord, WellFormed, IsList
<1>2. ASSUME NEW rec, ~Unparseable(rec)
      PROVE  LET list == [GoldenRecords EXCEPT ![1] = rec]
             IN \A a \in 1 .. Len(list) : ~Unparseable(list[a])
  <2> DEFINE list == [GoldenRecords EXCEPT ![1] = rec]
  <2>1. list = [a \in 1 .. Len(GoldenRecords) |-> IF a = 1 THEN rec ELSE GoldenRecords[a]]
    BY <1>1
  <2> HIDE DEF list
  <2>2. Len(list) = Len(GoldenRecords)
    BY <1>1, <2>1
  <2>3. \A a \in 1 .. Len(list) : ~Unparseable(list[a])
    BY <1>1, <1>2, <2>1, <2>2
  <2> QED BY <2>3, Zenon DEF list
<1> QED BY <1>1, <1>2, Zenon

LEMMA GoldenCalled ==
  ASSUME NEW x, NEW r, Called(GoldenSource, x, r)
  PROVE  GoldenTrace /\ OfflineStatus = "verified" /\ OfflineEvents = GoldenVerdict.events
<1>1. bundle = GoldenSource /\ Len(chain) = 1
  BY Zenon DEF Called
<1>2. bundle.defects = {} /\ bundle.body_type = "trace"
  BY <1>1, GoldenParts DEF IntactSource
<1> QED BY <1>1, <1>2, GoldenFound DEF GoldenTrace

\* The golden export verifies.
LEMMA PositiveCase ==
  ASSUME NEW r, Called(GoldenSource, Golden.export, r)
  PROVE  Declared("positive", r.status, r.notes)
<1> DEFINE hash == Sha256(GoldenSource)
           x == Made(TRUE, hash, GoldenRecords, GoldenVerdict)
<1>1. Called(GoldenSource, x, r)
  BY GoldenIs, Zenon
<1>2. /\ r.status = IF Linked(x) /\ Agrees(x)
                    THEN RollupOver(OfflineStatus, FoundIn(x)) ELSE "failed"
      /\ "wrapper" \notin r.notes
      /\ "linkage" \notin r.notes
      /\ "agreement" \in r.notes <=> ~Agrees(x)
      /\ Linked(x)
  BY <1>1, InlineDecided, GoldenParse, Zenon
<1>3. x.attestations = GoldenRecords /\ x.kernel_verdict = GoldenVerdict
  BY DEF Made
<1>4. GoldenTrace /\ OfflineStatus = "verified" /\ OfflineEvents = GoldenVerdict.events
  BY <1>1, GoldenCalled, Zenon
<1> HIDE DEF x
<1>5. Agrees(x) /\ RollupOver("verified", FoundIn(x)) = "verified"
  BY <1>3, <1>4, GoldenAgreement, Zenon DEF Agrees
<1>6. r.status = "verified" /\ "agreement" \notin r.notes
  BY <1>2, <1>4, <1>5
<1> QED BY <1>2, <1>6, ExitCodes, ExpectedExits, Zenon DEF Declared, WrapperClasses, AttestationClasses

\* Neither about the wrapper nor about the linkage.
AgreementClasses ==
  AttestationClasses \cup {"verdict-disagreement", "disclosed-content-mismatch"}

LEMMA DisagreementDeclared ==
  ASSUME NEW klass \in AgreementClasses, NEW r,
         r.status = "failed", "wrapper" \notin r.notes, "linkage" \notin r.notes,
         "agreement" \in r.notes
  PROVE  Declared(klass, r.status, r.notes)
<1>1. EXPECTED_EXIT(klass) = 1
  <2>1. klass \in Classes \ ({"positive", "source-bundle-ref-offline"} \cup MalformedClasses)
    BY Zenon DEF AgreementClasses, AttestationClasses, Classes, MalformedClasses
  <2> QED BY <2>1, ExpectedExits
<1>2. klass \notin WrapperClasses /\ klass # "source-bundle-hash-mismatch"
  BY Zenon DEF AgreementClasses, AttestationClasses, WrapperClasses
<1> QED BY <1>1, <1>2, ExitCodes, Zenon DEF Declared, AgreementClasses

\* An attestation with something wrong about it.
LEMMA RecordCase ==
  ASSUME NEW klass \in AgreementClasses, NEW rec, NEW r,
         Called(GoldenSource, WithRecord(rec).export, r),
         ~Unparseable(rec), NamedTx(rec) = NamedTx(GoldenRecords[1]),
         \/ ~verify_rsa_pss_sha256(rec)
         \/ rec.payload.operator # OperatorAddress(rec.public_key.n)
         \/ ~DataHashBound(rec, 1)
  PROVE  Declared(klass, r.status, r.notes)
<1> DEFINE hash == Sha256(GoldenSource)
           records == [GoldenRecords EXCEPT ![1] = rec]
           x == Made(TRUE, hash, records, GoldenVerdict)
<1>1. Called(GoldenSource, x, r)
  BY RecordReplaced, Zenon
<1>2. \A a \in 1 .. Len(records) : ~Unparseable(records[a])
  BY GoldenParse, Zenon
<1>3. x.attestations = records /\ x.kernel_verdict = GoldenVerdict
  BY DEF Made
<1>4. GoldenTrace
  BY <1>1, GoldenCalled, Zenon
<1> HIDE DEF records
<1>5. /\ r.status = IF Linked(x) /\ Agrees(x)
                    THEN RollupOver(OfflineStatus, FoundIn(x)) ELSE "failed"
      /\ "wrapper" \notin r.notes
      /\ "linkage" \notin r.notes
      /\ "agreement" \in r.notes <=> ~Agrees(x)
  BY <1>1, <1>2, InlineDecided, Zenon
<1> HIDE DEF x
<1>6. VerdictOver(OfflineCheckpoints, FoundIn(x)) # GoldenVerdict.checkpoints
  BY <1>3, <1>4, BadRecord DEF records
<1>7. ~Agrees(x)
  BY <1>3, <1>6 DEF Agrees
<1>8. r.status = "failed" /\ "agreement" \in r.notes
  BY <1>5, <1>7
<1> QED BY <1>5, <1>8, DisagreementDeclared

\* An attestation that does not parse.
LEMMA UnparseableCase ==
  ASSUME NEW klass \in MalformedClasses, NEW rec, NEW r,
         Called(GoldenSource, WithRecord(rec).export, r), Unparseable(rec)
  PROVE  Declared(klass, r.status, r.notes)
<1> DEFINE records == [GoldenRecords EXCEPT ![1] = rec]
           x == Made(TRUE, Sha256(GoldenSource), records, GoldenVerdict)
<1>1. Called(GoldenSource, x, r)
  BY RecordReplaced, Zenon
<1>2. /\ records = [a \in 1 .. Len(GoldenRecords) |-> IF a = 1 THEN rec ELSE GoldenRecords[a]]
      /\ Len(GoldenRecords) \in Nat /\ 1 \in 1 .. Len(GoldenRecords)
  BY GoldenParts DEF IsList
<1>3. x.attestations = records /\ x.defects = {} /\ x.inline
  BY DEF Made
<1> HIDE DEF records, x
<1>4. 1 \in 1 .. Len(records) /\ Unparseable(records[1])
  BY <1>2
<1>5. Illegible(x, r)
  BY <1>1, Zenon DEF Called, Decided
<1>6. r.status = "malformed" /\ r.notes = {"malformed"}
  BY <1>3, <1>4, <1>5 DEF Illegible
<1>7. /\ klass \notin WrapperClasses /\ klass # "source-bundle-hash-mismatch"
      /\ klass \notin AttestationClasses
                      \cup {"verdict-disagreement", "disclosed-content-mismatch"}
  BY Zenon DEF MalformedClasses, WrapperClasses, AttestationClasses
<1>8. EXPECTED_EXIT(klass) = 2 /\ ExitCode(r.status, r.notes) = 2
  BY <1>6, ExitCodes, ExpectedExits
<1> QED BY <1>6, <1>7, <1>8, Zenon DEF Declared

-----------------------------------------------------------------------------
(* The altered records, one by one.                                        *)

GoldenRecord == GoldenRecords[1]

\* The parts of the record the generators alter.
LEMMA GoldenRecordParts ==
  /\ WellFormed(GoldenRecord) /\ verify_rsa_pss_sha256(GoldenRecord)
  /\ TamperPieces(GoldenRecord) /\ Alterable(GoldenSource.events[1], GoldenRecord)
  /\ Golden.export.attestations[1] = GoldenRecord
<1>1. IntactRecord(GoldenSource, GoldenRecord)
  BY GoldenParts DEF GoldenRecord
<1>2. TamperPieces(GoldenRecord) /\ Alterable(GoldenSource.events[1], GoldenRecord)
  BY FixtureAssumption, Zenon DEF GoldenRecord, GoldenRecords, GoldenSource
<1>3. Golden.export.attestations[1] = GoldenRecord
  BY GoldenIs DEF Made, GoldenRecord
<1> QED BY <1>1, <1>2, <1>3 DEF IntactRecord

\* Another signature is none.
LEMMA SignatureReplaced ==
  ASSUME NEW sig, sig # Absent, sig # GoldenRecord.signature
  PROVE  LET rec == [GoldenRecord EXCEPT !.signature = sig]
         IN /\ ~Unparseable(rec) /\ NamedTx(rec) = NamedTx(GoldenRecord)
            /\ ~verify_rsa_pss_sha256(rec)
<1> DEFINE rec == [GoldenRecord EXCEPT !.signature = sig]
<1>1. /\ rec.shape_ok = GoldenRecord.shape_ok /\ rec.public_key = GoldenRecord.public_key
      /\ rec.payload = GoldenRecord.payload
      /\ rec.checkpoint_tx_id = GoldenRecord.checkpoint_tx_id
      /\ rec.signature = sig
  BY GoldenRecordParts DEF WellFormed
<1> HIDE DEF rec
<1>2. ~Unparseable(GoldenRecord) /\ verify_rsa_pss_sha256(GoldenRecord)
  BY GoldenRecordParts DEF WellFormed
<1>3. ~Unparseable(rec)
  BY <1>1, <1>2 DEF Unparseable
<1>4. NamedTx(rec) = NamedTx(GoldenRecord)
  BY <1>1 DEF NamedTx
<1>5. ~verify_rsa_pss_sha256(rec)
  BY <1>1, <1>2 DEF verify_rsa_pss_sha256
<1> QED BY <1>3, <1>4, <1>5 DEF rec

\* So is the signature of another payload.
LEMMA SubjectReplaced ==
  LET rec == [GoldenRecord EXCEPT !.payload.subject_ref = _flip(@)]
  IN /\ ~Unparseable(rec) /\ NamedTx(rec) = NamedTx(GoldenRecord)
     /\ ~verify_rsa_pss_sha256(rec)
<1> DEFINE payload == [GoldenRecord.payload EXCEPT !.subject_ref = _flip(@)]
           rec == [GoldenRecord EXCEPT !.payload.subject_ref = _flip(@)]
<1>1. rec = [GoldenRecord EXCEPT !.payload = payload]
  BY Zenon
<1>2. payload # GoldenRecord.payload
  <2>1. payload.subject_ref = _flip(GoldenRecord.payload.subject_ref)
    BY GoldenRecordParts DEF Alterable
  <2> QED BY <2>1, GoldenRecordParts DEF Alterable
<1> HIDE DEF payload, rec
<1>3. /\ rec.shape_ok = GoldenRecord.shape_ok /\ rec.public_key = GoldenRecord.public_key
      /\ rec.payload = payload
      /\ rec.checkpoint_tx_id = GoldenRecord.checkpoint_tx_id
      /\ rec.signature = GoldenRecord.signature
  BY <1>1, GoldenRecordParts DEF WellFormed
<1>4. ~Unparseable(GoldenRecord) /\ verify_rsa_pss_sha256(GoldenRecord)
  BY GoldenRecordParts DEF WellFormed
<1>5. ~Unparseable(rec)
  BY <1>3, <1>4 DEF Unparseable
<1>6. NamedTx(rec) = NamedTx(GoldenRecord)
  BY <1>3 DEF NamedTx
<1>7. \A key : SignatureBy(key, payload) # SignatureBy(key, GoldenRecord.payload)
  BY <1>2 DEF SignatureBy
<1>8. ~verify_rsa_pss_sha256(rec)
  BY <1>3, <1>4, <1>7 DEF verify_rsa_pss_sha256
<1> QED BY <1>5, <1>6, <1>8 DEF rec

\* The two records of the fixture say the wrong thing, but well formed.
LEMMA FixtureRecords ==
  /\ LET rec == Fixture.wrong_operator
     IN /\ ~Unparseable(rec) /\ NamedTx(rec) = NamedTx(GoldenRecord)
        /\ rec.payload.operator # OperatorAddress(rec.public_key.n)
  /\ LET rec == Fixture.wrong_data_hash
     IN /\ ~Unparseable(rec) /\ NamedTx(rec) = NamedTx(GoldenRecord)
        /\ Len(chain) = 1 /\ bundle = GoldenSource => ~DataHashBound(rec, 1)
<1>1. LET rec == Fixture.wrong_operator
      IN /\ ~Unparseable(rec) /\ NamedTx(rec) = NamedTx(GoldenRecord)
         /\ rec.payload.operator # OperatorAddress(rec.public_key.n)
  BY GoldenRecordParts, Zenon DEF TamperPieces, WellFormed
<1> DEFINE rec == Fixture.wrong_data_hash
<1>2. /\ ~Unparseable(rec) /\ NamedTx(rec) = NamedTx(GoldenRecord)
      /\ \A i \in DOMAIN GoldenSource.checkpoints :
           GoldenSource.checkpoints[i].tx_id = NamedTx(GoldenRecord) =>
             rec.payload.data_hash # Sha256(GoldenSource.checkpoints[i].envelope)
  BY GoldenRecordParts, Zenon DEF TamperPieces, WellFormed, GoldenSource
<1> HIDE DEF rec
<1>3. Len(chain) = 1 /\ bundle = GoldenSource => ~DataHashBound(rec, 1)
  <2> SUFFICES ASSUME Len(chain) = 1, bundle = GoldenSource, NEW i \in Listed(NamedTx(rec), 1),
                      rec.payload.data_hash = Sha256(Source(1).checkpoints[i].envelope)
               PROVE  FALSE
    BY Zenon DEF DataHashBound
  <2>s. Source(1) = bundle
    BY DEF Source
  <2>1. i \in DOMAIN bundle.checkpoints /\ bundle.checkpoints[i].tx_id = NamedTx(rec)
    BY <2>s, Zenon DEF Listed
  <2> QED BY <1>2, <2>s, <2>1
<1> QED BY <1>1, <1>2, <1>3, Zenon DEF rec

\* A record with a field missing does not parse.
LEMMA ShapeReplaced == Unparseable([GoldenRecord EXCEPT !.shape_ok = FALSE])
<1>1. GoldenRecord = [shape_ok |-> TRUE, checkpoint_tx_id |-> GoldenRecord.checkpoint_tx_id,
                      payload |-> GoldenRecord.payload, public_key |-> GoldenRecord.public_key,
                      signature |-> GoldenRecord.signature]
  BY GoldenRecordParts DEF WellFormed
<1>2. [GoldenRecord EXCEPT !.shape_ok = FALSE].shape_ok = FALSE
  BY <1>1
<1> QED BY <1>2 DEF Unparseable

-----------------------------------------------------------------------------
(* The other cases, one by one.                                            *)

\* What is wrong with a wrapper in two of the classes.
BrokenWrappers == {{"signature"}, {"body_hash", "signature"}}

\* A wrapper that is not in order.
LEMMA WrapperCase ==
  ASSUME NEW klass \in WrapperClasses, NEW source, NEW defects, NEW r,
         defects \in BrokenWrappers,
         Called(source, [Golden.export EXCEPT !.defects = defects], r)
  PROVE  Declared(klass, r.status, r.notes)
<1> DEFINE e == Golden.export
           x == [e EXCEPT !.defects = defects]
<1>1. ASSUME NEW hash, NEW records, NEW verdict, NEW yes, e = Made(yes, hash, records, verdict)
      PROVE  [e EXCEPT !.defects = defects].defects = defects
  BY <1>1, Zenon DEF Made
<1>2. x.defects = defects
  BY <1>1, GoldenIs, Zenon
<1>3. defects \cap Malforming = {} /\ defects \cap Tampering # {}
  <2>1. "signature" \notin Malforming /\ "body_hash" \notin Malforming
    BY Zenon DEF Malforming
  <2>2. "signature" \in Tampering
    BY DEF Tampering
  <2> QED BY <2>1, <2>2 DEF BrokenWrappers
<1>4. Refused(x, r)
  BY Zenon DEF Called, Decided
<1>5. r.status = "failed" /\ r.notes = {"wrapper"}
  BY <1>2, <1>3, <1>4, Zenon DEF Refused
<1>6. /\ klass # "source-bundle-hash-mismatch"
      /\ klass \notin AttestationClasses
                      \cup {"verdict-disagreement", "disclosed-content-mismatch"}
      /\ klass \in Classes \ ({"positive", "source-bundle-ref-offline"} \cup MalformedClasses)
  BY Zenon DEF WrapperClasses, AttestationClasses, Classes, MalformedClasses
<1>7. EXPECTED_EXIT(klass) = 1 /\ ExitCode(r.status, r.notes) = 1
  BY <1>5, <1>6, ExitCodes, ExpectedExits
<1> QED BY <1>5, <1>6, <1>7, Zenon DEF Declared

\* A hash that is not that of the source.
LEMMA HashCase ==
  ASSUME NEW r,
         Called(GoldenSource,
                WithExport([Golden.export EXCEPT !.source_bundle_hash = _flip(@)]).export, r)
  PROVE  Declared("source-bundle-hash-mismatch", r.status, r.notes)
<1> DEFINE hash == _flip(Sha256(GoldenSource))
           x == Made(TRUE, hash, GoldenRecords, GoldenVerdict)
<1>1. hash # Sha256(GoldenSource)
  BY GoldenRecordParts, Zenon DEF Alterable, GoldenSource
<1>2. Called(GoldenSource, x, r)
  BY HashReplaced, Zenon
<1>4. /\ r.status = "failed" /\ "wrapper" \notin r.notes
      /\ "linkage" \in r.notes
      /\ "agreement" \in r.notes <=> ~Agrees(x)
  <2>1. /\ r.status = IF Linked(x) /\ Agrees(x)
                      THEN RollupOver(OfflineStatus, FoundIn(x)) ELSE "failed"
        /\ "wrapper" \notin r.notes
        /\ "linkage" \in r.notes <=> hash # Sha256(GoldenSource)
        /\ "agreement" \in r.notes <=> ~Agrees(x)
        /\ Linked(x) <=> hash = Sha256(GoldenSource)
    BY <1>2, InlineDecided, GoldenParse, Zenon
  <2> HIDE DEF x, hash
  <2> QED BY <1>1, <2>1
<1>5. Agrees(x)
  <2>1. x.attestations = GoldenRecords /\ x.kernel_verdict = GoldenVerdict
    BY DEF Made
  <2>2. GoldenTrace /\ OfflineEvents = GoldenVerdict.events
    BY <1>2, GoldenCalled, Zenon
  <2> HIDE DEF x
  <2> QED BY <2>1, <2>2, GoldenAgreement, Zenon DEF Agrees
<1>6. EXPECTED_EXIT("source-bundle-hash-mismatch") = 1
  BY Zenon DEF EXPECTED_EXIT, MalformedClasses
<1>7. /\ "source-bundle-hash-mismatch" \notin WrapperClasses
      /\ "source-bundle-hash-mismatch" \notin
           AttestationClasses \cup {"verdict-disagreement", "disclosed-content-mismatch"}
  BY Zenon DEF WrapperClasses, AttestationClasses
<1> QED BY <1>4, <1>5, <1>6, <1>7, ExitCodes, Zenon DEF Declared

\* A verdict that says another thing of the first event.
LEMMA VerdictCase ==
  ASSUME NEW r,
         Called(GoldenSource,
                WithExport([Golden.export EXCEPT
                              !.kernel_verdict.events[1].signature_ok = FALSE]).export, r)
  PROVE  Declared("verdict-disagreement", r.status, r.notes)
<1> DEFINE hash == Sha256(GoldenSource)
           verdict == [GoldenVerdict EXCEPT !.events[1].signature_ok = FALSE]
           x == Made(TRUE, hash, GoldenRecords, verdict)
<1>1. Called(GoldenSource, x, r)
  BY VerdictReplaced, Zenon
<1>2. verdict.events # GoldenVerdict.events
  <2>1. /\ GoldenVerdict = [status |-> "verified", events |-> GoldenVerdict.events,
                            checkpoints |-> GoldenVerdict.checkpoints]
        /\ GoldenVerdict.events = [i \in 1 .. Len(GoldenSource.events) |-> GoldenVerdict.events[i]]
    BY GoldenParts DEF IntactVerdict
  <2>2. /\ GoldenVerdict.events[1].signature_ok = TRUE
        /\ "signature_ok" \in DOMAIN GoldenVerdict.events[1]
    BY GoldenParts DEF IntactVerdict
  <2> DEFINE first == [GoldenVerdict.events[1] EXCEPT !.signature_ok = FALSE]
             evs == [GoldenVerdict.events EXCEPT ![1] = first]
  <2>3. verdict = [GoldenVerdict EXCEPT !.events = evs]
    BY Zenon
  <2>4. first.signature_ok = FALSE
    BY <2>2
  <2> HIDE DEF first
  <2>5. evs[1] = first
    BY <2>1, GoldenParts
  <2> HIDE DEF evs, verdict
  <2>6. verdict.events = evs
    BY <2>1, <2>3
  <2> QED BY <2>2, <2>4, <2>5, <2>6
<1>4. /\ r.status = IF Linked(x) /\ Agrees(x)
                    THEN RollupOver(OfflineStatus, FoundIn(x)) ELSE "failed"
      /\ "wrapper" \notin r.notes
      /\ "linkage" \notin r.notes
      /\ "agreement" \in r.notes <=> ~Agrees(x)
  <2> HIDE DEF verdict
  <2> QED BY <1>1, InlineDecided, GoldenParse, Zenon
<1>5. OfflineEvents = GoldenVerdict.events
  BY <1>1, GoldenCalled, Zenon
<1>6. ~Agrees(x)
  <2> HIDE DEF verdict
  <2>1. x.kernel_verdict = verdict
    BY DEF Made
  <2> HIDE DEF x
  <2> QED BY <1>2, <1>5, <2>1 DEF Agrees
<1> HIDE DEF x
<1>7. r.status = "failed" /\ "agreement" \in r.notes
  BY <1>4, <1>6
<1> QED BY <1>4, <1>7, DisagreementDeclared DEF AgreementClasses

\* The source signed again is the altered one, and the export refers to it.
LEMMA OtherCaseIs ==
  BuildCase("disclosed-content-mismatch") =
    [source |-> OtherSource,
     export |-> Made(TRUE, Sha256(OtherSource), GoldenRecords, GoldenVerdict)]
<1> DEFINE e == Golden.export
           other == [Golden.source EXCEPT !.events[1].content = Fixture.other_content]
           case == [source |-> Altered(other), export |-> Altered(e)]
<1>1. BuildCase("disclosed-content-mismatch") = _re_sign_source_and_export(case)
  BY Zenon DEF BuildCase, MalformedClasses
<1>2. other = OtherSource
  <2>1. Golden.source = GoldenSource
    BY GoldenIs
  <2> QED BY <2>1, Zenon DEF OtherSource
<1>3. _re_sign_wrapper(Altered(OtherSource)) = OtherSource
  <2> DEFINE altered == Altered(OtherSource)
  <2>1. OtherSource = [defects |-> {}, body_type |-> "trace", asserted |-> GoldenSource.asserted,
                       checkpoints |-> GoldenSource.checkpoints, events |-> OtherSource.events]
    BY OtherParts, Zenon
  <2>2. altered = [defects |-> {"body_hash", "signature"}, body_type |-> "trace",
                   asserted |-> GoldenSource.asserted,
                   checkpoints |-> GoldenSource.checkpoints, events |-> OtherSource.events]
    BY <2>1 DEF Altered
  <2> HIDE DEF altered
  <2>3. _re_sign_wrapper(altered)
        = [defects |-> {}, body_type |-> "trace", asserted |-> GoldenSource.asserted,
           checkpoints |-> GoldenSource.checkpoints, events |-> OtherSource.events]
    BY <2>2 DEF _re_sign_wrapper
  <2> QED BY <2>1, <2>3, Zenon DEF altered
<1>4. ASSUME NEW yes, NEW claimed, NEW new,
             e = Made(yes, claimed, GoldenRecords, GoldenVerdict)
      PROVE  _re_sign_wrapper([Altered(e) EXCEPT !.source_bundle_hash = new])
             = Made(yes, new, GoldenRecords, GoldenVerdict)
  <2> HIDE DEF e
  <2>1. Altered(e) = [defects |-> {"body_hash", "signature"}, inline |-> yes,
                      source_bundle_hash |-> claimed, attestations |-> GoldenRecords,
                      kernel_verdict |-> GoldenVerdict,
                      checkpoints |-> NoCheckpoints]
    BY <1>4 DEF Altered, Made
  <2> DEFINE linked == [Altered(e) EXCEPT !.source_bundle_hash = new]
  <2>2. linked = [defects |-> {"body_hash", "signature"}, inline |-> yes,
                  source_bundle_hash |-> new, attestations |-> GoldenRecords,
                  kernel_verdict |-> GoldenVerdict,
                  checkpoints |-> NoCheckpoints]
    BY <2>1
  <2> HIDE DEF linked
  <2>3. _re_sign_wrapper(linked) = Made(yes, new, GoldenRecords, GoldenVerdict)
    BY <2>2 DEF _re_sign_wrapper, Made
  <2> QED BY <2>3 DEF linked
<1>5. e = Made(TRUE, Sha256(GoldenSource), GoldenRecords, GoldenVerdict)
  BY GoldenIs, Zenon
<1> HIDE DEF e, other
<1>6. case.source = Altered(OtherSource) /\ case.export = Altered(e)
  BY <1>2
<1>7. _re_sign_wrapper([Altered(e) EXCEPT !.source_bundle_hash = Sha256(OtherSource)])
      = Made(TRUE, Sha256(OtherSource), GoldenRecords, GoldenVerdict)
  BY <1>4, <1>5, Zenon
<1> HIDE DEF case
<1> QED BY <1>1, <1>3, <1>6, <1>7, Zenon DEF _re_sign_source_and_export

\* The content of the first event is another one, in source and export.
LEMMA ContentCase ==
  ASSUME NEW r,
         Called(OtherSource,
                Made(TRUE, Sha256(OtherSource), GoldenRecords, GoldenVerdict), r)
  PROVE  Declared("disclosed-content-mismatch", r.status, r.notes)
<1> DEFINE hash == Sha256(OtherSource)
           x == Made(TRUE, hash, GoldenRecords, GoldenVerdict)
<1>1. /\ r.status = IF Linked(x) /\ Agrees(x)
                    THEN RollupOver(OfflineStatus, FoundIn(x)) ELSE "failed"
      /\ "wrapper" \notin r.notes
      /\ "linkage" \notin r.notes
      /\ "agreement" \in r.notes <=> ~Agrees(x)
  BY InlineDecided, GoldenParse, Zenon
<1>2. OfflineEvents # GoldenVerdict.events
  BY OtherFound, Zenon DEF Called
<1>3. x.kernel_verdict = GoldenVerdict
  BY DEF Made
<1> HIDE DEF x
<1>4. ~Agrees(x)
  BY <1>2, <1>3 DEF Agrees
<1>5. r.status = "failed" /\ "agreement" \in r.notes
  BY <1>1, <1>4
<1> QED BY <1>1, <1>5, DisagreementDeclared DEF AgreementClasses

\* The source is only referred to.
LEMMA ReferenceCase ==
  ASSUME NEW source, NEW r,
         Called(source, WithExport([Golden.export EXCEPT !.inline = FALSE]).export, r)
  PROVE  Declared("source-bundle-ref-offline", r.status, r.notes)
<1> DEFINE x == Made(FALSE, Sha256(GoldenSource), GoldenRecords, GoldenVerdict)
<1>1. Called(source, x, r)
  BY SourceWithheld, Zenon
<1>3. x.defects = {} /\ ~x.inline
  BY DEF Made
<1>4. ByReference(x, r)
  BY <1>1, Zenon DEF Called, Decided
<1> HIDE DEF x
<1>5. r.status = "partial" /\ r.notes = {"unavailable offline"}
  BY <1>3, <1>4, Zenon DEF ByReference
<1>6. /\ "wrapper" \notin r.notes /\ "linkage" \notin r.notes /\ "agreement" \notin r.notes
      /\ ExitCode(r.status, r.notes) = 3
  BY <1>5, ExitCodes, Zenon
<1>7. /\ "source-bundle-ref-offline" \notin WrapperClasses
      /\ "source-bundle-ref-offline" # "source-bundle-hash-mismatch"
      /\ "source-bundle-ref-offline" \notin
           AttestationClasses \cup {"verdict-disagreement", "disclosed-content-mismatch"}
  BY Zenon DEF WrapperClasses, AttestationClasses
<1>8. EXPECTED_EXIT("source-bundle-ref-offline") = 3
  BY ExpectedExits
<1> QED BY <1>6, <1>7, <1>8, Zenon DEF Declared

-----------------------------------------------------------------------------
(* All the cases.                                                          *)

\* A record put in the place of the first is what its class is about.
Replacing(klass, rec) ==
  /\ BuildCase(klass) = WithRecord(rec)
  /\ rec.public_key = [n |-> rec.public_key.n, e |-> rec.public_key.e]
  /\ IF klass \in MalformedClasses THEN Unparseable(rec)
     ELSE /\ ~Unparseable(rec) /\ NamedTx(rec) = NamedTx(GoldenRecord)
          /\ \/ ~verify_rsa_pss_sha256(rec)
             \/ rec.payload.operator # OperatorAddress(rec.public_key.n)
             \/ Len(chain) = 1 /\ bundle = GoldenSource => ~DataHashBound(rec, 1)

LEMMA SignatureReplacing ==
  ASSUME NEW klass, klass \notin MalformedClasses, NEW sig,
         sig # Absent, sig # GoldenRecord.signature,
         BuildCase(klass) = WithRecord([GoldenRecord EXCEPT !.signature = sig])
  PROVE  \E rec : Replacing(klass, rec)
<1> DEFINE rec == [GoldenRecord EXCEPT !.signature = sig]
<1>1. rec.public_key = [n |-> rec.public_key.n, e |-> rec.public_key.e]
  <2>1. /\ rec.public_key = GoldenRecord.public_key
        /\ GoldenRecord.public_key = [n |-> GoldenRecord.public_key.n,
                                      e |-> GoldenRecord.public_key.e]
    BY GoldenRecordParts DEF WellFormed
  <2> HIDE DEF rec
  <2> QED BY <2>1, Zenon
<1>2. /\ ~Unparseable(rec) /\ NamedTx(rec) = NamedTx(GoldenRecord)
      /\ ~verify_rsa_pss_sha256(rec)
  BY SignatureReplaced, Zenon
<1> HIDE DEF rec
<1>3. BuildCase(klass) = WithRecord(rec)
  BY Zenon DEF rec
<1> QED BY <1>1, <1>2, <1>3, Zenon DEF Replacing

LEMMA RecordOf ==
  ASSUME NEW klass \in AttestationClasses \cup MalformedClasses
  PROVE  \E rec : Replacing(klass, rec)
<1>1. /\ GoldenRecord.public_key = [n |-> GoldenRecord.public_key.n,
                                    e |-> GoldenRecord.public_key.e]
      /\ Golden.export.attestations[1] = GoldenRecord
  BY GoldenRecordParts DEF WellFormed
<1>2. CASE klass = "forged-attestation-signature"
  <2>1. BuildCase(klass)
        = WithRecord([GoldenRecord EXCEPT !.signature = _flip(GoldenRecord.signature)])
    BY <1>1, <1>2, Zenon DEF BuildCase, MalformedClasses
  <2>2. _flip(GoldenRecord.signature) \notin {Absent, GoldenRecord.signature}
    BY GoldenRecordParts, Zenon DEF Alterable
  <2>3. klass \notin MalformedClasses
    BY <1>2, Zenon DEF MalformedClasses
  <2> QED BY <2>1, <2>2, <2>3, SignatureReplacing, Zenon
<1>3. CASE klass = "mis-salted-attestation"
  <2>1. BuildCase(klass)
        = WithRecord([GoldenRecord EXCEPT !.signature = Fixture.mis_salt_sig])
    BY <1>1, <1>3, Zenon DEF BuildCase, MalformedClasses
  <2>2. Fixture.mis_salt_sig \notin {Absent, GoldenRecord.signature}
    BY GoldenRecordParts, Zenon DEF TamperPieces
  <2>3. klass \notin MalformedClasses
    BY <1>3, Zenon DEF MalformedClasses
  <2> QED BY <2>1, <2>2, <2>3, SignatureReplacing, Zenon
<1>4. CASE klass = "operator-address-binding-break"
  <2> DEFINE rec == Fixture.wrong_operator
  <2>1. BuildCase(klass) = WithRecord(rec) /\ klass \notin MalformedClasses
    BY <1>4, Zenon DEF BuildCase, MalformedClasses
  <2>2. rec.public_key = [n |-> rec.public_key.n, e |-> rec.public_key.e]
    BY GoldenRecordParts, Zenon DEF TamperPieces, WellFormed
  <2>3. /\ ~Unparseable(rec) /\ NamedTx(rec) = NamedTx(GoldenRecord)
        /\ rec.payload.operator # OperatorAddress(rec.public_key.n)
    BY FixtureRecords, Zenon
  <2> HIDE DEF rec
  <2> QED BY <2>1, <2>2, <2>3, Zenon DEF Replacing
<1>5. CASE klass = "data-hash-binding-break"
  <2> DEFINE rec == Fixture.wrong_data_hash
  <2>1. BuildCase(klass) = WithRecord(rec) /\ klass \notin MalformedClasses
    BY <1>5, Zenon DEF BuildCase, MalformedClasses
  <2>2. rec.public_key = [n |-> rec.public_key.n, e |-> rec.public_key.e]
    BY GoldenRecordParts, Zenon DEF TamperPieces, WellFormed
  <2>3. /\ ~Unparseable(rec) /\ NamedTx(rec) = NamedTx(GoldenRecord)
        /\ Len(chain) = 1 /\ bundle = GoldenSource => ~DataHashBound(rec, 1)
    BY FixtureRecords, Zenon
  <2> HIDE DEF rec
  <2> QED BY <2>1, <2>2, <2>3, Zenon DEF Replacing
<1>6. CASE klass = "subject-ref-tamper"
  <2> DEFINE rec == [GoldenRecord EXCEPT !.payload.subject_ref = _flip(@)]
  <2>1. BuildCase(klass) = WithRecord(rec) /\ klass \notin MalformedClasses
    BY <1>1, <1>6, Zenon DEF BuildCase, MalformedClasses
  <2>2. rec.public_key = GoldenRecord.public_key
    BY GoldenRecordParts DEF WellFormed
  <2>3. /\ ~Unparseable(rec) /\ NamedTx(rec) = NamedTx(GoldenRecord)
        /\ ~verify_rsa_pss_sha256(rec)
    BY SubjectReplaced, Zenon
  <2> HIDE DEF rec
  <2> QED BY <1>1, <2>1, <2>2, <2>3, Zenon DEF Replacing
<1>7. CASE klass \in MalformedClasses
  <2> DEFINE rec == [GoldenRecord EXCEPT !.shape_ok = FALSE]
  <2>1. BuildCase(klass) = WithRecord(rec)
    BY <1>1, <1>7, Zenon DEF BuildCase, MalformedClasses
  <2>2. rec.public_key = GoldenRecord.public_key
    BY GoldenRecordParts DEF WellFormed
  <2>3. Unparseable(rec)
    BY ShapeReplaced
  <2> HIDE DEF rec
  <2> QED BY <1>1, <1>7, <2>1, <2>2, <2>3, Zenon DEF Replacing
<1> QED BY <1>2, <1>3, <1>4, <1>5, <1>6, <1>7, Zenon DEF AttestationClasses

\* Apart from these, the source and the export of a class.
LEMMA OtherClasses ==
  /\ BuildCase("positive") = Golden
  /\ BuildCase("wrapper-signature-break") = [Golden EXCEPT !.export.defects = {"signature"}]
  /\ BuildCase("body-hash-mismatch") = [Golden EXCEPT !.export.defects = {"body_hash", "signature"}]
  /\ BuildCase("source-bundle-hash-mismatch")
       = WithExport([Golden.export EXCEPT !.source_bundle_hash = _flip(@)])
  /\ BuildCase("verdict-disagreement")
       = WithExport([Golden.export EXCEPT !.kernel_verdict.events[1].signature_ok = FALSE])
  /\ BuildCase("source-bundle-ref-offline")
       = WithExport([Golden.export EXCEPT !.inline = FALSE])
  /\ Classes = {"positive", "source-bundle-hash-mismatch", "verdict-disagreement",
                "disclosed-content-mismatch", "source-bundle-ref-offline",
                "wrapper-signature-break", "body-hash-mismatch"}
               \cup AttestationClasses \cup MalformedClasses
<1>1. BuildCase("positive") = Golden
  BY Zenon DEF BuildCase, MalformedClasses
<1>2. BuildCase("wrapper-signature-break") = [Golden EXCEPT !.export.defects = {"signature"}]
  BY Zenon DEF BuildCase, MalformedClasses
<1>3. BuildCase("body-hash-mismatch")
      = [Golden EXCEPT !.export.defects = {"body_hash", "signature"}]
  BY Zenon DEF BuildCase, MalformedClasses
<1>4. BuildCase("source-bundle-hash-mismatch")
       = WithExport([Golden.export EXCEPT !.source_bundle_hash = _flip(@)])
  BY Zenon DEF BuildCase, MalformedClasses
<1>5. BuildCase("verdict-disagreement")
       = WithExport([Golden.export EXCEPT !.kernel_verdict.events[1].signature_ok = FALSE])
  BY Zenon DEF BuildCase, MalformedClasses
<1>6. BuildCase("source-bundle-ref-offline")
       = WithExport([Golden.export EXCEPT !.inline = FALSE])
  BY Zenon DEF BuildCase, MalformedClasses
<1>7. Classes = {"positive", "source-bundle-hash-mismatch", "verdict-disagreement",
                 "disclosed-content-mismatch", "source-bundle-ref-offline",
                 "wrapper-signature-break", "body-hash-mismatch"}
                \cup AttestationClasses \cup MalformedClasses
  BY DEF Classes, WrapperClasses
<1> QED BY <1>1, <1>2, <1>3, <1>4, <1>5, <1>6, <1>7, Zenon

\* The forms a case may have, and what the sources of the corpus are.
FormOf(klass) ==
  \/ \E inline, hash, records, verdict, source :
       /\ inline \in BOOLEAN /\ AreRecords(records)
       /\ BuildCase(klass) = [source |-> source,
                              export |-> Made(inline, hash, records, verdict)]
       /\ source \in {GoldenSource, OtherSource}
  \/ \E defects \in BrokenWrappers :
       BuildCase(klass) = [source |-> GoldenSource,
                           export |-> [Golden.export EXCEPT !.defects = defects]]

\* With records that have keys, the golden ones are such.
LEMMA GoldenAreRecords ==
  /\ AreRecords(GoldenRecords)
  /\ \A rec : rec.public_key = [n |-> rec.public_key.n, e |-> rec.public_key.e] =>
       AreRecords([GoldenRecords EXCEPT ![1] = rec])
<1>1. IsList(GoldenRecords) /\ 1 \in 1 .. Len(GoldenRecords)
  BY GoldenParts
<1>2. ASSUME NEW a \in DOMAIN GoldenRecords
      PROVE  GoldenRecords[a].public_key
               = [n |-> GoldenRecords[a].public_key.n, e |-> GoldenRecords[a].public_key.e]
  <2>1. IntactRecord(GoldenSource, GoldenRecords[a])
    BY <1>1, GoldenParts DEF IsList
  <2> QED BY <2>1, Zenon DEF IntactRecord, WellFormed
<1>3. ASSUME NEW rec, rec.public_key = [n |-> rec.public_key.n, e |-> rec.public_key.e]
      PROVE  AreRecords([GoldenRecords EXCEPT ![1] = rec])
  <2> DEFINE list == [GoldenRecords EXCEPT ![1] = rec]
  <2>1. /\ list = [a \in 1 .. Len(GoldenRecords) |-> IF a = 1 THEN rec ELSE GoldenRecords[a]]
        /\ Len(GoldenRecords) \in Nat
    BY <1>1 DEF IsList
  <2> HIDE DEF list
  <2>2. IsList(list)
    BY <2>1 DEF IsList
  <2>3. ASSUME NEW a \in DOMAIN list
        PROVE  list[a].public_key = [n |-> list[a].public_key.n, e |-> list[a].public_key.e]
    <3>1. CASE a = 1
      <4>1. list[a] = rec
        BY <2>1, <3>1
      <4> QED BY <1>3, <4>1, Zenon
    <3>2. CASE a # 1
      <4>1. list[a] = GoldenRecords[a] /\ a \in DOMAIN GoldenRecords
        BY <1>1, <2>1, <3>2 DEF IsList
      <4> QED BY <1>2, <4>1, Zenon
    <3> QED BY <3>1, <3>2
  <2> QED BY <2>2, <2>3, Zenon DEF AreRecords, list
<1> QED BY <1>1, <1>2, <1>3, Zenon DEF AreRecords

LEMMA CaseForms ==
  ASSUME NEW klass \in Classes
  PROVE  FormOf(klass)
<1> DEFINE hash == Sha256(GoldenSource)
           e == Golden.export
<1>1. Golden = [source |-> GoldenSource, export |-> e]
  BY DEF Golden, GoldenSource
<1>2. e = Made(TRUE, hash, GoldenRecords, GoldenVerdict)
  BY GoldenIs, Zenon
<1>3. AreRecords(GoldenRecords)
  BY GoldenAreRecords, Zenon
<1> HIDE DEF hash, e
<1>4. CASE klass = "positive"
  <2>1. BuildCase(klass) = [source |-> GoldenSource,
                            export |-> Made(TRUE, hash, GoldenRecords, GoldenVerdict)]
    BY <1>1, <1>2, <1>4, OtherClasses, Zenon
  <2> QED BY <1>3, <2>1, Zenon DEF FormOf
<1>5. CASE klass \in WrapperClasses
  <2>1. PICK defects \in BrokenWrappers :
          BuildCase(klass) = [Golden EXCEPT !.export.defects = defects]
    BY <1>5, OtherClasses, Zenon DEF WrapperClasses, BrokenWrappers
  <2> DEFINE altered == [e EXCEPT !.defects = defects]
  <2>2. [Golden EXCEPT !.export.defects = defects] = [Golden EXCEPT !.export = altered]
    BY Zenon DEF e
  <2> HIDE DEF altered
  <2>3. [Golden EXCEPT !.export = altered] = [source |-> GoldenSource, export |-> altered]
    BY <1>1
  <2>4. BuildCase(klass) = [source |-> GoldenSource, export |-> altered]
    BY <2>1, <2>2, <2>3, Zenon
  <2> QED BY <2>4, Zenon DEF FormOf, altered, e
<1>6. CASE klass = "source-bundle-hash-mismatch"
  <2>1. BuildCase(klass) = [source |-> GoldenSource,
                            export |-> Made(TRUE, _flip(hash), GoldenRecords, GoldenVerdict)]
    BY <1>6, HashReplaced, OtherClasses, Zenon DEF hash
  <2> QED BY <1>3, <2>1, Zenon DEF FormOf
<1>7. CASE klass = "verdict-disagreement"
  <2> DEFINE verdict == [GoldenVerdict EXCEPT !.events[1].signature_ok = FALSE]
  <2>1. BuildCase(klass) = [source |-> GoldenSource,
                            export |-> Made(TRUE, hash, GoldenRecords, verdict)]
    BY <1>7, VerdictReplaced, OtherClasses, Zenon DEF hash
  <2> HIDE DEF verdict
  <2> QED BY <1>3, <2>1, Zenon DEF FormOf
<1>8. CASE klass = "source-bundle-ref-offline"
  <2>1. BuildCase(klass) = [source |-> GoldenSource,
                            export |-> Made(FALSE, hash, GoldenRecords, GoldenVerdict)]
    BY <1>8, SourceWithheld, OtherClasses, Zenon DEF hash
  <2> QED BY <1>3, <2>1, Zenon DEF FormOf
<1>9. CASE klass = "disclosed-content-mismatch"
  BY <1>3, <1>9, OtherCaseIs, Zenon DEF FormOf
<1>10. CASE klass \in AttestationClasses \cup MalformedClasses
  <2>1. PICK rec : Replacing(klass, rec)
    BY <1>10, RecordOf
  <2> DEFINE records == [GoldenRecords EXCEPT ![1] = rec]
  <2>2. BuildCase(klass) = [source |-> GoldenSource,
                            export |-> Made(TRUE, hash, records, GoldenVerdict)]
    BY <2>1, RecordReplaced, Zenon DEF Replacing, hash
  <2>3. AreRecords(records)
    BY <2>1, GoldenAreRecords, Zenon DEF Replacing
  <2> HIDE DEF records
  <2> QED BY <2>2, <2>3, Zenon DEF FormOf
<1> QED BY <1>4, <1>5, <1>6, <1>7, <1>8, <1>9, <1>10, OtherClasses DEF WrapperClasses

\* They are exports, each around one of the two sources.
LEMMA CasesAreExports ==
  ASSUME NEW klass \in Classes
  PROVE  /\ IsExport(BuildCase(klass).export)
         /\ BuildCase(klass).source \in {GoldenSource, OtherSource}
<1>1. ASSUME NEW inline \in BOOLEAN, NEW hash, NEW records, NEW verdict, AreRecords(records)
      PROVE  IsExport(Made(inline, hash, records, verdict))
  <2> DEFINE x == Made(inline, hash, records, verdict)
  <2>1. x = [defects |-> {}, inline |-> inline, source_bundle_hash |-> hash,
             attestations |-> records, kernel_verdict |-> verdict,
             checkpoints |-> NoCheckpoints]
    BY Zenon DEF Made
  <2>2. /\ x.defects = {} /\ x.inline = inline /\ x.source_bundle_hash = hash
        /\ x.attestations = records /\ x.kernel_verdict = verdict
    BY Zenon DEF Made
  <2> HIDE DEF x
  <2>3. x = [defects |-> x.defects, inline |-> x.inline,
             source_bundle_hash |-> x.source_bundle_hash,
             attestations |-> x.attestations, kernel_verdict |-> x.kernel_verdict,
             checkpoints |-> x.checkpoints]
    BY <2>1, <2>2, Zenon
  <2>4. x.defects \subseteq Malforming \cup Tampering \cup {"no fields"}
    BY <2>2, Zenon
  <2> QED BY <1>1, <2>2, <2>3, <2>4, Zenon DEF IsExport, x
<1>2. ASSUME NEW defects \in BrokenWrappers
      PROVE  IsExport([Golden.export EXCEPT !.defects = defects])
  <2> DEFINE e == Golden.export
             x == [e EXCEPT !.defects = defects]
  <2>1. IsExport(e)
    BY <1>1, GoldenIs, GoldenAreRecords, Zenon
  <2> HIDE DEF e
  <2>2. e = [defects |-> e.defects, inline |-> e.inline,
             source_bundle_hash |-> e.source_bundle_hash,
             attestations |-> e.attestations, kernel_verdict |-> e.kernel_verdict,
             checkpoints |-> e.checkpoints]
    BY <2>1, Zenon DEF IsExport
  <2>3. x = [defects |-> defects, inline |-> e.inline,
             source_bundle_hash |-> e.source_bundle_hash,
             attestations |-> e.attestations, kernel_verdict |-> e.kernel_verdict,
             checkpoints |-> e.checkpoints]
    BY <2>2
  <2>4. defects \subseteq Tampering
    BY DEF Tampering, BrokenWrappers
  <2> HIDE DEF x
  <2>5. /\ x.defects = defects /\ x.inline = e.inline
        /\ x.source_bundle_hash = e.source_bundle_hash
        /\ x.attestations = e.attestations /\ x.kernel_verdict = e.kernel_verdict
    BY <2>3, Zenon
  <2>6. x = [defects |-> x.defects, inline |-> x.inline,
             source_bundle_hash |-> x.source_bundle_hash,
             attestations |-> x.attestations, kernel_verdict |-> x.kernel_verdict,
             checkpoints |-> x.checkpoints]
    BY <2>3, <2>5, Zenon
  <2>7. /\ x.defects \subseteq Malforming \cup Tampering \cup {"no fields"}
        /\ x.inline \in BOOLEAN /\ AreRecords(x.attestations)
    BY <2>1, <2>4, <2>5, Zenon DEF IsExport
  <2> QED BY <2>6, <2>7, Zenon DEF IsExport, x, e
<1>3. FormOf(klass)
  BY CaseForms
<1>4. ASSUME NEW source, NEW x, BuildCase(klass) = [source |-> source, export |-> x]
      PROVE  BuildCase(klass).source = source /\ BuildCase(klass).export = x
  BY <1>4
<1>5. CASE \E inline, hash, records, verdict, source :
             /\ inline \in BOOLEAN /\ AreRecords(records)
             /\ BuildCase(klass) = [source |-> source,
                                    export |-> Made(inline, hash, records, verdict)]
             /\ source \in {GoldenSource, OtherSource}
  <2>1. PICK inline, hash, records, verdict, source :
             /\ inline \in BOOLEAN /\ AreRecords(records)
             /\ BuildCase(klass) = [source |-> source,
                                    export |-> Made(inline, hash, records, verdict)]
             /\ source \in {GoldenSource, OtherSource}
    BY <1>5, Zenon
  <2>2. /\ BuildCase(klass).source = source
        /\ BuildCase(klass).export = Made(inline, hash, records, verdict)
    BY <1>4, <2>1, Zenon
  <2> QED BY <1>1, <2>1, <2>2, Zenon
<1>6. CASE \E defects \in BrokenWrappers :
             BuildCase(klass) = [source |-> GoldenSource,
                                 export |-> [Golden.export EXCEPT !.defects = defects]]
  <2>1. PICK defects \in BrokenWrappers :
             BuildCase(klass) = [source |-> GoldenSource,
                                 export |-> [Golden.export EXCEPT !.defects = defects]]
    BY <1>6, Zenon
  <2>2. /\ BuildCase(klass).source = GoldenSource
        /\ BuildCase(klass).export = [Golden.export EXCEPT !.defects = defects]
    BY <1>4, <2>1, Zenon
  <2>3. IsExport([Golden.export EXCEPT !.defects = defects])
    BY <1>2
  <2> QED BY <2>2, <2>3, Zenon
<1> QED BY <1>3, <1>5, <1>6, Zenon DEF FormOf

\* Every case is found as its class declares.
LEMMA CaseDeclared ==
  ASSUME NEW klass \in Classes, NEW r,
         Called(BuildCase(klass).source, BuildCase(klass).export, r)
  PROVE  Declared(klass, r.status, r.notes)
<1>1. Golden.source = GoldenSource
  BY GoldenIs
<1>2. CASE klass = "positive"
  BY <1>1, <1>2, OtherClasses, PositiveCase, Zenon
<1>3. CASE klass \in WrapperClasses
  <2>1. PICK defects \in BrokenWrappers :
          BuildCase(klass) = [Golden EXCEPT !.export.defects = defects]
    BY <1>3, OtherClasses, Zenon DEF WrapperClasses, BrokenWrappers
  <2> DEFINE e == Golden.export
             x == [e EXCEPT !.defects = defects]
  <2>2. Golden = [source |-> GoldenSource, export |-> e]
    BY DEF Golden, GoldenSource
  <2>3. [Golden EXCEPT !.export.defects = defects] = [Golden EXCEPT !.export = x]
    BY Zenon
  <2> HIDE DEF x, e
  <2>4. [Golden EXCEPT !.export = x].export = x
    BY <2>2
  <2>5. BuildCase(klass).export = x
    BY <2>1, <2>3, <2>4, Zenon
  <2>6. Called(BuildCase(klass).source, x, r)
    BY <2>5, Zenon
  <2> QED BY <1>3, <2>6, WrapperCase, Zenon DEF x, e
<1>4. CASE klass = "source-bundle-hash-mismatch"
  <2>1. BuildCase(klass).source = GoldenSource
    BY <1>4, OtherClasses, HashReplaced, Zenon
  <2> QED BY <1>4, <2>1, OtherClasses, HashCase, Zenon
<1>5. CASE klass = "verdict-disagreement"
  <2>1. BuildCase(klass).source = GoldenSource
    BY <1>5, OtherClasses, VerdictReplaced, Zenon
  <2> QED BY <1>5, <2>1, OtherClasses, VerdictCase, Zenon
<1>6. CASE klass = "source-bundle-ref-offline"
  BY <1>6, OtherClasses, ReferenceCase, Zenon
<1>7. CASE klass = "disclosed-content-mismatch"
  <2> DEFINE x == Made(TRUE, Sha256(OtherSource), GoldenRecords, GoldenVerdict)
  <2>1. BuildCase(klass) = [source |-> OtherSource, export |-> x]
    BY <1>7, OtherCaseIs, Zenon
  <2> HIDE DEF x
  <2>2. BuildCase(klass).source = OtherSource /\ BuildCase(klass).export = x
    BY <2>1
  <2> QED BY <1>7, <2>2, ContentCase, Zenon DEF x
<1>8. CASE klass \in AttestationClasses \cup MalformedClasses
  <2>1. PICK rec : Replacing(klass, rec)
    BY <1>8, RecordOf
  <2>2. WithRecord(rec).source = GoldenSource
    BY RecordReplaced, Zenon
  <2>3. /\ Called(GoldenSource, WithRecord(rec).export, r)
        /\ bundle = GoldenSource /\ Len(chain) = 1
    BY <2>1, <2>2, Zenon DEF Replacing, Called
  <2>4. CASE klass \in MalformedClasses
    BY <2>1, <2>3, <2>4, UnparseableCase, Zenon DEF Replacing
  <2>5. CASE klass \notin MalformedClasses
    <3>1. klass \in AgreementClasses
      BY <1>8, <2>5, Zenon DEF AgreementClasses
    <3> QED BY <2>1, <2>3, <2>5, <3>1, RecordCase, Zenon DEF Replacing, GoldenRecord
  <2> QED BY <2>4, <2>5
<1> QED BY <1>2, <1>3, <1>4, <1>5, <1>6, <1>7, <1>8, OtherClasses DEF WrapperClasses

\* Exports of the corpus are exports.
LEMMA CorpusIsGiven == CorpusSpec => GivenSpec
<1>1. ExportInit => GivenInit
  <2> SUFFICES ASSUME ExportInit PROVE GivenInit
    OBVIOUS
  <2>1. chain = <<>> /\ edits = 0 /\ draft = <<>>
    BY DEF ExportInit, Idle
  <2>2. ArtifactsInv
    BY <2>1, BoundsAssumption DEF ArtifactsInv, IsSeq
  <2> QED BY <2>2 DEF ExportInit, GivenInit
<1>2. CorpusInit => GivenInit
  <2> SUFFICES ASSUME CorpusInit PROVE GivenInit
    OBVIOUS
  <2>1. PICK klass \in Classes :
          bundle = BuildCase(klass).source /\ chain = <<BuildCase(klass).export>>
    BY Zenon DEF CorpusInit
  <2>2. edits = MaxEdits /\ draft = <<>> /\ Idle
    BY DEF CorpusInit, Idle
  <2>3. bundle \in Bundles /\ MaxNesting > 0
    <3>1. bundle \in {GoldenSource, OtherSource}
      BY <2>1, CasesAreExports
    <3>2. GoldenSource \in Bundles /\ OtherSource \in Bundles /\ MaxNesting > 0
      BY CorpusAssumption, Zenon DEF GoldenSource, OtherSource
    <3> QED BY <3>1, <3>2
  <2> DEFINE x == BuildCase(klass).export
  <2>4. IsExport(x)
    BY CasesAreExports
  <2>5. chain = <<x>>
    BY <2>1
  <2> HIDE DEF x
  <2>6. IsSeq(chain) /\ Len(chain) = 1 /\ chain[1] = x
    BY <2>5 DEF IsSeq
  <2>7. \A k \in 1 .. Len(chain) : IsExport(chain[k])
    BY <2>4, <2>6
  <2>8. ArtifactsInv
    BY <2>2, <2>3, <2>6, <2>7, BoundsAssumption DEF ArtifactsInv
  <2> QED BY <2>2, <2>3, <2>8 DEF GivenInit
<1> QED BY <1>1, <1>2, PTL DEF CorpusSpec, GivenSpec

(***************************************************************************)
(* Whatever the golden file and its pre-signed pieces are, if they are     *)
(* what FixtureAssumption takes them to be, each export the generator      *)
(* builds from them gets the exit code its class declares, and fails the   *)
(* checks its class is about and no others (build_cases, EXPECTED_EXIT).   *)
(***************************************************************************)
THEOREM CorpusExitsAsDeclared == CorpusSpec => []DeclaredExit
<1>1. EInv /\ OneInv => DeclaredExit
  <2> SUFFICES ASSUME EInv, OneInv, epc = "done", gateways = <<>>, content = NoContent,
                      NEW klass \in Classes, IsCase(klass)
               PROVE  Declared(klass, source_result.status, source_result.notes)
    BY Zenon DEF DeclaredExit, Declared, verdict_record
  <2>1. /\ Len(chain) = 1
        /\ bundle = BuildCase(klass).source /\ chain[1] = BuildCase(klass).export
    <3>1. Len(chain) = 1 /\ BuildCase(klass) = [source |-> bundle, export |-> chain[1]]
      BY Zenon DEF IsCase
    <3> QED BY <3>1
  <2>2. bundle.defects = {} /\ bundle.body_type = "trace"
    <3>1. bundle \in {GoldenSource, OtherSource}
      BY <2>1, CasesAreExports
    <3>2. CASE bundle = GoldenSource
      BY <3>2, GoldenParts DEF IntactSource
    <3>3. CASE bundle = OtherSource
      BY <3>3, OtherParts
    <3> QED BY <3>1, <3>2, <3>3
  <2>3. WrapperVerdict = "trace"
    BY <2>2, WrapperRead
  <2>4. OneExport
    BY <2>1, <2>3 DEF OneExport, EInv, FrameInv
  <2>5. Decided(chain[1], source_result)
    BY <2>4 DEF OneInv
  <2>6. Called(BuildCase(klass).source, BuildCase(klass).export, source_result)
    BY <2>1, <2>5, Zenon DEF Called
  <2> QED BY <2>6, CaseDeclared
<1> QED BY <1>1, CorpusIsGiven, ExportInvariance, OneInvariance, PTL
=============================================================================
